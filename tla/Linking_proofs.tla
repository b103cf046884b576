--------------------------- MODULE Linking_proofs ---------------------------
(***************************************************************************)
(* Linking proved for any set of libraries, host functions and objects:     *)
(* every pair of code and context that exists belongs together, and so      *)
(* every call enters code at its type and in an instance of its library;    *)
(* then, what a build leaves in the tables and globals.                     *)
(*                                                                         *)
(* Pairs are only ever copied, so that they belong is inductive but for     *)
(* three things: what a slot may be read as (Typing), that a table or a     *)
(* global an instance refers to is there (Referents), as an entry is read   *)
(* through the slot, and that the type a pair is handed on with is that of  *)
(* its code (SlotsTyped, EntriesTyped), which tryImport and                 *)
(* __sable_table_check compare.                                            *)
(***************************************************************************)
EXTENDS Linking, TLAPS

Phases == {"absent", "linking", "built", "failed"} \cup Building
Bindings(l) == [Functions(l) -> Slot]

\* What each variable may hold.
Typing ==
  /\ table \in [Table -> {Null} \cup UNION {TableOf(n) : n \in Word}]
  /\ global \in [Global -> Word \cup {Null}]
  /\ phase \in [Instance -> Phases]
  /\ lib \in [Instance -> Library \cup {Null}]
  /\ next \in [Instance -> Nat]
  /\ tslot \in [Instance -> Table \cup {Null}]
  /\ gslot \in [Instance -> Global \cup {Null}]
  /\ fslot \in [Instance -> {<<>>} \cup UNION {Bindings(l) : l \in Library}]

\* What the phase of an instance says about it.
Lives(i) ==
  /\ phase[i] = "absent" => tslot[i] = Null /\ gslot[i] = Null /\ fslot[i] = <<>>
  /\ phase[i] # "absent" => lib[i] \in Library /\ fslot[i] \in Bindings(lib[i])
  /\ phase[i] \in Building => next[i] >= 1

\* What an instance refers to is there, and what it will delete is not the host's.
Refers(i) ==
  /\ tslot[i] # Null => table[tslot[i]] # Null
  /\ gslot[i] # Null => global[gslot[i]] # Null
  /\ phase[i] # "absent" /\ Decl[lib[i]].global.kind = "define" => gslot[i] \notin hostGlobals

Referents ==
  /\ \A i \in Instance : Lives(i) /\ Refers(i)
  /\ hostGlobals \subseteq Global
  /\ \A g \in hostGlobals : global[g] # Null

\* PairsBelong, slot by slot and entry by entry, for instances of the libraries
\* L in the phases P.
Stored == {"elements", "missing", "built", "failed"}
Belongs(c, f, L, P) ==
  /\ f = Null => c = Null
  /\ c = Null <=> f \in HostFn \cup {Null}
  /\ c # Null => /\ f \notin HostFn /\ L[c] = f[1] /\ ~IsImport(f[1], f[2])
                 /\ P[c] \in Stored

SlotsBelong ==
  \A i \in Instance : \A k \in DOMAIN fslot[i] :
    Belongs(fslot[i][k].ctx, fslot[i][k].code, lib, phase)
EntriesBelong ==
  \A t \in LiveTables : \A x \in Indices(t) :
    Belongs(table[t].at[x].ctx, table[t].at[x].code, lib, phase)

\* Code is handed on with its own type.
SlotsTyped ==
  \A i \in Instance : \A k \in DOMAIN fslot[i] :
    fslot[i][k].code # Null => TrueSignature(fslot[i][k].code) = Decl[lib[i]].funcs[k].sig
EntriesTyped ==
  \A t \in LiveTables : \A x \in Indices(t) :
    table[t].at[x].code # Null => TrueSignature(table[t].at[x].code) = table[t].at[x].sig

Belonging == SlotsBelong /\ EntriesBelong /\ SlotsTyped /\ EntriesTyped
IInv == Typing /\ Referents /\ Belonging

-----------------------------------------------------------------------------
(* Objects of the heap, and pairs.                                         *)

LEMMA LiveTable ==
  ASSUME Typing, NEW t \in Table, table[t] # Null
  PROVE  /\ table[t].size \in Word /\ table[t].max \in Word
         /\ table[t].at \in [0 .. table[t].size - 1 -> Entry]
         /\ table[t] = [size |-> table[t].size, max |-> table[t].max, at |-> table[t].at]
<1>1. PICK n \in Word : table[t] \in TableOf(n)
  BY DEF Typing
<1> QED
  BY <1>1 DEF TableOf

\* An object with entries is a table, and none is null.
LEMMA MadeTable ==
  ASSUME NEW n \in Word, NEW m \in Word, NEW a \in [0 .. n - 1 -> Entry]
  PROVE  /\ [size |-> n, max |-> m, at |-> a] \in UNION {TableOf(o) : o \in Word}
         /\ [size |-> n, max |-> m, at |-> a] # Null
<1>1. [size |-> n, max |-> m, at |-> a] \in TableOf(n)
  BY DEF TableOf
<1> QED
  BY <1>1, NullAssumption

\* What tryImport and table.set copy: a pair still belongs as long as its
\* instance stays of its library and keeps its functions.
LEMMA StillBelongs ==
  ASSUME NEW c, NEW f, NEW L, NEW P, NEW M, NEW Q, Belongs(c, f, L, P),
         c # Null => M[c] = L[c] /\ Q[c] \in Stored
  PROVE  Belongs(c, f, M, Q)
BY DEF Belongs

LEMMA NullBelongs ==
  ASSUME NEW L, NEW P  PROVE Belongs(Null, Null, L, P)
BY DEF Belongs

LEMMA HostBelongs ==
  ASSUME NEW h \in HostFn, NEW L, NEW P  PROVE Belongs(Null, h, L, P)
BY NullAssumption DEF Belongs, Code

\* The invariant says of the pairs what PairsBelong says.
LEMMA BelongingSuffices ==
  ASSUME SlotsBelong, EntriesBelong  PROVE PairsBelong
<1> SUFFICES ASSUME NEW p \in Pairs PROVE Belongs(p.ctx, p.code, lib, phase)
  BY DEF PairsBelong, Belongs, Defines, Stored
<1>1. CASE \E i \in Instance : \E k \in DOMAIN fslot[i] :
             p = [ctx |-> fslot[i][k].ctx, code |-> fslot[i][k].code]
  BY <1>1 DEF SlotsBelong
<1>2. CASE \E t \in LiveTables : \E x \in Indices(t) :
             p = [ctx |-> table[t].at[x].ctx, code |-> table[t].at[x].code]
  BY <1>2 DEF EntriesBelong
<1> QED
  BY <1>1, <1>2 DEF Pairs

-----------------------------------------------------------------------------
(* Steps that copy no pair.                                                *)

\* Instances that have stored their functions keep their library and them.
Keeps == \A c \in Instance : phase[c] \in Stored => lib'[c] = lib[c] /\ phase'[c] \in Stored

LEMMA SlotsKept ==
  ASSUME Typing, SlotsBelong, Keeps, fslot' = fslot
  PROVE  SlotsBelong'
<1> SUFFICES ASSUME NEW i \in Instance, NEW k \in DOMAIN fslot[i]
             PROVE  Belongs(fslot[i][k].ctx, fslot[i][k].code, lib', phase')
  BY DEF SlotsBelong
<1>1. Belongs(fslot[i][k].ctx, fslot[i][k].code, lib, phase)
  BY DEF SlotsBelong
<1>2. fslot[i][k].ctx \in Instance \cup {Null}
  BY DEF Typing, Bindings, Slot
<1> QED
  BY <1>1, <1>2, StillBelongs DEF Keeps, Belongs

LEMMA EntriesKept ==
  ASSUME Typing, EntriesBelong, Keeps, table' = table
  PROVE  EntriesBelong'
<1> SUFFICES ASSUME NEW t \in LiveTables, NEW x \in Indices(t)
             PROVE  Belongs(table[t].at[x].ctx, table[t].at[x].code, lib', phase')
  BY DEF EntriesBelong, LiveTables, Indices
<1>1. Belongs(table[t].at[x].ctx, table[t].at[x].code, lib, phase)
  BY DEF EntriesBelong
<1>2. table[t].at[x].ctx \in Instance \cup {Null}
  BY LiveTable DEF LiveTables, Indices, Entry
<1> QED
  BY <1>1, <1>2, StillBelongs DEF Keeps, Belongs

LEMMA BelongingKept ==
  ASSUME Typing, Belonging, Keeps, UNCHANGED <<table, fslot, lib>>
  PROVE  Belonging'
<1>1. SlotsBelong' /\ EntriesBelong'
  BY SlotsKept, EntriesKept DEF Belonging
<1>2. SlotsTyped' /\ EntriesTyped'
  BY DEF Belonging, SlotsTyped, EntriesTyped, LiveTables, Indices
<1> QED
  BY <1>1, <1>2 DEF Belonging

\* A step that is none of the linker's.
LEMMA NothingMoved ==
  ASSUME IInv, UNCHANGED <<cells, phase, lib, next, slots>>
  PROVE  IInv'
BY DEF IInv, Typing, Referents, Lives, Refers, Belonging, SlotsBelong, EntriesBelong,
       SlotsTyped, EntriesTyped, LiveTables, Indices, cells, slots

\* A step that moves nothing an instance holds: its references stay what they are.
LEMMA ReferentsKept ==
  ASSUME Referents, UNCHANGED <<phase, lib, next, slots, hostGlobals>>,
         \A t \in Table : table[t] # Null /\ (\E i \in Instance : tslot[i] = t) => table'[t] # Null,
         \A g \in Global : global[g] # Null => global'[g] # Null,
         Typing
  PROVE  Referents'
<1>1. ASSUME NEW i \in Instance  PROVE Lives(i)' /\ Refers(i)'
  <2>1. Lives(i) /\ Refers(i) /\ tslot[i] \in Table \cup {Null} /\ gslot[i] \in Global \cup {Null}
    BY DEF Referents, Typing
  <2> QED
    BY <2>1 DEF Lives, Refers, slots
<1> QED
  BY <1>1 DEF Referents

\* One table is made or written; all that its entries hold belongs.
LEMMA TableWritten ==
  ASSUME Typing, EntriesBelong, EntriesTyped, Keeps, lib' = lib,
         NEW t \in Table, NEW n \in Word, NEW m \in Word, NEW a \in [0 .. n - 1 -> Entry],
         table' = [table EXCEPT ![t] = [size |-> n, max |-> m, at |-> a]],
         \A x \in 0 .. n - 1 :
           /\ Belongs(a[x].ctx, a[x].code, lib', phase')
           /\ a[x].code # Null => TrueSignature(a[x].code) = a[x].sig
  PROVE  /\ EntriesBelong' /\ EntriesTyped' /\ table'[t] # Null
         /\ table' \in [Table -> {Null} \cup UNION {TableOf(o) : o \in Word}]
<1> DEFINE made == [size |-> n, max |-> m, at |-> a]
<1>1. made \in UNION {TableOf(o) : o \in Word} /\ made # Null
  BY MadeTable
<1>2. ASSUME NEW u \in Table, table'[u] # Null, NEW x \in DOMAIN table'[u].at
      PROVE  /\ Belongs(table'[u].at[x].ctx, table'[u].at[x].code, lib', phase')
             /\ table'[u].at[x].code # Null => TrueSignature(table'[u].at[x].code) = table'[u].at[x].sig
  <2>1. CASE u = t
    <3>1. table'[u] = made
      BY <2>1 DEF Typing
    <3>2. made.at = a /\ DOMAIN a = 0 .. n - 1
      OBVIOUS
    <3> QED
      BY <3>1, <3>2, <1>2
  <2>2. CASE u # t
    <3>1. table'[u] = table[u]
      BY <2>2
    <3>2. u \in LiveTables /\ x \in Indices(u)
      BY <3>1, <1>2 DEF LiveTables, Indices
    <3>3. /\ Belongs(table[u].at[x].ctx, table[u].at[x].code, lib, phase)
          /\ table[u].at[x].code # Null => TrueSignature(table[u].at[x].code) = table[u].at[x].sig
      BY <3>2 DEF EntriesBelong, EntriesTyped
    <3>4. table[u].at[x].ctx \in Instance \cup {Null}
      BY <3>2, LiveTable DEF LiveTables, Indices, Entry
    <3> QED
      BY <3>1, <3>3, <3>4, StillBelongs DEF Keeps, Belongs
  <2> QED
    BY <2>1, <2>2
<1>3. EntriesBelong' /\ EntriesTyped'
  BY <1>2 DEF EntriesBelong, EntriesTyped, LiveTables, Indices
<1> QED
  BY <1>1, <1>3 DEF Typing

-----------------------------------------------------------------------------
(* The host's own tables and globals.                                      *)

LEMMA NewTableIsEmpty ==
  ASSUME NEW n \in Word, NEW m \in Word
  PROVE  \E a \in [0 .. n - 1 -> Entry] :
           /\ NewTable(n, m) = [size |-> n, max |-> m, at |-> a]
           /\ \A x \in 0 .. n - 1 : a[x].ctx = Null /\ a[x].code = Null
<1> DEFINE a == [x \in 0 .. n - 1 |-> EmptyEntry]
<1>1. EmptyEntry \in Entry
  BY DEF EmptyEntry, Entry
<1>2. a \in [0 .. n - 1 -> Entry]
  BY <1>1
<1>3. \A x \in 0 .. n - 1 : a[x].ctx = Null /\ a[x].code = Null
  BY DEF EmptyEntry
<1> QED
  BY <1>2, <1>3 DEF NewTable

LEMMA HostTableSafe ==
  ASSUME IInv, NEW t \in Table, NEW l \in HostLimits, HostTable(t, l[1], l[2])  PROVE IInv'
<1> USE DEF IInv, Belonging
<1>1. l[1] \in Word /\ l[2] \in Word
  BY WordAssumption
<1>2. PICK a \in [0 .. l[1] - 1 -> Entry] :
        /\ NewTable(l[1], l[2]) = [size |-> l[1], max |-> l[2], at |-> a]
        /\ \A x \in 0 .. l[1] - 1 : a[x].ctx = Null /\ a[x].code = Null
  BY <1>1, NewTableIsEmpty
<1>3. Keeps /\ table' = [table EXCEPT ![t] = [size |-> l[1], max |-> l[2], at |-> a]]
  BY <1>2 DEF HostTable, Keeps
<1>4. EntriesBelong' /\ EntriesTyped' /\ table'[t] # Null
      /\ table' \in [Table -> {Null} \cup UNION {TableOf(o) : o \in Word}]
  <2>1. \A x \in 0 .. l[1] - 1 : /\ Belongs(a[x].ctx, a[x].code, lib', phase')
                                 /\ a[x].code # Null => TrueSignature(a[x].code) = a[x].sig
    BY <1>2, NullBelongs
  <2>2. lib' = lib
    BY DEF HostTable
  <2> QED
    BY <1>1, <1>3, <2>1, <2>2, TableWritten
<1>5. Typing'
  BY <1>4 DEF Typing, HostTable, slots
<1>6. Referents'
  BY <1>3, <1>4, ReferentsKept DEF HostTable, Typing
<1>7. SlotsBelong' /\ SlotsTyped'
  BY <1>3, SlotsKept DEF HostTable, slots, SlotsTyped
<1> QED
  BY <1>4, <1>5, <1>6, <1>7

LEMMA HostDestroyTableSafe ==
  ASSUME IInv, NEW t \in Table, HostDestroyTable(t)  PROVE IInv'
<1> USE DEF IInv, Belonging
<1>1. Keeps
  BY DEF HostDestroyTable, Keeps
<1>2. Typing'
  BY DEF Typing, HostDestroyTable, slots
<1>3. Referents'
  BY ReferentsKept DEF HostDestroyTable, Typing
<1>4. SlotsBelong' /\ SlotsTyped'
  BY <1>1, SlotsKept DEF HostDestroyTable, slots, SlotsTyped
<1>5. \A u \in LiveTables' : u \in LiveTables /\ table'[u] = table[u]
  BY DEF LiveTables, HostDestroyTable, Typing
<1>6. EntriesBelong' /\ EntriesTyped'
  BY <1>5 DEF EntriesBelong, EntriesTyped, Indices, HostDestroyTable
<1> QED
  BY <1>2, <1>3, <1>4, <1>6

\* WebAssemblyTable::set, with a pair that belongs and its type.
LEMMA EntrySet ==
  ASSUME IInv, NEW t \in LiveTables, NEW x \in Indices(t),
         NEW c \in Instance \cup {Null}, NEW f \in Code \cup {Null}, NEW s \in Signature \cup {Null},
         SetEntry(t, x, c, f, s), Belongs(c, f, lib, phase), f # Null => TrueSignature(f) = s,
         UNCHANGED <<global, hostTables, hostGlobals, phase, lib, next, slots>>
  PROVE  IInv'
<1> USE DEF IInv, Belonging
<1> DEFINE n == table[t].size
           entry == [ctx |-> c, code |-> f, sig |-> s]
           a == [table[t].at EXCEPT ![x] = entry]
<1>1. /\ t \in Table /\ n \in Word /\ table[t].max \in Word /\ table[t].at \in [0 .. n - 1 -> Entry]
      /\ table[t] = [size |-> n, max |-> table[t].max, at |-> table[t].at]
      /\ x \in 0 .. n - 1
  BY LiveTable DEF LiveTables, Indices
<1>2. entry \in Entry
  BY DEF Entry
<1>3. a \in [0 .. n - 1 -> Entry]
  BY <1>1, <1>2
<1>4. table' = [table EXCEPT ![t] = [size |-> n, max |-> table[t].max, at |-> a]]
  <2>1. table' = [table EXCEPT ![t] = [table[t] EXCEPT !.at = a]]
    BY DEF SetEntry
  <2>2. [table[t] EXCEPT !.at = a] = [size |-> n, max |-> table[t].max, at |-> a]
    <3> HIDE DEF a
    <3> QED
      BY <1>1
  <2> QED
    BY <2>1, <2>2
<1>5. ASSUME NEW y \in 0 .. n - 1
      PROVE  /\ Belongs(a[y].ctx, a[y].code, lib', phase')
             /\ a[y].code # Null => TrueSignature(a[y].code) = a[y].sig
  <2>1. CASE y = x
    BY <2>1, <1>1
  <2>2. CASE y # x
    <3>1. a[y] = table[t].at[y] /\ y \in Indices(t)
      BY <2>2, <1>1 DEF Indices
    <3> QED
      BY <3>1 DEF EntriesBelong, EntriesTyped
  <2> QED
    BY <2>1, <2>2
<1>6. Keeps
  BY DEF Keeps
<1> HIDE DEF a, n
<1>7. EntriesBelong' /\ EntriesTyped' /\ table'[t] # Null
      /\ table' \in [Table -> {Null} \cup UNION {TableOf(o) : o \in Word}]
  BY <1>1, <1>3, <1>4, <1>5, <1>6, TableWritten, ZenonT(60)
<1>8. Typing'
  BY <1>7 DEF Typing, slots
<1>9. Referents'
  BY <1>1, <1>4, <1>7, ReferentsKept DEF Typing
<1>10. SlotsBelong' /\ SlotsTyped'
  BY <1>6, SlotsKept DEF slots, SlotsTyped
<1> QED
  BY <1>7, <1>8, <1>9, <1>10

\* What a slot of an instance may hand on.
LEMMA SlotHolds ==
  ASSUME IInv, NEW j \in Instance, phase[j] # "absent", NEW k \in Functions(lib[j])
  PROVE  /\ k \in DOMAIN fslot[j] /\ fslot[j][k] \in Slot
         /\ Belongs(fslot[j][k].ctx, fslot[j][k].code, lib, phase)
         /\ fslot[j][k].code # Null => TrueSignature(fslot[j][k].code) = Decl[lib[j]].funcs[k].sig
         /\ Decl[lib[j]].funcs[k].sig \in Signature
<1>1. lib[j] \in Library /\ fslot[j] \in Bindings(lib[j])
  BY DEF IInv, Referents, Lives
<1>2. k \in DOMAIN fslot[j] /\ fslot[j][k] \in Slot
  BY <1>1 DEF Bindings
<1>3. Decl[lib[j]].funcs[k].sig \in Signature
  BY <1>1 DEF Signature, Functions
<1> QED
  BY <1>2, <1>3 DEF IInv, Belonging, SlotsBelong, SlotsTyped

LEMMA HostSetFunctionSafe ==
  ASSUME IInv, NEW t \in Table, NEW x, NEW h \in HostFn, HostSetFunction(t, x, h)  PROVE IInv'
<1>1. h \in Code /\ HostSig[h] \in Signature
  BY DEF Code, Signature
<1>2. TrueSignature(h) = HostSig[h]
  BY DEF TrueSignature
<1> QED
  BY <1>1, <1>2, EntrySet, HostBelongs DEF HostSetFunction

LEMMA HostSetCalleeSafe ==
  ASSUME IInv, NEW t \in Table, NEW x, NEW j \in Instance, NEW k, HostSetCallee(t, x, j, k)
  PROVE  IInv'
<1>1. phase[j] # "absent" /\ k \in Functions(lib[j])
  BY DEF HostSetCallee, Exports
<1>2. /\ fslot[j][k].ctx \in Instance \cup {Null} /\ fslot[j][k].code \in Code \cup {Null}
      /\ Belongs(fslot[j][k].ctx, fslot[j][k].code, lib, phase)
      /\ fslot[j][k].code # Null => TrueSignature(fslot[j][k].code) = Decl[lib[j]].funcs[k].sig
      /\ Decl[lib[j]].funcs[k].sig \in Signature
  BY <1>1, SlotHolds DEF Slot
<1> QED
  BY <1>2, EntrySet DEF HostSetCallee

\* A global's cell is made or written; it holds a number.
LEMMA CellWritten ==
  ASSUME IInv, NEW g \in Global \cup {Null}, NEW v \in Word, NEW owned \in SUBSET {g},
         global' = [global EXCEPT ![g] = v], hostGlobals' = hostGlobals \cup owned,
         owned # {} => g \in Global /\ \A i \in Instance : gslot[i] # g,
         UNCHANGED <<table, phase, lib, next, slots>>
  PROVE  IInv'
<1> USE DEF IInv
<1>1. Typing'
  BY DEF Typing, slots
<1>2. v # Null
  BY NullAssumption
<1>3. ASSUME NEW i \in Instance  PROVE Lives(i)' /\ Refers(i)'
  <2>1. Lives(i) /\ Refers(i) /\ gslot[i] \in Global \cup {Null}
    BY DEF Referents, Typing
  <2>2. Lives(i)'
    BY <2>1 DEF Lives, slots
  <2>3. gslot[i] # Null => global'[gslot[i]] # Null
    BY <2>1, <1>2 DEF Refers, Typing
  <2>4. gslot[i] \notin hostGlobals => gslot[i] \notin hostGlobals'
    OBVIOUS
  <2> QED
    BY <2>1, <2>2, <2>3, <2>4 DEF Refers, slots
<1>4. hostGlobals' \subseteq Global /\ \A o \in hostGlobals' : global'[o] # Null
  BY <1>2 DEF Referents, Typing
<1>5. Belonging'
  BY BelongingKept DEF Keeps, slots
<1> QED
  BY <1>1, <1>3, <1>4, <1>5 DEF Referents

LEMMA HostGlobalsSafe ==
  ASSUME IInv, NEW g \in Global, NEW v \in GlobalValue, HostGlobal(g, v) \/ HostSetGlobal(g, v)
  PROVE  IInv'
<1>1. v \in Word
  BY WordAssumption
<1>2. CASE HostGlobal(g, v)
  <2>1. \A i \in Instance : gslot[i] # g
    BY <1>2, NullAssumption DEF HostGlobal, IInv, Referents, Refers
  <2> QED
    BY <1>1, <1>2, <2>1, CellWritten DEF HostGlobal
<1>3. CASE HostSetGlobal(g, v)
  <2>1. hostGlobals' = hostGlobals \cup {} /\ {} \in SUBSET {g}
    BY <1>3 DEF HostSetGlobal
  <2> QED
    BY <1>1, <1>3, <2>1, CellWritten DEF HostSetGlobal
<1> QED
  BY <1>2, <1>3

LEMMA HostDestroyGlobalSafe ==
  ASSUME IInv, NEW g \in Global, HostDestroyGlobal(g)  PROVE IInv'
<1> USE DEF IInv
<1>1. Typing'
  BY DEF Typing, HostDestroyGlobal, slots
<1>2. ASSUME NEW i \in Instance  PROVE Lives(i)' /\ Refers(i)'
  BY DEF Referents, Lives, Refers, HostDestroyGlobal, slots, Typing
<1>3. hostGlobals' \subseteq Global /\ \A o \in hostGlobals' : global'[o] # Null
  BY DEF Referents, HostDestroyGlobal, Typing
<1>4. Belonging'
  BY BelongingKept DEF Keeps, HostDestroyGlobal, slots
<1> QED
  BY <1>1, <1>2, <1>3, <1>4 DEF Referents

-----------------------------------------------------------------------------
(* Linking.                                                                *)

LEMMA OpenSafe ==
  ASSUME IInv, NEW i \in Instance, NEW l \in Library, Open(i, l)  PROVE IInv'
<1> USE DEF IInv, Belonging
<1> DEFINE empty == [k \in Functions(l) |-> EmptySlot]
<1>1. empty \in Bindings(l)
  BY DEF Bindings, Slot, EmptySlot
<1>2. /\ phase' = [phase EXCEPT ![i] = "linking"] /\ lib' = [lib EXCEPT ![i] = l]
      /\ fslot' = [fslot EXCEPT ![i] = empty] /\ phase[i] = "absent"
      /\ UNCHANGED <<table, global, hostGlobals, next, tslot, gslot>>
  BY DEF Open, cells
<1>3. Typing'
  BY <1>1, <1>2 DEF Typing, Phases
<1>4. /\ fslot'[i] = empty /\ lib'[i] = l /\ phase'[i] = "linking"
      /\ \A j \in Instance \ {i} : fslot'[j] = fslot[j] /\ lib'[j] = lib[j] /\ phase'[j] = phase[j]
  BY <1>2 DEF Typing
<1> HIDE DEF empty
<1>5. ASSUME NEW j \in Instance  PROVE Lives(j)' /\ Refers(j)'
  <2>1. Lives(j) /\ Refers(j) /\ hostGlobals \subseteq Global
    BY DEF Referents
  <2>2. CASE j = i
    BY <2>1, <2>2, <1>1, <1>2, <1>4, NullAssumption DEF Lives, Refers, Building
  <2>3. CASE j # i
    BY <2>1, <2>3, <1>2, <1>4 DEF Lives, Refers
  <2> QED
    BY <2>2, <2>3
<1>6. Referents'
  BY <1>2, <1>5 DEF Referents
<1>7. Keeps
  BY <1>2, <1>4 DEF Keeps, Stored
<1>8. EntriesBelong' /\ EntriesTyped'
  BY <1>2, <1>7, EntriesKept DEF EntriesTyped, LiveTables, Indices
<1>9. ASSUME NEW j \in Instance, NEW k \in DOMAIN fslot'[j]
      PROVE  /\ Belongs(fslot'[j][k].ctx, fslot'[j][k].code, lib', phase')
             /\ fslot'[j][k].code # Null =>
                  TrueSignature(fslot'[j][k].code) = Decl[lib'[j]].funcs[k].sig
  <2>1. CASE j = i
    <3>1. fslot'[j][k] = EmptySlot
      BY <2>1, <1>4 DEF empty
    <3> QED
      BY <3>1, NullBelongs DEF EmptySlot
  <2>2. CASE j # i
    <3>1. fslot'[j] = fslot[j] /\ lib'[j] = lib[j]
      BY <2>2, <1>4
    <3>2. /\ Belongs(fslot[j][k].ctx, fslot[j][k].code, lib, phase)
          /\ fslot[j][k].code # Null => TrueSignature(fslot[j][k].code) = Decl[lib[j]].funcs[k].sig
          /\ fslot[j][k].ctx \in Instance \cup {Null}
      BY <1>9, <3>1 DEF SlotsBelong, SlotsTyped, Typing, Bindings, Slot
    <3> QED
      BY <3>1, <3>2, <1>7, StillBelongs DEF Keeps, Belongs
  <2> QED
    BY <2>1, <2>2
<1> QED
  BY <1>3, <1>6, <1>8, <1>9 DEF SlotsBelong, SlotsTyped

LEMMA ImportTableSafe ==
  ASSUME IInv, NEW i \in Instance, NEW t \in Table, ImportTable(i, t)  PROVE IInv'
<1> USE DEF IInv
<1>1. /\ tslot' = [tslot EXCEPT ![i] = t] /\ phase[i] = "linking" /\ table[t] # Null
      /\ UNCHANGED <<table, global, hostGlobals, phase, lib, next, gslot, fslot>>
  BY DEF ImportTable, cells, LiveTables
<1>2. Typing'
  BY <1>1 DEF Typing
<1>3. ASSUME NEW j \in Instance  PROVE Lives(j)' /\ Refers(j)'
  BY <1>1 DEF Referents, Lives, Refers, Typing
<1>4. Belonging'
  BY <1>1, BelongingKept DEF Keeps
<1> QED
  BY <1>1, <1>2, <1>3, <1>4 DEF Referents

LEMMA ImportGlobalSafe ==
  ASSUME IInv, NEW i \in Instance, NEW g \in Global, ImportGlobal(i, g)  PROVE IInv'
<1> USE DEF IInv
<1>1. /\ gslot' = [gslot EXCEPT ![i] = g] /\ phase[i] = "linking" /\ HostSeesGlobal(g)
      /\ Decl[lib[i]].global.kind # "define"
      /\ UNCHANGED <<table, global, hostGlobals, phase, lib, next, tslot, fslot>>
  BY DEF ImportGlobal, cells
<1>2. global[g] # Null
  BY <1>1, NullAssumption DEF HostSeesGlobal, Referents, Refers
<1>3. Typing'
  BY <1>1 DEF Typing
<1>4. ASSUME NEW j \in Instance  PROVE Lives(j)' /\ Refers(j)'
  BY <1>1, <1>2 DEF Referents, Lives, Refers, Typing
<1>5. Belonging'
  BY <1>1, BelongingKept DEF Keeps
<1> QED
  BY <1>1, <1>3, <1>4, <1>5 DEF Referents

\* tryImport of a callee: the type of what is bound is compared.
LEMMA BindFunctionSafe ==
  ASSUME IInv, NEW i \in Instance, NEW k,
         NEW c \in Instance \cup {Null}, NEW f \in Code \cup {Null}, NEW s,
         BindFunction(i, k, c, f, s), Belongs(c, f, lib, phase), f # Null => TrueSignature(f) = s
  PROVE  IInv'
<1> USE DEF IInv, Belonging
<1> DEFINE bound == [ctx |-> c, code |-> f]
<1>1. /\ phase[i] = "linking" /\ k \in Functions(lib[i]) /\ Decl[lib[i]].funcs[k].sig = s
      /\ fslot' = [fslot EXCEPT ![i][k] = bound]
      /\ UNCHANGED <<table, global, hostGlobals, phase, lib, next, tslot, gslot>>
  BY DEF BindFunction, SignatureMatches, cells
<1>2. lib[i] \in Library /\ fslot[i] \in Bindings(lib[i]) /\ bound \in Slot
  BY <1>1 DEF Referents, Lives, Slot
<1>3. fslot' = [fslot EXCEPT ![i] = [fslot[i] EXCEPT ![k] = bound]]
  BY <1>1
<1>4. [fslot[i] EXCEPT ![k] = bound] \in Bindings(lib[i])
  BY <1>2 DEF Bindings
<1>5. Typing'
  BY <1>1, <1>2, <1>3, <1>4 DEF Typing
<1>6. /\ fslot'[i] = [fslot[i] EXCEPT ![k] = bound]
      /\ \A j \in Instance \ {i} : fslot'[j] = fslot[j]
  BY <1>3 DEF Typing
<1>7. ASSUME NEW j \in Instance  PROVE Lives(j)' /\ Refers(j)'
  <2>1. Lives(j) /\ Refers(j)
    BY DEF Referents
  <2>2. CASE j = i
    BY <2>1, <2>2, <1>1, <1>2, <1>4, <1>6 DEF Lives, Refers
  <2>3. CASE j # i
    BY <2>1, <2>3, <1>1, <1>6 DEF Lives, Refers
  <2> QED
    BY <2>2, <2>3
<1>8. EntriesBelong' /\ EntriesTyped'
  BY <1>1, EntriesKept DEF Keeps, EntriesTyped, LiveTables, Indices
<1>9. ASSUME NEW j \in Instance, NEW m \in DOMAIN fslot'[j]
      PROVE  /\ Belongs(fslot'[j][m].ctx, fslot'[j][m].code, lib, phase)
             /\ fslot'[j][m].code # Null =>
                  TrueSignature(fslot'[j][m].code) = Decl[lib[j]].funcs[m].sig
  <2>1. CASE j = i /\ m = k
    <3>1. fslot'[j][m] = bound
      BY <2>1, <1>1, <1>2, <1>6 DEF Bindings
    <3> QED
      BY <3>1, <2>1, <1>1
  <2>2. CASE j # i \/ m # k
    <3>1. m \in DOMAIN fslot[j] /\ fslot'[j][m] = fslot[j][m]
      BY <2>2, <1>2, <1>6, <1>9 DEF Bindings
    <3> QED
      BY <3>1 DEF SlotsBelong, SlotsTyped
  <2> QED
    BY <2>1, <2>2
<1>10. SlotsBelong' /\ SlotsTyped'
  BY <1>1, <1>9 DEF SlotsBelong, SlotsTyped
<1> QED
  BY <1>1, <1>5, <1>7, <1>8, <1>10 DEF Referents

LEMMA ImportHostSafe ==
  ASSUME IInv, NEW i \in Instance, NEW k, NEW h \in HostFn, ImportHost(i, k, h)  PROVE IInv'
<1>1. h \in Code /\ TrueSignature(h) = HostSig[h]
  BY DEF Code, TrueSignature
<1> QED
  BY <1>1, BindFunctionSafe, HostBelongs DEF ImportHost

LEMMA ImportExportSafe ==
  ASSUME IInv, NEW i \in Instance, NEW k, NEW j \in Instance, NEW f, ImportExport(i, k, j, f)
  PROVE  IInv'
<1>1. phase[j] # "absent" /\ f \in Functions(lib[j])
  BY DEF ImportExport, Exports
<1>2. /\ fslot[j][f].ctx \in Instance \cup {Null} /\ fslot[j][f].code \in Code \cup {Null}
      /\ Belongs(fslot[j][f].ctx, fslot[j][f].code, lib, phase)
      /\ fslot[j][f].code # Null => TrueSignature(fslot[j][f].code) = Decl[lib[j]].funcs[f].sig
  BY <1>1, SlotHolds DEF Slot
<1> QED
  BY <1>2, BindFunctionSafe DEF ImportExport

\* An entry of a table says what its function is.
LEMMA EntryHolds ==
  ASSUME IInv, NEW t \in LiveTables, NEW x \in Indices(t)
  PROVE  /\ table[t].at[x] \in Entry
         /\ Belongs(table[t].at[x].ctx, table[t].at[x].code, lib, phase)
         /\ table[t].at[x].code # Null => TrueSignature(table[t].at[x].code) = table[t].at[x].sig
<1>1. table[t].at[x] \in Entry
  BY LiveTable DEF IInv, LiveTables, Indices
<1> QED
  BY <1>1 DEF IInv, Belonging, EntriesBelong, EntriesTyped

LEMMA ImportEntrySafe ==
  ASSUME IInv, NEW i \in Instance, NEW k, NEW t \in Table, NEW x, ImportEntry(i, k, t, x)
  PROVE  IInv'
<1>1. t \in LiveTables /\ x \in Indices(t)
  BY DEF ImportEntry
<1>2. PICK e \in Entry : e = table[t].at[x]
  BY <1>1, EntryHolds
<1>3. BindFunction(i, k, e.ctx, e.code, e.sig)
  BY <1>2 DEF ImportEntry
<1>4. /\ e.ctx \in Instance \cup {Null} /\ e.code \in Code \cup {Null}
      /\ Belongs(e.ctx, e.code, lib, phase)
      /\ e.code # Null => TrueSignature(e.code) = e.sig
  BY <1>1, <1>2, EntryHolds DEF Entry
<1> QED
  BY <1>3, <1>4, BindFunctionSafe

-----------------------------------------------------------------------------
(* Build and the initializer.                                              *)

\* Build goes on, in the same phase or the next, and no pair is copied.
LEMMA Progress ==
  ASSUME IInv, NEW i \in Instance, NEW p \in Phases \ {"absent"}, NEW n \in Nat \ {0},
         phase[i] \in Building, phase[i] \in Stored => p \in Stored,
         phase' = [phase EXCEPT ![i] = p], next' = [next EXCEPT ![i] = n],
         UNCHANGED <<table, lib, slots, hostGlobals>>,
         global' \in [Global -> Word \cup {Null}],
         \A g \in Global : global[g] # Null => global'[g] # Null
  PROVE  IInv'
<1> USE DEF IInv
<1>1. Typing'
  BY DEF Typing, slots
<1>2. ASSUME NEW j \in Instance  PROVE Lives(j)' /\ Refers(j)'
  <2>1. Lives(j) /\ Refers(j) /\ gslot[j] \in Global \cup {Null}
    BY DEF Referents, Typing
  <2>2. phase'[j] = "absent" <=> phase[j] = "absent"
    BY DEF Typing, Building
  <2>3. phase'[j] \in Building => next'[j] >= 1
    BY <2>1 DEF Lives, Typing
  <2> QED
    BY <2>1, <2>2, <2>3 DEF Lives, Refers, slots
<1>3. hostGlobals' \subseteq Global /\ \A g \in hostGlobals' : global'[g] # Null
  BY DEF Referents
<1>4. Belonging'
  BY BelongingKept DEF Keeps, slots, Typing
<1> QED
  BY <1>1, <1>2, <1>3, <1>4 DEF Referents

LEMMA GotoSafe ==
  ASSUME IInv, NEW i \in Instance, NEW p \in Phases \ {"absent"}, Goto(i, p),
         phase[i] \in Building, phase[i] \in Stored => p \in Stored,
         UNCHANGED <<table, lib, slots, hostGlobals>>,
         global' \in [Global -> Word \cup {Null}],
         \A g \in Global : global[g] # Null => global'[g] # Null
  PROVE  IInv'
<1>1. /\ phase' = [phase EXCEPT ![i] = p] /\ next' = [next EXCEPT ![i] = 1]
      /\ 1 \in Nat \ {0}
  BY DEF Goto
<1> QED
  BY <1>1, Progress

\* A guard threw, or a null pointer ended the process.
LEMMA CrashSafe ==
  ASSUME IInv, NEW name, Crash(name)  PROVE IInv'
BY NothingMoved DEF Crash

LEMMA BuildSafe ==
  ASSUME IInv, NEW i \in Instance, Build(i)  PROVE IInv'
<1> USE DEF IInv, Belonging
<1> DEFINE d == Decl[lib[i]]
<1>1. /\ phase[i] = "linking" /\ lib[i] \in Library
      /\ phase' = [phase EXCEPT ![i] = "data"] /\ next' = [next EXCEPT ![i] = 1]
      /\ UNCHANGED <<hostGlobals, lib, fslot>>
  BY DEF Build, Referents, Lives
<1>2. Keeps
  BY <1>1 DEF Keeps, Stored, Typing
<1>3. /\ EntriesBelong' /\ EntriesTyped'
      /\ table' \in [Table -> {Null} \cup UNION {TableOf(o) : o \in Word}]
      /\ tslot' \in [Instance -> Table \cup {Null}]
      /\ \A j \in Instance : tslot'[j] # Null => table'[tslot'[j]] # Null
      /\ \A j \in Instance \ {i} : tslot'[j] = tslot[j]
  <2>1. CASE d.table.kind = "define"
    <3>1. d.table.min \in Word /\ d.table.max \in Word
      BY <2>1, <1>1, DeclAssumption, WordAssumption DEF Word
    <3>2. PICK t \in Table \ LiveTables :
            /\ table' = [table EXCEPT ![t] = NewTable(d.table.min, d.table.max)]
            /\ tslot' = [tslot EXCEPT ![i] = t]
      BY <2>1 DEF Build, DefineTable
    <3>3. PICK a \in [0 .. d.table.min - 1 -> Entry] :
            /\ NewTable(d.table.min, d.table.max)
                 = [size |-> d.table.min, max |-> d.table.max, at |-> a]
            /\ \A x \in 0 .. d.table.min - 1 : a[x].ctx = Null /\ a[x].code = Null
      BY <3>1, NewTableIsEmpty
    <3>4. \A x \in 0 .. d.table.min - 1 :
            /\ Belongs(a[x].ctx, a[x].code, lib', phase')
            /\ a[x].code # Null => TrueSignature(a[x].code) = a[x].sig
      BY <3>3, NullBelongs
    <3> HIDE DEF d
    <3>5. /\ EntriesBelong' /\ EntriesTyped' /\ table'[t] # Null
          /\ table' \in [Table -> {Null} \cup UNION {TableOf(o) : o \in Word}]
      <4>1. /\ table' = [table EXCEPT ![t] = [size |-> d.table.min, max |-> d.table.max, at |-> a]]
            /\ t \in Table /\ lib' = lib
        BY <1>1, <3>2, <3>3
      <4> QED
        BY <1>2, <3>1, <3>4, <4>1, TableWritten
    <3>6. ASSUME NEW j \in Instance, tslot'[j] # Null  PROVE table'[tslot'[j]] # Null
      <4>1. CASE tslot'[j] = t
        BY <4>1, <3>5
      <4>2. CASE tslot'[j] # t
        <5>1. tslot'[j] = tslot[j]
          BY <4>2, <3>2 DEF Typing
        <5>2. table[tslot[j]] # Null /\ tslot[j] \in Table
          BY <5>1, <3>6 DEF Referents, Refers, Typing
        <5> QED
          BY <5>1, <5>2, <4>2, <3>2 DEF Typing
      <4> QED
        BY <4>1, <4>2
    <3> QED
      BY <3>2, <3>5, <3>6 DEF Typing
  <2>2. CASE d.table.kind # "define"
    <3>1. UNCHANGED <<table, tslot>>
      BY <2>2 DEF Build, DefineTable
    <3> QED
      BY <3>1, <1>2, EntriesKept DEF EntriesTyped, LiveTables, Indices, Typing, Referents, Refers
  <2> QED
    BY <2>1, <2>2
<1>4. /\ global' \in [Global -> Word \cup {Null}]
      /\ gslot' \in [Instance -> Global \cup {Null}]
      /\ \A j \in Instance : gslot'[j] # Null => global'[gslot'[j]] # Null
      /\ \A g \in hostGlobals : global'[g] # Null
      /\ \A j \in Instance \ {i} : gslot'[j] = gslot[j]
      /\ d.global.kind = "define" => gslot'[i] \notin hostGlobals
  <2>1. CASE d.global.kind = "define"
    <3>1. PICK g \in Global : /\ global[g] = Null /\ global' = [global EXCEPT ![g] = 0]
                              /\ gslot' = [gslot EXCEPT ![i] = g]
      BY <2>1 DEF Build, DefineGlobal
    <3>2. 0 \in Word /\ 0 # Null
      BY WordAssumption, NullAssumption DEF Word
    <3>3. g \notin hostGlobals /\ gslot'[i] = g
      BY <3>1 DEF Referents, Typing
    <3>4. \A j \in Instance : gslot'[j] # Null => global'[gslot'[j]] # Null
      BY <3>1, <3>2 DEF Referents, Refers, Typing
    <3> QED
      BY <3>1, <3>2, <3>3, <3>4 DEF Typing, Referents
  <2>2. CASE d.global.kind # "define"
    <3>1. UNCHANGED <<global, gslot>>
      BY <2>2 DEF Build, DefineGlobal
    <3> QED
      BY <2>2, <3>1 DEF Typing, Referents, Refers
  <2> QED
    BY <2>1, <2>2
<1>5. Typing'
  BY <1>1, <1>3, <1>4 DEF Typing, Phases, Building
<1>6. ASSUME NEW j \in Instance  PROVE Lives(j)' /\ Refers(j)'
  <2>1. Lives(j) /\ Refers(j)
    BY DEF Referents
  <2>2. CASE j = i
    <3>1. phase'[i] = "data" /\ next'[i] = 1 /\ lib'[i] = lib[i] /\ fslot'[i] = fslot[i]
      BY <1>1 DEF Typing
    <3> QED
      BY <2>1, <2>2, <3>1, <1>1, <1>3, <1>4 DEF Lives, Refers
  <2>3. CASE j # i
    <3>1. phase'[j] = phase[j] /\ next'[j] = next[j]
      BY <2>3, <1>1 DEF Typing
    <3> QED
      BY <2>1, <2>3, <3>1, <1>1, <1>3, <1>4 DEF Lives, Refers
  <2> QED
    BY <2>2, <2>3
<1>7. SlotsBelong' /\ SlotsTyped'
  BY <1>1, <1>2, SlotsKept DEF SlotsTyped
<1> QED
  BY <1>1, <1>3, <1>4, <1>5, <1>6, <1>7 DEF Referents

LEMMA InitDataSafe ==
  ASSUME IInv, NEW i \in Instance, InitData(i)  PROVE IInv'
<1>1. /\ phase[i] = "data" /\ phase[i] \in Building /\ next[i] \in Nat \ {0}
      /\ global \in [Global -> Word \cup {Null}]
      /\ phase = [phase EXCEPT ![i] = phase[i]]
  BY DEF InitData, InStep, IInv, Typing, Referents, Lives, Building
<1>2. {"data", "globals", "failed"} \subseteq Phases \ {"absent"} /\ "data" \notin Stored
  BY DEF Phases, Building, Stored
<1>3. CASE Goto(i, "globals") /\ UNCHANGED <<cells, lib, slots, dataAt, entered, aborted>>
  BY <1>1, <1>2, <1>3, GotoSafe DEF cells
<1>4. CASE Crash("null_global")
  BY <1>4, CrashSafe
<1>5. CASE /\ next' = [next EXCEPT ![i] = @ + 1] /\ UNCHANGED phase
           /\ UNCHANGED <<cells, lib, slots, entered, aborted>>
  <2>1. next' = [next EXCEPT ![i] = next[i] + 1] /\ next[i] + 1 \in Nat \ {0}
        /\ phase' = [phase EXCEPT ![i] = "data"]
    BY <1>1, <1>5
  <2> QED
    BY <1>1, <1>2, <1>5, <2>1, Progress DEF cells
<1>6. CASE Goto(i, "failed") /\ UNCHANGED <<cells, lib, slots, entered, aborted>>
  BY <1>1, <1>2, <1>6, GotoSafe DEF cells
<1> QED
  BY <1>3, <1>4, <1>5, <1>6 DEF InitData

LEMMA InitGlobalsSafe ==
  ASSUME IInv, NEW i \in Instance, InitGlobals(i)  PROVE IInv'
<1>1. /\ phase[i] = "globals" /\ phase[i] \in Building /\ lib[i] \in Library
      /\ global \in [Global -> Word \cup {Null}]
  BY DEF InitGlobals, InStep, IInv, Typing, Referents, Lives, Building
<1>2. /\ global' \in [Global -> Word \cup {Null}]
      /\ \A g \in Global : global[g] # Null => global'[g] # Null
  <2>1. CASE Decl[lib[i]].global.kind = "define"
    <3>1. Decl[lib[i]].global.value \in Word
      BY <2>1, <1>1, DeclAssumption, WordAssumption
    <3> QED
      BY <2>1, <3>1, <1>1, NullAssumption DEF InitGlobals
  <2>2. CASE Decl[lib[i]].global.kind # "define"
    BY <2>2, <1>1 DEF InitGlobals
  <2> QED
    BY <2>1, <2>2
<1>3. "functions" \in Phases \ {"absent"} /\ "globals" \notin Stored
  BY DEF Phases, Building, Stored
<1> QED
  BY <1>1, <1>2, <1>3, GotoSafe DEF InitGlobals

LEMMA InitFunctionsSafe ==
  ASSUME IInv, NEW i \in Instance, InitFunctions(i)  PROVE IInv'
<1> USE DEF IInv, Belonging
<1> DEFINE stored == [k \in DOMAIN fslot[i] |->
                        IF IsImport(lib[i], k) THEN fslot[i][k] ELSE OwnSlot(i, k)]
<1>1. /\ phase[i] = "functions" /\ fslot' = [fslot EXCEPT ![i] = stored]
      /\ phase' = [phase EXCEPT ![i] = "elements"] /\ next' = [next EXCEPT ![i] = 1]
      /\ UNCHANGED <<table, global, hostGlobals, lib, tslot, gslot>>
  BY DEF InitFunctions, InStep, Goto, cells
<1>2. lib[i] \in Library /\ fslot[i] \in Bindings(lib[i])
  BY <1>1 DEF Referents, Lives
<1>3. \A k \in Functions(lib[i]) : OwnSlot(i, k) \in Slot
  BY <1>2 DEF OwnSlot, Slot, Code
<1>4. stored \in Bindings(lib[i])
  BY <1>2, <1>3 DEF Bindings
<1>5. /\ fslot'[i] = stored /\ phase'[i] = "elements"
      /\ \A j \in Instance \ {i} : fslot'[j] = fslot[j] /\ phase'[j] = phase[j]
  BY <1>1 DEF Typing
<1>6. Typing'
  BY <1>1, <1>2, <1>4 DEF Typing, Phases, Building
<1>7. Keeps
  BY <1>1, <1>5 DEF Keeps, Stored
<1>8. ASSUME NEW k \in Functions(lib[i])
      PROVE  /\ Belongs(stored[k].ctx, stored[k].code, lib, phase')
             /\ stored[k].code # Null => TrueSignature(stored[k].code) = Decl[lib[i]].funcs[k].sig
  <2>1. k \in DOMAIN fslot[i]
    BY <1>2 DEF Bindings
  <2>2. CASE IsImport(lib[i], k)
    <3>1. stored[k] = fslot[i][k]
      BY <2>1, <2>2
    <3>2. /\ Belongs(fslot[i][k].ctx, fslot[i][k].code, lib, phase)
          /\ fslot[i][k].code # Null => TrueSignature(fslot[i][k].code) = Decl[lib[i]].funcs[k].sig
          /\ fslot[i][k].ctx \in Instance \cup {Null}
      BY <2>1, <1>2 DEF SlotsBelong, SlotsTyped, Bindings, Slot
    <3> HIDE DEF stored
    <3> QED
      BY <3>1, <3>2, <1>7, StillBelongs DEF Keeps, Belongs
  <2>3. CASE ~IsImport(lib[i], k)
    <3>1. stored[k].ctx = i /\ stored[k].code = <<lib[i], k>>
      BY <2>1, <2>3 DEF OwnSlot
    <3>2. <<lib[i], k>> \notin HostFn /\ <<lib[i], k>> \in Code /\ i # Null /\ <<lib[i], k>> # Null
      BY <1>2, NullAssumption DEF Code
    <3>3. Belongs(i, <<lib[i], k>>, lib, phase')
      BY <3>2, <2>3, <1>5 DEF Belongs, Stored
    <3>4. TrueSignature(<<lib[i], k>>) = Decl[lib[i]].funcs[k].sig
      BY <3>2 DEF TrueSignature
    <3> HIDE DEF stored
    <3> QED
      BY <3>1, <3>3, <3>4
  <2> QED
    BY <2>2, <2>3
<1> HIDE DEF stored
<1>9. ASSUME NEW j \in Instance  PROVE Lives(j)' /\ Refers(j)'
  <2>1. Lives(j) /\ Refers(j)
    BY DEF Referents
  <2>2. CASE j = i
    <3>1. next'[i] = 1
      BY <1>1 DEF Typing
    <3> QED
      BY <2>1, <2>2, <3>1, <1>1, <1>2, <1>4, <1>5 DEF Lives, Refers
  <2>3. CASE j # i
    <3>1. next'[j] = next[j]
      BY <1>1, <2>3 DEF Typing
    <3> QED
      BY <2>1, <2>3, <3>1, <1>1, <1>5 DEF Lives, Refers
  <2> QED
    BY <2>2, <2>3
<1>10. EntriesBelong' /\ EntriesTyped'
  BY <1>1, <1>7, EntriesKept DEF EntriesTyped, LiveTables, Indices
<1>11. ASSUME NEW j \in Instance, NEW k \in DOMAIN fslot'[j]
       PROVE  /\ Belongs(fslot'[j][k].ctx, fslot'[j][k].code, lib, phase')
              /\ fslot'[j][k].code # Null =>
                   TrueSignature(fslot'[j][k].code) = Decl[lib[j]].funcs[k].sig
  <2>1. CASE j = i
    BY <2>1, <1>4, <1>5, <1>8 DEF Bindings
  <2>2. CASE j # i
    <3>1. /\ Belongs(fslot[j][k].ctx, fslot[j][k].code, lib, phase)
          /\ fslot[j][k].code # Null => TrueSignature(fslot[j][k].code) = Decl[lib[j]].funcs[k].sig
          /\ fslot[j][k].ctx \in Instance \cup {Null}
      <4>1. k \in DOMAIN fslot[j] /\ fslot[j] \in {<<>>} \cup UNION {Bindings(l) : l \in Library}
        BY <2>2, <1>5 DEF Typing
      <4>2. fslot[j][k] \in Slot
        BY <4>1 DEF Bindings
      <4> QED
        BY <4>1, <4>2 DEF SlotsBelong, SlotsTyped, Slot
    <3> QED
      BY <2>2, <3>1, <1>1, <1>5, <1>7, StillBelongs DEF Keeps, Belongs
  <2> QED
    BY <2>1, <2>2
<1>12. SlotsBelong' /\ SlotsTyped'
  BY <1>1, <1>11 DEF SlotsBelong, SlotsTyped
<1> QED
  BY <1>1, <1>6, <1>9, <1>10, <1>12 DEF Referents

\* __sable_table_set: the segment's functions are those of the instance's slots.
LEMMA SegmentCopied ==
  ASSUME IInv, NEW i \in Instance, phase[i] # "absent",
         NEW m \in 1 .. Len(Decl[lib[i]].elements), tslot[i] # Null,
         NEW offset \in Word
  PROVE  LET n == table[tslot[i]].size
             a == Placed(i, table[tslot[i]].at, offset, Decl[lib[i]].elements[m].funcs)
         IN  /\ a \in [0 .. n - 1 -> Entry]
             /\ \A x \in 0 .. n - 1 :
                  /\ Belongs(a[x].ctx, a[x].code, lib, phase)
                  /\ a[x].code # Null => TrueSignature(a[x].code) = a[x].sig
<1> DEFINE t == tslot[i]
           n == table[t].size
           funcs == Decl[lib[i]].elements[m].funcs
           a == Placed(i, table[t].at, offset, funcs)
<1>1. lib[i] \in Library /\ t \in LiveTables
  BY DEF IInv, Typing, Referents, Lives, Refers, LiveTables
<1>2. funcs \in Seq(Functions(lib[i]))
  <2>1. Decl[lib[i]].elements \in Seq(Segment(lib[i]))
    BY <1>1, DeclAssumption
  <2>2. Decl[lib[i]].elements[m] \in Segment(lib[i])
    BY <2>1
  <2> QED
    BY <2>2 DEF Segment
<1>3. n \in Word /\ DOMAIN table[t].at = 0 .. n - 1 /\ n \in Nat /\ offset \in Nat
  <2>1. t \in Table /\ table[t] # Null
    BY <1>1 DEF LiveTables
  <2>2. n \in Word /\ table[t].at \in [0 .. n - 1 -> Entry]
    BY <2>1, LiveTable DEF IInv
  <2> HIDE DEF t, n
  <2> QED
    BY <2>2, WordAssumption DEF Word
<1>4. DOMAIN a = 0 .. n - 1
  BY <1>3 DEF Placed
<1>5. ASSUME NEW x \in 0 .. n - 1
      PROVE  /\ a[x] \in Entry
             /\ Belongs(a[x].ctx, a[x].code, lib, phase)
             /\ a[x].code # Null => TrueSignature(a[x].code) = a[x].sig
  <2>1. CASE x \in offset .. offset + Len(funcs) - 1
    <3>1. PICK y \in DOMAIN funcs : y = x - offset + 1
      BY <2>1, <1>2, <1>3
    <3>2. PICK k \in Functions(lib[i]) : k = funcs[y]
      BY <1>2
    <3>3. a[x] = [ctx |-> fslot[i][k].ctx, code |-> fslot[i][k].code, sig |-> Decl[lib[i]].funcs[k].sig]
      BY <2>1, <3>1, <3>2, <1>3 DEF Placed
    <3> HIDE DEF a
    <3> QED
      BY <3>3, SlotHolds DEF Slot, Entry
  <2>2. CASE x \notin offset .. offset + Len(funcs) - 1
    <3>1. a[x] = table[t].at[x] /\ x \in Indices(t)
      BY <2>2, <1>3 DEF Placed, Indices
    <3> HIDE DEF a, t
    <3> QED
      BY <3>1, <1>1, EntryHolds
  <2> QED
    BY <2>1, <2>2
<1>6. a \in [0 .. n - 1 -> Entry]
  <2>1. a = [x \in 0 .. n - 1 |-> a[x]]
    BY <1>3 DEF Placed
  <2> QED
    BY <2>1, <1>5
<1> QED
  BY <1>5, <1>6

LEMMA InitElementSafe ==
  ASSUME IInv, NEW i \in Instance, InitElement(i)  PROVE IInv'
<1> DEFINE elements == Decl[lib[i]].elements
           t == tslot[i]
           seg == elements[next[i]]
           offset == Offset(i, seg)
<1>1. /\ phase[i] = "elements" /\ phase[i] \in Building /\ next[i] \in Nat \ {0}
      /\ lib[i] \in Library
      /\ global \in [Global -> Word \cup {Null}]
  BY DEF InitElement, InStep, IInv, Typing, Referents, Lives, Building
<1>2. {"missing", "failed"} \subseteq (Phases \ {"absent"}) \cap Stored
  BY DEF Phases, Building, Stored
<1>3. CASE \/ Goto(i, "missing") /\ UNCHANGED <<cells, lib, slots, dataAt, entered, aborted>>
           \/ Goto(i, "failed") /\ UNCHANGED <<cells, lib, slots, dataAt, entered, aborted>>
  BY <1>1, <1>2, <1>3, GotoSafe DEF cells
<1>4. CASE \E name : Crash(name)
  BY <1>4, CrashSafe
<1>5. CASE /\ ~(next[i] > Len(elements)) /\ ~OffsetIsNull(i, seg) /\ t # Null
           /\ table' = [table EXCEPT ![t].at = Placed(i, @, offset, seg.funcs)]
           /\ next' = [next EXCEPT ![i] = @ + 1]
           /\ UNCHANGED <<global, hostTables, hostGlobals, phase, lib, slots,
                          dataAt, entered, aborted>>
  <2>1. next[i] \in 1 .. Len(elements) /\ seg \in Segment(lib[i])
    <3>1. elements \in Seq(Segment(lib[i]))
      BY <1>1, DeclAssumption
    <3> QED
      BY <3>1, <1>1, <1>5
  <2>2. offset \in Word
    BY <2>1, <1>5 DEF Segment, Offset, OffsetIsNull, IInv, Typing, Referents, Refers
  <2>3. /\ t \in Table /\ table[t].size \in Word /\ table[t].max \in Word
        /\ table[t] = [size |-> table[t].size, max |-> table[t].max, at |-> table[t].at]
    BY <1>5, LiveTable DEF IInv, Typing, Referents, Refers
  <2>4. PICK b : b = Placed(i, table[t].at, offset, seg.funcs)
    OBVIOUS
  <2>5. /\ b \in [0 .. table[t].size - 1 -> Entry]
        /\ \A x \in 0 .. table[t].size - 1 :
             /\ Belongs(b[x].ctx, b[x].code, lib, phase)
             /\ b[x].code # Null => TrueSignature(b[x].code) = b[x].sig
    BY <1>1, <1>5, <2>1, <2>2, <2>4, SegmentCopied, ZenonT(60)
  <2>6. table' = [table EXCEPT ![t] = [size |-> table[t].size, max |-> table[t].max, at |-> b]]
    <3>1. table' = [table EXCEPT ![t] = [table[t] EXCEPT !.at = b]]
      BY <1>5, <2>4
    <3>2. [table[t] EXCEPT !.at = b] = [size |-> table[t].size, max |-> table[t].max, at |-> b]
      BY <2>3
    <3> QED
      BY <3>1, <3>2
  <2>7. Keeps /\ lib' = lib /\ phase' = phase
    BY <1>5 DEF Keeps
  <2> HIDE DEF t, elements, seg, offset
  <2>8. /\ EntriesBelong' /\ EntriesTyped' /\ table'[t] # Null
        /\ table' \in [Table -> {Null} \cup UNION {TableOf(o) : o \in Word}]
    <3>1. \A x \in 0 .. table[t].size - 1 :
            /\ Belongs(b[x].ctx, b[x].code, lib', phase')
            /\ b[x].code # Null => TrueSignature(b[x].code) = b[x].sig
      BY <2>5, <2>7
    <3> QED
      BY <2>3, <2>5, <2>6, <2>7, <3>1, TableWritten, ZenonT(60) DEF IInv, Belonging
  <2>9. Typing'
    <3>1. next' \in [Instance -> Nat]
      BY <1>1, <1>5 DEF IInv, Typing
    <3> QED
      BY <1>5, <2>8, <3>1 DEF IInv, Typing, slots
  <2>10. ASSUME NEW j \in Instance  PROVE Lives(j)' /\ Refers(j)'
    <3>1. Lives(j) /\ Refers(j)
      BY DEF IInv, Referents
    <3>2. phase[j] \in Building => next'[j] >= 1
      BY <3>1, <1>1, <1>5 DEF IInv, Typing, Lives
    <3>3. tslot[j] # Null => table'[tslot[j]] # Null
      BY <3>1, <2>6, <2>8 DEF IInv, Typing, Refers
    <3> QED
      BY <3>1, <3>2, <3>3, <1>5 DEF Lives, Refers, slots
  <2>11. Referents'
    BY <2>10, <1>5 DEF IInv, Referents
  <2>12. SlotsBelong' /\ SlotsTyped'
    BY <1>5, <2>7, SlotsKept DEF IInv, Belonging, slots, SlotsTyped
  <2> QED
    BY <2>8, <2>9, <2>11, <2>12 DEF IInv, Belonging
<1> QED
  BY <1>3, <1>4, <1>5 DEF InitElement

LEMMA FinishBuildSafe ==
  ASSUME IInv, NEW i \in Instance, FinishBuild(i)  PROVE IInv'
<1>1. /\ phase[i] \in Building /\ global \in [Global -> Word \cup {Null}]
      /\ {"built", "failed"} \subseteq (Phases \ {"absent"}) \cap Stored
  BY DEF FinishBuild, InStep, IInv, Typing, Building, Phases, Stored
<1> QED
  BY <1>1, GotoSafe DEF FinishBuild, cells

-----------------------------------------------------------------------------
(* Destruction: nothing that is left has the instance for its context.     *)

LEMMA DestroySafe ==
  ASSUME IInv, NEW i \in Instance, Destroy(i)  PROVE IInv'
<1> USE DEF IInv, Belonging
<1>1. /\ table' = [t \in Table |-> IF t \in OwnTables(i) THEN Null ELSE table[t]]
      /\ global' = [g \in Global |-> IF g \in OwnGlobals(i) THEN Null ELSE global[g]]
      /\ phase' = [phase EXCEPT ![i] = "absent"] /\ lib' = [lib EXCEPT ![i] = Null]
      /\ next' = [next EXCEPT ![i] = 0]
      /\ tslot' = [tslot EXCEPT ![i] = Null] /\ gslot' = [gslot EXCEPT ![i] = Null]
      /\ fslot' = [fslot EXCEPT ![i] = <<>>]
      /\ hostGlobals' = hostGlobals /\ ~Referenced(i) /\ phase[i] # "absent"
  BY DEF Destroy
<1>2. Typing'
  BY <1>1 DEF Typing, Phases
<1>3. /\ phase'[i] = "absent" /\ tslot'[i] = Null /\ gslot'[i] = Null /\ fslot'[i] = <<>>
      /\ lib'[i] = Null
      /\ \A j \in Instance \ {i} :
           /\ phase'[j] = phase[j] /\ tslot'[j] = tslot[j] /\ gslot'[j] = gslot[j]
           /\ fslot'[j] = fslot[j] /\ lib'[j] = lib[j] /\ next'[j] = next[j]
  BY <1>1 DEF Typing
<1>4. ASSUME NEW j \in Instance  PROVE Lives(j)' /\ Refers(j)'
  <2>1. CASE j = i
    BY <2>1, <1>3 DEF Lives, Refers, Building
  <2>2. CASE j # i
    <3>1. Lives(j) /\ Refers(j) /\ tslot[j] \in Table \cup {Null} /\ gslot[j] \in Global \cup {Null}
      BY DEF Referents, Typing
    <3>2. tslot[j] \notin OwnTables(i) /\ gslot[j] \notin OwnGlobals(i)
      BY <2>2, <1>1 DEF Referenced
    <3>3. /\ tslot[j] # Null => table'[tslot[j]] # Null
          /\ gslot[j] # Null => global'[gslot[j]] # Null
      BY <3>1, <3>2, <1>1 DEF Refers
    <3> QED
      BY <2>2, <3>1, <3>3, <1>1, <1>3 DEF Lives, Refers
  <2> QED
    BY <2>1, <2>2
<1>5. \A g \in hostGlobals : global'[g] # Null
  <2>1. ASSUME NEW g \in hostGlobals  PROVE g \notin OwnGlobals(i)
    BY <1>1 DEF OwnGlobals, Referents, Refers
  <2> QED
    BY <2>1, <1>1 DEF Referents
<1>6. Referents'
  BY <1>1, <1>4, <1>5 DEF Referents
<1>7. ASSUME NEW c, NEW f, Belongs(c, f, lib, phase), c \in Instance \cup {Null}, c # i
      PROVE  Belongs(c, f, lib', phase')
  BY <1>3, <1>7, StillBelongs DEF Belongs
<1>8. ASSUME NEW j \in Instance, NEW k \in DOMAIN fslot'[j]
      PROVE  /\ Belongs(fslot'[j][k].ctx, fslot'[j][k].code, lib', phase')
             /\ fslot'[j][k].code # Null =>
                  TrueSignature(fslot'[j][k].code) = Decl[lib'[j]].funcs[k].sig
  <2>1. j # i
    <3>1. DOMAIN <<>> = {}
      OBVIOUS
    <3> QED
      BY <3>1, <1>3, <1>8
  <2>2. /\ Belongs(fslot[j][k].ctx, fslot[j][k].code, lib, phase)
        /\ fslot[j][k].code # Null => TrueSignature(fslot[j][k].code) = Decl[lib[j]].funcs[k].sig
        /\ fslot[j][k].ctx \in Instance \cup {Null}
    BY <2>1, <1>3 DEF SlotsBelong, SlotsTyped, Typing, Bindings, Slot
  <2>3. fslot[j][k].ctx # i
    BY <2>1, <1>1, <1>3 DEF Referenced, NamedInSlot
  <2> QED
    BY <2>1, <2>2, <2>3, <1>3, <1>7
<1>9. ASSUME NEW t \in LiveTables', NEW x \in Indices(t)'
      PROVE  /\ Belongs(table'[t].at[x].ctx, table'[t].at[x].code, lib', phase')
             /\ table'[t].at[x].code # Null => TrueSignature(table'[t].at[x].code) = table'[t].at[x].sig
  <2>1. t \in LiveTables \ OwnTables(i) /\ table'[t] = table[t] /\ x \in Indices(t)
    BY <1>1, <1>9 DEF LiveTables, Indices
  <2>2. PICK e \in Entry : e = table[t].at[x]
    BY <2>1, EntryHolds
  <2>3. /\ Belongs(e.ctx, e.code, lib, phase)
        /\ e.code # Null => TrueSignature(e.code) = e.sig
        /\ e.ctx \in Instance \cup {Null}
    BY <2>1, <2>2, EntryHolds DEF Entry
  <2>4. e.ctx # i
    BY <2>1, <2>2, <1>1 DEF Referenced, NamedInEntry
  <2> QED
    BY <2>1, <2>2, <2>3, <2>4, <1>7
<1>10. SlotsBelong' /\ SlotsTyped'
  BY <1>8 DEF SlotsBelong, SlotsTyped
<1>11. EntriesBelong' /\ EntriesTyped'
  BY <1>9 DEF EntriesBelong, EntriesTyped
<1> QED
  BY <1>2, <1>6, <1>10, <1>11

-----------------------------------------------------------------------------
(* Calls.                                                                  *)

LEMMA EnterSafe ==
  ASSUME IInv, NEW c, NEW f, NEW s, NEW i, Enter(c, f, s, i)  PROVE IInv'
BY CrashSafe, NothingMoved DEF Enter

LEMMA CallSafe ==
  ASSUME IInv, NEW i \in Instance, NEW k, Call(i, k)  PROVE IInv'
<1>1. PICK c, f : Enter(c, f, Decl[lib[i]].funcs[k].sig, i)
  BY DEF Call
<1> QED
  BY <1>1, EnterSafe

LEMMA CallIndirectSafe ==
  ASSUME IInv, NEW i \in Instance, NEW x, NEW s, CallIndirect(i, x, s)  PROVE IInv'
<1>1. CASE Throw
  BY <1>1, NothingMoved DEF Throw
<1>2. CASE \E c, f : Enter(c, f, s, i)
  BY <1>2, EnterSafe
<1> QED
  BY <1>1, <1>2 DEF CallIndirect

LEMMA HostInvokeSafe ==
  ASSUME IInv, NEW j \in Instance, NEW k, NEW s, HostInvoke(j, k, s)  PROVE IInv'
<1>1. CASE Throw
  BY <1>1, NothingMoved DEF Throw
<1>2. CASE \E c, f : Enter(c, f, s, Null)
  BY <1>2, EnterSafe
<1> QED
  BY <1>1, <1>2 DEF HostInvoke

LEMMA GlobalSetSafe ==
  ASSUME IInv, NEW i \in Instance, NEW v \in GlobalValue, GlobalSet(i, v)  PROVE IInv'
<1>1. /\ gslot[i] \in Global \cup {Null} /\ v \in Word
      /\ hostGlobals' = hostGlobals \cup {} /\ {} \in SUBSET {gslot[i]}
  BY WordAssumption DEF IInv, Typing, GlobalSet
<1> QED
  BY <1>1, CellWritten DEF GlobalSet

-----------------------------------------------------------------------------
(* The invariant.                                                          *)

LEMMA InitSafe == Init => IInv
<1> SUFFICES ASSUME Init PROVE IInv
  OBVIOUS
<1>1. Typing
  BY DEF Init, Typing, Phases
<1>2. Referents
  BY DEF Init, Referents, Lives, Refers, Building
<1>3. Belonging
  BY DEF Init, Belonging, SlotsBelong, EntriesBelong, SlotsTyped, EntriesTyped, LiveTables
<1> QED
  BY <1>1, <1>2, <1>3 DEF IInv

LEMMA StepSafe == IInv /\ [Next]_vars => IInv'
<1> SUFFICES ASSUME IInv, [Next]_vars PROVE IInv'
  OBVIOUS
<1>1. CASE HostNext
  BY <1>1, HostTableSafe, HostDestroyTableSafe, HostSetFunctionSafe, HostSetCalleeSafe,
     HostGlobalsSafe, HostDestroyGlobalSafe DEF HostNext
<1>2. ASSUME NEW i \in Instance, LinkNext(i)  PROVE IInv'
  BY <1>2, OpenSafe, ImportTableSafe, ImportGlobalSafe, ImportHostSafe, ImportExportSafe,
     ImportEntrySafe, DestroySafe DEF LinkNext
<1>3. ASSUME NEW i \in Instance, BuildLinked(i)  PROVE IInv'
  BY <1>3, BuildSafe DEF BuildLinked
<1>4. ASSUME NEW i \in Instance, InitNext(i)  PROVE IInv'
  BY <1>4, InitDataSafe, InitGlobalsSafe, InitFunctionsSafe, InitElementSafe, FinishBuildSafe
     DEF InitNext
<1>5. ASSUME NEW i \in Instance, RunNext(i)  PROVE IInv'
  BY <1>5, CallSafe, CallIndirectSafe, HostInvokeSafe, GlobalSetSafe DEF RunNext
<1>6. CASE UNCHANGED vars
  BY <1>6, NothingMoved DEF vars
<1> QED
  BY <1>1, <1>2, <1>3, <1>4, <1>5, <1>6 DEF Next

(* Whatever the host links, calls and destroys, every pair of code and      *)
(* context that is stored anywhere belongs together: the code is the host's *)
(* and without a context, or its context is an instance of the library that *)
(* defines it, which is still there and has stored its functions.           *)
THEOREM PairsAlwaysBelong == Spec => []PairsBelong
<1>1. IInv => PairsBelong
  BY BelongingSuffices DEF IInv, Belonging
<1> QED
  BY <1>1, InitSafe, StepSafe, PTL DEF Spec

-----------------------------------------------------------------------------
(* Where calls land.                                                       *)

Arrived == CallsFindTheirInstance /\ CallsAreTyped

\* A call that was made by way of a pair that belongs, of its code's type.
LEMMA PairEntered ==
  ASSUME NEW c, NEW f, NEW s, NEW i, f # Null, Belongs(c, f, lib, phase),
         TrueSignature(f) = s, f \in HostFn => c = Null,
         NEW d, d = Context(c, i) \/ (f \notin HostFn /\ d = c),
         entered' = [ctx |-> d, code |-> f, sig |-> s, caller |-> i], lib' = lib
  PROVE  Arrived'
<1>1. CASE f \in HostFn
  <2>1. d = i
    BY <1>1 DEF Context
  <2> QED
    BY <1>1, <2>1 DEF Arrived, CallsFindTheirInstance, CallsAreTyped
<1>2. CASE f \notin HostFn
  <2>1. c # Null /\ lib[c] = f[1] /\ ~IsImport(f[1], f[2])
    BY <1>2 DEF Belongs
  <2>2. d = c
    BY <2>1 DEF Context
  <2> QED
    BY <1>2, <2>1, <2>2 DEF Arrived, CallsFindTheirInstance, CallsAreTyped, Defines
<1> QED
  BY <1>1, <1>2

\* Other steps forget the last call, or leave it and the libraries alone.
LEMMA NothingEntered ==
  ASSUME Arrived, entered' = Null \/ (entered' = entered /\ lib' = lib)
  PROVE  Arrived'
BY DEF Arrived, CallsFindTheirInstance, CallsAreTyped, Defines

LEMMA CallArrives ==
  ASSUME IInv, Arrived, NEW i \in Instance, NEW k, Call(i, k)  PROVE Arrived'
<1>1. phase[i] # "absent" /\ k \in Functions(lib[i]) /\ lib[i] \in Library /\ i # Null
  BY NullAssumption DEF Call, Executes, IInv, Referents, Lives
<1>2. CASE IsImport(lib[i], k)
  <2> DEFINE c == fslot[i][k].ctx
             f == fslot[i][k].code
             s == Decl[lib[i]].funcs[k].sig
  <2>1. Enter(Context(c, i), f, s, i)
    BY <1>2 DEF Call
  <2>2. CASE f = Null
    BY <2>1, <2>2, NothingEntered DEF Enter, Crash
  <2>3. CASE f # Null
    <3>1. Belongs(c, f, lib, phase) /\ TrueSignature(f) = s
      BY <1>1, <2>3, SlotHolds
    <3>2. PICK d : /\ d = Context(c, i)
                   /\ entered' = [ctx |-> d, code |-> f, sig |-> s, caller |-> i]
                   /\ lib' = lib
      BY <2>1, <2>3 DEF Enter
    <3>3. f \in HostFn => c = Null
      BY <3>1 DEF Belongs
    <3> HIDE DEF c, f, s
    <3> QED
      BY <2>3, <3>1, <3>2, <3>3, PairEntered
  <2> QED
    BY <2>2, <2>3
<1>3. CASE ~IsImport(lib[i], k)
  <2>1. Enter(i, <<lib[i], k>>, Decl[lib[i]].funcs[k].sig, i)
    BY <1>3 DEF Call
  <2>2. <<lib[i], k>> \notin HostFn
    BY <1>1, NullAssumption
  <2>3. CASE <<lib[i], k>> = Null
    BY <2>1, <2>3, NothingEntered DEF Enter, Crash
  <2>4. CASE <<lib[i], k>> # Null
    <3>1. /\ entered' = [ctx |-> i, code |-> <<lib[i], k>>, sig |-> Decl[lib[i]].funcs[k].sig, caller |-> i]
          /\ lib' = lib
      BY <2>1, <2>4 DEF Enter
    <3> QED
      BY <1>1, <1>3, <2>2, <3>1
         DEF Arrived, CallsFindTheirInstance, CallsAreTyped, Defines, TrueSignature
  <2> QED
    BY <2>3, <2>4
<1> QED
  BY <1>2, <1>3

LEMMA CallIndirectArrives ==
  ASSUME IInv, Arrived, NEW i \in Instance, NEW x \in Word, NEW s, CallIndirect(i, x, s)
  PROVE  Arrived'
<1> DEFINE t == tslot[i]
<1>1. t \in Table /\ table[t] # Null /\ t \in LiveTables
  BY DEF CallIndirect, IInv, Typing, Referents, Refers, LiveTables
<1>2. CASE x <= table[t].size /\ x < table[t].size /\ EntryAdmits(table[t].at[x], s)
  <2>1. x \in Indices(t)
    <3>1. table[t].size \in Word /\ DOMAIN table[t].at = 0 .. table[t].size - 1
      BY <1>1, LiveTable DEF IInv
    <3> QED
      BY <3>1, <1>2, WordAssumption DEF Word, Indices
  <2>2. PICK e \in Entry : e = table[t].at[x]
    BY <1>1, <2>1, EntryHolds
  <2>3. /\ Belongs(e.ctx, e.code, lib, phase)
        /\ TrueSignature(e.code) = s /\ e.code # Null
    BY <1>1, <1>2, <2>1, <2>2, EntryHolds DEF EntryAdmits
  <2>4. PICK d : /\ d = Context(e.ctx, i)
                 /\ entered' = [ctx |-> d, code |-> e.code, sig |-> s, caller |-> i]
                 /\ lib' = lib
    BY <1>2, <2>2, <2>3 DEF CallIndirect, Enter
  <2>5. e.code \in HostFn => e.ctx = Null
    BY <2>3 DEF Belongs
  <2> QED
    BY <2>3, <2>4, <2>5, PairEntered
<1>3. CASE Throw
  BY <1>3, NothingEntered DEF Throw
<1> QED
  BY <1>2, <1>3 DEF CallIndirect

LEMMA HostInvokeArrives ==
  ASSUME IInv, Arrived, NEW j \in Instance, NEW k, NEW s, HostInvoke(j, k, s)
  PROVE  Arrived'
<1> DEFINE c == fslot[j][k].ctx
           f == fslot[j][k].code
<1>1. phase[j] # "absent" /\ k \in Functions(lib[j]) /\ f \notin HostFn
  BY DEF HostInvoke, Exports
<1>2. CASE s = Decl[lib[j]].funcs[k].sig
  <2>1. Enter(c, f, s, Null)
    BY <1>2 DEF HostInvoke
  <2>2. CASE f = Null
    BY <2>1, <2>2, NothingEntered DEF Enter, Crash
  <2>3. CASE f # Null
    <3>1. Belongs(c, f, lib, phase) /\ TrueSignature(f) = s
      BY <1>1, <1>2, <2>3, SlotHolds
    <3>2. entered' = [ctx |-> c, code |-> f, sig |-> s, caller |-> Null] /\ lib' = lib
      BY <2>1, <2>3 DEF Enter
    <3> HIDE DEF c, f
    <3> QED
      BY <1>1, <2>3, <3>1, <3>2, PairEntered
  <2> QED
    BY <2>2, <2>3
<1>3. CASE s # Decl[lib[j]].funcs[k].sig
  BY <1>3, NothingEntered DEF HostInvoke, Throw
<1> QED
  BY <1>2, <1>3

LEMMA StepArrives == IInv /\ Arrived /\ [Next]_vars => Arrived'
<1> SUFFICES ASSUME IInv, Arrived, [Next]_vars PROVE Arrived'
  OBVIOUS
<1>1. CASE HostNext
  BY <1>1, NothingEntered DEF HostNext, HostTable, HostDestroyTable, HostSetFunction,
     HostSetCallee, HostGlobal, HostSetGlobal, HostDestroyGlobal
<1>2. ASSUME NEW i \in Instance, LinkNext(i)  PROVE Arrived'
  BY <1>2, NothingEntered DEF LinkNext, Open, ImportTable, ImportGlobal, ImportHost,
     ImportExport, ImportEntry, BindFunction, Destroy
<1>3. ASSUME NEW i \in Instance, BuildLinked(i)  PROVE Arrived'
  BY <1>3, NothingEntered DEF BuildLinked, Build
<1>4. ASSUME NEW i \in Instance, InitNext(i)  PROVE Arrived'
  <2>1. entered' = entered /\ lib' = lib
    BY <1>4 DEF InitNext, InitData, InitGlobals, InitFunctions, InitElement, FinishBuild, Crash
  <2> QED
    BY <2>1, NothingEntered
<1>5. ASSUME NEW i \in Instance, RunNext(i)  PROVE Arrived'
  <2>1. ASSUME NEW v, GlobalSet(i, v)  PROVE Arrived'
    BY <2>1, NothingEntered DEF GlobalSet
  <2> QED
    BY <1>5, <2>1, CallArrives, CallIndirectArrives, HostInvokeArrives DEF RunNext
<1>6. CASE UNCHANGED vars
  BY <1>6, NothingEntered DEF vars
<1> QED
  BY <1>1, <1>2, <1>3, <1>4, <1>5, <1>6 DEF Next

LEMMA ArrivedAlways == Spec => []Arrived
<1>1. Init => Arrived
  BY DEF Init, Arrived, CallsFindTheirInstance, CallsAreTyped
<1> QED
  BY <1>1, InitSafe, StepSafe, StepArrives, PTL DEF Spec

(* A call enters compiled code with an instance of its own library, and a   *)
(* host function with the caller's, through whatever chain of exports,      *)
(* imports and tables the pointer came.                                     *)
THEOREM CallsAlwaysFindTheirInstance == Spec => []CallsFindTheirInstance
<1>1. Arrived => CallsFindTheirInstance
  BY DEF Arrived
<1> QED
  BY <1>1, ArrivedAlways, PTL

(* A call enters code at the type it was compiled for.                      *)
THEOREM CallsAlwaysTyped == Spec => []CallsAreTyped
<1>1. Arrived => CallsAreTyped
  BY DEF Arrived
<1> QED
  BY <1>1, ArrivedAlways, PTL

-----------------------------------------------------------------------------
(***************************************************************************)
(* What Build and the initializer leave behind: segments are where they are  *)
(* declared, and the one thing that can end the process is an offset that     *)
(* wraps.                                                                    *)
(*                                                                         *)
(* While Build runs nothing else does (OneBuilder), so that the initializer *)
(* can be followed segment by segment (Filled), with the offset of a        *)
(* segment standing for the declared one once the instance's own global is  *)
(* initialised (Initialised).  That no null slot is used follows from what  *)
(* Build has been given (Full): imports before it, its own cells from it,   *)
(* its own functions from the initializer.                                 *)
(***************************************************************************)
Started == Building \cup {"built", "failed"}
Ready == {"elements", "missing", "built"}

\* Slots that have been filled stay filled.
Full(i) ==
  phase[i] \in Started =>
    /\ Decl[lib[i]].table.kind # "none" => tslot[i] # Null
    /\ Decl[lib[i]].global.kind # "none" => gslot[i] # Null
    /\ \A k \in Functions(lib[i]) :
         (IsImport(lib[i], k) \/ phase[i] \in Ready) => fslot[i][k].code # Null

OneBuilder ==
  \A i, j \in Instance : phase[i] \in Building /\ phase[j] \in Building => i = j

\* A global holds what the host or a declaration has put there.
CellValues == \A g \in Global : global[g] \in GlobalValue \cup {0, Null}

\* A global the library defines has its value, from the end of InitGlobals on.
Initialised(i) ==
  phase[i] \in {"functions", "elements", "missing"} /\ Decl[lib[i]].global.kind = "define"
  => global[gslot[i]] = Decl[lib[i]].global.value

\* Segments that have been copied are in place, but where a later one is.
Done(i, n) == phase[i] = "missing" \/ (phase[i] = "elements" /\ n < next[i])

Spans(i, n, x) ==
  LET seg == Decl[lib[i]].elements[n] IN
  x \in Offset(i, seg) .. Offset(i, seg) + Len(seg.funcs) - 1

InPlace(i, n, x) ==
  LET seg == Decl[lib[i]].elements[n]
      k == seg.funcs[x - Offset(i, seg) + 1]
  IN  /\ x \in Indices(tslot[i])
      /\ table[tslot[i]].at[x].code = fslot[i][k].code

Filled(i) ==
  \A n \in DOMAIN Decl[lib[i]].elements, x \in Word :
    (/\ Done(i, n)
     /\ Spans(i, n, x)
     /\ \A m \in DOMAIN Decl[lib[i]].elements : m > n /\ Done(i, m) => ~Spans(i, m, x))
    => InPlace(i, n, x)

Followed(i) == phase[i] \in Building => Initialised(i) /\ Filled(i)

BInv ==
  /\ OneBuilder
  /\ CellValues
  /\ \A i \in Instance : Full(i) /\ Followed(i)

-----------------------------------------------------------------------------
(* Steps outside Build.                                                    *)

LEMMA FullKept ==
  ASSUME NEW j, Full(j),
         phase'[j] \in Started =>
           /\ phase'[j] = phase[j] /\ lib'[j] = lib[j]
           /\ tslot'[j] = tslot[j] /\ gslot'[j] = gslot[j] /\ fslot'[j] = fslot[j]
  PROVE  Full(j)'
BY DEF Full

\* A step from and to states without a builder that leaves the slots of every
\* other instance alone, and those of one that has started.
LEMMA OutsideBuild ==
  ASSUME BInv, CellValues', \A j \in Instance : phase'[j] \notin Building,
         \A j \in Instance :
           phase'[j] \in Started =>
             /\ phase'[j] = phase[j] /\ lib'[j] = lib[j]
             /\ tslot'[j] = tslot[j] /\ gslot'[j] = gslot[j] /\ fslot'[j] = fslot[j]
  PROVE  BInv'
<1>1. OneBuilder'
  BY DEF OneBuilder
<1>2. ASSUME NEW j \in Instance  PROVE Full(j)' /\ Followed(j)'
  BY FullKept DEF BInv, Followed
<1> QED
  BY <1>1, <1>2 DEF BInv

LEMMA HostKeepsBuilt ==
  ASSUME IInv, BInv, HostNext  PROVE BInv'
<1>1. /\ \A j \in Instance : phase'[j] \notin Building
      /\ UNCHANGED <<phase, lib, tslot, gslot, fslot>>
  BY DEF HostNext, HostTable, HostDestroyTable, HostSetFunction, HostSetCallee, HostGlobal,
     HostSetGlobal, HostDestroyGlobal, Idle, slots
<1>2. CellValues'
  <2>1. \/ UNCHANGED global
        \/ \E g \in Global : \E v \in GlobalValue \cup {Null} : global' = [global EXCEPT ![g] = v]
    BY DEF HostNext, HostTable, HostDestroyTable, HostSetFunction, HostSetCallee, HostGlobal,
       HostSetGlobal, HostDestroyGlobal
  <2> QED
    BY <2>1 DEF BInv, CellValues, IInv, Typing
<1> QED
  BY <1>1, <1>2, OutsideBuild

LEMMA LinkKeepsBuilt ==
  ASSUME IInv, BInv, NEW i \in Instance, LinkNext(i)  PROVE BInv'
<1>1. CASE \E l \in Library : Open(i, l)
  <2>1. /\ \A j \in Instance : phase[j] \notin Building
        /\ phase' = [phase EXCEPT ![i] = "linking"] /\ UNCHANGED <<global, tslot, gslot>>
        /\ \A j \in Instance \ {i} : lib'[j] = lib[j] /\ fslot'[j] = fslot[j]
    BY <1>1 DEF Open, Idle, cells, IInv, Typing
  <2> QED
    BY <2>1, OutsideBuild DEF BInv, CellValues, IInv, Typing, Started, Building
<1>2. CASE Destroy(i)
  <2>1. /\ \A j \in Instance : phase[j] \notin Building
        /\ phase' = [phase EXCEPT ![i] = "absent"]
        /\ \A j \in Instance \ {i} : /\ lib'[j] = lib[j] /\ fslot'[j] = fslot[j]
                                     /\ tslot'[j] = tslot[j] /\ gslot'[j] = gslot[j]
        /\ \A g \in Global : global'[g] \in {global[g], Null}
    BY <1>2 DEF Destroy, Idle, IInv, Typing
  <2> QED
    BY <2>1, OutsideBuild DEF BInv, CellValues, IInv, Typing, Started, Building
<1>3. CASE \/ \E t \in Table : ImportTable(i, t)
           \/ \E g \in Global : ImportGlobal(i, g)
           \/ \E k, c, f, s : BindFunction(i, k, c, f, s)
  <2>1. /\ \A j \in Instance : phase[j] \notin Building
        /\ phase[i] = "linking" /\ UNCHANGED <<phase, lib, global>>
        /\ \A j \in Instance \ {i} : /\ fslot'[j] = fslot[j]
                                     /\ tslot'[j] = tslot[j] /\ gslot'[j] = gslot[j]
    BY <1>3 DEF ImportTable, ImportGlobal, BindFunction, Idle, cells, IInv, Typing
  <2> QED
    BY <2>1, OutsideBuild DEF BInv, CellValues, Started, Building
<1> QED
  BY <1>1, <1>2, <1>3 DEF LinkNext, ImportHost, ImportExport, ImportEntry

LEMMA RunKeepsBuilt ==
  ASSUME IInv, BInv, NEW i \in Instance, RunNext(i)  PROVE BInv'
<1>1. /\ \A j \in Instance : phase'[j] \notin Building
      /\ UNCHANGED <<phase, lib, tslot, gslot, fslot>>
  BY DEF RunNext, Call, CallIndirect, HostInvoke, GlobalSet, Enter, Throw, Crash, Idle, slots
<1>2. CellValues'
  <2>1. \/ UNCHANGED global
        \/ \E g : \E v \in GlobalValue : global' = [global EXCEPT ![g] = v]
    BY DEF RunNext, Call, CallIndirect, HostInvoke, GlobalSet, Enter, Throw, Crash, cells
  <2> QED
    BY <2>1 DEF BInv, CellValues, IInv, Typing
<1> QED
  BY <1>1, <1>2, OutsideBuild


-----------------------------------------------------------------------------
(* Build and the initializer.                                              *)

\* A step of the builder leaves it alone with what it builds.
LEMMA BuilderAlone ==
  ASSUME IInv, BInv, NEW i \in Instance, phase[i] \in Building, CellValues',
         NEW p, phase' = [phase EXCEPT ![i] = p], UNCHANGED <<lib, tslot, gslot>>,
         \A j \in Instance \ {i} : fslot'[j] = fslot[j],
         Full(i)', Followed(i)'
  PROVE  BInv'
<1>1. ASSUME NEW j \in Instance, j # i
      PROVE  phase'[j] = phase[j] /\ phase'[j] \notin Building
  BY <1>1 DEF BInv, OneBuilder, IInv, Typing
<1>2. OneBuilder'
  BY <1>1 DEF OneBuilder
<1>3. ASSUME NEW j \in Instance  PROVE Full(j)' /\ Followed(j)'
  <2>1. CASE j # i
    BY <1>1, <2>1, FullKept DEF BInv, Followed
  <2> QED
    BY <2>1
<1> QED
  BY <1>2, <1>3 DEF BInv

LEMMA BuildKeepsBuilt ==
  ASSUME IInv, BInv, NEW i \in Instance, BuildLinked(i)  PROVE BInv'
<1> DEFINE d == Decl[lib[i]]
<1>1. /\ \A j \in Instance : phase[j] \notin Building
      /\ phase' = [phase EXCEPT ![i] = "data"] /\ phase'[i] = "data"
      /\ UNCHANGED <<lib, fslot>>
  BY DEF BuildLinked, Build, Idle, IInv, Typing
<1>2. lib[i] \in Library /\ d.table.kind \in Kind /\ d.global.kind \in Kind
  <2>1. lib[i] \in Library
    BY DEF BuildLinked, Build, IInv, Referents, Lives
  <2> QED
    BY <2>1, DeclAssumption
<1>3. \A j \in Instance \ {i} : tslot'[j] = tslot[j] /\ gslot'[j] = gslot[j]
  BY DEF BuildLinked, Build, DefineTable, DefineGlobal, IInv, Typing
<1>4. CellValues'
  <2>1. \/ UNCHANGED global
        \/ \E g \in Global : global' = [global EXCEPT ![g] = 0]
    BY DEF BuildLinked, Build, DefineGlobal
  <2> QED
    BY <2>1 DEF BInv, CellValues, IInv, Typing
<1>5. d.table.kind # "none" => tslot'[i] # Null
  <2>1. CASE d.table.kind = "define"
    BY <2>1, NullAssumption DEF BuildLinked, Build, DefineTable, IInv, Typing
  <2>2. CASE d.table.kind = "import"
    BY <2>2 DEF BuildLinked, Build, DefineTable, AllImported
  <2> QED
    BY <1>2, <2>1, <2>2 DEF Kind
<1>6. d.global.kind # "none" => gslot'[i] # Null
  <2>1. CASE d.global.kind = "define"
    BY <2>1, NullAssumption DEF BuildLinked, Build, DefineGlobal, IInv, Typing
  <2>2. CASE d.global.kind = "import"
    BY <2>2 DEF BuildLinked, Build, DefineGlobal, AllImported
  <2> QED
    BY <1>2, <2>1, <2>2 DEF Kind
<1>7. Full(i)'
  <2>1. \A k \in Functions(lib[i]) : IsImport(lib[i], k) => fslot[i][k].code # Null
    BY DEF BuildLinked, AllImported
  <2> QED
    BY <1>1, <1>5, <1>6, <2>1 DEF Full, Ready
<1>8. Followed(i)'
  BY <1>1 DEF Followed, Initialised, Filled, Done
<1>9. ASSUME NEW j \in Instance, j # i
      PROVE  phase'[j] = phase[j] /\ phase'[j] \notin Building
  BY <1>1, <1>9 DEF IInv, Typing
<1>10. ASSUME NEW j \in Instance  PROVE Full(j)' /\ Followed(j)'
  <2>1. CASE j # i
    BY <1>1, <1>3, <1>9, <2>1, FullKept DEF BInv, Followed
  <2> QED
    BY <2>1, <1>7, <1>8
<1> QED
  BY <1>4, <1>9, <1>10 DEF BInv, OneBuilder

\* Build goes on to a part in which no segment has been copied, or ends.
LEMMA PartKeepsBuilt ==
  ASSUME IInv, BInv, NEW i \in Instance, phase[i] \in Building, CellValues',
         NEW p \in {"data", "globals", "functions", "built", "failed"},
         p = "functions" => Initialised(i)',
         p = "built" => phase[i] \in Ready,
         phase' = [phase EXCEPT ![i] = p], UNCHANGED <<lib, tslot, gslot, fslot>>
  PROVE  BInv'
<1>1. phase'[i] = p
  BY DEF IInv, Typing
<1>2. Full(i)'
  <2>1. Full(i) /\ phase[i] \in Started
    BY DEF BInv, Started
  <2>2. p \in Ready => phase[i] \in Ready
    BY DEF Ready
  <2> QED
    BY <1>1, <2>1, <2>2 DEF Full
<1>3. Followed(i)'
  BY <1>1 DEF Followed, Initialised, Filled, Done, Building
<1> QED
  BY <1>2, <1>3, BuilderAlone

LEMMA InitDataKeepsBuilt ==
  ASSUME IInv, BInv, NEW i \in Instance, InitData(i)  PROVE BInv'
<1>1. /\ phase[i] = "data" /\ phase[i] \in Building
      /\ UNCHANGED <<global, lib, tslot, gslot, fslot>>
  BY DEF InitData, InStep, Crash, cells, slots, Building
<1>2. \E p \in {"data", "globals", "failed"} : phase' = [phase EXCEPT ![i] = p]
  <2>1. phase' = phase => phase' = [phase EXCEPT ![i] = "data"]
    BY <1>1 DEF IInv, Typing
  <2> QED
    BY <2>1 DEF InitData, Goto, Crash
<1>3. CellValues'
  BY <1>1 DEF BInv, CellValues
<1> QED
  BY <1>1, <1>2, <1>3, PartKeepsBuilt

LEMMA InitGlobalsKeepsBuilt ==
  ASSUME IInv, BInv, NEW i \in Instance, InitGlobals(i)  PROVE BInv'
<1> DEFINE v == Decl[lib[i]].global.value
<1>1. /\ phase[i] = "globals" /\ phase[i] \in Building /\ phase[i] \in Started
      /\ phase' = [phase EXCEPT ![i] = "functions"] /\ UNCHANGED <<lib, tslot, gslot, fslot>>
  BY DEF InitGlobals, InStep, Goto, slots, Building, Started
<1>2. CASE Decl[lib[i]].global.kind = "define"
  <2>1. gslot[i] \in Global /\ lib[i] \in Library
    BY <1>1, <1>2 DEF BInv, Full, IInv, Typing, Referents, Lives, Building
  <2>2. v \in GlobalValue
    BY <1>2, <2>1, DeclAssumption
  <2>3. global' = [global EXCEPT ![gslot[i]] = v]
    BY <1>2 DEF InitGlobals
  <2>4. CellValues' /\ global'[gslot[i]] = v
    BY <2>1, <2>2, <2>3 DEF BInv, CellValues, IInv, Typing
  <2> QED
    BY <1>1, <2>4, PartKeepsBuilt DEF Initialised
<1>3. CASE Decl[lib[i]].global.kind # "define"
  <2>1. CellValues'
    BY <1>3 DEF InitGlobals, BInv, CellValues
  <2> QED
    BY <1>1, <1>3, <2>1, PartKeepsBuilt DEF Initialised
<1> QED
  BY <1>2, <1>3

LEMMA FinishBuildKeepsBuilt ==
  ASSUME IInv, BInv, NEW i \in Instance, FinishBuild(i)  PROVE BInv'
<1>1. /\ phase[i] \in Building /\ phase[i] \in Ready
      /\ UNCHANGED <<global, lib, tslot, gslot, fslot>>
      /\ \E p \in {"built", "failed"} : phase' = [phase EXCEPT ![i] = p]
  BY DEF FinishBuild, InStep, Goto, cells, slots, Building, Ready
<1>2. CellValues'
  BY <1>1 DEF BInv, CellValues
<1> QED
  BY <1>1, <1>2, PartKeepsBuilt

LEMMA InitFunctionsKeepsBuilt ==
  ASSUME IInv, BInv, NEW i \in Instance, InitFunctions(i)  PROVE BInv'
<1>1. /\ phase[i] = "functions" /\ phase[i] \in Building /\ phase[i] \in Started
      /\ phase' = [phase EXCEPT ![i] = "elements"] /\ phase'[i] = "elements"
      /\ next'[i] = 1 /\ UNCHANGED <<global, lib, tslot, gslot>>
      /\ \A j \in Instance \ {i} : fslot'[j] = fslot[j]
      /\ lib[i] \in Library /\ fslot[i] \in Bindings(lib[i])
  BY DEF InitFunctions, InStep, Goto, cells, Building, Started, IInv, Typing, Referents, Lives
<1>2. CellValues'
  BY <1>1 DEF BInv, CellValues
<1>3. Full(i)'
  <2>1. \A k \in Functions(lib[i]) :
          fslot'[i][k] = IF IsImport(lib[i], k) THEN fslot[i][k] ELSE OwnSlot(i, k)
    BY <1>1 DEF InitFunctions, IInv, Typing, Bindings
  <2>2. ASSUME NEW k \in Functions(lib[i])  PROVE fslot'[i][k].code # Null
    <3>1. CASE IsImport(lib[i], k)
      BY <1>1, <2>1, <3>1 DEF BInv, Full
    <3>2. CASE ~IsImport(lib[i], k)
      <4>1. <<lib[i], k>> # Null
        BY <1>1, NullAssumption DEF Code
      <4>2. fslot'[i][k] = [ctx |-> i, code |-> <<lib[i], k>>]
        BY <2>1, <3>2 DEF OwnSlot
      <4> QED
        BY <4>1, <4>2
    <3> QED
      BY <3>1, <3>2
  <2> QED
    BY <1>1, <2>2 DEF BInv, Full
<1>4. Followed(i)'
  <2>1. Initialised(i)'
    BY <1>1 DEF BInv, Followed, Initialised
  <2>2. \A n \in DOMAIN Decl[lib[i]].elements : n \in Nat \ {0}
    BY <1>1, DeclAssumption
  <2>3. Filled(i)'
    BY <1>1, <2>2 DEF Filled, Done
  <2> QED
    BY <2>1, <2>3 DEF Followed
<1> QED
  BY <1>1, <1>2, <1>3, <1>4, BuilderAlone

\* The next segment as InitElement sees it.
LEMMA NextSegment ==
  ASSUME IInv, BInv, NEW i \in Instance, phase[i] = "elements",
         next[i] <= Len(Decl[lib[i]].elements)
  PROVE  LET l == lib[i]
             seg == Decl[l].elements[next[i]]
         IN  /\ l \in Library /\ next[i] \in DOMAIN Decl[l].elements
             /\ seg \in Segment(l) /\ seg.funcs \in Seq(Functions(l))
             /\ seg.fromGlobal => gslot[i] \in Global
             /\ tslot[i] \in Table /\ table[tslot[i]] # Null
             /\ Offset(i, seg) \in Word
             /\ Offset(i, seg) \in IF seg.fromGlobal THEN GlobalValue \cup {0} ELSE {seg.value}
<1> DEFINE l == lib[i]
           seg == Decl[l].elements[next[i]]
<1>1. l \in Library /\ next[i] \in Nat \ {0} /\ phase[i] \in Started
  BY DEF IInv, Typing, Referents, Lives, Building, Started
<1>2. /\ Decl[l].elements \in Seq(Segment(l))
      /\ \A n \in DOMAIN Decl[l].elements :
           /\ Decl[l].table.kind # "none"
           /\ Decl[l].elements[n].fromGlobal => Decl[l].global.kind # "none"
  BY <1>1, DeclAssumption
<1>3. next[i] \in DOMAIN Decl[l].elements
  BY <1>1, <1>2
<1>4. seg \in Segment(l)
  BY <1>2, <1>3
<1>5. tslot[i] \in Table /\ table[tslot[i]] # Null
  BY <1>1, <1>2, <1>3 DEF BInv, Full, IInv, Typing, Referents, Refers
<1>6. seg.fromGlobal => gslot[i] \in Global /\ global[gslot[i]] \in Word
                                           /\ global[gslot[i]] \in GlobalValue \cup {0}
  BY <1>1, <1>2, <1>3 DEF BInv, Full, CellValues, IInv, Typing, Referents, Refers
<1> QED
  BY <1>1, <1>3, <1>4, <1>5, <1>6 DEF Segment, Offset

\* A segment is copied behind the others.
LEMMA CopyFills ==
  ASSUME IInv, BInv, NEW i \in Instance, phase[i] = "elements",
         next[i] <= Len(Decl[lib[i]].elements),
         LET seg == Decl[lib[i]].elements[next[i]] IN
           /\ Len(seg.funcs) > 0 =>
                Offset(i, seg) + Len(seg.funcs) <= table[tslot[i]].size
           /\ table' = [table EXCEPT ![tslot[i]].at = Placed(i, @, Offset(i, seg), seg.funcs)],
         next' = [next EXCEPT ![i] = @ + 1],
         UNCHANGED <<global, phase, lib, slots>>
  PROVE  Filled(i)'
<1> DEFINE l == lib[i]
           seg == Decl[l].elements[next[i]]
           offset == Offset(i, seg)
           funcs == seg.funcs
           t == tslot[i]
           size == table[t].size
<1>1. /\ l \in Library /\ next[i] \in DOMAIN Decl[l].elements /\ funcs \in Seq(Functions(l))
      /\ t \in Table /\ table[t] # Null /\ offset \in Nat
      /\ Decl[l].elements \in Seq(Segment(l)) /\ next[i] \in Nat
  <2>1. /\ l \in Library /\ next[i] \in DOMAIN Decl[l].elements /\ funcs \in Seq(Functions(l))
        /\ t \in Table /\ table[t] # Null /\ offset \in Word
    BY NextSegment
  <2>2. Decl[l].elements \in Seq(Segment(l))
    BY <2>1, DeclAssumption
  <2>3. next[i] \in Nat
    BY DEF IInv, Typing
  <2>4. offset \in Nat
    <3> HIDE DEF offset
    <3> QED
      BY <2>1, WordAssumption DEF Word
  <2> QED
    BY <2>1, <2>2, <2>3, <2>4
<1>2. /\ size \in Nat /\ DOMAIN table[t].at = 0 .. size - 1
      /\ table[t] = [size |-> table[t].size, max |-> table[t].max, at |-> table[t].at]
  <2>1. /\ size \in Word /\ table[t].at \in [0 .. size - 1 -> Entry]
        /\ table[t] = [size |-> table[t].size, max |-> table[t].max, at |-> table[t].at]
    BY <1>1, LiveTable DEF IInv
  <2>2. size \in Nat
    <3> HIDE DEF size
    <3> QED
      BY <2>1, WordAssumption DEF Word
  <2> QED
    BY <2>1, <2>2
<1>3. table'[t].at = Placed(i, table[t].at, offset, funcs)
  BY <1>1, <1>2 DEF IInv, Typing
<1>4. \A n : Done(i, n)' <=> n < next[i] + 1
  BY DEF Done, IInv, Typing
<1>5. /\ \A n, x : Spans(i, n, x)' <=> Spans(i, n, x)
      /\ \A g : Offset(i, g)' = Offset(i, g)
      /\ tslot' = tslot /\ fslot' = fslot /\ lib' = lib
  BY DEF Spans, Offset, slots
<1>6. ASSUME NEW n \in DOMAIN Decl[l].elements, NEW x \in Word,
             Done(i, n)', Spans(i, n, x)',
             \A m \in DOMAIN Decl[l].elements : m > n /\ Done(i, m)' => ~Spans(i, m, x)'
      PROVE  InPlace(i, n, x)'
  <2> DEFINE k == Decl[l].elements[n].funcs[x - Offset(i, Decl[l].elements[n]) + 1]
  <2>1. SUFFICES x \in DOMAIN table'[t].at /\ table'[t].at[x].code = fslot[i][k].code
    BY <1>5 DEF InPlace, Indices
  <2>2. DOMAIN table'[t].at = 0 .. size - 1
    BY <1>2, <1>3 DEF Placed
  <2>3. CASE n = next[i]
    <3>1. x \in offset .. offset + Len(funcs) - 1 /\ k = funcs[x - offset + 1]
      BY <1>5, <1>6, <2>3 DEF Spans
    <3>2. Len(funcs) \in Nat /\ (Len(funcs) > 0 => offset + Len(funcs) <= size)
      BY <1>1
    <3> HIDE DEF size, offset, funcs, k
    <3>4. x \in 0 .. size - 1
      BY <1>1, <1>2, <3>1, <3>2
    <3>3. table'[t].at[x] = [ctx |-> fslot[i][k].ctx, code |-> fslot[i][k].code,
                             sig |-> Decl[lib[i]].funcs[k].sig]
      BY <1>2, <1>3, <3>1, <3>4 DEF Placed
    <3> HIDE DEF t
    <3>5. x \in DOMAIN table'[t].at
      BY <2>2, <3>4
    <3>6. table'[t].at[x].code = fslot[i][k].code
      BY <3>3
    <3> QED
      BY <3>5, <3>6
  <2>4. CASE n # next[i]
    <3>1. n \in Nat /\ n < next[i] /\ Done(i, n)
      BY <1>1, <1>4, <1>6, <2>4 DEF Done
    <3>2. ~Spans(i, next[i], x)
      <4>1. PICK m \in DOMAIN Decl[l].elements : m = next[i]
        BY <1>1
      <4>2. m > n /\ Done(i, m)'
        BY <1>1, <1>4, <3>1, <4>1
      <4> QED
        BY <1>5, <1>6, <4>1, <4>2
    <3>3. \A m \in DOMAIN Decl[l].elements : m > n /\ Done(i, m) => ~Spans(i, m, x)
      BY <1>1, <1>4, <1>5, <1>6 DEF Done
    <3>4. InPlace(i, n, x)
      BY <1>5, <1>6, <3>1, <3>3 DEF BInv, Followed, Filled, Building
    <3>5. x \in DOMAIN table[t].at /\ table[t].at[x].code = fslot[i][k].code
      BY <3>4 DEF InPlace, Indices
    <3>6. x \notin offset .. offset + Len(funcs) - 1
      BY <3>2 DEF Spans
    <3> HIDE DEF size, offset, funcs, k
    <3>7. table'[t].at[x] = table[t].at[x]
      BY <1>3, <3>5, <3>6 DEF Placed
    <3> QED
      BY <1>2, <2>2, <3>5, <3>7
  <2> QED
    BY <2>3, <2>4
<1> QED
  BY <1>5, <1>6 DEF Filled

LEMMA InitElementKeepsBuilt ==
  ASSUME IInv, BInv, NEW i \in Instance, InitElement(i)  PROVE BInv'
<1> DEFINE elements == Decl[lib[i]].elements
           t == tslot[i]
           seg == elements[next[i]]
           offset == Offset(i, seg)
           count == Len(seg.funcs)
<1>1. /\ phase[i] = "elements" /\ phase[i] \in Building /\ phase[i] \in Ready
      /\ phase = [phase EXCEPT ![i] = "elements"]
      /\ lib[i] \in Library /\ next[i] \in Nat \ {0} /\ elements \in Seq(Segment(lib[i]))
  <2>1. lib[i] \in Library
    BY DEF InitElement, InStep, IInv, Referents, Lives
  <2> QED
    BY <2>1, DeclAssumption DEF InitElement, InStep, IInv, Typing, Building, Ready, Referents, Lives
<1>2. global' = global /\ CellValues' /\ UNCHANGED <<lib, slots>>
  BY DEF InitElement, Crash, cells, BInv, CellValues
<1>3. CASE Goto(i, "failed") /\ UNCHANGED cells
  BY <1>1, <1>2, <1>3, PartKeepsBuilt DEF Goto, slots
<1>4. CASE next[i] > Len(elements) /\ Goto(i, "missing") /\ UNCHANGED cells
  <2>1. phase' = [phase EXCEPT ![i] = "missing"] /\ phase'[i] = "missing"
    BY <1>4 DEF Goto, IInv, Typing
  <2>2. Full(i)'
    BY <1>1, <1>2, <2>1 DEF BInv, Full, Started, Ready, slots
  <2>3. \A n \in DOMAIN elements : Done(i, n)' /\ Done(i, n)
    BY <1>1, <1>4, <2>1 DEF Done
  <2>4. Initialised(i) /\ Filled(i)
    BY <1>1 DEF BInv, Followed
  <2>5. Initialised(i)'
    BY <1>1, <1>2, <2>4 DEF Initialised, slots
  <2>6. /\ \A n, x : Spans(i, n, x)' <=> Spans(i, n, x)
        /\ \A n, x : InPlace(i, n, x)' <=> InPlace(i, n, x)
    BY <1>2, <1>4 DEF Spans, InPlace, Offset, Indices, slots, cells
  <2>7. Filled(i)'
    BY <1>2, <2>3, <2>4, <2>6 DEF Filled
  <2> QED
    BY <1>1, <1>2, <2>1, <2>2, <2>5, <2>7, BuilderAlone DEF Followed, slots
<1>5. CASE \E name : Crash(name)
  <2>1. UNCHANGED <<table, global, phase, lib, next, tslot, gslot, fslot>>
    BY <1>5 DEF Crash, cells, slots
  <2>2. Full(i)' /\ Followed(i)'
    <3>1. /\ \A n : Done(i, n)' <=> Done(i, n)
          /\ \A n, x : Spans(i, n, x)' <=> Spans(i, n, x)
          /\ \A n, x : InPlace(i, n, x)' <=> InPlace(i, n, x)
      BY <2>1 DEF Done, Spans, InPlace, Offset, Indices
    <3>2. Filled(i)' <=> Filled(i)
      BY <2>1, <3>1 DEF Filled
    <3> QED
      BY <2>1, <3>2 DEF BInv, Full, Followed, Initialised
  <2> QED
    BY <1>1, <1>2, <2>1, <2>2, BuilderAlone
<1>6. CASE /\ ~(next[i] > Len(elements))
           /\ ~(count > 0 /\ offset + count > table[t].size)
           /\ table' = [table EXCEPT ![t].at = Placed(i, @, offset, seg.funcs)]
           /\ next' = [next EXCEPT ![i] = @ + 1]
           /\ UNCHANGED phase
  <2>1. next[i] <= Len(elements)
    BY <1>1, <1>6
  <2>2. count > 0 => offset + count <= table[t].size
    <3>1. /\ count \in Nat /\ offset \in Word
          /\ t \in Table /\ table[t] # Null
      <4>1. seg.funcs \in Seq(Functions(lib[i])) /\ offset \in Word
        BY <1>1, <2>1, NextSegment
      <4>2. t \in Table /\ table[t] # Null
        BY <1>1, <2>1, NextSegment
      <4> QED
        BY <4>1, <4>2
    <3>2. table[t].size \in Word
      BY <3>1, LiveTable DEF IInv
    <3> HIDE DEF count, offset, t
    <3> QED
      BY <3>1, <3>2, <1>6, WordAssumption DEF Word
  <2>3. Filled(i)'
    BY <1>1, <1>2, <1>6, <2>1, <2>2, CopyFills
  <2>4. Full(i)' /\ Initialised(i)'
    BY <1>1, <1>2, <1>6 DEF BInv, Full, Followed, Initialised, slots
  <2> QED
    BY <1>1, <1>2, <1>6, <2>3, <2>4, BuilderAlone DEF Followed, slots
<1> QED
  BY <1>3, <1>4, <1>5, <1>6 DEF InitElement

LEMMA InitBuilt == Init => BInv
<1> SUFFICES ASSUME Init PROVE BInv
  OBVIOUS
<1>1. \A i \in Instance : phase[i] = "absent"
  BY DEF Init
<1>2. OneBuilder /\ CellValues
  BY <1>1 DEF OneBuilder, CellValues, Building, Init
<1>3. \A i \in Instance : Full(i) /\ Followed(i)
  BY <1>1 DEF Full, Followed, Started, Building
<1> QED
  BY <1>2, <1>3 DEF BInv

LEMMA NothingBuilt ==
  ASSUME BInv, UNCHANGED vars  PROVE BInv'
<1>1. UNCHANGED <<table, global, phase, lib, next, tslot, gslot, fslot>>
  BY DEF vars, cells, slots
<1>2. ASSUME NEW i \in Instance  PROVE Followed(i)'
  <2>1. /\ \A n : Done(i, n)' <=> Done(i, n)
        /\ \A n, x : Spans(i, n, x)' <=> Spans(i, n, x)
        /\ \A n, x : InPlace(i, n, x)' <=> InPlace(i, n, x)
    BY <1>1 DEF Done, Spans, InPlace, Offset, Indices
  <2>2. Filled(i)' <=> Filled(i)
    BY <1>1, <2>1 DEF Filled
  <2> QED
    BY <1>1, <2>2 DEF BInv, Followed, Initialised
<1> QED
  BY <1>1, <1>2, FullKept DEF BInv, OneBuilder, CellValues

LEMMA StepKeepsBuilt == IInv /\ BInv /\ [Next]_vars => BInv'
<1> SUFFICES ASSUME IInv, BInv, [Next]_vars PROVE BInv'
  OBVIOUS
<1>1. ASSUME NEW i \in Instance, InitNext(i)  PROVE BInv'
  BY <1>1, InitDataKeepsBuilt, InitGlobalsKeepsBuilt, InitFunctionsKeepsBuilt,
     InitElementKeepsBuilt, FinishBuildKeepsBuilt DEF InitNext
<1> QED
  BY <1>1, HostKeepsBuilt, LinkKeepsBuilt, BuildKeepsBuilt, RunKeepsBuilt, NothingBuilt DEF Next

LEMMA BuiltAlways == Spec => [](IInv /\ BInv)
BY InitSafe, StepSafe, InitBuilt, StepKeepsBuilt, PTL DEF Spec

-----------------------------------------------------------------------------
(* Segments are in place.                                                  *)

LEMMA BuiltInPlace == IInv /\ BInv => SegmentsInPlace
<1> SUFFICES ASSUME IInv, BInv, NEW i \in Instance, phase[i] = "missing",
                    NEW n \in DOMAIN Decl[lib[i]].elements, NEW x \in Word,
                    Covers(i, n, x),
                    \A m \in DOMAIN Decl[lib[i]].elements : m > n => ~Covers(i, m, x)
             PROVE  LET seg == Decl[lib[i]].elements[n]
                        k == seg.funcs[x - DeclaredOffset(i, seg) + 1]
                    IN  /\ x \in Indices(tslot[i])
                        /\ table[tslot[i]].at[x].code = fslot[i][k].code
                        /\ table[tslot[i]].at[x].code # Null
  BY DEF SegmentsInPlace
<1> DEFINE l == lib[i]
           seg == Decl[l].elements[n]
           offset == Offset(i, seg)
           funcs == seg.funcs
           k == funcs[x - offset + 1]
<1>1. /\ Initialised(i) /\ Filled(i) /\ Full(i) /\ l \in Library
      /\ phase[i] \in Started /\ phase[i] \in Ready
  BY DEF BInv, Followed, Building, Started, Ready, IInv, Referents, Lives
<1>2. Decl[l].elements \in Seq(Segment(l))
  BY <1>1, DeclAssumption
<1>3. \A g : DeclaredOffset(i, g) = Offset(i, g)
  BY <1>1 DEF DeclaredOffset, Offset, Initialised
<1>4. \A m : Covers(i, m, x) <=> Spans(i, m, x)
  BY <1>3 DEF Covers, Spans
<1>5. InPlace(i, n, x)
  BY <1>1, <1>4 DEF Filled, Done
<1>6. k \in Functions(l)
  <2>1. seg.funcs \in Seq(Functions(l)) /\ seg.value \in Nat
    <3>1. seg \in Segment(l)
      BY <1>2
    <3> QED
      BY <3>1, WordAssumption DEF Segment, Word
  <2>2. offset \in Nat
    <3>1. seg.fromGlobal => gslot[i] # Null
      BY <1>1, DeclAssumption DEF Full
    <3>2. seg.fromGlobal => global[gslot[i]] \in Word
      BY <3>1 DEF IInv, Typing, Referents, Refers
    <3> QED
      BY <2>1, <3>2, WordAssumption DEF Offset, Word
  <2>3. x \in offset .. offset + Len(funcs) - 1
    BY <1>4 DEF Spans
  <2> HIDE DEF offset, funcs
  <2> QED
    BY <2>1, <2>2, <2>3 DEF funcs
<1>7. fslot[i][k].code # Null
  BY <1>1, <1>6 DEF Full
<1> QED
  BY <1>3, <1>5, <1>7 DEF InPlace

(* When the initializer ends, each element segment is at its declared       *)
(* offset, but for what a later one covers, with no null in it.             *)
THEOREM SegmentsAlwaysInPlace == Spec => []SegmentsInPlace
BY BuiltAlways, BuiltInPlace, PTL

-----------------------------------------------------------------------------
(* Nothing ends the process, as long as no segment's offset and size wrap.  *)

SegmentsFit ==
  \A l \in Library : \A n \in DOMAIN Decl[l].elements :
    LET seg == Decl[l].elements[n] IN
    \A v \in (IF seg.fromGlobal THEN GlobalValue \cup {0} ELSE {seg.value}) :
      v + Len(seg.funcs) <= WordMax

LEMMA InitDataGoesOn ==
  ASSUME IInv, BInv, NEW i \in Instance, InitData(i)  PROVE aborted' = aborted
<1> DEFINE data == Decl[lib[i]].data
<1>1. /\ lib[i] \in Library /\ next[i] \in Nat \ {0} /\ phase[i] \in Started
  BY DEF InitData, InStep, IInv, Typing, Referents, Lives, Building, Started
<1>2. /\ data \in Seq(Segment(lib[i]))
      /\ \A n \in DOMAIN data : data[n].fromGlobal => Decl[lib[i]].global.kind # "none"
  BY <1>1, DeclAssumption
<1>3. ASSUME ~(next[i] > Len(data))  PROVE ~OffsetIsNull(i, data[next[i]])
  <2>1. next[i] \in DOMAIN data
    BY <1>1, <1>2, <1>3
  <2> QED
    BY <1>1, <1>2, <2>1 DEF OffsetIsNull, BInv, Full
<1> QED
  BY <1>3 DEF InitData

LEMMA InitElementGoesOn ==
  ASSUME SegmentsFit, IInv, BInv, NEW i \in Instance, InitElement(i)  PROVE aborted' = aborted
<1> DEFINE elements == Decl[lib[i]].elements
           t == tslot[i]
           seg == elements[next[i]]
           offset == Offset(i, seg)
           count == Len(seg.funcs)
<1>1. /\ phase[i] = "elements" /\ lib[i] \in Library /\ next[i] \in Nat
      /\ elements \in Seq(Segment(lib[i]))
  <2>1. phase[i] = "elements" /\ lib[i] \in Library /\ next[i] \in Nat
    BY DEF InitElement, InStep, IInv, Typing, Referents, Lives
  <2> QED
    BY <2>1, DeclAssumption
<1>2. ASSUME ~(next[i] > Len(elements))
      PROVE  /\ ~OffsetIsNull(i, seg) /\ t # Null
             /\ GuardAdmits(t, offset, count) => ~(offset + count > table[t].size)
  <2>1. next[i] <= Len(elements)
    BY <1>1, <1>2
  <2>2. /\ lib[i] \in Library /\ next[i] \in DOMAIN elements /\ seg.funcs \in Seq(Functions(lib[i]))
        /\ seg.fromGlobal => gslot[i] \in Global
        /\ t \in Table /\ offset \in Word
        /\ offset \in IF seg.fromGlobal THEN GlobalValue \cup {0} ELSE {seg.value}
    BY <1>1, <2>1, NextSegment
  <2>3. ~OffsetIsNull(i, seg) /\ t # Null
    BY <2>2, NullAssumption DEF OffsetIsNull
  <2>4. offset + count <= WordMax /\ count \in Nat
    BY <2>2 DEF SegmentsFit
  <2>5. Wrap(offset + count) = offset + count
    <3> HIDE DEF offset, count
    <3> QED
      BY <2>2, <2>4, WordAssumption DEF Word, Wrap
  <2>6. GuardAdmits(t, offset, count) => offset + count <= table[t].size
    BY <2>5 DEF GuardAdmits
  <2>7. table[t].size \in Word
    BY <1>1, <2>1, <2>2, NextSegment, LiveTable DEF IInv
  <2>8. GuardAdmits(t, offset, count) => ~(offset + count > table[t].size)
    <3> HIDE DEF offset, count, t
    <3> QED
      BY <2>2, <2>4, <2>6, <2>7, WordAssumption DEF Word
  <2> QED
    BY <2>3, <2>8
<1> QED
  BY <1>2 DEF InitElement

LEMMA CallsGoOn ==
  ASSUME IInv, BInv, NEW i \in Instance, RunNext(i)  PROVE aborted' = aborted
<1>1. ASSUME NEW k, Call(i, k)  PROVE aborted' = aborted
  <2>1. phase[i] \in Started /\ lib[i] \in Library /\ k \in Functions(lib[i])
    BY <1>1 DEF Call, Executes, Started, IInv, Referents, Lives
  <2>2. <<lib[i], k>> # Null
    BY <2>1, NullAssumption DEF Code
  <2>3. IsImport(lib[i], k) => fslot[i][k].code # Null
    BY <2>1 DEF BInv, Full
  <2> QED
    BY <1>1, <2>2, <2>3 DEF Call, Enter
<1>2. ASSUME NEW x, NEW s, CallIndirect(i, x, s)  PROVE aborted' = aborted
  BY <1>2 DEF CallIndirect, EntryAdmits, Enter, Throw
<1>3. ASSUME NEW k, NEW s, HostInvoke(i, k, s)  PROVE aborted' = aborted
  <2>1. phase[i] = "built" /\ k \in Functions(lib[i])
    BY <1>3 DEF HostInvoke, Exports
  <2>2. fslot[i][k].code # Null
    BY <2>1 DEF BInv, Full, Started, Ready
  <2> QED
    BY <1>3, <2>2 DEF HostInvoke, Enter, Throw
<1> QED
  BY <1>1, <1>2, <1>3 DEF RunNext, GlobalSet

LEMMA StepGoesOn == SegmentsFit /\ IInv /\ BInv /\ NeverAborts /\ [Next]_vars => NeverAborts'
<1> SUFFICES ASSUME SegmentsFit, IInv, BInv, NeverAborts, [Next]_vars PROVE aborted' = aborted
  BY DEF NeverAborts
<1>1. CASE HostNext
  BY <1>1 DEF HostNext, HostTable, HostDestroyTable, HostSetFunction, HostSetCallee,
     HostGlobal, HostSetGlobal, HostDestroyGlobal
<1>2. ASSUME NEW i \in Instance, LinkNext(i) \/ BuildLinked(i)  PROVE aborted' = aborted
  BY <1>2 DEF LinkNext, Open, ImportTable, ImportGlobal, ImportHost, ImportExport, ImportEntry,
     BindFunction, Destroy, BuildLinked, Build
<1>3. ASSUME NEW i \in Instance, InitNext(i)  PROVE aborted' = aborted
  BY <1>3, InitDataGoesOn, InitElementGoesOn
     DEF InitNext, InitGlobals, InitFunctions, FinishBuild
<1> QED
  BY <1>1, <1>2, <1>3, CallsGoOn DEF Next, vars

(* No null slot is used, no null function is called and no table is written *)
(* out of bounds, whatever the host links; the one exception is an offset   *)
(* that wraps together with the size of its segment, as the guard of the    *)
(* initializer adds them in one word.                                       *)
THEOREM NeverAbortsUnlessWrapped == SegmentsFit => (Spec => []NeverAborts)
<1> SUFFICES ASSUME SegmentsFit PROVE Spec => []NeverAborts
  OBVIOUS
<1>1. Init => NeverAborts
  BY DEF Init, NeverAborts
<1>2. IInv /\ BInv /\ NeverAborts /\ [Next]_vars => NeverAborts'
  BY StepGoesOn
<1> QED
  BY <1>1, <1>2, BuiltAlways, PTL DEF Spec
=============================================================================
