------------------------------- MODULE Linking -------------------------------
(***************************************************************************)
(* Tables, globals and functions: how WebAssemblyInstance.cc links a       *)
(* library, how the initializer that EntityLayout.cc generates fills what  *)
(* was linked, and where calls in compiled code and from the host land.    *)
(*                                                                         *)
(* A function is known by a pair: its code and the instance to run it in,  *)
(* its context.  Code of the host has no context of its own (a null one);  *)
(* compiled code passes its own instance in its place.  Pairs are copied   *)
(* from slot to slot and into tables that instances share, and the copy is *)
(* never updated, so what a call finds depends on everything the host      *)
(* linked before, on the order of __sable_initialize, and on which Build   *)
(* threw half-way.                                                         *)
(*                                                                         *)
(* Build runs in steps, one per segment, so that a Build that throws       *)
(* leaves what it did; no other operation runs meanwhile (Idle).  A        *)
(* validated module has at most one table (Validation.cc:1599); one global *)
(* is enough for an offset to read.  The tables that an instance exports   *)
(* are its slots: the maps Build fills are copies that nothing changes.    *)
(***************************************************************************)
EXTENDS Naturals, Sequences

CONSTANTS
  Library,      \* the shared libraries there are
  Decl,         \* Decl[l]: what library l declares
  HostFn,       \* functions of the host
  HostSig,      \* HostSig[h]: the signature of h's C++ type
  HostLimits,   \* <<size, maximum>> of the tables the host constructs
  GlobalValue,  \* the values globals take at run time
  Instance,     \* the WebAssemblyInstance objects (heap cells)
  Table,        \* the WebAssemblyTable objects (heap cells)
  Global,       \* the WebAssemblyGlobal objects (heap cells)
  Null,         \* nullptr
  WordMax       \* the largest std::uint32_t, and NO_MAXIMUM

Word == 0 .. WordMax
Wrap(n) == n % (WordMax + 1)
Kind == {"none", "import", "define"}
Signature == (UNION {{Decl[l].funcs[k].sig : k \in DOMAIN Decl[l].funcs} : l \in Library})
             \cup {HostSig[h] : h \in HostFn}

\* A library is the declarations of a validated module, functions from 1 on.
Functions(l) == DOMAIN Decl[l].funcs
Segment(l) == [fromGlobal : BOOLEAN, value : Word, funcs : Seq(Functions(l))]
IsImport(l, k) == Decl[l].funcs[k].kind = "import"

ASSUME DeclAssumption ==
  \A l \in Library :
    LET d == Decl[l] IN
    /\ \A k \in DOMAIN d.funcs : d.funcs[k].kind \in {"import", "define"}
    /\ d.table.kind \in Kind
    /\ d.table.kind = "define" => d.table.min \in Word /\ d.table.max \in d.table.min .. WordMax
    /\ d.global.kind \in Kind
    /\ d.global.kind = "define" => d.global.value \in GlobalValue
    /\ d.elements \in Seq(Segment(l)) /\ d.data \in Seq(Segment(l))
    /\ \A n \in DOMAIN d.elements :
         /\ d.table.kind # "none"
         /\ d.elements[n].fromGlobal => d.global.kind # "none" /\ d.global.const
    /\ \A n \in DOMAIN d.data :
         d.data[n].fromGlobal => d.global.kind # "none" /\ d.global.const

ASSUME WordAssumption ==
  WordMax \in Nat /\ GlobalValue \subseteq Word /\ HostLimits \subseteq Word \X Word

EmptyEntry == [ctx |-> Null, code |-> Null, sig |-> Null]

\* The functions there are, by name, and the objects of the heap.
Code == HostFn \cup UNION {{<<l, k>> : k \in Functions(l)} : l \in Library}
Slot == [ctx : Instance \cup {Null}, code : Code \cup {Null}]
Entry == [ctx : Instance \cup {Null}, code : Code \cup {Null}, sig : Signature \cup {Null}]
TableOf(n) == [size : {n}, max : Word, at : [0 .. n - 1 -> Entry]]

\* A null pointer is none of them, and no function of a library is the host's.
ASSUME NullAssumption ==
  /\ Null \notin Instance \cup Table \cup Global
  /\ Null \notin Library /\ Null \notin Word /\ Null \notin Code
  /\ \A n \in Word : Null \notin TableOf(n)
  /\ \A l \in Library : \A k \in Functions(l) : <<l, k>> \notin HostFn

VARIABLES
  table,      \* table[t]: WebAssemblyTable::Size, MaxSize and Storage
  global,     \* global[g]: WebAssemblyGlobal::Storage
  hostTables, \* the tables and
  hostGlobals,\*   globals the host constructed
  phase,      \* where each instance is in its life
  lib,        \* the library each instance was opened from
  next,       \* the segment Build is at
  tslot,      \* the table slot of each instance's Storage
  gslot,      \* the global slot
  fslot,      \* the context and function pointer of each function slot
  dataAt,     \* the offsets at which Build copied the data segments
  entered,    \* the function body the last call entered, Null after others
  aborted     \* the failed assertion or null access, "no" while it runs

cells == <<table, global, hostTables, hostGlobals>>
slots == <<tslot, gslot, fslot>>
vars == <<cells, phase, lib, next, slots, dataAt, entered, aborted>>

Building == {"data", "globals", "functions", "elements", "missing"}

EmptySlot == [ctx |-> Null, code |-> Null]

-----------------------------------------------------------------------------
Idle == aborted = "no" /\ \A i \in Instance : phase[i] \notin Building
LiveTables == {t \in Table : table[t] # Null}
Indices(t) == DOMAIN table[t].at

\* The references the host can have: its own, and exports of built instances.
Exports(j) == phase[j] = "built"
HostSeesTable(t) == t \in hostTables \/ \E j \in Instance : Exports(j) /\ tslot[j] = t
HostSeesGlobal(g) == g \in hostGlobals \/ \E j \in Instance : Exports(j) /\ gslot[j] = g

NewTable(n, x) == [size |-> n, max |-> x, at |-> [y \in 0 .. n - 1 |-> EmptyEntry]]

Init ==
  /\ table = [t \in Table |-> Null]
  /\ global = [g \in Global |-> Null]
  /\ hostTables = {}
  /\ hostGlobals = {}
  /\ phase = [i \in Instance |-> "absent"]
  /\ lib = [i \in Instance |-> Null]
  /\ next = [i \in Instance |-> 0]
  /\ tslot = [i \in Instance |-> Null]
  /\ gslot = [i \in Instance |-> Null]
  /\ fslot = [i \in Instance |-> <<>>]
  /\ dataAt = [i \in Instance |-> <<>>]
  /\ entered = Null
  /\ aborted = "no"

\* The host constructs, fills and destroys tables and globals of its own.
HostTable(t, n, x) ==
  /\ Idle
  /\ table[t] = Null
  /\ table' = [table EXCEPT ![t] = NewTable(n, x)]
  /\ hostTables' = hostTables \cup {t}
  /\ entered' = Null
  /\ UNCHANGED <<global, hostGlobals, phase, lib, next, slots, dataAt, aborted>>

HostDestroyTable(t) ==
  /\ Idle
  /\ t \in hostTables
  /\ \A i \in Instance : tslot[i] # t
  /\ table' = [table EXCEPT ![t] = Null]
  /\ hostTables' = hostTables \ {t}
  /\ entered' = Null
  /\ UNCHANGED <<global, hostGlobals, phase, lib, next, slots, dataAt, aborted>>

\* WebAssemblyTable::set at an index the host has checked.
SetEntry(t, x, c, f, s) ==
  table' = [table EXCEPT ![t].at[x] = [ctx |-> c, code |-> f, sig |-> s]]

HostSetFunction(t, x, h) ==
  /\ Idle
  /\ t \in LiveTables
  /\ HostSeesTable(t)
  /\ x \in Indices(t)
  /\ SetEntry(t, x, Null, h, HostSig[h])
  /\ entered' = Null
  /\ UNCHANGED <<global, hostTables, hostGlobals, phase, lib, next, slots, dataAt,
                 aborted>>

HostSetCallee(t, x, j, k) ==
  /\ Idle
  /\ t \in LiveTables
  /\ HostSeesTable(t)
  /\ x \in Indices(t)
  /\ Exports(j)
  /\ k \in Functions(lib[j])
  /\ SetEntry(t, x, fslot[j][k].ctx, fslot[j][k].code, Decl[lib[j]].funcs[k].sig)
  /\ entered' = Null
  /\ UNCHANGED <<global, hostTables, hostGlobals, phase, lib, next, slots, dataAt,
                 aborted>>

HostGlobal(g, v) ==
  /\ Idle
  /\ global[g] = Null
  /\ global' = [global EXCEPT ![g] = v]
  /\ hostGlobals' = hostGlobals \cup {g}
  /\ entered' = Null
  /\ UNCHANGED <<table, hostTables, phase, lib, next, slots, dataAt, aborted>>

HostDestroyGlobal(g) ==
  /\ Idle
  /\ g \in hostGlobals
  /\ \A i \in Instance : gslot[i] # g
  /\ global' = [global EXCEPT ![g] = Null]
  /\ hostGlobals' = hostGlobals \ {g}
  /\ entered' = Null
  /\ UNCHANGED <<table, hostTables, phase, lib, next, slots, dataAt, aborted>>

\* asI32(): the host writes through the reference.
HostSetGlobal(g, v) ==
  /\ Idle
  /\ g \in hostGlobals
  /\ global' = [global EXCEPT ![g] = v]
  /\ entered' = Null
  /\ UNCHANGED <<table, hostTables, hostGlobals, phase, lib, next, slots, dataAt,
                 aborted>>

-----------------------------------------------------------------------------
\* WebAssemblyInstanceBuilder(path): every slot is null.
Open(i, l) ==
  /\ Idle
  /\ phase[i] = "absent"
  /\ phase' = [phase EXCEPT ![i] = "linking"]
  /\ lib' = [lib EXCEPT ![i] = l]
  /\ fslot' = [fslot EXCEPT ![i] = [k \in Functions(l) |-> EmptySlot]]
  /\ entered' = Null
  /\ UNCHANGED <<cells, next, tslot, gslot, dataAt, aborted>>

\* The limits a table is imported at; the metadata holds the minimum twice.
ImportMin(l) == Decl[l].table.min
ImportMax(l) == Decl[l].table.min

AcceptsTable(i, t) ==
  /\ table[t].size >= ImportMin(lib[i])
  /\ table[t].max <= ImportMax(lib[i])

ImportTable(i, t) ==
  /\ Idle
  /\ phase[i] = "linking"
  /\ Decl[lib[i]].table.kind = "import"
  /\ t \in LiveTables
  /\ HostSeesTable(t)
  /\ AcceptsTable(i, t)
  /\ tslot' = [tslot EXCEPT ![i] = t]
  /\ entered' = Null
  /\ UNCHANGED <<cells, phase, lib, next, gslot, fslot, dataAt, aborted>>

\* Value types agree (there is one here); mutability is not compared.
ImportGlobal(i, g) ==
  /\ Idle
  /\ phase[i] = "linking"
  /\ Decl[lib[i]].global.kind = "import"
  /\ HostSeesGlobal(g)
  /\ gslot' = [gslot EXCEPT ![i] = g]
  /\ entered' = Null
  /\ UNCHANGED <<cells, phase, lib, next, tslot, fslot, dataAt, aborted>>

SignatureUnchecked(i, k, s) == TRUE
SignatureMatches(i, k, s) == Decl[lib[i]].funcs[k].sig = s

\* tryImport of a callee, or of a host function (with a null context).
BindFunction(i, k, c, f, s) ==
  /\ Idle
  /\ phase[i] = "linking"
  /\ k \in Functions(lib[i])
  /\ IsImport(lib[i], k)
  /\ SignatureMatches(i, k, s)
  /\ fslot' = [fslot EXCEPT ![i][k] = [ctx |-> c, code |-> f]]
  /\ entered' = Null
  /\ UNCHANGED <<cells, phase, lib, next, tslot, gslot, dataAt, aborted>>

ImportHost(i, k, h) == BindFunction(i, k, Null, h, HostSig[h])

ImportExport(i, k, j, f) ==
  /\ Exports(j)
  /\ f \in Functions(lib[j])
  /\ BindFunction(i, k, fslot[j][f].ctx, fslot[j][f].code, Decl[lib[j]].funcs[f].sig)

\* WebAssemblyTable::get throws when the entry is null.
ImportEntry(i, k, t, x) ==
  /\ t \in LiveTables
  /\ HostSeesTable(t)
  /\ x \in Indices(t)
  /\ table[t].at[x].code # Null
  /\ LET e == table[t].at[x] IN BindFunction(i, k, e.ctx, e.code, e.sig)

-----------------------------------------------------------------------------
AllImported(i) ==
  /\ Decl[lib[i]].table.kind = "import" => tslot[i] # Null
  /\ Decl[lib[i]].global.kind = "import" => gslot[i] # Null
  /\ \A k \in Functions(lib[i]) : IsImport(lib[i], k) => fslot[i][k].code # Null

\* Build, up to the call of the initializer: the instance's own cells.
DefineTable(i) ==
  IF Decl[lib[i]].table.kind = "define"
  THEN \E t \in Table \ LiveTables :
         /\ table' = [table EXCEPT ![t] =
                        NewTable(Decl[lib[i]].table.min, Decl[lib[i]].table.max)]
         /\ tslot' = [tslot EXCEPT ![i] = t]
  ELSE UNCHANGED <<table, tslot>>

DefineGlobal(i) ==
  IF Decl[lib[i]].global.kind = "define"
  THEN \E g \in Global :
         /\ global[g] = Null
         /\ global' = [global EXCEPT ![g] = 0]
         /\ gslot' = [gslot EXCEPT ![i] = g]
  ELSE UNCHANGED <<global, gslot>>

Build(i) ==
  /\ Idle
  /\ phase[i] = "linking"
  /\ DefineTable(i)
  /\ DefineGlobal(i)
  /\ phase' = [phase EXCEPT ![i] = "data"]
  /\ next' = [next EXCEPT ![i] = 1]
  /\ entered' = Null
  /\ UNCHANGED <<hostTables, hostGlobals, lib, fslot, dataAt, aborted>>

BuildLinked(i) == phase[i] = "linking" /\ AllImported(i) /\ Build(i)

\* translateInitExpr: a constant, or a load from the global's cell.
Offset(i, seg) == IF seg.fromGlobal THEN global[gslot[i]] ELSE seg.value
OffsetIsNull(i, seg) == seg.fromGlobal /\ gslot[i] = Null

InStep(i, p) == aborted = "no" /\ phase[i] = p

Goto(i, p) ==
  /\ phase' = [phase EXCEPT ![i] = p]
  /\ next' = [next EXCEPT ![i] = 1]

Crash(name) ==
  /\ aborted' = name
  /\ UNCHANGED <<cells, phase, lib, next, slots, dataAt, entered>>

\* The size of the memory is of no concern here: its guard may throw or not.
InitData(i) ==
  LET data == Decl[lib[i]].data IN
  /\ InStep(i, "data")
  /\ IF next[i] > Len(data)
     THEN Goto(i, "globals") /\ UNCHANGED <<cells, lib, slots, dataAt, entered, aborted>>
     ELSE IF OffsetIsNull(i, data[next[i]])
     THEN Crash("null_global")
     ELSE /\ \/ /\ next' = [next EXCEPT ![i] = @ + 1]
                /\ dataAt' = [dataAt EXCEPT ![i] = Append(@, Offset(i, data[next[i]]))]
                /\ UNCHANGED phase
             \/ Goto(i, "failed") /\ UNCHANGED dataAt
          /\ UNCHANGED <<cells, lib, slots, entered, aborted>>

GlobalsForgotten(i) ==
  /\ InStep(i, "globals")
  /\ Goto(i, "functions")
  /\ UNCHANGED <<cells, lib, slots, dataAt, entered, aborted>>

InitGlobals(i) ==
  /\ InStep(i, "globals")
  /\ IF Decl[lib[i]].global.kind = "define"
     THEN global' = [global EXCEPT ![gslot[i]] = Decl[lib[i]].global.value]
     ELSE UNCHANGED global
  /\ Goto(i, "functions")
  /\ UNCHANGED <<table, hostTables, hostGlobals, lib, slots, dataAt, entered, aborted>>

\* A function of the library itself runs in this instance.
OwnSlotNoContext(i, k) == [ctx |-> Null, code |-> <<lib[i], k>>]
OwnSlot(i, k) == [ctx |-> i, code |-> <<lib[i], k>>]

FunctionsForgotten(i) ==
  /\ InStep(i, "functions")
  /\ Goto(i, "elements")
  /\ UNCHANGED <<cells, lib, slots, dataAt, entered, aborted>>

InitFunctions(i) ==
  /\ InStep(i, "functions")
  /\ fslot' = [fslot EXCEPT ![i] =
                 [k \in DOMAIN @ |-> IF IsImport(lib[i], k) THEN @[k] ELSE OwnSlot(i, k)]]
  /\ Goto(i, "elements")
  /\ UNCHANGED <<cells, lib, tslot, gslot, dataAt, entered, aborted>>

\* __sable_table_guard
GuardStart(t, offset, count) == offset <= table[t].size
GuardAdmits(t, offset, count) == Wrap(offset + count) <= table[t].size

\* __sable_table_set: the entries that Count functions leave from Offset on.
Placed(i, at, offset, funcs) ==
  [x \in DOMAIN at |->
     IF x \in offset .. offset + Len(funcs) - 1
     THEN LET k == funcs[x - offset + 1] IN
          [ctx |-> fslot[i][k].ctx, code |-> fslot[i][k].code,
           sig |-> Decl[lib[i]].funcs[k].sig]
     ELSE at[x]]

InitElement(i) ==
  LET elements == Decl[lib[i]].elements
      t == tslot[i]
      seg == elements[next[i]]
      offset == Offset(i, seg)
      count == Len(seg.funcs)
  IN
  /\ InStep(i, "elements")
  /\ IF next[i] > Len(elements)
     THEN Goto(i, "missing") /\ UNCHANGED <<cells, lib, slots, dataAt, entered, aborted>>
     ELSE IF OffsetIsNull(i, seg)
     THEN Crash("null_global")
     ELSE IF t = Null
     THEN Crash("null_table")
     ELSE IF ~GuardAdmits(t, offset, count)
     THEN Goto(i, "failed") /\ UNCHANGED <<cells, lib, slots, dataAt, entered, aborted>>
     ELSE IF count > 0 /\ offset + count > table[t].size
     THEN Crash("out_of_storage")
     ELSE /\ table' = [table EXCEPT ![t].at = Placed(i, @, offset, seg.funcs)]
          /\ next' = [next EXCEPT ![i] = @ + 1]
          /\ UNCHANGED <<global, hostTables, hostGlobals, phase, lib, slots, dataAt,
                         entered, aborted>>

Complete(i) ==
  /\ Decl[lib[i]].table.kind # "none" => tslot[i] # Null
  /\ Decl[lib[i]].global.kind # "none" => gslot[i] # Null
  /\ \A k \in Functions(lib[i]) : fslot[i][k].code # Null

\* Build, after the initializer.
FinishBuild(i) ==
  /\ InStep(i, "missing")
  /\ Goto(i, IF Complete(i) THEN "built" ELSE "failed")
  /\ UNCHANGED <<cells, lib, slots, dataAt, entered, aborted>>

-----------------------------------------------------------------------------
\* Someone other than i can still reach i or a cell i will delete.  The code
\* counts no references: keeping i as long as they exist is up to the host.
OwnTables(i) == {t \in LiveTables : tslot[i] = t /\ Decl[lib[i]].table.kind = "define"}
OwnGlobals(i) == {g \in Global : gslot[i] = g /\ Decl[lib[i]].global.kind = "define"}

NamedInEntry(i, ts) == \E t \in ts : \E x \in Indices(t) : table[t].at[x].ctx = i
NamedInSlot(i) ==
  \E j \in Instance \ {i} : \E k \in DOMAIN fslot[j] : fslot[j][k].ctx = i

Referenced(i) ==
  \/ NamedInEntry(i, LiveTables \ OwnTables(i))
  \/ NamedInSlot(i)
  \/ \E j \in Instance \ {i} :
       tslot[j] \in OwnTables(i) \/ gslot[j] \in OwnGlobals(i)

Destroy(i) ==
  /\ Idle
  /\ phase[i] \in {"linking", "built", "failed"}
  /\ ~Referenced(i)
  /\ table' = [t \in Table |-> IF t \in OwnTables(i) THEN Null ELSE table[t]]
  /\ global' = [g \in Global |-> IF g \in OwnGlobals(i) THEN Null ELSE global[g]]
  /\ phase' = [phase EXCEPT ![i] = "absent"]
  /\ lib' = [lib EXCEPT ![i] = Null]
  /\ next' = [next EXCEPT ![i] = 0]
  /\ tslot' = [tslot EXCEPT ![i] = Null]
  /\ gslot' = [gslot EXCEPT ![i] = Null]
  /\ fslot' = [fslot EXCEPT ![i] = <<>>]
  /\ dataAt' = [dataAt EXCEPT ![i] = <<>>]
  /\ entered' = Null
  /\ UNCHANGED <<hostTables, hostGlobals, aborted>>

-----------------------------------------------------------------------------
\* Compiled code runs in an instance that was built, and in one whose Build
\* threw after it stored its functions where others find them.
Executes(i) ==
  \/ phase[i] = "built"
  \/ phase[i] = "failed" /\ (NamedInEntry(i, LiveTables) \/ NamedInSlot(i))

Enter(c, f, s, i) ==
  IF f = Null
  THEN Crash("null_function")
  ELSE /\ entered' = [ctx |-> c, code |-> f, sig |-> s, caller |-> i]
       /\ UNCHANGED <<cells, phase, lib, next, slots, dataAt, aborted>>

Throw == entered' = Null /\ UNCHANGED <<cells, phase, lib, next, slots, dataAt, aborted>>

\* A null context stands for the caller's instance.
ContextAsIs(c, i) == c
Context(c, i) == IF c = Null THEN i ELSE c

\* call k, in compiled code: an import goes through its forwarding function.
Call(i, k) ==
  LET s == Decl[lib[i]].funcs[k].sig IN
  /\ Idle
  /\ Executes(i)
  /\ k \in Functions(lib[i])
  /\ IF IsImport(lib[i], k)
     THEN Enter(Context(fslot[i][k].ctx, i), fslot[i][k].code, s, i)
     ELSE Enter(i, <<lib[i], k>>, s, i)

\* __sable_table_check
EntryNotNull(e, s) == e.code # Null
EntryAdmits(e, s) == e.code # Null /\ e.sig = s

\* call_indirect with operand x, expecting signature s.
CallIndirect(i, x, s) ==
  /\ Idle
  /\ Executes(i)
  /\ Decl[lib[i]].table.kind # "none"
  /\ tslot[i] # Null
  /\ LET t == table[tslot[i]] IN
     IF x <= t.size /\ x < t.size /\ EntryAdmits(t.at[x], s)
     THEN Enter(Context(t.at[x].ctx, i), t.at[x].code, s, i)
     ELSE Throw

\* getFunction(name).invoke<...>() of a function the library defines or
\* re-exports from another instance.  One the host supplied it calls itself.
HostInvoke(j, k, s) ==
  /\ Idle
  /\ Exports(j)
  /\ k \in Functions(lib[j])
  /\ fslot[j][k].code \notin HostFn
  /\ IF s = Decl[lib[j]].funcs[k].sig
     THEN Enter(fslot[j][k].ctx, fslot[j][k].code, s, Null)
     ELSE Throw

\* global.set, in a library that declares its global mutable.
GlobalSet(i, v) ==
  /\ Idle
  /\ Executes(i)
  /\ Decl[lib[i]].global.kind # "none"
  /\ ~Decl[lib[i]].global.const
  /\ global' = [global EXCEPT ![gslot[i]] = v]
  /\ entered' = Null
  /\ UNCHANGED <<table, hostTables, hostGlobals, phase, lib, next, slots, dataAt, aborted>>

-----------------------------------------------------------------------------
HostNext ==
  \/ \E t \in Table : \/ \E l \in HostLimits : HostTable(t, l[1], l[2])
                      \/ HostDestroyTable(t)
                      \/ \E x \in Word, h \in HostFn : HostSetFunction(t, x, h)
                      \/ \E x \in Word, j \in Instance : \E k \in DOMAIN fslot[j] :
                           HostSetCallee(t, x, j, k)
  \/ \E g \in Global : \/ \E v \in GlobalValue : HostGlobal(g, v) \/ HostSetGlobal(g, v)
                       \/ HostDestroyGlobal(g)

LinkNext(i) ==
  \/ \E l \in Library : Open(i, l)
  \/ \E t \in Table : ImportTable(i, t)
  \/ \E g \in Global : ImportGlobal(i, g)
  \/ \E k \in DOMAIN fslot[i] :
       \/ \E h \in HostFn : ImportHost(i, k, h)
       \/ \E j \in Instance : \E f \in DOMAIN fslot[j] : ImportExport(i, k, j, f)
       \/ \E t \in Table, x \in Word : ImportEntry(i, k, t, x)
  \/ Destroy(i)

InitNext(i) ==
  InitData(i) \/ InitGlobals(i) \/ InitFunctions(i) \/ InitElement(i) \/ FinishBuild(i)

RunNext(i) ==
  \/ \E k \in DOMAIN fslot[i] : Call(i, k)
  \/ \E x \in Word, s \in Signature : CallIndirect(i, x, s)
  \/ \E k \in DOMAIN fslot[i], s \in Signature : HostInvoke(i, k, s)
  \/ \E v \in GlobalValue : GlobalSet(i, v)

Next ==
  \/ HostNext
  \/ \E i \in Instance : LinkNext(i) \/ BuildLinked(i) \/ InitNext(i) \/ RunNext(i)

Spec == Init /\ [][Next]_vars

-----------------------------------------------------------------------------
Defines(f, i) == f \notin HostFn /\ lib[i] = f[1] /\ ~IsImport(f[1], f[2])
TrueSignature(f) == IF f \in HostFn THEN HostSig[f] ELSE Decl[f[1]].funcs[f[2]].sig

(* Code finds its own instance: compiled code is always entered with an     *)
(* instance of the library that defines it, one that still exists, whatever *)
(* chain of exports, imports and table entries the pointer came through;    *)
(* and a host function called by compiled code is given the caller's        *)
(* instance, through which it reaches the caller's memory.                  *)
CallsFindTheirInstance ==
  entered # Null =>
    IF entered.code \in HostFn
    THEN entered.ctx = entered.caller
    ELSE entered.ctx # Null /\ Defines(entered.code, entered.ctx)

(* A call enters code at the type it was compiled for, although signatures *)
(* are compared only when a slot is bound or an entry is read, as strings. *)
CallsAreTyped == entered # Null => TrueSignature(entered.code) = entered.sig

(* No table is written outside its storage, no null slot is used, and no    *)
(* null function is called, by any host that links what a library imports.  *)
NeverAborts == aborted = "no"

\* The pairs of code and context that exist anywhere.
Pairs ==
  (UNION {{[ctx |-> fslot[i][k].ctx, code |-> fslot[i][k].code] : k \in DOMAIN fslot[i]} :
            i \in Instance})
  \cup (UNION {{[ctx |-> table[t].at[x].ctx, code |-> table[t].at[x].code] :
                  x \in Indices(t)} : t \in LiveTables})

(* A slot or an entry with code has the context that code needs, in an      *)
(* instance that still exists and has got as far as storing its functions.  *)
PairsBelong ==
  \A p \in Pairs :
    /\ p.code = Null => p.ctx = Null
    /\ p.ctx = Null <=> p.code \in HostFn \cup {Null}
    /\ p.ctx # Null =>
         /\ Defines(p.code, p.ctx)
         /\ phase[p.ctx] \in {"elements", "missing", "built", "failed"}

DeclaredOffset(i, seg) ==
  IF seg.fromGlobal /\ Decl[lib[i]].global.kind = "define"
  THEN Decl[lib[i]].global.value
  ELSE Offset(i, seg)

Covers(i, n, x) ==
  LET seg == Decl[lib[i]].elements[n] IN
  x \in DeclaredOffset(i, seg) .. DeclaredOffset(i, seg) + Len(seg.funcs) - 1

(* When the initializer ends, each element segment is in the table at the   *)
(* offset the module declares, except where a later segment overlaps it,    *)
(* and none of its entries is null: globals come before the offsets that    *)
(* read them, and functions before the segments that copy them.             *)
SegmentsInPlace ==
  \A i \in Instance : phase[i] = "missing" =>
    \A n \in DOMAIN Decl[lib[i]].elements, x \in Word :
      (Covers(i, n, x) /\ \A m \in DOMAIN Decl[lib[i]].elements : m > n => ~Covers(i, m, x))
      => LET seg == Decl[lib[i]].elements[n]
             k == seg.funcs[x - DeclaredOffset(i, seg) + 1]
         IN /\ x \in Indices(tslot[i])
            /\ table[tslot[i]].at[x].code = fslot[i][k].code
            /\ table[tslot[i]].at[x].code # Null
=============================================================================
