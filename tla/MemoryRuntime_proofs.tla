------------------------ MODULE MemoryRuntime_proofs ------------------------
(***************************************************************************)
(* MemoryRuntime proved for any number of memories, instances and          *)
(* addresses, any word size and any set of library shapes.                 *)
(*                                                                         *)
(* UseSitesExact is not inductive by itself.  That a grow finds every slot *)
(* it must rewrite and no other depends on two memories never having the   *)
(* same base (BasesDistinct), on slots holding nothing but present bases   *)
(* (AddressesCurrent), and on where each instance is in its life           *)
(* (Lifecycle): an instance that is not built exports nothing, and a       *)
(* library that defines its memory has no slot to overwrite before Build.  *)
(***************************************************************************)
EXTENDS MemoryRuntime, TLAPS

BasesDistinct ==
  \A m, n \in Memory : Live(m) /\ base[m] = base[n] => m = n

\* What the phase of an instance says about its slot and its export.
Lifecycle ==
  \A i \in Instance :
    /\ phase[i] # "built" => exported[i] = Null
    /\ phase[i] = "absent" => slot[i] = Null /\ shape[i] = NoShape
    /\ shape[i].kind = "none" => slot[i] = Null
    /\ shape[i].kind = "define" /\ phase[i] = "linking" => slot[i] = Null

\* Sizes stay where 32-bit sums of two of them cannot reach them by wrapping.
SizesMapped ==
  \A m \in Memory : Live(m) => size[m] <= MapLimit /\ size[m] <= maxSize[m]

HostOwnsLive == \A m \in hostOwned : Live(m)

IInv ==
  /\ TypeOK
  /\ NeverAborts
  /\ BasesDistinct
  /\ UseSitesExact
  /\ AddressesCurrent
  /\ Lifecycle
  /\ SizesMapped
  /\ LimitsHold
  /\ HostOwnsLive
  /\ OneOwner

-----------------------------------------------------------------------------
(* Addresses, sums and shapes.                                             *)

\* fromInstancePtr finds a memory at every base address.
LEMMA AtIsBase ==
  ASSUME NEW a, IsBase(a)
  PROVE  At(a) \in Memory /\ base[At(a)] = a /\ Live(At(a))
BY DEF IsBase, At, Live

\* It finds the one memory that lives there.
LEMMA AtOfBase ==
  ASSUME BasesDistinct, NEW m \in Memory, Live(m)
  PROVE  IsBase(base[m]) /\ At(base[m]) = m
<1>1. IsBase(base[m])
  BY DEF IsBase, Live
<1>2. At(base[m]) \in Memory /\ base[At(base[m])] = base[m] /\ Live(At(base[m]))
  BY <1>1, AtIsBase
<1>3. QED
  BY <1>1, <1>2 DEF BasesDistinct

\* A 32-bit sum that stays in range is the sum.
LEMMA WrapInRange ==
  ASSUME NEW n \in Nat, n <= WordMax
  PROVE  Wrap(n) = n
<1>1. n < WordMax + 1 /\ WordMax + 1 \in Nat \ {0}
  BY WordAssumption
<1>2. n % (WordMax + 1) = n
  BY <1>1
<1>3. QED
  BY <1>2 DEF Wrap

\* When mremap can map the grown memory, the 32-bit sum has not wrapped.
LEMMA GrownSize ==
  ASSUME TypeOK, NEW m \in Memory, NEW delta \in Word, MremapTo(m, delta) # {}
  PROVE  /\ Wrap(size[m] + delta) = size[m] + delta
         /\ size[m] + delta \in Word
         /\ size[m] + delta <= MapLimit
<1>1. size[m] \in Nat /\ delta \in Nat
  BY WordAssumption DEF TypeOK, Word
<1>2. size[m] + delta <= MapLimit
  BY <1>1, WordAssumption DEF MremapTo
<1>3. size[m] + delta \in Nat /\ size[m] + delta <= WordMax
  BY <1>1, <1>2, WordAssumption
<1>4. QED
  BY <1>2, <1>3, WrapInRange DEF Word

\* Every shape is a declaration.
LEMMA ShapeTyped ==
  ASSUME NEW s \in Shape \cup {NoShape}
  PROVE  s \in ShapeType
<1>1. NoShape \in ShapeType
  BY WordAssumption DEF NoShape, ShapeType
<1>2. QED
  BY <1>1, ShapeAssumption

LEMMA InitInv == Init => IInv
<1> SUFFICES ASSUME Init PROVE IInv
  OBVIOUS
<1> USE WordAssumption, NullAssumption DEF Init, Live
<1>1. TypeOK
  BY DEF TypeOK, Word, Phase, Outcome, NoUseSites
<1>2. NeverAborts /\ BasesDistinct /\ HostOwnsLive /\ SizesMapped
  BY DEF NeverAborts, Running, BasesDistinct, HostOwnsLive, SizesMapped
<1>3. UseSitesExact /\ AddressesCurrent /\ LimitsHold /\ OneOwner
  BY DEF UseSitesExact, AddressesCurrent, LimitsHold, OneOwner, NoUseSites
<1>4. Lifecycle
  BY DEF Lifecycle, NoShape
<1>5. QED
  BY <1>1, <1>2, <1>3, <1>4 DEF IInv

-----------------------------------------------------------------------------
(* Every operation preserves the invariant.                                *)

\* A slot or an export never holds an address the kernel has free.
LEMMA SlotsNotFree ==
  ASSUME AddressesCurrent, NEW i \in Instance, NEW a \in FreeAddr
  PROVE  slot[i] # a /\ exported[i] # a
BY NullAssumption DEF AddressesCurrent, FreeAddr, IsBase

LEMMA HostConstructInv ==
  ASSUME IInv, NEW m \in Memory, NEW a \in Addr, NEW n \in Word, NEW x \in Word,
         HostConstruct(m, a, n, x)
  PROVE  IInv'
<1> USE DEF IInv, HostConstruct, Construct, instVars, NoUseSites
<1>1. TypeOK'
  BY DEF TypeOK
<1>2. NeverAborts'
  BY DEF NeverAborts, Running
<1>3. a # Null /\ \A o \in Memory : base[o] # a
  BY NullAssumption DEF FreeAddr
<1>4. base' = [base EXCEPT ![m] = a] /\ \A o \in Memory : Live(o)' <=> Live(o) \/ o = m
  BY <1>3 DEF Live, TypeOK
<1>5. BasesDistinct'
  BY <1>3, <1>4 DEF BasesDistinct, Live, TypeOK
<1>6. \A i \in Instance : slot[i] # a
  BY SlotsNotFree
<1>7. UseSitesExact'
  BY <1>3, <1>4, <1>6 DEF UseSitesExact, Live, TypeOK
<1>8. \A b : IsBase(b) => IsBase(b)'
  BY <1>3, <1>4 DEF IsBase, Live, TypeOK
<1>9. AddressesCurrent'
  BY <1>8 DEF AddressesCurrent
<1>10. Lifecycle'
  BY DEF Lifecycle
<1>11. SizesMapped'
  BY <1>4 DEF SizesMapped, TypeOK
<1>12. LimitsHold'
  BY <1>4, <1>6 DEF LimitsHold, TypeOK
<1>13. HostOwnsLive'
  BY <1>4 DEF HostOwnsLive, TypeOK
<1>14. OneOwner'
  BY <1>4, <1>6 DEF OneOwner, Defines, TypeOK
<1>15. QED
  BY <1>1, <1>2, <1>5, <1>7, <1>9, <1>10, <1>11, <1>12, <1>13, <1>14

\* ~WebAssemblyMemory on a memory no slot holds.
LEMMA UnmapInv ==
  ASSUME IInv, NEW m \in Memory, Live(m), Unmap(m),
         \A i \in Instance : slot'[i] # base[m],
         \A i \in Instance : slot'[i] \in {slot[i], Null},
         \A i \in Instance : slot[i] # slot'[i] => slot[i] = base[m]
  PROVE  BasesDistinct' /\ UseSitesExact' /\ SizesMapped'
         /\ (\A o \in Memory : Live(o)' <=> Live(o) /\ o # m)
         /\ (\A o \in Memory \ {m} : base'[o] = base[o])
         /\ (\A i \in Instance : slot'[i] # Null => IsBase(slot[i])')
<1> USE DEF IInv, Unmap, NoUseSites
<1>1. \A o \in Memory : Live(o)' <=> Live(o) /\ o # m
  BY DEF Live, TypeOK
<1>2. \A o \in Memory \ {m} : base'[o] = base[o] /\ useSites'[o] = useSites[o]
                              /\ size'[o] = size[o] /\ maxSize'[o] = maxSize[o]
  BY DEF TypeOK
<1>3. BasesDistinct'
  <2> SUFFICES ASSUME NEW o \in Memory, NEW q \in Memory, Live(o)', base'[o] = base'[q]
               PROVE  o = q
    BY DEF BasesDistinct
  <2>1. Live(q)'
    BY DEF Live
  <2>2. QED
    BY <2>1, <1>1, <1>2 DEF BasesDistinct
<1>4. UseSitesExact'
  <2> SUFFICES ASSUME NEW o \in Memory, NEW i \in Instance
               PROVE  useSites'[o][i] = IF Live(o)' /\ slot'[i] = base'[o] THEN 1 ELSE 0
    BY DEF UseSitesExact
  <2>1. CASE o = m
    BY <2>1, <1>1 DEF TypeOK
  <2>2. CASE o # m
    <3>1. useSites'[o][i] = useSites[o][i] /\ base'[o] = base[o] /\ (Live(o)' <=> Live(o))
      BY <2>2, <1>1, <1>2
    <3>2. slot[i] # slot'[i] /\ Live(o) => slot[i] # base[o] /\ slot'[i] # base[o]
      BY <2>2 DEF BasesDistinct, Live
    <3>3. QED
      BY <3>1, <3>2 DEF UseSitesExact
  <2>3. QED
    BY <2>1, <2>2
<1>5. SizesMapped'
  BY <1>1, <1>2 DEF SizesMapped
<1>6. ASSUME NEW i \in Instance, slot'[i] # Null PROVE IsBase(slot[i])'
  <2>1. slot'[i] = slot[i] /\ IsBase(slot[i])
    BY <1>6 DEF AddressesCurrent
  <2>2. PICK o \in Memory : base[o] = slot[i]
    BY <2>1 DEF IsBase
  <2>3. o # m
    BY <2>1, <2>2
  <2>4. base'[o] = slot'[i]
    BY <2>1, <2>2, <2>3, <1>2
  <2>5. QED
    BY <2>4, <1>6 DEF IsBase
<1>7. QED
  BY <1>1, <1>2, <1>3, <1>4, <1>5, <1>6

LEMMA HostDestroyInv ==
  ASSUME IInv, NEW m \in Memory, HostDestroy(m)
  PROVE  IInv'
<1> USE DEF IInv, HostDestroy
<1>1. UNCHANGED instVars /\ Unmap(m) /\ hostOwned' = hostOwned \ {m} /\ result' = Null
  OBVIOUS
<1>2. Live(m)
  BY DEF HostOwnsLive
<1>3. BasesDistinct' /\ UseSitesExact' /\ SizesMapped'
      /\ (\A o \in Memory : Live(o)' <=> Live(o) /\ o # m)
      /\ (\A o \in Memory \ {m} : base'[o] = base[o])
      /\ (\A i \in Instance : slot'[i] # Null => IsBase(slot[i])')
  BY <1>1, <1>2, UnmapInv DEF instVars
<1>4. useSites[m] = NoUseSites
  BY <1>2 DEF UseSitesExact, NoUseSites, TypeOK
<1>5. aborted' = "no"
  BY <1>4 DEF AssertThat
<1>6. TypeOK'
  BY <1>1, <1>5, WordAssumption DEF TypeOK, Unmap, NoUseSites, instVars, Word, Outcome
<1>7. NeverAborts'
  BY <1>5 DEF NeverAborts, Running
<1>8. AddressesCurrent'
  BY <1>1, <1>3 DEF AddressesCurrent, instVars
<1>9. Lifecycle'
  BY <1>1 DEF Lifecycle, instVars
<1>10. LimitsHold'
  BY <1>1, <1>3 DEF LimitsHold, Unmap, instVars, TypeOK
<1>11. HostOwnsLive'
  BY <1>1, <1>3 DEF HostOwnsLive, TypeOK
<1>12. OneOwner'
  BY <1>1, <1>3 DEF OneOwner, Defines, instVars
<1>13. QED
  BY <1>3, <1>6, <1>7, <1>8, <1>9, <1>10, <1>11, <1>12

\* Steps that touch neither a memory nor a slot.
LEMMA SameMemories ==
  ASSUME IInv, UNCHANGED <<memVars, slot>>
  PROVE  BasesDistinct' /\ UseSitesExact' /\ SizesMapped'
         /\ (\A a : IsBase(a)' <=> IsBase(a))
         /\ (\A m \in Memory : Live(m)' <=> Live(m))
BY DEF IInv, memVars, BasesDistinct, UseSitesExact, SizesMapped, IsBase, Live

LEMMA OpenInv ==
  ASSUME IInv, NEW i \in Instance, NEW s \in Shape, Open(i, s)
  PROVE  IInv'
<1> USE DEF IInv, Open
<1>1. BasesDistinct' /\ UseSitesExact' /\ SizesMapped'
      /\ (\A a : IsBase(a)' <=> IsBase(a))
      /\ (\A m \in Memory : Live(m)' <=> Live(m))
  BY SameMemories
<1>2. slot[i] = Null /\ exported[i] = Null
  BY DEF Lifecycle
<1>3. TypeOK'
  BY DEF TypeOK, Phase, memVars
<1>4. NeverAborts'
  BY DEF NeverAborts, Running
<1>5. AddressesCurrent'
  BY <1>1 DEF AddressesCurrent
<1>6. Lifecycle'
  BY <1>2 DEF Lifecycle, TypeOK
<1>7. \A j \in Instance : slot[j] # Null => shape'[j] = shape[j]
  BY <1>2 DEF TypeOK
<1>8. LimitsHold'
  BY <1>1, <1>7 DEF LimitsHold, memVars, Live
<1>9. HostOwnsLive'
  BY <1>1 DEF HostOwnsLive, TypeOK
<1>10. OneOwner'
  BY <1>1, <1>7 DEF OneOwner, Defines, memVars, Live
<1>11. QED
  BY <1>1, <1>3, <1>4, <1>5, <1>6, <1>8, <1>9, <1>10

LEMMA TryImportInv ==
  ASSUME IInv, NEW i \in Instance, NEW m \in Memory, TryImport(i, m)
  PROVE  IInv'
<1> USE DEF IInv, TryImport, BindImport, AddUseSite
<1>1. \A o \in Memory : Live(o)' <=> Live(o)
  BY DEF Live
<1>2. \A a : IsBase(a)' <=> IsBase(a)
  BY DEF IsBase
<1>3. useSites[m][i] = 0
  BY DEF UseSitesExact, Live
<1>4. \A o \in Memory \ {m} : useSites'[o] = useSites[o]
  BY DEF TypeOK
<1>5. useSites'[m] = [useSites[m] EXCEPT ![i] = 1]
  BY <1>3 DEF TypeOK
<1>6. slot'[i] = base[m] /\ \A j \in Instance \ {i} : slot'[j] = slot[j]
  BY DEF TypeOK
<1>7. TypeOK'
  BY DEF TypeOK, Live
<1>8. NeverAborts' /\ BasesDistinct' /\ SizesMapped' /\ HostOwnsLive'
  BY DEF NeverAborts, Running, BasesDistinct, SizesMapped, HostOwnsLive, Live
<1>9. UseSitesExact'
  <2> SUFFICES ASSUME NEW o \in Memory, NEW j \in Instance
               PROVE  useSites'[o][j] = IF Live(o)' /\ slot'[j] = base'[o] THEN 1 ELSE 0
    BY DEF UseSitesExact
  <2>1. CASE o = m
    BY <2>1, <1>1, <1>5, <1>6 DEF UseSitesExact, TypeOK
  <2>2. CASE o # m
    BY <2>2, <1>1, <1>4, <1>6 DEF UseSitesExact, BasesDistinct, Live
  <2>3. QED
    BY <2>1, <2>2
<1>10. AddressesCurrent'
  <2>1. IsBase(base[m])
    BY AtOfBase
  <2>2. exported[i] = Null
    BY DEF Lifecycle
  <2>3. QED
    BY <2>1, <2>2, <1>2, <1>6 DEF AddressesCurrent
<1>11. Lifecycle'
  BY <1>6 DEF Lifecycle
<1>12. LimitsHold'
  <2> SUFFICES ASSUME NEW o \in Memory, NEW j \in Instance, Live(o)', slot'[j] = base'[o]
               PROVE  shape'[j].min <= size'[o] /\ size'[o] <= maxSize'[o]
                      /\ maxSize'[o] <= shape'[j].max
    BY DEF LimitsHold
  <2>1. CASE j = i
    <3>1. o = m
      BY <2>1, <1>6, <1>1 DEF BasesDistinct
    <3>2. QED
      BY <2>1, <3>1 DEF SizesMapped
  <2>2. CASE j # i
    BY <2>2, <1>6, <1>1 DEF LimitsHold
  <2>3. QED
    BY <2>1, <2>2
<1>13. OneOwner'
  BY <1>1, <1>6 DEF OneOwner, Defines, Live
<1>14. QED
  BY <1>7, <1>8, <1>9, <1>10, <1>11, <1>12, <1>13

LEMMA BuildImportingInv ==
  ASSUME IInv, NEW i \in Instance, NEW ok \in BOOLEAN, BuildImporting(i, ok)
  PROVE  IInv'
<1> USE DEF IInv, BuildImporting, Publish
<1>1. BasesDistinct' /\ UseSitesExact' /\ SizesMapped'
      /\ (\A a : IsBase(a)' <=> IsBase(a))
      /\ (\A m \in Memory : Live(m)' <=> Live(m))
  BY SameMemories
<1>2. TypeOK'
  BY DEF TypeOK, Phase, memVars
<1>3. NeverAborts'
  BY DEF NeverAborts, Running
<1>4. exported'[i] \in {Null, slot[i]} /\ \A j \in Instance \ {i} : exported'[j] = exported[j]
  BY DEF TypeOK, Lifecycle
<1>5. AddressesCurrent'
  BY <1>1, <1>4 DEF AddressesCurrent
<1>6. Lifecycle'
  <2>1. phase'[i] # "built" => exported'[i] = Null
    BY DEF Lifecycle, TypeOK
  <2>2. \A j \in Instance \ {i} : phase'[j] = phase[j]
    BY DEF TypeOK
  <2>3. phase'[i] \in {"built", "failed"}
    BY DEF TypeOK
  <2>4. QED
    BY <2>1, <2>2, <2>3, <1>4 DEF Lifecycle
<1>7. LimitsHold'
  BY <1>1 DEF LimitsHold, memVars
<1>8. HostOwnsLive'
  BY <1>1 DEF HostOwnsLive, TypeOK
<1>9. OneOwner'
  BY <1>1 DEF OneOwner, Defines, memVars
<1>10. QED
  BY <1>1, <1>2, <1>3, <1>5, <1>6, <1>7, <1>8, <1>9

LEMMA BuildDefiningInv ==
  ASSUME IInv, NEW i \in Instance, NEW m \in Memory, NEW a \in Addr, NEW ok \in BOOLEAN,
         BuildDefining(i, m, a, ok)
  PROVE  IInv'
<1> USE DEF IInv, BuildDefining, Construct, Publish, AddUseSite, NoUseSites
<1>1. a # Null /\ (\A o \in Memory : base[o] # a) /\ ~Live(m)
  BY NullAssumption DEF FreeAddr
<1>2. \A o \in Memory : Live(o)' <=> Live(o) \/ o = m
  BY <1>1 DEF Live, TypeOK
<1>3. base'[m] = a /\ \A o \in Memory \ {m} :
        base'[o] = base[o] /\ size'[o] = size[o] /\ maxSize'[o] = maxSize[o]
        /\ useSites'[o] = useSites[o]
  BY DEF TypeOK
<1>4. slot[i] = Null /\ slot'[i] = a /\ \A j \in Instance \ {i} : slot'[j] = slot[j]
  BY DEF Lifecycle, TypeOK
<1>5. \A j \in Instance : slot[j] # a /\ exported[j] # a
  BY SlotsNotFree
<1>6. shape[i] \in ShapeType /\ shape[i].min <= shape[i].max /\ shape[i].min <= MapLimit
  <2>1. shape[i] \in Shape \cup {NoShape}
    BY DEF TypeOK
  <2>2. shape[i] \in Shape
    BY <2>1 DEF NoShape
  <2>3. QED
    BY <2>2, ShapeAssumption
<1>7. size'[m] = shape[i].min /\ maxSize'[m] = shape[i].max
  BY DEF TypeOK
<1>8. TypeOK'
  BY <1>6 DEF TypeOK, Phase, ShapeType, Word
<1>9. NeverAborts'
  BY DEF NeverAborts, Running
<1>10. BasesDistinct'
  BY <1>1, <1>2, <1>3 DEF BasesDistinct, Live
<1>11. UseSitesExact'
  <2> SUFFICES ASSUME NEW o \in Memory, NEW j \in Instance
               PROVE  useSites'[o][j] = IF Live(o)' /\ slot'[j] = base'[o] THEN 1 ELSE 0
    BY DEF UseSitesExact
  <2>1. CASE o = m
    <3>1. useSites'[m] = [[k \in Instance |-> 0] EXCEPT ![i] = 1]
      BY DEF TypeOK
    <3>2. QED
      BY <2>1, <3>1, <1>2, <1>3, <1>4, <1>5
  <2>2. CASE o # m
    BY <2>2, <1>1, <1>2, <1>3, <1>4 DEF UseSitesExact, Live
  <2>3. QED
    BY <2>1, <2>2
<1>12. \A b : IsBase(b)' <=> IsBase(b) \/ b = a
  BY <1>1, <1>3 DEF IsBase, Live
<1>13. exported'[i] \in {Null, a} /\ \A j \in Instance \ {i} : exported'[j] = exported[j]
  BY DEF TypeOK, Lifecycle
<1>14. AddressesCurrent'
  BY <1>4, <1>12, <1>13 DEF AddressesCurrent
<1>15. Lifecycle'
  <2>1. phase'[i] # "built" => exported'[i] = Null
    BY DEF Lifecycle, TypeOK
  <2>2. \A j \in Instance \ {i} : phase'[j] = phase[j]
    BY DEF TypeOK
  <2>3. phase'[i] \in {"built", "failed"}
    BY DEF TypeOK
  <2>4. QED
    BY <2>1, <2>2, <2>3, <1>4, <1>13 DEF Lifecycle
<1>16. SizesMapped'
  BY <1>2, <1>3, <1>6, <1>7 DEF SizesMapped
<1>17. LimitsHold'
  <2> SUFFICES ASSUME NEW o \in Memory, NEW j \in Instance, Live(o)', slot'[j] = base'[o]
               PROVE  shape'[j].min <= size'[o] /\ size'[o] <= maxSize'[o]
                      /\ maxSize'[o] <= shape'[j].max
    BY DEF LimitsHold
  <2>1. CASE o = m
    <3>1. j = i
      BY <2>1, <1>3, <1>4, <1>5
    <3>2. QED
      BY <2>1, <3>1, <1>6, <1>7 DEF ShapeType
  <2>2. CASE o # m
    <3>1. j # i
      BY <2>2, <1>1, <1>3, <1>4
    <3>2. QED
      BY <2>2, <3>1, <1>2, <1>3, <1>4 DEF LimitsHold
  <2>3. QED
    BY <2>1, <2>2
<1>18. HostOwnsLive'
  BY <1>2 DEF HostOwnsLive, TypeOK
<1>19. OneOwner'
  <2> SUFFICES ASSUME NEW o \in Memory, Live(o)'
               PROVE  /\ o \in hostOwned' => \A j \in Instance : ~Defines(j, o)'
                      /\ o \notin hostOwned' => \E j \in Instance : Defines(j, o)'
                      /\ \A j, k \in Instance : Defines(j, o)' /\ Defines(k, o)' => j = k
    BY DEF OneOwner
  <2>1. CASE o = m
    <3>1. m \notin hostOwned
      BY <1>1 DEF HostOwnsLive
    <3>2. \A j \in Instance : Defines(j, m)' <=> j = i
      BY <1>3, <1>4, <1>5 DEF Defines
    <3>3. QED
      BY <2>1, <3>1, <3>2
  <2>2. CASE o # m
    <3>1. \A j \in Instance : Defines(j, o)' <=> Defines(j, o)
      BY <2>2, <1>1, <1>2, <1>3, <1>4 DEF Defines, Live
    <3>2. QED
      BY <2>2, <3>1, <1>2 DEF OneOwner
  <2>3. QED
    BY <2>1, <2>2
<1>20. QED
  BY <1>8, <1>9, <1>10, <1>11, <1>14, <1>15, <1>16, <1>17, <1>18, <1>19

\* An instance that is gone holds nothing.
LEMMA ForgetKeeps ==
  ASSUME IInv, NEW i \in Instance, Forget(i)
  PROVE  /\ slot'[i] = Null /\ exported'[i] = Null /\ shape'[i] = NoShape
         /\ phase'[i] = "absent"
         /\ \A j \in Instance \ {i} :
              slot'[j] = slot[j] /\ exported'[j] = exported[j]
              /\ shape'[j] = shape[j] /\ phase'[j] = phase[j]
         /\ Lifecycle'
<1> USE DEF IInv, Forget
<1>1. /\ slot'[i] = Null /\ exported'[i] = Null /\ shape'[i] = NoShape
      /\ phase'[i] = "absent"
      /\ \A j \in Instance \ {i} :
           slot'[j] = slot[j] /\ exported'[j] = exported[j]
           /\ shape'[j] = shape[j] /\ phase'[j] = phase[j]
  BY DEF TypeOK
<1>2. Lifecycle'
  BY <1>1 DEF Lifecycle
<1>3. QED
  BY <1>1, <1>2

LEMMA DestroyUnboundInv ==
  ASSUME IInv, NEW i \in Instance, DestroyUnbound(i)
  PROVE  IInv'
<1> USE DEF IInv, DestroyUnbound
<1>1. /\ slot'[i] = Null /\ exported'[i] = Null /\ shape'[i] = NoShape
      /\ \A j \in Instance \ {i} :
           slot'[j] = slot[j] /\ exported'[j] = exported[j] /\ shape'[j] = shape[j]
      /\ Lifecycle' /\ hostOwned' = hostOwned
  BY ForgetKeeps DEF Forget
<1>2. slot' = slot
  BY DEF Forget, TypeOK
<1>3. BasesDistinct' /\ UseSitesExact' /\ SizesMapped'
      /\ (\A a : IsBase(a)' <=> IsBase(a))
      /\ (\A m \in Memory : Live(m)' <=> Live(m))
  BY <1>2, SameMemories
<1>4. TypeOK' /\ NeverAborts'
  BY DEF TypeOK, NeverAborts, Running, Forget, Phase, memVars
<1>5. AddressesCurrent' /\ HostOwnsLive'
  BY <1>1, <1>3 DEF AddressesCurrent, HostOwnsLive, TypeOK
<1>6. LimitsHold'
  BY <1>1, <1>3 DEF LimitsHold, memVars, Live
<1>7. OneOwner'
  BY <1>1, <1>2, <1>3 DEF OneOwner, Defines, memVars, Live
<1>8. QED
  BY <1>1, <1>3, <1>4, <1>5, <1>6, <1>7

LEMMA DestroyImporterInv ==
  ASSUME IInv, NEW i \in Instance, DestroyImporter(i)
  PROVE  IInv'
<1> DEFINE m == At(slot[i])
<1> USE DEF IInv, DestroyImporter, RemoveUseSite
<1>1. m \in Memory /\ base[m] = slot[i] /\ Live(m)
  BY AtIsBase DEF AddressesCurrent
<1>2. /\ slot'[i] = Null /\ exported'[i] = Null /\ shape'[i] = NoShape
      /\ \A j \in Instance \ {i} :
           slot'[j] = slot[j] /\ exported'[j] = exported[j] /\ shape'[j] = shape[j]
      /\ Lifecycle' /\ hostOwned' = hostOwned
  BY ForgetKeeps DEF Forget
<1>3. useSites[m][i] = 1
  BY <1>1 DEF UseSitesExact
<1>4. aborted' = "no"
  BY <1>3 DEF AssertThat
<1>5. useSites' = [useSites EXCEPT ![m] = [useSites[m] EXCEPT ![i] = 0]]
  BY <1>1, <1>3 DEF TypeOK
<1> HIDE DEF m
<1>6. base' = base /\ size' = size /\ maxSize' = maxSize
  OBVIOUS
<1>7. TypeOK' /\ NeverAborts'
  <2>1. useSites \in [Memory -> [Instance -> Nat]]
    BY DEF TypeOK
  <2>2. [useSites[m] EXCEPT ![i] = 0] \in [Instance -> Nat]
    BY <1>1, <2>1
  <2>3. useSites' \in [Memory -> [Instance -> Nat]]
    BY <1>5, <2>1, <2>2
  <2>4. QED
    BY <2>3, <1>4, <1>6 DEF TypeOK, NeverAborts, Running, Forget, Phase, Outcome
<1>8. BasesDistinct' /\ SizesMapped' /\ HostOwnsLive'
  BY <1>2, <1>6 DEF BasesDistinct, SizesMapped, HostOwnsLive, Live
<1>9. UseSitesExact'
  <2> SUFFICES ASSUME NEW o \in Memory, NEW j \in Instance
               PROVE  useSites'[o][j] = IF Live(o)' /\ slot'[j] = base'[o] THEN 1 ELSE 0
    BY DEF UseSitesExact
  <2>1. CASE o = m
    BY <2>1, <1>1, <1>2, <1>5, <1>6 DEF UseSitesExact, TypeOK, Live
  <2>2. CASE o # m
    <3>1. useSites'[o] = useSites[o]
      BY <2>2, <1>5 DEF TypeOK
    <3>2. Live(o) => slot[i] # base[o]
      BY <2>2, <1>1 DEF BasesDistinct, Live
    <3>3. QED
      BY <3>1, <3>2, <1>2, <1>6 DEF UseSitesExact, Live
  <2>3. QED
    BY <2>1, <2>2
<1>10. AddressesCurrent'
  BY <1>2, <1>6 DEF AddressesCurrent, IsBase
<1>11. LimitsHold'
  BY <1>2, <1>6 DEF LimitsHold, Live
<1>12. OneOwner'
  <2>1. \A o \in Memory, j \in Instance : Live(o) => (Defines(j, o)' <=> Defines(j, o))
    BY <1>2, <1>6 DEF Defines, Live
  <2>2. QED
    BY <2>1, <1>2, <1>6 DEF OneOwner, Live
<1>13. QED
  BY <1>2, <1>7, <1>8, <1>9, <1>10, <1>11, <1>12

LEMMA DestroyDefinerInv ==
  ASSUME IInv, NEW i \in Instance, DestroyDefiner(i)
  PROVE  IInv'
<1> DEFINE m == At(slot[i])
<1> USE DEF IInv, DestroyDefiner
<1>1. m \in Memory /\ base[m] = slot[i] /\ Live(m)
  BY AtIsBase DEF AddressesCurrent
<1>2. /\ slot'[i] = Null /\ exported'[i] = Null /\ shape'[i] = NoShape
      /\ \A j \in Instance \ {i} :
           slot'[j] = slot[j] /\ exported'[j] = exported[j] /\ shape'[j] = shape[j]
      /\ Lifecycle' /\ hostOwned' = hostOwned
  BY ForgetKeeps DEF Forget
<1>3. \A j \in Instance : useSites[m][j] = IF j = i THEN 1 ELSE 0
  BY <1>1 DEF UseSitesExact
<1>4. RemoveUseSite(useSites[m], i) = NoUseSites
  BY <1>1, <1>3 DEF RemoveUseSite, NoUseSites, TypeOK
<1>5. aborted' = "no" /\ Unmap(m)
  BY <1>4 DEF AssertThat
<1> HIDE DEF m
<1>6. BasesDistinct' /\ UseSitesExact' /\ SizesMapped'
      /\ (\A o \in Memory : Live(o)' <=> Live(o) /\ o # m)
      /\ (\A o \in Memory \ {m} : base'[o] = base[o])
      /\ (\A j \in Instance : slot'[j] # Null => IsBase(slot[j])')
  <2>1. \A j \in Instance : slot'[j] # base[m]
    BY <1>1, <1>2 DEF Live
  <2>2. \A j \in Instance : slot'[j] \in {slot[j], Null}
    BY <1>2
  <2>3. \A j \in Instance : slot[j] # slot'[j] => slot[j] = base[m]
    BY <1>1, <1>2
  <2>4. QED
    BY <1>1, <1>5, <2>1, <2>2, <2>3, UnmapInv
<1>7. TypeOK' /\ NeverAborts'
  <2>1. base' \in [Memory -> Addr \cup {Null}] /\ size' \in [Memory -> Word]
        /\ maxSize' \in [Memory -> Word] /\ useSites' \in [Memory -> [Instance -> Nat]]
    BY <1>1, <1>5, WordAssumption DEF TypeOK, Unmap, NoUseSites, Word
  <2>2. QED
    BY <2>1, <1>5 DEF TypeOK, NeverAborts, Running, Forget, Phase, Outcome
<1>8. AddressesCurrent'
  BY <1>2, <1>6 DEF AddressesCurrent
<1>9. m \notin hostOwned
  BY <1>1 DEF OneOwner, Defines
<1>10. HostOwnsLive'
  BY <1>2, <1>6, <1>9 DEF HostOwnsLive, TypeOK
<1>11. \A o \in Memory \ {m} : size'[o] = size[o] /\ maxSize'[o] = maxSize[o]
  BY <1>5 DEF Unmap, TypeOK
<1>12. LimitsHold'
  <2> SUFFICES ASSUME NEW o \in Memory, NEW j \in Instance, Live(o)', slot'[j] = base'[o]
               PROVE  shape'[j].min <= size'[o] /\ size'[o] <= maxSize'[o]
                      /\ maxSize'[o] <= shape'[j].max
    BY DEF LimitsHold
  <2>1. o # m /\ Live(o) /\ base'[o] = base[o] /\ slot[j] = base[o] /\ j # i
    BY <1>2, <1>6 DEF Live
  <2>2. QED
    BY <2>1, <1>2, <1>11 DEF LimitsHold
<1>13. OneOwner'
  <2> SUFFICES ASSUME NEW o \in Memory, Live(o)'
               PROVE  /\ o \in hostOwned' => \A j \in Instance : ~Defines(j, o)'
                      /\ o \notin hostOwned' => \E j \in Instance : Defines(j, o)'
                      /\ \A j, k \in Instance : Defines(j, o)' /\ Defines(k, o)' => j = k
    BY DEF OneOwner
  <2>1. o # m /\ Live(o) /\ base'[o] = base[o]
    BY <1>6
  <2>2. ~Defines(i, o) /\ ~Defines(i, o)'
    BY <2>1, <1>1, <1>2 DEF Defines, BasesDistinct, Live
  <2>3. \A j \in Instance : Defines(j, o)' <=> Defines(j, o)
    BY <2>1, <2>2, <1>2 DEF Defines
  <2>4. QED
    BY <2>1, <2>3, <1>2 DEF OneOwner
<1>14. QED
  BY <1>2, <1>6, <1>7, <1>8, <1>10, <1>12, <1>13

\* grow rewrites exactly the slots and exports that held the old base.
LEMMA ReplacedAll ==
  ASSUME IInv, NEW m \in Memory, Live(m), NEW new
  PROVE  /\ \A i \in Instance :
              Replaced(slot, m, base[m], new)[i] =
                IF slot[i] = base[m] THEN new ELSE slot[i]
         /\ \A i \in Instance :
              Replaced(exported, m, base[m], new)[i] =
                IF exported[i] = base[m] THEN new ELSE exported[i]
         /\ EveryReplaceFinds(m, base[m], new)
<1>1. \A i \in Instance : useSites[m][i] = IF slot[i] = base[m] THEN 1 ELSE 0
  BY DEF IInv, UseSitesExact
<1>2. \A i \in Instance : exported[i] = base[m] => slot[i] = base[m]
  BY DEF IInv, AddressesCurrent, Live
<1>3. QED
  BY <1>1, <1>2 DEF Replaced, EveryReplaceFinds

LEMMA GrowDoneInv ==
  ASSUME IInv, NEW m \in Memory, Live(m), NEW delta \in Word, GrowDone(m, delta)
  PROVE  IInv'
<1> USE DEF IInv, GrowDone
<1>1. PICK new \in MremapTo(m, delta) :
        /\ base' = [base EXCEPT ![m] = new]
        /\ slot' = Replaced(slot, m, base[m], new)
        /\ exported' = Replaced(exported, m, base[m], new)
        /\ AssertThat(EveryReplaceFinds(m, base[m], new), "not_replaced")
  OBVIOUS
<1>2. new \in Addr /\ new # Null /\ \A o \in Memory \ {m} : base[o] # new
  <2>1. new \in {base[m]} \cup FreeAddr
    BY DEF MremapTo
  <2>2. base[m] \in Addr
    BY DEF TypeOK, Live
  <2>3. QED
    BY <2>1, <2>2, NullAssumption DEF FreeAddr, BasesDistinct, Live
<1>3. size'[m] = size[m] + delta /\ size'[m] \in Word /\ size'[m] <= MapLimit
      /\ size[m] <= size'[m] /\ size'[m] <= maxSize[m]
  <2>1. /\ Wrap(size[m] + delta) = size[m] + delta
        /\ size[m] + delta \in Word
        /\ size[m] + delta <= MapLimit
    BY <1>1, GrownSize
  <2>2. size'[m] = size[m] + delta
    BY <2>1 DEF TypeOK
  <2>3. size[m] <= size[m] + delta
    BY WordAssumption DEF TypeOK, Word
  <2>4. QED
    BY <2>1, <2>2, <2>3 DEF LimitAdmits
<1>4. \A o \in Memory \ {m} : base'[o] = base[o] /\ size'[o] = size[o]
  BY <1>1 DEF TypeOK
<1>5. base'[m] = new
  BY <1>1 DEF TypeOK
<1>6. \A o \in Memory : Live(o)' <=> Live(o)
  BY <1>2, <1>4, <1>5 DEF Live
<1>7. /\ \A i \in Instance : slot'[i] = IF slot[i] = base[m] THEN new ELSE slot[i]
      /\ \A i \in Instance :
           exported'[i] = IF exported[i] = base[m] THEN new ELSE exported[i]
      /\ aborted' = "no"
  BY <1>1, ReplacedAll DEF AssertThat
<1>8. \A o \in Memory, i \in Instance : Live(o) => (slot'[i] = base'[o] <=> slot[i] = base[o])
  <2> SUFFICES ASSUME NEW o \in Memory, NEW i \in Instance, Live(o)
               PROVE  slot'[i] = base'[o] <=> slot[i] = base[o]
    OBVIOUS
  <2>1. CASE o = m
    <3>1. slot[i] # base[m] => slot[i] # new
      <4>1. CASE slot[i] = Null
        BY <4>1, <1>2
      <4>2. CASE slot[i] # Null
        <5>1. PICK q \in Memory : base[q] = slot[i]
          BY <4>2 DEF AddressesCurrent, IsBase
        <5>2. QED
          BY <5>1, <1>2
      <4>3. QED
        BY <4>1, <4>2
    <3>2. QED
      BY <2>1, <3>1, <1>5, <1>7
  <2>2. CASE o # m
    BY <2>2, <1>2, <1>4, <1>7 DEF BasesDistinct
  <2>3. QED
    BY <2>1, <2>2
<1>9. TypeOK'
  <2>1. base' \in [Memory -> Addr \cup {Null}] /\ size' \in [Memory -> Word]
    BY <1>1, <1>2, <1>3 DEF TypeOK
  <2>2. slot' \in [Instance -> Addr \cup {Null}] /\ exported' \in [Instance -> Addr \cup {Null}]
    BY <1>1, <1>2 DEF TypeOK, Replaced
  <2>3. QED
    BY <2>1, <2>2, <1>7 DEF TypeOK, Outcome
<1>10. NeverAborts'
  BY <1>7 DEF NeverAborts, Running
<1>11. BasesDistinct'
  BY <1>2, <1>4, <1>5, <1>6 DEF BasesDistinct, Live
<1>12. UseSitesExact'
  BY <1>6, <1>8 DEF UseSitesExact
<1>13. AddressesCurrent'
  <2> SUFFICES ASSUME NEW i \in Instance
               PROVE  /\ slot'[i] # Null => IsBase(slot[i])'
                      /\ exported'[i] # Null => exported'[i] = slot'[i]
    BY DEF AddressesCurrent
  <2>1. exported'[i] # Null => exported'[i] = slot'[i]
    BY <1>7 DEF AddressesCurrent, Live
  <2>2. ASSUME slot'[i] # Null PROVE IsBase(slot[i])'
    <3>1. slot[i] # Null
      BY <2>2, <1>7 DEF Live
    <3>2. PICK o \in Memory : base[o] = slot[i]
      BY <3>1 DEF AddressesCurrent, IsBase
    <3>3. Live(o)
      BY <3>1, <3>2 DEF Live
    <3>4. slot'[i] = base'[o]
      BY <3>2, <3>3, <1>8
    <3>5. QED
      BY <2>2, <3>4 DEF IsBase
  <2>3. QED
    BY <2>1, <2>2
<1>14. Lifecycle'
  BY <1>7 DEF Lifecycle, Live
<1>15. SizesMapped'
  BY <1>3, <1>4, <1>6 DEF SizesMapped
<1>16. LimitsHold'
  <2> SUFFICES ASSUME NEW o \in Memory, NEW i \in Instance, Live(o)', slot'[i] = base'[o]
               PROVE  shape'[i].min <= size'[o] /\ size'[o] <= maxSize'[o]
                      /\ maxSize'[o] <= shape'[i].max
    BY DEF LimitsHold
  <2>1. /\ shape[i].min <= size[o] /\ maxSize[o] <= shape[i].max
        /\ size[o] <= size'[o] /\ size'[o] <= maxSize[o]
    <3>1. Live(o) /\ slot[i] = base[o]
      BY <1>6, <1>8
    <3>2. shape[i].min <= size[o] /\ size[o] <= maxSize[o] /\ maxSize[o] <= shape[i].max
      BY <3>1 DEF LimitsHold
    <3>3. CASE o = m
      BY <3>2, <3>3, <1>3
    <3>4. CASE o # m
      BY <3>2, <3>4, <1>4, WordAssumption DEF TypeOK, Word
    <3>5. QED
      BY <3>3, <3>4
  <2>2. shape[i].min \in Int /\ size[o] \in Int /\ size'[o] \in Int
    <3>1. shape[i] \in ShapeType
      BY ShapeTyped DEF TypeOK
    <3>2. QED
      BY <3>1, <1>9 DEF ShapeType, TypeOK, Word
  <2>3. QED
    BY <2>1, <2>2
<1>17. HostOwnsLive'
  BY <1>6 DEF HostOwnsLive, TypeOK
<1>18. OneOwner'
  BY <1>6, <1>8 DEF OneOwner, Defines
<1>19. QED
  BY <1>9, <1>10, <1>11, <1>12, <1>13, <1>14, <1>15, <1>16, <1>17, <1>18

\* A step that leaves everything but the result alone.
LEMMA ResultOnlyInv ==
  ASSUME IInv, UNCHANGED <<memVars, hostOwned, instVars, aborted>>,
         result' \in Word \cup {Null}
  PROVE  IInv'
BY DEF IInv, memVars, instVars, TypeOK, NeverAborts, Running, BasesDistinct, UseSitesExact,
       AddressesCurrent, Lifecycle, SizesMapped, LimitsHold, HostOwnsLive, OneOwner,
       Defines, Live, IsBase

LEMMA GrowInv ==
  ASSUME IInv, NEW m \in Memory, Live(m), NEW delta \in Word, Grow(m, delta)
  PROVE  IInv'
<1>1. CASE GrowRefused
  BY <1>1, ResultOnlyInv, WordAssumption DEF GrowRefused, GrowFailed, Word
<1>2. CASE GrowDone(m, delta)
  BY <1>2, GrowDoneInv
<1>3. QED
  BY <1>1, <1>2 DEF Grow

\* The memory a grow acts on exists, whichever address the caller used.
LEMMA GrowCalls ==
  ASSUME IInv, NEW delta \in Word,
         \/ \E i \in Instance : WasmGrow(i, delta) \/ ExportGrow(i, delta)
         \/ \E m \in Memory : HostGrow(m, delta)
  PROVE  \E m \in Memory : Live(m) /\ Grow(m, delta)
<1>1. ASSUME NEW i \in Instance, WasmGrow(i, delta)
      PROVE  \E m \in Memory : Live(m) /\ Grow(m, delta)
  BY <1>1, AtIsBase DEF WasmGrow, IInv, AddressesCurrent
<1>2. ASSUME NEW i \in Instance, ExportGrow(i, delta)
      PROVE  \E m \in Memory : Live(m) /\ Grow(m, delta)
  BY <1>2, AtIsBase DEF ExportGrow, IInv, AddressesCurrent
<1>3. ASSUME NEW m \in Memory, HostGrow(m, delta)
      PROVE  \E o \in Memory : Live(o) /\ Grow(o, delta)
  BY <1>3 DEF HostGrow, IInv, HostOwnsLive
<1>4. QED
  BY <1>1, <1>2, <1>3

LEMMA NextInv == IInv /\ [Next]_vars => IInv'
<1> SUFFICES ASSUME IInv, [Next]_vars PROVE IInv'
  OBVIOUS
<1>1. ASSUME NEW m \in Memory, NEW a \in Addr, NEW n \in Word, NEW x \in Word,
             HostConstruct(m, a, n, x)
      PROVE  IInv'
  BY <1>1, HostConstructInv
<1>2. ASSUME NEW m \in Memory, HostDestroy(m) PROVE IInv'
  BY <1>2, HostDestroyInv
<1>3. ASSUME NEW i \in Instance, NEW s \in Shape, Open(i, s) PROVE IInv'
  BY <1>3, OpenInv
<1>4. ASSUME NEW i \in Instance, NEW m \in Memory, TryImport(i, m) PROVE IInv'
  BY <1>4, TryImportInv
<1>5. ASSUME NEW i \in Instance, NEW m \in Memory, NEW a \in Addr, NEW ok \in BOOLEAN,
             BuildDefining(i, m, a, ok)
      PROVE  IInv'
  BY <1>5, BuildDefiningInv
<1>6. ASSUME NEW i \in Instance, NEW ok \in BOOLEAN, BuildImporting(i, ok) PROVE IInv'
  BY <1>6, BuildImportingInv
<1>7. ASSUME NEW i \in Instance, Destroy(i) PROVE IInv'
  BY <1>7, DestroyUnboundInv, DestroyImporterInv, DestroyDefinerInv DEF Destroy
<1>8. ASSUME NEW delta \in Word,
             \/ \E i \in Instance : WasmGrow(i, delta) \/ ExportGrow(i, delta)
             \/ \E m \in Memory : HostGrow(m, delta)
      PROVE  IInv'
  BY <1>8, GrowCalls, GrowInv
<1>9. CASE UNCHANGED vars
  BY <1>9, ResultOnlyInv DEF vars, IInv, TypeOK
<1>10. QED
  BY <1>1, <1>2, <1>3, <1>4, <1>5, <1>6, <1>7, <1>8, <1>9 DEF Next

-----------------------------------------------------------------------------
(* The theorems.                                                           *)

THEOREM Inductive == Spec => []IInv
<1>1. Init => IInv
  BY InitInv
<1>2. IInv /\ [Next]_vars => IInv'
  BY NextInv
<1>3. QED
  BY <1>1, <1>2, PTL DEF Spec

\* Every variable keeps its type; in particular no 32-bit size ever leaves
\* its word and no use-site count goes below zero.
THEOREM TypeCorrect == Spec => []TypeOK
<1>1. IInv => TypeOK
  BY DEF IInv
<1>2. QED
  BY <1>1, Inductive, PTL

\* No use-site assertion of the runtime can fail.
THEOREM AssertionsHold == Spec => []NeverAborts
<1>1. IInv => NeverAborts
  BY DEF IInv
<1>2. QED
  BY <1>1, Inductive, PTL

\* A memory's use sites are the instances bound to it.
THEOREM UseSitesAreExact == Spec => []UseSitesExact
<1>1. IInv => UseSitesExact
  BY DEF IInv
<1>2. QED
  BY <1>1, Inductive, PTL

\* No instance and no export ever holds a stale memory address.
THEOREM NoStaleAddress == Spec => []AddressesCurrent
<1>1. IInv => AddressesCurrent
  BY DEF IInv
<1>2. QED
  BY <1>1, Inductive, PTL

\* The limits tryImport checked hold for as long as the binding does.
THEOREM LimitsAlwaysHold == Spec => []LimitsHold
<1>1. IInv => LimitsHold
  BY DEF IInv
<1>2. QED
  BY <1>1, Inductive, PTL

\* Every memory has exactly one party that will unmap it.
THEOREM OwnershipIsUnique == Spec => []OneOwner
<1>1. IInv => OneOwner
  BY DEF IInv
<1>2. QED
  BY <1>1, Inductive, PTL

\* Two memories never both change: only grow changes a size, and of one memory.
GrowHonestStep ==
  \A m \in Memory :
    Live(m) /\ Live(m)' /\ size'[m] # size[m] =>
      /\ result' = size[m]
      /\ size'[m] > size[m]
      /\ size'[m] <= maxSize[m]
      /\ \A o \in Memory \ {m} : size'[o] = size[o] /\ base'[o] = base[o]

LEMMA GrowDoneHonest ==
  ASSUME IInv, NEW g \in Memory, Live(g), NEW delta \in Word, GrowDone(g, delta)
  PROVE  GrowHonestStep
<1> USE DEF IInv, GrowDone
<1>1. MremapTo(g, delta) # {}
  OBVIOUS
<1>2. size'[g] = size[g] + delta /\ size[g] + delta \in Word
  BY <1>1, GrownSize DEF TypeOK
<1>3. Wrap(size[g] + delta) <= maxSize[g] /\ Wrap(size[g] + delta) = size[g] + delta
  BY <1>1, GrownSize DEF LimitAdmits
<1>4. size[g] \in Nat /\ delta \in Nat
  BY WordAssumption DEF TypeOK, Word
<1>5. \A o \in Memory \ {g} : size'[o] = size[o] /\ base'[o] = base[o]
  BY DEF TypeOK
<1>6. result' = size[g]
  OBVIOUS
<1>7. QED
  BY <1>2, <1>3, <1>4, <1>5, <1>6 DEF GrowHonestStep

LEMMA NextHonest == IInv /\ [Next]_vars => [GrowHonestStep]_vars
<1> SUFFICES ASSUME IInv, Next PROVE GrowHonestStep
  OBVIOUS
<1>1. ASSUME NEW delta \in Word,
             \/ \E i \in Instance : WasmGrow(i, delta) \/ ExportGrow(i, delta)
             \/ \E m \in Memory : HostGrow(m, delta)
      PROVE  GrowHonestStep
  <2>1. PICK g \in Memory : Live(g) /\ Grow(g, delta)
    BY <1>1, GrowCalls
  <2>2. CASE GrowRefused
    BY <2>2 DEF GrowRefused, memVars, GrowHonestStep
  <2>3. CASE GrowDone(g, delta)
    BY <2>1, <2>3, GrowDoneHonest
  <2>4. QED
    BY <2>1, <2>2, <2>3 DEF Grow
<1>2. ASSUME size' = size PROVE GrowHonestStep
  BY <1>2 DEF GrowHonestStep
<1>3. ASSUME NEW m \in Memory, NEW a \in Addr, NEW n \in Word, NEW x \in Word,
             HostConstruct(m, a, n, x)
      PROVE  GrowHonestStep
  BY <1>3 DEF HostConstruct, Construct, GrowHonestStep, IInv, TypeOK
<1>4. ASSUME NEW m \in Memory, Unmap(m) PROVE GrowHonestStep
  BY <1>4 DEF Unmap, GrowHonestStep, IInv, TypeOK, Live
<1>5. ASSUME NEW i \in Instance, NEW m \in Memory, NEW a \in Addr, NEW ok \in BOOLEAN,
             BuildDefining(i, m, a, ok)
      PROVE  GrowHonestStep
  BY <1>5 DEF BuildDefining, Construct, GrowHonestStep, IInv, TypeOK
<1>6. ASSUME NEW i \in Instance, Destroy(i) PROVE GrowHonestStep
  <2>1. CASE DestroyUnbound(i)
    BY <2>1, <1>2 DEF DestroyUnbound, memVars
  <2>2. CASE DestroyImporter(i)
    BY <2>2, <1>2 DEF DestroyImporter
  <2>3. CASE DestroyDefiner(i)
    <3>1. At(slot[i]) \in Memory
      BY <2>3, AtIsBase DEF DestroyDefiner, IInv, AddressesCurrent
    <3>2. QED
      BY <2>3, <3>1, <1>4 DEF DestroyDefiner
  <2>4. QED
    BY <1>6, <2>1, <2>2, <2>3 DEF Destroy
<1>7. ASSUME NEW i \in Instance, NEW s \in Shape, Open(i, s) PROVE size' = size
  BY <1>7 DEF Open, memVars
<1>8. ASSUME NEW i \in Instance, NEW m \in Memory, TryImport(i, m) PROVE size' = size
  BY <1>8 DEF TryImport, BindImport
<1>9. ASSUME NEW i \in Instance, NEW ok \in BOOLEAN, BuildImporting(i, ok) PROVE size' = size
  BY <1>9 DEF BuildImporting, memVars
<1>10. ASSUME NEW m \in Memory, HostDestroy(m) PROVE GrowHonestStep
  BY <1>10, <1>4 DEF HostDestroy
<1>11. QED
  BY <1>1, <1>2, <1>3, <1>5, <1>6, <1>7, <1>8, <1>9, <1>10 DEF Next

\* A grow that succeeds answers the old size, makes the memory larger, keeps it
\* within its maximum and touches no other memory, though its limit test wraps.
THEOREM GrowHonest == Spec => GrowIsHonest
<1>1. IInv /\ [Next]_vars => [GrowHonestStep]_vars
  BY NextHonest
<1>2. Spec => [][GrowHonestStep]_vars
  BY <1>1, Inductive, PTL DEF Spec
<1>3. QED
  BY <1>2 DEF GrowIsHonest, GrowHonestStep

-----------------------------------------------------------------------------
(* MemoryRuntime implements SharedMemory: although instances hold            *)
(* addresses that change under them, every step either is a step of the      *)
(* specification that has only references, or changes nothing it can see.    *)
(* Each lemma maps one operation; the inductive invariant says which memory  *)
(* an address stands for.                                                    *)

sharedVars == <<sharedPages, sharedLimit, sharedRef, sharedExport>>

\* What the mapped variables are, for an instance or a memory at a time.
MapsTo ==
  /\ \A i \in Instance :
       IF slot[i] = Null THEN sharedRef[i] = Null
       ELSE /\ sharedRef[i] \in Memory
            /\ Live(sharedRef[i])
            /\ base[sharedRef[i]] = slot[i]
  /\ \A i \in Instance, m \in Memory : Live(m) => (sharedRef[i] = m <=> slot[i] = base[m])
  /\ \A i \in Instance :
       sharedExport[i] = IF exported[i] = Null THEN Null ELSE sharedRef[i]
  /\ \A m \in Memory : sharedPages[m] = IF Live(m) THEN size[m] ELSE Null
  /\ \A m \in Memory : sharedLimit[m] = IF Live(m) THEN maxSize[m] ELSE Null
  /\ \A m \in Memory : sharedPages[m] # Null <=> Live(m)

LEMMA MapsToLemma == IInv => MapsTo
<1> SUFFICES ASSUME IInv PROVE MapsTo
  OBVIOUS
<1>1. ASSUME NEW i \in Instance
      PROVE  IF slot[i] = Null THEN sharedRef[i] = Null
             ELSE /\ sharedRef[i] \in Memory
                  /\ Live(sharedRef[i])
                  /\ base[sharedRef[i]] = slot[i]
  <2>1. sharedRef[i] = RefOf(slot[i])
    BY DEF sharedRef
  <2>2. CASE slot[i] = Null
    BY <2>1, <2>2 DEF RefOf, IsBase
  <2>3. CASE slot[i] # Null
    BY <2>1, <2>3, AtIsBase DEF RefOf, IInv, AddressesCurrent
  <2>4. QED
    BY <2>2, <2>3
<1>2. ASSUME NEW i \in Instance, NEW m \in Memory, Live(m)
      PROVE  sharedRef[i] = m <=> slot[i] = base[m]
  BY <1>1, <1>2, NullAssumption DEF IInv, BasesDistinct, Live
<1>3. \A i \in Instance :
        sharedExport[i] = IF exported[i] = Null THEN Null ELSE sharedRef[i]
  BY DEF IInv, AddressesCurrent, sharedExport, sharedRef, RefOf, IsBase
<1>4. \A m \in Memory : size[m] # Null
  BY NullAssumption, WordAssumption DEF IInv, TypeOK, Word
<1>5. QED
  BY <1>1, <1>2, <1>3, <1>4 DEF MapsTo, sharedPages, sharedLimit

\* The same after a step.
LEMMA MapsToNext == IInv' => MapsTo'
BY MapsToLemma, PTL

LEMMA InitRefines == Init => Shared!Init
BY DEF Init, Shared!Init, sharedPages, sharedLimit, sharedRef, sharedExport, Live, RefOf, IsBase

-----------------------------------------------------------------------------
(* What a step leaves alone.                                               *)

\* Steps that touch neither memories, nor slots, nor exports are not seen.
LEMMA Unseen ==
  ASSUME UNCHANGED <<base, size, maxSize, slot, exported>>
  PROVE  UNCHANGED sharedVars
BY DEF sharedVars, sharedPages, sharedLimit, sharedRef, sharedExport, Live, RefOf, IsBase, At

\* An instance that keeps its slot, while the memory it is on keeps its base,
\* keeps its reference.
LEMMA RefKept ==
  ASSUME IInv, IInv', NEW i \in Instance,
         slot'[i] = slot[i],
         \A m \in Memory : Live(m) /\ slot[i] = base[m] => base'[m] = base[m]
  PROVE  sharedRef'[i] = sharedRef[i]
<1>1. MapsTo /\ MapsTo'
  BY MapsToLemma, MapsToNext
<1>2. CASE slot[i] = Null
  BY <1>1, <1>2 DEF MapsTo
<1>3. CASE slot[i] # Null
  <2>1. PICK m \in Memory : Live(m) /\ slot[i] = base[m] /\ sharedRef[i] = m
    BY <1>1, <1>3 DEF MapsTo
  <2>2. base'[m] = base[m] /\ Live(m)'
    BY <2>1 DEF Live
  <2>3. slot'[i] = base'[m]
    BY <2>1, <2>2
  <2>4. sharedRef'[i] = m
    BY <1>1, <2>2, <2>3 DEF MapsTo
  <2>5. QED
    BY <2>1, <2>4
<1>4. QED
  BY <1>2, <1>3

\* An export that stays, or moves with the slot, keeps its reference.
LEMMA ExportKept ==
  ASSUME IInv, IInv', NEW i \in Instance,
         sharedRef'[i] = sharedRef[i],
         exported'[i] = Null <=> exported[i] = Null
  PROVE  sharedExport'[i] = sharedExport[i]
<1>1. MapsTo /\ MapsTo'
  BY MapsToLemma, MapsToNext
<1>2. QED
  BY <1>1 DEF MapsTo

\* The mapped variables are functions: to agree everywhere is to be equal.
LEMMA SameFunctions ==
  /\ (\A m \in Memory : sharedPages'[m] = sharedPages[m]) => sharedPages' = sharedPages
  /\ (\A m \in Memory : sharedLimit'[m] = sharedLimit[m]) => sharedLimit' = sharedLimit
  /\ (\A i \in Instance : sharedRef'[i] = sharedRef[i]) => sharedRef' = sharedRef
  /\ (\A i \in Instance : sharedExport'[i] = sharedExport[i]) => sharedExport' = sharedExport
BY DEF sharedPages, sharedLimit, sharedRef, sharedExport

\* To agree everywhere but at one instance is to be an EXCEPT.
LEMMA OneReferenceChanged ==
  ASSUME NEW i \in Instance, NEW v
  PROVE  /\ sharedRef'[i] = v /\ (\A j \in Instance \ {i} : sharedRef'[j] = sharedRef[j])
              => sharedRef' = [sharedRef EXCEPT ![i] = v]
         /\ sharedExport'[i] = v /\ (\A j \in Instance \ {i} : sharedExport'[j] = sharedExport[j])
              => sharedExport' = [sharedExport EXCEPT ![i] = v]
BY DEF sharedRef, sharedExport

\* A step that keeps the memories keeps their pages and limits.
LEMMA MemoriesKept ==
  ASSUME UNCHANGED <<base, size, maxSize>>
  PROVE  sharedPages' = sharedPages /\ sharedLimit' = sharedLimit
BY DEF sharedPages, sharedLimit, Live

\* A constructed memory is an allocated one.
LEMMA ConstructAllocates ==
  ASSUME IInv, NEW m \in Memory, NEW a \in Addr, NEW n \in Word, NEW x \in Word,
         NEW sites, n <= x, Construct(m, a, n, x, sites)
  PROVE  \E nn, xx \in Shared!Page : Shared!Allocate(m, nn, xx)
<1>1. a # Null /\ \A o \in Memory : Live(o)' <=> Live(o) \/ o = m
  BY NullAssumption DEF Construct, Live, IInv, TypeOK
<1>2. sharedPages' = [sharedPages EXCEPT ![m] = n]
  BY <1>1 DEF Construct, sharedPages, IInv, TypeOK
<1>3. sharedLimit' = [sharedLimit EXCEPT ![m] = x]
  BY <1>1 DEF Construct, sharedLimit, IInv, TypeOK
<1>4. ~Shared!Exists(m)
  BY DEF Shared!Exists, sharedPages, Construct
<1>5. Shared!Allocate(m, n, x)
  BY <1>2, <1>3, <1>4 DEF Shared!Allocate
<1>6. QED
  BY <1>5 DEF Shared!Page, Word

\* An unmapped memory is gone.
LEMMA UnmapFrees ==
  ASSUME IInv, NEW m \in Memory, Live(m), Unmap(m)
  PROVE  /\ Shared!Exists(m)
         /\ sharedPages' = [sharedPages EXCEPT ![m] = Null]
         /\ sharedLimit' = [sharedLimit EXCEPT ![m] = Null]
<1>1. MapsTo
  BY MapsToLemma
<1>2. \A o \in Memory : Live(o)' <=> Live(o) /\ o # m
  BY DEF Unmap, Live, IInv, TypeOK
<1>3. Shared!Exists(m)
  BY <1>1 DEF MapsTo, Shared!Exists
<1>4. QED
  BY <1>2, <1>3 DEF Unmap, sharedPages, sharedLimit, IInv, TypeOK

-----------------------------------------------------------------------------
(* One lemma for each operation.                                           *)

LEMMA HostConstructRefines ==
  ASSUME IInv, IInv', NEW m \in Memory, NEW a \in Addr, NEW n \in Word, NEW x \in Word,
         HostConstruct(m, a, n, x)
  PROVE  Shared!Next
<1> USE DEF HostConstruct, instVars
<1>1. \E nn, xx \in Shared!Page : Shared!Allocate(m, nn, xx)
  BY ConstructAllocates
<1>2. \A o \in Memory : Live(o) => base'[o] = base[o]
  BY DEF Construct, IInv, TypeOK
<1>3. sharedRef' = sharedRef
  BY <1>2, RefKept, SameFunctions
<1>4. sharedExport' = sharedExport
  BY <1>3, ExportKept, SameFunctions
<1>5. QED
  BY <1>1, <1>3, <1>4 DEF Shared!Next, Shared!Create

LEMMA HostDestroyRefines ==
  ASSUME IInv, IInv', NEW m \in Memory, HostDestroy(m)
  PROVE  Shared!Next
<1> USE DEF HostDestroy, instVars
<1>1. Live(m)
  BY DEF IInv, HostOwnsLive
<1>2. \A i \in Instance, o \in Memory : Live(o) /\ slot[i] = base[o] => base'[o] = base[o]
  BY DEF Unmap, IInv, TypeOK
<1>3. sharedRef' = sharedRef
  BY <1>2, RefKept, SameFunctions
<1>4. sharedExport' = sharedExport
  BY <1>3, ExportKept, SameFunctions
<1>5. MapsTo
  BY MapsToLemma
<1>6. Shared!Users(m) = {}
  BY <1>1, <1>5 DEF Shared!Users, MapsTo
<1>7. QED
  BY <1>1, <1>3, <1>4, <1>6, UnmapFrees DEF Shared!Next, Shared!Free

LEMMA TryImportRefines ==
  ASSUME IInv, IInv', NEW i \in Instance, NEW m \in Memory, TryImport(i, m)
  PROVE  Shared!Next
<1> USE DEF TryImport, BindImport
<1>1. MapsTo /\ MapsTo'
  BY MapsToLemma, MapsToNext
<1>2. Live(m)' /\ slot'[i] = base'[m]
  BY DEF Live, IInv, TypeOK
<1>3. sharedRef[i] = Null /\ sharedRef'[i] = m
  BY <1>1, <1>2 DEF MapsTo
<1>4. \A j \in Instance \ {i} : sharedRef'[j] = sharedRef[j]
  BY RefKept DEF IInv, TypeOK
<1>5. sharedRef' = [sharedRef EXCEPT ![i] = m]
  BY <1>3, <1>4, OneReferenceChanged
<1>6. exported[i] = Null /\ exported' = exported
  BY DEF IInv, Lifecycle
<1>7. sharedExport' = sharedExport
  <2>1. sharedExport[i] = Null /\ sharedExport'[i] = Null
    BY <1>1, <1>6 DEF MapsTo
  <2>2. \A j \in Instance \ {i} : sharedExport'[j] = sharedExport[j]
    BY <1>4, <1>6, ExportKept
  <2>3. QED
    BY <2>1, <2>2, SameFunctions
<1>8. Shared!Exists(m)
  BY <1>1 DEF MapsTo, Shared!Exists
<1>9. QED
  BY <1>3, <1>5, <1>7, <1>8, MemoriesKept DEF Shared!Next, Shared!Bind

LEMMA BuildDefiningRefines ==
  ASSUME IInv, IInv', NEW i \in Instance, NEW m \in Memory, NEW a \in Addr,
         NEW ok \in BOOLEAN, BuildDefining(i, m, a, ok)
  PROVE  Shared!Next
<1> USE DEF BuildDefining, Publish
<1>1. MapsTo /\ MapsTo'
  BY MapsToLemma, MapsToNext
<1>2. slot[i] = Null /\ exported[i] = Null
  BY DEF IInv, Lifecycle
<1>3. shape[i].min \in Word /\ shape[i].max \in Word /\ shape[i].min <= shape[i].max
  BY ShapeAssumption, ShapeTyped DEF IInv, TypeOK, ShapeType, NoShape, Word
<1>4. \E nn, xx \in Shared!Page : Shared!Allocate(m, nn, xx)
  BY <1>3, ConstructAllocates
<1>5. base'[m] = a /\ slot'[i] = a /\ Live(m)'
  BY NullAssumption DEF Construct, Live, IInv, TypeOK
<1>6. sharedRef[i] = Null /\ sharedRef'[i] = m
  BY <1>1, <1>2, <1>5 DEF MapsTo
<1>7. \A o \in Memory : Live(o) => base'[o] = base[o]
  BY DEF Construct, IInv, TypeOK
<1>8. \A j \in Instance \ {i} : sharedRef'[j] = sharedRef[j]
  BY <1>7, RefKept DEF IInv, TypeOK
<1>9. sharedRef' = [sharedRef EXCEPT ![i] = m]
  BY <1>6, <1>8, OneReferenceChanged
<1>10. \A j \in Instance \ {i} : sharedExport'[j] = sharedExport[j]
  BY <1>8, ExportKept DEF IInv, TypeOK
<1>11. sharedExport[i] = Null /\ sharedExport'[i] \in {Null, m}
  BY <1>1, <1>2, <1>6 DEF MapsTo
<1>12. sharedExport' \in {sharedExport, [sharedExport EXCEPT ![i] = m]}
  BY <1>10, <1>11, OneReferenceChanged, SameFunctions
<1>13. QED
  BY <1>4, <1>6, <1>9, <1>12 DEF Shared!Next, Shared!Define

LEMMA BuildImportingRefines ==
  ASSUME IInv, IInv', NEW i \in Instance, NEW ok \in BOOLEAN, BuildImporting(i, ok)
  PROVE  Shared!Next \/ UNCHANGED sharedVars
<1> USE DEF BuildImporting, Publish, memVars
<1>1. MapsTo /\ MapsTo'
  BY MapsToLemma, MapsToNext
<1>2. \A j \in Instance : sharedRef'[j] = sharedRef[j]
  BY RefKept
<1>3. sharedRef' = sharedRef
  BY <1>2, SameFunctions
<1>4. CASE exported' = exported
  BY <1>4, Unseen
<1>5. CASE exported' = [exported EXCEPT ![i] = slot[i]] /\ slot[i] # Null
  <2>1. exported'[i] = slot[i] /\ \A j \in Instance \ {i} : exported'[j] = exported[j]
    BY <1>5 DEF IInv, TypeOK
  <2>2. sharedExport'[i] = sharedRef[i] /\ sharedRef[i] # Null
    BY <1>1, <1>2, <1>5, <2>1, NullAssumption DEF MapsTo
  <2>3. \A j \in Instance \ {i} : sharedExport'[j] = sharedExport[j]
    BY <1>2, <2>1, ExportKept
  <2>4. sharedExport' = [sharedExport EXCEPT ![i] = sharedRef[i]]
    BY <2>2, <2>3, OneReferenceChanged
  <2>5. QED
    BY <1>3, <2>2, <2>4, MemoriesKept DEF Shared!Next, Shared!Publish
<1>6. CASE exported' = [exported EXCEPT ![i] = slot[i]] /\ slot[i] = Null
  <2>1. exported[i] = Null
    BY DEF IInv, Lifecycle
  <2>2. exported' = exported
    BY <1>6, <2>1 DEF IInv, TypeOK
  <2>3. QED
    BY <2>2, Unseen
<1>7. QED
  BY <1>4, <1>5, <1>6

\* A destroyed instance refers to nothing; the others refer to what they did,
\* as long as no memory of theirs went with it.
LEMMA ForgetReleases ==
  ASSUME IInv, IInv', NEW i \in Instance, Forget(i),
         \A j \in Instance \ {i}, m \in Memory :
           Live(m) /\ slot[j] = base[m] => base'[m] = base[m]
  PROVE  /\ sharedRef' = [sharedRef EXCEPT ![i] = Null]
         /\ sharedExport' = [sharedExport EXCEPT ![i] = Null]
<1>1. MapsTo /\ MapsTo'
  BY MapsToLemma, MapsToNext
<1>2. slot'[i] = Null /\ exported'[i] = Null
  BY ForgetKeeps
<1>3. \A j \in Instance \ {i} : slot'[j] = slot[j] /\ exported'[j] = exported[j]
  BY ForgetKeeps
<1>4. \A j \in Instance \ {i} : sharedRef'[j] = sharedRef[j]
  BY <1>3, RefKept
<1>5. \A j \in Instance \ {i} : sharedExport'[j] = sharedExport[j]
  BY <1>3, <1>4, ExportKept
<1>6. sharedRef'[i] = Null /\ sharedExport'[i] = Null
  BY <1>1, <1>2 DEF MapsTo
<1>7. QED
  BY <1>4, <1>5, <1>6, OneReferenceChanged

LEMMA DestroyRefines ==
  ASSUME IInv, IInv', NEW i \in Instance, Destroy(i)
  PROVE  Shared!Next
<1>1. CASE DestroyUnbound(i)
  <2>1. UNCHANGED <<base, size, maxSize>> /\ Forget(i)
    BY <1>1 DEF DestroyUnbound, memVars
  <2>2. QED
    BY <2>1, ForgetReleases, MemoriesKept DEF Shared!Next, Shared!Release
<1>2. CASE DestroyImporter(i)
  <2>1. UNCHANGED <<base, size, maxSize>> /\ Forget(i)
    BY <1>2 DEF DestroyImporter
  <2>2. QED
    BY <2>1, ForgetReleases, MemoriesKept DEF Shared!Next, Shared!Release
<1>3. CASE DestroyDefiner(i)
  <2>1. PICK m \in Memory : m = At(slot[i]) /\ base[m] = slot[i] /\ Live(m)
    BY <1>3, AtIsBase DEF DestroyDefiner, IInv, AddressesCurrent
  <2>2. Unmap(m) /\ Forget(i) /\ \A j \in Instance \ {i} : slot[j] # slot[i]
    BY <1>3, <2>1 DEF DestroyDefiner
  <2>3. \A o \in Memory \ {m} : base'[o] = base[o]
    BY <2>2 DEF Unmap, IInv, TypeOK
  <2>4. /\ sharedRef' = [sharedRef EXCEPT ![i] = Null]
        /\ sharedExport' = [sharedExport EXCEPT ![i] = Null]
    BY <2>1, <2>2, <2>3, ForgetReleases
  <2>5. MapsTo
    BY MapsToLemma
  <2>6. Shared!Users(m) = {i}
    BY <2>1, <2>2, <2>5 DEF Shared!Users, MapsTo
  <2>7. QED
    BY <2>1, <2>2, <2>4, <2>6, UnmapFrees DEF Shared!Next, Shared!Release
<1>4. QED
  BY <1>1, <1>2, <1>3 DEF Destroy

\* The heart of it: the memory moves, every address of it moves along, and no
\* reference does.
LEMMA GrowDoneRefines ==
  ASSUME IInv, IInv', NEW m \in Memory, Live(m), NEW delta \in Word, GrowDone(m, delta)
  PROVE  Shared!Next \/ UNCHANGED sharedVars
<1> USE DEF GrowDone
<1>1. MapsTo /\ MapsTo'
  BY MapsToLemma, MapsToNext
<1>2. PICK new \in MremapTo(m, delta) :
        /\ base' = [base EXCEPT ![m] = new]
        /\ slot' = Replaced(slot, m, base[m], new)
        /\ exported' = Replaced(exported, m, base[m], new)
  OBVIOUS
<1>3. new # Null
  BY NullAssumption DEF MremapTo, FreeAddr, Live
<1>4. base'[m] = new /\ \A o \in Memory \ {m} : base'[o] = base[o]
  BY <1>2 DEF IInv, TypeOK
<1>5. \A i \in Instance :
        /\ slot'[i] = IF slot[i] = base[m] THEN new ELSE slot[i]
        /\ exported'[i] = IF exported[i] = base[m] THEN new ELSE exported[i]
  BY <1>2, ReplacedAll
<1>6. \A o \in Memory : Live(o)' <=> Live(o)
  BY <1>3, <1>4 DEF Live
<1>7. ASSUME NEW i \in Instance
      PROVE  sharedRef'[i] = sharedRef[i]
  <2>1. CASE slot[i] = Null
    BY <1>1, <1>5, <2>1 DEF MapsTo, Live
  <2>2. CASE slot[i] = base[m]
    <3>1. slot'[i] = base'[m] /\ Live(m)'
      BY <1>4, <1>5, <1>6, <2>2
    <3>2. QED
      BY <1>1, <2>2, <3>1 DEF MapsTo
  <2>3. CASE slot[i] # Null /\ slot[i] # base[m]
    <3>1. PICK o \in Memory : Live(o) /\ slot[i] = base[o] /\ sharedRef[i] = o
      BY <1>1, <2>3 DEF MapsTo
    <3>2. o # m
      BY <2>3, <3>1
    <3>3. slot'[i] = base'[o] /\ Live(o)'
      BY <1>4, <1>5, <1>6, <2>3, <3>1, <3>2
    <3>4. QED
      BY <1>1, <3>1, <3>3 DEF MapsTo
  <2>4. QED
    BY <2>1, <2>2, <2>3
<1>8. \A i \in Instance : exported'[i] = Null <=> exported[i] = Null
  BY <1>3, <1>5 DEF Live
<1>9. sharedRef' = sharedRef /\ sharedExport' = sharedExport
  BY <1>7, <1>8, ExportKept, SameFunctions
<1>10. sharedLimit' = sharedLimit
  BY <1>6 DEF sharedLimit
<1>11. size[m] \in Nat /\ delta \in Nat /\ maxSize[m] \in Nat
  BY WordAssumption DEF IInv, TypeOK, Word
<1>12. size' = [size EXCEPT ![m] = size[m] + delta] /\ size[m] + delta \in Word
       /\ size[m] + delta <= maxSize[m]
  BY GrownSize DEF LimitAdmits, IInv
<1>13. sharedPages' = [sharedPages EXCEPT ![m] = size[m] + delta]
  BY <1>6, <1>12 DEF sharedPages, IInv, TypeOK
<1>14. sharedPages[m] = size[m] /\ sharedLimit[m] = maxSize[m] /\ Shared!Exists(m)
  BY <1>1 DEF MapsTo, Shared!Exists
<1>15. CASE delta = 0
  <2>1. size[m] + delta = size[m]
    BY <1>11, <1>15
  <2>2. sharedPages' = sharedPages
    BY <1>13, <1>14, <2>1 DEF sharedPages
  <2>3. QED
    BY <1>9, <1>10, <2>2 DEF sharedVars
<1>16. CASE delta # 0
  <2>1. sharedPages[m] < size[m] + delta
    BY <1>11, <1>14, <1>16
  <2>2. size[m] + delta <= sharedLimit[m] /\ size[m] + delta \in Shared!Page
    BY <1>12, <1>14 DEF Shared!Page, Word
  <2>3. Shared!Grow(m)
    BY <1>9, <1>10, <1>13, <1>14, <2>1, <2>2 DEF Shared!Grow
  <2>4. QED
    BY <2>3 DEF Shared!Next
<1>17. QED
  BY <1>15, <1>16

-----------------------------------------------------------------------------
LEMMA NextRefines == IInv /\ IInv' /\ [Next]_vars => Shared!Next \/ UNCHANGED sharedVars
<1> SUFFICES ASSUME IInv, IInv', [Next]_vars
             PROVE  Shared!Next \/ UNCHANGED sharedVars
  OBVIOUS
<1>1. ASSUME NEW delta \in Word,
             \/ \E i \in Instance : WasmGrow(i, delta) \/ ExportGrow(i, delta)
             \/ \E m \in Memory : HostGrow(m, delta)
      PROVE  Shared!Next \/ UNCHANGED sharedVars
  <2>1. PICK m \in Memory : Live(m) /\ Grow(m, delta)
    BY <1>1, GrowCalls
  <2>2. CASE GrowRefused
    BY <2>2, Unseen DEF GrowRefused, memVars, instVars
  <2>3. CASE GrowDone(m, delta)
    BY <2>1, <2>3, GrowDoneRefines
  <2>4. QED
    BY <2>1, <2>2, <2>3 DEF Grow
<1>2. ASSUME NEW m \in Memory, NEW a \in Addr, NEW n \in Word, NEW x \in Word,
             HostConstruct(m, a, n, x)
      PROVE  Shared!Next
  BY <1>2, HostConstructRefines
<1>3. ASSUME NEW m \in Memory, HostDestroy(m) PROVE Shared!Next
  BY <1>3, HostDestroyRefines
<1>4. ASSUME NEW i \in Instance, NEW s \in Shape, Open(i, s) PROVE UNCHANGED sharedVars
  BY <1>4, Unseen DEF Open, memVars
<1>5. ASSUME NEW i \in Instance, NEW m \in Memory, TryImport(i, m) PROVE Shared!Next
  BY <1>5, TryImportRefines
<1>6. ASSUME NEW i \in Instance, NEW m \in Memory, NEW a \in Addr, NEW ok \in BOOLEAN,
             BuildDefining(i, m, a, ok)
      PROVE  Shared!Next
  BY <1>6, BuildDefiningRefines
<1>7. ASSUME NEW i \in Instance, NEW ok \in BOOLEAN, BuildImporting(i, ok)
      PROVE  Shared!Next \/ UNCHANGED sharedVars
  BY <1>7, BuildImportingRefines
<1>8. ASSUME NEW i \in Instance, Destroy(i) PROVE Shared!Next
  BY <1>8, DestroyRefines
<1>9. CASE UNCHANGED vars
  BY <1>9, Unseen DEF vars, memVars, instVars
<1>10. QED
  BY <1>1, <1>2, <1>3, <1>4, <1>5, <1>6, <1>7, <1>8, <1>9 DEF Next

\* Instances and exports share memory objects by reference: MemoryRuntime, with
\* addresses that move and use sites that chase them, implements SharedMemory.
THEOREM Refines == Spec => SharesByReference
<1>1. Init => Shared!Init
  BY InitRefines
<1>2. IInv /\ IInv' /\ [Next]_vars => [Shared!Next]_(Shared!vars)
  BY NextRefines DEF sharedVars, Shared!vars
<1>3. QED
  BY <1>1, <1>2, Inductive, PTL DEF Spec, SharesByReference, Shared!Spec

=============================================================================
