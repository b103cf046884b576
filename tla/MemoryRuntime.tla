---------------------------- MODULE MemoryRuntime ----------------------------
(***************************************************************************)
(* Linear memories, the instances linked to them and the host that links   *)
(* them: WebAssemblyMemory.cc and the memory half of                       *)
(* WebAssemblyInstance.cc.                                                 *)
(*                                                                         *)
(* A memory is known to compiled code by its BASE ADDRESS only.  Growing   *)
(* may move it (mremap with MREMAP_MAYMOVE), so each memory lists the      *)
(* instances that hold its address (UseSites) and rewrites their slot and  *)
(* their export entry after the move.  A slot that is missed points at     *)
(* unmapped pages; an entry too many makes an assertion fail.              *)
(*                                                                         *)
(* Validation admits at most one memory per module (Validation.cc:1603),   *)
(* and a MIR memory has at most one export name, so an instance has one    *)
(* slot and one export entry.  The order of a UseSites list decides        *)
(* nothing, so the list is the number of times it holds each instance.     *)
(* The operations run to completion on one thread: one action each.        *)
(***************************************************************************)
EXTENDS Integers

CONSTANTS
  Memory,    \* the WebAssemblyMemory objects (heap cells, reused when freed)
  Instance,  \* the WebAssemblyInstance objects (heap cells, reused when freed)
  Addr,      \* the base addresses mmap and mremap hand out
  Shape,     \* the memory declarations of the libraries there are
  Null,      \* nullptr
  WordMax,   \* 2^32 - 1: the largest std::uint32_t, and NO_MAXIMUM
  MapLimit   \* the most pages the kernel maps at once

\* A module's memory declaration.
ShapeType ==
  [kind : {"none", "import", "define"}, min : 0 .. WordMax, max : 0 .. WordMax,
   exports : BOOLEAN]

\* User space is 47 bits and a page 64 KiB: no mapping reaches 2^31 pages.
ASSUME WordAssumption ==
  /\ WordMax \in Nat
  /\ MapLimit \in Nat
  /\ 2 * MapLimit <= WordMax + 1

ASSUME NullAssumption == Null \notin Addr /\ Null \notin Memory /\ Null \notin Nat

\* The validator has checked the limits of every declaration.
ASSUME ShapeAssumption ==
  /\ Shape \subseteq ShapeType
  /\ \A s \in Shape : s.kind = "define" => s.min <= s.max /\ s.min <= MapLimit

Word == 0 .. WordMax
NO_MAXIMUM == WordMax
GrowFailedUnconverted == -1
GrowFailed == WordMax
Wrap(n) == n % (WordMax + 1)

NoShape == [kind |-> "none", min |-> 0, max |-> 0, exports |-> FALSE]

VARIABLES
  base,      \* base[m]: WebAssemblyMemory::Memory, Null when m is not allocated
  size,      \* MemoryMetadata::Size
  maxSize,   \* MemoryMetadata::Max
  useSites,  \* useSites[m][i]: how often m's UseSites holds i
  hostOwned, \* the memories the host constructed and must destroy
  phase,     \* where each instance is in its life
  shape,     \* the declarations of the library each instance was opened from
  slot,      \* the memory slot of each instance's Storage
  exported,  \* the entry of each instance's ExportedMemories
  result,    \* what the last grow returned, Null after any other operation
  aborted    \* the assertion that ended the process, "no" while it runs

memVars == <<base, size, maxSize, useSites>>
instVars == <<phase, shape, slot, exported>>
vars == <<memVars, hostOwned, instVars, result, aborted>>

Phase == {"absent", "linking", "built", "failed"}

Outcome ==
  {"no", "use_sites_not_empty", "use_site_not_found", "not_replaced"}

TypeOK ==
  /\ base \in [Memory -> Addr \cup {Null}]
  /\ size \in [Memory -> Word]
  /\ maxSize \in [Memory -> Word]
  /\ useSites \in [Memory -> [Instance -> Nat]]
  /\ hostOwned \in SUBSET Memory
  /\ phase \in [Instance -> Phase]
  /\ shape \in [Instance -> Shape \cup {NoShape}]
  /\ slot \in [Instance -> Addr \cup {Null}]
  /\ exported \in [Instance -> Addr \cup {Null}]
  /\ result \in Word \cup {Null}
  /\ aborted \in Outcome

-----------------------------------------------------------------------------
Live(m) == base[m] # Null
FreeAddr == {a \in Addr : \A m \in Memory : base[m] # a}

\* fromInstancePtr: the object whose metadata page precedes address a.
IsBase(a) == a # Null /\ \E m \in Memory : base[m] = a
At(a) == CHOOSE m \in Memory : base[m] = a

Running == aborted = "no"

\* assert(cond): the process ends with the step in which cond is false.
AssertThat(cond, name) == aborted' = IF cond THEN "no" ELSE name

\* The forward_list of a memory's UseSites.
NoUseSites == [i \in Instance |-> 0]
NotAdded(sites, i) == sites
AddUseSite(sites, i) == [sites EXCEPT ![i] = @ + 1]
NotRemoved(sites, i) == sites
RemoveUseSite(sites, i) == [sites EXCEPT ![i] = @ - 1]

Init ==
  /\ base = [m \in Memory |-> Null]
  /\ size = [m \in Memory |-> 0]
  /\ maxSize = [m \in Memory |-> 0]
  /\ useSites = [m \in Memory |-> NoUseSites]
  /\ hostOwned = {}
  /\ phase = [i \in Instance |-> "absent"]
  /\ shape = [i \in Instance |-> NoShape]
  /\ slot = [i \in Instance |-> Null]
  /\ exported = [i \in Instance |-> Null]
  /\ result = Null
  /\ aborted = "no"

\* WebAssemblyMemory(n, x), mapped at a, its UseSites as given.
Construct(m, a, n, x, sites) ==
  /\ ~Live(m)
  /\ a \in FreeAddr
  /\ n <= MapLimit
  /\ base' = [base EXCEPT ![m] = a]
  /\ size' = [size EXCEPT ![m] = n]
  /\ maxSize' = [maxSize EXCEPT ![m] = x]
  /\ useSites' = [useSites EXCEPT ![m] = sites]

\* ~WebAssemblyMemory: the pages go back to the kernel.
Unmap(m) ==
  /\ base' = [base EXCEPT ![m] = Null]
  /\ size' = [size EXCEPT ![m] = 0]
  /\ maxSize' = [maxSize EXCEPT ![m] = 0]
  /\ useSites' = [useSites EXCEPT ![m] = NoUseSites]

\* The host constructs a memory to import into instances.
HostConstruct(m, a, n, x) ==
  /\ Running
  /\ n <= x
  /\ Construct(m, a, n, x, NoUseSites)
  /\ hostOwned' = hostOwned \cup {m}
  /\ result' = Null
  /\ UNCHANGED <<instVars, aborted>>

\* The host's memory goes out of scope.  The host keeps a memory for as long
\* as an instance is bound to it.
HostDestroy(m) ==
  /\ Running
  /\ m \in hostOwned
  /\ \A i \in Instance : slot[i] # base[m]
  /\ AssertThat(useSites[m] = NoUseSites, "use_sites_not_empty")
  /\ Unmap(m)
  /\ hostOwned' = hostOwned \ {m}
  /\ result' = Null
  /\ UNCHANGED instVars

-----------------------------------------------------------------------------
\* WebAssemblyInstanceBuilder(Path): every slot starts as nullptr.
Open(i, s) ==
  /\ Running
  /\ phase[i] = "absent"
  /\ phase' = [phase EXCEPT ![i] = "linking"]
  /\ shape' = [shape EXCEPT ![i] = s]
  /\ result' = Null
  /\ UNCHANGED <<memVars, hostOwned, slot, exported, aborted>>

\* The body of tryImport once a descriptor with the names given is found.  A
\* call that finds none, or whose limits do not fit, changes nothing.
BindImport(i, m) ==
  /\ Running
  /\ phase[i] = "linking"
  /\ shape[i].kind = "import"
  /\ Live(m)
  /\ size[m] >= shape[i].min
  /\ maxSize[m] <= shape[i].max
  /\ useSites' = [useSites EXCEPT ![m] = AddUseSite(@, i)]
  /\ slot' = [slot EXCEPT ![i] = base[m]]
  /\ result' = Null
  /\ UNCHANGED <<base, size, maxSize, hostOwned, phase, shape, exported, aborted>>

\* The host imports into each slot once.
TryImport(i, m) ==
  /\ slot[i] = Null
  /\ BindImport(i, m)

\* The export loop of Build: nothing is published when Build throws.
Publish(i, a, ok) ==
  /\ phase' = [phase EXCEPT ![i] = IF ok THEN "built" ELSE "failed"]
  /\ exported' = IF ok /\ shape[i].exports
                 THEN [exported EXCEPT ![i] = a] ELSE exported
  /\ result' = Null
  /\ UNCHANGED <<hostOwned, shape, aborted>>

\* Build of a module that defines its memory.  The memory exists and is bound
\* before the initializer runs, and stays when the initializer, or a check
\* for a missing import after it, throws (ok = FALSE).
BuildDefining(i, m, a, ok) ==
  /\ Running
  /\ phase[i] = "linking"
  /\ shape[i].kind = "define"
  /\ Construct(m, a, shape[i].min, shape[i].max, AddUseSite(NoUseSites, i))
  /\ slot' = [slot EXCEPT ![i] = a]
  /\ Publish(i, a, ok)

\* Build of a module that defines none; an unbound import makes it throw.
BuildImporting(i, ok) ==
  /\ Running
  /\ phase[i] = "linking"
  /\ shape[i].kind # "define"
  /\ ok => (shape[i].kind = "import" => slot[i] # Null)
  /\ Publish(i, slot[i], ok)
  /\ UNCHANGED <<memVars, slot>>

\* ~WebAssemblyInstance gives its storage back.
Forget(i) ==
  /\ phase' = [phase EXCEPT ![i] = "absent"]
  /\ shape' = [shape EXCEPT ![i] = NoShape]
  /\ slot' = [slot EXCEPT ![i] = Null]
  /\ exported' = [exported EXCEPT ![i] = Null]
  /\ result' = Null
  /\ UNCHANGED hostOwned

DestroyLeaking(i) ==
  /\ Running
  /\ phase[i] # "absent"
  /\ slot[i] = Null \/ phase[i] = "failed"
  /\ Forget(i)
  /\ UNCHANGED <<memVars, aborted>>

\* An instance that never got a memory.
DestroyUnbound(i) ==
  /\ Running
  /\ phase[i] # "absent"
  /\ slot[i] = Null
  /\ Forget(i)
  /\ UNCHANGED <<memVars, aborted>>

\* An instance on an imported memory takes its use site with it.
DestroyImporter(i) ==
  /\ Running
  /\ phase[i] # "absent"
  /\ shape[i].kind = "import"
  /\ slot[i] # Null
  /\ LET m == At(slot[i])
     IN  /\ AssertThat(useSites[m][i] > 0, "use_site_not_found")
         /\ useSites' = [useSites EXCEPT ![m] = RemoveUseSite(@, i)]
  /\ Forget(i)
  /\ UNCHANGED <<base, size, maxSize>>

\* An instance that defines its memory removes its use site and deletes the
\* memory.  The host has destroyed what was bound to it before.
DestroyDefiner(i) ==
  /\ Running
  /\ phase[i] # "absent"
  /\ shape[i].kind = "define"
  /\ slot[i] # Null
  /\ \A j \in Instance \ {i} : slot[j] # slot[i]
  /\ LET m == At(slot[i])
     IN  /\ AssertThat(RemoveUseSite(useSites[m], i) = NoUseSites, "use_sites_not_empty")
         /\ Unmap(m)
  /\ Forget(i)

Destroy(i) == DestroyUnbound(i) \/ DestroyImporter(i) \/ DestroyDefiner(i)

-----------------------------------------------------------------------------
NotReplaced(f, m, old, new) == f

ReplacedWhereBuilt(f, m, old, new) ==
  [i \in Instance |->
     IF useSites[m][i] > 0 /\ f[i] = old /\ phase[i] # "linking" THEN new ELSE f[i]]

\* WebAssemblyInstance::replace rewrites a slot and an export entry that hold
\* Old, and asserts that it found one; grow calls it once per use site.
Replaced(f, m, old, new) ==
  [i \in Instance |->
     IF useSites[m][i] > 0 /\ f[i] = old THEN new ELSE f[i]]

EveryReplaceFinds(m, old, new) ==
  \A i \in Instance :
    useSites[m][i] > 0 =>
      /\ slot[i] = old \/ exported[i] = old
      /\ useSites[m][i] = 1 \/ new = old

MremapToWrapped(m, delta) ==
  IF delta = 0 THEN {base[m]} ELSE {base[m]} \cup FreeAddr

\* mremap: it fails, or the mapping grows where it is, or (only when it is
\* to be longer) moves to an address of the kernel's choice.
MremapTo(m, delta) ==
  IF size[m] + delta > MapLimit THEN {}
  ELSE IF delta = 0 THEN {base[m]} ELSE {base[m]} \cup FreeAddr

LimitUnchecked(m, delta) == TRUE

\* WebAssemblyMemory::grow: the limit test is in 32-bit arithmetic.
LimitAdmits(m, delta) == Wrap(size[m] + delta) <= maxSize[m]

\* Past the limit, or refused by mremap, which may fail for any delta.
GrowRefused ==
  /\ result' = GrowFailed
  /\ UNCHANGED <<memVars, hostOwned, instVars, aborted>>

GrowDone(m, delta) ==
  /\ LimitAdmits(m, delta)
  /\ \E new \in MremapTo(m, delta) :
       /\ base' = [base EXCEPT ![m] = new]
       /\ slot' = Replaced(slot, m, base[m], new)
       /\ exported' = Replaced(exported, m, base[m], new)
       /\ AssertThat(EveryReplaceFinds(m, base[m], new), "not_replaced")
  /\ size' = [size EXCEPT ![m] = Wrap(@ + delta)]
  /\ result' = size[m]
  /\ UNCHANGED <<maxSize, useSites, hostOwned, phase, shape>>

Grow(m, delta) == GrowRefused \/ GrowDone(m, delta)

\* memory.grow in compiled code: the address in the instance's own slot.
WasmGrow(i, delta) ==
  /\ Running
  /\ phase[i] = "built"
  /\ slot[i] # Null
  /\ Grow(At(slot[i]), delta)

\* The host grows what getMemory(Name) gives it: the address in the export.
ExportGrow(i, delta) ==
  /\ Running
  /\ phase[i] = "built"
  /\ exported[i] # Null
  /\ Grow(At(exported[i]), delta)

\* The host grows a memory it constructed.
HostGrow(m, delta) ==
  /\ Running
  /\ m \in hostOwned
  /\ Grow(m, delta)

-----------------------------------------------------------------------------
Next ==
  \/ \E m \in Memory, a \in Addr, n, x \in Word : HostConstruct(m, a, n, x)
  \/ \E m \in Memory : HostDestroy(m)
  \/ \E i \in Instance, s \in Shape : Open(i, s)
  \/ \E i \in Instance, m \in Memory : TryImport(i, m)
  \/ \E i \in Instance, m \in Memory, a \in Addr, ok \in BOOLEAN :
       BuildDefining(i, m, a, ok)
  \/ \E i \in Instance, ok \in BOOLEAN : BuildImporting(i, ok)
  \/ \E i \in Instance : Destroy(i)
  \/ \E i \in Instance, delta \in Word : WasmGrow(i, delta) \/ ExportGrow(i, delta)
  \/ \E m \in Memory, delta \in Word : HostGrow(m, delta)

Spec == Init /\ [][Next]_vars

-----------------------------------------------------------------------------
(* What must hold.                                                         *)

\* No assertion about use sites fails, whatever the host links, grows and
\* destroys, in whatever order (WebAssemblyMemory.cc:70, :100 and
\* WebAssemblyInstance.cc:490).
NeverAborts == Running

\* A memory lists exactly the instances whose slot holds its address, each
\* once: grow has a slot to rewrite at every use site, and misses none.
UseSitesExact ==
  \A m \in Memory, i \in Instance :
    useSites[m][i] = IF Live(m) /\ slot[i] = base[m] THEN 1 ELSE 0

\* The address compiled code loads from its instance, and the one getMemory
\* hands to the host, is the present base of a memory that exists, after any
\* number of moves.
AddressesCurrent ==
  \A i \in Instance :
    /\ slot[i] # Null => IsBase(slot[i])
    /\ exported[i] # Null => exported[i] = slot[i]

\* What tryImport checked once stays true: a bound memory has at least the
\* pages the module declared and will never have more than it allows.
LimitsHold ==
  \A i \in Instance, m \in Memory :
    Live(m) /\ slot[i] = base[m] =>
      /\ shape[i].min <= size[m]
      /\ size[m] <= maxSize[m]
      /\ maxSize[m] <= shape[i].max

\* Every memory has exactly one party that will unmap it: the host that
\* constructed it or the one instance that defines it, also when the Build of
\* that instance threw.
Defines(i, m) == shape[i].kind = "define" /\ slot[i] = base[m]

OneOwner ==
  \A m \in Memory :
    Live(m) =>
      /\ m \in hostOwned => \A i \in Instance : ~Defines(i, m)
      /\ m \notin hostOwned => \E i \in Instance : Defines(i, m)
      /\ \A i, j \in Instance : Defines(i, m) /\ Defines(j, m) => i = j

\* A memory changes size only by a grow that answers the size before it, makes
\* it larger and keeps it within its maximum; one memory at a time.  The limit
\* test wraps at 2^32: it is mremap that refuses a sum that wrapped.
GrowIsHonest ==
  [][\A m \in Memory :
       Live(m) /\ Live(m)' /\ size'[m] # size[m] =>
         /\ result' = size[m]
         /\ size'[m] > size[m]
         /\ size'[m] <= maxSize[m]
         /\ \A o \in Memory \ {m} : size'[o] = size[o] /\ base'[o] = base[o]]_vars

\* Instances and exports share memory objects, by reference: the promise of
\* SharedMemory, with an address standing for the memory that has it.
RefOf(a) == IF IsBase(a) THEN At(a) ELSE Null

sharedPages == [m \in Memory |-> IF Live(m) THEN size[m] ELSE Null]
sharedLimit == [m \in Memory |-> IF Live(m) THEN maxSize[m] ELSE Null]
sharedRef == [i \in Instance |-> RefOf(slot[i])]
sharedExport == [i \in Instance |-> RefOf(exported[i])]

Shared == INSTANCE SharedMemory WITH
  None <- Null,
  pages <- sharedPages, limit <- sharedLimit, ref <- sharedRef, export <- sharedExport

SharesByReference == Shared!Spec

=============================================================================
