---------------------------- MODULE SharedMemory ----------------------------
(***************************************************************************)
(* What the SableWASM runtime promises about linear memories, with no word *)
(* of how: an instance and its export table refer to memory OBJECTS, every *)
(* holder of a memory sees the same object however often it has grown, and *)
(* a memory outlives everything that refers to it.  There are no           *)
(* addresses and no use-site lists here; MemoryRuntime has both and is     *)
(* shown to implement this specification.                                  *)
(***************************************************************************)
EXTENDS Integers

CONSTANTS
  Memory,    \* WebAssemblyMemory objects
  Instance,  \* WebAssemblyInstance objects
  None,      \* no memory
  WordMax    \* largest page count a 32-bit word holds

VARIABLES
  pages,   \* pages[m]: the size of memory m, or None while m does not exist
  limit,   \* limit[m]: the most pages m may ever have, or None
  ref,     \* ref[i]: the memory instance i runs on
  export   \* export[i]: the memory instance i exports

vars == <<pages, limit, ref, export>>

Page == 0 .. WordMax

Exists(m) == pages[m] # None

Users(m) == {i \in Instance : ref[i] = m}

Init ==
  /\ pages = [m \in Memory |-> None]
  /\ limit = [m \in Memory |-> None]
  /\ ref = [i \in Instance |-> None]
  /\ export = [i \in Instance |-> None]

Allocate(m, n, x) ==
  /\ ~Exists(m)
  /\ n <= x
  /\ pages' = [pages EXCEPT ![m] = n]
  /\ limit' = [limit EXCEPT ![m] = x]

\* A memory made by the host.
Create(m) ==
  /\ \E n, x \in Page : Allocate(m, n, x)
  /\ UNCHANGED <<ref, export>>

\* An existing memory is bound to the import of an instance that has none.
Bind(i, m) ==
  /\ ref[i] = None
  /\ Exists(m)
  /\ ref' = [ref EXCEPT ![i] = m]
  /\ UNCHANGED <<pages, limit, export>>

\* A memory of an instance's own.
Define(i, m) ==
  /\ ref[i] = None
  /\ \E n, x \in Page : Allocate(m, n, x)
  /\ ref' = [ref EXCEPT ![i] = m]
  /\ export' \in {export, [export EXCEPT ![i] = m]}

\* An instance starts to export the memory it runs on.
Publish(i) ==
  /\ ref[i] # None
  /\ export' = [export EXCEPT ![i] = ref[i]]
  /\ UNCHANGED <<pages, limit, ref>>

\* Growth changes one memory's size and nothing else: no reference moves.
Grow(m) ==
  /\ Exists(m)
  /\ \E n \in Page :
       /\ pages[m] < n
       /\ n <= limit[m]
       /\ pages' = [pages EXCEPT ![m] = n]
  /\ UNCHANGED <<limit, ref, export>>

\* A memory goes only when no instance refers to it.
Free(m) ==
  /\ Exists(m)
  /\ Users(m) = {}
  /\ pages' = [pages EXCEPT ![m] = None]
  /\ limit' = [limit EXCEPT ![m] = None]
  /\ UNCHANGED <<ref, export>>

\* An instance goes, alone or with the memory nobody else refers to.
Release(i) ==
  /\ ref' = [ref EXCEPT ![i] = None]
  /\ export' = [export EXCEPT ![i] = None]
  /\ \/ UNCHANGED <<pages, limit>>
     \/ \E m \in Memory :
          /\ Exists(m)
          /\ Users(m) = {i}
          /\ pages' = [pages EXCEPT ![m] = None]
          /\ limit' = [limit EXCEPT ![m] = None]

Next ==
  \/ \E m \in Memory : Create(m) \/ Grow(m) \/ Free(m)
  \/ \E i \in Instance : Publish(i) \/ Release(i)
  \/ \E i \in Instance, m \in Memory : Bind(i, m) \/ Define(i, m)

Spec == Init /\ [][Next]_vars

=============================================================================
