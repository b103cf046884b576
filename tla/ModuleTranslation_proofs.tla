----------------------- MODULE ModuleTranslation_proofs -----------------------
(***************************************************************************)
(* A module that validate accepts is sound in every part, and what it blames  *)
(* is not (VerdictAlwaysSound); when the layout is done, every entity of MIR   *)
(* is the one its index means (SpacesAlwaysAgree).                             *)
(*                                                                           *)
(* Both compare loops with descriptions that know no order, so the loops come   *)
(* first, each as the function of its iterations: the import of a kind with     *)
(* the n-th rank is the n-th that ModuleView collects, the last export of an    *)
(* entity names it, and a constant expression is accepted exactly if it is one  *)
(* constant instruction.  Then check after check, and step after step of the     *)
(* layout, which adds entities in the order of the view and touches none again. *)
(***************************************************************************)
EXTENDS ModuleTranslation, FiniteInduction

-----------------------------------------------------------------------------
(***************************************************************************)
(* The use lists of the entities: that building keeps them exact, and that    *)
(* a destructor which may be asked leaves them exact, in any graph.            *)
(*                                                                           *)
(* While a destructor runs, a node has given back some of its references that   *)
(* are still there.  So the lists are compared (Listed) not with the references  *)
(* but with those that are held, in which a reference that was given back is      *)
(* null; every loop of MIRModule then takes up or gives back one at a time         *)
(* (TakenUp, GivenBack).                                                        *)
(***************************************************************************)
-----------------------------------------------------------------------------
(* A graph of the nodes N whose use lists are those of the references held.    *)
Formed(G) == G = [refs |-> G.refs, uses |-> G.uses, owned |-> G.owned, info |-> G.info, fault |-> G.fault]
Listed(G, N, held) ==
  /\ Formed(G)
  /\ Nil \notin N
  /\ G.uses \in [N -> Seq(N)]
  /\ held \in [N -> Seq(N \cup {Nil})]
  /\ \A n, u \in N : Times(G.uses[n], u) = Times(held[u], n)
Relinked(G, refs, uses) ==
  [refs |-> refs, uses |-> uses, owned |-> G.owned, info |-> G.info, fault |-> G.fault]
SameRest(G, H) == H.owned = G.owned /\ H.info = G.info /\ H.fault = G.fault

LEMMA RelinkedIs ==
  ASSUME NEW G, NEW refs, NEW uses
  PROVE  LET H == Relinked(G, refs, uses) IN
         Formed(H) /\ H.refs = refs /\ H.uses = uses /\ SameRest(G, H)
<1> DEFINE H == Relinked(G, refs, uses)
<1>1. H = [refs |-> refs, uses |-> uses, owned |-> G.owned, info |-> G.info, fault |-> G.fault]
  BY DEF Relinked
<1> HIDE DEF H
<1>2. H.refs = refs /\ H.uses = uses /\ H.owned = G.owned /\ H.info = G.info /\ H.fault = G.fault
  BY <1>1
<1>3. Formed(H) /\ SameRest(G, H)
  BY <1>1, <1>2 DEF Formed, SameRest
<1> QED
  BY <1>2, <1>3 DEF H

(* One list and one node's references change together.                        *)
LEMMA ListedStep ==
  ASSUME NEW G, NEW N, NEW held, Listed(G, N, held), NEW refs,
         NEW n \in N, NEW z \in N, NEW list \in Seq(N), NEW new \in Seq(N \cup {Nil}),
         \A u \in N : u # z => Times(list, u) = Times(G.uses[n], u),
         \A m \in N : m # n => Times(new, m) = Times(held[z], m),
         Times(list, z) = Times(new, n)
  PROVE  Listed(Relinked(G, refs, [G.uses EXCEPT ![n] = list]), N, [held EXCEPT ![z] = new])
<1> DEFINE uses == [G.uses EXCEPT ![n] = list]
           after == [held EXCEPT ![z] = new]
           H == Relinked(G, refs, uses)
<1>1. /\ Nil \notin N /\ G.uses \in [N -> Seq(N)] /\ held \in [N -> Seq(N \cup {Nil})]
      /\ \A m, u \in N : Times(G.uses[m], u) = Times(held[u], m)
  BY DEF Listed
<1>2. uses \in [N -> Seq(N)] /\ \A m \in N : uses[m] = IF m = n THEN list ELSE G.uses[m]
  BY <1>1
<1>3. after \in [N -> Seq(N \cup {Nil})] /\ \A u \in N : after[u] = IF u = z THEN new ELSE held[u]
  BY <1>1
<1>4. Formed(H) /\ H.uses = uses
  BY RelinkedIs
<1> HIDE DEF uses, after, H
<1>5. ASSUME NEW m \in N, NEW u \in N  PROVE Times(uses[m], u) = Times(after[u], m)
  <2>1. Times(G.uses[m], u) = Times(held[u], m)
    BY <1>1
  <2>2. CASE m = n /\ u = z
    BY <1>2, <1>3, <2>2
  <2>3. CASE m = n /\ u # z
    BY <1>2, <1>3, <2>1, <2>3
  <2>4. CASE m # n /\ u = z
    BY <1>2, <1>3, <2>1, <2>4
  <2>5. CASE m # n /\ u # z
    BY <1>2, <1>3, <2>1, <2>5
  <2> QED
    BY <2>2, <2>3, <2>4, <2>5
<1>6. Listed(H, N, after)
  BY <1>1, <1>2, <1>3, <1>4, <1>5 DEF Listed
<1> QED
  BY <1>6 DEF H, uses, after

With(f, x, y) == [f EXCEPT ![x] = y]
Nulled(held, z, k) == With(held, z, Put(held[z], k, Nil))

(* remove_use of a reference that is held.                                    *)
LEMMA GivenBack ==
  ASSUME NEW G, NEW N, NEW held, Listed(G, N, held), NEW z \in N,
         NEW k \in 1 .. Len(held[z]), NEW n, n = held[z][k]
  PROVE  LET H == removeUse(G, n, z) IN
         /\ Listed(H, N, Nulled(held, z, k))
         /\ H.refs = G.refs /\ SameRest(G, H)
         /\ \A m \in N : m # n => H.uses[m] = G.uses[m]
         /\ n # Nil => n \in N /\ Len(H.uses[n]) = Len(G.uses[n]) - 1
<1> DEFINE H == removeUse(G, n, z)
           after == Nulled(held, z, k)
           new == Put(held[z], k, Nil)
<1>1. /\ Formed(G) /\ Nil \notin N /\ G.uses \in [N -> Seq(N)] /\ held \in [N -> Seq(N \cup {Nil})]
      /\ \A m, u \in N : Times(G.uses[m], u) = Times(held[u], m)
  BY DEF Listed
<1>2. held[z] \in Seq(N \cup {Nil}) /\ n \in N \cup {Nil}
  BY <1>1, ElementOfSeq
<1>3. /\ new \in Seq(N \cup {Nil})
      /\ \A m : m # Nil => Times(held[z], m) = IF n = m THEN Times(new, m) + 1 ELSE Times(new, m)
  <2>1. Nil \in N \cup {Nil} /\ k \in 1 .. Len(held[z])
    OBVIOUS
  <2>2. ASSUME NEW m
        PROVE  /\ new \in Seq(N \cup {Nil})
               /\ m # Nil => Times(held[z], m) = IF held[z][k] = m THEN Times(new, m) + 1 ELSE Times(new, m)
    <3> DEFINE X == N \cup {Nil}
               s == held[z]
    <3>1. s \in Seq(X) /\ k \in 1 .. Len(s) /\ Nil \in X
      BY <1>2
    <3> HIDE DEF X, s
    <3>2. /\ Put(s, k, Nil) \in Seq(X)
          /\ m # Nil => Times(s, m) = IF s[k] = m THEN Times(Put(s, k, Nil), m) + 1 ELSE Times(Put(s, k, Nil), m)
      BY <3>1, TimesChanged
    <3> QED
      BY <3>2 DEF X, s
  <2> QED
    BY <2>2
<1>4. CASE n = Nil
  <2>1. H = G
    BY <1>4 DEF removeUse
  <2>2. new = held[z]
    <3>1. held[z][k] = Nil
      BY <1>4
    <3> QED
      BY <1>2, <3>1, LenProperties DEF Put
  <2>3. after = held
    BY <1>1, <2>2 DEF Nulled, With
  <2> HIDE DEF H, after
  <2> QED
    BY <1>4, <2>1, <2>3 DEF SameRest, H, after
<1>5. CASE n # Nil
  <2> DEFINE list == RemoveFirst(G.uses[n], z)
             uses == [G.uses EXCEPT ![n] = list]
  <2>1. n \in N /\ G.uses[n] \in Seq(N)
    BY <1>1, <1>2, <1>5
  <2>2. Contains(G.uses[n], z)
    <3>1. Times(held[z], n) # 0
      BY <1>2, TimesCounted
    <3>2. Times(G.uses[n], z) # 0
      BY <1>1, <2>1, <3>1
    <3> QED
      BY <2>1, <3>2, TimesCounted
  <2>3. /\ list \in Seq(N) /\ Len(list) = Len(G.uses[n]) - 1
        /\ \A u : Times(G.uses[n], u) = IF u = z THEN Times(list, u) + 1 ELSE Times(list, u)
    BY <2>1, <2>2, TimesRemoved
  <2>4. H = Relinked(G, G.refs, uses)
    <3>1. Alive(G, n)
      BY <1>1, <2>1 DEF Alive
    <3>2. H = [G EXCEPT !.uses[n] = list]
      BY <1>5, <2>2, <3>1 DEF removeUse
    <3> HIDE DEF list
    <3> QED
      BY <1>1, <3>2 DEF Formed, Relinked
  <2> HIDE DEF list, new, H
  <2>5. /\ \A u \in N : u # z => Times(list, u) = Times(G.uses[n], u)
        /\ \A m \in N : m # n => Times(new, m) = Times(held[z], m)
    BY <1>1, <1>3, <2>3
  <2>6. Times(list, z) = Times(new, n)
    <3>1. Times(list, z) \in Nat /\ Times(new, n) \in Nat
      BY <1>3, <2>3, TimesCounted
    <3>2. Times(list, z) + 1 = Times(new, n) + 1
      BY <1>1, <1>3, <1>5, <2>1, <2>3
    <3> QED
      BY <3>1, <3>2
  <2>7. Listed(Relinked(G, G.refs, uses), N, [held EXCEPT ![z] = new])
    BY <1>3, <2>1, <2>3, <2>5, <2>6, ListedStep
  <2>8. after = [held EXCEPT ![z] = new]
    BY DEF Nulled, With, new
  <2>9. H.refs = G.refs /\ SameRest(G, H) /\ H.uses = uses
    BY <2>4, RelinkedIs
  <2>10. \A m \in N : H.uses[m] = IF m = n THEN list ELSE G.uses[m]
    BY <1>1, <2>9
  <2> HIDE DEF after, uses
  <2> QED
    BY <2>1, <2>3, <2>4, <2>7, <2>8, <2>9, <2>10 DEF H, after
<1> QED
  BY <1>4, <1>5

(* add_use of a reference that is not held yet.                               *)
Extends(new, old, N, n) ==
  /\ new \in Seq(N \cup {Nil})
  /\ \A m \in N : Times(new, m) = IF m = n THEN Times(old, m) + 1 ELSE Times(old, m)
Taken(G, N, held, z, new, H) ==
  Listed(H, N, With(held, z, new)) /\ H.refs = G.refs /\ SameRest(G, H)

LEMMA TakenUp ==
  ASSUME NEW G, NEW N, NEW held, Listed(G, N, held), NEW z \in N, NEW n \in N,
         NEW new, Extends(new, held[z], N, n)
  PROVE  Taken(G, N, held, z, new, addUse(G, n, z))
<1> DEFINE H == addUse(G, n, z)
           list == <<z>> \o G.uses[n]
           uses == [G.uses EXCEPT ![n] = list]
<1>1. /\ Formed(G) /\ Nil \notin N /\ G.uses \in [N -> Seq(N)] /\ held \in [N -> Seq(N \cup {Nil})]
      /\ \A m, u \in N : Times(G.uses[m], u) = Times(held[u], m)
  BY DEF Listed
<1>2. G.uses[n] \in Seq(N) /\ n # Nil /\ Alive(G, n)
  BY <1>1 DEF Alive
<1>3. list \in Seq(N) /\ \A u : Times(list, u) = IF u = z THEN Times(G.uses[n], u) + 1 ELSE Times(G.uses[n], u)
  BY <1>2, TimesFront
<1>4. H = Relinked(G, G.refs, uses)
  <2>1. H = [G EXCEPT !.uses[n] = list]
    BY <1>2 DEF addUse
  <2> HIDE DEF list
  <2> QED
    BY <1>1, <2>1 DEF Formed, Relinked
<1> HIDE DEF list, H
<1>5. Times(list, z) = Times(new, n)
  BY <1>1, <1>3 DEF Extends
<1>6. Listed(Relinked(G, G.refs, uses), N, [held EXCEPT ![z] = new])
  <2>1. \A u \in N : u # z => Times(list, u) = Times(G.uses[n], u)
    BY <1>3
  <2>2. new \in Seq(N \cup {Nil}) /\ \A m \in N : m # n => Times(new, m) = Times(held[z], m)
    BY DEF Extends
  <2> QED
    BY <1>3, <1>5, <2>1, <2>2, ListedStep
<1>7. H.refs = G.refs /\ SameRest(G, H)
  BY <1>4, RelinkedIs
<1> QED
  BY <1>4, <1>6, <1>7 DEF H, Taken, With

-----------------------------------------------------------------------------
(* The loops, each as the function of its iterations.                         *)

Releases(G, n, f, m) ==
  f = [i \in 0 .. m |-> IF i = 0 THEN G ELSE removeUse(f[i - 1], G.refs[n][i], n)]

LEMMA ReleasesFor ==
  ASSUME NEW G, NEW n, Len(G.refs[n]) \in Nat
  PROVE  \E f : Releases(G, n, f, Len(G.refs[n]))
<1> DEFINE c == Len(G.refs[n])
           S == {m \in 0 .. c : \E f : Releases(G, n, f, m)}
<1>1. 0 \in S
  <2>1. Releases(G, n, [i \in 0 .. 0 |-> G], 0)
    BY DEF Releases
  <2> QED
    BY <2>1
<1>2. ASSUME NEW m \in 0 .. c, m \in S, m < c  PROVE m + 1 \in S
  <2>1. PICK f : Releases(G, n, f, m)
    BY <1>2
  <2> DEFINE g == [i \in 0 .. m + 1 |-> IF i = m + 1 THEN removeUse(f[m], G.refs[n][m + 1], n) ELSE f[i]]
  <2>2. ASSUME NEW i \in 0 .. m + 1
        PROVE  g[i] = IF i = 0 THEN G ELSE removeUse(g[i - 1], G.refs[n][i], n)
    <3>1. CASE i = m + 1
      <4>1. g[i] = removeUse(f[m], G.refs[n][i], n) /\ g[i - 1] = f[m]
        BY <1>2, <3>1
      <4> QED
        BY <1>2, <3>1, <4>1
    <3>2. CASE i # m + 1
      <4>1. i \in 0 .. m /\ g[i] = f[i]
        BY <1>2, <3>2
      <4>2. f[i] = IF i = 0 THEN G ELSE removeUse(f[i - 1], G.refs[n][i], n)
        BY <2>1, <4>1 DEF Releases
      <4>3. i # 0 => g[i - 1] = f[i - 1]
        BY <1>2, <4>1
      <4> QED
        BY <4>1, <4>2, <4>3
    <3> QED
      BY <3>1, <3>2
  <2>3. Releases(G, n, g, m + 1)
    BY <2>2 DEF Releases
  <2> QED
    BY <1>2, <2>3
<1>3. c \in S
  <2>1. \A m \in 0 .. c : m \in S /\ m < c => m + 1 \in S
    BY <1>2
  <2> HIDE DEF S
  <2>2. \A m \in 0 .. c : m \in S
    BY <1>1, <2>1, Climbs
  <2> QED
    BY <2>2
<1> QED
  BY <1>3

LEMMA ReleasesUnfold ==
  ASSUME NEW G, NEW n, Len(G.refs[n]) \in Nat
  PROVE  \E f : /\ f[0] = G /\ Release(G, n) = f[Len(G.refs[n])]
                /\ \A i \in 1 .. Len(G.refs[n]) : f[i] = removeUse(f[i - 1], G.refs[n][i], n)
<1> DEFINE f == CHOOSE f : Releases(G, n, f, Len(G.refs[n]))
<1>1. Releases(G, n, f, Len(G.refs[n]))
  BY ReleasesFor
<1>2. Release(G, n) = f[Len(G.refs[n])]
  BY DEF Release, Releases
<1> DEFINE c == Len(G.refs[n])
<1> HIDE DEF f, c
<1>3. f = [i \in 0 .. c |-> IF i = 0 THEN G ELSE removeUse(f[i - 1], G.refs[n][i], n)]
  BY <1>1 DEF Releases, c
<1>4. c \in Nat
  BY DEF c
<1>5. f[0] = G
  BY <1>3, <1>4
<1>6. ASSUME NEW i \in 1 .. c  PROVE f[i] = removeUse(f[i - 1], G.refs[n][i], n)
  BY <1>3, <1>4, <1>6
<1>7. Release(G, n) = f[c]
  BY <1>2 DEF c
<1> QED
  BY <1>5, <1>6, <1>7 DEF c

Replaced(before, user, old, refs, k) ==
  IF refs[k] # old THEN before ELSE removeUse([before EXCEPT !.refs[user][k] = Nil], old, user)
Replaces(G, user, old, f, m) ==
  f = [i \in 0 .. m |-> IF i = 0 THEN G ELSE Replaced(f[i - 1], user, old, G.refs[user], i)]

LEMMA ReplacesFor ==
  ASSUME NEW G, NEW user, NEW old, Len(G.refs[user]) \in Nat
  PROVE  \E f : Replaces(G, user, old, f, Len(G.refs[user]))
<1> DEFINE c == Len(G.refs[user])
           S == {m \in 0 .. c : \E f : Replaces(G, user, old, f, m)}
<1>1. 0 \in S
  <2>1. Replaces(G, user, old, [i \in 0 .. 0 |-> G], 0)
    BY DEF Replaces
  <2> QED
    BY <2>1
<1>2. ASSUME NEW m \in 0 .. c, m \in S, m < c  PROVE m + 1 \in S
  <2>1. PICK f : Replaces(G, user, old, f, m)
    BY <1>2
  <2> DEFINE g == [i \in 0 .. m + 1 |-> IF i = m + 1 THEN Replaced(f[m], user, old, G.refs[user], m + 1) ELSE f[i]]
  <2>2. ASSUME NEW i \in 0 .. m + 1
        PROVE  g[i] = IF i = 0 THEN G ELSE Replaced(g[i - 1], user, old, G.refs[user], i)
    <3>1. CASE i = m + 1
      <4>1. g[i] = Replaced(f[m], user, old, G.refs[user], i) /\ g[i - 1] = f[m]
        BY <1>2, <3>1
      <4> QED
        BY <1>2, <3>1, <4>1
    <3>2. CASE i # m + 1
      <4>1. i \in 0 .. m /\ g[i] = f[i]
        BY <1>2, <3>2
      <4>2. f[i] = IF i = 0 THEN G ELSE Replaced(f[i - 1], user, old, G.refs[user], i)
        BY <2>1, <4>1 DEF Replaces
      <4>3. i # 0 => g[i - 1] = f[i - 1]
        BY <1>2, <4>1
      <4> QED
        BY <4>1, <4>2, <4>3
    <3> QED
      BY <3>1, <3>2
  <2>3. Replaces(G, user, old, g, m + 1)
    BY <2>2 DEF Replaces
  <2> QED
    BY <1>2, <2>3
<1>3. c \in S
  <2>1. \A m \in 0 .. c : m \in S /\ m < c => m + 1 \in S
    BY <1>2
  <2> HIDE DEF S
  <2>2. \A m \in 0 .. c : m \in S
    BY <1>1, <2>1, Climbs
  <2> QED
    BY <2>2
<1> QED
  BY <1>3

LEMMA ReplacesUnfold ==
  ASSUME NEW G, NEW user, NEW old, Len(G.refs[user]) \in Nat, Alive(G, user), user[1] \notin Irreplaceable
  PROVE  \E f : /\ f[0] = G /\ replace(G, user, old) = f[Len(G.refs[user])]
                /\ \A i \in 1 .. Len(G.refs[user]) : f[i] = Replaced(f[i - 1], user, old, G.refs[user], i)
<1> DEFINE f == CHOOSE f : Replaces(G, user, old, f, Len(G.refs[user]))
<1>1. Replaces(G, user, old, f, Len(G.refs[user]))
  BY ReplacesFor
<1>2. replace(G, user, old) = f[Len(G.refs[user])]
  BY DEF replace, Replaced, Replaces
<1> DEFINE c == Len(G.refs[user])
<1> HIDE DEF f, c
<1>3. f = [i \in 0 .. c |-> IF i = 0 THEN G ELSE Replaced(f[i - 1], user, old, G.refs[user], i)]
  BY <1>1 DEF Replaces, c
<1>4. c \in Nat
  BY DEF c
<1>5. f[0] = G
  BY <1>3, <1>4
<1>6. ASSUME NEW i \in 1 .. c  PROVE f[i] = Replaced(f[i - 1], user, old, G.refs[user], i)
  BY <1>3, <1>4, <1>6
<1>7. replace(G, user, old) = f[c]
  BY <1>2 DEF c
<1> QED
  BY <1>5, <1>6, <1>7 DEF c

Vanished(H, n) ==
  [refs |-> Forget(H.refs, n), uses |-> Forget(H.uses, n), owned |-> H.owned, info |-> H.info,
   fault |-> H.fault \/ H.uses[n] # <<>>]
Asks(G, n, f, m) ==
  f = [i \in 0 .. m |-> IF i = 0 THEN G ELSE AskFront(f[i - 1], n)]

LEMMA AsksFor ==
  ASSUME NEW G, NEW n, Len(G.uses[n]) \in Nat
  PROVE  \E f : Asks(G, n, f, Len(G.uses[n]))
<1> DEFINE c == Len(G.uses[n])
           S == {m \in 0 .. c : \E f : Asks(G, n, f, m)}
<1>1. 0 \in S
  <2>1. Asks(G, n, [i \in 0 .. 0 |-> G], 0)
    BY DEF Asks
  <2> QED
    BY <2>1
<1>2. ASSUME NEW m \in 0 .. c, m \in S, m < c  PROVE m + 1 \in S
  <2>1. PICK f : Asks(G, n, f, m)
    BY <1>2
  <2> DEFINE g == [i \in 0 .. m + 1 |-> IF i = m + 1 THEN AskFront(f[m], n) ELSE f[i]]
  <2>2. ASSUME NEW i \in 0 .. m + 1
        PROVE  g[i] = IF i = 0 THEN G ELSE AskFront(g[i - 1], n)
    <3>1. CASE i = m + 1
      <4>1. g[i] = AskFront(f[m], n) /\ g[i - 1] = f[m]
        BY <1>2, <3>1
      <4> QED
        BY <1>2, <3>1, <4>1
    <3>2. CASE i # m + 1
      <4>1. i \in 0 .. m /\ g[i] = f[i]
        BY <1>2, <3>2
      <4>2. f[i] = IF i = 0 THEN G ELSE AskFront(f[i - 1], n)
        BY <2>1, <4>1 DEF Asks
      <4>3. i # 0 => g[i - 1] = f[i - 1]
        BY <1>2, <4>1
      <4> QED
        BY <4>1, <4>2, <4>3
    <3> QED
      BY <3>1, <3>2
  <2>3. Asks(G, n, g, m + 1)
    BY <2>2 DEF Asks
  <2> QED
    BY <1>2, <2>3
<1>3. c \in S
  <2>1. \A m \in 0 .. c : m \in S /\ m < c => m + 1 \in S
    BY <1>2
  <2> HIDE DEF S
  <2>2. \A m \in 0 .. c : m \in S
    BY <1>1, <2>1, Climbs
  <2> QED
    BY <2>2
<1> QED
  BY <1>3

LEMMA AsksUnfold ==
  ASSUME NEW G, NEW n, Len(G.uses[n]) \in Nat
  PROVE  \E f : /\ f[0] = G /\ Vanish(G, n) = Vanished(f[Len(G.uses[n])], n)
                /\ \A i \in 1 .. Len(G.uses[n]) : f[i] = AskFront(f[i - 1], n)
<1> DEFINE f == CHOOSE f : Asks(G, n, f, Len(G.uses[n]))
<1>1. Asks(G, n, f, Len(G.uses[n]))
  BY AsksFor
<1>2. Vanish(G, n) = Vanished(f[Len(G.uses[n])], n)
  BY DEF Vanish, Vanished, Asks
<1> DEFINE c == Len(G.uses[n])
<1> HIDE DEF f, c
<1>3. f = [i \in 0 .. c |-> IF i = 0 THEN G ELSE AskFront(f[i - 1], n)]
  BY <1>1 DEF Asks, c
<1>4. c \in Nat
  BY DEF c
<1>5. f[0] = G
  BY <1>3, <1>4
<1>6. ASSUME NEW i \in 1 .. c  PROVE f[i] = AskFront(f[i - 1], n)
  BY <1>3, <1>4, <1>6
<1>7. Vanish(G, n) = Vanished(f[c], n)
  BY <1>2 DEF c
<1> QED
  BY <1>5, <1>6, <1>7 DEF c

Removed(before, o) == Vanish(Release(before, o), o)
Destroys(G, n, f, m) ==
  f = [i \in 0 .. m |-> IF i = 0 THEN Release(G, n) ELSE Removed(f[i - 1], G.owned[n][i])]

LEMMA DestroysFor ==
  ASSUME NEW G, NEW n, Len(G.owned[n]) \in Nat
  PROVE  \E f : Destroys(G, n, f, Len(G.owned[n]))
<1> DEFINE c == Len(G.owned[n])
           S == {m \in 0 .. c : \E f : Destroys(G, n, f, m)}
<1>1. 0 \in S
  <2>1. Destroys(G, n, [i \in 0 .. 0 |-> Release(G, n)], 0)
    BY DEF Destroys
  <2> QED
    BY <2>1
<1>2. ASSUME NEW m \in 0 .. c, m \in S, m < c  PROVE m + 1 \in S
  <2>1. PICK f : Destroys(G, n, f, m)
    BY <1>2
  <2> DEFINE g == [i \in 0 .. m + 1 |-> IF i = m + 1 THEN Removed(f[m], G.owned[n][m + 1]) ELSE f[i]]
  <2>2. ASSUME NEW i \in 0 .. m + 1
        PROVE  g[i] = IF i = 0 THEN Release(G, n) ELSE Removed(g[i - 1], G.owned[n][i])
    <3>1. CASE i = m + 1
      <4>1. g[i] = Removed(f[m], G.owned[n][i]) /\ g[i - 1] = f[m]
        BY <1>2, <3>1
      <4> QED
        BY <1>2, <3>1, <4>1
    <3>2. CASE i # m + 1
      <4>1. i \in 0 .. m /\ g[i] = f[i]
        BY <1>2, <3>2
      <4>2. f[i] = IF i = 0 THEN Release(G, n) ELSE Removed(f[i - 1], G.owned[n][i])
        BY <2>1, <4>1 DEF Destroys
      <4>3. i # 0 => g[i - 1] = f[i - 1]
        BY <1>2, <4>1
      <4> QED
        BY <4>1, <4>2, <4>3
    <3> QED
      BY <3>1, <3>2
  <2>3. Destroys(G, n, g, m + 1)
    BY <2>2 DEF Destroys
  <2> QED
    BY <1>2, <2>3
<1>3. c \in S
  <2>1. \A m \in 0 .. c : m \in S /\ m < c => m + 1 \in S
    BY <1>2
  <2> HIDE DEF S
  <2>2. \A m \in 0 .. c : m \in S
    BY <1>1, <2>1, Climbs
  <2> QED
    BY <2>2
<1> QED
  BY <1>3

LEMMA DestroysUnfold ==
  ASSUME NEW G, NEW n, Len(G.owned[n]) \in Nat
  PROVE  \E f : /\ f[0] = Release(G, n) /\ Destroy(G, n) = Vanish(f[Len(G.owned[n])], n)
                /\ \A i \in 1 .. Len(G.owned[n]) : f[i] = Removed(f[i - 1], G.owned[n][i])
<1> DEFINE f == CHOOSE f : Destroys(G, n, f, Len(G.owned[n]))
<1>1. Destroys(G, n, f, Len(G.owned[n]))
  BY DestroysFor
<1>2. Destroy(G, n) = Vanish(f[Len(G.owned[n])], n)
  BY DEF Destroy, Removed, Destroys
<1> DEFINE c == Len(G.owned[n])
<1> HIDE DEF f, c
<1>3. f = [i \in 0 .. c |-> IF i = 0 THEN Release(G, n) ELSE Removed(f[i - 1], G.owned[n][i])]
  BY <1>1 DEF Destroys, c
<1>4. c \in Nat
  BY DEF c
<1>5. f[0] = Release(G, n)
  BY <1>3, <1>4
<1>6. ASSUME NEW i \in 1 .. c  PROVE f[i] = Removed(f[i - 1], G.owned[n][i])
  BY <1>3, <1>4, <1>6
<1>7. Destroy(G, n) = Vanish(f[c], n)
  BY <1>2 DEF c
<1> QED
  BY <1>5, <1>6, <1>7 DEF c

-----------------------------------------------------------------------------
(* The nodes' references and the held ones, field by field.                    *)
LEMMA ListedFields ==
  ASSUME NEW G, NEW N, NEW held, Listed(G, N, held)
  PROVE  /\ Formed(G) /\ Nil \notin N
         /\ DOMAIN G.uses = N /\ DOMAIN held = N
         /\ \A n \in N : G.uses[n] \in Seq(N)
         /\ \A u \in N : /\ held[u] \in Seq(N \cup {Nil})
                         /\ Len(held[u]) \in Nat /\ DOMAIN held[u] = 1 .. Len(held[u])
         /\ \A n, u \in N : Times(G.uses[n], u) = Times(held[u], n)
<1>1. \A u \in N : held[u] \in Seq(N \cup {Nil})
  BY DEF Listed
<1>2. \A u \in N : Len(held[u]) \in Nat /\ DOMAIN held[u] = 1 .. Len(held[u])
  BY <1>1, LenProperties
<1> QED
  BY <1>1, <1>2 DEF Listed

Functional(f) == f = [x \in DOMAIN f |-> f[x]]
LEMMA WithOf ==
  ASSUME NEW f, Functional(f), NEW x \in DOMAIN f, NEW y
  PROVE  /\ DOMAIN With(f, x, y) = DOMAIN f /\ With(f, x, y)[x] = y /\ Functional(With(f, x, y))
         /\ \A u \in DOMAIN f : With(f, x, y)[u] = IF u = x THEN y ELSE f[u]
         /\ \A z : With(With(f, x, y), x, z) = With(f, x, z)
         /\ With(f, x, f[x]) = f
BY DEF With, Functional

(* A destructor gives back what its node refers to.                           *)
NullsTo(s, j) == [k \in DOMAIN s |-> IF k <= j THEN Nil ELSE s[k]]
Nulls(s) == [k \in DOMAIN s |-> Nil]

LEMMA NullsToStep ==
  ASSUME NEW X, NEW s \in Seq(X)
  PROVE  /\ NullsTo(s, 0) = s /\ NullsTo(s, Len(s)) = Nulls(s)
         /\ \A j \in 0 .. Len(s) : DOMAIN NullsTo(s, j) = 1 .. Len(s)
         /\ \A j \in 0 .. Len(s) : j < Len(s) =>
              /\ NullsTo(s, j)[j + 1] = s[j + 1]
              /\ Put(NullsTo(s, j), j + 1, Nil) = NullsTo(s, j + 1)
<1>1. Len(s) \in Nat /\ DOMAIN s = 1 .. Len(s) /\ s = [k \in DOMAIN s |-> s[k]]
  BY LenProperties
<1> DEFINE n == Len(s)
<1> HIDE DEF n
<1>2. n \in Nat /\ DOMAIN s = 1 .. n
  BY <1>1 DEF n
<1>3. NullsTo(s, 0) = s
  <2>1. \A k \in DOMAIN s : (IF k <= 0 THEN Nil ELSE s[k]) = s[k]
    BY <1>2
  <2> QED
    BY <1>1, <2>1 DEF NullsTo
<1>4. NullsTo(s, n) = Nulls(s)
  <2>1. \A k \in DOMAIN s : (IF k <= n THEN Nil ELSE s[k]) = Nil
    BY <1>2
  <2> QED
    BY <2>1 DEF NullsTo, Nulls
<1>5. \A j \in 0 .. n : DOMAIN NullsTo(s, j) = 1 .. n
  BY <1>2 DEF NullsTo
<1>6. ASSUME NEW j \in 0 .. n, j < n
      PROVE  NullsTo(s, j)[j + 1] = s[j + 1] /\ Put(NullsTo(s, j), j + 1, Nil) = NullsTo(s, j + 1)
  <2>1. j + 1 \in 1 .. n
    BY <1>2, <1>6
  <2>2. NullsTo(s, j)[j + 1] = s[j + 1]
    BY <1>2, <2>1 DEF NullsTo
  <2>3. ASSUME NEW k \in 1 .. n
        PROVE  (IF k = j + 1 THEN Nil ELSE NullsTo(s, j)[k]) = IF k <= j + 1 THEN Nil ELSE s[k]
    BY <1>2, <2>1 DEF NullsTo
  <2>4. Put(NullsTo(s, j), j + 1, Nil) = [k \in 1 .. n |-> IF k = j + 1 THEN Nil ELSE NullsTo(s, j)[k]]
    <3>1. DOMAIN NullsTo(s, j) = 1 .. n
      BY <1>5
    <3> QED
      BY <2>1, <3>1 DEF Put
  <2>5. NullsTo(s, j + 1) = [k \in 1 .. n |-> IF k <= j + 1 THEN Nil ELSE s[k]]
    BY <1>2 DEF NullsTo
  <2> QED
    BY <2>2, <2>3, <2>4, <2>5
<1> QED
  BY <1>3, <1>4, <1>5, <1>6 DEF n

ReleasedTo(G, N, held, z, g, j) ==
  /\ Listed(g, N, With(held, z, NullsTo(held[z], j)))
  /\ g.refs = G.refs /\ SameRest(G, g)

LEMMA Released ==
  ASSUME NEW G, NEW N, NEW held, Listed(G, N, held), NEW z \in N, held[z] = G.refs[z]
  PROVE  LET H == Release(G, z) IN
         /\ Listed(H, N, With(held, z, Nulls(held[z])))
         /\ H.refs = G.refs /\ SameRest(G, H)
<1> DEFINE s == held[z]
           n == Len(s)
<1>1. /\ Functional(held) /\ DOMAIN held = N /\ s \in Seq(N \cup {Nil}) /\ s = G.refs[z]
      /\ n \in Nat /\ DOMAIN s = 1 .. n
  <2>1. Functional(held) /\ DOMAIN held = N /\ s \in Seq(N \cup {Nil})
    BY DEF Listed, Functional
  <2>2. n \in Nat /\ DOMAIN s = 1 .. n
    BY <2>1, LenProperties
  <2> QED
    BY <2>1, <2>2
<1>2. PICK f : /\ f[0] = G /\ Release(G, z) = f[n]
               /\ \A i \in 1 .. n : f[i] = removeUse(f[i - 1], s[i], z)
  BY <1>1, ReleasesUnfold
<1>3. /\ NullsTo(s, 0) = s /\ NullsTo(s, n) = Nulls(s)
      /\ \A j \in 0 .. n : DOMAIN NullsTo(s, j) = 1 .. n
      /\ \A j \in 0 .. n : j < n =>
           /\ NullsTo(s, j)[j + 1] = s[j + 1]
           /\ Put(NullsTo(s, j), j + 1, Nil) = NullsTo(s, j + 1)
  BY <1>1, NullsToStep
<1> DEFINE S == {j \in 0 .. n : ReleasedTo(G, N, held, z, f[j], j)}
<1> HIDE DEF n
<1>4. ReleasedTo(G, N, held, z, f[0], 0)
  <2>1. With(held, z, NullsTo(held[z], 0)) = held
    BY <1>1, <1>3, WithOf
  <2> QED
    BY <1>2, <2>1 DEF ReleasedTo, SameRest
<1>5. ASSUME NEW j \in 0 .. n, ReleasedTo(G, N, held, z, f[j], j), j < n
      PROVE  ReleasedTo(G, N, held, z, f[j + 1], j + 1)
  <2> DEFINE k == j + 1
             t == NullsTo(s, j)
             now == With(held, z, t)
  <2>1. k \in 1 .. n /\ k - 1 = j
    BY <1>1, <1>5
  <2>2. /\ Listed(f[j], N, With(held, z, NullsTo(s, j)))
        /\ f[j].refs = G.refs /\ SameRest(G, f[j])
    BY <1>5 DEF ReleasedTo
  <2>3. Listed(f[j], N, now)
    BY <2>2
  <2>4. DOMAIN t = 1 .. n /\ t[k] = s[k] /\ Put(t, k, Nil) = NullsTo(s, k)
    BY <1>3, <1>5
  <2> HIDE DEF t, s, k
  <2>5. now[z] = t /\ \A y : With(now, z, y) = With(held, z, y)
    BY <1>1, WithOf
  <2>6. f[k] = removeUse(f[j], s[k], z)
    BY <1>2, <2>1
  <2> HIDE DEF now
  <2>7. k \in 1 .. Len(now[z]) /\ s[k] = now[z][k]
    <3>1. DOMAIN now[z] = 1 .. Len(now[z])
      BY <2>3, ListedFields
    <3> QED
      BY <2>1, <2>4, <2>5, <3>1
  <2>8. /\ Listed(f[k], N, Nulled(now, z, k)) /\ f[k].refs = f[j].refs /\ SameRest(f[j], f[k])
    BY <2>3, <2>6, <2>7, GivenBack
  <2>9. Nulled(now, z, k) = With(held, z, NullsTo(s, k))
    BY <2>4, <2>5 DEF Nulled
  <2> QED
    BY <2>2, <2>8, <2>9 DEF ReleasedTo, SameRest, s, k
<1>6. ReleasedTo(G, N, held, z, f[n], n)
  <2>1. 0 \in S
    BY <1>1, <1>4
  <2>2. \A j \in 0 .. n : j \in S /\ j < n => j + 1 \in S
    BY <1>1, <1>5
  <2>3. \A j \in S : ReleasedTo(G, N, held, z, f[j], j)
    OBVIOUS
  <2> HIDE DEF S, s
  <2>4. \A j \in 0 .. n : j \in S
    BY <1>1, <2>1, <2>2, Climbs
  <2>5. n \in S
    BY <1>1, <2>4
  <2> QED
    BY <2>3, <2>5
<1> QED
  BY <1>2, <1>3, <1>6 DEF ReleasedTo

-----------------------------------------------------------------------------
(* A user that is asked to replace a node gives back every reference to it.    *)
ClearedTo(s, old, j) == [k \in DOMAIN s |-> IF k <= j /\ s[k] = old THEN Nil ELSE s[k]]
Cleared(s, old) == [k \in DOMAIN s |-> IF s[k] = old THEN Nil ELSE s[k]]

LEMMA ClearedToStep ==
  ASSUME NEW X, NEW s \in Seq(X), NEW old
  PROVE  /\ ClearedTo(s, old, 0) = s /\ ClearedTo(s, old, Len(s)) = Cleared(s, old)
         /\ \A j \in 0 .. Len(s) : DOMAIN ClearedTo(s, old, j) = 1 .. Len(s)
         /\ \A j \in 0 .. Len(s) : j < Len(s) =>
              /\ ClearedTo(s, old, j)[j + 1] = s[j + 1]
              /\ s[j + 1] = old => Put(ClearedTo(s, old, j), j + 1, Nil) = ClearedTo(s, old, j + 1)
              /\ s[j + 1] # old => ClearedTo(s, old, j + 1) = ClearedTo(s, old, j)
<1>1. Len(s) \in Nat /\ DOMAIN s = 1 .. Len(s) /\ s = [k \in DOMAIN s |-> s[k]]
  BY LenProperties
<1> DEFINE n == Len(s)
<1> HIDE DEF n
<1>2. n \in Nat /\ DOMAIN s = 1 .. n
  BY <1>1 DEF n
<1>3. ClearedTo(s, old, 0) = s
  <2>1. \A k \in DOMAIN s : (IF k <= 0 /\ s[k] = old THEN Nil ELSE s[k]) = s[k]
    BY <1>2
  <2> QED
    BY <1>1, <2>1 DEF ClearedTo
<1>4. ClearedTo(s, old, n) = Cleared(s, old)
  <2>1. \A k \in DOMAIN s : (IF k <= n /\ s[k] = old THEN Nil ELSE s[k]) = IF s[k] = old THEN Nil ELSE s[k]
    BY <1>2
  <2> QED
    BY <2>1 DEF ClearedTo, Cleared
<1>5. \A j \in 0 .. n : DOMAIN ClearedTo(s, old, j) = 1 .. n
  BY <1>2 DEF ClearedTo
<1>6. ASSUME NEW j \in 0 .. n, j < n
      PROVE  /\ ClearedTo(s, old, j)[j + 1] = s[j + 1]
             /\ s[j + 1] = old => Put(ClearedTo(s, old, j), j + 1, Nil) = ClearedTo(s, old, j + 1)
             /\ s[j + 1] # old => ClearedTo(s, old, j + 1) = ClearedTo(s, old, j)
  <2>1. j + 1 \in 1 .. n
    BY <1>2, <1>6
  <2>2. ClearedTo(s, old, j)[j + 1] = s[j + 1]
    BY <1>2, <2>1 DEF ClearedTo
  <2>3. ClearedTo(s, old, j + 1) = [k \in 1 .. n |-> IF k <= j + 1 /\ s[k] = old THEN Nil ELSE s[k]]
    BY <1>2 DEF ClearedTo
  <2>4. ClearedTo(s, old, j) = [k \in 1 .. n |-> IF k <= j /\ s[k] = old THEN Nil ELSE s[k]]
    BY <1>2 DEF ClearedTo
  <2>5. ASSUME s[j + 1] = old  PROVE Put(ClearedTo(s, old, j), j + 1, Nil) = ClearedTo(s, old, j + 1)
    <3>1. ASSUME NEW k \in 1 .. n
          PROVE  (IF k = j + 1 THEN Nil ELSE ClearedTo(s, old, j)[k])
                   = IF k <= j + 1 /\ s[k] = old THEN Nil ELSE s[k]
      <4>1. ClearedTo(s, old, j)[k] = IF k <= j /\ s[k] = old THEN Nil ELSE s[k]
        BY <2>4
      <4>2. k <= j + 1 <=> k <= j \/ k = j + 1
        BY <1>2, <2>1
      <4>3. ~(j + 1 <= j)
        BY <1>6
      <4> QED
        BY <2>5, <4>1, <4>2, <4>3
    <3>2. Put(ClearedTo(s, old, j), j + 1, Nil) = [k \in 1 .. n |-> IF k = j + 1 THEN Nil ELSE ClearedTo(s, old, j)[k]]
      <4>1. DOMAIN ClearedTo(s, old, j) = 1 .. n
        BY <1>5
      <4> QED
        BY <2>1, <4>1 DEF Put
    <3> QED
      BY <2>3, <3>1, <3>2
  <2>6. ASSUME s[j + 1] # old  PROVE ClearedTo(s, old, j + 1) = ClearedTo(s, old, j)
    <3>1. ASSUME NEW k \in 1 .. n
          PROVE  (IF k <= j + 1 /\ s[k] = old THEN Nil ELSE s[k]) = IF k <= j /\ s[k] = old THEN Nil ELSE s[k]
      <4>1. k <= j + 1 <=> k <= j \/ k = j + 1
        BY <1>2, <2>1
      <4> QED
        BY <2>6, <4>1
    <3> QED
      BY <2>3, <2>4, <3>1
  <2> QED
    BY <2>2, <2>5, <2>6
<1> QED
  BY <1>3, <1>4, <1>5, <1>6 DEF n

ReplacedTo(G, N, held, user, old, g, j) ==
  /\ Listed(g, N, With(held, user, ClearedTo(held[user], old, j)))
  /\ g.refs = With(G.refs, user, ClearedTo(held[user], old, j)) /\ SameRest(G, g)
  /\ Len(g.uses[old]) <= Len(G.uses[old])
  /\ (\E k \in 1 .. j : held[user][k] = old) => Len(g.uses[old]) < Len(G.uses[old])

LEMMA ReplacedOnce ==
  ASSUME NEW G, NEW N, NEW held, Listed(G, N, held), NEW user \in N, NEW old \in N,
         Functional(G.refs), DOMAIN G.refs = N,
         NEW j \in 0 .. Len(held[user]), j < Len(held[user]),
         NEW g, ReplacedTo(G, N, held, user, old, g, j)
  PROVE  ReplacedTo(G, N, held, user, old, Replaced(g, user, old, held[user], j + 1), j + 1)
<1> DEFINE s == held[user]
           n == Len(s)
           k == j + 1
           t == ClearedTo(s, old, j)
           u == ClearedTo(s, old, k)
           now == With(held, user, t)
           G1 == Replaced(g, user, old, s, k)
<1>1. /\ Functional(held) /\ DOMAIN held = N /\ s \in Seq(N \cup {Nil})
      /\ n \in Nat /\ DOMAIN s = 1 .. n /\ old # Nil
  BY ListedFields DEF Listed, Functional
<1>2. /\ Listed(g, N, now) /\ g.refs = With(G.refs, user, t) /\ SameRest(G, g)
      /\ Len(g.uses[old]) <= Len(G.uses[old])
      /\ (\E i \in 1 .. j : s[i] = old) => Len(g.uses[old]) < Len(G.uses[old])
  BY DEF ReplacedTo
<1>3. /\ DOMAIN t = 1 .. n /\ t[k] = s[k]
      /\ s[k] = old => Put(t, k, Nil) = u
      /\ s[k] # old => u = t
  <2>1. j \in 0 .. Len(s) /\ j < Len(s) /\ s \in Seq(N \cup {Nil})
    BY <1>1
  <2> HIDE DEF s
  <2> QED
    BY <2>1, ClearedToStep, ZenonT(60) DEF n
<1>4. k \in 1 .. n
  BY <1>1
<1>5. now[user] = t /\ \A y : With(now, user, y) = With(held, user, y)
  BY <1>1, WithOf
<1>6. /\ g.refs[user] = t /\ Functional(g.refs) /\ user \in DOMAIN g.refs
      /\ \A y : With(g.refs, user, y) = With(G.refs, user, y)
  BY <1>2, WithOf
<1>7. CASE s[k] # old
  <2>1. G1 = g /\ u = t
    BY <1>3, <1>7 DEF Replaced
  <2>2. (\E i \in 1 .. k : s[i] = old) => \E i \in 1 .. j : s[i] = old
    BY <1>4, <1>7
  <2>3. /\ Listed(G1, N, With(held, user, u)) /\ G1.refs = With(G.refs, user, u) /\ SameRest(G, G1)
        /\ Len(G1.uses[old]) <= Len(G.uses[old])
    <3> HIDE DEF G1, u, t, s
    <3> QED
      BY <1>2, <2>1
  <2>4. (\E i \in 1 .. k : s[i] = old) => Len(G1.uses[old]) < Len(G.uses[old])
    <3> HIDE DEF G1, u, t, s, k
    <3> QED
      BY <1>2, <2>1, <2>2
  <2> QED
    BY <2>3, <2>4 DEF ReplacedTo
<1>8. CASE s[k] = old
  <2> DEFINE E == [g EXCEPT !.refs[user][k] = Nil]
             refs == With(g.refs, user, u)
  <2>1. G1 = removeUse(E, old, user)
    BY <1>8 DEF Replaced
  <2>2. Formed(g)
    <3> HIDE DEF now
    <3> QED
      BY <1>2, ListedFields
  <2>3. E = Relinked(g, refs, g.uses)
    <3>1. E = [g EXCEPT !.refs = [g.refs EXCEPT ![user] = [g.refs[user] EXCEPT ![k] = Nil]]]
      OBVIOUS
    <3>2. refs = [g.refs EXCEPT ![user] = [g.refs[user] EXCEPT ![k] = Nil]]
      <4> HIDE DEF t, u, s, k
      <4> QED
        BY <1>3, <1>6, <1>8 DEF With, Put
    <3>3. E = [g EXCEPT !.refs = refs]
      <4> HIDE DEF refs, k
      <4> QED
        BY <3>1, <3>2
    <3> HIDE DEF refs, E
    <3> QED
      BY <2>2, <3>3 DEF Formed, Relinked
  <2>4. E.refs = refs /\ E.uses = g.uses /\ SameRest(g, E) /\ Formed(E)
    <3> HIDE DEF E, refs
    <3> QED
      BY <2>3, RelinkedIs
  <2> HIDE DEF E
  <2>5. Listed(E, N, now)
    <3> HIDE DEF now
    <3> QED
      BY <1>2, <2>4 DEF Listed
  <2>6. k \in 1 .. Len(now[user]) /\ old = now[user][k]
    <3> HIDE DEF now, t, k, s
    <3>1. DOMAIN now[user] = 1 .. Len(now[user])
      BY <1>2, ListedFields
    <3> QED
      BY <1>3, <1>4, <1>5, <1>8, <3>1
  <2>7. /\ Listed(G1, N, Nulled(now, user, k))
        /\ G1.refs = E.refs /\ SameRest(E, G1)
        /\ Len(G1.uses[old]) = Len(E.uses[old]) - 1
    <3> HIDE DEF now, k, s, G1
    <3> QED
      BY <1>1, <2>1, <2>5, <2>6, GivenBack
  <2>8. Nulled(now, user, k) = With(held, user, u)
    <3> HIDE DEF now, t, u, s, k
    <3> QED
      BY <1>3, <1>5, <1>8 DEF Nulled
  <2>9. refs = With(G.refs, user, u)
    <3> HIDE DEF u
    <3> QED
      BY <1>6
  <2>10. Len(g.uses[old]) \in Nat /\ Len(G.uses[old]) \in Nat
    <3>1. g.uses[old] \in Seq(N) /\ G.uses[old] \in Seq(N)
      <4> HIDE DEF now
      <4> QED
        BY <1>2, ListedFields
    <3> QED
      BY <3>1, LenProperties
  <2> HIDE DEF refs, u, t, s, G1, now, k
  <2>11. Len(G1.uses[old]) < Len(G.uses[old])
    <3>1. Len(G1.uses[old]) = Len(g.uses[old]) - 1
      BY <2>4, <2>7
    <3> QED
      BY <1>2, <2>10, <3>1
  <2>12. Len(G1.uses[old]) <= Len(G.uses[old])
    <3>1. Len(G1.uses[old]) = Len(g.uses[old]) - 1
      BY <2>4, <2>7
    <3> QED
      BY <1>2, <2>10, <3>1
  <2>13. SameRest(G, G1) /\ G1.refs = With(G.refs, user, u)
    BY <1>2, <2>4, <2>7, <2>9 DEF SameRest
  <2>14. ReplacedTo(G, N, held, user, old, G1, k)
    BY <2>7, <2>8, <2>11, <2>12, <2>13 DEF ReplacedTo, u, s
  <2> QED
    BY <2>14 DEF G1, s, k
<1> QED
  BY <1>7, <1>8

LEMMA ReplacedBy ==
  ASSUME NEW G, NEW N, NEW held, Listed(G, N, held), NEW user \in N, user[1] \notin Irreplaceable,
         Functional(G.refs), DOMAIN G.refs = N, held[user] = G.refs[user], NEW old \in N
  PROVE  LET H == replace(G, user, old) IN
         /\ Listed(H, N, With(held, user, Cleared(held[user], old)))
         /\ H.refs = With(G.refs, user, Cleared(held[user], old)) /\ SameRest(G, H)
         /\ Len(H.uses[old]) <= Len(G.uses[old])
         /\ (\E k \in DOMAIN held[user] : held[user][k] = old) => Len(H.uses[old]) < Len(G.uses[old])
<1> DEFINE s == held[user]
           n == Len(s)
<1>1. /\ Functional(held) /\ DOMAIN held = N /\ s \in Seq(N \cup {Nil}) /\ s = G.refs[user]
      /\ n \in Nat /\ DOMAIN s = 1 .. n /\ DOMAIN G.uses = N
  BY ListedFields DEF Listed, Functional
<1>2. PICK f : /\ f[0] = G /\ replace(G, user, old) = f[n]
               /\ \A i \in 1 .. n : f[i] = Replaced(f[i - 1], user, old, s, i)
  <2>1. Alive(G, user)
    BY <1>1 DEF Alive
  <2> QED
    BY <1>1, <2>1, ReplacesUnfold
<1>3. ClearedTo(s, old, 0) = s /\ ClearedTo(s, old, n) = Cleared(s, old)
  BY <1>1, ClearedToStep
<1> DEFINE S == {j \in 0 .. n : ReplacedTo(G, N, held, user, old, f[j], j)}
<1>4. ReplacedTo(G, N, held, user, old, f[0], 0)
  <2>1. With(held, user, ClearedTo(held[user], old, 0)) = held
    BY <1>1, <1>3, WithOf
  <2>2. With(G.refs, user, ClearedTo(held[user], old, 0)) = G.refs
    BY <1>1, <1>3, WithOf
  <2>3. Len(G.uses[old]) <= Len(G.uses[old])
    <3>1. Len(G.uses[old]) \in Nat
      BY ListedFields, LenProperties
    <3> QED
      BY <3>1
  <2> QED
    BY <1>2, <2>1, <2>2, <2>3 DEF ReplacedTo, SameRest
<1> HIDE DEF n
<1>5. ASSUME NEW j \in 0 .. n, ReplacedTo(G, N, held, user, old, f[j], j), j < n
      PROVE  ReplacedTo(G, N, held, user, old, f[j + 1], j + 1)
  <2>1. j + 1 \in 1 .. n /\ (j + 1) - 1 = j
    BY <1>1, <1>5
  <2>2. f[j + 1] = Replaced(f[j], user, old, s, j + 1)
    BY <1>2, <2>1
  <2>3. j \in 0 .. Len(held[user]) /\ j < Len(held[user])
    BY <1>5 DEF n
  <2>4. ReplacedTo(G, N, held, user, old, Replaced(f[j], user, old, held[user], j + 1), j + 1)
    BY <1>5, <2>3, ReplacedOnce
  <2> QED
    BY <2>2, <2>4
<1>6. ReplacedTo(G, N, held, user, old, f[n], n)
  <2>1. 0 \in S
    BY <1>1, <1>4
  <2>2. \A j \in 0 .. n : j \in S /\ j < n => j + 1 \in S
    BY <1>1, <1>5
  <2>3. \A j \in S : ReplacedTo(G, N, held, user, old, f[j], j)
    OBVIOUS
  <2> HIDE DEF S, s
  <2>4. \A j \in 0 .. n : j \in S
    BY <1>1, <2>1, <2>2, Climbs
  <2>5. n \in S
    BY <1>1, <2>4
  <2> QED
    BY <2>3, <2>5
<1> DEFINE H == f[n]
<1>7. /\ Listed(H, N, With(held, user, Cleared(s, old)))
      /\ H.refs = With(G.refs, user, Cleared(s, old)) /\ SameRest(G, H)
      /\ Len(H.uses[old]) <= Len(G.uses[old])
      /\ (\E k \in 1 .. n : s[k] = old) => Len(H.uses[old]) < Len(G.uses[old])
  BY <1>3, <1>6 DEF ReplacedTo
<1>8. H = replace(G, user, old)
  BY <1>2
<1> HIDE DEF H
<1> QED
  BY <1>1, <1>7, <1>8

-----------------------------------------------------------------------------
(* A destructor asks the users of its node until none is left.                 *)
LEMMA WithTwo ==
  ASSUME NEW f, Functional(f), NEW x \in DOMAIN f, NEW z \in DOMAIN f, x # z, NEW y, NEW v
  PROVE  With(With(f, x, y), z, v) = With(With(f, z, v), x, y)
<1>1. With(With(f, x, y), z, v) = [u \in DOMAIN f |-> IF u = z THEN v ELSE IF u = x THEN y ELSE f[u]]
  BY DEF With, Functional
<1>2. With(With(f, z, v), x, y) = [u \in DOMAIN f |-> IF u = x THEN y ELSE IF u = z THEN v ELSE f[u]]
  BY DEF With, Functional
<1> QED
  BY <1>1, <1>2

LEMMA ClearedIs ==
  ASSUME NEW X, NEW s \in Seq(X), NEW z, z # Nil
  PROVE  /\ DOMAIN Cleared(s, z) = DOMAIN s
         /\ \A k \in DOMAIN s : Cleared(s, z)[k] # z
         /\ Cleared(Cleared(s, z), z) = Cleared(s, z)
         /\ (\A k \in DOMAIN s : s[k] # z) => Cleared(s, z) = s
<1>1. s = [k \in DOMAIN s |-> s[k]]
  BY LenProperties
<1> QED
  BY <1>1 DEF Cleared

LEMMA SeqWithout ==
  ASSUME NEW X, NEW s \in Seq(X), NEW Y, \A k \in DOMAIN s : s[k] \in Y
  PROVE  s \in Seq(Y)
<1>1. Len(s) \in Nat /\ s = [k \in 1 .. Len(s) |-> s[k]] /\ DOMAIN s = 1 .. Len(s)
  BY LenProperties
<1>2. s \in [1 .. Len(s) -> Y]
  BY <1>1
<1> QED
  BY <1>1, <1>2, SeqDef

Refers(s, z) == \E k \in DOMAIN s : s[k] = z
Blocked(N, held, z) == \E u \in N : u[1] \in Irreplaceable /\ Refers(held[u], z)

Asked(G, N, held, z, g, j) ==
  /\ Listed(g, N, With(g.refs, z, held[z]))
  /\ Functional(g.refs) /\ DOMAIN g.refs = N /\ SameRest(G, g)
  /\ \A u \in N : u # z => g.refs[u] = held[u] \/ g.refs[u] = Cleared(held[u], z)
  /\ g.uses[z] = <<>> \/ Len(g.uses[z]) <= Len(G.uses[z]) - j
Stuck(N, held, z, g) ==
  /\ Formed(g) /\ g.fault /\ g.uses[z] # <<>> /\ Head(g.uses[z])[1] \in Irreplaceable
  /\ Blocked(N, held, z)

(* What the front of a list is: a user whose held references have the node.     *)
LEMMA FrontRefers ==
  ASSUME NEW G, NEW N, NEW held, Listed(G, N, held), NEW z \in N, G.uses[z] # <<>>
  PROVE  Head(G.uses[z]) \in N /\ Refers(held[Head(G.uses[z])], z)
<1> DEFINE s == G.uses[z]
           x == Head(s)
<1>1. s \in Seq(N) /\ s # <<>>
  BY ListedFields
<1> HIDE DEF s
<1>2. x = s[1] /\ x \in N /\ Len(s) \in Nat /\ Len(s) > 0
  BY <1>1, HeadTailProperties, LenProperties, EmptySeq
<1> HIDE DEF x
<1>3. 1 \in 1 .. Len(s)
  BY <1>2
<1>4. Times(s, x) # 0
  BY <1>1, <1>2, <1>3, TimesCounted
<1>5. Times(held[x], z) # 0 /\ held[x] \in Seq(N \cup {Nil}) /\ DOMAIN held[x] = 1 .. Len(held[x])
  <2>1. Times(s, x) = Times(held[x], z)
    <3>1. \A m, u \in N : Times(G.uses[m], u) = Times(held[u], m)
      BY DEF Listed
    <3> QED
      BY <1>2, <3>1 DEF s
  <2>2. held[x] \in Seq(N \cup {Nil})
    BY <1>2 DEF Listed
  <2>3. DOMAIN held[x] = 1 .. Len(held[x])
    BY <2>2, LenProperties
  <2> QED
    BY <1>4, <2>1, <2>2, <2>3
<1>6. \E k \in 1 .. Len(held[x]) : held[x][k] = z
  BY <1>5, TimesCounted
<1> QED
  BY <1>2, <1>5, <1>6 DEF Refers, x, s

LEMMA AskedOnce ==
  ASSUME NEW G, NEW N, NEW held, Listed(G, N, held), NEW z \in N, ~Refers(held[z], z),
         NEW j \in Nat, NEW g, Asked(G, N, held, z, g, j)
  PROVE  Asked(G, N, held, z, AskFront(g, z), j + 1) \/ Stuck(N, held, z, AskFront(g, z))
<1> DEFINE now == With(g.refs, z, held[z])
           user == Head(g.uses[z])
           H == AskFront(g, z)
           was == g.refs[user]
           c == Cleared(was, z)
<1>1. /\ Listed(g, N, now)
      /\ Functional(g.refs) /\ DOMAIN g.refs = N /\ SameRest(G, g)
      /\ \A u \in N : u # z => g.refs[u] = held[u] \/ g.refs[u] = Cleared(held[u], z)
      /\ g.uses[z] = <<>> \/ Len(g.uses[z]) <= Len(G.uses[z]) - j
  BY DEF Asked
<1>2. now[z] = held[z] /\ Functional(now) /\ DOMAIN now = N /\ \A u \in N : now[u] = IF u = z THEN held[z] ELSE g.refs[u]
  BY <1>1, WithOf
<1> HIDE DEF now
<1>3. z # Nil /\ \A u \in N : held[u] \in Seq(N \cup {Nil})
  BY ListedFields
<1>4. CASE g.uses[z] = <<>>
  <2>1. H = g
    BY <1>4 DEF AskFront
  <2> HIDE DEF H
  <2> QED
    BY <1>1, <1>4, <2>1 DEF Asked, now, H
<1>5. CASE g.uses[z] # <<>>
  <2>1. user \in N /\ Refers(now[user], z)
    <3> HIDE DEF user
    <3> QED
      BY <1>1, <1>5, FrontRefers DEF user
  <2>2. H = replace(g, user, z)
    BY <1>5 DEF AskFront
  <2> HIDE DEF user, H
  <2>3. user # z
    BY <1>2, <2>1
  <2>4. now[user] = was /\ (was = held[user] \/ was = Cleared(held[user], z))
    BY <1>1, <1>2, <2>1, <2>3
  <2> HIDE DEF was
  <2>5. was = held[user]
    <3>1. ~Refers(Cleared(held[user], z), z)
      <4>1. held[user] \in Seq(N \cup {Nil})
        BY <1>3, <2>1
      <4> DEFINE s == held[user]
                 X == N \cup {Nil}
      <4>2. s \in Seq(X)
        BY <4>1
      <4> HIDE DEF s, X
      <4>3. DOMAIN Cleared(s, z) = DOMAIN s /\ \A k \in DOMAIN s : Cleared(s, z)[k] # z
        BY <1>3, <4>2, ClearedIs
      <4> QED
        BY <4>3 DEF Refers, s
    <3> QED
      BY <2>1, <2>4, <3>1
  <2>6. CASE user[1] \in Irreplaceable
    <3>1. H = [g EXCEPT !.fault = TRUE]
      BY <2>2, <2>6 DEF replace
    <3>2. Formed(g)
      BY <1>1, ListedFields
    <3>3. H = [refs |-> g.refs, uses |-> g.uses, owned |-> g.owned, info |-> g.info, fault |-> TRUE]
      BY <3>1, <3>2 DEF Formed
    <3>4. Formed(H) /\ H.fault /\ H.uses = g.uses
      BY <3>3 DEF Formed
    <3>5. Blocked(N, held, z)
      BY <2>1, <2>4, <2>5, <2>6 DEF Blocked
    <3> QED
      BY <1>5, <2>6, <3>4, <3>5 DEF Stuck, user, H
  <2>7. CASE user[1] \notin Irreplaceable
    <3>1. /\ Listed(H, N, With(now, user, c))
          /\ H.refs = With(g.refs, user, c) /\ SameRest(g, H)
          /\ Len(H.uses[z]) < Len(g.uses[z])
      <4>1. now[user] = g.refs[user]
        BY <2>4 DEF was
      <4>2. (\E k \in DOMAIN now[user] : now[user][k] = z)
        BY <2>1 DEF Refers
      <4>3. LET K == replace(g, user, z) IN
            /\ Listed(K, N, With(now, user, Cleared(now[user], z)))
            /\ K.refs = With(g.refs, user, Cleared(now[user], z)) /\ SameRest(g, K)
            /\ (\E k \in DOMAIN now[user] : now[user][k] = z) => Len(K.uses[z]) < Len(g.uses[z])
        BY <1>1, <2>1, <2>7, <4>1, ReplacedBy
      <4> QED
        BY <2>2, <2>4, <4>2, <4>3
    <3>2. c = Cleared(held[user], z)
      BY <2>5
    <3> HIDE DEF c
    <3>3. With(now, user, c) = With(H.refs, z, held[z])
      BY <1>1, <2>1, <2>3, <3>1, WithTwo DEF now
    <3>4. Functional(H.refs) /\ DOMAIN H.refs = N /\ \A u \in N : H.refs[u] = IF u = user THEN c ELSE g.refs[u]
      BY <1>1, <2>1, <3>1, WithOf
    <3>5. SameRest(G, H)
      BY <1>1, <3>1 DEF SameRest
    <3>6. \A u \in N : u # z => H.refs[u] = held[u] \/ H.refs[u] = Cleared(held[u], z)
      BY <1>1, <3>2, <3>4
    <3>7. Len(H.uses[z]) <= Len(G.uses[z]) - (j + 1)
      <4>1. Listed(H, N, With(H.refs, z, held[z]))
        BY <3>1, <3>3
      <4>2. /\ H.uses[z] \in Seq(N) /\ g.uses[z] \in Seq(N) /\ G.uses[z] \in Seq(N)
        BY <1>1, <4>1, ListedFields
      <4>3. Len(H.uses[z]) \in Nat /\ Len(g.uses[z]) \in Nat /\ Len(G.uses[z]) \in Nat
        BY <4>2, LenProperties
      <4>4. Len(H.uses[z]) < Len(g.uses[z]) /\ Len(g.uses[z]) <= Len(G.uses[z]) - j
        BY <1>1, <1>5, <3>1
      <4> QED
        BY <4>3, <4>4, SMTT(30)
    <3>8. Listed(H, N, With(H.refs, z, held[z]))
      BY <3>1, <3>3
    <3>9. Asked(G, N, held, z, H, j + 1)
      BY <3>4, <3>5, <3>6, <3>7, <3>8 DEF Asked
    <3> QED
      BY <3>9 DEF H
  <2> QED
    BY <2>6, <2>7
<1> QED
  BY <1>4, <1>5

LEMMA StuckStays ==
  ASSUME NEW N, NEW held, NEW z, NEW g, Stuck(N, held, z, g)
  PROVE  Stuck(N, held, z, AskFront(g, z))
<1> DEFINE user == Head(g.uses[z])
           H == AskFront(g, z)
<1>1. Formed(g) /\ g.uses[z] # <<>> /\ user[1] \in Irreplaceable /\ Blocked(N, held, z)
  BY DEF Stuck
<1>2. H = [g EXCEPT !.fault = TRUE]
  BY <1>1 DEF AskFront, replace
<1>3. H = [refs |-> g.refs, uses |-> g.uses, owned |-> g.owned, info |-> g.info, fault |-> TRUE]
  BY <1>1, <1>2 DEF Formed
<1>4. Formed(H) /\ H.fault /\ H.uses = g.uses
  BY <1>3 DEF Formed
<1> QED
  BY <1>1, <1>4 DEF Stuck

(* Nobody is left: the node goes.                                             *)
RefsWithout(refs, M, z) == [u \in M |-> Cleared(refs[u], z)]
Leaves(G, N, held, z, H) ==
  /\ Listed(H, N \ {z}, H.refs) /\ H.refs = RefsWithout(held, N \ {z}, z)
  /\ H.owned = G.owned /\ H.info = G.info /\ ~H.fault

AllNil(s) == \A k \in DOMAIN s : s[k] = Nil
Departed(g, N, now, z, H) ==
  /\ Listed(H, N \ {z}, Forget(now, z)) /\ H.refs = Forget(g.refs, z)
  /\ H.owned = g.owned /\ H.info = g.info /\ ~H.fault
  /\ \A u \in N \ {z} : ~Refers(now[u], z)

LEMMA Departs ==
  ASSUME NEW g, NEW N, NEW now, Listed(g, N, now), NEW z \in N,
         AllNil(now[z]), ~g.fault, g.uses[z] = <<>>
  PROVE  Departed(g, N, now, z, Vanished(g, z))
<1> DEFINE H == Vanished(g, z)
           M == N \ {z}
           then == Forget(now, z)
<1>1. /\ Nil \notin N /\ DOMAIN g.uses = N /\ DOMAIN now = N
      /\ \A n \in N : g.uses[n] \in Seq(N)
      /\ \A u \in N : now[u] \in Seq(N \cup {Nil}) /\ DOMAIN now[u] = 1 .. Len(now[u])
      /\ \A n, u \in N : Times(g.uses[n], u) = Times(now[u], n)
  <2> HIDE DEF M, H, then
  <2>1. \A n, u \in N : Times(g.uses[n], u) = Times(now[u], n)
    BY DEF Listed
  <2>2. \A u \in N : now[u] \in Seq(N \cup {Nil}) /\ DOMAIN now[u] = 1 .. Len(now[u])
    <3>1. \A u \in N : now[u] \in Seq(N \cup {Nil})
      BY DEF Listed
    <3> QED
      BY <3>1, LenProperties
  <2>3. Nil \notin N /\ DOMAIN g.uses = N /\ DOMAIN now = N /\ \A n \in N : g.uses[n] \in Seq(N)
    BY DEF Listed
  <2> QED
    BY <2>1, <2>2, <2>3
<1>2. /\ H.refs = Forget(g.refs, z) /\ H.uses = Forget(g.uses, z)
      /\ H.owned = g.owned /\ H.info = g.info /\ Formed(H) /\ ~H.fault
  BY DEF Vanished, Formed
<1> HIDE DEF H
<1>3. ASSUME NEW u \in M  PROVE ~Refers(now[u], z)
  <2>1. Times(now[u], z) = Times(<<>>, u)
    BY <1>1
  <2>2. Times(<<>>, u) = 0
    <3>1. <<>> \in Seq(N) /\ Len(<<>>) = 0
      OBVIOUS
    <3>2. \A k \in 1 .. Len(<<>>) : <<>>[k] # u
      BY <3>1
    <3> QED
      BY <3>1, <3>2, TimesCounted
  <2>3. now[u] \in Seq(N \cup {Nil}) /\ DOMAIN now[u] = 1 .. Len(now[u])
    BY <1>1
  <2>4. \A k \in 1 .. Len(now[u]) : now[u][k] # z
    BY <2>1, <2>2, <2>3, TimesCounted
  <2> QED
    BY <2>3, <2>4 DEF Refers
<1>4. DOMAIN then = M /\ Functional(then) /\ \A u \in M : then[u] = now[u]
  BY <1>1 DEF Forget, Functional
<1>5. DOMAIN H.uses = M /\ Functional(H.uses) /\ \A n \in M : H.uses[n] = g.uses[n]
  BY <1>1, <1>2 DEF Forget, Functional
<1> HIDE DEF then
<1>6. ASSUME NEW u \in M  PROVE then[u] \in Seq(M \cup {Nil})
  <2>1. then[u] \in Seq(N \cup {Nil})
    BY <1>1, <1>4
  <2>2. DOMAIN then[u] = 1 .. Len(then[u])
    BY <2>1, LenProperties
  <2>3. \A k \in DOMAIN then[u] : then[u][k] \in M \cup {Nil}
    <3>1. \A k \in DOMAIN then[u] : then[u][k] # z
      BY <1>3, <1>4 DEF Refers
    <3>2. \A k \in 1 .. Len(then[u]) : then[u][k] \in N \cup {Nil}
      BY <2>1, ElementOfSeq
    <3> QED
      BY <2>2, <3>1, <3>2
  <2> QED
    BY <2>1, <2>3, SeqWithout
<1>7. ASSUME NEW n \in M  PROVE H.uses[n] \in Seq(M)
  <2>1. H.uses[n] \in Seq(N)
    BY <1>1, <1>5
  <2>2. DOMAIN H.uses[n] = 1 .. Len(H.uses[n])
    BY <2>1, LenProperties
  <2>3. Times(now[z], n) = 0
    <3>1. now[z] \in Seq(N \cup {Nil}) /\ DOMAIN now[z] = 1 .. Len(now[z]) /\ n # Nil
      BY <1>1
    <3>2. \A k \in 1 .. Len(now[z]) : now[z][k] # n
      BY <3>1 DEF AllNil
    <3> QED
      BY <3>1, <3>2, TimesCounted
  <2>4. Times(H.uses[n], z) = 0
    BY <1>1, <1>5, <2>3
  <2>5. \A k \in 1 .. Len(H.uses[n]) : H.uses[n][k] # z
    BY <2>1, <2>4, TimesCounted
  <2>6. \A k \in 1 .. Len(H.uses[n]) : H.uses[n][k] \in N
    BY <2>1, ElementOfSeq
  <2>7. \A k \in DOMAIN H.uses[n] : H.uses[n][k] \in M
    BY <2>2, <2>5, <2>6
  <2> QED
    BY <2>1, <2>7, SeqWithout
<1>8. \A n, u \in M : Times(H.uses[n], u) = Times(then[u], n)
  BY <1>1, <1>4, <1>5
<1>9. Listed(H, M, then)
  <2>1. then \in [M -> Seq(M \cup {Nil})]
    BY <1>4, <1>6 DEF Functional
  <2>2. H.uses \in [M -> Seq(M)]
    BY <1>5, <1>7 DEF Functional
  <2>3. Nil \notin M /\ Formed(H)
    BY <1>1, <1>2
  <2> HIDE DEF M
  <2> QED
    BY <1>8, <2>1, <2>2, <2>3 DEF Listed
<1> QED
  BY <1>2, <1>3, <1>9 DEF Departed, H, then

LEMMA LeavesAtLast ==
  ASSUME NEW G, NEW N, NEW held, Listed(G, N, held), NEW z \in N,
         AllNil(held[z]), ~G.fault,
         NEW j, NEW g, Asked(G, N, held, z, g, j), g.uses[z] = <<>>
  PROVE  Leaves(G, N, held, z, Vanished(g, z))
<1> DEFINE now == With(g.refs, z, held[z])
           H == Vanished(g, z)
           M == N \ {z}
<1>1. /\ Listed(g, N, now)
      /\ Functional(g.refs) /\ DOMAIN g.refs = N /\ SameRest(G, g)
      /\ \A u \in N : u # z => g.refs[u] = held[u] \/ g.refs[u] = Cleared(held[u], z)
  BY DEF Asked
<1>2. now[z] = held[z] /\ DOMAIN now = N /\ \A u \in M : now[u] = g.refs[u]
  BY <1>1, WithOf
<1> HIDE DEF now, H, M
<1>3. ~g.fault
  BY <1>1 DEF SameRest
<1>4. /\ Listed(H, N \ {z}, Forget(now, z)) /\ H.refs = Forget(g.refs, z)
      /\ H.owned = g.owned /\ H.info = g.info /\ ~H.fault
      /\ \A u \in N \ {z} : ~Refers(now[u], z)
  <2>1. AllNil(now[z])
    BY <1>2
  <2>2. Departed(g, N, now, z, Vanished(g, z))
    BY <1>1, <1>3, <2>1, Departs
  <2> QED
    BY <2>2 DEF Departed, H
<1>5. ASSUME NEW u \in M  PROVE g.refs[u] = Cleared(held[u], z)
  <2> DEFINE s == held[u]
             X == N \cup {Nil}
  <2>1. u \in N /\ u # z
    BY DEF M
  <2>2. s \in Seq(X) /\ z # Nil
    BY <2>1, ListedFields
  <2>3. g.refs[u] = s \/ g.refs[u] = Cleared(s, z)
    BY <1>1, <2>1
  <2>4. ~Refers(g.refs[u], z)
    BY <1>2, <1>4 DEF M
  <2> HIDE DEF s, X
  <2>5. (\A k \in DOMAIN s : s[k] # z) => Cleared(s, z) = s
    BY <2>2, ClearedIs
  <2> QED
    BY <2>3, <2>4, <2>5 DEF Refers, s
<1>6. H.refs = RefsWithout(held, M, z)
  BY <1>1, <1>4, <1>5 DEF Forget, RefsWithout, M
<1>7. Forget(now, z) = H.refs
  <2>1. Forget(now, z) = [u \in M |-> now[u]]
    BY <1>2 DEF Forget, M
  <2>2. Forget(g.refs, z) = [u \in M |-> g.refs[u]]
    BY <1>1 DEF Forget, M
  <2> QED
    BY <1>2, <1>4, <2>1, <2>2
<1>8. H.owned = G.owned /\ H.info = G.info
  BY <1>1, <1>4 DEF SameRest
<1> QED
  BY <1>4, <1>6, <1>7, <1>8 DEF Leaves, H, M

LEMMA Leaving ==
  ASSUME NEW G, NEW N, NEW held, Listed(G, N, held), NEW z \in N, ~G.fault,
         Functional(G.refs), DOMAIN G.refs = N, \A u \in N : u # z => held[u] = G.refs[u],
         AllNil(held[z])
  PROVE  Leaves(G, N, held, z, Vanish(G, z)) \/ (Vanish(G, z).fault /\ Blocked(N, held, z))
<1> DEFINE n == Len(G.uses[z])
<1>1. G.uses[z] \in Seq(N) /\ n \in Nat /\ z # Nil /\ DOMAIN held = N /\ Functional(held)
  BY ListedFields, LenProperties DEF Listed, Functional
<1>2. PICK f : /\ f[0] = G /\ Vanish(G, z) = Vanished(f[n], z)
               /\ \A i \in 1 .. n : f[i] = AskFront(f[i - 1], z)
  BY <1>1, AsksUnfold
<1>3. ~Refers(held[z], z)
  BY <1>1 DEF Refers, AllNil
<1> DEFINE S == {j \in 0 .. n : Asked(G, N, held, z, f[j], j) \/ Stuck(N, held, z, f[j])}
<1>4. Asked(G, N, held, z, f[0], 0)
  <2>1. With(G.refs, z, held[z]) = held
    <3>1. \A u \in N : With(G.refs, z, held[z])[u] = held[u]
      BY WithOf
    <3>2. Functional(With(G.refs, z, held[z])) /\ DOMAIN With(G.refs, z, held[z]) = N
      BY WithOf
    <3> QED
      BY <1>1, <3>1, <3>2 DEF Functional
  <2>2. n <= n - 0
    BY <1>1
  <2> QED
    BY <1>2, <2>1, <2>2 DEF Asked, SameRest
<1> HIDE DEF n
<1>5. ASSUME NEW j \in 0 .. n, Asked(G, N, held, z, f[j], j) \/ Stuck(N, held, z, f[j]), j < n
      PROVE  Asked(G, N, held, z, f[j + 1], j + 1) \/ Stuck(N, held, z, f[j + 1])
  <2>1. j + 1 \in 1 .. n /\ (j + 1) - 1 = j /\ j \in Nat
    BY <1>1, <1>5
  <2>2. f[j + 1] = AskFront(f[j], z)
    BY <1>2, <2>1
  <2>3. CASE Asked(G, N, held, z, f[j], j)
    BY <1>3, <2>1, <2>2, <2>3, AskedOnce
  <2>4. CASE Stuck(N, held, z, f[j])
    BY <2>2, <2>4, StuckStays
  <2> QED
    BY <1>5, <2>3, <2>4
<1>6. Asked(G, N, held, z, f[n], n) \/ Stuck(N, held, z, f[n])
  <2>1. 0 \in S
    BY <1>1, <1>4
  <2>2. \A j \in 0 .. n : j \in S /\ j < n => j + 1 \in S
    BY <1>1, <1>5
  <2>3. \A j \in S : Asked(G, N, held, z, f[j], j) \/ Stuck(N, held, z, f[j])
    OBVIOUS
  <2> HIDE DEF S
  <2>4. \A j \in 0 .. n : j \in S
    BY <1>1, <2>1, <2>2, Climbs
  <2>5. n \in S
    BY <1>1, <2>4
  <2> QED
    BY <2>3, <2>5
<1> DEFINE g == f[n]
<1>7. CASE Asked(G, N, held, z, g, n)
  <2>1. g.uses[z] \in Seq(N)
    <3> HIDE DEF g
    <3> QED
      BY <1>7, ListedFields DEF Asked
  <2>2. g.uses[z] = <<>> \/ Len(g.uses[z]) <= n - n
    BY <1>7 DEF Asked, n
  <2> HIDE DEF g
  <2>3. Len(g.uses[z]) \in Nat
    BY <2>1, LenProperties
  <2>4. g.uses[z] = <<>>
    BY <1>1, <2>1, <2>2, <2>3, EmptySeq
  <2>5. Leaves(G, N, held, z, Vanished(g, z))
    BY <1>7, <2>4, LeavesAtLast
  <2> QED
    BY <1>2, <2>5 DEF g
<1>8. CASE Stuck(N, held, z, g)
  <2>1. g.fault /\ Blocked(N, held, z)
    BY <1>8 DEF Stuck
  <2> HIDE DEF g
  <2>2. Vanished(g, z).fault
    BY <2>1 DEF Vanished
  <2> QED
    BY <1>2, <2>1, <2>2 DEF g
<1> QED
  BY <1>6, <1>7, <1>8

-----------------------------------------------------------------------------
(* A destructor as a whole: what a node owns goes with it, as nobody refers to it. *)
Owned(os, j) == {os[i] : i \in 1 .. j}
Emptied(G, N, z, os, g, j) ==
  /\ Listed(g, N \ Owned(os, j), With(g.refs, z, Nulls(G.refs[z])))
  /\ g.refs = [u \in N \ Owned(os, j) |-> G.refs[u]]
  /\ g.owned = G.owned /\ g.info = G.info /\ ~g.fault

LEMMA NullsIs ==
  ASSUME NEW s
  PROVE  AllNil(Nulls(s))
BY DEF Nulls, AllNil

(* A node nobody refers to, when only z has given something back.              *)
WithoutOwned(g, M, z, none, o, H) ==
  /\ Listed(H, M \ {o}, With(H.refs, z, none)) /\ H.refs = Forget(g.refs, o)
  /\ H.owned = g.owned /\ H.info = g.info /\ ~H.fault
LEMMA OwnedGoes ==
  ASSUME NEW g, NEW M, NEW z \in M, NEW o \in M, o # z, NEW none, ~g.fault,
         AllNil(none),
         Functional(g.refs), DOMAIN g.refs = M, Listed(g, M, With(g.refs, z, none)),
         \A u \in M : ~Refers(g.refs[u], o)
  PROVE  WithoutOwned(g, M, z, none, o, Removed(g, o))
<1> DEFINE held == With(g.refs, z, none)
           E == Release(g, o)
           now == With(held, o, Nulls(held[o]))
           H == Vanished(E, o)
<1>1. /\ Functional(held) /\ DOMAIN held = M /\ held[z] = none
      /\ \A u \in M : held[u] = IF u = z THEN none ELSE g.refs[u]
  BY WithOf
<1>2. Listed(g, M, held) /\ held[o] = g.refs[o]
  BY <1>1
<1> HIDE DEF held
<1>3. Listed(E, M, now) /\ E.refs = g.refs /\ SameRest(g, E)
  BY <1>2, Released
<1> HIDE DEF E
<1>4. /\ DOMAIN now = M /\ now[o] = Nulls(held[o]) /\ Functional(now)
      /\ \A u \in M : now[u] = IF u = o THEN Nulls(held[o]) ELSE held[u]
  BY <1>1, WithOf
<1> HIDE DEF now
<1>5. \A u \in M : ~Refers(now[u], o)
  <2>1. o # Nil
    BY <1>2 DEF Listed
  <2>2. ~Refers(none, o)
    BY <2>1 DEF Refers, AllNil
  <2>3. ~Refers(Nulls(held[o]), o)
    BY <2>1, NullsIs DEF Refers, AllNil
  <2> QED
    BY <1>1, <1>4, <2>2, <2>3
<1>6. E.uses[o] \in Seq(M)
  BY <1>3 DEF Listed
<1>7. E.uses[o] = <<>>
  <2> SUFFICES ASSUME E.uses[o] # <<>>  PROVE FALSE
    OBVIOUS
  <2>1. Head(E.uses[o]) \in M /\ Refers(now[Head(E.uses[o])], o)
    BY <1>3, FrontRefers
  <2> QED
    BY <1>5, <2>1
<1>8. Vanish(E, o) = H
  <2>1. Len(E.uses[o]) = 0
    BY <1>7
  <2>2. PICK f : f[0] = E /\ Vanish(E, o) = Vanished(f[Len(E.uses[o])], o)
    BY <2>1, AsksUnfold
  <2> QED
    BY <2>1, <2>2
<1>9. /\ Listed(H, M \ {o}, Forget(now, o)) /\ H.refs = Forget(E.refs, o)
      /\ H.owned = E.owned /\ H.info = E.info /\ ~H.fault
  <2>1. AllNil(now[o])
    BY <1>4, NullsIs
  <2>2. ~E.fault
    BY <1>3 DEF SameRest
  <2> HIDE DEF H
  <2>3. Departed(E, M, now, o, Vanished(E, o))
    BY <1>3, <1>7, <2>1, <2>2, Departs
  <2> QED
    BY <2>3 DEF Departed, H
<1> HIDE DEF H
<1>10. Forget(now, o) = With(H.refs, z, none)
  <2>1. H.refs = [u \in M \ {o} |-> g.refs[u]]
    BY <1>3, <1>9 DEF Forget
  <2>2. With(H.refs, z, none) = [u \in M \ {o} |-> IF u = z THEN none ELSE g.refs[u]]
    BY <2>1 DEF With
  <2>3. Forget(now, o) = [u \in M \ {o} |-> now[u]]
    BY <1>4 DEF Forget
  <2>4. \A u \in M \ {o} : now[u] = IF u = z THEN none ELSE g.refs[u]
    BY <1>1, <1>4
  <2> QED
    BY <2>2, <2>3, <2>4
<1>11. Removed(g, o) = H
  BY <1>8 DEF Removed, E
<1> QED
  BY <1>3, <1>9, <1>10, <1>11 DEF SameRest, WithoutOwned

LEMMA Destroyed ==
  ASSUME NEW G, NEW N, Listed(G, N, G.refs), ~G.fault, NEW z \in N,
         NEW os, os = G.owned[z], Len(os) \in Nat, \A i \in 1 .. Len(os) : os[i] \in N /\ os[i] # z,
         \A i, j \in 1 .. Len(os) : os[i] = os[j] => i = j,
         \A u \in N : \A i \in 1 .. Len(os) : ~Refers(G.refs[u], os[i])
  PROVE  LET H == Destroy(G, z)
             M == (N \ Owned(os, Len(os))) \ {z}
         IN  \/ /\ Listed(H, M, H.refs) /\ H.refs = RefsWithout(G.refs, M, z)
                /\ H.owned = G.owned /\ H.info = G.info /\ ~H.fault
             \/ H.fault /\ Blocked(N, G.refs, z)
<1> DEFINE n == Len(os)
           none == Nulls(G.refs[z])
<1>1. /\ Functional(G.refs) /\ DOMAIN G.refs = N /\ Nil \notin N
  BY DEF Listed, Functional
<1>2. PICK f : /\ f[0] = Release(G, z) /\ Destroy(G, z) = Vanish(f[n], z)
               /\ \A i \in 1 .. n : f[i] = Removed(f[i - 1], os[i])
  BY DestroysUnfold
<1> HIDE DEF n
<1>3. Emptied(G, N, z, os, f[0], 0)
  <2>1. Listed(f[0], N, With(G.refs, z, none)) /\ f[0].refs = G.refs /\ SameRest(G, f[0])
    BY <1>2, Released
  <2>2. Owned(os, 0) = {}
    BY DEF Owned
  <2>3. N \ Owned(os, 0) = N
    BY <2>2
  <2>4. G.refs = [u \in N |-> G.refs[u]]
    BY <1>1 DEF Functional
  <2> QED
    BY <2>1, <2>3, <2>4 DEF Emptied, SameRest
<1>4. ASSUME NEW j \in 0 .. n, Emptied(G, N, z, os, f[j], j), j < n
      PROVE  Emptied(G, N, z, os, f[j + 1], j + 1)
  <2> DEFINE g == f[j]
             o == os[j + 1]
             M == N \ Owned(os, j)
             H == Removed(g, o)
  <2>1. j + 1 \in 1 .. n /\ (j + 1) - 1 = j /\ n \in Nat
    BY <1>4 DEF n
  <2>2. f[j + 1] = H
    BY <1>2, <2>1
  <2>3. /\ Listed(g, M, With(g.refs, z, none)) /\ g.refs = [u \in M |-> G.refs[u]]
        /\ g.owned = G.owned /\ g.info = G.info /\ ~g.fault
    BY <1>4 DEF Emptied
  <2>4. z \in M /\ o \in M /\ o # z
    <3>1. \A i \in 1 .. j : i \in 1 .. n /\ i # j + 1
      BY <1>4, <2>1
    <3> QED
      BY <2>1, <3>1 DEF Owned, n
  <2>5. Functional(g.refs) /\ DOMAIN g.refs = M
    BY <2>3 DEF Functional
  <2>6. \A u \in M : ~Refers(g.refs[u], o)
    BY <2>1, <2>3 DEF n
  <2>7. AllNil(none)
    BY NullsIs
  <2> HIDE DEF g, o, M, none, H
  <2>8. /\ Listed(H, M \ {o}, With(H.refs, z, none)) /\ H.refs = Forget(g.refs, o)
        /\ H.owned = g.owned /\ H.info = g.info /\ ~H.fault
    <3>1. WithoutOwned(g, M, z, none, o, Removed(g, o))
      BY <2>3, <2>4, <2>5, <2>6, <2>7, OwnedGoes
    <3> QED
      BY <3>1 DEF WithoutOwned, H
  <2>9. M \ {o} = N \ Owned(os, j + 1)
    <3>1. \A i : i \in 1 .. j + 1 <=> i \in 1 .. j \/ i = j + 1
      BY <2>1
    <3>2. Owned(os, j + 1) = Owned(os, j) \cup {o}
      BY <3>1 DEF Owned, o
    <3> QED
      BY <3>2 DEF M
  <2>10. H.refs = [u \in M \ {o} |-> G.refs[u]]
    BY <2>3, <2>8 DEF Forget
  <2> QED
    BY <2>2, <2>3, <2>8, <2>9, <2>10 DEF Emptied, none
<1>5. Emptied(G, N, z, os, f[n], n)
  <2> DEFINE S == {j \in 0 .. n : Emptied(G, N, z, os, f[j], j)}
  <2>0. n \in Nat
    BY DEF n
  <2>1. 0 \in S
    BY <1>3, <2>0
  <2>2. \A j \in 0 .. n : j \in S /\ j < n => j + 1 \in S
    BY <1>4, <2>0
  <2>3. \A j \in S : Emptied(G, N, z, os, f[j], j)
    OBVIOUS
  <2> HIDE DEF S
  <2>4. \A j \in 0 .. n : j \in S
    BY <2>0, <2>1, <2>2, Climbs
  <2>5. n \in S
    BY <2>0, <2>4
  <2> QED
    BY <2>3, <2>5
<1> DEFINE g == f[n]
           P == N \ Owned(os, n)
           held == With(g.refs, z, none)
           H == Vanish(g, z)
<1>6. /\ Listed(g, P, held) /\ g.refs = [u \in P |-> G.refs[u]]
      /\ g.owned = G.owned /\ g.info = G.info /\ ~g.fault
  BY <1>5 DEF Emptied
<1>7. z \in P
  BY DEF Owned, n
<1> HIDE DEF g, P, none
<1>8. Functional(g.refs) /\ DOMAIN g.refs = P
  BY <1>6 DEF Functional
<1>9. held[z] = none /\ \A u \in P : u # z => held[u] = g.refs[u]
  BY <1>7, <1>8, WithOf
<1>10. AllNil(none)
  BY NullsIs DEF none
<1> HIDE DEF held
<1>11. Leaves(g, P, held, z, H) \/ (H.fault /\ Blocked(P, held, z))
  <2> HIDE DEF H
  <2>1. Leaves(g, P, held, z, Vanish(g, z)) \/ (Vanish(g, z).fault /\ Blocked(P, held, z))
    BY <1>6, <1>7, <1>8, <1>9, <1>10, Leaving
  <2> QED
    BY <2>1 DEF H
<1> HIDE DEF H
<1>12. CASE H.fault /\ Blocked(P, held, z)
  <2>1. PICK u \in P : u[1] \in Irreplaceable /\ Refers(held[u], z)
    BY <1>12 DEF Blocked
  <2>2. u # z
    BY <1>1, <1>9, <1>10, <2>1 DEF Refers, AllNil
  <2>3. u \in N /\ Refers(G.refs[u], z)
    BY <1>6, <1>9, <2>1, <2>2 DEF P
  <2>4. Destroy(G, z) = H
    BY <1>2 DEF H, g
  <2>5. Blocked(N, G.refs, z)
    BY <2>1, <2>3 DEF Blocked
  <2> QED
    BY <1>12, <2>4, <2>5
<1>13. CASE Leaves(g, P, held, z, H)
  <2> DEFINE M == P \ {z}
  <2>1. /\ Listed(H, M, H.refs) /\ H.refs = RefsWithout(held, M, z)
        /\ H.owned = g.owned /\ H.info = g.info /\ ~H.fault
    BY <1>13 DEF Leaves
  <2>2. \A u \in M : held[u] = G.refs[u]
    BY <1>6, <1>9
  <2>3. RefsWithout(held, M, z) = RefsWithout(G.refs, M, z)
    BY <2>2 DEF RefsWithout
  <2>4. Destroy(G, z) = H
    BY <1>2 DEF H, g
  <2> HIDE DEF M
  <2>5. M = (N \ Owned(os, Len(os))) \ {z}
    BY DEF M, P, n
  <2> QED
    BY <1>6, <2>1, <2>3, <2>4, <2>5
<1> QED
  BY <1>11, <1>12, <1>13

-----------------------------------------------------------------------------
(* Building: a node enters with an empty list, and what refers to it is added. *)
Referring(G, node, refs) == [G EXCEPT !.refs[node] = refs]
Fills(G, node, refs, f, m) ==
  f = [i \in 0 .. m |-> IF i = 0 THEN Referring(G, node, refs) ELSE addUse(f[i - 1], refs[i], node)]

LEMMA FillsFor ==
  ASSUME NEW G, NEW node, NEW refs, Len(refs) \in Nat
  PROVE  \E f : Fills(G, node, refs, f, Len(refs))
<1> DEFINE n == Len(refs)
           S == {m \in 0 .. n : \E f : Fills(G, node, refs, f, m)}
<1>1. 0 \in S
  <2>1. Fills(G, node, refs, [i \in 0 .. 0 |-> Referring(G, node, refs)], 0)
    BY DEF Fills
  <2> QED
    BY <2>1
<1>2. ASSUME NEW m \in 0 .. n, m \in S, m < n  PROVE m + 1 \in S
  <2>1. PICK f : Fills(G, node, refs, f, m)
    BY <1>2
  <2> DEFINE g == [i \in 0 .. m + 1 |-> IF i = m + 1 THEN addUse(f[m], refs[m + 1], node) ELSE f[i]]
  <2>2. ASSUME NEW i \in 0 .. m + 1
        PROVE  g[i] = IF i = 0 THEN Referring(G, node, refs) ELSE addUse(g[i - 1], refs[i], node)
    <3>1. CASE i = m + 1
      <4>1. g[i] = addUse(f[m], refs[i], node) /\ g[i - 1] = f[m]
        BY <1>2, <3>1
      <4> QED
        BY <1>2, <3>1, <4>1
    <3>2. CASE i # m + 1
      <4>1. i \in 0 .. m /\ g[i] = f[i]
        BY <1>2, <3>2
      <4>2. f[i] = IF i = 0 THEN Referring(G, node, refs) ELSE addUse(f[i - 1], refs[i], node)
        BY <2>1, <4>1 DEF Fills
      <4>3. i # 0 => g[i - 1] = f[i - 1]
        BY <1>2, <4>1
      <4> QED
        BY <4>1, <4>2, <4>3
    <3> QED
      BY <3>1, <3>2
  <2>3. Fills(G, node, refs, g, m + 1)
    BY <2>2 DEF Fills
  <2> QED
    BY <1>2, <2>3
<1>3. n \in S
  <2>1. \A m \in 0 .. n : m \in S /\ m < n => m + 1 \in S
    BY <1>2
  <2> HIDE DEF S
  <2>2. \A m \in 0 .. n : m \in S
    BY <1>1, <2>1, Climbs
  <2> QED
    BY <2>2
<1> QED
  BY <1>3

LEMMA FillsContent ==
  ASSUME NEW G, NEW node, NEW refs, Len(refs) \in Nat
  PROVE  \E f : /\ f[0] = Referring(G, node, refs) /\ setContent(G, node, refs) = f[Len(refs)]
                /\ \A i \in 1 .. Len(refs) : f[i] = addUse(f[i - 1], refs[i], node)
<1> DEFINE f == CHOOSE f : Fills(G, node, refs, f, Len(refs))
<1>1. Fills(G, node, refs, f, Len(refs))
  BY FillsFor
<1>2. setContent(G, node, refs) = f[Len(refs)]
  BY DEF setContent, Referring, Fills
<1> DEFINE n == Len(refs)
<1> HIDE DEF f, n
<1>3. f = [i \in 0 .. n |-> IF i = 0 THEN Referring(G, node, refs) ELSE addUse(f[i - 1], refs[i], node)]
  BY <1>1 DEF Fills, n
<1>4. n \in Nat
  BY DEF n
<1>5. f[0] = Referring(G, node, refs)
  BY <1>3, <1>4
<1>6. ASSUME NEW i \in 1 .. n  PROVE f[i] = addUse(f[i - 1], refs[i], node)
  BY <1>3, <1>4, <1>6
<1>7. setContent(G, node, refs) = f[n]
  BY <1>2 DEF n
<1> QED
  BY <1>5, <1>6, <1>7 DEF n

(* The first j nodes of a list, the others null.                              *)
Prefix(s, j) == Beginning(s, j, Nil)

LEMMA PrefixStep ==
  ASSUME NEW X, Nil \in X, NEW s \in Seq(X)
  PROVE  /\ \A j \in 0 .. Len(s) : Prefix(s, j) \in Seq(X)
         /\ Prefix(s, Len(s)) = s
         /\ \A m : m # Nil => Times(Prefix(s, 0), m) = 0
         /\ \A j \in 0 .. Len(s) : j < Len(s) => \A m : m # Nil =>
              Times(Prefix(s, j + 1), m)
                = IF m = s[j + 1] THEN Times(Prefix(s, j), m) + 1 ELSE Times(Prefix(s, j), m)
BY BeginningStep DEF Prefix

(* The held references of a node replaced by others of the same nodes.         *)
LEMMA ListedSame ==
  ASSUME NEW G, NEW N, NEW held, Listed(G, N, held), NEW z \in N, NEW new \in Seq(N \cup {Nil}),
         \A m \in N : Times(new, m) = Times(held[z], m)
  PROVE  Listed(G, N, With(held, z, new))
<1> DEFINE after == With(held, z, new)
<1>1. /\ Formed(G) /\ Nil \notin N /\ G.uses \in [N -> Seq(N)] /\ held \in [N -> Seq(N \cup {Nil})]
      /\ \A m, u \in N : Times(G.uses[m], u) = Times(held[u], m)
  BY DEF Listed
<1>2. after \in [N -> Seq(N \cup {Nil})] /\ \A u \in N : after[u] = IF u = z THEN new ELSE held[u]
  BY <1>1 DEF With
<1> HIDE DEF after
<1>3. \A m, u \in N : Times(G.uses[m], u) = Times(after[u], m)
  BY <1>1, <1>2
<1>4. Listed(G, N, after)
  BY <1>1, <1>2, <1>3 DEF Listed
<1> QED
  BY <1>4 DEF after

Linked(G, N) == Listed(G, N, G.refs)
LEMMA LinkedFields ==
  ASSUME NEW G, NEW N, Linked(G, N)
  PROVE  /\ Formed(G) /\ Nil \notin N /\ DOMAIN G.uses = N /\ DOMAIN G.refs = N /\ Functional(G.refs)
         /\ \A u \in N : G.refs[u] \in Seq(N \cup {Nil})
BY DEF Linked, Listed, Functional

FilledTo(G, N, z, refs, g, j) ==
  /\ Listed(g, N, With(G.refs, z, Prefix(refs, j)))
  /\ g.refs = With(G.refs, z, refs) /\ SameRest(G, g)

Filled(G, N, z, refs, H) ==
  /\ Linked(H, N) /\ H.refs = With(G.refs, z, refs) /\ SameRest(G, H)
LEMMA ContentFilled ==
  ASSUME NEW G, NEW N, Linked(G, N), NEW z \in N, G.refs[z] = <<>>, NEW refs \in Seq(N)
  PROVE  Filled(G, N, z, refs, setContent(G, z, refs))
<1> DEFINE n == Len(refs)
           X == N \cup {Nil}
<1>1. /\ Formed(G) /\ Nil \notin N /\ DOMAIN G.refs = N /\ Functional(G.refs) /\ Listed(G, N, G.refs)
      /\ n \in Nat /\ \A k \in 1 .. n : refs[k] \in N
  BY LinkedFields, LenProperties, ElementOfSeq DEF Linked
<1>2. refs \in Seq(X) /\ Nil \in X
  <2>1. \A k \in DOMAIN refs : refs[k] \in X
    <3>1. DOMAIN refs = 1 .. n
      BY LenProperties
    <3> QED
      BY <1>1, <3>1
  <2> HIDE DEF X
  <2>2. refs \in Seq(X)
    BY <2>1, SeqWithout
  <2> QED
    BY <2>2 DEF X
<1>3. /\ \A j \in 0 .. n : Prefix(refs, j) \in Seq(X)
      /\ Prefix(refs, n) = refs
      /\ \A m : m # Nil => Times(Prefix(refs, 0), m) = 0
      /\ \A j \in 0 .. n : j < n => \A m : m # Nil =>
           Times(Prefix(refs, j + 1), m)
             = IF m = refs[j + 1] THEN Times(Prefix(refs, j), m) + 1 ELSE Times(Prefix(refs, j), m)
  <2> HIDE DEF X
  <2> QED
    BY <1>2, PrefixStep
<1>4. PICK f : /\ f[0] = Referring(G, z, refs) /\ setContent(G, z, refs) = f[n]
               /\ \A i \in 1 .. n : f[i] = addUse(f[i - 1], refs[i], z)
  BY <1>1, FillsContent
<1>5. FilledTo(G, N, z, refs, f[0], 0)
  <2> DEFINE E == Referring(G, z, refs)
             new == Prefix(refs, 0)
  <2>1. E = Relinked(G, With(G.refs, z, refs), G.uses)
    BY <1>1 DEF Referring, Relinked, Formed, With
  <2>2. E.refs = With(G.refs, z, refs) /\ E.uses = G.uses /\ SameRest(G, E) /\ Formed(E)
    <3> HIDE DEF E
    <3> QED
      BY <2>1, RelinkedIs
  <2> HIDE DEF E
  <2>3. Listed(E, N, G.refs)
    BY <1>1, <2>2 DEF Listed
  <2>4. \A m \in N : Times(new, m) = Times(G.refs[z], m)
    <3> SUFFICES ASSUME NEW m \in N  PROVE Times(new, m) = Times(G.refs[z], m)
      OBVIOUS
    <3>1. Times(new, m) = 0
      BY <1>1, <1>3
    <3>2. <<>> \in Seq(N) /\ Len(<<>>) = 0
      OBVIOUS
    <3>3. \A k \in 1 .. Len(<<>>) : <<>>[k] # m
      BY <3>2
    <3>4. Times(<<>>, m) = 0
      BY <3>2, <3>3, TimesCounted
    <3> QED
      BY <3>1, <3>4
  <2>5. new \in Seq(X)
    BY <1>1, <1>3
  <2> HIDE DEF new
  <2>6. Listed(E, N, With(G.refs, z, new))
    BY <2>3, <2>4, <2>5, ListedSame
  <2> QED
    BY <1>4, <2>2, <2>6 DEF FilledTo, E, new
<1>6. ASSUME NEW j \in 0 .. n, FilledTo(G, N, z, refs, f[j], j), j < n
      PROVE  FilledTo(G, N, z, refs, f[j + 1], j + 1)
  <2> DEFINE k == j + 1
             g == f[j]
             now == With(G.refs, z, Prefix(refs, j))
             new == Prefix(refs, k)
             r == refs[k]
  <2>1. k \in 1 .. n /\ k - 1 = j /\ k \in 0 .. n
    BY <1>1, <1>6
  <2>2. f[k] = addUse(g, r, z)
    BY <1>4, <2>1
  <2>3. Listed(g, N, now) /\ g.refs = With(G.refs, z, refs) /\ SameRest(G, g)
    BY <1>6 DEF FilledTo
  <2>4. r \in N
    BY <1>1, <2>1
  <2>5. now[z] = Prefix(refs, j) /\ \A y : With(now, z, y) = With(G.refs, z, y)
    BY <1>1, WithOf
  <2>6. new \in Seq(X)
    BY <1>3, <2>1
  <2>7. \A m \in N : Times(new, m) = IF m = r THEN Times(now[z], m) + 1 ELSE Times(now[z], m)
    <3> HIDE DEF n, now
    <3> QED
      BY <1>1, <1>3, <1>6, <2>5
  <2> HIDE DEF k, g, now, new, r
  <2>8. Listed(f[k], N, With(now, z, new)) /\ f[k].refs = g.refs /\ SameRest(g, f[k])
    <3>1. Extends(new, now[z], N, r)
      BY <2>6, <2>7 DEF Extends
    <3>2. Taken(g, N, now, z, new, addUse(g, r, z))
      BY <2>3, <2>4, <3>1, TakenUp
    <3> QED
      BY <2>2, <3>2 DEF Taken
  <2> QED
    BY <2>3, <2>5, <2>8 DEF FilledTo, SameRest, k, g, new
<1>7. FilledTo(G, N, z, refs, f[n], n)
  <2> DEFINE S == {j \in 0 .. n : FilledTo(G, N, z, refs, f[j], j)}
  <2> HIDE DEF n
  <2>1. 0 \in S
    BY <1>1, <1>5
  <2>2. \A j \in 0 .. n : j \in S /\ j < n => j + 1 \in S
    BY <1>1, <1>6
  <2>3. \A j \in S : FilledTo(G, N, z, refs, f[j], j)
    OBVIOUS
  <2> HIDE DEF S
  <2>4. \A j \in 0 .. n : j \in S
    BY <1>1, <2>1, <2>2, Climbs
  <2>5. n \in S
    BY <1>1, <2>4
  <2> QED
    BY <2>3, <2>5
<1> QED
  BY <1>3, <1>4, <1>7 DEF FilledTo, Filled, Linked

EnteredNode(G, N, n, owned, refs, H) ==
  /\ Linked(H, N \cup {n})
  /\ H.refs = Entered(G.refs, n, refs) /\ H.owned = Entered(G.owned, n, owned) /\ H.fault = G.fault
LEMMA NodeEntered ==
  ASSUME NEW G, NEW N, Linked(G, N), NEW n, n \notin N, n # Nil, NEW owned, NEW info
  PROVE  EnteredNode(G, N, n, owned, <<>>, BuildNode(G, n, owned, info))
<1> DEFINE H == BuildNode(G, n, owned, info)
           M == N \cup {n}
<1>1. /\ Nil \notin N /\ G.uses \in [N -> Seq(N)] /\ G.refs \in [N -> Seq(N \cup {Nil})]
      /\ \A m, u \in N : Times(G.uses[m], u) = Times(G.refs[u], m)
  BY DEF Linked, Listed
<1>2. H = [refs |-> Entered(G.refs, n, <<>>), uses |-> Entered(G.uses, n, <<>>),
           owned |-> Entered(G.owned, n, owned), info |-> Entered(G.info, n, info), fault |-> G.fault]
  BY DEF BuildNode
<1> HIDE DEF H
<1>3. /\ H.refs = Entered(G.refs, n, <<>>) /\ H.uses = Entered(G.uses, n, <<>>)
      /\ H.owned = Entered(G.owned, n, owned) /\ H.fault = G.fault /\ Formed(H)
  BY <1>2 DEF Formed
<1>4. /\ H.uses = [m \in M |-> IF m = n THEN <<>> ELSE G.uses[m]]
      /\ H.refs = [m \in M |-> IF m = n THEN <<>> ELSE G.refs[m]]
  BY <1>1, <1>3 DEF Entered
<1>5. ASSUME NEW m \in N, NEW x, x \notin N, x # Nil
      PROVE  Times(G.uses[m], x) = 0 /\ Times(G.refs[m], x) = 0
  <2>1. G.uses[m] \in Seq(N) /\ G.refs[m] \in Seq(N \cup {Nil})
    BY <1>1
  <2>2. \A k \in 1 .. Len(G.uses[m]) : G.uses[m][k] # x
    BY <1>5, <2>1, ElementOfSeq
  <2>3. \A k \in 1 .. Len(G.refs[m]) : G.refs[m][k] # x
    <3>1. \A k \in 1 .. Len(G.refs[m]) : G.refs[m][k] \in N \cup {Nil}
      BY <2>1, ElementOfSeq
    <3> QED
      BY <1>5, <3>1
  <2>4. Times(G.uses[m], x) = 0
    BY <2>1, <2>2, TimesCounted
  <2>5. Times(G.refs[m], x) = 0
    BY <2>1, <2>3, TimesCounted
  <2> QED
    BY <2>4, <2>5
<1>6. \A x : Times(<<>>, x) = 0
  <2> SUFFICES ASSUME NEW x  PROVE Times(<<>>, x) = 0
    OBVIOUS
  <2>1. <<>> \in Seq(N) /\ Len(<<>>) = 0
    OBVIOUS
  <2>2. \A k \in 1 .. Len(<<>>) : <<>>[k] # x
    BY <2>1
  <2> QED
    BY <2>1, <2>2, TimesCounted
<1>7. ASSUME NEW m \in M, NEW u \in M  PROVE Times(H.uses[m], u) = Times(H.refs[u], m)
  <2>1. CASE m = n /\ u = n
    BY <1>4, <1>6, <2>1
  <2>2. CASE m = n /\ u \in N
    <3>1. H.uses[m] = <<>> /\ H.refs[u] = G.refs[u]
      BY <1>4, <2>2
    <3> QED
      BY <1>5, <1>6, <2>2, <3>1
  <2>3. CASE m \in N /\ u = n
    <3>1. H.uses[m] = G.uses[m] /\ H.refs[u] = <<>>
      BY <1>4, <2>3
    <3> QED
      BY <1>5, <1>6, <2>3, <3>1
  <2>4. CASE m \in N /\ u \in N
    <3>1. H.uses[m] = G.uses[m] /\ H.refs[u] = G.refs[u]
      BY <1>4, <2>4
    <3> QED
      BY <1>1, <2>4, <3>1
  <2> QED
    BY <2>1, <2>2, <2>3, <2>4
<1>8. H.uses \in [M -> Seq(M)]
  <2>1. \A m \in M : H.uses[m] \in Seq(M)
    <3> SUFFICES ASSUME NEW m \in M  PROVE H.uses[m] \in Seq(M)
      OBVIOUS
    <3>1. CASE m = n
      BY <1>4, <3>1
    <3>2. CASE m \in N /\ m # n
      <4>1. H.uses[m] = G.uses[m] /\ G.uses[m] \in Seq(N)
        BY <1>1, <1>4, <3>2
      <4>2. \A k \in DOMAIN G.uses[m] : G.uses[m][k] \in M
        BY <4>1, ElementOfSeq, LenProperties
      <4> HIDE DEF M
      <4>3. G.uses[m] \in Seq(M)
        BY <4>1, <4>2, SeqWithout
      <4> QED
        BY <4>1, <4>3
    <3> QED
      BY <3>1, <3>2
  <2> QED
    BY <1>4, <2>1
<1>9. H.refs \in [M -> Seq(M \cup {Nil})]
  <2> DEFINE Y == M \cup {Nil}
  <2>1. \A m \in M : H.refs[m] \in Seq(Y)
    <3> SUFFICES ASSUME NEW m \in M  PROVE H.refs[m] \in Seq(Y)
      OBVIOUS
    <3>1. CASE m = n
      BY <1>4, <3>1
    <3>2. CASE m \in N /\ m # n
      <4> DEFINE X == N \cup {Nil}
      <4>1. H.refs[m] = G.refs[m] /\ G.refs[m] \in Seq(X) /\ X \subseteq Y
        BY <1>1, <1>4, <3>2
      <4> HIDE DEF X, Y
      <4>2. \A k \in DOMAIN G.refs[m] : G.refs[m][k] \in Y
        BY <4>1, ElementOfSeq, LenProperties
      <4>3. G.refs[m] \in Seq(Y)
        BY <4>1, <4>2, SeqWithout
      <4> QED
        BY <4>1, <4>3
    <3> QED
      BY <3>1, <3>2
  <2> QED
    BY <1>4, <2>1
<1>10. Linked(H, M)
  <2>1. Nil \notin M
    BY <1>1
  <2> HIDE DEF M
  <2> QED
    BY <1>3, <1>7, <1>8, <1>9, <2>1 DEF Linked, Listed
<1> QED
  BY <1>3, <1>10 DEF EnteredNode, H

LEMMA UserEntered ==
  ASSUME NEW G, NEW N, Linked(G, N), NEW n, n \notin N, n # Nil, NEW refs \in Seq(N)
  PROVE  EnteredNode(G, N, n, <<>>, refs, BuildUser(G, n, refs))
<1> DEFINE B == BuildNode(G, n, <<>>, <<>>)
           H == setContent(B, n, refs)
           M == N \cup {n}
<1>1. /\ Linked(B, M) /\ B.refs = Entered(G.refs, n, <<>>)
      /\ B.owned = Entered(G.owned, n, <<>>) /\ B.fault = G.fault
  BY NodeEntered DEF EnteredNode
<1>2. n \in M /\ B.refs[n] = <<>> /\ DOMAIN G.refs = N
  BY <1>1, LinkedFields DEF Entered
<1>3. refs \in Seq(M)
  <2>1. \A k \in DOMAIN refs : refs[k] \in M
    BY ElementOfSeq, LenProperties
  <2> HIDE DEF M
  <2> QED
    BY <2>1, SeqWithout
<1> HIDE DEF B, M
<1>4. Filled(B, M, n, refs, H)
  BY <1>1, <1>2, <1>3, ContentFilled
<1> HIDE DEF H
<1>5. With(B.refs, n, refs) = Entered(G.refs, n, refs)
  BY <1>1, <1>2 DEF Entered, With
<1>6. EnteredNode(G, N, n, <<>>, refs, H)
  BY <1>1, <1>4, <1>5 DEF EnteredNode, Filled, SameRest, M
<1> QED
  BY <1>6 DEF BuildUser, B, H

LEMMA SegmentTold ==
  ASSUME NEW G, NEW N, Linked(G, N), NEW n \in N, NEW segment \in N
  PROVE  Filled(G, N, n, Append(G.refs[n], segment), addInitializer(G, n, segment))
<1> DEFINE new == Append(G.refs[n], segment)
           E == [G EXCEPT !.refs[n] = Append(@, segment)]
           H == addUse(E, segment, n)
           X == N \cup {Nil}
<1>1. Formed(G) /\ DOMAIN G.refs = N /\ Functional(G.refs) /\ G.refs[n] \in Seq(X)
  BY LinkedFields
<1>2. E = Relinked(G, With(G.refs, n, new), G.uses)
  <2>1. E = [G EXCEPT !.refs = With(G.refs, n, new)]
    BY <1>1 DEF Formed, With
  <2> HIDE DEF E, new
  <2> QED
    BY <1>1, <2>1 DEF Formed, Relinked
<1> HIDE DEF E, X
<1>3. E.refs = With(G.refs, n, new) /\ E.uses = G.uses /\ SameRest(G, E) /\ Formed(E)
  <2> HIDE DEF new
  <2> QED
    BY <1>2, RelinkedIs
<1>4. Listed(E, N, G.refs)
  BY <1>3 DEF Listed, Linked
<1>5. new \in Seq(X) /\ \A m : Times(new, m) = IF m = segment THEN Times(G.refs[n], m) + 1 ELSE Times(G.refs[n], m)
  <2>1. segment \in X
    BY DEF X
  <2> QED
    BY <1>1, <2>1, TimesAppended
<1> HIDE DEF new, H
<1>6. Taken(E, N, G.refs, n, new, H)
  <2>1. Extends(new, G.refs[n], N, segment)
    BY <1>5 DEF Extends, X
  <2> QED
    BY <1>4, <2>1, TakenUp DEF H
<1>7. Listed(H, N, With(G.refs, n, new)) /\ H.refs = With(G.refs, n, new) /\ SameRest(G, H)
  BY <1>3, <1>6 DEF Taken, SameRest
<1>8. Filled(G, N, n, new, H)
  BY <1>7 DEF Filled, Linked
<1> QED
  BY <1>8 DEF addInitializer, H, E, new

(* A reference that finds no node: the fault is there to stay.                 *)
LEMMA UserFaults ==
  ASSUME NEW G, NEW n, NEW r, Formed(G), r # Nil, r # n, G.fault \/ ~Alive(G, r)
  PROVE  BuildUser(G, n, <<r>>).fault
<1> DEFINE B == BuildNode(G, n, <<>>, <<>>)
           E == Referring(B, n, <<r>>)
           H == setContent(B, n, <<r>>)
<1>1. (B.fault <=> G.fault) /\ B.uses = Entered(G.uses, n, <<>>) /\ Formed(B)
  BY DEF BuildNode, Formed
<1>2. DOMAIN B.uses = DOMAIN G.uses \cup {n}
  BY <1>1 DEF Entered
<1> HIDE DEF B
<1>3. (E.fault <=> B.fault) /\ E.uses = B.uses /\ Formed(E)
  BY <1>1 DEF Referring, Formed
<1>4. H = addUse(E, r, n)
  <2>1. Len(<<r>>) = 1 /\ <<r>>[1] = r
    OBVIOUS
  <2>2. PICK f : /\ f[0] = Referring(B, n, <<r>>) /\ setContent(B, n, <<r>>) = f[Len(<<r>>)]
                 /\ \A i \in 1 .. Len(<<r>>) : f[i] = addUse(f[i - 1], <<r>>[i], n)
    BY <2>1, FillsContent
  <2>3. f[1] = addUse(f[0], r, n)
    BY <2>1, <2>2
  <2> QED
    BY <2>1, <2>2, <2>3
<1> HIDE DEF E, H
<1> SUFFICES H.fault
  BY DEF BuildUser, B, H
<1>5. CASE ~Alive(E, r)
  <2>1. H = [E EXCEPT !.fault = TRUE]
    BY <1>4, <1>5 DEF addUse
  <2>2. H = [refs |-> E.refs, uses |-> E.uses, owned |-> E.owned, info |-> E.info, fault |-> TRUE]
    BY <1>3, <2>1 DEF Formed
  <2> QED
    BY <2>2
<1>6. CASE Alive(E, r)
  <2>1. G.fault
    BY <1>1, <1>2, <1>3, <1>6 DEF Alive
  <2>2. H.fault <=> E.fault
    <3>1. H = [E EXCEPT !.uses[r] = <<n>> \o @]
      BY <1>4, <1>6 DEF addUse
    <3> DEFINE uses == [E.uses EXCEPT ![r] = <<n>> \o @]
    <3>2. H = [E EXCEPT !.uses = uses]
      BY <1>3, <3>1 DEF Formed
    <3> HIDE DEF uses
    <3>3. H = [refs |-> E.refs, uses |-> uses, owned |-> E.owned, info |-> E.info, fault |-> E.fault]
      BY <1>3, <3>2 DEF Formed
    <3> QED
      BY <3>3
  <2> QED
    BY <1>1, <1>3, <2>1, <2>2
<1> QED
  BY <1>5, <1>6

-----------------------------------------------------------------------------
(* The loops of ModuleView and of the checks, iteration by iteration.       *)

Kept(M, k, before, p) == IF M.imports[p].kind = k THEN Append(before, M.imports[p]) ELSE before
Keeps(M, k, f, m) ==
  f = [i \in 0 .. m |-> IF i = 0 THEN <<>> ELSE Kept(M, k, f[i - 1], i)]

LEMMA KeepsFor ==
  ASSUME NEW M, NEW k, Len(M.imports) \in Nat
  PROVE  \E f : Keeps(M, k, f, Len(M.imports))
<1> DEFINE n == Len(M.imports)
           S == {m \in 0 .. n : \E f : Keeps(M, k, f, m)}
<1>1. 0 \in S
  <2>1. Keeps(M, k, [i \in 0 .. 0 |-> <<>>], 0)
    BY DEF Keeps
  <2> QED
    BY <2>1
<1>2. ASSUME NEW m \in 0 .. n, m \in S, m < n  PROVE m + 1 \in S
  <2>1. PICK f : Keeps(M, k, f, m)
    BY <1>2
  <2> DEFINE g == [i \in 0 .. m + 1 |-> IF i = m + 1 THEN Kept(M, k, f[m], m + 1) ELSE f[i]]
  <2>2. ASSUME NEW i \in 0 .. m + 1
        PROVE  g[i] = IF i = 0 THEN <<>> ELSE Kept(M, k, g[i - 1], i)
    <3>1. CASE i = m + 1
      <4>1. g[i] = Kept(M, k, f[m], i) /\ g[i - 1] = f[m]
        BY <1>2, <3>1
      <4> QED
        BY <1>2, <3>1, <4>1
    <3>2. CASE i # m + 1
      <4>1. i \in 0 .. m /\ g[i] = f[i]
        BY <1>2, <3>2
      <4>2. f[i] = IF i = 0 THEN <<>> ELSE Kept(M, k, f[i - 1], i)
        BY <2>1, <4>1 DEF Keeps
      <4>3. i # 0 => g[i - 1] = f[i - 1]
        BY <1>2, <4>1
      <4> QED
        BY <4>1, <4>2, <4>3
    <3> QED
      BY <3>1, <3>2
  <2>3. Keeps(M, k, g, m + 1)
    BY <2>2 DEF Keeps
  <2> QED
    BY <1>2, <2>3
<1>3. n \in S
  <2>1. \A m \in 0 .. n : m \in S /\ m < n => m + 1 \in S
    BY <1>2
  <2> HIDE DEF S
  <2>2. \A m \in 0 .. n : m \in S
    BY <1>1, <2>1, Climbs
  <2> QED
    BY <2>2
<1> QED
  BY <1>3

LEMMA KeepsImports ==
  ASSUME NEW M, NEW k, Len(M.imports) \in Nat
  PROVE  \E f : /\ f[0] = <<>> /\ ImportsOf(M, k) = f[Len(M.imports)]
                /\ \A i \in 1 .. Len(M.imports) : f[i] = Kept(M, k, f[i - 1], i)
<1> DEFINE f == CHOOSE f : Keeps(M, k, f, Len(M.imports))
<1>1. Keeps(M, k, f, Len(M.imports))
  BY KeepsFor
<1>2. ImportsOf(M, k) = f[Len(M.imports)]
  BY DEF ImportsOf, Kept, Keeps
<1> DEFINE n == Len(M.imports)
<1> HIDE DEF f, n
<1>3. f = [i \in 0 .. n |-> IF i = 0 THEN <<>> ELSE Kept(M, k, f[i - 1], i)]
  BY <1>1 DEF Keeps, n
<1>4. n \in Nat
  BY DEF n
<1>5. f[0] = <<>>
  BY <1>3, <1>4
<1>6. ASSUME NEW i \in 1 .. n  PROVE f[i] = Kept(M, k, f[i - 1], i)
  BY <1>3, <1>4, <1>6
<1>7. ImportsOf(M, k) = f[n]
  BY <1>2 DEF n
<1> QED
  BY <1>5, <1>6, <1>7 DEF n

Noted(M, k, x, before, e) ==
  IF M.exports[e].kind = k /\ M.exports[e].index = x THEN <<M.exports[e].name>> ELSE before
Notes(M, k, x, f, m) ==
  f = [i \in 0 .. m |-> IF i = 0 THEN <<>> ELSE Noted(M, k, x, f[i - 1], i)]

LEMMA NotesFor ==
  ASSUME NEW M, NEW k, NEW x, Len(M.exports) \in Nat
  PROVE  \E f : Notes(M, k, x, f, Len(M.exports))
<1> DEFINE n == Len(M.exports)
           S == {m \in 0 .. n : \E f : Notes(M, k, x, f, m)}
<1>1. 0 \in S
  <2>1. Notes(M, k, x, [i \in 0 .. 0 |-> <<>>], 0)
    BY DEF Notes
  <2> QED
    BY <2>1
<1>2. ASSUME NEW m \in 0 .. n, m \in S, m < n  PROVE m + 1 \in S
  <2>1. PICK f : Notes(M, k, x, f, m)
    BY <1>2
  <2> DEFINE g == [i \in 0 .. m + 1 |-> IF i = m + 1 THEN Noted(M, k, x, f[m], m + 1) ELSE f[i]]
  <2>2. ASSUME NEW i \in 0 .. m + 1
        PROVE  g[i] = IF i = 0 THEN <<>> ELSE Noted(M, k, x, g[i - 1], i)
    <3>1. CASE i = m + 1
      <4>1. g[i] = Noted(M, k, x, f[m], i) /\ g[i - 1] = f[m]
        BY <1>2, <3>1
      <4> QED
        BY <1>2, <3>1, <4>1
    <3>2. CASE i # m + 1
      <4>1. i \in 0 .. m /\ g[i] = f[i]
        BY <1>2, <3>2
      <4>2. f[i] = IF i = 0 THEN <<>> ELSE Noted(M, k, x, f[i - 1], i)
        BY <2>1, <4>1 DEF Notes
      <4>3. i # 0 => g[i - 1] = f[i - 1]
        BY <1>2, <4>1
      <4> QED
        BY <4>1, <4>2, <4>3
    <3> QED
      BY <3>1, <3>2
  <2>3. Notes(M, k, x, g, m + 1)
    BY <2>2 DEF Notes
  <2> QED
    BY <1>2, <2>3
<1>3. n \in S
  <2>1. \A m \in 0 .. n : m \in S /\ m < n => m + 1 \in S
    BY <1>2
  <2> HIDE DEF S
  <2>2. \A m \in 0 .. n : m \in S
    BY <1>1, <2>1, Climbs
  <2> QED
    BY <2>2
<1> QED
  BY <1>3

LEMMA NotesExports ==
  ASSUME NEW M, NEW k, NEW x, Len(M.exports) \in Nat
  PROVE  \E f : /\ f[0] = <<>> /\ ExportOf(M, k, x) = f[Len(M.exports)]
                /\ \A i \in 1 .. Len(M.exports) : f[i] = Noted(M, k, x, f[i - 1], i)
<1> DEFINE f == CHOOSE f : Notes(M, k, x, f, Len(M.exports))
<1>1. Notes(M, k, x, f, Len(M.exports))
  BY NotesFor
<1>2. ExportOf(M, k, x) = f[Len(M.exports)]
  BY DEF ExportOf, Noted, Notes
<1> DEFINE n == Len(M.exports)
<1> HIDE DEF f, n
<1>3. f = [i \in 0 .. n |-> IF i = 0 THEN <<>> ELSE Noted(M, k, x, f[i - 1], i)]
  BY <1>1 DEF Notes, n
<1>4. n \in Nat
  BY DEF n
<1>5. f[0] = <<>>
  BY <1>3, <1>4
<1>6. ASSUME NEW i \in 1 .. n  PROVE f[i] = Noted(M, k, x, f[i - 1], i)
  BY <1>3, <1>4, <1>6
<1>7. ExportOf(M, k, x) = f[n]
  BY <1>2 DEF n
<1> QED
  BY <1>5, <1>6, <1>7 DEF n

Empty == [stack |-> <<>>, error |-> None]
Walks(M, importedOnly, expr, f, m) ==
  f = [i \in 0 .. m |-> IF i = 0 THEN Empty ELSE Step(M, importedOnly, f[i - 1], expr[i])]

LEMMA WalksFor ==
  ASSUME NEW M, NEW importedOnly, NEW expr, Len(expr) \in Nat
  PROVE  \E f : Walks(M, importedOnly, expr, f, Len(expr))
<1> DEFINE n == Len(expr)
           S == {m \in 0 .. n : \E f : Walks(M, importedOnly, expr, f, m)}
<1>1. 0 \in S
  <2>1. Walks(M, importedOnly, expr, [i \in 0 .. 0 |-> Empty], 0)
    BY DEF Walks
  <2> QED
    BY <2>1
<1>2. ASSUME NEW m \in 0 .. n, m \in S, m < n  PROVE m + 1 \in S
  <2>1. PICK f : Walks(M, importedOnly, expr, f, m)
    BY <1>2
  <2> DEFINE g == [i \in 0 .. m + 1 |-> IF i = m + 1 THEN Step(M, importedOnly, f[m], expr[m + 1]) ELSE f[i]]
  <2>2. ASSUME NEW i \in 0 .. m + 1
        PROVE  g[i] = IF i = 0 THEN Empty ELSE Step(M, importedOnly, g[i - 1], expr[i])
    <3>1. CASE i = m + 1
      <4>1. g[i] = Step(M, importedOnly, f[m], expr[i]) /\ g[i - 1] = f[m]
        BY <1>2, <3>1
      <4> QED
        BY <1>2, <3>1, <4>1
    <3>2. CASE i # m + 1
      <4>1. i \in 0 .. m /\ g[i] = f[i]
        BY <1>2, <3>2
      <4>2. f[i] = IF i = 0 THEN Empty ELSE Step(M, importedOnly, f[i - 1], expr[i])
        BY <2>1, <4>1 DEF Walks
      <4>3. i # 0 => g[i - 1] = f[i - 1]
        BY <1>2, <4>1
      <4> QED
        BY <4>1, <4>2, <4>3
    <3> QED
      BY <3>1, <3>2
  <2>3. Walks(M, importedOnly, expr, g, m + 1)
    BY <2>2 DEF Walks
  <2> QED
    BY <1>2, <2>3
<1>3. n \in S
  <2>1. \A m \in 0 .. n : m \in S /\ m < n => m + 1 \in S
    BY <1>2
  <2> HIDE DEF S
  <2>2. \A m \in 0 .. n : m \in S
    BY <1>1, <2>1, Climbs
  <2> QED
    BY <2>2
<1> QED
  BY <1>3

Verdict(M, s, expr, wanted) ==
  CASE s.error # None -> s.error
    [] s.error = None /\ s.stack # <<wanted>> -> "TypeError"
    [] OTHER -> IF \A j \in DOMAIN expr : ConstInst(M, expr[j]) THEN None ELSE "NON_CONST_EXPRESSION"

LEMMA WalksExpression ==
  ASSUME NEW M, NEW expr, NEW wanted, NEW importedOnly, Len(expr) \in Nat
  PROVE  \E f : /\ f[0] = Empty
                /\ ExprError(M, expr, wanted, importedOnly) = Verdict(M, f[Len(expr)], expr, wanted)
                /\ \A j \in 1 .. Len(expr) : f[j] = Step(M, importedOnly, f[j - 1], expr[j])
<1> DEFINE n == Len(expr)
           f == CHOOSE f : Walks(M, importedOnly, expr, f, n)
<1>1. Walks(M, importedOnly, expr, f, n)
  BY WalksFor
<1>2. ExprError(M, expr, wanted, importedOnly) = Verdict(M, f[n], expr, wanted)
  BY DEF ExprError, Walks, Empty, Verdict
<1> HIDE DEF f, n
<1>3. f = [j \in 0 .. n |-> IF j = 0 THEN Empty ELSE Step(M, importedOnly, f[j - 1], expr[j])]
  BY <1>1 DEF Walks
<1>4. n \in Nat
  BY DEF n
<1>5. f[0] = Empty
  BY <1>3, <1>4
<1>6. ASSUME NEW j \in 1 .. n  PROVE f[j] = Step(M, importedOnly, f[j - 1], expr[j])
  BY <1>3, <1>4, <1>6
<1> QED
  BY <1>2, <1>5, <1>6 DEF n

-----------------------------------------------------------------------------
(* The imports of a kind, by the number of those before them.               *)

UpTo(M, k, p) == {q \in 1 .. p : M.imports[q].kind = k}
Rank(M, k, q) == Cardinality(UpTo(M, k, q - 1)) + 1

Collected(M, k, p, kept) ==
  /\ kept \in Seq({M.imports[q] : q \in DOMAIN M.imports})
  /\ IsFiniteSet(UpTo(M, k, p)) /\ Cardinality(UpTo(M, k, p)) = Len(kept) /\ Len(kept) <= p
  /\ \A q \in UpTo(M, k, p) : Rank(M, k, q) \in 1 .. Len(kept) /\ kept[Rank(M, k, q)] = M.imports[q]
  /\ \A i \in 1 .. Len(kept) : \E q \in UpTo(M, k, p) : Rank(M, k, q) = i

LEMMA KeptCollects ==
  ASSUME NEW M, NEW k, DOMAIN M.imports = 1 .. Len(M.imports), Len(M.imports) \in Nat,
         NEW p \in 1 .. Len(M.imports), NEW kept, Collected(M, k, p - 1, kept)
  PROVE  Collected(M, k, p, Kept(M, k, kept, p))
<1> DEFINE X == {M.imports[q] : q \in DOMAIN M.imports}
           U == UpTo(M, k, p - 1)
           h == Len(kept)
           e == M.imports[p]
<1>1. e \in X /\ kept \in Seq(X) /\ h \in Nat
  BY DEF Collected
<1>2. IsFiniteSet(U) /\ Cardinality(U) = h /\ h <= p - 1
  BY DEF Collected
<1>3. Rank(M, k, p) = h + 1
  BY <1>2 DEF Rank
<1>4. CASE e.kind = k
  <2>1. UpTo(M, k, p) = U \cup {p} /\ p \notin U
    BY <1>4 DEF UpTo
  <2>2. IsFiniteSet(UpTo(M, k, p)) /\ Cardinality(UpTo(M, k, p)) = h + 1
    <3>1. /\ IsFiniteSet(U \cup {p})
          /\ Cardinality(U \cup {p}) = IF p \in U THEN Cardinality(U) ELSE Cardinality(U) + 1
      <4> HIDE DEF U
      <4> QED
        BY <1>2, FS_AddElement
    <3> HIDE DEF U
    <3> QED
      BY <1>2, <2>1, <3>1
  <2> DEFINE more == Append(kept, e)
  <2>3. more \in Seq(X) /\ Len(more) = h + 1 /\ more[h + 1] = e /\ \A i \in 1 .. h : more[i] = kept[i]
    <3> HIDE DEF X, e
    <3> QED
      BY <1>1
  <2>4. \A q \in U : Rank(M, k, q) \in 1 .. h /\ kept[Rank(M, k, q)] = M.imports[q]
    BY DEF Collected
  <2>5. \A i \in 1 .. h : \E q \in U : Rank(M, k, q) = i
    BY DEF Collected
  <2> HIDE DEF more, U
  <2>6. ASSUME NEW q \in UpTo(M, k, p)
        PROVE  Rank(M, k, q) \in 1 .. h + 1 /\ more[Rank(M, k, q)] = M.imports[q]
    <3>1. CASE q = p
      BY <1>1, <1>3, <2>3, <3>1
    <3>2. CASE q \in U
      <4> DEFINE r == Rank(M, k, q)
      <4>1. r \in 1 .. h /\ kept[r] = M.imports[q]
        BY <2>4, <3>2
      <4> HIDE DEF r
      <4>2. more[r] = kept[r] /\ r \in 1 .. h + 1
        BY <1>1, <2>3, <4>1
      <4> QED
        BY <4>1, <4>2 DEF r
    <3> QED
      BY <2>1, <3>1, <3>2
  <2>7. ASSUME NEW i \in 1 .. h + 1  PROVE \E q \in UpTo(M, k, p) : Rank(M, k, q) = i
    <3>1. CASE i = h + 1
      BY <1>3, <2>1, <3>1
    <3>2. CASE i \in 1 .. h
      BY <2>1, <2>5, <3>2
    <3> QED
      BY <1>1, <3>1, <3>2
  <2>8. Kept(M, k, kept, p) = more /\ h + 1 <= p
    BY <1>2, <1>4 DEF Kept, more
  <2> QED
    BY <2>2, <2>3, <2>6, <2>7, <2>8 DEF Collected
<1>5. CASE e.kind # k
  <2>1. UpTo(M, k, p) = U
    BY <1>5 DEF UpTo
  <2>2. Kept(M, k, kept, p) = kept /\ h <= p
    BY <1>1, <1>2, <1>5 DEF Kept
  <2> QED
    BY <2>1, <2>2 DEF Collected
<1> QED
  BY <1>4, <1>5

LEMMA ImportsCollected ==
  ASSUME NEW M, NEW k, DOMAIN M.imports = 1 .. Len(M.imports), Len(M.imports) \in Nat
  PROVE  Collected(M, k, Len(M.imports), ImportsOf(M, k))
<1> DEFINE n == Len(M.imports)
<1>1. PICK f : /\ f[0] = <<>> /\ ImportsOf(M, k) = f[n]
               /\ \A i \in 1 .. n : f[i] = Kept(M, k, f[i - 1], i)
  BY KeepsImports
<1> DEFINE S == {p \in 0 .. n : Collected(M, k, p, f[p])}
<1>2. 0 \in S
  <2>1. UpTo(M, k, 0) = {}
    BY DEF UpTo
  <2>2. IsFiniteSet({}) /\ Cardinality({}) = 0
    BY FS_EmptySet
  <2> DEFINE none == f[0]
  <2>3. none \in Seq({M.imports[q] : q \in DOMAIN M.imports}) /\ Len(none) = 0
    BY <1>1
  <2> HIDE DEF none
  <2>4. Collected(M, k, 0, none)
    BY <2>1, <2>2, <2>3, SMTT(30) DEF Collected
  <2> QED
    BY <2>4 DEF none
<1>3. ASSUME NEW i \in 0 .. n, i \in S, i < n  PROVE i + 1 \in S
  <2>1. i + 1 \in 1 .. n /\ (i + 1) - 1 = i
    BY <1>3
  <2>2. Collected(M, k, i + 1, Kept(M, k, f[i], i + 1))
    BY <1>3, <2>1, KeptCollects
  <2>3. f[i + 1] = Kept(M, k, f[i], i + 1)
    BY <1>1, <2>1
  <2> QED
    BY <2>1, <2>2, <2>3
<1> HIDE DEF S
<1>4. \A i \in 0 .. n : i \in S
  BY <1>2, <1>3, Climbs
<1>5. n \in S
  BY <1>4
<1> QED
  BY <1>1, <1>5 DEF S

-----------------------------------------------------------------------------
(* What a module of the parser's is made of.                                *)

IsList(s) == Len(s) \in Nat /\ DOMAIN s = 1 .. Len(s)

LEMMA ListOf ==
  ASSUME NEW X, NEW s \in Seq(X)
  PROVE  IsList(s) /\ \A j \in DOMAIN s : s[j] \in X
BY DEF IsList

LEMMA ModuleLists ==
  ASSUME NEW M \in BytecodeModules
  PROVE  /\ IsList(M.types) /\ IsList(M.imports) /\ IsList(M.functions) /\ IsList(M.tables)
         /\ IsList(M.memories) /\ IsList(M.globals) /\ IsList(M.elements) /\ IsList(M.data)
         /\ IsList(M.start) /\ IsList(M.exports)
BY ListOf DEF BytecodeModules

LEMMA ImportFields ==
  ASSUME NEW M \in BytecodeModules, NEW p \in DOMAIN M.imports
  PROVE  /\ M.imports[p].kind \in Kinds
         /\ M.imports[p].type \in EntityType(M.imports[p].kind)
         /\ M.imports[p].names \in STRING \X STRING
<1> DEFINE X == Import("function") \cup Import("table") \cup Import("memory") \cup Import("global")
           e == M.imports[p]
<1>1. M.imports \in Seq(X)
  BY DEF BytecodeModules
<1>2. e \in X
  <2> HIDE DEF X
  <2> QED
    BY <1>1, ListOf
<1>3. PICK k \in Kinds : e \in Import(k)
  BY <1>2 DEF Kinds
<1>4. e.kind = k /\ e.type \in EntityType(k) /\ e.names \in STRING \X STRING
  <2> HIDE DEF e
  <2> QED
    BY <1>3 DEF Import
<1> QED
  BY <1>4

LEMMA DefinitionFields ==
  ASSUME NEW M \in BytecodeModules, NEW k \in Kinds
  PROVE  /\ IsList(Definitions(M, k))
         /\ \A j \in DOMAIN Definitions(M, k) : Definitions(M, k)[j].type \in EntityType(k)
<1>1. CASE k = "function"
  <2>1. M.functions \in Seq([type : EntityType("function"), body : Seq({"call", "set", "grow", "untyped"} \X Nat)])
    BY DEF BytecodeModules
  <2>2. /\ IsList(M.functions)
        /\ \A j \in DOMAIN M.functions : M.functions[j] \in [type : EntityType("function"), body : Seq({"call", "set", "grow", "untyped"} \X Nat)]
    BY <2>1, ListOf
  <2> QED
    BY <1>1, <2>2 DEF Definitions
<1>2. CASE k = "table"
  <2>1. M.tables \in Seq([type : EntityType("table")])
    BY DEF BytecodeModules
  <2>2. IsList(M.tables) /\ \A j \in DOMAIN M.tables : M.tables[j] \in [type : EntityType("table")]
    BY <2>1, ListOf
  <2> QED
    BY <1>2, <2>2 DEF Definitions
<1>3. CASE k = "memory"
  <2>1. M.memories \in Seq([type : EntityType("memory")])
    BY DEF BytecodeModules
  <2>2. IsList(M.memories) /\ \A j \in DOMAIN M.memories : M.memories[j] \in [type : EntityType("memory")]
    BY <2>1, ListOf
  <2> QED
    BY <1>3, <2>2 DEF Definitions
<1>4. CASE k = "global"
  <2>1. M.globals \in Seq([type : EntityType("global"), init : Seq(InitInstruction)])
    BY DEF BytecodeModules
  <2>2. IsList(M.globals) /\ \A j \in DOMAIN M.globals : M.globals[j] \in [type : EntityType("global"), init : Seq(InitInstruction)]
    BY <2>1, ListOf
  <2> QED
    BY <1>4, <2>2 DEF Definitions
<1> QED
  BY <1>1, <1>2, <1>3, <1>4 DEF Kinds

-----------------------------------------------------------------------------
(* The view: what is imported by rank, then what is defined.                *)

LEMMA ViewIs ==
  ASSUME NEW M \in BytecodeModules, NEW k \in Kinds
  PROVE  /\ IsList(View(M, k)) /\ NumEntities(M, k) = Len(View(M, k))
         /\ Len(ImportsOf(M, k)) \in Nat /\ Len(Definitions(M, k)) \in Nat
         /\ Len(View(M, k)) = Len(ImportsOf(M, k)) + Len(Definitions(M, k))
         /\ \A i \in 1 .. Len(ImportsOf(M, k)) :
              /\ View(M, k)[i].type = TypeIn(M, k, ImportsOf(M, k)[i].type)
              /\ View(M, k)[i].import = ImportsOf(M, k)[i].names
              /\ View(M, k)[i].export = ExportOf(M, k, i - 1)
              /\ View(M, k)[i].entity = <<>>
         /\ \A j \in 1 .. Len(Definitions(M, k)) :
              LET i == Len(ImportsOf(M, k)) + j IN
              /\ View(M, k)[i].type = TypeIn(M, k, Definitions(M, k)[j].type)
              /\ View(M, k)[i].import = <<>>
              /\ View(M, k)[i].export = ExportOf(M, k, i - 1)
              /\ View(M, k)[i].entity = <<Definitions(M, k)[j]>>
<1> DEFINE h == Len(ImportsOf(M, k))
           d == Len(Definitions(M, k))
           front == [i \in DOMAIN ImportsOf(M, k) |-> ImportedEntity(M, k, i)]
           back == [j \in DOMAIN Definitions(M, k) |-> DefinedEntity(M, k, j)]
           space == front \o back
<1>1. IsList(M.imports)
  BY ModuleLists
<1>2. Collected(M, k, Len(M.imports), ImportsOf(M, k))
  BY <1>1, ImportsCollected DEF IsList
<1>3. IsList(ImportsOf(M, k)) /\ IsList(Definitions(M, k))
  BY <1>2, ListOf, DefinitionFields DEF Collected
<1>4. h \in Nat /\ d \in Nat /\ DOMAIN ImportsOf(M, k) = 1 .. h /\ DOMAIN Definitions(M, k) = 1 .. d
  BY <1>3 DEF IsList
<1>5. /\ front = [i \in 1 .. h |-> ImportedEntity(M, k, i)]
      /\ back = [j \in 1 .. d |-> DefinedEntity(M, k, j)]
  BY <1>4
<1>6. View(M, k) = WithExports(M, k, space)
  BY DEF View
<1> HIDE DEF h, d, front, back
<1>7. /\ Len(space) = h + d /\ DOMAIN space = 1 .. h + d
      /\ \A i \in 1 .. h : space[i] = ImportedEntity(M, k, i)
      /\ \A j \in 1 .. d : space[h + j] = DefinedEntity(M, k, j)
  BY <1>4, <1>5
<1> HIDE DEF space
<1>8. View(M, k) = [i \in 1 .. h + d |-> [type |-> space[i].type, import |-> space[i].import,
                           entity |-> space[i].entity, export |-> ExportOf(M, k, i - 1)]]
  BY <1>6, <1>7 DEF WithExports
<1>9. IsList(View(M, k)) /\ Len(View(M, k)) = h + d
  BY <1>4, <1>8 DEF IsList
<1>10. ASSUME NEW i \in 1 .. h
       PROVE  /\ View(M, k)[i].type = TypeIn(M, k, ImportsOf(M, k)[i].type)
              /\ View(M, k)[i].import = ImportsOf(M, k)[i].names
              /\ View(M, k)[i].export = ExportOf(M, k, i - 1)
              /\ View(M, k)[i].entity = <<>>
  <2>1. i \in 1 .. h + d /\ space[i] = ImportedEntity(M, k, i)
    BY <1>4, <1>7
  <2> DEFINE v == View(M, k)[i]
  <2>2. v = [type |-> space[i].type, import |-> space[i].import,
             entity |-> space[i].entity, export |-> ExportOf(M, k, i - 1)]
    BY <1>8, <2>1
  <2> HIDE DEF v
  <2>3. /\ v.type = space[i].type /\ v.import = space[i].import
        /\ v.entity = space[i].entity /\ v.export = ExportOf(M, k, i - 1)
    BY <2>2
  <2> QED
    BY <2>1, <2>3 DEF ImportedEntity, v
<1>11. ASSUME NEW j \in 1 .. d, NEW i, i = h + j
       PROVE  /\ View(M, k)[i].type = TypeIn(M, k, Definitions(M, k)[j].type)
              /\ View(M, k)[i].import = <<>>
              /\ View(M, k)[i].export = ExportOf(M, k, i - 1)
              /\ View(M, k)[i].entity = <<Definitions(M, k)[j]>>
  <2>1. i \in 1 .. h + d /\ space[i] = DefinedEntity(M, k, j)
    BY <1>4, <1>7, <1>11
  <2> DEFINE v == View(M, k)[i]
  <2>2. v = [type |-> space[i].type, import |-> space[i].import,
             entity |-> space[i].entity, export |-> ExportOf(M, k, i - 1)]
    BY <1>8, <2>1
  <2> HIDE DEF v
  <2>3. /\ v.type = space[i].type /\ v.import = space[i].import
        /\ v.entity = space[i].entity /\ v.export = ExportOf(M, k, i - 1)
    BY <2>2
  <2>4. /\ space[i].type = TypeIn(M, k, Definitions(M, k)[j].type) /\ space[i].import = <<>>
        /\ space[i].entity = <<Definitions(M, k)[j]>>
    BY <2>1 DEF DefinedEntity
  <2> QED
    BY <2>3, <2>4 DEF v
<1> QED
  BY <1>4, <1>9, <1>10, <1>11 DEF NumEntities, h, d

-----------------------------------------------------------------------------
(* The view is the index spaces, entity by entity.                          *)

LEMMA ImportsRanked ==
  ASSUME module \in BytecodeModules, NEW k \in Kinds
  PROVE  /\ IsFiniteSet(ImportPositions(k))
         /\ Cardinality(ImportPositions(k)) = Len(ImportsOf(module, k))
         /\ Len(ImportsOf(module, k)) <= Len(module.imports)
         /\ \A p \in ImportPositions(k) :
              /\ p \in DOMAIN module.imports
              /\ ImportIndex(p) \in 0 .. Len(ImportsOf(module, k)) - 1
              /\ ImportsOf(module, k)[ImportIndex(p) + 1] = module.imports[p]
         /\ \A i \in 1 .. Len(ImportsOf(module, k)) :
              \E p \in ImportPositions(k) : ImportIndex(p) = i - 1
<1> DEFINE n == Len(module.imports)
           h == Len(ImportsOf(module, k))
<1>1. n \in Nat /\ DOMAIN module.imports = 1 .. n
  BY ModuleLists DEF IsList
<1>2. Collected(module, k, n, ImportsOf(module, k))
  BY <1>1, ImportsCollected
<1>3. h \in Nat
  BY ViewIs
<1>4. ImportPositions(k) = UpTo(module, k, n)
  BY <1>1 DEF ImportPositions, UpTo
<1>5. ASSUME NEW p \in ImportPositions(k)
      PROVE  IsFiniteSet(UpTo(module, k, p - 1)) /\ ImportIndex(p) + 1 = Rank(module, k, p)
                /\ ImportIndex(p) \in Nat
  <2>1. p \in 1 .. n /\ module.imports[p].kind = k
    BY <1>1 DEF ImportPositions
  <2>2. {q \in ImportPositions(module.imports[p].kind) : q < p} = UpTo(module, k, p - 1)
    BY <1>1, <2>1 DEF ImportPositions, UpTo
  <2>3. UpTo(module, k, p - 1) \subseteq UpTo(module, k, n)
    BY <1>1, <2>1 DEF UpTo
  <2>4. IsFiniteSet(UpTo(module, k, p - 1))
    BY <1>2, <2>3, FS_Subset DEF Collected
  <2>5. Cardinality(UpTo(module, k, p - 1)) \in Nat
    BY <2>4, FS_CardinalityType
  <2> QED
    BY <2>2, <2>4, <2>5 DEF ImportIndex, Rank
<1>6. /\ IsFiniteSet(ImportPositions(k)) /\ Cardinality(ImportPositions(k)) = h /\ h <= n
      /\ \A q \in ImportPositions(k) :
           /\ Rank(module, k, q) \in 1 .. h
           /\ ImportsOf(module, k)[Rank(module, k, q)] = module.imports[q]
      /\ \A i \in 1 .. h : \E q \in ImportPositions(k) : Rank(module, k, q) = i
  BY <1>2, <1>4 DEF Collected
<1>7. ASSUME NEW p \in ImportPositions(k)
      PROVE  /\ p \in DOMAIN module.imports
             /\ ImportIndex(p) \in 0 .. h - 1
             /\ ImportsOf(module, k)[ImportIndex(p) + 1] = module.imports[p]
  <2>1. p \in DOMAIN module.imports
    BY DEF ImportPositions
  <2>2. ImportIndex(p) + 1 \in 1 .. h /\ ImportIndex(p) \in Nat
        /\ ImportsOf(module, k)[ImportIndex(p) + 1] = module.imports[p]
    BY <1>5, <1>6
  <2> QED
    BY <1>3, <2>1, <2>2
<1>8. ASSUME NEW i \in 1 .. h  PROVE \E p \in ImportPositions(k) : ImportIndex(p) = i - 1
  <2>1. PICK q \in ImportPositions(k) : Rank(module, k, q) = i
    BY <1>6
  <2>2. ImportIndex(q) + 1 = i /\ ImportIndex(q) \in Nat
    BY <1>5, <2>1
  <2> QED
    BY <1>3, <2>2
<1> QED
  BY <1>6, <1>7, <1>8

LEMMA ImportInView ==
  ASSUME module \in BytecodeModules, NEW k \in Kinds, NEW p \in ImportPositions(k)
  PROVE  /\ p \in DOMAIN module.imports /\ module.imports[p].kind = k
         /\ ImportIndex(p) \in 0 .. Len(View(module, k)) - 1
         /\ ImportIndex(p) \in 0 .. Len(ImportsOf(module, k)) - 1
         /\ At(View(module, k), ImportIndex(p)).type = TypeIn(module, k, module.imports[p].type)
         /\ At(View(module, k), ImportIndex(p)).import = module.imports[p].names
<1> DEFINE h == Len(ImportsOf(module, k))
           i == ImportIndex(p) + 1
<1>1. /\ p \in DOMAIN module.imports /\ ImportIndex(p) \in 0 .. h - 1
      /\ ImportsOf(module, k)[i] = module.imports[p]
  BY ImportsRanked
<1>2. h \in Nat /\ Len(View(module, k)) \in Nat /\ h <= Len(View(module, k))
  BY ViewIs
<1>3. i \in 1 .. h
  BY <1>1, <1>2
<1>4. /\ View(module, k)[i].type = TypeIn(module, k, ImportsOf(module, k)[i].type)
      /\ View(module, k)[i].import = ImportsOf(module, k)[i].names
  <2> HIDE DEF i
  <2> QED
    BY <1>3, ViewIs
<1> QED
  BY <1>1, <1>2, <1>4 DEF At, ImportPositions

LEMMA DefinitionInView ==
  ASSUME module \in BytecodeModules, NEW k \in Kinds, NEW j \in DOMAIN Definitions(module, k)
  PROVE  /\ DefinitionIndex(k, j) \in 0 .. Len(View(module, k)) - 1
         /\ DefinitionIndex(k, j) >= Len(ImportsOf(module, k))
         /\ At(View(module, k), DefinitionIndex(k, j)).type = TypeIn(module, k, Definitions(module, k)[j].type)
         /\ At(View(module, k), DefinitionIndex(k, j)).import = <<>>
<1> DEFINE h == Len(ImportsOf(module, k))
           i == h + j
<1>1. h \in Nat /\ Len(View(module, k)) = h + Len(Definitions(module, k))
      /\ Len(Definitions(module, k)) \in Nat
  BY ViewIs
<1>2. j \in 1 .. Len(Definitions(module, k))
  BY DefinitionFields DEF IsList
<1>3. DefinitionIndex(k, j) = h + j - 1
  BY ImportsRanked DEF DefinitionIndex
<1>4. /\ View(module, k)[i].type = TypeIn(module, k, Definitions(module, k)[j].type)
      /\ View(module, k)[i].import = <<>>
  BY <1>2, ViewIs
<1>5. DefinitionIndex(k, j) + 1 = i
  BY <1>1, <1>2, <1>3
<1> QED
  BY <1>1, <1>2, <1>3, <1>4, <1>5 DEF At

LEMMA EntityIsDeclared ==
  ASSUME module \in BytecodeModules, NEW k \in Kinds, NEW i \in 0 .. Len(View(module, k)) - 1
  PROVE  \/ \E p \in ImportPositions(k) : ImportIndex(p) = i
         \/ \E j \in DOMAIN Definitions(module, k) : DefinitionIndex(k, j) = i
<1> DEFINE h == Len(ImportsOf(module, k))
           d == Len(Definitions(module, k))
<1>1. h \in Nat /\ d \in Nat /\ Len(View(module, k)) = h + d
  BY ViewIs
<1>2. CASE i < h
  <2>1. i + 1 \in 1 .. h
    BY <1>1, <1>2
  <2>2. PICK p \in ImportPositions(k) : ImportIndex(p) = (i + 1) - 1
    BY <2>1, ImportsRanked
  <2> QED
    BY <2>2
<1>3. CASE i >= h
  <2> DEFINE j == i - h + 1
  <2>1. j \in DOMAIN Definitions(module, k)
    BY <1>1, <1>3, DefinitionFields DEF IsList
  <2>2. DefinitionIndex(k, j) = h + j - 1
    BY ImportsRanked DEF DefinitionIndex
  <2>3. DefinitionIndex(k, j) = i
    BY <1>1, <2>2
  <2> QED
    BY <2>1, <2>3
<1> QED
  BY <1>1, <1>2, <1>3

LEMMA ExistsInView ==
  ASSUME module \in BytecodeModules, NEW k \in Kinds
  PROVE  /\ \A i : Exists(k, i) <=> i \in 0 .. Len(View(module, k)) - 1
         /\ \A i : \A t \in Declared(k, i) : TypeIn(module, k, t) = At(View(module, k), i).type
<1>1. ASSUME NEW i, NEW t \in Declared(k, i)
      PROVE  i \in 0 .. Len(View(module, k)) - 1 /\ TypeIn(module, k, t) = At(View(module, k), i).type
  <2>1. CASE \E p \in ImportPositions(k) : ImportIndex(p) = i /\ t = module.imports[p].type
    BY <2>1, ImportInView
  <2>2. CASE \E j \in DOMAIN Definitions(module, k) :
               DefinitionIndex(k, j) = i /\ t = Definitions(module, k)[j].type
    BY <2>2, DefinitionInView
  <2> QED
    BY <2>1, <2>2 DEF Declared
<1>2. ASSUME NEW i \in 0 .. Len(View(module, k)) - 1  PROVE Declared(k, i) # {}
  <2>1. CASE \E p \in ImportPositions(k) : ImportIndex(p) = i
    BY <2>1 DEF Declared
  <2>2. CASE \E j \in DOMAIN Definitions(module, k) : DefinitionIndex(k, j) = i
    BY <2>2 DEF Declared
  <2> QED
    BY <2>1, <2>2, EntityIsDeclared
<1> QED
  BY <1>1, <1>2 DEF Exists

LEMMA PairNotEmpty ==
  ASSUME NEW A, NEW B, NEW x \in A \X B
  PROVE  x # <<>>
<1>1. PICK a \in A, b \in B : x = <<a, b>>
  OBVIOUS
<1>2. Len(<<a, b>>) = 2 /\ Len(<<>>) = 0
  OBVIOUS
<1> QED
  BY <1>1, <1>2

LEMMA ImportedInView ==
  ASSUME module \in BytecodeModules, NEW k \in Kinds, NEW i \in 0 .. Len(View(module, k)) - 1
  PROVE  IsImport(k, i) <=> At(View(module, k), i).import # <<>>
<1>1. ASSUME IsImport(k, i)  PROVE At(View(module, k), i).import # <<>>
  <2>1. PICK p \in ImportPositions(k) : ImportIndex(p) = i
    BY <1>1 DEF IsImport
  <2>2. p \in DOMAIN module.imports /\ At(View(module, k), i).import = module.imports[p].names
    BY <2>1, ImportInView
  <2>3. module.imports[p].names \in STRING \X STRING
    BY <2>2, ImportFields
  <2> QED
    BY <2>2, <2>3, PairNotEmpty
<1>2. ASSUME ~IsImport(k, i)  PROVE At(View(module, k), i).import = <<>>
  <2>1. PICK j \in DOMAIN Definitions(module, k) : DefinitionIndex(k, j) = i
    BY <1>2, EntityIsDeclared DEF IsImport
  <2> QED
    BY <2>1, DefinitionInView
<1> QED
  BY <1>1, <1>2

-----------------------------------------------------------------------------
(* The first error is none exactly if there is none.                        *)

LEMMA FirstIsWrong ==
  ASSUME NEW errors, IsList(errors), Wrong(errors) # {}
  PROVE  First(Wrong(errors)) \in Wrong(errors) /\ First(Wrong(errors)) \in DOMAIN errors
            /\ errors[First(Wrong(errors))] # None
<1> DEFINE P == Wrong(errors)
<1>1. P \in SUBSET Nat /\ P # {}
  BY DEF Wrong, IsList
<1>2. \E j \in P : \A i \in P : j <= i
  <2> HIDE DEF P
  <2> QED
    BY <1>1, SmallestOf
<1>3. First(P) \in P
  BY <1>2 DEF First
<1> QED
  BY <1>3 DEF Wrong

LEMMA FirstOfNone ==
  ASSUME NEW errors, IsList(errors)
  PROVE  FirstOf(errors) = None <=> \A j \in DOMAIN errors : errors[j] = None
<1>1. CASE Wrong(errors) = {}
  BY <1>1 DEF FirstOf, Wrong
<1>2. CASE Wrong(errors) # {}
  <2>1. First(Wrong(errors)) \in DOMAIN errors /\ errors[First(Wrong(errors))] # None
    BY <1>2, FirstIsWrong
  <2> QED
    BY <1>2, <2>1 DEF FirstOf
<1> QED
  BY <1>1, <1>2

LEMMA RefusalsAreWrong ==
  ASSUME NEW M, NEW check, IsList(Errors(M, check))
  PROVE  /\ Refusals(M, check) = {} <=> \A j \in DOMAIN Errors(M, check) : Errors(M, check)[j] = None
         /\ \A r \in Refusals(M, check) :
              r.site = check /\ r.index + 1 \in DOMAIN Errors(M, check) /\ Errors(M, check)[r.index + 1] # None
<1> DEFINE errors == Errors(M, check)
<1>1. CASE Wrong(errors) = {}
  BY <1>1 DEF Refusals, Wrong
<1>2. CASE Wrong(errors) # {}
  <2> DEFINE j == First(Wrong(errors))
             r == [site |-> check, index |-> j - 1, error |-> errors[j]]
  <2>1. j \in DOMAIN errors /\ errors[j] # None
    BY <1>2, FirstIsWrong
  <2>2. Refusals(M, check) = {r}
    BY <1>2 DEF Refusals
  <2>3. r.site = check /\ r.index + 1 = j
    <3>1. j \in Nat
      BY <2>1 DEF IsList
    <3> HIDE DEF j
    <3> QED
      BY <3>1
  <2> HIDE DEF r, j, errors
  <2> QED
    BY <2>1, <2>2, <2>3 DEF errors
<1> QED
  BY <1>1, <1>2

LEMMA ListMapped ==
  ASSUME NEW s, IsList(s), NEW e, e = [j \in DOMAIN s |-> e[j]]
  PROVE  IsList(e) /\ DOMAIN e = DOMAIN s
BY DEF IsList

-----------------------------------------------------------------------------
(* References, types and instructions.                                      *)

LEMMA InViewExists ==
  ASSUME module \in BytecodeModules, NEW k \in Kinds, NEW i \in Nat
  PROVE  InRange(View(module, k), i) <=> Exists(k, i)
<1>1. Len(View(module, k)) \in Nat
  BY ViewIs
<1>2. Exists(k, i) <=> i \in 0 .. Len(View(module, k)) - 1
  BY ExistsInView
<1> QED
  BY <1>1, <1>2 DEF InRange

LEMMA IndexErrorIsOne ==
  \A k \in Kinds : IndexError(k) # None
BY DEF Kinds, IndexError, None

LEMMA ReferenceSound ==
  ASSUME module \in BytecodeModules, NEW k \in Kinds, NEW i \in Nat
  PROVE  /\ ReferenceError(module, k, i) = None <=> Exists(k, i)
BY InViewExists, IndexErrorIsOne DEF ReferenceError

LEMMA GlobalInView ==
  ASSUME module \in BytecodeModules, NEW g \in Nat
  PROVE  /\ \A t \in Declared("global", g) : t = At(View(module, "global"), g).type
         /\ Exists("global", g) => /\ At(View(module, "global"), g).type \in Declared("global", g)
                                   /\ At(View(module, "global"), g).type \in EntityType("global")
<1>1. "global" \in Kinds
  BY DEF Kinds
<1>2. \A t : TypeIn(module, "global", t) = t
  BY DEF TypeIn
<1>3. \A t \in Declared("global", g) : t = At(View(module, "global"), g).type
  BY <1>1, <1>2, ExistsInView
<1>4. ASSUME NEW t \in Declared("global", g)  PROVE t \in EntityType("global")
  <2>1. CASE \E p \in ImportPositions("global") : t = module.imports[p].type
    BY <1>1, <2>1, ImportInView, ImportFields
  <2>2. CASE \E j \in DOMAIN Definitions(module, "global") : t = Definitions(module, "global")[j].type
    BY <1>1, <2>2, DefinitionFields
  <2> QED
    BY <2>1, <2>2 DEF Declared
<1> QED
  BY <1>3, <1>4 DEF Exists

LEMMA LimitsSound ==
  ASSUME NEW t \in [min : Nat, max : SUBSET Nat], NEW bound \in Nat
  PROVE  LimitsValid(t, bound) <=> SoundLimits(t, bound)
BY DEF LimitsValid, SoundLimits

LEMMA TypesSound ==
  /\ \A t \in EntityType("table") : TableError(t) = None <=> SoundType("table", t)
  /\ \A t \in EntityType("memory") : MemoryError(t) = None <=> SoundType("memory", t)
<1>1. /\ EntityType("table") = [min : Nat, max : SUBSET Nat]
      /\ EntityType("memory") = [min : Nat, max : SUBSET Nat]
  BY DEF EntityType
<1>2. \A t \in [min : Nat, max : SUBSET Nat] :
        /\ LimitsValid(t, TableBound) <=> SoundLimits(t, TableBound)
        /\ LimitsValid(t, MemoryBound) <=> SoundLimits(t, MemoryBound)
  BY LimitsSound, BoundsAssumption
<1>3. \A t : /\ TableError(t) = None <=> LimitsValid(t, TableBound)
             /\ MemoryError(t) = None <=> LimitsValid(t, MemoryBound)
             /\ SoundType("table", t) <=> SoundLimits(t, TableBound)
             /\ SoundType("memory", t) <=> SoundLimits(t, MemoryBound)
  BY DEF TableError, MemoryError, SoundType, None
<1> QED
  BY <1>1, <1>2, <1>3

LEMMA ImportSound ==
  ASSUME NEW e, e.kind \in Kinds, e.type \in EntityType(e.kind)
  PROVE  ImportError(module, e) = None <=> SoundType(e.kind, e.type)
<1>1. CASE e.kind = "function"
  BY <1>1 DEF ImportError, SoundType, InRange, None
<1>2. CASE e.kind = "table"
  <2>1. ImportError(module, e) = TableError(e.type)
    BY <1>2 DEF ImportError
  <2> QED
    BY <1>2, <2>1, TypesSound
<1>3. CASE e.kind = "memory"
  <2>1. ImportError(module, e) = MemoryError(e.type)
    BY <1>3 DEF ImportError
  <2> QED
    BY <1>3, <2>1, TypesSound
<1>4. CASE e.kind = "global"
  BY <1>4 DEF ImportError, SoundType, None
<1> QED
  BY <1>1, <1>2, <1>3, <1>4 DEF Kinds

LEMMA InstructionSound ==
  ASSUME module \in BytecodeModules, NEW i \in {"call", "set", "grow", "untyped"} \X Nat
  PROVE  InstructionError(module, i) = None <=> SoundInstruction(i)
<1>1. PICK op \in {"call", "set", "grow", "untyped"}, n \in Nat : i = <<op, n>>
  OBVIOUS
<1>2. i[1] = op /\ i[2] = n
  BY <1>1
<1>3. CASE op = "call"
  <2>1. "function" \in Kinds
    BY DEF Kinds
  <2>2. InstructionError(module, i) = ReferenceError(module, "function", n)
    BY <1>2, <1>3 DEF InstructionError
  <2>3. SoundInstruction(i) <=> Exists("function", n)
    BY <1>2, <1>3 DEF SoundInstruction
  <2> QED
    BY <2>1, <2>2, <2>3, ReferenceSound
<1>4. CASE op = "set"
  <2>1. "global" \in Kinds /\ IndexError("global") # None /\ "GLOBAL_MUST_BE_MUT" # None
    BY IndexErrorIsOne DEF Kinds, None
  <2>2. InstructionError(module, i) = IF ~InRange(View(module, "global"), n) THEN IndexError("global")
                           ELSE IF At(View(module, "global"), n).type.var THEN None
                           ELSE "GLOBAL_MUST_BE_MUT"
    BY <1>2, <1>4 DEF InstructionError
  <2>3. SoundInstruction(i) <=> \E t \in Declared("global", n) : t.var
    BY <1>2, <1>4 DEF SoundInstruction
  <2>4. InRange(View(module, "global"), n) <=> Exists("global", n)
    BY <2>1, InViewExists
  <2>5. CASE Exists("global", n)
    <3> DEFINE t == At(View(module, "global"), n).type
    <3>1. SoundInstruction(i) <=> t.var
      BY <2>3, <2>5, GlobalInView
    <3> HIDE DEF t
    <3>2. InstructionError(module, i) = IF t.var THEN None ELSE "GLOBAL_MUST_BE_MUT"
      BY <2>2, <2>4, <2>5 DEF t
    <3> QED
      BY <2>1, <3>1, <3>2
  <2>6. CASE ~Exists("global", n)
    BY <2>1, <2>2, <2>3, <2>4, <2>6 DEF Exists
  <2> QED
    BY <2>5, <2>6
<1>5. CASE op = "grow"
  BY <1>2, <1>5 DEF InstructionError, SoundInstruction
<1>6. CASE op = "untyped"
  BY <1>2, <1>6 DEF InstructionError, SoundInstruction, None
<1> QED
  BY <1>3, <1>4, <1>5, <1>6

-----------------------------------------------------------------------------
(* Initializers and offsets.  The operand stack is walked through the whole  *)
(* expression, but what is constant leaves one value for every instruction,  *)
(* so that an accepted expression is of one.                                *)

Walked(s) ==
  /\ s = [stack |-> s.stack, error |-> s.error] /\ s.stack \in Seq(ValueTypes)

Plain(expr) == \A j \in DOMAIN expr : expr[j] \in InitInstruction /\ expr[j][1] # "unary"

LEMMA InitInstructionIs ==
  ASSUME NEW i \in InitInstruction
  PROVE  \/ i[1] = "const" /\ i[2] \in ValueTypes /\ i = <<"const", i[2]>>
         \/ i[1] = "unary" /\ i[2] \in ValueTypes /\ i = <<"unary", i[2]>>
         \/ i[1] = "get" /\ i[2] \in Nat /\ i = <<"get", i[2]>>
BY DEF InitInstruction

LEMMA GlobalSeen ==
  ASSUME module \in BytecodeModules, NEW g \in Nat, NEW importedOnly
  PROVE  GlobalVisible(module, g, importedOnly)
            <=> g \in GlobalIndices /\ (importedOnly => IsImport("global", g))
<1>1. "global" \in Kinds /\ Definitions(module, "global") = module.globals
  BY DEF Kinds, Definitions
<1>2. InRange(View(module, "global"), g) <=> Exists("global", g)
  BY <1>1, InViewExists
<1>3. Exists("global", g) => g \in 0 .. Len(View(module, "global")) - 1
  BY <1>1, ExistsInView
<1> DEFINE v == Len(View(module, "global"))
           m == Len(module.imports)
           d == Len(module.globals)
<1>4. v <= m + d /\ v \in Nat /\ m \in Nat /\ d \in Nat
  <2> DEFINE h == Len(ImportsOf(module, "global"))
  <2>1. v = h + d /\ h \in Nat /\ d \in Nat
    BY <1>1, ViewIs
  <2>2. h <= m
    BY <1>1, ImportsRanked
  <2>3. m \in Nat
    BY ModuleLists DEF IsList
  <2> HIDE DEF h, v, m, d
  <2> QED
    BY <2>1, <2>2, <2>3
<1>5. Exists("global", g) => g \in 0 .. m + d
  <2> HIDE DEF m, d, v
  <2>1. Exists("global", g) => g \in 0 .. v - 1
    BY <1>3 DEF v
  <2> QED
    BY <1>4, <2>1
<1>6. g \in GlobalIndices <=> Exists("global", g)
  BY <1>5 DEF GlobalIndices
<1>7. Exists("global", g) => (IsImport("global", g) <=> At(View(module, "global"), g).import # <<>>)
  BY <1>1, <1>3, ImportedInView
<1> QED
  BY <1>2, <1>6, <1>7 DEF GlobalVisible

LEMMA SeenType ==
  ASSUME module \in BytecodeModules, NEW g \in Nat, NEW importedOnly,
         GlobalVisible(module, g, importedOnly)
  PROVE  At(View(module, "global"), g).type \in EntityType("global") /\ Exists("global", g)
<1>1. "global" \in Kinds
  BY DEF Kinds
<1>2. Exists("global", g)
  BY <1>1, InViewExists DEF GlobalVisible
<1> QED
  BY <1>2, GlobalInView

LEMMA AppendLonger ==
  ASSUME NEW X, NEW s \in Seq(X), NEW x \in X
  PROVE  Append(s, x) \in Seq(X) /\ Len(Append(s, x)) = Len(s) + 1
OBVIOUS

LEMMA StepWalks ==
  ASSUME module \in BytecodeModules, NEW i \in InitInstruction, i[1] # "unary",
         NEW importedOnly, NEW s, Walked(s)
  PROVE  LET r == Step(module, importedOnly, s, i) IN
         /\ Walked(r)
         /\ r.error = None => s.error = None /\ Len(r.stack) = Len(s.stack) + 1
<1> DEFINE r == Step(module, importedOnly, s, i)
<1> SUFFICES Walked(r) /\ (r.error = None => s.error = None /\ Len(r.stack) = Len(s.stack) + 1)
  OBVIOUS
<1>0. IndexError("global") # None
  BY IndexErrorIsOne DEF Kinds
<1>1. CASE s.error # None
  BY <1>1 DEF Step
<1>2. CASE s.error = None
  <2>1. CASE i[1] = "const"
    <3>1. i[2] \in ValueTypes
      BY <2>1, InitInstructionIs
    <3>2. r = [s EXCEPT !.stack = Append(@, i[2])]
      BY <1>2, <2>1 DEF Step
    <3>3. r.stack = Append(s.stack, i[2]) /\ r.error = s.error /\ r = [stack |-> r.stack, error |-> r.error]
      BY <3>2 DEF Walked
    <3> HIDE DEF r
    <3> QED
      BY <1>2, <3>1, <3>3, AppendLonger DEF Walked
  <2>2. CASE i[1] = "get"
    <3> DEFINE visible == GlobalVisible(module, i[2], importedOnly)
               t == At(View(module, "global"), i[2]).type.type
    <3>1. i[2] \in Nat
      BY <2>2, InitInstructionIs
    <3>2. r = IF visible THEN [s EXCEPT !.stack = Append(@, t)] ELSE [s EXCEPT !.error = IndexError("global")]
      BY <1>2, <2>2 DEF Step
    <3>3. visible => t \in ValueTypes
      BY <3>1, SeenType DEF EntityType
    <3> HIDE DEF visible, t
    <3>4. CASE visible
      <4>1. r.stack = Append(s.stack, t) /\ r.error = s.error /\ r = [stack |-> r.stack, error |-> r.error]
        BY <3>2, <3>4 DEF Walked
      <4> HIDE DEF r
      <4> QED
        BY <1>2, <3>3, <3>4, <4>1, AppendLonger DEF Walked
    <3>5. CASE ~visible
      <4>1. r.stack = s.stack /\ r.error = IndexError("global") /\ r = [stack |-> r.stack, error |-> r.error]
        BY <3>2, <3>5 DEF Walked
      <4> HIDE DEF r
      <4> QED
        BY <1>0, <4>1 DEF Walked
    <3> QED
      BY <3>4, <3>5
  <2> QED
    BY <2>1, <2>2, InitInstructionIs
<1> QED
  BY <1>1, <1>2

LEMMA PlainIsCounted ==
  ASSUME module \in BytecodeModules, NEW importedOnly,
         NEW expr, IsList(expr), Plain(expr),
         NEW f, f[0] = Empty,
         \A j \in 1 .. Len(expr) : f[j] = Step(module, importedOnly, f[j - 1], expr[j])
  PROVE  f[Len(expr)].error = None => Len(f[Len(expr)].stack) = Len(expr)
<1> DEFINE n == Len(expr)
           S == {j \in 0 .. n : Walked(f[j]) /\ (f[j].error = None => Len(f[j].stack) = j)}
<1>1. n \in Nat /\ DOMAIN expr = 1 .. n
  BY DEF IsList
<1>2. 0 \in S
  <2>1. Empty.stack = <<>> /\ Empty = [stack |-> Empty.stack, error |-> Empty.error]
    BY DEF Empty
  <2>2. Walked(f[0]) /\ Len(f[0].stack) = 0
    BY <2>1 DEF Walked
  <2> QED
    BY <1>1, <2>2
<1>3. ASSUME NEW j \in 0 .. n, j \in S, j < n  PROVE j + 1 \in S
  <2>1. j + 1 \in 1 .. n /\ (j + 1) - 1 = j
    BY <1>1, <1>3
  <2>2. expr[j + 1] \in InitInstruction /\ expr[j + 1][1] # "unary"
    BY <1>1, <2>1 DEF Plain
  <2> DEFINE s == f[j]
             r == f[j + 1]
  <2>3. r = Step(module, importedOnly, s, expr[j + 1])
    BY <2>1
  <2>4. Walked(s) /\ (s.error = None => Len(s.stack) = j)
    BY <1>3
  <2>5. Walked(r) /\ (r.error = None => s.error = None /\ Len(r.stack) = Len(s.stack) + 1)
    <3> HIDE DEF r, s
    <3> QED
      BY <2>2, <2>3, <2>4, StepWalks
  <2>6. Walked(r) /\ (r.error = None => Len(r.stack) = j + 1)
    <3> HIDE DEF r, s
    <3> QED
      BY <2>4, <2>5
  <2> QED
    BY <2>1, <2>6
<1> HIDE DEF S
<1>4. \A j \in 0 .. n : j \in S
  BY <1>1, <1>2, <1>3, Climbs
<1>5. n \in S
  BY <1>1, <1>4
<1> QED
  BY <1>5 DEF S

\* The condition that ExprError ends with, on the state it has reached.
Accepted(s, expr, wanted) ==
  /\ s.error = None /\ s.stack = <<wanted>>
  /\ \A j \in DOMAIN expr : ConstInst(module, expr[j])

LEMMA AcceptedOne ==
  ASSUME module \in BytecodeModules, NEW i \in InitInstruction, NEW wanted \in ValueTypes,
         NEW importedOnly, NEW readable,
         readable = {g \in GlobalIndices : importedOnly => IsImport("global", g)},
         NEW expr, IsList(expr), Len(expr) = 1, expr[1] = i
  PROVE  Accepted(Step(module, importedOnly, Empty, i), expr, wanted) <=> SoundConstant(expr, wanted, readable)
<1> DEFINE r == Step(module, importedOnly, Empty, i)
<1>0. Empty.error = None /\ Empty.stack = <<>> /\ Empty = [stack |-> <<>>, error |-> None]
  BY DEF Empty
<1>1. DOMAIN expr = 1 .. 1 /\ 1 \in DOMAIN expr /\ expr[1] = i
  BY DEF IsList
<1>2. (\A j \in DOMAIN expr : ConstInst(module, expr[j])) <=> ConstInst(module, i)
  BY <1>1
<1>3. CASE i[1] = "const"
  <2>1. i[2] \in ValueTypes /\ i = <<"const", i[2]>>
    BY <1>3, InitInstructionIs
  <2>2. r = [stack |-> <<i[2]>>, error |-> None]
    BY <1>0, <1>3 DEF Step
  <2>3. r.error = None /\ (r.stack = <<wanted>> <=> i[2] = wanted)
    BY <2>2
  <2>4. ConstInst(module, i) <=> i[2] \in ScalarTypes
    BY <1>3 DEF ConstInst
  <2>5. i[2] \in ScalarTypes <=> i[2] # "V128"
    BY <2>1 DEF ValueTypes, ScalarTypes
  <2>6. Accepted(r, expr, wanted) <=> i[2] = wanted /\ i[2] # "V128"
    <3> HIDE DEF r
    <3> QED
      BY <1>2, <2>3, <2>4, <2>5 DEF Accepted
  <2>7. i = <<"const", wanted>> <=> i[2] = wanted
    BY <2>1
  <2>8. SoundConstant(expr, wanted, readable) <=> i[2] = wanted /\ wanted # "V128"
    BY <1>1, <1>3, <2>7 DEF SoundConstant
  <2> QED
    BY <2>6, <2>8
<1>4. CASE i[1] = "unary"
  <2>1. ~ConstInst(module, i)
    BY <1>4 DEF ConstInst
  <2>2. ~SoundConstant(expr, wanted, readable)
    <3>1. i # <<"const", wanted>> /\ i[1] # "get"
      BY <1>4
    <3> QED
      BY <1>1, <3>1 DEF SoundConstant
  <2> QED
    BY <1>2, <2>1, <2>2 DEF Accepted
<1>5. CASE i[1] = "get"
  <2> DEFINE g == i[2]
             t == At(View(module, "global"), g).type
             visible == GlobalVisible(module, g, importedOnly)
  <2>1. g \in Nat
    BY <1>5, InitInstructionIs
  <2>2. visible <=> g \in readable
    BY <2>1, GlobalSeen
  <2>3. SoundConstant(expr, wanted, readable)
          <=> g \in readable /\ [type |-> wanted, var |-> FALSE] \in Declared("global", g)
    <3>1. i # <<"const", wanted>>
      BY <1>5
    <3> QED
      BY <1>1, <1>5, <3>1 DEF SoundConstant
  <2>4. IndexError("global") # None
    BY IndexErrorIsOne DEF Kinds
  <2>5. r = IF visible THEN [stack |-> <<t.type>>, error |-> None]
                       ELSE [stack |-> <<>>, error |-> IndexError("global")]
    BY <1>0, <1>5 DEF Step
  <2>6. ConstInst(module, i) <=> ~t.var
    BY <1>5 DEF ConstInst
  <2>7. CASE visible
    <3>1. t \in EntityType("global") /\ Exists("global", g)
      BY <2>1, <2>7, SeenType
    <3>2. \A x : x \in Declared("global", g) <=> x = t
      BY <2>1, <3>1, GlobalInView
    <3> HIDE DEF t, visible
    <3>3. t = [type |-> wanted, var |-> FALSE] <=> t.type = wanted /\ ~t.var
      BY <3>1 DEF EntityType
    <3>4. r.error = None /\ (r.stack = <<wanted>> <=> t.type = wanted)
      BY <2>5, <2>7
    <3>5. Accepted(r, expr, wanted) <=> t.type = wanted /\ ~t.var
      <4> HIDE DEF r
      <4> QED
        BY <1>2, <2>6, <3>4 DEF Accepted
    <3> QED
      BY <2>2, <2>3, <2>7, <3>2, <3>3, <3>5
  <2>8. CASE ~visible
    <3> HIDE DEF visible
    <3>1. r.error # None
      BY <2>4, <2>5, <2>8
    <3> QED
      BY <2>2, <2>3, <2>8, <3>1 DEF Accepted
  <2> QED
    BY <2>7, <2>8
<1> QED
  BY <1>3, <1>4, <1>5, InitInstructionIs

LEMMA ExpressionSound ==
  ASSUME module \in BytecodeModules, NEW expr \in Seq(InitInstruction), NEW wanted \in ValueTypes,
         NEW importedOnly, NEW readable,
         readable = {g \in GlobalIndices : importedOnly => IsImport("global", g)}
  PROVE  ExprError(module, expr, wanted, importedOnly) = None <=> SoundConstant(expr, wanted, readable)
<1> DEFINE n == Len(expr)
<1>1. IsList(expr) /\ n \in Nat /\ DOMAIN expr = 1 .. n /\ \A j \in DOMAIN expr : expr[j] \in InitInstruction
  BY ListOf DEF IsList
<1>2. PICK f : /\ f[0] = Empty
               /\ ExprError(module, expr, wanted, importedOnly) = Verdict(module, f[n], expr, wanted)
               /\ \A j \in 1 .. n : f[j] = Step(module, importedOnly, f[j - 1], expr[j])
  BY <1>1, WalksExpression
<1>3. ExprError(module, expr, wanted, importedOnly) = None <=> Accepted(f[n], expr, wanted)
  BY <1>2 DEF Accepted, Verdict, None
<1>4. CASE n = 1
  <2>1. f[1] = Step(module, importedOnly, Empty, expr[1]) /\ expr[1] \in InitInstruction
    BY <1>1, <1>2, <1>4
  <2> DEFINE i == expr[1]
  <2>2. Accepted(Step(module, importedOnly, Empty, i), expr, wanted) <=> SoundConstant(expr, wanted, readable)
    <3> HIDE DEF i
    <3> QED
      BY <1>1, <1>4, <2>1, AcceptedOne DEF i
  <2> QED
    BY <1>3, <1>4, <2>1, <2>2
<1>5. CASE n # 1
  <2>1. ~SoundConstant(expr, wanted, readable)
    BY <1>5 DEF SoundConstant
  <2>2. SUFFICES ASSUME Accepted(f[n], expr, wanted)  PROVE FALSE
    BY <1>3, <2>1
  <2>3. f[n].error = None /\ f[n].stack = <<wanted>> /\ Len(<<wanted>>) = 1
    BY <2>2 DEF Accepted
  <2>4. Plain(expr)
    BY <1>1, <2>2 DEF Accepted, ConstInst, Plain
  <2>5. f[0] = Empty /\ \A j \in 1 .. n : f[j] = Step(module, importedOnly, f[j - 1], expr[j])
    BY <1>2
  <2>6. f[n].error = None => Len(f[n].stack) = n
    BY <1>1, <2>4, <2>5, PlainIsCounted, ZenonT(60)
  <2> QED
    BY <1>5, <2>3, <2>6
<1> QED
  BY <1>4, <1>5

-----------------------------------------------------------------------------
(* A check finds no error exactly if what it looks at is sound.              *)

CheckSound(check) ==
  /\ IsList(Errors(module, check))
  /\ \A j \in DOMAIN Errors(module, check) : Errors(module, check)[j] # None => ~Sound(check, j)
  /\ (\A j \in DOMAIN Errors(module, check) : Errors(module, check)[j] = None)
       => \A j \in Places(check) : Sound(check, j)

LEMMA CheckedOneByOne ==
  ASSUME NEW check, NEW s, IsList(s),
         Errors(module, check) = [j \in DOMAIN s |-> Errors(module, check)[j]],
         Places(check) = DOMAIN s,
         \A j \in DOMAIN s : Errors(module, check)[j] = None <=> Sound(check, j)
  PROVE  CheckSound(check)
<1> DEFINE errors == Errors(module, check)
<1>1. IsList(errors) /\ DOMAIN errors = DOMAIN s
  <2>1. errors = [j \in DOMAIN s |-> errors[j]]
    OBVIOUS
  <2> HIDE DEF errors
  <2> QED
    BY <2>1, ListMapped
<1> QED
  BY <1>1 DEF CheckSound

LEMMA ImportsChecked ==
  ASSUME module \in BytecodeModules  PROVE CheckSound("import")
<1> DEFINE s == module.imports
<1>1. IsList(s)
  BY ModuleLists
<1>2. /\ Errors(module, "import") = [j \in DOMAIN s |-> ImportError(module, s[j])]
      /\ Places("import") = DOMAIN s
  BY DEF Errors, Places
<1>3. ASSUME NEW j \in DOMAIN s  PROVE Errors(module, "import")[j] = None <=> Sound("import", j)
  <2>1. ImportError(module, s[j]) = None <=> SoundType(s[j].kind, s[j].type)
    BY ImportFields, ImportSound
  <2>2. Sound("import", j) <=> SoundType(s[j].kind, s[j].type)
    BY DEF Sound
  <2> QED
    BY <1>2, <2>1, <2>2
<1> HIDE DEF s
<1>4. Errors(module, "import") = [j \in DOMAIN s |-> Errors(module, "import")[j]]
  BY <1>2
<1> QED
  BY <1>1, <1>2, <1>3, <1>4, CheckedOneByOne

LEMMA ExportsChecked ==
  ASSUME module \in BytecodeModules  PROVE CheckSound("export")
<1> DEFINE s == module.exports
<1>1. IsList(s)
  BY ModuleLists
<1>2. /\ Errors(module, "export") = [j \in DOMAIN s |-> ExportError(module, s[j])]
      /\ Places("export") = DOMAIN s
  BY DEF Errors, Places
<1>3. ASSUME NEW j \in DOMAIN s  PROVE Errors(module, "export")[j] = None <=> Sound("export", j)
  <2>1. s \in Seq([name : STRING, kind : Kinds, index : Nat])
    BY DEF BytecodeModules
  <2>2. s[j] \in [name : STRING, kind : Kinds, index : Nat]
    BY <2>1, ListOf
  <2> DEFINE k == s[j].kind
             i == s[j].index
  <2>3. k \in Kinds /\ i \in Nat
    BY <2>2
  <2>4. ExportError(module, s[j]) = IF i < NumEntities(module, k) THEN None ELSE IndexError(k)
    BY DEF ExportError
  <2>5. Sound("export", j) <=> Exists(k, i)
    BY DEF Sound
  <2> HIDE DEF k, i
  <2>6. i < NumEntities(module, k) <=> Exists(k, i)
    BY <2>3, InViewExists, ViewIs DEF InRange
  <2> QED
    BY <1>2, <2>3, <2>4, <2>5, <2>6, IndexErrorIsOne
<1> HIDE DEF s
<1>4. Errors(module, "export") = [j \in DOMAIN s |-> Errors(module, "export")[j]]
  BY <1>2
<1> QED
  BY <1>1, <1>2, <1>3, <1>4, CheckedOneByOne

LEMMA SignaturesChecked ==
  ASSUME module \in BytecodeModules  PROVE CheckSound("signature")
<1> DEFINE s == module.functions
<1>1. IsList(s)
  BY ModuleLists
<1>2. /\ Errors(module, "signature") = [j \in DOMAIN s |-> SignatureError(module, s[j])]
      /\ Places("signature") = DOMAIN s
  BY DEF Errors, Places
<1>3. ASSUME NEW j \in DOMAIN s  PROVE Errors(module, "signature")[j] = None <=> Sound("signature", j)
  <2>1. SignatureError(module, s[j]) = None <=> s[j].type.index < Len(module.types)
    BY DEF SignatureError, InRange, None
  <2>2. Sound("signature", j) <=> s[j].type.index < Len(module.types)
    BY DEF Sound, SoundType
  <2> QED
    BY <1>2, <2>1, <2>2
<1> HIDE DEF s
<1>4. Errors(module, "signature") = [j \in DOMAIN s |-> Errors(module, "signature")[j]]
  BY <1>2
<1> QED
  BY <1>1, <1>2, <1>3, <1>4, CheckedOneByOne

LEMMA FunctionsChecked ==
  ASSUME module \in BytecodeModules  PROVE CheckSound("function")
<1> DEFINE s == module.functions
<1>1. IsList(s)
  BY ModuleLists
<1>2. /\ Errors(module, "function") = [j \in DOMAIN s |-> FunctionError(module, s[j])]
      /\ Places("function") = DOMAIN s
  BY DEF Errors, Places
<1>3. ASSUME NEW j \in DOMAIN s  PROVE Errors(module, "function")[j] = None <=> Sound("function", j)
  <2> DEFINE Ops == {"call", "set", "grow", "untyped"} \X Nat
             body == s[j].body
             errors == [i \in DOMAIN body |-> InstructionError(module, body[i])]
  <2>1. s \in Seq([type : EntityType("function"), body : Seq(Ops)])
    BY DEF BytecodeModules
  <2>2. body \in Seq(Ops)
    <3> HIDE DEF Ops
    <3>1. s[j] \in [type : EntityType("function"), body : Seq(Ops)]
      BY <2>1, ListOf
    <3> QED
      BY <3>1
  <2>3. FunctionError(module, s[j]) = FirstOf(errors)
    BY DEF FunctionError
  <2>4. Sound("function", j) <=> \A i \in DOMAIN body : SoundInstruction(body[i])
    BY DEF Sound
  <2> HIDE DEF body
  <2>5. IsList(body) /\ \A i \in DOMAIN body : body[i] \in Ops
    <3> HIDE DEF Ops
    <3> QED
      BY <2>2, ListOf
  <2>6. errors = [i \in DOMAIN body |-> errors[i]]
    OBVIOUS
  <2>7. IsList(errors) /\ DOMAIN errors = DOMAIN body
    <3> HIDE DEF errors
    <3> QED
      BY <2>5, <2>6, ListMapped
  <2>8. FirstOf(errors) = None <=> \A i \in DOMAIN errors : errors[i] = None
    <3> HIDE DEF errors
    <3> QED
      BY <2>7, FirstOfNone
  <2>9. \A i \in DOMAIN body : errors[i] = None <=> SoundInstruction(body[i])
    BY <2>5, InstructionSound
  <2> HIDE DEF errors
  <2> QED
    BY <1>2, <2>3, <2>4, <2>7, <2>8, <2>9
<1> HIDE DEF s
<1>4. Errors(module, "function") = [j \in DOMAIN s |-> Errors(module, "function")[j]]
  BY <1>2
<1> QED
  BY <1>1, <1>2, <1>3, <1>4, CheckedOneByOne

LEMMA TablesChecked ==
  ASSUME module \in BytecodeModules  PROVE CheckSound("table")
<1> DEFINE s == module.tables
<1>1. IsList(s)
  BY ModuleLists
<1>2. /\ Errors(module, "table") = [j \in DOMAIN s |-> TableError(s[j].type)]
      /\ Places("table") = DOMAIN s
  BY DEF Errors, Places
<1>3. ASSUME NEW j \in DOMAIN s  PROVE Errors(module, "table")[j] = None <=> Sound("table", j)
  <2>1. "table" \in Kinds /\ s = Definitions(module, "table")
    BY DEF Kinds, Definitions
  <2>2. s[j].type \in EntityType("table")
    BY <2>1, DefinitionFields
  <2>3. Sound("table", j) <=> SoundType("table", s[j].type)
    BY DEF Sound
  <2> QED
    BY <1>2, <2>2, <2>3, TypesSound
<1> HIDE DEF s
<1>4. Errors(module, "table") = [j \in DOMAIN s |-> Errors(module, "table")[j]]
  BY <1>2
<1> QED
  BY <1>1, <1>2, <1>3, <1>4, CheckedOneByOne

LEMMA MemoriesChecked ==
  ASSUME module \in BytecodeModules  PROVE CheckSound("memory")
<1> DEFINE s == module.memories
<1>1. IsList(s)
  BY ModuleLists
<1>2. /\ Errors(module, "memory") = [j \in DOMAIN s |-> MemoryError(s[j].type)]
      /\ Places("memory") = DOMAIN s
  BY DEF Errors, Places
<1>3. ASSUME NEW j \in DOMAIN s  PROVE Errors(module, "memory")[j] = None <=> Sound("memory", j)
  <2>1. "memory" \in Kinds /\ s = Definitions(module, "memory")
    BY DEF Kinds, Definitions
  <2>2. s[j].type \in EntityType("memory")
    BY <2>1, DefinitionFields
  <2>3. Sound("memory", j) <=> SoundType("memory", s[j].type)
    BY DEF Sound
  <2> QED
    BY <1>2, <2>2, <2>3, TypesSound
<1> HIDE DEF s
<1>4. Errors(module, "memory") = [j \in DOMAIN s |-> Errors(module, "memory")[j]]
  BY <1>2
<1> QED
  BY <1>1, <1>2, <1>3, <1>4, CheckedOneByOne

LEMMA GlobalsChecked ==
  ASSUME module \in BytecodeModules  PROVE CheckSound("global")
<1> DEFINE s == module.globals
<1>1. IsList(s)
  BY ModuleLists
<1>2. /\ Errors(module, "global") = [j \in DOMAIN s |-> GlobalError(module, s[j])]
      /\ Places("global") = DOMAIN s
  BY DEF Errors, Places
<1>3. ASSUME NEW j \in DOMAIN s  PROVE Errors(module, "global")[j] = None <=> Sound("global", j)
  <2> DEFINE readable == {g \in GlobalIndices : IsImport("global", g)}
             init == s[j].init
             t == s[j].type.type
  <2>1. s \in Seq([type : EntityType("global"), init : Seq(InitInstruction)])
    BY DEF BytecodeModules
  <2>2. s[j] \in [type : EntityType("global"), init : Seq(InitInstruction)]
    BY <2>1, ListOf
  <2>3. init \in Seq(InitInstruction) /\ t \in ValueTypes
    BY <2>2 DEF EntityType
  <2>4. GlobalError(module, s[j]) = ExprError(module, init, t, TRUE)
    BY DEF GlobalError
  <2>5. Sound("global", j) <=> SoundConstant(init, t, readable)
    BY DEF Sound
  <2>6. readable = {g \in GlobalIndices : TRUE => IsImport("global", g)}
    OBVIOUS
  <2> HIDE DEF init, t, readable
  <2>7. ExprError(module, init, t, TRUE) = None <=> SoundConstant(init, t, readable)
    BY <2>3, <2>6, ExpressionSound
  <2> QED
    BY <1>2, <2>4, <2>5, <2>7
<1> HIDE DEF s
<1>4. Errors(module, "global") = [j \in DOMAIN s |-> Errors(module, "global")[j]]
  BY <1>2
<1> QED
  BY <1>1, <1>2, <1>3, <1>4, CheckedOneByOne

LEMMA OffsetSound ==
  ASSUME module \in BytecodeModules, NEW offset \in Seq(InitInstruction)
  PROVE  ExprError(module, offset, "I32", FALSE) = None <=> SoundConstant(offset, "I32", GlobalIndices)
<1>1. GlobalIndices = {g \in GlobalIndices : FALSE => IsImport("global", g)}
  OBVIOUS
<1>2. "I32" \in ValueTypes
  BY DEF ValueTypes, ScalarTypes
<1> QED
  BY <1>1, <1>2, ExpressionSound

LEMMA PairFirst ==
  ASSUME NEW a, NEW b, NEW n \in Nat, NEW c, c = [j \in 1 .. n |-> c[j]]
  PROVE  FirstOf(<<a, b>> \o c) = None <=> a = None /\ b = None /\ \A j \in 1 .. n : c[j] = None
<1> DEFINE pair == <<a, b>>
           errors == pair \o c
<1>1. Len(pair) = 2 /\ pair[1] = a /\ pair[2] = b /\ pair = [j \in 1 .. 2 |-> pair[j]]
  OBVIOUS
<1> HIDE DEF pair
<1>2. Len(c) = n
  OBVIOUS
<1>3. /\ Len(errors) = n + 2 /\ DOMAIN errors = 1 .. n + 2
      /\ errors[1] = a /\ errors[2] = b /\ \A j \in 1 .. n : errors[j + 2] = c[j]
  BY <1>1, <1>2
<1> HIDE DEF errors
<1>4. IsList(errors)
  BY <1>3 DEF IsList
<1>5. (\A j \in DOMAIN errors : errors[j] = None) <=> a = None /\ b = None /\ \A j \in 1 .. n : c[j] = None
  <2>1. ASSUME a = None, b = None, \A j \in 1 .. n : c[j] = None, NEW j \in 1 .. n + 2
        PROVE  errors[j] = None
    <3>1. CASE j \in 1 .. 2
      BY <1>3, <2>1, <3>1
    <3>2. CASE j - 2 \in 1 .. n
      <4>1. errors[(j - 2) + 2] = c[j - 2] /\ (j - 2) + 2 = j
        BY <1>3, <3>2
      <4> QED
        BY <2>1, <3>2, <4>1
    <3> QED
      BY <3>1, <3>2
  <2>2. ASSUME \A j \in 1 .. n + 2 : errors[j] = None
        PROVE  a = None /\ b = None /\ \A j \in 1 .. n : c[j] = None
    BY <1>3, <2>2
  <2> QED
    BY <1>3, <2>1, <2>2
<1>6. FirstOf(errors) = None <=> \A j \in DOMAIN errors : errors[j] = None
  BY <1>4, FirstOfNone
<1> QED
  BY <1>5, <1>6 DEF errors, pair

LEMMA ElementsChecked ==
  ASSUME module \in BytecodeModules  PROVE CheckSound("element")
<1> DEFINE s == module.elements
<1>1. IsList(s)
  BY ModuleLists
<1>2. /\ Errors(module, "element") = [j \in DOMAIN s |-> ElementError(module, s[j])]
      /\ Places("element") = DOMAIN s
  BY DEF Errors, Places
<1>3. ASSUME NEW j \in DOMAIN s  PROVE Errors(module, "element")[j] = None <=> Sound("element", j)
  <2> DEFINE table == s[j].table
             offset == s[j].offset
             init == s[j].init
             n == Len(init)
             a == ReferenceError(module, "table", table)
             b == ExprError(module, offset, "I32", FALSE)
             c == [i \in DOMAIN init |-> ReferenceError(module, "function", init[i])]
  <2>1. s \in Seq([table : Nat, offset : Seq(InitInstruction), init : Seq(Nat)])
    BY DEF BytecodeModules
  <2>2. s[j] \in [table : Nat, offset : Seq(InitInstruction), init : Seq(Nat)]
    BY <2>1, ListOf
  <2>3. table \in Nat /\ offset \in Seq(InitInstruction) /\ init \in Seq(Nat)
    BY <2>2
  <2>4. ElementError(module, s[j]) = FirstOf(<<a, b>> \o c)
    BY DEF ElementError
  <2>5. Sound("element", j) <=> /\ Exists("table", table) /\ SoundConstant(offset, "I32", GlobalIndices)
                                /\ \A f \in ToSet(init) : Exists("function", f)
    BY DEF Sound
  <2>6. "table" \in Kinds /\ "function" \in Kinds
    BY DEF Kinds
  <2> HIDE DEF table, offset, init
  <2>7. n \in Nat /\ DOMAIN init = 1 .. n /\ \A i \in 1 .. n : init[i] \in Nat
    BY <2>3
  <2>8. /\ a = None <=> Exists("table", table)
        /\ b = None <=> SoundConstant(offset, "I32", GlobalIndices)
    BY <2>3, <2>6, ReferenceSound, OffsetSound
  <2>9. \A i \in 1 .. n : c[i] = None <=> Exists("function", init[i])
    BY <2>6, <2>7, ReferenceSound
  <2>10. (\A f \in ToSet(init) : Exists("function", f)) <=> \A i \in 1 .. n : Exists("function", init[i])
    BY <2>7 DEF ToSet
  <2>11. c = [i \in 1 .. n |-> c[i]]
    BY <2>7
  <2> HIDE DEF a, b, c, n
  <2>12. FirstOf(<<a, b>> \o c) = None <=> a = None /\ b = None /\ \A i \in 1 .. n : c[i] = None
    BY <2>7, <2>11, PairFirst
  <2> QED
    BY <1>2, <2>4, <2>5, <2>8, <2>9, <2>10, <2>12
<1> HIDE DEF s
<1>4. Errors(module, "element") = [j \in DOMAIN s |-> Errors(module, "element")[j]]
  BY <1>2
<1> QED
  BY <1>1, <1>2, <1>3, <1>4, CheckedOneByOne

LEMMA DataChecked ==
  ASSUME module \in BytecodeModules  PROVE CheckSound("data")
<1> DEFINE s == module.data
<1>1. IsList(s)
  BY ModuleLists
<1>2. /\ Errors(module, "data") = [j \in DOMAIN s |-> DataError(module, s[j])]
      /\ Places("data") = DOMAIN s
  BY DEF Errors, Places
<1>3. ASSUME NEW j \in DOMAIN s  PROVE Errors(module, "data")[j] = None <=> Sound("data", j)
  <2> DEFINE memory == s[j].memory
             offset == s[j].offset
             a == ReferenceError(module, "memory", memory)
             b == ExprError(module, offset, "I32", FALSE)
             errors == <<a, b>>
  <2>1. s \in Seq([memory : Nat, offset : Seq(InitInstruction)])
    BY DEF BytecodeModules
  <2>2. s[j] \in [memory : Nat, offset : Seq(InitInstruction)]
    BY <2>1, ListOf
  <2>3. memory \in Nat /\ offset \in Seq(InitInstruction)
    BY <2>2
  <2>4. DataError(module, s[j]) = FirstOf(errors)
    BY DEF DataError
  <2>5. Sound("data", j) <=> Exists("memory", memory) /\ SoundConstant(offset, "I32", GlobalIndices)
    BY DEF Sound
  <2>6. "memory" \in Kinds
    BY DEF Kinds
  <2> HIDE DEF memory, offset
  <2>7. /\ a = None <=> Exists("memory", memory)
        /\ b = None <=> SoundConstant(offset, "I32", GlobalIndices)
    BY <2>3, <2>6, ReferenceSound, OffsetSound
  <2> HIDE DEF a, b
  <2>8. IsList(errors) /\ DOMAIN errors = {1, 2} /\ errors[1] = a /\ errors[2] = b
    BY DEF IsList
  <2> HIDE DEF errors
  <2>9. FirstOf(errors) = None <=> \A i \in DOMAIN errors : errors[i] = None
    BY <2>8, FirstOfNone
  <2> QED
    BY <1>2, <2>4, <2>5, <2>7, <2>8, <2>9
<1> HIDE DEF s
<1>4. Errors(module, "data") = [j \in DOMAIN s |-> Errors(module, "data")[j]]
  BY <1>2
<1> QED
  BY <1>1, <1>2, <1>3, <1>4, CheckedOneByOne

LEMMA StartsChecked ==
  ASSUME module \in BytecodeModules  PROVE CheckSound("start")
<1> DEFINE s == module.start
           unit == [params |-> <<>>, results |-> <<>>]
<1>1. IsList(s)
  BY ModuleLists
<1>2. /\ Errors(module, "start") = [j \in DOMAIN s |-> StartError(module, s[j])]
      /\ Places("start") = DOMAIN s
  BY DEF Errors, Places
<1>3. ASSUME NEW j \in DOMAIN s  PROVE Errors(module, "start")[j] = None <=> Sound("start", j)
  <2> DEFINE f == s[j]
             type == At(View(module, "function"), f).type
  <2>1. f \in Nat
    <3>1. s \in Seq(Nat)
      BY DEF BytecodeModules
    <3> HIDE DEF s
    <3> QED
      BY <3>1, ListOf
  <2>2. "function" \in Kinds /\ IndexError("function") # None /\ "INVALID_START_FUNC_TYPE" # None
    BY IndexErrorIsOne DEF Kinds, None
  <2>3. StartError(module, f) = IF ~InRange(View(module, "function"), f) THEN IndexError("function")
                                ELSE IF type = unit THEN None ELSE "INVALID_START_FUNC_TYPE"
    BY DEF StartError
  <2>4. Sound("start", j) <=> \E t \in Declared("function", f) : At(module.types, t.index) = unit
    BY DEF Sound
  <2> HIDE DEF f, unit
  <2>5. InRange(View(module, "function"), f) <=> Declared("function", f) # {}
    BY <2>1, <2>2, InViewExists DEF Exists
  <2>6. \A t \in Declared("function", f) : At(module.types, t.index) = type
    <3>1. \A t : TypeIn(module, "function", t) = At(module.types, t.index)
      BY DEF TypeIn
    <3>2. \A t \in Declared("function", f) : TypeIn(module, "function", t) = type
      BY <2>2, ExistsInView
    <3> QED
      BY <3>1, <3>2
  <2>7. StartError(module, f) = None <=> Sound("start", j)
    <3> HIDE DEF type
    <3> QED
      BY <2>2, <2>3, <2>4, <2>5, <2>6
  <2> QED
    BY <1>2, <2>7 DEF f
<1> HIDE DEF s
<1>4. Errors(module, "start") = [j \in DOMAIN s |-> Errors(module, "start")[j]]
  BY <1>2
<1> QED
  BY <1>1, <1>2, <1>3, <1>4, CheckedOneByOne

LEMMA CountSound ==
  ASSUME module \in BytecodeModules, NEW k \in Kinds, NEW error, error # None
  PROVE  /\ IsList(CountError(module, k, error))
         /\ \A j \in DOMAIN CountError(module, k, error) :
              CountError(module, k, error)[j] # None => j = 2 /\ ~OneAtMost(k)
         /\ (\A j \in DOMAIN CountError(module, k, error) : CountError(module, k, error)[j] = None)
              => OneAtMost(k)
<1> DEFINE v == Len(View(module, k))
           errors == CountError(module, k, error)
<1>1. OneAtMost(k) <=> v <= 1
  BY ViewIs, ImportsRanked DEF OneAtMost
<1>2. v \in Nat
  BY ViewIs
<1>3. errors = IF v > 1 THEN <<None, error>> ELSE <<>>
  BY DEF CountError
<1> HIDE DEF v, errors
<1>4. CASE v > 1
  <2>1. IsList(errors) /\ DOMAIN errors = {1, 2} /\ errors[1] = None /\ errors[2] = error
    BY <1>3, <1>4 DEF IsList
  <2> QED
    BY <1>1, <1>2, <1>4, <2>1 DEF errors
<1>5. CASE ~(v > 1)
  <2>1. IsList(errors) /\ DOMAIN errors = {}
    BY <1>3, <1>5 DEF IsList
  <2> QED
    BY <1>1, <1>2, <1>5, <2>1 DEF errors
<1> QED
  BY <1>4, <1>5

LEMMA CountsChecked ==
  ASSUME module \in BytecodeModules  PROVE CheckSound("tables") /\ CheckSound("memories")
<1>1. "table" \in Kinds /\ "memory" \in Kinds /\ "MORE_THAN_ONE_TABLE" # None /\ "MORE_THAN_ONE_MEMORY" # None
  BY DEF Kinds, None
<1>2. CheckSound("tables")
  <2>1. Errors(module, "tables") = CountError(module, "table", "MORE_THAN_ONE_TABLE")
        /\ Places("tables") = {2} /\ \A j : Sound("tables", j) <=> OneAtMost("table")
    BY DEF Errors, Places, Sound
  <2> QED
    BY <1>1, <2>1, CountSound DEF CheckSound
<1>3. CheckSound("memories")
  <2>1. Errors(module, "memories") = CountError(module, "memory", "MORE_THAN_ONE_MEMORY")
        /\ Places("memories") = {2} /\ \A j : Sound("memories", j) <=> OneAtMost("memory")
    BY DEF Errors, Places, Sound
  <2> QED
    BY <1>1, <2>1, CountSound DEF CheckSound
<1> QED
  BY <1>2, <1>3

LEMMA NamesChecked ==
  ASSUME module \in BytecodeModules  PROVE CheckSound("name")
<1> DEFINE s == module.exports
           errors == Errors(module, "name")
<1>1. IsList(s)
  BY ModuleLists
<1>2. /\ errors = [j \in DOMAIN s |-> NameError(module, j)]
      /\ Places("name") = DOMAIN s
      /\ \A j : Sound("name", j) <=> \A i \in DOMAIN s \ {j} : s[i].name # s[j].name
  BY DEF Errors, Places, Sound
<1>3. \A j \in DOMAIN s : errors[j] = None <=> ~ \E i \in 1 .. (j - 1) : s[i].name = s[j].name
  BY <1>2 DEF NameError, None
<1> HIDE DEF errors, s
<1>4. IsList(errors) /\ DOMAIN errors = DOMAIN s
  <2>1. errors = [j \in DOMAIN s |-> errors[j]]
    BY <1>2
  <2> QED
    BY <1>1, <2>1, ListMapped
<1>5. ASSUME NEW j \in DOMAIN s, errors[j] # None  PROVE ~Sound("name", j)
  <2>1. PICK i \in 1 .. (j - 1) : s[i].name = s[j].name
    BY <1>3, <1>5
  <2>2. i \in DOMAIN s \ {j}
    BY <1>1 DEF IsList
  <2> QED
    BY <1>2, <2>1, <2>2
<1>6. ASSUME \A j \in DOMAIN s : errors[j] = None, NEW j \in DOMAIN s, NEW i \in DOMAIN s \ {j}
      PROVE  s[i].name # s[j].name
  <2>1. i \in Nat /\ j \in Nat /\ i >= 1 /\ j >= 1 /\ i # j
    BY <1>1 DEF IsList
  <2>2. CASE i < j
    BY <1>3, <1>6, <2>1, <2>2
  <2>3. CASE j < i
    BY <1>3, <1>6, <2>1, <2>3
  <2> QED
    BY <2>1, <2>2, <2>3
<1>7. (\A j \in DOMAIN s : errors[j] = None) => \A j \in DOMAIN s : Sound("name", j)
  BY <1>2, <1>6
<1> QED
  BY <1>2, <1>4, <1>5, <1>7 DEF CheckSound, errors

LEMMA ViewChecked ==
  CheckSound("view")
<1>1. Errors(module, "view") = <<>> /\ Places("view") = {}
  BY DEF Errors, Places
<1> QED
  BY <1>1 DEF CheckSound, IsList

LEMMA ChecksSound ==
  ASSUME module \in BytecodeModules, NEW c \in DOMAIN Checks
  PROVE  CheckSound(Checks[c])
<1>1. Checks[c] \in {"import", "export", "signature", "view", "function", "table", "memory", "global",
                     "element", "data", "start", "tables", "memories", "name"}
  BY DEF Checks
<1> QED
  BY <1>1, ImportsChecked, ExportsChecked, SignaturesChecked, ViewChecked, FunctionsChecked,
     TablesChecked, MemoriesChecked, GlobalsChecked, ElementsChecked, DataChecked, StartsChecked,
     CountsChecked, NamesChecked


-----------------------------------------------------------------------------
(* The verdict.  What is sound depends on the module alone, which no step     *)
(* changes.                                                                   *)

LEMMA DeclaredFixed ==
  ASSUME module' = module
  PROVE  /\ \A k : ImportPositions(k)' = ImportPositions(k)
         /\ \A p : ImportIndex(p)' = ImportIndex(p)
         /\ \A k, i : Declared(k, i)' = Declared(k, i)
         /\ \A k, i : Exists(k, i)' <=> Exists(k, i)
         /\ \A k, i : IsImport(k, i)' <=> IsImport(k, i)
         /\ GlobalIndices' = GlobalIndices
         /\ \A k : OneAtMost(k)' <=> OneAtMost(k)
<1>1. \A k : ImportPositions(k)' = ImportPositions(k)
  BY DEF ImportPositions
<1>2. \A p : ImportIndex(p)' = ImportIndex(p)
  BY <1>1 DEF ImportIndex
<1>3. \A k, j : DefinitionIndex(k, j)' = DefinitionIndex(k, j)
  BY <1>1 DEF DefinitionIndex
<1>4. \A k, i : Declared(k, i)' = Declared(k, i)
  BY <1>1, <1>2, <1>3 DEF Declared
<1>5. \A k, i : Exists(k, i)' <=> Exists(k, i)
  BY <1>4 DEF Exists
<1>6. \A k, i : IsImport(k, i)' <=> IsImport(k, i)
  BY <1>1, <1>2 DEF IsImport
<1>7. GlobalIndices' = GlobalIndices
  BY <1>5 DEF GlobalIndices
<1>8. \A k : OneAtMost(k)' <=> OneAtMost(k)
  BY <1>1 DEF OneAtMost
<1> QED
  BY <1>1, <1>2, <1>4, <1>5, <1>6, <1>7, <1>8

LEMMA SoundFixed ==
  ASSUME module' = module
  PROVE  \A c \in DOMAIN Checks : /\ Places(Checks[c])' = Places(Checks[c])
                                  /\ \A j : Sound(Checks[c], j)' <=> Sound(Checks[c], j)
<1>1. ASSUME NEW c \in DOMAIN Checks  PROVE Places(Checks[c])' = Places(Checks[c])
  BY DEF Places
<1>2. \A k, t : SoundType(k, t)' <=> SoundType(k, t)
  BY DEF SoundType
<1>3. \A e, t, readable : SoundConstant(e, t, readable)' <=> SoundConstant(e, t, readable)
  BY DeclaredFixed DEF SoundConstant
<1>4. ASSUME NEW i  PROVE SoundInstruction(i)' <=> SoundInstruction(i)
  <2>1. /\ Exists("function", i[2])' <=> Exists("function", i[2])
        /\ Declared("global", i[2])' = Declared("global", i[2])
    BY DeclaredFixed
  <2> QED
    BY <2>1 DEF SoundInstruction
<1>5. ASSUME NEW c \in DOMAIN Checks, NEW j  PROVE Sound(Checks[c], j)' <=> Sound(Checks[c], j)
  <2>1. \A k, i : Exists(k, i)' <=> Exists(k, i)
    BY DeclaredFixed
  <2>2. \A k : (OneAtMost(k)' <=> OneAtMost(k)) /\ (IsImport("global", k)' <=> IsImport("global", k))
    BY DeclaredFixed
  <2>3. GlobalIndices' = GlobalIndices
    BY DeclaredFixed
  <2>4. \A i : Declared("function", i)' = Declared("function", i)
    BY DeclaredFixed
  <2>5. {g \in GlobalIndices : IsImport("global", g)}' = {g \in GlobalIndices : IsImport("global", g)}
    BY <2>2, <2>3
  <2> DEFINE site == Checks[c]
  <2>6. site \in {"import", "export", "signature", "view", "function", "table", "memory", "global",
                  "element", "data", "start", "tables", "memories", "name"}
    BY DEF Checks
  <2> HIDE DEF site
  <2>7. Sound(site, j)' <=> Sound(site, j)
    <3>1. CASE site \in {"import", "export", "signature", "function"}
      BY <1>2, <1>4, <2>1, <3>1 DEF Sound
    <3>2. CASE site \in {"table", "memory", "global", "data"}
      BY <1>2, <1>3, <2>1, <2>3, <2>5, <3>2 DEF Sound
    <3>3. CASE site = "element"
      BY <1>3, <2>1, <2>3, <3>3 DEF Sound
    <3>4. CASE site \in {"start", "tables", "memories", "name"}
      BY <2>2, <2>4, <3>4 DEF Sound
    <3>5. CASE site = "view"
      BY <3>5 DEF Sound
    <3> QED
      BY <2>6, <3>1, <3>2, <3>3, <3>4, <3>5
  <2> QED
    BY <2>7 DEF site
<1> QED
  BY <1>1, <1>5

Passed(c) == \A j \in Places(Checks[c]) : Sound(Checks[c], j)

VerdictInv ==
  /\ module \in BytecodeModules
  /\ phase = "validate" => at \in 0 .. Len(Checks) /\ \A c \in 1 .. at : Passed(c)
  /\ phase \in {"layout", "teardown"} => \A c \in DOMAIN Checks : Passed(c)
  /\ \A r \in refusal : (\E c \in DOMAIN Checks : r.site = Checks[c]) /\ ~Sound(r.site, r.index + 1)

LEMMA VerdictInvHolds ==
  Spec => []VerdictInv
<1>0. Len(Checks) = 14 /\ DOMAIN Checks = 1 .. 14
  BY DEF Checks
<1>1. Init => VerdictInv
  <2> SUFFICES ASSUME Init PROVE VerdictInv
    OBVIOUS
  <2>1. module \in BytecodeModules
    BY ModulesAssumption DEF Init
  <2>2. phase = "validate" /\ at = 0 /\ refusal = {}
    BY DEF Init
  <2> QED
    BY <1>0, <2>1, <2>2 DEF VerdictInv
<1>2. ASSUME VerdictInv, [Next]_vars  PROVE VerdictInv'
  <2>1. module' = module
    BY <1>2 DEF Next, vars, Validate, StartTranslation, Translate, StartTeardown, DestroyFront, Gone
  <2>2. module \in BytecodeModules /\ module' \in BytecodeModules
    BY <1>2, <2>1 DEF VerdictInv
  <2>3. /\ \A c \in DOMAIN Checks : Passed(c)' <=> Passed(c)
        /\ \A c \in DOMAIN Checks : \A j : Sound(Checks[c], j)' <=> Sound(Checks[c], j)
    <3>1. \A c \in DOMAIN Checks : \A j : Sound(Checks[c], j)' <=> Sound(Checks[c], j)
      BY <2>1, SoundFixed
    <3>2. \A c \in DOMAIN Checks : Places(Checks[c])' = Places(Checks[c])
      BY <2>1, SoundFixed
    <3> QED
      BY <3>1, <3>2 DEF Passed
  <2>4. CASE Validate
    <3> DEFINE wrong == Refusals(module, Checks[at + 1])
    <3>1. /\ phase = "validate" /\ at \in 0 .. 13 /\ refusal' = wrong /\ at' = at + 1
          /\ phase' = IF wrong = {} THEN "validate" ELSE "rejected"
      BY <1>0, <1>2, <2>4 DEF Validate, At, VerdictInv
    <3>2. CheckSound(Checks[at + 1])
      BY <1>0, <2>2, <3>1, ChecksSound
    <3>3. /\ wrong = {} => Passed(at + 1)
          /\ \A r \in wrong : r.site = Checks[at + 1] /\ ~Sound(r.site, r.index + 1)
      BY <3>2, RefusalsAreWrong DEF CheckSound, Passed
    <3>4. \A c \in 1 .. at : Passed(c)
      BY <1>2, <3>1 DEF VerdictInv
    <3> HIDE DEF wrong
    <3>5. phase' = "validate" => at' \in 0 .. 14 /\ \A c \in 1 .. at' : Passed(c)
      BY <3>1, <3>3, <3>4
    <3>6. phase' \notin {"layout", "teardown"}
      BY <3>1
    <3>7. \A r \in refusal' : (\E c \in DOMAIN Checks : r.site = Checks[c]) /\ ~Sound(r.site, r.index + 1)
      BY <1>0, <3>1, <3>3
    <3> QED
      BY <1>0, <2>2, <2>3, <3>5, <3>6, <3>7 DEF VerdictInv
  <2>5. CASE StartTranslation
    <3>1. phase = "validate" /\ at = 14 /\ phase' = "layout" /\ refusal' = refusal
      BY <1>0, <2>5 DEF StartTranslation
    <3>2. \A c \in DOMAIN Checks : Passed(c)
      BY <1>0, <1>2, <3>1 DEF VerdictInv
    <3> QED
      BY <1>2, <2>2, <2>3, <3>1, <3>2 DEF VerdictInv
  <2>6. CASE Translate \/ StartTeardown \/ DestroyFront
    <3>1. phase \in {"layout", "teardown"} /\ phase' \in {"layout", "teardown"} /\ refusal' = refusal
      BY <2>6 DEF Translate, StartTeardown, DestroyFront
    <3> QED
      BY <1>2, <2>2, <2>3, <3>1 DEF VerdictInv
  <2>7. CASE Gone \/ UNCHANGED vars
    <3>1. phase' = phase /\ at' = at /\ refusal' = refusal
      BY <2>7 DEF Gone, vars
    <3> QED
      BY <1>2, <2>2, <2>3, <3>1 DEF VerdictInv
  <2> QED
    BY <1>2, <2>4, <2>5, <2>6, <2>7 DEF Next
<1> QED
  BY <1>1, <1>2, PTL DEF Spec

(* For every family of modules the parser may leave and every bound of limits:  *)
(* a module that passes validate (Validation.cc) is sound in every part, and     *)
(* the part that an error blames is not.                                        *)
THEOREM VerdictAlwaysSound ==
  Spec => []VerdictIsSoundness
<1>1. VerdictInv => VerdictIsSoundness
  BY DEF VerdictInv, VerdictIsSoundness, Passed
<1> QED
  BY <1>1, VerdictInvHolds, PTL

-----------------------------------------------------------------------------
(* The layout.  A step of it adds nodes to the graph, and of the entities it   *)
(* adds none but the one it is about and changes none.                         *)

IsGraph(G) ==
  /\ G = [refs |-> G.refs, uses |-> G.uses, owned |-> G.owned, info |-> G.info, fault |-> G.fault]
  /\ DOMAIN G.info = DOMAIN G.uses
Aside(G, H) ==
  /\ IsGraph(H)
  /\ DOMAIN G.uses \subseteq DOMAIN H.uses
  /\ \A n \in DOMAIN H.uses : n[1] \in Kinds => n \in DOMAIN G.uses
  /\ \A n \in DOMAIN G.uses : n[1] \in Kinds => H.info[n] = G.info[n]

LEMMA AsideIsTransitive ==
  ASSUME NEW F, NEW G, NEW H, Aside(F, G), Aside(G, H)
  PROVE  Aside(F, H)
BY DEF Aside

(* What changes the lists of a graph and no node of it.                        *)
LEMMA SameNodes ==
  ASSUME NEW G, IsGraph(G), NEW n, NEW x
  PROVE  /\ Aside(G, G)
         /\ Aside(G, [G EXCEPT !.fault = x])
         /\ Aside(G, [G EXCEPT !.refs[n] = x])
         /\ Aside(G, [G EXCEPT !.uses[n] = x])
         /\ Aside(G, [G EXCEPT !.owned[n] = x])
BY DEF Aside, IsGraph

LEMMA UseAside ==
  ASSUME NEW G, IsGraph(G), NEW n, NEW by
  PROVE  Aside(G, addUse(G, n, by))
<1>1. /\ Aside(G, G)
      /\ Aside(G, [G EXCEPT !.fault = TRUE])
      /\ \A x : Aside(G, [G EXCEPT !.uses[n] = x])
  BY SameNodes
<1>2. [G EXCEPT !.uses[n] = <<by>> \o @] = [G EXCEPT !.uses[n] = <<by>> \o G.uses[n]]
  BY DEF IsGraph
<1>3. \/ addUse(G, n, by) = G
      \/ addUse(G, n, by) = [G EXCEPT !.uses[n] = <<by>> \o G.uses[n]]
      \/ addUse(G, n, by) = [G EXCEPT !.fault = TRUE]
  BY <1>2 DEF addUse
<1> QED
  BY <1>1, <1>3

LEMMA NodeBuilt ==
  ASSUME NEW G, IsGraph(G), NEW n, NEW owned, NEW info
  PROVE  LET H == BuildNode(G, n, owned, info) IN
         /\ IsGraph(H)
         /\ DOMAIN H.uses = DOMAIN G.uses \cup {n}
         /\ H.info[n] = info
         /\ \A m \in DOMAIN G.uses \ {n} : H.info[m] = G.info[m]
         /\ n[1] \notin Kinds => Aside(G, H)
<1> DEFINE H == BuildNode(G, n, owned, info)
<1>1. H = [refs |-> Entered(G.refs, n, <<>>), uses |-> Entered(G.uses, n, <<>>),
           owned |-> Entered(G.owned, n, owned), info |-> Entered(G.info, n, info), fault |-> G.fault]
  BY DEF BuildNode
<1> HIDE DEF H
<1>2. /\ H.uses = Entered(G.uses, n, <<>>) /\ H.info = Entered(G.info, n, info)
      /\ H = [refs |-> H.refs, uses |-> H.uses, owned |-> H.owned, info |-> H.info, fault |-> H.fault]
  BY <1>1
<1>3. DOMAIN H.uses = DOMAIN G.uses \cup {n} /\ DOMAIN H.info = DOMAIN G.info \cup {n}
  BY <1>2 DEF Entered
<1>4. H.info[n] = info /\ \A m \in DOMAIN G.info \ {n} : H.info[m] = G.info[m]
  BY <1>2 DEF Entered
<1>5. IsGraph(H)
  BY <1>2, <1>3 DEF IsGraph
<1>6. DOMAIN G.info = DOMAIN G.uses
  BY DEF IsGraph
<1>7. n[1] \notin Kinds => Aside(G, H)
  BY <1>3, <1>4, <1>5, <1>6 DEF Aside
<1> QED
  BY <1>3, <1>4, <1>5, <1>6, <1>7 DEF H

LEMMA ContentAside ==
  ASSUME NEW G, IsGraph(G), NEW node, NEW refs, Len(refs) \in Nat
  PROVE  Aside(G, setContent(G, node, refs))
<1> DEFINE n == Len(refs)
<1>1. PICK f : /\ f[0] = Referring(G, node, refs) /\ setContent(G, node, refs) = f[n]
               /\ \A i \in 1 .. n : f[i] = addUse(f[i - 1], refs[i], node)
  BY FillsContent
<1> DEFINE S == {i \in 0 .. n : Aside(G, f[i])}
<1> HIDE DEF n
<1>2. n \in Nat
  BY DEF n
<1>3. 0 \in S
  <2>1. Aside(G, f[0])
    <3>1. Aside(G, Referring(G, node, refs))
      BY SameNodes DEF Referring
    <3> QED
      BY <1>1, <3>1
  <2> QED
    BY <1>2, <2>1
<1>4. ASSUME NEW i \in 0 .. n, i \in S, i < n  PROVE i + 1 \in S
  <2>1. i + 1 \in 1 .. n /\ (i + 1) - 1 = i
    BY <1>2, <1>4
  <2>2. f[i + 1] = addUse(f[i], refs[i + 1], node)
    BY <1>1, <2>1
  <2>3. Aside(G, f[i])
    BY <1>4
  <2>4. Aside(f[i], f[i + 1])
    BY <2>2, <2>3, UseAside DEF Aside
  <2> QED
    BY <1>4, <2>1, <2>3, <2>4, AsideIsTransitive
<1>5. n \in S
  <2> HIDE DEF S
  <2>1. \A i \in 0 .. n : i \in S
    BY <1>2, <1>3, <1>4, Climbs
  <2> QED
    BY <1>2, <2>1
<1> QED
  BY <1>1, <1>5

LEMMA UserAside ==
  ASSUME NEW G, IsGraph(G), NEW node, node[1] \notin Kinds, NEW refs, Len(refs) \in Nat
  PROVE  Aside(G, BuildUser(G, node, refs))
<1> DEFINE H == BuildNode(G, node, <<>>, <<>>)
<1>1. IsGraph(H) /\ Aside(G, H)
  BY NodeBuilt
<1> HIDE DEF H
<1>2. Aside(H, setContent(H, node, refs))
  BY <1>1, ContentAside
<1>3. Aside(G, setContent(H, node, refs))
  BY <1>1, <1>2, AsideIsTransitive
<1> QED
  BY <1>3 DEF BuildUser, H

LEMMA InitializerAside ==
  ASSUME NEW G, IsGraph(G), NEW n, NEW segment
  PROVE  Aside(G, addInitializer(G, n, segment))
<1> DEFINE H == [G EXCEPT !.refs[n] = Append(@, segment)]
<1>1. Aside(G, H)
  <2>1. H = [G EXCEPT !.refs[n] = Append(G.refs[n], segment)]
    BY DEF IsGraph
  <2>2. \A x : Aside(G, [G EXCEPT !.refs[n] = x])
    BY SameNodes
  <2> QED
    BY <2>1, <2>2
<1> HIDE DEF H
<1>2. Aside(H, addUse(H, segment, n))
  BY <1>1, UseAside DEF Aside
<1>3. Aside(G, addUse(H, segment, n))
  BY <1>1, <1>2, AsideIsTransitive
<1> QED
  BY <1>3 DEF addInitializer, H

Adds(G, H, k, i, info) ==
  /\ IsGraph(H)
  /\ DOMAIN G.uses \cup {<<k, i>>} \subseteq DOMAIN H.uses
  /\ \A n \in DOMAIN H.uses : n[1] \in Kinds => n \in DOMAIN G.uses \/ n = <<k, i>>
  /\ \A n \in DOMAIN G.uses : n[1] \in Kinds /\ n # <<k, i>> => H.info[n] = G.info[n]
  /\ H.info[<<k, i>>] = info

LEMMA AddsThenAside ==
  ASSUME NEW k \in Kinds, NEW i, NEW info, NEW F, NEW G, NEW H, Adds(F, G, k, i, info), Aside(G, H)
  PROVE  Adds(F, H, k, i, info)
<1>1. <<k, i>>[1] \in Kinds
  OBVIOUS
<1> QED
  BY <1>1 DEF Adds, Aside

LEMMA EntityAdded ==
  ASSUME NEW G, IsGraph(G), NEW k \in Kinds, NEW i, NEW view
  PROVE  Adds(G, LayEntity(G, k, i, view), k, i, InfoOf(view))
<1> DEFINE n == <<k, i>>
           H == BuildNode(G, n, <<>>, InfoOf(view))
<1>1. /\ IsGraph(H) /\ DOMAIN H.uses = DOMAIN G.uses \cup {n} /\ H.info[n] = InfoOf(view)
      /\ \A m \in DOMAIN G.uses \ {n} : H.info[m] = G.info[m]
  BY NodeBuilt
<1>2. LayEntity(G, k, i, view) = Asserted(H, NamesAsserted(view))
  BY DEF LayEntity
<1> HIDE DEF H
<1>3. Adds(G, H, k, i, InfoOf(view))
  BY <1>1 DEF Adds
<1>4. Aside(H, Asserted(H, NamesAsserted(view)))
  <2>1. \A x : Aside(H, [H EXCEPT !.fault = x])
    BY <1>1, SameNodes
  <2>2. Asserted(H, NamesAsserted(view)) = [H EXCEPT !.fault = H.fault \/ ~NamesAsserted(view)]
    BY DEF Asserted
  <2> QED
    BY <2>1, <2>2
<1> QED
  BY <1>2, <1>3, <1>4, AddsThenAside

LEMMA RefsCounted ==
  ASSUME NEW expr
  PROVE  Len(InitializerRefs(expr)) \in Nat
BY DEF InitializerRefs

LEMMA GlobalAdded ==
  ASSUME NEW G, IsGraph(G), NEW i, NEW view
  PROVE  Adds(G, LayGlobal(G, i, view), "global", i, InfoOf(view))
<1> DEFINE H == LayEntity(G, "global", i, view)
           expr == view.entity[1].init
           I == BuildUser(H, <<"initializer", i>>, InitializerRefs(expr))
           J == [I EXCEPT !.owned[<<"global", i>>] = << <<"initializer", i>> >>]
<1>1. "global" \in Kinds /\ <<"initializer", i>>[1] \notin Kinds
  BY DEF Kinds
<1>2. Adds(G, H, "global", i, InfoOf(view))
  BY <1>1, EntityAdded
<1>3. LayGlobal(G, i, view) = IF view.entity = <<>> THEN H
                              ELSE IF Len(expr) # 1 THEN [H EXCEPT !.fault = TRUE] ELSE J
  BY DEF LayGlobal
<1> HIDE DEF H
<1>4. IsGraph(H)
  BY <1>2 DEF Adds
<1>5. Aside(H, H) /\ Aside(H, [H EXCEPT !.fault = TRUE])
  BY <1>4, SameNodes
<1>6. Aside(H, I)
  BY <1>1, <1>4, RefsCounted, UserAside
<1> HIDE DEF I
<1>7. Aside(I, J)
  <2>1. IsGraph(I)
    BY <1>6 DEF Aside
  <2> QED
    BY <2>1, SameNodes
<1> HIDE DEF J
<1>8. Aside(H, J)
  BY <1>6, <1>7, AsideIsTransitive
<1>9. Aside(H, LayGlobal(G, i, view))
  BY <1>3, <1>5, <1>8
<1> QED
  BY <1>1, <1>2, <1>9, AddsThenAside

LEMMA SegmentAside ==
  ASSUME NEW G, IsGraph(G), NEW k, k \notin Kinds, NEW offset, offset \notin Kinds,
         NEW i, NEW expr, NEW target, NEW content, Len(content) \in Nat
  PROVE  Aside(G, LaySegment(G, k, offset, i, expr, target, content))
<1> DEFINE O == BuildUser(G, <<offset, i>>, InitializerRefs(expr))
           S == BuildNode(O, <<k, i>>, << <<offset, i>> >>, <<>>)
           C == setContent(S, <<k, i>>, content)
           T == addInitializer(C, target, <<k, i>>)
<1>1. LaySegment(G, k, offset, i, expr, target, content)
        = IF Len(expr) # 1 \/ ~Alive(G, target) THEN [G EXCEPT !.fault = TRUE] ELSE T
  BY DEF LaySegment
<1>2. <<offset, i>>[1] \notin Kinds /\ <<k, i>>[1] \notin Kinds
  OBVIOUS
<1>3. Aside(G, O)
  BY <1>2, RefsCounted, UserAside
<1> HIDE DEF O
<1>4. IsGraph(O)
  BY <1>3 DEF Aside
<1>5. Aside(O, S)
  BY <1>2, <1>4, NodeBuilt
<1> HIDE DEF S
<1>6. IsGraph(S)
  BY <1>5 DEF Aside
<1>7. Aside(S, C)
  BY <1>6, ContentAside
<1> HIDE DEF C
<1>8. IsGraph(C)
  BY <1>7 DEF Aside
<1>9. Aside(C, T)
  BY <1>8, InitializerAside
<1> HIDE DEF T
<1>10. Aside(G, T)
  BY <1>3, <1>5, <1>7, <1>9, AsideIsTransitive
<1>11. Aside(G, [G EXCEPT !.fault = TRUE])
  BY SameNodes
<1> QED
  BY <1>1, <1>10, <1>11

Placed(x, body) == [j \in DOMAIN body |-> InstructionNode(x, j)]
Bodied(G, x, body) == [G EXCEPT !.owned[<<"function", x>>] = Placed(x, body)]
Placing(before, x, body, j) == BuildUser(before, Placed(x, body)[j], <<RefOf(body[j])>>)
Follows(G, x, body, f, m) ==
  f = [i \in 0 .. m |-> IF i = 0 THEN Bodied(G, x, body) ELSE Placing(f[i - 1], x, body, i)]

LEMMA FollowsFor ==
  ASSUME NEW G, NEW x, NEW body, Len(body) \in Nat
  PROVE  \E f : Follows(G, x, body, f, Len(body))
<1> DEFINE n == Len(body)
           S == {m \in 0 .. n : \E f : Follows(G, x, body, f, m)}
<1>1. 0 \in S
  <2>1. Follows(G, x, body, [i \in 0 .. 0 |-> Bodied(G, x, body)], 0)
    BY DEF Follows
  <2> QED
    BY <2>1
<1>2. ASSUME NEW m \in 0 .. n, m \in S, m < n  PROVE m + 1 \in S
  <2>1. PICK f : Follows(G, x, body, f, m)
    BY <1>2
  <2> DEFINE g == [i \in 0 .. m + 1 |-> IF i = m + 1 THEN Placing(f[m], x, body, m + 1) ELSE f[i]]
  <2>2. ASSUME NEW i \in 0 .. m + 1
        PROVE  g[i] = IF i = 0 THEN Bodied(G, x, body) ELSE Placing(g[i - 1], x, body, i)
    <3>1. CASE i = m + 1
      <4>1. g[i] = Placing(f[m], x, body, i) /\ g[i - 1] = f[m]
        BY <1>2, <3>1
      <4> QED
        BY <1>2, <3>1, <4>1
    <3>2. CASE i # m + 1
      <4>1. i \in 0 .. m /\ g[i] = f[i]
        BY <1>2, <3>2
      <4>2. f[i] = IF i = 0 THEN Bodied(G, x, body) ELSE Placing(f[i - 1], x, body, i)
        BY <2>1, <4>1 DEF Follows
      <4>3. i # 0 => g[i - 1] = f[i - 1]
        BY <1>2, <4>1
      <4> QED
        BY <4>1, <4>2, <4>3
    <3> QED
      BY <3>1, <3>2
  <2>3. Follows(G, x, body, g, m + 1)
    BY <2>2 DEF Follows
  <2> QED
    BY <1>2, <2>3
<1>3. n \in S
  <2>1. \A m \in 0 .. n : m \in S /\ m < n => m + 1 \in S
    BY <1>2
  <2> HIDE DEF S
  <2>2. \A m \in 0 .. n : m \in S
    BY <1>1, <2>1, Climbs
  <2> QED
    BY <2>2
<1> QED
  BY <1>3

LEMMA FollowsBody ==
  ASSUME NEW G, NEW x, NEW view, view.import = <<>>, NEW body, body = view.entity[1].body, Len(body) \in Nat
  PROVE  \E f : /\ f[0] = Bodied(G, x, body) /\ TranslateFunction(G, x, view) = f[Len(body)]
                /\ \A i \in 1 .. Len(body) : f[i] = Placing(f[i - 1], x, body, i)
<1> DEFINE f == CHOOSE f : Follows(G, x, body, f, Len(body))
<1>1. Follows(G, x, body, f, Len(body))
  BY FollowsFor
<1>2. TranslateFunction(G, x, view) = f[Len(body)]
  BY DEF TranslateFunction, Follows, Bodied, Placing, Placed
<1> DEFINE n == Len(body)
<1> HIDE DEF f, n
<1>3. f = [i \in 0 .. n |-> IF i = 0 THEN Bodied(G, x, body) ELSE Placing(f[i - 1], x, body, i)]
  BY <1>1 DEF Follows, n
<1>4. n \in Nat
  BY DEF n
<1>5. f[0] = Bodied(G, x, body)
  BY <1>3, <1>4
<1>6. ASSUME NEW i \in 1 .. n  PROVE f[i] = Placing(f[i - 1], x, body, i)
  BY <1>3, <1>4, <1>6
<1>7. TranslateFunction(G, x, view) = f[n]
  BY <1>2 DEF n
<1> QED
  BY <1>5, <1>6, <1>7 DEF n

LEMMA BodyAside ==
  ASSUME NEW G, IsGraph(G), NEW x, NEW view, view.import = <<>> => IsList(view.entity[1].body)
  PROVE  Aside(G, TranslateFunction(G, x, view))
<1>1. CASE view.import # <<>>
  <2>1. TranslateFunction(G, x, view) = G
    BY <1>1 DEF TranslateFunction
  <2> QED
    BY <2>1, SameNodes
<1>2. CASE view.import = <<>>
  <2> DEFINE body == view.entity[1].body
             n == Len(body)
  <2>1. n \in Nat /\ DOMAIN body = 1 .. n
    BY <1>2 DEF IsList
  <2>2. PICK f : /\ f[0] = Bodied(G, x, body) /\ TranslateFunction(G, x, view) = f[n]
                 /\ \A i \in 1 .. n : f[i] = Placing(f[i - 1], x, body, i)
    BY <1>2, <2>1, FollowsBody
  <2> DEFINE S == {i \in 0 .. n : Aside(G, f[i])}
  <2> HIDE DEF body, n
  <2>3. 0 \in S
    <3>1. Aside(G, Bodied(G, x, body))
      BY SameNodes DEF Bodied
    <3> QED
      BY <2>1, <2>2, <3>1
  <2>4. ASSUME NEW i \in 0 .. n, i \in S, i < n  PROVE i + 1 \in S
    <3>1. i + 1 \in 1 .. n /\ (i + 1) - 1 = i
      BY <2>1, <2>4
    <3>2. f[i + 1] = Placing(f[i], x, body, i + 1)
      BY <2>2, <3>1
    <3>3. Aside(G, f[i])
      BY <2>4
    <3>4. Placed(x, body)[i + 1] = <<"instruction", x, i + 1>>
      BY <2>1, <3>1 DEF Placed, InstructionNode
    <3>5. Placed(x, body)[i + 1][1] \notin Kinds
      BY <3>4 DEF Kinds
    <3>6. Aside(f[i], f[i + 1])
      <4>1. IsGraph(f[i]) /\ Len(<<RefOf(body[i + 1])>>) \in Nat
        BY <3>3 DEF Aside
      <4> QED
        BY <3>2, <3>5, <4>1, UserAside DEF Placing
    <3> QED
      BY <2>1, <2>4, <3>1, <3>3, <3>6, AsideIsTransitive
  <2>5. n \in S
    <3> HIDE DEF S
    <3>1. \A i \in 0 .. n : i \in S
      BY <2>1, <2>3, <2>4, Climbs
    <3> QED
      BY <2>1, <3>1
  <2> QED
    BY <2>2, <2>5
<1> QED
  BY <1>1, <1>2

-----------------------------------------------------------------------------
(* The last export of an entity names it.                                      *)

NamedAs(exports, named, e, name) ==
  \/ name = <<>> /\ named \cap 1 .. e = {}
  \/ \E l \in named \cap 1 .. e : (\A o \in named \cap 1 .. e : o <= l) /\ name = <<exports[l].name>>

LEMMA ExportIsLast ==
  ASSUME module \in BytecodeModules, NEW k, NEW x
  PROVE  \/ Named(k, x) = {} /\ ExportOf(module, k, x) = <<>>
         \/ \E l \in Named(k, x) : /\ LastOf(Named(k, x)) = {l}
                                   /\ ExportOf(module, k, x) = <<module.exports[l].name>>
<1> DEFINE exports == module.exports
           n == Len(exports)
           named == Named(k, x)
<1>1. n \in Nat /\ DOMAIN exports = 1 .. n
  BY ModuleLists DEF IsList
<1>2. PICK f : /\ f[0] = <<>> /\ ExportOf(module, k, x) = f[n]
               /\ \A i \in 1 .. n : f[i] = Noted(module, k, x, f[i - 1], i)
  BY <1>1, NotesExports
<1>3. named = {e \in 1 .. n : exports[e].kind = k /\ exports[e].index = x}
  BY <1>1 DEF Named
<1>4. \A i \in 1 .. n : f[i] = IF i \in named THEN <<exports[i].name>> ELSE f[i - 1]
  BY <1>2, <1>3 DEF Noted
<1> DEFINE S == {e \in 0 .. n : NamedAs(exports, named, e, f[e])}
<1> HIDE DEF exports, n, named
<1>5. 0 \in S
  BY <1>1, <1>2 DEF NamedAs
<1>6. ASSUME NEW e \in 0 .. n, e \in S, e < n  PROVE e + 1 \in S
  <2>1. e + 1 \in 1 .. n /\ (e + 1) - 1 = e /\ 1 .. e + 1 = (1 .. e) \cup {e + 1}
    BY <1>1, <1>6
  <2>2. NamedAs(exports, named, e, f[e])
    BY <1>6
  <2>3. CASE e + 1 \in named
    <3>1. f[e + 1] = <<exports[e + 1].name>>
      BY <1>4, <2>1, <2>3
    <3>2. \A o \in named \cap 1 .. e + 1 : o <= e + 1
      BY <1>1
    <3>3. e + 1 \in named \cap 1 .. e + 1
      BY <2>1, <2>3
    <3>4. NamedAs(exports, named, e + 1, f[e + 1])
      BY <3>1, <3>2, <3>3 DEF NamedAs
    <3> QED
      BY <2>1, <3>4
  <2>4. CASE e + 1 \notin named
    <3>1. f[e + 1] = f[e]
      BY <1>4, <2>1, <2>4
    <3>2. named \cap 1 .. e + 1 = named \cap 1 .. e
      BY <2>1, <2>4
    <3>3. NamedAs(exports, named, e + 1, f[e + 1])
      BY <2>2, <3>1, <3>2 DEF NamedAs
    <3> QED
      BY <2>1, <3>3
  <2> QED
    BY <2>3, <2>4
<1>7. n \in S
  <2> HIDE DEF S
  <2>1. \A e \in 0 .. n : e \in S
    BY <1>1, <1>5, <1>6, Climbs
  <2> QED
    BY <1>1, <2>1
<1>8. NamedAs(exports, named, n, f[n]) /\ named \cap 1 .. n = named /\ \A e \in named : e \in Int
  BY <1>1, <1>3, <1>7
<1>9. ASSUME NEW l \in named, \A o \in named : o <= l  PROVE LastOf(named) = {l}
  BY <1>8, <1>9 DEF LastOf
<1>10. \/ named = {} /\ f[n] = <<>>
       \/ \E l \in named : LastOf(named) = {l} /\ f[n] = <<exports[l].name>>
  BY <1>8, <1>9 DEF NamedAs
<1> QED
  BY <1>2, <1>10 DEF named, exports

(* What the layout has reached: how many entities of a kind there are, and     *)
(* that each is what the view has at its index.                                *)
Position(k) == CASE k = "memory" -> 0 [] k = "table" -> 1 [] k = "global" -> 2 [] k = "function" -> 3
Reached(k) == IF at > Position(k) THEN Len(View(module, k)) ELSE IF at = Position(k) THEN laid ELSE 0
Holds(G, k, n) ==
  /\ \A node \in DOMAIN G.uses : node[1] = k => \E i \in 0 .. n - 1 : node = <<k, i>>
  /\ \A i \in 0 .. n - 1 : <<k, i>> \in DOMAIN G.uses /\ G.info[<<k, i>>] = InfoOf(View(module, k)[i + 1])

LayoutInv ==
  /\ module \in BytecodeModules
  /\ phase = "validate" => IsGraph(mir) /\ DOMAIN mir.uses = {} /\ laid = 0
  /\ phase = "layout" => /\ at \in 0 .. 7 /\ laid \in Nat /\ IsGraph(mir)
                         /\ at < 7 => laid <= Size
                         /\ \A k \in Kinds : Holds(mir, k, Reached(k))

LEMMA AsideHolds ==
  ASSUME NEW G, NEW H, Aside(G, H), NEW k \in Kinds, NEW n \in Nat, Holds(G, k, n)
  PROVE  Holds(H, k, n)
<1>1. \A i : <<k, i>>[1] = k
  OBVIOUS
<1> QED
  BY <1>1 DEF Aside, Holds

LEMMA AddsHolds ==
  ASSUME NEW G, NEW H, NEW k \in Kinds, NEW i \in Nat, Holds(G, k, i),
         Adds(G, H, k, i, InfoOf(View(module, k)[i + 1]))
  PROVE  /\ Holds(H, k, i + 1)
         /\ \A l \in Kinds \ {k} : \A n \in Nat : Holds(G, l, n) => Holds(H, l, n)
<1>1. \A l, j : <<l, j>>[1] = l /\ <<l, j>>[2] = j
  OBVIOUS
<1>2. Holds(H, k, i + 1)
  <2>1. ASSUME NEW node \in DOMAIN H.uses, node[1] = k
        PROVE  \E j \in 0 .. (i + 1) - 1 : node = <<k, j>>
    BY <2>1 DEF Adds, Holds
  <2>2. ASSUME NEW j \in 0 .. (i + 1) - 1
        PROVE  <<k, j>> \in DOMAIN H.uses /\ H.info[<<k, j>>] = InfoOf(View(module, k)[j + 1])
    <3>1. CASE j = i
      BY <3>1 DEF Adds
    <3>2. CASE j # i
      <4>1. j \in 0 .. i - 1 /\ <<k, j>> # <<k, i>>
        BY <3>2
      <4> QED
        BY <1>1, <4>1 DEF Adds, Holds
    <3> QED
      BY <3>1, <3>2
  <2> QED
    BY <2>1, <2>2 DEF Holds
<1>3. ASSUME NEW l \in Kinds \ {k}, NEW n \in Nat, Holds(G, l, n)  PROVE Holds(H, l, n)
  <2>1. \A j : <<l, j>> # <<k, i>>
    OBVIOUS
  <2> QED
    BY <1>1, <1>3, <2>1 DEF Adds, Holds
<1> QED
  BY <1>2, <1>3

LEMMA FunctionBody ==
  ASSUME module \in BytecodeModules, NEW i \in 1 .. Len(View(module, "function")),
         View(module, "function")[i].import = <<>>
  PROVE  IsList(View(module, "function")[i].entity[1].body)
<1> DEFINE h == Len(ImportsOf(module, "function"))
           d == Len(module.functions)
           v == View(module, "function")
<1>1. "function" \in Kinds /\ Definitions(module, "function") = module.functions
  BY DEF Kinds, Definitions
<1>2. /\ h \in Nat /\ d \in Nat /\ Len(v) = h + d
      /\ \A j \in 1 .. h : v[j].import = ImportsOf(module, "function")[j].names
      /\ \A j \in 1 .. d : v[h + j].entity = <<module.functions[j]>>
  BY <1>1, ViewIs
<1>3. \A j \in 1 .. h : v[j].import # <<>>
  <2>1. ASSUME NEW j \in 1 .. h  PROVE ImportsOf(module, "function")[j].names # <<>>
    <3>1. PICK p \in ImportPositions("function") : ImportIndex(p) = j - 1
      BY <1>1, ImportsRanked
    <3>2. p \in DOMAIN module.imports /\ ImportsOf(module, "function")[(j - 1) + 1] = module.imports[p]
      BY <1>1, <3>1, ImportsRanked
    <3>3. (j - 1) + 1 = j
      OBVIOUS
    <3>4. module.imports[p].names # <<>>
      BY <3>2, ImportFields, PairNotEmpty
    <3> QED
      BY <3>2, <3>3, <3>4
  <2> QED
    BY <1>2, <2>1
<1>4. i \in 1 .. Len(v) /\ v[i].import = <<>>
  OBVIOUS
<1> HIDE DEF h, d, v
<1>5. i \notin 1 .. h
  BY <1>3, <1>4
<1>6. PICK j \in 1 .. d : i = h + j
  <2>1. i - h \in 1 .. d /\ i = h + (i - h)
    BY <1>2, <1>4, <1>5
  <2> QED
    BY <2>1
<1>7. v[i].entity = <<module.functions[j]>>
  BY <1>2, <1>6
<1>8. v[i].entity[1] = module.functions[j]
  BY <1>7
<1>9. IsList(module.functions[j].body)
  <2>1. module.functions \in Seq([type : EntityType("function"), body : Seq({"call", "set", "grow", "untyped"} \X Nat)])
    BY DEF BytecodeModules
  <2>2. j \in DOMAIN module.functions
    BY <2>1, ListOf DEF d, IsList
  <2>3. module.functions[j] \in [type : EntityType("function"), body : Seq({"call", "set", "grow", "untyped"} \X Nat)]
    BY <2>1, <2>2, ListOf
  <2>4. module.functions[j].body \in Seq({"call", "set", "grow", "untyped"} \X Nat)
    BY <2>3
  <2> QED
    BY <2>4, ListOf
<1> QED
  BY <1>8, <1>9 DEF v

(* What the parts lay out.                                                    *)
LEMMA EntityLaid ==
  ASSUME module \in BytecodeModules, IsGraph(mir), laid \in Nat, NEW k \in Kinds, at = Position(k)
  PROVE  /\ Size = Len(View(module, k))
         /\ Adds(mir, Laid(laid + 1), k, laid, InfoOf(View(module, k)[laid + 1]))
<1>1. /\ Part = k
      /\ k = "global" => Laid(laid + 1) = LayGlobal(mir, (laid + 1) - 1, View(module, "global")[laid + 1])
      /\ k # "global" => Laid(laid + 1) = LayEntity(mir, k, (laid + 1) - 1, View(module, k)[laid + 1])
      /\ Size = Len(View(module, k))
  <2>1. Part = k
    BY DEF Part, At, Parts, Position, Kinds
  <2>2. k \in {"function", "table", "memory", "global"}
    BY DEF Kinds
  <2> QED
    BY <2>1, <2>2 DEF Laid, Size
<1>2. (laid + 1) - 1 = laid
  OBVIOUS
<1> QED
  BY <1>1, <1>2, EntityAdded, GlobalAdded

LEMMA AsideLaid ==
  ASSUME module \in BytecodeModules, IsGraph(mir), laid \in Nat, at \in 4 .. 6, laid < Size
  PROVE  Aside(mir, Laid(laid + 1))
<1> DEFINE j == laid + 1
<1>1. CASE at = 4
  <2>1. Part = "data"
    BY <1>1 DEF Part, At, Parts
  <2>2. Laid(j) = LaySegment(mir, "data", "data_offset", j - 1, module.data[j].offset,
                             <<"memory", module.data[j].memory>>, <<>>)
    BY <2>1 DEF Laid, LayData
  <2>3. "data" \notin Kinds /\ "data_offset" \notin Kinds /\ Len(<<>>) \in Nat
    BY DEF Kinds
  <2> QED
    BY <2>2, <2>3, SegmentAside
<1>2. CASE at = 5
  <2> DEFINE init == module.elements[j].init
             content == [i \in DOMAIN init |-> <<"function", init[i]>>]
  <2>1. Part = "element"
    BY <1>2 DEF Part, At, Parts
  <2>2. Laid(j) = LaySegment(mir, "element", "element_offset", j - 1, module.elements[j].offset,
                             <<"table", module.elements[j].table>>, content)
    BY <2>1 DEF Laid, LayElement
  <2>3. j \in 1 .. Len(module.elements)
    BY <2>1, ModuleLists DEF Size, IsList
  <2>4. init \in Seq(Nat)
    <3>1. module.elements \in Seq([table : Nat, offset : Seq(InitInstruction), init : Seq(Nat)])
      BY DEF BytecodeModules
    <3>2. j \in DOMAIN module.elements
      BY <2>3, ModuleLists DEF IsList
    <3>3. module.elements[j] \in [table : Nat, offset : Seq(InitInstruction), init : Seq(Nat)]
      BY <3>1, <3>2, ListOf
    <3> QED
      BY <3>3
  <2>5. Len(content) \in Nat
    <3> HIDE DEF init
    <3>1. content \in Seq({"function"} \X Nat)
      BY <2>4
    <3> QED
      BY <3>1
  <2>6. "element" \notin Kinds /\ "element_offset" \notin Kinds
    BY DEF Kinds
  <2> HIDE DEF content
  <2> QED
    BY <2>2, <2>5, <2>6, SegmentAside
<1>3. CASE at = 6
  <2> DEFINE view == View(module, "function")[j]
  <2>1. Part = "bodies"
    BY <1>3 DEF Part, At, Parts
  <2>2. Laid(j) = TranslateFunction(mir, j - 1, view) /\ Size = Len(View(module, "function"))
    BY <2>1 DEF Laid, Size
  <2>3. "function" \in Kinds
    BY DEF Kinds
  <2>4. Len(View(module, "function")) \in Nat
    BY <2>3, ViewIs DEF IsList
  <2>5. j \in 1 .. Len(View(module, "function"))
    BY <2>2, <2>4
  <2>6. view.import = <<>> => IsList(view.entity[1].body)
    BY <2>5, FunctionBody
  <2> HIDE DEF view
  <2> QED
    BY <2>2, <2>6, BodyAside
<1> QED
  BY <1>1, <1>2, <1>3

LEMMA ViewsFixed ==
  ASSUME module' = module
  PROVE  /\ \A k : View(module, k)' = View(module, k)
         /\ \A k, n : Holds(mir, k, n)' <=> Holds(mir', k, n)
<1>1. \A k : View(module, k)' = View(module, k)
  OBVIOUS
<1> QED
  BY <1>1 DEF Holds

LEMMA LengthsCounted ==
  ASSUME module \in BytecodeModules
  PROVE  /\ Len(module.data) \in Nat /\ Len(module.elements) \in Nat
         /\ \A k \in Kinds : Len(View(module, k)) \in Nat
BY ModuleLists, ViewIs DEF IsList

LEMMA SizeIs ==
  ASSUME module \in BytecodeModules, at \in 0 .. 6
  PROVE  Size \in Nat
<1>1. Part \in {"memory", "table", "global", "function", "data", "element", "bodies"}
  BY DEF Part, At, Parts
<1>2. \A k \in {"memory", "table", "global", "function"} : Len(View(module, k)) \in Nat
  BY LengthsCounted DEF Kinds
<1> QED
  BY <1>1, <1>2, LengthsCounted DEF Size

LEMMA ReachedIs ==
  ASSUME LayoutInv, phase = "layout", NEW k \in Kinds
  PROVE  Reached(k) \in Nat /\ Position(k) \in 0 .. 3 /\ \A l \in Kinds \ {k} : Position(l) # Position(k)
<1>1. Len(View(module, k)) \in Nat
  BY ViewIs DEF LayoutInv, IsList
<1> QED
  BY <1>1 DEF LayoutInv, Reached, Position, Kinds

LEMMA TranslateHolds ==
  ASSUME LayoutInv, Translate
  PROVE  LayoutInv'
<1>1. /\ phase = "layout" /\ phase' = "layout" /\ module' = module /\ module \in BytecodeModules
      /\ at \in 0 .. 6 /\ laid \in Nat /\ laid <= Size /\ IsGraph(mir)
      /\ \A k \in Kinds : Holds(mir, k, Reached(k))
  BY DEF LayoutInv, Translate, Parts
<1>2. \A k \in Kinds : Reached(k) \in Nat /\ Position(k) \in 0 .. 3 /\ \A l \in Kinds \ {k} : Position(l) # Position(k)
  BY <1>1, ReachedIs
<1>3. \A k : View(module, k)' = View(module, k)
  BY <1>1, ViewsFixed
<1>4. \A k \in Kinds : at = Position(k) => Size = Len(View(module, k)) /\ Size \in Nat
  BY <1>1, EntityLaid, ViewIs DEF IsList
<1>5. SUFFICES /\ at' \in 0 .. 7 /\ laid' \in Nat /\ IsGraph(mir') /\ (at' < 7 => laid' <= Size')
               /\ \A k \in Kinds : Holds(mir', k, Reached(k)')
  <2>1. \A k, n : Holds(mir, k, n)' <=> Holds(mir', k, n)
    BY <1>1, ViewsFixed
  <2> QED
    BY <1>1, <2>1 DEF LayoutInv, IsGraph
<1>6. CASE laid < Size
  <2>1. mir' = Laid(laid + 1) /\ laid' = laid + 1 /\ at' = at
    BY <1>6 DEF Translate
  <2>2. Size' = Size
    BY <1>1, <2>1 DEF Size, Part, At
  <2>3. Size \in Nat
    BY <1>1, <1>4, SizeIs
  <2>4. \A k \in Kinds : Reached(k)' = IF at = Position(k) THEN laid + 1 ELSE Reached(k)
    BY <1>1, <1>2, <1>3, <2>1 DEF Reached
  <2>5. IsGraph(mir') /\ \A k \in Kinds : Holds(mir', k, Reached(k)')
    <3>1. CASE \E k \in Kinds : at = Position(k)
      <4>1. PICK k \in Kinds : at = Position(k)
        BY <3>1
      <4>2. Adds(mir, mir', k, laid, InfoOf(View(module, k)[laid + 1]))
        BY <1>1, <2>1, <4>1, EntityLaid
      <4>3. Reached(k) = laid
        BY <1>1, <1>2, <4>1 DEF Reached
      <4>4. Holds(mir', k, laid + 1) /\ \A l \in Kinds \ {k} : Holds(mir', l, Reached(l))
        BY <1>1, <1>2, <4>2, <4>3, AddsHolds
      <4>5. \A l \in Kinds \ {k} : Reached(l)' = Reached(l)
        BY <1>2, <2>4, <4>1
      <4>6. IsGraph(mir')
        BY <4>2 DEF Adds
      <4> QED
        BY <2>4, <4>1, <4>4, <4>5, <4>6
    <3>2. CASE ~ \E k \in Kinds : at = Position(k)
      <4>1. at \in 4 .. 6
        BY <1>1, <3>2 DEF Position, Kinds
      <4>2. Aside(mir, mir')
        BY <1>1, <1>6, <2>1, <4>1, AsideLaid
      <4>3. \A k \in Kinds : Reached(k)' = Reached(k)
        BY <2>4, <3>2
      <4>4. \A k \in Kinds : Holds(mir', k, Reached(k))
        BY <1>1, <1>2, <4>2, AsideHolds
      <4> QED
        BY <4>2, <4>3, <4>4 DEF Aside
    <3> QED
      BY <3>1, <3>2
  <2> QED
    BY <1>1, <1>6, <2>1, <2>2, <2>3, <2>5
<1>7. CASE ~(laid < Size)
  <2>1. mir' = mir /\ laid' = 0 /\ at' = at + 1
    BY <1>7 DEF Translate
  <2>2. Size \in Nat /\ laid = Size
    BY <1>1, <1>7, SizeIs
  <2>3. \A k \in Kinds : Reached(k)' = Reached(k)
    <3> SUFFICES ASSUME NEW k \in Kinds  PROVE Reached(k)' = Reached(k)
      OBVIOUS
    <3>1. View(module, k)' = View(module, k) /\ Position(k)' = Position(k) /\ Position(k) \in 0 .. 3
      BY <1>2, <1>3 DEF Position
    <3>2. at = Position(k) => laid = Len(View(module, k))
      BY <1>4, <2>2
    <3> QED
      BY <1>1, <2>1, <3>1, <3>2 DEF Reached
  <2>4. at' < 7 => Size' \in Nat
    <3>1. ASSUME at' < 7  PROVE Size' \in Nat
      <4>1. at' \in 0 .. 6
        BY <1>1, <2>1, <3>1
      <4> DEFINE a == at'
      <4>2. Part' \in {"memory", "table", "global", "function", "data", "element", "bodies"}
        <5>1. Part' = Parts[a + 1]
          BY DEF Part, At, Parts
        <5>2. a \in 0 .. 6
          BY <4>1
        <5> HIDE DEF a
        <5> QED
          BY <5>1, <5>2 DEF Parts
      <4>3. /\ Len(module'.data) \in Nat /\ Len(module'.elements) \in Nat
            /\ \A k \in Kinds : Len(View(module, k)') \in Nat
        BY <1>1, <1>3, LengthsCounted
      <4>4. \A k \in {"memory", "table", "global", "function"} : Len(View(module, k)') \in Nat
        BY <4>3 DEF Kinds
      <4> QED
        BY <4>2, <4>3, <4>4 DEF Size
    <3> QED
      BY <3>1
  <2> QED
    BY <1>1, <2>1, <2>3, <2>4
<1> QED
  BY <1>6, <1>7

LEMMA LayoutInvHolds ==
  Spec => []LayoutInv
<1>1. ASSUME Init  PROVE LayoutInv
  <2>1. module \in BytecodeModules
    BY <1>1, ModulesAssumption DEF Init
  <2>2. phase = "validate" /\ laid = 0 /\ mir = EmptyModule
    BY <1>1 DEF Init
  <2>3. IsGraph(EmptyModule) /\ DOMAIN EmptyModule.uses = {}
    BY DEF IsGraph, EmptyModule
  <2> QED
    BY <2>1, <2>2, <2>3 DEF LayoutInv
<1>2. ASSUME LayoutInv, [Next]_vars  PROVE LayoutInv'
  <2>1. module' = module /\ module \in BytecodeModules /\ module' \in BytecodeModules
    BY <1>2 DEF LayoutInv, Next, vars, Validate, StartTranslation, Translate, StartTeardown, DestroyFront, Gone
  <2>2. CASE Validate
    <3>1. /\ phase = "validate" /\ phase' \in {"validate", "rejected"} /\ laid' = laid
          /\ \E x : mir' = [mir EXCEPT !.fault = x]
      BY <2>2 DEF Validate
    <3>2. IsGraph(mir) /\ DOMAIN mir.uses = {} /\ laid = 0
      BY <1>2, <3>1 DEF LayoutInv
    <3>3. IsGraph(mir') /\ DOMAIN mir'.uses = {}
      BY <3>1, <3>2 DEF IsGraph
    <3> QED
      BY <2>1, <3>1, <3>2, <3>3 DEF LayoutInv, IsGraph
  <2>3. CASE StartTranslation
    <3>1. phase = "validate" /\ phase' = "layout" /\ at' = 0 /\ laid' = laid /\ mir' = mir
      BY <2>3 DEF StartTranslation
    <3>2. IsGraph(mir) /\ DOMAIN mir.uses = {} /\ laid = 0
      BY <1>2, <3>1 DEF LayoutInv
    <3>3. ASSUME NEW k \in Kinds  PROVE Holds(mir, k, Reached(k))'
      <4>1. Reached(k)' = 0
        BY <3>1, <3>2 DEF Reached, Position, Kinds
      <4>2. Holds(mir', k, 0)
        BY <3>1, <3>2 DEF Holds
      <4> QED
        BY <2>1, <4>1, <4>2, ViewsFixed
    <3>4. (at < 7 => laid <= Size)'
      <4>1. Part' = "memory"
        BY <3>1 DEF Part, At, Parts
      <4>2. View(module, "memory")' = View(module, "memory") /\ "memory" \in Kinds
        BY <2>1, ViewsFixed DEF Kinds
      <4>3. Len(View(module, "memory")') \in Nat
        BY <2>1, <4>2, LengthsCounted
      <4>4. Size' = Len(View(module, "memory")')
        BY <4>1 DEF Size
      <4> QED
        BY <3>1, <3>2, <4>3, <4>4
    <3> QED
      BY <2>1, <3>1, <3>2, <3>3, <3>4 DEF LayoutInv, IsGraph
  <2>4. CASE Translate
    BY <1>2, <2>4, TranslateHolds
  <2>5. CASE StartTeardown \/ DestroyFront
    <3>1. phase' = "teardown"
      BY <2>5 DEF StartTeardown, DestroyFront
    <3> QED
      BY <2>1, <3>1 DEF LayoutInv
  <2>6. CASE Gone \/ UNCHANGED vars
    <3>1. phase' = phase /\ at' = at /\ laid' = laid /\ mir' = mir
      BY <2>6 DEF Gone, vars
    <3>2. Size' = Size /\ \A k : Reached(k)' = Reached(k)
      BY <2>1, <3>1 DEF Size, Part, Reached, Position
    <3>3. \A k, n : Holds(mir, k, n)' <=> Holds(mir, k, n)
      BY <2>1, <3>1, ViewsFixed
    <3> QED
      BY <1>2, <2>1, <3>1, <3>2, <3>3 DEF LayoutInv, IsGraph
  <2> QED
    BY <1>2, <2>2, <2>3, <2>4, <2>5, <2>6 DEF Next
<1> QED
  BY <1>1, <1>2, PTL DEF Spec

LEMMA ExportInView ==
  ASSUME module \in BytecodeModules, NEW k \in Kinds, NEW i \in 0 .. Len(View(module, k)) - 1
  PROVE  At(View(module, k), i).export = ExportOf(module, k, i)
<1> DEFINE h == Len(ImportsOf(module, k))
           d == Len(Definitions(module, k))
           v == View(module, k)
<1>1. /\ h \in Nat /\ d \in Nat /\ Len(v) = h + d
      /\ \A j \in 1 .. h : v[j].export = ExportOf(module, k, j - 1)
      /\ \A j \in 1 .. d : v[h + j].export = ExportOf(module, k, (h + j) - 1)
  BY ViewIs
<1>2. i \in 0 .. Len(v) - 1
  OBVIOUS
<1> HIDE DEF h, d, v
<1>3. i \in 0 .. h + d - 1
  BY <1>1, <1>2
<1>4. (i + 1) - 1 = i
  BY <1>1, <1>3
<1>5. CASE i < h
  <2>1. i + 1 \in 1 .. h
    BY <1>1, <1>3, <1>5
  <2> QED
    BY <1>1, <1>4, <2>1 DEF At, v
<1>6. CASE ~(i < h)
  <2>1. PICK j \in 1 .. d : h + j = i + 1
    <3>1. i + 1 - h \in 1 .. d /\ h + (i + 1 - h) = i + 1
      BY <1>1, <1>3, <1>6
    <3> QED
      BY <3>1
  <2> QED
    BY <1>1, <1>4, <2>1 DEF At, v
<1> QED
  BY <1>5, <1>6

LEMMA OneNamed ==
  ASSUME module \in BytecodeModules, NEW k, NEW x
  PROVE  (IF ExportOf(module, k, x) = <<"">> THEN <<>> ELSE ExportOf(module, k, x)) =
           LET names == {module.exports[e].name : e \in LastOf(Named(k, x))} \ {""}
           IN  IF names = {} THEN <<>> ELSE <<CHOOSE name \in names : TRUE>>
<1> DEFINE names == {module.exports[e].name : e \in LastOf(Named(k, x))} \ {""}
           export == ExportOf(module, k, x)
           choice == CHOOSE name \in names : TRUE
<1>1. CASE Named(k, x) = {} /\ export = <<>>
  <2>1. names = {}
    BY <1>1 DEF LastOf
  <2>2. <<>> # <<"">>
    OBVIOUS
  <2> QED
    BY <1>1, <2>1, <2>2
<1>2. ASSUME NEW l \in Named(k, x), LastOf(Named(k, x)) = {l}, export = <<module.exports[l].name>>
      PROVE  (IF export = <<"">> THEN <<>> ELSE export) = IF names = {} THEN <<>> ELSE <<choice>>
  <2> DEFINE name == module.exports[l].name
  <2>1. names = {name} \ {""} /\ export = <<name>>
    BY <1>2
  <2> HIDE DEF name, export
  <2>2. CASE name = ""
    BY <2>1, <2>2
  <2>3. CASE name # ""
    <3>1. names = {name}
      BY <2>1, <2>3
    <3>2. choice \in names
      BY <3>1
    <3> HIDE DEF names, choice
    <3>3. choice = name /\ names # {}
      BY <3>1, <3>2
    <3>4. <<name>> # <<"">>
      BY <2>3
    <3> QED
      BY <2>1, <3>3, <3>4
  <2> QED
    BY <2>2, <2>3
<1> QED
  BY <1>1, <1>2, ExportIsLast

LEMMA InfoFields ==
  ASSUME NEW view
  PROVE  /\ InfoOf(view).type = view.type
         /\ InfoOf(view).import = IF view.import = <<"", "">> THEN <<>> ELSE view.import
         /\ InfoOf(view).export = IF view.export = <<"">> THEN <<>> ELSE view.export
<1> DEFINE i == IF view.import = <<"", "">> THEN <<>> ELSE view.import
           e == IF view.export = <<"">> THEN <<>> ELSE view.export
<1>1. InfoOf(view) = [type |-> view.type, import |-> i, export |-> e]
  BY DEF InfoOf
<1> HIDE DEF i, e
<1>2. InfoOf(view).type = view.type /\ InfoOf(view).import = i /\ InfoOf(view).export = e
  BY <1>1
<1> QED
  BY <1>2 DEF i, e

(* For every family of modules the parser may leave: when the layout of          *)
(* EntityLayout.cc is done, each entity of MIR is the one its index means, with   *)
(* its type, its import and the last of its export names.                        *)
THEOREM SpacesAlwaysAgree ==
  Spec => []SpacesAgree
<1>1. LayoutInv => SpacesAgree
  <2> SUFFICES ASSUME LayoutInv, phase = "layout", at = 7, NEW k \in Kinds
               PROVE
      LET typed(t) == IF k = "function" THEN At(module.types, t.index) ELSE t IN
      /\ \A p \in ImportPositions(k) :
           /\ mir.info[<<k, ImportIndex(p)>>].import =
                IF module.imports[p].names = <<"", "">> THEN <<>> ELSE module.imports[p].names
           /\ mir.info[<<k, ImportIndex(p)>>].type = typed(module.imports[p].type)
      /\ \A j \in DOMAIN Definitions(module, k) :
           /\ mir.info[<<k, DefinitionIndex(k, j)>>].import = <<>>
           /\ mir.info[<<k, DefinitionIndex(k, j)>>].type = typed(Definitions(module, k)[j].type)
      /\ \A i \in {n[2] : n \in NodesOf(mir, k)} :
           /\ Exists(k, i)
           /\ mir.info[<<k, i>>].export =
                LET names == {module.exports[e].name : e \in LastOf(Named(k, i))} \ {""}
                IN  IF names = {} THEN <<>> ELSE <<CHOOSE name \in names : TRUE>>
    BY DEF SpacesAgree, Parts
  <2> DEFINE v == View(module, k)
             n == Len(v)
  <2>1. module \in BytecodeModules /\ n \in Nat /\ Holds(mir, k, n)
    <3>1. Reached(k) = n
      BY DEF Reached, Position, Kinds
    <3> QED
      BY <3>1, LengthsCounted DEF LayoutInv
  <2>2. ASSUME NEW i \in 0 .. n - 1
        PROVE  /\ mir.info[<<k, i>>].type = At(v, i).type
               /\ mir.info[<<k, i>>].import = IF At(v, i).import = <<"", "">> THEN <<>> ELSE At(v, i).import
               /\ mir.info[<<k, i>>].export = IF At(v, i).export = <<"">> THEN <<>> ELSE At(v, i).export
    <3>1. mir.info[<<k, i>>] = InfoOf(At(v, i))
      BY <2>1 DEF Holds, At
    <3> HIDE DEF v
    <3> QED
      BY <3>1, InfoFields
  <2>3. ASSUME NEW p \in ImportPositions(k)
        PROVE  /\ mir.info[<<k, ImportIndex(p)>>].import =
                    IF module.imports[p].names = <<"", "">> THEN <<>> ELSE module.imports[p].names
               /\ mir.info[<<k, ImportIndex(p)>>].type = TypeIn(module, k, module.imports[p].type)
    <3>1. /\ ImportIndex(p) \in 0 .. n - 1
          /\ At(v, ImportIndex(p)).type = TypeIn(module, k, module.imports[p].type)
          /\ At(v, ImportIndex(p)).import = module.imports[p].names
      BY <2>1, ImportInView
    <3> HIDE DEF v, n
    <3> QED
      BY <2>2, <3>1
  <2>4. ASSUME NEW j \in DOMAIN Definitions(module, k)
        PROVE  /\ mir.info[<<k, DefinitionIndex(k, j)>>].import = <<>>
               /\ mir.info[<<k, DefinitionIndex(k, j)>>].type = TypeIn(module, k, Definitions(module, k)[j].type)
    <3>1. /\ DefinitionIndex(k, j) \in 0 .. n - 1
          /\ At(v, DefinitionIndex(k, j)).type = TypeIn(module, k, Definitions(module, k)[j].type)
          /\ At(v, DefinitionIndex(k, j)).import = <<>>
      BY <2>1, DefinitionInView
    <3> HIDE DEF v, n
    <3> QED
      BY <2>2, <3>1
  <2>5. ASSUME NEW node \in NodesOf(mir, k)
        PROVE  node[2] \in 0 .. n - 1
    <3>1. PICK i \in 0 .. n - 1 : node = <<k, i>>
      BY <2>1 DEF NodesOf, Holds
    <3> QED
      BY <3>1
  <2>6. ASSUME NEW i \in 0 .. n - 1
        PROVE  /\ Exists(k, i)
               /\ mir.info[<<k, i>>].export =
                    LET names == {module.exports[e].name : e \in LastOf(Named(k, i))} \ {""}
                    IN  IF names = {} THEN <<>> ELSE <<CHOOSE name \in names : TRUE>>
    <3>1. Exists(k, i)
      BY <2>1, ExistsInView
    <3>2. At(v, i).export = ExportOf(module, k, i)
      BY <2>1, ExportInView
    <3>3. mir.info[<<k, i>>].export = IF ExportOf(module, k, i) = <<"">> THEN <<>> ELSE ExportOf(module, k, i)
      BY <2>2, <3>2
    <3> QED
      BY <2>1, <3>1, <3>3, OneNamed
  <2> HIDE DEF v, n
  <2> QED
    BY <2>3, <2>4, <2>5, <2>6 DEF TypeIn
<1> QED
  BY <1>1, LayoutInvHolds, PTL

-----------------------------------------------------------------------------
(* Who may refer to whom, and what belongs to whom, by kind.                   *)

EntityKinds == Kinds \cup {"data", "element"}
OwnedKinds == Irreplaceable \cup {"instruction"}
Edges ==
  {<<"table", "element">>, <<"memory", "data">>, <<"element", "function">>,
   <<"initializer", "global">>, <<"data_offset", "global">>, <<"element_offset", "global">>,
   <<"instruction", "function">>, <<"instruction", "global">>, <<"instruction", "memory">>}
Owner(o) ==
  CASE o[1] = "initializer"    -> <<"global", o[2]>>
    [] o[1] = "data_offset"    -> <<"data", o[2]>>
    [] o[1] = "element_offset" -> <<"element", o[2]>>
    [] o[1] = "instruction"    -> <<"function", o[2]>>

KindedRefs(kind, refs) == \A k \in DOMAIN refs : refs[k] = Nil \/ <<kind, refs[k][1]>> \in Edges
Kinded(G) == \A u \in DOMAIN G.refs : KindedRefs(u[1], G.refs[u])

IsEntity(n) == n[1] \in EntityKinds /\ n = <<n[1], n[2]>> /\ n[2] \in Nat
Owns(N, n, os) ==
  /\ IsList(os)
  /\ \A i \in 1 .. Len(os) : os[i] \in N /\ os[i][1] \in OwnedKinds /\ Owner(os[i]) = n
  /\ \A i, j \in 1 .. Len(os) : os[i] = os[j] => i = j
Belongs(G, N, o) == Owner(o) \in N /\ \E i \in 1 .. Len(G.owned[Owner(o)]) : G.owned[Owner(o)][i] = o
Placement(G, N, n) ==
  \/ IsEntity(n) /\ Owns(N, n, G.owned[n])
  \/ n[1] \in OwnedKinds /\ G.owned[n] = <<>> /\ Belongs(G, N, n)
Owning(G, N) == \A n \in N : Placement(G, N, n)

Sane(G) ==
  /\ ~G.fault /\ Linked(G, DOMAIN G.uses) /\ Kinded(G)
  /\ DOMAIN G.uses \subseteq DOMAIN G.owned /\ Owning(G, DOMAIN G.uses)

LEMMA KindsApart ==
  /\ \A kind \in OwnedKinds : kind \notin EntityKinds /\ kind \notin Kinds
  /\ \A o : o[1] \in OwnedKinds => Owner(o)[1] \in EntityKinds
  /\ \A kind \in OwnedKinds : \A x : <<x, kind>> \notin Edges
  /\ \A kind \in Kinds : kind \in EntityKinds
<1>1. \A kind \in OwnedKinds : kind \notin EntityKinds /\ kind \notin Kinds
  BY DEF OwnedKinds, Irreplaceable, EntityKinds, Kinds
<1>2. ASSUME NEW o, o[1] \in OwnedKinds  PROVE Owner(o)[1] \in EntityKinds
  BY <1>2 DEF OwnedKinds, Irreplaceable, EntityKinds, Kinds, Owner
<1>3. \A kind \in OwnedKinds : \A x : <<x, kind>> \notin Edges
  BY DEF OwnedKinds, Irreplaceable, Edges
<1> QED
  BY <1>1, <1>2, <1>3 DEF EntityKinds

(* What is owned is not there before its owner owns it.                        *)
LEMMA OwnedIsNew ==
  ASSUME NEW G, NEW N, Owning(G, N), NEW o, o[1] \in OwnedKinds,
         Owner(o) \notin N \/ G.owned[Owner(o)] = <<>>
  PROVE  o \notin N
<1> SUFFICES ASSUME o \in N  PROVE FALSE
  OBVIOUS
<1>1. Belongs(G, N, o)
  BY KindsApart DEF Owning, Placement, IsEntity
<1>2. Len(<<>>) = 0
  OBVIOUS
<1> QED
  BY <1>1, <1>2 DEF Belongs

(* An entity enters, or one that owned nothing gets what it owns.              *)
LEMMA OwningGrows ==
  ASSUME NEW G, NEW N, Owning(G, N), NEW H, NEW e, IsEntity(e),
         e \notin N \/ G.owned[e] = <<>>,
         NEW os, NEW M, M = N \cup {e} \cup Owned(os, Len(os)), Owns(M, e, os),
         \A n \in N \ {e} : H.owned[n] = G.owned[n], H.owned[e] = os,
         \A i \in 1 .. Len(os) : H.owned[os[i]] = <<>>
  PROVE  Owning(H, M)
<1> SUFFICES ASSUME NEW n \in M  PROVE Placement(H, M, n)
  BY DEF Owning
<1>1. e[1] \in EntityKinds
  BY DEF IsEntity
<1>2. CASE n \in N /\ n # e
  <2>1. H.owned[n] = G.owned[n] /\ Placement(G, N, n)
    BY <1>2 DEF Owning
  <2>2. CASE IsEntity(n) /\ Owns(N, n, G.owned[n])
    <3>1. Owns(M, n, H.owned[n])
      BY <2>1, <2>2 DEF Owns
    <3> QED
      BY <2>2, <3>1 DEF Placement
  <2>3. CASE n[1] \in OwnedKinds /\ G.owned[n] = <<>> /\ Belongs(G, N, n)
    <3>1. Owner(n) \in N /\ Owner(n) # e
      <4>1. Len(<<>>) = 0
        OBVIOUS
      <4> QED
        BY <2>3, <4>1 DEF Belongs
    <3>2. Belongs(H, M, n)
      BY <2>3, <3>1 DEF Belongs
    <3> QED
      BY <2>1, <2>3, <3>2 DEF Placement
  <2> QED
    BY <2>1, <2>2, <2>3 DEF Placement
<1>3. CASE n = e
  BY <1>3 DEF Placement
<1>4. CASE n \in Owned(os, Len(os))
  <2>1. PICK i \in 1 .. Len(os) : n = os[i]
    BY <1>4 DEF Owned
  <2>2. n[1] \in OwnedKinds /\ Owner(n) = e /\ H.owned[n] = <<>>
    BY <2>1 DEF Owns
  <2>3. Belongs(H, M, n)
    BY <2>1, <2>2 DEF Belongs
  <2> QED
    BY <2>2, <2>3 DEF Placement
<1> QED
  BY <1>2, <1>3, <1>4

(* An entity goes with what it owns.                                           *)
LEMMA OwningShrinks ==
  ASSUME NEW G, NEW N, Owning(G, N), NEW z \in N, IsEntity(z), NEW os, os = G.owned[z],
         NEW H, H.owned = G.owned, NEW M, M = (N \ Owned(os, Len(os))) \ {z}
  PROVE  Owning(H, M)
<1> SUFFICES ASSUME NEW n \in M  PROVE Placement(H, M, n)
  BY DEF Owning
<1>1. z[1] \in EntityKinds /\ Owns(N, z, os)
  BY KindsApart DEF Owning, Placement, IsEntity
<1>2. n \in N /\ n # z /\ n \notin Owned(os, Len(os)) /\ Placement(G, N, n)
  BY DEF Owning
<1>3. CASE IsEntity(n) /\ Owns(N, n, G.owned[n])
  <2> DEFINE s == G.owned[n]
  <2>1. ASSUME NEW i \in 1 .. Len(s)  PROVE s[i] \in M
    <3>1. s[i] \in N /\ s[i][1] \in OwnedKinds /\ Owner(s[i]) = n
      BY <1>3 DEF Owns
    <3>2. s[i] \notin Owned(os, Len(os))
      <4>1. \A j \in 1 .. Len(os) : Owner(os[j]) = z
        BY <1>1 DEF Owns
      <4> QED
        BY <1>2, <3>1, <4>1 DEF Owned
    <3>3. s[i] # z
      BY <1>1, <3>1, KindsApart
    <3> QED
      BY <3>1, <3>2, <3>3
  <2>2. Owns(M, n, s)
    BY <1>3, <2>1 DEF Owns
  <2> QED
    BY <1>3, <2>2 DEF Placement
<1>4. CASE n[1] \in OwnedKinds /\ G.owned[n] = <<>> /\ Belongs(G, N, n)
  <2>1. PICK i \in 1 .. Len(G.owned[Owner(n)]) : G.owned[Owner(n)][i] = n
    BY <1>4 DEF Belongs
  <2>2. Owner(n) # z
    BY <1>2, <2>1 DEF Owned
  <2>3. Owner(n) \notin Owned(os, Len(os))
    <3>1. Owner(n)[1] \in EntityKinds
      BY <1>4, KindsApart
    <3>2. \A j \in 1 .. Len(os) : os[j][1] \in OwnedKinds
      BY <1>1 DEF Owns
    <3> QED
      BY <3>1, <3>2, KindsApart DEF Owned
  <2>4. Belongs(H, M, n)
    BY <1>4, <2>1, <2>2, <2>3 DEF Belongs
  <2> QED
    BY <1>4, <2>4 DEF Placement
<1> QED
  BY <1>2, <1>3, <1>4 DEF Placement

(* What enters refers to what its kind may refer to.                           *)
LEMMA KindedEnters ==
  ASSUME NEW G, Kinded(G), NEW H, NEW n, NEW refs, H.refs = Entered(G.refs, n, refs), KindedRefs(n[1], refs)
  PROVE  Kinded(H)
BY DEF Kinded, Entered

LEMMA KindedFilled ==
  ASSUME NEW G, Kinded(G), Functional(G.refs), NEW H, NEW n \in DOMAIN G.refs,
         NEW refs, H.refs = With(G.refs, n, refs), KindedRefs(n[1], refs)
  PROVE  Kinded(H)
<1>1. DOMAIN H.refs = DOMAIN G.refs /\ \A u \in DOMAIN G.refs : H.refs[u] = IF u = n THEN refs ELSE G.refs[u]
  BY WithOf
<1> QED
  BY <1>1 DEF Kinded

LEMMA KindedWithout ==
  ASSUME NEW G, Kinded(G), NEW H, NEW M, M \subseteq DOMAIN G.refs, NEW z, H.refs = RefsWithout(G.refs, M, z)
  PROVE  Kinded(H)
<1> SUFFICES ASSUME NEW u \in M  PROVE KindedRefs(u[1], Cleared(G.refs[u], z))
  BY DEF Kinded, RefsWithout
<1>1. KindedRefs(u[1], G.refs[u])
  BY DEF Kinded
<1> QED
  BY <1>1 DEF KindedRefs, Cleared

(* The use lists, the references and the form of a graph are all Linked asks.  *)
LEMMA LinkedOf ==
  ASSUME NEW G, NEW N, Linked(G, N), NEW H, Formed(H), H.refs = G.refs, H.uses = G.uses
  PROVE  Linked(H, N)
BY DEF Linked, Listed

-----------------------------------------------------------------------------
(* A part of the layout: one entity more, with what it owns.                   *)

Grows(G, H, e, os) ==
  /\ DOMAIN H.uses = DOMAIN G.uses \cup {e} \cup Owned(os, Len(os))
  /\ \A n \in DOMAIN G.uses \ {e} : H.owned[n] = G.owned[n]
  /\ H.owned[e] = os
Lays(G, H, e, os) == Sane(H) /\ Grows(G, H, e, os)
NoReads(G) == \A n \in DOMAIN G.refs : n[1] = "initializer" => G.refs[n] = <<>>

LEMMA SaneFields ==
  ASSUME NEW G, Sane(G)
  PROVE  /\ ~G.fault /\ Linked(G, DOMAIN G.uses) /\ Kinded(G) /\ Owning(G, DOMAIN G.uses)
         /\ DOMAIN G.refs = DOMAIN G.uses /\ DOMAIN G.uses \subseteq DOMAIN G.owned /\ Functional(G.refs) /\ Formed(G) /\ Nil \notin DOMAIN G.uses
BY LinkedFields DEF Sane

LEMMA NotNil ==
  /\ \A e : IsEntity(e) => e # Nil
  /\ \A o : o[1] \in OwnedKinds => o # Nil
  /\ \A k \in EntityKinds : \A i \in Nat : IsEntity(<<k, i>>)
BY DEF Nil, IsEntity, EntityKinds, Kinds, OwnedKinds, Irreplaceable

LEMMA OwnsNone ==
  ASSUME NEW N, NEW e
  PROVE  Owns(N, e, <<>>) /\ Owned(<<>>, Len(<<>>)) = {}
BY DEF Owns, IsList, Owned

LEMMA EntityEnters ==
  ASSUME NEW G, Sane(G), NEW e, IsEntity(e), e \notin DOMAIN G.uses, NEW info
  PROVE  LET H == BuildNode(G, e, <<>>, info) IN
         /\ Lays(G, H, e, <<>>) /\ H.refs = Entered(G.refs, e, <<>>) /\ H.owned = Entered(G.owned, e, <<>>)
<1> DEFINE N == DOMAIN G.uses
           H == BuildNode(G, e, <<>>, info)
           M == N \cup {e}
<1>1. Linked(G, N) /\ e # Nil /\ ~G.fault /\ Kinded(G) /\ Owning(G, N) /\ N \subseteq DOMAIN G.owned
  BY SaneFields, NotNil
<1>2. EnteredNode(G, N, e, <<>>, <<>>, H)
  BY <1>1, NodeEntered
<1> HIDE DEF H
<1>3. /\ Linked(H, M) /\ H.refs = Entered(G.refs, e, <<>>) /\ H.owned = Entered(G.owned, e, <<>>) /\ ~H.fault
  BY <1>1, <1>2 DEF EnteredNode
<1>4. DOMAIN H.uses = M
  BY <1>3, LinkedFields
<1>5. Kinded(H)
  <2>1. KindedRefs(e[1], <<>>)
    BY DEF KindedRefs
  <2> QED
    BY <1>1, <1>3, <2>1, KindedEnters
<1>6. /\ DOMAIN H.owned = DOMAIN G.owned \cup {e} /\ H.owned[e] = <<>>
      /\ \A n \in N : n # e => H.owned[n] = G.owned[n]
  BY <1>1, <1>3 DEF Entered
<1>7. Owning(H, M)
  <2>1. M = N \cup {e} \cup Owned(<<>>, Len(<<>>)) /\ Owns(M, e, <<>>) /\ Len(<<>>) = 0
    BY OwnsNone
  <2> HIDE DEF M, N
  <2> QED
    BY <1>1, <1>6, <2>1, OwningGrows DEF N
<1>8. Grows(G, H, e, <<>>)
  BY <1>4, <1>6, OwnsNone DEF Grows
<1>9. Sane(H)
  BY <1>1, <1>3, <1>4, <1>5, <1>6, <1>7 DEF Sane
<1> QED
  BY <1>3, <1>8, <1>9 DEF Lays, H

LEMMA LaysOf ==
  ASSUME NEW G, NEW H, NEW e, NEW os, Lays(G, H, e, os), NEW K,
         Formed(K), K.refs = H.refs, K.uses = H.uses, K.owned = H.owned, ~K.fault
  PROVE  Lays(G, K, e, os)
<1>1. Linked(K, DOMAIN K.uses)
  BY LinkedOf DEF Lays, Sane
<1>2. Kinded(K) /\ Owning(K, DOMAIN K.uses)
  BY DEF Lays, Sane, Kinded, Owning, Placement, Belongs
<1>3. Sane(K)
  BY <1>1, <1>2 DEF Lays, Sane
<1>4. Grows(G, K, e, os)
  BY DEF Lays, Grows
<1> QED
  BY <1>3, <1>4 DEF Lays

LEMMA EntityLays ==
  ASSUME NEW G, Sane(G), NEW k \in Kinds, NEW i \in Nat, <<k, i>> \notin DOMAIN G.uses, NEW view
  PROVE  LET H == LayEntity(G, k, i, view) IN
         /\ H.fault <=> ~NamesAsserted(view)
         /\ NamesAsserted(view) => /\ Lays(G, H, <<k, i>>, <<>>)
                                   /\ H.refs = Entered(G.refs, <<k, i>>, <<>>)
                                   /\ H.owned = Entered(G.owned, <<k, i>>, <<>>)
<1> DEFINE e == <<k, i>>
           B == BuildNode(G, e, <<>>, InfoOf(view))
           H == Asserted(B, NamesAsserted(view))
<1>1. IsEntity(e)
  BY KindsApart, NotNil
<1>2. /\ Lays(G, B, e, <<>>) /\ B.refs = Entered(G.refs, e, <<>>) /\ B.owned = Entered(G.owned, e, <<>>)
  BY <1>1, EntityEnters
<1> HIDE DEF B
<1>3. Formed(B) /\ ~B.fault
  BY <1>2, SaneFields DEF Lays
<1>4. H = [refs |-> B.refs, uses |-> B.uses, owned |-> B.owned, info |-> B.info,
           fault |-> B.fault \/ ~NamesAsserted(view)]
  <2>1. H = [B EXCEPT !.fault = B.fault \/ ~NamesAsserted(view)]
    BY DEF Asserted
  <2> QED
    BY <1>3, <2>1 DEF Formed
<1> HIDE DEF H
<1>5. /\ H.refs = B.refs /\ H.uses = B.uses /\ H.owned = B.owned /\ Formed(H)
      /\ H.fault <=> ~NamesAsserted(view)
  BY <1>3, <1>4 DEF Formed
<1>6. NamesAsserted(view) => Lays(G, H, e, <<>>)
  BY <1>2, <1>5, LaysOf
<1>7. LayEntity(G, k, i, view) = H
  BY DEF LayEntity, H, B
<1> QED
  BY <1>2, <1>5, <1>6, <1>7

(* An expression of one instruction, whose global, if it reads one, is there.  *)
Readable(G, expr) ==
  /\ Len(expr) = 1
  /\ expr[1][1] = "get" => <<"global", expr[1][2]>> \in DOMAIN G.uses

LEMMA ReadableRefs ==
  ASSUME NEW G, NEW expr, Readable(G, expr), NEW N, DOMAIN G.uses \subseteq N
  PROVE  /\ InitializerRefs(expr) \in Seq(N)
         /\ \A kind \in Irreplaceable : KindedRefs(kind, InitializerRefs(expr))
         /\ expr[1][1] # "get" => InitializerRefs(expr) = <<>>
<1> DEFINE r == <<"global", expr[1][2]>>
<1>1. CASE expr[1][1] = "get"
  <2>1. InitializerRefs(expr) = <<r>> /\ r \in N /\ r[1] = "global"
    BY <1>1 DEF InitializerRefs, Readable
  <2> HIDE DEF r
  <2>2. <<r>> \in Seq(N) /\ \A k \in DOMAIN <<r>> : <<r>>[k] = r
    BY <2>1
  <2>3. \A kind \in Irreplaceable : KindedRefs(kind, <<r>>)
    BY <2>1, <2>2 DEF KindedRefs, Edges, Irreplaceable
  <2> QED
    BY <1>1, <2>1, <2>2, <2>3
<1>2. CASE expr[1][1] # "get"
  <2>1. InitializerRefs(expr) = <<>>
    BY <1>2 DEF InitializerRefs
  <2> QED
    BY <2>1 DEF KindedRefs
<1> QED
  BY <1>1, <1>2

(* An owned node enters: a user of what it may refer to.                       *)
UserIn(G, o, refs, H) ==
  /\ Linked(H, DOMAIN G.uses \cup {o}) /\ Kinded(H)
  /\ H.refs = Entered(G.refs, o, refs) /\ H.owned = Entered(G.owned, o, <<>>) /\ H.fault = G.fault
LEMMA UserLays ==
  ASSUME NEW G, Linked(G, DOMAIN G.uses), Kinded(G), NEW o, o[1] \in OwnedKinds, o \notin DOMAIN G.uses,
         NEW refs \in Seq(DOMAIN G.uses), KindedRefs(o[1], refs)
  PROVE  UserIn(G, o, refs, BuildUser(G, o, refs))
<1> DEFINE N == DOMAIN G.uses
           H == BuildUser(G, o, refs)
<1>1. o # Nil
  BY NotNil
<1>2. EnteredNode(G, N, o, <<>>, refs, H)
  BY <1>1, UserEntered
<1> HIDE DEF H
<1>3. Linked(H, N \cup {o}) /\ H.refs = Entered(G.refs, o, refs) /\ H.owned = Entered(G.owned, o, <<>>) /\ H.fault = G.fault
  BY <1>2 DEF EnteredNode
<1>4. Kinded(H)
  BY <1>3, KindedEnters
<1> QED
  BY <1>3, <1>4 DEF UserIn, H

LEMMA OwnsOne ==
  ASSUME NEW M, NEW e, NEW o \in M, o[1] \in OwnedKinds, Owner(o) = e
  PROVE  Owns(M, e, <<o>>) /\ Owned(<<o>>, Len(<<o>>)) = {o} /\ Len(<<o>>) = 1 /\ <<o>>[1] = o
BY DEF Owns, IsList, Owned

LEMMA QuietEnters ==
  ASSUME NEW G, NoReads(G), NEW H, NEW n, NEW refs, H.refs = Entered(G.refs, n, refs),
         n[1] = "initializer" => refs = <<>>
  PROVE  NoReads(H)
BY DEF NoReads, Entered

LEMMA GlobalLays ==
  ASSUME NEW G, Sane(G), NEW i \in Nat, <<"global", i>> \notin DOMAIN G.uses,
         NEW view, NamesAsserted(view), view.entity = <<>> \/ Readable(G, view.entity[1].init)
  PROVE  LET H == LayGlobal(G, i, view) IN
         /\ \E os : Lays(G, H, <<"global", i>>, os)
         /\ NoReads(G) /\ (view.entity = <<>> \/ view.entity[1].init[1][1] # "get") => NoReads(H)
<1> DEFINE e == <<"global", i>>
           o == <<"initializer", i>>
           expr == view.entity[1].init
           refs == InitializerRefs(expr)
           B == LayEntity(G, "global", i, view)
           I == BuildUser(B, o, refs)
           H == [I EXCEPT !.owned[e] = <<o>>]
           N == DOMAIN G.uses
           K == N \cup {e}
           M == K \cup {o}
<1>1. /\ Lays(G, B, e, <<>>) /\ B.refs = Entered(G.refs, e, <<>>) /\ B.owned = Entered(G.owned, e, <<>>)
  <2>1. "global" \in Kinds
    BY DEF Kinds
  <2> QED
    BY <2>1, EntityLays
<1>2. LayGlobal(G, i, view) = IF view.entity = <<>> THEN B
                              ELSE IF Len(expr) # 1 THEN [B EXCEPT !.fault = TRUE] ELSE H
  BY DEF LayGlobal
<1>3. e[1] = "global" /\ o[1] = "initializer" /\ Owner(o) = e /\ o[1] \in OwnedKinds /\ o[1] \in Irreplaceable /\ e # o
      /\ "global" \in EntityKinds
  BY DEF Owner, OwnedKinds, Irreplaceable, EntityKinds, Kinds
<1>4. IsEntity(e)
  BY <1>3, NotNil
<1>5. NoReads(G) => NoReads(B)
  BY <1>1, <1>3, QuietEnters
<1> HIDE DEF B, e, o
<1>6. CASE view.entity = <<>>
  BY <1>1, <1>2, <1>5, <1>6 DEF e
<1>7. CASE view.entity # <<>>
  <2>1. Readable(G, expr) /\ Len(expr) = 1
    BY <1>7 DEF Readable
  <2> HIDE DEF expr
  <2>2. /\ Linked(G, N) /\ Kinded(G) /\ Owning(G, N) /\ N \subseteq DOMAIN G.owned
    BY SaneFields
  <2>3. /\ ~B.fault /\ Linked(B, DOMAIN B.uses) /\ Kinded(B) /\ Owning(B, DOMAIN B.uses)
        /\ DOMAIN B.uses \subseteq DOMAIN B.owned
    BY <1>1, SaneFields DEF Lays
  <2>4. /\ DOMAIN B.uses = K /\ B.owned[e] = <<>> /\ \A n \in N \ {e} : B.owned[n] = G.owned[n]
    BY <1>1, OwnsNone DEF Lays, Grows
  <2>5. o \notin K
    BY <1>3, <2>3, <2>4, OwnedIsNew
  <2>6. /\ refs \in Seq(K) /\ KindedRefs(o[1], refs)
        /\ expr[1][1] # "get" => refs = <<>>
    <3>1. N \subseteq K
      OBVIOUS
    <3> QED
      BY <1>3, <2>1, <3>1, ReadableRefs
  <2> HIDE DEF refs
  <2>7. UserIn(B, o, refs, I)
    <3>1. refs \in Seq(DOMAIN B.uses) /\ o \notin DOMAIN B.uses
      BY <2>4, <2>5, <2>6
    <3> QED
      BY <1>3, <2>3, <2>6, <3>1, UserLays
  <2> HIDE DEF I
  <2>8. /\ Linked(I, M) /\ Kinded(I) /\ I.refs = Entered(B.refs, o, refs) /\ I.owned = Entered(B.owned, o, <<>>)
        /\ ~I.fault
    BY <2>3, <2>4, <2>7 DEF UserIn
  <2>9. Formed(I) /\ DOMAIN I.uses = M
    BY <2>8, LinkedFields
  <2>10. H = [refs |-> I.refs, uses |-> I.uses, owned |-> With(I.owned, e, <<o>>), info |-> I.info, fault |-> I.fault]
    <3>1. H = [I EXCEPT !.owned = With(I.owned, e, <<o>>)]
      BY <2>9 DEF Formed, With
    <3> HIDE DEF H
    <3> QED
      BY <2>9, <3>1 DEF Formed
  <2> HIDE DEF H
  <2>11. /\ H.refs = I.refs /\ H.uses = I.uses /\ H.owned = With(I.owned, e, <<o>>) /\ ~H.fault /\ Formed(H)
    BY <2>8, <2>10 DEF Formed
  <2>12. Linked(H, M) /\ Kinded(H) /\ DOMAIN H.uses = M
    BY <2>8, <2>9, <2>11, LinkedOf DEF Kinded
  <2>13. /\ M \subseteq DOMAIN H.owned /\ H.owned[e] = <<o>> /\ H.owned[o] = <<>>
         /\ \A n \in K \ {e} : H.owned[n] = B.owned[n]
    <3>1. DOMAIN I.owned = DOMAIN B.owned \cup {o} /\ Functional(I.owned) /\ I.owned[o] = <<>>
          /\ \A n \in K : I.owned[n] = B.owned[n]
      BY <2>3, <2>4, <2>5, <2>8 DEF Entered, Functional
    <3>2. e \in DOMAIN I.owned
      BY <2>3, <2>4, <3>1
    <3>3. /\ DOMAIN H.owned = DOMAIN I.owned /\ H.owned[e] = <<o>>
          /\ \A n \in DOMAIN I.owned : n # e => H.owned[n] = I.owned[n]
      <4> DEFINE f == I.owned
      <4>1. H.owned = With(f, e, <<o>>) /\ Functional(f) /\ e \in DOMAIN f
        BY <2>11, <3>1, <3>2
      <4> HIDE DEF f
      <4>2. /\ DOMAIN With(f, e, <<o>>) = DOMAIN f /\ With(f, e, <<o>>)[e] = <<o>>
            /\ \A u \in DOMAIN f : With(f, e, <<o>>)[u] = IF u = e THEN <<o>> ELSE f[u]
        BY <4>1, WithOf
      <4>3. /\ DOMAIN H.owned = DOMAIN f /\ H.owned[e] = <<o>>
            /\ \A n \in DOMAIN f : n # e => H.owned[n] = f[n]
        BY <4>1, <4>2
      <4> QED
        BY <4>3 DEF f
    <3> QED
      BY <1>3, <2>3, <2>4, <3>1, <3>3
  <2>14. Owns(M, e, <<o>>) /\ Owned(<<o>>, Len(<<o>>)) = {o} /\ Len(<<o>>) = 1 /\ <<o>>[1] = o
    BY <1>3, OwnsOne
  <2>15. M = K \cup {e} \cup Owned(<<o>>, Len(<<o>>))
    BY <2>14
  <2>16. Owning(H, M)
    <3>1. \A j \in 1 .. Len(<<o>>) : H.owned[<<o>>[j]] = <<>>
      BY <2>13, <2>14
    <3> DEFINE D == DOMAIN B.uses
    <3>2. /\ Owning(B, D) /\ B.owned[e] = <<>> /\ M = D \cup {e} \cup Owned(<<o>>, Len(<<o>>))
          /\ \A n \in D \ {e} : H.owned[n] = B.owned[n]
      BY <2>3, <2>4, <2>13, <2>15
    <3> HIDE DEF M, K, D
    <3> QED
      BY <1>4, <2>13, <2>14, <3>1, <3>2, OwningGrows, SMTT(30)
  <2>17. Lays(G, H, e, <<o>>)
    BY <2>4, <2>11, <2>12, <2>13, <2>14, <2>16 DEF Lays, Grows, Sane
  <2>18. NoReads(G) /\ expr[1][1] # "get" => NoReads(H)
    <3>1. NoReads(G) /\ expr[1][1] # "get" => NoReads(I)
      BY <1>5, <2>6, <2>8, QuietEnters
    <3> QED
      BY <2>11, <3>1 DEF NoReads
  <2> QED
    BY <1>2, <1>7, <2>1, <2>17, <2>18 DEF e, expr
<1> QED
  BY <1>6, <1>7

LEMMA QuietFilled ==
  ASSUME NEW G, NoReads(G), Functional(G.refs), NEW H, NEW n \in DOMAIN G.refs, n[1] # "initializer",
         NEW refs, H.refs = With(G.refs, n, refs)
  PROVE  NoReads(H)
<1>1. DOMAIN H.refs = DOMAIN G.refs /\ \A u \in DOMAIN G.refs : H.refs[u] = IF u = n THEN refs ELSE G.refs[u]
  BY WithOf
<1> QED
  BY <1>1 DEF NoReads

LEMMA KindedAppended ==
  ASSUME NEW X, NEW refs \in Seq(X), NEW kind, KindedRefs(kind, refs), NEW s, <<kind, s[1]>> \in Edges
  PROVE  KindedRefs(kind, Append(refs, s))
<1>1. /\ DOMAIN Append(refs, s) = 1 .. Len(refs) + 1 /\ Len(refs) \in Nat /\ DOMAIN refs = 1 .. Len(refs)
      /\ \A k \in 1 .. Len(refs) : Append(refs, s)[k] = refs[k]
      /\ Append(refs, s)[Len(refs) + 1] = s
  OBVIOUS
<1> QED
  BY <1>1 DEF KindedRefs

LEMMA SegmentLays ==
  ASSUME NEW G, Sane(G), NEW k \in {"data", "element"}, NEW offset,
         offset = IF k = "data" THEN "data_offset" ELSE "element_offset", NEW i \in Nat,
         <<k, i>> \notin DOMAIN G.uses, NEW expr, Readable(G, expr),
         NEW target \in DOMAIN G.uses, target[1] = IF k = "data" THEN "memory" ELSE "table",
         NEW content \in Seq(DOMAIN G.uses), KindedRefs(k, content)
  PROVE  LET H == LaySegment(G, k, offset, i, expr, target, content) IN
         /\ \E os : Lays(G, H, <<k, i>>, os)
         /\ NoReads(G) => NoReads(H)
<1> DEFINE s == <<k, i>>
           o == <<offset, i>>
           refs == InitializerRefs(expr)
           O == BuildUser(G, o, refs)
           S == BuildNode(O, s, <<o>>, <<>>)
           C == setContent(S, s, content)
           T == addInitializer(C, target, s)
           N == DOMAIN G.uses
           K == N \cup {o}
           M == K \cup {s}
<1>1. LaySegment(G, k, offset, i, expr, target, content) = T
  BY DEF LaySegment, Readable, Alive
<1>2. /\ s[1] = k /\ o[1] = offset /\ Owner(o) = s /\ offset \in OwnedKinds /\ offset \in Irreplaceable /\ s # o
      /\ k \in EntityKinds /\ <<target[1], k>> \in Edges
      /\ offset # "initializer" /\ k # "initializer" /\ target[1] # "initializer"
  BY DEF Owner, OwnedKinds, Irreplaceable, EntityKinds, Edges
<1>3. IsEntity(s) /\ s # Nil
  BY <1>2, NotNil
<1>4. s \notin N /\ target \in N
  OBVIOUS
<1> HIDE DEF s, o
<1>5. /\ ~G.fault /\ Linked(G, N) /\ Kinded(G) /\ Owning(G, N) /\ N \subseteq DOMAIN G.owned /\ DOMAIN G.refs = N
  BY SaneFields
<1>6. o \notin N
  BY <1>2, <1>4, <1>5, OwnedIsNew
<1>7. refs \in Seq(N) /\ KindedRefs(offset, refs)
  BY <1>2, ReadableRefs
<1> HIDE DEF refs
<1>8. UserIn(G, o, refs, O)
  BY <1>2, <1>5, <1>6, <1>7, UserLays
<1> HIDE DEF O
<1>9. /\ Linked(O, K) /\ Kinded(O) /\ O.refs = Entered(G.refs, o, refs) /\ O.owned = Entered(G.owned, o, <<>>)
      /\ O.fault = G.fault
  BY <1>8 DEF UserIn
<1>10. s \notin K
  BY <1>2, <1>4
<1> HIDE DEF K
<1>11. EnteredNode(O, K, s, <<o>>, <<>>, S)
  BY <1>3, <1>9, <1>10, NodeEntered
<1> HIDE DEF S
<1>12. /\ Linked(S, M) /\ S.refs = Entered(O.refs, s, <<>>) /\ S.owned = Entered(O.owned, s, <<o>>) /\ S.fault = O.fault
  BY <1>11 DEF EnteredNode
<1>13. S.refs[s] = <<>> /\ s \in M /\ Kinded(S) /\ Functional(S.refs) /\ DOMAIN S.refs = M
  <2>1. KindedRefs(s[1], <<>>)
    BY DEF KindedRefs
  <2>2. Kinded(S)
    BY <1>9, <1>12, <2>1, KindedEnters
  <2>3. S.refs[s] = <<>>
    BY <1>12 DEF Entered
  <2>4. Functional(S.refs) /\ DOMAIN S.refs = M
    BY <1>12, LinkedFields
  <2> QED
    BY <2>2, <2>3, <2>4
<1>14. N \subseteq M /\ target \in M
  BY <1>4 DEF K
<1>15. content \in Seq(M)
  BY <1>14
<1> HIDE DEF M, N
<1>16. Filled(S, M, s, content, C)
  BY <1>12, <1>13, <1>15, ContentFilled
<1> HIDE DEF C
<1>17. Linked(C, M) /\ C.refs = With(S.refs, s, content) /\ SameRest(S, C)
  BY <1>16 DEF Filled
<1>18. Kinded(C) /\ Functional(C.refs) /\ DOMAIN C.refs = M /\ C.refs[target] \in Seq(M \cup {Nil})
  <2>1. Kinded(C)
    BY <1>2, <1>13, <1>17, KindedFilled
  <2>2. Functional(C.refs) /\ DOMAIN C.refs = M /\ C.refs[target] \in Seq(M \cup {Nil})
    BY <1>14, <1>17, LinkedFields
  <2> QED
    BY <2>1, <2>2
<1>19. Filled(C, M, target, Append(C.refs[target], s), T)
  BY <1>13, <1>14, <1>17, SegmentTold
<1> HIDE DEF T
<1> DEFINE told == Append(C.refs[target], s)
<1>20. Linked(T, M) /\ T.refs = With(C.refs, target, told) /\ SameRest(C, T)
  BY <1>19 DEF Filled
<1>21. Kinded(T)
  <2>1. KindedRefs(target[1], C.refs[target])
    BY <1>14, <1>18 DEF Kinded
  <2>2. KindedRefs(target[1], told)
    BY <1>2, <1>18, <2>1, KindedAppended
  <2> HIDE DEF told
  <2> QED
    BY <1>14, <1>18, <1>20, <2>2, KindedFilled
<1> HIDE DEF told
<1>22. DOMAIN T.uses = M
  BY <1>20, LinkedFields
<1>23. /\ T.owned = S.owned /\ ~T.fault
  BY <1>5, <1>9, <1>12, <1>17, <1>20 DEF SameRest
<1>24. /\ M \subseteq DOMAIN T.owned /\ T.owned[s] = <<o>> /\ T.owned[o] = <<>>
       /\ \A n \in N \ {s} : T.owned[n] = G.owned[n]
  BY <1>2, <1>5, <1>6, <1>9, <1>12, <1>23 DEF Entered, M, K
<1>25. Owns(M, s, <<o>>) /\ Owned(<<o>>, Len(<<o>>)) = {o} /\ Len(<<o>>) = 1 /\ <<o>>[1] = o
  BY <1>2, OwnsOne DEF M, K
<1>26. M = N \cup {s} \cup Owned(<<o>>, Len(<<o>>))
  BY <1>25 DEF M, K
<1>27. Owning(T, M)
  <2>1. \A j \in 1 .. Len(<<o>>) : T.owned[<<o>>[j]] = <<>>
    BY <1>24, <1>25
  <2> DEFINE os == <<o>>
  <2>2. /\ Owning(G, N) /\ IsEntity(s) /\ s \notin N /\ Owns(M, s, os) /\ T.owned[s] = os
        /\ M = N \cup {s} \cup Owned(os, Len(os))
        /\ \A n \in N \ {s} : T.owned[n] = G.owned[n]
        /\ \A j \in 1 .. Len(os) : T.owned[os[j]] = <<>>
    BY <1>3, <1>4, <1>5, <1>24, <1>25, <1>26, <2>1
  <2> HIDE DEF os
  <2> QED
    BY <2>2, OwningGrows
<1>28. Lays(G, T, s, <<o>>)
  BY <1>20, <1>21, <1>22, <1>23, <1>24, <1>26, <1>27 DEF Lays, Sane, Grows, N
<1>29. NoReads(G) => NoReads(T)
  <2>1. NoReads(G) => NoReads(O)
    BY <1>2, <1>9, QuietEnters
  <2>2. NoReads(O) => NoReads(S)
    BY <1>2, <1>12, QuietEnters
  <2>3. NoReads(S) => NoReads(C)
    BY <1>2, <1>13, <1>17, QuietFilled
  <2>4. NoReads(C) => NoReads(T)
    BY <1>2, <1>14, <1>18, <1>20, QuietFilled
  <2> QED
    BY <2>1, <2>2, <2>3, <2>4
<1> QED
  BY <1>1, <1>28, <1>29 DEF s

(* The body of a function: node after node, until one refers to what is not    *)
(* there.                                                                      *)
Refable == {"function", "global", "memory"} \X Nat
Built(G, e, P, body, g, j) ==
  LET N == DOMAIN G.uses IN
  /\ ~g.fault /\ Linked(g, N \cup Owned(P, j)) /\ Kinded(g)
  /\ N \cup Owned(P, j) \subseteq DOMAIN g.owned /\ g.owned[e] = P
  /\ \A n \in N \ {e} : g.owned[n] = G.owned[n]
  /\ \A i \in 1 .. j : g.owned[P[i]] = <<>>
  /\ NoReads(G) => NoReads(g)
Halted(G, body, g) == g.fault /\ \E i \in 1 .. Len(body) : RefOf(body[i]) \notin DOMAIN G.uses

Reaches(G, e, P, body, g, j) == IsGraph(g) /\ (Built(G, e, P, body, g, j) \/ Halted(G, body, g))

LEMMA OwnedStep ==
  ASSUME NEW P, NEW j \in Nat
  PROVE  Owned(P, 0) = {} /\ Owned(P, j + 1) = Owned(P, j) \cup {P[j + 1]}
<1>1. 1 .. 0 = {} /\ 1 .. j + 1 = (1 .. j) \cup {j + 1}
  OBVIOUS
<1> QED
  BY <1>1 DEF Owned

LEMMA InstructionBuilt ==
  ASSUME NEW G, Sane(G), NEW e \in DOMAIN G.uses, G.owned[e] = <<>>, NEW P, NEW n \in Nat,
         \A i \in 1 .. n : P[i][1] = "instruction" /\ Owner(P[i]) = e,
         \A i, j \in 1 .. n : P[i] = P[j] => i = j,
         NEW body, Len(body) = n, \A i \in 1 .. n : RefOf(body[i]) \in Refable,
         NEW j \in 0 .. n, j < n, NEW g, Reaches(G, e, P, body, g, j)
  PROVE  Reaches(G, e, P, body, BuildUser(g, P[j + 1], <<RefOf(body[j + 1])>>), j + 1)
<1> DEFINE o == P[j + 1]
           r == RefOf(body[j + 1])
           H == BuildUser(g, o, <<r>>)
           N == DOMAIN G.uses
           K == N \cup Owned(P, j)
           M == N \cup Owned(P, j + 1)
<1> SUFFICES Reaches(G, e, P, body, H, j + 1)
  OBVIOUS
<1>1. j + 1 \in 1 .. n /\ IsGraph(g)
  BY DEF Reaches
<1>2. o[1] = "instruction" /\ Owner(o) = e /\ r \in Refable
  BY <1>1
<1>3. M = K \cup {o}
  <2>1. Owned(P, j + 1) = Owned(P, j) \cup {o}
    BY OwnedStep
  <2> HIDE DEF o
  <2> QED
    BY <2>1
<1>4. "instruction" \in OwnedKinds /\ "instruction" \notin Kinds
  BY DEF OwnedKinds, Kinds
<1>5. r[1] \in {"function", "global", "memory"} /\ r # Nil /\ r # o
  BY <1>2 DEF Refable, Nil
<1>6. /\ Owning(G, N) /\ N \subseteq DOMAIN G.owned
  BY SaneFields
<1>7. o \notin N
  BY <1>2, <1>4, <1>6, OwnedIsNew
<1>8. o \notin Owned(P, j)
  <2>1. \A i \in 1 .. j : i \in 1 .. n /\ i # j + 1
    OBVIOUS
  <2> QED
    BY <1>1, <2>1 DEF Owned
<1>9. r \notin Owned(P, j)
  <2>1. \A i \in 1 .. j : P[i][1] = "instruction"
    OBVIOUS
  <2> QED
    BY <1>5, <2>1 DEF Owned
<1> HIDE DEF r, o
<1>10. IsGraph(H)
  <2>1. Len(<<r>>) \in Nat
    OBVIOUS
  <2>2. Aside(g, H)
    BY <1>1, <1>2, <1>4, <2>1, UserAside
  <2> QED
    BY <2>2 DEF Aside
<1>11. Formed(g)
  BY <1>1 DEF IsGraph, Formed
<1>12. CASE Halted(G, body, g)
  <2>1. H.fault
    BY <1>5, <1>11, <1>12, UserFaults DEF Halted
  <2>2. Halted(G, body, H)
    BY <1>12, <2>1 DEF Halted
  <2> QED
    BY <1>10, <2>2 DEF Reaches
<1>13. CASE Built(G, e, P, body, g, j)
  <2>1. /\ ~g.fault /\ Linked(g, K) /\ Kinded(g) /\ K \subseteq DOMAIN g.owned /\ g.owned[e] = P
        /\ \A m \in N \ {e} : g.owned[m] = G.owned[m]
        /\ \A i \in 1 .. j : g.owned[P[i]] = <<>>
        /\ NoReads(G) => NoReads(g)
    BY <1>13 DEF Built
  <2>2. DOMAIN g.uses = K
    BY <2>1, LinkedFields
  <2>3. CASE r \notin N
    <3>1. ~Alive(g, r)
      BY <1>9, <2>2, <2>3 DEF Alive
    <3>2. H.fault
      BY <1>5, <1>11, <3>1, UserFaults
    <3>3. Halted(G, body, H)
      BY <1>1, <2>3, <3>2 DEF Halted, r
    <3> QED
      BY <1>10, <3>3 DEF Reaches
  <2>4. CASE r \in N
    <3>1. <<r>> \in Seq(DOMAIN g.uses) /\ KindedRefs("instruction", <<r>>) /\ o \notin DOMAIN g.uses
      <4>1. <<"instruction", r[1]>> \in Edges
        BY <1>5 DEF Edges
      <4>2. KindedRefs("instruction", <<r>>)
        BY <4>1 DEF KindedRefs
      <4> QED
        BY <1>7, <1>8, <2>2, <2>4, <4>2
    <3>2. UserIn(g, o, <<r>>, H)
      BY <1>2, <1>4, <2>1, <2>2, <3>1, UserLays
    <3> HIDE DEF H
    <3>3. /\ Linked(H, K \cup {o}) /\ Kinded(H) /\ H.refs = Entered(g.refs, o, <<r>>)
          /\ H.owned = Entered(g.owned, o, <<>>) /\ H.fault = g.fault
      BY <2>2, <3>2 DEF UserIn
    <3>4. NoReads(G) => NoReads(H)
      <4>1. o[1] # "initializer"
        BY <1>2
      <4>2. NoReads(g) => NoReads(H)
        <5> DEFINE refs == <<r>>
        <5>1. H.refs = Entered(g.refs, o, refs)
          BY <3>3
        <5> HIDE DEF refs
        <5> QED
          BY <4>1, <5>1, QuietEnters
      <4> QED
        BY <2>1, <4>2
    <3>5. /\ M \subseteq DOMAIN H.owned /\ H.owned[o] = <<>>
          /\ \A m \in K : H.owned[m] = g.owned[m]
      BY <1>3, <1>7, <1>8, <2>1, <3>3 DEF Entered
    <3>6. \A i \in 1 .. j + 1 : H.owned[P[i]] = <<>>
      <4> SUFFICES ASSUME NEW i \in 1 .. j + 1  PROVE H.owned[P[i]] = <<>>
        OBVIOUS
      <4>1. CASE i = j + 1
        BY <3>5, <4>1 DEF o
      <4>2. CASE i \in 1 .. j
        <5>1. P[i] \in K
          BY <4>2 DEF Owned
        <5> QED
          BY <2>1, <3>5, <4>2, <5>1
      <4> QED
        BY <4>1, <4>2
    <3>7. H.owned[e] = P /\ \A m \in N \ {e} : H.owned[m] = G.owned[m]
      BY <2>1, <3>5
    <3>8. Built(G, e, P, body, H, j + 1)
      BY <1>3, <2>1, <3>3, <3>4, <3>5, <3>6, <3>7 DEF Built
    <3> QED
      BY <1>10, <3>8 DEF Reaches
  <2> QED
    BY <2>3, <2>4
<1> QED
  BY <1>12, <1>13 DEF Reaches

LEMMA BodyLays ==
  ASSUME NEW G, Sane(G), IsGraph(G), NEW x \in Nat, <<"function", x>> \in DOMAIN G.uses,
         G.owned[<<"function", x>>] = <<>>, NEW view, view.import = <<>>,
         NEW body, body = view.entity[1].body, IsList(body),
         \A i \in 1 .. Len(body) : RefOf(body[i]) \in Refable
  PROVE  LET H == TranslateFunction(G, x, view) IN
         \/ (\E os : Lays(G, H, <<"function", x>>, os)) /\ (NoReads(G) => NoReads(H))
         \/ Halted(G, body, H)
<1> DEFINE e == <<"function", x>>
           P == Placed(x, body)
           n == Len(body)
           N == DOMAIN G.uses
           H == TranslateFunction(G, x, view)
<1>1. n \in Nat /\ DOMAIN body = 1 .. n
  BY DEF IsList
<1>2. IsEntity(e)
  <2>1. "function" \in EntityKinds
    BY DEF EntityKinds, Kinds
  <2> QED
    BY <2>1, NotNil
<1>3. \A i \in 1 .. n : P[i] = <<"instruction", x, i>>
  BY <1>1 DEF Placed, InstructionNode
<1>4. /\ \A i \in 1 .. n : P[i][1] = "instruction" /\ Owner(P[i]) = e
      /\ \A i, j \in 1 .. n : P[i] = P[j] => i = j
  <2>1. ASSUME NEW i \in 1 .. n
        PROVE  P[i][1] = "instruction" /\ P[i][2] = x /\ P[i][3] = i
    BY <1>3
  <2> HIDE DEF P
  <2>2. \A o : o[1] = "instruction" => Owner(o) = <<"function", o[2]>>
    BY DEF Owner
  <2>3. \A i \in 1 .. n : Owner(P[i]) = e
    BY <2>1, <2>2
  <2> QED
    BY <2>1, <2>3
<1>5. IsList(P) /\ Len(P) = n
  BY <1>1 DEF Placed, IsList
<1>6. PICK f : /\ f[0] = Bodied(G, x, body) /\ H = f[n]
               /\ \A i \in 1 .. n : f[i] = Placing(f[i - 1], x, body, i)
  BY <1>1, FollowsBody
<1>7. /\ ~G.fault /\ Linked(G, N) /\ Kinded(G) /\ Owning(G, N) /\ N \subseteq DOMAIN G.owned /\ Formed(G)
  BY SaneFields
<1>8. f[0] = [G EXCEPT !.owned[e] = P]
  BY <1>6 DEF Bodied
<1>9. \A i \in 1 .. n : f[i] = BuildUser(f[i - 1], P[i], <<RefOf(body[i])>>)
  BY <1>6 DEF Placing
<1>10. e \in N /\ G.owned[e] = <<>> /\ \A i \in 1 .. n : RefOf(body[i]) \in Refable
  OBVIOUS
<1> HIDE DEF e, P, H, n
<1>11. IsGraph(f[0]) /\ Built(G, e, P, body, f[0], 0)
  <2>1. f[0] = [refs |-> G.refs, uses |-> G.uses, owned |-> [G.owned EXCEPT ![e] = P], info |-> G.info, fault |-> G.fault]
    <3>1. f[0] = [G EXCEPT !.owned = [G.owned EXCEPT ![e] = P]]
      BY <1>7, <1>8 DEF Formed
    <3> QED
      BY <1>7, <3>1 DEF Formed
  <2>2. /\ f[0].refs = G.refs /\ f[0].uses = G.uses /\ f[0].owned = [G.owned EXCEPT ![e] = P] /\ (f[0].fault <=> G.fault)
        /\ f[0].info = G.info /\ Formed(f[0])
    BY <2>1 DEF Formed
  <2>3. IsGraph(f[0])
    BY <2>2 DEF IsGraph, Formed
  <2>4. Linked(f[0], N) /\ Kinded(f[0]) /\ (NoReads(G) => NoReads(f[0]))
    BY <1>7, <2>2, LinkedOf DEF Kinded, NoReads
  <2>5. /\ DOMAIN f[0].owned = DOMAIN G.owned /\ f[0].owned[e] = P
        /\ \A m \in N \ {e} : f[0].owned[m] = G.owned[m]
    BY <1>7, <1>10, <2>2
  <2>6. N \cup Owned(P, 0) = N /\ 1 .. 0 = {}
    BY OwnedStep
  <2> QED
    BY <1>7, <2>2, <2>3, <2>4, <2>5, <2>6 DEF Built
<1> DEFINE S == {j \in 0 .. n : Reaches(G, e, P, body, f[j], j)}
<1>12. 0 \in S
  BY <1>1, <1>11 DEF Reaches
<1>13. ASSUME NEW j \in 0 .. n, j \in S, j < n  PROVE j + 1 \in S
  <2>1. j + 1 \in 0 .. n /\ j + 1 \in 1 .. n /\ (j + 1) - 1 = j
    BY <1>1, <1>13
  <2>2. f[j + 1] = BuildUser(f[j], P[j + 1], <<RefOf(body[j + 1])>>)
    BY <1>9, <2>1
  <2> DEFINE g == f[j]
  <2>3. Reaches(G, e, P, body, g, j) /\ Len(body) = n /\ e \in DOMAIN G.uses
    BY <1>10, <1>13 DEF n
  <2> HIDE DEF S, g
  <2>4. Reaches(G, e, P, body, BuildUser(g, P[j + 1], <<RefOf(body[j + 1])>>), j + 1)
    BY <1>1, <1>4, <1>10, <1>13, <2>3, InstructionBuilt
  <2> QED
    BY <2>1, <2>2, <2>4 DEF S, g
<1>14. n \in S
  <2> HIDE DEF S
  <2>1. \A j \in 0 .. n : j \in S
    BY <1>1, <1>12, <1>13, Climbs
  <2> QED
    BY <1>1, <2>1
<1>15. CASE Halted(G, body, f[n])
  BY <1>6, <1>15 DEF H
<1>16. CASE Built(G, e, P, body, f[n], n)
  <2> DEFINE M == N \cup Owned(P, n)
  <2>1. /\ ~H.fault /\ Linked(H, M) /\ Kinded(H) /\ M \subseteq DOMAIN H.owned /\ H.owned[e] = P
        /\ \A m \in N \ {e} : H.owned[m] = G.owned[m]
        /\ \A i \in 1 .. n : H.owned[P[i]] = <<>>
        /\ NoReads(G) => NoReads(H)
    BY <1>6, <1>16 DEF Built
  <2>2. DOMAIN H.uses = M
    BY <2>1, LinkedFields
  <2>3. M = N \cup {e} \cup Owned(P, Len(P))
    BY <1>5, <1>10
  <2>4. Owns(M, e, P)
    <3>1. "instruction" \in OwnedKinds
      BY DEF OwnedKinds
    <3>2. \A i \in 1 .. n : P[i] \in M
      BY DEF Owned
    <3> HIDE DEF M
    <3> QED
      BY <1>4, <1>5, <3>1, <3>2 DEF Owns
  <2> HIDE DEF M
  <2>5. Owning(H, M)
    <3>1. \A i \in 1 .. Len(P) : H.owned[P[i]] = <<>>
      BY <1>5, <2>1
    <3> HIDE DEF N
    <3> QED
      BY <1>2, <1>7, <1>10, <2>1, <2>3, <2>4, <3>1, OwningGrows
  <2>6. Lays(G, H, e, P)
    BY <2>1, <2>2, <2>3, <2>5 DEF Lays, Grows, Sane
  <2> QED
    BY <2>1, <2>6 DEF e, H
<1> QED
  BY <1>14, <1>15, <1>16 DEF Reaches

-----------------------------------------------------------------------------
(* The teardown: an entity goes, unless who refers to it cannot be asked.      *)

LEMMA EntityDestroyed ==
  ASSUME NEW G, Sane(G), NEW z \in DOMAIN G.uses, IsEntity(z)
  PROVE  LET H == Destroy(G, z) IN
         \/ Sane(H) /\ DOMAIN H.uses \subseteq DOMAIN G.uses /\ (NoReads(G) => NoReads(H))
         \/ H.fault /\ Blocked(DOMAIN G.uses, G.refs, z)
<1> DEFINE N == DOMAIN G.uses
           H == Destroy(G, z)
           os == G.owned[z]
           M == (N \ Owned(os, Len(os))) \ {z}
<1>1. /\ ~G.fault /\ Listed(G, N, G.refs) /\ Kinded(G) /\ Owning(G, N) /\ N \subseteq DOMAIN G.owned
      /\ DOMAIN G.refs = N /\ Nil \notin N
  BY SaneFields DEF Linked
<1>2. Owns(N, z, os)
  BY <1>1, KindsApart DEF Owning, Placement, IsEntity
<1>3. /\ Len(os) \in Nat
      /\ \A i \in 1 .. Len(os) : os[i] \in N /\ os[i] # z /\ os[i][1] \in OwnedKinds
      /\ \A i, j \in 1 .. Len(os) : os[i] = os[j] => i = j
  BY <1>2, KindsApart DEF Owns, IsList, IsEntity
<1>4. ASSUME NEW u \in N, NEW i \in 1 .. Len(os)  PROVE ~Refers(G.refs[u], os[i])
  <2>1. os[i] # Nil /\ \A x : <<x, os[i][1]>> \notin Edges
    BY <1>3, KindsApart, NotNil
  <2>2. KindedRefs(u[1], G.refs[u])
    BY <1>1 DEF Kinded
  <2> QED
    BY <2>1, <2>2 DEF KindedRefs, Refers
<1>5. \/ /\ Listed(H, M, H.refs) /\ H.refs = RefsWithout(G.refs, M, z)
         /\ H.owned = G.owned /\ H.info = G.info /\ ~H.fault
      \/ H.fault /\ Blocked(N, G.refs, z)
  <2> DEFINE s == os
  <2>1. s = G.owned[z]
    OBVIOUS
  <2> HIDE DEF s
  <2> QED
    BY <1>1, <1>3, <1>4, Destroyed
<1> HIDE DEF H
<1>6. ASSUME Listed(H, M, H.refs), H.refs = RefsWithout(G.refs, M, z), H.owned = G.owned, ~H.fault
      PROVE  Sane(H) /\ DOMAIN H.uses \subseteq DOMAIN G.uses /\ (NoReads(G) => NoReads(H))
  <2>1. Linked(H, M) /\ DOMAIN H.uses = M
    BY <1>6, LinkedFields DEF Linked
  <2>2. Kinded(H)
    BY <1>1, <1>6, KindedWithout
  <2>3. Owning(H, M)
    BY <1>1, <1>6, OwningShrinks
  <2>4. NoReads(G) => NoReads(H)
    <3>1. \A u \in M : G.refs[u] = <<>> => Cleared(G.refs[u], z) = <<>>
      BY DEF Cleared
    <3> QED
      BY <1>1, <1>6, <3>1 DEF NoReads, RefsWithout
  <2> QED
    BY <1>1, <1>6, <2>1, <2>2, <2>3, <2>4 DEF Sane
<1> QED
  BY <1>5, <1>6 DEF H

(* Only an initializer that reads a global blocks, once the segments are gone. *)
LEMMA OnlyReadsBlock ==
  ASSUME NEW G, Sane(G), NEW z \in DOMAIN G.uses, Blocked(DOMAIN G.uses, G.refs, z)
  PROVE  z[1] = "global" /\ (~NoReads(G) \/ \E n \in DOMAIN G.uses : n[1] \in {"data", "element"})
<1> DEFINE N == DOMAIN G.uses
<1>1. /\ Kinded(G) /\ Owning(G, N) /\ DOMAIN G.refs = N /\ Nil \notin N
  BY SaneFields
<1>2. PICK u \in N : u[1] \in Irreplaceable /\ Refers(G.refs[u], z)
  BY DEF Blocked
<1>3. PICK k \in DOMAIN G.refs[u] : G.refs[u][k] = z
  BY <1>2 DEF Refers
<1>4. <<u[1], z[1]>> \in Edges
  BY <1>1, <1>2, <1>3 DEF Kinded, KindedRefs
<1>5. z[1] = "global"
  BY <1>2, <1>4 DEF Edges, Irreplaceable
<1>6. CASE u[1] = "initializer"
  <2>1. G.refs[u] # <<>>
    BY <1>3
  <2> QED
    BY <1>1, <1>5, <1>6, <2>1 DEF NoReads
<1>7. CASE u[1] \in {"data_offset", "element_offset"}
  <2>1. u[1] \in OwnedKinds
    BY <1>2 DEF OwnedKinds
  <2>2. Owner(u) \in N
    BY <1>1, <2>1, KindsApart DEF Owning, Placement, IsEntity, Belongs
  <2>3. Owner(u)[1] \in {"data", "element"}
    BY <1>7 DEF Owner
  <2> QED
    BY <1>5, <2>2, <2>3
<1> QED
  BY <1>2, <1>6, <1>7 DEF Irreplaceable

-----------------------------------------------------------------------------
(* What an accepted module says of itself.                                     *)

Accepts == module \in BytecodeModules /\ \A c \in DOMAIN Checks : Passed(c)

LEMMA AcceptedParts ==
  ASSUME Accepts
  PROVE  /\ \A j \in DOMAIN module.globals : Sound("global", j)
         /\ \A j \in DOMAIN module.data : Sound("data", j)
         /\ \A j \in DOMAIN module.elements : Sound("element", j)
         /\ \A j \in DOMAIN module.functions : Sound("function", j)
<1>1. /\ Checks[5] = "function" /\ Checks[8] = "global" /\ Checks[9] = "element" /\ Checks[10] = "data"
      /\ {5, 8, 9, 10} \subseteq DOMAIN Checks
  BY DEF Checks
<1>2. /\ Places("global") = DOMAIN module.globals /\ Places("data") = DOMAIN module.data
      /\ Places("element") = DOMAIN module.elements /\ Places("function") = DOMAIN module.functions
  BY DEF Places
<1>3. Passed(5) /\ Passed(8) /\ Passed(9) /\ Passed(10)
  BY <1>1 DEF Accepts
<1> QED
  BY <1>1, <1>2, <1>3 DEF Passed

(* The first three checks establish what the constructor of ModuleView needs.  *)
LEMMA ViewIsDefined ==
  ASSUME module \in BytecodeModules, \A c \in 1 .. 3 : Passed(c)
  PROVE  ViewDefined(module)
<1>1. /\ \A j \in DOMAIN module.imports : Sound("import", j)
      /\ \A j \in DOMAIN module.exports : Sound("export", j)
      /\ \A j \in DOMAIN module.functions : Sound("signature", j)
  <2>1. Checks[1] = "import" /\ Checks[2] = "export" /\ Checks[3] = "signature"
    BY DEF Checks
  <2>2. /\ Places("import") = DOMAIN module.imports /\ Places("export") = DOMAIN module.exports
        /\ Places("signature") = DOMAIN module.functions
    BY DEF Places
  <2>3. Passed(1) /\ Passed(2) /\ Passed(3)
    OBVIOUS
  <2> QED
    BY <2>1, <2>2, <2>3 DEF Passed
<1>2. ASSUME NEW i \in DOMAIN module.imports, module.imports[i].kind = "function"
      PROVE  InRange(module.types, module.imports[i].type.index)
  <2>1. SoundType("function", module.imports[i].type)
    BY <1>1, <1>2 DEF Sound
  <2> QED
    BY <2>1 DEF SoundType, InRange
<1>3. ASSUME NEW i \in DOMAIN module.functions  PROVE InRange(module.types, module.functions[i].type.index)
  <2>1. SoundType("function", module.functions[i].type)
    BY <1>1 DEF Sound
  <2> QED
    BY <2>1 DEF SoundType, InRange
<1>4. ASSUME NEW i \in DOMAIN module.exports
      PROVE  module.exports[i].index < NumEntities(module, module.exports[i].kind)
  <2> DEFINE k == module.exports[i].kind
             x == module.exports[i].index
  <2>1. k \in Kinds /\ x \in Nat
    <3>1. module.exports \in Seq([name : STRING, kind : Kinds, index : Nat])
      BY DEF BytecodeModules
    <3>2. module.exports[i] \in [name : STRING, kind : Kinds, index : Nat]
      BY <3>1, ListOf
    <3> QED
      BY <3>2
  <2>2. Exists(k, x)
    BY <1>1 DEF Sound
  <2> HIDE DEF k, x
  <2>3. InRange(View(module, k), x)
    BY <2>1, <2>2, InViewExists
  <2>4. NumEntities(module, k) = Len(View(module, k))
    BY <2>1, ViewIs
  <2>5. x < NumEntities(module, k)
    BY <2>3, <2>4 DEF InRange
  <2> QED
    BY <2>5 DEF k, x
<1> QED
  BY <1>2, <1>3, <1>4 DEF ViewDefined

(* An entity of the view is an import of the module's or a definition.         *)
LEMMA ViewEntity ==
  ASSUME module \in BytecodeModules, NEW k \in Kinds, NEW i \in 1 .. Len(View(module, k))
  PROVE  LET v == View(module, k)[i] IN
         \/ /\ v.entity = <<>> /\ i <= Len(ImportsOf(module, k))
            /\ \E p \in DOMAIN module.imports : v.import = module.imports[p].names
         \/ /\ v.import = <<>> /\ i > Len(ImportsOf(module, k))
            /\ \E j \in DOMAIN Definitions(module, k) : v.entity = <<Definitions(module, k)[j]>>
<1> DEFINE h == Len(ImportsOf(module, k))
           d == Len(Definitions(module, k))
           v == View(module, k)
<1>1. /\ h \in Nat /\ d \in Nat /\ Len(v) = h + d
      /\ \A j \in 1 .. h : v[j].import = ImportsOf(module, k)[j].names /\ v[j].entity = <<>>
      /\ \A j \in 1 .. d : v[h + j].import = <<>> /\ v[h + j].entity = <<Definitions(module, k)[j]>>
  BY ViewIs
<1>2. i \in 1 .. Len(v) /\ DOMAIN Definitions(module, k) = 1 .. d
  BY DefinitionFields DEF IsList
<1>3. \A j \in 1 .. h : \E p \in DOMAIN module.imports : ImportsOf(module, k)[j] = module.imports[p]
  <2> SUFFICES ASSUME NEW j \in 1 .. h
               PROVE  \E p \in DOMAIN module.imports : ImportsOf(module, k)[j] = module.imports[p]
    OBVIOUS
  <2>1. PICK p \in ImportPositions(k) : ImportIndex(p) = j - 1
    BY ImportsRanked
  <2>2. p \in DOMAIN module.imports /\ ImportsOf(module, k)[(j - 1) + 1] = module.imports[p]
    BY <2>1, ImportsRanked
  <2>3. (j - 1) + 1 = j
    OBVIOUS
  <2> QED
    BY <2>2, <2>3
<1> HIDE DEF h, d, v
<1>4. CASE i \in 1 .. h
  BY <1>1, <1>3, <1>4 DEF v, h
<1>5. CASE i \notin 1 .. h
  <2>1. i - h \in 1 .. d /\ i = h + (i - h) /\ i > h
    BY <1>1, <1>2, <1>5
  <2>2. v[i].import = <<>> /\ v[i].entity = <<Definitions(module, k)[i - h]>>
    <3> DEFINE j == i - h
    <3>1. j \in 1 .. d /\ i = h + j
      BY <2>1
    <3> HIDE DEF j
    <3>2. v[h + j].import = <<>> /\ v[h + j].entity = <<Definitions(module, k)[j]>>
      BY <1>1, <3>1
    <3> QED
      BY <3>1, <3>2 DEF j
  <2> QED
    BY <1>2, <2>1, <2>2 DEF v, h
<1> QED
  BY <1>4, <1>5

Half(names) == Cardinality({x \in 1 .. 2 : names[x] = ""}) = 1
LEMMA NamesHalf ==
  ASSUME module \in BytecodeModules, NEW k \in Kinds, NEW i \in 1 .. Len(View(module, k)),
         ~NamesAsserted(View(module, k)[i])
  PROVE  \E p \in DOMAIN module.imports : Half(module.imports[p].names)
<1> DEFINE v == View(module, k)[i]
<1>1. PICK a, b \in DOMAIN v.import : v.import[a] = "" /\ v.import[b] # ""
  BY DEF NamesAsserted
<1>2. PICK p \in DOMAIN module.imports : v.import = module.imports[p].names
  <2> DEFINE names == v.import
  <2>1. a \in DOMAIN names
    BY <1>1
  <2> HIDE DEF names
  <2>2. names # <<>>
    BY <2>1
  <2>3. v.import # <<>>
    BY <2>2 DEF names
  <2> QED
    BY <2>3, ViewEntity
<1>3. module.imports[p].names \in STRING \X STRING
  BY <1>2, ImportFields
<1> DEFINE names == module.imports[p].names
<1>4. DOMAIN names = {1, 2}
  BY <1>3
<1>5. a \in {1, 2} /\ b \in {1, 2} /\ names[a] = "" /\ names[b] # ""
  BY <1>1, <1>2, <1>4
<1> HIDE DEF names
<1>6. {x \in 1 .. 2 : names[x] = ""} = {a}
  <2>1. a # b /\ a \in {1, 2} /\ b \in {1, 2}
    BY <1>5
  <2>2. 1 .. 2 = {a, b}
    <3>1. 1 .. 2 = {1, 2}
      OBVIOUS
    <3>2. {1, 2} = {a, b}
      BY <2>1
    <3> QED
      BY <3>1, <3>2
  <2> QED
    BY <1>5, <2>2
<1>7. Half(names)
  BY <1>6, FS_Singleton DEF Half
<1> QED
  BY <1>7 DEF names

-----------------------------------------------------------------------------
(* Each part of the layout leaves the graph in order, or faults for one of the *)
(* two reasons there are.                                                      *)

Reads == \E j \in DOMAIN module.globals : module.globals[j].init[1][1] = "get"
Orderly(G) == Sane(G) /\ (~Reads => NoReads(G))
Pending(G, a, l) ==
  \A n \in DOMAIN G.uses :
    /\ n[1] = "data" => a > 4 \/ (a = 4 /\ n[2] < l)
    /\ n[1] = "element" => a > 5 \/ (a = 5 /\ n[2] < l)
    /\ n[1] = "function" => G.owned[n] = <<>> \/ a > 6 \/ (a = 6 /\ n[2] < l)
Outcome(H) ==
  \/ Orderly(H) /\ Pending(H, at, laid + 1)
  \/ H.fault /\ (GrowsNothing \/ HalfNamed)
InLayout ==
  /\ LayoutInv /\ Accepts /\ phase = "layout" /\ at \in 0 .. 6 /\ laid < Size
  /\ Orderly(mir) /\ Pending(mir, at, laid)

LEMMA PendingLays ==
  ASSUME NEW G, NEW H, NEW os, NEW k \in EntityKinds, NEW l \in Nat, Lays(G, H, <<k, l>>, os), NEW a \in Nat,
         Pending(G, a, l), k = "data" => a = 4, k = "element" => a = 5, k = "function" => os = <<>> \/ a = 6
  PROVE  Pending(H, a, l + 1)
<1> DEFINE e == <<k, l>>
<1>1. e[1] = k /\ e[2] = l /\ IsEntity(e)
  BY NotNil
<1> HIDE DEF e
<1>2. /\ DOMAIN H.uses = DOMAIN G.uses \cup {e} \cup Owned(os, Len(os))
      /\ \A n \in DOMAIN G.uses \ {e} : H.owned[n] = G.owned[n]
      /\ H.owned[e] = os
  BY DEF Lays, Grows, e
<1>3. Owning(H, DOMAIN H.uses)
  BY DEF Lays, Sane
<1> SUFFICES ASSUME NEW n \in DOMAIN H.uses
             PROVE  /\ n[1] = "data" => a > 4 \/ (a = 4 /\ n[2] < l + 1)
                    /\ n[1] = "element" => a > 5 \/ (a = 5 /\ n[2] < l + 1)
                    /\ n[1] = "function" => H.owned[n] = <<>> \/ a > 6 \/ (a = 6 /\ n[2] < l + 1)
  BY DEF Pending
<1>4. CASE n = e
  BY <1>1, <1>2, <1>4
<1>5. CASE n \in DOMAIN G.uses /\ n # e
  <2>1. H.owned[n] = G.owned[n]
    BY <1>2, <1>5
  <2>2. n[1] \in {"data", "element", "function"} => n[2] \in Nat
    <3>1. n[1] \in {"data", "element", "function"} => n[1] \notin OwnedKinds
      BY DEF OwnedKinds, Irreplaceable
    <3> QED
      BY <1>3, <3>1 DEF Owning, Placement, IsEntity
  <2>3. /\ n[1] = "data" => a > 4 \/ (a = 4 /\ n[2] < l)
        /\ n[1] = "element" => a > 5 \/ (a = 5 /\ n[2] < l)
        /\ n[1] = "function" => G.owned[n] = <<>> \/ a > 6 \/ (a = 6 /\ n[2] < l)
    BY <1>5 DEF Pending
  <2> QED
    BY <2>1, <2>2, <2>3
<1>6. CASE n \in Owned(os, Len(os))
  <2>1. Owns(DOMAIN H.uses, e, os)
    <3>1. e \in DOMAIN H.uses /\ e[1] \notin OwnedKinds
      BY <1>1, <1>2, KindsApart
    <3> QED
      BY <1>2, <1>3, <3>1 DEF Owning, Placement
  <2>2. n[1] \in OwnedKinds
    BY <1>6, <2>1 DEF Owned, Owns
  <2>3. n[1] \notin {"data", "element", "function"}
    BY <2>2 DEF OwnedKinds, Irreplaceable
  <2> QED
    BY <2>3
<1> QED
  BY <1>2, <1>4, <1>5, <1>6

LEMMA InLayoutFields ==
  ASSUME InLayout
  PROVE  /\ module \in BytecodeModules /\ laid \in Nat /\ at \in 0 .. 6 /\ laid < Size /\ IsGraph(mir)
         /\ Sane(mir) /\ (~Reads => NoReads(mir)) /\ Pending(mir, at, laid)
         /\ \A k \in Kinds : Holds(mir, k, Reached(k)) /\ Reached(k) \in Nat
BY ReachedIs DEF InLayout, LayoutInv, Accepts, Orderly

(* Whatever exists is there, once its part is done.                            *)
LEMMA ExistsAlive ==
  ASSUME InLayout, NEW k \in Kinds, at > Position(k), NEW i, Exists(k, i)
  PROVE  <<k, i>> \in DOMAIN mir.uses /\ i \in Nat
<1>1. i \in 0 .. Len(View(module, k)) - 1
  BY InLayoutFields, ExistsInView
<1>2. Reached(k) = Len(View(module, k))
  BY DEF Reached
<1>3. Holds(mir, k, Reached(k)) /\ Reached(k) \in Nat
  BY InLayoutFields
<1> QED
  BY <1>1, <1>2, <1>3 DEF Holds

LEMMA NextIsNew ==
  ASSUME InLayout, NEW k \in Kinds, at = Position(k)
  PROVE  <<k, laid>> \notin DOMAIN mir.uses /\ laid + 1 \in 1 .. Len(View(module, k)) /\ Size = Len(View(module, k))
<1>1. Reached(k) = laid /\ laid \in Nat /\ Holds(mir, k, laid)
  <2>1. Reached(k) = laid
    BY InLayoutFields, LengthsCounted DEF Reached, Position, Kinds
  <2> QED
    BY <2>1, InLayoutFields
<1>2. <<k, laid>> \notin DOMAIN mir.uses
  <2>1. \A i \in 0 .. laid - 1 : i # laid
    BY <1>1
  <2> QED
    BY <1>1, <2>1 DEF Holds
<1>3. Size = Len(View(module, k)) /\ Len(View(module, k)) \in Nat /\ laid < Size
  BY InLayoutFields, EntityLaid, LengthsCounted
<1> QED
  BY <1>1, <1>2, <1>3

LEMMA HalfNamedAt ==
  ASSUME InLayout, NEW k \in Kinds, NEW i \in 1 .. Len(View(module, k)), ~NamesAsserted(View(module, k)[i])
  PROVE  HalfNamed
<1>1. PICK p \in DOMAIN module.imports : Half(module.imports[p].names)
  BY InLayoutFields, NamesHalf
<1> QED
  BY <1>1 DEF HalfNamed, InLayout, Half

LEMMA EntityPart ==
  ASSUME InLayout, NEW k \in Kinds \ {"global"}, at = Position(k)
  PROVE  Outcome(Laid(laid + 1))
<1> DEFINE view == View(module, k)[laid + 1]
           H == LayEntity(mir, k, laid, view)
           e == <<k, laid>>
<1>1. laid \in Nat /\ Sane(mir) /\ (~Reads => NoReads(mir)) /\ Pending(mir, at, laid) /\ at \in 0 .. 6
  BY InLayoutFields
<1>2. e \notin DOMAIN mir.uses /\ laid + 1 \in 1 .. Len(View(module, k))
  BY NextIsNew
<1>3. Laid(laid + 1) = H
  <2>1. Part = k /\ k \in {"function", "table", "memory"}
    BY DEF Part, At, Parts, Position, Kinds
  <2>2. (laid + 1) - 1 = laid
    BY <1>1
  <2> QED
    BY <2>1, <2>2 DEF Laid
<1>4. /\ H.fault <=> ~NamesAsserted(view)
      /\ NamesAsserted(view) => Lays(mir, H, e, <<>>) /\ H.refs = Entered(mir.refs, e, <<>>)
  BY <1>1, <1>2, EntityLays
<1>5. CASE ~NamesAsserted(view)
  <2>1. HalfNamed
    BY <1>2, <1>5, HalfNamedAt
  <2> QED
    BY <1>3, <1>4, <1>5, <2>1 DEF Outcome
<1>6. CASE NamesAsserted(view)
  <2> HIDE DEF H
  <2>1. Lays(mir, H, e, <<>>) /\ H.refs = Entered(mir.refs, e, <<>>)
    BY <1>4, <1>6
  <2>2. ~Reads => NoReads(H)
    BY <1>1, <2>1, QuietEnters
  <2>3. Pending(H, at, laid + 1)
    <3>1. k \in EntityKinds /\ k # "data" /\ k # "element" /\ at \in Nat
      BY <1>1 DEF EntityKinds, Kinds
    <3> QED
      BY <1>1, <2>1, <3>1, PendingLays
  <2> QED
    BY <1>3, <2>1, <2>2, <2>3 DEF Outcome, Orderly, Lays
<1> QED
  BY <1>5, <1>6

LEMMA ConstantReadable ==
  ASSUME NEW G, NEW expr, NEW t, NEW readable, SoundConstant(expr, t, readable),
         \A g \in readable : <<"global", g>> \in DOMAIN G.uses
  PROVE  Readable(G, expr)
<1>1. Len(expr) = 1 /\ (expr[1] = <<"const", t>> \/ expr[1][2] \in readable)
  BY DEF SoundConstant
<1>2. <<"const", t>>[1] = "const"
  OBVIOUS
<1> QED
  BY <1>1, <1>2 DEF Readable

LEMMA OffsetReadable ==
  ASSUME InLayout, at > 2, NEW expr, SoundConstant(expr, "I32", GlobalIndices)
  PROVE  Readable(mir, expr)
<1>1. "global" \in Kinds /\ Position("global") = 2
  BY DEF Kinds, Position
<1>2. \A g \in GlobalIndices : <<"global", g>> \in DOMAIN mir.uses
  BY <1>1, ExistsAlive DEF GlobalIndices
<1> QED
  BY <1>2, ConstantReadable

LEMMA GlobalPart ==
  ASSUME InLayout, at = Position("global")
  PROVE  Outcome(Laid(laid + 1))
<1> DEFINE view == View(module, "global")[laid + 1]
           H == LayGlobal(mir, laid, view)
           e == <<"global", laid>>
           expr == view.entity[1].init
<1>1. laid \in Nat /\ Sane(mir) /\ (~Reads => NoReads(mir)) /\ Pending(mir, at, laid) /\ module \in BytecodeModules
  BY InLayoutFields
<1>2. "global" \in Kinds /\ at = 2 /\ "global" \in EntityKinds
  BY DEF Kinds, Position, EntityKinds
<1>3. e \notin DOMAIN mir.uses /\ laid + 1 \in 1 .. Len(View(module, "global"))
  BY <1>2, NextIsNew
<1>4. Laid(laid + 1) = H
  <2>1. Part = "global"
    BY <1>2 DEF Part, At, Parts
  <2>2. (laid + 1) - 1 = laid
    BY <1>1
  <2> QED
    BY <2>1, <2>2 DEF Laid
<1>5. CASE ~NamesAsserted(view)
  <2>1. HalfNamed
    BY <1>2, <1>3, <1>5, HalfNamedAt
  <2>2. view.entity = <<>>
    <3>1. view.import # <<>>
      <4> DEFINE names == view.import
      <4>1. PICK a \in DOMAIN names : TRUE
        BY <1>5 DEF NamesAsserted
      <4> HIDE DEF names
      <4>2. names # <<>>
        BY <4>1
      <4> QED
        BY <4>2 DEF names
    <3> QED
      BY <1>1, <1>2, <1>3, <3>1, ViewEntity
  <2>3. H = LayEntity(mir, "global", laid, view)
    BY <2>2 DEF LayGlobal
  <2>4. H.fault
    BY <1>1, <1>2, <1>3, <1>5, <2>3, EntityLays
  <2> QED
    BY <1>4, <2>1, <2>4 DEF Outcome
<1>6. CASE NamesAsserted(view)
  <2>1. view.entity = <<>> \/ (Readable(mir, expr) /\ (~Reads => expr[1][1] # "get"))
    <3> HIDE DEF view, expr
    <3> SUFFICES ASSUME view.entity # <<>>  PROVE Readable(mir, expr) /\ (~Reads => expr[1][1] # "get")
      OBVIOUS
    <3> USE DEF view, expr
    <3> DEFINE h == Len(ImportsOf(module, "global"))
    <3>1. Definitions(module, "global") = module.globals
      BY DEF Definitions
    <3>2. laid + 1 > h /\ \E j \in DOMAIN module.globals : view.entity = <<module.globals[j]>>
      BY <1>1, <1>2, <1>3, <3>1, ViewEntity
    <3>3. PICK j \in DOMAIN module.globals : view.entity = <<module.globals[j]>>
      BY <3>2
    <3>4. expr = module.globals[j].init
      BY <3>3
    <3> DEFINE readable == {g \in GlobalIndices : IsImport("global", g)}
    <3>5. SoundConstant(expr, module.globals[j].type.type, readable)
      <4>1. Sound("global", j)
        BY AcceptedParts DEF InLayout
      <4> QED
        BY <3>4, <4>1 DEF Sound
    <3>6. ASSUME NEW g \in readable  PROVE <<"global", g>> \in DOMAIN mir.uses
      <4>1. PICK p \in ImportPositions("global") : ImportIndex(p) = g
        BY <3>6 DEF IsImport
      <4>2. g \in 0 .. h - 1 /\ h \in Nat
        BY <1>1, <1>2, <4>1, ImportInView, ViewIs
      <4>3. g \in 0 .. laid - 1
        <5> HIDE DEF h
        <5> QED
          BY <1>1, <3>2, <4>2
      <4>4. Holds(mir, "global", laid)
        <5>1. Reached("global") = laid
          BY <1>2 DEF Reached, Position
        <5> QED
          BY <1>2, <5>1, InLayoutFields
      <4> QED
        BY <4>3, <4>4 DEF Holds
    <3> HIDE DEF readable
    <3>7. Readable(mir, expr)
      BY <3>5, <3>6, ConstantReadable
    <3> QED
      BY <3>4, <3>7 DEF Reads
  <2>2. /\ \E os : Lays(mir, H, e, os)
        /\ NoReads(mir) /\ (view.entity = <<>> \/ expr[1][1] # "get") => NoReads(H)
    BY <1>1, <1>3, <1>6, <2>1, GlobalLays
  <2> HIDE DEF H, view
  <2>3. PICK os : Lays(mir, H, e, os)
    BY <2>2
  <2>4. Pending(H, at, laid + 1)
    <3>1. at \in Nat
      BY <1>2
    <3> QED
      BY <1>1, <1>2, <2>3, <3>1, PendingLays
  <2>5. ~Reads => NoReads(H)
    BY <1>1, <2>1, <2>2
  <2> QED
    BY <1>4, <2>3, <2>4, <2>5 DEF Outcome, Orderly, Lays
<1> QED
  BY <1>5, <1>6

LEMMA DataPart ==
  ASSUME InLayout, at = 4
  PROVE  Outcome(Laid(laid + 1))
<1> DEFINE d == module.data[laid + 1]
           H == LayData(mir, laid + 1)
           target == <<"memory", d.memory>>
           s == <<"data", laid>>
<1>1. laid \in Nat /\ Sane(mir) /\ (~Reads => NoReads(mir)) /\ Pending(mir, at, laid) /\ module \in BytecodeModules
      /\ laid < Size
  BY InLayoutFields
<1>2. Part = "data"
  BY DEF Part, At, Parts
<1>3. Laid(laid + 1) = H
  BY <1>2 DEF Laid
<1>4. laid + 1 \in DOMAIN module.data
  <2>1. Size = Len(module.data)
    BY <1>2 DEF Size
  <2> QED
    BY <1>1, <2>1, ModuleLists DEF IsList
<1>5. Exists("memory", d.memory) /\ SoundConstant(d.offset, "I32", GlobalIndices)
  <2>1. Sound("data", laid + 1)
    BY <1>4, AcceptedParts DEF InLayout
  <2> QED
    BY <2>1 DEF Sound
<1>6. target \in DOMAIN mir.uses
  <2>1. "memory" \in Kinds /\ at > Position("memory")
    BY DEF Kinds, Position
  <2> QED
    BY <1>5, <2>1, ExistsAlive
<1>7. Readable(mir, d.offset)
  BY <1>5, OffsetReadable
<1>8. s \notin DOMAIN mir.uses
  <2>1. s[1] = "data" /\ s[2] = laid /\ ~(laid < laid)
    BY <1>1
  <2> HIDE DEF s
  <2> QED
    BY <1>1, <2>1 DEF Pending
<1>9. H = LaySegment(mir, "data", "data_offset", laid, d.offset, target, <<>>)
  <2>1. (laid + 1) - 1 = laid
    BY <1>1
  <2> QED
    BY <2>1 DEF LayData
<1>10. (\E os : Lays(mir, H, s, os)) /\ (NoReads(mir) => NoReads(H))
  <2>1. <<>> \in Seq(DOMAIN mir.uses) /\ KindedRefs("data", <<>>) /\ target[1] = "memory"
    BY DEF KindedRefs
  <2> HIDE DEF H, target, d
  <2> QED
    BY <1>1, <1>6, <1>7, <1>8, <1>9, <2>1, SegmentLays
<1> HIDE DEF H
<1>11. PICK os : Lays(mir, H, s, os)
  BY <1>10
<1>12. Pending(H, at, laid + 1)
  <2>1. "data" \in EntityKinds /\ at \in Nat
    BY DEF EntityKinds
  <2> QED
    BY <1>1, <1>11, <2>1, PendingLays
<1> QED
  BY <1>1, <1>3, <1>10, <1>11, <1>12 DEF Outcome, Orderly, Lays

LEMMA ElementPart ==
  ASSUME InLayout, at = 5
  PROVE  Outcome(Laid(laid + 1))
<1> DEFINE d == module.elements[laid + 1]
           H == LayElement(mir, laid + 1)
           target == <<"table", d.table>>
           s == <<"element", laid>>
           content == [i \in DOMAIN d.init |-> <<"function", d.init[i]>>]
<1>1. /\ laid \in Nat /\ Sane(mir) /\ (~Reads => NoReads(mir)) /\ Pending(mir, at, laid)
      /\ module \in BytecodeModules /\ laid < Size
  BY InLayoutFields
<1>2. Part = "element"
  BY DEF Part, At, Parts
<1>3. Laid(laid + 1) = H
  BY <1>2 DEF Laid
<1>4. laid + 1 \in DOMAIN module.elements
  <2>1. Size = Len(module.elements)
    BY <1>2 DEF Size
  <2> QED
    BY <1>1, <2>1, ModuleLists DEF IsList
<1>5. /\ Exists("table", d.table) /\ SoundConstant(d.offset, "I32", GlobalIndices)
      /\ \A f \in ToSet(d.init) : Exists("function", f)
  <2>1. Sound("element", laid + 1)
    BY <1>4, AcceptedParts DEF InLayout
  <2> QED
    BY <2>1 DEF Sound
<1>6. target \in DOMAIN mir.uses
  <2>1. "table" \in Kinds /\ at > Position("table")
    BY DEF Kinds, Position
  <2> QED
    BY <1>5, <2>1, ExistsAlive
<1>7. Readable(mir, d.offset)
  BY <1>5, OffsetReadable
<1>8. s \notin DOMAIN mir.uses
  <2>1. s[1] = "element" /\ s[2] = laid /\ ~(laid < laid)
    BY <1>1
  <2> HIDE DEF s
  <2> QED
    BY <1>1, <2>1 DEF Pending
<1>9. H = LaySegment(mir, "element", "element_offset", laid, d.offset, target, content)
  <2>1. (laid + 1) - 1 = laid
    BY <1>1
  <2> QED
    BY <2>1 DEF LayElement
<1>10. content \in Seq(DOMAIN mir.uses) /\ KindedRefs("element", content)
  <2> DEFINE init == d.init
             N == DOMAIN mir.uses
  <2>1. init \in Seq(Nat)
    <3>1. module.elements \in Seq([table : Nat, offset : Seq(InitInstruction), init : Seq(Nat)])
      BY <1>1 DEF BytecodeModules
    <3>2. d \in [table : Nat, offset : Seq(InitInstruction), init : Seq(Nat)]
      BY <1>4, <3>1, ListOf
    <3> QED
      BY <3>2
  <2>2. "function" \in Kinds /\ at > Position("function")
    BY DEF Kinds, Position
  <2>3. \A i \in DOMAIN init : <<"function", init[i]>> \in N
    <3>1. \A i \in DOMAIN init : init[i] \in ToSet(init)
      BY DEF ToSet
    <3> QED
      BY <1>5, <2>2, <3>1, ExistsAlive
  <2> HIDE DEF init, N
  <2>4. [i \in DOMAIN init |-> <<"function", init[i]>>] \in Seq(N)
    BY <2>1, <2>3
  <2>5. KindedRefs("element", [i \in DOMAIN init |-> <<"function", init[i]>>])
    BY DEF KindedRefs, Edges
  <2> QED
    BY <2>4, <2>5 DEF init, N
<1>11. (\E os : Lays(mir, H, s, os)) /\ (NoReads(mir) => NoReads(H))
  <2>1. target[1] = "table"
    OBVIOUS
  <2> HIDE DEF H, target, d, content
  <2> QED
    BY <1>1, <1>6, <1>7, <1>8, <1>9, <1>10, <2>1, SegmentLays
<1> HIDE DEF H
<1>12. PICK os : Lays(mir, H, s, os)
  BY <1>11
<1>13. Pending(H, at, laid + 1)
  <2>1. "element" \in EntityKinds /\ at \in Nat
    BY DEF EntityKinds
  <2> QED
    BY <1>1, <1>12, <2>1, PendingLays
<1> QED
  BY <1>1, <1>3, <1>11, <1>12, <1>13 DEF Outcome, Orderly, Lays

(* What the instructions of an accepted body refer to is there, the memory of  *)
(* memory.grow excepted.                                                       *)
LEMMA InstructionRefers ==
  ASSUME InLayout, at = 6, NEW i \in {"call", "set", "grow", "untyped"} \X Nat, SoundInstruction(i)
  PROVE  /\ RefOf(i) \in Refable
         /\ RefOf(i) \notin DOMAIN mir.uses => i[1] = "grow" /\ NumEntities(module, "memory") = 0
<1>1. /\ {"function", "global", "memory"} \subseteq Kinds
      /\ at > Position("function") /\ at > Position("global") /\ at > Position("memory")
  BY DEF Kinds, Position
<1>2. i[1] \in {"call", "set", "grow"} /\ i[2] \in Nat
  BY DEF SoundInstruction
<1>3. CASE i[1] = "call"
  <2>1. RefOf(i) = <<"function", i[2]>>
    BY <1>3 DEF RefOf
  <2>2. Exists("function", i[2])
    BY <1>3 DEF SoundInstruction
  <2>3. <<"function", i[2]>> \in DOMAIN mir.uses
    BY <1>1, <2>2, ExistsAlive
  <2> QED
    BY <1>2, <2>1, <2>3 DEF Refable
<1>4. CASE i[1] = "set"
  <2>1. RefOf(i) = <<"global", i[2]>>
    BY <1>4 DEF RefOf
  <2>2. Exists("global", i[2])
    BY <1>4 DEF SoundInstruction, Exists
  <2>3. <<"global", i[2]>> \in DOMAIN mir.uses
    BY <1>1, <2>2, ExistsAlive
  <2> QED
    BY <1>2, <2>1, <2>3 DEF Refable
<1>5. CASE i[1] = "grow"
  <2>1. RefOf(i) = <<"memory", 0>>
    BY <1>5 DEF RefOf
  <2>2. ASSUME NumEntities(module, "memory") # 0  PROVE <<"memory", 0>> \in DOMAIN mir.uses
    <3>1. module \in BytecodeModules
      BY InLayoutFields
    <3>2. NumEntities(module, "memory") = Len(View(module, "memory")) /\ Len(View(module, "memory")) \in Nat
      BY <1>1, <3>1, ViewIs, LengthsCounted
    <3>3. 0 \in 0 .. Len(View(module, "memory")) - 1
      BY <2>2, <3>2
    <3>4. Exists("memory", 0)
      BY <1>1, <3>1, <3>3, ExistsInView
    <3> QED
      BY <1>1, <3>4, ExistsAlive
  <2> QED
    BY <1>5, <2>1, <2>2 DEF Refable
<1> QED
  BY <1>2, <1>3, <1>4, <1>5

LEMMA BodyPart ==
  ASSUME InLayout, at = 6
  PROVE  Outcome(Laid(laid + 1))
<1> DEFINE V == View(module, "function")
           view == V[laid + 1]
           H == TranslateFunction(mir, laid, view)
           e == <<"function", laid>>
<1>1. /\ laid \in Nat /\ Sane(mir) /\ (~Reads => NoReads(mir)) /\ Pending(mir, at, laid)
      /\ module \in BytecodeModules /\ laid < Size /\ IsGraph(mir)
  BY InLayoutFields
<1>2. Part = "bodies"
  BY DEF Part, At, Parts
<1>3. Laid(laid + 1) = H
  <2>1. (laid + 1) - 1 = laid
    BY <1>1
  <2> QED
    BY <1>2, <2>1 DEF Laid
<1>4. "function" \in Kinds /\ "function" \in EntityKinds
  BY DEF Kinds, EntityKinds
<1>5. laid + 1 \in 1 .. Len(V) /\ laid \in 0 .. Len(V) - 1
  <2>1. Size = Len(V) /\ Len(V) \in Nat
    BY <1>1, <1>2, <1>4, LengthsCounted DEF Size
  <2> QED
    BY <1>1, <2>1
<1>6. CASE view.import # <<>>
  <2>1. H = mir
    BY <1>6 DEF TranslateFunction
  <2>2. Pending(mir, at, laid + 1)
    <3>1. Owning(mir, DOMAIN mir.uses)
      BY <1>1, SaneFields
    <3>2. \A n \in DOMAIN mir.uses : n[1] = "function" => n[2] \in Nat
      <4>1. "function" \notin OwnedKinds
        BY DEF OwnedKinds, Irreplaceable
      <4> QED
        BY <3>1, <4>1 DEF Owning, Placement, IsEntity
    <3> QED
      BY <1>1, <3>2 DEF Pending
  <2> QED
    BY <1>1, <1>3, <2>1, <2>2 DEF Outcome, Orderly
<1>7. CASE view.import = <<>>
  <2>1. PICK j \in DOMAIN module.functions : view.entity = <<module.functions[j]>>
    <3>1. Definitions(module, "function") = module.functions
      BY DEF Definitions
    <3>2. \A p \in DOMAIN module.imports : module.imports[p].names # <<>>
      BY <1>1, ImportFields, PairNotEmpty
    <3> QED
      BY <1>1, <1>4, <1>5, <1>7, <3>1, <3>2, ViewEntity
  <2> DEFINE f == module.functions[j]
             body == f.body
  <2>2. view.entity[1].body = body
    BY <2>1
  <2>3. body \in Seq({"call", "set", "grow", "untyped"} \X Nat)
    <3>1. module.functions \in Seq([type : EntityType("function"), body : Seq({"call", "set", "grow", "untyped"} \X Nat)])
      BY <1>1 DEF BytecodeModules
    <3>2. f \in [type : EntityType("function"), body : Seq({"call", "set", "grow", "untyped"} \X Nat)]
      BY <2>1, <3>1, ListOf
    <3> QED
      BY <3>2
  <2>4. \A i \in DOMAIN body : SoundInstruction(body[i])
    <3>1. Sound("function", j)
      BY <2>1, AcceptedParts DEF InLayout
    <3> QED
      BY <3>1 DEF Sound
  <2>5. f \in ToSet(module.functions) /\ f.body = body
    BY <2>1 DEF ToSet
  <2> HIDE DEF body, f, view
  <2>6. IsList(body) /\ \A i \in 1 .. Len(body) : body[i] \in {"call", "set", "grow", "untyped"} \X Nat /\ body[i] \in ToSet(body)
    <3>1. IsList(body) /\ \A i \in DOMAIN body : body[i] \in {"call", "set", "grow", "untyped"} \X Nat
      BY <2>3, ListOf
    <3> QED
      BY <3>1 DEF IsList, ToSet
  <2>7. \A i \in 1 .. Len(body) :
          /\ RefOf(body[i]) \in Refable
          /\ RefOf(body[i]) \notin DOMAIN mir.uses => body[i][1] = "grow" /\ NumEntities(module, "memory") = 0
    BY <2>4, <2>6, InstructionRefers DEF IsList
  <2>8. e \in DOMAIN mir.uses /\ mir.owned[e] = <<>>
    <3>1. Holds(mir, "function", Len(V))
      <4>1. Reached("function") = Len(V)
        BY DEF Reached, Position
      <4> QED
        BY <1>4, <4>1, InLayoutFields
    <3>2. e \in DOMAIN mir.uses
      BY <1>5, <3>1 DEF Holds
    <3>3. e[1] = "function" /\ e[2] = laid /\ ~(laid < laid)
      BY <1>1
    <3> HIDE DEF e
    <3> QED
      BY <1>1, <3>2, <3>3 DEF Pending
  <2>9. \/ (\E os : Lays(mir, H, e, os)) /\ (NoReads(mir) => NoReads(H))
        \/ Halted(mir, body, H)
    BY <1>1, <1>7, <2>2, <2>6, <2>7, <2>8, BodyLays
  <2> HIDE DEF H
  <2>10. CASE Halted(mir, body, H)
    <3>1. H.fault /\ \E i \in 1 .. Len(body) : RefOf(body[i]) \notin DOMAIN mir.uses
      BY <2>10 DEF Halted
    <3>2. GrowsNothing
      BY <2>5, <2>6, <2>7, <3>1 DEF GrowsNothing, InLayout
    <3> QED
      BY <1>3, <3>1, <3>2 DEF Outcome
  <2>11. CASE (\E os : Lays(mir, H, e, os)) /\ (NoReads(mir) => NoReads(H))
    <3>1. PICK os : Lays(mir, H, e, os)
      BY <2>11
    <3>2. Pending(H, at, laid + 1)
      BY <1>1, <1>4, <3>1, PendingLays
    <3> QED
      BY <1>1, <1>3, <2>11, <3>1, <3>2 DEF Outcome, Orderly, Lays
  <2> QED
    BY <2>9, <2>10, <2>11
<1> QED
  BY <1>6, <1>7

-----------------------------------------------------------------------------
(* From the empty graph through the layout and the teardown.                   *)

Gutted(G, a) == \A j \in 1 .. a : NodesOf(G, Lists[j]) = {}
FaultInv ==
  /\ phase \in {"validate", "rejected", "layout", "teardown"}
  /\ phase \in {"validate", "rejected"} => mir = EmptyModule
  /\ phase = "layout" => \/ Orderly(mir) /\ Pending(mir, at, laid)
                         \/ mir.fault /\ (GrowsNothing \/ HalfNamed)
  /\ phase = "teardown" => /\ at \in 0 .. 6
                           /\ (Orderly(mir) /\ Gutted(mir, at)) \/ (mir.fault /\ Reads)

LEMMA EmptyIsSane ==
  /\ Sane(EmptyModule) /\ NoReads(EmptyModule) /\ DOMAIN EmptyModule.uses = {}
<1> DEFINE G == EmptyModule
<1>1. /\ G.refs = <<>> /\ G.uses = <<>> /\ G.owned = <<>> /\ G.info = <<>> /\ G.fault = FALSE
      /\ G = [refs |-> <<>>, uses |-> <<>>, owned |-> <<>>, info |-> <<>>, fault |-> FALSE]
  BY DEF EmptyModule
<1> HIDE DEF G
<1>2. DOMAIN G.uses = {} /\ DOMAIN G.refs = {} /\ Formed(G)
  BY <1>1 DEF Formed
<1>3. Linked(G, {})
  <2>1. G.uses \in [{} -> Seq({})] /\ G.refs \in [{} -> Seq({} \cup {Nil})]
    BY <1>1
  <2> QED
    BY <1>2, <2>1 DEF Linked, Listed
<1>4. Kinded(G) /\ Owning(G, {}) /\ NoReads(G)
  BY <1>2 DEF Kinded, Owning, NoReads
<1>5. Sane(G)
  BY <1>1, <1>2, <1>3, <1>4 DEF Sane
<1> QED
  BY <1>2, <1>4, <1>5 DEF G

LEMMA TranslateKeeps ==
  ASSUME LayoutInv, VerdictInv, FaultInv, Translate
  PROVE  FaultInv'
<1>1. /\ phase = "layout" /\ phase' = "layout" /\ module' = module /\ at \in 0 .. 6 /\ laid \in Nat /\ laid <= Size
      /\ ~mir.fault
  BY DEF Translate, LayoutInv, Parts
<1>2. Accepts /\ Orderly(mir) /\ Pending(mir, at, laid)
  <2>1. Accepts
    BY <1>1 DEF VerdictInv, Accepts
  <2> QED
    BY <1>1, <2>1 DEF FaultInv
<1>3. /\ (GrowsNothing' <=> GrowsNothing) /\ (HalfNamed' <=> HalfNamed) /\ (Reads' <=> Reads)
  BY <1>1 DEF GrowsNothing, HalfNamed, Reads
<1>4. SUFFICES \/ Orderly(mir') /\ Pending(mir', at', laid')
               \/ mir'.fault /\ (GrowsNothing \/ HalfNamed)
  <2>1. Orderly(mir') => Orderly(mir)'
    BY <1>3 DEF Orderly
  <2>2. Pending(mir', at', laid') => Pending(mir, at, laid)'
    OBVIOUS
  <2>3. \/ (Orderly(mir) /\ Pending(mir, at, laid))'
        \/ (mir.fault /\ (GrowsNothing \/ HalfNamed))'
    BY <1>3, <1>4, <2>1, <2>2
  <2> QED
    BY <1>1, <2>3 DEF FaultInv
<1>5. CASE laid < Size
  <2>1. InLayout
    BY <1>1, <1>2, <1>5 DEF InLayout
  <2>2. mir' = Laid(laid + 1) /\ laid' = laid + 1 /\ at' = at
    BY <1>5 DEF Translate
  <2>3. Outcome(Laid(laid + 1))
    <3>1. CASE at \in 0 .. 3
      <4>1. \E k \in Kinds : at = Position(k)
        <5>1. Position("memory") = 0 /\ Position("table") = 1 /\ Position("global") = 2 /\ Position("function") = 3
          BY DEF Position
        <5>2. {"memory", "table", "global", "function"} \subseteq Kinds
          BY DEF Kinds
        <5>3. at = 0 \/ at = 1 \/ at = 2 \/ at = 3
          BY <3>1
        <5> QED
          BY <5>1, <5>2, <5>3
      <4> QED
        BY <2>1, <4>1, EntityPart, GlobalPart
    <3>2. CASE at \in 4 .. 6
      <4>1. at = 4 \/ at = 5 \/ at = 6
        BY <3>2
      <4> QED
        BY <2>1, <4>1, DataPart, ElementPart, BodyPart
    <3> QED
      BY <1>1, <3>1, <3>2
  <2> QED
    BY <2>2, <2>3 DEF Outcome
<1>6. CASE ~(laid < Size)
  <2>1. mir' = mir /\ laid' = 0 /\ at' = at + 1
    BY <1>6 DEF Translate
  <2>2. Pending(mir, at + 1, 0)
    BY <1>1, <1>2 DEF Pending
  <2> QED
    BY <1>2, <2>1, <2>2
<1> QED
  BY <1>5, <1>6

LEMMA FrontIs ==
  ASSUME NEW G, Sane(G), NEW kind \in EntityKinds, NEW list, list = NodesOf(G, kind), list # {},
         NEW front, front = CHOOSE n \in list : \A o \in list : n[2] <= o[2]
  PROVE  front \in DOMAIN G.uses /\ front[1] = kind /\ IsEntity(front)
<1>1. \A n \in list : n \in DOMAIN G.uses /\ n[1] = kind /\ IsEntity(n)
  <2>1. Owning(G, DOMAIN G.uses)
    BY SaneFields
  <2>2. \A n \in list : n \in DOMAIN G.uses /\ n[1] = kind
    BY DEF NodesOf
  <2> QED
    BY <2>1, <2>2, KindsApart DEF Owning, Placement
<1> DEFINE P == {n[2] : n \in list}
<1>2. P \in SUBSET Nat /\ P # {}
  BY <1>1 DEF IsEntity
<1>3. PICK x \in P : \A y \in P : x <= y
  <2> HIDE DEF P
  <2> QED
    BY <1>2, SmallestOf
<1>4. PICK m \in list : x = m[2]
  OBVIOUS
<1>5. \A o \in list : m[2] <= o[2]
  BY <1>3, <1>4
<1>6. front \in list
  BY <1>4, <1>5
<1> QED
  BY <1>1, <1>6

LEMMA DestroyKeeps ==
  ASSUME FaultInv, DestroyFront
  PROVE  FaultInv'
<1>1. /\ phase = "teardown" /\ phase' = "teardown" /\ module' = module /\ at \in 0 .. 5
      /\ Orderly(mir) /\ Gutted(mir, at)
  BY DEF FaultInv, DestroyFront, Lists
<1>2. Reads' <=> Reads
  BY <1>1 DEF Reads
<1>3. SUFFICES /\ at' \in 0 .. 6
               /\ (Orderly(mir') /\ Gutted(mir', at')) \/ (mir'.fault /\ Reads)
  <2>1. Orderly(mir') => Orderly(mir)'
    BY <1>2 DEF Orderly
  <2>2. Gutted(mir', at') => Gutted(mir, at)'
    BY DEF Gutted
  <2>3. ((Orderly(mir) /\ Gutted(mir, at)) \/ (mir.fault /\ Reads))'
    BY <1>2, <1>3, <2>1, <2>2
  <2> QED
    BY <1>1, <1>3, <2>3 DEF FaultInv
<1> DEFINE kind == At(Lists, at)
           list == NodesOf(mir, kind)
           front == CHOOSE n \in list : \A o \in list : n[2] <= o[2]
           H == Destroy(mir, front)
<1>4. kind = Lists[at + 1] /\ kind \in EntityKinds /\ (kind = "global" => at = 4)
  BY <1>1 DEF At, Lists, EntityKinds, Kinds
<1> HIDE DEF kind
<1>5. Sane(mir) /\ (~Reads => NoReads(mir))
  BY <1>1 DEF Orderly
<1>6. CASE list = {}
  <2>1. at' = at + 1 /\ mir' = mir
    BY <1>6 DEF DestroyFront, kind
  <2>2. Gutted(mir, at + 1)
    <3> SUFFICES ASSUME NEW j \in 1 .. at + 1  PROVE NodesOf(mir, Lists[j]) = {}
      BY DEF Gutted
    <3>1. CASE j = at + 1
      BY <1>4, <1>6, <3>1
    <3>2. CASE j \in 1 .. at
      BY <1>1, <3>2 DEF Gutted
    <3> QED
      BY <1>1, <3>1, <3>2
  <2> QED
    BY <1>1, <2>1, <2>2
<1>7. CASE list # {}
  <2>1. at' = at /\ mir' = H
    BY <1>7 DEF DestroyFront, kind
  <2>2. front \in DOMAIN mir.uses /\ front[1] = kind /\ IsEntity(front)
    BY <1>4, <1>5, <1>7, FrontIs
  <2> HIDE DEF front
  <2>3. \/ Sane(H) /\ DOMAIN H.uses \subseteq DOMAIN mir.uses /\ (NoReads(mir) => NoReads(H))
        \/ H.fault /\ Blocked(DOMAIN mir.uses, mir.refs, front)
    BY <1>5, <2>2, EntityDestroyed
  <2> HIDE DEF H, list
  <2>4. CASE Sane(H) /\ DOMAIN H.uses \subseteq DOMAIN mir.uses /\ (NoReads(mir) => NoReads(H))
    <3>1. Gutted(H, at)
      BY <1>1, <2>4 DEF Gutted, NodesOf
    <3>2. Orderly(H)
      BY <1>5, <2>4 DEF Orderly
    <3> QED
      BY <1>1, <2>1, <3>1, <3>2
  <2>5. CASE H.fault /\ Blocked(DOMAIN mir.uses, mir.refs, front)
    <3>1. front[1] = "global" /\ (~NoReads(mir) \/ \E n \in DOMAIN mir.uses : n[1] \in {"data", "element"})
      BY <1>5, <2>2, <2>5, OnlyReadsBlock
    <3>2. at = 4
      BY <1>4, <2>2, <3>1
    <3>3. ~ \E n \in DOMAIN mir.uses : n[1] \in {"data", "element"}
      <4>1. Lists[1] = "element" /\ Lists[2] = "data" /\ 1 \in 1 .. at /\ 2 \in 1 .. at
        BY <3>2 DEF Lists
      <4>2. NodesOf(mir, "element") = {} /\ NodesOf(mir, "data") = {}
        BY <1>1, <4>1 DEF Gutted
      <4> QED
        BY <4>2 DEF NodesOf
    <3>4. Reads
      BY <1>5, <3>1, <3>3
    <3> QED
      BY <1>1, <2>1, <2>5, <3>4
  <2> QED
    BY <2>3, <2>4, <2>5
<1> QED
  BY <1>6, <1>7

LEMMA FaultInvHolds ==
  Spec => []FaultInv
<1>1. ASSUME Init  PROVE FaultInv
  BY <1>1 DEF Init, FaultInv
<1>2. ASSUME FaultInv, LayoutInv, VerdictInv, [Next]_vars  PROVE FaultInv'
  <2>1. CASE Validate
    <3>1. /\ phase = "validate" /\ phase' \in {"validate", "rejected"} /\ mir = EmptyModule /\ module' = module
          /\ at \in 0 .. 13
          /\ mir' = [mir EXCEPT !.fault = @ \/ (At(Checks, at) = "view" /\ ~ViewDefined(module))]
      BY <1>2, <2>1 DEF Validate, FaultInv, VerdictInv, Checks
    <3>2. At(Checks, at) = "view" => at = 3
      BY <3>1 DEF At, Checks
    <3>3. ~(At(Checks, at) = "view" /\ ~ViewDefined(module))
      <4> SUFFICES ASSUME at = 3  PROVE ViewDefined(module)
        BY <3>2
      <4>1. module \in BytecodeModules /\ \A c \in 1 .. 3 : Passed(c)
        BY <1>2, <3>1 DEF VerdictInv
      <4> QED
        BY <4>1, ViewIsDefined
    <3>4. mir' = EmptyModule
      <4>1. mir' = [EmptyModule EXCEPT !.fault = FALSE]
        <5>1. EmptyModule.fault = FALSE
          BY DEF EmptyModule
        <5>2. (EmptyModule.fault \/ (At(Checks, at) = "view" /\ ~ViewDefined(module))) = FALSE
          BY <3>3, <5>1
        <5> QED
          BY <3>1, <5>2
      <4> QED
        BY <4>1 DEF EmptyModule
    <3> QED
      BY <3>1, <3>4 DEF FaultInv
  <2>2. CASE StartTranslation
    <3>1. phase' = "layout" /\ at' = 0 /\ laid' = laid /\ mir' = EmptyModule
      BY <1>2, <2>2 DEF StartTranslation, FaultInv
    <3>2. Orderly(mir)'
      BY <3>1, EmptyIsSane DEF Orderly
    <3>3. Pending(mir, at, laid)'
      BY <3>1, EmptyIsSane DEF Pending
    <3> QED
      BY <3>1, <3>2, <3>3 DEF FaultInv
  <2>3. CASE Translate
    BY <1>2, <2>3, TranslateKeeps
  <2>4. CASE StartTeardown
    <3>1. phase' = "teardown" /\ at' = 0 /\ mir' = mir /\ module' = module /\ Orderly(mir)
      BY <1>2, <2>4 DEF StartTeardown, FaultInv
    <3>2. Orderly(mir)'
      BY <3>1 DEF Orderly, Reads
    <3>3. Gutted(mir, at)'
      BY <3>1 DEF Gutted
    <3> QED
      BY <3>1, <3>2, <3>3 DEF FaultInv
  <2>5. CASE DestroyFront
    BY <1>2, <2>5, DestroyKeeps
  <2>6. CASE Gone \/ UNCHANGED vars
    <3>1. phase' = phase /\ at' = at /\ laid' = laid /\ mir' = mir /\ module' = module
      BY <2>6 DEF Gone, vars
    <3>2. /\ (GrowsNothing' <=> GrowsNothing) /\ (HalfNamed' <=> HalfNamed) /\ (Reads' <=> Reads)
      BY <3>1 DEF GrowsNothing, HalfNamed, Reads
    <3>3. /\ Orderly(mir)' <=> Orderly(mir)
          /\ Pending(mir, at, laid)' <=> Pending(mir, at, laid)
          /\ Gutted(mir, at)' <=> Gutted(mir, at)
      BY <3>1, <3>2 DEF Orderly, Pending, Gutted
    <3> QED
      BY <1>2, <3>1, <3>2, <3>3 DEF FaultInv
  <2> QED
    BY <1>2, <2>1, <2>2, <2>3, <2>4, <2>5, <2>6 DEF Next
<1> QED
  BY <1>1, <1>2, LayoutInvHolds, VerdictInvHolds, PTL DEF Spec

(* What is orderly has its use lists exact.                                    *)
LEMMA SaneExact ==
  ASSUME Sane(mir)
  PROVE  UsesExact
<1> DEFINE N == DOMAIN mir.uses
<1>1. /\ DOMAIN mir.refs = N
      /\ \A n \in N : mir.uses[n] \in Seq(N)
      /\ \A u \in N : mir.refs[u] \in Seq(N \cup {Nil})
      /\ \A n, u \in N : Times(mir.uses[n], u) = Times(mir.refs[u], n)
  <2>1. Listed(mir, N, mir.refs) /\ DOMAIN mir.refs = N
    BY SaneFields DEF Linked
  <2> HIDE DEF N
  <2>2. mir.uses \in [N -> Seq(N)] /\ mir.refs \in [N -> Seq(N \cup {Nil})]
    BY <2>1 DEF Listed
  <2>3. \A n, u \in N : Times(mir.uses[n], u) = Times(mir.refs[u], n)
    BY <2>1 DEF Listed
  <2> QED
    BY <2>1, <2>2, <2>3
<1> HIDE DEF N
<1>2. \A X : \A s \in Seq(X) : ToSet(s) \subseteq X
  BY DEF ToSet
<1>3. ASSUME NEW n \in N
      PROVE  ToSet(mir.uses[n]) \cup ToSet(mir.refs[n]) \subseteq N \cup {Nil}
  <2>1. ToSet(mir.uses[n]) \subseteq N
    BY <1>1, <1>2
  <2>2. ToSet(mir.refs[n]) \subseteq N \cup {Nil}
    BY <1>1, <1>2
  <2> QED
    BY <2>1, <2>2
<1> QED
  BY <1>1, <1>3 DEF UsesExact, N

(* Whatever module is compiled: nothing fails from validate to the end of the  *)
(* destructor, but in the three cases that NeverAborts names.                  *)
THEOREM NeverAbortsAlways ==
  Spec => []NeverAborts
<1>1. ASSUME FaultInv  PROVE NeverAborts
  <2>1. EmptyModule.fault = FALSE
    BY DEF EmptyModule
  <2>2. Orderly(mir) => ~mir.fault
    BY SaneFields DEF Orderly
  <2>3. phase = "teardown" /\ Reads => InitializerReads
    BY DEF Reads, InitializerReads
  <2> QED
    BY <1>1, <2>1, <2>2, <2>3 DEF FaultInv, NeverAborts
<1> QED
  BY <1>1, FaultInvHolds, PTL

(* Whatever module is compiled: between two steps the use lists of all its     *)
(* nodes are those of the references there are.                                *)
THEOREM UsesAlwaysExact ==
  Spec => []UsesExact
<1>1. ASSUME FaultInv  PROVE UsesExact
  <2>1. mir.fault \/ Sane(mir)
    BY <1>1, EmptyIsSane DEF FaultInv, Orderly
  <2>2. CASE mir.fault
    BY <2>2 DEF UsesExact
  <2>3. CASE Sane(mir)
    BY <2>3, SaneExact
  <2> QED
    BY <2>1, <2>2, <2>3
<1> QED
  BY <1>1, FaultInvHolds, PTL

=============================================================================
