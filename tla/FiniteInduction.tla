--------------------------- MODULE FiniteInduction ---------------------------
(***************************************************************************)
(* Induction stated with sets, not with predicates: in a family of subsets *)
(* of a finite set there is a least one (LeastOf), because the strict       *)
(* subset ordering is well-founded; and so a set that has 0, and with every *)
(* number below n the next one, has all up to n (Climbs).  From it, facts  *)
(* about lists: how often an element occurs, which positions are picked.    *)
(***************************************************************************)
EXTENDS Lists, FiniteSetTheorems, SequenceTheorems, FunctionTheorems, TLAPS

LEMMA LeastOf ==
  ASSUME NEW N, IsFiniteSet(N), NEW F \in SUBSET SUBSET N, F # {}
  PROVE  \E s \in F : \A t \in F : t \subseteq s => t = s
<1>1. FiniteSubsetsOf(N) = SUBSET N
  BY FS_FiniteSubsetsOfFinite
<1>2. IsWellFoundedOn(StrictSubsetOrdering(N), SUBSET N)
  BY <1>1, FS_StrictSubsetOrderingWellFounded
<1>3. F \subseteq SUBSET N
  OBVIOUS
<1>4. \E s \in F : \A t \in F : ~ (<<t, s>> \in StrictSubsetOrdering(N))
  BY <1>2, <1>3, WFMin
<1> QED
  BY <1>4 DEF StrictSubsetOrdering

LEMMA Climbs ==
  ASSUME NEW n \in Nat, NEW S, 0 \in S, \A i \in 0 .. n : i \in S /\ i < n => i + 1 \in S
  PROVE  \A i \in 0 .. n : i \in S
<1> DEFINE F == {0 .. m : m \in (0 .. n) \ S}
<1> SUFFICES ASSUME NEW k \in (0 .. n) \ S  PROVE FALSE
  OBVIOUS
<1> DEFINE N == 0 .. n
<1>1. F \in SUBSET SUBSET N /\ F # {}
  OBVIOUS
<1>2. IsFiniteSet(N)
  BY FS_Interval
<1>3. \E s \in F : \A t \in F : t \subseteq s => t = s
  <2> HIDE DEF F, N
  <2> QED
    BY <1>1, <1>2, LeastOf
<1>4. PICK m \in (0 .. n) \ S : \A t \in F : t \subseteq 0 .. m => t = 0 .. m
  BY <1>3
<1>5. m - 1 \in (0 .. n) \ S
  OBVIOUS
<1>6. 0 .. m - 1 \in F
  BY <1>5
<1>7. 0 .. m - 1 \subseteq 0 .. m /\ m \in 0 .. m /\ m \notin 0 .. m - 1
  OBVIOUS
<1> QED
  BY <1>4, <1>6, <1>7

(* The least of some natural numbers, which the code finds by going up.       *)
LEMMA SmallestOf ==
  ASSUME NEW P \in SUBSET Nat, P # {}
  PROVE  \E j \in P : \A i \in P : j <= i
<1> SUFFICES ASSUME \A j \in P : \E i \in P : i < j  PROVE FALSE
  OBVIOUS
<1>1. PICK n \in P : TRUE
  OBVIOUS
<1> DEFINE S == {k \in 0 .. n : \A i \in P : k <= i}
<1>2. 0 \in S
  OBVIOUS
<1>3. \A k \in 0 .. n : k \in S /\ k < n => k + 1 \in S
  OBVIOUS
<1>4. n \in S
  <2>1. n \in Nat /\ n \in 0 .. n
    BY <1>1
  <2> HIDE DEF S
  <2>2. \A k \in 0 .. n : k \in S
    BY <1>2, <1>3, <2>1, Climbs
  <2> QED
    BY <2>1, <2>2
<1> QED
  BY <1>1, <1>4

-----------------------------------------------------------------------------
(* How often a list has an element (Times), when the list changes.            *)

LEMMA TimesCounted ==
  ASSUME NEW X, NEW s \in Seq(X), NEW x
  PROVE  /\ Times(s, x) \in Nat
         /\ IsFiniteSet(Where(s, x))
         /\ Times(s, x) = 0 <=> \A k \in 1 .. Len(s) : s[k] # x
         /\ Contains(s, x) <=> Times(s, x) # 0
<1> DEFINE P == Where(s, x)
<1>1. Len(s) \in Nat /\ DOMAIN s = 1 .. Len(s)
  BY LenProperties
<1>2. IsFiniteSet(1 .. Len(s))
  BY <1>1, FS_Interval
<1>3. IsFiniteSet(P)
  <2>1. P \in SUBSET (1 .. Len(s))
    BY <1>1 DEF Where
  <2> HIDE DEF P
  <2> QED
    BY <1>2, <2>1, FS_Subset
<1>4. Cardinality(P) \in Nat /\ (Cardinality(P) = 0 <=> P = {})
  <2> HIDE DEF P
  <2> QED
    BY <1>3, FS_CardinalityType, FS_EmptySet
<1>5. P = {} <=> \A k \in 1 .. Len(s) : s[k] # x
  BY <1>1 DEF Where
<1>6. Contains(s, x) <=> P # {}
  BY <1>1 DEF Contains, Where
<1> QED
  BY <1>3, <1>4, <1>5, <1>6 DEF Times

(* t is s without its p-th node.                                              *)
Drops(s, t, p) ==
  /\ p \in 1 .. Len(s) /\ Len(t) = Len(s) - 1
  /\ \A k \in 1 .. Len(t) : t[k] = IF k < p THEN s[k] ELSE s[k + 1]
LEMMA TimesDropped ==
  ASSUME NEW X, NEW s \in Seq(X), NEW t \in Seq(X), NEW p, Drops(s, t, p), NEW x
  PROVE  Times(s, x) = IF s[p] = x THEN Times(t, x) + 1 ELSE Times(t, x)
<1> DEFINE P == Where(s, x)
           Q == Where(t, x)
           f == [k \in Q |-> IF k < p THEN k ELSE k + 1]
<1>1. /\ Len(s) \in Nat /\ DOMAIN s = 1 .. Len(s)
      /\ Len(t) \in Nat /\ DOMAIN t = 1 .. Len(t)
      /\ p \in 1 .. Len(s) /\ Len(t) = Len(s) - 1
      /\ \A k \in 1 .. Len(t) : t[k] = IF k < p THEN s[k] ELSE s[k + 1]
  BY LenProperties DEF Drops
<1>2. IsFiniteSet(P) /\ IsFiniteSet(Q)
  BY TimesCounted
<1>3. \A k \in Q : f[k] \in P \ {p}
  BY <1>1 DEF Where
<1>4. \A k, l \in Q : f[k] = f[l] => k = l
  BY <1>1 DEF Where
<1>5. \A m \in P \ {p} : \E k \in Q : f[k] = m
  <2> SUFFICES ASSUME NEW m \in P \ {p}  PROVE \E k \in Q : f[k] = m
    OBVIOUS
  <2>1. CASE m < p
    <3>1. m \in Q /\ f[m] = m
      BY <1>1, <2>1 DEF Where
    <3> QED
      BY <3>1
  <2>2. CASE ~(m < p)
    <3>1. m - 1 \in Q /\ f[m - 1] = m
      BY <1>1, <2>2 DEF Where
    <3> QED
      BY <3>1
  <2> QED
    BY <2>1, <2>2
<1>6. ExistsBijection(Q, P \ {p})
  <2>1. f \in [Q -> P \ {p}]
    BY <1>3
  <2> HIDE DEF f, P, Q
  <2>2. f \in Bijection(Q, P \ {p})
    BY <1>4, <1>5, <2>1, Fun_IsBij
  <2> QED
    BY <2>2 DEF ExistsBijection
<1>7. p \in P <=> s[p] = x
  BY <1>1 DEF Where
<1>8. Cardinality(P \ {p}) = Cardinality(Q)
  <2> HIDE DEF P, Q
  <2> QED
    BY <1>2, <1>6, FS_Bijection
<1>9. Cardinality(P \ {p}) = IF p \in P THEN Cardinality(P) - 1 ELSE Cardinality(P)
  <2> HIDE DEF P
  <2> QED
    BY <1>2, FS_RemoveElement
<1>10. Cardinality(P) \in Nat /\ Cardinality(Q) \in Nat
  <2> HIDE DEF P, Q
  <2> QED
    BY <1>2, FS_CardinalityType
<1>11. Times(s, x) = Cardinality(P) /\ Times(t, x) = Cardinality(Q)
  BY DEF Times
<1> HIDE DEF P, Q
<1> QED
  BY <1>7, <1>8, <1>9, <1>10, <1>11

LEMMA TimesFront ==
  ASSUME NEW X, NEW s \in Seq(X), NEW y \in X, NEW x
  PROVE  /\ <<y>> \o s \in Seq(X)
         /\ Times(<<y>> \o s, x) = IF x = y THEN Times(s, x) + 1 ELSE Times(s, x)
<1> DEFINE t == <<y>> \o s
<1>1. <<y>> \in Seq(X) /\ Len(<<y>>) = 1 /\ <<y>>[1] = y
  OBVIOUS
<1>2. Len(s) \in Nat
  BY LenProperties
<1>3. /\ t \in Seq(X) /\ Len(t) = 1 + Len(s)
      /\ \A i \in 1 .. 1 + Len(s) : t[i] = IF i <= 1 THEN <<y>>[i] ELSE s[i - 1]
  BY <1>1, ConcatProperties
<1> HIDE DEF t
<1>4. t[1] = y /\ 1 \in 1 .. Len(t)
  BY <1>1, <1>2, <1>3
<1>5. \A k \in 1 .. Len(s) : s[k] = IF k < 1 THEN t[k] ELSE t[k + 1]
  BY <1>2, <1>3
<1>6. Drops(t, s, 1)
  BY <1>2, <1>3, <1>4, <1>5 DEF Drops
<1>7. Times(t, x) = IF t[1] = x THEN Times(s, x) + 1 ELSE Times(s, x)
  BY <1>3, <1>6, TimesDropped
<1> QED
  BY <1>3, <1>4, <1>7 DEF t

LEMMA RemovedAt ==
  ASSUME NEW X, NEW s \in Seq(X), NEW y, Contains(s, y)
  PROVE  /\ RemoveFirst(s, y) \in Seq(X)
         /\ Len(RemoveFirst(s, y)) = Len(s) - 1
         /\ \E p : s[p] = y /\ Drops(s, RemoveFirst(s, y), p)
<1> DEFINE P == {i \in 1 .. Len(s) : s[i] = y}
           p == Min(P)
           t == RemoveAt(s, p)
<1>1. Len(s) \in Nat /\ \A k \in 1 .. Len(s) : s[k] \in X
  BY LenProperties, ElementOfSeq
<1>2. P # {} /\ P \in SUBSET Nat
  BY <1>1 DEF Contains
<1>3. p \in 1 .. Len(s) /\ s[p] = y
  <2>1. \E j \in P : \A i \in P : j <= i
    <3> HIDE DEF P
    <3> QED
      BY <1>2, SmallestOf
  <2>2. p \in P
    <3> HIDE DEF P
    <3> QED
      BY <2>1 DEF Min
  <2> QED
    BY <2>2
<1>4. RemoveFirst(s, y) = t
  <2>1. \E i \in 1 .. Len(s) : s[i] = y
    BY DEF Contains
  <2>2. SelectInSeq(s, LAMBDA v : v = y) = p
    BY <1>2 DEF SelectInSeq
  <2> HIDE DEF p
  <2> QED
    BY <2>1, <2>2 DEF RemoveFirst
<1> HIDE DEF p, P
<1>5. /\ t \in Seq(X) /\ Len(t) = Len(s) - 1
      /\ \A k \in 1 .. Len(t) : t[k] = IF k < p THEN s[k] ELSE s[k + 1]
  <2> DEFINE a == SubSeq(s, 1, p - 1)
             b == SubSeq(s, p + 1, Len(s))
  <2>1. /\ a \in Seq(X) /\ Len(a) = p - 1
        /\ \A k \in 1 .. p - 1 : a[k] = s[k]
    <3>1. \A k \in 1 .. p - 1 : s[k] \in X
      BY <1>1, <1>3
    <3>2. 1 \in Int /\ p - 1 \in Int
      BY <1>3
    <3>3. /\ a \in Seq(X) /\ Len(a) = IF 1 <= p - 1 THEN (p - 1) - 1 + 1 ELSE 0
          /\ \A k \in 1 .. (p - 1) - 1 + 1 : a[k] = s[1 + k - 1]
      BY <3>1, <3>2, SubSeqProperties
    <3> HIDE DEF a
    <3> QED
      BY <1>3, <3>3
  <2>2. /\ b \in Seq(X) /\ Len(b) = Len(s) - p
        /\ \A k \in 1 .. Len(s) - p : b[k] = s[p + k]
    <3>1. \A k \in p + 1 .. Len(s) : s[k] \in X
      BY <1>1, <1>3
    <3>2. Len(s) \in Int /\ p + 1 \in Int
      BY <1>1, <1>3
    <3>3. /\ b \in Seq(X) /\ Len(b) = IF p + 1 <= Len(s) THEN Len(s) - (p + 1) + 1 ELSE 0
          /\ \A k \in 1 .. Len(s) - (p + 1) + 1 : b[k] = s[(p + 1) + k - 1]
      BY <3>1, <3>2, SubSeqProperties
    <3> HIDE DEF b
    <3>4. \A k \in 1 .. Len(s) - p : b[k] = s[p + k]
      <4> SUFFICES ASSUME NEW k \in 1 .. Len(s) - p  PROVE b[k] = s[p + k]
        OBVIOUS
      <4>1. k \in 1 .. Len(s) - (p + 1) + 1 /\ (p + 1) + k - 1 = p + k
        BY <1>1, <1>3
      <4> QED
        BY <3>3, <4>1
    <3> QED
      BY <1>1, <1>3, <3>3, <3>4
  <2>3. t = a \o b
    BY DEF RemoveAt
  <2> HIDE DEF a, b, t
  <2>4. /\ t \in Seq(X) /\ Len(t) = Len(a) + Len(b)
        /\ \A i \in 1 .. Len(a) + Len(b) : t[i] = IF i <= Len(a) THEN a[i] ELSE b[i - Len(a)]
    BY <2>1, <2>2, <2>3, ConcatProperties
  <2>5. Len(t) = Len(s) - 1
    BY <1>1, <1>3, <2>1, <2>2, <2>4
  <2>6. ASSUME NEW k \in 1 .. Len(t)  PROVE t[k] = IF k < p THEN s[k] ELSE s[k + 1]
    <3>1. k \in 1 .. Len(a) + Len(b) /\ Len(a) = p - 1
      BY <2>1, <2>4
    <3>2. CASE k < p
      BY <1>3, <2>1, <2>4, <3>1, <3>2
    <3>3. CASE ~(k < p)
      <4>1. k - (p - 1) \in 1 .. Len(s) - p /\ p + (k - (p - 1)) = k + 1
        BY <1>1, <1>3, <2>5, <3>3
      <4>2. t[k] = b[k - (p - 1)]
        BY <1>3, <2>4, <3>1, <3>3
      <4>3. b[k - (p - 1)] = s[p + (k - (p - 1))]
        BY <2>2, <4>1
      <4> QED
        BY <3>3, <4>1, <4>2, <4>3
    <3> QED
      BY <3>2, <3>3
  <2> QED
    BY <2>4, <2>5, <2>6
<1> HIDE DEF t
<1>6. Drops(s, t, p)
  BY <1>3, <1>5 DEF Drops
<1> QED
  BY <1>3, <1>4, <1>5, <1>6

LEMMA TimesRemoved ==
  ASSUME NEW X, NEW s \in Seq(X), NEW y, Contains(s, y)
  PROVE  /\ RemoveFirst(s, y) \in Seq(X)
         /\ Len(RemoveFirst(s, y)) = Len(s) - 1
         /\ \A x : Times(s, x) = IF x = y THEN Times(RemoveFirst(s, y), x) + 1
                                ELSE Times(RemoveFirst(s, y), x)
<1> DEFINE t == RemoveFirst(s, y)
<1>1. t \in Seq(X) /\ Len(t) = Len(s) - 1 /\ \E p : s[p] = y /\ Drops(s, t, p)
  BY RemovedAt
<1> HIDE DEF t
<1>2. PICK p : s[p] = y /\ Drops(s, t, p)
  BY <1>1
<1>3. \A x : Times(s, x) = IF s[p] = x THEN Times(t, x) + 1 ELSE Times(t, x)
  BY <1>1, <1>2, TimesDropped
<1>4. \A x : Times(s, x) = IF x = y THEN Times(t, x) + 1 ELSE Times(t, x)
  BY <1>2, <1>3
<1> QED
  BY <1>1, <1>4 DEF t

(* A finite set as a list.                                                 *)
LEMMA Listing ==
  ASSUME NEW S, IsFiniteSet(S)
  PROVE  SetToSeq(S) \in Seq(S) /\ ToSet(SetToSeq(S)) = S
<1> DEFINE n == Cardinality(S)
<1>1. n \in Nat /\ ExistsBijection(1 .. n, S)
  BY FS_CardinalityType
<1>2. PICK f : f \in Bijection(1 .. n, S)
  BY <1>1 DEF ExistsBijection
<1>3. f \in [1 .. n -> S] /\ IsInjective(f)
  BY <1>2 DEF Bijection, Injection, Surjection, IsInjective
<1> HIDE DEF n
<1> DEFINE g == CHOOSE g \in [1 .. n -> S] : IsInjective(g)
<1>4. g \in [1 .. n -> S] /\ IsInjective(g)
  BY <1>3
<1> HIDE DEF g
<1>5. SetToSeq(S) = g
  BY DEF SetToSeq, g, n
<1>6. g \in Seq(S)
  BY <1>1, <1>4, SeqDef
<1>7. g \in Surjection(1 .. n, S)
  <2> DEFINE A == 1 .. n
  <2>1. g \in Injection(A, S)
    BY <1>4 DEF Injection, IsInjective
  <2>2. Cardinality(A) = Cardinality(S)
    <3>1. 1 \in Int /\ n \in Int /\ IF 1 > n THEN n = 0 ELSE n - 1 + 1 = n
      BY <1>1
    <3>2. Cardinality(1 .. n) = IF 1 > n THEN 0 ELSE n - 1 + 1
      BY <3>1, FS_Interval
    <3> QED
      BY <3>1, <3>2 DEF n
  <2> HIDE DEF A
  <2>3. g \in Surjection(A, S)
    BY <2>1, <2>2, FS_Injection
  <2> QED
    BY <2>3 DEF A
<1>8. \A x \in S : \E k \in 1 .. n : g[k] = x
  BY <1>7 DEF Surjection
<1>9. ToSet(g) = S
  BY <1>4, <1>8 DEF ToSet
<1> QED
  BY <1>5, <1>6, <1>9

(* s with its p-th node changed to z.                                         *)
Put(s, p, z) == [s EXCEPT ![p] = z]

LEMMA TimesChanged ==
  ASSUME NEW X, NEW s \in Seq(X), NEW p \in 1 .. Len(s), NEW z \in X, NEW x
  PROVE  /\ Put(s, p, z) \in Seq(X) /\ Len(Put(s, p, z)) = Len(s)
         /\ \A k \in 1 .. Len(s) : Put(s, p, z)[k] = IF k = p THEN z ELSE s[k]
         /\ x # z => Times(s, x) = IF s[p] = x THEN Times(Put(s, p, z), x) + 1 ELSE Times(Put(s, p, z), x)
<1> DEFINE t == Put(s, p, z)
           P == Where(s, x)
           Q == Where(t, x)
<1>1. Len(s) \in Nat /\ DOMAIN s = 1 .. Len(s)
  BY LenProperties
<1>2. t \in Seq(X) /\ Len(t) = Len(s) /\ \A k \in 1 .. Len(s) : t[k] = IF k = p THEN z ELSE s[k]
  BY ExceptSeq DEF Put
<1>3. DOMAIN t = 1 .. Len(s)
  BY <1>2, LenProperties
<1>4. IsFiniteSet(P) /\ Times(s, x) = Cardinality(P) /\ Times(t, x) = Cardinality(Q)
  BY TimesCounted DEF Times
<1>5. ASSUME x # z  PROVE Q = P \ {p}
  <2> HIDE DEF t
  <2> QED
    BY <1>1, <1>2, <1>3, <1>5 DEF Where
<1>6. p \in P <=> s[p] = x
  BY <1>1 DEF Where
<1> HIDE DEF P, Q, t
<1>7. Cardinality(P \ {p}) = IF p \in P THEN Cardinality(P) - 1 ELSE Cardinality(P)
  BY <1>4, FS_RemoveElement
<1>8. Cardinality(P) \in Nat
  BY <1>4, FS_CardinalityType
<1>9. x # z => Times(s, x) = IF s[p] = x THEN Times(t, x) + 1 ELSE Times(t, x)
  <2> SUFFICES ASSUME x # z  PROVE Times(s, x) = IF s[p] = x THEN Times(t, x) + 1 ELSE Times(t, x)
    OBVIOUS
  <2>1. Cardinality(Q) = Cardinality(P \ {p})
    BY <1>5
  <2>2. Cardinality(P) = IF s[p] = x THEN Cardinality(Q) + 1 ELSE Cardinality(Q)
    BY <1>6, <1>7, <1>8, <2>1
  <2> QED
    BY <1>4, <2>2
<1> QED
  BY <1>2, <1>9 DEF t

LEMMA TimesAppended ==
  ASSUME NEW X, NEW s \in Seq(X), NEW y \in X, NEW x
  PROVE  /\ Append(s, y) \in Seq(X)
         /\ Times(Append(s, y), x) = IF x = y THEN Times(s, x) + 1 ELSE Times(s, x)
<1> DEFINE t == Append(s, y)
           n == Len(s)
<1>1. /\ t \in Seq(X) /\ Len(t) = n + 1 /\ n \in Nat /\ t[n + 1] = y
      /\ \A i \in 1 .. n : t[i] = s[i]
  BY AppendProperties, LenProperties
<1> HIDE DEF t, n
<1>2. Drops(t, s, n + 1)
  <2>1. n + 1 \in 1 .. Len(t) /\ n = Len(t) - 1
    BY <1>1
  <2>2. \A k \in 1 .. n : s[k] = IF k < n + 1 THEN t[k] ELSE t[k + 1]
    BY <1>1
  <2> QED
    BY <2>1, <2>2 DEF Drops, n
<1>3. Times(t, x) = IF t[n + 1] = x THEN Times(s, x) + 1 ELSE Times(s, x)
  BY <1>1, <1>2, TimesDropped
<1> QED
  BY <1>1, <1>3 DEF t

(* The first j elements of a list, the others null.                           *)
Beginning(s, j, nil) == [k \in 1 .. Len(s) |-> IF k <= j THEN s[k] ELSE nil]

LEMMA BeginningStep ==
  ASSUME NEW X, NEW nil \in X, NEW s \in Seq(X)
  PROVE  /\ \A j \in 0 .. Len(s) : Beginning(s, j, nil) \in Seq(X)
         /\ Beginning(s, Len(s), nil) = s
         /\ \A m : m # nil => Times(Beginning(s, 0, nil), m) = 0
         /\ \A j \in 0 .. Len(s) : j < Len(s) => \A m : m # nil =>
              Times(Beginning(s, j + 1, nil), m)
                = IF m = s[j + 1] THEN Times(Beginning(s, j, nil), m) + 1 ELSE Times(Beginning(s, j, nil), m)
<1> DEFINE n == Len(s)
<1>1. n \in Nat /\ DOMAIN s = 1 .. n /\ s = [k \in 1 .. n |-> s[k]] /\ \A k \in 1 .. n : s[k] \in X
  BY LenProperties, ElementOfSeq
<1>2. ASSUME NEW j \in 0 .. n  PROVE Beginning(s, j, nil) \in Seq(X) /\ Len(Beginning(s, j, nil)) = n
  <2>1. Beginning(s, j, nil) \in [1 .. n -> X]
    <3> HIDE DEF n
    <3>1. \A k \in 1 .. n : (IF k <= j THEN s[k] ELSE nil) \in X
      BY <1>1
    <3>2. Beginning(s, j, nil) = [k \in 1 .. n |-> IF k <= j THEN s[k] ELSE nil]
      BY DEF Beginning, n
    <3> QED
      BY <3>1, <3>2
  <2> HIDE DEF n
  <2>2. DOMAIN Beginning(s, j, nil) = 1 .. n
    BY <2>1
  <2>3. Beginning(s, j, nil) \in Seq(X)
    BY <1>1, <2>1, SeqDef
  <2> QED
    BY <1>1, <2>2, <2>3, LenProperties
<1>3. Beginning(s, n, nil) = s
  <2>1. \A k \in 1 .. n : (IF k <= n THEN s[k] ELSE nil) = s[k]
    BY <1>1
  <2> QED
    BY <1>1, <2>1 DEF Beginning
<1>4. ASSUME NEW m, m # nil  PROVE Times(Beginning(s, 0, nil), m) = 0
  <2> DEFINE t == Beginning(s, 0, nil)
  <2>1. t \in Seq(X) /\ Len(t) = n
    BY <1>1, <1>2
  <2>2. \A k \in 1 .. n : t[k] # m
    BY <1>4 DEF Beginning
  <2> HIDE DEF t, n
  <2>3. Times(t, m) = 0
    BY <2>1, <2>2, TimesCounted
  <2> QED
    BY <2>3 DEF t
<1>5. ASSUME NEW j \in 0 .. n, j < n, NEW m, m # nil
      PROVE  Times(Beginning(s, j + 1, nil), m)
                = IF m = s[j + 1] THEN Times(Beginning(s, j, nil), m) + 1 ELSE Times(Beginning(s, j, nil), m)
  <2> DEFINE t == Beginning(s, j + 1, nil)
             p == j + 1
  <2>1. p \in 1 .. n /\ p \in 0 .. n
    BY <1>1, <1>5
  <2>2. t \in Seq(X) /\ Len(t) = n
    BY <1>2, <2>1
  <2>3. t[p] = s[p]
    BY <2>1 DEF Beginning
  <2>4. Put(t, p, nil) = Beginning(s, j, nil)
    <3>1. t = [k \in 1 .. n |-> IF k <= p THEN s[k] ELSE nil]
      BY DEF Beginning
    <3> HIDE DEF t
    <3>2. Put(t, p, nil) = [k \in 1 .. n |-> IF k = p THEN nil ELSE IF k <= p THEN s[k] ELSE nil]
      BY <2>1, <3>1 DEF Put
    <3>3. \A k \in 1 .. n : k <= j <=> k <= p /\ k # p
      BY <1>1
    <3>4. \A k \in 1 .. n : (IF k = p THEN nil ELSE IF k <= p THEN s[k] ELSE nil) = IF k <= j THEN s[k] ELSE nil
      BY <3>3
    <3> QED
      BY <3>2, <3>4 DEF Beginning
  <2> HIDE DEF t, p, n
  <2>5. Times(t, m) = IF t[p] = m THEN Times(Put(t, p, nil), m) + 1 ELSE Times(Put(t, p, nil), m)
    BY <1>5, <2>1, <2>2, TimesChanged
  <2> QED
    BY <2>3, <2>4, <2>5 DEF t, p
<1> QED
  BY <1>2, <1>3, <1>4, <1>5

LEMMA BeginningLess ==
  ASSUME NEW X, NEW nil \in X, NEW s \in Seq(X), NEW j \in 0 .. Len(s), NEW m, m # nil
  PROVE  /\ Times(Beginning(s, j, nil), m) \in Nat /\ Times(s, m) \in Nat
         /\ Times(Beginning(s, j, nil), m) <= Times(s, m)
<1> DEFINE t == Beginning(s, j, nil)
           P == Where(t, m)
           Q == Where(s, m)
<1>1. t \in Seq(X)
  BY BeginningStep
<1>2. IsFiniteSet(P) /\ IsFiniteSet(Q) /\ Times(t, m) \in Nat /\ Times(s, m) \in Nat
  <2> HIDE DEF t
  <2> QED
    BY <1>1, TimesCounted
<1>3. P \subseteq Q
  BY LenProperties DEF Beginning, Where
<1>4. Cardinality(P) <= Cardinality(Q)
  <2> HIDE DEF P, Q
  <2> QED
    BY <1>2, <1>3, FS_Subset
<1> QED
  BY <1>2, <1>4 DEF Times

LEMMA TimesPut ==
  ASSUME NEW X, NEW s \in Seq(X), NEW p \in 1 .. Len(s), NEW z \in X, NEW x
  PROVE  /\ Times(Put(s, p, z), x) \in Nat /\ Times(s, x) \in Nat
         /\ Times(Put(s, p, z), x) + (IF s[p] = x THEN 1 ELSE 0) = Times(s, x) + (IF z = x THEN 1 ELSE 0)
<1> DEFINE t == Put(s, p, z)
<1>1. /\ t \in Seq(X) /\ Len(t) = Len(s)
      /\ \A k \in 1 .. Len(s) : t[k] = IF k = p THEN z ELSE s[k]
      /\ x # z => Times(s, x) = IF s[p] = x THEN Times(t, x) + 1 ELSE Times(t, x)
  BY TimesChanged
<1>2. s[p] \in X /\ t[p] = z
  BY <1>1, ElementOfSeq
<1>3. Put(t, p, s[p]) = s
  <2>1. DOMAIN t = 1 .. Len(s) /\ s = [k \in 1 .. Len(s) |-> s[k]]
    BY <1>1, LenProperties
  <2> HIDE DEF t
  <2>2. Put(t, p, s[p]) = [k \in 1 .. Len(s) |-> IF k = p THEN s[p] ELSE t[k]]
    BY <2>1 DEF Put
  <2>3. \A k \in 1 .. Len(s) : (IF k = p THEN s[p] ELSE t[k]) = s[k]
    BY <1>1
  <2> QED
    BY <2>1, <2>2, <2>3
<1>4. x # s[p] => Times(t, x) = IF t[p] = x THEN Times(s, x) + 1 ELSE Times(s, x)
  <2> HIDE DEF t
  <2>1. p \in 1 .. Len(t)
    BY <1>1
  <2> QED
    BY <1>1, <1>2, <1>3, <2>1, TimesChanged
<1>5. Times(t, x) \in Nat /\ Times(s, x) \in Nat
  <2> HIDE DEF t
  <2> QED
    BY <1>1, TimesCounted
<1>6. x = z /\ x = s[p] => t = s
  <2> SUFFICES ASSUME x = z, x = s[p]  PROVE t = s
    OBVIOUS
  <2>1. s = [k \in 1 .. Len(s) |-> s[k]]
    BY LenProperties
  <2> QED
    BY <2>1 DEF Put
<1> HIDE DEF t
<1>7. Times(t, x) + (IF s[p] = x THEN 1 ELSE 0) = Times(s, x) + (IF z = x THEN 1 ELSE 0)
  BY <1>1, <1>2, <1>4, <1>5, <1>6
<1> QED
  BY <1>5, <1>7 DEF t

LEMMA TimesConcat ==
  ASSUME NEW X, NEW s \in Seq(X), NEW t \in Seq(X), NEW x
  PROVE  s \o t \in Seq(X) /\ Times(s \o t, x) = Times(s, x) + Times(t, x)
<1> DEFINE c == s \o t
           m == Len(s)
           n == Len(t)
           P == Where(s, x)
           Q == Where(t, x)
           R == {m + k : k \in Q}
           f == [k \in Q |-> m + k]
<1>1. c \in Seq(X) /\ Len(c) = m + n
      /\ \A i \in 1 .. m + n : c[i] = IF i <= m THEN s[i] ELSE t[i - m]
  BY ConcatProperties
<1>2. /\ m \in Nat /\ DOMAIN s = 1 .. m /\ n \in Nat /\ DOMAIN t = 1 .. n /\ DOMAIN c = 1 .. m + n
  BY <1>1, LenProperties
<1> HIDE DEF c, m, n
<1>3. IsFiniteSet(P) /\ IsFiniteSet(Q) /\ P \subseteq 1 .. m /\ Q \subseteq 1 .. n
  <2>1. P \subseteq 1 .. m /\ Q \subseteq 1 .. n
    BY <1>2 DEF Where
  <2>2. IsFiniteSet(P) /\ IsFiniteSet(Q)
    BY TimesCounted
  <2> QED
    BY <2>1, <2>2
<1>4. Where(c, x) = P \cup R
  <2>1. ASSUME NEW i \in Where(c, x)  PROVE i \in P \cup R
    <3>1. i \in 1 .. m + n /\ c[i] = x
      BY <1>2 DEF Where
    <3>2. CASE i <= m
      BY <1>1, <1>2, <3>1, <3>2 DEF Where
    <3>3. CASE ~(i <= m)
      <4>1. i - m \in 1 .. n /\ m + (i - m) = i
        BY <1>2, <3>1, <3>3
      <4>2. i - m \in Q
        BY <1>1, <1>2, <3>1, <3>3, <4>1 DEF Where
      <4> QED
        BY <4>1, <4>2
    <3> QED
      BY <3>2, <3>3
  <2>2. ASSUME NEW i \in P  PROVE i \in Where(c, x)
    <3>1. i \in 1 .. m /\ s[i] = x
      BY <1>2 DEF Where
    <3>2. i \in 1 .. m + n /\ i <= m
      BY <1>2, <3>1
    <3> QED
      BY <1>1, <1>2, <3>1, <3>2 DEF Where
  <2>3. ASSUME NEW k \in Q  PROVE m + k \in Where(c, x)
    <3>1. k \in 1 .. n /\ t[k] = x
      BY <1>2 DEF Where
    <3>2. m + k \in 1 .. m + n /\ ~(m + k <= m) /\ (m + k) - m = k
      BY <1>2, <3>1
    <3> QED
      BY <1>1, <1>2, <3>1, <3>2 DEF Where
  <2> QED
    BY <2>1, <2>2, <2>3
<1>5. P \cap R = {}
  BY <1>2, <1>3
<1>6. ExistsBijection(Q, R)
  <2>1. f \in [Q -> R]
    OBVIOUS
  <2>2. \A k, l \in Q : f[k] = f[l] => k = l
    BY <1>2, <1>3
  <2>3. \A r \in R : \E k \in Q : f[k] = r
    OBVIOUS
  <2> HIDE DEF f, P, Q, R
  <2>4. f \in Bijection(Q, R)
    BY <2>1, <2>2, <2>3, Fun_IsBij
  <2> QED
    BY <2>4 DEF ExistsBijection
<1> HIDE DEF P, Q, R
<1>7. IsFiniteSet(R) /\ Cardinality(R) = Cardinality(Q)
  BY <1>3, <1>6, FS_Bijection
<1>8. Cardinality(P) \in Nat /\ Cardinality(Q) \in Nat
  BY <1>3, FS_CardinalityType
<1>9. Cardinality(P \cup R) = Cardinality(P) + Cardinality(R) - Cardinality({})
  BY <1>3, <1>5, <1>7, FS_Union
<1>10. Cardinality(P \cup R) = Cardinality(P) + Cardinality(Q)
  BY <1>7, <1>8, <1>9, FS_EmptySet
<1> QED
  BY <1>1, <1>4, <1>10 DEF Times, P, Q, c

(* An element put between the two halves of a list.                        *)
LEMMA TimesInserted ==
  ASSUME NEW X, NEW s \in Seq(X), NEW at \in 1 .. Len(s) + 1, NEW e \in X
  PROVE  /\ InsertAt(s, at, e) \in Seq(X)
         /\ \A x : Times(InsertAt(s, at, e), x) = IF x = e THEN Times(s, x) + 1 ELSE Times(s, x)
<1> DEFINE a == SubSeq(s, 1, at - 1)
           b == SubSeq(s, at, Len(s))
           one == <<e>>
<1>1. Len(s) \in Nat /\ at \in 1 .. Len(s) + 1
  BY LenProperties
<1>2. a \in Seq(X) /\ b \in Seq(X) /\ one \in Seq(X) /\ s = a \o b
  <2>1. 1 \in 1 .. Len(s) + 1 /\ at - 1 \in 0 .. Len(s) /\ Len(s) \in (at - 1) .. Len(s) /\ (at - 1) + 1 = at
    BY <1>1
  <2>2. SubSeq(s, 1, at - 1) \o SubSeq(s, (at - 1) + 1, Len(s)) = SubSeq(s, 1, Len(s))
    <3>1. at - 1 \in 1 - 1 .. Len(s)
      BY <2>1
    <3> QED
      BY <2>1, <3>1, ConcatAdjacentSubSeq
  <2>3. SubSeq(s, 1, Len(s)) = s
    BY SubSeqFull
  <2>4. a \in Seq(X) /\ b \in Seq(X)
    BY <1>1, SubSeqProperties
  <2>5. one \in Seq(X)
    OBVIOUS
  <2>6. a \o b = SubSeq(s, 1, at - 1) \o SubSeq(s, (at - 1) + 1, Len(s))
    BY <2>1
  <2> HIDE DEF a, b, one
  <2> QED
    BY <2>2, <2>3, <2>4, <2>5, <2>6
<1>3. \A x : Times(one, x) = IF x = e THEN 1 ELSE 0
  <2> TAKE x
  <2> DEFINE none == <<>>
  <2>1. /\ none \in Seq(X) /\ one \in Seq(X) /\ \A k \in 1 .. Len(none) : none[k] # x
        /\ Drops(one, none, 1) /\ one[1] = e
    BY DEF Drops
  <2> HIDE DEF none, one
  <2>2. Times(none, x) = 0
    BY <2>1, TimesCounted
  <2>3. Times(one, x) = IF one[1] = x THEN Times(none, x) + 1 ELSE Times(none, x)
    BY <2>1, TimesDropped
  <2> QED
    BY <2>1, <2>2, <2>3
<1>4. InsertAt(s, at, e) = (a \o one) \o b
  BY DEF InsertAt
<1> HIDE DEF a, b, one
<1>5. a \o one \in Seq(X) /\ \A x : Times(a \o one, x) = Times(a, x) + Times(one, x)
  BY <1>2, TimesConcat
<1> DEFINE ao == a \o one
<1> HIDE DEF ao
<1>6. ao \in Seq(X) /\ \A x : Times(ao, x) = Times(a, x) + Times(one, x)
  BY <1>5 DEF ao
<1>7. ao \o b \in Seq(X) /\ \A x : Times(ao \o b, x) = Times(ao, x) + Times(b, x)
  BY <1>2, <1>6, TimesConcat
<1>8. \A x : Times(s, x) = Times(a, x) + Times(b, x)
  BY <1>2, TimesConcat
<1>9. \A x : Times(a, x) \in Nat /\ Times(b, x) \in Nat
  BY <1>2, TimesCounted
<1>10. \A x : Times(ao \o b, x) = IF x = e THEN Times(s, x) + 1 ELSE Times(s, x)
  <2> TAKE x
  <2> DEFINE ta == Times(a, x)
             tb == Times(b, x)
  <2>1. Times(ao \o b, x) = (ta + Times(one, x)) + tb /\ Times(s, x) = ta + tb /\ ta \in Nat /\ tb \in Nat
    BY <1>6, <1>7, <1>8, <1>9
  <2> HIDE DEF ta, tb
  <2> QED
    BY <1>3, <2>1
<1> QED
  BY <1>4, <1>7, <1>10 DEF ao
=============================================================================
