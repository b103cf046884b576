-------------------------------- MODULE Lists --------------------------------
(***************************************************************************)
(* How often a list has an element, and the part of a list at given        *)
(* positions: what the use lists and the walks over a block are about.     *)
(***************************************************************************)
EXTENDS Integers, SequencesExt

Where(s, x) == {k \in DOMAIN s : s[k] = x}
Times(s, x) == Cardinality(Where(s, x))

(* The elements of s at the positions P, in their order.                   *)
Picked(s, P) ==
    LET upTo[k \in 0 .. Len(s)] ==
            IF k = 0 THEN <<>>
            ELSE IF k \in P THEN Append(upTo[k - 1], s[k])
            ELSE upTo[k - 1]
    IN  upTo[Len(s)]

Smaller(m, n) == IF m <= n THEN m ELSE n

(* A map with an entry for n, and without one.                             *)
Entered(f, n, x) == [m \in DOMAIN f \cup {n} |-> IF m = n THEN x ELSE f[m]]
Forget(f, n) == [m \in DOMAIN f \ {n} |-> f[m]]
=============================================================================
