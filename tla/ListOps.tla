------------------------------ MODULE ListOps ------------------------------
(***************************************************************************)
(* Lists, and what a loop passes on of one.                                *)
(***************************************************************************)
EXTENDS Naturals, SequencesExt

IsList(s) == s \in Seq(ToSet(s))

\* The elements of a list that a loop over it passes on: those at the places
\* in P, in order.
PlacesUpTo(n, P) ==
    LET upTo[k \in 0..n] ==
            IF k = 0 THEN <<>> ELSE IF k \in P THEN Append(upTo[k - 1], k) ELSE upTo[k - 1]
    IN  upTo
Places(n, P) == PlacesUpTo(n, P)[n]
Where(s, P) == LET places == Places(Len(s), P) IN [j \in DOMAIN places |-> s[places[j]]]
=============================================================================
