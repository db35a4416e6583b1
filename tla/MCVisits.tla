------------------------------ MODULE MCVisits ------------------------------
EXTENDS Visits, TLC

CONSTANTS v1, v2, v3, p1, p2

\* Three visitors; the path of the third is absurdly long.
MCVisit == {<<v1, p1>>, <<v2, p2>>, <<v3, OverflowPath>>}

\* The first two visitors are alike, each with the path it visits.
Swap == v1 :> v2 @@ v2 :> v1 @@ p1 :> p2 @@ p2 :> p1
Same == [x \in {v1, v2, p1, p2} |-> x]

MCSymmetry == {g @@ s : g \in Permutations(Goroutine), s \in {Swap, Same}}
=============================================================================
