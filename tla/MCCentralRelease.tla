-------------------------- MODULE MCCentralRelease --------------------------
(* Values of the constants of CentralRelease for TLC. *)
EXTENDS CentralRelease, TLC

v100 == [ma |-> 1, mi |-> 0, pa |-> 0]

ref(c, n, p, f) == [current |-> c, next |-> n, previous |-> p, floor |-> f]

OneVintage == {1}
OneProjection == <<"a">>
OnlyRef == ref(1, 0, 0, 1)

\* Current is vintage 2; 1 is older, 3 is newer and 4 relabels 3.
FourVintages == 1 .. 4
ThreeProjections == <<"a", "b", "c", "c">>
Middle == ref(2, 0, 0, 2)
ByHand == {ref(2, 0, 1, 2),   \* a forged grace set
           ref(3, 0, 0, 3),   \* current replaced in place
           ref(2, 3, 0, 3),   \* a floor on next
           ref(2, 0, 3, 2)}   \* a previous that is newer: not a usable file
NoRefs == {}

EveryStep == Active
ButMove == Active \ {"move"}   \* never between the two pushes
OnlyMove == {"move"}
=============================================================================
