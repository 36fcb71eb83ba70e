--------------------------- MODULE MCModuleRelease ---------------------------
(* Values of the constants of ModuleRelease for TLC. *)
EXTENDS ModuleRelease, TLC

v010 == [ma |-> 0, mi |-> 1, pa |-> 0]
v142 == [ma |-> 1, mi |-> 4, pa |-> 2]
v143 == [ma |-> 1, mi |-> 4, pa |-> 3]
v200 == [ma |-> 2, mi |-> 0, pa |-> 0]

NoVersion    == {}
OnlyV143     == {v143}
OnlyV143V200 == {v143, v200}

\* Every run may be re-run in full, except one that published and did not reach everybody.
AllButFanout == Stages \ {"bump_failed", "fanout"}
=============================================================================
