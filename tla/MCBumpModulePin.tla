--------------------------- MODULE MCBumpModulePin ---------------------------
(* Values of the constants of BumpModulePin for TLC. *)
EXTENDS BumpModulePin, TLC

CONSTANTS auth, user

v(a, b, c) == [ma |-> a, mi |-> b, pa |-> c]

Pre1 == {v(0, 1, 1), v(0, 2, 0), v(1, 0, 0)}  \* a patch, a breaking minor of a 0.x module, the step to 1.0
From0 == {v(0, 1, 0)}
FromNone == {Nil}                             \* not yet required
Revert0 == {v(0, 1, 0)}

OwnBranches == [m \in Modules |-> {m}]
SharedBranches == [m \in Modules |-> Modules]   \* two module paths with the same last element
=============================================================================
