------------------------------- MODULE Semver -------------------------------
(***************************************************************************)
(* Versions vMAJOR.MINOR.PATCH, as every release path of the repository    *)
(* orders and increments them.                                             *)
(***************************************************************************)
EXTENDS Integers

Version == [ma : Nat, mi : Nat, pa : Nat]

\* The order of `sort -V`.
Newer(v, w) == \/ v.ma > w.ma
               \/ v.ma = w.ma /\ v.mi > w.mi
               \/ v.ma = w.ma /\ v.mi = w.mi /\ v.pa > w.pa

NextVersion(base, bump) ==
  CASE bump = "major" -> [ma |-> base.ma + 1, mi |-> 0, pa |-> 0]
    [] bump = "minor" -> [ma |-> base.ma, mi |-> base.mi + 1, pa |-> 0]
    [] OTHER          -> [ma |-> base.ma, mi |-> base.mi, pa |-> base.pa + 1]

\* Two versions with the same boundary promise the same API: the major, and
\* below 1.0 the minor as well.
Boundary(v) == IF v.ma = 0 THEN <<0, v.mi>> ELSE <<v.ma, 0>>
=============================================================================
