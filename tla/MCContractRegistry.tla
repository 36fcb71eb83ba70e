------------------------- MODULE MCContractRegistry -------------------------
(* Values of the constants of ContractRegistry for TLC. *)
EXTENDS ContractRegistry

v100 == [ma |-> 1, mi |-> 0, pa |-> 0]
v110 == [ma |-> 1, mi |-> 1, pa |-> 0]

\* A directory that has published, one with a VERSION and nothing published,
\* one without a VERSION, and one whose VERSION is malformed.
Live(doc) == [version |-> v100, latest |-> doc, snaps |-> {[v |-> v100, doc |-> doc]}]
Reserved  == [version |-> v110, latest |-> Nil, snaps |-> {}]
Bare      == [version |-> Nil, latest |-> Nil, snaps |-> {}]
Broken    == [version |-> Malformed, latest |-> Nil, snaps |-> {}]

AllDirs  == {Live(Ops), Reserved, Bare, Broken}
=============================================================================
