---------------------------- MODULE ContractStore ----------------------------
(***************************************************************************)
(* What the contract registry promises its readers: a published snapshot   *)
(* never changes and never disappears, and every publication of a service  *)
(* is newer than the ones before.  Nothing is said about who publishes.    *)
(***************************************************************************)
EXTENDS Semver

CONSTANTS Services, Docs

VARIABLE store  \* the published snapshots

Snapshot == [s : Services, v : Version, doc : Docs]

Init == /\ store \subseteq Snapshot
        /\ \A x, y \in store : x.s = y.s /\ x.v = y.v => x = y

Publish(x) == /\ x \in Snapshot
              /\ \A y \in store : y.s = x.s => Newer(x.v, y.v)
              /\ store' = store \cup {x}

Next == \E x \in store' : Publish(x)

Spec == Init /\ [][Next]_store
=============================================================================
