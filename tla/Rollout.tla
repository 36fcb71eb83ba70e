------------------------------- MODULE Rollout -------------------------------
(***************************************************************************)
(* What delivery promises the environment it deploys to: the registry      *)
(* holds one image per tag and keeps it; a service runs one image at a     *)
(* time, one the registry has, and only ever moves on to one whose commit  *)
(* and whose input are as new.  Nothing is said about who builds, who      *)
(* pushes, and how many of them try.                                       *)
(***************************************************************************)
EXTENDS Integers

CONSTANT Services

VARIABLES
  registry,  \* the published images
  dev        \* what each service runs: nothing yet, or one pin

Tag(i) == <<i.s, i.c, i.in>>

Init == registry = {} /\ dev = [s \in Services |-> {}]

Publish(i) ==
  /\ \A j \in registry : Tag(j) # Tag(i)
  /\ registry' = registry \cup {i}
  /\ UNCHANGED dev

Release(p) ==
  /\ \E i \in registry : Tag(i) = Tag(p)
  /\ \A q \in dev[p.s] : q.c <= p.c /\ q.in <= p.in
  /\ dev' = [dev EXCEPT ![p.s] = {p}]
  /\ UNCHANGED registry

Next ==
  \/ \E i \in registry' : Publish(i)
  \/ \E s \in Services : \E p \in dev'[s] : Release(p)

Spec == Init /\ [][Next]_<<registry, dev>>
=============================================================================
