---------------------------- MODULE BumpModulePin ----------------------------
(***************************************************************************)
(* How released modules reach the go.mod of one consumer                   *)
(* (bump-module-pin/action.yaml, run by the bump-consumers legs of         *)
(* module-release.yaml).                                                   *)
(*                                                                         *)
(* A leg checks the consumer out, compares its pin with the released       *)
(* version, tests the bumped tree, closes the bump PRs it supersedes,      *)
(* opens its own and arms auto-merge.  The releases of one module are      *)
(* serialised by the concurrency group of their repository, those of two   *)
(* modules are not, and PRs merge at any moment.  Two changes of the same  *)
(* require line conflict: a PR merges only onto the pin it started from.   *)
(***************************************************************************)
EXTENDS Integers, Semver

CONSTANTS
  Modules,      \* the released modules the consumer requires
  Claims,       \* Claims[m]: the modules whose bump branches start with chore/bump-SHORT(m)-v
  Releases,     \* the versions each module releases, in ascending order
  InitialPins,  \* what go.mod may require at the start; Nil is "not yet required"
  HandPins,     \* the pins a maintainer may write by hand
  Nil

ASSUME ClaimsAssumption == /\ Claims \in [Modules -> SUBSET Modules]
                           /\ \A m \in Modules : m \in Claims[m]
ASSUME VersionsAssumption == /\ Releases \cup HandPins \subseteq Version
                             /\ InitialPins \subseteq Version \cup {Nil}
                             /\ Nil \notin Version

VARIABLES
  pin,     \* the version go.mod on main requires, or Nil
  leg,     \* the running leg of each module, or Nil
  prs,     \* the open bump PRs
  result,  \* how the latest leg of each release ended
  mishaps  \* history: what happened that the leg does not allow for

vars == <<pin, leg, prs, result, mishaps>>

\* A leg re-run after a newer release, a PR that could not be closed, a pin
\* written by hand.
Mishap == {"late", "open", "edited"}

Pin == Version \cup {Nil}
Leg == [v : Releases, cur : Pin, step : {"guard", "test", "close", "open", "arm"}]
PR  == [m : Modules, v : Releases, from : Pin, auto : BOOLEAN]

ASSUME NilAssumption == Nil \notin Leg

AtLeast(p, v) == p # Nil /\ ~Newer(v, p)
At(m, step) == leg[m] # Nil /\ leg[m].step = step
Goto(m, step) == leg' = [leg EXCEPT ![m].step = step]

Finish(m, outcome) ==
  /\ leg' = [leg EXCEPT ![m] = Nil]
  /\ result' = [result EXCEPT ![m][leg[m].v] = outcome]

Start(m, v) ==
  /\ leg[m] = Nil
  /\ leg' = [leg EXCEPT ![m] = [v |-> v, cur |-> Nil, step |-> "guard"]]
  /\ result' = [result EXCEPT ![m][v] = "running"]

Released(m) == {v \in Releases : result[m][v] # "unreleased"}

Init ==
  /\ pin \in [Modules -> InitialPins]
  /\ leg = [m \in Modules |-> Nil]
  /\ prs = {}
  /\ result = [m \in Modules |-> [v \in Releases |-> "unreleased"]]
  /\ mishaps = {}

-----------------------------------------------------------------------------
(* The release starts or re-runs a leg *)

ReleaseNext(m, v) ==
  /\ v \notin Released(m)
  /\ \A w \in Releases : Newer(v, w) => w \in Released(m)
  /\ Start(m, v)
  /\ UNCHANGED <<pin, prs, mishaps>>

RerunLeg(m, v) ==
  /\ result[m][v] = "failed"
  /\ Start(m, v)
  /\ mishaps' = mishaps \cup {x \in {"late"} : \E w \in Released(m) : Newer(w, v)}
  /\ UNCHANGED <<pin, prs>>

(* The leg *)

SkipStaleBump_Mutant(m) ==  \* only the redundant bump is skipped
  /\ At(m, "guard")
  /\ IF pin[m] = leg[m].v
     THEN Finish(m, "green")
     ELSE /\ leg' = [leg EXCEPT ![m].step = "test", ![m].cur = pin[m]]
          /\ UNCHANGED result
  /\ UNCHANGED <<pin, prs, mishaps>>
SkipStaleBump(m) ==
  /\ At(m, "guard")
  /\ IF AtLeast(pin[m], leg[m].v)
     THEN Finish(m, "green")
     ELSE /\ leg' = [leg EXCEPT ![m].step = "test", ![m].cur = pin[m]]
          /\ UNCHANGED result
  /\ UNCHANGED <<pin, prs, mishaps>>

\* go get, tidy, build, tests, contract gate and pin policy.
TestNewPin(m) ==
  /\ At(m, "test") /\ Goto(m, "close")
  /\ UNCHANGED <<pin, prs, result, mishaps>>

Own(m) == {p \in prs : p.m = m /\ p.v = leg[m].v}
Superseded(m) == {p \in prs : p.m \in Claims[m]} \ Own(m)

\* Each close is `|| true`.
CloseSuperseded(m) ==
  /\ At(m, "close")
  /\ \E kept \in SUBSET Superseded(m) :
       /\ prs' = prs \ (Superseded(m) \ kept)
       /\ mishaps' = mishaps \cup {x \in {"open"} : kept # {}}
  /\ Goto(m, "open")
  /\ UNCHANGED <<pin, result>>

\* The branch carries one commit on the checked-out tree.  An open PR of the
\* same branch is updated and keeps its auto-merge; when main already has the
\* change there is nothing to open.
OpenPR(m) ==
  /\ At(m, "open")
  /\ IF pin[m] = leg[m].v
     THEN Finish(m, "green") /\ prs' = prs \ Own(m)
     ELSE /\ prs' = (prs \ Own(m)) \cup
                    {[m |-> m, v |-> leg[m].v, from |-> leg[m].cur,
                      auto |-> \E p \in Own(m) : p.auto]}
          /\ Goto(m, "arm")
          /\ UNCHANGED result
  /\ UNCHANGED <<pin, mishaps>>

Tier_Mutant(cur, v) == IF cur # Nil /\ v.ma > cur.ma THEN "major" ELSE "patch"  \* 0.x forgotten
Tier(cur, v) ==
  IF cur # Nil /\ (v.ma > cur.ma \/ (v.ma = 0 /\ cur.ma = 0 /\ v.mi > cur.mi))
  THEN "major" ELSE "patch"

\* A major bump is labelled and left to a person; otherwise auto-merge is
\* armed, unless the repository does not offer it.  The runner may be lost
\* right after it.
ArmAutoMerge(m) ==
  /\ At(m, "arm")
  /\ \E arm \in BOOLEAN :
       /\ arm => Tier(leg[m].cur, leg[m].v) # "major"
       /\ prs' = {[p EXCEPT !.auto = @ \/ (arm /\ p \in Own(m))] : p \in prs}
  /\ \E outcome \in {"green", "failed"} : Finish(m, outcome)
  /\ UNCHANGED <<pin, mishaps>>

\* A step fails, the listing of PRs fails, or the runner is lost.
LegFails_Mutant(m) ==  \* continue-on-error on the step that opens the PR
  /\ leg[m] # Nil
  /\ Finish(m, IF leg[m].step = "open" THEN "green" ELSE "failed")
  /\ UNCHANGED <<pin, prs, mishaps>>
LegFails(m) ==
  /\ leg[m] # Nil
  /\ Finish(m, "failed")
  /\ UNCHANGED <<pin, prs, mishaps>>

(* The consumer repository *)

Mergeable(p) == pin[p.m] = p.from

Merge(p) ==
  /\ pin' = [pin EXCEPT ![p.m] = p.v]
  /\ prs' = prs \ {p}
  /\ UNCHANGED <<leg, result, mishaps>>

AutoMerge(p) == Mergeable(p) /\ p.auto /\ Merge(p)
ReviewAndMerge(p) == Mergeable(p) /\ ~p.auto /\ Merge(p)

EditPin(m, v) ==
  /\ pin[m] # v
  /\ pin' = [pin EXCEPT ![m] = v]
  /\ mishaps' = mishaps \cup {"edited"}
  /\ UNCHANGED <<leg, prs, result>>

LegStep(m) ==
  \/ \E v \in Releases : ReleaseNext(m, v) \/ RerunLeg(m, v)
  \/ SkipStaleBump(m) \/ TestNewPin(m) \/ CloseSuperseded(m)
  \/ OpenPR(m) \/ ArmAutoMerge(m) \/ LegFails(m)

Next ==
  \/ \E m \in Modules : LegStep(m) \/ \E v \in HandPins : EditPin(m, v)
  \/ \E p \in prs : AutoMerge(p) \/ ReviewAndMerge(p)

Spec == Init /\ [][Next]_vars

-----------------------------------------------------------------------------
TypeOK ==
  /\ pin \in [Modules -> Pin]
  /\ leg \in [Modules -> Leg \cup {Nil}]
  /\ prs \subseteq PR
  /\ result \in [Modules -> [Releases -> {"unreleased", "running", "green", "failed"}]]
  /\ mishaps \subseteq Mishap

\* Merging a bump PR never downgrades the pin, in whatever order legs run,
\* PRs merge and a maintainer edits the pin in between.
NeverDowngrades ==
  \A p \in prs : Mergeable(p) => p.from = Nil \/ Newer(p.v, p.from)

\* A bump across a compatibility boundary is merged by a person: no PR that
\* can merge by itself crosses one, a minor of a 0.x module included, however
\* often its branch was updated, in whatever order legs are re-run; as long as
\* nobody writes the pin by hand, since an updated PR keeps its auto-merge.
Crosses(p) == p.from # Nil /\ Boundary(p.from) # Boundary(p.v)
MajorNeedsReview ==
  "edited" \notin mishaps => \A p \in prs : Mergeable(p) /\ p.auto => ~Crosses(p)

\* A released version that no leg is working on has reached the pin, or waits
\* in an open PR of at least that version, or its leg is on record as failed;
\* as long as no older leg is re-run and nobody writes the pin by hand.
Waiting(m, v) == \E p \in prs : p.m = m /\ AtLeast(p.v, v)
OnRecord(m, v) == \E w \in Released(m) : AtLeast(w, v) /\ result[m][w] = "failed"
NoForgottenBump ==
  mishaps \subseteq {"open"} =>
    \A m \in Modules : leg[m] = Nil =>
      \A v \in Released(m) : AtLeast(pin[m], v) \/ Waiting(m, v) \/ OnRecord(m, v)

(* Expectations the code does not meet; the README says what refutes them. *)

\* What a leg calls superseded is older than what the leg opens, and of the
\* same module.
ClosesOnlyOlder ==
  [][\A m \in Modules : At(m, "close") /\ CloseSuperseded(m) =>
       \A p \in prs \ prs' : p.m = m /\ Newer(leg[m].v, p.v)]_vars

\* The PR of a leg that ended green can merge as long as nobody touches the
\* pin: every change of the pin came through the bumps.
GreenCanMerge ==
  mishaps = {} => \A p \in prs :
    /\ leg[p.m] = Nil /\ result[p.m][p.v] = "green"
    /\ \A w \in Released(p.m) : ~Newer(w, p.v)
    => Mergeable(p) \/ AtLeast(pin[p.m], p.v)
=============================================================================
