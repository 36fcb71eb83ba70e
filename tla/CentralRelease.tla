--------------------------- MODULE CentralRelease ---------------------------
(***************************************************************************)
(* The repository's own release: every commit on main is tagged and the    *)
(* moving tag v1, which the fleet pins, is put on it                       *)
(* (.github/workflows/release.yaml, with the triggers and the              *)
(* release-drift job of ci.yaml).                                          *)
(*                                                                         *)
(* Commits of main are numbered in order; commit 1 is a released one.      *)
(* Release runs are serialised by a concurrency group that keeps one run   *)
(* waiting and cancels the one that waited before.  CI runs of main share  *)
(* a group as well, and there a new run cancels the one in progress.       *)
(***************************************************************************)
EXTENDS Integers, Sequences, Semver, ReferenceWindow

CONSTANTS
  MaxCommit,    \* bound on the commits of main
  Kinds,        \* the kinds of commits that land: docs, feat, breaking
  FirstVersion, \* the version of commit 1
  InitialRef,   \* the reference artifact of commit 1
  HandRefs,     \* references a commit may write by hand
  CIFails,      \* may the push run of CI fail?
  Scheduled,    \* does the daily run of ci.yaml fire?
  AnyOrder,     \* may a release be re-run after a later commit was released?
  LossPoints,   \* the steps at which a release run may fail by itself
  HandMajor,    \* may a person cut the next major by hand?
  Nil

ASSUME BoundAssumption == MaxCommit \in Nat \ {0}
ASSUME KindsAssumption == Kinds \subseteq {"docs", "feat", "breaking"}
ASSUME FirstAssumption == FirstVersion \in Version /\ FirstVersion # Nil
ASSUME ReferenceAssumption == /\ InitialRef \in Reference /\ HandRefs \subseteq Reference
                              /\ Usable(InitialRef) /\ FloorHolds(InitialRef)
                              /\ Alone(InitialRef)
ASSUME SwitchAssumption == {CIFails, Scheduled, AnyOrder, HandMajor} \subseteq BOOLEAN

VARIABLES
  log,   \* log[c]: the kind of commit c and the reference artifact at c
  ci,    \* ci[c]: the push run and the scheduled run of ci.yaml at commit c
  tags,  \* the release tags
  v1,    \* the commit of the moving tag
  rel    \* rel[c]: the release run of commit c

vars == <<log, ci, tags, v1, rel>>

Commits == 1 .. MaxCommit
Commit == [kind : Kinds \cup {"docs"}, ref : Reference]
Tag == [v : Version, c : Commits]
Status == {"none", "running", "success", "failure", "cancelled"}
Active == {"checkout", "gate", "version", "floor", "tag", "move"}
Ended == {"green", "red", "cancelled"}
Run == [step : Active \cup Ended \cup {"queued"}, seen : SUBSET Tag, prev : Tag \cup {Nil}]

ASSUME LossAssumption == LossPoints \subseteq Active

head == Len(log)
At(c, step) == c <= head /\ rel[c].step = step
Goto(c, step) == rel' = [rel EXCEPT ![c].step = step]
Bare(step) == [step |-> step, seen |-> {}, prev |-> Nil]

\* The group runs one release at a time; the run that waits follows at once.
Busy_Mutant == FALSE  \* no concurrency group
Busy == \E d \in 1 .. head : rel[d].step \in Active
Finish(c, outcome) ==
  rel' = [d \in 1 .. head |-> IF d = c THEN Bare(outcome)
                              ELSE IF At(d, "queued") THEN Bare("checkout") ELSE rel[d]]

Newest(S) == {t \in S : \A u \in S : ~Newer(u.v, t.v)}

Init ==
  /\ log = <<[kind |-> "docs", ref |-> InitialRef]>>
  /\ ci = <<[push |-> "success", daily |-> "none"]>>
  /\ tags = {[v |-> FirstVersion, c |-> 1]}
  /\ v1 = 1
  /\ rel = <<Bare("green")>>

-----------------------------------------------------------------------------
(* main and its CI *)

\* A run that enters a group cancels what the group allows it to cancel.
Superseded(status, old) == IF status = old THEN "cancelled" ELSE status
CancelCI(runs) == [c \in DOMAIN runs |-> [push  |-> Superseded(runs[c].push, "running"),
                                          daily |-> Superseded(runs[c].daily, "running")]]
CancelQueued(runs) == [c \in DOMAIN runs |-> [runs[c] EXCEPT !.step = Superseded(@, "queued")]]
Entering == Bare(IF Busy THEN "queued" ELSE "checkout")

Extend(runs, new) == [c \in 1 .. (head + 1) |-> IF c <= head THEN runs[c] ELSE new]

Land(kind, ref) ==
  /\ head < MaxCommit
  /\ log' = Append(log, [kind |-> kind, ref |-> ref])
  /\ ci' = Extend(ci, [push |-> "none", daily |-> "none"])
  /\ rel' = Extend(CancelQueued(rel), Entering)
  /\ UNCHANGED <<tags, v1>>

\* Pushes start CI in order, runs that did not pass are re-run, and the next
\* daily run takes the place of the last one.
StartCI(c, event) ==
  /\ ci[c][event] \in {"none", "failure", "cancelled"}
  /\ event = "push" => \A d \in 1 .. (c - 1) : ci[d].push # "none"
  /\ event = "daily" => Scheduled /\ c = head /\ ci[c].push # "none"
  /\ ci' = [CancelCI(ci) EXCEPT ![c][event] = "running"]
  /\ UNCHANGED <<log, tags, v1, rel>>

\* The release-drift job runs in the daily run only: it fails unless v1 is at
\* the commit the run was started for.
EndCI(c, event) ==
  /\ ci[c][event] = "running"
  /\ \E outcome \in {"success", "failure"} :
       /\ outcome = "success" => event = "push" \/ v1 = c
       /\ outcome = "failure" => CIFails \/ (event = "daily" /\ v1 # c)
       /\ ci' = [ci EXCEPT ![c][event] = outcome]
  /\ UNCHANGED <<log, tags, v1, rel>>

CutMajor ==
  /\ HandMajor /\ \E c \in 1 .. head : log[c].kind = "breaking"
  /\ tags' = tags \cup {[v |-> NextVersion(t.v, "major"), c |-> head] : t \in Newest(tags)}
  /\ \A t \in tags : t.v.ma = FirstVersion.ma /\ t.c # head
  /\ UNCHANGED <<log, ci, v1, rel>>

-----------------------------------------------------------------------------
(* The release run of commit c *)

Overtaken(c) == \/ \E t \in tags : t.c > c
                \/ \E d \in (c + 1) .. head : rel[d].step \notin Ended

Rerun(c) ==
  /\ rel[c].step \in Ended
  /\ AnyOrder \/ ~Overtaken(c)
  /\ rel' = [CancelQueued(rel) EXCEPT ![c] = Entering]
  /\ UNCHANGED <<log, ci, tags, v1>>

Checkout(c) ==
  /\ At(c, "checkout")
  /\ rel' = [rel EXCEPT ![c].step = "gate", ![c].seen = tags]
  /\ UNCHANGED <<log, ci, tags, v1>>

Conclusions(c) == {ci[c].push, ci[c].daily}
Bad(c)  == Conclusions(c) \cap {"failure", "cancelled"} # {}
Good(c) == "success" \in Conclusions(c) /\ "running" \notin Conclusions(c)

\* Neither good nor bad: the loop waits.
RequireCI(c) ==
  /\ At(c, "gate")
  /\ \/ Bad(c) /\ Finish(c, "red")
     \/ ~Bad(c) /\ Good(c) /\ Goto(c, "version")
  /\ UNCHANGED <<log, ci, tags, v1>>

Since(prev, c) == {log[d].kind : d \in (prev.c + 1) .. c}
Breaking_Mutant(prev, c) == log[c].kind = "breaking"  \* only HEAD is looked at
Breaking(prev, c) == "breaking" \in Since(prev, c)
Bump(prev, c) == IF "feat" \in Since(prev, c) THEN "minor" ELSE "patch"
Nothing_Mutant(prev, c) == prev.c = c \/ Since(prev, c) = {"docs"}  \* docs are not released
Nothing(prev, c) == prev.c = c

ResolveVersion_Mutant(c) ==  \* the idempotence check is lost
  /\ At(c, "version")
  /\ \E t \in Newest(rel[c].seen) :
       \/ Breaking(t, c) /\ Finish(c, "red")
       \/ ~Breaking(t, c) /\ rel' = [rel EXCEPT ![c].step = "floor", ![c].prev = t]
  /\ UNCHANGED <<log, ci, tags, v1>>
ResolveVersion(c) ==
  /\ At(c, "version")
  /\ \E t \in Newest(rel[c].seen) :
       \/ Nothing(t, c) /\ Finish(c, "green")
       \/ ~Nothing(t, c) /\ Breaking(t, c) /\ Finish(c, "red")
       \/ /\ ~Nothing(t, c) /\ ~Breaking(t, c)
          /\ rel' = [rel EXCEPT ![c].step = "floor", ![c].prev = t]
  /\ UNCHANGED <<log, ci, tags, v1>>

Ref(c) == log[c].ref

\* The newest usable state of the artifact at or before commit b (none, or one).
LastUsable(b) == {Ref(d) : d \in {e \in 1 .. b : Usable(Ref(e)) /\ \A f \in (e + 1) .. b : ~Usable(Ref(f))}}

\* What a close dropped: the grace set of the newest release up to b that is
\* not the closed state itself, if it stood beside the same current.
ClosedState(r, base) == SameComponents(r.current, base.current) /\ r.previous = None
PreviousBeforeClose(seen, b, base) ==
  LET open == {t \in seen : t.c <= b /\ Usable(Ref(t.c)) /\ ~ClosedState(Ref(t.c), base)}
  IN {Ref(t.c).previous : t \in {u \in Newest(open) : SameComponents(Ref(u.c).current, base.current)}}

ReferenceHolds(c) ==
  /\ Usable(Ref(c)) /\ FloorHolds(Ref(c))
  /\ LET b == rel[c].prev.c
     IN \A base \in LastUsable(b) :
          WindowStep(base, Ref(c), PreviousBeforeClose(rel[c].seen, b, base))

VerifyFloor(c) ==
  /\ At(c, "floor")
  /\ IF ReferenceHolds(c) THEN Goto(c, "tag") ELSE Finish(c, "red")
  /\ UNCHANGED <<log, ci, tags, v1>>

NewVersion(c) == NextVersion(rel[c].prev.v, Bump(rel[c].prev, c))

PushTag(c) ==
  /\ At(c, "tag")
  /\ IF \E t \in tags : t.v = NewVersion(c)
     THEN Finish(c, "red") /\ UNCHANGED tags
     ELSE Goto(c, "move") /\ tags' = tags \cup {[v |-> NewVersion(c), c |-> c]}
  /\ UNCHANGED <<log, ci, v1>>

MoveV1(c) ==
  /\ At(c, "move") /\ Finish(c, "green")
  /\ v1' = c
  /\ UNCHANGED <<log, ci, tags>>

\* The Actions API does not answer, CI takes more than 45 minutes, a step fails
\* or the runner is lost.
Fail(c) ==
  /\ c <= head /\ rel[c].step \in LossPoints
  /\ Finish(c, "red")
  /\ UNCHANGED <<log, ci, tags, v1>>

-----------------------------------------------------------------------------
Progress(c) == \/ Checkout(c) \/ RequireCI(c) \/ ResolveVersion(c) \/ VerifyFloor(c)
               \/ PushTag(c) \/ MoveV1(c) \/ Fail(c)

Refs == Edits(Ref(head)) \cup RaiseFloor(Ref(head)) \cup {Ref(c) : c \in 1 .. head} \cup HandRefs

Next ==
  \/ \E kind \in Kinds, ref \in Refs : Land(kind, ref)
  \/ \E c \in 1 .. head, event \in {"push", "daily"} : StartCI(c, event) \/ EndCI(c, event)
  \/ \E c \in 1 .. head : Progress(c) \/ Rerun(c)
  \/ CutMajor

Spec == Init /\ [][Next]_vars

\* A runner keeps executing its job, and a free concurrency group starts the run
\* that waits; people and CI need not do anything.
FairSpec == Spec /\ WF_vars(\E c \in 1 .. head : Progress(c))

-----------------------------------------------------------------------------
TypeOK ==
  /\ log \in Seq(Commit)
  /\ head \in Commits
  /\ ci \in [1 .. head -> [push : Status, daily : Status]]
  /\ tags \subseteq Tag
  /\ v1 \in 1 .. head
  /\ rel \in [1 .. head -> Run]

\* The fleet never goes back to older central logic by a release, although runs
\* wait for CI for most of an hour, are cancelled, cut off and re-run.
V1NeverMovesBack == [][v1' >= v1]_vars

\* A major is only ever cut by a person.
MajorWasCut == \E t \in tags : t.v.ma # FirstVersion.ma

\* Versions grow along main and one tree has one version, re-runs included;
\* until a person cuts a major, which may be while a release is running.
TagsFollowHistory ==
  MajorWasCut \/ \A t, u \in tags : /\ t.c < u.c => Newer(u.v, t.v)
                                    /\ t.c = u.c => t = u

\* Whatever lands around it, a breaking commit never gets under v1 before a
\* person cuts a major.
NothingBreakingUnderV1 == MajorWasCut \/ \A c \in 1 .. v1 : log[c].kind # "breaking"

\* What the fleet runs has passed its own CI: v1 is only ever put on a commit
\* with a successful run.
V1IsVerified == "success" \in Conclusions(v1)

\* A landed commit reaches the fleet, or a red run says that it does not,
\* until a person cuts a major and v1 is theirs to move.
NoSilentDrift ==
  \A c \in Commits :
    c <= head ~> v1 >= c \/ MajorWasCut \/ \E d \in c .. head : rel[d].step = "red"

\* No flag day: what @v1 held a spec to before a release it still accepts after
\* it, and what it holds a spec to afterwards it accepted before.
NoFlagDay ==
  [][v1' # v1 => LET old == Ref(v1) new == log'[v1'].ref IN
       /\ Components[old.current] \in AcceptedComponents(new)
       /\ Components[new.current] \in AcceptedComponents(old)]_vars

\* No forged grace set, and no floor nobody was moved to: what @v1 accepts as
\* previous, and the floor, were current in some release.
PreviousWasReleased ==
  \A v \in {Ref(v1).previous, Ref(v1).floor} \ {None} :
    \E t \in tags : SameComponents(Ref(t.c).current, v)

(* Expectations the code does not meet; the README says what refutes them. *)

\* A green run is the promise that v1 has reached its commit, until a person
\* tags a commit; a run that is lost between its two pushes does not keep it.
GreenMeansReleased == MajorWasCut \/ \A c \in 1 .. head : rel[c].step = "green" => v1 >= c

\* A re-run of a commit that was released already mints no second tag for it.
OneTagPerTree == MajorWasCut \/ \A t, u \in tags : t.c = u.c => t = u

\* The major that was cut by hand keeps the breaking commit from v1.
NothingBreakingUnderV1Ever == \A c \in 1 .. v1 : log[c].kind # "breaking"

\* The gate refuses a commit for its own CI, never for the drift that the
\* release itself is there to close.
DriftIsExcluded ==
  [][\A c \in 1 .. head : At(c, "gate") /\ RequireCI(c) /\ rel'[c].step = "red" =>
       ci[c].push # "success" \/ ci[c].daily # "failure"]_vars

\* Two pushes that land together produce two releases: v1 does not jump past a
\* commit that was not released, unless the CI of that commit failed.
TwoReleasesInOrder ==
  [][\A c \in (v1 + 1) .. (v1' - 1) :
       \/ \E t \in tags : t.c = c
       \/ ci[c].push = "failure"]_vars
=============================================================================
