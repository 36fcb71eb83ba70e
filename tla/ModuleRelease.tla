---------------------------- MODULE ModuleRelease ----------------------------
(***************************************************************************)
(* The release pipeline of one versioned Go module                         *)
(* (.github/workflows/module-release.yaml).                                *)
(*                                                                         *)
(* A run is started by a push to main, by a tag pushed by hand or by a     *)
(* dispatch with an explicit version, passes ci-gate, resolves a version,  *)
(* verifies the tree, pushes the tag, publishes the GitHub Release and     *)
(* bumps every consumer.  Any step may fail, a finished run may be re-run  *)
(* in full or from its failed jobs, and commits, CI results and tags       *)
(* pushed by hand arrive at any moment in between.                         *)
(*                                                                         *)
(* main is linear, so a commit is its position 1..head and the range       *)
(* latest..HEAD of git is an interval.  Commit 0 carries the tag Seed.     *)
(***************************************************************************)
EXTENDS Integers, FiniteSets, Semver

CONSTANTS
  Consumers,         \* the repositories the artifact graph derives as consumers
  Nil,               \* "no run", "no version"
  Seed,              \* the version already released when the model starts (v0.0.0 for none)
  PathMajor,         \* N when the module path ends in /vN, 0 when it has no suffix
  Explicit,          \* versions a maintainer may dispatch
  HandTags,          \* versions a maintainer may push as a tag
  DraftOnFailure,    \* may the publishing action leave a draft behind when it fails?
  KillAfterPublish,  \* may the release job die after its Release is public?
  ApiBlips,          \* may `gh release view` fail while the API is reachable again a moment later?
  FullRerunOf,       \* the stages of a finished run from which all its jobs may be re-run
  MaxCommit,         \* bound: commits that land on main
  MaxAttempt         \* bound: runs and re-runs together

Commit  == 1..MaxCommit
Kinds   == {"none", "patch", "minor", "major"}

Stages == {"gate", "version", "verify", "tag", "evidence", "publish", "fanout",
           "gate_failed", "release_failed", "bump_failed", "green"}

ASSUME SeedAssumption == Seed \in Version
ASSUME NilAssumption  == Nil \notin Version
ASSUME HumanVersions  == Explicit \subseteq Version /\ HandTags \subseteq Version
ASSUME BoundAssumption == MaxCommit \in Nat /\ MaxAttempt \in Nat /\ PathMajor \in Nat
ASSUME SwitchAssumption == /\ DraftOnFailure \in BOOLEAN
                           /\ KillAfterPublish \in BOOLEAN
                           /\ ApiBlips \in BOOLEAN
                           /\ FullRerunOf \subseteq Stages

VARIABLES
  head,        \* the newest commit on main
  kind,        \* what the Conventional Commit subject of each commit asks for
  ci,          \* the outcome of ci.yaml for each commit
  tags,        \* the version tags of the repository: [v, c, how]
  drafts,      \* versions whose GitHub Release is a draft
  published,   \* versions whose GitHub Release is public
  notified,    \* the versions each consumer was bumped to
  active,      \* the run that holds the concurrency group, or Nil
  pending,     \* the one run GitHub keeps waiting for the group, or Nil
  finished,    \* runs that have ended and may be re-run
  attempts,    \* counts runs and re-runs (bound)
  cleared,     \* history: commits a ci-gate job has passed
  verified     \* history: commits the gates, the build and the tests have passed

repo    == <<head, kind, ci>>
store   == <<tags, drafts, published>>
history == <<cleared, verified>>
group   == <<active, pending, finished, attempts>>
vars    == <<repo, store, notified, group, history>>

Tag == [v : Version, c : 0..MaxCommit, how : {"run", "explicit", "hand"}]

Run == [trigger : {"push", "tag", "dispatch"}, sha : 0..MaxCommit,
        want : Version \cup {Nil},  \* the pushed tag or the dispatched version
        step : Stages,
        v : Version \cup {Nil}, create : BOOLEAN,    \* the outputs of `ver`
        todo : SUBSET Consumers, lost : SUBSET Consumers]  \* legs of bump-consumers

ASSUME NoRunAssumption == Nil \notin Run

-----------------------------------------------------------------------------
(* Versions *)

\* `sort -V | tail -1` over the version tags.
Latest == {t \in tags : \A u \in tags : ~Newer(u.v, t.v)}

\* Go encodes the major in the import path from v2 onward.
GoMajorOk(v) == v.ma < 2 \/ v.ma = PathMajor

\* What the commits in latest..HEAD ask for, the strongest marker winning.
Range(t, sha) == {c \in Commit : t.c < c /\ c <= sha}
Asked(t, sha) == {kind[c] : c \in Range(t, sha)}
Bump_Mutant(asked) == CASE "major" \in asked -> "major"
                        [] "minor" \in asked /\ "major" \notin asked -> "minor"
                        [] OTHER -> "patch"  \* no marker is a patch
Bump(asked) == CASE "major" \in asked -> "major"
                 [] "minor" \in asked /\ "major" \notin asked -> "minor"
                 [] "patch" \in asked /\ {"major", "minor"} \cap asked = {} -> "patch"
                 [] OTHER -> "none"

\* On a 0.x module a breaking change bumps the minor.
Softened_Mutant(base, bump) == IF base.ma = 0 /\ bump = "major" THEN "patch" ELSE bump
Softened(base, bump) == IF base.ma = 0 /\ bump = "major" THEN "minor" ELSE bump

-----------------------------------------------------------------------------
(* Runs and the concurrency group: one active run, one pending run, and a   *)
(* run that arrives while another is pending replaces it.                   *)

Fresh(trigger, sha, want) ==
  [trigger |-> trigger, sha |-> sha, want |-> want, step |-> "gate",
   v |-> Nil, create |-> FALSE, todo |-> {}, lost |-> {}]

Enqueue(r, done) ==
  /\ attempts < MaxAttempt
  /\ attempts' = attempts + 1
  /\ IF active = Nil
     THEN active' = r /\ pending' = pending /\ finished' = done
     ELSE /\ active' = active
          /\ pending' = r
          /\ finished' = done \cup ({pending} \ {Nil})

Proceed(r) == active' = r /\ UNCHANGED <<pending, finished, attempts>>

Conclude_Mutant(r) == /\ finished' = finished \cup {r}  \* the pending run is forgotten
                      /\ active' = Nil
                      /\ pending' = Nil
                      /\ UNCHANGED attempts
Conclude(r) == /\ finished' = finished \cup {r}
               /\ active' = pending
               /\ pending' = Nil
               /\ UNCHANGED attempts

FailRelease == Conclude([active EXCEPT !.step = "release_failed"])

At(step) == active # Nil /\ active.step = step

-----------------------------------------------------------------------------
Init ==
  /\ head = 0
  /\ kind = [c \in Commit |-> "none"]
  /\ ci = [c \in Commit |-> "running"]
  /\ tags = {[v |-> Seed, c |-> 0, how |-> "run"]}
  /\ drafts = {}
  /\ published = {Seed}
  /\ notified = [c \in Consumers |-> {Seed}]
  /\ active = Nil /\ pending = Nil /\ finished = {} /\ attempts = 0
  /\ cleared = {0} /\ verified = {0}

(* The world around the pipeline *)

Land(k) ==
  /\ head < MaxCommit
  /\ head' = head + 1
  /\ kind' = [kind EXCEPT ![head + 1] = k]
  /\ Enqueue(Fresh("push", head + 1, Nil), finished)
  /\ UNCHANGED <<ci, store, notified, history>>

CiFinishes(c, outcome) ==
  /\ c <= head /\ ci[c] = "running"
  /\ ci' = [ci EXCEPT ![c] = outcome]
  /\ UNCHANGED <<head, kind, store, notified, group, history>>

\* CI of a commit is re-run by hand, also after a release has read its result.
CiReruns(c) ==
  /\ c <= head /\ ci[c] # "running"
  /\ ci' = [ci EXCEPT ![c] = "running"]
  /\ UNCHANGED <<head, kind, store, notified, group, history>>

PushTagByHand(v, c) ==
  /\ c <= head
  /\ \A t \in tags : t.v # v
  /\ tags' = tags \cup {[v |-> v, c |-> c, how |-> "hand"]}
  /\ Enqueue(Fresh("tag", c, v), finished)
  /\ UNCHANGED <<repo, drafts, published, notified, history>>

Dispatch(v) ==
  /\ head > 0
  /\ Enqueue(Fresh("dispatch", head, v), finished)
  /\ UNCHANGED <<repo, store, notified, history>>

RerunAll(r) ==
  /\ r.step \in FullRerunOf
  /\ Enqueue(Fresh(r.trigger, r.sha, r.want), finished \ {r})
  /\ UNCHANGED <<repo, store, notified, history>>

\* GitHub re-runs the failed jobs and what depends on them and keeps the
\* outputs of the jobs that succeeded: a green ci-gate is not asked again, and
\* only the failed legs of the matrix are.
RerunFailed(r) ==
  /\ r.step # "green"
  /\ LET again == CASE r.step = "gate_failed"    -> [r EXCEPT !.step = "gate"]
                    [] r.step = "release_failed" -> [r EXCEPT !.step = "version"]
                    [] r.step = "bump_failed"    -> [r EXCEPT !.step = "fanout",
                                                             !.todo = r.lost, !.lost = {}]
                    [] OTHER -> r
     IN  Enqueue(again, finished \ {r})
  /\ UNCHANGED <<repo, store, notified, history>>

-----------------------------------------------------------------------------
(* ci-gate *)

PassGate ==
  /\ At("gate")
  /\ ci[active.sha] = "success"
  /\ Proceed([active EXCEPT !.step = "version"])
  /\ cleared' = cleared \cup {active.sha}
  /\ UNCHANGED <<repo, store, notified, verified>>

\* A failed run, an unfinished one at the deadline, and an API error all refuse.
RefuseGate ==
  /\ At("gate")
  /\ Conclude([active EXCEPT !.step = "gate_failed"])
  /\ UNCHANGED <<repo, store, notified, history>>

-----------------------------------------------------------------------------
(* Resolve version *)

Resolving(triggers) == At("version") /\ active.trigger \in triggers

TagAtHead == {t \in Latest : t.c = active.sha}

Release_Unverified(v, create) ==  \* straight to the tag
  Proceed([active EXCEPT !.step = IF create THEN "tag" ELSE "evidence", !.v = v, !.create = create])
Release(v, create) ==
  Proceed([active EXCEPT !.step = "verify", !.v = v, !.create = create])

NothingToPublish ==
  Conclude([active EXCEPT !.step = "green"])

UsePushedTag ==
  /\ Resolving({"tag"})
  /\ IF GoMajorOk(active.want) THEN Release(active.want, FALSE) ELSE FailRelease
  /\ UNCHANGED <<repo, store, notified, history>>

UseExplicitVersion ==
  /\ Resolving({"dispatch"})
  /\ IF GoMajorOk(active.want) /\ \A t \in tags : t.v # active.want
     THEN Release(active.want, TRUE)
     ELSE FailRelease
  /\ UNCHANGED <<repo, store, notified, history>>

AlreadyReleased_Mutant(t) ==  \* a tag at HEAD counts as a release
  /\ NothingToPublish
  /\ UNCHANGED <<repo, store, notified, history>>
AlreadyReleased(t) ==
  /\ t.v \in published
  /\ NothingToPublish
  /\ UNCHANGED <<repo, store, notified, history>>

\* `gh release edit --draft=false || true`: the edit itself may fail.
FinalizeDraft(t, edited) ==
  /\ t.v \in drafts
  /\ drafts' = IF edited THEN drafts \ {t.v} ELSE drafts
  /\ published' = IF edited THEN published \cup {t.v} ELSE published
  /\ Release(t.v, FALSE)
  /\ UNCHANGED <<repo, tags, notified, history>>

\* `gh release view || echo missing`, then a probe that the API answers.
FinalizeTag(t) ==
  /\ t.v \notin drafts \cup published \/ ApiBlips
  /\ Release(t.v, FALSE)
  /\ UNCHANGED <<repo, store, notified, history>>

\* The newest tag is at HEAD: the recovery path.  An explicit version and a
\* pushed tag never reach it.
RecoverTag ==
  /\ Resolving({"push"})
  /\ \E t \in TagAtHead :
       \/ AlreadyReleased(t)
       \/ \E edited \in BOOLEAN : FinalizeDraft(t, edited)
       \/ FinalizeTag(t)

RefuseUnreachable ==
  /\ Resolving({"push"}) /\ TagAtHead # {}
  /\ FailRelease
  /\ UNCHANGED <<repo, store, notified, history>>

ComputeVersion ==
  /\ Resolving({"push"}) /\ TagAtHead = {}
  /\ \E t \in Latest :
       LET bump == Softened(t.v, Bump(Asked(t, active.sha)))
       IN  \/ bump = "none" /\ NothingToPublish
           \/ bump = "major" /\ PathMajor # t.v.ma + 1 /\ FailRelease
           \/ /\ bump # "none"
              /\ bump = "major" => PathMajor = t.v.ma + 1
              /\ Release(NextVersion(t.v, bump), TRUE)
  /\ UNCHANGED <<repo, store, notified, history>>

-----------------------------------------------------------------------------
(* Verify, tag and publish *)

Verify ==
  /\ At("verify")
  /\ Proceed([active EXCEPT !.step = IF active.create THEN "tag" ELSE "evidence"])
  /\ verified' = verified \cup {active.sha}
  /\ UNCHANGED <<repo, store, notified, cleared>>

\* The runner, pseudo-version, upstream and tidy gates, the build and the tests.
VerifyFails ==
  /\ At("verify") /\ FailRelease
  /\ UNCHANGED <<repo, store, notified, history>>

CreateTag_Mutant ==  \* git push --force
  /\ At("tag")
  /\ tags' = tags \cup {[v |-> active.v, c |-> active.sha, how |-> "run"]}
  /\ Proceed([active EXCEPT !.step = "evidence"])
  /\ UNCHANGED <<repo, drafts, published, notified, history>>
CreateTag ==
  /\ At("tag")
  /\ \A t \in tags : t.v # active.v
  /\ tags' = tags \cup {[v |-> active.v, c |-> active.sha,
                         how |-> IF active.trigger = "push" THEN "run" ELSE "explicit"]}
  /\ Proceed([active EXCEPT !.step = "evidence"])
  /\ UNCHANGED <<repo, drafts, published, notified, history>>

\* The remote already has the tag, or the push is lost.
TagPushFails ==
  /\ At("tag") /\ FailRelease
  /\ UNCHANGED <<repo, store, notified, history>>

\* SBOMs, attestation and provenance record; a failure leaves a tag without a Release.
WriteEvidence(ok) ==
  /\ At("evidence")
  /\ IF ok THEN Proceed([active EXCEPT !.step = "publish"]) ELSE FailRelease
  /\ UNCHANGED <<repo, store, notified, history>>

\* bump-consumers is skipped when the graph names no consumer.
PublishRelease ==
  /\ At("publish")
  /\ published' = published \cup {active.v}
  /\ drafts' = drafts \ {active.v}
  /\ IF Consumers = {}
     THEN Conclude([active EXCEPT !.step = "green"])
     ELSE Proceed([active EXCEPT !.step = "fanout", !.todo = Consumers, !.lost = {}])
  /\ UNCHANGED <<repo, tags, notified, history>>

PublishFails ==
  /\ At("publish")
  /\ \/ UNCHANGED <<drafts, published>>
     \/ /\ DraftOnFailure /\ active.v \notin published
        /\ drafts' = drafts \cup {active.v}
        /\ UNCHANGED published
     \/ /\ KillAfterPublish
        /\ published' = published \cup {active.v}
        /\ drafts' = drafts \ {active.v}
  /\ FailRelease
  /\ UNCHANGED <<repo, tags, notified, history>>

-----------------------------------------------------------------------------
(* bump-consumers (fail-fast: false) and fan-out-report *)

AfterLeg(c, ok) ==
  LET r == [active EXCEPT !.todo = @ \ {c}, !.lost = IF ok THEN @ ELSE @ \cup {c}]
  IN  IF r.todo # {} THEN Proceed(r)
      ELSE Conclude([r EXCEPT !.step = IF r.lost = {} THEN "green" ELSE "bump_failed"])

BumpConsumer(c) ==
  /\ At("fanout") /\ c \in active.todo
  /\ notified' = [notified EXCEPT ![c] = @ \cup {active.v}]
  /\ AfterLeg(c, TRUE)
  /\ UNCHANGED <<repo, store, history>>

BumpFails(c) ==
  /\ At("fanout") /\ c \in active.todo
  /\ AfterLeg(c, FALSE)
  /\ UNCHANGED <<repo, store, notified, history>>

-----------------------------------------------------------------------------
World ==
  \/ \E k \in Kinds : Land(k)
  \/ \E c \in Commit, outcome \in {"success", "failure"} : CiFinishes(c, outcome)
  \/ \E c \in Commit : CiReruns(c)
  \/ \E v \in HandTags, c \in Commit : PushTagByHand(v, c)
  \/ \E v \in Explicit : Dispatch(v)
  \/ \E r \in finished : RerunAll(r) \/ RerunFailed(r)

Resolve == UsePushedTag \/ UseExplicitVersion \/ RecoverTag \/ ComputeVersion

Progress ==
  \/ PassGate \/ Resolve \/ Verify \/ CreateTag \/ WriteEvidence(TRUE)
  \/ PublishRelease \/ \E c \in Consumers : BumpConsumer(c)

Failure ==
  \/ RefuseGate \/ RefuseUnreachable \/ VerifyFails \/ TagPushFails
  \/ WriteEvidence(FALSE) \/ PublishFails \/ \E c \in Consumers : BumpFails(c)

Next == World \/ Progress \/ Failure

Spec == Init /\ [][Next]_vars

-----------------------------------------------------------------------------
TypeOK ==
  /\ head \in 0..MaxCommit
  /\ kind \in [Commit -> Kinds]
  /\ ci \in [Commit -> {"running", "success", "failure"}]
  /\ tags \subseteq Tag
  /\ drafts \subseteq Version /\ published \subseteq Version
  /\ notified \in [Consumers -> SUBSET Version]
  /\ active \in Run \cup {Nil} /\ pending \in Run \cup {Nil}
  /\ finished \subseteq Run
  /\ attempts \in 0..MaxAttempt
  /\ cleared \subseteq 0..MaxCommit /\ verified \subseteq 0..MaxCommit

\* A version never names two commits: not across a tag pushed by hand while
\* the release of the same version is being verified, nor across re-runs.
OneCommitPerVersion == \A t, u \in tags : t.v = u.v => t = u

\* What is public was tagged, and its very commit passed ci-gate and every
\* verification gate, through recoveries, drafts and re-runs of single jobs.
PublishedWasVerified ==
  \A v \in published : \E t \in tags : t.v = v /\ t.c \in cleared \cap verified

\* The pipeline implements the ledger: every step gives a free version to a
\* commit, lets one commit pass, makes one version public whose commit passed,
\* tells one consumer of a public version, or is not seen from outside; in
\* particular no step moves a version, withdraws one or announces one early.
Given == {[v |-> t.v, c |-> t.c] : t \in tags}
Fit == cleared \cap verified
Ledger == INSTANCE VersionLedger
  WITH versions <- Given, public <- published, known <- notified, fit <- Fit
ImplementsLedger == Ledger!Spec

\* No consumer is pointed at a version that has no public Release.
NotifiedWasPublished == \A c \in Consumers : notified[c] \subseteq published

\* Computed versions grow along history, in whatever order runs are re-run.
VersionsFollowHistory ==
  \A t, u \in tags : t.c < u.c => Newer(u.v, t.v)

\* Between two computed versions with a breaking commit in between there is a
\* compatibility boundary: another major, or another minor below 1.0.
BreakingCrossesBoundary ==
  \A t, u \in tags :
    (\E c \in Commit : t.c < c /\ c <= u.c /\ kind[c] = "major") => Boundary(t.v) # Boundary(u.v)

\* When the group is idle and a consumer was not told of the newest version,
\* a run on record says so: the failed or cancelled leg of that consumer, or,
\* while the Release is not public, a run of that commit that is not green and
\* whose re-run finalizes the version.
Unreached(v) == {c \in Consumers : v \notin notified[c]}
HeldByLeg(t, c) == \E r \in finished :
  /\ r.v = t.v
  /\ \/ r.step = "bump_failed" /\ c \in r.lost
     \/ r.step = "fanout" /\ c \in r.todo
HeldByRun(t) == t.v \notin published /\ \E r \in finished : r.sha = t.c /\ r.step # "green"
NoStrandedRelease ==
  active = Nil =>
    \A t \in Latest : \A c \in Unreached(t.v) : HeldByLeg(t, c) \/ HeldByRun(t)

\* A started job ends: by its own result, by its deadline or by its timeout.
Fairness == WF_vars(Progress \/ Failure)
FairSpec == Spec /\ Fairness

\* A releasable commit with green CI is in a version every consumer was told
\* of, or a run that is not green stays on record for it.
Delivered(c) == \E t \in tags : t.c >= c /\ \A k \in Consumers : t.v \in notified[k]
OnRecord(c) == \E r \in finished : r.sha >= c /\ r.step # "green"
NoSilentLoss ==
  \A c \in Commit :
    (c <= head /\ kind[c] # "none" /\ ci[c] = "success") ~> (Delivered(c) \/ OnRecord(c))

(* Expectations the code does not meet; the README says what refutes them. *)

\* What is published can be imported: from v2 on the major is in the import
\* path, below v2 the path has no suffix.
Importable(v) == IF v.ma < 2 THEN PathMajor = 0 ELSE v.ma = PathMajor
PublishedIsImportable == \A v \in published \ {Seed} : Importable(v)

\* A run that finds the newest version already public does not release it again.
Republishes == /\ Resolving({"push"})
               /\ \E t \in TagAtHead : t.v \in published
               /\ active' # Nil /\ active'.step = "verify"
NeverRepublished == [][~Republishes]_vars
=============================================================================
