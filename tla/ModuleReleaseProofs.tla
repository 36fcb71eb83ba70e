------------------------- MODULE ModuleReleaseProofs -------------------------
(***************************************************************************)
(* Proofs about ModuleRelease, for every set of consumers, every version   *)
(* a human may choose and every bound.                                     *)
(*                                                                         *)
(* PublishedWasVerified is not inductive: a run carries facts from one job *)
(* to the next, across failure and re-run, so the invariant says of every  *)
(* run, active, pending or finished, what the step it stands at implies.   *)
(*                                                                         *)
(* While every version is computed, one run at a time resolves and tags,   *)
(* so what it read of the tags is still there when it pushes (Ordered);    *)
(* and whoever a release has not reached is some run's to reach (Held).    *)
(***************************************************************************)
EXTENDS ModuleRelease, TLAPS

\* The run's version is tagged at the commit the run releases.
Tagged(v, c) == \E t \in tags : t.v = v /\ t.c = c

\* What a run has established by the time it stands at its step.
RunOK(r) ==
  /\ r.trigger = "tag" => Tagged(r.want, r.sha)
  /\ r.trigger # "push" => r.want \in Version
  /\ r.step \notin {"gate", "gate_failed"} => r.sha \in cleared
  /\ r.step \in {"verify", "tag", "evidence", "publish", "fanout", "bump_failed"} => r.v \in Version
  /\ r.step \in {"tag", "evidence", "publish"} => r.sha \in verified
  /\ r.step = "verify" /\ ~r.create => Tagged(r.v, r.sha)
  /\ r.step \in {"evidence", "publish"} => Tagged(r.v, r.sha)
  /\ r.step \in {"fanout", "bump_failed"} => r.v \in published

RunsOK == \A r \in finished \cup ({active, pending} \ {Nil}) : RunOK(r)

Sound(v) == \E t \in tags : t.v = v /\ t.c \in cleared \cap verified
DraftsWereVerified == \A v \in drafts : Sound(v)

IInv == /\ TypeOK
        /\ RunsOK
        /\ DraftsWereVerified
        /\ PublishedWasVerified
        /\ NotifiedWasPublished
        /\ OneCommitPerVersion
-----------------------------------------------------------------------------
(* What only grows, and what is kept because it grows *)

Grows == /\ tags \subseteq tags' /\ published \subseteq published'
         /\ cleared \subseteq cleared' /\ verified \subseteq verified'

\* The group after a step that hands over or files the run r.
GroupStep(r) == \/ Proceed(r)
                \/ Conclude(r)
                \/ \E done \in SUBSET finished : Enqueue(r, done)

\* A run keeps what it established while the store and the history grow.
LEMMA RunKept == ASSUME NEW r, RunOK(r), Grows PROVE RunOK(r)'
  BY DEF RunOK, Grows, Tagged

\* A version stays tagged and verified while the store and the history grow.
LEMMA SoundKept == ASSUME NEW v, Sound(v), Grows PROVE Sound(v)'
  BY DEF Sound, Grows

\* The runs of the group stay in order when the one that moved is in order.
LEMMA RunsKept ==
  ASSUME NEW r, RunsOK, Grows, GroupStep(r), RunOK(r)'
  PROVE  RunsOK'
<1> SUFFICES ASSUME NEW q \in (finished \cup ({active, pending} \ {Nil}))'
             PROVE  RunOK(q)'
  BY DEF RunsOK
<1>1. q = r \/ q \in finished \cup ({active, pending} \ {Nil})
  BY DEF GroupStep, Proceed, Conclude, Enqueue
<1>2. CASE q = r
  BY <1>2
<1>3. CASE q \in finished \cup ({active, pending} \ {Nil})
  BY <1>3, RunKept DEF RunsOK
<1> QED BY <1>1, <1>2, <1>3

\* The group keeps its type.
LEMMA GroupTyped ==
  ASSUME TypeOK, NEW r \in Run, GroupStep(r)
  PROVE  /\ active' \in Run \cup {Nil} /\ pending' \in Run \cup {Nil}
         /\ finished' \subseteq Run /\ attempts' \in 0..MaxAttempt
<1>1. CASE Proceed(r)
  BY <1>1 DEF TypeOK, Proceed
<1>2. CASE Conclude(r)
  BY <1>2 DEF TypeOK, Conclude
<1>3. CASE \E done \in SUBSET finished : Enqueue(r, done)
  BY <1>3, BoundAssumption DEF TypeOK, Enqueue
<1> QED BY <1>1, <1>2, <1>3 DEF GroupStep

\* Steps that move a run and leave tags, Releases and consumers alone.
LEMMA QuietStep ==
  ASSUME IInv, NEW r \in Run, GroupStep(r), RunOK(r)', Grows,
         UNCHANGED <<store, notified>>,
         head' \in 0..MaxCommit, kind' \in [Commit -> Kinds],
         ci' \in [Commit -> {"running", "success", "failure"}],
         cleared' \subseteq 0..MaxCommit, verified' \subseteq 0..MaxCommit
  PROVE  IInv'
<1>1. TypeOK'
  BY GroupTyped DEF IInv, TypeOK, store
<1>2. RunsOK'
  BY RunsKept DEF IInv
<1>3. DraftsWereVerified' /\ PublishedWasVerified'
  BY SoundKept DEF IInv, DraftsWereVerified, PublishedWasVerified, Sound, store
<1>4. NotifiedWasPublished' /\ OneCommitPerVersion'
  BY DEF IInv, NotifiedWasPublished, OneCommitPerVersion, store
<1> QED BY <1>1, <1>2, <1>3, <1>4 DEF IInv

-----------------------------------------------------------------------------
(* Every action keeps the invariant *)

LEMMA ActiveOK == ASSUME IInv, active # Nil PROVE active \in Run /\ RunOK(active)
  BY DEF IInv, TypeOK, RunsOK

LEMMA FinishedOK == ASSUME IInv, NEW r \in finished PROVE r \in Run /\ RunOK(r)
  BY DEF IInv, TypeOK, RunsOK

LEMMA FreshTyped ==
  ASSUME NEW trigger \in {"push", "tag", "dispatch"}, NEW sha \in 0..MaxCommit,
         NEW want \in Version \cup {Nil}
  PROVE  Fresh(trigger, sha, want) \in Run
  BY DEF Fresh, Run, Stages

\* A commit lands, CI finishes, a maintainer dispatches, a run is re-run.
LEMMA WorldKeepsIInv ==
  ASSUME IInv, World, ~\E v \in HandTags, c \in Commit : PushTagByHand(v, c)
  PROVE  IInv'
<1>1. ASSUME NEW k \in Kinds, Land(k) PROVE IInv'
  <2>1. head \in 0..MaxCommit /\ head + 1 \in Commit
    BY <1>1, BoundAssumption DEF Land, IInv, TypeOK, Commit
  <2>2. PICK r \in Run : r = Fresh("push", head + 1, Nil)
    BY <2>1, FreshTyped DEF Commit
  <2>3. GroupStep(r) /\ RunOK(r)' /\ Grows
    BY <1>1, <2>2 DEF Land, GroupStep, RunOK, Fresh, Grows, store, history
  <2> QED BY <1>1, <2>1, <2>2, <2>3, QuietStep DEF Land, IInv, TypeOK, store, history, Commit
<1>2. ASSUME NEW c \in Commit, NEW outcome \in {"success", "failure"}, CiFinishes(c, outcome) \/ CiReruns(c)
      PROVE  IInv'
  <2>1. TypeOK'
    BY <1>2 DEF CiFinishes, CiReruns, IInv, TypeOK, store, history, group
  <2> QED BY <1>2, <2>1 DEF CiFinishes, CiReruns, IInv, RunsOK, RunOK, Tagged, Sound, DraftsWereVerified,
             PublishedWasVerified, NotifiedWasPublished, OneCommitPerVersion, store, history, group
<1>3. ASSUME NEW v \in Explicit, Dispatch(v) PROVE IInv'
  <2>1. head \in 0..MaxCommit /\ v \in Version
    BY HumanVersions DEF IInv, TypeOK
  <2>2. PICK r \in Run : r = Fresh("dispatch", head, v)
    BY <2>1, FreshTyped
  <2>3. GroupStep(r) /\ RunOK(r)' /\ Grows
    BY <1>3, <2>1, <2>2 DEF Dispatch, GroupStep, RunOK, Fresh, Grows, store, history
  <2> QED BY <1>3, <2>1, <2>2, <2>3, QuietStep DEF Dispatch, IInv, TypeOK, store, history, repo
<1>4. ASSUME NEW q \in finished, RerunAll(q) PROVE IInv'
  <2>1. q \in Run /\ RunOK(q)
    BY FinishedOK
  <2>2. PICK r \in Run : r = Fresh(q.trigger, q.sha, q.want)
    BY <2>1, FreshTyped DEF Run
  <2>3. Grows /\ GroupStep(r)
    BY <1>4, <2>2 DEF RerunAll, GroupStep, Grows, store, history
  <2>4. RunOK(r)'
    BY <1>4, <2>1, <2>2 DEF RerunAll, RunOK, Fresh, Tagged, store
  <2> QED BY <1>4, <2>2, <2>3, <2>4, QuietStep DEF RerunAll, IInv, TypeOK, store, history, repo
<1>5. ASSUME NEW q \in finished, RerunFailed(q) PROVE IInv'
  <2>1. q \in Run /\ RunOK(q)
    BY FinishedOK
  <2>2. PICK r \in {[q EXCEPT !.step = "gate"], [q EXCEPT !.step = "version"], q,
                    [q EXCEPT !.step = "fanout", !.todo = q.lost, !.lost = {}]} :
          /\ Enqueue(r, finished \ {q})
          /\ r.step = "version" => q.step \in {"version", "release_failed"}
          /\ r.step = "fanout" => q.step \in {"fanout", "bump_failed"}
          /\ r # q => r.step \in {"gate", "version", "fanout"}
    BY <1>5, <2>1 DEF RerunFailed, Run, Stages
  <2>3. r \in Run
    BY <2>1, <2>2 DEF Run, Stages
  <2>4. Grows /\ GroupStep(r)
    BY <1>5, <2>2 DEF RerunFailed, GroupStep, Grows, store, history
  <2>5. RunOK(r)
    <3>1. CASE r = q
      BY <3>1, <2>1
    <3>2. CASE r # q
      BY <3>2, <2>1, <2>2 DEF RunOK, Run
    <3> QED BY <3>1, <3>2
  <2>6. RunOK(r)'
    BY <2>4, <2>5, RunKept
  <2> QED BY <1>5, <2>3, <2>4, <2>6, QuietStep DEF RerunFailed, IInv, TypeOK, store, history, repo
<1> QED BY <1>1, <1>2, <1>3, <1>4, <1>5 DEF World

\* A tag pushed by hand joins the tags and starts a run of its own.
LEMMA HandTagKeepsIInv ==
  ASSUME IInv, NEW v \in HandTags, NEW c \in Commit, PushTagByHand(v, c)
  PROVE  IInv'
<1>1. v \in Version /\ c \in 0..MaxCommit
  BY HumanVersions DEF Commit
<1>2. PICK r \in Run : r = Fresh("tag", c, v)
  BY <1>1, FreshTyped
<1>3. Grows /\ GroupStep(r) /\ Tagged(v, c)'
  <2>1. PICK new : /\ new = [v |-> v, c |-> c, how |-> "hand"]
                   /\ tags' = tags \cup {new}
    BY DEF PushTagByHand
  <2>2. new.v = v /\ new.c = c /\ new \in tags'
    BY <2>1
  <2>3. Tagged(v, c)'
    BY <2>2 DEF Tagged
  <2> QED BY <1>2, <2>3 DEF PushTagByHand, GroupStep, Grows, history
<1>4. RunOK(r)'
  BY <1>1, <1>2, <1>3 DEF RunOK, Fresh
<1>5. TypeOK'
  BY <1>1, <1>3, GroupTyped DEF PushTagByHand, IInv, TypeOK, Tag, repo, history
<1>6. RunsOK'
  BY <1>3, <1>4, RunsKept DEF IInv
<1>7. DraftsWereVerified' /\ PublishedWasVerified'
  BY <1>3, SoundKept DEF PushTagByHand, IInv, DraftsWereVerified, PublishedWasVerified, Sound
<1>8. NotifiedWasPublished' /\ OneCommitPerVersion'
  BY DEF PushTagByHand, IInv, NotifiedWasPublished, OneCommitPerVersion
<1> QED BY <1>5, <1>6, <1>7, <1>8 DEF IInv

\* A run that only moves to another step keeps the invariant when the new step
\* is justified by the old one.
LEMMA MoveKeepsIInv ==
  ASSUME IInv, NEW r \in Run, Proceed(r) \/ Conclude(r), RunOK(r),
         UNCHANGED <<repo, store, notified, history>>
  PROVE  IInv'
<1>1. Grows /\ GroupStep(r)
  BY DEF Grows, GroupStep, store, history
<1>2. RunOK(r)'
  BY <1>1, RunKept
<1> QED BY <1>1, <1>2, QuietStep DEF IInv, TypeOK, store, history, repo

\* A release job that fails keeps what its ci-gate established.
LEMMA FailReleaseKeepsIInv ==
  ASSUME IInv, active # Nil, active.step \notin {"gate", "gate_failed"}, FailRelease,
         UNCHANGED <<repo, store, notified, history>>
  PROVE  IInv'
<1>1. active \in Run /\ RunOK(active)
  BY ActiveOK
<1>2. PICK r \in Run : r = [active EXCEPT !.step = "release_failed"]
  BY <1>1 DEF Run, Stages
<1>3. RunOK(r)
  BY <1>1, <1>2 DEF RunOK, Run
<1> QED BY <1>2, <1>3, MoveKeepsIInv DEF FailRelease

\* A run with nothing to publish ends green.
LEMMA NothingKeepsIInv ==
  ASSUME IInv, At("version"), NothingToPublish, UNCHANGED <<repo, store, notified, history>>
  PROVE  IInv'
<1>1. active \in Run /\ RunOK(active)
  BY ActiveOK DEF At
<1>2. PICK r \in Run : r = [active EXCEPT !.step = "green"]
  BY <1>1 DEF Run, Stages
<1>3. RunOK(r)
  BY <1>1, <1>2 DEF RunOK, Run, At
<1> QED BY <1>2, <1>3, MoveKeepsIInv DEF NothingToPublish

\* A run that resolved a version carries the tag along when it does not create one.
LEMMA ResolvedRun ==
  ASSUME IInv, At("version"), NEW v \in Version, NEW create \in BOOLEAN,
         Release(v, create), create \/ Tagged(v, active.sha)
  PROVE  \E r \in Run : Proceed(r) /\ RunOK(r)
<1>1. active \in Run /\ RunOK(active)
  BY ActiveOK DEF At
<1>2. PICK r \in Run : r = [active EXCEPT !.step = "verify", !.v = v, !.create = create]
  BY <1>1 DEF Run, Stages
<1>3. RunOK(r)
  BY <1>1, <1>2 DEF RunOK, Run, At
<1> QED BY <1>2, <1>3 DEF Release

LEMMA ResolvedKeepsIInv ==
  ASSUME IInv, At("version"), NEW v \in Version, NEW create \in BOOLEAN,
         Release(v, create), create \/ Tagged(v, active.sha),
         UNCHANGED <<repo, store, notified, history>>
  PROVE  IInv'
  BY ResolvedRun, MoveKeepsIInv

\* A computed version is a version.
LEMMA NextVersionTyped == ASSUME NEW v \in Version, NEW bump PROVE NextVersion(v, bump) \in Version
<1>1. CASE bump = "major"
  BY <1>1 DEF NextVersion, Version
<1>2. CASE bump = "minor"
  BY <1>2 DEF NextVersion, Version
<1>3. CASE bump \notin {"major", "minor"}
  BY <1>3 DEF NextVersion, Version
<1> QED BY <1>1, <1>2, <1>3

LEMMA RecoverTagKeepsIInv == ASSUME IInv, RecoverTag PROVE IInv'
<1>1. PICK t \in TagAtHead : \/ AlreadyReleased(t)
                            \/ \E edited \in BOOLEAN : FinalizeDraft(t, edited)
                            \/ FinalizeTag(t)
  BY DEF RecoverTag
<1>2. At("version") /\ t \in tags /\ t.c = active.sha /\ t.v \in Version /\ Tagged(t.v, active.sha)
  BY DEF RecoverTag, Resolving, TagAtHead, Latest, Tagged, IInv, TypeOK, Tag
<1>3. CASE AlreadyReleased(t)
  BY <1>2, <1>3, NothingKeepsIInv DEF AlreadyReleased
<1>4. CASE FinalizeTag(t)
  BY <1>2, <1>4, ResolvedKeepsIInv DEF FinalizeTag
<1>5. ASSUME NEW edited \in BOOLEAN, FinalizeDraft(t, edited) PROVE IInv'
  <2>1. PICK r \in Run : Proceed(r) /\ RunOK(r)
    BY <1>2, <1>5, ResolvedRun DEF FinalizeDraft
  <2>2. Grows /\ GroupStep(r) /\ RunOK(r)'
    <3>1. Grows /\ GroupStep(r)
      BY <1>5, <2>1 DEF FinalizeDraft, Grows, GroupStep, history
    <3> QED BY <2>1, <3>1, RunKept
  <2>3. RunsOK'
    BY <2>2, RunsKept DEF IInv
  <2>4. TypeOK'
    BY <1>2, <1>5, <2>2, GroupTyped DEF FinalizeDraft, IInv, TypeOK, repo, history
  <2>5. DraftsWereVerified' /\ PublishedWasVerified'
    BY <1>5, <2>2, SoundKept DEF FinalizeDraft, IInv, DraftsWereVerified, PublishedWasVerified, Sound
  <2>6. NotifiedWasPublished' /\ OneCommitPerVersion'
    BY <1>5 DEF FinalizeDraft, IInv, NotifiedWasPublished, OneCommitPerVersion
  <2> QED BY <2>3, <2>4, <2>5, <2>6 DEF IInv
<1> QED BY <1>1, <1>3, <1>4, <1>5

LEMMA ResolveKeepsIInv == ASSUME IInv, Resolve PROVE IInv'
<1>1. CASE UsePushedTag
  <2>1. At("version") /\ active \in Run /\ RunOK(active) /\ active.trigger = "tag"
    BY <1>1, ActiveOK DEF UsePushedTag, Resolving, At
  <2>2. active.want \in Version /\ Tagged(active.want, active.sha)
    BY <2>1 DEF RunOK
  <2> QED BY <1>1, <2>1, <2>2, ResolvedKeepsIInv, FailReleaseKeepsIInv DEF UsePushedTag, At
<1>2. CASE UseExplicitVersion
  <2>1. At("version") /\ active \in Run /\ RunOK(active) /\ active.trigger = "dispatch"
    BY <1>2, ActiveOK DEF UseExplicitVersion, Resolving, At
  <2>2. active.want \in Version
    BY <2>1 DEF RunOK
  <2> QED BY <1>2, <2>1, <2>2, ResolvedKeepsIInv, FailReleaseKeepsIInv DEF UseExplicitVersion, At
<1>3. CASE ComputeVersion
  <2>1. At("version") /\ active # Nil /\ active.step \notin {"gate", "gate_failed"}
    BY <1>3 DEF ComputeVersion, Resolving, At
  <2>2. UNCHANGED <<repo, store, notified, history>>
    BY <1>3 DEF ComputeVersion
  <2>3. PICK t \in Latest :
          NothingToPublish \/ FailRelease
          \/ Release(NextVersion(t.v, Softened(t.v, Bump(Asked(t, active.sha)))), TRUE)
    BY <1>3 DEF ComputeVersion
  <2>4. NextVersion(t.v, Softened(t.v, Bump(Asked(t, active.sha)))) \in Version
    BY NextVersionTyped DEF Latest, IInv, TypeOK, Tag
  <2> QED BY <2>1, <2>2, <2>3, <2>4, NothingKeepsIInv, FailReleaseKeepsIInv, ResolvedKeepsIInv
<1> QED BY <1>1, <1>2, <1>3, RecoverTagKeepsIInv DEF Resolve

\* ci-gate clears the commit, verification verifies it.
LEMMA GateAndVerifyKeepIInv == ASSUME IInv, PassGate \/ Verify PROVE IInv'
<1>1. active \in Run /\ RunOK(active)
  BY ActiveOK DEF PassGate, Verify, At
<1>2. CASE PassGate
  <2>1. PICK r \in Run : r = [active EXCEPT !.step = "version"]
    BY <1>1 DEF Run, Stages
  <2>2. Grows /\ GroupStep(r)
    BY <1>2, <2>1 DEF PassGate, GroupStep, Grows, store
  <2>3. RunOK(r)'
    BY <1>1, <1>2, <2>1 DEF PassGate, RunOK, Run, Tagged, store
  <2> QED BY <1>1, <1>2, <2>1, <2>2, <2>3, QuietStep DEF PassGate, IInv, TypeOK, store, repo, Run
<1>3. CASE Verify
  <2>1. PICK r \in Run : r = [active EXCEPT !.step = IF active.create THEN "tag" ELSE "evidence"]
    BY <1>1 DEF Run, Stages
  <2>2. Grows /\ GroupStep(r)
    BY <1>3, <2>1 DEF Verify, GroupStep, Grows, store
  <2>3. RunOK(r)'
    BY <1>1, <1>3, <2>1 DEF Verify, At, RunOK, Run, Tagged, store
  <2> QED BY <1>1, <1>3, <2>1, <2>2, <2>3, QuietStep DEF Verify, IInv, TypeOK, store, repo, Run
<1> QED BY <1>2, <1>3

\* Pushing a tag: the remote refuses a version it already has.
LEMMA CreateTagKeepsIInv == ASSUME IInv, CreateTag PROVE IInv'
<1>1. active \in Run /\ RunOK(active) /\ active.step = "tag"
  BY ActiveOK DEF CreateTag, At
<1>2. PICK r \in Run : r = [active EXCEPT !.step = "evidence"]
  BY <1>1 DEF Run, Stages
<1>3. Grows /\ GroupStep(r)
  BY <1>2 DEF CreateTag, GroupStep, Grows, history
<1>4. PICK new : /\ new.v = active.v /\ new.c = active.sha /\ new \in Tag
                 /\ tags' = tags \cup {new} /\ \A t \in tags : t.v # new.v
  <2>1. PICK how \in {"run", "explicit"} :
          tags' = tags \cup {[v |-> active.v, c |-> active.sha, how |-> how]}
    BY DEF CreateTag
  <2>2. PICK new : new = [v |-> active.v, c |-> active.sha, how |-> how]
    OBVIOUS
  <2>3. new.v = active.v /\ new.c = active.sha
    BY <2>2
  <2>4. new \in Tag
    BY <1>1, <2>2 DEF Tag, Run, RunOK
  <2> QED BY <2>1, <2>2, <2>3, <2>4 DEF CreateTag
<1>5. RunOK(r)'
  <2>1. Tagged(r.v, r.sha)'
    BY <1>1, <1>2, <1>4 DEF Tagged, Run
  <2>2. r.trigger = "tag" => Tagged(r.want, r.sha)'
    BY <1>1, <1>2, <1>4 DEF RunOK, Run, Tagged
  <2> QED BY <1>1, <1>2, <2>1, <2>2 DEF CreateTag, RunOK, Run, history
<1>6. RunsOK'
  BY <1>3, <1>5, RunsKept DEF IInv
<1>7. TypeOK'
  BY <1>3, <1>4, GroupTyped DEF CreateTag, IInv, TypeOK, repo, history
<1>8. DraftsWereVerified' /\ PublishedWasVerified'
  BY <1>3, SoundKept DEF CreateTag, IInv, DraftsWereVerified, PublishedWasVerified, Sound
<1>9. NotifiedWasPublished' /\ OneCommitPerVersion'
  BY <1>4 DEF CreateTag, IInv, NotifiedWasPublished, OneCommitPerVersion
<1> QED BY <1>6, <1>7, <1>8, <1>9 DEF IInv

\* Publishing, or failing to: the version is tagged at a verified commit.
LEMMA PublishKeepsIInv == ASSUME IInv, PublishRelease \/ PublishFails PROVE IInv'
<1>1. active \in Run /\ RunOK(active) /\ active.step = "publish" /\ active.v \in Version
  BY ActiveOK DEF PublishRelease, PublishFails, At, RunOK
<1>2. Sound(active.v)
  BY <1>1 DEF RunOK, Tagged, Sound
<1>3. Grows /\ published' \subseteq published \cup {active.v} /\ drafts' \subseteq drafts \cup {active.v}
  BY DEF PublishRelease, PublishFails, Grows, history
<1>4. PICK r \in Run : GroupStep(r) /\ RunOK(r)'
  <2>1. CASE PublishRelease
    <3>1. PICK r \in {[active EXCEPT !.step = "green"],
                      [active EXCEPT !.step = "fanout", !.todo = Consumers, !.lost = {}]} :
            Proceed(r) \/ Conclude(r)
      BY <2>1 DEF PublishRelease
    <3>2. r \in Run /\ r.v = active.v /\ r.sha = active.sha /\ r.trigger = active.trigger
          /\ r.want = active.want /\ r.step \in {"green", "fanout"}
      BY <1>1, <3>1 DEF Run, Stages
    <3>3. RunOK(r)'
      BY <1>1, <2>1, <3>2 DEF PublishRelease, RunOK, Tagged, history
    <3> QED BY <3>1, <3>2, <3>3 DEF GroupStep
  <2>2. CASE PublishFails
    <3>1. PICK r \in Run : r = [active EXCEPT !.step = "release_failed"]
      BY <1>1 DEF Run, Stages
    <3>2. RunOK(r)
      BY <1>1, <3>1 DEF RunOK, Run
    <3> QED BY <1>3, <2>2, <3>1, <3>2, RunKept DEF PublishFails, FailRelease, GroupStep
  <2> QED BY <2>1, <2>2
<1>5. RunsOK'
  BY <1>3, <1>4, RunsKept DEF IInv
<1>6. TypeOK'
  BY <1>1, <1>3, <1>4, GroupTyped DEF PublishRelease, PublishFails, IInv, TypeOK, repo, history
<1>7. DraftsWereVerified' /\ PublishedWasVerified'
  BY <1>2, <1>3, SoundKept DEF IInv, DraftsWereVerified, PublishedWasVerified, Sound
<1>8. NotifiedWasPublished' /\ OneCommitPerVersion'
  BY <1>3 DEF PublishRelease, PublishFails, IInv, NotifiedWasPublished, OneCommitPerVersion, Grows
<1> QED BY <1>5, <1>6, <1>7, <1>8 DEF IInv

\* A leg of the fan-out, with the report at the end.
LEMMA LegKeepsIInv ==
  ASSUME IInv, NEW c \in Consumers, BumpConsumer(c) \/ BumpFails(c)
  PROVE  IInv'
<1>1. active \in Run /\ RunOK(active) /\ active.step = "fanout" /\ active.v \in published
  BY ActiveOK DEF BumpConsumer, BumpFails, At, RunOK
<1>2. Grows /\ UNCHANGED store /\ UNCHANGED history /\ UNCHANGED repo
  BY DEF BumpConsumer, BumpFails, Grows, store, history
<1>3. PICK ok \in BOOLEAN : AfterLeg(c, ok)
  BY DEF BumpConsumer, BumpFails
<1>4. PICK r \in Run : GroupStep(r) /\ RunOK(r)
  <2>1. PICK q \in Run : /\ q = [active EXCEPT !.todo = @ \ {c},
                                               !.lost = IF ok THEN @ ELSE @ \cup {c}]
    BY <1>1 DEF Run
  <2>2. RunOK(q)
    BY <1>1, <2>1 DEF RunOK, Run
  <2>3. CASE q.todo # {}
    BY <1>3, <2>1, <2>2, <2>3 DEF AfterLeg, GroupStep
  <2>4. CASE q.todo = {}
    <3>1. PICK end \in Stages : end = IF q.lost = {} THEN "green" ELSE "bump_failed"
      BY DEF Stages
    <3>2. PICK r \in Run : r = [q EXCEPT !.step = end]
      BY DEF Run
    <3>3. Conclude(r)
      BY <1>3, <2>1, <2>4, <3>1, <3>2 DEF AfterLeg
    <3>4. RunOK(r)
      BY <1>1, <2>1, <2>2, <3>1, <3>2 DEF RunOK, Run
    <3> QED BY <3>3, <3>4 DEF GroupStep
  <2> QED BY <2>3, <2>4
<1>5. RunsOK'
  BY <1>2, <1>4, RunKept, RunsKept DEF IInv
<1>6. notified' \in [Consumers -> SUBSET Version] /\ NotifiedWasPublished'
  BY <1>1, <1>2 DEF BumpConsumer, BumpFails, IInv, TypeOK, NotifiedWasPublished, store
<1>7. TypeOK'
  BY <1>2, <1>4, <1>6, GroupTyped DEF IInv, TypeOK, repo, history, store
<1>8. DraftsWereVerified' /\ PublishedWasVerified' /\ OneCommitPerVersion'
  BY <1>2 DEF IInv, DraftsWereVerified, PublishedWasVerified, Sound, OneCommitPerVersion, store, history
<1> QED BY <1>5, <1>6, <1>7, <1>8 DEF IInv

\* Steps that only move the run on.
LEMMA MoveOnKeepsIInv ==
  ASSUME IInv, \/ RefuseGate \/ RefuseUnreachable \/ VerifyFails \/ TagPushFails
               \/ WriteEvidence(TRUE) \/ WriteEvidence(FALSE)
  PROVE  IInv'
<1>1. active \in Run /\ RunOK(active) /\ active # Nil
  BY ActiveOK DEF RefuseGate, RefuseUnreachable, VerifyFails, TagPushFails, WriteEvidence, At, Resolving
<1>2. CASE RefuseGate
  <2>1. PICK r \in Run : r = [active EXCEPT !.step = "gate_failed"]
    BY <1>1 DEF Run, Stages
  <2>2. RunOK(r)
    BY <1>1, <2>1 DEF RunOK, Run
  <2> QED BY <1>2, <2>1, <2>2, MoveKeepsIInv DEF RefuseGate
<1>3. CASE RefuseUnreachable \/ VerifyFails \/ TagPushFails \/ WriteEvidence(FALSE)
  BY <1>1, <1>3, FailReleaseKeepsIInv
     DEF RefuseUnreachable, VerifyFails, TagPushFails, WriteEvidence, At, Resolving
<1>4. CASE WriteEvidence(TRUE)
  <2>1. PICK r \in Run : r = [active EXCEPT !.step = "publish"]
    BY <1>1 DEF Run, Stages
  <2>2. RunOK(r)
    BY <1>1, <1>4, <2>1 DEF RunOK, Run, WriteEvidence, At
  <2> QED BY <1>4, <2>1, <2>2, MoveKeepsIInv DEF WriteEvidence
<1> QED BY <1>2, <1>3, <1>4

-----------------------------------------------------------------------------
(* The theorems *)

LEMMA InitIInv == Init => IInv
<1> SUFFICES ASSUME Init PROVE IInv
  OBVIOUS
<1>1. TypeOK
  BY SeedAssumption, BoundAssumption DEF Init, TypeOK, Kinds, Tag, Run, Version
<1>2. RunsOK /\ DraftsWereVerified /\ PublishedWasVerified
  BY DEF Init, RunsOK, DraftsWereVerified, PublishedWasVerified
<1>3. NotifiedWasPublished /\ OneCommitPerVersion
  BY DEF Init, NotifiedWasPublished, OneCommitPerVersion
<1> QED BY <1>1, <1>2, <1>3 DEF IInv

LEMMA NextIInv == IInv /\ [Next]_vars => IInv'
<1> SUFFICES ASSUME IInv, [Next]_vars PROVE IInv'
  OBVIOUS
<1>1. CASE World
  BY <1>1, WorldKeepsIInv, HandTagKeepsIInv
<1>2. CASE Progress
  BY <1>2, ResolveKeepsIInv, GateAndVerifyKeepIInv, CreateTagKeepsIInv, PublishKeepsIInv,
     LegKeepsIInv, MoveOnKeepsIInv DEF Progress
<1>3. CASE Failure
  BY <1>3, PublishKeepsIInv, LegKeepsIInv, MoveOnKeepsIInv DEF Failure
<1>4. CASE UNCHANGED vars
  <2>1. /\ UNCHANGED <<head, kind, ci, tags, drafts, published, notified>>
        /\ UNCHANGED <<active, pending, finished, attempts, cleared, verified>>
    BY <1>4 DEF vars, repo, store, group, history
  <2>2. TypeOK'
    BY <2>1 DEF IInv, TypeOK
  <2>3. RunsOK' /\ DraftsWereVerified' /\ PublishedWasVerified'
    BY <2>1 DEF IInv, RunsOK, RunOK, Tagged, DraftsWereVerified, PublishedWasVerified, Sound
  <2> QED BY <2>1, <2>2, <2>3 DEF IInv, NotifiedWasPublished, OneCommitPerVersion
<1> QED BY <1>1, <1>2, <1>3, <1>4 DEF Next

\* The inductive invariant holds in every reachable state.
THEOREM Invariance == Spec => []IInv
  BY InitIInv, NextIInv, PTL DEF Spec

\* Every variable keeps its type (the whole of module-release.yaml).
THEOREM Typing == Spec => []TypeOK
<1>1. IInv => TypeOK
  BY DEF IInv
<1> QED BY <1>1, Invariance, PTL

\* A version names one commit for good: CreateTag and a tag pushed by hand
\* cannot give the same version to two commits, in any interleaving.
THEOREM VersionsAreImmutable == Spec => []OneCommitPerVersion
<1>1. IInv => OneCommitPerVersion
  BY DEF IInv
<1> QED BY <1>1, Invariance, PTL

\* Whatever is re-run, recovered or finalized, a public Release is of a tagged
\* commit that passed ci-gate and every verification gate.
THEOREM ReleasesAreVerified == Spec => []PublishedWasVerified
<1>1. IInv => PublishedWasVerified
  BY DEF IInv
<1> QED BY <1>1, Invariance, PTL

\* bump-consumers never sends a consumer to a version without a public Release.
THEOREM ConsumersFollowReleases == Spec => []NotifiedWasPublished
<1>1. IInv => NotifiedWasPublished
  BY DEF IInv
<1> QED BY <1>1, Invariance, PTL

-----------------------------------------------------------------------------
(* The pipeline implements the ledger *)

Seen == <<Given, published, notified, Fit>>

\* A version that is tagged at a verified commit is ready in the ledger.
LEMMA SoundIsReady == ASSUME NEW v, Sound(v) PROVE Ledger!Ready(v)
<1>1. PICK t \in tags : t.v = v /\ t.c \in cleared \cap verified
  BY DEF Sound
<1>2. [v |-> t.v, c |-> t.c] \in Given
  BY DEF Given
<1> QED BY <1>1, <1>2 DEF Ledger!Ready, Fit

\* A tag under a free version is one entry of the ledger.
LEMMA TagGives ==
  ASSUME NEW new, tags' = tags \cup {new}, \A t \in tags : t.v # new.v,
         UNCHANGED <<published, notified, cleared, verified>>
  PROVE  Ledger!Next
<1>1. PICK t : t = [v |-> new.v, c |-> new.c]
  OBVIOUS
<1>2. Given' = Given \cup {t} /\ t.v = new.v
  BY <1>1 DEF Given
<1>3. \A u \in Given : u.v # t.v
  BY <1>2 DEF Given
<1>4. Ledger!Give(t) /\ t \in Given'
  BY <1>2, <1>3 DEF Ledger!Give, Fit
<1> QED BY <1>4 DEF Ledger!Next

\* ci-gate and the verification let at most their own commit pass.
LEMMA GatesLetPass ==
  ASSUME NEW sha, UNCHANGED <<tags, published, notified>>,
         \/ cleared' = cleared \cup {sha} /\ verified' = verified
         \/ verified' = verified \cup {sha} /\ cleared' = cleared
  PROVE  [Ledger!Next]_Seen
<1>1. UNCHANGED <<Given, published, notified>>
  BY DEF Given
<1>2. Fit' = Fit \/ Fit' = Fit \cup {sha}
  BY DEF Fit
<1>3. CASE Fit' = Fit
  BY <1>1, <1>3 DEF Seen
<1>4. CASE Fit' = Fit \cup {sha}
  <2>1. Ledger!Pass(sha) /\ sha \in Fit'
    BY <1>1, <1>4 DEF Ledger!Pass
  <2> QED BY <2>1 DEF Ledger!Next
<1> QED BY <1>2, <1>3, <1>4

\* A Release that turns public is of a version that is ready.
LEMMA ReleasePublishes ==
  ASSUME NEW v, Sound(v), published' = published \cup {v}, UNCHANGED <<tags, notified, cleared, verified>>
  PROVE  Ledger!Next
<1>1. Given' = Given /\ Fit' = Fit
  BY DEF Given, Fit
<1>2. Ledger!Publish(v) /\ v \in published'
  BY <1>1, SoundIsReady DEF Ledger!Publish
<1> QED BY <1>2 DEF Ledger!Next

LEMMA LedgerStep == IInv /\ [Next]_vars => [Ledger!Next]_Seen
<1> SUFFICES ASSUME IInv, [Next]_vars PROVE [Ledger!Next]_Seen
  OBVIOUS
<1>1. ASSUME UNCHANGED <<tags, published, notified, cleared, verified>> PROVE UNCHANGED Seen
  BY <1>1 DEF Seen, Given, Fit
<1>2. CASE World
  <2>1. ASSUME NEW v \in HandTags, NEW c \in Commit, PushTagByHand(v, c) PROVE Ledger!Next
    <3>1. PICK new : new = [v |-> v, c |-> c, how |-> "hand"]
      OBVIOUS
    <3>2. /\ tags' = tags \cup {new} /\ \A t \in tags : t.v # new.v
          /\ UNCHANGED <<published, notified, cleared, verified>>
      BY <2>1, <3>1 DEF PushTagByHand, history
    <3> QED BY <3>2, TagGives
  <2>2. CASE ~\E v \in HandTags, c \in Commit : PushTagByHand(v, c)
    BY <1>1, <1>2, <2>2 DEF World, Land, CiFinishes, CiReruns, Dispatch, RerunAll, RerunFailed, store, history
  <2> QED BY <2>1, <2>2
<1>3. CASE PassGate \/ Verify
  <2>1. /\ UNCHANGED <<tags, published, notified>>
        /\ \/ cleared' = cleared \cup {active.sha} /\ verified' = verified
           \/ verified' = verified \cup {active.sha} /\ cleared' = cleared
    BY <1>3 DEF PassGate, Verify, store
  <2> QED BY <2>1, GatesLetPass
<1>4. CASE Resolve
  <2>1. CASE UsePushedTag \/ UseExplicitVersion \/ ComputeVersion
    BY <1>1, <2>1 DEF UsePushedTag, UseExplicitVersion, ComputeVersion, store, history
  <2>2. ASSUME NEW t \in TagAtHead, AlreadyReleased(t) \/ FinalizeTag(t) PROVE UNCHANGED Seen
    BY <1>1, <2>2 DEF AlreadyReleased, FinalizeTag, store, history
  <2>3. ASSUME NEW t \in TagAtHead, NEW edited \in BOOLEAN, FinalizeDraft(t, edited) PROVE [Ledger!Next]_Seen
    <3>1. CASE edited
      <4>1. Sound(t.v)
        BY <2>3 DEF FinalizeDraft, IInv, DraftsWereVerified
      <4>2. published' = published \cup {t.v} /\ UNCHANGED <<tags, notified, cleared, verified>>
        BY <2>3, <3>1 DEF FinalizeDraft, history
      <4> QED BY <4>1, <4>2, ReleasePublishes
    <3>2. CASE ~edited
      BY <1>1, <2>3, <3>2 DEF FinalizeDraft, history
    <3> QED BY <3>1, <3>2
  <2> QED BY <1>4, <2>1, <2>2, <2>3 DEF Resolve, RecoverTag
<1>5. CASE CreateTag
  <2>1. PICK how : tags' = tags \cup {[v |-> active.v, c |-> active.sha, how |-> how]}
    BY <1>5 DEF CreateTag
  <2>2. PICK new : new = [v |-> active.v, c |-> active.sha, how |-> how]
    OBVIOUS
  <2>3. /\ tags' = tags \cup {new} /\ \A t \in tags : t.v # new.v
        /\ UNCHANGED <<published, notified, cleared, verified>>
    BY <1>5, <2>1, <2>2 DEF CreateTag, history
  <2> QED BY <2>3, TagGives
<1>6. CASE PublishRelease \/ PublishFails
  <2>1. Sound(active.v)
    BY <1>6, ActiveOK DEF PublishRelease, PublishFails, At, RunOK, Tagged, Sound
  <2>2. /\ published' \in {published, published \cup {active.v}}
        /\ UNCHANGED <<tags, notified, cleared, verified>>
    BY <1>6 DEF PublishRelease, PublishFails, history
  <2> QED BY <1>1, <2>1, <2>2, ReleasePublishes
<1>7. ASSUME NEW c \in Consumers, BumpConsumer(c) PROVE Ledger!Next
  <2>1. active.v \in published
    BY <1>7, ActiveOK DEF BumpConsumer, At, RunOK
  <2>2. /\ notified' = [notified EXCEPT ![c] = @ \cup {active.v}]
        /\ UNCHANGED <<tags, published, cleared, verified>>
    BY <1>7 DEF BumpConsumer, store, history
  <2>3. Given' = Given /\ Fit' = Fit
    BY <2>2 DEF Given, Fit
  <2>4. active.v \in notified'[c]
    BY <2>2 DEF IInv, TypeOK
  <2>5. Ledger!Tell(c, active.v)
    BY <2>1, <2>2, <2>3 DEF Ledger!Tell
  <2> QED BY <2>4, <2>5 DEF Ledger!Next
<1>8. CASE WriteEvidence(TRUE) \/ WriteEvidence(FALSE)
  BY <1>1, <1>8 DEF WriteEvidence, store, history
<1>9. CASE RefuseGate \/ RefuseUnreachable \/ VerifyFails \/ TagPushFails
  BY <1>1, <1>9 DEF RefuseGate, RefuseUnreachable, VerifyFails, TagPushFails, store, history
<1>10. ASSUME NEW c \in Consumers, BumpFails(c) PROVE UNCHANGED Seen
  BY <1>1, <1>10 DEF BumpFails, store, history
<1>11. CASE UNCHANGED vars
  BY <1>1, <1>11 DEF vars, store, history
<1> QED BY <1>2, <1>3, <1>4, <1>5, <1>6, <1>7, <1>8, <1>9, <1>10, <1>11 DEF Next, Progress, Failure

\* Every run, re-run, recovery and hand of module-release.yaml together does
\* nothing to the world but what the ledger allows: a version is given once and
\* for ever, a Release turns public only when its commit passed every gate and
\* stays public, and a consumer is told only of public versions.
THEOREM ImplementsTheLedger == Spec => ImplementsLedger
<1>1. Init => Ledger!Init
  <2> SUFFICES ASSUME Init PROVE Ledger!Init
    OBVIOUS
  <2>1. IInv
    BY InitIInv
  <2>2. \A t, u \in Given : t.v = u.v => t = u
    BY <2>1 DEF IInv, OneCommitPerVersion, Given
  <2>3. \A v \in published : Ledger!Ready(v)
    BY <2>1, SoundIsReady DEF IInv, PublishedWasVerified, Sound
  <2> QED BY <2>1, <2>2, <2>3 DEF Ledger!Init, IInv, NotifiedWasPublished
<1> QED BY <1>1, InitIInv, NextIInv, LedgerStep, PTL DEF Spec, ImplementsLedger, Ledger!Spec, Seen

-----------------------------------------------------------------------------
(* Versions follow history *)

\* Two versions of which neither is newer are the same.
LEMMA NewerIsTotal ==
  ASSUME NEW v \in Version, NEW w \in Version, ~Newer(v, w), ~Newer(w, v)
  PROVE  v = w
BY DEF Newer, Version

\* What is newer than v is newer than whatever is not above v.
LEMMA NewerIsTransitive ==
  ASSUME NEW u \in Version, NEW v \in Version, NEW w \in Version, Newer(w, v), ~Newer(u, v)
  PROVE  Newer(w, u) /\ ~Newer(u, w)
BY DEF Newer, Version

\* What lies between two versions of one boundary is inside it.
LEMMA BoundaryIsConvex ==
  ASSUME NEW u \in Version, NEW v \in Version, NEW w \in Version,
         Newer(w, v), ~Newer(u, v), Boundary(u) = Boundary(w)
  PROVE  Boundary(v) = Boundary(w)
<1>1. /\ u.ma \in Nat /\ u.mi \in Nat /\ v.ma \in Nat /\ v.mi \in Nat /\ w.ma \in Nat /\ w.mi \in Nat
      /\ u.pa \in Nat /\ v.pa \in Nat /\ w.pa \in Nat
  BY DEF Version
<1>2. u.ma <= v.ma /\ v.ma <= w.ma
  BY <1>1 DEF Newer
<1>3. CASE u.ma = 0
  <2>1. Boundary(u) = <<0, u.mi>>
    BY <1>3 DEF Boundary
  <2>2. w.ma = 0 /\ w.mi = u.mi
    BY <1>1, <2>1 DEF Boundary
  <2>3. v.ma = 0 /\ v.mi = w.mi
    BY <1>1, <1>2, <1>3, <2>2 DEF Newer
  <2> QED BY <2>2, <2>3 DEF Boundary
<1>4. CASE u.ma # 0
  <2>1. Boundary(u) = <<u.ma, 0>>
    BY <1>4 DEF Boundary
  <2>2. w.ma = u.ma
    BY <1>1, <1>4, <2>1 DEF Boundary
  <2>3. v.ma = w.ma /\ v.ma # 0
    BY <1>1, <1>2, <1>4, <2>2
  <2> QED BY <2>2, <2>3 DEF Boundary
<1> QED BY <1>3, <1>4

\* The next version is newer, and across a boundary if a breaking change asked for it.
LEMMA NextVersionGrows ==
  ASSUME NEW v \in Version, NEW bump
  PROVE  /\ Newer(NextVersion(v, bump), v)
         /\ bump = "major" => Boundary(NextVersion(v, bump)) # Boundary(v)
         /\ bump = "minor" /\ v.ma = 0 => Boundary(NextVersion(v, bump)) # Boundary(v)
<1>0. v.ma \in Nat /\ v.mi \in Nat /\ v.pa \in Nat
  BY DEF Version
<1>1. CASE bump = "major"
  <2>1. NextVersion(v, bump) = [ma |-> v.ma + 1, mi |-> 0, pa |-> 0]
    BY <1>1 DEF NextVersion
  <2> QED BY <1>0, <1>1, <2>1 DEF Newer, Boundary
<1>2. CASE bump = "minor"
  <2>1. NextVersion(v, bump) = [ma |-> v.ma, mi |-> v.mi + 1, pa |-> 0]
    BY <1>2 DEF NextVersion
  <2> QED BY <1>0, <1>2, <2>1 DEF Newer, Boundary
<1>3. CASE bump \notin {"major", "minor"}
  <2>1. NextVersion(v, bump) = [ma |-> v.ma, mi |-> v.mi, pa |-> v.pa + 1]
    BY <1>3 DEF NextVersion
  <2> QED BY <1>0, <1>3, <2>1 DEF Newer
<1> QED BY <1>1, <1>2, <1>3

Group == finished \cup ({active, pending} \ {Nil})

\* Every run was started by a push, of a commit that is there; only the active
\* run is between its version and its tag.
FromPushes ==
  /\ \A r \in Group : r.trigger = "push" /\ r.sha <= head
  /\ \A r \in finished \cup ({pending} \ {Nil}) : r.step \notin {"verify", "tag"}
  /\ \A t \in tags : t.c <= head

OneTagPerCommit == \A t, u \in tags : t.c = u.c => t = u

\* v follows the newest tag when it is released at sha.
Follows(v, sha) ==
  \E t \in Latest :
    /\ t.c < sha /\ Newer(v, t.v)
    /\ (\E c \in Commit : t.c < c /\ c <= sha /\ kind[c] = "major") => Boundary(t.v) # Boundary(v)

Creates(r) == r.step = "tag" \/ (r.step = "verify" /\ r.create)
Computed == active # Nil /\ Creates(active) => Follows(active.v, active.sha)

Ordered == /\ FromPushes /\ OneTagPerCommit /\ Computed
           /\ VersionsFollowHistory /\ BreakingCrossesBoundary

\* The kinds of the commits that are there stay.
KindsStay == head <= head' /\ \A c \in Commit : c <= head => kind'[c] = kind[c]

\* What was said of the tags still holds while they stay.
LEMMA TagsStay ==
  ASSUME IInv, IInv', Ordered, tags' = tags, KindsStay
  PROVE  /\ OneTagPerCommit' /\ VersionsFollowHistory' /\ BreakingCrossesBoundary'
         /\ \A t \in tags' : t.c <= head'
         /\ \A r \in Group : r.sha <= head'
         /\ \A v \in Version : \A sha \in 0..MaxCommit : sha <= head /\ Follows(v, sha) => Follows(v, sha)'
<1>1. /\ head \in Int /\ head' \in Int /\ \A c \in Commit : c \in Int
      /\ \A t \in tags : t.c \in Int /\ t.c <= head
  BY BoundAssumption DEF IInv, TypeOK, Tag, Ordered, FromPushes, Commit
<1>2. OneTagPerCommit' /\ VersionsFollowHistory'
  BY DEF Ordered, OneTagPerCommit, VersionsFollowHistory
<1>3. BreakingCrossesBoundary'
  BY <1>1 DEF Ordered, BreakingCrossesBoundary, KindsStay
<1>4. \A t \in tags' : t.c <= head'
  BY <1>1 DEF KindsStay
<1>5. \A r \in Group : r.sha <= head'
  <2>1. \A r \in Group : r \in Run /\ r.sha <= head
    BY DEF Group, IInv, TypeOK, Ordered, FromPushes
  <2> QED BY <1>1, <2>1 DEF KindsStay, Run
<1>6. ASSUME NEW v \in Version, NEW sha \in 0..MaxCommit, sha <= head, Follows(v, sha)
      PROVE  Follows(v, sha)'
  <2>1. Latest' = Latest
    BY DEF Latest
  <2>2. \A c \in Commit : c <= sha => kind'[c] = kind[c]
    BY <1>1, <1>6 DEF KindsStay
  <2> QED BY <1>6, <2>1, <2>2 DEF Follows
<1> QED BY <1>2, <1>3, <1>4, <1>5, <1>6

\* Runs move, start and end; a run at its tag carries a version that follows.
LEMMA GroupKeepsOrder ==
  ASSUME IInv, IInv', Ordered, NEW r \in Run, GroupStep(r), tags' = tags, KindsStay,
         r.trigger = "push", r.sha <= head',
         r.step \in {"verify", "tag"} => Proceed(r),
         Creates(r) => r.v \in Version /\ r.sha <= head /\ Follows(r.v, r.sha)
  PROVE  Ordered'
<1>1. Group' \subseteq Group \cup {r}
  BY DEF Group, GroupStep, Proceed, Conclude, Enqueue
<1>2. \A q \in (finished \cup ({pending} \ {Nil}))' : q.step \notin {"verify", "tag"}
  <2>1. CASE Proceed(r)
    BY <2>1 DEF Proceed, Ordered, FromPushes
  <2>2. CASE ~Proceed(r)
    <3>1. (finished \cup ({pending} \ {Nil}))' \subseteq finished \cup ({pending} \ {Nil}) \cup {r}
      BY <2>2 DEF GroupStep, Conclude, Enqueue
    <3> QED BY <2>2, <3>1 DEF Ordered, FromPushes
  <2> QED BY <2>1, <2>2
<1>3. \A q \in Group' : q.trigger = "push" /\ q.sha <= head'
  BY <1>1, TagsStay DEF Ordered, FromPushes
<1>4. FromPushes'
  BY <1>2, <1>3, TagsStay DEF FromPushes
<1>5. Computed'
  <2>1. SUFFICES ASSUME active' # Nil, Creates(active)' PROVE Follows(active.v, active.sha)'
    BY DEF Computed
  <2>2. PICK a : a = active'
    OBVIOUS
  <2>3. Creates(a)
    BY <2>1, <2>2 DEF Creates
  <2>4. a = r \/ a = active \/ a = pending
    BY <2>2 DEF GroupStep, Proceed, Conclude, Enqueue
  <2>5. CASE a = r
    BY <2>2, <2>3, <2>5, TagsStay DEF Run
  <2>6. CASE a = active
    <3>1. a \in Run /\ a.sha <= head /\ Follows(a.v, a.sha) /\ RunOK(a)
      BY <2>1, <2>2, <2>3, <2>6 DEF Ordered, Computed, FromPushes, Group, IInv, TypeOK, RunsOK
    <3>2. a.v \in Version /\ a.sha \in 0..MaxCommit
      BY <2>3, <3>1 DEF Creates, RunOK, Run
    <3> QED BY <2>2, <3>1, <3>2, TagsStay
  <2>7. CASE a = pending
    BY <2>1, <2>2, <2>3, <2>7 DEF Creates, Ordered, FromPushes
  <2> QED BY <2>4, <2>5, <2>6, <2>7
<1> QED BY <1>4, <1>5, TagsStay DEF Ordered

\* The active run moves on, past its tag or without one.
LEMMA MoveKeepsOrder ==
  ASSUME IInv, IInv', Ordered, active # Nil, NEW r \in Run, Proceed(r) \/ Conclude(r),
         tags' = tags, head' = head, kind' = kind,
         r.trigger = active.trigger, r.sha = active.sha, r.step \notin {"verify", "tag"}
  PROVE  Ordered'
<1>1. GroupStep(r) /\ KindsStay
  BY DEF GroupStep, KindsStay, IInv, TypeOK
<1>2. r.trigger = "push" /\ r.sha <= head'
  BY DEF Ordered, FromPushes, Group
<1>3. ~Creates(r)
  BY DEF Creates
<1> QED BY <1>1, <1>2, <1>3, GroupKeepsOrder

LEMMA WorldKeepsOrder ==
  ASSUME IInv, IInv', Ordered, HandTags = {}, Explicit = {}, World
  PROVE  Ordered'
<1>0. head \in Int /\ \A c \in Commit : c \in Int
  BY DEF IInv, TypeOK, Commit
<1>1. ASSUME NEW k \in Kinds, Land(k) PROVE Ordered'
  <2>1. head \in 0..MaxCommit /\ head + 1 \in Commit /\ head + 1 \in 0..MaxCommit
    BY <1>1, BoundAssumption DEF Land, IInv, TypeOK, Commit
  <2>2. PICK r \in Run : r = Fresh("push", head + 1, Nil)
    BY <2>1, FreshTyped
  <2>3. r.trigger = "push" /\ r.sha = head + 1 /\ r.step = "gate"
    BY <2>2 DEF Fresh
  <2>4. GroupStep(r) /\ tags' = tags /\ head' = head + 1
    BY <1>1, <2>2 DEF Land, GroupStep, store
  <2>5. KindsStay
    BY <1>0, <1>1, <2>1 DEF Land, KindsStay, IInv, TypeOK
  <2> QED BY <1>0, <2>3, <2>4, <2>5, GroupKeepsOrder DEF Creates
<1>2. ASSUME NEW c \in Commit, NEW outcome \in {"success", "failure"}, CiFinishes(c, outcome) \/ CiReruns(c)
      PROVE  Ordered'
  BY <1>2 DEF CiFinishes, CiReruns, store, group, Ordered, FromPushes, Group, OneTagPerCommit, Computed, Creates, Follows,
              Latest, VersionsFollowHistory, BreakingCrossesBoundary
<1>3. ASSUME NEW q \in finished, RerunAll(q) PROVE Ordered'
  <2>1. q \in Run /\ q.trigger = "push" /\ q.sha <= head
    BY FinishedOK DEF Ordered, FromPushes, Group
  <2>2. PICK r \in Run : r = Fresh(q.trigger, q.sha, q.want)
    BY <2>1, FreshTyped DEF Run
  <2>3. r.trigger = "push" /\ r.sha = q.sha /\ r.step = "gate"
    BY <2>1, <2>2 DEF Fresh
  <2>4. GroupStep(r) /\ tags' = tags /\ head' = head /\ KindsStay
    BY <1>0, <1>3, <2>2 DEF RerunAll, GroupStep, store, repo, KindsStay
  <2> QED BY <2>1, <2>3, <2>4, GroupKeepsOrder DEF Creates
<1>4. ASSUME NEW q \in finished, RerunFailed(q) PROVE Ordered'
  <2>1. q \in Run /\ q.trigger = "push" /\ q.sha <= head /\ q.step \notin {"verify", "tag"}
    BY FinishedOK DEF Ordered, FromPushes, Group
  <2>2. PICK r \in {[q EXCEPT !.step = "gate"], [q EXCEPT !.step = "version"], q,
                    [q EXCEPT !.step = "fanout", !.todo = q.lost, !.lost = {}]} :
          Enqueue(r, finished \ {q})
    BY <1>4 DEF RerunFailed
  <2>3. r \in Run /\ r.trigger = "push" /\ r.sha = q.sha /\ r.step \notin {"verify", "tag"}
    BY <2>1, <2>2 DEF Run, Stages
  <2>4. GroupStep(r) /\ tags' = tags /\ head' = head /\ KindsStay
    BY <1>0, <1>4, <2>2 DEF RerunFailed, GroupStep, store, repo, KindsStay
  <2> QED BY <2>1, <2>3, <2>4, GroupKeepsOrder DEF Creates
<1> QED BY <1>1, <1>2, <1>3, <1>4 DEF World

\* The bump that the commits since t ask for takes the version where they ask.
LEMMA AskedIsFollowed ==
  ASSUME IInv, NEW t \in Latest, NEW sha \in 0..MaxCommit, t.c < sha, NEW v,
         v = NextVersion(t.v, Softened(t.v, Bump(Asked(t, sha))))
  PROVE  Follows(v, sha)
<1>1. t.v \in Version
  BY DEF Latest, IInv, TypeOK, Tag
<1>2. ASSUME NEW c \in Commit, t.c < c, c <= sha, kind[c] = "major"
      PROVE  Boundary(t.v) # Boundary(v)
  <2>1. "major" \in Asked(t, sha)
    BY <1>2 DEF Asked, Range
  <2>2. Bump(Asked(t, sha)) = "major"
    BY <2>1 DEF Bump
  <2>3. CASE t.v.ma = 0
    <3>1. v = NextVersion(t.v, "minor")
      BY <2>2, <2>3 DEF Softened
    <3> QED BY <1>1, <2>3, <3>1, NextVersionGrows
  <2>4. CASE t.v.ma # 0
    <3>1. v = NextVersion(t.v, "major")
      BY <2>2, <2>4 DEF Softened
    <3> QED BY <1>1, <3>1, NextVersionGrows
  <2> QED BY <2>3, <2>4
<1>3. Newer(v, t.v)
  BY <1>1, NextVersionGrows
<1> QED BY <1>2, <1>3 DEF Follows

\* The newest tag is the furthest along main.
LEMMA LatestIsFurthest ==
  ASSUME IInv, Ordered, NEW t \in Latest, NEW u \in tags
  PROVE  u = t \/ (u.c < t.c /\ Newer(t.v, u.v))
<1>1. t \in tags /\ t.v \in Version /\ u.v \in Version /\ t.c \in Int /\ u.c \in Int /\ ~Newer(u.v, t.v)
  BY DEF Latest, IInv, TypeOK, Tag
<1>2. CASE u.c = t.c
  BY <1>1, <1>2 DEF Ordered, OneTagPerCommit
<1>3. CASE t.c < u.c
  BY <1>1, <1>3 DEF Ordered, VersionsFollowHistory
<1>4. CASE u.c < t.c
  BY <1>1, <1>4 DEF Ordered, VersionsFollowHistory
<1> QED BY <1>1, <1>2, <1>3, <1>4

LEMMA ResolveKeepsOrder ==
  ASSUME IInv, IInv', Ordered, Resolve
  PROVE  Ordered'
<1>1. /\ active # Nil /\ active \in Run /\ active.step = "version" /\ active.trigger = "push"
      /\ active.sha <= head /\ active.sha \in 0..MaxCommit
  BY ActiveOK DEF Resolve, UsePushedTag, UseExplicitVersion, RecoverTag, ComputeVersion, Resolving, At,
                  Ordered, FromPushes, Group, Run
<1>2. tags' = tags /\ head' = head /\ kind' = kind /\ KindsStay
  <2>1. tags' = tags /\ head' = head /\ kind' = kind
    BY DEF Resolve, UsePushedTag, UseExplicitVersion, RecoverTag, ComputeVersion, AlreadyReleased, FinalizeDraft,
           FinalizeTag, repo, store
  <2> QED BY <2>1 DEF KindsStay, IInv, TypeOK
<1>3. ASSUME NothingToPublish \/ FailRelease PROVE Ordered'
  <2>1. PICK r \in {[active EXCEPT !.step = "green"], [active EXCEPT !.step = "release_failed"]} : Conclude(r)
    BY <1>3 DEF NothingToPublish, FailRelease
  <2>2. r \in Run /\ r.trigger = active.trigger /\ r.sha = active.sha /\ r.step \notin {"verify", "tag"}
    BY <1>1, <2>1 DEF Run, Stages
  <2> QED BY <1>1, <1>2, <2>1, <2>2, MoveKeepsOrder
<1>4. ASSUME NEW v \in Version, NEW create \in BOOLEAN, Release(v, create), create => Follows(v, active.sha)
      PROVE  Ordered'
  <2>1. PICK r : r = [active EXCEPT !.step = "verify", !.v = v, !.create = create]
    OBVIOUS
  <2>2. /\ r \in Run /\ r.trigger = "push" /\ r.sha = active.sha /\ r.step = "verify" /\ r.v = v
        /\ r.create = create
    BY <1>1, <1>4, <2>1 DEF Run, Stages
  <2>3. Proceed(r)
    BY <1>4, <2>1 DEF Release
  <2> QED BY <1>1, <1>2, <1>4, <2>2, <2>3, GroupKeepsOrder DEF GroupStep, Creates
<1>5. CASE RecoverTag
  <2>1. PICK t \in TagAtHead : \/ AlreadyReleased(t)
                              \/ \E edited \in BOOLEAN : FinalizeDraft(t, edited)
                              \/ FinalizeTag(t)
    BY <1>5 DEF RecoverTag
  <2>2. t.v \in Version
    BY DEF TagAtHead, Latest, IInv, TypeOK, Tag
  <2> QED BY <1>3, <1>4, <2>1, <2>2 DEF AlreadyReleased, FinalizeDraft, FinalizeTag
<1>6. CASE ComputeVersion
  <2>1. PICK t \in Latest :
          NothingToPublish \/ FailRelease
          \/ /\ Bump(Asked(t, active.sha)) # "none"
             /\ Release(NextVersion(t.v, Softened(t.v, Bump(Asked(t, active.sha)))), TRUE)
    BY <1>6 DEF ComputeVersion, Softened
  <2>2. PICK v : v = NextVersion(t.v, Softened(t.v, Bump(Asked(t, active.sha))))
    OBVIOUS
  <2>3. t \in tags /\ t.v \in Version /\ t.c \in Int /\ v \in Version
    BY <2>2, NextVersionTyped DEF Latest, IInv, TypeOK, Tag
  <2>4. ASSUME Bump(Asked(t, active.sha)) # "none" PROVE t.c < active.sha
    <3>1. Asked(t, active.sha) # {}
      BY <2>4 DEF Bump
    <3>2. PICK c \in Commit : t.c < c /\ c <= active.sha
      BY <3>1 DEF Asked, Range
    <3> QED BY <1>1, <2>3, <3>2 DEF Commit
  <2>5. CASE NothingToPublish \/ FailRelease
    BY <1>3, <2>5
  <2>6. CASE Bump(Asked(t, active.sha)) # "none" /\ Release(v, TRUE)
    BY <1>1, <1>4, <2>2, <2>3, <2>4, <2>6, AskedIsFollowed
  <2> QED BY <2>1, <2>2, <2>5, <2>6
<1> QED BY <1>1, <1>5, <1>6 DEF Resolve, UsePushedTag, UseExplicitVersion, Resolving

\* The tag that is pushed is the newest, at the furthest commit.
LEMMA CreateTagKeepsOrder ==
  ASSUME IInv, IInv', Ordered, CreateTag
  PROVE  /\ Ordered'
         /\ \E n \in tags' : /\ n.v = active.v /\ n.c = active.sha /\ tags' = tags \cup {n}
                             /\ \A u \in tags : u.c < n.c /\ Newer(n.v, u.v)
<1>1. active \in Run /\ RunOK(active) /\ active # Nil /\ active.step = "tag" /\ active.sha \in Int
  BY ActiveOK DEF CreateTag, At, Run
<1>2. PICK n : /\ n.v = active.v /\ n.c = active.sha /\ tags' = tags \cup {n}
  <2>1. PICK how \in {"run", "explicit"} : tags' = tags \cup {[v |-> active.v, c |-> active.sha, how |-> how]}
    BY DEF CreateTag
  <2>2. PICK n : n = [v |-> active.v, c |-> active.sha, how |-> how]
    OBVIOUS
  <2> QED BY <2>1, <2>2
<1>3. /\ n \in tags' /\ n.v \in Version /\ n.c \in Int /\ n.c <= head /\ head \in Int
      /\ \A u \in tags : u.v \in Version /\ u.c \in Int /\ u.c <= head
  BY <1>1, <1>2 DEF RunOK, IInv, TypeOK, Tag, Ordered, FromPushes, Group
<1>4. PICK t \in Latest :
        /\ t.c < n.c /\ Newer(n.v, t.v)
        /\ (\E c \in Commit : t.c < c /\ c <= n.c /\ kind[c] = "major") => Boundary(t.v) # Boundary(n.v)
  BY <1>1, <1>2 DEF Ordered, Computed, Creates, Follows
<1>5. t \in tags
  BY DEF Latest
<1>6. \A u \in tags : u = t \/ (u.c < t.c /\ Newer(t.v, u.v))
  BY LatestIsFurthest
<1>7. \A u \in tags : u.c < n.c /\ Newer(n.v, u.v) /\ ~Newer(u.v, n.v)
  <2> SUFFICES ASSUME NEW u \in tags PROVE u.c < n.c /\ Newer(n.v, u.v) /\ ~Newer(u.v, n.v)
    OBVIOUS
  <2>1. ~Newer(u.v, t.v)
    BY DEF Latest
  <2>2. u.c < n.c
    BY <1>3, <1>4, <1>5, <1>6
  <2> QED BY <1>3, <1>4, <1>5, <2>1, <2>2, NewerIsTransitive
<1>8. OneTagPerCommit' /\ VersionsFollowHistory'
  <2>1. \A u, w \in tags' : u.c = w.c => u = w
    BY <1>2, <1>3, <1>7 DEF Ordered, OneTagPerCommit
  <2>2. \A u, w \in tags' : u.c < w.c => Newer(w.v, u.v)
    BY <1>2, <1>3, <1>7 DEF Ordered, VersionsFollowHistory
  <2> QED BY <2>1, <2>2 DEF OneTagPerCommit, VersionsFollowHistory
<1>9. head' = head /\ kind' = kind
  BY DEF CreateTag, repo
<1>10. BreakingCrossesBoundary'
  <2> SUFFICES ASSUME NEW u \in tags', NEW w \in tags',
                      NEW c \in Commit, u.c < c, c <= w.c, kind[c] = "major"
               PROVE  Boundary(u.v) # Boundary(w.v)
    BY <1>9 DEF BreakingCrossesBoundary
  <2>0. c \in Int
    BY DEF Commit
  <2>1. CASE w \in tags
    <3>1. u \in tags
      BY <1>2, <1>3, <1>7, <2>0, <2>1
    <3> QED BY <2>1, <3>1 DEF Ordered, BreakingCrossesBoundary
  <2>2. CASE w = n
    <3>1. u \in tags
      BY <1>2, <1>3, <2>0, <2>2
    <3>2. ~Newer(u.v, t.v)
      BY <3>1 DEF Latest
    <3>3. CASE t.c < c
      <4>1. Boundary(t.v) # Boundary(n.v)
        BY <1>4, <2>2, <3>3
      <4> QED BY <1>3, <1>4, <1>5, <2>2, <3>1, <3>2, <4>1, BoundaryIsConvex
    <3>4. CASE c <= t.c
      <4>1. Boundary(u.v) # Boundary(t.v)
        BY <1>5, <3>1, <3>4 DEF Ordered, BreakingCrossesBoundary
      <4>2. Boundary(u.v) = Boundary(n.v) => Boundary(t.v) = Boundary(n.v)
        BY <1>3, <1>4, <1>5, <3>1, <3>2, BoundaryIsConvex
      <4> QED BY <2>2, <4>1, <4>2
    <3> QED BY <1>3, <1>5, <2>0, <3>3, <3>4
  <2> QED BY <1>2, <2>1, <2>2
<1>11. PICK r \in Run : r = [active EXCEPT !.step = "evidence"]
  BY <1>1 DEF Run, Stages
<1>12. Proceed(r) /\ r.trigger = active.trigger /\ r.sha = active.sha /\ r.step = "evidence"
  BY <1>1, <1>11 DEF CreateTag, Run
<1>13. FromPushes'
  <2>1. Group' \subseteq Group \cup {r}
    BY <1>12 DEF Group, Proceed
  <2>2. \A q \in Group' : q.trigger = "push" /\ q.sha <= head'
    BY <1>1, <1>9, <1>12, <2>1 DEF Ordered, FromPushes, Group
  <2>3. \A q \in (finished \cup ({pending} \ {Nil}))' : q.step \notin {"verify", "tag"}
    BY <1>12 DEF Proceed, Ordered, FromPushes
  <2>4. \A u \in tags' : u.c <= head'
    BY <1>2, <1>3, <1>9
  <2> QED BY <2>2, <2>3, <2>4 DEF FromPushes
<1>14. Computed'
  BY <1>12 DEF Proceed, Computed, Creates
<1> QED BY <1>2, <1>3, <1>7, <1>8, <1>10, <1>13, <1>14 DEF Ordered

LEMMA StepKeepsOrder ==
  ASSUME IInv, IInv', Ordered, HandTags = {}, Explicit = {}, [Next]_vars
  PROVE  Ordered'
<1>1. ASSUME PassGate \/ Verify \/ RefuseGate \/ RefuseUnreachable \/ VerifyFails \/ TagPushFails
             \/ WriteEvidence(TRUE) \/ WriteEvidence(FALSE) \/ PublishRelease \/ PublishFails
      PROVE  Ordered'
  <2>1. active # Nil /\ active \in Run /\ RunOK(active)
    BY <1>1, ActiveOK DEF PassGate, Verify, RefuseGate, RefuseUnreachable, VerifyFails, TagPushFails, WriteEvidence,
                          PublishRelease, PublishFails, At, Resolving
  <2>2. tags' = tags /\ head' = head /\ kind' = kind /\ KindsStay
    BY <1>1 DEF PassGate, Verify, RefuseGate, RefuseUnreachable, VerifyFails, TagPushFails, WriteEvidence,
                PublishRelease, PublishFails, repo, store, KindsStay, IInv, TypeOK
  <2>3. PICK r : /\ Proceed(r) \/ Conclude(r)
                 /\ \/ r \in {[active EXCEPT !.step = s] : s \in {"version", "evidence", "publish", "green",
                                                                  "gate_failed", "release_failed"}}
                    \/ r = [active EXCEPT !.step = "fanout", !.todo = Consumers, !.lost = {}]
                    \/ At("verify") /\ active.create /\ Proceed(r) /\ r = [active EXCEPT !.step = "tag"]
    BY <1>1 DEF PassGate, Verify, RefuseGate, RefuseUnreachable, VerifyFails, TagPushFails, WriteEvidence,
                PublishRelease, PublishFails, FailRelease
  <2>4. r \in Run /\ r.trigger = active.trigger /\ r.sha = active.sha
    BY <2>1, <2>3 DEF Run, Stages
  <2>5. CASE r.step \notin {"verify", "tag"}
    BY <2>1, <2>2, <2>3, <2>4, <2>5, MoveKeepsOrder
  <2>6. CASE At("verify") /\ active.create /\ Proceed(r) /\ r = [active EXCEPT !.step = "tag"]
    <3>1. r.v = active.v /\ active.v \in Version
      BY <2>1, <2>6 DEF At, RunOK, Run
    <3>2. active.sha <= head /\ active.trigger = "push" /\ Follows(active.v, active.sha)
      BY <2>1, <2>6 DEF Ordered, FromPushes, Group, Computed, Creates, At
    <3> QED BY <2>2, <2>4, <2>6, <3>1, <3>2, GroupKeepsOrder DEF GroupStep
  <2> QED BY <2>1, <2>3, <2>5, <2>6 DEF Run
<1>2. ASSUME NEW c \in Consumers, BumpConsumer(c) \/ BumpFails(c) PROVE Ordered'
  <2>1. active # Nil /\ active \in Run /\ active.step = "fanout"
    BY <1>2, ActiveOK DEF BumpConsumer, BumpFails, At
  <2>2. tags' = tags /\ head' = head /\ kind' = kind
    BY <1>2 DEF BumpConsumer, BumpFails, repo, store
  <2>3. PICK ok \in BOOLEAN : AfterLeg(c, ok)
    BY <1>2 DEF BumpConsumer, BumpFails
  <2>4. PICK q : q = [active EXCEPT !.todo = @ \ {c}, !.lost = IF ok THEN @ ELSE @ \cup {c}]
    OBVIOUS
  <2>5. q \in Run /\ q.trigger = active.trigger /\ q.sha = active.sha /\ q.step = "fanout"
    BY <2>1, <2>4 DEF Run
  <2>6. PICK r \in {q} \cup {[q EXCEPT !.step = s] : s \in {"green", "bump_failed"}} : Proceed(r) \/ Conclude(r)
    BY <2>3, <2>4 DEF AfterLeg
  <2>7. r \in Run /\ r.trigger = active.trigger /\ r.sha = active.sha /\ r.step \notin {"verify", "tag"}
    BY <2>5, <2>6 DEF Run, Stages
  <2> QED BY <2>1, <2>2, <2>6, <2>7, MoveKeepsOrder
<1>3. CASE UNCHANGED vars
  BY <1>3 DEF vars, repo, store, group, Ordered, FromPushes, Group, OneTagPerCommit, Computed, Creates, Follows,
              Latest, VersionsFollowHistory, BreakingCrossesBoundary
<1> QED BY <1>1, <1>2, <1>3, WorldKeepsOrder, ResolveKeepsOrder, CreateTagKeepsOrder DEF Next, Progress, Failure

LEMMA InitOrdered == Init => Ordered
<1> SUFFICES ASSUME Init PROVE Ordered
  OBVIOUS
<1>1. FromPushes /\ OneTagPerCommit /\ Computed /\ VersionsFollowHistory
  BY DEF Init, FromPushes, Group, OneTagPerCommit, Computed, VersionsFollowHistory
<1>2. BreakingCrossesBoundary
  BY DEF Init, BreakingCrossesBoundary, Commit
<1> QED BY <1>1, <1>2 DEF Ordered

LEMMA OrderInvariance ==
  ASSUME HandTags = {}, Explicit = {}
  PROVE  Spec => [](IInv /\ Ordered)
<1>1. Init => IInv /\ Ordered
  BY InitIInv, InitOrdered
<1>2. IInv /\ Ordered /\ [Next]_vars => (IInv /\ Ordered)'
  BY NextIInv, StepKeepsOrder
<1> QED BY <1>1, <1>2, PTL DEF Spec

\* Computed versions grow along main, in whatever order runs wait, overtake and
\* are re-run: while nobody pushes a tag or names a version by hand.
THEOREM VersionsGrowAlongMain ==
  ASSUME HandTags = {}, Explicit = {}
  PROVE  Spec => []VersionsFollowHistory
<1>1. Ordered => VersionsFollowHistory
  BY DEF Ordered
<1> QED BY <1>1, OrderInvariance, PTL

\* A breaking commit lies across a compatibility boundary of the versions around
\* it, however many commits and failed runs are between them.
THEOREM BreaksMoveTheBoundary ==
  ASSUME HandTags = {}, Explicit = {}
  PROVE  Spec => []BreakingCrossesBoundary
<1>1. Ordered => BreakingCrossesBoundary
  BY DEF Ordered
<1> QED BY <1>1, OrderInvariance, PTL

-----------------------------------------------------------------------------
(* No release is stranded *)

\* The consumers a run still has to reach when it, or its failed legs, are run again.
Owes(r) == IF r.step = "bump_failed" THEN r.lost
           ELSE IF r.step = "fanout" THEN r.todo \cup r.lost ELSE {}

\* Whoever has not got the newest version is somebody's to reach.
Held ==
  \A t \in Latest :
    /\ t.v \notin published => \E r \in Group : r.sha = t.c /\ r.step # "green"
    /\ t.v \in published => \A c \in Unreached(t.v) : \E r \in Group : r.v = t.v /\ c \in Owes(r)

\* Nobody waits for an empty group, no draft is left behind, and a fan-out that
\* does not run has no leg on record.
Tidy ==
  /\ active = Nil => pending = Nil
  /\ drafts = {}
  /\ \A r \in finished \cup ({pending} \ {Nil}) : r.step = "fanout" => r.lost = {}
  /\ \A r \in Group : r.step \in {"fanout", "bump_failed"} => Tagged(r.v, r.sha)

LEMMA TidyKept ==
  ASSUME IInv, Tidy, NEW r \in Run, GroupStep(r), drafts' = {}, tags \subseteq tags',
         r.step = "fanout" => Proceed(r) \/ r.lost = {},
         r.step \in {"fanout", "bump_failed"} => Tagged(r.v, r.sha)
  PROVE  Tidy'
<1>0. r # Nil
  BY NoRunAssumption
<1>1. (active = Nil => pending = Nil)'
  BY <1>0 DEF GroupStep, Proceed, Conclude, Enqueue, Tidy
<1>2. \A q \in (finished \cup ({pending} \ {Nil}))' : q.step = "fanout" => q.lost = {}
  <2>1. CASE Proceed(r)
    BY <2>1 DEF Proceed, Tidy
  <2>2. CASE ~Proceed(r)
    <3>1. (finished \cup ({pending} \ {Nil}))' \subseteq finished \cup ({pending} \ {Nil}) \cup {r}
      BY <2>2 DEF GroupStep, Conclude, Enqueue
    <3> QED BY <2>2, <3>1 DEF Tidy
  <2> QED BY <2>1, <2>2
<1>3. \A q \in Group' : q.step \in {"fanout", "bump_failed"} => Tagged(q.v, q.sha)'
  <2>1. Group' \subseteq Group \cup {r}
    BY DEF Group, GroupStep, Proceed, Conclude, Enqueue
  <2> QED BY <2>1 DEF Tidy, Tagged
<1> QED BY <1>1, <1>2, <1>3 DEF Tidy

\* The run q becomes r and still stands for what it stood for.
LEMMA HeldKept ==
  ASSUME IInv, Held, NEW q \in Group, NEW r, r \in Group', Group \ {q} \subseteq Group',
         tags' = tags, published' = published, \A c \in Consumers : notified[c] \subseteq notified'[c],
         r.sha = q.sha,
         \A t \in Latest : t.c = q.sha /\ t.v \notin published => r.step # "green",
         \A c \in Owes(q) : (r.v = q.v /\ c \in Owes(r)) \/ q.v \in notified'[c]
  PROVE  Held'
<1>1. Latest' = Latest
  BY DEF Latest
<1> SUFFICES ASSUME NEW t \in Latest
             PROVE  /\ t.v \notin published => \E x \in Group' : x.sha = t.c /\ x.step # "green"
                    /\ t.v \in published => \A c \in Unreached(t.v)' : \E x \in Group' : x.v = t.v /\ c \in Owes(x)
  BY <1>1 DEF Held, Owes
<1>2. ASSUME t.v \notin published PROVE \E x \in Group' : x.sha = t.c /\ x.step # "green"
  <2>1. PICK x \in Group : x.sha = t.c /\ x.step # "green"
    BY <1>2 DEF Held
  <2> QED BY <1>2, <2>1
<1>3. ASSUME t.v \in published, NEW c \in Unreached(t.v)' PROVE \E x \in Group' : x.v = t.v /\ c \in Owes(x)
  <2>1. c \in Consumers /\ t.v \notin notified'[c] /\ c \in Unreached(t.v)
    BY <1>3 DEF Unreached
  <2>2. PICK x \in Group : x.v = t.v /\ c \in Owes(x)
    BY <1>3, <2>1 DEF Held
  <2> QED BY <2>1, <2>2
<1> QED BY <1>2, <1>3

\* More runs, and all else as it was.
LEMMA MoreRunsHold ==
  ASSUME IInv, Held, Group \subseteq Group', tags' = tags, published' = published, notified' = notified
  PROVE  Held'
<1>1. Latest' = Latest /\ \A v : Unreached(v)' = Unreached(v)
  BY DEF Latest, Unreached
<1> QED BY <1>1 DEF Held, Owes

\* The active run moves on, fails or ends.
LEMMA ActiveKeepsHeld ==
  ASSUME IInv, Held, Tidy, active # Nil, NEW r \in Run, Proceed(r) \/ Conclude(r),
         tags' = tags, published' = published, drafts' = drafts,
         \A c \in Consumers : notified[c] \subseteq notified'[c],
         r.sha = active.sha,
         r.step = "fanout" => Proceed(r),
         r.step \in {"fanout", "bump_failed"} => Tagged(r.v, r.sha),
         \A t \in Latest : t.c = active.sha /\ t.v \notin published => r.step # "green",
         \A c \in Owes(active) : (r.v = active.v /\ c \in Owes(r)) \/ active.v \in notified'[c]
  PROVE  Held' /\ Tidy'
<1>1. active \in Group /\ r \in Group' /\ Group \ {active} \subseteq Group' /\ GroupStep(r)
  BY NoRunAssumption DEF Group, Proceed, Conclude, GroupStep
<1>2. Tidy'
  BY <1>1, TidyKept DEF Tidy
<1> QED BY <1>1, <1>2, HeldKept

LEMMA WorldKeepsHeld ==
  ASSUME IInv, Held, Tidy, HandTags = {}, Explicit = {}, FullRerunOf \cap {"fanout", "bump_failed"} = {}, World
  PROVE  Held' /\ Tidy'
<1>1. ASSUME NEW k \in Kinds, Land(k) PROVE Held' /\ Tidy'
  <2>1. head + 1 \in 0..MaxCommit
    BY <1>1, BoundAssumption DEF Land, IInv, TypeOK
  <2>2. PICK r \in Run : r = Fresh("push", head + 1, Nil)
    BY <2>1, FreshTyped
  <2>3. Enqueue(r, finished) /\ r.step = "gate"
    BY <1>1, <2>2 DEF Land, Fresh
  <2>4. Group \subseteq Group'
    BY <2>3 DEF Group, Enqueue
  <2>5. GroupStep(r)
    BY <2>3 DEF GroupStep
  <2> QED BY <1>1, <2>3, <2>4, <2>5, MoreRunsHold, TidyKept DEF Land, store, Tidy
<1>2. ASSUME NEW c \in Commit, NEW outcome \in {"success", "failure"}, CiFinishes(c, outcome) \/ CiReruns(c)
      PROVE  Held' /\ Tidy'
  BY <1>2 DEF CiFinishes, CiReruns, store, group, Held, Tidy, Group, Owes, Unreached, Latest, Tagged
<1>3. ASSUME NEW q \in finished, RerunAll(q) PROVE Held' /\ Tidy'
  <2>1. q \in Run /\ Owes(q) = {}
    BY <1>3, FinishedOK DEF RerunAll, Owes
  <2>2. PICK r \in Run : r = Fresh(q.trigger, q.sha, q.want)
    BY <2>1, FreshTyped DEF Run
  <2>3. Enqueue(r, finished \ {q}) /\ r.step = "gate" /\ r.sha = q.sha
    BY <1>3, <2>2 DEF RerunAll, Fresh
  <2>4. q \in Group /\ r \in Group' /\ Group \ {q} \subseteq Group' /\ GroupStep(r)
    BY <2>3, FinishedOK, NoRunAssumption DEF Group, Enqueue, GroupStep
  <2>5. tags' = tags /\ published' = published /\ drafts' = drafts /\ notified' = notified
    BY <1>3 DEF RerunAll, store
  <2> QED BY <2>1, <2>3, <2>4, <2>5, HeldKept, TidyKept DEF Tidy
<1>4. ASSUME NEW q \in finished, RerunFailed(q) PROVE Held' /\ Tidy'
  <2>1. q \in Run /\ q \in Group /\ (q.step = "fanout" => q.lost = {}) /\ q.step # "green"
        /\ (q.step \in {"fanout", "bump_failed"} => Tagged(q.v, q.sha))
    BY <1>4, FinishedOK, NoRunAssumption DEF Tidy, Group, RerunFailed
  <2>2. PICK r : /\ Enqueue(r, finished \ {q})
                 /\ \/ q.step = "gate_failed" /\ r = [q EXCEPT !.step = "gate"]
                    \/ q.step = "release_failed" /\ r = [q EXCEPT !.step = "version"]
                    \/ q.step = "bump_failed" /\ r = [q EXCEPT !.step = "fanout", !.todo = q.lost, !.lost = {}]
                    \/ r = q
    BY <1>4 DEF RerunFailed
  <2>3. /\ r \in Run /\ r.sha = q.sha /\ r.v = q.v /\ r.step # "green" /\ Owes(q) = Owes(r)
        /\ r.step = "fanout" => r.lost = {} /\ q.step \in {"fanout", "bump_failed"}
        /\ r.step = "bump_failed" => q.step = "bump_failed"
    BY <2>1, <2>2 DEF Run, Stages, Owes
  <2>4. r \in Group' /\ Group \ {q} \subseteq Group' /\ GroupStep(r)
    BY <2>2, <2>3, NoRunAssumption DEF Group, Enqueue, GroupStep
  <2>5. tags' = tags /\ published' = published /\ drafts' = drafts /\ notified' = notified
    BY <1>4 DEF RerunFailed, store
  <2> QED BY <2>1, <2>3, <2>4, <2>5, HeldKept, TidyKept DEF Tidy
<1> QED BY <1>1, <1>2, <1>3, <1>4 DEF World

\* A run ends green without publishing only when its commit has no newest tag, or
\* the newest version is public.
LEMMA ResolveKeepsHeld ==
  ASSUME IInv, Ordered, Held, Tidy, Resolve
  PROVE  Held' /\ Tidy'
<1>1. /\ active # Nil /\ active \in Run /\ active.step = "version" /\ active.trigger = "push"
      /\ Owes(active) = {}
  BY ActiveOK DEF Resolve, UsePushedTag, UseExplicitVersion, RecoverTag, ComputeVersion, Resolving, At,
                  Ordered, FromPushes, Group, Owes
<1>2. tags' = tags /\ published' = published /\ drafts' = drafts /\ notified' = notified
  BY <1>1 DEF Resolve, UsePushedTag, UseExplicitVersion, RecoverTag, ComputeVersion, AlreadyReleased, FinalizeDraft,
              FinalizeTag, store, Tidy
<1>3. ASSUME NothingToPublish, \A t \in Latest : t.c = active.sha => t.v \in published PROVE Held' /\ Tidy'
  <2>1. PICK r : r = [active EXCEPT !.step = "green"]
    OBVIOUS
  <2>2. r \in Run /\ r.sha = active.sha /\ r.step = "green" /\ Conclude(r)
    BY <1>1, <1>3, <2>1 DEF Run, Stages, NothingToPublish
  <2> QED BY <1>1, <1>2, <1>3, <2>2, ActiveKeepsHeld
<1>4. ASSUME NEW r \in Run, Proceed(r) \/ Conclude(r), r.sha = active.sha, r.step \in {"verify", "release_failed"}
      PROVE  Held' /\ Tidy'
  BY <1>1, <1>2, <1>4, ActiveKeepsHeld
<1>5. ASSUME FailRelease PROVE Held' /\ Tidy'
  <2>1. PICK r : r = [active EXCEPT !.step = "release_failed"]
    OBVIOUS
  <2>2. r \in Run /\ r.sha = active.sha /\ r.step = "release_failed" /\ Conclude(r)
    BY <1>1, <1>5, <2>1 DEF Run, Stages, FailRelease
  <2> QED BY <1>4, <2>2
<1>6. ASSUME NEW v \in Version, NEW create \in BOOLEAN, Release(v, create) PROVE Held' /\ Tidy'
  <2>1. PICK r : r = [active EXCEPT !.step = "verify", !.v = v, !.create = create]
    OBVIOUS
  <2>2. r \in Run /\ r.sha = active.sha /\ r.step = "verify" /\ Proceed(r)
    BY <1>1, <1>6, <2>1 DEF Run, Stages, Release
  <2> QED BY <1>4, <2>2
<1>7. CASE RecoverTag
  <2>1. PICK t \in TagAtHead : \/ AlreadyReleased(t)
                              \/ \E edited \in BOOLEAN : FinalizeDraft(t, edited)
                              \/ FinalizeTag(t)
    BY <1>7 DEF RecoverTag
  <2>2. t.v \in Version /\ t \in tags /\ t.c = active.sha
    BY DEF TagAtHead, Latest, IInv, TypeOK, Tag
  <2>3. CASE AlreadyReleased(t)
    <3>1. \A u \in Latest : u.c = active.sha => u = t
      BY <2>2 DEF Ordered, OneTagPerCommit, Latest
    <3> QED BY <1>3, <2>3, <3>1 DEF AlreadyReleased
  <2> QED BY <1>6, <2>1, <2>2, <2>3 DEF FinalizeDraft, FinalizeTag
<1>8. CASE ComputeVersion
  <2>1. TagAtHead = {} /\ \A t \in Latest : t.c # active.sha
    BY <1>8 DEF ComputeVersion, TagAtHead
  <2>2. PICK t \in Latest :
          NothingToPublish \/ FailRelease
          \/ Release(NextVersion(t.v, Softened(t.v, Bump(Asked(t, active.sha)))), TRUE)
    BY <1>8 DEF ComputeVersion
  <2>3. NextVersion(t.v, Softened(t.v, Bump(Asked(t, active.sha)))) \in Version
    BY NextVersionTyped DEF Latest, IInv, TypeOK, Tag
  <2> QED BY <1>3, <1>5, <1>6, <2>1, <2>2, <2>3
<1> QED BY <1>1, <1>7, <1>8 DEF Resolve, UsePushedTag, UseExplicitVersion, Resolving

\* The new tag is the newest; its run is the active one.
LEMMA CreateTagKeepsHeld ==
  ASSUME IInv, IInv', Ordered, Held, Tidy, CreateTag
  PROVE  Held' /\ Tidy'
<1>1. active \in Run /\ active # Nil /\ active.step = "tag" /\ \A t \in tags : t.v # active.v
  BY ActiveOK DEF CreateTag, At
<1>2. PICK r \in Run : r = [active EXCEPT !.step = "evidence"]
  BY <1>1 DEF Run, Stages
<1>3. Proceed(r) /\ r.sha = active.sha /\ r.step = "evidence" /\ r \in Group'
  BY <1>1, <1>2, NoRunAssumption DEF CreateTag, Run, Proceed, Group
<1>4. PICK n \in tags' : /\ n.v = active.v /\ n.c = active.sha /\ tags' = tags \cup {n}
                         /\ \A u \in tags : u.c < n.c /\ Newer(n.v, u.v)
  BY CreateTagKeepsOrder
<1>5. \A t \in Latest' : t = n
  BY <1>4 DEF Latest
<1>6. n.v \notin published /\ published' = published /\ drafts' = drafts
  BY <1>1, <1>4 DEF CreateTag, IInv, PublishedWasVerified
<1>7. Held'
  <2> SUFFICES ASSUME NEW t \in Latest'
               PROVE  t.v \notin published' /\ \E x \in Group' : x.sha = t.c /\ x.step # "green"
    BY DEF Held
  <2> QED BY <1>3, <1>4, <1>5, <1>6
<1>8. Tidy'
  BY <1>3, <1>4, <1>6, TidyKept DEF GroupStep, Tidy
<1> QED BY <1>7, <1>8

\* Publishing hands every consumer to the fan-out.
LEMMA PublishKeepsHeld ==
  ASSUME IInv, Ordered, Held, Tidy, PublishRelease
  PROVE  Held' /\ Tidy'
<1>1. /\ active \in Run /\ active # Nil /\ active.step = "publish" /\ active.v \in Version
      /\ Tagged(active.v, active.sha) /\ Owes(active) = {}
  BY ActiveOK DEF PublishRelease, At, RunOK, Owes
<1>2. /\ tags' = tags /\ notified' = notified /\ published' = published \cup {active.v} /\ drafts' = {}
  BY DEF PublishRelease, Tidy
<1>3. PICK r : /\ Proceed(r) \/ Conclude(r)
               /\ \/ Consumers = {} /\ r = [active EXCEPT !.step = "green"]
                  \/ Proceed(r) /\ r = [active EXCEPT !.step = "fanout", !.todo = Consumers, !.lost = {}]
  BY DEF PublishRelease
<1>4. /\ r \in Run /\ r.sha = active.sha /\ r.v = active.v
      /\ Consumers = {} \/ Owes(r) = Consumers
      /\ r.step \in {"green", "fanout"} /\ (r.step = "fanout" => Proceed(r))
  BY <1>1, <1>3 DEF Run, Stages, Owes
<1>5. /\ active \in Group /\ r \in Group' /\ Group \ {active} \subseteq Group' /\ GroupStep(r) /\ Latest' = Latest
  BY <1>1, <1>2, <1>3, <1>4, NoRunAssumption DEF Group, Proceed, Conclude, GroupStep, Latest
<1>6. Tidy'
  BY <1>1, <1>2, <1>4, <1>5, TidyKept
<1>7. Held'
  <2> SUFFICES ASSUME NEW t \in Latest
               PROVE  /\ t.v \notin published' => \E x \in Group' : x.sha = t.c /\ x.step # "green"
                      /\ t.v \in published' => \A c \in Unreached(t.v)' : \E x \in Group' : x.v = t.v /\ c \in Owes(x)
    BY <1>5 DEF Held, Owes
  <2>1. t \in tags /\ Unreached(t.v)' = Unreached(t.v) /\ Unreached(t.v) \subseteq Consumers
    BY <1>2 DEF Latest, Unreached
  <2>2. CASE t.v = active.v
    BY <1>2, <1>4, <1>5, <2>1, <2>2
  <2>3. CASE t.v # active.v /\ t.v \in published
    <3>1. ASSUME NEW c \in Unreached(t.v) PROVE \E x \in Group' : x.v = t.v /\ c \in Owes(x)
      BY <1>1, <1>5, <2>3, <3>1 DEF Held
    <3> QED BY <1>2, <2>1, <2>3, <3>1
  <2>4. CASE t.v # active.v /\ t.v \notin published
    <3>1. PICK x \in Group : x.sha = t.c /\ x.step # "green"
      BY <2>4 DEF Held
    <3>2. x # active
      BY <1>1, <2>1, <2>4, <3>1 DEF Tagged, Ordered, OneTagPerCommit
    <3> QED BY <1>2, <1>5, <2>4, <3>1, <3>2
  <2> QED BY <2>2, <2>3, <2>4
<1> QED BY <1>6, <1>7

\* A leg reaches its consumer or stays on record.
LEMMA LegKeepsHeld ==
  ASSUME IInv, Ordered, Held, Tidy, NEW c \in Consumers, BumpConsumer(c) \/ BumpFails(c)
  PROVE  Held' /\ Tidy'
<1>1. /\ active \in Run /\ active # Nil /\ active.step = "fanout" /\ active.v \in published /\ c \in active.todo
      /\ Tagged(active.v, active.sha) /\ Owes(active) = active.todo \cup active.lost
  BY ActiveOK DEF BumpConsumer, BumpFails, At, RunOK, Tidy, Group, Owes
<1>2. /\ tags' = tags /\ published' = published /\ drafts' = drafts
      /\ \A k \in Consumers : notified[k] \subseteq notified'[k]
  BY DEF BumpConsumer, BumpFails, store, IInv, TypeOK
<1>3. PICK ok \in BOOLEAN : AfterLeg(c, ok) /\ (ok => active.v \in notified'[c])
  BY DEF BumpConsumer, BumpFails, IInv, TypeOK
<1>4. PICK q : q = [active EXCEPT !.todo = @ \ {c}, !.lost = IF ok THEN @ ELSE @ \cup {c}]
  OBVIOUS
<1>5. /\ q \in Run /\ q.sha = active.sha /\ q.v = active.v /\ q.step = "fanout" /\ q.todo = active.todo \ {c}
      /\ q.lost = IF ok THEN active.lost ELSE active.lost \cup {c}
  BY <1>1, <1>4 DEF Run
<1>6. \A t \in Latest : t.c = active.sha => t.v \in published
  BY <1>1 DEF Tagged, Ordered, OneTagPerCommit, Latest
<1>7. CASE q.todo # {}
  <2>1. Proceed(q)
    BY <1>3, <1>4, <1>7 DEF AfterLeg
  <2>2. \A k \in Owes(active) : k \in Owes(q) \/ active.v \in notified'[k]
    BY <1>1, <1>3, <1>5 DEF Owes
  <2> QED BY <1>1, <1>2, <1>5, <1>6, <2>1, <2>2, ActiveKeepsHeld
<1>8. CASE q.todo = {}
  <2>1. PICK r : r = [q EXCEPT !.step = IF q.lost = {} THEN "green" ELSE "bump_failed"]
    OBVIOUS
  <2>2. Conclude(r)
    BY <1>3, <1>4, <1>8, <2>1 DEF AfterLeg
  <2>3. /\ r \in Run /\ r.sha = active.sha /\ r.v = active.v /\ r.lost = q.lost
        /\ r.step = IF q.lost = {} THEN "green" ELSE "bump_failed"
    BY <1>5, <2>1 DEF Run, Stages
  <2>4. \A k \in Owes(active) : k \in Owes(r) \/ active.v \in notified'[k]
    BY <1>1, <1>3, <1>5, <1>8, <2>3 DEF Owes
  <2> QED BY <1>1, <1>2, <1>6, <2>2, <2>3, <2>4, ActiveKeepsHeld
<1> QED BY <1>7, <1>8

LEMMA StepKeepsHeld ==
  ASSUME IInv, IInv', Ordered, Held, Tidy, HandTags = {}, Explicit = {},
         DraftOnFailure = FALSE, KillAfterPublish = FALSE, FullRerunOf \cap {"fanout", "bump_failed"} = {},
         [Next]_vars
  PROVE  Held' /\ Tidy'
<1>1. ASSUME PassGate \/ Verify \/ RefuseGate \/ RefuseUnreachable \/ VerifyFails \/ TagPushFails
             \/ WriteEvidence(TRUE) \/ WriteEvidence(FALSE) \/ PublishFails
      PROVE  Held' /\ Tidy'
  <2>1. /\ active # Nil /\ active \in Run /\ active.step \notin {"fanout", "bump_failed"} /\ Owes(active) = {}
    BY <1>1, ActiveOK DEF PassGate, Verify, RefuseGate, RefuseUnreachable, VerifyFails, TagPushFails, WriteEvidence,
                          PublishFails, At, Resolving, Owes
  <2>2. tags' = tags /\ published' = published /\ drafts' = drafts /\ notified' = notified
    BY <1>1 DEF PassGate, Verify, RefuseGate, RefuseUnreachable, VerifyFails, TagPushFails, WriteEvidence,
                PublishFails, store
  <2>3. PICK r \in {[active EXCEPT !.step = s] : s \in {"version", "tag", "evidence", "publish",
                                                        "gate_failed", "release_failed"}} :
          Proceed(r) \/ Conclude(r)
    BY <1>1 DEF PassGate, Verify, RefuseGate, RefuseUnreachable, VerifyFails, TagPushFails, WriteEvidence,
                PublishFails, FailRelease
  <2>4. r \in Run /\ r.sha = active.sha /\ r.step \notin {"green", "fanout", "bump_failed"}
    BY <2>1, <2>3 DEF Run, Stages
  <2> QED BY <2>1, <2>2, <2>3, <2>4, ActiveKeepsHeld
<1>2. CASE UNCHANGED vars
  BY <1>2 DEF vars, store, group, Held, Tidy, Group, Owes, Unreached, Latest, Tagged
<1> QED BY <1>1, <1>2, WorldKeepsHeld, ResolveKeepsHeld, CreateTagKeepsHeld, PublishKeepsHeld, LegKeepsHeld
        DEF Next, Progress, Failure

LEMMA InitHeld == Init => Held /\ Tidy
<1> SUFFICES ASSUME Init PROVE Held /\ Tidy
  OBVIOUS
<1>1. \A t \in Latest : t.v = Seed
  BY DEF Init, Latest
<1>2. Seed \in published /\ Unreached(Seed) = {}
  BY DEF Init, Unreached
<1>3. Tidy
  BY DEF Init, Tidy, Group
<1> QED BY <1>1, <1>2, <1>3 DEF Held

\* What is held is held by a run on record once the group is idle.
LEMMA HeldOnRecord ==
  ASSUME IInv, Held, Tidy
  PROVE  NoStrandedRelease
<1> SUFFICES ASSUME active = Nil, NEW t \in Latest, NEW c \in Unreached(t.v)
             PROVE  HeldByLeg(t, c) \/ HeldByRun(t)
  BY DEF NoStrandedRelease
<1>1. Group = finished
  BY DEF Tidy, Group
<1>2. CASE t.v \notin published
  BY <1>1, <1>2 DEF Held, HeldByRun
<1>3. CASE t.v \in published
  <2>1. PICK r \in finished : r.v = t.v /\ c \in Owes(r)
    BY <1>1, <1>3 DEF Held
  <2> QED BY <2>1 DEF Owes, Tidy, HeldByLeg
<1> QED BY <1>2, <1>3

\* A consumer that was not sent to the newest version is held by a failed leg or
\* by a run whose re-run finishes the release: while runs are re-run in full only
\* before their fan-out, a failed publication leaves no draft and no public
\* Release, and nobody pushes a tag or names a version by hand.
THEOREM ReleasesAreRecoverable ==
  ASSUME HandTags = {}, Explicit = {}, DraftOnFailure = FALSE, KillAfterPublish = FALSE,
         FullRerunOf \cap {"fanout", "bump_failed"} = {}
  PROVE  Spec => []NoStrandedRelease
<1>1. Init => IInv /\ Ordered /\ Held /\ Tidy
  BY InitIInv, InitOrdered, InitHeld
<1>2. IInv /\ Ordered /\ Held /\ Tidy /\ [Next]_vars => (IInv /\ Ordered /\ Held /\ Tidy)'
  BY NextIInv, StepKeepsOrder, StepKeepsHeld
<1>3. IInv /\ Ordered /\ Held /\ Tidy => NoStrandedRelease
  BY HeldOnRecord
<1> QED BY <1>1, <1>2, <1>3, PTL DEF Spec

=============================================================================
