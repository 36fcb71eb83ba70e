------------------------------ MODULE Delivery ------------------------------
(***************************************************************************)
(* Delivery of a service (.github/workflows/deploy-reusable.yaml): a run   *)
(* resolves the declared input, uploads the source, starts the canonical   *)
(* build, waits for its digest and pins it into the dev overlay of the     *)
(* infrastructure repository, which every service writes.                  *)
(*                                                                         *)
(* The build runs in CodeBuild and outlives the run that started it.  The  *)
(* central registry is immutable and derives the tag from the input set:   *)
(* the commit and the revision of the declared input.  The buildspec and   *)
(* the scripts of the infrastructure repository are modelled from how the  *)
(* workflow uses them.                                                     *)
(***************************************************************************)
EXTENDS Integers, Sequences

CONSTANTS
  Services,
  MaxCommit,     \* bound: commits on main of a service
  MaxContent,    \* bound: revisions of the declared input (a moving ref)
  MaxRuns,       \* bound: runs and re-runs of all services
  LostAnswers,   \* bound: pushes whose answer is lost
  LossPoints,    \* the steps at which a run may fail by itself
  StopPoints,    \* the steps at which a person may cancel a run
  BuildsFail,    \* may the canonical build fail by itself?
  CallerCancels, \* does a new run of the caller cancel the one in progress (service-ci.yaml)?
  AnyOrder       \* may a run be re-run after a newer commit landed?

Active == {"resolve", "upload", "start", "poll", "fetch", "push"}
Ended  == {"green", "red", "superseded", "stopped"}

ASSUME BoundAssumption == /\ {MaxCommit, MaxContent, MaxRuns, LostAnswers} \subseteq Nat
                          /\ MaxCommit > 0
ASSUME SwitchAssumption == {BuildsFail, CallerCancels, AnyOrder} \subseteq BOOLEAN
ASSUME LossAssumption == LossPoints \subseteq Active /\ StopPoints \subseteq Active \cup {"queued"}

VARIABLES
  head,     \* the newest commit of each service
  content,  \* the newest revision of the declared input
  runs,     \* the runs of every service, in the order they were started
  source,   \* the uploaded source of each commit: the revision of the input inside it
  images,   \* the central registry
  infra,    \* the commits of the infrastructure repository: one pin each
  lost      \* counts pushes whose answer was lost (bound)

vars == <<head, content, runs, source, images, infra, lost>>

Commits  == 1 .. MaxCommit
Contents == 0 .. MaxContent

\* An image is tagged (c, in); holds is the revision it was really built from.
Image == [s : Services, c : Commits, in : Contents, holds : Contents]
Pin == [s : Services, c : Commits, in : Contents]
Build == [step : {"none", "started", "building", "succeeded", "failed", "rejected"},
          got : Contents]
Run == [s : Services, c : Commits, step : Active \cup Ended \cup {"queued"},
        in : Contents,  \* the resolved input
        build : Build,  \* the canonical build it started
        base : Nat,     \* the commit of the infrastructure repository it fetched last
        from : Nat]     \* the one that was current when the run became active

-----------------------------------------------------------------------------
(* Runs and the concurrency group of a service *)

Of(s) == {r \in DOMAIN runs : runs[r].s = s}
At(r, step) == runs[r].step = step
Live(r) == runs[r].step \notin Ended
Goto(r, step) == runs' = [runs EXCEPT ![r].step = step]

Busy(s) == ~CallerCancels /\ \E r \in Of(s) : runs[r].step \in Active

Superseded_Mutant(s) == {}  \* every run waits
\* The group keeps one run waiting; the group of the caller cancels the active one too.
Superseded(s) == {r \in Of(s) : At(r, "queued") \/ (CallerCancels /\ Live(r))}

Fresh(s, c) ==
  [s |-> s, c |-> c, step |-> IF Busy(s) THEN "queued" ELSE "resolve", in |-> 0,
   build |-> [step |-> "none", got |-> 0], base |-> 0, from |-> Len(infra)]

Enter(s, c) ==
  /\ Len(runs) < MaxRuns
  /\ runs' = Append([r \in DOMAIN runs |->
                       IF r \in Superseded(s) THEN [runs[r] EXCEPT !.step = "superseded"] ELSE runs[r]],
                    Fresh(s, c))

Finish_Mutant(r, outcome, commits) ==  \* nothing starts the run that waits
  runs' = [runs EXCEPT ![r].step = outcome]
\* The run that waits follows at once.
Finish(r, outcome, commits) ==
  runs' = [q \in DOMAIN runs |->
             CASE q = r -> [runs[q] EXCEPT !.step = outcome]
               [] q # r /\ At(q, "queued") /\ runs[q].s = runs[r].s ->
                    [runs[q] EXCEPT !.step = "resolve", !.from = commits]
               [] OTHER -> runs[q]]

Init ==
  /\ head = [s \in Services |-> 0] /\ content = 0
  /\ runs = << >>
  /\ source = [s \in Services |-> [c \in Commits |-> 0]]
  /\ images = {} /\ infra = << >> /\ lost = 0

(* What starts a run *)

Land(s) ==
  /\ head[s] < MaxCommit
  /\ head' = [head EXCEPT ![s] = @ + 1]
  /\ Enter(s, head[s] + 1)
  /\ UNCHANGED <<content, source, images, infra, lost>>

MoveContent ==
  /\ content < MaxContent
  /\ content' = content + 1
  /\ UNCHANGED <<head, runs, source, images, infra, lost>>

\* workflow_dispatch, or the repository_dispatch of a content repository.
Dispatch(s) ==
  /\ head[s] > 0
  /\ Enter(s, head[s])
  /\ UNCHANGED <<head, content, source, images, infra, lost>>

Rerun(r) ==
  /\ ~Live(r)
  /\ AnyOrder \/ runs[r].c = head[runs[r].s]
  /\ Enter(runs[r].s, runs[r].c)
  /\ UNCHANGED <<head, content, source, images, infra, lost>>

-----------------------------------------------------------------------------
(* The canonical build *)

BuildAt(r, step) == runs[r].build.step = step
Tagged(r) == \E i \in images : i.s = runs[r].s /\ i.c = runs[r].c /\ i.in = runs[r].in

\* The build-once probe, then the download of the uploaded source.
ProbeBuild(r) ==
  /\ BuildAt(r, "started")
  /\ runs' = [runs EXCEPT ![r].build =
                [step |-> IF Tagged(r) THEN "succeeded" ELSE "building",
                 got |-> source[runs[r].s][runs[r].c]]]
  /\ UNCHANGED <<head, content, source, images, infra, lost>>

\* The registry refuses a second image under a tag.
PublishImage(r) ==
  /\ BuildAt(r, "building")
  /\ runs' = [runs EXCEPT ![r].build.step = IF Tagged(r) THEN "rejected" ELSE "succeeded"]
  /\ images' = IF Tagged(r) THEN images
               ELSE images \cup {[s |-> runs[r].s, c |-> runs[r].c, in |-> runs[r].in,
                                  holds |-> runs[r].build.got]}
  /\ UNCHANGED <<head, content, source, infra, lost>>

BuildFails(r) ==
  /\ BuildsFail /\ (BuildAt(r, "started") \/ BuildAt(r, "building"))
  /\ runs' = [runs EXCEPT ![r].build.step = "failed"]
  /\ UNCHANGED <<head, content, source, images, infra, lost>>

-----------------------------------------------------------------------------
(* The run *)

\* The declared ref is resolved to a revision and checked out into the source tree.
ResolveInputs(r) ==
  /\ At(r, "resolve")
  /\ runs' = [runs EXCEPT ![r].step = "upload", ![r].in = content]
  /\ UNCHANGED <<head, content, source, images, infra, lost>>

\* The name of the upload contains the commit of the service and nothing else.
UploadSource(r) ==
  /\ At(r, "upload") /\ Goto(r, "start")
  /\ source' = [source EXCEPT ![runs[r].s][runs[r].c] = runs[r].in]
  /\ UNCHANGED <<head, content, images, infra, lost>>

StartBuild(r) ==
  /\ At(r, "start")
  /\ runs' = [runs EXCEPT ![r].step = "poll", ![r].build.step = "started"]
  /\ UNCHANGED <<head, content, source, images, infra, lost>>

PollBuild_Mutant(r) ==  \* any end of the build is good enough
  /\ At(r, "poll")
  /\ runs[r].build.step \in {"succeeded", "failed", "rejected"}
  /\ Goto(r, "fetch")
  /\ UNCHANGED <<head, content, source, images, infra, lost>>
PollBuild(r) ==
  /\ At(r, "poll")
  /\ \/ BuildAt(r, "succeeded") /\ Goto(r, "fetch")
     \/ runs[r].build.step \in {"failed", "rejected"} /\ Finish(r, "red", Len(infra))
  /\ UNCHANGED <<head, content, source, images, infra, lost>>

PinOf(r) == [s |-> runs[r].s, c |-> runs[r].c, in |-> runs[r].in]
Dev(s) == {infra[i] : i \in {j \in DOMAIN infra : /\ infra[j].s = s
                                                 /\ \A k \in (j + 1) .. Len(infra) : infra[k].s # s}}

\* fetch, reset --hard, set the image; a pin that is there already is not pushed.
FetchInfra(r) ==
  /\ At(r, "fetch")
  /\ IF PinOf(r) \in Dev(runs[r].s)
     THEN Finish(r, "green", Len(infra))
     ELSE runs' = [runs EXCEPT ![r].step = "push", ![r].base = Len(infra)]
  /\ UNCHANGED <<head, content, source, images, infra, lost>>

PushPin_Mutant(r) ==  \* git push --force
  /\ At(r, "push")
  /\ infra' = Append(SubSeq(infra, 1, runs[r].base), PinOf(r))
  /\ Finish(r, "green", Len(infra'))
  /\ UNCHANGED <<head, content, source, images, lost>>
PushPin(r) ==
  /\ At(r, "push") /\ runs[r].base = Len(infra)
  /\ infra' = Append(infra, PinOf(r))
  /\ Finish(r, "green", Len(infra'))
  /\ UNCHANGED <<head, content, source, images, lost>>

\* The push reached the repository and its answer did not reach the run.
PushUnacknowledged(r) ==
  /\ At(r, "push") /\ runs[r].base = Len(infra)
  /\ lost < LostAnswers /\ lost' = lost + 1
  /\ infra' = Append(infra, PinOf(r))
  /\ Goto(r, "fetch")
  /\ UNCHANGED <<head, content, source, images>>

PushRaceLost(r) ==
  /\ At(r, "push") /\ runs[r].base # Len(infra)
  /\ Goto(r, "fetch")
  /\ UNCHANGED <<head, content, source, images, infra, lost>>

\* A step fails, the loop passes its deadline or the runner is lost.
RunFails(r) ==
  /\ runs[r].step \in LossPoints
  /\ Finish(r, "red", Len(infra))
  /\ UNCHANGED <<head, content, source, images, infra, lost>>

Stop(r) ==
  /\ runs[r].step \in StopPoints
  /\ IF At(r, "queued") THEN Goto(r, "stopped") ELSE Finish(r, "stopped", Len(infra))
  /\ UNCHANGED <<head, content, source, images, infra, lost>>

-----------------------------------------------------------------------------
BuildStep(r) == ProbeBuild(r) \/ PublishImage(r)
RunStep(r) == \/ ResolveInputs(r) \/ UploadSource(r) \/ StartBuild(r) \/ PollBuild(r)
              \/ FetchInfra(r) \/ PushPin(r) \/ PushRaceLost(r)

Next ==
  \/ \E s \in Services : Land(s) \/ Dispatch(s)
  \/ MoveContent
  \/ \E r \in DOMAIN runs :
       \/ Rerun(r) \/ BuildStep(r) \/ BuildFails(r) \/ RunStep(r)
       \/ PushUnacknowledged(r) \/ RunFails(r) \/ Stop(r)

Spec == Init /\ [][Next]_vars

\* A started job and a started build go on; nothing forces a failure, a
\* deadline or the end of the push races.
FairSpec == Spec /\ WF_vars(\E r \in DOMAIN runs : RunStep(r) \/ BuildStep(r))

-----------------------------------------------------------------------------
\* The types, and the shape of a concurrency group: one run active, one waiting.
TypeOK ==
  /\ \A q, r \in DOMAIN runs : q # r /\ runs[q].s = runs[r].s /\ At(q, "queued") => ~At(r, "queued")
  /\ \A q, r \in DOMAIN runs :
       q # r /\ runs[q].s = runs[r].s /\ runs[q].step \in Active => runs[r].step \notin Active
  /\ head \in [Services -> 0 .. MaxCommit]
  /\ content \in Contents
  /\ runs \in Seq(Run)
  /\ source \in [Services -> [Commits -> Contents]]
  /\ images \subseteq Image
  /\ infra \in Seq(Pin)
  /\ lost \in 0 .. LostAnswers

\* Dev only ever runs an image the registry has, under push races, retries,
\* rejected builds and runs that end anywhere.
PinnedIsPublished ==
  \A i \in DOMAIN infra : \E im \in images :
    im.s = infra[i].s /\ im.c = infra[i].c /\ im.in = infra[i].in

\* Delivery implements the rollout: each publication adds one image under a tag
\* that is free, and each push moves one service on to a published image that
\* is no older and leaves every other service alone; no other step is seen from
\* outside, whatever is lost, repeated, raced or cancelled.
Environment == INSTANCE Rollout WITH registry <- images, dev <- [s \in Services |-> Dev(s)]
ImplementsRollout == Environment!Spec

\* Dev never goes back: not to an older commit, and not to an older revision
\* of the input, which each run resolves for itself.
DevFollowsMain ==
  \A i, j \in DOMAIN infra :
    i < j /\ infra[i].s = infra[j].s => infra[i].c <= infra[j].c /\ infra[i].in <= infra[j].in

\* A service nothing is running for is at its newest commit, or somebody knows:
\* a run of a commit as new failed, which is reported, or was stopped by hand.
\* Services that push into the repository together never undo each other's pin.
NoForgottenCommit ==
  \A s \in Services : (\A r \in Of(s) : ~Live(r)) /\ head[s] > 0 =>
    \/ \E p \in Dev(s) : p.c = head[s]
    \/ \E r \in Of(s) : runs[r].c = head[s] /\ runs[r].step \in {"red", "stopped"}

\* Every run ends, the one that waits included, although other services keep
\* winning the push.
Running(r) == r \in DOMAIN runs /\ Live(r)
EveryRunEnds == \A r \in 1 .. MaxRuns : Running(r) ~> ~Running(r)

(* Expectations the code does not meet; the README says what refutes them. *)

\* An image holds what its tag says, although the uploads of one commit share
\* a name and the input moves between two of them.
ImageHoldsInputs == \A im \in images : im.holds = im.in

\* No canonical build is ever refused by the immutable registry: two runs
\* never build the same tag side by side.
NoRejectedBuild == \A r \in DOMAIN runs : ~BuildAt(r, "rejected")

\* A run reported as failed has left dev at the digest it had before.
ReportIsTrue ==
  [][\A r \in DOMAIN runs : ~At(r, "red") /\ runs'[r].step = "red" =>
       \A i \in (runs[r].from + 1) .. Len(infra) : infra[i].s # runs[r].s]_vars
=============================================================================
