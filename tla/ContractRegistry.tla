-------------------------- MODULE ContractRegistry --------------------------
(***************************************************************************)
(* The registry job of openapi-contract.yaml: compare the spec with the    *)
(* published baseline, allocate a version and push the snapshot to the one *)
(* repository every service publishes into.                                *)
(*                                                                         *)
(* A job works on the state of main it fetched last; the push is refused   *)
(* when main has moved on, and the job starts over from the fetch.  A      *)
(* maintainer may publish by hand at any moment, which is the remedy the   *)
(* breaking-change check names.                                            *)
(*                                                                         *)
(* A document is the set of operations it offers; removing one breaks it.  *)
(***************************************************************************)
EXTENDS Integers, FiniteSets, Semver

CONSTANTS
  Services,     \* the directories of the registry
  Ops,          \* the operations a document may offer
  Jobs,         \* one registry job each
  InitialDirs,  \* the directory a service may start with
  Serial,       \* does a service have one registry job at a time (concurrency group of its callers)?
  ApiBlips,     \* may the fetch of the baseline fail although there is one?
  HandPublications, \* bound: publications by hand
  PushFailures, \* bound: pushes that fail for another reason than a race
  HandMistakes, \* may a maintainer move latest.json without its snapshot?
  Nil,
  Malformed     \* a VERSION file that is not vMAJOR.MINOR.PATCH

Docs == SUBSET Ops
Dir == [version : Version \cup {Nil, Malformed}, latest : {Nil} \cup Docs,
        snaps : SUBSET [v : Version, doc : Docs]]
Tree == [dirs : [Services -> Dir], index : [Services -> [v : Version \cup {Nil, Malformed}, doc : {Nil} \cup Docs]]]

\* The version on file, or the default when there is none.
Current(dir) == IF dir.version = Nil THEN [ma |-> 1, mi |-> 0, pa |-> 0] ELSE dir.version

OneDocPerVersion(dir) == \A x, y \in dir.snaps : x.v = y.v => x = y
NothingNewer(dir) == dir.version # Malformed => \A x \in dir.snaps : ~Newer(x.v, Current(dir))

ASSUME NilAssumption == /\ Nil \notin Version \cup {Malformed} /\ \A doc \in Docs : doc # Nil
                        /\ Malformed \notin Version
ASSUME DirsAssumption ==
  /\ InitialDirs \subseteq Dir
  /\ \A dir \in InitialDirs : OneDocPerVersion(dir) /\ NothingNewer(dir)
ASSUME BoundAssumption == /\ HandPublications \in Nat /\ PushFailures \in Nat
                          /\ {Serial, ApiBlips, HandMistakes} \subseteq BOOLEAN

VARIABLES
  main,  \* the registry's main branch: the service directories and index.json
  job,   \* the registry jobs
  hands, \* counts publications by hand (bound)
  lost   \* counts pushes that failed without a race (bound)

bounds == <<hands, lost>>
vars == <<main, job, bounds>>

Steps == {"baseline", "check", "fetch", "push", "published", "unchanged", "refused", "failed"}
Ended == {"published", "unchanged", "refused", "failed"}

Job == [s : Services, doc : Docs, step : Steps,
        baseline : {Nil} \cup Docs,    \* baseline.json, or "no published baseline yet"
        base : {Nil} \cup Tree,        \* the main fetched last
        v : Version \cup {Nil},        \* the version allocated for it
        out : Version \cup {Nil}]      \* contract_version, what a deploy records

-----------------------------------------------------------------------------
Breaks(old, new) == ~(old \subseteq new)

\* tools/generate_index.py over the whole tree.
Index(dirs) == [s \in Services |-> [v |-> dirs[s].version, doc |-> dirs[s].latest]]
TreeOf(dirs) == [dirs |-> dirs, index |-> Index(dirs)]

WithSnapshot(tree, s, v, doc) ==
  TreeOf([tree.dirs EXCEPT ![s] = [version |-> v, latest |-> doc,
                                   snaps |-> @.snaps \cup {[v |-> v, doc |-> doc]}]])

Owned(dir, v) == \E x \in dir.snaps : x.v = v

\* A version no published document owns.
Allocated(dir) ==
  IF Owned(dir, Current(dir)) THEN NextVersion(Current(dir), "minor") ELSE Current(dir)

Set(j, rec) == job' = [job EXCEPT ![j] = rec]
At(j, step) == job[j] # Nil /\ job[j].step = step
Running(j) == job[j] # Nil /\ job[j].step \notin Ended
Mine(j) == main.dirs[job[j].s]

-----------------------------------------------------------------------------
Init ==
  /\ \E dirs \in [Services -> InitialDirs] : main = TreeOf(dirs)
  /\ job = [j \in Jobs |-> Nil]
  /\ hands = 0 /\ lost = 0

\* A push to the default branch of a service, with any document.
StartJob(j, s, doc) ==
  /\ job[j] = Nil
  /\ Serial => \A k \in Jobs : Running(k) => job[k].s # s
  /\ Set(j, [s |-> s, doc |-> doc, step |-> "baseline", baseline |-> Nil,
             base |-> Nil, v |-> Nil, out |-> Nil])
  /\ UNCHANGED <<main, bounds>>

FetchBaseline(j) ==
  /\ At(j, "baseline")
  /\ \E seen \in {Mine(j).latest} \cup (IF ApiBlips THEN {Nil} ELSE {}) :
       Set(j, [job[j] EXCEPT !.baseline = seen, !.step = "check"])
  /\ UNCHANGED <<main, bounds>>

CheckBreaking_Mutant(j) ==  \* the comparison is never a failure
  /\ At(j, "check")
  /\ Set(j, [job[j] EXCEPT !.step = "fetch"])
  /\ UNCHANGED <<main, bounds>>
CheckBreaking(j) ==
  /\ At(j, "check")
  /\ Set(j, [job[j] EXCEPT !.step =
               IF job[j].baseline # Nil /\ Breaks(job[j].baseline, job[j].doc)
               THEN "refused" ELSE "fetch"])
  /\ UNCHANGED <<main, bounds>>

\* fetch, reset --hard, and the published document already is this document.
\* Only a snapshot with the same bytes gives the run a contract version.
AlreadyPublished_Mutant(j) ==  \* VERSION is recorded without looking at its snapshot
  /\ At(j, "fetch") /\ Mine(j).latest = job[j].doc
  /\ LET v == Mine(j).version
     IN  Set(j, [job[j] EXCEPT !.step = "unchanged", !.out = IF v \in Version THEN v ELSE Nil])
  /\ UNCHANGED <<main, bounds>>
AlreadyPublished(j) ==
  /\ At(j, "fetch") /\ Mine(j).latest = job[j].doc
  /\ LET v == Mine(j).version
     IN  Set(j, [job[j] EXCEPT !.step = "unchanged",
                               !.out = IF [v |-> v, doc |-> job[j].doc] \in Mine(j).snaps THEN v ELSE Nil])
  /\ UNCHANGED <<main, bounds>>

\* fetch, reset --hard, allocate, write the snapshot, the index and the commit.
PrepareCommit(j) ==
  /\ At(j, "fetch") /\ Mine(j).latest # job[j].doc
  /\ Mine(j).version # Malformed
  /\ ~Owned(Mine(j), Allocated(Mine(j)))
  /\ Set(j, [job[j] EXCEPT !.base = main, !.v = Allocated(Mine(j)), !.step = "push"])
  /\ UNCHANGED <<main, bounds>>

RefuseOverwrite(j) ==
  /\ At(j, "fetch") /\ Mine(j).latest # job[j].doc
  /\ Mine(j).version = Malformed \/ Owned(Mine(j), Allocated(Mine(j)))
  /\ Set(j, [job[j] EXCEPT !.step = "failed"])
  /\ UNCHANGED <<main, bounds>>

Push_Mutant(j) ==  \* git push --force
  /\ At(j, "push")
  /\ main' = WithSnapshot(job[j].base, job[j].s, job[j].v, job[j].doc)
  /\ Set(j, [job[j] EXCEPT !.step = "published", !.out = job[j].v, !.base = Nil])
  /\ UNCHANGED bounds
Push(j) ==
  /\ At(j, "push") /\ main = job[j].base
  /\ main' = WithSnapshot(job[j].base, job[j].s, job[j].v, job[j].doc)
  /\ Set(j, [job[j] EXCEPT !.step = "published", !.out = job[j].v, !.base = Nil])
  /\ UNCHANGED bounds

\* The push fails although it reached the registry: the job has no answer.
PushUnacknowledged(j) ==
  /\ At(j, "push") /\ main = job[j].base
  /\ lost < PushFailures /\ lost' = lost + 1
  /\ main' = WithSnapshot(job[j].base, job[j].s, job[j].v, job[j].doc)
  /\ Set(j, [job[j] EXCEPT !.step = "fetch", !.base = Nil, !.v = Nil])
  /\ UNCHANGED hands

\* A push that was refused, for a race or anything else, starts the loop over.
PushRaceLost_Mutant(j) ==  \* pushes the same commit again
  /\ At(j, "push") /\ main # job[j].base
  /\ Set(j, job[j])
  /\ UNCHANGED <<main, bounds>>
PushRaceLost(j) ==
  /\ At(j, "push")
  /\ \/ main # job[j].base /\ UNCHANGED lost
     \/ lost < PushFailures /\ lost' = lost + 1
  /\ Set(j, [job[j] EXCEPT !.step = "fetch", !.base = Nil, !.v = Nil])
  /\ UNCHANGED <<main, hands>>

\* Any step fails, the loop passes its deadline or the job is cancelled.
JobFails(j) ==
  /\ Running(j)
  /\ Set(j, [job[j] EXCEPT !.step = "failed", !.base = Nil, !.v = Nil])
  /\ UNCHANGED <<main, bounds>>

(* Maintainers of the registry *)

NextMajor(dir) == NextVersion(Current(dir), "major")

PublishByHand(s, doc) ==
  /\ hands < HandPublications /\ hands' = hands + 1
  /\ main.dirs[s].version # Malformed
  /\ main.dirs[s].latest # doc
  /\ main' = WithSnapshot(main, s, NextMajor(main.dirs[s]), doc)
  /\ UNCHANGED <<job, lost>>

MoveLatestByHand(s, doc) ==
  /\ HandMistakes
  /\ hands < HandPublications /\ hands' = hands + 1
  /\ main.dirs[s].latest # doc
  /\ main' = TreeOf([main.dirs EXCEPT ![s].latest = doc])
  /\ UNCHANGED <<job, lost>>

JobStep(j) ==
  \/ FetchBaseline(j) \/ CheckBreaking(j) \/ AlreadyPublished(j) \/ PrepareCommit(j)
  \/ RefuseOverwrite(j) \/ Push(j) \/ PushRaceLost(j)

Next ==
  \/ \E j \in Jobs :
       \/ \E s \in Services, doc \in Docs : StartJob(j, s, doc)
       \/ JobStep(j) \/ PushUnacknowledged(j) \/ JobFails(j)
  \/ \E s \in Services, doc \in Docs : PublishByHand(s, doc) \/ MoveLatestByHand(s, doc)

Spec == Init /\ [][Next]_vars

\* A started job keeps taking its steps; nothing forces a failure, a deadline
\* or the end of the races.  What is no race fails finitely many pushes: the
\* deadline of the loop, 300 s, ends it otherwise.
FairSpec == Spec /\ \A j \in Jobs : WF_vars(JobStep(j))

-----------------------------------------------------------------------------
TypeOK ==
  /\ main \in Tree
  /\ job \in [Jobs -> Job \cup {Nil}]
  /\ hands \in 0..HandPublications /\ lost \in 0..PushFailures

\* The registry is an immutable store: what is published stays, byte for byte,
\* and versions only grow, under push races, retries of a push that did go
\* through, and publications by hand.
Published == UNION {{[s |-> s, v |-> x.v, doc |-> x.doc] : x \in main.dirs[s].snaps} : s \in Services}
Store == INSTANCE ContractStore WITH store <- Published
ImplementsStore == Store!Spec

\* Within one major every publication is additive: a consumer of v1.a is
\* served by every v1.b after it; as long as nobody publishes by hand.
AdditiveWithinMajor ==
  hands = 0 => \A s \in Services : \A x, y \in main.dirs[s].snaps :
    x.v.ma = y.v.ma /\ Newer(y.v, x.v) => ~Breaks(x.doc, y.doc)

\* The version a run hands to its deploy names exactly the bytes of its spec,
\* and goes on naming them after the run has ended.
RecordedIsVerbatim ==
  \A j \in Jobs : job[j] # Nil /\ job[j].out # Nil =>
    [v |-> job[j].out, doc |-> job[j].doc] \in main.dirs[job[j].s].snaps

\* A job that has to publish ends, without its deadline: a lost race is always
\* somebody else's publication, so finitely many jobs cannot starve one another.
EveryJobEnds == \A j \in Jobs : Running(j) ~> ~Running(j)
=============================================================================
