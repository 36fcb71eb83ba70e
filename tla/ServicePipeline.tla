--------------------------- MODULE ServicePipeline ---------------------------
(***************************************************************************)
(* The pipeline of a service (.github/workflows/service-ci.yaml) on main:  *)
(* the graph of its jobs, what each of them needs and when it is skipped,  *)
(* the two fast paths, the deployment at the end and the report of         *)
(* failures, over a history of pushes, dispatches and re-runs.             *)
(*                                                                         *)
(* A gate is reduced to the trees it fails on.  The result of a job is a   *)
(* function of what the jobs it needs concluded with, so the order in      *)
(* which the gates of one run finish is left out; when a run is cancelled  *)
(* is not.  What a deployment does is in Delivery, and how a diff becomes  *)
(* a verdict in DiffRange.                                                 *)
(***************************************************************************)
EXTENDS Integers, Sequences, FiniteSets

CONSTANTS
  MaxCommits,  \* bound: commits on main
  MaxRuns,     \* bound: runs and re-runs
  MaxCrashes,  \* bound: jobs that fail, or hit their time limit, for no reason of the tree
  Catalog,     \* the entries the catalog may have for the repository
  Fragile,     \* those that may
  Breakable    \* the gates a commit may break

Lang == {"go", "other"}
Kind == {"deployable", "core", "schema"}
\* The identity of a repository, as the resolve job derives it.
Entry == [language : Lang, kind : Kind, rest : BOOLEAN]

-----------------------------------------------------------------------------
(* The jobs *)

All == Entry
Go == {e \in Entry : e.language = "go"}
Deployable == {e \in Entry : e.kind = "deployable"}
Rest == {e \in Deployable : e.rest}

Job(needs, skip, on) == [needs |-> needs, skip |-> skip, on |-> on]
Roots == {"resolve", "docs_only", "pin_only"}
Source(on) == Job(Roots, {"docs", "pins"}, on)          \* skipped by both fast paths
Always(on) == Job({"resolve", "docs_only"}, {"docs"}, on)  \* a version can break it

supported_language == Job({"resolve"}, {}, All)
standards          == Job({"resolve", "pin_only"}, {"pins"}, All)
build_test         == Always(Go)
codeql             == Source(Go)
events             == Source(All)
seeding            == Source(All)
schema             == Source(All)
dockerfile         == Source(Deployable)
structure          == Source(Go)
lanes              == Job({"resolve"}, {}, All)
vulnerabilities    == Always(Go)
uuid_policy        == Source(Go)
org_vocabulary     == Job({"resolve", "pin_only"}, {"pins"}, All)
sqlc               == Source(Go)
contracts          == Job({"resolve", "pin_only"}, {"pins"}, All)
integration        == Always(Deployable \cap Go)
docker_tests       == Job({"resolve", "docs_only", "build_test"}, {"docs"}, Go \ Deployable)
contract_classification == Source(Deployable)
gateway_baseline   == Source(Deployable)
contract           == Always(Rest)
openapi_generator  == Always(Rest)
e2e                == Always(Deployable \cap Go)
source_invariants  == Source(Go \cup {e \in Entry : e.kind = "schema"})
docs               == Job({"resolve", "pin_only"}, {"pins"}, All)
dependency_review  == Job({"resolve", "docs_only"}, {"docs"}, {})  \* pull requests only

Gates ==
  [supported_language |-> supported_language, standards |-> standards, build_test |-> build_test,
   codeql |-> codeql, events |-> events, seeding |-> seeding, schema |-> schema,
   dockerfile |-> dockerfile, structure |-> structure, lanes |-> lanes,
   vulnerabilities |-> vulnerabilities, uuid_policy |-> uuid_policy,
   org_vocabulary |-> org_vocabulary, sqlc |-> sqlc, contracts |-> contracts,
   integration |-> integration, docker_tests |-> docker_tests,
   contract_classification |-> contract_classification, gateway_baseline |-> gateway_baseline,
   contract |-> contract, openapi_generator |-> openapi_generator, e2e |-> e2e,
   source_invariants |-> source_invariants, docs |-> docs,
   dependency_review |-> dependency_review]
Gate == DOMAIN Gates

\* The needs of the artifact job.
Needed == {"resolve", "docs_only"} \cup
  {"supported_language", "standards", "build_test", "codeql", "events", "seeding", "schema",
   "dockerfile", "structure", "vulnerabilities", "sqlc", "docs", "contracts", "contract",
   "openapi_generator", "lanes", "integration", "docker_tests", "e2e"}

\* The needs of the notify job.
Watched_Mutant == (Needed \ {"docs_only"})
  \cup {"dependency_review", "contract_classification", "gateway_baseline", "artifact"}
Watched == Needed \cup {"dependency_review", "contract_classification", "gateway_baseline", "artifact"}

\* What the gates read.  Documentation cannot break the others, nor can a pin.
ReadsDocs == {"standards", "org_vocabulary", "contracts", "docs"}
ReadsPins == {"build_test", "integration", "docker_tests", "e2e", "vulnerabilities",
              "openapi_generator", "contracts", "contract"}

ASSUME BoundAssumption == {MaxCommits, MaxRuns, MaxCrashes} \subseteq Nat
ASSUME CatalogAssumption == Catalog \subseteq Entry
ASSUME GateAssumption == Breakable \subseteq Gate \ {"supported_language"} /\ Fragile \subseteq Gate \cup Roots \cup {"artifact", "notify"}

VARIABLES
  entry,   \* what the catalog says of the repository
  main,    \* the commits of main: what each changes, and the gates that fail on its tree
  runs,    \* the runs, in the order they were started
  dev,     \* the deployments of the service: the run that made it
  told     \* the runs whose failure was reported

vars == <<entry, main, runs, dev, told>>

Commit == [kind : {"code", "docs", "pins"}, broken : SUBSET Breakable,
           on : BOOLEAN]     \* history: it landed on a green main
Run == [at : 1 .. MaxCommits,
        ranged : BOOLEAN,  \* a push, with a commit before it to compare with
        fails : SUBSET Fragile,   \* jobs that crash
        stalls : SUBSET Fragile,  \* jobs that hit their time limit
        step : {"gates", "deploy", "report", "done"},
        cut : BOOLEAN]     \* cancelled

-----------------------------------------------------------------------------
(* The results of the jobs of run r *)

Tree(r) == main[runs[r].at]
\* What a job concludes with that no tree fails: one that hits its time limit is
\* cancelled, which is neither a success nor a failure.
Stalled(r, j) == j \in runs[r].stalls
Lost(r, j) == j \in runs[r].fails
Own(r, j) == IF Stalled(r, j) THEN "cancelled" ELSE IF Lost(r, j) THEN "failure" ELSE "success"
Ends(r, j) == Own(r, j) = "success"

Verdict(r, kind) == runs[r].ranged /\ Tree(r).kind = kind
docs_only(r) == Ends(r, "docs_only") /\ Verdict(r, "docs")
pin_only(r)  == Ends(r, "pin_only") /\ Verdict(r, "pins")

Skipped_Mutant(r, j) ==  \* a pin is taken for documentation
  \/ (docs_only(r) \/ pin_only(r)) /\ Gates[j].skip # {}
  \/ entry \notin Gates[j].on
Skipped(r, j) ==
  \/ docs_only(r) /\ "docs" \in Gates[j].skip
  \/ pin_only(r) /\ "pins" \in Gates[j].skip
  \/ entry \notin Gates[j].on

\* The tree fails a gate; a language nothing can build fails the guard.
Fails(r, j) == j \in Tree(r).broken \/ (j = "supported_language" /\ entry \notin Go)

\* A job that needs another which did not succeed is skipped.
Result(r, j) ==
  LET of[k \in Gate \cup Roots] ==
        IF k \in Roots THEN Own(r, k)
        ELSE IF (\E n \in Gates[k].needs : of[n] # "success") \/ Skipped(r, k) THEN "skipped"
        ELSE IF Fails(r, k) /\ ~Stalled(r, k) THEN "failure" ELSE Own(r, k)
  IN of[j]

FailedOf(r) == {j \in Gate \cup Roots : Result(r, j) = "failure"}
Passes(r, j) == Result(r, j) \in {"success", "skipped"}

\* always(): a skipped gate does not stop the deployment; a failed one does, and
\* a cancelled one.
Deploys_Mutant(r) ==  \* a cancelled one does not
  /\ entry \in Deployable
  /\ ~docs_only(r)
  /\ \A j \in Needed : Result(r, j) # "failure"
Deploys(r) ==
  /\ entry \in Deployable
  /\ ~docs_only(r)
  /\ \A j \in Needed : Passes(r, j)

-----------------------------------------------------------------------------
Active(r) == runs[r].step \in {"gates", "deploy"}

\* The concurrency group of the ref cancels the run in progress.
Cancelled == {r \in DOMAIN runs : Active(r)}

Crashes == Cardinality({r \in DOMAIN runs : runs[r].fails \cup runs[r].stalls # {}})

Enter(c, ranged, commits) ==
  /\ Len(runs) < MaxRuns
  /\ \E bad \in {{}} \cup {{j} : j \in IF Crashes < MaxCrashes THEN Fragile ELSE {}} :
     \E stalls \in SUBSET bad :
       runs' = Append([r \in DOMAIN runs |->
                         IF r \in Cancelled THEN [runs[r] EXCEPT !.step = "report", !.cut = TRUE]
                         ELSE runs[r]],
                      [at |-> c, ranged |-> ranged, fails |-> bad \ stalls, stalls |-> stalls,
                       step |-> "gates", cut |-> FALSE])
  /\ main' = commits
  /\ UNCHANGED <<entry, dev, told>>

IsGreen(r) ==
  /\ runs[r].step = "done" /\ ~runs[r].cut
  /\ \A j \in Gate \cup Roots : Passes(r, j)
  /\ Deploys(r) => Ends(r, "artifact")
GreenMain == main = << >> \/ \E r \in DOMAIN runs : runs[r].at = Len(main) /\ IsGreen(r)

Init == entry \in Catalog /\ main = << >> /\ runs = << >> /\ dev = << >> /\ told = {}

\* What a commit of a kind can do to the tree it changes.
Changes(kind) == CASE kind = "docs" -> ReadsDocs
                   [] kind = "pins" -> ReadsPins
                   [] OTHER -> Gate
Broken == IF main = << >> THEN {} ELSE main[Len(main)].broken

Push(kind) ==
  /\ Len(main) < MaxCommits
  /\ \E breaks \in {{}} \cup {{g} : g \in Changes(kind) \cap Breakable} :
       Enter(Len(main) + 1, main # << >>,
             Append(main, [kind |-> kind, broken |-> (Broken \ Changes(kind)) \cup breaks,
                           on |-> GreenMain]))

Dispatch == main # << >> /\ Enter(Len(main), FALSE, main)

Rerun(r) == runs[r].step = "done" /\ Enter(runs[r].at, runs[r].ranged, main)

Examine(r) ==
  /\ runs[r].step = "gates"
  /\ runs' = [runs EXCEPT ![r].step = IF Deploys(r) THEN "deploy" ELSE "report"]
  /\ UNCHANGED <<entry, main, dev, told>>

\* A deployment that crashes or hits its limit may have written the pin.
Deploy(r) ==
  /\ runs[r].step = "deploy"
  /\ dev' \in {Append(dev, r)} \cup (IF Ends(r, "artifact") THEN {} ELSE {dev})
  /\ runs' = [runs EXCEPT ![r].step = "report"]
  /\ UNCHANGED <<entry, main, told>>

\* Only what failed is reported.
ArtifactFailed(r) == Deploys(r) /\ Own(r, "artifact") = "failure"
Reported(r) == {j \in FailedOf(r) : j \in Watched} \cup {j \in {"artifact"} : ArtifactFailed(r) /\ j \in Watched}

\* A cancelled run reports the gates that had failed by then, if any had; a report
\* that crashes, is refused or hits its limit may have been posted.
Notify(r) ==
  /\ runs[r].step = "report"
  /\ told' \in (IF Reported(r) = {} THEN {told}
                ELSE {told \cup {r}} \cup (IF runs[r].cut \/ ~Ends(r, "notify") THEN {told} ELSE {}))
  /\ runs' = [runs EXCEPT ![r].step = "done"]
  /\ UNCHANGED <<entry, main, dev>>

Next ==
  \/ \E kind \in {"code", "docs", "pins"} : Push(kind)
  \/ Dispatch
  \/ \E r \in DOMAIN runs : Rerun(r) \/ Examine(r) \/ Deploy(r) \/ Notify(r)

Spec == Init /\ [][Next]_vars

-----------------------------------------------------------------------------

\* The gates that apply to the repository and fail on what run r deployed.
BrokenIn(r) == {g \in Tree(r).broken : entry \in Gates[g].on}
Deployed == {dev[i] : i \in DOMAIN dev}

\* Nothing that a version can break, and nothing in a language the gates do
\* not read, reaches dev: not by a fast path, a job that crashes and takes the
\* gates that need it with it, a red commit below, a cancellation or a re-run.
WhatRunsIsBuilt ==
  /\ \A r \in Deployed : BrokenIn(r) \cap ((ReadsPins \ ReadsDocs) \cup {"lanes"}) = {}
  /\ dev # << >> => entry \in Go

\* Nothing reaches dev that a gate fails on, however runs are cancelled and
\* re-run; as long as commits land on a green main and the classifier of pins
\* neither crashes nor hits its limit.
LandedOnGreen(r) == \A c \in 1 .. runs[r].at : main[c].on
WhatRunsIsClean ==
  \A r \in Deployed :
    LandedOnGreen(r) /\ Ends(r, "pin_only") => BrokenIn(r) = {}

\* The jobs that kept run r from dev and did not fail.
Held(r) ==
  {j \in Needed : Result(r, j) = "cancelled"} \cup {j \in {"artifact"} : Deploys(r) /\ Stalled(r, j)}

\* Every run that ends, of a change that is not documentation, is in dev or was
\* reported: whatever crashed or was skipped in it and however runs are started
\* around it.  It is in neither only when a push cancelled it, when nothing in it
\* failed and a time limit alone kept it from dev, or when the job that reports a
\* failure itself did not end.
NothingIsForgotten ==
  entry \in Deployable =>
    \A r \in DOMAIN runs :
      runs[r].step = "done" /\ ~runs[r].cut /\ ~docs_only(r) =>
        \/ r \in Deployed \cup told
        \/ Reported(r) = {} /\ Held(r) # {}
        \/ Reported(r) # {} /\ ~Ends(r, "notify")

(* Expectations the code does not meet; the README says what refutes them. *)

\* Nothing reaches dev that a gate fails on.
NothingBrokenInDev == \A r \in Deployed : BrokenIn(r) = {}

\* When everything has ended the newest commit that is not documentation runs
\* in dev, or a run of it or of a later one was reported.
NothingIsForgottenEver ==
  entry \in Deployable /\ (\A r \in DOMAIN runs : runs[r].step = "done") =>
    \A c \in DOMAIN main :
      main[c].kind # "docs" => \E r \in Deployed \cup told : runs[r].at >= c

\* A run that a time limit kept from dev was reported.
StallsAreTold ==
  \A r \in DOMAIN runs : runs[r].step = "done" /\ ~runs[r].cut /\ Held(r) # {} => r \in told

\* Every run that failed was reported.
FailuresAreTold ==
  \A r \in DOMAIN runs : runs[r].step = "done" /\ ~runs[r].cut /\ FailedOf(r) # {} => r \in told
=============================================================================
