# Verification of ci-workflows

ci-workflows is the central CI of a fleet of Go services: reusable GitHub
workflows, composite actions and the Python checkers they run. Nothing in it
is a long-lived process. Its state is in git branches and tags, GitHub
Releases, pull requests, a registry of contracts, a registry of images and an
infrastructure repository, and what changes that state are *runs*: short,
unreliable, concurrent, cancelled at any moment, and re-run by people who read
"re-run" in an error message. The interesting questions are therefore protocol
questions: what does a re-run find, what does a second run overtake, what is
lost when an answer is lost. This directory holds TLA+ models of those
protocols, and of the checkers whose verdicts several repositories have to agree
on, the TLC runs that check them on small instances, and TLAPS proofs of every
safety property those runs check.

All paths below are relative to `src/`. `PROJECT.json` maps every definition
to the lines it models.

1. [The system](#1-the-system)
2. [The modules](#2-the-modules)
3. [The runs](#3-the-runs)
4. [Fairness](#4-fairness)
5. [The proofs](#5-the-proofs)
6. [Where the code and its documentation disagree](#6-where-the-code-and-its-documentation-disagree)
7. [What is not modelled](#7-what-is-not-modelled)
8. [Plan](#8-plan)

## 1. The system

### Parts with a protocol

**Module release** (`.github/workflows/module-release.yaml`). Releases a core
Go module. State: the version tags, the GitHub Releases (draft or public), the
bumps that reached each consumer, and the concurrency group of the repository
(one run active, one waiting). A run passes ci-gate (the commit needs green
CI), resolves a version (a pushed tag, an explicit version, the recovery of a
tag that already stands at HEAD, or the next version by Conventional Commits),
runs the gates, the build and the tests, pushes the tag, publishes the Release
and starts one leg per consumer. Hard: any step may fail and the run is
re-run, wholly or its failed jobs; recovery has to guess from the tag and the
Release how far the earlier run came; tags arrive by hand. Correct when a
version names one commit, what is public was verified, consumers are sent only
to public versions, versions grow along history, and nothing releasable is
lost silently.

**bump-module-pin** (`bump-module-pin/action.yaml`). One leg: read the pin of
a consumer, skip a stale bump, test the new pin, close superseded PRs, open
the own PR, arm auto-merge unless the bump crosses a compatibility boundary.
State: the pin on the consumer's main and its open PRs. Hard: the pin is read
minutes before it is used; PRs merge in between; legs of other releases do the
same. Correct when no merge lowers the pin, a boundary is crossed only by
review and no version is forgotten.

**Contract publication** (`.github/workflows/openapi-contract.yaml`). Publishes
the OpenAPI document of a service into one git repository: baseline,
breaking-change check, allocation of a version, and a loop of fetch, reset,
write, push. State: the service directories and `index.json` of the registry.
Hard: all services push to one branch; a push may be applied and its answer
lost; people publish by hand. Correct when the registry is an immutable,
growing store and a run records exactly what it published.

**Release of ci-workflows** (`.github/workflows/release.yaml`, triggers and
release-drift of `ci.yaml`). Every commit of main is tagged and `v1`, which
the fleet pins, is moved onto it. State: tags, `v1`, the CI runs of each
commit, the release runs and their group. Hard: CI runs cancel each other, a
daily run contains a job that is red while `v1` lags, two pushes have to move
together. Correct when `v1` only moves forward, onto verified commits, never
onto a breaking one, and lags only with a red run to show for it.

**Reference window, API-0007** (`scripts/check-api-contract.py:102-254, 1764-1978, 2251-2330`,
called by release.yaml). A reference file names the accepted component sets
(current, and next or previous) and a floor; between two releases only a step
of stage, promote, drop is allowed. Correct when no release is a flag day for
the services pinned to `v1`.

**Delivery** (`.github/workflows/deploy-reusable.yaml`). Resolves declared
inputs, uploads the source, starts the canonical build in CodeBuild, waits for
its digest and pins it into the infrastructure repository. State: the upload
of each commit, the builds, the immutable image registry, the pins, the group
of the ref. Hard: the build outlives the run; inputs move; every service
pushes into one repository. Correct when dev only names published images,
never goes back, services do not undo each other, and no commit is forgotten.

**Service pipeline** (`.github/workflows/service-ci.yaml`). Twenty-five gates
with their needs and conditions, two fast paths (documentation only, pins
only), the deployment and the failure report. Hard: `skipped` is tolerated, so
a job that crashes can take its dependants with it; a push cancels the run its
own diff starts from. Correct when nothing broken is deployed and nothing is
forgotten.

**Diff classification** (`scripts/diffrange.py`, `docs-only-diff.py`,
`pin-only-diff.py`). What did this event change, and may it skip jobs? Hard:
force pushes, merges, shallow clones, moves and reverts inside one push.
Correct when a fast path never lets through something a skipped gate reads.

### Checkers whose rules interact

A checker is a function of the tree it reads; a model of one is worth its while
where the thing it protects is spread over trees that change on their own, or
where it keeps state between runs.

**Service ports** (`scripts/check-service-ports.py`). One number per concern and
service (RFC-0007), written down in the manifests, the registry and its
generated tables, the contracts, the Dockerfiles, the local allocation, the
examples, the gateways and the catalog. State: what each of those places says.
Operations: a commit to one repository; the regeneration of the tables. Hard: no
commit reaches two repositories, nineteen controls overlap, and several of them
pass where a place is absent. Correct when a green guard means that a caller
reaches the listener, that one workstation runs every service, and that all
places give one answer.

**Docs governance** (`scripts/check-docs-governance.py`,
`controls/docs-governance.yaml`, `controls/doc-namespaces.yaml`). Twenty-one
controls over a platform library and a client hub that number their decisions on
their own. State: the documents, the reserved ids, which peer is checked out,
today. Operations: an edit of one field of one file, a reservation, a day. Hard:
the hub cites a library whose lane knows nothing of it; a supersession is written
down at both of its ends. Correct when green lanes mean that citations reach one
document, that what was replaced is not in force, and that time alone fails
nobody.

**The gates of a service** (`scripts/check-api-contract.py`,
`scripts/check-gateway-baseline.py`). API-0001 .. API-0015 and GW-0001 .. GW-0008
count violations; a *ratchet* tolerates as many as the repository froze in a
baseline file. State: the trees, the two baseline files, the catalog of controls
(which moves with `v1`). Operations: a commit to a tree, a file that moves to
another repository, `--write-baseline`, a hand or a conflict in the baseline, two
other tools that own members of the same file, a control that is renamed, retired
or removed. Hard: the file and the catalog that names its keys never change
together; who writes the file must not lose what others wrote. Correct when red
means the repository itself did worse than it recorded, a refreeze loses nothing
of the others and is a way out of every refusal, and neither sharing a component
nor moving a file changes what is counted.

### How they interact

- service-ci runs the diff classifiers and, at its end, delivery; delivery
  reads the contract registry through its contract gate.
- module-release dispatches one bump-module-pin leg per consumer; a merged
  bump PR is a pin-only push to the consumer's service-ci.
- release.yaml moves `v1`, and with it the logic every other run of the fleet
  executes; it verifies the reference window first.
- The checkers of ports, docs, contracts and gateways are gates of service-ci
  (`ServicePipeline` takes each for the set of trees it fails on) or lanes of
  other repositories; their catalogs reach the fleet when `v1` moves.
- Shared state is git: a push is a compare-and-swap on a branch, and every
  push loop here is a retry around one. Tags and images are write-once.
- Concurrency groups are the only locks: one active run, at most one waiting,
  and a newcomer replaces the one that waits. With `cancel-in-progress` it
  replaces the active one, too.

### Other parts

`PROJECT.json` lists all 33 components. Those with a protocol that are not
modelled yet are in the [plan](#8-plan); the rest are
[not modelled](#7-what-is-not-modelled) for the reason given with each.

## 2. The modules

| Module | Models | State | Actions |
|---|---|---|---|
| `Semver` | `sort -V`, version bumps, compatibility boundaries | - | - |
| `VersionLedger` | (abstract) versions given once, public when fit, told when public | versions, public, known, fit | Give, Pass, Publish, Tell |
| `ModuleRelease` | module-release.yaml; implements `VersionLedger` | tags, drafts, published, notified; active, pending and finished runs; commits and their CI | one per step and its failure, the arrivals of the world |
| `BumpModulePin` | bump-module-pin | pin, open PRs, the leg of each module, results | one per step of a leg, merges, hand edits |
| `ContractStore` | (abstract) an immutable, growing store | store | Publish |
| `ContractRegistry` | registry job of openapi-contract.yaml; implements `ContractStore` | main of the registry (directories and index), jobs | one per step, push race, lost answer, publication by hand |
| `ReferenceWindow` | API-0007 window | - (operators over a reference record) | - |
| `CentralRelease` | release.yaml with ci.yaml; extends `ReferenceWindow` | commits, CI runs, tags, v1, release runs | one per step, CI runs, re-runs, a major by hand |
| `Rollout` | (abstract) one image per tag; services move to published, newer images | registry, dev | Publish, Release |
| `Delivery` | deploy-reusable.yaml; implements `Rollout` | runs, uploads, images, infrastructure commits | one per step, the build, races, lost answers |
| `DiffRange` | the diff scripts | commit graph, tip of main, event | commits, merges, pushes, PRs, dispatches; the verdicts are operators |
| `ServicePipeline` | job graph of service-ci.yaml | commits, runs, deployments, reports | push, dispatch, re-run, examine, deploy, notify |
| `ServicePorts` | check-service-ports.py | what every place says | one commit to one tree, regeneration; the controls are operators |
| `DocsGovernance` | check-docs-governance.py | documents, reserved ids, peers, day | edit, register, tick; the controls are operators |
| `SourceTree` | what the gates see of a tree; the views of a Go file (code, strings, comments) | - | - |
| `ContractRules` | API-0001 .. API-0015 of check-api-contract.py; extends `SourceTree` | - (counts over a tree) | - |
| `GatewayRules` | GW-0001 .. GW-0008 of check-gateway-baseline.py; extends `SourceTree` | - (counts over a tree) | - |
| `ServiceGates` | the ratchets of both; composes `ContractRules` and `GatewayRules` | trees, findings, baseline files, catalog | commits, moves, refreezes, hand edits, broken files, the other owners, `v1` |
| `VerdictProofs` | theorems about `DocsGovernance`, `ServicePorts` and `DiffRange` | | |
| `*Proofs` | theorems about the module they are named after | | |
| `MC*` | values of the constants for TLC | | |

How state and actions correspond to the code:

- **A run** is a record with the step it is at and the outputs it carries. One
  step of the model is a span of the workflow that touches shared state at one
  point: a read of remote state and the later push that depends on it are
  always different steps, because anything can happen between them. A step
  that reads, decides and fails is one action with the decision in its guard.
- **A push** is enabled when the branch is where the run fetched it
  (`main = job[j].base`, `base = Len(infra)`); the refused push is an action of
  its own, and so is the push that is applied but whose answer is lost.
- **A concurrency group** is modelled as GitHub keeps it: `Enqueue`/`Conclude`
  in ModuleRelease, `Enter`/`Finish`/`Superseded` in Delivery,
  `CancelQueued`/`Busy` in CentralRelease, `Cancelled` in ServicePipeline.
- **main is linear** in every module but DiffRange, so a commit is its
  position. DiffRange has the real graph, with merges and force pushes.
- **Documents, trees and versions** are reduced to what the decisions tell
  apart. A contract is the set of its operations and removing one breaks it; a
  tree in DiffRange is one file of each class with the moves of text between
  them; a gate is the set of trees it fails on; versions keep their three
  numbers, since boundaries and ordering depend on all of them.
- **A tree** is a set of facts. In ServicePorts a *place*
  `<<kind, owner, key>>` holds a number, a flag or `None`; in the gates a fact
  `<<kind, owner, name, value>>` says that a function holds a text as code, in a
  string or in a comment (the scripts' masking tells the three apart), that a file
  is there, or that an operation has a part inline or by a shared `$ref`. A parsed
  document is what the detectors read of it; a detector is the set of what it
  accuses (ports), a truth value (docs) or a count (the gates, whose ratchet
  compares counts). One commit changes one place of one repository, because no
  commit spans two; what a commit may write, the mistakes included, is a constant.
- **History variables** (`cleared`, `verified`, `mishaps`, `frozen`, the field `on`
  of a commit) record what happened for the properties; no guard reads them.
- **External code** (GitHub's groups and re-runs, CodeBuild's build-once probe,
  the image registry, `gitops-set-image.sh`) is modelled from how the
  workflows use it and marked external in the map.

Some properties hold only up to something the code does not allow for: a
re-run in the wrong order, a pin changed by hand, a cancelled run. Each such
condition is a conjunct of the property (or a constant of the model, such as
`LossPoints` or `AnyOrder`), named in its comment, and what happens without it
is a finding in [section 6](#6-where-the-code-and-its-documentation-disagree). The
unconditional form stays in the module under *Expectations the code does not
meet*.

## 3. The runs

Every run is `tlc -workers 2 -config <cfg> <module>`; each finishes in under
four minutes. Every property of a passing run has a mutant in `PROJECT.json`, a
plausible mistake in the code (a dropped guard, a forced push, a forgotten
output) with which TLC finds the property violated under the same
configuration.

**release_recovery** (`MCModuleRelease_recovery.cfg`). Two commits of every
kind, two consumers, four runs and re-runs, failures everywhere, CI of a commit that
is re-run whatever was read of it; runs may be re-run in full at every stage but after
the fan-out began.
`VersionsFollowHistory`: computed versions grow along main in whatever order
runs are re-run; `BreakingCrossesBoundary`: a breaking commit lies between
versions of different compatibility; `NoStrandedRelease`: when the group is
idle, a consumer that was not told is held by a failed leg or by a red run
whose re-run finishes the release; `NoSilentLoss`: a releasable green commit is
delivered or leaves a run that is not green. Two commits are enough for one to
supersede, recover or overtake the other; four attempts let a commit fail
twice.

**release_manual** (`MCModuleRelease_manual.cfg`). The same machine with tags
pushed by hand, explicit versions, drafts, a kill after publication, API
blips and CI re-runs, one consumer, three runs. `OneCommitPerVersion`: no version names two
commits. `ImplementsLedger` is the refinement of `VersionLedger`: whatever runs,
re-runs, recoveries and people do together, a step gives a free version to a commit,
lets a commit pass the gates, makes a version public whose commit passed, tells a
consumer of a public version, or is not seen from outside. It contains that what is
public was verified and that consumers are sent only to public versions, and adds
that nothing given, public or told is ever taken back or moved.

**bump** (`MCBumpModulePin_bump.cfg`). Releases 0.1.1, 0.2.0, 1.0.0 over a pin
at 0.1.0 that somebody may write back: a patch, a breaking minor of a 0.x
module and the step to 1.0 are the three cases of the boundary. `NeverDowngrades`,
`MajorNeedsReview`, `NoForgottenBump`. Modules of different names do not
interact in a consumer, so one is enough; two that share a short name are a
finding.

**contract** (`MCContractRegistry_registry.cfg`). Two jobs of two services,
directories in every state (published, reserved, without VERSION, malformed
VERSION), one push that fails for another reason than a race (applied or not), one
change by hand. `ImplementsStore` is the
refinement of `ContractStore`; `RecordedIsVerbatim`: the version handed to the
deploy names the bytes of the run's spec for ever; `AdditiveWithinMajor`: no
publication of a major takes an operation away; `EveryJobEnds`: a job that keeps losing races
ends. Two jobs of one service run one after the other (the callers' group), two
of different services race.

**central_history** (`MCCentralRelease_history.cfg`). Three commits, CI runs
that are cancelled and re-run, the daily run, re-runs, failures at every step
but between the two pushes, a major cut by hand. `TagsFollowHistory`,
`NothingBreakingUnderV1`, `V1NeverMovesBack`, `NoSilentDrift` (liveness). Three commits are the least at
which one release is active, one waits and one is cancelled from waiting.

**central_window** (`MCCentralRelease_window.cfg`). Four commits that stage,
promote, drop, revert, relabel or forge sets of the reference and raise the
floor, reaching the release in any grouping. `NoFlagDay`: what `v1` accepted
before and after a move overlaps in both directions; `PreviousWasReleased`: no
grace set and no floor that was never current in a release. Four vintages give
an older, the current, a newer set and a relabelled one; four commits let a
whole stage-promote-drop cycle fall into one release.

**delivery** (`MCDelivery_deliver.cfg`). Two services, two commits, an input
that moves once, three runs, push races, one lost answer, failed and cancelled
runs, failing builds. `ImplementsRollout` is the refinement of `Rollout`: a
publication adds one image under a free tag, a push moves one service on to a
published image whose commit and input are as new and leaves the others alone, and
no other step is seen. `NoForgottenCommit`, `DevFollowsMain` (over all the pins a
service ever had, not only neighbouring ones), `EveryRunEnds`. Three runs over two services give a waiting run behind an
active one next to a racing push; runs fail after their upload or in the push
loop, and are not lost while their build runs (what that leads to is finding 17).

**diff** (`MCDiffRange_changes.cfg`). Every history of four commits with
merges and moves of text, two events, whole and shallow clones.
`PinsBringNoSource`, `DocsBringNoCode` and `EveryCommitIsDocs`, which says that
code taken back inside one push still runs the gates. Four commits are the
least with a merge of two branches on top of a first one; the second event is
judged from what the first left. The first two are about branches and mains that did
not merge each other (`CrissCross`, a second merge base); what happens then is
finding 40.

**pipeline** (`MCServicePipeline_deployed.cfg`). Two commits, three runs, a Go service
and a repository in another language; in one run a job crashes or hits its time limit,
a classifier, a gate, the deployment or the report itself: 555,596 states. A job at its
limit concludes `cancelled`, which artifact refuses like a failure and notify does not
fire on. `WhatRunsIsBuilt`: nothing that fails a gate a version can break reaches dev,
unconditionally; `WhatRunsIsClean`: nothing any gate fails on does, while commits land
on a green main and the pin classifier ends; `NothingIsForgotten`: every run that ends,
of a change that is not documentation, is in dev or was reported, but for three cases it
names: a push cancelled it, a time limit alone held it (finding 41), the report did not
end (finding 42). Gates of the same shape behave alike, so one that a
version can break and one that only the source can, which pins skip, may break.

**ports** (`MCServicePorts_fleet.cfg`). A compliant fleet of a service and a
gateway, each with its repository, and a linked worktree of the service's; two
edits, each of any place to any plausible slip (another concern's constant, a
number of the old allocation, a reserved port, nothing, the opposite of a flag),
or a regeneration: 48,772 states. `CallersReachTheListener` (through the pin, the
Service and the variable the process reads, and Prometheus to the metrics),
`WorkstationHoldsTheFleet`, `OneAnswer`. Controls compare two places, at most by
way of a third; two edits are the least at which one slip can hide another, and
two services the least at which one can take the other's number.

**docs** (`MCDocsGovernance_library.cfg`). A decision that replaced another, a
transitional RFC, a standard that cites both, a free name and a decision of a hub that
cites and is bound by the platform's, each of seventeen fields open to its mistakes
(the `doc_type` no document has to have among them); two edits or reservations, one day,
the platform checked out beside the hub or not: 127,784 states.
`CitationReachesOneDocument`: what a green namespace cites, is bound by or replaces
exists, and where that namespace is green too nobody finds two documents under the id.
It is about what the controls take for a citation of a document and for a decision:
an unresolved RFC of four digits without a leading zero is taken for one of the IETF's
(finding 43) and only what says `doc_type: adr` is bound (finding 44).
`ReplacedIsNotInForce`, `TimeAloneNeverFails`. A supersession is written at two ends,
and a duplicate or dangling id takes one edit at each; a quarter is one day here, so a
review lapses on the day of the run and a yearly one does not.

**gates** (`MCServiceGates_ratchet.cfg`). An edge gateway, a service with frozen
debt, its -core module and the shared library; any two commits (a fact of a tree,
a file that moves, a hand or a conflict in a baseline, another owner's write, a
catalog that moves) with any refreezes between them: 8,648 states.
`RedMeansRaised`, `OthersKeepTheirFreeze`, `RefreezeRecovers`,
`SharingCostsNothing`, `MovingHidesNothing`. One commit parts the file from the
catalog, or spoils it, and a second one adds or removes a violation; refreezes
are not counted, so every order of them around the commits is explored. The four
repositories are the four ways in which `applies` decides.

Deadlock is not checked in any run: the systems really stop, when the bounds
on commits, runs and events are used up and every run has ended.

### Bounds

Each bound is a constant whose declaration says `bound:` (`MaxCommit`,
`MaxAttempt`, `MaxRuns`, `MaxContent`, `MaxEvents`, `MaxCrashes`,
`LostAnswers`, `PushFailures`, `HandPublications`). They limit what the *world* does, never what a
started run may do, so every run can go to its end under every bound.

## 4. Fairness

Only what GitHub or CodeBuild guarantee is assumed: a job that started takes
its next step.

- `ModuleRelease`: weak fairness of "the active run makes progress or fails".
  Every job has a timeout and every wait a deadline, so a run cannot stand
  still; nothing forces it to succeed.
- `ContractRegistry`: weak fairness per job of its own steps. The deadline of
  the push loop is not needed: a lost race is somebody else's publication, and
  pushes that fail for another reason are bounded (`PushFailures`), which is what
  the deadline of 300 seconds (`openapi-contract.yaml:498-505`) does in the code.
- `CentralRelease`: weak fairness of "some release run makes progress" (the
  group lets one at a time); CI runs, people and pushes need not do anything.
- `Delivery`: weak fairness of "some run or build takes a step". Failures,
  cancellations, re-runs and new commits are never forced.

The other modules have no liveness property and no fairness.

## 5. The proofs

TLC checks the instances above; TLAPS proves the following for every value of
the constants that meets the `ASSUME`s of the module. Check them with
`tlapm <module>.tla`.

**ModuleReleaseProofs**: `Typing`, `VersionsAreImmutable`,
`ReleasesAreVerified`, `ConsumersFollowReleases`, `VersionsGrowAlongMain`,
`BreaksMoveTheBoundary`, `ReleasesAreRecoverable`, `ImplementsTheLedger`. None of the safety
properties is inductive: that a published version was verified depends on what
the run at the publish step had done, and that run may have been re-run from a
failed job. The inductive invariant `IInv` therefore adds `RunsOK`, which says
of every active, waiting and finished run what its step implies (past the gate:
its commit is cleared; past verification: verified; past the tag: its version is
tagged at its commit; past publication: public), and `DraftsWereVerified`,
because recovery publishes drafts left by earlier runs. The proof has one lemma
per group of actions, and `RunsKept`, `SoundKept` carry the unchanged runs along
because tags and history only grow (`Grows`).
`ImplementsTheLedger` (`Spec => Ledger!Spec`) maps a tag to its version and commit and
the fitness of a commit to "cleared and verified". `LedgerStep` assigns every action
its abstract step: a tag, by a run or by hand, gives; each of the two gates lets at
most its own commit pass; a Release turns public in three places (the publication, a
recovered draft, a publication that is killed afterwards), and each time `IInv` says
that its commit passed; all else stutters. It needs no assumption.
`VersionsGrowAlongMain` and `BreaksMoveTheBoundary` assume that versions are only
computed: no tag is pushed by hand and none is asked for. `Ordered` says that every
tag is then on a commit of main, one per commit, in order; `Computed` says that the
version the active run carries still follows the newest tag, because only one run of
the group resolves and tags at a time. A boundary once crossed stays crossed by
anything newer, which carries one release's crossing to all later ones.
`ReleasesAreRecoverable` assumes besides what findings 1 and 2 are about away: no draft
is left by a failure, no run is lost after it published, and no run is re-run in full
once its Release is public. `Held` says that a tagged version without a public Release
has a run of its commit that is not green, and that every consumer not told of the
newest version is owed the bump by a fan-out or by a failed leg; `Tidy` keeps the
group itself honest (nobody waits for an empty slot, no draft is left behind).

**BumpModulePinProofs**: `BumpsNeverDowngrade` from `Invariance`. `IInv` adds
`MovesUp`: the version of a leg past its guard is newer than the pin it read,
and that of a PR newer than the pin it started from. The pin on main may have
been changed since; a PR whose base changed conflicts and cannot merge, which
is why the property holds without any assumption on order or hand edits.
`MajorsAreReviewed` (assuming that every module is required from the start)
carries `Review`, which holds until somebody writes the pin by hand: what a leg
read, and what a PR started from, is not above the pin, and the leg's own PR
started no later than the leg. A PR that a leg updates therefore starts below or at the
pin that leg compared with; boundaries are convex (`BoundaryIsConvex`), so a bump
that crosses none from the pin crosses none from a version between.
`BumpsAreFollowed` (assuming that branch prefixes tell the modules apart)
carries `Followed`: versions are released in order, a leg works on the newest
release of its module, what it is about to arm is still open or already merged,
and a module without a leg is settled.

**ContractRegistryProofs**: `Refinement` (`Spec => Store!Spec`) and
`RecordsAreVerbatim`. The difficulty is that there are two trees: main, and the
one a pushing job prepared its commit on. `CommitsFresh` says that the version
a job carries is newer than everything in *its* base; a push succeeds only
when the base is main, which transfers that to main (`Publication`). `MainOK`
says that a directory has one document per version and nothing newer than its
VERSION; without it the allocation could reuse a number.
`PublicationsAreAdditive` assumes one job at a time per service, a readable
baseline, and directories that are additive to begin with. Its invariant
`Compared` says that the baseline a job compared with is still the `latest.json` of
main when it pushes, or is its own document if a push of its own went through
unanswered; `Covered` (the latest document offers what any publication of the major
on file did) makes one comparison do for all of them.

**CentralReleaseProofs**: `FleetNeverMovesBack`, `FleetRunsVerifiedCommits`,
`TagsGrowAlongMain`, `FleetMeetsNoBreak`, `StepIsNoFlagDay`, `ReleaseIsNoFlagDay` and
`GraceSetsWereReleased`. `FleetRunsVerifiedCommits` and `StepIsNoFlagDay` hold in
whatever order releases are re-run; the others assume `AnyOrder = FALSE` (nobody
re-runs the release of a commit older than a released one; without it `v1` does
move back, see finding 15). `IInv` adds `Group` (one run active, one waiting), `InOrder`
(the one that waits is for a later commit, and neither is behind `v1`: only while
`AnyOrder = FALSE`), `Traced` (what is under `v1`, and a run that is about to move it,
has a tag) and `Verified` (so has a successful CI run, from the gate on). `Hist` adds that nobody in the group is behind a tag, and that what the
active run read of the tags is still all there is, which is what lets it compute
the next version from them. `StepIsNoFlagDay` is about the window alone: every step
the checker accepts keeps the overlap. `ReleaseIsNoFlagDay` extends it to the whole
release with `Window`: the tag the reference was checked against is on the commit of
`v1`. It assumes besides that no major is cut by hand and that no run is lost
between its two pushes, which is finding 14. `GraceSetsWereReleased` needs no
assumption on lost runs: `Provenance` says that every released reference, and the one
about to be, is usable and takes its grace set and its floor from a release, which the
floor check hands on from the tag it compared with.

**DeliveryProofs**: `TypeCorrect`, `PinsArePublished`, `DevOnlyMovesForward`,
`CommitsAreNotForgotten` and `ImplementsTheRollout`.
`Inv1`: a run past its build has its image in the registry, and so has every pin.
`Inv2` (assuming `~AnyOrder`): a live run is not behind the pin of its service; one
run acts per service, so nothing overtakes it, and a push lands on whatever the
other services wrote in between. `Known` (same assumption): the newest commit of a
service is in dev, or a run of it is live or ended where its owner sees it. What
supersedes a waiting run is then always of the newest commit, so nothing is lost with
the one it replaces. `ImplementsTheRollout` (same assumption) maps the pins to what
each service runs, the last of its own; `DevAfterPush` computes that after a push
(the pushing service has the new pin, every other one what it had), `Inv1` gives the
image and `Inv2` the order.

**VerdictProofs** is about the three scripts whose verdict is a function of what they
read.
*Ports*: `GreenReachesTheListener`, `GreenHoldsTheWorkstation`, `GreenGivesOneAnswer`.
Each is proved of every state, reachable or not: whatever any number of commits wrote,
a green guard implies the property. The proofs say which controls carry it.
*Docs*: `GreenRetiresTheReplaced`, `GreenResolvesCitations`, `TimeFailsNoLane`. The
first holds of every state: the index of decisions keeps, of the files of one id, one
that has it (`IndexKeepsTheId`), and in a green namespace that is the decision itself
unless a template took its place (`IndexedIsKept`). The second needs that a citation
only spells qualifiers of the namespace map (`AliasesKnown`, from the assumption on what
an edit may write); it follows citations of documents, decisions that say they are one
(`Bound`) and supersessions, as the property does. The third goes through the controls and shows that a day
changes no verdict that is enforced.
*Diff*: `DocsSkipNoCode`, `TakenBackIsSeen` and, assuming that no commit edits a block
of go.mod (finding 21), `PinsSkipNoSource`, for every history of commits, merges,
force pushes and shallow clones. `DiffInv` types the graph (parents are older) and
says what the two ends of the last event are: what main was, and what it is or the
head of the branch.
`AncUnfolds` exhibits the solution of the recursion that defines ancestry (the least
set closed under parents), which is all that may be said of it;
`AncestryIsTransitive` and `AncestorsAreCommits` follow by least counterexample.
`RangeOf` reduces the kinds of events to two ranges, and `ArrivesIsNet` says that in
both, what arrives on main differs between the two ends, so the net difference names
it. That step is where the proof failed at first: it needs that the range from a merge
base is the only one, which led to finding 40 and to `CrissCross` in two properties.

**ServicePipelineProofs**: `PipelineInvariant`, `BuiltBeforeDev`, `NoRunIsForgotten`
and `CleanBeforeDev`, for every catalog of breakable gates, crash, time limit and cancellation.
`ResultIsOutcome` shows that the results of a run, defined by recursion over the graph of
jobs, exist and are what each job's needs and condition make of it. `PipelineInv` adds
`Pushed` (every commit has a run, a range starts at the commit before), `Built` (a
commit inherits what it did not change; "on green" means a green run of the parent) and
`Settled` (a run that deploys satisfies artifact's condition; one that no push cancelled
is in dev, has a failure to report, or is held by a job at its time limit, and once it
is done it is in dev or reported, or `Missed`: held with nothing failed, or with a report
that did not end). `BuiltBeforeDev` and `NoRunIsForgotten` need
nothing else. `CleanBeforeDev` is by induction along main: a pin skips gates on the
strength of a green parent, which was clean in its turn. It assumes that what a commit
may break is a gate that artifact needs, other than contracts, which is what findings
24 and 25 are about.

**ServiceGatesProofs**: `RedIsEarned`, `RefreezeSparesTheOthers`, `RefreezeEndsRed`,
`SharingIsFree` and `MovesAreSeen`. The invariant
`RatchetInv` says that the baseline file is faithful: what was recorded for a
control is held under exactly one spelling of its key, old or new, whatever the
catalog did in between. Files whose content cannot be told (unparseable, edited by
hand) are exempt, as they are in the properties. The last three rest on `TreesInv`:
a tree is finitely many facts with one fact per place of an operation, and the
findings are those of the tree. With it every detector returns a number
(`JudgedInNumbers`), which is what makes a frozen count comparable with the next.
`SharedResolves` follows a part through a change from inline to shared; `HopsAdd`
counts the hops of a tree after a file arrived under a name that was free.
`TreesAssumption` asks of the constants that the sets of functions, operations and
components are finite, and that a tree starts with one fact per place.

*Only model-checked*: the liveness properties (`EveryRunEnds`, `NoSilentDrift`,
`EveryJobEnds`, `NoSilentLoss`); fairness and ENABLED are outside this prover's reach.
Every invariant, action property and refinement of every run is a theorem. *Only
proved*: the type invariants of ModuleRelease and Delivery, `PublishedWasVerified`,
`NotifiedWasPublished`, `PinnedIsPublished` and `V1IsVerified` are theorems and no run
repeats them (`PublishedWasVerified`, `NotifiedWasPublished` and `PinnedIsPublished`
follow from a refinement that one does).

## 6. Where the code and its documentation disagree

Each entry quotes what the repository says of itself. Entries 1-27 and 40-44 are reproduced
by checking the named property in the configuration of the component's run, after
the change in brackets; every one of them is a violation TLC finds. Entries 28-39
are what reading the checkers for their models brought up: the rules of the modules
show each, and where a property is named it is reproduced in the same way. The long
forms of some quotations are shortened with `...`.

### Module release

1. **A full re-run of a partial fan-out turns green** (`NoStrandedRelease`
   in `release_recovery`, [`FullRerunOf <- Stages`, `MaxAttempt = 3`]). The version step finds the tag at HEAD with a public
   Release (`module-release.yaml:449`), reports nothing to publish, and the
   consumer whose leg failed is never bumped. Lines 891-892: "a partial fan-out
   is recoverable by re-running". Only re-running the *failed jobs* recovers it.
2. **A finalized draft can strand its version** (`NoStrandedRelease`
   in `release_recovery`, [`DraftOnFailure = TRUE`]). Recovery makes the draft public (line 456) before
   the gates and tests run again; when one fails, the next run answers "already
   released". Lines 446-447: "treating that as published is what stranded v1.61.0
   (tag pushed, consumers never notified)".
3. **A blip republishes a version** (`NeverRepublished` in `release_manual`).
   `gh release view || echo missing` (line 448) takes a failure for an absent
   Release, and the probe at 461 asks whether the API answers *now*. Lines
   442-444 name this as the bug being avoided: "an API blip re-publishes a release
   and re-dispatches every consumer bump".
4. **A version below v2 under a /v2 path** (`PublishedIsImportable` in
   `release_manual`, [`PathMajor = 2`]). `gomajor_ok` (line 396) accepts every major below 2. Lines
   383-386: "a tag whose major does not match the module path publishes a version
   nothing can import. Checked on this path too".

### bump-module-pin

5. **A leg closes newer PRs** (`ClosesOnlyOlder`, in the run's configuration).
   The select at `action.yaml:273` spares only its own branch, so the re-run leg
   of an older release closes the PR of the newer one; the step is called "Close
   superseded bump PRs" (259).
6. **Modules with one short name close each other's PRs** (`NoForgottenBump`,
   [`Modules = {auth, user}`, `Claims <- SharedBranches`]). The prefix at line 274
   uses the last element of the module path (`module-release.yaml:909`): two
   modules at `/v2` share `chore/bump-v2-v`.
7. **A PR that cannot merge is reported green** (`GreenCanMerge`, in the run's
   configuration). The pin is read once (line 71); when an earlier bump merges
   before this leg opens its PR, the PR conflicts and nobody rebases it. Line 335:
   "Auto-merge is what makes this automation rather than a queue of PRs nobody
   notices".
8. **Auto-merge survives a reclassification** (`MajorNeedsReview`,
   [`InitialPins <- FromNone`]). The major branch (line 386) labels the PR without
   disarming what an earlier leg armed when the pin was absent, or before a
   person moved it back across a boundary. Line 339: "A major bump is withheld
   deliberately".

### Contract publication

9. **An outage is a first publication** (`AdditiveWithinMajor`,
   [`ApiBlips = TRUE`]). Every failure of the baseline fetch
   (`openapi-contract.yaml:287`) skips the breaking-change check; lines 432-434
   rely on "every published change is additive by construction".
10. **The baseline is not the base** (`AdditiveWithinMajor` without its
    condition `hands = 0`).
    The comparison is with the baseline of the start of the job; the loop
    publishes on the newest main (383) without comparing again.

### Release of ci-workflows

11. **Pushes that land together make one release** (`TwoReleasesInOrder`, in the
    configuration of `central_history`). CI of main cancels the older run
    (`ci.yaml:46`) and the release gate counts `cancelled` as bad.
    `release.yaml:34-36`: "Two pushes landing together must produce two releases in
    order".
12. **The gate sees the drift** (`DriftIsExcluded`, `Scheduled = TRUE`). It asks
    for every run of ci.yaml at the commit (`release.yaml:78`), and the daily one
    contains release-drift. Lines 66-69: "release-drift is excluded on purpose ...
    gating on it would deadlock".
13. **A run cut off between its two pushes** (`GreenMeansReleased`,
    [`LossPoints <- EveryStep`]). Its re-run finds the tag at the commit (132),
    reports nothing to release and is green with `v1` behind. Line 130: "Idempotent:
    a re-run"; line 20: "v1 must equal main".
14. **Two window steps in one move of v1** (`NoFlagDay` in `central_window`,
    [`LossPoints <- OnlyMove`]). The reference is held against the newest tag
    (198), not `v1`. Lines 188-190: "the exact delta @v1 consumers are about to
    receive".
15. **A second tag for one tree** (`OneTagPerTree`, [`AnyOrder = TRUE`]). Only the
    newest tag is compared with HEAD (132); re-running an older release mints a
    patch and moves `v1` back. Lines 130-131: "must not mint a second tag for the
    same tree".
16. **After v2 is cut by hand v1 follows it** (`NothingBreakingUnderV1Ever`, in
    the configuration of `central_history`). `latest` is of any major (124), so the
    next push is v2.0.1 and moves `v1` onto the breaking commit. Line 147: "v1 must
    never be moved onto one"; line 156 asks for the cut by hand.

### Delivery

17. **An image that is not what its tag says** (`ImageHoldsInputs`,
    [`LossPoints <- Waiting`, `StopPoints <- Nowhere`]). The
    upload is named by the commit alone (`deploy-reusable.yaml:758-759`), the tag by
    all the inputs (40-42).
18. **The caller cancels what the group protects** (`NoRejectedBuild`,
    [`CallerCancels = TRUE`]). deploy-reusable queues, because "cancel-in-progress
    produced the exact overlap the group exists to prevent" (181-182), but its
    caller has `cancel-in-progress: true` (`service-ci.yaml:109`).
19. **A red run may have deployed** (`ReportIsTrue`). A push with a lost answer is
    taken for a lost race (963); the report says "dev is still pinned to the
    previous digest" (1033).
20. **A re-run supersedes the newest commit** (`NoForgottenCommit`,
    [`AnyOrder = TRUE`]). One run waits per group; the report is silent since "A
    cancelled deploy is somebody's deliberate act" (989-990).

### Diff classification and the service pipeline

21. **Lines of a block count as pins** (`PinsBringNoSource`,
    [`Edits <- WithBlocks`]). `is_pin_line` (`pin-only-diff.py:151`) looks at the
    line alone, so a change inside a `replace (` block skips fifteen jobs; the
    docstring (43-47) excludes exactly that.
22. **A pin-only that does not end** (`NothingBrokenInDev`, [`Fragile = {"pin_only"}`]).
    It is not among the needs of artifact (`service-ci.yaml:3167`), so neither its crash
    nor its time limit stops the deployment, and the gates that need it are skipped. Lines
    3161-3163 say of the other classifier: "one broken classifier would therefore skip
    every gate in the pipeline and then pin a digest from a tree nothing examined".
23. **A pin on a red base is deployed** (`NothingBrokenInDev`,
    [`Fragile <- NoJob`]). The fast path skips
    gates whatever the base concluded (937); lines 236-237 speak of "the run that
    already passed on the base commit".
24. **Five gates do not stop a deployment** (`WhatRunsIsClean`,
    [`Breakable = {"org_vocabulary"}`]): uuid-policy, org-vocabulary,
    source-invariants, contract-classification and gateway-baseline are not
    needed by artifact. Lines 3135-3137: "the release proceeds from a tree whose gate
    was red".
25. **contracts is skipped for pins** (`WhatRunsIsClean`,
    [`Breakable = {"contracts"}`]; `service-ci.yaml:1593`), although
    `pin-only-diff.py:30` lists it among what still runs.
26. **Documentation hides the code below it** (`NothingIsForgottenEver`,
    [`Fragile <- NoJob`]). The diff
    of a push starts at the tip whose run the push cancels (109).
    `diffrange.py:19-20`: "a wrong "skippable" costs an unchecked merge to main".
27. **Failures nobody is told of** (`FailuresAreTold`,
    [`Breakable = {"org_vocabulary"}`, `Fragile <- NoJob`]). pin-only, uuid-policy, org-vocabulary and
    source-invariants are not among the needs of notify (3237); lines 3231-3232
    call the same omission of two other gates a defect.

41. **A job at its time limit** (`StallsAreTold`, in the configuration of `pipeline`). It
    concludes `cancelled`: artifact refuses it (`service-ci.yaml:3187`), notify fires on
    `failure` alone (3244), and the commit is neither in dev nor reported, with no push in
    sight. Lines 1418-1421 record it "three times in one day; each stalled a release or a
    dev deploy until rerun".
42. **A report that is lost** (`NothingIsForgottenEver`, [`Fragile = {"notify"}`,
    `MaxCommits = 1`]). notify has five minutes (3246), an identity to obtain and a message
    to post, and nothing watches it. Lines 3222-3223: "there is no "unconfigured" state
    left to fail silently"; `classify-run-failure.py:37-38` knows of one that is: "`Notify
    on failure` is refused by the same budget, so not even the Slack alert survives".
40. **Branches that merged each other** (`DocsNeverBringCode` in `diff`,
    [`MaxCommits = 6`, `MaxEvents = 2`, `Edits = {{"source"}, {"prose"}}`]). After a
    criss-cross there are two merge bases; `git merge-base` names one
    (`diffrange.py:119`), and a change that is new relative to the other does not
    differ from it. The run finds five commits, reading a merge as bringing what
    differs from either base; by git's own merge of the bases it takes seven: the
    range shows README.md alone, the gates are skipped as for documentation, and the
    merge changes a Go file on main.
    `diffrange.py:140-143`: a merge "cannot smuggle anything past the union reading";
    lines 19-20 as in 26. No proof of `DocsBringNoCode` exists without the condition.

### Service ports

28. **A broken manifest is green.** `parse_errors` is recorded
    (`check-service-ports.py:453, 476, 503`) and never read; what does not parse is
    a tree with nothing in it, and a control passes where it finds nothing.
29. **A registered listener nobody publishes** passes SP-0002: `actual is None:
    continue` (597-640), although `controls/service-ports.yaml:95` says the ports
    "MUST equal the entry". `GreenReachesTheListener` therefore speaks of what
    is published.
30. **An overlay without a numeric port is not loaded** (515-516), so the variables
    it sets for the process are never compared with the listener.
31. **A contract that names an unpublished concern with the number of another**
    passes SP-0005: where the Service lacks the concern, the code (798) accepts any
    number the Service has. The policy (`service-ports.yaml:164-166`) asks for equality.

### Docs governance

32. **The platform may cite a hub** (`CoreCitesNoHub`, in the run's
    configuration of `docs`). `doc-namespaces.yaml:43-44`: "a citation from core-docs
    into a client hub fails closed"; document_reference_resolution skips a namespace
    whose peer is not checked out (1498-1501), and the lane of the platform checks
    out no hub.
33. **An id may be reassigned.** `check-docs-governance.py:540-541` says a retired id
    "must never be reassigned"; sequential_id_allocation (DOC-0018) sees the
    ids of today's tree only.
34. **Ids are unique among the record directories only.** DOC-0014 speaks of all
    documents of a namespace (`docs-governance.yaml:333-334`); the code (1221) reads the
    candidates of the numbered directories, so a numbered file elsewhere may repeat
    an id. Two records that supersede each other are green.

43. **A transitional RFC nobody resolves** (`TransitionalIsChecked`, in the configuration
    of `docs`). What is unresolved and looks like `RFC-[1-9]ddd` is skipped as a standard
    of the IETF (1484), a `RFC-9001` that was never written as well. Lines 123-124: "unless
    it resolves in a namespace, which keeps the transitional `RFC-9\d{3}` convention
    (RFC-9001) checkable": a dangling one is what a check would be for.
44. **A decision that does not say it is one** (`DecisionsAreTagged`, in the configuration
    of `docs`). DOC-0023 and DOC-0024 skip what has no `doc_type: adr` (1584, 1644), and
    the key is not among the required ones (131-132). `controls/docs-governance.yaml:592`:
    "Every ADR MUST declare a `domain`"; 626-628: "An ADR tagged with one of those values
    MUST declare `core_authority`".

### The gates of a service

35. **A specification that does not parse is green** once every http-api control has
    a frozen count, and `--write-baseline` meanwhile freezes those counts. Deleting
    `docs/openapi.json` skips the controls altogether, and the next refreeze drops
    the debt.
36. **A raw server beside the wrapped one** passes GW-0007: one `grpcx.NewServer`
    (`gateway-baseline.yaml:229-237`) answers for every `grpc.NewServer`.
37. **Content controls that follow the name.** The comment on `applies`
    (`check-gateway-baseline.py:623-626`) says content controls follow content;
    GW-0004, GW-0005 and GW-0008 apply to repositories named gateway only.
38. **A renamed gateway control loses its debt silently.** The key is no longer
    found and the tolerated count is zero, where the API gate refuses a file with
    unknown keys. A refreeze of a clean gateway deletes the file with the keys a human
    added, which "a rewrite must not silently discard" (712; code 732-736).
39. **Details a shared definition hides**: API-0004 takes a `$ref` response for one
    without a body, API-0011 and API-0012 do not follow shared references, API-0009
    counts what stands in a comment.

## 7. What is not modelled

- **Inside a gate**: what build, tests, linters and scanners compute. A gate is
  the set of trees it fails on.
- **Static checkers** of one tree whose rules do not interact (Dockerfile standard,
  seed contract, source policies, generator checks, schema lint): no ordering, no
  second actor, no state between runs. Each is one control next to another, and a
  model would say again what its own self-tests say. Those whose verdicts several
  repositories have to agree on, or that keep a baseline, are modelled (ports,
  docs, API contract, gateway baseline).
- **Cosmetic controls** of the modelled checkers: the shape of a filename, the
  wording of a section, the order of a table. They decide nothing the properties
  tell apart; the map names the lines of those that are in.
- **Set-up of runners, caches of Go, frontend image build, fleet audits**: linear
  I/O; what they write nobody reads concurrently (build caches are planned,
  because restore keys are shared).
- **Pull requests in ServicePipeline**: on a pull request nothing is deployed and
  the range is the merge base; DiffRange covers the verdicts for them.
- **Time**: a deadline is a refusal that may happen at any step that waits. Which
  of two deadlines is shorter is not modelled; in particular, the wait of ci-gate for
  a run that never appears and for one that is late (`module-release.yaml:251-260`)
  end the same way (`CiGate` of the plan). A job that hits `timeout-minutes` is
  cancelled, not failed: `ServicePipeline` tells the two apart, because artifact and
  notify do; in the other modules it is a run that ended and is not green.
- **Pins that are not vX.Y.Z**: bump-module-pin compares strict versions only, so a
  pseudo-version is never stale (`action.yaml:90`) and its bump is a patch whatever
  it crosses (354-363). In `BumpModulePin` a pin is a version or absent; the pin policy
  (241-252) keeps others off main.
- **The first release of a module**: without a tag the range is all of history and the
  base v0.0.0 (`module-release.yaml:429`), which in `ModuleRelease` is a seed of v0.0.0;
  no run starts from it.
- **Documents of product requirements** (`prds/`): numbered like decisions, and no rule
  treats them differently from RFCs. **A template under `adrs/` with the number of a
  decision** takes its place in the index of decisions, since the last file read is kept
  (`check-docs-governance.py:802-822`); `ReplacedIsNotInForce` is about the decisions no
  template hides (`Indexed`). **An absent peer** passes with a note (1498-1501), although
  the docstring (1462) says "reported as skipped, never as passing"; the property speaks
  of the peers that are checked out.
- **Permissions and tokens**: a refused token is a failed step.

## 8. Plan

Done, in this order: module release, bumps, contract registry, central release,
delivery, diff classification, service pipeline, service ports, docs governance, the
API and gateway gates; proofs of every safety property of all of them; the
refinements of `ContractStore`, `Rollout` and `VersionLedger`.

Next, by what they protect:

1. `ContractDeploy`: the contract gate of deploy-reusable (lines 228-516)
   composed with `ContractRegistry`. An outage of the registry must not read as
   "nothing published" (413), and the version a deploy claims (334-339, 469-474,
   493-504) must be the document of the commit it deploys.
2. `CiGate`: the wait for CI in module-release (198-332) and content-fanout
   (330-441): a run that never exists, is late, is re-run or cancelled, against two
   deadlines (354).
3. `ContentFanout` (115-310, 444-660): partial dispatch and a re-run of the report
   alone (619), on top of `CiGate`.
4. `ReleaseAssets` (126-159): a Release with some assets and no checksums (143), a
   failed view taken for an absent Release (137).
5. `AppToken` with `HttpRetry` (`ci-app-token/action.yaml:91-349`,
   `http_retry.py:115-183`): retries against a deadline, tokens that are not
   honoured yet (deploy-reusable.yaml:923), requests that may have been applied.
6. Operators checked against reference definitions: the coverage ratchet
   (`check_coverage_ratchet.py:105-162`, the floor never lowered by writing it,
   146), run triage (`classify-run-failure.py`, jobs replaced by a later attempt,
   230), the binding of a service's identity, module pins, migration immutability.
7. Composition: `ServicePipeline` with `Delivery` as its last job, so that
   `WhatRunsIsClean` and `DevFollowsMain` speak of the same run; `BumpModulePin` as
   the consumer of `ModuleRelease`.

8. `OperationIds`: the lock of `check_operation_ids.py`, the one static checker
   left that keeps state. Its `do_write` compares majors of the file and the lock:
   raising the version to 2.0.0, writing, putting it back to 1.x and writing again
   lands a removal inside one major.

Abstract specifications still worth stating: a *compare-and-swap log* that the push
loops of `ContractRegistry` and `Delivery` both implement; a *single-slot queue*
that the four concurrency groups implement.

Two details found on the way wait for these modules: module-release.yaml:818
writes the provenance from `GITHUB_SHA`, which is not the released commit when an
explicit `sha` was given (88-94), and line 991 says "Re-run this job to retry the
bump" (see finding 1 for what a full re-run does).
