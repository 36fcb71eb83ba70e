----------------------- MODULE ServicePipelineProofs -----------------------
(***************************************************************************)
(* What reaches dev and what is reported, for every history of pushes,     *)
(* dispatches, re-runs and cancellations, every catalog and every set of   *)
(* gates a commit may break or that may crash or hit its time limit.       *)
(***************************************************************************)
EXTENDS ServicePipeline, SequenceTheorems, WellFoundedInduction, NaturalsInduction,
        TLAPS

-----------------------------------------------------------------------------
(* The graph of jobs *)

\* The definitions of the jobs.
LEMMA GateNames ==
  Gate = {"supported_language", "standards", "build_test", "codeql", "events", "seeding", "schema",
          "dockerfile", "structure", "lanes", "vulnerabilities", "uuid_policy", "org_vocabulary", "sqlc",
          "contracts", "integration", "docker_tests", "contract_classification", "gateway_baseline",
          "contract", "openapi_generator", "e2e", "source_invariants", "docs", "dependency_review"}
BY DEF Gate, Gates

\* Every gate but docker_tests needs classifiers and the resolve job alone.
LEMMA NeedsOf ==
  /\ \A k \in Gate \ {"docker_tests"} : Gates[k].needs \subseteq Roots
  /\ Gates["docker_tests"].needs = {"resolve", "docs_only", "build_test"}
  /\ Gate \cap Roots = {} /\ "build_test" \in Gate /\ "docker_tests" \in Gate
BY GateNames DEF Gates, Job, Roots, Source, Always,
     supported_language, standards, build_test, codeql, events, seeding, schema, dockerfile, structure, lanes,
     vulnerabilities, uuid_policy, org_vocabulary, sqlc, contracts, integration, docker_tests,
     contract_classification, gateway_baseline, contract, openapi_generator, e2e, source_invariants, docs,
     dependency_review

\* Which fast path skips a gate, by what can break it.
LEMMA SkipOf ==
  /\ \A k \in (ReadsPins \ ReadsDocs) \ {"docker_tests"} :
       k \in Needed /\ Gates[k].needs = {"resolve", "docs_only"} /\ Gates[k].skip = {"docs"}
  /\ \A k \in {"standards", "docs"} : Gates[k].needs = {"resolve", "pin_only"} /\ Gates[k].skip = {"pins"}
  /\ Gates["lanes"].needs = {"resolve"} /\ Gates["lanes"].skip = {}
  /\ Gates["supported_language"].needs = {"resolve"} /\ Gates["supported_language"].skip = {}
  /\ Gates["supported_language"].on = Entry
  /\ Gates["docker_tests"].on = Go \ Deployable
BY DEF ReadsPins, ReadsDocs, Needed, Gates, Job, Always, All,
     supported_language, standards, build_test, lanes, vulnerabilities, integration, docker_tests, contract,
     openapi_generator, e2e, docs

\* What artifact needs is in the graph.
LEMMA NeededAreJobs == Needed \subseteq Gate \cup Roots
BY GateNames DEF Needed, Roots

-----------------------------------------------------------------------------
(* The results of the jobs of a run *)

\* What a gate concludes with, by what the jobs it needs did.
Concludes(r, k, stopped) ==
  IF stopped \/ Skipped(r, k) THEN "skipped"
  ELSE IF Fails(r, k) /\ ~Stalled(r, k) THEN "failure" ELSE Own(r, k)

\* The result of a job without recursion: the graph is three jobs deep.
Outcome(r, k) ==
  IF k \in Roots THEN Own(r, k)
  ELSE IF k = "docker_tests"
       THEN Concludes(r, k, \/ Own(r, "resolve") # "success" \/ Own(r, "docs_only") # "success"
                            \/ Concludes(r, "build_test", \E n \in Gates["build_test"].needs : Own(r, n) # "success") # "success")
       ELSE Concludes(r, k, \E n \in Gates[k].needs : Own(r, n) # "success")

ResultsAreOutcomes == \A r : \A j \in Gate \cup Roots : Result(r, j) = Outcome(r, j)

\* The recursion of Result has one solution, and this is it.
LEMMA ResultIsOutcome == ResultsAreOutcomes
<1> SUFFICES ASSUME NEW r, NEW j \in Gate \cup Roots PROVE Result(r, j) = Outcome(r, j)
  BY DEF ResultsAreOutcomes
<1> DEFINE Body(f, k) == IF k \in Roots THEN Own(r, k)
                         ELSE IF (\E n \in Gates[k].needs : f[n] # "success") \/ Skipped(r, k) THEN "skipped"
                         ELSE IF Fails(r, k) /\ ~Stalled(r, k) THEN "failure" ELSE Own(r, k)
           Solves(f) == f = [k \in Gate \cup Roots |-> Body(f, k)]
           g == [k \in Gate \cup Roots |-> Outcome(r, k)]
<1>1. ASSUME NEW f, Solves(f), NEW k \in Gate \cup Roots
      PROVE  f[k] = Outcome(r, k)
  <2>0. \A i \in Gate \cup Roots : f[i] = Body(f, i)
    BY <1>1
  <2>1. \A i \in Roots : f[i] = Own(r, i)
    BY <2>0
  <2>2. ASSUME NEW i \in Gate \ {"docker_tests"}
        PROVE  f[i] = Concludes(r, i, \E n \in Gates[i].needs : Own(r, n) # "success")
    <3>1. i \notin Roots /\ Gates[i].needs \subseteq Roots
      BY NeedsOf
    <3>2. (\E n \in Gates[i].needs : f[n] # "success") <=> (\E n \in Gates[i].needs : Own(r, n) # "success")
      BY <2>1, <3>1
    <3>3. f[i] = Body(f, i)
      BY <2>0
    <3> QED
      BY <3>1, <3>2, <3>3 DEF Concludes
  <2>3. CASE k = "docker_tests"
    <3>1. (\E n \in Gates[k].needs : f[n] # "success")
             <=> \/ Own(r, "resolve") # "success" \/ Own(r, "docs_only") # "success"
                 \/ f["build_test"] # "success"
      BY <2>1, <2>3, NeedsOf DEF Roots
    <3>2. f["build_test"] = Concludes(r, "build_test", \E n \in Gates["build_test"].needs : Own(r, n) # "success")
      BY <2>2, NeedsOf
    <3>3. f[k] = Body(f, k) /\ k \notin Roots
      BY <2>0, <2>3, NeedsOf
    <3>4. f[k] = Concludes(r, k, \E n \in Gates[k].needs : f[n] # "success")
      BY <3>3 DEF Concludes
    <3> QED
      BY <2>3, <3>1, <3>2, <3>3, <3>4 DEF Outcome, Concludes
  <2> QED
    BY <2>1, <2>2, <2>3, NeedsOf DEF Outcome
<1>2. Solves(g)
  <2> SUFFICES ASSUME NEW k \in Gate \cup Roots PROVE Outcome(r, k) = Body(g, k)
    OBVIOUS
  <2>1. \A i \in Roots : g[i] = Own(r, i)
    BY DEF Outcome
  <2>2. CASE k \in Roots
    BY <2>2 DEF Outcome
  <2>3. CASE k \in Gate \ {"docker_tests"}
    <3>1. k \notin Roots /\ Gates[k].needs \subseteq Roots
      BY <2>3, NeedsOf
    <3>2. (\E n \in Gates[k].needs : g[n] # "success") <=> (\E n \in Gates[k].needs : Own(r, n) # "success")
      BY <2>1, <3>1
    <3> QED
      BY <2>3, <3>1, <3>2 DEF Outcome, Concludes
  <2>4. CASE k = "docker_tests"
    <3>1. g["build_test"] = Concludes(r, "build_test", \E n \in Gates["build_test"].needs : Own(r, n) # "success")
      BY NeedsOf DEF Outcome, Roots
    <3>2. (\E n \in Gates[k].needs : g[n] # "success")
             <=> \/ Own(r, "resolve") # "success" \/ Own(r, "docs_only") # "success"
                 \/ g["build_test"] # "success"
      BY <2>1, <2>4, NeedsOf DEF Roots
    <3>3. k \notin Roots
      BY <2>4, NeedsOf
    <3> QED
      BY <2>4, <3>1, <3>2, <3>3 DEF Outcome, Concludes
  <2> QED
    BY <2>2, <2>3, <2>4
<1> HIDE DEF g
<1> DEFINE chosen == CHOOSE f : Solves(f)
<1>3. Result(r, j) = chosen[j]
  BY DEF Result
<1>4. Solves(chosen)
  <2> HIDE DEF Solves
  <2> QED
    BY <1>2
<1> HIDE DEF chosen
<1> QED
  BY <1>1, <1>3, <1>4

\* A job that does not pass failed or was cancelled.
LEMMA WhatStops ==
  ASSUME NEW r, NEW j \in Gate \cup Roots, ~Passes(r, j)
  PROVE  Result(r, j) \in {"failure", "cancelled"}
<1>1. \A k : Own(r, k) \in {"success", "failure", "cancelled"}
  BY DEF Own
<1>2. \A k, stopped : Concludes(r, k, stopped) \in {"success", "failure", "cancelled", "skipped"}
  BY <1>1 DEF Concludes
<1>3. Outcome(r, j) \in {"success", "failure", "cancelled", "skipped"}
  BY <1>1, <1>2 DEF Outcome
<1> QED
  BY <1>3, ResultIsOutcome DEF ResultsAreOutcomes, Passes

-----------------------------------------------------------------------------
(* The invariant *)

TypeOK ==
  /\ entry \in Entry
  /\ main \in Seq(Commit) /\ Len(main) <= MaxCommits
  /\ runs \in Seq(Run) /\ \A r \in DOMAIN runs : runs[r].at \in DOMAIN main
  /\ dev \in Seq(DOMAIN runs) /\ told \subseteq DOMAIN runs

\* A range is read against the commit before; every commit was pushed.
Pushed ==
  /\ \A r \in DOMAIN runs : runs[r].ranged => runs[r].at > 1
  /\ \A c \in DOMAIN main : \E r \in DOMAIN runs : runs[r].at = c

\* What a commit leaves alone is broken in its parent too, and "on" remembers a
\* green run of the parent.
Built ==
  \A c \in DOMAIN main : c > 1 =>
    /\ main[c].broken \ Changes(main[c].kind) \subseteq main[c - 1].broken
    /\ main[c].on => \E r \in DOMAIN runs : runs[r].at = c - 1 /\ IsGreen(r)

\* Neither in dev nor reported: a time limit alone held it, or the report was lost.
Missed(r) ==
  \/ Reported(r) = {} /\ Held(r) # {}
  \/ Reported(r) # {} /\ ~Ends(r, "notify")

\* Where the results of a run that was not cancelled take it.
Settled(r) ==
  /\ runs[r].step = "deploy" => Deploys(r)
  /\ r \in Deployed => Deploys(r)
  /\ entry \in Deployable /\ ~docs_only(r) /\ ~runs[r].cut =>
       /\ runs[r].step = "report" => r \in Deployed \/ Reported(r) # {} \/ Held(r) # {}
       /\ runs[r].step = "done" => r \in Deployed \cup told \/ Missed(r)

PipelineInv == TypeOK /\ Pushed /\ Built /\ \A r \in DOMAIN runs : Settled(r)

-----------------------------------------------------------------------------
(* What a step does to the runs *)

\* A run enters: those in progress are cancelled, every other one is untouched.
LEMMA Entered ==
  ASSUME TypeOK, NEW c \in 1 .. MaxCommits, NEW ranged \in BOOLEAN, NEW M, Enter(c, ranged, M)
  PROVE  LET n == Len(runs) + 1 IN
         /\ runs' \in Seq(Run) /\ DOMAIN runs = 1 .. n - 1 /\ DOMAIN runs' = 1 .. n /\ n \in Nat
         /\ \A r \in DOMAIN runs :
              runs'[r] = IF Active(r) THEN [runs[r] EXCEPT !.step = "report", !.cut = TRUE] ELSE runs[r]
         /\ runs'[n].at = c /\ runs'[n].ranged = ranged /\ runs'[n].step = "gates" /\ ~runs'[n].cut
         /\ main' = M /\ UNCHANGED <<entry, dev, told>>
<1> DEFINE n == Len(runs) + 1
           old == [r \in DOMAIN runs |->
                     IF r \in Cancelled THEN [runs[r] EXCEPT !.step = "report", !.cut = TRUE] ELSE runs[r]]
           new(bad, stalls) == [at |-> c, ranged |-> ranged, fails |-> bad \ stalls, stalls |-> stalls,
                                step |-> "gates", cut |-> FALSE]
<1>1. PICK bad \in SUBSET Fragile, stalls \in SUBSET Fragile : runs' = Append(old, new(bad, stalls))
  BY DEF Enter
<1>2. DOMAIN runs = 1 .. Len(runs) /\ Len(runs) \in Nat /\ runs \in Seq(Run)
  BY DEF TypeOK
<1>3. old \in [1 .. Len(runs) -> Run]
  <2> SUFFICES ASSUME NEW r \in 1 .. Len(runs)
               PROVE  (IF r \in Cancelled THEN [runs[r] EXCEPT !.step = "report", !.cut = TRUE] ELSE runs[r]) \in Run
    BY <1>2
  <2>1. runs[r] \in Run
    BY <1>2
  <2> QED
    BY <2>1 DEF Run
<1>4. old \in Seq(Run) /\ Len(old) = Len(runs)
  <2>1. old \in Seq(Run)
    BY <1>2, <1>3, SeqDef
  <2> HIDE DEF old
  <2>2. DOMAIN old = 1 .. Len(old) /\ DOMAIN old = 1 .. Len(runs) /\ Len(old) \in Nat
    BY <1>3, <2>1, LenProperties
  <2>3. Len(old) = Len(runs)
    <3>1. \A i \in Nat : i \in 1 .. Len(old) <=> i \in 1 .. Len(runs)
      BY <2>2
    <3>2. \A i \in Nat : 1 <= i => (i <= Len(old) <=> i <= Len(runs))
      BY <1>2, <2>2, <3>1
    <3>3. 1 <= Len(old) => Len(old) <= Len(runs)
      BY <2>2, <3>2
    <3>4. 1 <= Len(runs) => Len(runs) <= Len(old)
      BY <1>2, <3>2
    <3>5. Len(old) \in Nat /\ Len(runs) \in Nat
      BY <1>2, <2>2
    <3> QED
      BY <3>3, <3>4, <3>5
  <2> QED
    BY <2>1, <2>3
<1>5. new(bad, stalls) \in Run
  BY DEF Run
<1>6. \A r \in DOMAIN runs :
        old[r] = IF Active(r) THEN [runs[r] EXCEPT !.step = "report", !.cut = TRUE] ELSE runs[r]
  BY DEF Cancelled
<1> HIDE DEF old
<1> DEFINE N == new(bad, stalls)
<1>7. N.at = c /\ N.ranged = ranged /\ N.step = "gates" /\ ~N.cut
  OBVIOUS
<1> HIDE DEF N
<1>8. /\ runs' = Append(old, N) /\ N \in Run
  BY <1>1, <1>5 DEF N
<1>9. runs' \in Seq(Run) /\ Len(runs') = n /\ DOMAIN runs' = 1 .. n /\ runs'[n] = N
      /\ \A r \in 1 .. Len(runs) : runs'[r] = old[r]
  BY <1>2, <1>4, <1>8
<1>10. main' = M /\ UNCHANGED <<entry, dev, told>>
  BY DEF Enter
<1> HIDE DEF N
<1>11. n = Len(runs) + 1 /\ n \in Nat /\ 1 .. n - 1 = 1 .. Len(runs)
  BY <1>2
<1>12. \A r \in DOMAIN runs :
        runs'[r] = IF Active(r) THEN [runs[r] EXCEPT !.step = "report", !.cut = TRUE] ELSE runs[r]
  BY <1>2, <1>6, <1>9
<1> QED
  BY <1>2, <1>7, <1>9, <1>10, <1>11, <1>12

\* One run moves on.
LEMMA Moved ==
  ASSUME TypeOK, NEW r \in DOMAIN runs, NEW step \in {"gates", "deploy", "report", "done"},
         runs' = [runs EXCEPT ![r].step = step]
  PROVE  /\ runs' \in Seq(Run) /\ DOMAIN runs' = DOMAIN runs
         /\ runs'[r] = [runs[r] EXCEPT !.step = step]
         /\ runs'[r].step = step /\ runs'[r].at = runs[r].at /\ runs'[r].ranged = runs[r].ranged
         /\ runs'[r].fails = runs[r].fails /\ runs'[r].stalls = runs[r].stalls /\ runs'[r].cut = runs[r].cut
         /\ \A q \in DOMAIN runs \ {r} : runs'[q] = runs[q]
<1>1. runs \in Seq(Run) /\ DOMAIN runs = 1 .. Len(runs) /\ Len(runs) \in Nat
  BY DEF TypeOK
<1>2. runs[r] \in Run
  BY <1>1
<1>3. [runs[r] EXCEPT !.step = step] \in Run
  BY <1>2 DEF Run
<1>4. runs' = [runs EXCEPT ![r] = [runs[r] EXCEPT !.step = step]]
  BY <1>1
<1>5. runs' \in Seq(Run)
  BY <1>1, <1>3, <1>4
<1>6. DOMAIN runs' = DOMAIN runs /\ runs'[r] = [runs[r] EXCEPT !.step = step]
      /\ \A q \in DOMAIN runs \ {r} : runs'[q] = runs[q]
  BY <1>4
<1> QED
  BY <1>2, <1>5, <1>6 DEF Run

\* What a push adds to main.
LEMMA PushedCommit ==
  ASSUME TypeOK, NEW kind \in {"code", "docs", "pins"}, Push(kind)
  PROVE  \E x \in Commit :
           /\ Len(main) + 1 \in 1 .. MaxCommits /\ (main # << >>) \in BOOLEAN
           /\ Enter(Len(main) + 1, main # << >>, Append(main, x))
           /\ x.kind = kind /\ x.broken \ Changes(kind) \subseteq Broken /\ x.on = GreenMain
<1>1. PICK breaks \in {{}} \cup {{g} : g \in Changes(kind) \cap Breakable} :
        Enter(Len(main) + 1, main # << >>,
             Append(main, [kind |-> kind, broken |-> (Broken \ Changes(kind)) \cup breaks, on |-> GreenMain]))
  BY DEF Push
<1>2. main \in Seq(Commit) /\ Len(main) < MaxCommits /\ MaxCommits \in Nat /\ Len(main) \in Nat
  BY BoundAssumption DEF Push, TypeOK
<1>3. Broken \subseteq Breakable
  <2>1. CASE main = << >>
    BY <2>1 DEF Broken
  <2>2. CASE main # << >>
    <3>1. main[Len(main)] \in Commit
      BY <1>2, <2>2
    <3> QED
      BY <2>2, <3>1 DEF Broken, Commit
  <2> QED
    BY <2>1, <2>2
<1>4. GreenMain \in BOOLEAN
  BY DEF GreenMain
<1> DEFINE x == [kind |-> kind, broken |-> (Broken \ Changes(kind)) \cup breaks, on |-> GreenMain]
<1>5. breaks \subseteq Changes(kind) \cap Breakable
  BY <1>1
<1>6. x \in Commit
  BY <1>3, <1>4, <1>5 DEF Commit
<1>7. x.kind = kind /\ x.broken \ Changes(kind) \subseteq Broken /\ x.on = GreenMain
  BY <1>5
<1>8. Len(main) + 1 \in 1 .. MaxCommits
  BY <1>2
<1> QED
  BY <1>1, <1>6, <1>7, <1>8

\* The commits and what decides the results of a run stay what they were.
Kept ==
  /\ entry' = entry
  /\ DOMAIN runs \subseteq DOMAIN runs'
  /\ \A r \in DOMAIN runs :
       /\ runs'[r].at = runs[r].at /\ runs'[r].ranged = runs[r].ranged
       /\ runs'[r].fails = runs[r].fails /\ runs'[r].stalls = runs[r].stalls
       /\ runs[r].cut => runs'[r].cut
       /\ runs[r].step = "done" => runs'[r] = runs[r]
  /\ DOMAIN main \subseteq DOMAIN main' /\ \A c \in DOMAIN main : main'[c] = main[c]

\* A run that enters keeps the others, and the types.
LEMMA EnterKeeps ==
  ASSUME TypeOK, NEW c \in 1 .. MaxCommits, NEW ranged \in BOOLEAN, NEW M \in Seq(Commit),
         Enter(c, ranged, M), Len(M) <= MaxCommits, c \in DOMAIN M,
         DOMAIN main \subseteq DOMAIN M, \A d \in DOMAIN main : M[d] = main[d]
  PROVE  Kept /\ TypeOK'
<1> DEFINE n == Len(runs) + 1
<1>1. /\ runs' \in Seq(Run) /\ DOMAIN runs = 1 .. n - 1 /\ DOMAIN runs' = 1 .. n /\ n \in Nat
      /\ \A r \in DOMAIN runs :
           runs'[r] = IF Active(r) THEN [runs[r] EXCEPT !.step = "report", !.cut = TRUE] ELSE runs[r]
      /\ runs'[n].at = c /\ main' = M /\ UNCHANGED <<entry, dev, told>>
  BY Entered
<1> HIDE DEF n
<1>2. \A r \in DOMAIN runs : runs[r] \in Run
  BY DEF TypeOK
<1>3. ASSUME NEW r \in DOMAIN runs
      PROVE  /\ runs'[r].at = runs[r].at /\ runs'[r].ranged = runs[r].ranged
             /\ runs'[r].fails = runs[r].fails /\ runs'[r].stalls = runs[r].stalls
             /\ runs[r].cut => runs'[r].cut
             /\ runs[r].step = "done" => runs'[r] = runs[r]
  <2>1. CASE Active(r)
    <3>1. runs'[r] = [runs[r] EXCEPT !.step = "report", !.cut = TRUE] /\ runs[r].step # "done"
      BY <1>1, <2>1 DEF Active
    <3> QED
      BY <1>2, <3>1 DEF Run
  <2>2. CASE ~Active(r)
    BY <1>1, <2>2
  <2> QED
    BY <2>1, <2>2
<1>4. DOMAIN runs \subseteq DOMAIN runs' /\ \A r \in DOMAIN runs' : r # n => r \in DOMAIN runs
  <2>1. DOMAIN runs = 1 .. n - 1 /\ DOMAIN runs' = 1 .. n /\ n \in Nat
    BY <1>1
  <2> QED
    BY <2>1
<1>5. Kept
  BY <1>1, <1>3, <1>4 DEF Kept
<1>6. \A r \in DOMAIN runs' : runs'[r].at \in DOMAIN main'
  <2> SUFFICES ASSUME NEW r \in DOMAIN runs' PROVE runs'[r].at \in DOMAIN main'
    OBVIOUS
  <2>1. CASE r = n
    BY <1>1, <2>1
  <2>2. CASE r # n
    <3>1. r \in DOMAIN runs
      BY <1>4, <2>2
    <3> QED
      BY <1>1, <1>3, <3>1 DEF TypeOK
  <2> QED
    BY <2>1, <2>2
<1>7. dev' \in Seq(DOMAIN runs') /\ told' \subseteq DOMAIN runs'
  <2>1. dev' = dev /\ told' = told /\ dev \in Seq(DOMAIN runs)
    BY <1>1 DEF TypeOK
  <2>2. dev \in Seq(DOMAIN runs')
    BY <1>4, <2>1
  <2> QED
    BY <1>4, <2>1, <2>2 DEF TypeOK
<1>8. entry' \in Entry /\ main' \in Seq(Commit) /\ Len(main') <= MaxCommits /\ runs' \in Seq(Run)
  BY <1>1 DEF TypeOK
<1> QED
  BY <1>5, <1>6, <1>7, <1>8 DEF TypeOK

\* A run that moves on keeps all of that too.
LEMMA MoveKeeps ==
  ASSUME TypeOK, NEW r \in DOMAIN runs, NEW step \in {"gates", "deploy", "report", "done"},
         runs' = [runs EXCEPT ![r].step = step], runs[r].step # "done", UNCHANGED <<entry, main>>,
         dev' = dev \/ dev' = Append(dev, r), told' = told \/ told' = told \cup {r}
  PROVE  Kept /\ TypeOK'
<1>1. /\ runs' \in Seq(Run) /\ DOMAIN runs' = DOMAIN runs
      /\ runs'[r].at = runs[r].at /\ runs'[r].ranged = runs[r].ranged
      /\ runs'[r].fails = runs[r].fails /\ runs'[r].stalls = runs[r].stalls /\ runs'[r].cut = runs[r].cut
      /\ \A q \in DOMAIN runs \ {r} : runs'[q] = runs[q]
  BY Moved
<1>2. Kept
  BY <1>1 DEF Kept
<1>3. \A q \in DOMAIN runs' : runs'[q].at \in DOMAIN main'
  BY <1>1 DEF TypeOK
<1>4. dev' \in Seq(DOMAIN runs')
  <2>1. dev \in Seq(DOMAIN runs)
    BY DEF TypeOK
  <2>2. dev' \in Seq(DOMAIN runs)
    BY <2>1
  <2> QED
    BY <1>1, <2>2
<1>5. told' \subseteq DOMAIN runs'
  BY <1>1 DEF TypeOK
<1>6. entry' \in Entry /\ main' \in Seq(Commit) /\ Len(main') <= MaxCommits
  BY DEF TypeOK
<1> QED
  BY <1>1, <1>2, <1>3, <1>4, <1>5, <1>6 DEF TypeOK

\* What a step may do to what was decided before it: nothing.
LEMMA StepKeeps ==
  ASSUME TypeOK, [Next]_vars
  PROVE  Kept /\ TypeOK'
<1>1. ASSUME NEW kind \in {"code", "docs", "pins"}, Push(kind) PROVE Kept /\ TypeOK'
  <2>1. PICK x \in Commit :
          /\ Len(main) + 1 \in 1 .. MaxCommits /\ (main # << >>) \in BOOLEAN
          /\ Enter(Len(main) + 1, main # << >>, Append(main, x))
    BY <1>1, PushedCommit
  <2>2. main \in Seq(Commit) /\ Len(main) \in Nat /\ DOMAIN main = 1 .. Len(main)
    BY DEF TypeOK
  <2> DEFINE M == Append(main, x)
  <2>3. /\ M \in Seq(Commit) /\ Len(M) = Len(main) + 1 /\ DOMAIN M = 1 .. Len(main) + 1
        /\ \A d \in 1 .. Len(main) : M[d] = main[d]
    BY <2>2
  <2>4. MaxCommits \in Nat
    BY BoundAssumption
  <2> HIDE DEF M
  <2>5. Enter(Len(main) + 1, main # << >>, M)
    BY <2>1 DEF M
  <2>6. Len(M) <= MaxCommits /\ Len(main) + 1 \in DOMAIN M /\ DOMAIN main \subseteq DOMAIN M
    BY <2>1, <2>2, <2>3, <2>4
  <2> QED
    BY <2>1, <2>2, <2>3, <2>5, <2>6, EnterKeeps
<1>2. ASSUME Dispatch PROVE Kept /\ TypeOK'
  <2>1. main \in Seq(Commit) /\ main # << >> /\ Enter(Len(main), FALSE, main) /\ Len(main) <= MaxCommits
    BY <1>2 DEF Dispatch, TypeOK
  <2>2. Len(main) \in 1 .. MaxCommits /\ Len(main) \in DOMAIN main
    BY <2>1, BoundAssumption
  <2> QED
    BY <2>1, <2>2, EnterKeeps
<1>3. ASSUME NEW r \in DOMAIN runs, Rerun(r) PROVE Kept /\ TypeOK'
  <2>1. main \in Seq(Commit) /\ Enter(runs[r].at, runs[r].ranged, main) /\ Len(main) <= MaxCommits
    BY <1>3 DEF Rerun, TypeOK
  <2>2. runs[r] \in Run /\ runs[r].at \in DOMAIN main
    BY DEF TypeOK
  <2>3. runs[r].at \in 1 .. MaxCommits /\ runs[r].ranged \in BOOLEAN
    BY <2>2 DEF Run
  <2> QED
    BY <2>1, <2>2, <2>3, EnterKeeps
<1>4. ASSUME NEW r \in DOMAIN runs, Examine(r) PROVE Kept /\ TypeOK'
  <2>1. PICK step \in {"deploy", "report"} : runs' = [runs EXCEPT ![r].step = step]
    BY <1>4 DEF Examine
  <2> QED
    BY <1>4, <2>1, MoveKeeps DEF Examine
<1>5. ASSUME NEW r \in DOMAIN runs, Deploy(r) PROVE Kept /\ TypeOK'
  BY <1>5, MoveKeeps DEF Deploy
<1>6. ASSUME NEW r \in DOMAIN runs, Notify(r) PROVE Kept /\ TypeOK'
  <2>1. told' = told \/ told' = told \cup {r}
    BY <1>6 DEF Notify
  <2> QED
    BY <1>6, <2>1, MoveKeeps DEF Notify
<1>7. CASE UNCHANGED vars
  BY <1>7 DEF vars, Kept, TypeOK
<1> QED
  BY <1>1, <1>2, <1>3, <1>4, <1>5, <1>6, <1>7 DEF Next

\* The results of a run are decided when it starts.
LEMMA ResultsStay ==
  ASSUME TypeOK, Kept, NEW r \in DOMAIN runs
  PROVE  /\ Tree(r)' = Tree(r) /\ (docs_only(r)' <=> docs_only(r)) /\ (pin_only(r)' <=> pin_only(r))
         /\ \A j \in Gate \cup Roots : Passes(r, j)' <=> Passes(r, j)
         /\ (Deploys(r)' <=> Deploys(r)) /\ Reported(r)' = Reported(r) /\ Held(r)' = Held(r)
         /\ \A j : Own(r, j)' = Own(r, j) /\ (Ends(r, j)' <=> Ends(r, j))
<1>1. /\ entry' = entry /\ runs'[r].ranged = runs[r].ranged /\ runs'[r].fails = runs[r].fails
      /\ runs'[r].stalls = runs[r].stalls /\ runs'[r].at = runs[r].at /\ main'[runs[r].at] = main[runs[r].at]
  BY DEF Kept, TypeOK
<1>2. Tree(r)' = Tree(r)
  BY <1>1 DEF Tree
<1>3. \A j : (Stalled(r, j)' <=> Stalled(r, j)) /\ Own(r, j)' = Own(r, j) /\ (Ends(r, j)' <=> Ends(r, j))
  BY <1>1 DEF Lost, Stalled, Own, Ends
<1>4. (docs_only(r)' <=> docs_only(r)) /\ (pin_only(r)' <=> pin_only(r))
  BY <1>1, <1>2, <1>3 DEF docs_only, pin_only, Verdict
<1>5. \A j : (Skipped(r, j)' <=> Skipped(r, j)) /\ (Fails(r, j)' <=> Fails(r, j))
  BY <1>1, <1>2, <1>4 DEF Skipped, Fails
<1>6. \A j : Outcome(r, j)' = Outcome(r, j)
  BY <1>3, <1>5 DEF Outcome, Concludes
<1>7. \A j \in Gate \cup Roots : Result(r, j) = Outcome(r, j)
  BY ResultIsOutcome DEF ResultsAreOutcomes
<1>8. ResultsAreOutcomes'
  BY ResultIsOutcome, PTL
<1>9. \A j \in Gate \cup Roots : Result(r, j)' = Outcome(r, j)'
  BY <1>8 DEF ResultsAreOutcomes
<1>10. \A j \in Gate \cup Roots : Result(r, j)' = Result(r, j)
  BY <1>6, <1>7, <1>9
<1>11. FailedOf(r)' = FailedOf(r) /\ \A j \in Gate \cup Roots : Passes(r, j)' <=> Passes(r, j)
  BY <1>10 DEF FailedOf, Passes
<1>12. Needed \subseteq Gate \cup Roots
  BY NeededAreJobs
<1>13. Deploys(r)' <=> Deploys(r)
  BY <1>1, <1>4, <1>11, <1>12 DEF Deploys
<1>14. Reported(r)' = Reported(r)
  BY <1>3, <1>11, <1>13 DEF Reported, ArtifactFailed
<1>15. Held(r)' = Held(r)
  BY <1>3, <1>10, <1>12, <1>13 DEF Held
<1> QED
  BY <1>2, <1>3, <1>4, <1>11, <1>13, <1>14, <1>15

\* A green run stays green.
LEMMA GreenStays ==
  ASSUME TypeOK, Kept, NEW r \in DOMAIN runs, IsGreen(r)
  PROVE  IsGreen(r)'
<1>1. /\ runs'[r] = runs[r] /\ (Deploys(r)' <=> Deploys(r)) /\ (Ends(r, "artifact")' <=> Ends(r, "artifact"))
      /\ \A j \in Gate \cup Roots : Passes(r, j)' <=> Passes(r, j)
  BY ResultsStay DEF IsGreen, Kept
<1> QED
  BY <1>1 DEF IsGreen

-----------------------------------------------------------------------------
(* The invariant holds *)

\* A deployable change that is not documentation and does not deploy, or whose
\* artifact job does not end, is reported or was held by a time limit: notify
\* watches all that artifact needs.
LEMMA StoppedIsReported ==
  ASSUME NEW r, entry \in Deployable, ~docs_only(r), ~Deploys(r) \/ ~Ends(r, "artifact")
  PROVE  Reported(r) # {} \/ Held(r) # {}
<1>1. Needed \subseteq Watched /\ "artifact" \in Watched
  BY DEF Watched
<1>2. CASE ~Deploys(r)
  <2>1. PICK j \in Needed : ~Passes(r, j)
    BY <1>2 DEF Deploys
  <2>2. j \in Gate \cup Roots
    BY NeededAreJobs
  <2>3. Result(r, j) \in {"failure", "cancelled"}
    BY <2>1, <2>2, WhatStops
  <2>4. Result(r, j) = "failure" => j \in Reported(r)
    BY <1>1, <2>2 DEF Reported, FailedOf
  <2>5. Result(r, j) = "cancelled" => j \in Held(r)
    BY DEF Held
  <2> QED
    BY <2>3, <2>4, <2>5
<1>3. CASE Deploys(r) /\ ~Ends(r, "artifact")
  <2>1. Own(r, "artifact") = "failure" \/ Stalled(r, "artifact")
    BY <1>3 DEF Ends, Own
  <2> QED
    BY <1>1, <1>3, <2>1 DEF Reported, ArtifactFailed, Held
<1> QED
  BY <1>2, <1>3

\* What a run that moves on leaves of the deployments.
LEMMA DeployedGrows ==
  ASSUME TypeOK, NEW r
  PROVE  /\ dev' = dev => Deployed' = Deployed
         /\ dev' = Append(dev, r) /\ r \in DOMAIN runs => Deployed' = Deployed \cup {r}
         /\ Deployed \subseteq DOMAIN runs
<1>1. dev \in Seq(DOMAIN runs) /\ DOMAIN dev = 1 .. Len(dev) /\ Len(dev) \in Nat
  BY DEF TypeOK
<1>2. ASSUME dev' = Append(dev, r), r \in DOMAIN runs PROVE Deployed' = Deployed \cup {r}
  <2>1. /\ DOMAIN dev' = 1 .. Len(dev) + 1 /\ dev'[Len(dev) + 1] = r
        /\ \A i \in 1 .. Len(dev) : dev'[i] = dev[i]
    BY <1>1, <1>2
  <2>2. Deployed' = {dev'[i] : i \in 1 .. Len(dev) + 1} /\ Deployed = {dev[i] : i \in 1 .. Len(dev)}
    BY <1>1, <2>1 DEF Deployed
  <2>3. 1 .. Len(dev) + 1 = (1 .. Len(dev)) \cup {Len(dev) + 1}
    BY <1>1
  <2> QED
    BY <2>1, <2>2, <2>3
<1>3. Deployed \subseteq DOMAIN runs
  BY <1>1 DEF Deployed
<1>4. dev' = dev => Deployed' = Deployed
  BY DEF Deployed
<1> QED
  BY <1>2, <1>3, <1>4

LEMMA SettledStays ==
  ASSUME TypeOK, \A r \in DOMAIN runs : Settled(r), [Next]_vars
  PROVE  \A r \in DOMAIN runs' : Settled(r)'
<1>0. Kept
  BY StepKeeps
<1>1. ASSUME NEW r \in DOMAIN runs, runs'[r] = runs[r], Deployed' = Deployed \/ r \in Deployed, r \in Deployed => r \in Deployed',
             told \subseteq told'
      PROVE  Settled(r)'
  <2>1. Settled(r)
    OBVIOUS
  <2> QED
    BY <1>0, <1>1, <2>1, ResultsStay DEF Settled, Missed, Kept
<1>2. ASSUME NEW c \in 1 .. MaxCommits, NEW ranged \in BOOLEAN, NEW M, Enter(c, ranged, M), NEW r \in DOMAIN runs'
      PROVE  Settled(r)'
  <2> DEFINE n == Len(runs) + 1
  <2>1. /\ \A q \in DOMAIN runs :
             runs'[q] = IF Active(q) THEN [runs[q] EXCEPT !.step = "report", !.cut = TRUE] ELSE runs[q]
        /\ runs'[n].step = "gates" /\ UNCHANGED <<dev, told>>
    BY <1>2, Entered
  <2>2. DOMAIN runs = 1 .. n - 1 /\ DOMAIN runs' = 1 .. n /\ n \in Nat
    BY <1>2, Entered
  <2> HIDE DEF n
  <2>3. Deployed' = Deployed /\ Deployed \subseteq DOMAIN runs
    BY <2>1, DeployedGrows
  <2>4. CASE r = n
    <3>1. r \notin Deployed'
      BY <2>2, <2>3, <2>4
    <3> QED
      BY <2>1, <2>4, <3>1 DEF Settled
  <2>5. CASE r # n
    <3>1. r \in DOMAIN runs
      BY <2>2, <2>5
    <3>2. CASE Active(r)
      <4>1. runs[r] \in Run
        BY <3>1 DEF TypeOK
      <4>2. runs'[r].step = "report" /\ runs'[r].cut
        BY <2>1, <3>1, <3>2, <4>1 DEF Run
      <4> QED
        BY <1>0, <2>3, <3>1, <4>2, ResultsStay DEF Settled
    <3>3. CASE ~Active(r)
      <4>1. runs'[r] = runs[r]
        BY <2>1, <3>1, <3>3
      <4> QED
        BY <1>1, <2>1, <2>3, <3>1, <4>1
    <3> QED
      BY <3>2, <3>3
  <2> QED
    BY <2>4, <2>5
<1>3. ASSUME NEW q \in DOMAIN runs, Examine(q), NEW r \in DOMAIN runs'
      PROVE  Settled(r)'
  <2>1. PICK step \in {"deploy", "report"} :
          /\ runs' = [runs EXCEPT ![q].step = step] /\ UNCHANGED <<dev, told>>
          /\ step = IF Deploys(q) THEN "deploy" ELSE "report"
    BY <1>3 DEF Examine
  <2>2. Deployed' = Deployed
    BY <2>1, DeployedGrows
  <2>3. DOMAIN runs' = DOMAIN runs /\ runs'[q].step = step /\ \A p \in DOMAIN runs \ {q} : runs'[p] = runs[p]
    <3>1. step \in {"gates", "deploy", "report", "done"} /\ runs' = [runs EXCEPT ![q].step = step]
      BY <2>1
    <3> QED
      BY <3>1, Moved
  <2>4. CASE r = q
    <3>1. /\ runs'[r].step = "deploy" => Deploys(r)
          /\ runs'[r].step = "report" => ~Deploys(r)
          /\ runs'[r].step # "done"
      BY <2>1, <2>3, <2>4
    <3>2. entry \in Deployable /\ ~docs_only(r) /\ runs'[r].step = "report" => Reported(r) # {} \/ Held(r) # {}
      BY <3>1, StoppedIsReported
    <3>3. r \in Deployed => Deploys(r)
      BY <2>4 DEF Settled
    <3>4. entry' = entry /\ r \in DOMAIN runs
      BY <1>0, <2>4 DEF Kept
    <3> QED
      BY <1>0, <2>2, <3>1, <3>2, <3>3, <3>4, ResultsStay DEF Settled
  <2>5. CASE r # q
    BY <1>1, <2>1, <2>2, <2>3, <2>5
  <2> QED
    BY <2>4, <2>5
<1>4. ASSUME NEW q \in DOMAIN runs, Deploy(q), NEW r \in DOMAIN runs'
      PROVE  Settled(r)'
  <2>1. /\ runs' = [runs EXCEPT ![q].step = "report"] /\ UNCHANGED told /\ runs[q].step = "deploy"
        /\ dev' = Append(dev, q) \/ (dev' = dev /\ ~Ends(q, "artifact"))
    BY <1>4 DEF Deploy
  <2>2. Deployed' = Deployed \cup {q} \/ (Deployed' = Deployed /\ ~Ends(q, "artifact"))
    BY <2>1, DeployedGrows
  <2>3. DOMAIN runs' = DOMAIN runs /\ runs'[q].step = "report" /\ \A p \in DOMAIN runs \ {q} : runs'[p] = runs[p]
    BY <2>1, Moved
  <2>4. CASE r = q
    <3>1. Deploys(r)
      BY <2>1, <2>4 DEF Settled
    <3>2. entry \in Deployable /\ ~docs_only(r) => r \in Deployed' \/ Reported(r) # {} \/ Held(r) # {}
      BY <2>2, <2>4, StoppedIsReported
    <3> QED
      BY <1>0, <2>3, <2>4, <3>1, <3>2, ResultsStay DEF Settled, Kept
  <2>5. CASE r # q
    <3>1. r \in DOMAIN runs /\ runs'[r] = runs[r] /\ (r \in Deployed' <=> r \in Deployed)
      BY <2>2, <2>3, <2>5
    <3>2. Settled(r)
      BY <3>1
    <3> QED
      BY <1>0, <2>1, <3>1, <3>2, ResultsStay DEF Settled, Missed, Kept
  <2> QED
    BY <2>4, <2>5
<1>5. ASSUME NEW q \in DOMAIN runs, Notify(q), NEW r \in DOMAIN runs'
      PROVE  Settled(r)'
  <2>1. /\ runs' = [runs EXCEPT ![q].step = "done"] /\ UNCHANGED dev /\ runs[q].step = "report"
        /\ told \subseteq told'
        /\ Reported(q) # {} /\ ~runs[q].cut /\ Ends(q, "notify") => q \in told'
    BY <1>5 DEF Notify
  <2>2. Deployed' = Deployed
    BY <2>1, DeployedGrows
  <2>3. DOMAIN runs' = DOMAIN runs /\ runs'[q].step = "done" /\ runs'[q].cut = runs[q].cut
        /\ \A p \in DOMAIN runs \ {q} : runs'[p] = runs[p]
    BY <2>1, Moved
  <2>4. CASE r = q
    <3>1. /\ r \in Deployed => Deploys(r)
          /\ entry \in Deployable /\ ~docs_only(r) /\ ~runs[r].cut =>
               r \in Deployed \/ Reported(r) # {} \/ Held(r) # {}
      BY <2>1, <2>4 DEF Settled
    <3>2. entry \in Deployable /\ ~docs_only(r) /\ ~runs[r].cut => r \in Deployed \cup told' \/ Missed(r)
      BY <2>1, <2>4, <3>1 DEF Missed
    <3>3. Missed(r)' <=> Missed(r)
      BY <1>0, <2>4, ResultsStay DEF Missed
    <3> QED
      BY <1>0, <2>1, <2>2, <2>3, <2>4, <3>1, <3>2, <3>3, ResultsStay DEF Settled, Kept
  <2>5. CASE r # q
    BY <1>1, <2>1, <2>2, <2>3, <2>5
  <2> QED
    BY <2>4, <2>5
<1>6. ASSUME UNCHANGED vars, NEW r \in DOMAIN runs'
      PROVE  Settled(r)'
  <2>1. r \in DOMAIN runs /\ runs'[r] = runs[r] /\ UNCHANGED <<dev, told>>
    BY <1>6 DEF vars
  <2>2. Deployed' = Deployed
    BY <2>1, DeployedGrows
  <2> QED
    BY <1>1, <2>1, <2>2
<1>7. ASSUME NEW kind \in {"code", "docs", "pins"}, Push(kind), NEW r \in DOMAIN runs'
      PROVE  Settled(r)'
  BY <1>2, <1>7, PushedCommit
<1>8. ASSUME Dispatch, NEW r \in DOMAIN runs'
      PROVE  Settled(r)'
  <2>1. main \in Seq(Commit) /\ main # << >> /\ Enter(Len(main), FALSE, main) /\ Len(main) <= MaxCommits
    BY <1>8 DEF Dispatch, TypeOK
  <2>2. Len(main) \in 1 .. MaxCommits
    BY <2>1, BoundAssumption
  <2> QED
    BY <1>2, <2>1, <2>2
<1>9. ASSUME NEW q \in DOMAIN runs, Rerun(q), NEW r \in DOMAIN runs'
      PROVE  Settled(r)'
  <2>1. runs[q] \in Run
    BY DEF TypeOK
  <2>2. runs[q].at \in 1 .. MaxCommits /\ runs[q].ranged \in BOOLEAN
    BY <2>1 DEF Run
  <2> QED
    BY <1>2, <1>9, <2>2 DEF Rerun
<1> QED
  BY <1>3, <1>4, <1>5, <1>6, <1>7, <1>8, <1>9 DEF Next

\* Pushed and Built are kept: a commit enters with its run, on the newest one.
LEMMA BuiltStays ==
  ASSUME TypeOK, Pushed, Built, [Next]_vars
  PROVE  Pushed' /\ Built'
<1>0. Kept /\ TypeOK'
  BY StepKeeps
<1>1. ASSUME NEW c \in DOMAIN main, c > 1
      PROVE  /\ main'[c].broken \ Changes(main'[c].kind) \subseteq main'[c - 1].broken
             /\ main'[c].on => \E r \in DOMAIN runs' : runs'[r].at = c - 1 /\ IsGreen(r)'
  <2>1. c - 1 \in DOMAIN main
    BY <1>1 DEF TypeOK
  <2>2. main'[c] = main[c] /\ main'[c - 1] = main[c - 1]
    BY <1>0, <2>1 DEF Kept
  <2>3. ASSUME main[c].on PROVE \E r \in DOMAIN runs' : runs'[r].at = c - 1 /\ IsGreen(r)'
    <3>1. PICK r \in DOMAIN runs : runs[r].at = c - 1 /\ IsGreen(r)
      BY <1>1, <2>3 DEF Built
    <3>2. r \in DOMAIN runs' /\ runs'[r].at = c - 1 /\ IsGreen(r)'
      BY <1>0, <3>1, GreenStays DEF Kept
    <3> QED
      BY <3>2
  <2> QED
    BY <1>1, <2>2, <2>3 DEF Built
<1>2. \A c \in DOMAIN main : \E r \in DOMAIN runs' : runs'[r].at = c
  <2> SUFFICES ASSUME NEW c \in DOMAIN main PROVE \E r \in DOMAIN runs' : runs'[r].at = c
    OBVIOUS
  <2>1. PICK r \in DOMAIN runs : runs[r].at = c
    BY DEF Pushed
  <2> QED
    BY <1>0, <2>1 DEF Kept
<1>3. \A r \in DOMAIN runs : runs'[r].ranged => runs'[r].at > 1
  BY <1>0 DEF Kept, Pushed
<1>4. ASSUME DOMAIN main' = DOMAIN main, \A r \in DOMAIN runs' \ DOMAIN runs : runs'[r].ranged => runs'[r].at > 1
      PROVE  Pushed' /\ Built'
  BY <1>1, <1>2, <1>3, <1>4 DEF Pushed, Built
<1>5. ASSUME NEW c \in 1 .. MaxCommits, NEW ranged \in BOOLEAN, NEW M, Enter(c, ranged, M)
      PROVE  /\ main' = M
             /\ \E n \in DOMAIN runs' : runs'[n].at = c
             /\ \A r \in DOMAIN runs' \ DOMAIN runs : runs'[r].at = c /\ runs'[r].ranged = ranged
  <2> DEFINE n == Len(runs) + 1
  <2>1. runs'[n].at = c /\ runs'[n].ranged = ranged /\ main' = M
    BY <1>5, Entered
  <2>2. DOMAIN runs = 1 .. n - 1 /\ DOMAIN runs' = 1 .. n /\ n \in Nat
    BY <1>5, Entered
  <2> HIDE DEF n
  <2>3. \A r \in DOMAIN runs' \ DOMAIN runs : r = n
    BY <2>2
  <2>4. n \in DOMAIN runs'
    <3>1. n # 0
      <4>1. Len(runs) \in Nat
        BY DEF TypeOK
      <4> QED
        BY <4>1 DEF n
    <3> QED
      BY <2>2, <3>1
  <2> QED
    BY <2>1, <2>3, <2>4
<1>6. ASSUME NEW kind \in {"code", "docs", "pins"}, Push(kind)
      PROVE  Pushed' /\ Built'
  <2> DEFINE l == Len(main) + 1
  <2>1. PICK x \in Commit :
          /\ l \in 1 .. MaxCommits /\ (main # << >>) \in BOOLEAN
          /\ Enter(l, main # << >>, Append(main, x))
          /\ x.kind = kind /\ x.broken \ Changes(kind) \subseteq Broken /\ x.on = GreenMain
    BY <1>6, PushedCommit
  <2>2. main \in Seq(Commit) /\ Len(main) \in Nat /\ DOMAIN main = 1 .. Len(main) /\ (main = << >> <=> Len(main) = 0)
    BY DEF TypeOK
  <2> DEFINE M == Append(main, x)
  <2>3. DOMAIN M = 1 .. l /\ M[l] = x /\ \A d \in 1 .. Len(main) : M[d] = main[d]
    BY <2>2
  <2> HIDE DEF M
  <2>4. Enter(l, main # << >>, M)
    BY <2>1 DEF M
  <2>5. /\ main' = M
        /\ \E n \in DOMAIN runs' : runs'[n].at = l
        /\ \A r \in DOMAIN runs' \ DOMAIN runs : runs'[r].at = l /\ runs'[r].ranged = (main # << >>)
    BY <1>5, <2>1, <2>4
  <2>6. \A c \in DOMAIN main' : c \in DOMAIN main \/ c = l
    BY <2>2, <2>3, <2>5
  <2>7. Pushed'
    <3>0. main # << >> => l > 1
      BY <2>2
    <3>1. \A r \in DOMAIN runs' \ DOMAIN runs : runs'[r].ranged => runs'[r].at > 1
      <4> HIDE DEF l
      <4> QED
        BY <2>5, <3>0
    <3> QED
      BY <1>2, <1>3, <2>5, <2>6, <3>1 DEF Pushed
  <2>8. ASSUME l > 1
        PROVE  /\ main'[l].broken \ Changes(main'[l].kind) \subseteq main'[l - 1].broken
               /\ main'[l].on => \E r \in DOMAIN runs' : runs'[r].at = l - 1 /\ IsGreen(r)'
    <3>1. main # << >> /\ l - 1 = Len(main) /\ Len(main) \in DOMAIN main
      BY <2>2, <2>8
    <3>2. main'[l] = x /\ main'[l - 1] = main[Len(main)]
      BY <2>3, <2>5, <3>1
    <3>3. x.broken \ Changes(x.kind) \subseteq main[Len(main)].broken
      BY <2>1, <3>1 DEF Broken
    <3>4. ASSUME x.on PROVE \E r \in DOMAIN runs' : runs'[r].at = l - 1 /\ IsGreen(r)'
      <4>1. PICK r \in DOMAIN runs : runs[r].at = Len(main) /\ IsGreen(r)
        BY <2>1, <3>1, <3>4 DEF GreenMain
      <4>2. r \in DOMAIN runs' /\ runs'[r].at = l - 1 /\ IsGreen(r)'
        BY <1>0, <3>1, <4>1, GreenStays DEF Kept
      <4> QED
        BY <4>2
    <3> QED
      BY <3>2, <3>3, <3>4
  <2>9. Built'
    BY <1>1, <2>6, <2>8 DEF Built
  <2> QED
    BY <2>7, <2>9
<1>7. ASSUME Dispatch PROVE Pushed' /\ Built'
  <2>1. main \in Seq(Commit) /\ main # << >> /\ Enter(Len(main), FALSE, main) /\ Len(main) <= MaxCommits
    BY <1>7 DEF Dispatch, TypeOK
  <2>2. Len(main) \in 1 .. MaxCommits
    BY <2>1, BoundAssumption
  <2>3. main' = main /\ \A r \in DOMAIN runs' \ DOMAIN runs : runs'[r].ranged = FALSE
    BY <1>5, <2>1, <2>2
  <2> QED
    BY <1>4, <2>3
<1>8. ASSUME NEW q \in DOMAIN runs, Rerun(q) PROVE Pushed' /\ Built'
  <2>1. runs[q] \in Run
    BY DEF TypeOK
  <2>2. runs[q].at \in 1 .. MaxCommits /\ runs[q].ranged \in BOOLEAN
    BY <2>1 DEF Run
  <2>3. /\ main' = main
        /\ \A r \in DOMAIN runs' \ DOMAIN runs : runs'[r].at = runs[q].at /\ runs'[r].ranged = runs[q].ranged
    BY <1>5, <1>8, <2>2 DEF Rerun
  <2>4. runs[q].ranged => runs[q].at > 1
    BY DEF Pushed
  <2> QED
    BY <1>4, <2>3, <2>4
<1>9. ASSUME UNCHANGED main, DOMAIN runs' = DOMAIN runs PROVE Pushed' /\ Built'
  BY <1>4, <1>9
<1>10. ASSUME NEW q \in DOMAIN runs, Examine(q) \/ Deploy(q) \/ Notify(q) PROVE UNCHANGED main /\ DOMAIN runs' = DOMAIN runs
  BY <1>10 DEF Examine, Deploy, Notify
<1>11. UNCHANGED vars => UNCHANGED main /\ DOMAIN runs' = DOMAIN runs
  BY DEF vars
<1> QED
  BY <1>6, <1>7, <1>8, <1>9, <1>10, <1>11 DEF Next

\* The types hold, every commit was pushed on the one before, and a run is where
\* its results take it.
THEOREM PipelineInvariant == Spec => []PipelineInv
<1>1. Init => PipelineInv
  <2> SUFFICES ASSUME Init PROVE PipelineInv
    OBVIOUS
  <2>1. main = << >> /\ runs = << >> /\ dev = << >> /\ told = {} /\ entry \in Entry
    BY CatalogAssumption DEF Init
  <2>2. TypeOK
    BY <2>1, BoundAssumption DEF TypeOK
  <2> QED
    BY <2>1, <2>2 DEF PipelineInv, Pushed, Built
<1>2. PipelineInv /\ [Next]_vars => PipelineInv'
  BY StepKeeps, SettledStays, BuiltStays DEF PipelineInv
<1> QED
  BY <1>1, <1>2, PTL DEF Spec

-----------------------------------------------------------------------------
(* What reaches dev *)

\* A gate that applies and is not skipped fails on a tree it fails on.
LEMMA GateSees ==
  ASSUME NEW r, NEW g \in Gate \ {"docker_tests"}, Fails(r, g), entry \in Gates[g].on,
         \A n \in Gates[g].needs : Ends(r, n),
         docs_only(r) => "docs" \notin Gates[g].skip,
         pin_only(r) => "pins" \notin Gates[g].skip
  PROVE  ~Passes(r, g)
<1>1. g \notin Roots /\ g \in Gate \cup Roots
  BY NeedsOf
<1>2. ~(\E n \in Gates[g].needs : Own(r, n) # "success")
  BY DEF Ends
<1>3. ~Skipped(r, g)
  BY DEF Skipped
<1>4. Outcome(r, g) \in {"failure", "cancelled"}
  BY <1>1, <1>2, <1>3 DEF Outcome, Concludes, Own
<1> QED
  BY <1>1, <1>4, ResultIsOutcome DEF Passes, ResultsAreOutcomes

\* A classifier or a resolve job that passes ended.
LEMMA PassedEnded ==
  ASSUME NEW r, NEW j \in Roots, Passes(r, j)
  PROVE  Ends(r, j)
<1>1. Result(r, j) = Own(r, j)
  BY ResultIsOutcome DEF ResultsAreOutcomes, Outcome
<1> QED
  BY <1>1 DEF Passes, Own, Ends

\* A change is documentation or pins, not both.
LEMMA OneVerdict == \A r : ~(docs_only(r) /\ pin_only(r))
BY DEF docs_only, pin_only, Verdict

\* A run whose deployment was decided had its classifier and its identity.
LEMMA WhatDeploysNeeds ==
  ASSUME NEW r, Deploys(r)
  PROVE  /\ Ends(r, "resolve") /\ Ends(r, "docs_only") /\ ~docs_only(r) /\ entry \in Deployable
         /\ \A g \in Needed : Passes(r, g)
<1>1. {"resolve", "docs_only"} \subseteq Needed /\ {"resolve", "docs_only"} \subseteq Roots
  BY DEF Needed, Roots
<1> QED
  BY <1>1, PassedEnded DEF Deploys

\* Nothing that a version can break, and nothing in a language the gates do not
\* read, reaches dev: those gates need the two jobs that artifact needs too, only
\* documentation skips them, and documentation does not deploy.
THEOREM BuiltBeforeDev == Spec => []WhatRunsIsBuilt
<1>1. ASSUME PipelineInv PROVE WhatRunsIsBuilt
  <2>0. TypeOK
    BY <1>1 DEF PipelineInv
  <2>1. ASSUME NEW r \in Deployed PROVE Deploys(r)
    BY <1>1, <2>0, DeployedGrows DEF PipelineInv, Settled
  <2>2. ASSUME NEW r \in Deployed, NEW g \in (ReadsPins \ ReadsDocs) \cup {"lanes"}, g \in BrokenIn(r)
        PROVE  FALSE
    <3>1. g \in Tree(r).broken /\ entry \in Gates[g].on
      BY <2>2 DEF BrokenIn
    <3>2. g # "docker_tests"
      BY <2>1, <3>1, SkipOf, WhatDeploysNeeds
    <3>3. g \in Gate /\ g \in Needed
      BY <2>2, GateNames DEF ReadsPins, Needed
    <3>4. Gates[g].needs \subseteq {"resolve", "docs_only"} /\ Gates[g].skip \subseteq {"docs"}
      BY <2>2, <3>2, SkipOf
    <3>5. ~Passes(r, g)
      BY <2>1, <3>1, <3>2, <3>3, <3>4, WhatDeploysNeeds, GateSees DEF Fails
    <3> QED
      BY <2>1, <3>3, <3>5, WhatDeploysNeeds
  <2>3. ASSUME dev # << >> PROVE entry \in Go
    <3>1. PICK r \in Deployed : TRUE
      <4>1. dev \in Seq(DOMAIN runs)
        BY <2>0 DEF TypeOK
      <4>2. 1 \in DOMAIN dev
        BY <2>3, <4>1
      <4> QED
        BY <4>2 DEF Deployed
    <3>2. "supported_language" \in Gate /\ "supported_language" \in Needed
      BY GateNames DEF Needed
    <3>3. entry \notin Go => ~Passes(r, "supported_language")
      <4>1. entry \in Entry
        BY <2>0 DEF TypeOK
      <4> QED
        BY <2>1, <3>2, <4>1, SkipOf, WhatDeploysNeeds, GateSees DEF Fails
    <3> QED
      BY <2>1, <3>2, <3>3, WhatDeploysNeeds
  <2> QED
    BY <2>2, <2>3 DEF WhatRunsIsBuilt
<1> QED
  BY <1>1, PipelineInvariant, PTL

-----------------------------------------------------------------------------
(* What is forgotten *)

\* Every run of a change that is not documentation ends in dev or in a report,
\* unless a push cancelled it, a time limit alone held it, or the report was lost:
\* a run that does not deploy has something to say or something that held it.
THEOREM NoRunIsForgotten == Spec => []NothingIsForgotten
<1>1. ASSUME PipelineInv PROVE NothingIsForgotten
  <2> SUFFICES ASSUME entry \in Deployable, NEW r \in DOMAIN runs, runs[r].step = "done", ~runs[r].cut, ~docs_only(r)
               PROVE  r \in Deployed \cup told \/ Missed(r)
    BY DEF NothingIsForgotten, Missed
  <2> QED
    BY <1>1 DEF PipelineInv, Settled
<1> QED
  BY <1>1, PipelineInvariant, PTL

-----------------------------------------------------------------------------
(* What is clean *)

\* Neither fast path skips a gate the deployment waits for that the change can
\* break, but for contracts under a pin.
LEMMA SkipsAreSafe ==
  \A g \in (Gate \cap Needed) \ {"contracts"} :
    /\ g \in ReadsDocs => "docs" \notin Gates[g].skip
    /\ g \in ReadsPins => "pins" \notin Gates[g].skip
<1>1. \A g \in (Gate \cap Needed) \ {"contracts"} : g \in ReadsDocs => g \in {"standards", "docs"}
  BY NeedsOf DEF ReadsDocs, Needed, Roots
<1>2. \A g \in ReadsPins \ {"contracts", "docker_tests"} : g \in (ReadsPins \ ReadsDocs) \ {"docker_tests"}
  BY DEF ReadsPins, ReadsDocs
<1>3. Gates["docker_tests"].skip = {"docs"}
  BY DEF Gates, docker_tests, Job
<1> QED
  BY <1>1, <1>2, <1>3, SkipOf

\* A deployable run whose jobs ended, of which no job the deployment waits for
\* failed, is of a tree no gate fails on, if what its change left alone was not
\* broken before.
LEMMA CleanAfterClean ==
  ASSUME PipelineInv, Breakable \subseteq Needed \ {"contracts"},
         NEW r \in DOMAIN runs, entry \in Deployable, \A j \in Needed : Passes(r, j),
         \A j \in Roots : Ends(r, j),
         docs_only(r) \/ pin_only(r) =>
           \A g \in main[runs[r].at - 1].broken : entry \notin Gates[g].on
  PROVE  BrokenIn(r) = {}
<1> SUFFICES ASSUME NEW g \in BrokenIn(r) PROVE FALSE
  OBVIOUS
<1>1. TypeOK /\ Built /\ Pushed
  BY DEF PipelineInv
<1>2. runs[r].at \in DOMAIN main /\ DOMAIN main = 1 .. Len(main) /\ Len(main) \in Nat
  BY <1>1 DEF TypeOK
<1>3. main[runs[r].at] \in Commit
  BY <1>1, <1>2 DEF TypeOK
<1>4. g \in Tree(r).broken /\ entry \in Gates[g].on
  BY DEF BrokenIn
<1>5. g \in Breakable
  BY <1>3, <1>4 DEF Tree, Commit
<1>6. g \in Gate /\ g \in Needed /\ g # "contracts"
  BY <1>5, GateAssumption
<1>7. g # "docker_tests"
  BY <1>4, SkipOf
<1>8. docs_only(r) \/ pin_only(r) => g \in Changes(Tree(r).kind)
  <2> SUFFICES ASSUME docs_only(r) \/ pin_only(r), g \notin Changes(Tree(r).kind) PROVE FALSE
    OBVIOUS
  <2>1. runs[r].ranged
    BY DEF docs_only, pin_only, Verdict
  <2>2. runs[r].at > 1
    BY <1>1, <2>1 DEF Pushed
  <2>3. g \in main[runs[r].at - 1].broken
    BY <1>1, <1>2, <1>4, <2>2 DEF Built, Tree
  <2> QED
    BY <1>4, <2>3
<1>9. docs_only(r) => g \in ReadsDocs
  BY <1>8 DEF docs_only, Verdict, Changes
<1>10. pin_only(r) => g \in ReadsPins
  BY <1>8 DEF pin_only, Verdict, Changes
<1>11. \A n \in Gates[g].needs : Ends(r, n)
  BY <1>6, <1>7, NeedsOf
<1>12. ~Passes(r, g)
  BY <1>4, <1>6, <1>7, <1>9, <1>10, <1>11, SkipsAreSafe, GateSees DEF Fails
<1> QED
  BY <1>6, <1>12

\* A green run is of a clean tree, as far as main only grew on green trees.
LEMMA GreenIsClean ==
  ASSUME PipelineInv, Breakable \subseteq Needed \ {"contracts"}, entry \in Deployable,
         NEW r \in DOMAIN runs, IsGreen(r), LandedOnGreen(r)
  PROVE  BrokenIn(r) = {}
<1> DEFINE Dirty == {c \in DOMAIN main :
                       \E q \in DOMAIN runs : runs[q].at = c /\ IsGreen(q) /\ LandedOnGreen(q) /\ BrokenIn(q) # {}}
<1>1. TypeOK /\ Built /\ Pushed
  BY DEF PipelineInv
<1>2. DOMAIN main = 1 .. Len(main) /\ Len(main) \in Nat
  BY <1>1 DEF TypeOK
<1>3. Dirty = {}
  <2> SUFFICES ASSUME Dirty # {} PROVE FALSE
    OBVIOUS
  <2>1. Dirty \subseteq Nat
    BY <1>2
  <2> HIDE DEF Dirty
  <2>2. PICK c \in Dirty : \A d \in Dirty : ~(<<d, c>> \in OpToRel(<, Nat))
    BY <2>1, WFMin, NatLessThanWellFounded
  <2>3. PICK q \in DOMAIN runs : runs[q].at = c /\ IsGreen(q) /\ LandedOnGreen(q) /\ BrokenIn(q) # {}
    BY DEF Dirty
  <2>4. c \in DOMAIN main /\ c \in Nat
    BY <2>1 DEF Dirty
  <2>5. \A j \in Gate \cup Roots : Passes(q, j)
    BY <2>3 DEF IsGreen
  <2>6. \A j \in Roots : Ends(q, j)
    BY <2>5, PassedEnded
  <2>7. ASSUME docs_only(q) \/ pin_only(q)
        PROVE  \A g \in main[runs[q].at - 1].broken : entry \notin Gates[g].on
    <3>1. runs[q].ranged
      BY <2>7 DEF docs_only, pin_only, Verdict
    <3>2. c > 1
      BY <1>1, <2>3, <3>1 DEF Pushed
    <3>3. main[c].on
      BY <2>3, <2>4, <3>2 DEF LandedOnGreen
    <3>4. PICK p \in DOMAIN runs : runs[p].at = c - 1 /\ IsGreen(p)
      BY <1>1, <2>4, <3>2, <3>3 DEF Built
    <3>5. LandedOnGreen(p)
      <4>1. 1 .. c - 1 \subseteq 1 .. c
        BY <2>4, <3>2
      <4> QED
        BY <2>3, <3>4, <4>1 DEF LandedOnGreen
    <3>6. c - 1 \in DOMAIN main /\ c - 1 \in Nat /\ c - 1 < c
      BY <1>2, <2>4, <3>2
    <3>7. c - 1 \notin Dirty
      BY <2>2, <2>4, <3>6 DEF OpToRel
    <3>8. BrokenIn(p) = {}
      BY <3>4, <3>5, <3>6, <3>7 DEF Dirty
    <3> QED
      BY <2>3, <3>4, <3>8 DEF BrokenIn, Tree
  <2>8. BrokenIn(q) = {}
    BY <2>5, <2>6, <2>7, CleanAfterClean, NeededAreJobs
  <2> QED
    BY <2>3, <2>8
<1>4. runs[r].at \in DOMAIN main
  BY <1>1 DEF TypeOK
<1> QED
  BY <1>3, <1>4

\* Nothing reaches dev that a gate fails on, however runs are cancelled and
\* re-run, as long as commits land on a green main and the classifier of pins
\* neither crashes nor hits its limit; of the gates the deployment waits for, contracts aside, which a pin skips.
THEOREM CleanBeforeDev ==
  ASSUME Breakable \subseteq Needed \ {"contracts"}
  PROVE  Spec => []WhatRunsIsClean
<1>1. ASSUME PipelineInv PROVE WhatRunsIsClean
  <2> SUFFICES ASSUME NEW r \in Deployed, LandedOnGreen(r), Ends(r, "pin_only")
               PROVE  BrokenIn(r) = {}
    BY DEF WhatRunsIsClean
  <2>0. TypeOK /\ Built /\ Pushed
    BY <1>1 DEF PipelineInv
  <2>1. r \in DOMAIN runs
    BY <2>0, DeployedGrows
  <2>2. Deploys(r)
    BY <1>1, <2>1 DEF PipelineInv, Settled
  <2>3. \A j \in Roots : Ends(r, j)
    BY <2>2, WhatDeploysNeeds DEF Roots
  <2>4. ASSUME pin_only(r)
        PROVE  \A g \in main[runs[r].at - 1].broken : entry \notin Gates[g].on
    <3> DEFINE c == runs[r].at
    <3>1. c > 1 /\ c \in DOMAIN main /\ DOMAIN main = 1 .. Len(main) /\ Len(main) \in Nat
      BY <2>0, <2>1, <2>4 DEF Pushed, TypeOK, pin_only, Verdict
    <3>2. main[c].on
      BY <3>1 DEF LandedOnGreen
    <3>3. PICK p \in DOMAIN runs : runs[p].at = c - 1 /\ IsGreen(p)
      BY <2>0, <3>1, <3>2 DEF Built
    <3>4. LandedOnGreen(p)
      <4>1. 1 .. c - 1 \subseteq 1 .. c
        BY <3>1
      <4> QED
        BY <3>3, <4>1 DEF LandedOnGreen
    <3>5. BrokenIn(p) = {}
      BY <1>1, <2>2, <3>3, <3>4, GreenIsClean, WhatDeploysNeeds
    <3> QED
      BY <3>3, <3>5 DEF BrokenIn, Tree
  <2> QED
    BY <1>1, <2>1, <2>2, <2>3, <2>4, WhatDeploysNeeds, CleanAfterClean DEF Deploys
<1> QED
  BY <1>1, PipelineInvariant, PTL
=============================================================================
