----------------------- MODULE ContractRegistryProofs -----------------------
(***************************************************************************)
(* The registry implements an immutable, growing store, for every set of   *)
(* services, documents and jobs, with or without serialised jobs, lost     *)
(* answers, unreadable baselines and publications by hand.                 *)
(*                                                                         *)
(* A push is decided by what main held when the job fetched it, and counts *)
(* by what main holds when it arrives.  The invariant therefore speaks of  *)
(* two trees: main, and the base each job at "push" carries, for which the *)
(* allocated version is newer than every snapshot of the service.          *)
(*                                                                         *)
(* While a service has one job at a time, the baseline a job compared with *)
(* is still the latest document when its push arrives (Compared), which    *)
(* makes the publications of a major additive.                             *)
(***************************************************************************)
EXTENDS ContractRegistry, TLAPS

NewerThanAll(v, dir) == \A x \in dir.snaps : Newer(v, x.v)
DirOK(dir) == OneDocPerVersion(dir) /\ NothingNewer(dir)
MainOK == main \in Tree /\ \A s \in Services : DirOK(main.dirs[s])
JobsTyped == job \in [Jobs -> Job \cup {Nil}]
CommitsFresh ==
  \A j \in Jobs : At(j, "push") =>
    /\ job[j].v \in Version
    /\ job[j].base \in Tree
    /\ NewerThanAll(job[j].v, job[j].base.dirs[job[j].s])

IInv == MainOK /\ JobsTyped /\ CommitsFresh /\ RecordedIsVerbatim

-----------------------------------------------------------------------------
(* Versions *)

LEMMA NewerTotal ==
  ASSUME NEW v \in Version, NEW w \in Version, ~Newer(w, v), v # w
  PROVE  Newer(v, w)
BY DEF Version, Newer

LEMMA NewerStrict ==
  ASSUME NEW v \in Version, NEW w \in Version, Newer(v, w)
  PROVE  ~Newer(w, v) /\ v # w
BY DEF Version, Newer

LEMMA NewerAbove ==
  ASSUME NEW u \in Version, NEW v \in Version, NEW w \in Version, Newer(u, v), ~Newer(w, v)
  PROVE  Newer(u, w)
BY DEF Version, Newer

LEMMA Increments ==
  ASSUME NEW v \in Version, NEW bump \in {"major", "minor"}
  PROVE  NextVersion(v, bump) \in Version /\ Newer(NextVersion(v, bump), v)
<1>1. CASE bump = "major"
  <2>1. NextVersion(v, bump) = [ma |-> v.ma + 1, mi |-> 0, pa |-> 0]
    BY <1>1 DEF NextVersion
  <2>2. QED
    BY <2>1 DEF Version, Newer
<1>2. CASE bump = "minor"
  <2>1. NextVersion(v, bump) = [ma |-> v.ma, mi |-> v.mi + 1, pa |-> 0]
    BY <1>2 DEF NextVersion
  <2>2. QED
    BY <2>1 DEF Version, Newer
<1>3. QED
  BY <1>1, <1>2

-----------------------------------------------------------------------------
(* Directories and trees *)

LEMMA CurrentTyped ==
  ASSUME NEW dir \in Dir, dir.version # Malformed
  PROVE  Current(dir) \in Version
<1>1. [ma |-> 1, mi |-> 0, pa |-> 0] \in Version
  BY DEF Version
<1>2. QED
  BY <1>1 DEF Current, Dir

\* What the allocation returns is newer than everything the service published.
LEMMA AllocatedIsNewer ==
  ASSUME NEW dir \in Dir, DirOK(dir), dir.version # Malformed
  PROVE  Allocated(dir) \in Version /\ NewerThanAll(Allocated(dir), dir)
<1>1. Current(dir) \in Version
  BY CurrentTyped
<1>2. \A x \in dir.snaps : x.v \in Version /\ ~Newer(x.v, Current(dir))
  BY DEF DirOK, NothingNewer, Dir
<1>3. CASE Owned(dir, Current(dir))
  <2>1. Allocated(dir) = NextVersion(Current(dir), "minor")
    BY <1>3 DEF Allocated
  <2>2. Allocated(dir) \in Version /\ Newer(Allocated(dir), Current(dir))
    BY <1>1, <2>1, Increments
  <2>3. QED
    BY <1>1, <1>2, <2>2, NewerAbove DEF NewerThanAll
<1>4. CASE ~Owned(dir, Current(dir))
  <2>1. Allocated(dir) = Current(dir)
    BY <1>4 DEF Allocated
  <2>2. \A x \in dir.snaps : x.v # Current(dir)
    BY <1>4 DEF Owned
  <2>3. QED
    BY <1>1, <1>2, <2>1, <2>2, NewerTotal DEF NewerThanAll
<1>5. QED
  BY <1>3, <1>4

LEMMA NextMajorIsNewer ==
  ASSUME NEW dir \in Dir, DirOK(dir), dir.version # Malformed
  PROVE  NextMajor(dir) \in Version /\ NewerThanAll(NextMajor(dir), dir)
<1>1. Current(dir) \in Version
  BY CurrentTyped
<1>2. \A x \in dir.snaps : x.v \in Version /\ ~Newer(x.v, Current(dir))
  BY DEF DirOK, NothingNewer, Dir
<1>3. NextMajor(dir) \in Version /\ Newer(NextMajor(dir), Current(dir))
  BY <1>1, Increments DEF NextMajor
<1>4. QED
  BY <1>1, <1>2, <1>3, NewerAbove DEF NewerThanAll

LEMMA TreeOfTyped ==
  ASSUME NEW dirs \in [Services -> Dir]
  PROVE  TreeOf(dirs) \in Tree /\ TreeOf(dirs).dirs = dirs
<1>1. Index(dirs) \in [Services -> [v : Version \cup {Nil, Malformed}, doc : {Nil} \cup Docs]]
  <2>1. ASSUME NEW s \in Services
        PROVE  dirs[s].version \in Version \cup {Nil, Malformed} /\ dirs[s].latest \in {Nil} \cup Docs
    BY DEF Dir
  <2>2. QED
    BY <2>1 DEF Index
<1>2. QED
  BY <1>1 DEF TreeOf, Tree

\* The tree a publication makes: the snapshot is added to one directory and
\* nothing else of any snapshot changes.
LEMMA SnapshotAdded ==
  ASSUME NEW tree \in Tree, \A s \in Services : DirOK(tree.dirs[s]),
         NEW s \in Services, NEW v \in Version, NEW doc \in Docs,
         NewerThanAll(v, tree.dirs[s]),
         NEW new, new = WithSnapshot(tree, s, v, doc)
  PROVE  /\ new \in Tree
         /\ \A t \in Services : DirOK(new.dirs[t])
         /\ \A t \in Services \ {s} : new.dirs[t] = tree.dirs[t]
         /\ new.dirs[s].snaps = tree.dirs[s].snaps \cup {[v |-> v, doc |-> doc]}
<1>1. PICK x : x = [v |-> v, doc |-> doc]
  OBVIOUS
<1>2. PICK dir : dir = [version |-> v, latest |-> doc, snaps |-> tree.dirs[s].snaps \cup {x}]
  OBVIOUS
<1>3. PICK dirs : dirs = [tree.dirs EXCEPT ![s] = dir]
  OBVIOUS
<1>4. new = TreeOf(dirs)
  BY <1>1, <1>2, <1>3, Zenon DEF WithSnapshot
<1>5. tree.dirs \in [Services -> Dir] /\ tree.dirs[s] \in Dir
  BY DEF Tree
<1>6. x \in [v : Version, doc : Docs] /\ x.v = v /\ x.doc = doc
  BY <1>1
<1>7. dir \in Dir /\ dir.version = v /\ dir.snaps = tree.dirs[s].snaps \cup {x}
  BY <1>2, <1>5, <1>6 DEF Dir
<1>8. dirs \in [Services -> Dir] /\ \A t \in Services : dirs[t] = IF t = s THEN dir ELSE tree.dirs[t]
  BY <1>3, <1>5, <1>7
<1>9. TreeOf(dirs) \in Tree /\ TreeOf(dirs).dirs = dirs
  BY <1>8, TreeOfTyped
<1>10. DirOK(dir)
  <2>1. \A y \in tree.dirs[s].snaps : y.v \in Version /\ Newer(v, y.v)
    BY <1>5 DEF NewerThanAll, Dir
  <2>2. \A y \in tree.dirs[s].snaps : ~Newer(y.v, v) /\ y.v # v
    BY <2>1, NewerStrict
  <2>3. OneDocPerVersion(dir)
    BY <1>6, <1>7, <2>2 DEF DirOK, OneDocPerVersion
  <2>4. v # Nil /\ Current(dir) = v
    BY <1>7, NilAssumption DEF Current
  <2>5. ~Newer(v, v)
    BY DEF Newer, Version
  <2>6. NothingNewer(dir)
    BY <1>6, <1>7, <2>2, <2>4, <2>5 DEF NothingNewer
  <2>7. QED
    BY <2>3, <2>6 DEF DirOK
<1>11. QED
  BY <1>1, <1>4, <1>7, <1>8, <1>9, <1>10

-----------------------------------------------------------------------------
(* Steps *)

\* Main gains one snapshot, newer than all of its service, or keeps them all.
Gains(s, x) ==
  /\ \A t \in Services \ {s} : main'.dirs[t].snaps = main.dirs[t].snaps
  /\ main'.dirs[s].snaps = main.dirs[s].snaps \cup {x}
  /\ NewerThanAll(x.v, main.dirs[s])
Keeps == \A t \in Services : main'.dirs[t].snaps = main.dirs[t].snaps

Shot == [v : Version, doc : Docs]
MainStep == Keeps \/ \E s \in Services, x \in Shot : Gains(s, x)

LEMMA SnapshotsStay ==
  ASSUME MainStep, NEW s \in Services
  PROVE  main.dirs[s].snaps \subseteq main'.dirs[s].snaps
BY DEF MainStep, Keeps, Gains

\* A publication of a version newer than all of its service is a step of main.
LEMMA Publication ==
  ASSUME MainOK, NEW s \in Services, NEW v \in Version, NEW doc \in Docs,
         NewerThanAll(v, main.dirs[s]), main' = WithSnapshot(main, s, v, doc)
  PROVE  MainOK' /\ MainStep /\ [v |-> v, doc |-> doc] \in main'.dirs[s].snaps
<1>1. /\ main' \in Tree /\ \A t \in Services : DirOK(main'.dirs[t])
      /\ \A t \in Services \ {s} : main'.dirs[t] = main.dirs[t]
      /\ main'.dirs[s].snaps = main.dirs[s].snaps \cup {[v |-> v, doc |-> doc]}
  BY SnapshotAdded DEF MainOK
<1>2. PICK x : x = [v |-> v, doc |-> doc]
  OBVIOUS
<1>3. x \in Shot /\ x.v = v
  BY <1>2 DEF Shot
<1>4. Gains(s, x)
  BY <1>1, <1>2, <1>3 DEF Gains
<1>5. MainOK'
  BY <1>1 DEF MainOK
<1>6. QED
  BY <1>1, <1>3, <1>4, <1>5 DEF MainStep

\* Every job but the one that moves is untouched, and the one that moves is
\* the record r.
LEMMA JobMoves ==
  ASSUME IInv, MainStep, NEW j \in Jobs, NEW r \in Job, job' = [job EXCEPT ![j] = r],
         r.step # "push" \/ /\ r.v \in Version /\ r.base \in Tree
                            /\ NewerThanAll(r.v, r.base.dirs[r.s]),
         r.out # Nil => [v |-> r.out, doc |-> r.doc] \in main'.dirs[r.s].snaps
  PROVE  JobsTyped' /\ CommitsFresh' /\ RecordedIsVerbatim'
<1>1. JobsTyped' /\ \A k \in Jobs : job'[k] = IF k = j THEN r ELSE job[k]
  BY DEF IInv, JobsTyped
<1>2. CommitsFresh'
  BY <1>1 DEF IInv, CommitsFresh, At
<1>3. ASSUME NEW k \in Jobs, job'[k] # Nil, job'[k].out # Nil
      PROVE  [v |-> job'[k].out, doc |-> job'[k].doc] \in main'.dirs[job'[k].s].snaps
  <2>1. CASE k = j
    BY <1>1, <1>3, <2>1
  <2>2. CASE k # j
    <3>1. job'[k] = job[k] /\ job[k] # Nil /\ job[k].out # Nil
      BY <1>1, <1>3, <2>2
    <3>2. job[k].s \in Services
      BY <3>1 DEF IInv, JobsTyped, Job
    <3>3. [v |-> job[k].out, doc |-> job[k].doc] \in main.dirs[job[k].s].snaps
      BY <3>1, Zenon DEF IInv, RecordedIsVerbatim
    <3>4. QED
      BY <3>1, <3>2, <3>3, SnapshotsStay
  <2>3. QED
    BY <2>1, <2>2
<1>4. QED
  BY <1>1, <1>2, <1>3 DEF RecordedIsVerbatim

\* A job that moves while main stands still, and does not get a commit.
LEMMA QuietMove ==
  ASSUME IInv, UNCHANGED main, NEW j \in Jobs, NEW r \in Job, job' = [job EXCEPT ![j] = r],
         r.step # "push",
         r.out # Nil => [v |-> r.out, doc |-> r.doc] \in main.dirs[r.s].snaps
  PROVE  IInv'
<1>1. MainStep
  BY DEF MainStep, Keeps
<1>2. MainOK'
  BY DEF IInv, MainOK
<1>3. JobsTyped' /\ CommitsFresh' /\ RecordedIsVerbatim'
  BY <1>1, JobMoves
<1>4. QED
  BY <1>2, <1>3 DEF IInv

\* What the invariant says of a job that is at a step.
LEMMA JobAt ==
  ASSUME IInv, NEW j \in Jobs, job[j] # Nil
  PROVE  /\ job[j] \in Job /\ job[j].s \in Services /\ job[j].doc \in Docs
         /\ Mine(j) \in Dir /\ DirOK(Mine(j))
         /\ job[j].out # Nil => [v |-> job[j].out, doc |-> job[j].doc] \in Mine(j).snaps
<1>1. job[j] \in Job /\ job[j].s \in Services /\ job[j].doc \in Docs
  BY DEF IInv, JobsTyped, Job
<1>2. Mine(j) \in Dir /\ DirOK(Mine(j))
  BY <1>1 DEF IInv, MainOK, Tree, Mine
<1>3. job[j].out # Nil => [v |-> job[j].out, doc |-> job[j].doc] \in Mine(j).snaps
  BY Zenon DEF IInv, RecordedIsVerbatim, Mine
<1>4. QED
  BY <1>1, <1>2, <1>3

\* The push of a job whose base is still main, acknowledged or not.
LEMMA PushLands ==
  ASSUME IInv, NEW j \in Jobs, At(j, "push"), main = job[j].base,
         main' = WithSnapshot(job[j].base, job[j].s, job[j].v, job[j].doc)
  PROVE  /\ MainOK' /\ MainStep
         /\ job[j].v \in Version
         /\ [v |-> job[j].v, doc |-> job[j].doc] \in main'.dirs[job[j].s].snaps
<1>1. job[j].s \in Services /\ job[j].doc \in Docs
  BY JobAt DEF At
<1>2. job[j].v \in Version /\ NewerThanAll(job[j].v, main.dirs[job[j].s])
  BY DEF IInv, CommitsFresh
<1>3. main' = WithSnapshot(main, job[j].s, job[j].v, job[j].doc) /\ MainOK
  BY DEF IInv
<1>4. QED
  BY <1>1, <1>2, <1>3, Publication

\* Every step keeps the invariant and adds at most one snapshot.
LEMMA StepOK ==
  ASSUME IInv, [Next]_vars
  PROVE  IInv' /\ MainStep
<1> USE NilAssumption
<1>1. ASSUME NEW j \in Jobs, NEW s \in Services, NEW doc \in Docs, StartJob(j, s, doc)
      PROVE  IInv' /\ MainStep
  <2>1. PICK r : r = [s |-> s, doc |-> doc, step |-> "baseline", baseline |-> Nil,
                      base |-> Nil, v |-> Nil, out |-> Nil]
    OBVIOUS
  <2>2. r \in Job /\ r.step # "push" /\ r.out = Nil
    BY <2>1 DEF Job, Steps
  <2>3. job' = [job EXCEPT ![j] = r] /\ UNCHANGED main
    BY <1>1, <2>1 DEF StartJob, Set
  <2>4. QED
    BY <2>2, <2>3, QuietMove DEF MainStep, Keeps
<1>2. ASSUME NEW j \in Jobs, FetchBaseline(j)
      PROVE  IInv' /\ MainStep
  <2>1. PICK seen \in {Mine(j).latest, Nil} : Set(j, [job[j] EXCEPT !.baseline = seen, !.step = "check"])
    BY <1>2 DEF FetchBaseline
  <2>2. PICK r : r = [job[j] EXCEPT !.baseline = seen, !.step = "check"]
    OBVIOUS
  <2>3. job[j] # Nil /\ UNCHANGED main
    BY <1>2 DEF FetchBaseline, At
  <2>4. job[j] \in Job /\ seen \in {Nil} \cup Docs
    BY <2>1, <2>3, JobAt DEF Dir
  <2>5. r \in Job /\ r.step = "check" /\ r.out = job[j].out /\ r.doc = job[j].doc /\ r.s = job[j].s
    BY <2>2, <2>4 DEF Job, Steps
  <2>6. job' = [job EXCEPT ![j] = r]
    BY <2>1, <2>2 DEF Set
  <2>7. r.out # Nil => [v |-> r.out, doc |-> r.doc] \in main.dirs[r.s].snaps
    BY <2>3, <2>5, JobAt DEF Mine
  <2>8. QED
    BY <2>3, <2>5, <2>6, <2>7, QuietMove DEF MainStep, Keeps
<1>3. ASSUME NEW j \in Jobs, CheckBreaking(j)
      PROVE  IInv' /\ MainStep
  <2>1. PICK step \in {"refused", "fetch"} : Set(j, [job[j] EXCEPT !.step = step])
    BY <1>3 DEF CheckBreaking
  <2>2. PICK r : r = [job[j] EXCEPT !.step = step]
    OBVIOUS
  <2>3. job[j] # Nil /\ UNCHANGED main
    BY <1>3 DEF CheckBreaking, At
  <2>4. job[j] \in Job
    BY <2>3, JobAt
  <2>5. r \in Job /\ r.step # "push" /\ r.out = job[j].out /\ r.doc = job[j].doc /\ r.s = job[j].s
    BY <2>2, <2>4 DEF Job, Steps
  <2>6. job' = [job EXCEPT ![j] = r]
    BY <2>1, <2>2 DEF Set
  <2>7. r.out # Nil => [v |-> r.out, doc |-> r.doc] \in main.dirs[r.s].snaps
    BY <2>3, <2>5, JobAt DEF Mine
  <2>8. QED
    BY <2>3, <2>5, <2>6, <2>7, QuietMove DEF MainStep, Keeps
<1>4. ASSUME NEW j \in Jobs, AlreadyPublished(j)
      PROVE  IInv' /\ MainStep
  <2>1. PICK out : /\ out = IF [v |-> Mine(j).version, doc |-> job[j].doc] \in Mine(j).snaps
                            THEN Mine(j).version ELSE Nil
                   /\ Set(j, [job[j] EXCEPT !.step = "unchanged", !.out = out])
    BY <1>4, Zenon DEF AlreadyPublished
  <2>2. PICK r : r = [job[j] EXCEPT !.step = "unchanged", !.out = out]
    OBVIOUS
  <2>3. job[j] # Nil /\ UNCHANGED main
    BY <1>4 DEF AlreadyPublished, At
  <2>4. job[j] \in Job /\ Mine(j) \in Dir
    BY <2>3, JobAt
  <2>5. out # Nil => [v |-> out, doc |-> job[j].doc] \in Mine(j).snaps
    BY <2>1
  <2>6. out \in Version \cup {Nil}
    <3>1. CASE out = Nil
      BY <3>1
    <3>2. CASE out # Nil
      BY <2>4, <2>5, <3>2 DEF Dir
    <3>3. QED
      BY <3>1, <3>2
  <2>7. r \in Job /\ r.step # "push" /\ r.out = out /\ r.doc = job[j].doc /\ r.s = job[j].s
    BY <2>2, <2>4, <2>6 DEF Job, Steps
  <2>8. job' = [job EXCEPT ![j] = r]
    BY <2>1, <2>2 DEF Set
  <2>9. r.out # Nil => [v |-> r.out, doc |-> r.doc] \in main.dirs[r.s].snaps
    BY <2>5, <2>7 DEF Mine
  <2>10. QED
    BY <2>3, <2>7, <2>8, <2>9, QuietMove DEF MainStep, Keeps
<1>5. ASSUME NEW j \in Jobs, PrepareCommit(j)
      PROVE  IInv' /\ MainStep
  <2>1. PICK r : r = [job[j] EXCEPT !.base = main, !.v = Allocated(Mine(j)), !.step = "push"]
    OBVIOUS
  <2>2. job[j] # Nil /\ UNCHANGED main /\ Mine(j).version # Malformed /\ main \in Tree
    BY <1>5 DEF PrepareCommit, At, IInv, MainOK
  <2>3. job[j] \in Job /\ Mine(j) \in Dir /\ DirOK(Mine(j))
    BY <2>2, JobAt
  <2>4. Allocated(Mine(j)) \in Version /\ NewerThanAll(Allocated(Mine(j)), Mine(j))
    BY <2>2, <2>3, AllocatedIsNewer
  <2>5. /\ r \in Job /\ r.out = job[j].out /\ r.doc = job[j].doc /\ r.s = job[j].s
        /\ r.v = Allocated(Mine(j)) /\ r.base = main
    BY <2>1, <2>2, <2>3, <2>4 DEF Job, Steps
  <2>6. NewerThanAll(r.v, r.base.dirs[r.s])
    BY <2>4, <2>5 DEF Mine
  <2>7. job' = [job EXCEPT ![j] = r]
    BY <1>5, <2>1 DEF PrepareCommit, Set
  <2>8. r.out # Nil => [v |-> r.out, doc |-> r.doc] \in main'.dirs[r.s].snaps
    BY <2>2, <2>5, JobAt DEF Mine
  <2>9. MainStep /\ MainOK'
    BY <2>2 DEF MainStep, Keeps, IInv, MainOK
  <2>10. QED
    BY <2>2, <2>4, <2>5, <2>6, <2>7, <2>8, <2>9, JobMoves DEF IInv
<1>6. ASSUME NEW j \in Jobs, NEW step \in {"fetch", "failed"}, NEW base, NEW v,
             job[j] # Nil, base \in {Nil, job[j].base}, v \in {Nil, job[j].v},
             Set(j, [job[j] EXCEPT !.step = step, !.base = base, !.v = v]), UNCHANGED main
      PROVE  IInv' /\ MainStep
  <2>1. PICK r : r = [job[j] EXCEPT !.step = step, !.base = base, !.v = v]
    OBVIOUS
  <2>2. job[j] \in Job
    BY <1>6, JobAt
  <2>3. r \in Job /\ r.step # "push" /\ r.out = job[j].out /\ r.doc = job[j].doc /\ r.s = job[j].s
    BY <1>6, <2>1, <2>2 DEF Job, Steps
  <2>4. job' = [job EXCEPT ![j] = r]
    BY <1>6, <2>1 DEF Set
  <2>5. r.out # Nil => [v |-> r.out, doc |-> r.doc] \in main.dirs[r.s].snaps
    BY <1>6, <2>3, JobAt DEF Mine
  <2>6. QED
    BY <1>6, <2>3, <2>4, <2>5, QuietMove DEF MainStep, Keeps
<1>7. ASSUME NEW j \in Jobs, RefuseOverwrite(j)
      PROVE  IInv' /\ MainStep
  <2>1. job[j] # Nil /\ UNCHANGED main
    BY <1>7 DEF RefuseOverwrite, At
  <2>2. PICK r : r = [job[j] EXCEPT !.step = "failed"]
    OBVIOUS
  <2>3. job[j] \in Job
    BY <2>1, JobAt
  <2>4. r \in Job /\ r.step # "push" /\ r.out = job[j].out /\ r.doc = job[j].doc /\ r.s = job[j].s
    BY <2>2, <2>3 DEF Job, Steps
  <2>5. job' = [job EXCEPT ![j] = r]
    BY <1>7, <2>2 DEF RefuseOverwrite, Set
  <2>6. r.out # Nil => [v |-> r.out, doc |-> r.doc] \in main.dirs[r.s].snaps
    BY <2>1, <2>4, JobAt DEF Mine
  <2>7. QED
    BY <2>1, <2>4, <2>5, <2>6, QuietMove DEF MainStep, Keeps
<1>8. ASSUME NEW j \in Jobs, Push(j)
      PROVE  IInv' /\ MainStep
  <2>1. PICK r : r = [job[j] EXCEPT !.step = "published", !.out = job[j].v, !.base = Nil]
    OBVIOUS
  <2>2. job[j] \in Job
    BY <1>8, JobAt DEF Push, At
  <2>3. /\ MainOK' /\ MainStep /\ job[j].v \in Version
        /\ [v |-> job[j].v, doc |-> job[j].doc] \in main'.dirs[job[j].s].snaps
    BY <1>8, PushLands DEF Push
  <2>4. r \in Job /\ r.step # "push" /\ r.out = job[j].v /\ r.doc = job[j].doc /\ r.s = job[j].s
    BY <2>1, <2>2, <2>3 DEF Job, Steps
  <2>5. job' = [job EXCEPT ![j] = r]
    BY <1>8, <2>1 DEF Push, Set
  <2>6. [v |-> r.out, doc |-> r.doc] \in main'.dirs[r.s].snaps
    BY <2>3, <2>4
  <2>7. QED
    BY <2>3, <2>4, <2>5, <2>6, JobMoves DEF IInv
<1>9. ASSUME NEW j \in Jobs, PushUnacknowledged(j)
      PROVE  IInv' /\ MainStep
  <2>1. PICK r : r = [job[j] EXCEPT !.step = "fetch", !.base = Nil, !.v = Nil]
    OBVIOUS
  <2>2. job[j] # Nil /\ job[j] \in Job
    BY <1>9, JobAt DEF PushUnacknowledged, At
  <2>3. MainOK' /\ MainStep
    BY <1>9, PushLands DEF PushUnacknowledged
  <2>4. r \in Job /\ r.step # "push" /\ r.out = job[j].out /\ r.doc = job[j].doc /\ r.s = job[j].s
    BY <2>1, <2>2 DEF Job, Steps
  <2>5. job' = [job EXCEPT ![j] = r]
    BY <1>9, <2>1 DEF PushUnacknowledged, Set
  <2>6. r.out # Nil => [v |-> r.out, doc |-> r.doc] \in main'.dirs[r.s].snaps
    <3>1. job[j].s \in Services
      BY <2>2, JobAt
    <3>2. QED
      BY <2>2, <2>3, <2>4, <3>1, JobAt, SnapshotsStay DEF Mine
  <2>7. QED
    BY <2>3, <2>4, <2>5, <2>6, JobMoves DEF IInv
<1>10. ASSUME NEW j \in Jobs, PushRaceLost(j)
       PROVE  IInv' /\ MainStep
  <2>1. /\ job[j] # Nil /\ UNCHANGED main
        /\ Set(j, [job[j] EXCEPT !.step = "fetch", !.base = Nil, !.v = Nil])
    BY <1>10 DEF PushRaceLost, At
  <2>2. QED
    BY <2>1, <1>6
<1>11. ASSUME NEW j \in Jobs, JobFails(j)
       PROVE  IInv' /\ MainStep
  <2>1. /\ job[j] # Nil /\ UNCHANGED main
        /\ Set(j, [job[j] EXCEPT !.step = "failed", !.base = Nil, !.v = Nil])
    BY <1>11 DEF JobFails, Running
  <2>2. QED
    BY <2>1, <1>6
<1>12. ASSUME UNCHANGED job, MainOK', MainStep
       PROVE  IInv'
  <2>1. JobsTyped' /\ CommitsFresh'
    BY <1>12 DEF IInv, JobsTyped, CommitsFresh, At
  <2>2. ASSUME NEW k \in Jobs, job[k] # Nil, job[k].out # Nil
        PROVE  [v |-> job[k].out, doc |-> job[k].doc] \in main'.dirs[job[k].s].snaps
    <3>1. job[k].s \in Services /\ [v |-> job[k].out, doc |-> job[k].doc] \in main.dirs[job[k].s].snaps
      BY <2>2, JobAt DEF Mine
    <3>2. QED
      BY <1>12, <3>1, SnapshotsStay
  <2>3. QED
    BY <1>12, <2>1, <2>2 DEF IInv, RecordedIsVerbatim
<1>13. ASSUME NEW s \in Services, NEW doc \in Docs, PublishByHand(s, doc)
       PROVE  IInv' /\ MainStep
  <2>1. main.dirs[s] \in Dir /\ DirOK(main.dirs[s]) /\ main.dirs[s].version # Malformed
    BY <1>13 DEF IInv, MainOK, Tree, PublishByHand
  <2>2. NextMajor(main.dirs[s]) \in Version /\ NewerThanAll(NextMajor(main.dirs[s]), main.dirs[s])
    BY <2>1, NextMajorIsNewer
  <2>3. MainOK' /\ MainStep
    BY <1>13, <2>2, Publication DEF PublishByHand, IInv
  <2>4. QED
    BY <1>12, <1>13, <2>3 DEF PublishByHand
<1>14. ASSUME NEW s \in Services, NEW doc \in Docs, MoveLatestByHand(s, doc)
       PROVE  IInv' /\ MainStep
  <2>1. main.dirs \in [Services -> Dir] /\ main.dirs[s] \in Dir
    BY DEF IInv, MainOK, Tree
  <2>2. PICK dir : dir = [main.dirs[s] EXCEPT !.latest = doc]
    OBVIOUS
  <2>3. dir \in Dir /\ dir.snaps = main.dirs[s].snaps /\ dir.version = main.dirs[s].version
    BY <2>1, <2>2 DEF Dir
  <2>4. PICK dirs : dirs = [main.dirs EXCEPT ![s] = dir]
    OBVIOUS
  <2>5. dirs \in [Services -> Dir] /\ \A t \in Services : dirs[t] = IF t = s THEN dir ELSE main.dirs[t]
    BY <2>1, <2>3, <2>4
  <2>6. main' = TreeOf(dirs)
    BY <1>14, <2>2, <2>4 DEF MoveLatestByHand
  <2>7. main' \in Tree /\ main'.dirs = dirs
    BY <2>5, <2>6, TreeOfTyped
  <2>8. DirOK(dir)
    BY <2>3 DEF IInv, MainOK, DirOK, OneDocPerVersion, NothingNewer, Current
  <2>9. MainOK' /\ MainStep
    BY <2>3, <2>5, <2>7, <2>8 DEF IInv, MainOK, MainStep, Keeps
  <2>10. QED
    BY <1>12, <1>14, <2>9 DEF MoveLatestByHand
<1>15. CASE UNCHANGED vars
  <2>1. UNCHANGED main /\ UNCHANGED job
    BY <1>15 DEF vars
  <2>2. MainOK' /\ MainStep
    BY <2>1 DEF IInv, MainOK, MainStep, Keeps
  <2>3. QED
    BY <1>12, <2>1, <2>2
<1>16. QED
  BY <1>1, <1>2, <1>3, <1>4, <1>5, <1>7, <1>8, <1>9, <1>10, <1>11, <1>13, <1>14, <1>15
  DEF Next, JobStep

LEMMA InitOK == Init => IInv
<1> SUFFICES ASSUME Init PROVE IInv
  OBVIOUS
<1>1. PICK dirs \in [Services -> InitialDirs] : main = TreeOf(dirs)
  BY DEF Init
<1>2. dirs \in [Services -> Dir] /\ \A s \in Services : DirOK(dirs[s])
  BY DirsAssumption DEF DirOK
<1>3. MainOK
  BY <1>1, <1>2, TreeOfTyped DEF MainOK
<1>4. \A j \in Jobs : job[j] = Nil
  BY DEF Init
<1>5. JobsTyped
  BY DEF Init, JobsTyped
<1>6. CommitsFresh /\ RecordedIsVerbatim
  BY <1>4 DEF CommitsFresh, At, RecordedIsVerbatim
<1>7. QED
  BY <1>3, <1>5, <1>6 DEF IInv

\* The invariant is inductive.
THEOREM Invariance == Spec => []IInv
<1>1. Init => IInv
  BY InitOK
<1>2. IInv /\ [Next]_vars => IInv'
  BY StepOK
<1>3. QED
  BY <1>1, <1>2, PTL DEF Spec

\* The contract version a run records for its deploy names exactly its spec,
\* whatever is published around it, before and after.
THEOREM RecordsAreVerbatim == Spec => []RecordedIsVerbatim
<1>1. IInv => RecordedIsVerbatim
  BY DEF IInv
<1>2. QED
  BY <1>1, Invariance, PTL

\* The registry implements the immutable store: nothing published changes or
\* disappears, and versions grow.
THEOREM Refinement == Spec => ImplementsStore
<1>1. ASSUME MainOK PROVE Store!Init
  <2>1. \A x \in Published : \E s \in Services : \E y \in main.dirs[s].snaps :
          x = [s |-> s, v |-> y.v, doc |-> y.doc] /\ y.v \in Version /\ y.doc \in Docs /\ y \in Shot
    BY <1>1 DEF Published, MainOK, Tree, Dir, Shot
  <2>2. Published \subseteq Store!Snapshot
    BY <2>1 DEF Store!Snapshot, Store!Version, Version
  <2>3. ASSUME NEW x \in Published, NEW y \in Published, x.s = y.s, x.v = y.v
        PROVE  x = y
    <3>a. PICK s \in Services : \E c \in main.dirs[s].snaps : x = [s |-> s, v |-> c.v, doc |-> c.doc]
      BY <2>1
    <3>1. PICK a \in main.dirs[s].snaps : x = [s |-> s, v |-> a.v, doc |-> a.doc]
      BY <3>a
    <3>b. PICK t \in Services : \E c \in main.dirs[t].snaps : y = [s |-> t, v |-> c.v, doc |-> c.doc]
      BY <2>1
    <3>2. PICK b \in main.dirs[t].snaps : y = [s |-> t, v |-> b.v, doc |-> b.doc]
      BY <3>b
    <3>3. s = t /\ a.v = b.v
      BY <2>3, <3>1, <3>2
    <3>4. a = b
      BY <1>1, <3>3 DEF MainOK, DirOK, OneDocPerVersion
    <3>5. QED
      BY <3>1, <3>2, <3>3, <3>4
  <2>4. QED
    BY <2>2, <2>3 DEF Store!Init
<1>2. ASSUME MainOK, MainOK', MainStep PROVE [Store!Next]_Published
  <2>1. CASE Keeps
    <3>1. Published' \subseteq Published
      BY <2>1 DEF Keeps, Published
    <3>2. Published \subseteq Published'
      BY <2>1 DEF Keeps, Published
    <3>3. QED
      BY <3>1, <3>2
  <2>2. ASSUME NEW s \in Services, NEW x \in Shot, Gains(s, x)
        PROVE  Store!Next
    <3>1. PICK y : y = [s |-> s, v |-> x.v, doc |-> x.doc]
      OBVIOUS
    <3>2. y \in Store!Snapshot /\ y.s = s /\ y.v = x.v
      BY <3>1 DEF Store!Snapshot, Store!Version, Version, Shot
    <3>3. Published' = Published \cup {y}
      BY <2>2, <3>1 DEF Published, Gains
    <3>4. ASSUME NEW z \in Published, z.s = s
          PROVE  Newer(x.v, z.v)
      <4>a. PICK t \in Services : \E c \in main.dirs[t].snaps : z = [s |-> t, v |-> c.v, doc |-> c.doc]
        BY DEF Published
      <4>1. PICK a \in main.dirs[t].snaps : z = [s |-> t, v |-> a.v, doc |-> a.doc]
        BY <4>a
      <4>2. t = s /\ z.v = a.v
        BY <3>4, <4>1
      <4>3. QED
        BY <2>2, <4>1, <4>2 DEF Gains, NewerThanAll
    <3>5. Store!Publish(y)
      BY <3>2, <3>3, <3>4 DEF Store!Publish, Store!Newer, Newer
    <3>6. QED
      BY <3>3, <3>5 DEF Store!Next
  <2>3. QED
    BY <1>2, <2>1, <2>2 DEF MainStep
<1>3. Init => Store!Init
  BY <1>1, InitOK DEF IInv
<1>4. IInv /\ [Next]_vars => [Store!Next]_Published
  <2>1. SUFFICES ASSUME IInv, [Next]_vars PROVE [Store!Next]_Published
    OBVIOUS
  <2>2. IInv' /\ MainStep
    BY <2>1, StepOK
  <2>3. QED
    BY <1>2, <2>1, <2>2 DEF IInv
<1>5. QED
  BY <1>3, <1>4, Invariance, PTL DEF Spec, ImplementsStore, Store!Spec

-----------------------------------------------------------------------------
(* Publications of a major are additive *)

Additive(dir) == \A x, y \in dir.snaps : x.v.ma = y.v.ma /\ Newer(y.v, x.v) => ~Breaks(x.doc, y.doc)

\* latest.json offers whatever was published of the major on file.
Covered(dir) == \A x \in dir.snaps : x.v.ma = Current(dir).ma => dir.latest # Nil /\ ~Breaks(x.doc, dir.latest)

\* The baseline a job compared with is still what main holds when it pushes:
\* nobody else publishes its service, and if a push of its own went through
\* unanswered, main holds its document.
Compared ==
  /\ \A s \in Services : Additive(main.dirs[s]) /\ Covered(main.dirs[s])
  /\ \A j, k \in Jobs : Running(j) /\ Running(k) /\ j # k => job[j].s # job[k].s
  /\ \A j \in Jobs :
       /\ At(j, "check") => job[j].baseline = Mine(j).latest
       /\ At(j, "fetch") \/ At(j, "push") => Mine(j).latest = Nil \/ ~Breaks(Mine(j).latest, job[j].doc)
       /\ At(j, "push") => /\ job[j].base.dirs[job[j].s].version # Malformed
                           /\ job[j].v.ma = Current(job[j].base.dirs[job[j].s]).ma

\* One job moves, alone in its directory.
LEMMA ComparedKept ==
  ASSUME IInv, Compared, NEW j \in Jobs, NEW r \in Job, job' = [job EXCEPT ![j] = r],
         \A t \in Services : t # r.s => main'.dirs[t] = main.dirs[t],
         Additive(main'.dirs[r.s]), Covered(main'.dirs[r.s]),
         \A k \in Jobs : k # j /\ Running(k) => job[k].s # r.s,
         r.step = "check" => r.baseline = main'.dirs[r.s].latest,
         r.step \in {"fetch", "push"} =>
           main'.dirs[r.s].latest = Nil \/ ~Breaks(main'.dirs[r.s].latest, r.doc),
         r.step = "push" => /\ r.base.dirs[r.s].version # Malformed
                            /\ r.v.ma = Current(r.base.dirs[r.s]).ma
  PROVE  Compared'
<1>1. \A k \in Jobs : job'[k] = IF k = j THEN r ELSE job[k]
  BY DEF IInv, JobsTyped
<1>2. \A s \in Services : Additive(main'.dirs[s]) /\ Covered(main'.dirs[s])
  BY DEF Compared
<1>3. \A k \in Jobs : k # j => (Running(k)' <=> Running(k))
  BY <1>1 DEF Running
<1>4. \A k, l \in Jobs : Running(k)' /\ Running(l)' /\ k # l => job'[k].s # job'[l].s
  BY <1>1, <1>3 DEF Compared
<1>5. ASSUME NEW k \in Jobs, k # j, job[k] # Nil, job[k].step \in {"check", "fetch", "push"}
      PROVE  main'.dirs[job[k].s] = main.dirs[job[k].s]
  <2>1. Running(k) /\ job[k].s \in Services
    BY <1>5 DEF Running, Ended, IInv, JobsTyped, Job
  <2>2. QED
    BY <1>5, <2>1
<1>6. ASSUME NEW k \in Jobs
      PROVE  /\ At(k, "check")' => job'[k].baseline = main'.dirs[job'[k].s].latest
             /\ At(k, "fetch")' \/ At(k, "push")' =>
                  main'.dirs[job'[k].s].latest = Nil \/ ~Breaks(main'.dirs[job'[k].s].latest, job'[k].doc)
             /\ At(k, "push")' => /\ job'[k].base.dirs[job'[k].s].version # Malformed
                                  /\ job'[k].v.ma = Current(job'[k].base.dirs[job'[k].s]).ma
  <2>1. CASE k = j
    BY <1>1, <2>1 DEF At
  <2>2. CASE k # j
    BY <1>1, <1>5, <2>2 DEF Compared, At, Mine
  <2>3. QED
    BY <2>1, <2>2
<1>7. QED
  BY <1>2, <1>4, <1>6 DEF Compared, Mine

\* A job moves while main stands still.
LEMMA QuietKeepsCompared ==
  ASSUME IInv, Compared, main' = main, NEW j \in Jobs, job[j] # Nil, NEW r \in Job, job' = [job EXCEPT ![j] = r],
         Running(j), r.s = job[j].s,
         r.step = "check" => r.baseline = main.dirs[r.s].latest,
         r.step \in {"fetch", "push"} => main.dirs[r.s].latest = Nil \/ ~Breaks(main.dirs[r.s].latest, r.doc),
         r.step = "push" => /\ r.base.dirs[r.s].version # Malformed
                            /\ r.v.ma = Current(r.base.dirs[r.s]).ma
  PROVE  Compared'
<1>1. \A k \in Jobs : k # j /\ Running(k) => job[k].s # r.s
  BY DEF Compared
<1>2. r.s \in Services
  BY DEF Job
<1>3. QED
  BY <1>1, <1>2, ComparedKept DEF Compared

\* The allocation stays in the major on file.
LEMMA AllocatedStays ==
  ASSUME NEW dir \in Dir, dir.version # Malformed
  PROVE  Allocated(dir).ma = Current(dir).ma
<1>1. NextVersion(Current(dir), "minor").ma = Current(dir).ma
  BY DEF NextVersion
<1>2. QED
  BY <1>1 DEF Allocated

\* A push that lands offers what the major offered, and more.
LEMMA LandingIsAdditive ==
  ASSUME IInv, Compared, NEW j \in Jobs, At(j, "push"), main = job[j].base,
         main' = WithSnapshot(job[j].base, job[j].s, job[j].v, job[j].doc)
  PROVE  /\ Running(j) /\ job[j].s \in Services
         /\ \A t \in Services : t # job[j].s => main'.dirs[t] = main.dirs[t]
         /\ main'.dirs[job[j].s].latest = job[j].doc
         /\ Additive(main'.dirs[job[j].s]) /\ Covered(main'.dirs[job[j].s])
<1>. DEFINE s == job[j].s
            doc == job[j].doc
            v == job[j].v
            old == main.dirs[s]
<1>1. s \in Services /\ doc \in Docs /\ job[j] # Nil /\ Running(j)
  BY JobAt DEF At, Running, Ended
<1>2. v \in Version /\ NewerThanAll(v, old) /\ main.dirs \in [Services -> Dir] /\ old \in Dir
  BY <1>1 DEF IInv, CommitsFresh, MainOK, Tree
<1>3. PICK x : x = [v |-> v, doc |-> doc]
  OBVIOUS
<1>4. PICK dir : dir = [version |-> v, latest |-> doc, snaps |-> old.snaps \cup {x}]
  OBVIOUS
<1>5. PICK dirs : dirs = [main.dirs EXCEPT ![s] = dir]
  OBVIOUS
<1>6. main' = TreeOf(dirs)
  BY <1>3, <1>4, <1>5, Zenon DEF WithSnapshot
<1>7. x \in [v : Version, doc : Docs] /\ x.v = v /\ x.doc = doc
  BY <1>1, <1>2, <1>3
<1>8. dir \in Dir /\ dir.version = v /\ dir.latest = doc /\ dir.snaps = old.snaps \cup {x}
  BY <1>1, <1>2, <1>4, <1>7 DEF Dir
<1>9. dirs \in [Services -> Dir] /\ \A t \in Services : dirs[t] = IF t = s THEN dir ELSE main.dirs[t]
  BY <1>1, <1>2, <1>5, <1>8
<1>10. main'.dirs = dirs
  BY <1>6, <1>9, TreeOfTyped
<1>11. Current(dir) = v /\ doc # Nil
  BY <1>1, <1>2, <1>8, NilAssumption DEF Current
<1>12. v.ma = Current(old).ma /\ (old.latest = Nil \/ ~Breaks(old.latest, doc)) /\ Additive(old) /\ Covered(old)
  BY <1>1 DEF Compared, Mine
<1>13. ASSUME NEW y \in old.snaps, y.v.ma = v.ma PROVE ~Breaks(y.doc, doc)
  <2>1. old.latest # Nil /\ ~Breaks(y.doc, old.latest) /\ ~Breaks(old.latest, doc)
    BY <1>12, <1>13 DEF Covered
  <2>2. QED
    BY <2>1 DEF Breaks
<1>14. ~Breaks(doc, doc)
  BY DEF Breaks
<1>15. Covered(dir)
  BY <1>7, <1>8, <1>11, <1>13, <1>14 DEF Covered
<1>16. \A y \in old.snaps : ~Newer(y.v, v)
  <2>1. \A y \in old.snaps : y.v \in Version /\ Newer(v, y.v)
    BY <1>2 DEF NewerThanAll, Dir
  <2>2. QED
    BY <1>2, <2>1, NewerStrict
<1>17. Additive(dir)
  <2>1. SUFFICES ASSUME NEW y \in dir.snaps, NEW z \in dir.snaps, y.v.ma = z.v.ma, Newer(z.v, y.v)
                 PROVE  ~Breaks(y.doc, z.doc)
    BY DEF Additive
  <2>2. CASE y \in old.snaps /\ z \in old.snaps
    BY <1>12, <2>1, <2>2 DEF Additive
  <2>3. CASE y \in old.snaps /\ z = x
    BY <1>7, <1>13, <2>1, <2>3
  <2>4. CASE y = x /\ z \in old.snaps
    BY <1>7, <1>16, <2>1, <2>4
  <2>5. CASE y = x /\ z = x
    BY <1>7, <1>14, <2>5
  <2>6. QED
    BY <1>8, <2>2, <2>3, <2>4, <2>5
<1>18. QED
  BY <1>1, <1>8, <1>9, <1>10, <1>15, <1>17

LEMMA ComparedNext ==
  ASSUME IInv, Compared, Serial = TRUE, ApiBlips = FALSE, NEW j \in Jobs,
         \/ \E s \in Services, doc \in Docs : StartJob(j, s, doc)
         \/ JobStep(j) \/ PushUnacknowledged(j) \/ JobFails(j)
  PROVE  Compared'
<1>0. job[j] # Nil => /\ job[j] \in Job /\ job[j].s \in Services
  BY JobAt
<1>1. ASSUME NEW s \in Services, NEW doc \in Docs, StartJob(j, s, doc)
      PROVE  Compared'
  <2>1. PICK r : r = [s |-> s, doc |-> doc, step |-> "baseline", baseline |-> Nil,
                      base |-> Nil, v |-> Nil, out |-> Nil]
    OBVIOUS
  <2>2. r \in Job /\ r.step = "baseline" /\ r.s = s
    BY <2>1 DEF Job, Steps
  <2>3. job' = [job EXCEPT ![j] = r] /\ main' = main /\ \A k \in Jobs : Running(k) => job[k].s # s
    BY <1>1, <2>1 DEF StartJob, Set
  <2>4. QED
    BY <2>2, <2>3, ComparedKept DEF Compared
<1>2. CASE FetchBaseline(j)
  <2>1. Set(j, [job[j] EXCEPT !.baseline = Mine(j).latest, !.step = "check"])
    BY <1>2 DEF FetchBaseline
  <2>2. PICK r : r = [job[j] EXCEPT !.baseline = Mine(j).latest, !.step = "check"]
    OBVIOUS
  <2>3. job[j] # Nil /\ main' = main /\ Running(j)
    BY <1>2 DEF FetchBaseline, At, Running, Ended
  <2>4. Mine(j).latest \in {Nil} \cup Docs
    BY <2>3, JobAt DEF Dir
  <2>5. r \in Job /\ r.step = "check" /\ r.s = job[j].s /\ r.baseline = main.dirs[r.s].latest
    BY <1>0, <2>2, <2>3, <2>4 DEF Job, Steps, Mine
  <2>6. job' = [job EXCEPT ![j] = r]
    BY <2>1, <2>2 DEF Set
  <2>7. QED
    BY <2>3, <2>5, <2>6, QuietKeepsCompared
<1>3. CASE CheckBreaking(j)
  <2>1. PICK step \in {"refused", "fetch"} :
          /\ step = IF job[j].baseline # Nil /\ Breaks(job[j].baseline, job[j].doc) THEN "refused" ELSE "fetch"
          /\ Set(j, [job[j] EXCEPT !.step = step])
    BY <1>3 DEF CheckBreaking
  <2>2. PICK r : r = [job[j] EXCEPT !.step = step]
    OBVIOUS
  <2>3. job[j] # Nil /\ main' = main /\ Running(j) /\ job[j].baseline = main.dirs[job[j].s].latest
    BY <1>3 DEF CheckBreaking, At, Running, Ended, Compared, Mine
  <2>4. r \in Job /\ r.step = step /\ r.s = job[j].s /\ r.doc = job[j].doc
    BY <1>0, <2>2, <2>3 DEF Job, Steps
  <2>5. job' = [job EXCEPT ![j] = r]
    BY <2>1, <2>2 DEF Set
  <2>6. r.step = "fetch" => main.dirs[r.s].latest = Nil \/ ~Breaks(main.dirs[r.s].latest, r.doc)
    BY <2>1, <2>3, <2>4
  <2>7. QED
    BY <2>3, <2>4, <2>5, <2>6, QuietKeepsCompared
<1>4. CASE AlreadyPublished(j)
  <2>1. PICK out : /\ out = IF [v |-> Mine(j).version, doc |-> job[j].doc] \in Mine(j).snaps
                            THEN Mine(j).version ELSE Nil
                   /\ Set(j, [job[j] EXCEPT !.step = "unchanged", !.out = out])
    BY <1>4, Zenon DEF AlreadyPublished
  <2>2. PICK r : r = [job[j] EXCEPT !.step = "unchanged", !.out = out]
    OBVIOUS
  <2>3. job[j] # Nil /\ main' = main /\ Running(j) /\ Mine(j) \in Dir
    BY <1>4, JobAt DEF AlreadyPublished, At, Running, Ended
  <2>4. out \in Version \cup {Nil}
    BY <2>1, <2>3 DEF Dir
  <2>5. r \in Job /\ r.step = "unchanged" /\ r.s = job[j].s
    BY <1>0, <2>2, <2>3, <2>4 DEF Job, Steps
  <2>6. job' = [job EXCEPT ![j] = r]
    BY <2>1, <2>2 DEF Set
  <2>7. QED
    BY <2>3, <2>5, <2>6, QuietKeepsCompared
<1>5. CASE PrepareCommit(j)
  <2>1. PICK r : r = [job[j] EXCEPT !.base = main, !.v = Allocated(Mine(j)), !.step = "push"]
    OBVIOUS
  <2>2. /\ job[j] # Nil /\ main' = main /\ Running(j) /\ Mine(j).version # Malformed /\ main \in Tree
        /\ Mine(j).latest = Nil \/ ~Breaks(Mine(j).latest, job[j].doc)
    BY <1>5 DEF PrepareCommit, At, Running, Ended, Compared, IInv, MainOK
  <2>3. Mine(j) \in Dir /\ DirOK(Mine(j))
    BY <2>2, JobAt
  <2>4. Allocated(Mine(j)) \in Version /\ Allocated(Mine(j)).ma = Current(Mine(j)).ma
    BY <2>2, <2>3, AllocatedIsNewer, AllocatedStays
  <2>5. /\ r \in Job /\ r.step = "push" /\ r.s = job[j].s /\ r.doc = job[j].doc
        /\ r.v = Allocated(Mine(j)) /\ r.base = main
    BY <1>0, <2>1, <2>2, <2>4 DEF Job, Steps
  <2>6. job' = [job EXCEPT ![j] = r]
    BY <1>5, <2>1 DEF PrepareCommit, Set
  <2>7. QED
    BY <2>2, <2>4, <2>5, <2>6, QuietKeepsCompared DEF Mine
<1>6. ASSUME NEW step \in {"fetch", "failed"}, NEW base, NEW v,
             job[j] # Nil, Running(j), base \in {Nil, job[j].base}, v \in {Nil, job[j].v},
             Set(j, [job[j] EXCEPT !.step = step, !.base = base, !.v = v]), main' = main,
             step = "fetch" => At(j, "push")
      PROVE  Compared'
  <2>1. PICK r : r = [job[j] EXCEPT !.step = step, !.base = base, !.v = v]
    OBVIOUS
  <2>2. r \in Job /\ r.step = step /\ r.s = job[j].s /\ r.doc = job[j].doc
    BY <1>0, <1>6, <2>1 DEF Job, Steps
  <2>3. job' = [job EXCEPT ![j] = r]
    BY <1>6, <2>1 DEF Set
  <2>4. r.step = "fetch" => main.dirs[r.s].latest = Nil \/ ~Breaks(main.dirs[r.s].latest, r.doc)
    BY <1>6, <2>2 DEF Compared, Mine
  <2>5. QED
    BY <1>6, <2>2, <2>3, <2>4, QuietKeepsCompared
<1>7. CASE RefuseOverwrite(j)
  <2>1. PICK r : r = [job[j] EXCEPT !.step = "failed"]
    OBVIOUS
  <2>2. job[j] # Nil /\ main' = main /\ Running(j)
    BY <1>7 DEF RefuseOverwrite, At, Running, Ended
  <2>3. r \in Job /\ r.step = "failed" /\ r.s = job[j].s
    BY <1>0, <2>1, <2>2 DEF Job, Steps
  <2>4. job' = [job EXCEPT ![j] = r]
    BY <1>7, <2>1 DEF RefuseOverwrite, Set
  <2>5. QED
    BY <2>2, <2>3, <2>4, QuietKeepsCompared
<1>8. ASSUME At(j, "push"), main = job[j].base,
             main' = WithSnapshot(job[j].base, job[j].s, job[j].v, job[j].doc),
             NEW r \in Job, r.step \in {"published", "fetch"}, r.s = job[j].s, r.doc = job[j].doc,
             job' = [job EXCEPT ![j] = r]
      PROVE  Compared'
  <2>1. /\ Running(j) /\ job[j].s \in Services
        /\ \A t \in Services : t # job[j].s => main'.dirs[t] = main.dirs[t]
        /\ main'.dirs[job[j].s].latest = job[j].doc
        /\ Additive(main'.dirs[job[j].s]) /\ Covered(main'.dirs[job[j].s])
    BY <1>8, LandingIsAdditive
  <2>2. \A k \in Jobs : k # j /\ Running(k) => job[k].s # r.s
    BY <1>8, <2>1 DEF Compared
  <2>3. ~Breaks(r.doc, r.doc)
    BY DEF Breaks
  <2>4. /\ \A t \in Services : t # r.s => main'.dirs[t] = main.dirs[t]
        /\ Additive(main'.dirs[r.s]) /\ Covered(main'.dirs[r.s])
        /\ main'.dirs[r.s].latest = r.doc
    BY <1>8, <2>1
  <2>5. r.step # "check" /\ r.step # "push"
    BY <1>8
  <2>6. r.step \in {"fetch", "push"} =>
          main'.dirs[r.s].latest = Nil \/ ~Breaks(main'.dirs[r.s].latest, r.doc)
    BY <2>3, <2>4
  <2>7. job' = [job EXCEPT ![j] = r]
    BY <1>8
  <2>8. QED
    BY <2>2, <2>4, <2>5, <2>6, <2>7, ComparedKept
<1>9. CASE Push(j)
  <2>1. PICK r : r = [job[j] EXCEPT !.step = "published", !.out = job[j].v, !.base = Nil]
    OBVIOUS
  <2>2. job[j] # Nil /\ job[j].v \in Version
    BY <1>9 DEF Push, At, IInv, CommitsFresh
  <2>3. r \in Job /\ r.step = "published" /\ r.s = job[j].s /\ r.doc = job[j].doc
    BY <1>0, <2>1, <2>2 DEF Job, Steps
  <2>4. job' = [job EXCEPT ![j] = r]
    BY <1>9, <2>1 DEF Push, Set
  <2>5. QED
    BY <1>8, <1>9, <2>3, <2>4 DEF Push
<1>10. CASE PushUnacknowledged(j)
  <2>1. PICK r : r = [job[j] EXCEPT !.step = "fetch", !.base = Nil, !.v = Nil]
    OBVIOUS
  <2>2. job[j] # Nil
    BY <1>10 DEF PushUnacknowledged, At
  <2>3. r \in Job /\ r.step = "fetch" /\ r.s = job[j].s /\ r.doc = job[j].doc
    BY <1>0, <2>1, <2>2 DEF Job, Steps
  <2>4. job' = [job EXCEPT ![j] = r]
    BY <1>10, <2>1 DEF PushUnacknowledged, Set
  <2>5. QED
    BY <1>8, <1>10, <2>3, <2>4 DEF PushUnacknowledged
<1>11. CASE PushRaceLost(j)
  BY <1>6, <1>11 DEF PushRaceLost, At, Running, Ended
<1>12. CASE JobFails(j)
  BY <1>6, <1>12 DEF JobFails, Running
<1>13. QED
  BY <1>1, <1>2, <1>3, <1>4, <1>5, <1>7, <1>9, <1>10, <1>11, <1>12 DEF JobStep

\* No publication of a major takes an operation away, however pushes race and
\* answers are lost: while a service has one job at a time, the baseline can be
\* read and nobody publishes by hand, over a registry that was additive.
THEOREM PublicationsAreAdditive ==
  ASSUME Serial = TRUE, ApiBlips = FALSE, \A dir \in InitialDirs : Additive(dir) /\ Covered(dir)
  PROVE  Spec => []AdditiveWithinMajor
<1>. DEFINE Inv == hands \in Nat /\ (hands = 0 => Compared)
<1>1. Init => Inv
  <2>1. SUFFICES ASSUME Init PROVE Compared
    BY DEF Init
  <2>2. PICK dirs \in [Services -> InitialDirs] : main = TreeOf(dirs)
    BY <2>1 DEF Init
  <2>3. dirs \in [Services -> Dir]
    BY DirsAssumption
  <2>4. main.dirs = dirs
    BY <2>2, <2>3, TreeOfTyped
  <2>5. \A j \in Jobs : job[j] = Nil
    BY <2>1 DEF Init
  <2>6. QED
    BY <2>4, <2>5 DEF Compared, At, Running
<1>2. IInv /\ Inv /\ [Next]_vars => Inv'
  <2>1. SUFFICES ASSUME IInv, Inv, [Next]_vars PROVE Inv'
    OBVIOUS
  <2>2. ASSUME NEW j \in Jobs,
               \/ \E s \in Services, doc \in Docs : StartJob(j, s, doc)
               \/ JobStep(j) \/ PushUnacknowledged(j) \/ JobFails(j)
        PROVE  Inv'
    <3>1. hands' = hands
      BY <2>2 DEF StartJob, JobStep, FetchBaseline, CheckBreaking, AlreadyPublished, PrepareCommit,
                  RefuseOverwrite, Push, PushRaceLost, PushUnacknowledged, JobFails, bounds
    <3>2. QED
      BY <2>1, <2>2, <3>1, ComparedNext
  <2>3. ASSUME NEW s \in Services, NEW doc \in Docs, PublishByHand(s, doc) \/ MoveLatestByHand(s, doc)
        PROVE  Inv'
    BY <2>1, <2>3 DEF PublishByHand, MoveLatestByHand
  <2>4. CASE UNCHANGED vars
    BY <2>1, <2>4 DEF vars, bounds, Compared, At, Running, Mine
  <2>5. QED
    BY <2>1, <2>2, <2>3, <2>4 DEF Next
<1>3. Inv => AdditiveWithinMajor
  BY DEF Compared, Additive, AdditiveWithinMajor
<1>4. QED
  BY <1>1, <1>2, <1>3, Invariance, PTL DEF Spec
=============================================================================
