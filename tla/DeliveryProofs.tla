--------------------------- MODULE DeliveryProofs ---------------------------
(***************************************************************************)
(* Proofs about Delivery.  Inv1 is inductive without an assumption: the    *)
(* types, the shape of the concurrency groups, and what the step of a run  *)
(* says of its build.  Inv2 orders the pins of a service, and AllKnown     *)
(* follows its newest commit; they rest on the one rule the workflow       *)
(* leaves to people, that no run of an older commit is repeated.  All      *)
(* three speak of every number of services, commits, revisions and runs,   *)
(* and of every place where a run may end.                                 *)
(***************************************************************************)
EXTENDS Delivery, SequenceTheorems, TLAPS

Steps == Active \cup Ended \cup {"queued"}

OneWaits == \A q, r \in DOMAIN runs :
              q # r /\ runs[q].s = runs[r].s /\ At(q, "queued") => ~At(r, "queued")
OneActs == \A q, r \in DOMAIN runs :
             q # r /\ runs[q].s = runs[r].s /\ runs[q].step \in Active => runs[r].step \notin Active
RunsTyped == OneWaits /\ OneActs /\ runs \in Seq(Run)

\* A run that has not started its build has none; one that saw its build
\* succeed has an image under its tag.
RunOK(r) ==
  /\ runs[r].step \in {"queued", "resolve", "upload", "start"} => runs[r].build.step = "none"
  /\ runs[r].build.step = "succeeded" \/ runs[r].step \in {"fetch", "push"} => Tagged(r)
RunsOK == \A r \in DOMAIN runs : RunOK(r)

\* A function on an initial segment of the numbers is a sequence.
LEMMA SequenceOf ==
  ASSUME NEW n \in Nat, NEW S, NEW f \in [1 .. n -> S]
  PROVE  f \in Seq(S) /\ Len(f) = n /\ DOMAIN f = 1 .. n
<1>1. f \in Seq(S)  BY SeqDef
<1>2. DOMAIN f = 1 .. n  OBVIOUS
<1>3. Len(f) = n  BY <1>1, <1>2, LenProperties
<1>4. QED  BY <1>1, <1>2, <1>3

LEMMA RunsAre ==
  ASSUME runs \in Seq(Run)
  PROVE  /\ Len(runs) \in Nat /\ DOMAIN runs = 1 .. Len(runs)
         /\ \A q \in DOMAIN runs : runs[q] \in Run
         /\ runs \in [1 .. Len(runs) -> Run]
BY LenProperties, ElementOfSeq

\* A run that changes its step is still a run, and nothing else of it changes.
LEMMA SetStep ==
  ASSUME NEW x \in Run, NEW st \in Steps
  PROVE  /\ [x EXCEPT !.step = st] \in Run
         /\ [x EXCEPT !.step = st].step = st
         /\ [x EXCEPT !.step = st].s = x.s /\ [x EXCEPT !.step = st].c = x.c
         /\ [x EXCEPT !.step = st].in = x.in /\ [x EXCEPT !.step = st].build = x.build
BY DEF Run, Steps

\* One run moves from a step to another of the same kind, or ends.
LEMMA MoveKeepsRuns ==
  ASSUME RunsTyped, RunsOK, NEW r \in DOMAIN runs, NEW x \in Run,
         runs' = [runs EXCEPT ![r] = x], x.s = runs[r].s, 
         \/ x.step = runs[r].step
         \/ x.step \in Active /\ runs[r].step \in Active
         \/ x.step \in Ended,
         images \subseteq images',
         x.step \in {"queued", "resolve", "upload", "start"} => x.build.step = "none",
         x.build.step = "succeeded" \/ x.step \in {"fetch", "push"} =>
           \E i \in images' : i.s = x.s /\ i.c = x.c /\ i.in = x.in
  PROVE  RunsTyped' /\ RunsOK'
<1>0. r \in 1 .. Len(runs)  BY RunsAre DEF RunsTyped
<1>1. DOMAIN runs' = DOMAIN runs /\ runs'[r] = x /\ \A q \in DOMAIN runs : q # r => runs'[q] = runs[q]
  OBVIOUS
<1>2. runs' \in Seq(Run)
  BY <1>0, ExceptSeq DEF RunsTyped
<1>3. OneWaits'
  BY <1>1 DEF RunsTyped, OneWaits, At, Active, Ended
<1>4. OneActs'
  BY <1>1 DEF RunsTyped, OneActs, Active, Ended
<1>5. RunsOK'
  BY <1>1 DEF RunsOK, RunOK, Tagged
<1>6. QED  BY <1>2, <1>3, <1>4, <1>5 DEF RunsTyped

\* What the end of a run does to every run of its service.
LEMMA FinishIs ==
  ASSUME runs \in Seq(Run), NEW r \in DOMAIN runs, runs[r].step \in Active,
         NEW outcome \in Ended, NEW commits \in Nat, Finish(r, outcome, commits)
  PROVE  /\ runs' \in Seq(Run) /\ DOMAIN runs' = DOMAIN runs
         /\ \A q \in DOMAIN runs :
              /\ runs'[q].s = runs[q].s /\ runs'[q].c = runs[q].c /\ runs'[q].in = runs[q].in
              /\ runs'[q].build = runs[q].build
              /\ q = r => runs'[q].step = outcome
              /\ q # r /\ At(q, "queued") /\ runs[q].s = runs[r].s => runs'[q].step = "resolve"
              /\ q # r /\ ~(At(q, "queued") /\ runs[q].s = runs[r].s) => runs'[q].step = runs[q].step
<1>1. DOMAIN runs' = DOMAIN runs
  BY DEF Finish
<1>2. SUFFICES \A q \in DOMAIN runs :
              /\ runs'[q] \in Run
              /\ runs'[q].s = runs[q].s /\ runs'[q].c = runs[q].c /\ runs'[q].in = runs[q].in
              /\ runs'[q].build = runs[q].build
              /\ q = r => runs'[q].step = outcome
              /\ q # r /\ At(q, "queued") /\ runs[q].s = runs[r].s => runs'[q].step = "resolve"
              /\ q # r /\ ~(At(q, "queued") /\ runs[q].s = runs[r].s) => runs'[q].step = runs[q].step
  <2>1. runs' \in [1 .. Len(runs) -> Run]
    BY <1>1, RunsAre DEF Finish
  <2>2. QED  BY <1>1, <2>1, RunsAre, SequenceOf
<1>3. TAKE q \in DOMAIN runs
<1>4. runs[q] \in Run /\ outcome \in Steps /\ "resolve" \in Steps
  BY RunsAre DEF Steps, Active
<1>5. CASE q = r
  <2>1. runs'[q] = [runs[q] EXCEPT !.step = outcome]  BY <1>5 DEF Finish
  <2>2. QED  BY <1>4, <1>5, <2>1, SetStep
<1>6. CASE q # r /\ At(q, "queued") /\ runs[q].s = runs[r].s
  <2>1. runs'[q] = [runs[q] EXCEPT !.step = "resolve", !.from = commits]  BY <1>6 DEF Finish
  <2>2. /\ runs'[q] \in Run /\ runs'[q].step = "resolve"
            /\ runs'[q].s = runs[q].s /\ runs'[q].c = runs[q].c
            /\ runs'[q].in = runs[q].in /\ runs'[q].build = runs[q].build
    BY <1>4, <2>1 DEF Run, Steps, Active
  <2>3. QED  BY <1>6, <2>2
<1>7. CASE q # r /\ ~(At(q, "queued") /\ runs[q].s = runs[r].s)
  <2>1. runs'[q] = runs[q]  BY <1>7 DEF Finish
  <2>2. QED  BY <1>4, <1>7, <2>1
<1>8. QED  BY <1>5, <1>6, <1>7

\* An active run ends and the run that waits becomes active.
LEMMA FinishKeepsRuns ==
  ASSUME RunsTyped, RunsOK, NEW r \in DOMAIN runs, runs[r].step \in Active,
         NEW outcome \in Ended, NEW commits \in Nat,
         Finish(r, outcome, commits), images' = images
  PROVE  RunsTyped' /\ RunsOK'
<1>1. /\ runs' \in Seq(Run) /\ DOMAIN runs' = DOMAIN runs
      /\ \A q \in DOMAIN runs :
           /\ runs'[q].s = runs[q].s /\ runs'[q].c = runs[q].c /\ runs'[q].in = runs[q].in
           /\ runs'[q].build = runs[q].build
           /\ q = r => runs'[q].step = outcome
           /\ q # r /\ At(q, "queued") /\ runs[q].s = runs[r].s => runs'[q].step = "resolve"
           /\ q # r /\ ~(At(q, "queued") /\ runs[q].s = runs[r].s) => runs'[q].step = runs[q].step
  BY FinishIs DEF RunsTyped
<1>2. OneWaits'
  BY <1>1 DEF RunsTyped, OneWaits, At, Active, Ended
<1>3. OneActs'
  BY <1>1 DEF RunsTyped, OneWaits, OneActs, At, Active, Ended
<1>4. RunsOK'
  BY <1>1 DEF RunsOK, RunOK, Tagged, At, Active, Ended
<1>5. QED  BY <1>1, <1>2, <1>3, <1>4 DEF RunsTyped

\* What the entry of a run does to every run of its service.
LEMMA EnterIs ==
  ASSUME runs \in Seq(Run), NEW s \in Services, NEW c \in Commits, Enter(s, c), infra \in Seq(Pin)
  PROVE  LET n == Len(runs) + 1
         IN  /\ runs' \in Seq(Run) /\ DOMAIN runs' = DOMAIN runs \cup {n} /\ n \notin DOMAIN runs
             /\ runs'[n].s = s /\ runs'[n].c = c /\ runs'[n].build.step = "none"
             /\ runs'[n].step = IF Busy(s) THEN "queued" ELSE "resolve"
             /\ \A q \in DOMAIN runs :
                  /\ runs'[q].s = runs[q].s /\ runs'[q].c = runs[q].c /\ runs'[q].in = runs[q].in
                  /\ runs'[q].build = runs[q].build
                  /\ q \in Superseded(s) => runs'[q].step = "superseded"
                  /\ q \notin Superseded(s) => runs'[q].step = runs[q].step
<1> DEFINE n == Len(runs) + 1
           old == [q \in DOMAIN runs |->
                     IF q \in Superseded(s) THEN [runs[q] EXCEPT !.step = "superseded"] ELSE runs[q]]
<1>1. /\ DOMAIN runs = 1 .. Len(runs) /\ Len(runs) \in Nat
      /\ \A q \in DOMAIN runs : runs[q] \in Run
  BY RunsAre
<1>2. \A q \in DOMAIN runs :
        /\ old[q] \in Run
        /\ old[q].s = runs[q].s /\ old[q].c = runs[q].c /\ old[q].in = runs[q].in
        /\ old[q].build = runs[q].build
        /\ q \in Superseded(s) => old[q].step = "superseded"
        /\ q \notin Superseded(s) => old[q].step = runs[q].step
  <2>1. TAKE q \in DOMAIN runs
  <2>2. CASE q \in Superseded(s)
    <3>1. old[q] = [runs[q] EXCEPT !.step = "superseded"]  BY <2>2
    <3>2. "superseded" \in Steps  BY DEF Steps, Ended
    <3>3. QED  BY <1>1, <2>2, <3>1, <3>2, SetStep
  <2>3. CASE q \notin Superseded(s)
    <3>1. old[q] = runs[q]  BY <2>3
    <3>2. QED  BY <1>1, <2>3, <3>1
  <2>4. QED  BY <2>2, <2>3
<1>3. old \in Seq(Run) /\ Len(old) = Len(runs) /\ DOMAIN old = 1 .. Len(runs)
  <2>1. old \in [1 .. Len(runs) -> Run]  BY <1>1, <1>2
  <2>2. QED  BY <1>1, <2>1, SequenceOf
<1>4. /\ Fresh(s, c) \in Run /\ Fresh(s, c).s = s /\ Fresh(s, c).c = c
      /\ Fresh(s, c).build.step = "none"
      /\ Fresh(s, c).step = IF Busy(s) THEN "queued" ELSE "resolve"
  <2>1. Len(infra) \in Nat  BY LenProperties
  <2>2. 0 \in Contents  BY BoundAssumption DEF Contents
  <2>3. QED  BY <2>1, <2>2 DEF Fresh, Run, Build, Active
<1>5. runs' = Append(old, Fresh(s, c))
  BY DEF Enter
<1> HIDE DEF old
<1>6. /\ runs' \in Seq(Run) /\ DOMAIN runs' = 1 .. n
      /\ runs'[n] = Fresh(s, c) /\ \A q \in DOMAIN runs : runs'[q] = old[q]
  <2>1. /\ runs' \in Seq(Run) /\ Len(runs') = n
        /\ runs'[n] = Fresh(s, c) /\ \A q \in 1 .. Len(runs) : runs'[q] = old[q]
    BY <1>3, <1>4, <1>5, AppendProperties
  <2>2. QED  BY <1>1, <2>1, LenProperties
<1>7. DOMAIN runs' = DOMAIN runs \cup {n} /\ n \notin DOMAIN runs
  BY <1>1, <1>6
<1>8. QED  BY <1>2, <1>4, <1>6, <1>7

\* A run enters its group: those it supersedes end.
LEMMA EnterKeepsRuns ==
  ASSUME RunsTyped, RunsOK, NEW s \in Services, NEW c \in Commits, Enter(s, c),
         infra \in Seq(Pin), images' = images
  PROVE  RunsTyped' /\ RunsOK'
<1> DEFINE n == Len(runs) + 1
<1>1. /\ runs' \in Seq(Run) /\ DOMAIN runs' = DOMAIN runs \cup {n} /\ n \notin DOMAIN runs
      /\ runs'[n].s = s /\ runs'[n].c = c /\ runs'[n].build.step = "none"
      /\ runs'[n].step = IF Busy(s) THEN "queued" ELSE "resolve"
      /\ \A q \in DOMAIN runs :
           /\ runs'[q].s = runs[q].s /\ runs'[q].c = runs[q].c /\ runs'[q].in = runs[q].in
           /\ runs'[q].build = runs[q].build
           /\ q \in Superseded(s) => runs'[q].step = "superseded"
           /\ q \notin Superseded(s) => runs'[q].step = runs[q].step
  BY EnterIs DEF RunsTyped
<1> HIDE DEF n
<1>2. /\ \A q \in DOMAIN runs : runs[q].s = s => runs'[q].step # "queued"
      /\ ~Busy(s) => \A q \in DOMAIN runs : runs[q].s = s => runs'[q].step \notin Active
      /\ \A q \in DOMAIN runs : runs'[q].step \in {runs[q].step, "superseded"}
  BY <1>1 DEF Superseded, Busy, Of, At, Live, Active, Ended
<1>3. OneWaits'
  BY <1>1, <1>2 DEF RunsTyped, OneWaits, At
<1>4. OneActs'
  BY <1>1, <1>2 DEF RunsTyped, OneActs, Active
<1>5. RunsOK'
  BY <1>1, <1>2 DEF RunsOK, RunOK, Tagged
<1>6. QED  BY <1>1, <1>3, <1>4, <1>5 DEF RunsTyped

-----------------------------------------------------------------------------
Typed ==
  /\ head \in [Services -> 0 .. MaxCommit] /\ content \in Contents
  /\ source \in [Services -> [Commits -> Contents]]
  /\ images \subseteq Image /\ infra \in Seq(Pin) /\ lost \in 0 .. LostAnswers

Inv1 == Typed /\ RunsTyped /\ RunsOK /\ PinnedIsPublished

LEMMA Inv1Init == Init => Inv1
<1> SUFFICES ASSUME Init PROVE Inv1  OBVIOUS
<1>1. Typed
  <2>1. 0 \in Contents /\ 0 \in 0 .. MaxCommit /\ 0 \in 0 .. LostAnswers
    BY BoundAssumption DEF Contents
  <2>2. QED  BY <2>1, EmptySeq DEF Init, Typed
<1>2. RunsTyped /\ RunsOK
  BY EmptySeq DEF Init, RunsTyped, OneWaits, OneActs, RunsOK
<1>3. PinnedIsPublished
  BY DEF Init, PinnedIsPublished
<1>4. QED  BY <1>1, <1>2, <1>3 DEF Inv1

\* A pin whose tag the registry has keeps every pin published.
LEMMA PinKeepsPublished ==
  ASSUME Inv1, NEW r \in DOMAIN runs, Tagged(r), infra' = Append(infra, PinOf(r)), images' = images
  PROVE  /\ PinnedIsPublished' /\ infra' \in Seq(Pin) /\ Len(infra') \in Nat
         /\ DOMAIN infra = 1 .. Len(infra) /\ Len(infra) \in Nat
         /\ DOMAIN infra' = 1 .. Len(infra) + 1
         /\ infra'[Len(infra) + 1] = PinOf(r) /\ \A i \in DOMAIN infra : infra'[i] = infra[i]
<1>1. runs[r] \in Run /\ infra \in Seq(Pin)
  BY RunsAre DEF Inv1, RunsTyped, Typed
<1>2. PinOf(r) \in Pin
  BY <1>1 DEF PinOf, Pin, Run
<1>3. /\ infra' \in Seq(Pin) /\ Len(infra') = Len(infra) + 1
      /\ infra'[Len(infra) + 1] = PinOf(r) /\ \A i \in 1 .. Len(infra) : infra'[i] = infra[i]
  BY <1>1, <1>2, AppendProperties
<1>4. /\ DOMAIN infra = 1 .. Len(infra) /\ Len(infra) \in Nat
      /\ DOMAIN infra' = 1 .. Len(infra) + 1 /\ Len(infra') \in Nat
  BY <1>1, <1>3, LenProperties
<1>5. PinnedIsPublished'
  <2> SUFFICES ASSUME NEW i \in DOMAIN infra'
               PROVE  \E im \in images : im.s = infra'[i].s /\ im.c = infra'[i].c /\ im.in = infra'[i].in
    BY DEF PinnedIsPublished
  <2>1. CASE i \in DOMAIN infra
    BY <1>3, <1>4, <2>1 DEF Inv1, PinnedIsPublished
  <2>2. CASE i = Len(infra) + 1
    BY <1>3, <2>2 DEF Tagged, PinOf
  <2>3. QED  BY <1>4, <2>1, <2>2
<1>6. QED  BY <1>3, <1>4, <1>5

LEMMA Inv1Next == Inv1 /\ [Next]_vars => Inv1'
<1> SUFFICES ASSUME Inv1, [Next]_vars PROVE Inv1'  OBVIOUS
<1>1. /\ Typed /\ RunsTyped /\ RunsOK /\ PinnedIsPublished /\ Len(infra) \in Nat
      /\ infra \in Seq(Pin) /\ \A q \in DOMAIN runs : runs[q] \in Run
  BY RunsAre, LenProperties DEF Inv1, RunsTyped, Typed
<1>2. ASSUME UNCHANGED <<images, infra>> PROVE PinnedIsPublished'
  BY <1>1, <1>2 DEF PinnedIsPublished
<1>3. ASSUME UNCHANGED <<head, content, source, images, infra, lost>> PROVE Typed'
  BY <1>1, <1>3 DEF Typed
<1>4. ASSUME NEW s \in Services, Land(s) PROVE Inv1'
  <2>1. head[s] + 1 \in Commits /\ head' \in [Services -> 0 .. MaxCommit]
    BY <1>1, <1>4, BoundAssumption DEF Land, Typed, Commits
  <2>2. RunsTyped' /\ RunsOK'  BY <1>1, <1>4, <2>1, EnterKeepsRuns DEF Land
  <2>3. Typed'  BY <1>1, <1>4, <2>1 DEF Land, Typed
  <2>4. QED  BY <1>2, <1>4, <2>2, <2>3 DEF Land, Inv1
<1>5. ASSUME NEW s \in Services, Dispatch(s) PROVE Inv1'
  <2>1. head[s] \in Commits
    BY <1>1, <1>5, BoundAssumption DEF Dispatch, Typed, Commits
  <2>2. RunsTyped' /\ RunsOK'  BY <1>1, <1>5, <2>1, EnterKeepsRuns DEF Dispatch
  <2>3. QED  BY <1>2, <1>3, <1>5, <2>2 DEF Dispatch, Inv1
<1>6. ASSUME MoveContent PROVE Inv1'
  <2>1. Typed'  BY <1>1, <1>6, BoundAssumption DEF MoveContent, Typed, Contents
  <2>2. RunsTyped' /\ RunsOK'
    BY <1>1, <1>6 DEF MoveContent, RunsTyped, OneWaits, OneActs, At, RunsOK, RunOK, Tagged
  <2>3. QED  BY <1>2, <1>6, <2>1, <2>2 DEF MoveContent, Inv1
<1>7. ASSUME NEW r \in DOMAIN runs, Rerun(r) PROVE Inv1'
  <2>1. runs[r].s \in Services /\ runs[r].c \in Commits  BY <1>1 DEF Run
  <2>2. RunsTyped' /\ RunsOK'  BY <1>1, <1>7, <2>1, EnterKeepsRuns DEF Rerun
  <2>3. QED  BY <1>2, <1>3, <1>7, <2>2 DEF Rerun, Inv1
<1>8. ASSUME NEW r \in DOMAIN runs, ProbeBuild(r) PROVE Inv1'
  <2> DEFINE b == [step |-> IF Tagged(r) THEN "succeeded" ELSE "building",
                   got |-> source[runs[r].s][runs[r].c]]
             x == [runs[r] EXCEPT !.build = b]
  <2>1. b \in Build /\ b.step = IF Tagged(r) THEN "succeeded" ELSE "building"
    <3>1. source[runs[r].s][runs[r].c] \in Contents  BY <1>1 DEF Typed, Run
    <3>2. QED  BY <3>1 DEF Build
  <2>2. runs' = [runs EXCEPT ![r] = x]  BY <1>8 DEF ProbeBuild
  <2> HIDE DEF b
  <2>3. /\ x \in Run /\ x.s = runs[r].s /\ x.c = runs[r].c /\ x.in = runs[r].in
        /\ x.step = runs[r].step /\ x.build = b
    BY <1>1, <2>1 DEF Run
  <2> HIDE DEF x
  <2>4. x.step \notin {"queued", "resolve", "upload", "start"}
    BY <1>1, <1>8, <2>3 DEF ProbeBuild, BuildAt, RunsOK, RunOK
  <2>5. x.build.step = "succeeded" \/ x.step \in {"fetch", "push"} => Tagged(r)
    BY <1>1, <2>1, <2>3 DEF RunsOK, RunOK
  <2>6. images' = images  BY <1>8 DEF ProbeBuild
  <2>7. RunsTyped' /\ RunsOK'
    BY <1>1, <2>2, <2>3, <2>4, <2>5, <2>6, MoveKeepsRuns DEF Tagged
  <2>8. QED  BY <1>2, <1>3, <1>8, <2>7 DEF ProbeBuild, Inv1
<1>9. ASSUME NEW r \in DOMAIN runs, PublishImage(r) PROVE Inv1'
  <2> DEFINE st == IF Tagged(r) THEN "rejected" ELSE "succeeded"
             x == [runs[r] EXCEPT !.build.step = st]
             im == [s |-> runs[r].s, c |-> runs[r].c, in |-> runs[r].in, holds |-> runs[r].build.got]
  <2>1. runs' = [runs EXCEPT ![r] = x]  BY <1>9 DEF PublishImage
  <2>2. /\ x \in Run /\ x.s = runs[r].s /\ x.c = runs[r].c /\ x.in = runs[r].in
        /\ x.step = runs[r].step /\ x.build.step = st
    BY <1>1 DEF Run, Build
  <2>3. im \in Image /\ im.s = runs[r].s /\ im.c = runs[r].c /\ im.in = runs[r].in
    BY <1>1 DEF Run, Image, Build
  <2>4. images' = IF Tagged(r) THEN images ELSE images \cup {im}  BY <1>9 DEF PublishImage
  <2> HIDE DEF x, im
  <2>5. x.step \notin {"queued", "resolve", "upload", "start"}
    BY <1>1, <1>9, <2>2 DEF PublishImage, BuildAt, RunsOK, RunOK
  <2>6. \E i \in images' : i.s = x.s /\ i.c = x.c /\ i.in = x.in
    BY <2>2, <2>3, <2>4 DEF Tagged
  <2>7. images \subseteq images' /\ images' \subseteq Image  BY <1>1, <2>3, <2>4 DEF Typed
  <2>8. RunsTyped' /\ RunsOK'
    BY <1>1, <2>1, <2>2, <2>5, <2>6, <2>7, MoveKeepsRuns
  <2>9. Typed' /\ PinnedIsPublished'
    BY <1>1, <1>9, <2>7 DEF PublishImage, Typed, PinnedIsPublished
  <2>10. QED  BY <2>8, <2>9 DEF Inv1
<1>10. ASSUME NEW r \in DOMAIN runs, BuildFails(r) PROVE Inv1'
  <2> DEFINE x == [runs[r] EXCEPT !.build.step = "failed"]
  <2>1. runs' = [runs EXCEPT ![r] = x]  BY <1>10 DEF BuildFails
  <2>2. /\ x \in Run /\ x.s = runs[r].s /\ x.c = runs[r].c /\ x.in = runs[r].in
        /\ x.step = runs[r].step /\ x.build.step = "failed"
    BY <1>1 DEF Run, Build
  <2> HIDE DEF x
  <2>3. x.step \notin {"queued", "resolve", "upload", "start"}
    BY <1>1, <1>10, <2>2 DEF BuildFails, BuildAt, RunsOK, RunOK
  <2>4. x.step \in {"fetch", "push"} => Tagged(r)  BY <1>1, <2>2 DEF RunsOK, RunOK
  <2>5. images' = images  BY <1>10 DEF BuildFails
  <2>6. RunsTyped' /\ RunsOK'
    BY <1>1, <2>1, <2>2, <2>3, <2>4, <2>5, MoveKeepsRuns DEF Tagged
  <2>7. QED  BY <1>2, <1>3, <1>10, <2>6 DEF BuildFails, Inv1
<1>11. ASSUME NEW r \in DOMAIN runs, ResolveInputs(r) PROVE Inv1'
  <2> DEFINE x == [runs[r] EXCEPT !.step = "upload", !.in = content]
  <2>1. runs' = [runs EXCEPT ![r] = x]  BY <1>11 DEF ResolveInputs
  <2>2. x \in Run /\ x.s = runs[r].s /\ x.step = "upload" /\ x.build = runs[r].build
    BY <1>1 DEF Run, Typed, Active
  <2> HIDE DEF x
  <2>3. x.build.step = "none"
    BY <1>1, <1>11, <2>2 DEF ResolveInputs, At, RunsOK, RunOK
  <2>4. images' = images /\ runs[r].step \in Active /\ x.step \in Active
    BY <1>11, <2>2 DEF ResolveInputs, At, Active
  <2>5. RunsTyped' /\ RunsOK'  BY <1>1, <2>1, <2>2, <2>3, <2>4, MoveKeepsRuns
  <2>6. QED  BY <1>2, <1>3, <1>11, <2>5 DEF ResolveInputs, Inv1
<1>12. ASSUME NEW r \in DOMAIN runs, UploadSource(r) PROVE Inv1'
  <2> DEFINE x == [runs[r] EXCEPT !.step = "start"]
  <2>1. runs' = [runs EXCEPT ![r] = x]  BY <1>12 DEF UploadSource, Goto
  <2>2. x \in Run /\ x.s = runs[r].s /\ x.step = "start" /\ x.build = runs[r].build
    BY <1>1, SetStep DEF Steps, Active
  <2> HIDE DEF x
  <2>3. x.build.step = "none"
    BY <1>1, <1>12, <2>2 DEF UploadSource, At, RunsOK, RunOK
  <2>4. images' = images /\ runs[r].step \in Active /\ x.step \in Active
    BY <1>12, <2>2 DEF UploadSource, At, Active
  <2>5. RunsTyped' /\ RunsOK'  BY <1>1, <2>1, <2>2, <2>3, <2>4, MoveKeepsRuns
  <2>6. Typed'
    <3>1. runs[r].s \in Services /\ runs[r].c \in Commits /\ runs[r].in \in Contents  BY <1>1 DEF Run
    <3>2. source' \in [Services -> [Commits -> Contents]]
      BY <1>1, <1>12, <3>1 DEF UploadSource, Typed
    <3>3. QED  BY <1>1, <1>12, <3>2 DEF UploadSource, Typed
  <2>7. QED  BY <1>2, <1>12, <2>5, <2>6 DEF UploadSource, Inv1
<1>13. ASSUME NEW r \in DOMAIN runs, StartBuild(r) PROVE Inv1'
  <2> DEFINE x == [runs[r] EXCEPT !.step = "poll", !.build.step = "started"]
  <2>1. runs' = [runs EXCEPT ![r] = x]  BY <1>13 DEF StartBuild
  <2>2. x \in Run /\ x.s = runs[r].s /\ x.step = "poll" /\ x.build.step = "started"
    BY <1>1 DEF Run, Build, Active
  <2> HIDE DEF x
  <2>3. images' = images /\ runs[r].step \in Active /\ x.step \in Active
    BY <1>13, <2>2 DEF StartBuild, At, Active
  <2>4. RunsTyped' /\ RunsOK'  BY <1>1, <2>1, <2>2, <2>3, MoveKeepsRuns
  <2>5. QED  BY <1>2, <1>3, <1>13, <2>4 DEF StartBuild, Inv1
\* Steps that only change the step of an active run.
<1>14. ASSUME NEW r \in DOMAIN runs, NEW st \in {"fetch"} \cup Ended, Goto(r, st),
              runs[r].step \in Active \/ st \in Ended,
              st = "fetch" => Tagged(r), runs[r].build.step = "succeeded" => Tagged(r),
              images' = images
       PROVE  RunsTyped' /\ RunsOK'
  <2> DEFINE x == [runs[r] EXCEPT !.step = st]
  <2>1. runs' = [runs EXCEPT ![r] = x]  BY <1>14 DEF Goto
  <2>2. /\ x \in Run /\ x.s = runs[r].s /\ x.c = runs[r].c /\ x.in = runs[r].in
        /\ x.step = st /\ x.build = runs[r].build
    <3>1. st \in Steps  BY DEF Steps, Active
    <3>2. QED  BY <1>1, <3>1, SetStep
  <2> HIDE DEF x
  <2>3. /\ x.step \notin {"queued", "resolve", "upload", "start"}
        /\ x.build.step = "succeeded" \/ x.step \in {"fetch", "push"} => Tagged(r)
        /\ (x.step \in Active /\ runs[r].step \in Active) \/ x.step \in Ended
    BY <1>14, <2>2 DEF Ended, Active
  <2>4. QED  BY <1>1, <1>14, <2>1, <2>2, <2>3, MoveKeepsRuns DEF Tagged
<1>15. ASSUME NEW r \in DOMAIN runs, PollBuild(r) PROVE Inv1'
  <2>1. /\ runs[r].step \in Active /\ images' = images
        /\ runs[r].build.step = "succeeded" => Tagged(r)
    BY <1>1, <1>15 DEF PollBuild, At, Active, RunsOK, RunOK
  <2>2. CASE BuildAt(r, "succeeded") /\ Goto(r, "fetch")
    <3>1. RunsTyped' /\ RunsOK'  BY <1>14, <2>1, <2>2 DEF BuildAt
    <3>2. QED  BY <1>2, <1>3, <1>15, <3>1 DEF PollBuild, Inv1
  <2>3. CASE Finish(r, "red", Len(infra))
    <3>1. RunsTyped' /\ RunsOK'
      <4>1. "red" \in Ended  BY DEF Ended
      <4>2. QED  BY <1>1, <2>1, <2>3, <4>1, FinishKeepsRuns
    <3>2. QED  BY <1>2, <1>3, <1>15, <3>1 DEF PollBuild, Inv1
  <2>4. QED  BY <1>15, <2>2, <2>3 DEF PollBuild
<1>16. ASSUME NEW r \in DOMAIN runs, FetchInfra(r) PROVE Inv1'
  <2>1. runs[r].step \in Active /\ images' = images /\ Tagged(r)
    BY <1>1, <1>16 DEF FetchInfra, At, Active, RunsOK, RunOK
  <2>2. CASE Finish(r, "green", Len(infra))
    <3>1. RunsTyped' /\ RunsOK'
      <4>1. "green" \in Ended  BY DEF Ended
      <4>2. QED  BY <1>1, <2>1, <2>2, <4>1, FinishKeepsRuns
    <3>2. QED  BY <1>2, <1>3, <1>16, <3>1 DEF FetchInfra, Inv1
  <2>3. CASE runs' = [runs EXCEPT ![r].step = "push", ![r].base = Len(infra)]
    <3> DEFINE x == [runs[r] EXCEPT !.step = "push", !.base = Len(infra)]
    <3>1. runs' = [runs EXCEPT ![r] = x]  BY <2>3
    <3>2. x \in Run /\ x.s = runs[r].s /\ x.c = runs[r].c /\ x.in = runs[r].in /\ x.step = "push"
      BY <1>1 DEF Run, Active
    <3> HIDE DEF x
    <3>3. x.step \in Active  BY <3>2 DEF Active
    <3>4. RunsTyped' /\ RunsOK'
      BY <1>1, <2>1, <3>1, <3>2, <3>3, MoveKeepsRuns DEF Tagged
    <3>5. QED  BY <1>2, <1>3, <1>16, <3>4 DEF FetchInfra, Inv1
  <2>4. QED  BY <1>16, <2>2, <2>3 DEF FetchInfra
<1>17. ASSUME NEW r \in DOMAIN runs, PushPin(r) PROVE Inv1'
  <2>1. /\ runs[r].step \in Active /\ images' = images /\ Tagged(r)
        /\ infra' = Append(infra, PinOf(r)) /\ Finish(r, "green", Len(infra'))
    BY <1>1, <1>17 DEF PushPin, At, Active, RunsOK, RunOK
  <2>2. PinnedIsPublished' /\ infra' \in Seq(Pin) /\ Len(infra') \in Nat
    BY <2>1, PinKeepsPublished
  <2>3. RunsTyped' /\ RunsOK'
    <3>1. "green" \in Ended  BY DEF Ended
    <3>2. QED  BY <1>1, <2>1, <2>2, <3>1, FinishKeepsRuns
  <2>4. Typed'  BY <1>1, <1>17, <2>2 DEF PushPin, Typed
  <2>5. QED  BY <2>2, <2>3, <2>4 DEF Inv1
<1>18. ASSUME NEW r \in DOMAIN runs, PushUnacknowledged(r) PROVE Inv1'
  <2>1. /\ runs[r].step \in Active /\ images' = images /\ Tagged(r)
        /\ infra' = Append(infra, PinOf(r)) /\ Goto(r, "fetch")
    BY <1>1, <1>18 DEF PushUnacknowledged, At, Active, RunsOK, RunOK
  <2>2. PinnedIsPublished' /\ infra' \in Seq(Pin)
    BY <2>1, PinKeepsPublished
  <2>3. RunsTyped' /\ RunsOK'  BY <1>14, <2>1
  <2>4. Typed'
    BY <1>1, <1>18, <2>2, BoundAssumption DEF PushUnacknowledged, Typed
  <2>5. QED  BY <2>2, <2>3, <2>4 DEF Inv1
<1>19. ASSUME NEW r \in DOMAIN runs, PushRaceLost(r) PROVE Inv1'
  <2>1. runs[r].step \in Active /\ images' = images /\ Tagged(r) /\ Goto(r, "fetch")
    BY <1>1, <1>19 DEF PushRaceLost, At, Active, RunsOK, RunOK
  <2>2. RunsTyped' /\ RunsOK'  BY <1>14, <2>1
  <2>3. QED  BY <1>2, <1>3, <1>19, <2>2 DEF PushRaceLost, Inv1
<1>20. ASSUME NEW r \in DOMAIN runs, RunFails(r) PROVE Inv1'
  <2>1. runs[r].step \in Active /\ "red" \in Ended /\ images' = images
    BY <1>20, LossAssumption DEF RunFails, Ended
  <2>2. RunsTyped' /\ RunsOK'  BY <1>1, <1>20, <2>1, FinishKeepsRuns DEF RunFails
  <2>3. QED  BY <1>2, <1>3, <1>20, <2>2 DEF RunFails, Inv1
<1>21. ASSUME NEW r \in DOMAIN runs, Stop(r) PROVE Inv1'
  <2>1. "stopped" \in Ended /\ images' = images /\ (runs[r].build.step = "succeeded" => Tagged(r))
    BY <1>1, <1>21 DEF Stop, Ended, RunsOK, RunOK
  <2>2. CASE At(r, "queued") /\ Goto(r, "stopped")
    <3>1. RunsTyped' /\ RunsOK'  BY <1>14, <2>1, <2>2 DEF Ended
    <3>2. QED  BY <1>2, <1>3, <1>21, <3>1 DEF Stop, Inv1
  <2>3. CASE ~At(r, "queued") /\ Finish(r, "stopped", Len(infra))
    <3>1. runs[r].step \in Active  BY <1>21, <2>3, LossAssumption DEF Stop, At
    <3>2. RunsTyped' /\ RunsOK'  BY <1>1, <2>1, <2>3, <3>1, FinishKeepsRuns
    <3>3. QED  BY <1>2, <1>3, <1>21, <3>2 DEF Stop, Inv1
  <2>4. QED  BY <1>21, <2>2, <2>3 DEF Stop
<1>22. ASSUME UNCHANGED vars PROVE Inv1'
  BY <1>1, <1>22 DEF vars, Inv1, Typed, RunsTyped, OneWaits, OneActs, At, RunsOK, RunOK, Tagged,
                     PinnedIsPublished
<1>23. QED
  BY <1>4, <1>5, <1>6, <1>7, <1>8, <1>9, <1>10, <1>11, <1>12, <1>13, <1>15, <1>16, <1>17, <1>18,
     <1>19, <1>20, <1>21, <1>22 DEF Next, BuildStep, RunStep

\* The types of the state, and the shape of a concurrency group (the group of
\* deploy-reusable.yaml keeps one run active and one waiting).
THEOREM TypeCorrect == Spec => []TypeOK
<1>1. Inv1 => TypeOK
  BY DEF Inv1, Typed, RunsTyped, OneWaits, OneActs, TypeOK
<1>2. QED  BY <1>1, Inv1Init, Inv1Next, PTL DEF Spec

\* Every pin that a run of deploy-reusable.yaml writes into the dev overlay
\* names an image the central registry has, whichever push is lost, repeated or
\* raced, whichever build fails or is refused, and wherever a run ends.
THEOREM PinsArePublished == Spec => []PinnedIsPublished
<1>1. Inv1 => PinnedIsPublished
  BY DEF Inv1
<1>2. QED  BY <1>1, Inv1Init, Inv1Next, PTL DEF Spec

-----------------------------------------------------------------------------
(* The order of the pins of a service *)

\* What a run of a service may still pin is no older than what is pinned.
RunFollows(r) ==
  /\ runs[r].c <= head[runs[r].s]
  /\ runs[r].step \in Active \ {"resolve"} => runs[r].in <= content
  /\ \A i \in DOMAIN infra : infra[i].s = runs[r].s =>
       /\ Live(r) => infra[i].c <= runs[r].c
       /\ runs[r].step \in Active \ {"resolve"} => infra[i].in <= runs[r].in
  /\ At(r, "queued") => \A q \in DOMAIN runs :
       runs[q].s = runs[r].s /\ runs[q].step \in Active => runs[q].c <= runs[r].c
RunsFollow == \A r \in DOMAIN runs : RunFollows(r)
PinsFollow == \A i \in DOMAIN infra : infra[i].c <= head[infra[i].s] /\ infra[i].in <= content

Inv2 == RunsFollow /\ PinsFollow /\ DevFollowsMain

LEMMA Inv2Init == Init => Inv2
BY DEF Init, Inv2, RunsFollow, PinsFollow, DevFollowsMain

\* What is compared below is a number.
LEMMA NumbersAre ==
  ASSUME Inv1
  PROVE  /\ \A q \in DOMAIN runs :
              /\ runs[q] \in Run /\ runs[q].s \in Services
              /\ runs[q].c \in Nat /\ runs[q].in \in Nat
         /\ \A i \in DOMAIN infra :
              infra[i] \in Pin /\ infra[i].s \in Services /\ infra[i].c \in Nat /\ infra[i].in \in Nat
         /\ \A t \in Services : head[t] \in Nat
         /\ content \in Nat
<1>1. MaxCommit \in Nat /\ MaxContent \in Nat  BY BoundAssumption
<1>2. Commits \subseteq Nat /\ Contents \subseteq Nat  BY <1>1 DEF Commits, Contents
<1>3. \A q \in DOMAIN runs : runs[q] \in Run  BY RunsAre DEF Inv1, RunsTyped
<1>4. \A q \in DOMAIN runs : runs[q].s \in Services /\ runs[q].c \in Nat /\ runs[q].in \in Nat
  BY <1>2, <1>3 DEF Run
<1>5. \A i \in DOMAIN infra : infra[i] \in Pin
  BY LenProperties, ElementOfSeq DEF Inv1, Typed
<1>6. \A i \in DOMAIN infra : infra[i].s \in Services /\ infra[i].c \in Nat /\ infra[i].in \in Nat
  BY <1>2, <1>5 DEF Pin
<1>7. (\A t \in Services : head[t] \in Nat) /\ content \in Nat
  BY <1>1, <1>2 DEF Inv1, Typed
<1>8. QED  BY <1>3, <1>4, <1>5, <1>6, <1>7

\* Neither the head nor the input goes back, and a run keeps its commit.
LEMMA EnterFollows ==
  ASSUME Inv1, Inv2, NEW s \in Services, NEW c \in Commits, Enter(s, c),
         UNCHANGED <<content, infra>>, head' \in [Services -> 0 .. MaxCommit],
         \A t \in Services : head[t] <= head'[t], c = head'[s]
  PROVE  Inv2'
<1> DEFINE n == Len(runs) + 1
<1>1. /\ runs' \in Seq(Run) /\ DOMAIN runs' = DOMAIN runs \cup {n} /\ n \notin DOMAIN runs
      /\ runs'[n].s = s /\ runs'[n].c = c /\ runs'[n].build.step = "none"
      /\ runs'[n].step = IF Busy(s) THEN "queued" ELSE "resolve"
      /\ \A q \in DOMAIN runs :
           /\ runs'[q].s = runs[q].s /\ runs'[q].c = runs[q].c /\ runs'[q].in = runs[q].in
           /\ runs'[q].build = runs[q].build
           /\ q \in Superseded(s) => runs'[q].step = "superseded"
           /\ q \notin Superseded(s) => runs'[q].step = runs[q].step
  BY EnterIs DEF Inv1, RunsTyped, Typed
<1> HIDE DEF n
<1>2. /\ \A q \in DOMAIN runs : runs[q] \in Run
      /\ \A q \in DOMAIN runs : /\ runs[q].s \in Services /\ runs[q].c \in Nat
                                /\ runs[q].in \in Nat
      /\ \A t \in Services : head[t] \in Nat /\ head'[t] \in Nat
      /\ content \in Nat
      /\ \A i \in DOMAIN infra : infra[i].s \in Services /\ infra[i].c \in Nat /\ infra[i].in \in Nat
  BY NumbersAre DEF Typed
<1>3. /\ \A q \in DOMAIN runs : runs'[q].step \in {runs[q].step, "superseded"}
      /\ \A q \in DOMAIN runs : runs[q].s = s => runs'[q].step # "queued"
  BY <1>1 DEF Superseded, Of, At, Live, Ended
<1>4. PinsFollow' /\ DevFollowsMain'
  <2>1. DevFollowsMain'  BY DEF Inv2, DevFollowsMain
  <2>2. PinsFollow'
    <3> SUFFICES ASSUME NEW i \in DOMAIN infra
                 PROVE  infra[i].c <= head'[infra[i].s] /\ infra[i].in <= content
      BY DEF PinsFollow
    <3>1. infra[i].c <= head[infra[i].s] /\ infra[i].in <= content  BY DEF Inv2, PinsFollow
    <3>2. head[infra[i].s] <= head'[infra[i].s]  BY <1>2
    <3>3. QED  BY <1>2, <3>1, <3>2
  <2>3. QED  BY <2>1, <2>2
<1>5. ASSUME NEW q \in DOMAIN runs PROVE RunFollows(q)'
  <2>1. RunFollows(q) /\ runs'[q].step \in {runs[q].step, "superseded"}
    BY <1>3 DEF Inv2, RunsFollow
  <2>2. runs'[q].c <= head'[runs'[q].s]
    <3>1. head[runs[q].s] <= head'[runs[q].s] /\ runs[q].c <= head[runs[q].s]
      BY <1>2, <2>1 DEF RunFollows
    <3>2. QED  BY <1>1, <1>2, <3>1
  <2>3. runs'[q].step \in Active \ {"resolve"} => runs'[q].in <= content'
    BY <1>1, <2>1 DEF RunFollows, Active
  <2>4. \A i \in DOMAIN infra' : infra'[i].s = runs'[q].s =>
          /\ runs'[q].step \notin Ended => infra'[i].c <= runs'[q].c
          /\ runs'[q].step \in Active \ {"resolve"} => infra'[i].in <= runs'[q].in
    BY <1>1, <2>1 DEF RunFollows, Live, Active, Ended
  <2>5. ASSUME runs'[q].step = "queued", NEW p \in DOMAIN runs',
               runs'[p].s = runs'[q].s, runs'[p].step \in Active
        PROVE  runs'[p].c <= runs'[q].c
    <3>1. runs[q].step = "queued" /\ runs[q].s # s  BY <1>3, <2>1, <2>5
    <3>2. p # n  BY <1>1, <2>5, <3>1
    <3>3. p \in DOMAIN runs /\ runs[p].s = runs[q].s /\ runs[p].step \in Active
      BY <1>1, <1>3, <2>5, <3>2 DEF Active
    <3>4. QED  BY <1>1, <2>1, <3>1, <3>3 DEF RunFollows, At
  <2>6. QED  BY <2>2, <2>3, <2>4, <2>5 DEF RunFollows, Live, At
<1>6. ASSUME NEW q, q = n PROVE RunFollows(q)'
  <2>1. runs'[q].c <= head'[runs'[q].s]  BY <1>6, <1>1, <1>2
  <2>2. runs'[q].step \notin Active \ {"resolve"}  BY <1>6, <1>1 DEF Active
  <2>3. \A i \in DOMAIN infra' : infra'[i].s = runs'[q].s => infra'[i].c <= runs'[q].c
    BY <1>6, <1>1, <1>4 DEF PinsFollow
  <2>4. ASSUME NEW p \in DOMAIN runs', runs'[p].s = runs'[q].s, runs'[p].step \in Active
        PROVE  runs'[p].c <= runs'[q].c
    <3>1. CASE p = q  BY <1>6, <1>1, <1>2, <3>1
    <3>2. CASE p # q
      <4>1. p \in DOMAIN runs /\ runs[p].s = s /\ runs'[p].c = runs[p].c  BY <1>6, <1>1, <2>4, <3>2
      <4>2. runs[p].c <= head[s]  BY <4>1 DEF Inv2, RunsFollow, RunFollows
      <4>3. head[s] <= head'[s]  OBVIOUS
      <4>4. QED  BY <1>6, <1>1, <1>2, <4>1, <4>2, <4>3
    <3>3. QED  BY <3>1, <3>2
  <2>5. QED  BY <2>1, <2>2, <2>3, <2>4 DEF RunFollows, At
<1>7. QED  BY <1>1, <1>4, <1>5, <1>6 DEF Inv2, RunsFollow

\* A step of a run, the end of a run and the start of the run that waits.
StepOf(q) ==
  \/ runs'[q].step = runs[q].step /\ runs'[q].in = runs[q].in
  \/ runs'[q].step \in Ended
  \/ /\ runs[q].step \in Active \ {"resolve"} /\ runs'[q].step \in Active \ {"resolve"}
     /\ runs'[q].in = runs[q].in
  \/ runs[q].step = "resolve" /\ runs'[q].step = "upload" /\ runs'[q].in = content
  \/ runs[q].step = "queued" /\ runs'[q].step = "resolve"

LEMMA StepFollows ==
  ASSUME Inv1, Inv2, UNCHANGED <<head, content, infra>>, DOMAIN runs' = DOMAIN runs,
         \A q \in DOMAIN runs : runs'[q].s = runs[q].s /\ runs'[q].c = runs[q].c /\ StepOf(q)
  PROVE  Inv2'
<1>1. PinsFollow' /\ DevFollowsMain'
  BY DEF Inv2, PinsFollow, DevFollowsMain
<1>2. SUFFICES ASSUME NEW r \in DOMAIN runs PROVE RunFollows(r)'
  BY <1>1 DEF Inv2, RunsFollow
<1>3. RunFollows(r) /\ StepOf(r) /\ runs'[r].s = runs[r].s /\ runs'[r].c = runs[r].c
  BY DEF Inv2, RunsFollow
<1>4. runs'[r].c <= head'[runs'[r].s]
  BY <1>3 DEF RunFollows
<1>5. runs'[r].step \in Active \ {"resolve"} => runs'[r].in <= content'
  BY <1>3, NumbersAre DEF RunFollows, StepOf, Active, Ended
<1>6. ASSUME NEW i \in DOMAIN infra', infra'[i].s = runs'[r].s
      PROVE  /\ runs'[r].step \notin Ended => infra'[i].c <= runs'[r].c
             /\ runs'[r].step \in Active \ {"resolve"} => infra'[i].in <= runs'[r].in
  <2>1. runs'[r].step \notin Ended => infra'[i].c <= runs'[r].c
    BY <1>3, <1>6 DEF RunFollows, StepOf, Live, Active, Ended
  <2>2. infra[i].in <= content  BY <1>6 DEF Inv2, PinsFollow
  <2>3. runs'[r].step \in Active \ {"resolve"} => infra'[i].in <= runs'[r].in
    BY <1>3, <1>6, <2>2 DEF RunFollows, StepOf, Active, Ended
  <2>4. QED  BY <2>1, <2>3
<1>7. ASSUME runs'[r].step = "queued", NEW p \in DOMAIN runs', runs'[p].s = runs'[r].s,
             runs'[p].step \in Active
      PROVE  runs'[p].c <= runs'[r].c
  <2>1. runs[r].step = "queued"  BY <1>3, <1>7 DEF StepOf, Active, Ended
  <2>2. /\ p \in DOMAIN runs /\ p # r /\ runs[p].s = runs[r].s /\ StepOf(p)
        /\ runs'[p].c = runs[p].c
    BY <1>3, <1>7 DEF Active
  <2>3. runs[p].step # "queued"
    BY <2>1, <2>2 DEF Inv1, RunsTyped, OneWaits, At
  <2>4. runs[p].step \in Active  BY <1>7, <2>2, <2>3 DEF StepOf, Active, Ended
  <2>5. QED  BY <1>3, <2>1, <2>2, <2>4 DEF RunFollows, At
<1>8. QED  BY <1>4, <1>5, <1>6, <1>7 DEF RunFollows, Live, At

\* The run that pushes is the only one of its service that is active, and the
\* one that waits is of a commit as new.
LEMMA PushFollows ==
  ASSUME Inv1, Inv2, NEW r \in DOMAIN runs, At(r, "push"), infra' = Append(infra, PinOf(r)),
         images' = images, UNCHANGED <<head, content>>, DOMAIN runs' = DOMAIN runs,
         \A q \in DOMAIN runs :
           /\ runs'[q].s = runs[q].s /\ runs'[q].c = runs[q].c /\ runs'[q].in = runs[q].in
           /\ q = r => runs'[q].step \in {"green", "fetch"}
           /\ q # r => \/ runs'[q].step = runs[q].step
                       \/ /\ At(q, "queued") /\ runs'[q].step = "resolve"
                          /\ runs[q].s = runs[r].s /\ runs'[r].step = "green"
  PROVE  Inv2'
<1> DEFINE n == Len(infra) + 1
<1>1. /\ DOMAIN infra = 1 .. Len(infra) /\ Len(infra) \in Nat /\ DOMAIN infra' = DOMAIN infra \cup {n}
      /\ infra'[n] = PinOf(r) /\ \A i \in DOMAIN infra : infra'[i] = infra[i]
  <2>1. Tagged(r)  BY DEF Inv1, RunsOK, RunOK, At
  <2>2. QED  BY <2>1, PinKeepsPublished
<1>2. infra'[n].s = runs[r].s /\ infra'[n].c = runs[r].c /\ infra'[n].in = runs[r].in
  BY <1>1 DEF PinOf
<1>3. /\ RunFollows(r) /\ Live(r) /\ runs[r].step \in Active \ {"resolve"}
  BY DEF Inv2, RunsFollow, At, Live, Active, Ended
<1>4. \A i \in DOMAIN infra : i < n
  BY <1>1
<1> HIDE DEF n
<1>5. PinsFollow'
  <2>1. runs[r].c <= head[runs[r].s] /\ runs[r].in <= content  BY <1>3 DEF RunFollows
  <2>2. QED  BY <1>1, <1>2, <2>1 DEF Inv2, PinsFollow
<1>6. DevFollowsMain'
  <2> SUFFICES ASSUME NEW i \in DOMAIN infra', NEW j \in DOMAIN infra', i < j, infra'[i].s = infra'[j].s
               PROVE  infra'[i].c <= infra'[j].c /\ infra'[i].in <= infra'[j].in
    BY DEF DevFollowsMain
  <2>1. i \in DOMAIN infra  BY <1>1, <1>4 DEF n
  <2>2. CASE j \in DOMAIN infra  BY <1>1, <2>1, <2>2 DEF Inv2, DevFollowsMain
  <2>3. CASE j = n  BY <1>1, <1>2, <1>3, <2>1, <2>3 DEF RunFollows
  <2>4. QED  BY <1>1, <2>2, <2>3
<1>7. ASSUME NEW q \in DOMAIN runs PROVE RunFollows(q)'
  <2>1. /\ RunFollows(q) /\ runs'[q].s = runs[q].s /\ runs'[q].c = runs[q].c
        /\ runs'[q].in = runs[q].in
    BY DEF Inv2, RunsFollow
  <2>2. /\ runs'[q].step \in Active \ {"resolve"} => runs[q].step \in Active \ {"resolve"}
        /\ runs'[q].step \notin Ended => Live(q)
    BY <1>3 DEF Active, Ended, At, Live
  <2>3. runs'[q].c <= head'[runs'[q].s] /\ (runs'[q].step \in Active \ {"resolve"} => runs'[q].in <= content')
    BY <2>1, <2>2 DEF RunFollows
  <2>4. ASSUME NEW i \in DOMAIN infra', infra'[i].s = runs'[q].s
        PROVE  /\ runs'[q].step \notin Ended => infra'[i].c <= runs'[q].c
               /\ runs'[q].step \in Active \ {"resolve"} => infra'[i].in <= runs'[q].in
    <3>1. CASE i \in DOMAIN infra  BY <1>1, <2>1, <2>2, <2>4, <3>1 DEF RunFollows
    <3>2. CASE i = n
      <4>1. runs[q].s = runs[r].s  BY <1>2, <2>1, <2>4, <3>2
      <4>2. CASE q = r  BY <1>2, <2>1, <3>2, <4>2, NumbersAre
      <4>3. CASE q # r
        <5>1. runs[q].step \notin Active
          BY <1>3, <4>1, <4>3 DEF Inv1, RunsTyped, OneActs
        <5>2. runs'[q].step \notin Ended => At(q, "queued")
          BY <2>2, <5>1, NumbersAre DEF Live, At, Run
        <5>3. At(q, "queued") => runs[r].c <= runs[q].c
          BY <1>3, <2>1, <4>1 DEF RunFollows
        <5>4. QED  BY <1>2, <2>1, <2>2, <3>2, <5>1, <5>2, <5>3
      <4>4. QED  BY <4>2, <4>3
    <3>3. QED  BY <1>1, <2>4, <3>1, <3>2
  <2>5. ASSUME runs'[q].step = "queued", NEW p \in DOMAIN runs', runs'[p].s = runs'[q].s,
               runs'[p].step \in Active
        PROVE  runs'[p].c <= runs'[q].c
    <3>1. At(q, "queued")  BY <2>5 DEF At
    <3>2. p # q  BY <2>5 DEF Active
    <3>3. runs[p].step # "queued"  BY <2>1, <2>5, <3>1, <3>2 DEF Inv1, RunsTyped, OneWaits, At
    <3>4. runs[p].step \in Active  BY <1>3, <2>5, <3>3 DEF At
    <3>5. QED  BY <2>1, <2>5, <3>1, <3>4 DEF RunFollows
  <2>6. QED  BY <2>3, <2>4, <2>5 DEF RunFollows, Live, At
<1>8. QED  BY <1>5, <1>6, <1>7 DEF Inv2, RunsFollow

LEMMA Inv2Next == ~AnyOrder /\ Inv1 /\ Inv2 /\ [Next]_vars => Inv2'
<1> SUFFICES ASSUME ~AnyOrder, Inv1, Inv2, [Next]_vars PROVE Inv2'  OBVIOUS
<1>1. /\ Typed /\ RunsTyped /\ Len(infra) \in Nat
      /\ \A q \in DOMAIN runs : runs[q] \in Run
  BY LenProperties, NumbersAre DEF Inv1, Typed
\* One run changes, by a step that is one of a run.
<1>2. ASSUME NEW r \in DOMAIN runs, NEW x \in Run, runs' = [runs EXCEPT ![r] = x],
             x.s = runs[r].s, x.c = runs[r].c, UNCHANGED <<head, content, infra>>,
             \/ x.in = runs[r].in
                /\ \/ x.step = runs[r].step
                   \/ runs[r].step \in Active \ {"resolve"} /\ x.step \in Active \ {"resolve"}
             \/ x.step \in Ended
             \/ runs[r].step = "resolve" /\ x.step = "upload" /\ x.in = content
      PROVE  Inv2'
  BY <1>2, StepFollows DEF StepOf
<1>3. ASSUME NEW r \in DOMAIN runs, NEW outcome \in Ended, NEW commits \in Nat,
             runs[r].step \in Active, Finish(r, outcome, commits), UNCHANGED <<head, content, infra>>
      PROVE  Inv2'
  <2>1. DOMAIN runs' = DOMAIN runs /\ \A q \in DOMAIN runs :
          runs'[q].s = runs[q].s /\ runs'[q].c = runs[q].c /\ StepOf(q)
    BY <1>1, <1>3, FinishIs DEF RunsTyped, StepOf, At
  <2>2. QED  BY <1>3, <2>1, StepFollows
<1>4. ASSUME NEW r \in DOMAIN runs, NEW st \in {"start", "fetch"} \cup Ended, Goto(r, st),
             runs[r].step \in Active \ {"resolve"} \/ st \in Ended,
             UNCHANGED <<head, content, infra>>
      PROVE  Inv2'
  <2>1. st \in Steps  BY DEF Steps, Active
  <2>2. /\ [runs[r] EXCEPT !.step = st] \in Run /\ [runs[r] EXCEPT !.step = st].s = runs[r].s
        /\ [runs[r] EXCEPT !.step = st].c = runs[r].c /\ [runs[r] EXCEPT !.step = st].in = runs[r].in
        /\ [runs[r] EXCEPT !.step = st].step = st
    BY <1>1, <2>1, SetStep
  <2>3. runs' = [runs EXCEPT ![r] = [runs[r] EXCEPT !.step = st]]  BY <1>4 DEF Goto
  <2>4. st \in Active \ {"resolve"} \/ st \in Ended  BY DEF Active
  <2>5. QED  BY <1>2, <1>4, <2>2, <2>3, <2>4
<1>5. ASSUME NEW s \in Services, Land(s) PROVE Inv2'
  <2>1. /\ head[s] + 1 \in Commits /\ head' \in [Services -> 0 .. MaxCommit]
        /\ \A t \in Services : head[t] <= head'[t]
        /\ head'[s] = head[s] + 1
    BY <1>1, <1>5, BoundAssumption DEF Land, Typed, Commits
  <2>2. QED  BY <1>5, <2>1, EnterFollows DEF Land
<1>6. ASSUME NEW s \in Services, Dispatch(s) PROVE Inv2'
  <2>1. /\ head[s] \in Commits /\ head' \in [Services -> 0 .. MaxCommit] /\ head' = head
        /\ \A t \in Services : head[t] <= head'[t]
    BY <1>1, <1>6, BoundAssumption DEF Dispatch, Typed, Commits
  <2>2. QED  BY <1>6, <2>1, EnterFollows DEF Dispatch
<1>7. ASSUME MoveContent PROVE Inv2'
  <2>1. UNCHANGED <<head, runs, infra>> /\ content' = content + 1  BY <1>7 DEF MoveContent
  <2>2. DevFollowsMain'  BY <2>1 DEF Inv2, DevFollowsMain
  <2>3. PinsFollow'  BY <2>1, NumbersAre DEF Inv2, PinsFollow
  <2>4. ASSUME NEW q \in DOMAIN runs PROVE RunFollows(q)'
    <3>1. RunFollows(q)  BY DEF Inv2, RunsFollow
    <3>2. runs[q].in <= content => runs[q].in <= content'  BY <2>1, NumbersAre
    <3>3. QED  BY <2>1, <3>1, <3>2 DEF RunFollows, Live, At
  <2>5. QED  BY <2>1, <2>2, <2>3, <2>4 DEF Inv2, RunsFollow
<1>8. ASSUME NEW r \in DOMAIN runs, Rerun(r) PROVE Inv2'
  <2>1. /\ runs[r].s \in Services /\ runs[r].c \in Commits /\ runs[r].c = head[runs[r].s]
        /\ head' = head
    BY <1>1, <1>8 DEF Rerun, Run
  <2>2. head' \in [Services -> 0 .. MaxCommit] /\ \A t \in Services : head[t] <= head'[t]
    BY <1>1, <2>1, NumbersAre DEF Typed
  <2>3. QED  BY <1>8, <2>1, <2>2, EnterFollows DEF Rerun
<1>9. ASSUME NEW r \in DOMAIN runs, ProbeBuild(r) \/ PublishImage(r) \/ BuildFails(r) PROVE Inv2'
  <2>1. /\ UNCHANGED <<head, content, infra>> /\ DOMAIN runs' = DOMAIN runs
        /\ \A q \in DOMAIN runs : /\ runs'[q].s = runs[q].s /\ runs'[q].c = runs[q].c
                                  /\ runs'[q].in = runs[q].in /\ runs'[q].step = runs[q].step
    BY <1>1, <1>9 DEF ProbeBuild, PublishImage, BuildFails, Run
  <2>2. QED  BY <2>1, StepFollows DEF StepOf
<1>10. ASSUME NEW r \in DOMAIN runs, ResolveInputs(r) PROVE Inv2'
  <2>1. /\ UNCHANGED <<head, content, infra>> /\ DOMAIN runs' = DOMAIN runs
        /\ \A q \in DOMAIN runs : q # r => runs'[q] = runs[q]
        /\ runs'[r].s = runs[r].s /\ runs'[r].c = runs[r].c /\ runs[r].step = "resolve"
        /\ runs'[r].in = content /\ runs'[r].step = "upload"
    BY <1>1, <1>10 DEF ResolveInputs, Run, At
  <2>2. QED  BY <2>1, StepFollows DEF StepOf
<1>11. ASSUME NEW r \in DOMAIN runs, UploadSource(r) PROVE Inv2'
  BY <1>4, <1>11 DEF UploadSource, At, Active
<1>12. ASSUME NEW r \in DOMAIN runs, StartBuild(r) PROVE Inv2'
  <2>1. /\ UNCHANGED <<head, content, infra>> /\ DOMAIN runs' = DOMAIN runs
        /\ \A q \in DOMAIN runs : q # r => runs'[q] = runs[q]
        /\ runs'[r].s = runs[r].s /\ runs'[r].c = runs[r].c /\ runs[r].step = "start"
        /\ runs'[r].in = runs[r].in /\ runs'[r].step = "poll"
    BY <1>1, <1>12 DEF StartBuild, Run, At
  <2>2. QED  BY <2>1, StepFollows DEF StepOf, Active
<1>13. ASSUME NEW r \in DOMAIN runs, PollBuild(r) PROVE Inv2'
  <2>1. runs[r].step \in Active \ {"resolve"} /\ runs[r].step \in Active /\ "red" \in Ended
    BY <1>13 DEF PollBuild, At, Active, Ended
  <2>2. QED  BY <1>1, <1>3, <1>4, <1>13, <2>1 DEF PollBuild
<1>14. ASSUME NEW r \in DOMAIN runs, FetchInfra(r) PROVE Inv2'
  <2>1. runs[r].step = "fetch" /\ runs[r].step \in Active /\ "green" \in Ended
        /\ UNCHANGED <<head, content, infra>>
    BY <1>14 DEF FetchInfra, At, Active, Ended
  <2>2. CASE Finish(r, "green", Len(infra))  BY <1>1, <1>3, <2>1, <2>2
  <2>3. CASE runs' = [runs EXCEPT ![r].step = "push", ![r].base = Len(infra)]
    <3>1. /\ DOMAIN runs' = DOMAIN runs /\ \A q \in DOMAIN runs : q # r => runs'[q] = runs[q]
          /\ runs'[r].s = runs[r].s /\ runs'[r].c = runs[r].c
          /\ runs'[r].in = runs[r].in /\ runs'[r].step = "push"
      BY <1>1, <2>3 DEF Run
    <3>2. QED  BY <2>1, <3>1, StepFollows DEF StepOf, Active
  <2>4. QED  BY <1>14, <2>2, <2>3 DEF FetchInfra
<1>15. ASSUME NEW r \in DOMAIN runs, PushPin(r) PROVE Inv2'
  <2>1. /\ At(r, "push") /\ runs[r].step \in Active /\ "green" \in Ended
        /\ infra' = Append(infra, PinOf(r)) /\ Finish(r, "green", Len(infra'))
        /\ images' = images /\ UNCHANGED <<head, content>>
    BY <1>15 DEF PushPin, At, Active, Ended
  <2>2. Len(infra') \in Nat
    <3>1. Tagged(r)  BY <2>1 DEF Inv1, RunsOK, RunOK, At
    <3>2. QED  BY <2>1, <3>1, PinKeepsPublished
  <2>3. DOMAIN runs' = DOMAIN runs /\ \A q \in DOMAIN runs :
           /\ runs'[q].s = runs[q].s /\ runs'[q].c = runs[q].c /\ runs'[q].in = runs[q].in
           /\ q = r => runs'[q].step = "green"
           /\ q # r => \/ runs'[q].step = runs[q].step
                       \/ /\ At(q, "queued") /\ runs'[q].step = "resolve"
                          /\ runs[q].s = runs[r].s
    BY <1>1, <2>1, <2>2, FinishIs DEF RunsTyped
  <2>4. QED  BY <2>1, <2>3, PushFollows
<1>16. ASSUME NEW r \in DOMAIN runs, PushUnacknowledged(r) PROVE Inv2'
  <2>1. /\ DOMAIN runs' = DOMAIN runs /\ \A q \in DOMAIN runs : q # r => runs'[q] = runs[q]
        /\ runs'[r].s = runs[r].s /\ runs'[r].c = runs[r].c
        /\ runs'[r].in = runs[r].in /\ runs'[r].step = "fetch"
    BY <1>1, <1>16 DEF PushUnacknowledged, Goto, Run
  <2>2. /\ At(r, "push") /\ infra' = Append(infra, PinOf(r)) /\ images' = images
        /\ UNCHANGED <<head, content>>
    BY <1>16 DEF PushUnacknowledged
  <2>3. QED  BY <2>1, <2>2, PushFollows
<1>17. ASSUME NEW r \in DOMAIN runs, PushRaceLost(r) PROVE Inv2'
  BY <1>4, <1>17 DEF PushRaceLost, At, Active
<1>18. ASSUME NEW r \in DOMAIN runs, RunFails(r) PROVE Inv2'
  <2>1. runs[r].step \in Active /\ "red" \in Ended  BY <1>18, LossAssumption DEF RunFails, Ended
  <2>2. QED  BY <1>1, <1>3, <1>18, <2>1 DEF RunFails
<1>19. ASSUME NEW r \in DOMAIN runs, Stop(r) PROVE Inv2'
  <2>1. "stopped" \in Ended /\ UNCHANGED <<head, content, infra>>  BY <1>19 DEF Stop, Ended
  <2>2. CASE At(r, "queued") /\ Goto(r, "stopped")  BY <1>4, <2>1, <2>2
  <2>3. CASE ~At(r, "queued") /\ Finish(r, "stopped", Len(infra))
    <3>1. runs[r].step \in Active  BY <1>19, <2>3, LossAssumption DEF Stop, At
    <3>2. QED  BY <1>1, <1>3, <2>1, <2>3, <3>1
  <2>4. QED  BY <1>19, <2>2, <2>3 DEF Stop
<1>20. ASSUME UNCHANGED vars PROVE Inv2'
  BY <1>20 DEF vars, Inv2, RunsFollow, PinsFollow, DevFollowsMain, RunFollows, Live, At
<1>21. QED
  BY <1>5, <1>6, <1>7, <1>8, <1>9, <1>10, <1>11, <1>12, <1>13, <1>14, <1>15, <1>16, <1>17,
     <1>18, <1>19, <1>20 DEF Next, BuildStep, RunStep

\* Where no run of an older commit is repeated (AnyOrder, a rule the workflow
\* leaves to people), the dev overlay of a service never goes back to an older
\* commit or to an older revision of its input: the group of
\* deploy-reusable.yaml, which resolves the input only when it is a run's turn,
\* is enough, with any number of services, runs, lost pushes and failures.
THEOREM DevOnlyMovesForward ==
  ASSUME ~AnyOrder
  PROVE  Spec => []DevFollowsMain
<1>1. Inv2 => DevFollowsMain
  BY DEF Inv2
<1>2. Inv1 /\ Inv2 /\ [Next]_vars => Inv2'
  BY Inv2Next
<1>3. QED  BY <1>1, <1>2, Inv1Init, Inv1Next, Inv2Init, PTL DEF Spec

-----------------------------------------------------------------------------
(* What dev runs after a push *)

\* A push puts its own pin into dev, in the place of the one before, and leaves
\* the pins of the other services alone.
LEMMA DevAfterPush ==
  ASSUME Inv1, NEW r \in DOMAIN runs, At(r, "push"), infra' = Append(infra, PinOf(r)), images' = images
  PROVE  \A t : Dev(t)' = IF t = runs[r].s THEN {PinOf(r)} ELSE Dev(t)
<1> DEFINE n == Len(infra) + 1
<1>1. /\ DOMAIN infra = 1 .. Len(infra) /\ Len(infra) \in Nat /\ DOMAIN infra' = 1 .. n
      /\ infra'[n] = PinOf(r) /\ \A i \in DOMAIN infra : infra'[i] = infra[i]
      /\ Len(infra') = n
  <2>1. Tagged(r)  BY DEF Inv1, RunsOK, RunOK, At
  <2>2. /\ DOMAIN infra = 1 .. Len(infra) /\ Len(infra) \in Nat /\ DOMAIN infra' = 1 .. n
        /\ infra'[n] = PinOf(r) /\ \A i \in DOMAIN infra : infra'[i] = infra[i]
        /\ Len(infra') \in Nat /\ infra' \in Seq(Pin)
    BY <2>1, PinKeepsPublished
  <2>3. Len(infra') = n
    BY <2>2, LenProperties
  <2>4. QED  BY <2>2, <2>3
<1>2. DOMAIN infra' = DOMAIN infra \cup {n} /\ n \notin DOMAIN infra /\ PinOf(r).s = runs[r].s
  BY <1>1 DEF PinOf
<1>3. ASSUME NEW i \in DOMAIN infra
      PROVE  (i + 1) .. n = ((i + 1) .. Len(infra)) \cup {n} /\ (i + 1) .. Len(infra) \subseteq DOMAIN infra
  BY <1>1
<1>4. (n + 1) .. n = {}
  BY <1>1
<1> HIDE DEF n
<1>5. SUFFICES ASSUME NEW t PROVE Dev(t)' = IF t = runs[r].s THEN {PinOf(r)} ELSE Dev(t)
  OBVIOUS
<1>6. Dev(t)' = {infra'[i] : i \in {j \in DOMAIN infra' : /\ infra'[j].s = t
                                                         /\ \A k \in (j + 1) .. n : infra'[k].s # t}}
  BY <1>1 DEF Dev
<1>7. CASE t = runs[r].s
  <2>1. {j \in DOMAIN infra' : infra'[j].s = t /\ \A k \in (j + 1) .. n : infra'[k].s # t} = {n}
    BY <1>1, <1>2, <1>3, <1>4, <1>7
  <2>2. QED  BY <1>1, <1>6, <1>7, <2>1
<1>8. CASE t # runs[r].s
  <2> DEFINE old == {j \in DOMAIN infra : /\ infra[j].s = t
                                         /\ \A k \in (j + 1) .. Len(infra) : infra[k].s # t}
  <2>1. {j \in DOMAIN infra' : infra'[j].s = t /\ \A k \in (j + 1) .. n : infra'[k].s # t} = old
    BY <1>1, <1>2, <1>3, <1>8
  <2>2. Dev(t)' = {infra'[i] : i \in old}  BY <1>6, <2>1
  <2>3. {infra'[i] : i \in old} = {infra[i] : i \in old}  BY <1>1
  <2>4. QED  BY <1>8, <2>2, <2>3 DEF Dev
<1>9. QED  BY <1>7, <1>8

-----------------------------------------------------------------------------
(* No commit is forgotten *)

\* The newest commit of s is in dev, or a run of it is live or ended in sight.
Known(s) ==
  head[s] > 0 =>
    \/ \E p \in Dev(s) : p.c = head[s]
    \/ \E r \in Of(s) : runs[r].c = head[s] /\ runs[r].step \notin {"green", "superseded"}
AllKnown == \A s \in Services : Known(s)

\* A run that turned green found its pin in dev.
LEMMA StepKeepsKnown ==
  ASSUME Inv1, AllKnown, UNCHANGED <<head, infra>>, DOMAIN runs' = DOMAIN runs,
         \A q \in DOMAIN runs :
           /\ runs'[q].s = runs[q].s /\ runs'[q].c = runs[q].c
           /\ runs'[q].step \in {"green", "superseded"} =>
                \/ runs[q].step \in {"green", "superseded"}
                \/ PinOf(q) \in Dev(runs[q].s)
  PROVE  AllKnown'
<1> SUFFICES ASSUME NEW s \in Services, head[s] > 0
             PROVE  \/ \E p \in Dev(s) : p.c = head[s]
                    \/ \E r \in Of(s)' : runs'[r].c = head[s] /\ runs'[r].step \notin {"green", "superseded"}
  BY DEF AllKnown, Known, Dev
<1>1. CASE \E p \in Dev(s) : p.c = head[s]
  BY <1>1
<1>2. CASE \E r \in Of(s) : runs[r].c = head[s] /\ runs[r].step \notin {"green", "superseded"}
  <2>1. PICK r \in Of(s) : runs[r].c = head[s] /\ runs[r].step \notin {"green", "superseded"}
    BY <1>2
  <2>2. r \in DOMAIN runs /\ runs[r].s = s /\ r \in Of(s)' /\ PinOf(r).c = head[s]
    BY <2>1 DEF Of, PinOf
  <2>3. QED  BY <2>1, <2>2
<1>3. QED  BY <1>1, <1>2 DEF AllKnown, Known

\* A run that enters is of the newest commit of its service; the runs it
\* supersedes are of no newer one.
LEMMA EnterKeepsKnown ==
  ASSUME Inv1, AllKnown, NEW s \in Services, NEW c \in Commits, Enter(s, c), infra' = infra,
         head' = [head EXCEPT ![s] = c]
  PROVE  AllKnown'
<1> DEFINE n == Len(runs) + 1
<1>1. /\ DOMAIN runs' = DOMAIN runs \cup {n}
      /\ runs'[n].s = s /\ runs'[n].c = c
      /\ runs'[n].step = IF Busy(s) THEN "queued" ELSE "resolve"
      /\ \A q \in DOMAIN runs :
           /\ runs'[q].s = runs[q].s /\ runs'[q].c = runs[q].c
           /\ q \notin Superseded(s) => runs'[q].step = runs[q].step
  BY EnterIs DEF Inv1, RunsTyped, Typed
<1> HIDE DEF n
<1> SUFFICES ASSUME NEW t \in Services, head'[t] > 0
             PROVE  \/ \E p \in Dev(t) : p.c = head'[t]
                    \/ \E r \in Of(t)' : runs'[r].c = head'[t] /\ runs'[r].step \notin {"green", "superseded"}
  BY DEF AllKnown, Known, Dev
<1>2. CASE t = s
  <2>1. n \in Of(s)' /\ runs'[n].step \notin {"green", "superseded"}
    BY <1>1 DEF Of
  <2>2. head'[s] = c  BY DEF Inv1, Typed
  <2>3. QED  BY <1>1, <1>2, <2>1, <2>2
<1>3. CASE t # s
  <2>1. head'[t] = head[t]  BY <1>3 DEF Inv1, Typed
  <2>2. CASE \E p \in Dev(t) : p.c = head[t]
    BY <2>1, <2>2
  <2>3. CASE \E r \in Of(t) : runs[r].c = head[t] /\ runs[r].step \notin {"green", "superseded"}
    <3>1. PICK r \in Of(t) : runs[r].c = head[t] /\ runs[r].step \notin {"green", "superseded"}
      BY <2>3
    <3>2. r \in DOMAIN runs /\ r \notin Superseded(s)
      BY <1>3, <3>1 DEF Of, Superseded
    <3>3. r \in Of(t)'
      BY <1>1, <3>1, <3>2 DEF Of
    <3>4. QED  BY <1>1, <2>1, <3>1, <3>2, <3>3
  <2>4. QED  BY <2>1, <2>2, <2>3 DEF AllKnown, Known
<1>4. QED  BY <1>2, <1>3

\* A push puts its own pin into dev, and leaves those of the other services.
LEMMA PushKeepsKnown ==
  ASSUME Inv1, Inv2, AllKnown, NEW r \in DOMAIN runs, At(r, "push"), infra' = Append(infra, PinOf(r)),
         images' = images, UNCHANGED head, DOMAIN runs' = DOMAIN runs,
         \A q \in DOMAIN runs :
           /\ runs'[q].s = runs[q].s /\ runs'[q].c = runs[q].c
           /\ q # r /\ runs'[q].step \in {"green", "superseded"} => runs[q].step \in {"green", "superseded"}
  PROVE  AllKnown'
<1>1. PinOf(r) \in Dev(runs[r].s)'
  BY DevAfterPush
<1>2. ASSUME NEW t \in Services, t # runs[r].s PROVE Dev(t) \subseteq Dev(t)'
  BY <1>2, DevAfterPush
<1> SUFFICES ASSUME NEW t \in Services, head[t] > 0
             PROVE  \/ \E p \in Dev(t)' : p.c = head[t]
                    \/ \E q \in Of(t)' : runs'[q].c = head[t] /\ runs'[q].step \notin {"green", "superseded"}
  BY DEF AllKnown, Known
<1>3. RunFollows(r) /\ Live(r)
  BY DEF Inv2, RunsFollow, At, Live, Ended
<1>4. CASE \E p \in Dev(t) : p.c = head[t]
  <2>1. PICK p \in Dev(t) : p.c = head[t]
    BY <1>4
  <2>2. CASE t # runs[r].s
    BY <1>2, <2>1, <2>2
  <2>3. CASE t = runs[r].s
    <3>1. PICK i \in DOMAIN infra : infra[i].s = t /\ p = infra[i]
      BY <2>1 DEF Dev
    <3>2. infra[i].c <= runs[r].c /\ runs[r].c <= head[t]
      BY <1>3, <2>3, <3>1 DEF RunFollows
    <3>3. runs[r].c = head[t]
      BY <2>1, <3>1, <3>2, NumbersAre
    <3>4. QED  BY <1>1, <2>3, <3>3 DEF PinOf
  <2>4. QED  BY <2>2, <2>3
<1>5. CASE \E q \in Of(t) : runs[q].c = head[t] /\ runs[q].step \notin {"green", "superseded"}
  <2>1. PICK q \in Of(t) : runs[q].c = head[t] /\ runs[q].step \notin {"green", "superseded"}
    BY <1>5
  <2>2. q \in DOMAIN runs /\ runs[q].s = t /\ q \in Of(t)'
    BY <2>1 DEF Of
  <2>3. CASE q = r
    BY <1>1, <2>1, <2>2, <2>3 DEF PinOf
  <2>4. CASE q # r
    BY <2>1, <2>2, <2>4
  <2>5. QED  BY <2>3, <2>4
<1>6. QED  BY <1>4, <1>5 DEF AllKnown, Known

\* A run ends as red or stopped, or as green with its pin in dev.
LEMMA FinishKeepsKnown ==
  ASSUME Inv1, AllKnown, NEW r \in DOMAIN runs, runs[r].step \in Active, NEW outcome \in Ended \ {"superseded"},
         NEW commits \in Nat, Finish(r, outcome, commits), UNCHANGED <<head, infra>>,
         outcome = "green" => PinOf(r) \in Dev(runs[r].s)
  PROVE  AllKnown'
<1>1. DOMAIN runs' = DOMAIN runs /\ \A q \in DOMAIN runs :
        /\ runs'[q].s = runs[q].s /\ runs'[q].c = runs[q].c
        /\ q = r => runs'[q].step = outcome
        /\ q # r => runs'[q].step \in {runs[q].step, "resolve"}
  BY FinishIs DEF Inv1, RunsTyped, Ended
<1>2. QED  BY <1>1, StepKeepsKnown

LEMMA KnownNext == ~AnyOrder /\ Inv1 /\ Inv2 /\ AllKnown /\ [Next]_vars => AllKnown'
<1> SUFFICES ASSUME ~AnyOrder, Inv1, Inv2, AllKnown, [Next]_vars PROVE AllKnown'  OBVIOUS
<1>1. /\ Typed /\ RunsTyped /\ Len(infra) \in Nat
      /\ \A q \in DOMAIN runs : runs[q] \in Run
  BY LenProperties, NumbersAre DEF Inv1, Typed
\* One run changes and does not turn green.
<1>2. ASSUME UNCHANGED <<head, infra>>, NEW r \in DOMAIN runs, DOMAIN runs' = DOMAIN runs,
             \A q \in DOMAIN runs : q # r => runs'[q] = runs[q],
             runs'[r].s = runs[r].s, runs'[r].c = runs[r].c,
             runs'[r].step \in {runs[r].step} \cup Active \cup {"stopped"}
      PROVE  AllKnown'
  BY <1>2, StepKeepsKnown DEF Active
<1>3. ASSUME NEW r \in DOMAIN runs, NEW st \in Active \cup {"stopped"}, Goto(r, st),
             UNCHANGED <<head, infra>>
      PROVE  AllKnown'
  <2>1. /\ DOMAIN runs' = DOMAIN runs /\ \A q \in DOMAIN runs : q # r => runs'[q] = runs[q]
        /\ runs'[r].s = runs[r].s /\ runs'[r].c = runs[r].c /\ runs'[r].step = st
    BY <1>1, <1>3 DEF Goto, Run
  <2>2. QED  BY <1>2, <1>3, <2>1
<1>4. ASSUME NEW s \in Services, Land(s) PROVE AllKnown'
  <2>1. head[s] + 1 \in Commits
    BY <1>1, <1>4, BoundAssumption DEF Land, Typed, Commits
  <2>2. head' = [head EXCEPT ![s] = head[s] + 1]
    BY <1>4 DEF Land
  <2>3. QED  BY <1>4, <2>1, <2>2, EnterKeepsKnown DEF Land
<1>5. ASSUME NEW s \in Services, Dispatch(s) PROVE AllKnown'
  <2>1. head[s] \in Commits /\ head' = [head EXCEPT ![s] = head[s]]
    BY <1>1, <1>5, BoundAssumption DEF Dispatch, Typed, Commits
  <2>2. QED  BY <1>5, <2>1, EnterKeepsKnown DEF Dispatch
<1>6. ASSUME MoveContent PROVE AllKnown'
  BY <1>6, StepKeepsKnown DEF MoveContent
<1>7. ASSUME NEW r \in DOMAIN runs, Rerun(r) PROVE AllKnown'
  <2>1. /\ runs[r].s \in Services /\ runs[r].c \in Commits /\ runs[r].c = head[runs[r].s]
        /\ head' = [head EXCEPT ![runs[r].s] = runs[r].c]
    BY <1>1, <1>7 DEF Rerun, Run, Typed
  <2>2. QED  BY <1>7, <2>1, EnterKeepsKnown DEF Rerun
<1>8. ASSUME NEW r \in DOMAIN runs, ProbeBuild(r) \/ PublishImage(r) \/ BuildFails(r) PROVE AllKnown'
  <2>1. /\ UNCHANGED <<head, infra>> /\ DOMAIN runs' = DOMAIN runs
        /\ \A q \in DOMAIN runs : /\ runs'[q].s = runs[q].s /\ runs'[q].c = runs[q].c
                                  /\ runs'[q].step = runs[q].step
    BY <1>1, <1>8 DEF ProbeBuild, PublishImage, BuildFails, Run
  <2>2. QED  BY <2>1, StepKeepsKnown
<1>9. ASSUME NEW r \in DOMAIN runs, ResolveInputs(r) PROVE AllKnown'
  <2>1. /\ UNCHANGED <<head, infra>> /\ DOMAIN runs' = DOMAIN runs
        /\ \A q \in DOMAIN runs : q # r => runs'[q] = runs[q]
        /\ runs'[r].s = runs[r].s /\ runs'[r].c = runs[r].c /\ runs'[r].step = "upload"
    BY <1>1, <1>9 DEF ResolveInputs, Run
  <2>2. QED  BY <1>2, <2>1 DEF Active
<1>10. ASSUME NEW r \in DOMAIN runs, UploadSource(r) \/ PushRaceLost(r) PROVE AllKnown'
  BY <1>3, <1>10 DEF UploadSource, PushRaceLost, Active
<1>11. ASSUME NEW r \in DOMAIN runs, StartBuild(r) PROVE AllKnown'
  <2>1. /\ UNCHANGED <<head, infra>> /\ DOMAIN runs' = DOMAIN runs
        /\ \A q \in DOMAIN runs : q # r => runs'[q] = runs[q]
        /\ runs'[r].s = runs[r].s /\ runs'[r].c = runs[r].c /\ runs'[r].step = "poll"
    BY <1>1, <1>11 DEF StartBuild, Run
  <2>2. QED  BY <1>2, <2>1 DEF Active
<1>12. ASSUME NEW r \in DOMAIN runs, PollBuild(r) PROVE AllKnown'
  <2>1. runs[r].step \in Active /\ "red" \in Ended \ {"superseded"} /\ "fetch" \in Active
    BY <1>12 DEF PollBuild, At, Active, Ended
  <2>2. CASE Goto(r, "fetch")
    BY <1>3, <1>12, <2>1, <2>2 DEF PollBuild
  <2>3. CASE Finish(r, "red", Len(infra))
    BY <1>1, <1>12, <2>1, <2>3, FinishKeepsKnown DEF PollBuild
  <2>4. QED  BY <1>12, <2>2, <2>3 DEF PollBuild
<1>13. ASSUME NEW r \in DOMAIN runs, FetchInfra(r) PROVE AllKnown'
  <2>1. /\ runs[r].step \in Active /\ "green" \in Ended \ {"superseded"}
        /\ UNCHANGED <<head, infra>>
    BY <1>13 DEF FetchInfra, At, Active, Ended
  <2>2. CASE PinOf(r) \in Dev(runs[r].s) /\ Finish(r, "green", Len(infra))
    BY <1>1, <2>1, <2>2, FinishKeepsKnown
  <2>3. CASE runs' = [runs EXCEPT ![r].step = "push", ![r].base = Len(infra)]
    <3>1. /\ DOMAIN runs' = DOMAIN runs /\ \A q \in DOMAIN runs : q # r => runs'[q] = runs[q]
          /\ runs'[r].s = runs[r].s /\ runs'[r].c = runs[r].c /\ runs'[r].step = "push"
      BY <1>1, <2>3 DEF Run
    <3>2. QED  BY <1>2, <2>1, <3>1 DEF Active
  <2>4. QED  BY <1>13, <2>2, <2>3 DEF FetchInfra
<1>14. ASSUME NEW r \in DOMAIN runs, PushPin(r) PROVE AllKnown'
  <2>1. /\ At(r, "push") /\ runs[r].step \in Active /\ "green" \in Ended
        /\ infra' = Append(infra, PinOf(r)) /\ Finish(r, "green", Len(infra'))
        /\ images' = images /\ UNCHANGED head
    BY <1>14 DEF PushPin, At, Active, Ended
  <2>2. Len(infra') \in Nat
    <3>1. Tagged(r)  BY <2>1 DEF Inv1, RunsOK, RunOK, At
    <3>2. QED  BY <2>1, <3>1, PinKeepsPublished
  <2>3. DOMAIN runs' = DOMAIN runs /\ \A q \in DOMAIN runs :
           /\ runs'[q].s = runs[q].s /\ runs'[q].c = runs[q].c
           /\ q # r => runs'[q].step \in {runs[q].step, "resolve"}
    BY <1>1, <2>1, <2>2, FinishIs DEF RunsTyped
  <2>4. QED  BY <2>1, <2>3, PushKeepsKnown
<1>15. ASSUME NEW r \in DOMAIN runs, PushUnacknowledged(r) PROVE AllKnown'
  <2>1. /\ DOMAIN runs' = DOMAIN runs /\ \A q \in DOMAIN runs : q # r => runs'[q] = runs[q]
        /\ runs'[r].s = runs[r].s /\ runs'[r].c = runs[r].c
    BY <1>1, <1>15 DEF PushUnacknowledged, Goto, Run
  <2>2. QED  BY <1>15, <2>1, PushKeepsKnown DEF PushUnacknowledged
<1>16. ASSUME NEW r \in DOMAIN runs, RunFails(r) PROVE AllKnown'
  <2>1. runs[r].step \in Active /\ "red" \in Ended \ {"superseded"}
    BY <1>16, LossAssumption DEF RunFails, Ended
  <2>2. QED  BY <1>1, <1>16, <2>1, FinishKeepsKnown DEF RunFails
<1>17. ASSUME NEW r \in DOMAIN runs, Stop(r) PROVE AllKnown'
  <2>1. "stopped" \in Ended \ {"superseded"} /\ UNCHANGED <<head, infra>>
    BY <1>17 DEF Stop, Ended
  <2>2. CASE At(r, "queued") /\ Goto(r, "stopped")  BY <1>3, <2>1, <2>2
  <2>3. CASE ~At(r, "queued") /\ Finish(r, "stopped", Len(infra))
    <3>1. runs[r].step \in Active  BY <1>17, <2>3, LossAssumption DEF Stop, At
    <3>2. QED  BY <1>1, <2>1, <2>3, <3>1, FinishKeepsKnown
  <2>4. QED  BY <1>17, <2>2, <2>3 DEF Stop
<1>18. ASSUME UNCHANGED vars PROVE AllKnown'
  BY <1>18 DEF vars, AllKnown, Known, Dev, Of
<1>19. QED
  BY <1>4, <1>5, <1>6, <1>7, <1>8, <1>9, <1>10, <1>11, <1>12, <1>13, <1>14, <1>15, <1>16, <1>17,
     <1>18 DEF Next, BuildStep, RunStep

\* Where no run of an older commit is repeated, a service that nothing runs for
\* has its newest commit in dev, or a run of that commit ended red or was
\* stopped by hand: neither a superseded run nor a push of another service into
\* the shared repository (the push loop of deploy-reusable.yaml) loses a commit.
THEOREM CommitsAreNotForgotten ==
  ASSUME ~AnyOrder
  PROVE  Spec => []NoForgottenCommit
<1>1. Init => AllKnown
  BY DEF Init, AllKnown, Known
<1>2. Inv1 /\ AllKnown => NoForgottenCommit
  <2> SUFFICES ASSUME Inv1, AllKnown, NEW s \in Services, \A r \in Of(s) : ~Live(r), head[s] > 0
               PROVE  \/ \E p \in Dev(s) : p.c = head[s]
                      \/ \E r \in Of(s) : runs[r].c = head[s] /\ runs[r].step \in {"red", "stopped"}
    BY DEF NoForgottenCommit
  <2>1. QED  BY DEF AllKnown, Known, Live, Ended
<1>3. Inv1 /\ Inv2 /\ AllKnown /\ [Next]_vars => AllKnown'
  BY KnownNext
<1>4. Inv1 /\ Inv2 /\ [Next]_vars => Inv2'
  BY Inv2Next
<1>5. QED  BY <1>1, <1>2, <1>3, <1>4, Inv1Init, Inv1Next, Inv2Init, PTL DEF Spec

-----------------------------------------------------------------------------
(* Delivery implements the rollout *)

\* A push is a release: the pin it adds names a published image, and what the
\* service ran before is no newer.
LEMMA PushReleases ==
  ASSUME Inv1, Inv2, NEW r \in DOMAIN runs, At(r, "push"), infra' = Append(infra, PinOf(r)), images' = images
  PROVE  Environment!Next
<1> DEFINE dev == [s \in Services |-> Dev(s)]
<1>1. runs[r].s \in Services /\ Tagged(r) /\ RunFollows(r)
  BY NumbersAre DEF Inv1, RunsOK, RunOK, At, Inv2, RunsFollow
<1>2. dev' = [dev EXCEPT ![runs[r].s] = {PinOf(r)}]
  BY <1>1, DevAfterPush
<1>3. ASSUME NEW q \in dev[runs[r].s] PROVE q.c <= runs[r].c /\ q.in <= runs[r].in
  <2>1. PICK i \in DOMAIN infra : infra[i].s = runs[r].s /\ q = infra[i]
    BY <1>1, <1>3 DEF Dev
  <2>2. Live(r) /\ runs[r].step \in Active \ {"resolve"}
    BY DEF At, Live, Active, Ended
  <2>3. QED  BY <1>1, <2>1, <2>2 DEF RunFollows
<1>4. PinOf(r).s = runs[r].s /\ PinOf(r).c = runs[r].c /\ PinOf(r).in = runs[r].in
  BY DEF PinOf
<1>5. \E i \in images : Environment!Tag(i) = Environment!Tag(PinOf(r))
  BY <1>1, <1>4 DEF Tagged, Environment!Tag
<1>6. PinOf(r) \in dev'[runs[r].s]
  BY <1>1, <1>2
<1>7. Environment!Release(PinOf(r))
  BY <1>1, <1>2, <1>3, <1>4, <1>5 DEF Environment!Release
<1>8. QED  BY <1>1, <1>6, <1>7 DEF Environment!Next

\* A build that finds its tag free publishes; nothing else touches the registry.
LEMMA BuildPublishes ==
  ASSUME Inv1, NEW r \in DOMAIN runs, PublishImage(r)
  PROVE  Environment!Next \/ UNCHANGED <<images, [s \in Services |-> Dev(s)]>>
<1> DEFINE im == [s |-> runs[r].s, c |-> runs[r].c, in |-> runs[r].in, holds |-> runs[r].build.got]
<1>1. infra' = infra /\ UNCHANGED [s \in Services |-> Dev(s)]
  BY DEF PublishImage, Dev
<1>2. CASE Tagged(r)
  BY <1>1, <1>2 DEF PublishImage
<1>3. CASE ~Tagged(r)
  <2>1. images' = images \cup {im}
    BY <1>3 DEF PublishImage
  <2>2. im.s = runs[r].s /\ im.c = runs[r].c /\ im.in = runs[r].in
    OBVIOUS
  <2> HIDE DEF im
  <2>3. \A j \in images : Environment!Tag(j) # Environment!Tag(im)
    BY <1>3, <2>2 DEF Tagged, Environment!Tag
  <2>4. Environment!Publish(im) /\ im \in images'
    BY <1>1, <2>1, <2>3 DEF Environment!Publish
  <2>5. QED  BY <2>4 DEF Environment!Next
<1>4. QED  BY <1>2, <1>3

\* Where no run of an older commit is repeated, delivery (deploy-reusable.yaml
\* with the canonical build and the registry) implements the rollout: an
\* environment sees one image per tag, and each service move from one published
\* image to one as new, whoever pushes, fails, is cancelled or loses an answer.
THEOREM ImplementsTheRollout ==
  ASSUME ~AnyOrder
  PROVE  Spec => ImplementsRollout
<1>1. Init => Environment!Init
  BY DEF Init, Environment!Init, Dev
<1>2. Inv1 /\ Inv2 /\ [Next]_vars => [Environment!Next]_<<images, [s \in Services |-> Dev(s)]>>
  <2> SUFFICES ASSUME Inv1, Inv2, Next PROVE Environment!Next \/ UNCHANGED <<images, [s \in Services |-> Dev(s)]>>
    BY DEF vars, Dev
  <2>1. ASSUME UNCHANGED <<images, infra>> PROVE UNCHANGED <<images, [s \in Services |-> Dev(s)]>>
    BY <2>1 DEF Dev
  <2>2. ASSUME NEW r \in DOMAIN runs, PublishImage(r)
        PROVE  Environment!Next \/ UNCHANGED <<images, [s \in Services |-> Dev(s)]>>
    BY <2>2, BuildPublishes
  <2>3. ASSUME NEW r \in DOMAIN runs, PushPin(r) \/ PushUnacknowledged(r) PROVE Environment!Next
    BY <2>3, PushReleases DEF PushPin, PushUnacknowledged
  <2>4. ASSUME NEW s \in Services, Land(s) \/ Dispatch(s) PROVE UNCHANGED <<images, infra>>
    BY <2>4 DEF Land, Dispatch
  <2>5. MoveContent => UNCHANGED <<images, infra>>
    BY DEF MoveContent
  <2>6. ASSUME NEW r \in DOMAIN runs,
               \/ Rerun(r) \/ ProbeBuild(r) \/ BuildFails(r) \/ ResolveInputs(r) \/ UploadSource(r)
               \/ StartBuild(r) \/ PollBuild(r) \/ FetchInfra(r) \/ PushRaceLost(r) \/ RunFails(r) \/ Stop(r)
        PROVE  UNCHANGED <<images, infra>>
    BY <2>6 DEF Rerun, ProbeBuild, BuildFails, ResolveInputs, UploadSource, StartBuild, PollBuild,
                FetchInfra, PushRaceLost, RunFails, Stop
  <2>7. QED  BY <2>1, <2>2, <2>3, <2>4, <2>5, <2>6 DEF Next, BuildStep, RunStep
<1>3. Inv1 /\ Inv2 /\ [Next]_vars => Inv2'
  BY Inv2Next
<1>4. QED
  BY <1>1, <1>2, <1>3, Inv1Init, Inv1Next, Inv2Init, PTL DEF Spec, ImplementsRollout, Environment!Spec
=============================================================================
