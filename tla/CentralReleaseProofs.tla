------------------------ MODULE CentralReleaseProofs ------------------------
(***************************************************************************)
(* v1 is only ever put on a commit whose CI succeeded, for every number of *)
(* commits and every way CI runs and release runs fail, are cancelled and  *)
(* are re-run, whatever major a person cuts by hand.  While releases are   *)
(* re-run in order, v1 never moves back; until a major is cut, tags grow   *)
(* along main and nothing breaking gets under v1; no release is a flag day *)
(* of the reference window, and what a release accepts besides its own set *)
(* was released.                                                           *)
(*                                                                         *)
(* The properties of the order are not about one step: the runs that move  *)
(* v1 read nothing of it.  What makes them true is the concurrency group:  *)
(* one run works, one waits (Group), the one that waits is for a later     *)
(* commit, and neither is behind v1 (InOrder) or a tag (Hist).  So what    *)
(* the active run read of the tags is what there is, and the tag its       *)
(* reference was checked against is on the commit v1 holds the fleet to    *)
(* (Window); what it accepts comes from there (Provenance).                *)
(***************************************************************************)
EXTENDS CentralRelease, SequenceTheorems, TLAPS

Live(c) == rel[c].step \in Active
Waits(c) == rel[c].step = "queued"

Group ==
  /\ \A c, d \in 1 .. head : Live(c) /\ Live(d) => c = d
  /\ \A c, d \in 1 .. head : Waits(c) /\ Waits(d) => c = d

\* Unless releases are re-run out of order.
InOrder ==
  /\ \A c, d \in 1 .. head : Live(c) /\ Waits(d) => c < d
  /\ \A c \in 1 .. head : Live(c) \/ Waits(c) => v1 <= c

\* A run that moves v1 has tagged its commit, and so has the one that did; the
\* tag was bumped from another one.
Tagged(c) == \E t \in tags : t.c = c
Traced ==
  /\ Tagged(v1)
  /\ \A c \in 1 .. head : /\ rel[c].step = "move" => Tagged(c)
                          /\ rel[c].step \in {"floor", "tag"} => rel[c].prev \in Tag

Passed(c) == "success" \in Conclusions(c)
Verified ==
  /\ Passed(v1)
  /\ \A c \in 1 .. head : rel[c].step \in {"version", "floor", "tag", "move"} => Passed(c)

IInv == TypeOK /\ Group /\ (AnyOrder \/ InOrder) /\ Traced /\ Verified

-----------------------------------------------------------------------------
(* Types *)

\* Commits of main are numbered from 1 to head, and there are finitely many.
LEMMA HeadTyped ==
  ASSUME TypeOK
  PROVE  /\ head \in Nat /\ 1 <= head /\ head <= MaxCommit
         /\ \A c \in 1 .. head : c \in Commits /\ c \in Nat /\ log[c] \in Commit
<1>1. head \in Nat /\ 1 <= head /\ head <= MaxCommit
  BY BoundAssumption DEF TypeOK, Commits
<1>2. \A c \in 1 .. head : log[c] \in Commit
  BY ElementOfSeq DEF TypeOK, head
<1>3. QED
  BY <1>1, <1>2, BoundAssumption DEF Commits

\* A bare run is a run.
LEMMA BareTyped ==
  ASSUME NEW step \in Active \cup Ended \cup {"queued"}
  PROVE  Bare(step) \in Run /\ Bare(step).step = step
BY DEF Bare, Run

\* Every increment of a version is a version.
LEMMA NextVersionTyped ==
  ASSUME NEW v \in Version, NEW bump
  PROVE  NextVersion(v, bump) \in Version
BY DEF NextVersion, Version

\* A landed commit carries a reference artifact, whoever wrote it.
LEMMA RefsTyped ==
  ASSUME TypeOK, NEW ref \in Refs
  PROVE  ref \in Reference
<1>1. \A c \in 1 .. head : Ref(c) \in Reference
  BY HeadTyped DEF Commit, Ref
<1>2. Ref(head) \in Reference
  BY <1>1, HeadTyped
<1>3. \A r \in Reference : \A h \in StageNext(r) : h \in Reference
  BY DEF StageNext, Reference
<1>4. \A r \in Reference : \A h \in PromoteNext(r) : h \in Reference
  BY DEF PromoteNext, Reference, None
<1>5. \A r \in Reference : \A h \in DropSet(r) : h \in Reference
  BY DEF DropSet, Reference, Roles
<1>6. \A r \in Reference : \A h \in RaiseFloor(r) : h \in Reference
  BY DEF RaiseFloor, Reference
<1>7. QED
  BY <1>1, <1>2, <1>3, <1>4, <1>5, <1>6, ReferenceAssumption DEF Refs, Edits

-----------------------------------------------------------------------------
(* The steps of a release run *)

\* Going on inside the group keeps the invariant, if the gate was passed for
\* what lies behind it and the tag pushed for the move.
LEMMA GoesOn ==
  ASSUME IInv, NEW c \in 1 .. head, Live(c),
         NEW r \in Run, r.step \in Active, rel' = [rel EXCEPT ![c] = r],
         UNCHANGED <<log, ci, v1>>, tags \subseteq tags', tags' \subseteq Tag,
         r.step = "move" => \E t \in tags' : t.c = c,
         r.step \in {"floor", "tag"} => r.prev \in Tag,
         r.step \in {"version", "floor", "tag", "move"} => Passed(c)
  PROVE  IInv'
<1>1. head' = head
  BY DEF head
<1>2. rel' \in [1 .. head -> Run]
  BY DEF IInv, TypeOK
<1>3. \A d \in 1 .. head : rel'[d] = IF d = c THEN r ELSE rel[d]
  BY DEF IInv, TypeOK
<1>4. TypeOK'
  BY <1>1, <1>2 DEF IInv, TypeOK
<1>5. Group' /\ (AnyOrder \/ InOrder')
  <2>1. \A d \in 1 .. head : Live(d)' <=> Live(d)
    BY <1>3 DEF Live, Active
  <2>2. \A d \in 1 .. head : Waits(d)' <=> Waits(d)
    BY <1>3 DEF Live, Waits, Active
  <2>3. QED
    BY <1>1, <2>1, <2>2 DEF IInv, Group, InOrder
<1>6. Traced'
  BY <1>1, <1>3 DEF IInv, Traced, Tagged
<1>7. Verified'
  BY <1>1, <1>3 DEF IInv, Verified, Passed, Conclusions
<1>8. QED
  BY <1>4, <1>5, <1>6, <1>7 DEF IInv

\* Leaving the group keeps the invariant: the run that waited is for a later
\* commit than the one that leaves, even if that one has just moved v1.
LEMMA Leaves ==
  ASSUME IInv, NEW c \in 1 .. head, Live(c), NEW o \in Ended, Finish(c, o),
         UNCHANGED <<log, ci, tags>>,
         v1' = v1 \/ (v1' = c /\ Tagged(c) /\ Passed(c))
  PROVE  IInv'
<1>1. head' = head
  BY DEF head
<1>2. \A d \in 1 .. head : d <= head
  BY HeadTyped DEF IInv
<1>3. /\ rel' \in [1 .. head -> Run]
      /\ \A d \in 1 .. head : rel'[d].step = IF d = c THEN o
                                             ELSE IF Waits(d) THEN "checkout" ELSE rel[d].step
      /\ \A d \in 1 .. head : rel'[d].step \in {"floor", "tag", "move"} => rel'[d] = rel[d]
  <2>1. Bare(o) \in Run /\ Bare(o).step = o
    BY BareTyped
  <2>2. Bare("checkout") \in Run /\ Bare("checkout").step = "checkout"
    BY BareTyped DEF Active
  <2>3. \A d \in 1 .. head : rel'[d] = IF d = c THEN Bare(o)
                                       ELSE IF Waits(d) THEN Bare("checkout") ELSE rel[d]
    BY <1>2 DEF Finish, At, Waits
  <2>4. rel' = [d \in 1 .. head |-> rel'[d]]
    BY DEF Finish
  <2>5. \A d \in 1 .. head : rel'[d] \in Run
    BY <2>1, <2>2, <2>3 DEF IInv, TypeOK
  <2>6. QED
    BY <2>1, <2>2, <2>3, <2>4, <2>5 DEF Ended
<1>4. TypeOK'
  BY <1>1, <1>3 DEF IInv, TypeOK
<1>5. \A d \in 1 .. head : /\ ~Waits(d)'
                           /\ Live(d)' => d # c /\ Waits(d)
  <2>1. SUFFICES ASSUME NEW d \in 1 .. head
                 PROVE  ~Waits(d)' /\ (Live(d)' => d # c /\ Waits(d))
    OBVIOUS
  <2>2. Live(d) => d = c
    BY DEF IInv, Group
  <2>3. QED
    BY <1>3, <2>2 DEF Live, Waits, Active, Ended
<1>6. AnyOrder \/ InOrder'
  <2>1. SUFFICES ASSUME InOrder, NEW d \in 1 .. head, Live(d)'
                 PROVE  v1' <= d
    BY <1>1, <1>5 DEF IInv, InOrder
  <2>2. c < d /\ v1 <= d
    BY <1>5, <2>1 DEF InOrder
  <2>3. QED
    BY <2>2
<1>7. Group'
  BY <1>1, <1>5 DEF IInv, Group
<1>8. Traced'
  BY <1>1, <1>3 DEF IInv, Traced, Tagged, Ended
<1>9. Verified'
  BY <1>1, <1>3 DEF IInv, Verified, Passed, Conclusions, Ended
<1>10. QED
  BY <1>4, <1>6, <1>7, <1>8, <1>9 DEF IInv

\* Each step of the run of one commit keeps the invariant.
LEMMA ProgressKeeps ==
  ASSUME IInv, NEW c \in 1 .. head, Progress(c)
  PROVE  IInv'
<1>1. rel[c] \in Run /\ c \in Commits
  BY HeadTyped DEF IInv, TypeOK
<1>2. \A step \in Active : At(c, step) => Live(c)
  BY DEF At, Live
<1>3. CASE Checkout(c)
  <2>1. PICK r : r = [rel[c] EXCEPT !.step = "gate", !.seen = tags]
    OBVIOUS
  <2>2. r \in Run /\ r.step = "gate"
    BY <1>1, <2>1 DEF Run, Active, IInv, TypeOK
  <2>3. rel' = [rel EXCEPT ![c] = r] /\ Live(c)
    BY <1>2, <1>3, <2>1 DEF Checkout, Active
  <2>4. QED
    BY <1>3, <2>2, <2>3, GoesOn DEF Checkout, Active, IInv, TypeOK
<1>4. CASE RequireCI(c)
  <2>1. Live(c)
    BY <1>2, <1>4 DEF RequireCI, Active
  <2>2. CASE Finish(c, "red")
    BY <1>4, <2>1, <2>2, Leaves DEF RequireCI, Ended
  <2>3. CASE Good(c) /\ Goto(c, "version")
    <3>1. PICK r : r = [rel[c] EXCEPT !.step = "version"]
      OBVIOUS
    <3>2. r \in Run /\ r.step = "version"
      BY <1>1, <3>1 DEF Run, Active
    <3>3. rel' = [rel EXCEPT ![c] = r]
      BY <2>3, <3>1 DEF Goto
    <3>4. Passed(c)
      BY <2>3 DEF Good, Passed
    <3>5. QED
      BY <1>4, <2>1, <3>2, <3>3, <3>4, GoesOn DEF RequireCI, Active, IInv, TypeOK
  <2>4. QED
    BY <1>4, <2>2, <2>3 DEF RequireCI
<1>5. CASE ResolveVersion(c)
  <2>1. Live(c)
    BY <1>2, <1>5 DEF ResolveVersion, Active
  <2>2. CASE \E o \in {"green", "red"} : Finish(c, o)
    BY <1>5, <2>1, <2>2, Leaves DEF ResolveVersion, Ended
  <2>3. ASSUME NEW t \in Newest(rel[c].seen), rel' = [rel EXCEPT ![c].step = "floor", ![c].prev = t]
        PROVE  IInv'
    <3>1. PICK r : r = [rel[c] EXCEPT !.step = "floor", !.prev = t]
      OBVIOUS
    <3>2. t \in Tag
      BY <1>1 DEF Newest, Run
    <3>3. r \in Run /\ r.step = "floor" /\ r.prev \in Tag
      BY <1>1, <3>1, <3>2 DEF Run, Active
    <3>4. rel' = [rel EXCEPT ![c] = r]
      BY <2>3, <3>1
    <3>5. Passed(c)
      BY <1>5 DEF ResolveVersion, At, IInv, Verified
    <3>6. QED
      BY <1>5, <2>1, <3>3, <3>4, <3>5, GoesOn DEF ResolveVersion, Active, IInv, TypeOK
  <2>4. QED
    BY <1>5, <2>2, <2>3 DEF ResolveVersion
<1>6. CASE VerifyFloor(c)
  <2>1. Live(c) /\ Passed(c) /\ rel[c].prev \in Tag
    BY <1>2, <1>6 DEF VerifyFloor, Active, At, IInv, Verified, Traced
  <2>2. CASE Finish(c, "red")
    BY <1>6, <2>1, <2>2, Leaves DEF VerifyFloor, Ended
  <2>3. CASE Goto(c, "tag")
    <3>1. PICK r : r = [rel[c] EXCEPT !.step = "tag"]
      OBVIOUS
    <3>2. r \in Run /\ r.step = "tag" /\ r.prev \in Tag
      BY <1>1, <2>1, <3>1 DEF Run, Active
    <3>3. rel' = [rel EXCEPT ![c] = r]
      BY <2>3, <3>1 DEF Goto
    <3>4. QED
      BY <1>6, <2>1, <3>2, <3>3, GoesOn DEF VerifyFloor, Active, IInv, TypeOK
  <2>4. QED
    BY <1>6, <2>2, <2>3 DEF VerifyFloor
<1>7. CASE PushTag(c)
  <2>1. Live(c) /\ Passed(c) /\ rel[c].prev \in Tag
    BY <1>2, <1>7 DEF PushTag, Active, At, IInv, Verified, Traced
  <2>2. CASE Finish(c, "red") /\ UNCHANGED tags
    BY <1>7, <2>1, <2>2, Leaves DEF PushTag, Ended
  <2>3. CASE Goto(c, "move") /\ tags' = tags \cup {[v |-> NewVersion(c), c |-> c]}
    <3>1. PICK r : r = [rel[c] EXCEPT !.step = "move"]
      OBVIOUS
    <3>2. r \in Run /\ r.step = "move"
      BY <1>1, <3>1 DEF Run, Active
    <3>3. rel' = [rel EXCEPT ![c] = r]
      BY <2>3, <3>1 DEF Goto
    <3>4. NewVersion(c) \in Version
      BY <2>1, NextVersionTyped DEF NewVersion, Tag
    <3>5. [v |-> NewVersion(c), c |-> c] \in Tag
      BY <1>1, <3>4 DEF Tag
    <3>6. tags \subseteq tags' /\ tags' \subseteq Tag /\ \E t \in tags' : t.c = c
      BY <2>3, <3>5 DEF IInv, TypeOK
    <3>7. QED
      BY <1>7, <2>1, <3>2, <3>3, <3>6, GoesOn DEF PushTag, Active
  <2>4. QED
    BY <1>7, <2>2, <2>3 DEF PushTag
<1>8. CASE MoveV1(c)
  <2>1. Live(c) /\ Passed(c) /\ Tagged(c)
    BY <1>2, <1>8 DEF MoveV1, Active, At, IInv, Verified, Traced
  <2>2. QED
    BY <1>8, <2>1, Leaves DEF MoveV1, Ended
<1>9. CASE Fail(c)
  BY <1>9, Leaves, LossAssumption DEF Fail, Ended, Live
<1>10. QED
  BY <1>3, <1>4, <1>5, <1>6, <1>7, <1>8, <1>9 DEF Progress

-----------------------------------------------------------------------------
(* Entering the group *)

\* Cancelling the run that waits leaves the others as they are.
LEMMA CancelQueuedTyped ==
  ASSUME TypeOK
  PROVE  /\ CancelQueued(rel) \in [1 .. head -> Run]
         /\ \A d \in 1 .. head : CancelQueued(rel)[d].step =
                                   IF Waits(d) THEN "cancelled" ELSE rel[d].step
<1>1. \A d \in 1 .. head : [rel[d] EXCEPT !.step = Superseded(@, "queued")] \in Run
  <2>1. SUFFICES ASSUME NEW d \in 1 .. head
                 PROVE  [rel[d] EXCEPT !.step = Superseded(@, "queued")] \in Run
    OBVIOUS
  <2>2. rel[d] \in Run
    BY DEF TypeOK
  <2>3. Superseded(rel[d].step, "queued") \in Active \cup Ended \cup {"queued"}
    BY <2>2 DEF Superseded, Run, Ended
  <2>4. QED
    BY <2>2, <2>3 DEF Run
<1>2. DOMAIN rel = 1 .. head
  BY DEF TypeOK
<1>3. \A d \in 1 .. head : [rel[d] EXCEPT !.step = Superseded(@, "queued")].step
                             = Superseded(rel[d].step, "queued")
  BY DEF TypeOK, Run
<1>4. QED
  BY <1>1, <1>2, <1>3 DEF CancelQueued, Superseded, Waits

\* Re-running a commit keeps the invariant: it waits if another run works.  If it
\* was not overtaken, v1, which is at a tagged commit, is not past this one.
LEMMA RerunKeeps ==
  ASSUME IInv, NEW c \in 1 .. head, Rerun(c)
  PROVE  IInv'
<1>1. head' = head /\ ci' = ci /\ tags' = tags /\ v1' = v1 /\ log' = log
  BY DEF Rerun, head
<1>2. rel[c].step \in Ended /\ (AnyOrder \/ ~Overtaken(c))
  BY DEF Rerun
<1>3. PICK e : e = Entering
  OBVIOUS
<1>4. e \in Run /\ e.step = IF Busy THEN "queued" ELSE "checkout"
  BY <1>3, BareTyped DEF Entering, Active
<1>5. rel' = [CancelQueued(rel) EXCEPT ![c] = e]
  BY <1>3 DEF Rerun
<1>6. /\ rel' \in [1 .. head -> Run]
      /\ \A d \in 1 .. head : rel'[d].step = IF d = c THEN e.step
                                             ELSE IF Waits(d) THEN "cancelled" ELSE rel[d].step
  BY <1>4, <1>5, CancelQueuedTyped DEF IInv
<1>7. TypeOK'
  BY <1>1, <1>6 DEF IInv, TypeOK
<1>8. \A d \in 1 .. head : /\ Waits(d)' => d = c /\ Busy
                           /\ Live(d)' => Live(d) \/ (d = c /\ ~Busy)
  BY <1>4, <1>6 DEF Waits, Live, Active
<1>9. \A d \in 1 .. head : Live(d) => Busy /\ d # c
  BY <1>2 DEF Busy, Live, Active, Ended
<1>10. Group'
  BY <1>1, <1>8, <1>9 DEF IInv, Group
<1>11. AnyOrder \/ InOrder'
  <2>1. SUFFICES ASSUME ~AnyOrder
                 PROVE  InOrder'
    OBVIOUS
  <2>2. \A d \in 1 .. head : Live(d) => d < c
    <3>1. SUFFICES ASSUME NEW d \in 1 .. head, Live(d)
                   PROVE  d < c
      OBVIOUS
    <3>2. d \notin (c + 1) .. head
      BY <1>2, <2>1, <3>1 DEF Overtaken, Live, Active, Ended
    <3>3. QED
      BY <1>9, <3>1, <3>2, HeadTyped DEF IInv
  <2>3. v1 <= c
    <3>1. PICK t \in tags : t.c = v1
      BY DEF IInv, Traced, Tagged
    <3>2. ~(t.c > c)
      BY <1>2, <2>1 DEF Overtaken
    <3>3. QED
      BY <3>1, <3>2, HeadTyped DEF IInv, TypeOK
  <2>4. QED
    BY <1>1, <1>8, <2>1, <2>2, <2>3 DEF IInv, InOrder
<1>12. Traced'
  <2>1. \A d \in 1 .. head : rel'[d].step \in {"move", "floor", "tag"} => rel'[d] = rel[d]
    <3>1. \A d \in 1 .. head : d # c => rel'[d] = [rel[d] EXCEPT !.step = Superseded(@, "queued")]
      BY <1>5 DEF CancelQueued, IInv, TypeOK
    <3>2. \A d \in 1 .. head : ~Waits(d) => [rel[d] EXCEPT !.step = Superseded(@, "queued")] = rel[d]
      BY DEF Waits, Superseded, IInv, TypeOK, Run
    <3>3. QED
      BY <1>4, <1>6, <3>1, <3>2
  <2>2. QED
    BY <1>1, <2>1 DEF IInv, Traced, Tagged
<1>13. Verified'
  BY <1>1, <1>4, <1>6 DEF IInv, Verified, Passed, Conclusions
<1>14. QED
  BY <1>7, <1>10, <1>11, <1>12, <1>13 DEF IInv

\* A commit that lands enters last and is ahead of v1.
LEMMA LandKeeps ==
  ASSUME IInv, NEW kind \in Kinds, NEW ref \in Refs, Land(kind, ref)
  PROVE  IInv'
<1>. DEFINE new == [kind |-> kind, ref |-> ref]
<1>1. new \in Commit
  BY RefsTyped DEF Commit, IInv
<1>2. log \in Seq(Commit) /\ log' = Append(log, new)
  BY DEF IInv, TypeOK, Land
<1>3. log' \in Seq(Commit) /\ head' = head + 1
  BY <1>1, <1>2, HeadTyped DEF head, IInv
<1>4. /\ head \in Nat /\ 1 <= head /\ head' \in Commits
      /\ \A d \in 1 .. head : d <= head /\ d \in 1 .. head' /\ d \in Nat
      /\ \A d \in 1 .. head' : d \in 1 .. head \/ (d = head' /\ ~(d <= head))
  BY <1>3, HeadTyped, BoundAssumption DEF Land, Commits, IInv
<1>5. /\ ci' \in [1 .. head' -> [push : Status, daily : Status]]
      /\ \A d \in 1 .. head : ci'[d] = ci[d]
  <2>1. [push |-> "none", daily |-> "none"] \in [push : Status, daily : Status]
    BY DEF Status
  <2>2. ci' = [d \in 1 .. head' |-> IF d <= head THEN ci[d] ELSE [push |-> "none", daily |-> "none"]]
    BY <1>3 DEF Land, Extend
  <2>3. QED
    BY <1>4, <2>1, <2>2 DEF IInv, TypeOK
<1>6. PICK e : e = Entering
  OBVIOUS
<1>7. e \in Run /\ e.step = IF Busy THEN "queued" ELSE "checkout"
  BY <1>6, BareTyped DEF Entering, Active
<1>8. rel' = [d \in 1 .. head' |-> IF d <= head THEN CancelQueued(rel)[d] ELSE e]
  BY <1>3, <1>6 DEF Land, Extend
<1>9. /\ rel' \in [1 .. head' -> Run]
      /\ \A d \in 1 .. head : rel'[d].step = IF Waits(d) THEN "cancelled" ELSE rel[d].step
      /\ rel'[head'] = e
  <2>1. PICK q : q = CancelQueued(rel)
    OBVIOUS
  <2>2. /\ q \in [1 .. head -> Run]
        /\ \A d \in 1 .. head : q[d].step = IF Waits(d) THEN "cancelled" ELSE rel[d].step
    BY <2>1, CancelQueuedTyped DEF IInv
  <2>3. rel' = [d \in 1 .. head' |-> IF d <= head THEN q[d] ELSE e]
    BY <1>8, <2>1
  <2>4. head' \in 1 .. head'
    BY <1>3, <1>4
  <2>5. (\A d \in 1 .. head : rel'[d] = q[d]) /\ rel'[head'] = e
    <3>1. \A d \in 1 .. head' : rel'[d] = IF d <= head THEN q[d] ELSE e
      BY <2>3
    <3>2. ~(head' <= head)
      BY <1>3, <1>4
    <3>3. QED
      BY <1>4, <2>4, <3>1, <3>2
  <2>6. \A d \in 1 .. head' : rel'[d] \in Run
    BY <1>4, <1>7, <2>2, <2>5
  <2>7. QED
    BY <2>2, <2>3, <2>5, <2>6
<1>10. v1' = v1 /\ tags' = tags
  BY DEF Land
<1>11. TypeOK'
  BY <1>3, <1>4, <1>5, <1>9, <1>10 DEF IInv, TypeOK
<1>12. \A d \in 1 .. head' : /\ Waits(d)' => d = head' /\ Busy
                             /\ Live(d)' => (d \in 1 .. head /\ Live(d)) \/ (d = head' /\ ~Busy)
  BY <1>4, <1>7, <1>9 DEF Waits, Live, Active
<1>13. \A d \in 1 .. head : Live(d) => Busy /\ d < head'
  BY <1>3, <1>4 DEF Busy, Live
<1>14. v1 <= head'
  BY <1>3, <1>4 DEF IInv, TypeOK
<1>15. Group' /\ (AnyOrder \/ InOrder')
  BY <1>10, <1>12, <1>13, <1>14 DEF IInv, Group, InOrder
<1>16. Traced'
  <2>1. \A d \in 1 .. head' : rel'[d].step \in {"move", "floor", "tag"} => d \in 1 .. head /\ rel'[d] = rel[d]
    <3>1. \A d \in 1 .. head : rel'[d] = [rel[d] EXCEPT !.step = Superseded(@, "queued")]
      BY <1>4, <1>8 DEF CancelQueued, IInv, TypeOK
    <3>2. \A d \in 1 .. head : ~Waits(d) => [rel[d] EXCEPT !.step = Superseded(@, "queued")] = rel[d]
      BY DEF Waits, Superseded, IInv, TypeOK, Run
    <3>3. QED
      BY <1>4, <1>7, <1>9, <3>1, <3>2
  <2>2. QED
    BY <1>10, <2>1 DEF IInv, Traced, Tagged
<1>17. Verified'
  <2>1. \A d \in 1 .. head : Passed(d)' <=> Passed(d)
    BY <1>5 DEF Passed, Conclusions
  <2>2. v1 \in 1 .. head
    BY DEF IInv, TypeOK
  <2>3. \A d \in 1 .. head' : rel'[d].step \in {"version", "floor", "tag", "move"} =>
          d \in 1 .. head /\ rel[d].step = rel'[d].step
    BY <1>4, <1>7, <1>9
  <2>4. QED
    BY <1>10, <2>1, <2>2, <2>3 DEF IInv, Verified, Passed, Conclusions
<1>18. QED
  BY <1>11, <1>15, <1>16, <1>17 DEF IInv

-----------------------------------------------------------------------------
(* CI and people *)

\* A run of CI that succeeded is never taken back.
LEMMA CIKeeps ==
  ASSUME IInv, UNCHANGED <<log, tags, v1, rel>>,
         ci' \in [1 .. head -> [push : Status, daily : Status]],
         \A c \in 1 .. head : Passed(c) => Passed(c)'
  PROVE  IInv'
<1>1. head' = head
  BY DEF head
<1>2. TypeOK'
  BY <1>1 DEF IInv, TypeOK
<1>3. Group' /\ (AnyOrder \/ InOrder')
  BY <1>1 DEF IInv, Group, InOrder, Live, Waits
<1>4. Traced'
  BY <1>1 DEF IInv, Traced, Tagged
<1>5. v1 \in 1 .. head /\ v1' = v1 /\ rel' = rel
  BY DEF IInv, TypeOK
<1>6. Verified'
  BY <1>1, <1>5 DEF IInv, Verified, Passed, Conclusions
<1>7. QED
  BY <1>2, <1>3, <1>4, <1>6 DEF IInv

\* Starting a run replaces one that did not succeed and cancels one that runs.
LEMMA StartCIKeeps ==
  ASSUME IInv, NEW c \in 1 .. head, NEW event \in {"push", "daily"}, StartCI(c, event)
  PROVE  IInv'
<1>1. DOMAIN ci = 1 .. head
  BY DEF IInv, TypeOK
<1>2. \A d \in 1 .. head : CancelCI(ci)[d] = [push  |-> Superseded(ci[d].push, "running"),
                                             daily |-> Superseded(ci[d].daily, "running")]
  BY <1>1 DEF CancelCI
<1>3. CancelCI(ci) \in [1 .. head -> [push : Status, daily : Status]]
  BY <1>1 DEF CancelCI, Superseded, Status, IInv, TypeOK
<1>4. \A d \in 1 .. head : /\ ci[d].push = "success" => CancelCI(ci)[d].push = "success"
                           /\ ci[d].daily = "success" => CancelCI(ci)[d].daily = "success"
  <2>1. \A d \in 1 .. head : /\ CancelCI(ci)[d].push = Superseded(ci[d].push, "running")
                             /\ CancelCI(ci)[d].daily = Superseded(ci[d].daily, "running")
    <3>1. SUFFICES ASSUME NEW d \in 1 .. head
                   PROVE  /\ CancelCI(ci)[d].push = Superseded(ci[d].push, "running")
                          /\ CancelCI(ci)[d].daily = Superseded(ci[d].daily, "running")
      OBVIOUS
    <3>2. PICK p : p = Superseded(ci[d].push, "running")
      OBVIOUS
    <3>3. PICK y : y = Superseded(ci[d].daily, "running")
      OBVIOUS
    <3>4. CancelCI(ci)[d] = [push |-> p, daily |-> y]
      BY <1>2, <3>2, <3>3
    <3>5. QED
      BY <3>2, <3>3, <3>4
  <2>2. \A x : x = "success" => Superseded(x, "running") = "success"
    BY DEF Superseded
  <2>3. QED
    BY <2>1, <2>2
<1>5. PICK r : r = [CancelCI(ci)[c] EXCEPT ![event] = "running"]
  OBVIOUS
<1>6. CancelCI(ci)[c] \in [push : Status, daily : Status]
  BY <1>3
<1>7. /\ r \in [push : Status, daily : Status]
      /\ ci[c].push = "success" => r.push = "success"
      /\ ci[c].daily = "success" => r.daily = "success"
  <2>1. CASE event = "push"
    BY <1>4, <1>5, <1>6, <2>1 DEF Status, StartCI
  <2>2. CASE event = "daily"
    BY <1>4, <1>5, <1>6, <2>2 DEF Status, StartCI
  <2>3. QED
    BY <2>1, <2>2
<1>8. ci' = [CancelCI(ci) EXCEPT ![c] = r]
  BY <1>5 DEF StartCI
<1>9. /\ ci' \in [1 .. head -> [push : Status, daily : Status]]
      /\ \A d \in 1 .. head : ci'[d] = IF d = c THEN r ELSE CancelCI(ci)[d]
  BY <1>3, <1>7, <1>8
<1>10. \A d \in 1 .. head : Passed(d) => Passed(d)'
  BY <1>4, <1>7, <1>9 DEF Passed, Conclusions
<1>11. QED
  BY <1>9, <1>10, CIKeeps DEF StartCI

\* A run that ends was running.
LEMMA EndCIKeeps ==
  ASSUME IInv, NEW c \in 1 .. head, NEW event \in {"push", "daily"}, EndCI(c, event)
  PROVE  IInv'
<1>1. PICK outcome \in {"success", "failure"} : ci' = [ci EXCEPT ![c][event] = outcome]
  BY DEF EndCI
<1>2. PICK r : r = [ci[c] EXCEPT ![event] = outcome]
  OBVIOUS
<1>3. ci[c] \in [push : Status, daily : Status]
  BY DEF IInv, TypeOK
<1>4. /\ r \in [push : Status, daily : Status]
      /\ ci[c].push = "success" => r.push = "success"
      /\ ci[c].daily = "success" => r.daily = "success"
  <2>1. CASE event = "push"
    BY <1>2, <1>3, <2>1 DEF Status, EndCI
  <2>2. CASE event = "daily"
    BY <1>2, <1>3, <2>2 DEF Status, EndCI
  <2>3. QED
    BY <2>1, <2>2
<1>5. ci' = [ci EXCEPT ![c] = r]
  BY <1>1, <1>2
<1>6. /\ ci' \in [1 .. head -> [push : Status, daily : Status]]
      /\ \A d \in 1 .. head : ci'[d] = IF d = c THEN r ELSE ci[d]
  BY <1>4, <1>5 DEF IInv, TypeOK
<1>7. \A d \in 1 .. head : Passed(d) => Passed(d)'
  BY <1>4, <1>6 DEF Passed, Conclusions
<1>8. QED
  BY <1>6, <1>7, CIKeeps DEF EndCI

\* A major cut by hand adds a tag and touches nothing else.
LEMMA CutMajorKeeps ==
  ASSUME IInv, CutMajor
  PROVE  IInv'
<1>1. head' = head /\ log' = log /\ ci' = ci /\ v1' = v1 /\ rel' = rel
  BY DEF CutMajor, head
<1>2. \A t \in Newest(tags) : [v |-> NextVersion(t.v, "major"), c |-> head] \in Tag
  <2>1. SUFFICES ASSUME NEW t \in Newest(tags)
                 PROVE  [v |-> NextVersion(t.v, "major"), c |-> head] \in Tag
    OBVIOUS
  <2>2. t.v \in Version /\ head \in Commits
    BY DEF IInv, TypeOK, Newest, Tag
  <2>3. NextVersion(t.v, "major") \in Version
    BY <2>2, NextVersionTyped
  <2>4. QED
    BY <2>2, <2>3 DEF Tag
<1>3. tags' \subseteq Tag /\ tags \subseteq tags'
  BY <1>2 DEF CutMajor, IInv, TypeOK
<1>4. TypeOK'
  BY <1>1, <1>3 DEF IInv, TypeOK
<1>5. Group' /\ (AnyOrder \/ InOrder')
  BY <1>1 DEF IInv, Group, InOrder, Live, Waits
<1>6. Traced'
  BY <1>1, <1>3 DEF IInv, Traced, Tagged
<1>7. Verified'
  BY <1>1 DEF IInv, Verified, Passed, Conclusions
<1>8. QED
  BY <1>4, <1>5, <1>6, <1>7 DEF IInv

-----------------------------------------------------------------------------
(* The invariant, and what it says of v1 *)

LEMMA InitEstablishes == Init => IInv
<1>. SUFFICES ASSUME Init
              PROVE  IInv
  OBVIOUS
<1>1. head = 1 /\ head \in Commits /\ 1 .. head = {1}
  BY BoundAssumption DEF Init, head, Commits
<1>2. log \in Seq(Commit)
  BY ReferenceAssumption DEF Init, Commit
<1>3. tags \subseteq Tag
  BY <1>1, FirstAssumption DEF Init, Tag
<1>4. Bare("green") \in Run /\ Bare("green").step = "green"
  BY BareTyped DEF Ended
<1>5. rel \in [1 .. head -> Run] /\ rel[1].step = "green"
  BY <1>1, <1>4 DEF Init
<1>6. ci \in [1 .. head -> [push : Status, daily : Status]] /\ ci[1].push = "success"
  BY <1>1 DEF Init, Status
<1>7. TypeOK
  BY <1>1, <1>2, <1>3, <1>5, <1>6 DEF TypeOK, Init
<1>8. Group /\ InOrder
  BY <1>1, <1>5 DEF Group, InOrder, Live, Waits, Active
<1>9. Traced
  BY <1>1, <1>5 DEF Traced, Tagged, Init
<1>10. Verified
  BY <1>1, <1>5, <1>6 DEF Verified, Passed, Conclusions, Init
<1>11. QED
  BY <1>7, <1>8, <1>9, <1>10 DEF IInv

LEMMA NextKeeps ==
  ASSUME IInv, Next
  PROVE  IInv'
<1>1. ASSUME NEW kind \in Kinds, NEW ref \in Refs, Land(kind, ref)
      PROVE  IInv'
  BY <1>1, LandKeeps
<1>2. ASSUME NEW c \in 1 .. head, NEW event \in {"push", "daily"}, StartCI(c, event) \/ EndCI(c, event)
      PROVE  IInv'
  BY <1>2, StartCIKeeps, EndCIKeeps
<1>3. ASSUME NEW c \in 1 .. head, Progress(c) \/ Rerun(c)
      PROVE  IInv'
  BY <1>3, ProgressKeeps, RerunKeeps
<1>4. CASE CutMajor
  BY <1>4, CutMajorKeeps
<1>5. QED
  BY <1>1, <1>2, <1>3, <1>4 DEF Next

\* The inductive invariant of the release: types, one run at work and one waiting,
\* in order while re-runs are, and nothing past the gate without a successful run.
THEOREM Invariance == Spec => []IInv
<1>1. IInv /\ UNCHANGED vars => IInv'
  <2>. SUFFICES ASSUME IInv, UNCHANGED vars
                PROVE  IInv'
    OBVIOUS
  <2>1. UNCHANGED <<log, ci, tags, v1, rel>>
    BY DEF vars
  <2>2. ci' \in [1 .. head -> [push : Status, daily : Status]]
    BY <2>1 DEF IInv, TypeOK
  <2>3. \A c \in 1 .. head : Passed(c) => Passed(c)'
    BY <2>1 DEF Passed, Conclusions
  <2>4. QED
    BY <2>1, <2>2, <2>3, CIKeeps
<1>2. IInv /\ [Next]_vars => IInv'
  BY <1>1, NextKeeps
<1>3. QED
  BY <1>2, InitEstablishes, PTL DEF Spec

\* What the fleet runs has passed CI: release.yaml puts v1 only on a commit
\* with a successful run of ci.yaml, in whatever order releases are re-run.
THEOREM FleetRunsVerifiedCommits == Spec => []V1IsVerified
<1>1. IInv => V1IsVerified
  BY DEF IInv, Verified, Passed, V1IsVerified
<1>2. QED
  BY <1>1, Invariance, PTL

\* The fleet never goes back to older central logic by a release run, while
\* releases are not re-run out of order.
THEOREM FleetNeverMovesBack ==
  ASSUME AnyOrder = FALSE
  PROVE  Spec => V1NeverMovesBack
<1>1. IInv /\ [Next]_vars => [v1' >= v1]_vars
  <2>. SUFFICES ASSUME IInv, Next
                PROVE  v1' >= v1
    BY DEF vars
  <2>1. v1 \in Nat
    BY HeadTyped DEF IInv, TypeOK
  <2>2. \A c \in 1 .. head : MoveV1(c) => v1' >= v1
    BY HeadTyped DEF MoveV1, At, IInv, InOrder, Live, Active
  <2>3. \A c \in 1 .. head : Progress(c) => v1' = v1 \/ MoveV1(c)
    BY DEF Progress, Checkout, RequireCI, ResolveVersion, VerifyFloor, PushTag, Fail
  <2>4. \A c \in 1 .. head : Rerun(c) => v1' = v1
    BY DEF Rerun
  <2>5. v1' = v1 \/ \E c \in 1 .. head : MoveV1(c)
    BY <2>3, <2>4 DEF Next, Land, StartCI, EndCI, CutMajor
  <2>6. QED
    BY <2>1, <2>2, <2>5
<1>2. QED
  BY <1>1, Invariance, PTL DEF Spec, V1NeverMovesBack

-----------------------------------------------------------------------------
(* The reference window *)

\* One window step is never a flag day: the old current set stays accepted and
\* the new one was accepted before, whatever grace sets may be reopened.
THEOREM StepIsNoFlagDay ==
  ASSUME NEW b \in Reference, NEW h \in Reference, NEW closed, WindowStep(b, h, closed)
  PROVE  /\ Components[b.current] \in AcceptedComponents(h)
         /\ Components[h.current] \in AcceptedComponents(b)
<1>1. \A r \in Reference : \A role \in Roles :
        r[role] # None => r[role] \in Accepted(r)
  BY DEF Accepted
<1>2. \A r \in Reference : r.current # None
  BY VintagesAssumption DEF Reference, None
<1>3. /\ b.current \in Accepted(b) /\ h.current \in Accepted(h)
      /\ b.next # None => b.next \in Accepted(b)
      /\ b.previous # None => b.previous \in Accepted(b)
      /\ h.next # None => h.next \in Accepted(h)
      /\ h.previous # None => h.previous \in Accepted(h)
  BY <1>1, <1>2 DEF Roles
<1>4. CASE h.current = b.current
  BY <1>3, <1>4 DEF AcceptedComponents
<1>5. CASE Promote(b, h)
  BY <1>2, <1>3, <1>5 DEF Promote, AcceptedComponents
<1>6. CASE Demote(b, h)
  BY <1>2, <1>3, <1>6 DEF Demote, AcceptedComponents
<1>7. CASE Relabel(b, h)
  <2>1. SameComponents(b.current, h.current)
    BY <1>2, <1>7 DEF Relabel, Roles
  <2>2. QED
    BY <1>3, <2>1 DEF SameComponents, AcceptedComponents
<1>8. QED
  BY <1>4, <1>5, <1>6, <1>7 DEF WindowStep, Stage, Abandon, Close, Reopen

-----------------------------------------------------------------------------
(* The history of tags, until a person cuts a major *)

\* Prev is what a release of c is counted from: the newest tag, below c, with
\* nothing breaking in between.
CountedFrom(prev, c) ==
  /\ prev \in Newest(tags) /\ prev.c < c
  /\ \A d \in 1 .. c : d > prev.c => log[d].kind # "breaking"

\* Whoever works or waits in the group is not behind a tag, and what the one
\* that works has read of the tags is what there is.
Hist ==
  /\ \A t \in tags : t.v.ma = FirstVersion.ma /\ t.c <= head
  /\ \A t, u \in tags : (t.c < u.c => Newer(u.v, t.v)) /\ (t.c = u.c => t = u)
  /\ \A t \in tags : \A d \in 1 .. t.c : log[d].kind # "breaking"
  /\ \A c \in 1 .. head :
       /\ Live(c) \/ Waits(c) => \A t \in tags : t.c <= c
       /\ rel[c].step \in {"gate", "version", "floor", "tag"} => rel[c].seen = tags
       /\ rel[c].step \in {"floor", "tag"} => CountedFrom(rel[c].prev, c)

LEMMA HistInit == Init => Hist
<1>. SUFFICES ASSUME Init PROVE Hist  OBVIOUS
<1>1. head = 1 /\ 1 .. head = {1} /\ log[1].kind = "docs"
  BY DEF Init, head
<1>2. rel[1].step = "green"
  BY DEF Init, Bare
<1>3. \A d \in 1 .. 1 : d = 1
  OBVIOUS
<1>4. \A t \in tags : t.v = FirstVersion /\ t.c = 1
  BY DEF Init
<1>5. \A t, u \in tags : t = u
  BY DEF Init
<1>6. QED
  BY <1>1, <1>2, <1>3, <1>4, <1>5 DEF Hist, Live, Waits, Active

\* A step that pushes no tag keeps the history, whoever enters, goes on or
\* leaves, if what the runs carry is still true.
LEMMA SameTagsKeep ==
  ASSUME IInv, Hist, tags' = tags, head' \in Nat, head <= head',
         \A d \in 1 .. head : log'[d] = log[d],
         \A c \in 1 .. head' :
           /\ Live(c)' \/ Waits(c)' => \A t \in tags : t.c <= c
           /\ rel'[c].step \in {"gate", "version", "floor", "tag"} => rel'[c].seen = tags
           /\ rel'[c].step \in {"floor", "tag"} => c \in 1 .. head /\ CountedFrom(rel'[c].prev, c)
  PROVE  Hist'
<1>1. head \in Nat /\ \A t \in tags : t.c \in Nat /\ t.c <= head
  BY HeadTyped DEF IInv, TypeOK, Tag, Commits, Hist
<1>2. \A t \in tags : \A d \in 1 .. t.c : d \in 1 .. head
  BY <1>1
<1>3. \A t \in tags' : t.v.ma = FirstVersion.ma /\ t.c <= head'
  BY <1>1 DEF Hist
<1>4. \A t, u \in tags' : (t.c < u.c => Newer(u.v, t.v)) /\ (t.c = u.c => t = u)
  BY DEF Hist
<1>5. \A t \in tags' : \A d \in 1 .. t.c : log'[d].kind # "breaking"
  BY <1>2 DEF Hist
<1>6. ASSUME NEW c \in 1 .. head', rel'[c].step \in {"floor", "tag"}
      PROVE  CountedFrom(rel[c].prev, c)'
  <2>1. PICK p : p = rel'[c].prev /\ c \in 1 .. head /\ CountedFrom(p, c)
    BY <1>6
  <2>2. \A d \in 1 .. c : d \in 1 .. head
    BY <1>1, <2>1
  <2>3. CountedFrom(p, c)'
    BY <2>1, <2>2 DEF CountedFrom, Newest
  <2>4. QED
    BY <2>1, <2>3 DEF CountedFrom
<1>7. \A c \in 1 .. head' :
        /\ Live(c)' \/ Waits(c)' => \A t \in tags' : t.c <= c
        /\ rel'[c].step \in {"gate", "version", "floor", "tag"} => rel'[c].seen = tags'
        /\ rel'[c].step \in {"floor", "tag"} => CountedFrom(rel[c].prev, c)'
  BY <1>6
<1>8. QED
  BY <1>3, <1>4, <1>5, <1>7 DEF Hist

\* What the steps of the group leave of the other runs.
LEMMA FinishIs ==
  ASSUME IInv, NEW c \in 1 .. head, Live(c), NEW o \in Ended, Finish(c, o), log' = log
  PROVE  /\ head' = head
         /\ \A d \in 1 .. head :
              /\ rel'[d].step \in Ended \cup {"checkout"}
              /\ rel'[d].step = "checkout" => Waits(d)
<1>1. head' = head
  BY DEF head
<1>2. \A d \in 1 .. head : d <= head
  BY HeadTyped DEF IInv
<1>3. Bare(o).step = o /\ Bare("checkout").step = "checkout"
  BY DEF Bare
<1>4. \A d \in 1 .. head : rel'[d].step = IF d = c THEN o ELSE IF Waits(d) THEN "checkout" ELSE rel[d].step
  BY <1>2, <1>3 DEF Finish, At, Waits
<1>5. \A d \in 1 .. head : d # c => ~Live(d)
  BY DEF IInv, Group
<1>6. \A d \in 1 .. head : rel[d].step \in Active \cup Ended \cup {"queued"}
  BY DEF IInv, TypeOK, Run
<1>7. ASSUME NEW d \in 1 .. head
      PROVE  /\ rel'[d].step \in Ended \cup {"checkout"}
             /\ rel'[d].step = "checkout" => Waits(d)
  BY <1>4, <1>5, <1>6 DEF Live, Waits, Ended
<1>8. QED
  BY <1>1, <1>7

LEMMA LeavingKeepsHist ==
  ASSUME IInv, Hist, NEW c \in 1 .. head, Live(c), NEW o \in Ended, Finish(c, o), UNCHANGED <<log, tags>>
  PROVE  Hist'
<1>1. /\ head' = head /\ head \in Nat
      /\ \A d \in 1 .. head : rel'[d].step \in Ended \cup {"checkout"} /\ (rel'[d].step = "checkout" => Waits(d))
  BY FinishIs, HeadTyped DEF IInv
<1>2. ASSUME NEW d \in 1 .. head'
      PROVE  /\ Live(d)' \/ Waits(d)' => \A t \in tags : t.c <= d
             /\ rel'[d].step \notin {"gate", "version", "floor", "tag"}
  BY <1>1 DEF Hist, Live, Waits, Active, Ended
<1>3. QED
  BY <1>1, <1>2, SameTagsKeep

\* Going on to the next step of the run, with no tag pushed.
LEMMA GoingOnKeepsHist ==
  ASSUME IInv, Hist, NEW c \in 1 .. head, Live(c), NEW r \in Run, rel' = [rel EXCEPT ![c] = r],
         UNCHANGED <<log, tags>>,
         r.step \in {"gate", "version", "floor", "tag"} => r.seen = tags,
         r.step \in {"floor", "tag"} => CountedFrom(r.prev, c)
  PROVE  Hist'
<1>1. head' = head /\ head \in Nat
  BY HeadTyped DEF head, IInv
<1>2. \A d \in 1 .. head : rel'[d] = IF d = c THEN r ELSE rel[d]
  BY DEF IInv, TypeOK
<1>3. \A d \in 1 .. head : Live(d)' \/ Waits(d)' => Live(d) \/ Waits(d)
  BY <1>2 DEF Live, Waits
<1>4. ASSUME NEW d \in 1 .. head'
      PROVE  /\ Live(d)' \/ Waits(d)' => \A t \in tags : t.c <= d
             /\ rel'[d].step \in {"gate", "version", "floor", "tag"} => rel'[d].seen = tags
             /\ rel'[d].step \in {"floor", "tag"} => d \in 1 .. head /\ CountedFrom(rel'[d].prev, d)
  BY <1>1, <1>2, <1>3 DEF Hist
<1>5. QED
  BY <1>1, <1>4, SameTagsKeep

\* The next version of a release that breaks nothing is newer, of the same major.
LEMMA NextIsNewer ==
  ASSUME NEW v \in Version, NEW bump \in {"minor", "patch"}
  PROVE  Newer(NextVersion(v, bump), v) /\ NextVersion(v, bump).ma = v.ma /\ NextVersion(v, bump) \in Version
BY DEF Newer, NextVersion, Version

LEMMA NewerTransitive ==
  ASSUME NEW u \in Version, NEW v \in Version, NEW w \in Version, Newer(w, v), ~Newer(u, v)
  PROVE  Newer(w, u)
BY DEF Newer, Version

\* A tag is pushed: above every other one, on a commit later than theirs.
LEMMA PushingKeepsHist ==
  ASSUME IInv, Hist, AnyOrder = FALSE, NEW c \in 1 .. head, PushTag(c)
  PROVE  Hist'
<1>1. /\ Live(c) /\ rel[c].step = "tag" /\ CountedFrom(rel[c].prev, c) /\ rel[c].prev \in Tag
      /\ c \in Commits /\ c \in Nat /\ head \in Nat /\ c <= head
  BY HeadTyped DEF PushTag, At, Live, Active, Hist, IInv, Traced
<1>2. CASE Finish(c, "red") /\ UNCHANGED tags
  BY <1>1, <1>2, LeavingKeepsHist DEF PushTag, Ended
<1>3. CASE Goto(c, "move") /\ tags' = tags \cup {[v |-> NewVersion(c), c |-> c]}
  <2>. DEFINE new == [v |-> NewVersion(c), c |-> c]
              prev == rel[c].prev
  <2>1. Bump(prev, c) \in {"minor", "patch"} /\ prev.v \in Version /\ prev \in tags /\ prev.c \in Nat
    BY <1>1 DEF Bump, Tag, CountedFrom, Newest, Commits
  <2>2. /\ NewVersion(c) \in Version /\ Newer(NewVersion(c), prev.v)
        /\ NewVersion(c).ma = FirstVersion.ma
    BY <2>1, NextIsNewer DEF NewVersion, Hist
  <2>3. new.v = NewVersion(c) /\ new.c = c /\ tags' = tags \cup {new}
    BY <1>3
  <2>. HIDE DEF new
  <2>4. ASSUME NEW t \in tags
        PROVE  t.c \in Nat /\ t.c < c /\ Newer(NewVersion(c), t.v)
    <3>1. t.v \in Version /\ t.c \in Nat /\ t.c <= c
      <4>1. t \in Tag
        BY DEF IInv, TypeOK
      <4>2. t.v \in Version /\ t.c \in Commits
        BY <4>1 DEF Tag
      <4>3. t.c \in Nat
        BY <4>2 DEF Commits
      <4>4. t.c <= c
        BY <1>1 DEF Hist
      <4>5. QED
        BY <4>2, <4>3, <4>4
    <3>2. ~Newer(t.v, prev.v)
      BY <1>1 DEF CountedFrom, Newest
    <3>3. Newer(NewVersion(c), t.v)
      BY <2>1, <2>2, <3>1, <3>2, NewerTransitive
    <3>4. t.c # c
      BY <1>1, <2>1, <3>2 DEF CountedFrom, Hist
    <3>5. QED
      BY <1>1, <3>1, <3>3, <3>4
  <2>5. head' = head /\ log' = log
    BY <1>3 DEF PushTag, head
  <2>6. \A t \in tags' : t.v.ma = FirstVersion.ma /\ t.c <= head'
    BY <1>1, <2>2, <2>3, <2>5 DEF Hist
  <2>7. \A t, u \in tags' : (t.c < u.c => Newer(u.v, t.v)) /\ (t.c = u.c => t = u)
    <3>1. SUFFICES ASSUME NEW t \in tags', NEW u \in tags'
                   PROVE  (t.c < u.c => Newer(u.v, t.v)) /\ (t.c = u.c => t = u)
      OBVIOUS
    <3>2. CASE t \in tags /\ u \in tags  BY <3>2 DEF Hist
    <3>3. CASE t \in tags /\ u = new  BY <1>1, <2>3, <2>4, <3>3
    <3>4. CASE t = new /\ u \in tags  BY <1>1, <2>3, <2>4, <3>4
    <3>5. CASE t = new /\ u = new  BY <1>1, <2>3, <3>5
    <3>6. QED  BY <2>3, <3>2, <3>3, <3>4, <3>5
  <2>8. \A t \in tags' : \A d \in 1 .. t.c : log'[d].kind # "breaking"
    <3>1. ASSUME NEW d \in 1 .. c PROVE log[d].kind # "breaking"
      <4>1. CASE d > prev.c  BY <1>1, <4>1 DEF CountedFrom
      <4>2. CASE ~(d > prev.c)
        <5>1. d \in 1 .. prev.c  BY <2>1, <4>2
        <5>2. QED  BY <2>1, <5>1 DEF Hist
      <4>3. QED  BY <4>1, <4>2
    <3>2. QED  BY <2>3, <2>5, <3>1 DEF Hist
  <2>9. \A d \in 1 .. head : rel'[d].step = IF d = c THEN "move" ELSE rel[d].step
    BY <1>3 DEF Goto, IInv, TypeOK, Run
  <2>10. ASSUME NEW d \in 1 .. head
         PROVE  /\ Live(d)' \/ Waits(d)' => \A t \in tags' : t.c <= d
                /\ rel'[d].step \notin {"gate", "version", "floor", "tag"}
    <3>1. CASE d = c  BY <1>1, <2>3, <2>4, <2>9, <3>1
    <3>2. CASE d # c
      <4>1. ~Live(d) /\ (Waits(d) => c < d)  BY <1>1, <3>2 DEF IInv, Group, InOrder
      <4>2. rel'[d].step = rel[d].step  BY <2>9, <3>2
      <4>3. Waits(d) => \A t \in tags' : t.c <= d  BY <1>1, <2>3, <2>4, <4>1
      <4>4. QED  BY <4>1, <4>2, <4>3 DEF Live, Waits, Active
    <3>3. QED  BY <3>1, <3>2
  <2>11. QED
    BY <2>5, <2>6, <2>7, <2>8, <2>10 DEF Hist
<1>4. QED
  BY <1>2, <1>3 DEF PushTag

LEMMA ProgressKeepsHist ==
  ASSUME IInv, Hist, AnyOrder = FALSE, NEW c \in 1 .. head, Progress(c)
  PROVE  Hist'
<1>1. rel[c] \in Run /\ (\A step \in Active : At(c, step) => Live(c)) /\ DOMAIN rel = 1 .. head
  BY DEF IInv, TypeOK, At, Live
<1>2. CASE Checkout(c)
  <2>. DEFINE r == [rel[c] EXCEPT !.step = "gate", !.seen = tags]
  <2>1. r \in Run /\ r.step = "gate" /\ r.seen = tags
    BY <1>1 DEF Run, Active, IInv, TypeOK
  <2>2. rel' = [rel EXCEPT ![c] = r] /\ Live(c) /\ UNCHANGED <<log, tags>>
    BY <1>1, <1>2 DEF Checkout, Active
  <2>. HIDE DEF r
  <2>3. QED  BY <2>1, <2>2, GoingOnKeepsHist
<1>3. CASE RequireCI(c)
  <2>1. Live(c) /\ rel[c].seen = tags /\ UNCHANGED <<log, tags>>
    BY <1>1, <1>3 DEF RequireCI, Active, At, Hist
  <2>2. CASE Finish(c, "red")  BY <2>1, <2>2, LeavingKeepsHist DEF Ended
  <2>3. CASE Goto(c, "version")
    <3>. DEFINE r == [rel[c] EXCEPT !.step = "version"]
    <3>1. r \in Run /\ r.step = "version" /\ r.seen = tags  BY <1>1, <2>1 DEF Run, Active
    <3>2. rel' = [rel EXCEPT ![c] = r]  BY <2>3 DEF Goto
    <3>. HIDE DEF r
    <3>3. QED  BY <2>1, <3>1, <3>2, GoingOnKeepsHist
  <2>4. QED  BY <1>3, <2>2, <2>3 DEF RequireCI
<1>4. CASE ResolveVersion(c)
  <2>1. /\ Live(c) /\ rel[c].seen = tags /\ UNCHANGED <<log, tags>>
        /\ \A t \in tags : t.c <= c /\ t.c \in Nat
    BY <1>1, <1>4 DEF ResolveVersion, Active, At, Hist, IInv, TypeOK, Tag, Commits
  <2>2. CASE \E o \in {"green", "red"} : Finish(c, o)  BY <2>1, <2>2, LeavingKeepsHist DEF Ended
  <2>3. ASSUME NEW t \in Newest(rel[c].seen), ~Nothing(t, c), ~Breaking(t, c),
               rel' = [rel EXCEPT ![c].step = "floor", ![c].prev = t]
        PROVE  Hist'
    <3>. DEFINE r == [rel[c] EXCEPT !.step = "floor", !.prev = t]
    <3>1. t \in Newest(tags) /\ t \in tags /\ t \in Tag
      BY <2>1 DEF Newest, IInv, TypeOK
    <3>2. t.c < c
      <4>1. t.c # c /\ t.c <= c /\ t.c \in Nat  BY <2>1, <2>3, <3>1 DEF Nothing
      <4>2. QED  BY <4>1, HeadTyped DEF IInv
    <3>3. ASSUME NEW d \in 1 .. c, d > t.c PROVE log[d].kind # "breaking"
      <4>1. d \in (t.c + 1) .. c  BY <2>1, <3>1, <3>3
      <4>2. QED  BY <2>3, <4>1 DEF Breaking, Since
    <3>4. CountedFrom(t, c)  BY <3>1, <3>2, <3>3 DEF CountedFrom
    <3>5. r \in Run /\ r.step = "floor" /\ r.seen = tags /\ r.prev = t
      BY <1>1, <2>1, <3>1 DEF Run, Active
    <3>6. rel' = [rel EXCEPT ![c] = r]  BY <2>3
    <3>. HIDE DEF r
    <3>7. QED  BY <2>1, <3>4, <3>5, <3>6, GoingOnKeepsHist
  <2>4. QED  BY <1>4, <2>2, <2>3 DEF ResolveVersion
<1>5. CASE VerifyFloor(c)
  <2>1. Live(c) /\ rel[c].seen = tags /\ CountedFrom(rel[c].prev, c) /\ UNCHANGED <<log, tags>>
    BY <1>1, <1>5 DEF VerifyFloor, Active, At, Hist
  <2>2. CASE Finish(c, "red")  BY <2>1, <2>2, LeavingKeepsHist DEF Ended
  <2>3. CASE Goto(c, "tag")
    <3>. DEFINE r == [rel[c] EXCEPT !.step = "tag"]
    <3>1. r \in Run /\ r.step = "tag" /\ r.seen = tags /\ r.prev = rel[c].prev
      BY <1>1, <2>1 DEF Run, Active
    <3>2. rel' = [rel EXCEPT ![c] = r]  BY <2>3 DEF Goto
    <3>. HIDE DEF r
    <3>3. QED  BY <2>1, <3>1, <3>2, GoingOnKeepsHist
  <2>4. QED  BY <1>5, <2>2, <2>3 DEF VerifyFloor
<1>6. CASE PushTag(c)
  BY <1>6, PushingKeepsHist
<1>7. CASE MoveV1(c)
  BY <1>1, <1>7, LeavingKeepsHist DEF MoveV1, Active, Ended
<1>8. CASE Fail(c)
  BY <1>8, LeavingKeepsHist, LossAssumption DEF Fail, Ended, Live
<1>9. QED
  BY <1>2, <1>3, <1>4, <1>5, <1>6, <1>7, <1>8 DEF Progress

\* A run enters: its commit is the newest or one that no tag is past.
LEMMA RerunKeepsHist ==
  ASSUME IInv, Hist, AnyOrder = FALSE, NEW c \in 1 .. head, Rerun(c)
  PROVE  Hist'
<1>1. head' = head /\ tags' = tags /\ log' = log /\ head \in Nat
  BY HeadTyped DEF Rerun, head, IInv
<1>2. \A t \in tags : t.c <= c
  <2>1. \A t \in tags : t.c \in Nat /\ ~(t.c > c)
    BY DEF Rerun, Overtaken, IInv, TypeOK, Tag, Commits
  <2>2. QED  BY <2>1, HeadTyped DEF IInv
<1>3. PICK e : e = Entering
  OBVIOUS
<1>4. e.step \in {"queued", "checkout"}
  BY <1>3, BareTyped DEF Entering, Active
<1>5. rel' = [CancelQueued(rel) EXCEPT ![c] = e]
  BY <1>3 DEF Rerun
<1>6. \A d \in 1 .. head : /\ d = c => rel'[d] = e
                           /\ d # c => /\ rel'[d] = [rel[d] EXCEPT !.step = Superseded(@, "queued")]
                                       /\ rel'[d].step = IF Waits(d) THEN "cancelled" ELSE rel[d].step
  <2>1. \A d \in 1 .. head : CancelQueued(rel)[d] = [rel[d] EXCEPT !.step = Superseded(@, "queued")]
    BY DEF CancelQueued, IInv, TypeOK
  <2>2. DOMAIN CancelQueued(rel) = 1 .. head
    BY DEF CancelQueued, IInv, TypeOK
  <2>3. QED  BY <1>5, <2>1, <2>2, CancelQueuedTyped DEF IInv
<1>7. ASSUME NEW d \in 1 .. head, d # c
      PROVE  rel'[d].step = "cancelled" \/ rel'[d] = rel[d]
  <2>1. ~Waits(d) => [rel[d] EXCEPT !.step = Superseded(@, "queued")] = rel[d]
    BY DEF Waits, Superseded, IInv, TypeOK, Run
  <2>2. QED  BY <1>6, <1>7, <2>1
<1>8. ASSUME NEW d \in 1 .. head'
      PROVE  /\ Live(d)' \/ Waits(d)' => \A t \in tags : t.c <= d
             /\ rel'[d].step \in {"gate", "version", "floor", "tag"} => rel'[d].seen = tags
             /\ rel'[d].step \in {"floor", "tag"} => d \in 1 .. head /\ CountedFrom(rel'[d].prev, d)
  <2>1. CASE d = c  BY <1>1, <1>2, <1>4, <1>6, <2>1
  <2>2. CASE d # c /\ rel'[d].step = "cancelled"  BY <2>2 DEF Live, Waits, Active
  <2>3. CASE d # c /\ rel'[d] = rel[d]  BY <1>1, <2>3 DEF Hist, Live, Waits
  <2>4. QED  BY <1>1, <1>7, <2>1, <2>2, <2>3
<1>9. QED
  BY <1>1, <1>8, SameTagsKeep

LEMMA LandKeepsHist ==
  ASSUME IInv, Hist, NEW kind \in Kinds, NEW ref \in Refs, Land(kind, ref)
  PROVE  Hist'
<1>. DEFINE new == [kind |-> kind, ref |-> ref]
<1>1. new \in Commit
  BY RefsTyped DEF Commit, IInv
<1>2. log \in Seq(Commit) /\ log' = Append(log, new)
  BY DEF IInv, TypeOK, Land
<1>3. /\ head' = head + 1 /\ head \in Nat /\ \A d \in 1 .. head : log'[d] = log[d]
  BY <1>1, <1>2, HeadTyped, AppendProperties DEF head, IInv
<1>4. PICK e : e = Entering
  OBVIOUS
<1>5. e.step \in {"queued", "checkout"}
  BY <1>4, BareTyped DEF Entering, Active
<1>6. rel' = [d \in 1 .. head' |-> IF d <= head THEN CancelQueued(rel)[d] ELSE e]
  BY <1>3, <1>4 DEF Land, Extend
<1>7. \A d \in 1 .. head : /\ rel'[d] = [rel[d] EXCEPT !.step = Superseded(@, "queued")]
                           /\ rel'[d].step = IF Waits(d) THEN "cancelled" ELSE rel[d].step
  <2>1. \A d \in 1 .. head : d \in 1 .. head' /\ d <= head  BY <1>3
  <2>2. \A d \in 1 .. head : rel'[d] = CancelQueued(rel)[d]  BY <1>6, <2>1
  <2>3. \A d \in 1 .. head : CancelQueued(rel)[d] = [rel[d] EXCEPT !.step = Superseded(@, "queued")]
    BY DEF CancelQueued, IInv, TypeOK
  <2>4. QED  BY <2>2, <2>3, CancelQueuedTyped DEF IInv
<1>8. rel'[head'] = e
  <2>1. head' \in 1 .. head' /\ ~(head' <= head)  BY <1>3
  <2>2. QED  BY <1>6, <2>1
<1>9. ASSUME NEW d \in 1 .. head
      PROVE  rel'[d].step = "cancelled" \/ rel'[d] = rel[d]
  <2>1. ~Waits(d) => [rel[d] EXCEPT !.step = Superseded(@, "queued")] = rel[d]
    BY DEF Waits, Superseded, IInv, TypeOK, Run
  <2>2. QED  BY <1>7, <2>1
<1>10. tags' = tags
  BY DEF Land
<1>11. ASSUME NEW d \in 1 .. head'
       PROVE  /\ Live(d)' \/ Waits(d)' => \A t \in tags : t.c <= d
              /\ rel'[d].step \in {"gate", "version", "floor", "tag"} => rel'[d].seen = tags
              /\ rel'[d].step \in {"floor", "tag"} => d \in 1 .. head /\ CountedFrom(rel'[d].prev, d)
  <2>1. CASE d = head'
    <3>1. \A t \in tags : t.c \in Nat /\ t.c <= head  BY DEF Hist, IInv, TypeOK, Tag, Commits
    <3>2. \A t \in tags : t.c <= d  BY <1>3, <2>1, <3>1
    <3>3. QED  BY <1>5, <1>8, <2>1, <3>2
  <2>2. CASE d \in 1 .. head /\ rel'[d].step = "cancelled"  BY <2>2 DEF Live, Waits, Active
  <2>3. CASE d \in 1 .. head /\ rel'[d] = rel[d]  BY <2>3 DEF Hist, Live, Waits
  <2>4. d = head' \/ d \in 1 .. head  BY <1>3
  <2>5. QED  BY <1>9, <2>1, <2>2, <2>3, <2>4
<1>12. QED
  BY <1>3, <1>10, <1>11, SameTagsKeep

HistInv == MajorWasCut \/ Hist

\* Only a person who cuts a major disturbs the history.
LEMMA HistStep ==
  ASSUME IInv, Hist, AnyOrder = FALSE, [Next]_vars
  PROVE  Hist' \/ CutMajor
<1>1. ASSUME NEW kind \in Kinds, NEW ref \in Refs, Land(kind, ref) PROVE Hist'
  BY <1>1, LandKeepsHist
<1>2. ASSUME UNCHANGED <<log, tags, rel>> PROVE Hist'
  BY <1>2 DEF Hist, Live, Waits, CountedFrom, Newest, head
<1>3. ASSUME NEW c \in 1 .. head, NEW event \in {"push", "daily"}, StartCI(c, event) \/ EndCI(c, event)
      PROVE  Hist'
  BY <1>2, <1>3 DEF StartCI, EndCI
<1>4. ASSUME NEW c \in 1 .. head, Progress(c) \/ Rerun(c) PROVE Hist'
  BY <1>4, ProgressKeepsHist, RerunKeepsHist
<1>5. CASE UNCHANGED vars
  BY <1>2, <1>5 DEF vars
<1>6. QED
  BY <1>1, <1>3, <1>4, <1>5 DEF Next

LEMMA HistNext ==
  ASSUME IInv, HistInv, AnyOrder = FALSE, [Next]_vars
  PROVE  HistInv'
<1>1. tags \subseteq tags'
  BY DEF Next, vars, Land, StartCI, EndCI, CutMajor, Progress, Rerun, Checkout, RequireCI, ResolveVersion,
         VerifyFloor, PushTag, MoveV1, Fail
<1>2. CASE MajorWasCut
  BY <1>1, <1>2 DEF HistInv, MajorWasCut
<1>3. CASE Hist /\ ~CutMajor
  BY <1>3, HistStep DEF HistInv
<1>4. CASE Hist /\ CutMajor
  <2>1. CASE Newest(tags) = {}
    <3>1. UNCHANGED <<log, tags, rel>>
      BY <1>4, <2>1 DEF CutMajor
    <3>2. Hist'
      BY <1>4, <3>1 DEF Hist, Live, Waits, CountedFrom, Newest, head
    <3>3. QED
      BY <3>2 DEF HistInv
  <2>2. ASSUME NEW t \in Newest(tags) PROVE MajorWasCut'
    <3>1. t.v \in Version /\ t.v.ma = FirstVersion.ma
      BY <1>4, <2>2 DEF Newest, IInv, TypeOK, Tag, Hist
    <3>2. NextVersion(t.v, "major").ma # FirstVersion.ma
      BY <3>1 DEF NextVersion, Version
    <3>3. [v |-> NextVersion(t.v, "major"), c |-> head] \in tags'
      BY <1>4, <2>2 DEF CutMajor
    <3>4. QED
      BY <3>2, <3>3 DEF MajorWasCut
  <2>3. QED
    BY <2>1, <2>2 DEF HistInv
<1>5. QED
  BY <1>2, <1>3, <1>4 DEF HistInv

LEMMA HistHolds ==
  ASSUME AnyOrder = FALSE
  PROVE  Spec => []HistInv
<1>1. Init => HistInv
  BY HistInit DEF HistInv
<1>2. IInv /\ HistInv /\ [Next]_vars => HistInv'
  BY HistNext
<1>3. QED
  BY <1>1, <1>2, Invariance, PTL DEF Spec

\* The tags of release.yaml grow along main, one to a tree, until a person cuts
\* a major: whichever runs fail, are cancelled from waiting or are re-run in
\* order, a run that pushes a tag counted its version from the newest one.
THEOREM TagsGrowAlongMain ==
  ASSUME AnyOrder = FALSE
  PROVE  Spec => []TagsFollowHistory
<1>1. HistInv => TagsFollowHistory
  BY DEF HistInv, Hist, TagsFollowHistory
<1>2. QED
  BY <1>1, HistHolds, PTL

\* release.yaml never puts v1 onto or past a breaking commit before a person
\* cuts a major, although a commit is looked at only by the run whose turn comes.
THEOREM FleetMeetsNoBreak ==
  ASSUME AnyOrder = FALSE
  PROVE  Spec => []NothingBreakingUnderV1
<1>1. IInv /\ HistInv => NothingBreakingUnderV1
  <2>. SUFFICES ASSUME IInv, Hist, NEW c \in 1 .. v1
                PROVE  log[c].kind # "breaking"
    BY DEF HistInv, NothingBreakingUnderV1
  <2>1. PICK t \in tags : t.c = v1
    BY DEF IInv, Traced, Tagged
  <2>2. QED
    BY <2>1 DEF Hist
<1>2. QED
  BY <1>1, HistHolds, Invariance, PTL

-----------------------------------------------------------------------------
(* The reference window under v1 *)

Overlap(b, h) == /\ Components[b.current] \in AcceptedComponents(h)
                 /\ Components[h.current] \in AcceptedComponents(b)

\* Unless a run is about to move it, v1 is the newest tagged commit; so the base
\* a release was checked against is what v1 holds specs to.
Window ==
  /\ (\A c \in 1 .. head : rel[c].step # "move") => \A t \in tags : t.c <= v1
  /\ Usable(Ref(v1))
  /\ \A c \in 1 .. head : rel[c].step \in {"tag", "move"} =>
       Usable(Ref(c)) /\ Overlap(Ref(v1), Ref(c))

\* A step keeps the window if it takes no run up to its tag or its move, or away
\* from the move.
LEMMA SameWindow ==
  ASSUME IInv, Window, UNCHANGED <<tags, v1>>, head' \in Nat, head <= head',
         \A d \in 1 .. head : log'[d] = log[d],
         \A c \in 1 .. head' : rel'[c].step \in {"tag", "move"} => c \in 1 .. head /\ rel[c].step = rel'[c].step,
         \A c \in 1 .. head : rel[c].step = "move" => rel'[c].step = "move"
  PROVE  Window'
<1>1. v1 \in 1 .. head /\ head \in Nat /\ \A c \in 1 .. head : c \in 1 .. head'
  BY HeadTyped DEF IInv, TypeOK
<1>2. \A c \in 1 .. head : log'[c].ref = log[c].ref
  OBVIOUS
<1>3. (\A c \in 1 .. head' : rel'[c].step # "move") => \A t \in tags' : t.c <= v1'
  BY <1>1 DEF Window
<1>4. Usable(Ref(v1))'
  BY <1>1, <1>2 DEF Window, Ref
<1>5. ASSUME NEW c \in 1 .. head', rel'[c].step \in {"tag", "move"}
      PROVE  Usable(Ref(c))' /\ Overlap(Ref(v1), Ref(c))'
  <2>1. c \in 1 .. head /\ Usable(Ref(c)) /\ Overlap(Ref(v1), Ref(c))
    BY <1>5 DEF Window
  <2>2. QED
    BY <1>1, <1>2, <2>1 DEF Ref
<1>6. QED
  BY <1>3, <1>4, <1>5 DEF Window

\* A run leaves the group without having moved v1, and not from the move.
LEMMA LeavingKeepsWindow ==
  ASSUME IInv, Window, NEW c \in 1 .. head, Live(c), rel[c].step # "move", NEW o \in Ended, Finish(c, o),
         UNCHANGED <<log, tags, v1>>
  PROVE  Window'
<1>1. /\ head' = head /\ head \in Nat
      /\ \A d \in 1 .. head : rel'[d].step \in Ended \cup {"checkout"}
  BY FinishIs, HeadTyped DEF IInv
<1>2. \A d \in 1 .. head : rel[d].step # "move"
  BY DEF IInv, Group, Live, Active
<1>3. \A d \in 1 .. head' : rel'[d].step \notin {"tag", "move"}
  BY <1>1 DEF Ended
<1>4. QED
  BY <1>1, <1>2, <1>3, SameWindow

\* What is checked at the floor is a step of the window from v1.
LEMMA FloorIsAStep ==
  ASSUME IInv, Hist, Window, NEW c \in 1 .. head, rel[c].step = "floor", ReferenceHolds(c)
  PROVE  Usable(Ref(c)) /\ Overlap(Ref(v1), Ref(c))
<1>1. PICK prev : prev = rel[c].prev /\ CountedFrom(prev, c)
  BY DEF Hist
<1>2. \A t \in tags : t.c \in Nat
  BY DEF IInv, TypeOK, Tag, Commits
<1>3. v1 \in 1 .. head /\ v1 \in Nat
  BY HeadTyped DEF IInv, TypeOK
<1>4. \A d \in 1 .. head : rel[d].step # "move"
  BY DEF IInv, Group, Live, Active
<1>5. prev \in tags /\ prev.c <= v1
  BY <1>1, <1>4 DEF CountedFrom, Newest, Window
<1>6. PICK t \in tags : t.c = v1
  BY DEF IInv, Traced, Tagged
<1>7. ~(prev.c < t.c)
  BY <1>1, <1>5 DEF CountedFrom, Newest, Hist
<1>8. prev.c = v1
  BY <1>2, <1>3, <1>5, <1>6, <1>7
<1>9. Ref(v1) \in LastUsable(v1)
  <2>1. Usable(Ref(v1)) /\ v1 \in 1 .. v1 /\ \A f \in (v1 + 1) .. v1 : ~Usable(Ref(f))
    BY <1>3 DEF Window
  <2>2. QED
    BY <2>1 DEF LastUsable
<1>10. \A base \in LastUsable(v1) : WindowStep(base, Ref(c), PreviousBeforeClose(rel[c].seen, v1, base))
  BY <1>1, <1>8 DEF ReferenceHolds
<1>11. Ref(v1) \in Reference /\ Ref(c) \in Reference
  BY <1>3, HeadTyped DEF Ref, Commit, IInv
<1>12. PICK closed : WindowStep(Ref(v1), Ref(c), closed)
  BY <1>9, <1>10
<1>13. QED
  BY <1>11, <1>12, StepIsNoFlagDay DEF Overlap, ReferenceHolds

LEMMA ProgressKeepsWindow ==
  ASSUME IInv, Hist, Window, "move" \notin LossPoints, NEW c \in 1 .. head, Progress(c)
  PROVE  Window'
<1>1. /\ rel[c] \in Run /\ DOMAIN rel = 1 .. head /\ head \in Nat
      /\ \A step \in Active : At(c, step) => Live(c) /\ rel[c].step = step
  BY HeadTyped DEF IInv, TypeOK, At, Live
<1>2. \A o \in Ended : Finish(c, o) /\ UNCHANGED <<log, tags, v1>> /\ Live(c) /\ rel[c].step # "move" => Window'
  BY LeavingKeepsWindow
<1>3. \A d \in 1 .. head : d # c /\ Live(c) => rel[d].step \notin Active
  BY DEF IInv, Group, Live
<1>4. ASSUME NEW r \in Run, rel' = [rel EXCEPT ![c] = r], Live(c), rel[c].step # "move",
             r.step \notin {"tag", "move"}, UNCHANGED <<log, tags, v1>>
      PROVE  Window'
  <2>1. head' = head /\ \A d \in 1 .. head : rel'[d] = IF d = c THEN r ELSE rel[d]
    BY <1>1, <1>4 DEF head
  <2>2. QED
    BY <1>1, <1>4, <2>1, SameWindow
<1>5. CASE Checkout(c)
  <2>1. PICK r : r = [rel[c] EXCEPT !.step = "gate", !.seen = tags]
    OBVIOUS
  <2>2. r \in Run /\ r.step = "gate"
    BY <1>1, <2>1 DEF Run, Active, IInv, TypeOK
  <2>3. rel' = [rel EXCEPT ![c] = r] /\ Live(c) /\ rel[c].step = "checkout" /\ UNCHANGED <<log, tags, v1>>
    BY <1>1, <1>5, <2>1 DEF Checkout, Active
  <2>4. QED
    BY <1>4, <2>2, <2>3
<1>6. CASE RequireCI(c)
  <2>1. Live(c) /\ rel[c].step = "gate" /\ UNCHANGED <<log, tags, v1>>
    BY <1>1, <1>6 DEF RequireCI, Active
  <2>2. CASE Finish(c, "red")
    BY <1>2, <2>1, <2>2 DEF Ended
  <2>3. CASE Goto(c, "version")
    <3>1. PICK r : r = [rel[c] EXCEPT !.step = "version"]
      OBVIOUS
    <3>2. r \in Run /\ r.step = "version"
      BY <1>1, <3>1 DEF Run, Active
    <3>3. rel' = [rel EXCEPT ![c] = r]
      BY <2>3, <3>1 DEF Goto
    <3>4. QED
      BY <1>4, <2>1, <3>2, <3>3
  <2>4. QED
    BY <1>6, <2>2, <2>3 DEF RequireCI
<1>7. CASE ResolveVersion(c)
  <2>1. Live(c) /\ rel[c].step = "version" /\ UNCHANGED <<log, tags, v1>>
    BY <1>1, <1>7 DEF ResolveVersion, Active
  <2>2. CASE \E o \in {"green", "red"} : Finish(c, o)
    BY <1>2, <2>1, <2>2 DEF Ended
  <2>3. ASSUME NEW t \in Newest(rel[c].seen), rel' = [rel EXCEPT ![c].step = "floor", ![c].prev = t]
        PROVE  Window'
    <3>1. PICK r : r = [rel[c] EXCEPT !.step = "floor", !.prev = t]
      OBVIOUS
    <3>2. r \in Run /\ r.step = "floor"
      BY <1>1, <3>1 DEF Run, Active, Newest
    <3>3. rel' = [rel EXCEPT ![c] = r]
      BY <2>3, <3>1
    <3>4. QED
      BY <1>4, <2>1, <3>2, <3>3
  <2>4. QED
    BY <1>7, <2>2, <2>3 DEF ResolveVersion
<1>8. CASE VerifyFloor(c)
  <2>1. Live(c) /\ rel[c].step = "floor" /\ UNCHANGED <<log, tags, v1>> /\ head' = head
    BY <1>1, <1>8 DEF VerifyFloor, Active, head
  <2>2. CASE Finish(c, "red")
    BY <1>2, <2>1, <2>2 DEF Ended
  <2>3. CASE ReferenceHolds(c) /\ Goto(c, "tag")
    <3>1. Usable(Ref(c)) /\ Overlap(Ref(v1), Ref(c))
      BY <2>1, <2>3, FloorIsAStep
    <3>2. \A d \in 1 .. head : rel'[d].step = IF d = c THEN "tag" ELSE rel[d].step
      BY <2>3 DEF Goto, IInv, TypeOK, Run
    <3>3. \A d \in 1 .. head : rel'[d].step \in {"tag", "move"} => d = c
      BY <1>3, <2>1, <3>2 DEF Active
    <3>4. \A d \in 1 .. head : rel[d].step # "move"
      BY <1>3, <2>1 DEF Active
    <3>5. QED
      BY <2>1, <3>1, <3>3, <3>4 DEF Window, Ref
  <2>4. QED
    BY <1>8, <2>2, <2>3 DEF VerifyFloor
<1>9. CASE PushTag(c)
  <2>1. Live(c) /\ rel[c].step = "tag" /\ UNCHANGED <<log, v1>> /\ head' = head
    BY <1>1, <1>9 DEF PushTag, Active, head
  <2>2. CASE Finish(c, "red") /\ UNCHANGED tags
    BY <1>2, <2>1, <2>2 DEF Ended
  <2>3. CASE Goto(c, "move")
    <3>1. \A d \in 1 .. head : rel'[d].step = IF d = c THEN "move" ELSE rel[d].step
      BY <2>3 DEF Goto, IInv, TypeOK, Run
    <3>2. \A d \in 1 .. head : rel'[d].step \in {"tag", "move"} => d = c
      BY <1>3, <2>1, <3>1 DEF Active
    <3>3. rel'[c].step = "move" /\ Usable(Ref(c)) /\ Overlap(Ref(v1), Ref(c))
      BY <2>1, <3>1 DEF Window
    <3>4. QED
      BY <2>1, <3>2, <3>3 DEF Window, Ref
  <2>4. QED
    BY <1>9, <2>2, <2>3 DEF PushTag
<1>10. CASE MoveV1(c)
  <2>1. Live(c) /\ rel[c].step = "move" /\ UNCHANGED <<log, tags>> /\ v1' = c /\ Finish(c, "green")
    BY <1>1, <1>10 DEF MoveV1, Active
  <2>2. head' = head /\ \A d \in 1 .. head : rel'[d].step \notin {"tag", "move"}
    BY <2>1, FinishIs DEF Ended
  <2>3. Usable(Ref(c)) /\ \A t \in tags : t.c <= c
    BY <2>1 DEF Window, Hist
  <2>4. QED
    BY <2>1, <2>2, <2>3 DEF Window, Ref
<1>11. CASE Fail(c)
  <2>1. Live(c) /\ rel[c].step # "move" /\ Finish(c, "red") /\ UNCHANGED <<log, tags, v1>>
    BY <1>11, LossAssumption DEF Fail, Live
  <2>2. QED
    BY <1>2, <2>1 DEF Ended
<1>12. QED
  BY <1>5, <1>6, <1>7, <1>8, <1>9, <1>10, <1>11 DEF Progress

\* A run that enters is nowhere near its tag, and cancels only one that waits.
LEMMA EnteringIs ==
  ASSUME IInv,
         \/ \E kind \in Kinds, ref \in Refs : Land(kind, ref)
         \/ \E c \in 1 .. head : Rerun(c)
  PROVE  /\ UNCHANGED <<tags, v1>> /\ head' \in Nat /\ head <= head'
         /\ \A d \in 1 .. head : log'[d] = log[d]
         /\ \A c \in 1 .. head' : rel'[c].step \in {"tag", "move"} => c \in 1 .. head /\ rel[c].step = rel'[c].step
         /\ \A c \in 1 .. head : rel[c].step = "move" => rel'[c].step = "move"
<1>. DEFINE Same ==
       /\ UNCHANGED <<tags, v1>> /\ head' \in Nat /\ head <= head'
       /\ \A d \in 1 .. head : log'[d] = log[d]
       /\ \A c \in 1 .. head' : rel'[c].step \in {"tag", "move"} => c \in 1 .. head /\ rel[c].step = rel'[c].step
       /\ \A c \in 1 .. head : rel[c].step = "move" => rel'[c].step = "move"
<1>1. PICK e : e = Entering
  OBVIOUS
<1>2. e.step \in {"queued", "checkout"}
  BY <1>1, BareTyped DEF Entering, Active
<1>3. PICK q : q = CancelQueued(rel)
  OBVIOUS
<1>4. /\ DOMAIN q = 1 .. head /\ head \in Nat
      /\ \A d \in 1 .. head : q[d].step = IF Waits(d) THEN "cancelled" ELSE rel[d].step
  BY <1>3, CancelQueuedTyped, HeadTyped DEF IInv
<1>5. ASSUME NEW kind \in Kinds, NEW ref \in Refs, Land(kind, ref)
      PROVE  Same
  <2>. DEFINE new == [kind |-> kind, ref |-> ref]
  <2>1. new \in Commit
    BY RefsTyped DEF Commit, IInv
  <2>2. log \in Seq(Commit) /\ log' = Append(log, new)
    BY <1>5 DEF IInv, TypeOK, Land
  <2>3. head' = head + 1 /\ \A d \in 1 .. head : log'[d] = log[d]
    BY <1>4, <2>1, <2>2, AppendProperties DEF head
  <2>4. rel' = [d \in 1 .. head' |-> IF d <= head THEN q[d] ELSE e]
    BY <1>1, <1>3, <1>5, <2>3 DEF Land, Extend
  <2>5. \A d \in 1 .. head' : rel'[d] = IF d <= head THEN q[d] ELSE e
    BY <2>4
  <2>6. \A d \in 1 .. head' : rel'[d].step \in {"tag", "move"} => d \in 1 .. head /\ rel[d].step = rel'[d].step
    <3>1. \A d \in 1 .. head' : d <= head => d \in 1 .. head
      BY <1>4, <2>3
    <3>2. QED
      BY <1>2, <1>4, <2>5, <3>1
  <2>7. \A d \in 1 .. head : rel[d].step = "move" => rel'[d].step = "move"
    <3>1. \A d \in 1 .. head : d \in 1 .. head' /\ d <= head
      BY <1>4, <2>3
    <3>2. QED
      BY <1>4, <2>5, <3>1 DEF Waits
  <2>8. tags' = tags /\ v1' = v1
    BY <1>5 DEF Land
  <2>9. QED
    BY <1>4, <2>3, <2>6, <2>7, <2>8
<1>6. ASSUME NEW c \in 1 .. head, Rerun(c)
      PROVE  Same
  <2>1. rel' = [q EXCEPT ![c] = e] /\ rel[c].step \in Ended /\ UNCHANGED <<log, tags, v1>> /\ head' = head
    BY <1>1, <1>3, <1>6 DEF Rerun, head
  <2>2. \A d \in 1 .. head : rel'[d] = IF d = c THEN e ELSE q[d]
    BY <1>4, <2>1
  <2>3. \A d \in 1 .. head : rel'[d].step \in {"tag", "move"} => rel[d].step = rel'[d].step
    BY <1>2, <1>4, <2>2
  <2>4. \A d \in 1 .. head : rel[d].step = "move" => rel'[d].step = "move"
    BY <1>4, <2>1, <2>2 DEF Waits, Ended
  <2>5. QED
    BY <1>4, <2>1, <2>3, <2>4
<1>7. QED
  BY <1>5, <1>6

LEMMA EnteringKeepsWindow ==
  ASSUME IInv, Window,
         \/ \E kind \in Kinds, ref \in Refs : Land(kind, ref)
         \/ \E c \in 1 .. head : Rerun(c)
  PROVE  Window'
BY EnteringIs, SameWindow

LEMMA WindowNext ==
  ASSUME IInv, Hist, Window, HandMajor = FALSE, "move" \notin LossPoints, [Next]_vars
  PROVE  Window'
<1>1. CASE UNCHANGED <<log, tags, v1, rel>>
  BY <1>1 DEF Window, Ref, head
<1>2. ASSUME NEW c \in 1 .. head, NEW event \in {"push", "daily"}, StartCI(c, event) \/ EndCI(c, event)
      PROVE  Window'
  BY <1>1, <1>2 DEF StartCI, EndCI
<1>3. CASE UNCHANGED vars
  BY <1>1, <1>3 DEF vars
<1>4. QED
  BY <1>2, <1>3, ProgressKeepsWindow, EnteringKeepsWindow DEF Next, CutMajor

\* What v1 held a spec to before a release it still accepts after it, and what
\* it holds a spec to afterwards it accepted before: verify-reference-floor
\* compares with the newest tag, and while no run is lost between its two pushes
\* and no person tags, that is the commit v1 is on.
THEOREM ReleaseIsNoFlagDay ==
  ASSUME AnyOrder = FALSE, HandMajor = FALSE, "move" \notin LossPoints
  PROVE  Spec => NoFlagDay
<1>. DEFINE Both == Hist /\ Window
<1>1. Init => Both
  <2>1. SUFFICES ASSUME Init PROVE Window
    BY HistInit
  <2>2. head = 1 /\ 1 .. head = {1} /\ v1 = 1 /\ log[1].ref = InitialRef /\ rel[1].step = "green"
    BY <2>1 DEF Init, head, Bare
  <2>3. \A t \in tags : t.c = 1
    BY <2>1 DEF Init
  <2>4. QED
    BY <2>2, <2>3, ReferenceAssumption DEF Window, Ref
<1>2. IInv /\ Both /\ [Next]_vars => Both'
  <2>1. IInv /\ Both /\ [Next]_vars => Hist'
    BY HistStep DEF CutMajor
  <2>2. IInv /\ Both /\ [Next]_vars => Window'
    BY WindowNext
  <2>3. QED
    BY <2>1, <2>2
<1>3. IInv /\ Both /\ [Next]_vars =>
        [v1' # v1 => LET old == Ref(v1) new == log'[v1'].ref IN
           /\ Components[old.current] \in AcceptedComponents(new)
           /\ Components[new.current] \in AcceptedComponents(old)]_vars
  <2>. SUFFICES ASSUME IInv, Window, Next, v1' # v1
                PROVE  Overlap(Ref(v1), log'[v1'].ref)
    BY DEF vars, Overlap
  <2>1. \A c \in 1 .. head : Progress(c) => v1' = v1 \/ MoveV1(c)
    BY DEF Progress, Checkout, RequireCI, ResolveVersion, VerifyFloor, PushTag, Fail
  <2>2. PICK c \in 1 .. head : MoveV1(c)
    BY <2>1 DEF Next, Land, StartCI, EndCI, CutMajor, Rerun
  <2>3. rel[c].step = "move" /\ v1' = c /\ log' = log
    BY <2>2 DEF MoveV1, At
  <2>4. QED
    BY <2>3 DEF Window, Ref
<1>4. QED
  BY <1>1, <1>2, <1>3, Invariance, PTL DEF Spec, NoFlagDay

-----------------------------------------------------------------------------
(* Where the grace set and the floor come from *)

Released(v) == \E t \in tags : SameComponents(Ref(t.c).current, v)
Backed(r) == Usable(r) /\ FloorHolds(r) /\ (r.previous # None => Released(r.previous))

\* Every released reference has a grace set and a floor that were released, and
\* so has the one that is about to be.
Provenance ==
  /\ \A t \in tags : Backed(Ref(t.c))
  /\ \A c \in 1 .. head : rel[c].step = "tag" => Backed(Ref(c))

\* Nothing that was released is taken back.
LEMMA BackedStays ==
  ASSUME IInv, Hist, tags \subseteq tags', head <= head', \A d \in 1 .. head : log'[d] = log[d],
         NEW c \in 1 .. head, Backed(Ref(c))
  PROVE  Backed(Ref(c))'
<1>1. \A t \in tags : t.c \in 1 .. head
  BY HeadTyped DEF IInv, TypeOK, Tag, Commits, Hist
<1>2. \A d \in 1 .. head : Ref(d)' = Ref(d)
  BY DEF Ref
<1>3. PICK r : r = Ref(c)
  OBVIOUS
<1>4. ASSUME NEW t \in tags, SameComponents(Ref(t.c).current, r.previous)
      PROVE  t \in tags' /\ SameComponents(Ref(t.c)'.current, r.previous)
  BY <1>1, <1>2, <1>4
<1>5. Ref(c)' = r
  BY <1>2, <1>3
<1>6. r.previous # None => \E t \in tags' : SameComponents(Ref(t.c)'.current, r.previous)
  BY <1>3, <1>4 DEF Backed, Released
<1>7. Usable(r) /\ FloorHolds(r)
  BY <1>3 DEF Backed
<1>8. QED
  BY <1>5, <1>6, <1>7 DEF Backed, Released

LEMMA ProvenanceKept ==
  ASSUME IInv, Hist, Provenance, tags \subseteq tags', head <= head',
         \A d \in 1 .. head : log'[d] = log[d],
         \A t \in tags' : t \in tags \/ (t.c \in 1 .. head /\ Backed(Ref(t.c))),
         \A c \in 1 .. head' : rel'[c].step = "tag" => c \in 1 .. head /\ Backed(Ref(c))
  PROVE  Provenance'
<1>1. \A t \in tags : t.c \in 1 .. head /\ Backed(Ref(t.c))
  BY HeadTyped DEF IInv, TypeOK, Tag, Commits, Hist, Provenance
<1>2. ASSUME NEW t \in tags' PROVE Backed(Ref(t.c))'
  <2>1. PICK c \in 1 .. head : c = t.c /\ Backed(Ref(c))
    BY <1>1
  <2>2. Backed(Ref(c))'
    BY <2>1, BackedStays
  <2>3. QED
    BY <2>1, <2>2
<1>3. ASSUME NEW c \in 1 .. head', rel'[c].step = "tag" PROVE Backed(Ref(c))'
  BY <1>3, BackedStays
<1>4. QED
  BY <1>2, <1>3 DEF Provenance

\* A step of the window from a released reference takes its grace set from the
\* base, or from a release before a close.
LEMMA StepIsBacked ==
  ASSUME NEW b \in Reference, NEW h \in Reference, NEW closed, WindowStep(b, h, closed),
         Usable(h), Released(b.current), b.previous # None => Released(b.previous),
         \A v \in closed : v # None => Released(v), h.previous # None
  PROVE  Released(h.previous)
<1>1. b.current # None /\ h.current # None
  BY VintagesAssumption DEF Reference, None
<1>2. h.next = None
  BY DEF Usable
<1>3. CASE Relabel(b, h)
  <2>1. b.previous # None /\ SameComponents(b.previous, h.previous)
    BY <1>3 DEF Relabel, Roles
  <2>2. PICK t \in tags : SameComponents(Ref(t.c).current, b.previous)
    BY <2>1 DEF Released
  <2>3. QED
    BY <2>1, <2>2 DEF Released, SameComponents
<1>4. CASE Reopen(b, h, closed)
  BY <1>4 DEF Reopen
<1>5. CASE Promote(b, h)
  BY <1>5 DEF Promote
<1>6. QED
  BY <1>1, <1>2, <1>3, <1>4, <1>5 DEF WindowStep, Stage, Abandon, Close, Demote, Alone

\* What passes the floor check is backed by what was released.
LEMMA FloorIsBacked ==
  ASSUME IInv, Hist, Provenance, NEW c \in 1 .. head, rel[c].step = "floor", ReferenceHolds(c)
  PROVE  Backed(Ref(c))
<1>1. PICK prev : prev = rel[c].prev /\ prev \in tags
  BY DEF Hist, CountedFrom, Newest
<1>2. rel[c].seen = tags
  BY DEF Hist
<1>3. prev.c \in 1 .. head /\ prev.c \in Nat /\ Backed(Ref(prev.c))
  BY <1>1, HeadTyped DEF IInv, TypeOK, Tag, Commits, Hist, Provenance
<1>4. PICK b : b = Ref(prev.c)
  OBVIOUS
<1>5. b \in LastUsable(prev.c)
  <2>1. Usable(b) /\ prev.c \in 1 .. prev.c /\ \A f \in (prev.c + 1) .. prev.c : ~Usable(Ref(f))
    BY <1>3, <1>4 DEF Backed
  <2>2. QED
    BY <1>4, <2>1 DEF LastUsable
<1>6. PICK closed : closed = PreviousBeforeClose(tags, prev.c, b)
  OBVIOUS
<1>7. WindowStep(b, Ref(c), closed)
  BY <1>1, <1>2, <1>5, <1>6 DEF ReferenceHolds
<1>8. \A v \in closed : v # None => Released(v)
  <2>1. ASSUME NEW v \in closed PROVE \E t \in tags : v = Ref(t.c).previous
    BY <1>6 DEF PreviousBeforeClose, Newest
  <2>2. QED
    BY <2>1 DEF Provenance, Backed
<1>9. b \in Reference /\ Ref(c) \in Reference
  BY <1>3, <1>4, HeadTyped DEF Ref, Commit, IInv
<1>10. Released(b.current) /\ (b.previous # None => Released(b.previous))
  BY <1>1, <1>3, <1>4 DEF Released, SameComponents, Backed
<1>11. Usable(Ref(c)) /\ FloorHolds(Ref(c))
  BY DEF ReferenceHolds
<1>12. QED
  BY <1>7, <1>8, <1>9, <1>10, <1>11, StepIsBacked DEF Backed

LEMMA ProvenanceNext ==
  ASSUME IInv, Hist, Provenance, HandMajor = FALSE, [Next]_vars
  PROVE  Provenance'
<1>1. DOMAIN rel = 1 .. head /\ head \in Nat /\ \A c \in 1 .. head : rel[c] \in Run
  <2>1. rel \in [1 .. head -> Run]
    BY DEF IInv, TypeOK
  <2>2. head \in Nat
    BY HeadTyped DEF IInv
  <2>3. QED
    BY <2>1, <2>2
\* No tag is pushed and no run gets to the point of pushing one.
<1>2. ASSUME tags' = tags, head <= head', \A d \in 1 .. head : log'[d] = log[d],
             \A c \in 1 .. head' : rel'[c].step = "tag" => c \in 1 .. head /\ rel[c].step = "tag"
      PROVE  Provenance'
  BY <1>2, ProvenanceKept DEF Provenance
<1>3. CASE UNCHANGED <<log, tags, rel>>
  BY <1>1, <1>2, <1>3 DEF head
<1>4. CASE \/ \E kind \in Kinds, ref \in Refs : Land(kind, ref)
           \/ \E c \in 1 .. head : Rerun(c)
  BY <1>2, <1>4, EnteringIs
<1>5. ASSUME NEW c \in 1 .. head, NEW o \in Ended, Finish(c, o), UNCHANGED <<log, tags>>
      PROVE  Provenance'
  <2>1. \A d \in 1 .. head : rel'[d].step \in {o, "checkout", rel[d].step}
    BY <1>5 DEF Finish, Bare
  <2>2. head' = head /\ \A d \in 1 .. head : rel'[d].step = "tag" => rel[d].step = "tag"
    BY <1>5, <2>1 DEF Ended, head
  <2>3. QED
    BY <1>1, <1>2, <1>5, <2>2
<1>6. ASSUME NEW c \in 1 .. head, NEW r, r.step # "tag", rel' = [rel EXCEPT ![c] = r], UNCHANGED <<log, tags>>
      PROVE  Provenance'
  <2>1. head' = head /\ \A d \in 1 .. head : rel'[d].step = "tag" => rel[d].step = "tag"
    BY <1>1, <1>6 DEF head
  <2>2. QED
    BY <1>1, <1>2, <1>6, <2>1
<1>7. ASSUME NEW c \in 1 .. head, Progress(c) PROVE Provenance'
  <2>1. CASE Checkout(c)
    <3>1. PICK r : r = [rel[c] EXCEPT !.step = "gate", !.seen = tags]
      OBVIOUS
    <3>2. r.step = "gate" /\ rel' = [rel EXCEPT ![c] = r]
      BY <1>1, <2>1, <3>1 DEF Checkout, Run
    <3>3. QED
      BY <1>6, <2>1, <3>2 DEF Checkout
  <2>2. CASE RequireCI(c)
    <3>1. CASE Finish(c, "red")
      BY <1>5, <2>2, <3>1 DEF RequireCI, Ended
    <3>2. CASE Goto(c, "version")
      <4>1. PICK r : r = [rel[c] EXCEPT !.step = "version"]
        OBVIOUS
      <4>2. r.step = "version" /\ rel' = [rel EXCEPT ![c] = r]
        BY <1>1, <3>2, <4>1 DEF Goto, Run
      <4>3. QED
        BY <1>6, <2>2, <4>2 DEF RequireCI
    <3>3. QED
      BY <2>2, <3>1, <3>2 DEF RequireCI
  <2>3. CASE ResolveVersion(c)
    <3>1. CASE \E o \in {"green", "red"} : Finish(c, o)
      BY <1>5, <2>3, <3>1 DEF ResolveVersion, Ended
    <3>2. ASSUME NEW t, rel' = [rel EXCEPT ![c].step = "floor", ![c].prev = t]
          PROVE  Provenance'
      <4>1. PICK r : r = [rel[c] EXCEPT !.step = "floor", !.prev = t]
        OBVIOUS
      <4>2. r.step = "floor" /\ rel' = [rel EXCEPT ![c] = r]
        BY <1>1, <3>2, <4>1 DEF Run
      <4>3. QED
        BY <1>6, <2>3, <4>2 DEF ResolveVersion
    <3>3. QED
      BY <2>3, <3>1, <3>2 DEF ResolveVersion
  <2>4. CASE VerifyFloor(c)
    <3>1. CASE Finish(c, "red")
      BY <1>5, <2>4, <3>1 DEF VerifyFloor, Ended
    <3>2. CASE ReferenceHolds(c) /\ Goto(c, "tag")
      <4>1. Backed(Ref(c))
        BY <2>4, <3>2, FloorIsBacked DEF VerifyFloor, At
      <4>2. head' = head /\ \A d \in 1 .. head : d # c => rel'[d] = rel[d]
        BY <1>1, <2>4, <3>2 DEF Goto, VerifyFloor, head
      <4>3. \A d \in 1 .. head' : rel'[d].step = "tag" => d \in 1 .. head /\ Backed(Ref(d))
        BY <4>1, <4>2 DEF Provenance
      <4>4. QED
        BY <1>1, <2>4, <4>2, <4>3, ProvenanceKept DEF VerifyFloor
    <3>3. QED
      BY <2>4, <3>1, <3>2 DEF VerifyFloor
  <2>5. CASE PushTag(c)
    <3>1. CASE Finish(c, "red") /\ UNCHANGED tags
      BY <1>5, <2>5, <3>1 DEF PushTag, Ended
    <3>2. CASE Goto(c, "move") /\ tags' = tags \cup {[v |-> NewVersion(c), c |-> c]}
      <4>1. Backed(Ref(c))
        BY <2>5 DEF PushTag, At, Provenance
      <4>2. head' = head /\ \A d \in 1 .. head : rel'[d].step = "tag" => rel[d].step = "tag"
        BY <1>1, <2>5, <3>2 DEF Goto, PushTag, head
      <4>3. \A d \in 1 .. head' : rel'[d].step = "tag" => d \in 1 .. head /\ Backed(Ref(d))
        BY <4>2 DEF Provenance
      <4>4. \A t \in tags' : t \in tags \/ (t.c \in 1 .. head /\ Backed(Ref(t.c)))
        BY <3>2, <4>1
      <4>5. QED
        BY <1>1, <2>5, <3>2, <4>2, <4>3, <4>4, ProvenanceKept DEF PushTag
    <3>3. QED
      BY <2>5, <3>1, <3>2 DEF PushTag
  <2>6. CASE MoveV1(c)
    BY <1>5, <2>6 DEF MoveV1, Ended
  <2>7. CASE Fail(c)
    BY <1>5, <2>7 DEF Fail, Ended
  <2>8. QED
    BY <1>7, <2>1, <2>2, <2>3, <2>4, <2>5, <2>6, <2>7 DEF Progress
<1>8. ASSUME NEW c \in 1 .. head, NEW event \in {"push", "daily"}, StartCI(c, event) \/ EndCI(c, event)
      PROVE  Provenance'
  BY <1>3, <1>8 DEF StartCI, EndCI
<1>9. CASE UNCHANGED vars
  BY <1>3, <1>9 DEF vars
<1>10. QED
  BY <1>4, <1>7, <1>8, <1>9 DEF Next, CutMajor

\* What v1 accepts as previous, and its floor, were current in some release, as
\* long as no person tags: verify-reference-floor lets a grace set in only from
\* the current of the newest tag, or back from a release before a close.  Runs
\* that are lost between their two pushes do not matter here: a reference is
\* compared with tags, and it is in a tag before it is under v1.
THEOREM GraceSetsWereReleased ==
  ASSUME AnyOrder = FALSE, HandMajor = FALSE
  PROVE  Spec => []PreviousWasReleased
<1>. DEFINE Both == Hist /\ Provenance
<1>1. Init => Both
  <2>1. SUFFICES ASSUME Init PROVE Provenance
    BY HistInit
  <2>2. head = 1 /\ 1 .. head = {1} /\ log[1].ref = InitialRef /\ rel[1].step = "green"
    BY <2>1 DEF Init, head, Bare
  <2>3. \A t \in tags : t.c = 1
    BY <2>1 DEF Init
  <2>4. Backed(InitialRef)
    BY ReferenceAssumption DEF Backed, Alone
  <2>5. QED
    BY <2>2, <2>3, <2>4 DEF Provenance, Ref
<1>2. IInv /\ Both /\ [Next]_vars => Both'
  <2>1. IInv /\ Both /\ [Next]_vars => Hist'
    BY HistStep DEF CutMajor
  <2>2. IInv /\ Both /\ [Next]_vars => Provenance'
    BY ProvenanceNext
  <2>3. QED
    BY <2>1, <2>2
<1>3. IInv /\ Both => PreviousWasReleased
  <2>1. SUFFICES ASSUME IInv, Provenance, NEW v \in {Ref(v1).previous, Ref(v1).floor} \ {None}
                 PROVE  Released(v)
    BY DEF PreviousWasReleased, Released
  <2>2. PICK t \in tags : t.c = v1
    BY <2>1 DEF IInv, Traced, Tagged
  <2>3. Backed(Ref(v1)) /\ Released(Ref(v1).current)
    BY <2>1, <2>2 DEF Provenance, Released, SameComponents
  <2>4. QED
    BY <2>1, <2>3 DEF Backed, FloorHolds
<1>4. QED
  BY <1>1, <1>2, <1>3, Invariance, PTL DEF Spec
=============================================================================
