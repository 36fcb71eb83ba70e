------------------------- MODULE BumpModulePinProofs -------------------------
(***************************************************************************)
(* Bump PRs never downgrade a pin, cross a boundary only by review, and no *)
(* version is forgotten, for every set of modules and versions.            *)
(*                                                                         *)
(* The comparison is made when the leg checks the consumer out and the PR  *)
(* merges at any later moment.  What connects the two is the pin the leg   *)
(* read: the leg carries it, the PR starts from it and merges only onto    *)
(* it.  MovesUp states this for both and is inductive.  Review adds that   *)
(* what was read is not above the pin, and Followed that each module is    *)
(* released in order and its leg works on the newest release.              *)
(***************************************************************************)
EXTENDS BumpModulePin, TLAPS

Above(v, p) == p = Nil \/ Newer(v, p)

MovesUp ==
  /\ \A m \in Modules : leg[m] # Nil /\ leg[m].step # "guard" => Above(leg[m].v, leg[m].cur)
  /\ \A p \in prs : Above(p.v, p.from)

IInv == TypeOK /\ MovesUp

\* A leg is never confused with "no leg" (the shape of TypeOK for one module).
LEMMA LegTyped ==
  ASSUME TypeOK, NEW m \in Modules, leg[m] # Nil
  PROVE  leg[m] \in Leg
BY DEF TypeOK

\* Ending a leg keeps the invariant, whatever its outcome.
LEMMA FinishKeeps ==
  ASSUME IInv, NEW m \in Modules, leg[m] # Nil,
         NEW o \in {"green", "failed"}, Finish(m, o)
  PROVE  /\ leg' \in [Modules -> Leg \cup {Nil}]
         /\ result' \in [Modules -> [Releases -> {"unreleased", "running", "green", "failed"}]]
         /\ \A n \in Modules : leg'[n] # Nil /\ leg'[n].step # "guard" => Above(leg'[n].v, leg'[n].cur)
<1>1. leg[m].v \in Releases
  BY LegTyped DEF Leg, IInv
<1>2. leg' \in [Modules -> Leg \cup {Nil}]
  BY DEF IInv, TypeOK, Finish
<1>3. result' \in [Modules -> [Releases -> {"unreleased", "running", "green", "failed"}]]
  BY <1>1 DEF IInv, TypeOK, Finish
<1>4. \A n \in Modules : leg'[n] # Nil => leg'[n] = leg[n]
  BY DEF IInv, TypeOK, Finish
<1>5. QED
  BY <1>2, <1>3, <1>4 DEF IInv, MovesUp

\* Moving to the next step keeps the invariant once the pin has been compared.
LEMMA GotoKeeps ==
  ASSUME IInv, NEW m \in Modules, leg[m] # Nil, leg[m].step # "guard",
         NEW step \in {"test", "close", "open", "arm"}, Goto(m, step)
  PROVE  /\ leg' \in [Modules -> Leg \cup {Nil}]
         /\ \A n \in Modules : leg'[n] # Nil /\ leg'[n].step # "guard" => Above(leg'[n].v, leg'[n].cur)
<1>1. leg[m] \in Leg
  BY LegTyped DEF IInv
<1>2. PICK r : r = [leg[m] EXCEPT !.step = step]
  OBVIOUS
<1>3. r \in Leg /\ r.v = leg[m].v /\ r.cur = leg[m].cur
  BY <1>1, <1>2 DEF Leg
<1>4. leg' = [leg EXCEPT ![m] = r]
  BY <1>2 DEF Goto
<1>5. leg' \in [Modules -> Leg \cup {Nil}]
  BY <1>3, <1>4 DEF IInv, TypeOK
<1>6. \A n \in Modules : leg'[n] = IF n = m THEN r ELSE leg[n]
  BY <1>4 DEF IInv, TypeOK
<1>7. QED
  BY <1>3, <1>5, <1>6 DEF IInv, MovesUp

\* Starting a leg keeps the invariant: it has not read the pin yet.
LEMMA StartKeeps ==
  ASSUME IInv, Nil \notin Version, NEW m \in Modules, NEW v \in Releases, Start(m, v),
         UNCHANGED <<pin, prs>>, mishaps' \subseteq Mishap
  PROVE  IInv'
<1>1. PICK r : r = [v |-> v, cur |-> Nil, step |-> "guard"]
  OBVIOUS
<1>2. r \in Leg /\ r.step = "guard"
  BY <1>1 DEF Leg, Pin
<1>3. leg' = [leg EXCEPT ![m] = r]
  BY <1>1 DEF Start
<1>4. leg' \in [Modules -> Leg \cup {Nil}] /\ \A n \in Modules : leg'[n] = IF n = m THEN r ELSE leg[n]
  BY <1>2, <1>3 DEF IInv, TypeOK
<1>5. result' \in [Modules -> [Releases -> {"unreleased", "running", "green", "failed"}]]
  BY DEF IInv, TypeOK, Start
<1>6. QED
  BY <1>2, <1>4, <1>5 DEF IInv, TypeOK, MovesUp

\* Closing and merging only remove PRs.
LEMMA FewerPRs ==
  ASSUME IInv, prs' \subseteq prs
  PROVE  prs' \subseteq PR /\ \A p \in prs' : Above(p.v, p.from)
BY DEF IInv, TypeOK, MovesUp

LEMMA InitKeeps == Init => IInv
<1> SUFFICES ASSUME Init PROVE IInv
  OBVIOUS
<1>2. TypeOK
  <2>1. pin \in [Modules -> Pin]
    BY VersionsAssumption DEF Init, Pin
  <2>2. leg \in [Modules -> Leg \cup {Nil}]
    BY DEF Init
  <2>3. prs \subseteq PR
    BY DEF Init
  <2>4. result \in [Modules -> [Releases -> {"unreleased", "running", "green", "failed"}]]
    BY DEF Init
  <2>5. mishaps \subseteq Mishap
    BY DEF Init
  <2>6. QED
    BY <2>1, <2>2, <2>3, <2>4, <2>5 DEF TypeOK
<1>3. MovesUp
  <2>1. \A m \in Modules : leg[m] = Nil
    BY DEF Init
  <2>2. prs = {}
    BY DEF Init
  <2>3. QED
    BY <2>1, <2>2 DEF MovesUp
<1>4. QED
  BY <1>2, <1>3 DEF IInv

LEMMA LegStepKeeps ==
  ASSUME IInv, NEW m \in Modules, LegStep(m)
  PROVE  IInv'
<1>0. mishaps' \subseteq Mishap
  BY DEF IInv, TypeOK, Mishap, LegStep, ReleaseNext, RerunLeg, SkipStaleBump, TestNewPin,
         CloseSuperseded, OpenPR, ArmAutoMerge, LegFails
<1>1. ASSUME NEW v \in Releases, ReleaseNext(m, v) PROVE IInv'
  BY <1>0, <1>1, StartKeeps, VersionsAssumption DEF ReleaseNext
<1>2. ASSUME NEW v \in Releases, RerunLeg(m, v) PROVE IInv'
  BY <1>0, <1>2, StartKeeps, VersionsAssumption DEF RerunLeg
<1>3. CASE SkipStaleBump(m)
  <2>1. leg[m] # Nil /\ leg[m] \in Leg
    BY <1>3, LegTyped DEF SkipStaleBump, At, IInv
  <2>2. CASE AtLeast(pin[m], leg[m].v)
    <3>1. Finish(m, "green") /\ UNCHANGED <<pin, prs>>
      BY <1>3, <2>2 DEF SkipStaleBump
    <3>2. QED
      BY <1>0, <2>1, <3>1, FinishKeeps DEF IInv, TypeOK, MovesUp
  <2>3. CASE ~AtLeast(pin[m], leg[m].v)
    <3>1. PICK r : r = [leg[m] EXCEPT !.step = "test", !.cur = pin[m]]
      OBVIOUS
    <3>2. r \in Leg /\ r.v = leg[m].v /\ r.cur = pin[m]
      BY <2>1, <3>1 DEF IInv, TypeOK, Leg
    <3>3. Above(r.v, r.cur)
      BY <2>3, <3>2 DEF AtLeast, Above
    <3>4. leg' = [leg EXCEPT ![m] = r] /\ UNCHANGED <<pin, prs, result>>
      BY <1>3, <2>3, <3>1 DEF SkipStaleBump
    <3>5. leg' \in [Modules -> Leg \cup {Nil}] /\ \A n \in Modules : leg'[n] = IF n = m THEN r ELSE leg[n]
      BY <3>2, <3>4 DEF IInv, TypeOK
    <3>6. QED
      BY <1>0, <3>3, <3>4, <3>5 DEF IInv, TypeOK, MovesUp
  <2>4. QED
    BY <2>2, <2>3
<1>4. CASE TestNewPin(m)
  BY <1>0, <1>4, GotoKeeps DEF TestNewPin, At, IInv, TypeOK, MovesUp
<1>5. CASE CloseSuperseded(m)
  <2>1. prs' \subseteq prs
    BY <1>5 DEF CloseSuperseded
  <2>2. QED
    BY <1>0, <1>5, <2>1, FewerPRs, GotoKeeps DEF CloseSuperseded, At, IInv, TypeOK, MovesUp
<1>6. CASE OpenPR(m)
  <2>1. leg[m] # Nil /\ leg[m] \in Leg /\ leg[m].step # "guard" /\ UNCHANGED pin
    BY <1>6, LegTyped DEF OpenPR, At, IInv
  <2>2. CASE pin[m] = leg[m].v
    <3>1. Finish(m, "green") /\ prs' \subseteq prs
      BY <1>6, <2>2 DEF OpenPR
    <3>2. QED
      BY <1>0, <2>1, <3>1, FewerPRs, FinishKeeps DEF IInv, TypeOK, MovesUp
  <2>3. CASE pin[m] # leg[m].v
    <3>1. PICK p : p = [m |-> m, v |-> leg[m].v, from |-> leg[m].cur, auto |-> \E q \in Own(m) : q.auto]
      OBVIOUS
    <3>2. prs' \subseteq prs \cup {p} /\ Goto(m, "arm") /\ UNCHANGED result
      BY <1>6, <2>3, <3>1 DEF OpenPR
    <3>3. p.m \in Modules /\ p.v = leg[m].v /\ p.from = leg[m].cur /\ p \in PR
      <4>1. (\E q \in Own(m) : q.auto) \in BOOLEAN
        OBVIOUS
      <4>2. QED
        BY <2>1, <3>1, <4>1, Zenon DEF Leg, PR
    <3>4. Above(p.v, p.from)
      BY <2>1, <3>3 DEF IInv, MovesUp
    <3>5. prs' \subseteq PR /\ \A q \in prs' : Above(q.v, q.from)
      BY <3>2, <3>3, <3>4 DEF IInv, TypeOK, MovesUp
    <3>6. QED
      BY <1>0, <2>1, <3>2, <3>5, GotoKeeps DEF IInv, TypeOK, MovesUp
  <2>4. QED
    BY <2>2, <2>3
<1>7. CASE ArmAutoMerge(m)
  <2>1. PICK arm \in BOOLEAN : prs' = {[p EXCEPT !.auto = @ \/ (arm /\ p \in Own(m))] : p \in prs}
    BY <1>7 DEF ArmAutoMerge
  <2>2. \A q \in prs' : \E p \in prs, a \in BOOLEAN : q = [p EXCEPT !.auto = a]
    BY <2>1 DEF IInv, TypeOK, PR
  <2>3. prs' \subseteq PR /\ \A q \in prs' : Above(q.v, q.from)
    BY <2>2 DEF IInv, TypeOK, PR, MovesUp
  <2>4. PICK o \in {"green", "failed"} : Finish(m, o)
    BY <1>7 DEF ArmAutoMerge
  <2>5. leg[m] # Nil /\ UNCHANGED pin
    BY <1>7 DEF ArmAutoMerge, At
  <2>6. QED
    BY <1>0, <2>3, <2>4, <2>5, FinishKeeps DEF IInv, TypeOK, MovesUp
<1>8. CASE LegFails(m)
  BY <1>0, <1>8, FinishKeeps DEF LegFails, IInv, TypeOK, MovesUp
<1>9. QED
  BY <1>1, <1>2, <1>3, <1>4, <1>5, <1>6, <1>7, <1>8 DEF LegStep

LEMMA MergeKeeps ==
  ASSUME IInv, NEW p \in prs, Merge(p)
  PROVE  IInv'
<1>1. p.m \in Modules /\ p.v \in Version
  BY VersionsAssumption DEF IInv, TypeOK, PR
<1>2. pin' \in [Modules -> Pin]
  BY <1>1 DEF Merge, IInv, TypeOK, Pin
<1>3. prs' \subseteq prs
  BY DEF Merge
<1>4. QED
  BY <1>2, <1>3, FewerPRs DEF Merge, IInv, TypeOK, MovesUp

\* The invariant is inductive: every step of a leg, every merge and every edit
\* of the pin by hand keeps it.
THEOREM Invariance == Spec => []IInv
<1>1. Init => IInv
  BY InitKeeps
<1>2. IInv /\ [Next]_vars => IInv'
  <2>1. SUFFICES ASSUME IInv, [Next]_vars PROVE IInv'
    OBVIOUS
  <2>2. ASSUME NEW m \in Modules, LegStep(m) PROVE IInv'
    BY <2>1, <2>2, LegStepKeeps
  <2>3. ASSUME NEW m \in Modules, NEW v \in HandPins, EditPin(m, v) PROVE IInv'
    BY <2>1, <2>3, VersionsAssumption DEF EditPin, IInv, TypeOK, MovesUp, Pin, Mishap
  <2>4. ASSUME NEW p \in prs, AutoMerge(p) PROVE IInv'
    BY <2>1, <2>4, MergeKeeps DEF AutoMerge
  <2>5. ASSUME NEW p \in prs, ReviewAndMerge(p) PROVE IInv'
    BY <2>1, <2>5, MergeKeeps DEF ReviewAndMerge
  <2>6. CASE UNCHANGED vars
    BY <2>1, <2>6 DEF vars, IInv, TypeOK, MovesUp
  <2>7. QED
    BY <2>1, <2>2, <2>3, <2>4, <2>5, <2>6 DEF Next
<1>3. QED
  BY <1>1, <1>2, PTL DEF Spec

\* A bump PR that can merge raises the pin, for every order of legs, merges
\* and edits (the guard of bump-module-pin against out-of-order bumps).
THEOREM BumpsNeverDowngrade == Spec => []NeverDowngrades
<1>1. IInv => NeverDowngrades
  BY DEF IInv, MovesUp, Above, NeverDowngrades
<1>2. QED
  BY <1>1, Invariance, PTL

-----------------------------------------------------------------------------
(* Versions *)

LEMMA NewerIsAnOrder ==
  ASSUME NEW u \in Version, NEW v \in Version, NEW w \in Version
  PROVE  /\ ~Newer(v, v)
         /\ Newer(u, v) /\ ~Newer(w, v) => Newer(u, w)
         /\ ~Newer(u, v) /\ ~Newer(v, w) => ~Newer(u, w)
BY DEF Newer, Version

\* What lies between two versions of one boundary is inside it.
LEMMA BoundaryIsConvex ==
  ASSUME NEW u \in Version, NEW v \in Version, NEW w \in Version,
         Newer(w, v), ~Newer(u, v), Boundary(u) = Boundary(w)
  PROVE  Boundary(v) = Boundary(w)
<1>1. /\ u.ma \in Nat /\ u.mi \in Nat /\ v.ma \in Nat /\ v.mi \in Nat /\ w.ma \in Nat /\ w.mi \in Nat
      /\ u.pa \in Nat /\ v.pa \in Nat /\ w.pa \in Nat
  BY DEF Version
<1>2. u.ma <= v.ma /\ v.ma <= w.ma
  BY <1>1 DEF Newer
<1>3. CASE u.ma = 0
  <2>1. Boundary(u) = <<0, u.mi>>
    BY <1>3 DEF Boundary
  <2>2. w.ma = 0 /\ w.mi = u.mi
    BY <1>1, <2>1 DEF Boundary
  <2>3. v.ma = 0 /\ v.mi = w.mi
    BY <1>1, <1>2, <1>3, <2>2 DEF Newer
  <2>4. QED
    BY <2>2, <2>3 DEF Boundary
<1>4. CASE u.ma # 0
  <2>1. Boundary(u) = <<u.ma, 0>>
    BY <1>4 DEF Boundary
  <2>2. w.ma = u.ma
    BY <1>1, <1>4, <2>1 DEF Boundary
  <2>3. v.ma = w.ma /\ v.ma # 0
    BY <1>1, <1>2, <1>4, <2>2
  <2>4. QED
    BY <2>3 DEF Boundary
<1>5. QED
  BY <1>3, <1>4

\* A bump the leg does not call major crosses no boundary.
LEMMA PatchStaysInside ==
  ASSUME NEW cur \in Version, NEW v \in Version, Newer(v, cur), Tier(cur, v) # "major"
  PROVE  Boundary(cur) = Boundary(v)
<1>1. cur # Nil
  BY VersionsAssumption
<1>2. ~(v.ma > cur.ma \/ (v.ma = 0 /\ cur.ma = 0 /\ v.mi > cur.mi))
  BY <1>1 DEF Tier
<1>3. cur.ma \in Nat /\ cur.mi \in Nat /\ v.ma \in Nat /\ v.mi \in Nat
  BY DEF Version
<1>4. v.ma = cur.ma /\ (v.ma = 0 => v.mi = cur.mi)
  BY <1>2, <1>3 DEF Newer
<1>5. QED
  BY <1>4 DEF Boundary

\* Without edits a pin only grows.
LEMMA MergeRaises ==
  ASSUME IInv, NEW p \in prs, Mergeable(p), Merge(p), NEW n \in Modules, NEW x \in Version, AtLeast(pin[n], x)
  PROVE  AtLeast(pin'[n], x)
<1>1. p.m \in Modules /\ p.v \in Version /\ p.v # Nil
  BY VersionsAssumption DEF IInv, TypeOK, PR
<1>2. pin' = [pin EXCEPT ![p.m] = p.v] /\ pin \in [Modules -> Pin]
  BY DEF Merge, IInv, TypeOK
<1>3. CASE n # p.m
  BY <1>1, <1>2, <1>3
<1>4. CASE n = p.m
  <2>1. pin[n] \in Version /\ pin[n] = p.from /\ ~Newer(x, pin[n])
    BY <1>2, <1>4 DEF AtLeast, Pin, Mergeable
  <2>2. Newer(p.v, pin[n])
    BY <2>1, VersionsAssumption DEF IInv, MovesUp, Above
  <2>3. pin'[n] = p.v
    BY <1>1, <1>2, <1>4
  <2>4. Newer(p.v, x)
    BY <1>1, <2>1, <2>2, NewerIsAnOrder
  <2>5. ~Newer(x, p.v)
    BY <1>1, <2>4 DEF Newer, Version
  <2>6. QED
    BY <1>1, <2>3, <2>5 DEF AtLeast
<1>5. QED
  BY <1>3, <1>4

-----------------------------------------------------------------------------
(* Majors are reviewed *)

\* What a leg read, and what a PR started from, is not above the pin; the own PR
\* of a leg started no later than the leg.  So when its branch is updated,
\* auto-merge armed for the longer way was armed for the shorter one.
Review ==
  /\ \A m \in Modules : pin[m] \in Version
  /\ \A p \in prs : /\ p.from \in Version /\ AtLeast(pin[p.m], p.from)
                    /\ p.auto => ~Crosses(p)
  /\ \A m \in Modules : leg[m] # Nil /\ leg[m].step # "guard" =>
       /\ leg[m].cur \in Version /\ AtLeast(pin[m], leg[m].cur)
       /\ \A q \in prs : q.m = m /\ q.v = leg[m].v =>
            /\ AtLeast(leg[m].cur, q.from)
            /\ leg[m].step = "arm" => q.from = leg[m].cur

\* A step of the leg of m keeps it if what it leaves of m is in order.
LEMMA SameReview ==
  ASSUME IInv, Review, pin' = pin, NEW m \in Modules,
         \A n \in Modules : n # m => leg'[n] = leg[n],
         \A p \in prs' : \/ p \in prs
                         \/ /\ p.m = m /\ p.from \in Version /\ AtLeast(pin[m], p.from)
                            /\ p.auto => ~Crosses(p),
         leg'[m] # Nil /\ leg'[m].step # "guard" =>
           /\ leg'[m].cur \in Version /\ AtLeast(pin[m], leg'[m].cur)
           /\ \A q \in prs' : q.m = m /\ q.v = leg'[m].v =>
                /\ AtLeast(leg'[m].cur, q.from)
                /\ leg'[m].step = "arm" => q.from = leg'[m].cur
  PROVE  Review'
<1>1. \A p \in prs' : /\ p.from \in Version /\ AtLeast(pin[p.m], p.from)
                      /\ p.auto => ~Crosses(p)
  BY DEF Review
<1>2. ASSUME NEW n \in Modules, n # m, leg'[n] # Nil, leg'[n].step # "guard"
      PROVE  /\ leg'[n].cur \in Version /\ AtLeast(pin[n], leg'[n].cur)
             /\ \A q \in prs' : q.m = n /\ q.v = leg'[n].v =>
                  /\ AtLeast(leg'[n].cur, q.from)
                  /\ leg'[n].step = "arm" => q.from = leg'[n].cur
  BY <1>2 DEF Review
<1>3. \A n \in Modules : leg'[n] # Nil /\ leg'[n].step # "guard" =>
        /\ leg'[n].cur \in Version /\ AtLeast(pin[n], leg'[n].cur)
        /\ \A q \in prs' : q.m = n /\ q.v = leg'[n].v =>
             /\ AtLeast(leg'[n].cur, q.from)
             /\ leg'[n].step = "arm" => q.from = leg'[n].cur
  BY <1>2
<1>4. QED
  BY <1>1, <1>3 DEF Review

\* Ending a leg leaves nothing of it.
LEMMA EndingKeepsReview ==
  ASSUME IInv, Review, NEW m \in Modules, NEW o, Finish(m, o), pin' = pin, prs' \subseteq prs
  PROVE  Review'
<1>1. leg'[m] = Nil /\ \A n \in Modules : n # m => leg'[n] = leg[n]
  BY DEF Finish, IInv, TypeOK
<1>2. QED
  BY <1>1, SameReview

LEMMA LegStepKeepsReview ==
  ASSUME IInv, Review, NEW m \in Modules, LegStep(m)
  PROVE  Review'
<1>. DEFINE l == leg[m]
<1>1. pin' = pin /\ leg \in [Modules -> Leg \cup {Nil}] /\ pin[m] \in Version /\ pin[m] # Nil
  BY VersionsAssumption DEF IInv, TypeOK, Review, LegStep, ReleaseNext, RerunLeg, SkipStaleBump, TestNewPin,
                            CloseSuperseded, OpenPR, ArmAutoMerge, LegFails
<1>2. ASSUME NEW v \in Releases, Start(m, v), prs' = prs PROVE Review'
  <2>1. leg'[m].step = "guard" /\ \A n \in Modules : n # m => leg'[n] = leg[n]
    BY <1>1, <1>2 DEF Start
  <2>2. QED
    BY <1>1, <1>2, <2>1, SameReview
<1>3. CASE SkipStaleBump(m)
  <2>1. CASE Finish(m, "green") /\ prs' = prs
    BY <1>1, <2>1, EndingKeepsReview
  <2>2. CASE leg' = [leg EXCEPT ![m].step = "test", ![m].cur = pin[m]] /\ prs' = prs
    <3>1. l \in Leg
      BY <1>1, <1>3 DEF SkipStaleBump, At
    <3>2. leg'[m].cur = pin[m] /\ leg'[m].step = "test" /\ leg'[m].v = l.v
      BY <1>1, <2>2, <3>1 DEF Leg
    <3>3. \A n \in Modules : n # m => leg'[n] = leg[n]
      BY <1>1, <2>2
    <3>4. ~Newer(pin[m], pin[m])
      BY <1>1, NewerIsAnOrder
    <3>5. \A q \in prs : q.m = m => AtLeast(pin[m], q.from)
      BY DEF Review
    <3>6. QED
      BY <1>1, <2>2, <3>2, <3>3, <3>4, <3>5, SameReview DEF AtLeast
  <2>3. QED
    BY <1>3, <2>1, <2>2 DEF SkipStaleBump
<1>4. ASSUME NEW step \in {"close", "open"}, l # Nil, l.step \in {"test", "close"}, Goto(m, step), prs' \subseteq prs
      PROVE  Review'
  <2>1. l \in Leg
    BY <1>1, <1>4
  <2>2. leg'[m].cur = l.cur /\ leg'[m].v = l.v /\ leg'[m].step = step
    BY <1>1, <1>4, <2>1 DEF Goto, Leg
  <2>3. \A n \in Modules : n # m => leg'[n] = leg[n]
    BY <1>1, <1>4 DEF Goto
  <2>4. l.cur \in Version /\ AtLeast(pin[m], l.cur) /\ \A q \in prs : q.m = m /\ q.v = l.v => AtLeast(l.cur, q.from)
    BY <1>4 DEF Review
  <2>5. QED
    BY <1>1, <1>4, <2>2, <2>3, <2>4, SameReview
<1>5. CASE OpenPR(m)
  <2>1. l \in Leg /\ l # Nil /\ l.step = "open"
    BY <1>1, <1>5 DEF OpenPR, At
  <2>2. /\ l.cur \in Version /\ AtLeast(pin[m], l.cur) /\ l.v \in Version
        /\ \A q \in prs : q.m = m /\ q.v = l.v => AtLeast(l.cur, q.from)
    BY <2>1, VersionsAssumption DEF Review, Leg
  <2>3. Newer(l.v, l.cur)
    BY <2>1, <2>2, VersionsAssumption DEF IInv, MovesUp, Above
  <2>4. CASE Finish(m, "green") /\ prs' = prs \ Own(m)
    BY <1>1, <2>4, EndingKeepsReview
  <2>5. ASSUME NEW p, p = [m |-> m, v |-> l.v, from |-> l.cur, auto |-> \E q \in Own(m) : q.auto],
               prs' = (prs \ Own(m)) \cup {p}, Goto(m, "arm")
        PROVE  Review'
    <3>1. p.m = m /\ p.v = l.v /\ p.from = l.cur /\ (p.auto => \E q \in Own(m) : q.auto)
      BY <2>5
    <3>2. ASSUME p.auto PROVE ~Crosses(p)
      <4>1. PICK q \in prs : q.m = m /\ q.v = l.v /\ q.auto
        BY <3>1, <3>2 DEF Own
      <4>2. q.from \in Version /\ q.from # Nil /\ Boundary(q.from) = Boundary(l.v) /\ AtLeast(l.cur, q.from)
        BY <2>2, <4>1, VersionsAssumption DEF Review, Crosses
      <4>3. ~Newer(q.from, l.cur)
        BY <4>2 DEF AtLeast
      <4>4. Boundary(l.cur) = Boundary(l.v)
        BY <2>2, <2>3, <4>2, <4>3, BoundaryIsConvex
      <4>5. QED
        BY <3>1, <4>4 DEF Crosses
    <3>3. leg'[m].cur = l.cur /\ leg'[m].v = l.v /\ leg'[m].step = "arm"
      BY <1>1, <2>1, <2>5 DEF Goto, Leg
    <3>4. \A n \in Modules : n # m => leg'[n] = leg[n]
      BY <1>1, <2>5 DEF Goto
    <3>5. \A q \in prs' : q \in prs \/ q = p
      BY <2>5
    <3>6. \A q \in prs' : q.m = m /\ q.v = l.v => q = p
      BY <2>5 DEF Own
    <3>7. AtLeast(l.cur, l.cur)
      BY <2>2, NewerIsAnOrder, VersionsAssumption DEF AtLeast
    <3>8. QED
      BY <1>1, <2>2, <3>1, <3>2, <3>3, <3>4, <3>5, <3>6, <3>7, SameReview
  <2>6. QED
    BY <1>5, <2>4, <2>5 DEF OpenPR
<1>6. CASE ArmAutoMerge(m)
  <2>1. l \in Leg /\ l # Nil /\ l.step = "arm"
    BY <1>1, <1>6 DEF ArmAutoMerge, At
  <2>2. /\ l.cur \in Version /\ l.v \in Version
        /\ \A q \in prs : q.m = m /\ q.v = l.v => q.from = l.cur
    BY <2>1, VersionsAssumption DEF Review, Leg
  <2>3. Newer(l.v, l.cur)
    BY <2>1, <2>2, VersionsAssumption DEF IInv, MovesUp, Above
  <2>4. PICK arm \in BOOLEAN : /\ arm => Tier(l.cur, l.v) # "major"
                               /\ prs' = {[p EXCEPT !.auto = @ \/ (arm /\ p \in Own(m))] : p \in prs}
    BY <1>6 DEF ArmAutoMerge
  <2>5. PICK o \in {"green", "failed"} : Finish(m, o)
    BY <1>6 DEF ArmAutoMerge
  <2>6. leg'[m] = Nil /\ \A n \in Modules : n # m => leg'[n] = leg[n]
    BY <1>1, <2>5 DEF Finish
  <2>7. ASSUME NEW q \in prs'
        PROVE  \/ q \in prs
               \/ /\ q.m = m /\ q.from \in Version /\ AtLeast(pin[m], q.from)
                  /\ q.auto => ~Crosses(q)
    <3>1. PICK p \in prs : q = [p EXCEPT !.auto = @ \/ (arm /\ p \in Own(m))]
      BY <2>4
    <3>2. p \in PR
      BY DEF IInv, TypeOK
    <3>3. CASE ~(arm /\ p \in Own(m))
      <4>1. q = [p EXCEPT !.auto = @ \/ FALSE]
        BY <3>1, <3>3
      <4>2. q = p
        <5>1. q = [p EXCEPT !.auto = p.auto]
          <6>1. (p.auto \/ FALSE) = p.auto
            BY <3>2 DEF PR
          <6>2. QED
            BY <4>1, <6>1
        <5>2. QED
          BY <3>2, <5>1 DEF PR
      <4>3. QED
        BY <4>2
    <3>4. CASE arm /\ p \in Own(m)
      <4>1. q.m = p.m /\ q.v = p.v /\ q.from = p.from
        BY <3>1, <3>2 DEF PR
      <4>2. p.m = m /\ p.v = l.v /\ p.from = l.cur
        BY <2>2, <3>4 DEF Own
      <4>3. Boundary(l.cur) = Boundary(l.v)
        BY <2>2, <2>3, <2>4, <3>4, PatchStaysInside
      <4>4. AtLeast(pin[m], p.from)
        BY <4>2 DEF Review
      <4>5. QED
        BY <2>2, <4>1, <4>2, <4>3, <4>4 DEF Crosses
    <3>5. QED
      BY <3>3, <3>4
  <2>8. QED
    BY <1>1, <2>6, <2>7, SameReview
<1>7. CASE LegFails(m)
  BY <1>1, <1>7, EndingKeepsReview DEF LegFails
<1>8. CASE TestNewPin(m)
  BY <1>4, <1>8 DEF TestNewPin, At
<1>9. CASE CloseSuperseded(m)
  BY <1>4, <1>9 DEF CloseSuperseded, At
<1>10. QED
  BY <1>2, <1>3, <1>5, <1>6, <1>7, <1>8, <1>9 DEF LegStep, ReleaseNext, RerunLeg

LEMMA MergeKeepsReview ==
  ASSUME IInv, Review, NEW p \in prs, Mergeable(p), Merge(p)
  PROVE  Review'
<1>1. p.m \in Modules /\ p.v \in Version /\ prs' \subseteq prs /\ leg' = leg
  BY VersionsAssumption DEF IInv, TypeOK, PR, Merge
<1>2. \A n \in Modules : pin'[n] \in Version
  BY <1>1 DEF Merge, IInv, TypeOK, Review
<1>3. \A n \in Modules, x \in Version : AtLeast(pin[n], x) => AtLeast(pin'[n], x)
  BY MergeRaises
<1>4. \A q \in prs : q.m \in Modules
  BY DEF IInv, TypeOK, PR
<1>5. QED
  BY <1>1, <1>2, <1>3, <1>4 DEF Review, Crosses

\* No PR that can merge by itself crosses a compatibility boundary, however often
\* its branch was updated and in whatever order legs are re-run, if the modules
\* are required from the start and nobody writes the pin by hand.
THEOREM MajorsAreReviewed ==
  ASSUME Nil \notin InitialPins
  PROVE  Spec => []MajorNeedsReview
<1>. DEFINE Inv == "edited" \in mishaps \/ Review
<1>1. Init => Inv
  <2>1. SUFFICES ASSUME Init PROVE Review
    OBVIOUS
  <2>2. prs = {} /\ \A m \in Modules : leg[m] = Nil /\ pin[m] \in Version
    BY <2>1, VersionsAssumption DEF Init
  <2>3. QED
    BY <2>2 DEF Review
<1>2. IInv /\ Inv /\ [Next]_vars => Inv'
  <2>1. SUFFICES ASSUME IInv, Inv, [Next]_vars PROVE Inv'
    OBVIOUS
  <2>2. "edited" \in mishaps => "edited" \in mishaps'
    BY <2>1 DEF Next, vars, LegStep, ReleaseNext, RerunLeg, SkipStaleBump, TestNewPin, CloseSuperseded,
                OpenPR, ArmAutoMerge, LegFails, AutoMerge, ReviewAndMerge, Merge, EditPin
  <2>3. ASSUME Review, NEW m \in Modules, LegStep(m) PROVE Review'
    BY <2>1, <2>3, LegStepKeepsReview
  <2>4. ASSUME NEW m \in Modules, NEW v \in HandPins, EditPin(m, v) PROVE "edited" \in mishaps'
    BY <2>4 DEF EditPin
  <2>5. ASSUME Review, NEW p \in prs, AutoMerge(p) \/ ReviewAndMerge(p) PROVE Review'
    BY <2>1, <2>5, MergeKeepsReview DEF AutoMerge, ReviewAndMerge
  <2>6. ASSUME Review, UNCHANGED vars PROVE Review'
    BY <2>6 DEF vars, Review, Crosses
  <2>7. QED
    BY <2>1, <2>2, <2>3, <2>4, <2>5, <2>6 DEF Next
<1>3. Inv => MajorNeedsReview
  BY DEF Review, MajorNeedsReview
<1>4. QED
  BY <1>1, <1>2, <1>3, Invariance, PTL DEF Spec

-----------------------------------------------------------------------------
(* No bump is forgotten *)

Settled(m, v) == AtLeast(pin[m], v) \/ Waiting(m, v) \/ OnRecord(m, v)

\* Versions are released in order, a leg works on the newest of them, and what it
\* arms is there, or has been merged.
Followed ==
  /\ \A m \in Modules : \A v \in Released(m) : \A w \in Releases : Newer(v, w) => w \in Released(m)
  /\ \A m \in Modules : leg[m] # Nil =>
       /\ leg[m].v \in Released(m)
       /\ \A w \in Released(m) : ~Newer(w, leg[m].v)
       /\ leg[m].step = "arm" => AtLeast(pin[m], leg[m].v) \/ \E p \in prs : p.m = m /\ p.v = leg[m].v
  /\ \A m \in Modules : leg[m] = Nil => \A v \in Released(m) : Settled(m, v)

\* The PRs of a module other than m stay, up to their auto-merge.
Stay(m) ==
  \A p \in prs : p.m # m => \E q \in prs' : q.m = p.m /\ q.v = p.v

\* A step of the leg of m that settles m, or keeps its leg going.
LEMMA SameFollowed ==
  ASSUME IInv, Followed, pin' = pin, NEW m \in Modules, Stay(m),
         \A n \in Modules : n # m => leg'[n] = leg[n] /\ result'[n] = result[n],
         \A v \in Released(m)' : \A w \in Releases : Newer(v, w) => w \in Released(m)',
         leg'[m] # Nil =>
           /\ leg'[m].v \in Released(m)'
           /\ \A w \in Released(m)' : ~Newer(w, leg'[m].v)
           /\ leg'[m].step = "arm" => AtLeast(pin[m], leg'[m].v) \/ \E p \in prs' : p.m = m /\ p.v = leg'[m].v,
         leg'[m] = Nil => \A v \in Released(m)' : Settled(m, v)'
  PROVE  Followed'
<1>1. ASSUME NEW n \in Modules, n # m
      PROVE  /\ Released(n)' = Released(n) /\ leg'[n] = leg[n]
             /\ \A v : Settled(n, v) => Settled(n, v)'
             /\ \A v : (\E p \in prs : p.m = n /\ p.v = v) => \E p \in prs' : p.m = n /\ p.v = v
  <2>1. result'[n] = result[n] /\ leg'[n] = leg[n]
    BY <1>1
  <2>2. Released(n)' = Released(n)
    BY <2>1 DEF Released
  <2>3. \A v : OnRecord(n, v) => OnRecord(n, v)'
    BY <2>1, <2>2 DEF OnRecord
  <2>4. \A v : Waiting(n, v) => Waiting(n, v)'
    BY <1>1 DEF Waiting, Stay
  <2>5. \A v : (\E p \in prs : p.m = n /\ p.v = v) => \E p \in prs' : p.m = n /\ p.v = v
    BY <1>1 DEF Stay
  <2>6. QED
    BY <2>1, <2>2, <2>3, <2>4, <2>5 DEF Settled
<1>2. ASSUME NEW n \in Modules
      PROVE  \A v \in Released(n)' : \A w \in Releases : Newer(v, w) => w \in Released(n)'
  BY <1>1 DEF Followed
<1>3. ASSUME NEW n \in Modules, leg'[n] # Nil
      PROVE  /\ leg'[n].v \in Released(n)'
             /\ \A w \in Released(n)' : ~Newer(w, leg'[n].v)
             /\ leg'[n].step = "arm" =>
                  AtLeast(pin'[n], leg'[n].v) \/ \E p \in prs' : p.m = n /\ p.v = leg'[n].v
  <2>1. CASE n = m
    BY <1>3, <2>1
  <2>2. CASE n # m
    BY <1>1, <1>3, <2>2 DEF Followed
  <2>3. QED
    BY <2>1, <2>2
<1>4. ASSUME NEW n \in Modules, leg'[n] = Nil, NEW v \in Released(n)'
      PROVE  Settled(n, v)'
  <2>1. CASE n = m
    BY <1>4, <2>1
  <2>2. CASE n # m
    BY <1>1, <1>4, <2>2 DEF Followed
  <2>3. QED
    BY <2>1, <2>2
<1>5. QED
  BY <1>2, <1>3, <1>4 DEF Followed

\* What a leg that ends has recorded, and what is released afterwards.
LEMMA EndingIs ==
  ASSUME IInv, Followed, NEW m \in Modules, leg[m] # Nil, NEW o \in {"green", "failed"}, Finish(m, o)
  PROVE  /\ leg'[m] = Nil /\ \A n \in Modules : n # m => leg'[n] = leg[n] /\ result'[n] = result[n]
         /\ Released(m)' = Released(m) /\ result'[m][leg[m].v] = o
         /\ leg[m].v \in Released(m) /\ \A w \in Released(m) : AtLeast(leg[m].v, w)
<1>1. /\ leg[m].v \in Released(m) /\ leg[m].v \in Releases /\ \A w \in Released(m) : ~Newer(w, leg[m].v)
  BY DEF Followed, Released
<1>2. leg[m].v # Nil
  BY <1>1, VersionsAssumption
<1>3. /\ leg'[m] = Nil
      /\ \A n \in Modules : n # m => leg'[n] = leg[n] /\ result'[n] = result[n]
      /\ \A w \in Releases : result'[m][w] = IF w = leg[m].v THEN o ELSE result[m][w]
  BY <1>1 DEF Finish, IInv, TypeOK
<1>4. \A w \in Releases : result'[m][w] # "unreleased" <=> result[m][w] # "unreleased"
  BY <1>1, <1>3 DEF Released
<1>5. Released(m)' = Released(m)
  BY <1>4 DEF Released
<1>6. QED
  BY <1>1, <1>2, <1>3, <1>5 DEF AtLeast

\* A leg that ends red is on record for all that is released; one that ends green
\* has left the pin, or a PR, at what it bumps to.
LEMMA EndingSettles ==
  ASSUME IInv, Followed, pin' = pin, NEW m \in Modules, leg[m] # Nil, Stay(m),
         NEW o \in {"green", "failed"}, Finish(m, o),
         o = "green" => AtLeast(pin[m], leg[m].v) \/ \E p \in prs' : p.m = m /\ p.v = leg[m].v
  PROVE  Followed'
<1>. DEFINE v == leg[m].v
<1>1. /\ leg'[m] = Nil /\ \A n \in Modules : n # m => leg'[n] = leg[n] /\ result'[n] = result[n]
      /\ Released(m)' = Released(m) /\ result'[m][v] = o
      /\ v \in Released(m) /\ \A w \in Released(m) : AtLeast(v, w)
  BY EndingIs
<1>2. v \in Version /\ v # Nil /\ \A w \in Released(m) : w \in Version
  BY <1>1, VersionsAssumption DEF Released
<1>3. ASSUME NEW w \in Released(m) PROVE Settled(m, w)'
  <2>1. AtLeast(v, w)
    BY <1>1, <1>3
  <2>2. CASE o = "failed"
    <3>1. OnRecord(m, w)'
      BY <1>1, <2>1, <2>2 DEF OnRecord
    <3>2. QED
      BY <3>1 DEF Settled
  <2>3. CASE AtLeast(pin[m], v)
    <3>1. pin[m] \in Version
      BY <2>3 DEF AtLeast, IInv, TypeOK, Pin
    <3>2. AtLeast(pin[m], w)
      BY <1>2, <2>1, <2>3, <3>1, NewerIsAnOrder DEF AtLeast
    <3>3. QED
      BY <3>2 DEF Settled
  <2>4. CASE \E p \in prs' : p.m = m /\ p.v = v
    <3>1. Waiting(m, w)'
      BY <2>1, <2>4 DEF Waiting
    <3>2. QED
      BY <3>1 DEF Settled
  <2>5. QED
    BY <2>2, <2>3, <2>4
<1>4. \A u \in Released(m)' : \A w \in Releases : Newer(u, w) => w \in Released(m)'
  BY <1>1 DEF Followed
<1>5. QED
  BY <1>1, <1>3, <1>4, SameFollowed

\* A leg that starts works on the newest version: no older one is re-run.
LEMMA StartingKeepsFollowed ==
  ASSUME IInv, Followed, UNCHANGED <<pin, prs>>, NEW m \in Modules, NEW v \in Releases, Start(m, v),
         \A w \in Releases : Newer(v, w) => w \in Released(m),
         \A w \in Released(m) : ~Newer(w, v)
  PROVE  Followed'
<1>1. PICK r : r = [v |-> v, cur |-> Nil, step |-> "guard"]
  OBVIOUS
<1>2. r \in Leg /\ r.v = v /\ r.step = "guard"
  BY <1>1 DEF Leg, Pin
<1>3. /\ leg'[m] = r /\ \A n \in Modules : n # m => leg'[n] = leg[n] /\ result'[n] = result[n]
      /\ \A w \in Releases : result'[m][w] = IF w = v THEN "running" ELSE result[m][w]
  BY <1>1 DEF Start, IInv, TypeOK
<1>4. Released(m)' = Released(m) \cup {v}
  BY <1>3 DEF Released
<1>5. v \in Version /\ ~Newer(v, v)
  BY NewerIsAnOrder, VersionsAssumption
<1>6. leg'[m] # Nil
  BY <1>2, <1>3, NilAssumption
<1>7. \A u \in Released(m)' : \A w \in Releases : Newer(u, w) => w \in Released(m)'
  BY <1>4 DEF Followed
<1>8. Stay(m)
  BY DEF Stay
<1>9. QED
  BY <1>2, <1>3, <1>4, <1>5, <1>6, <1>7, <1>8, SameFollowed

\* A leg that goes on keeps working on the same version.
LEMMA GoingOnKeepsFollowed ==
  ASSUME IInv, Followed, pin' = pin, NEW m \in Modules, leg[m] # Nil, Stay(m), result' = result,
         NEW r \in Leg, r.v = leg[m].v, leg' = [leg EXCEPT ![m] = r],
         r.step = "arm" => \E p \in prs' : p.m = m /\ p.v = r.v
  PROVE  Followed'
<1>1. leg'[m] = r /\ r # Nil /\ \A n \in Modules : n # m => leg'[n] = leg[n] /\ result'[n] = result[n]
  BY NilAssumption DEF IInv, TypeOK
<1>2. Released(m)' = Released(m)
  BY DEF Released
<1>3. QED
  BY <1>1, <1>2, SameFollowed DEF Followed

LEMMA LegStepKeepsFollowed ==
  ASSUME IInv, Followed, \A m \in Modules : Claims[m] = {m},
         NEW m \in Modules, LegStep(m), "late" \notin mishaps'
  PROVE  Followed'
<1>. DEFINE l == leg[m]
<1>1. pin' = pin /\ leg \in [Modules -> Leg \cup {Nil}]
  BY DEF IInv, TypeOK, LegStep, ReleaseNext, RerunLeg, SkipStaleBump, TestNewPin,
         CloseSuperseded, OpenPR, ArmAutoMerge, LegFails
<1>2. prs' = prs => Stay(m)
  BY DEF Stay
<1>3. ASSUME NEW v \in Releases, ReleaseNext(m, v) PROVE Followed'
  <2>1. v \notin Released(m) /\ \A w \in Releases : Newer(v, w) => w \in Released(m)
    BY <1>3 DEF ReleaseNext
  <2>2. \A w \in Released(m) : ~Newer(w, v)
    BY <2>1 DEF Followed
  <2>3. QED
    BY <1>3, <2>1, <2>2, StartingKeepsFollowed DEF ReleaseNext
<1>4. ASSUME NEW v \in Releases, RerunLeg(m, v) PROVE Followed'
  <2>1. v \in Released(m)
    BY <1>4 DEF RerunLeg, Released
  <2>2. \A w \in Released(m) : ~Newer(w, v)
    BY <1>4 DEF RerunLeg
  <2>3. QED
    BY <1>4, <2>1, <2>2, StartingKeepsFollowed DEF RerunLeg, Followed
<1>5. CASE SkipStaleBump(m)
  <2>1. l \in Leg /\ l # Nil /\ Stay(m)
    BY <1>1, <1>2, <1>5 DEF SkipStaleBump, At
  <2>2. CASE AtLeast(pin[m], l.v) /\ Finish(m, "green")
    BY <1>1, <2>1, <2>2, EndingSettles
  <2>3. CASE leg' = [leg EXCEPT ![m].step = "test", ![m].cur = pin[m]] /\ UNCHANGED result
    <3>1. PICK r : r = [l EXCEPT !.step = "test", !.cur = pin[m]]
      OBVIOUS
    <3>2. r \in Leg /\ r.v = l.v /\ r.step = "test"
      BY <2>1, <3>1 DEF IInv, TypeOK, Leg
    <3>3. leg' = [leg EXCEPT ![m] = r]
      BY <2>3, <3>1
    <3>4. QED
      BY <1>1, <2>1, <2>3, <3>2, <3>3, GoingOnKeepsFollowed
  <2>4. QED
    BY <1>5, <2>2, <2>3 DEF SkipStaleBump
<1>6. ASSUME NEW step \in {"close", "open", "arm"}, l # Nil, Goto(m, step), result' = result, Stay(m),
             step = "arm" => \E p \in prs' : p.m = m /\ p.v = l.v
      PROVE  Followed'
  <2>1. PICK r : r = [l EXCEPT !.step = step]
    OBVIOUS
  <2>2. l \in Leg
    BY <1>1, <1>6
  <2>3. r \in Leg /\ r.v = l.v /\ r.step = step
    BY <2>1, <2>2 DEF Leg
  <2>4. leg' = [leg EXCEPT ![m] = r]
    BY <1>6, <2>1 DEF Goto
  <2>5. QED
    BY <1>1, <1>6, <2>3, <2>4, GoingOnKeepsFollowed
<1>7. CASE TestNewPin(m)
  BY <1>2, <1>6, <1>7 DEF TestNewPin, At
<1>8. CASE CloseSuperseded(m)
  <2>1. PICK kept \in SUBSET Superseded(m) : prs' = prs \ (Superseded(m) \ kept)
    BY <1>8 DEF CloseSuperseded
  <2>2. Stay(m)
    BY <2>1 DEF Stay, Superseded
  <2>3. QED
    BY <1>6, <1>8, <2>2 DEF CloseSuperseded, At
<1>9. CASE OpenPR(m)
  <2>1. l \in Leg /\ l # Nil
    BY <1>1, <1>9 DEF OpenPR, At
  <2>2. CASE pin[m] = l.v /\ Finish(m, "green") /\ prs' = prs \ Own(m)
    <3>1. Stay(m)
      BY <2>2 DEF Stay, Own
    <3>2. l.v \in Version
      BY <2>1, VersionsAssumption DEF Leg
    <3>3. AtLeast(pin[m], l.v)
      BY <2>2, <3>2, NewerIsAnOrder, VersionsAssumption DEF AtLeast
    <3>4. QED
      BY <1>1, <2>1, <2>2, <3>1, <3>3, EndingSettles
  <2>3. ASSUME NEW p, p = [m |-> m, v |-> l.v, from |-> l.cur, auto |-> \E q \in Own(m) : q.auto],
               prs' = (prs \ Own(m)) \cup {p}, Goto(m, "arm"), result' = result
        PROVE  Followed'
    <3>1. p.m = m /\ p.v = l.v /\ p \in prs'
      BY <2>3
    <3>2. Stay(m)
      BY <2>3 DEF Stay, Own
    <3>3. QED
      BY <1>6, <2>1, <2>3, <3>1, <3>2
  <2>4. QED
    BY <1>9, <2>2, <2>3 DEF OpenPR
<1>10. CASE ArmAutoMerge(m)
  <2>1. l # Nil /\ l.step = "arm"
    BY <1>10 DEF ArmAutoMerge, At
  <2>2. PICK arm \in BOOLEAN : prs' = {[p EXCEPT !.auto = @ \/ (arm /\ p \in Own(m))] : p \in prs}
    BY <1>10 DEF ArmAutoMerge
  <2>3. PICK o \in {"green", "failed"} : Finish(m, o)
    BY <1>10 DEF ArmAutoMerge
  <2>4. \A p \in prs : \E q \in prs' : q.m = p.m /\ q.v = p.v
    <3>1. SUFFICES ASSUME NEW p \in prs PROVE \E q \in prs' : q.m = p.m /\ q.v = p.v
      OBVIOUS
    <3>2. PICK q : q = [p EXCEPT !.auto = @ \/ (arm /\ p \in Own(m))]
      OBVIOUS
    <3>3. p \in PR
      BY DEF IInv, TypeOK
    <3>4. q.m = p.m /\ q.v = p.v /\ q \in prs'
      BY <2>2, <3>2, <3>3 DEF PR
    <3>5. QED
      BY <3>4
  <2>5. Stay(m)
    BY <2>4 DEF Stay
  <2>6. AtLeast(pin[m], l.v) \/ \E p \in prs' : p.m = m /\ p.v = l.v
    BY <2>1, <2>4 DEF Followed
  <2>7. QED
    BY <1>1, <2>1, <2>3, <2>5, <2>6, EndingSettles
<1>11. CASE LegFails(m)
  BY <1>1, <1>2, <1>11, EndingSettles DEF LegFails
<1>12. QED
  BY <1>3, <1>4, <1>5, <1>7, <1>8, <1>9, <1>10, <1>11 DEF LegStep

\* A PR that merges leaves the pin at its version.
LEMMA MergeKeepsFollowed ==
  ASSUME IInv, Followed, NEW p \in prs, Mergeable(p), Merge(p)
  PROVE  Followed'
<1>1. p.m \in Modules /\ p.v \in Version /\ p.v # Nil /\ prs' = prs \ {p} /\ UNCHANGED <<leg, result>>
  BY VersionsAssumption DEF IInv, TypeOK, PR, Merge
<1>2. pin'[p.m] = p.v
  BY <1>1 DEF Merge, IInv, TypeOK
<1>3. \A n \in Modules, x \in Version : AtLeast(pin[n], x) => AtLeast(pin'[n], x)
  BY MergeRaises
<1>4. \A n \in Modules : Released(n)' = Released(n) /\ \A v \in Released(n) : v \in Version
  BY <1>1, VersionsAssumption DEF Released
<1>5. ASSUME NEW n \in Modules, NEW v \in Released(n), Settled(n, v) PROVE Settled(n, v)'
  <2>1. CASE AtLeast(pin[n], v)
    BY <1>3, <1>4, <2>1 DEF Settled
  <2>2. CASE OnRecord(n, v)
    BY <1>1, <1>4, <2>2 DEF Settled, OnRecord
  <2>3. CASE Waiting(n, v)
    <3>1. PICK q \in prs : q.m = n /\ AtLeast(q.v, v)
      BY <2>3 DEF Waiting
    <3>2. CASE q = p
      BY <1>2, <3>1, <3>2 DEF Settled
    <3>3. CASE q # p
      BY <1>1, <3>1, <3>3 DEF Settled, Waiting
    <3>4. QED
      BY <3>2, <3>3
  <2>4. QED
    BY <1>5, <2>1, <2>2, <2>3 DEF Settled
<1>6. ASSUME NEW n \in Modules, leg[n] # Nil, leg[n].step = "arm"
      PROVE  AtLeast(pin'[n], leg[n].v) \/ \E q \in prs' : q.m = n /\ q.v = leg[n].v
  <2>1. leg[n].v \in Version
    BY <1>4, <1>6 DEF Followed
  <2>2. CASE AtLeast(pin[n], leg[n].v)
    BY <1>3, <2>1, <2>2
  <2>3. ASSUME NEW q \in prs, q.m = n, q.v = leg[n].v
        PROVE  AtLeast(pin'[n], leg[n].v) \/ \E r \in prs' : r.m = n /\ r.v = leg[n].v
    <3>1. CASE q # p
      BY <1>1, <2>3, <3>1
    <3>2. CASE q = p
      BY <1>1, <1>2, <2>3, <3>2, NewerIsAnOrder DEF AtLeast
    <3>3. QED
      BY <3>1, <3>2
  <2>4. QED
    BY <1>6, <2>2, <2>3 DEF Followed
<1>7. QED
  BY <1>1, <1>4, <1>5, <1>6 DEF Followed

\* Whatever legs fail, and whatever PRs cannot be closed or conflict, a released
\* version is in the pin, in an open PR or on record as failed once its module
\* has no leg: if branch prefixes tell the modules apart, no older release is
\* re-run and nobody writes the pin by hand.
THEOREM BumpsAreFollowed ==
  ASSUME \A m \in Modules : Claims[m] = {m}
  PROVE  Spec => []NoForgottenBump
<1>. DEFINE Inv == ~(mishaps \subseteq {"open"}) \/ Followed
<1>1. Init => Inv
  <2>1. SUFFICES ASSUME Init PROVE Followed
    OBVIOUS
  <2>2. \A m \in Modules : leg[m] = Nil /\ Released(m) = {}
    BY <2>1 DEF Init, Released
  <2>3. QED
    BY <2>2 DEF Followed
<1>2. IInv /\ Inv /\ [Next]_vars => Inv'
  <2>1. SUFFICES ASSUME IInv, Inv, [Next]_vars, mishaps' \subseteq {"open"} PROVE Followed'
    OBVIOUS
  <2>2. mishaps \subseteq mishaps'
    BY <2>1 DEF Next, vars, LegStep, ReleaseNext, RerunLeg, SkipStaleBump, TestNewPin, CloseSuperseded,
                OpenPR, ArmAutoMerge, LegFails, AutoMerge, ReviewAndMerge, Merge, EditPin
  <2>3. Followed
    BY <2>1, <2>2
  <2>4. ASSUME NEW m \in Modules, LegStep(m) PROVE Followed'
    BY <2>1, <2>3, <2>4, LegStepKeepsFollowed
  <2>5. ASSUME NEW m \in Modules, NEW v \in HandPins, EditPin(m, v) PROVE FALSE
    BY <2>1, <2>5 DEF EditPin
  <2>6. ASSUME NEW p \in prs, AutoMerge(p) \/ ReviewAndMerge(p) PROVE Followed'
    BY <2>1, <2>3, <2>6, MergeKeepsFollowed DEF AutoMerge, ReviewAndMerge
  <2>7. CASE UNCHANGED vars
    BY <2>3, <2>7 DEF vars, Followed, Settled, Waiting, OnRecord, Released
  <2>8. QED
    BY <2>1, <2>4, <2>5, <2>6, <2>7 DEF Next
<1>3. Inv => NoForgottenBump
  BY DEF Followed, Settled, NoForgottenBump
<1>4. QED
  BY <1>1, <1>2, <1>3, Invariance, PTL DEF Spec
=============================================================================
