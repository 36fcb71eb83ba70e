--------------------------- MODULE ReferenceWindow ---------------------------
(***************************************************************************)
(* The API-0007 reference artifact (controls/common-v1-components.json and *)
(* the platform-contracts-go floor of controls/module-floors.yaml) and the *)
(* window steps it may take between two releases                           *)
(* (scripts/check-api-contract.py).                                        *)
(*                                                                         *)
(* A vintage is one projection with its provenance.  Vintages are numbered *)
(* in the order parse_reference puts them; two vintages with the same      *)
(* components differ only in provenance.                                   *)
(***************************************************************************)
EXTENDS Integers

CONSTANTS Vintages,   \* numbers of the vintages, in order
          Components  \* Components[v]: what vintage v projects

ASSUME VintagesAssumption == Vintages \subseteq Nat \ {0}
ASSUME ComponentsAssumption == DOMAIN Components = Vintages

None == 0
Roles == {"current", "next", "previous"}
Reference == [current : Vintages, next : Vintages \cup {None},
              previous : Vintages \cup {None}, floor : Vintages]

Accepted(r) == {r[role] : role \in Roles} \ {None}
AcceptedComponents(r) == {Components[v] : v \in Accepted(r)}
Alone(r) == r.next = None /\ r.previous = None
SameComponents(v, w) == Components[v] = Components[w]

\* At most one extra set, on the side of current its role names, and projecting
\* something else.
Usable(r) ==
  /\ r.next = None \/ r.previous = None
  /\ r.next # None => r.next > r.current /\ ~SameComponents(r.next, r.current)
  /\ r.previous # None => r.previous < r.current /\ ~SameComponents(r.previous, r.current)

\* The floor names an accepted set that is not next.
FloorHolds_Mutant(r) == r.floor \in Accepted(r)  \* next counts too
FloorHolds(r) == r.floor \in {r.current, r.previous}

-----------------------------------------------------------------------------
(* The edits the checker makes; each validates what it writes *)

StageNext(r)   == {[r EXCEPT !.next = v] : v \in IF Alone(r) THEN Vintages ELSE {}}
PromoteNext(r) == IF r.next = None THEN {}
                  ELSE {[r EXCEPT !.current = r.next, !.next = None, !.previous = r.current]}
DropSet(r)     == {[r EXCEPT ![role] = None] : role \in {x \in Roles \ {"current"} : r[x] # None}}
RaiseFloor(r)  == {[r EXCEPT !.floor = r.current]}

Edits(r) == {h \in StageNext(r) \cup PromoteNext(r) \cup DropSet(r) : Usable(h)}

-----------------------------------------------------------------------------
(* The one step a release may make, from the sets of base b to those of head h *)

Stage(b, h)   == Alone(b) /\ h.next # None /\ h.current = b.current
Abandon(b, h) == b.next # None /\ Alone(h) /\ h.current = b.current
Promote(b, h) == b.next # None /\ h.current = b.next /\ h.previous = b.current
Close(b, h)   == b.previous # None /\ Alone(h) /\ h.current = b.current
Demote(b, h)  == b.previous # None /\ h.current = b.previous /\ h.next = b.current

\* Unchanged, or the same components with provenance that does not go back.
Relabel(b, h) == \A role \in Roles :
  \/ b[role] = None /\ h[role] = None
  \/ b[role] # None /\ h[role] >= b[role] /\ SameComponents(b[role], h[role])

\* closed: the grace sets the last release before the close carried (at most one).
Reopen(b, h, closed) ==
  Alone(b) /\ h.previous # None /\ h.previous \in closed /\ h.current = b.current

WindowStep_Mutant(b, h, closed) ==  \* current may be replaced in place
  \/ Stage(b, h) \/ Abandon(b, h) \/ Promote(b, h) \/ Close(b, h)
  \/ Demote(b, h) \/ Relabel(b, h) \/ Reopen(b, h, closed)
  \/ Alone(b) /\ Alone(h)
WindowStep(b, h, closed) ==
  \/ Stage(b, h) \/ Abandon(b, h) \/ Promote(b, h) \/ Close(b, h)
  \/ Demote(b, h) \/ Relabel(b, h) \/ Reopen(b, h, closed)
=============================================================================
