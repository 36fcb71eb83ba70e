----------------------------- MODULE ServiceGates -----------------------------
(***************************************************************************)
(* The two gates a service repository passes, check-api-contract.py and    *)
(* check-gateway-baseline.py: the controls of ContractRules and            *)
(* GatewayRules under a ratchet.  A repository keeps what each gate        *)
(* tolerates in a file of its own, keyed by control id; the catalogs that  *)
(* name the controls live in ci-workflows and reach every repository at    *)
(* once, when @v1 moves.  No commit carries both halves.                   *)
(*                                                                         *)
(* .api-contract-baseline.json has three owners: `controls` is this        *)
(* script's, `checks` is ihq validate's, `arch` is ihq arch's.             *)
(***************************************************************************)
EXTENDS ContractRules, GatewayRules

CONSTANTS
  Repos,
  Start,           \* the tree each repository starts from
  Writable(_),     \* the facts a commit may write or drop in it
  Relocations(_),  \* the files that may move out of it: <<to, file, new name>>
  Renamable,       \* the API controls whose catalog entry changes
  MaxEdits         \* bound: commits, to a tree, a baseline file or a catalog

ASSUME GatesAssumption == Renamable \subseteq ApiControls /\ MaxEdits \in Nat
ASSUME TreesAssumption ==
  /\ IsFiniteSet(Functions) /\ IsFiniteSet(Operations) /\ IsFiniteSet(ComponentNames)
  /\ DOMAIN Start = Repos
  /\ \A r \in Repos : /\ IsFiniteSet(Start[r])
                      /\ \A t \in Start[r] \cup Writable(r) : t = <<t[1], t[2], t[3], t[4]>>
                      /\ \A t, u \in Start[r] : t[1] = u[1] /\ t[2] = u[2] /\ t[3] = u[3] => t = u
                      /\ \A m \in Relocations(r) : m[1] \in Repos

VARIABLES
  tree,     \* the facts of each repository
  found,    \* repository -> control -> what its detector counts in the tree
  api,      \* its .api-contract-baseline.json
  gw,       \* its .gateway-baseline.json
  catalog,  \* API control -> spelling of its id, and status
  frozen,   \* API control -> what its baseline last recorded on purpose (history)
  edits     \* counts the commits (bound)

vars == <<tree, found, api, gw, catalog, frozen, edits>>

-----------------------------------------------------------------------------
\* What the detectors find in the tree T of r: a control that does not apply,
\* or that cannot tell, has no count.
Unjudged == -1
Judge(r, T) ==
  [c \in ApiControls \cup GwControls |->
     IF c \in ApiControls THEN (IF c \in HttpApiOnly /\ ~has_http_api(T) THEN Unjudged ELSE ApiCount(c, T))
     ELSE IF applies(r, c, T) THEN GwFinding(r, c, T) ELSE Unjudged]
Count(r, c) == IF found[r][c] > 0 THEN found[r][c] ELSE 0

(* check-api-contract.py *)

\* An id has two spellings (API-001, API-0001); a key that is not shaped like
\* one belongs to another member of the file.
Key(c) == <<c, catalog[c].spelling>>
ForeignKeys == {<<"ARCH-0003", 0>>, <<"some-ihq-check", 0>>}
NoCounts == [k \in {} |-> 0]
NoOthers == [m \in {"checks", "arch"} |-> 0]
Absent == [state |-> "absent", controls |-> NoCounts, others |-> NoOthers]
Listed == {c \in ApiControls : catalog[c].status # "removed"}

\* An unreadable file, or a key of no listed control: what it records cannot be
\* told, and the gate gives no verdict.
baseline_problems_Mutant(r) == api[r].state \in {"unparseable", "misshapen"}  \* an unknown key is ignored
baseline_problems(r) ==
  \/ api[r].state \in {"unparseable", "misshapen"}
  \/ ~(DOMAIN api[r].controls \subseteq {Key(c) : c \in Listed})

Evaluated(r, c) == c \in Listed /\ catalog[c].status = "active" /\ found[r][c] # Unjudged
ApiFrozen(r, c) == IF Key(c) \in DOMAIN api[r].controls THEN api[r].controls[Key(c)] ELSE 0
ApiFails(r, c) == Evaluated(r, c) /\ found[r][c] > ApiFrozen(r, c)
api_ok(r) == ~\E c \in ApiControls \ Minor : ApiFails(r, c)
api_verdict(r) == IF baseline_problems(r) THEN "refused" ELSE IF api_ok(r) THEN "ok" ELSE "fail"

\* What --write-baseline records, and the members it leaves to their owners: it
\* has nothing to preserve in a file it cannot parse.
Recorded_Mutant(r) == {c \in ApiControls : ApiFails(r, c)}  \* what fails alone
Recorded(r) == {c \in ApiControls : Evaluated(r, c) /\ found[r][c] > 0}
Kept_Mutant(r) == IF Recorded(r) = {} THEN NoOthers ELSE api[r].others  \* a clean repository retires the file
Kept(r) == IF api[r].state = "unparseable" THEN NoOthers ELSE api[r].others

ApiWriteBaseline(r) ==
  LET counts == [k \in {Key(c) : c \in Recorded(r)} |-> found[r][k[1]]]
      file == [state |-> "readable", controls |-> counts, others |-> Kept(r)]
  IN /\ api' = [api EXCEPT ![r] = IF counts = NoCounts /\ Kept(r) = NoOthers THEN Absent ELSE file]
     /\ frozen' = [frozen EXCEPT ![r] = [c \in ApiControls |-> IF c \in Recorded(r) THEN found[r][c] ELSE 0]]
     /\ UNCHANGED <<tree, found, gw, catalog, edits>>

-----------------------------------------------------------------------------
(* check-gateway-baseline.py *)

GwAbsent == [state |-> "absent", controls |-> NoCounts, notes |-> FALSE]
GwFrozen(r, c) == IF c \in DOMAIN gw[r].controls THEN gw[r].controls[c] ELSE 0  \* of an unknown key: nothing
gw_ok(r) == \A c \in GwControls : Count(r, c) <= GwFrozen(r, c)
gw_verdict(r) == IF gw[r].state = "unreadable" THEN "refused" ELSE IF gw_ok(r) THEN "ok" ELSE "fail"

\* A reason someone wrote beside the counts is kept as long as there is a count.
GwWriteBaseline(r) ==
  LET counts == [c \in {c \in GwControls : Count(r, c) > 0} |-> Count(r, c)]
  IN /\ gw' = [gw EXCEPT ![r] = IF counts = NoCounts THEN GwAbsent
                                ELSE [state |-> "readable", controls |-> counts, notes |-> gw[r].notes]]
     /\ UNCHANGED <<tree, found, api, catalog, frozen, edits>>

-----------------------------------------------------------------------------
(* What changes under the gates *)

Init ==
  /\ tree = Start /\ edits = 0
  /\ catalog = [c \in ApiControls |-> [spelling |-> 0, status |-> "active"]]
  /\ found = [r \in Repos |-> Judge(r, Start[r])]
  /\ frozen = [r \in Repos |-> [c \in ApiControls |-> Count(r, c)]]
  /\ api = [r \in Repos |->
              LET debt == {c \in ApiControls : Count(r, c) > 0}
              IN IF debt = {} THEN Absent
                 ELSE [state |-> "readable", controls |-> [k \in debt \X {0} |-> Count(r, k[1])],
                       others |-> [NoOthers EXCEPT !["checks"] = 1]]]
  /\ gw = [r \in Repos |->
             LET debt == {c \in GwControls : Count(r, c) > 0}
             IN IF debt = {} THEN GwAbsent
                ELSE [state |-> "readable", controls |-> [c \in debt |-> Count(r, c)], notes |-> TRUE]]

Commit == edits < MaxEdits /\ edits' = edits + 1

\* One fact of one tree: it is written, in place of what its place said, or dropped.
EditTree(r) ==
  /\ Commit
  /\ \E f \in Writable(r) :
       LET rest == {t \in tree[r] : <<t[1], t[2], t[3]>> # <<f[1], f[2], f[3]>>}
           T == IF f \in tree[r] THEN rest ELSE rest \cup {f}
       IN tree' = [tree EXCEPT ![r] = T] /\ found' = [found EXCEPT ![r] = Judge(r, T)]
  /\ UNCHANGED <<api, gw, catalog, frozen>>

\* A file moves to another repository, as code that two of them share does.
Move(r) ==
  /\ Commit
  /\ \E m \in Relocations(r) :
       LET facts == OfFile(tree[r], m[2])
       IN /\ facts # {} /\ OfFile(tree[m[1]], m[3]) = {}
          /\ tree' = [tree EXCEPT ![r] = @ \ facts, ![m[1]] = @ \cup Renamed(facts, m[3])]
          /\ found' = [found EXCEPT ![r] = Judge(r, tree'[r]), ![m[1]] = Judge(m[1], tree'[m[1]])]
  /\ UNCHANGED <<api, gw, catalog, frozen>>

\* @v1 moves: a control is renamed, retired or taken out of the catalog, or back.
CatalogMoves ==
  /\ Commit
  /\ \E c \in Renamable :
       \/ \E status \in {"active", "deprecated", "removed"} \ {catalog[c].status} : catalog' = [catalog EXCEPT ![c].status = status]
       \/ catalog' = [catalog EXCEPT ![c].spelling = 1 - @]
  /\ UNCHANGED <<tree, found, api, gw, frozen>>

\* A hand edits the baseline as the refusal advises: the key takes the new
\* spelling, or the line goes and the control is held to zero.
EditBaseline(r) ==
  /\ Commit /\ api[r].state = "readable"
  /\ \E k \in DOMAIN api[r].controls :
       LET others == [j \in DOMAIN api[r].controls \ {k} |-> api[r].controls[j]]
           new == <<k[1], 1 - k[2]>>
       IN \/ /\ k \notin ForeignKeys /\ new \notin DOMAIN others
             /\ api' = [api EXCEPT ![r].controls = [j \in DOMAIN others \cup {new} |-> IF j = new THEN api[r].controls[k] ELSE others[j]]]
             /\ UNCHANGED frozen
          \/ /\ api' = [api EXCEPT ![r].controls = others]
             /\ frozen' = IF k \in ForeignKeys THEN frozen ELSE [frozen EXCEPT ![r][k[1]] = 0]
  /\ UNCHANGED <<tree, found, gw, catalog>>

\* Or goes wrong: another gate's line under `controls`, a conflict marker, a
\* member of the wrong shape; or the whole file goes, and every control is held
\* to zero.
BreakBaseline(r) ==
  /\ Commit /\ api[r].state # "absent"
  /\ \/ /\ api[r].state = "readable"
        /\ \E k \in ForeignKeys \ DOMAIN api[r].controls :
             api' = [api EXCEPT ![r].controls = [j \in DOMAIN @ \cup {k} |-> IF j = k THEN 1 ELSE @[j]]]
        /\ UNCHANGED frozen
     \/ api' = [api EXCEPT ![r].state = "unparseable", ![r].controls = NoCounts, ![r].others = NoOthers] /\ UNCHANGED frozen
     \/ api' = [api EXCEPT ![r].state = "misshapen", ![r].controls = NoCounts] /\ UNCHANGED frozen
     \/ api' = [api EXCEPT ![r] = Absent] /\ frozen' = [frozen EXCEPT ![r] = [c \in ApiControls |-> 0]]
  /\ UNCHANGED <<tree, found, gw, catalog>>

\* The other owners freeze or release their own members of the file.
OthersWriteBaseline(r) ==
  /\ Commit /\ api[r].state \in {"readable", "absent"}
  /\ \E m \in {"checks", "arch"} :
       LET others == [api[r].others EXCEPT ![m] = 1 - @]
       IN api' = [api EXCEPT ![r] = IF others = NoOthers /\ api[r].controls = NoCounts THEN Absent
                                    ELSE [state |-> "readable", controls |-> api[r].controls, others |-> others]]
  /\ UNCHANGED <<tree, found, gw, catalog, frozen>>

BreakGateway(r) ==
  /\ Commit /\ gw[r].state = "readable"
  /\ \E notes \in {FALSE, gw[r].notes} :  \* a file that still parses has them
       gw' = [gw EXCEPT ![r] = [state |-> "unreadable", controls |-> NoCounts, notes |-> notes]]
  /\ UNCHANGED <<tree, found, api, catalog, frozen>>

Next ==
  \/ CatalogMoves
  \/ \E r \in Repos :
       \/ EditTree(r) \/ Move(r) \/ EditBaseline(r) \/ BreakBaseline(r) \/ OthersWriteBaseline(r) \/ BreakGateway(r)
       \/ ApiWriteBaseline(r) \/ GwWriteBaseline(r)

Spec == Init /\ [][Next]_vars

-----------------------------------------------------------------------------
(* What the gates promise *)

\* A repository is accused of what it did and of nothing else: unless the gate
\* refuses to judge, it is red exactly when a control counts more than the
\* repository last recorded for it, however the catalog that names the control
\* and the file that freezes it have moved apart since.
RedMeansRaised ==
  \A r \in Repos : api_verdict(r) # "refused" =>
    (api_verdict(r) = "fail" <=> \E c \in ApiControls \ Minor : Evaluated(r, c) /\ found[r][c] > frozen[r][c])

\* A refreeze of this catalog leaves what ihq validate and ihq arch froze in the
\* same file as it was, the one that retires the last of its own debt included.
Refreeze == edits' = edits  \* every other step is a commit
OthersKeepTheirFreeze ==
  [][Refreeze => \A r \in Repos : api[r].state # "unparseable" => api'[r].others = api[r].others]_vars

\* --write-baseline is the documented way out of every refusal and of every red:
\* the gate that wrote it passes on the tree it was written from.
RefreezeRecovers ==
  [][Refreeze => \A r \in Repos : /\ (api'[r] # api[r] \/ frozen'[r] # frozen[r]) => api_verdict(r)' = "ok"
                                  /\ gw'[r] # gw[r] => gw_verdict(r)' = "ok"]_vars

Places(S) == {<<t[1], t[2], t[3]>> : t \in S}
Changed(r) == (tree[r] \ tree'[r]) \cup (tree'[r] \ tree[r])

\* A part of an operation that moves into a shared component, or back, is the
\* part it was: API-0008 never asks anyone to inline what was shared.
SharingCostsNothing ==
  [][\A r \in Repos :
       /\ Changed(r) # {} /\ \A t \in Changed(r) : t[1] = "op" /\ t[4] \in {"inline", "shared"}
       /\ Places(tree[r]) = Places(tree'[r])
       => found'[r]["API-0008"] = found[r]["API-0008"]]_vars

\* The step moves the file of m out of r.
Moved(r, m) == OfFile(tree[r], m[2])
Moves(r, m) ==
  /\ tree'[r] # tree[r] /\ tree'[m[1]] # tree[m[1]]
  /\ tree'[r] = tree[r] \ Moved(r, m) /\ tree'[m[1]] = tree[m[1]] \cup Renamed(Moved(r, m), m[3])
HopsIn(facts) == {t \in yaml_docs(facts) : t[3] \in {"validate_endpoint", "check_endpoint"} /\ t[4] = "http"}
InPerimeter(r) == is_gateway(r, tree[r]) \/ owns_shared_baseline(tree[r])
Vouched(r) == \E e \in GrpcEvidence : Marked(tree[r], e, Visible)

\* Moving a violation does not hide it: an HTTP decision hop counts again in the
\* gateway or the shared baseline it moved to, and a server assembled without
\* interceptors does in the module it moved to, port or no port.
MovingHidesNothing ==
  [][\A r \in Repos : \A m \in Relocations(r) : Moves(r, m) =>
       /\ InPerimeter(m[1])' => Count(m[1], "GW-0006")' >= Count(m[1], "GW-0006") + Cardinality(HopsIn(Moved(r, m)))
       /\ Marked(Moved(r, m), RAW_GRPC_SERVER, Visible) /\ ~Vouched(m[1])' => Count(m[1], "GW-0007")' = 1]_vars
=============================================================================
