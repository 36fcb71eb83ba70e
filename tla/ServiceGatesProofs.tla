------------------------- MODULE ServiceGatesProofs -------------------------
(***************************************************************************)
(* The ratchet of check-api-contract.py for every set of repositories,     *)
(* every tree, every history of commits to trees, baseline files and       *)
(* catalogs, and every refreeze in between (RatchetInv); and what the      *)
(* detectors of both gates make of a tree, whatever stands in it           *)
(* (TreesInv).                                                             *)
(***************************************************************************)
EXTENDS ServiceGates, FiniteSetTheorems, TLAPS

-----------------------------------------------------------------------------
(* The inductive invariant *)

\* The file says of every control what was recorded of it: a key under either
\* spelling holds the count, a count is under some key, and never under both.
Faithful(file, was) ==
  /\ \A k \in DOMAIN file.controls \ ForeignKeys :
       k \in ApiControls \X {0, 1} /\ file.controls[k] = was[k[1]]
  /\ \A c \in ApiControls : was[c] # 0 => \E sp \in {0, 1} : <<c, sp>> \in DOMAIN file.controls
  /\ \A c \in ApiControls : ~(<<c, 0>> \in DOMAIN file.controls /\ <<c, 1>> \in DOMAIN file.controls)

Told(file) == file.state \notin {"unparseable", "misshapen"}

Shapes ==
  /\ edits \in Nat
  /\ DOMAIN catalog = ApiControls
  /\ \A c \in ApiControls : DOMAIN catalog[c] = {"spelling", "status"} /\ catalog[c].spelling \in {0, 1}
  /\ DOMAIN api = Repos /\ \A r \in Repos : DOMAIN api[r] = {"state", "controls", "others"}
  /\ DOMAIN frozen = Repos /\ \A r \in Repos : DOMAIN frozen[r] = ApiControls

RatchetInv == Shapes /\ \A r \in Repos : Told(api[r]) => Faithful(api[r], frozen[r])

-----------------------------------------------------------------------------
(* Lemmas *)

\* The keys of the other owners are shaped like no control of the catalog.
LEMMA ForeignIsForeign == \A k \in ForeignKeys : k[1] \notin ApiControls
BY DEF ForeignKeys, ApiControls

\* A file with no keys is faithful to a repository that recorded nothing.
LEMMA NothingIsFaithful ==
  ASSUME NEW file, DOMAIN file.controls = {}, NEW was, \A c \in ApiControls : was[c] = 0
  PROVE  Faithful(file, was)
BY DEF Faithful

\* What a file tells of a control depends on its `controls` alone.
LEMMA OthersDoNotMatter ==
  ASSUME NEW file, NEW other, other.controls = file.controls, NEW was, Faithful(file, was)
  PROVE  Faithful(other, was)
BY DEF Faithful

\* The key k of a file under the other spelling, and a file with one key more.
Respelt(file, k) ==
  LET new == <<k[1], 1 - k[2]>>
  IN [j \in (DOMAIN file.controls \ {k}) \cup {new} |-> IF j = new THEN file.controls[k] ELSE file.controls[j]]
WithKey(file, k) == [j \in DOMAIN file.controls \cup {k} |-> IF j = k THEN 1 ELSE file.controls[j]]

\* A key that takes the other spelling of the same control keeps its count.
LEMMA RespellKeepsFaith ==
  ASSUME NEW file, NEW was, Faithful(file, was),
         NEW k \in DOMAIN file.controls, k \notin ForeignKeys,
         NEW other, other.controls = Respelt(file, k)
  PROVE  Faithful(other, was)
<1> DEFINE D == DOMAIN file.controls \ {k}
           new == <<k[1], 1 - k[2]>>
<1>0. other.controls = [j \in D \cup {new} |-> IF j = new THEN file.controls[k] ELSE file.controls[j]]
  BY DEF Respelt
<1>1. k \in ApiControls \X {0, 1} /\ file.controls[k] = was[k[1]]
  BY DEF Faithful
<1>2. PICK c \in ApiControls, sp \in {0, 1} : k = <<c, sp>>
  BY <1>1
<1>3. new = <<c, 1 - sp>> /\ 1 - sp \in {0, 1} /\ 1 - sp # sp
  BY <1>2
<1>4. DOMAIN other.controls = D \cup {new}
  BY <1>0
<1>5. \A j \in (D \cup {new}) \ ForeignKeys : j \in ApiControls \X {0, 1} /\ other.controls[j] = was[j[1]]
  BY <1>0, <1>1, <1>2, <1>3 DEF Faithful
<1>6. \A b \in ApiControls : was[b] # 0 => \E s \in {0, 1} : <<b, s>> \in D \cup {new}
  <2> SUFFICES ASSUME NEW b \in ApiControls, was[b] # 0
               PROVE  \E s \in {0, 1} : <<b, s>> \in D \cup {new}
    OBVIOUS
  <2>1. CASE b = c
    BY <2>1, <1>3
  <2>2. CASE b # c
    <3>1. PICK s \in {0, 1} : <<b, s>> \in DOMAIN file.controls
      BY DEF Faithful
    <3> QED
      BY <2>2, <3>1, <1>2
  <2> QED
    BY <2>1, <2>2
<1>7. \A b \in ApiControls : ~(<<b, 0>> \in D \cup {new} /\ <<b, 1>> \in D \cup {new})
  <2> SUFFICES ASSUME NEW b \in ApiControls
               PROVE  ~(<<b, 0>> \in D \cup {new} /\ <<b, 1>> \in D \cup {new})
    OBVIOUS
  <2>1. CASE b = c
    BY <2>1, <1>2, <1>3 DEF Faithful
  <2>2. CASE b # c
    BY <2>2, <1>3 DEF Faithful
  <2> QED
    BY <2>1, <2>2
<1> QED
  BY <1>4, <1>5, <1>6, <1>7 DEF Faithful

\* A line that goes takes its count with it; another owner's takes nothing.
LEMMA DropKeepsFaith ==
  ASSUME NEW file, NEW was, Faithful(file, was), DOMAIN was = ApiControls,
         NEW k \in DOMAIN file.controls,
         NEW other, other.controls = [j \in DOMAIN file.controls \ {k} |-> file.controls[j]],
         NEW is, is = IF k \in ForeignKeys THEN was ELSE [was EXCEPT ![k[1]] = 0]
  PROVE  Faithful(other, is)
<1>1. CASE k \in ForeignKeys
  <2>1. \A c \in ApiControls, sp \in {0, 1} : <<c, sp>> # k
    BY <1>1, ForeignIsForeign
  <2> QED
    BY <1>1, <2>1 DEF Faithful
<1>2. CASE k \notin ForeignKeys
  <2>1. PICK c \in ApiControls, sp \in {0, 1} : k = <<c, sp>>
    BY <1>2 DEF Faithful
  <2>2. is[c] = 0 /\ \A b \in ApiControls \ {c} : is[b] = was[b]
    BY <1>2, <2>1
  <2>3. \A j \in DOMAIN other.controls \ ForeignKeys : j \in ApiControls \X {0, 1} /\ j[1] # c
    <3> SUFFICES ASSUME NEW j \in DOMAIN file.controls \ ForeignKeys, j # k
                 PROVE  j \in ApiControls \X {0, 1} /\ j[1] # c
      OBVIOUS
    <3>1. PICK b \in ApiControls, s \in {0, 1} : j = <<b, s>>
      BY DEF Faithful
    <3> QED
      BY <2>1, <3>1 DEF Faithful
  <2>4. \A j \in DOMAIN other.controls \ ForeignKeys : other.controls[j] = is[j[1]]
    BY <2>2, <2>3 DEF Faithful
  <2>5. \A b \in ApiControls : is[b] # 0 => \E s \in {0, 1} : <<b, s>> \in DOMAIN other.controls
    <3> SUFFICES ASSUME NEW b \in ApiControls, is[b] # 0
                 PROVE  \E s \in {0, 1} : <<b, s>> \in DOMAIN other.controls
      OBVIOUS
    <3>1. PICK s \in {0, 1} : <<b, s>> \in DOMAIN file.controls
      BY <2>2 DEF Faithful
    <3> QED
      BY <2>1, <2>2, <3>1
  <2>6. \A b \in ApiControls : ~(<<b, 0>> \in DOMAIN other.controls /\ <<b, 1>> \in DOMAIN other.controls)
    BY DEF Faithful
  <2> QED
    BY <2>3, <2>4, <2>5, <2>6 DEF Faithful
<1> QED
  BY <1>1, <1>2

\* A line of another owner under `controls` says nothing of a control.
LEMMA ForeignKeepsFaith ==
  ASSUME NEW file, NEW was, Faithful(file, was), NEW k \in ForeignKeys,
         NEW other, other.controls = WithKey(file, k)
  PROVE  Faithful(other, was)
<1>1. \A c \in ApiControls, sp \in {0, 1} : <<c, sp>> # k
  BY ForeignIsForeign
<1> QED
  BY <1>1 DEF Faithful, WithKey

\* A refreeze writes down, under the spelling of today, what it records.
LEMMA RefreezeIsFaithful ==
  ASSUME Shapes, NEW r \in Repos,
         NEW file, file.controls = [k \in {Key(c) : c \in Recorded(r)} |-> found[r][k[1]]],
         NEW was, was = [c \in ApiControls |-> IF c \in Recorded(r) THEN found[r][c] ELSE 0]
  PROVE  Faithful(file, was)
<1>1. \A c \in ApiControls : Key(c) \in ApiControls \X {0, 1} /\ Key(c)[1] = c
  BY DEF Key, Shapes
<1>2. Recorded(r) \subseteq ApiControls
  BY DEF Recorded
<1>3. \A k \in DOMAIN file.controls : k \in ApiControls \X {0, 1} /\ file.controls[k] = was[k[1]]
  BY <1>1, <1>2
<1>4. \A c \in ApiControls : was[c] # 0 => Key(c) \in DOMAIN file.controls
  OBVIOUS
<1>5. \A c \in ApiControls, sp \in {0, 1} : <<c, sp>> \in DOMAIN file.controls => <<c, sp>> = Key(c)
  BY <1>1, <1>2
<1>6. \A c \in ApiControls : was[c] # 0 => \E sp \in {0, 1} : <<c, sp>> \in DOMAIN file.controls
  BY <1>4 DEF Key, Shapes
<1>7. \A c \in ApiControls : ~(<<c, 0>> \in DOMAIN file.controls /\ <<c, 1>> \in DOMAIN file.controls)
  BY <1>5 DEF Key
<1> QED
  BY <1>3, <1>6, <1>7 DEF Faithful

-----------------------------------------------------------------------------
(* Every step keeps the invariant *)

LEMMA RatchetStarts == Init => RatchetInv
<1> SUFFICES ASSUME Init PROVE RatchetInv
  OBVIOUS
<1>1. Shapes
  BY DEF Init, Shapes, Absent
<1>2. ASSUME NEW r \in Repos
      PROVE  Faithful(api[r], frozen[r])
  <2> DEFINE debt == {c \in ApiControls : Count(r, c) > 0}
             was == [c \in ApiControls |-> Count(r, c)]
  <2>1. frozen[r] = was
    BY DEF Init
  <2>2. \A c \in ApiControls : c \notin debt => was[c] = 0
    BY DEF Count
  <2>3. CASE debt = {}
    <3>1. api[r].controls = NoCounts
      BY <2>3 DEF Init, Absent
    <3> QED
      BY <2>1, <2>2, <2>3, <3>1, NothingIsFaithful DEF NoCounts
  <2>4. CASE debt # {}
    <3>1. api[r].controls = [k \in debt \X {0} |-> Count(r, k[1])]
      BY <2>4 DEF Init
    <3> QED
      BY <2>1, <2>2, <3>1 DEF Faithful
  <2> QED
    BY <2>3, <2>4
<1> QED
  BY <1>1, <1>2 DEF RatchetInv

\* A refreeze writes a file that is faithful to what it found, or none.
LEMMA RefreezeKeepsRatchet ==
  ASSUME RatchetInv, NEW r \in Repos, ApiWriteBaseline(r)
  PROVE  RatchetInv'
<1> DEFINE counts == [k \in {Key(c) : c \in Recorded(r)} |-> found[r][k[1]]]
           file == [state |-> "readable", controls |-> counts, others |-> Kept(r)]
           was == [c \in ApiControls |-> IF c \in Recorded(r) THEN found[r][c] ELSE 0]
<1>1. api' = [api EXCEPT ![r] = IF counts = NoCounts /\ Kept(r) = NoOthers THEN Absent ELSE file]
  BY DEF ApiWriteBaseline
<1>2. frozen' = [frozen EXCEPT ![r] = was] /\ UNCHANGED <<catalog, edits>>
  BY DEF ApiWriteBaseline
<1>3. api'[r].controls = counts
  BY <1>1 DEF RatchetInv, Shapes, Absent
<1>4. frozen'[r] = was
  BY <1>2 DEF RatchetInv, Shapes
<1>5. Faithful(api'[r], frozen'[r])
  BY <1>3, <1>4, RefreezeIsFaithful DEF RatchetInv
<1>6. Shapes'
  BY <1>1, <1>2 DEF RatchetInv, Shapes, Absent
<1>7. \A q \in Repos \ {r} : api'[q] = api[q] /\ frozen'[q] = frozen[q]
  BY <1>1, <1>2 DEF RatchetInv, Shapes
<1> QED
  BY <1>5, <1>6, <1>7 DEF RatchetInv, Told

\* A hand that follows the advice of the refusal respells a key or drops a line.
LEMMA HandKeepsRatchet ==
  ASSUME RatchetInv, NEW r \in Repos, EditBaseline(r)
  PROVE  RatchetInv'
<1> DEFINE was == frozen[r]
           file == api[r]
<1>1. PICK k \in DOMAIN file.controls :
        LET others == [j \in DOMAIN file.controls \ {k} |-> file.controls[j]]
            new == <<k[1], 1 - k[2]>>
        IN \/ /\ k \notin ForeignKeys /\ new \notin DOMAIN others
              /\ api' = [api EXCEPT ![r].controls = [j \in DOMAIN others \cup {new} |-> IF j = new THEN file.controls[k] ELSE others[j]]]
              /\ UNCHANGED frozen
           \/ /\ api' = [api EXCEPT ![r].controls = others]
              /\ frozen' = IF k \in ForeignKeys THEN frozen ELSE [frozen EXCEPT ![r][k[1]] = 0]
  BY DEF EditBaseline
<1> DEFINE D == DOMAIN file.controls \ {k}
           others == [j \in D |-> file.controls[j]]
           new == <<k[1], 1 - k[2]>>
<1>2. file.state = "readable" /\ edits' = edits + 1 /\ UNCHANGED catalog
  BY DEF EditBaseline, Commit
<1>3. Faithful(file, was)
  BY <1>2 DEF RatchetInv, Told
<1>4. CASE /\ k \notin ForeignKeys /\ new \notin D
           /\ api' = [api EXCEPT ![r].controls = Respelt(file, k)] /\ UNCHANGED frozen
  <2>1. api'[r].controls = Respelt(file, k) /\ \A q \in Repos \ {r} : api'[q] = api[q]
    BY <1>4 DEF RatchetInv, Shapes
  <2>2. Faithful(api'[r], was)
    BY <1>3, <1>4, <2>1, RespellKeepsFaith
  <2>3. Shapes'
    BY <1>2, <1>4 DEF RatchetInv, Shapes
  <2> QED
    BY <1>4, <2>1, <2>2, <2>3 DEF RatchetInv, Told
<1>5. CASE /\ api' = [api EXCEPT ![r].controls = others]
           /\ frozen' = IF k \in ForeignKeys THEN frozen ELSE [frozen EXCEPT ![r][k[1]] = 0]
  <2>1. api'[r].controls = others /\ \A q \in Repos \ {r} : api'[q] = api[q]
    BY <1>5 DEF RatchetInv, Shapes
  <2>2. /\ frozen'[r] = IF k \in ForeignKeys THEN was ELSE [was EXCEPT ![k[1]] = 0]
        /\ \A q \in Repos \ {r} : frozen'[q] = frozen[q]
    BY <1>5 DEF RatchetInv, Shapes
  <2>3. DOMAIN was = ApiControls
    BY DEF RatchetInv, Shapes
  <2>4. Faithful(api'[r], frozen'[r])
    BY <1>3, <2>1, <2>2, <2>3, DropKeepsFaith
  <2>5. Shapes'
    BY <1>2, <1>5 DEF RatchetInv, Shapes
  <2> QED
    BY <2>1, <2>2, <2>4, <2>5 DEF RatchetInv, Told
<1> QED
  <2>1. new \notin DOMAIN others <=> new \notin D
    OBVIOUS
  <2>2. [j \in DOMAIN others \cup {new} |-> IF j = new THEN file.controls[k] ELSE others[j]] = Respelt(file, k)
    BY DEF Respelt
  <2> QED
    BY <1>1, <1>4, <1>5, <2>1, <2>2

\* Whatever spoils the file spoils it visibly, or takes the whole record with it.
LEMMA SpoiltKeepsRatchet ==
  ASSUME RatchetInv, NEW r \in Repos, BreakBaseline(r)
  PROVE  RatchetInv'
<1>1. edits' = edits + 1 /\ UNCHANGED catalog
  BY DEF BreakBaseline, Commit
<1>2. ASSUME api[r].state = "readable", UNCHANGED frozen, NEW k \in ForeignKeys,
             api' = [api EXCEPT ![r].controls = [j \in DOMAIN @ \cup {k} |-> IF j = k THEN 1 ELSE @[j]]]
      PROVE  RatchetInv'
  <2>1. api' = [api EXCEPT ![r].controls = WithKey(api[r], k)]
    BY <1>2 DEF WithKey
  <2>2. api'[r].controls = WithKey(api[r], k) /\ \A q \in Repos \ {r} : api'[q] = api[q]
    BY <2>1 DEF RatchetInv, Shapes
  <2>3. Faithful(api'[r], frozen[r])
    BY <1>2, <2>2, ForeignKeepsFaith DEF RatchetInv, Told
  <2>4. Shapes'
    BY <1>1, <1>2, <2>1 DEF RatchetInv, Shapes
  <2> QED
    BY <1>2, <2>2, <2>3, <2>4 DEF RatchetInv, Told
<1>3. ASSUME UNCHANGED frozen, NEW e,
             e = [api EXCEPT ![r].state = "unparseable", ![r].controls = NoCounts, ![r].others = NoOthers]
             \/ e = [api EXCEPT ![r].state = "misshapen", ![r].controls = NoCounts],
             api' = e
      PROVE  RatchetInv'
  <2>1. ~Told(api'[r]) /\ \A q \in Repos \ {r} : api'[q] = api[q]
    BY <1>3 DEF RatchetInv, Shapes, Told
  <2>2. Shapes'
    BY <1>1, <1>3 DEF RatchetInv, Shapes
  <2> QED
    BY <1>3, <2>1, <2>2 DEF RatchetInv, Told
<1>4. ASSUME api' = [api EXCEPT ![r] = Absent], frozen' = [frozen EXCEPT ![r] = [c \in ApiControls |-> 0]]
      PROVE  RatchetInv'
  <2>1. /\ api'[r] = Absent /\ frozen'[r] = [c \in ApiControls |-> 0]
        /\ \A q \in Repos \ {r} : api'[q] = api[q] /\ frozen'[q] = frozen[q]
    BY <1>4 DEF RatchetInv, Shapes
  <2>2. Faithful(api'[r], frozen'[r])
    BY <2>1, NothingIsFaithful DEF Absent, NoCounts
  <2>3. Shapes'
    BY <1>1, <1>4 DEF RatchetInv, Shapes, Absent
  <2> QED
    BY <2>1, <2>2, <2>3 DEF RatchetInv, Told
<1> QED
  BY <1>2, <1>3, <1>4 DEF BreakBaseline

\* What ihq validate and ihq arch write leaves `controls` as it was.
LEMMA OthersKeepRatchet ==
  ASSUME RatchetInv, NEW r \in Repos, OthersWriteBaseline(r)
  PROVE  RatchetInv'
<1>1. api[r].state \in {"readable", "absent"} /\ edits' = edits + 1 /\ UNCHANGED <<catalog, frozen>>
  BY DEF OthersWriteBaseline, Commit
<1>2. PICK others : api' = [api EXCEPT ![r] = IF others = NoOthers /\ api[r].controls = NoCounts THEN Absent
                                              ELSE [state |-> "readable", controls |-> api[r].controls, others |-> others]]
  BY DEF OthersWriteBaseline
<1>3. api'[r].controls = api[r].controls /\ \A q \in Repos \ {r} : api'[q] = api[q]
  BY <1>2 DEF RatchetInv, Shapes, Absent
<1>4. Faithful(api'[r], frozen[r])
  BY <1>1, <1>3, OthersDoNotMatter DEF RatchetInv, Told
<1>5. Shapes'
  BY <1>1, <1>2 DEF RatchetInv, Shapes, Absent
<1> QED
  BY <1>1, <1>3, <1>4, <1>5 DEF RatchetInv, Told

\* A release of the catalogs changes how a control is spelt, or its status.
LEMMA CatalogKeepsRatchet ==
  ASSUME RatchetInv, CatalogMoves
  PROVE  RatchetInv'
<1>1. edits' = edits + 1 /\ UNCHANGED <<api, frozen>>
  BY DEF CatalogMoves, Commit
<1>2. PICK c \in Renamable : \/ \E status : catalog' = [catalog EXCEPT ![c].status = status]
                             \/ catalog' = [catalog EXCEPT ![c].spelling = 1 - @]
  BY DEF CatalogMoves
<1>3. c \in ApiControls
  BY GatesAssumption
<1>4. /\ DOMAIN catalog' = ApiControls
      /\ \A d \in ApiControls : DOMAIN catalog'[d] = {"spelling", "status"} /\ catalog'[d].spelling \in {0, 1}
  <2>1. CASE \E status : catalog' = [catalog EXCEPT ![c].status = status]
    BY <1>3, <2>1 DEF RatchetInv, Shapes
  <2>2. CASE catalog' = [catalog EXCEPT ![c].spelling = 1 - @]
    BY <1>3, <2>2 DEF RatchetInv, Shapes
  <2> QED
    BY <1>2, <2>1, <2>2
<1> QED
  BY <1>1, <1>4 DEF RatchetInv, Shapes

\* Nothing else touches the record or the file.
LEMMA RestKeepsRatchet ==
  ASSUME RatchetInv, UNCHANGED <<api, frozen, catalog>>, edits' \in {edits, edits + 1}
  PROVE  RatchetInv'
BY DEF RatchetInv, Shapes

LEMMA Ratchet == Spec => []RatchetInv
<1>1. RatchetInv /\ [Next]_vars => RatchetInv'
  <2> SUFFICES ASSUME RatchetInv, [Next]_vars PROVE RatchetInv'
    OBVIOUS
  <2>1. CASE CatalogMoves
    BY <2>1, CatalogKeepsRatchet
  <2>2. ASSUME NEW r \in Repos, EditTree(r) \/ Move(r) \/ BreakGateway(r) \/ GwWriteBaseline(r)
        PROVE  RatchetInv'
    BY <2>2, RestKeepsRatchet DEF EditTree, Move, BreakGateway, GwWriteBaseline, Commit
  <2>3. ASSUME NEW r \in Repos, EditBaseline(r)
        PROVE  RatchetInv'
    BY <2>3, HandKeepsRatchet
  <2>4. ASSUME NEW r \in Repos, BreakBaseline(r)
        PROVE  RatchetInv'
    BY <2>4, SpoiltKeepsRatchet
  <2>5. ASSUME NEW r \in Repos, OthersWriteBaseline(r)
        PROVE  RatchetInv'
    BY <2>5, OthersKeepRatchet
  <2>6. ASSUME NEW r \in Repos, ApiWriteBaseline(r)
        PROVE  RatchetInv'
    BY <2>6, RefreezeKeepsRatchet
  <2>7. CASE UNCHANGED vars
    BY <2>7, RestKeepsRatchet DEF vars
  <2> QED
    BY <2>1, <2>2, <2>3, <2>4, <2>5, <2>6, <2>7 DEF Next
<1> QED
  BY <1>1, RatchetStarts, PTL DEF Spec

-----------------------------------------------------------------------------
(* The promises *)

\* Unless the gate refuses to judge, what it tolerates of a control is what the
\* repository recorded of it.
LEMMA ToleratesWhatWasRecorded ==
  ASSUME RatchetInv, NEW r \in Repos, ~baseline_problems(r), NEW c \in ApiControls
  PROVE  ApiFrozen(r, c) = frozen[r][c]
<1>1. Faithful(api[r], frozen[r])
  BY DEF baseline_problems, RatchetInv, Told
<1>2. DOMAIN api[r].controls \subseteq {Key(d) : d \in Listed}
  BY DEF baseline_problems
<1>3. Listed \subseteq ApiControls
  BY DEF Listed
<1>4. CASE Key(c) \in DOMAIN api[r].controls
  <2>1. Key(c) \notin ForeignKeys /\ Key(c)[1] = c
    BY ForeignIsForeign DEF Key
  <2> QED
    BY <1>1, <1>4, <2>1 DEF Faithful, ApiFrozen
<1>5. CASE Key(c) \notin DOMAIN api[r].controls
  <2>1. \A sp \in {0, 1} : <<c, sp>> \notin DOMAIN api[r].controls
    <3> SUFFICES ASSUME NEW sp \in {0, 1}, <<c, sp>> \in DOMAIN api[r].controls
                 PROVE  FALSE
      OBVIOUS
    <3>1. PICK d \in Listed : <<c, sp>> = Key(d)
      BY <1>2
    <3>2. d = c
      BY <3>1 DEF Key
    <3> QED
      BY <1>5, <3>1, <3>2
  <2>2. frozen[r][c] = 0
    BY <1>1, <2>1 DEF Faithful
  <2> QED
    BY <1>5, <2>2 DEF ApiFrozen
<1> QED
  BY <1>4, <1>5

\* Red means the repository's own count rose above what it last recorded,
\* however the catalog and the file have moved apart: a key the catalog no
\* longer spells that way makes the gate refuse, and every other one is read.
THEOREM RedIsEarned == Spec => []RedMeansRaised
<1>1. RatchetInv => RedMeansRaised
  <2> SUFFICES ASSUME RatchetInv, NEW r \in Repos, api_verdict(r) # "refused"
               PROVE  api_verdict(r) = "fail"
                        <=> \E c \in ApiControls \ Minor : Evaluated(r, c) /\ found[r][c] > frozen[r][c]
    BY DEF RedMeansRaised
  <2>1. ~baseline_problems(r)
    BY DEF api_verdict
  <2>2. \A c \in ApiControls : ApiFails(r, c) <=> Evaluated(r, c) /\ found[r][c] > frozen[r][c]
    BY <2>1, ToleratesWhatWasRecorded DEF ApiFails
  <2>3. api_verdict(r) = "fail" <=> ~api_ok(r)
    BY <2>1 DEF api_verdict
  <2> QED
    BY <2>2, <2>3 DEF api_ok
<1> QED
  BY <1>1, Ratchet, PTL

\* A refreeze of this catalog gives back to ihq validate and ihq arch what they
\* froze in the same file, and removes the file only when there is nothing of
\* theirs in it.
THEOREM RefreezeSparesTheOthers == Spec => OthersKeepTheirFreeze
<1>1. RatchetInv /\ [Next]_vars
        => (Refreeze => \A r \in Repos : api[r].state # "unparseable" => api'[r].others = api[r].others)
  <2> SUFFICES ASSUME RatchetInv, [Next]_vars, Refreeze, NEW r \in Repos, api[r].state # "unparseable"
               PROVE  api'[r].others = api[r].others
    OBVIOUS
  <2>1. ~Commit
    BY DEF Refreeze, Commit, RatchetInv, Shapes
  <2>2. CASE api' = api
    BY <2>2
  <2>3. ASSUME NEW q \in Repos, ApiWriteBaseline(q)
        PROVE  api'[r].others = api[r].others
    <3>1. PICK counts : api' = [api EXCEPT ![q] = IF counts = NoCounts /\ Kept(q) = NoOthers THEN Absent
                                 ELSE [state |-> "readable", controls |-> counts, others |-> Kept(q)]]
      BY <2>3 DEF ApiWriteBaseline
    <3>2. api'[q].others = Kept(q) /\ (r # q => api'[r] = api[r])
      BY <3>1 DEF RatchetInv, Shapes, Absent
    <3> QED
      BY <3>2 DEF Kept
  <2> QED
    BY <2>1, <2>2, <2>3 DEF Next, vars, CatalogMoves, EditTree, Move, EditBaseline, BreakBaseline, OthersWriteBaseline,
                            BreakGateway, GwWriteBaseline
<1> QED
  BY <1>1, Ratchet, PTL DEF Spec, OthersKeepTheirFreeze

-----------------------------------------------------------------------------
(* The trees, and what is counted in them *)

\* A tree is finitely many facts of four parts, and a place of an operation
\* holds one.
Orderly(T) ==
  /\ IsFiniteSet(T)
  /\ \A t \in T : t = <<t[1], t[2], t[3], t[4]>>
  /\ \A t, u \in T : t[1] = "op" /\ t[1] = u[1] /\ t[2] = u[2] /\ t[3] = u[3] => t = u

TreesInv ==
  /\ edits \in Nat
  /\ DOMAIN tree = Repos /\ DOMAIN found = Repos /\ DOMAIN gw = Repos
  /\ \A r \in Repos : Orderly(tree[r]) /\ found[r] = Judge(r, tree[r])

\* The image of a finite set under a function is finite.
LEMMA ImageIsFinite ==
  ASSUME NEW S, IsFiniteSet(S), NEW f, DOMAIN f = S
  PROVE  /\ IsFiniteSet({f[x] : x \in S})
         /\ Cardinality({f[x] : x \in S}) <= Cardinality(S)
<1> DEFINE T == {f[x] : x \in S}
           g == [x \in S |-> f[x]]
<1>1. g \in Surjection(S, T)
  <2>1. g \in [S -> T]
    OBVIOUS
  <2>2. \A t \in T : \E x \in S : g[x] = t
    OBVIOUS
  <2> QED
    BY <2>1, <2>2 DEF Surjection
<1> HIDE DEF g
<1> QED
  BY <1>1, FS_Surjection

\* What is selected from a finite set can be counted.
LEMMA SelectionCounts ==
  ASSUME NEW S, IsFiniteSet(S), NEW T, T \subseteq S
  PROVE  IsFiniteSet(T) /\ Cardinality(T) \in Nat
BY FS_Subset, FS_CardinalityType

LEMMA FilesAreFinite ==
  ASSUME NEW S, S \subseteq Functions
  PROVE  IsFiniteSet(FilesOf(S)) /\ FilesOf(S) \subseteq FilesOf(Functions)
<1>1. IsFiniteSet(S)
  BY SelectionCounts, TreesAssumption
<1> DEFINE f == [s \in S |-> FileOf[s]]
<1>2. FilesOf(S) = {f[s] : s \in S}
  BY DEF FilesOf
<1>3. IsFiniteSet({f[s] : s \in S})
  <2>1. DOMAIN f = S
    OBVIOUS
  <2> HIDE DEF f
  <2> QED
    BY <1>1, <2>1, ImageIsFinite
<1> QED
  BY <1>2, <1>3 DEF FilesOf

LEMMA RuntimeIsFinite ==
  ASSUME NEW T, NEW m, NEW views
  PROVE  Runtime(T, m, views) \subseteq Functions /\ IsFiniteSet(Runtime(T, m, views))
<1>1. Runtime(T, m, views) \subseteq Functions
  BY DEF Runtime, Holds
<1> QED
  BY <1>1, SelectionCounts, TreesAssumption

\* Sets that are written out are finite.
LEMMA FiniteEnumerations ==
  /\ IsFiniteSet(RUNTIME_DOCS_MARKERS) /\ IsFiniteSet(Statuses)
  /\ IsFiniteSet(SECURITY_HEADERS_REQUIRED \cup {CSP})
  /\ IsFiniteSet({"http.DefaultClient", "http.Get(", "bare http.Client{}"})
  /\ IsFiniteSet({"SetDeadline", "connection cap"})
<1>1. \A a : IsFiniteSet({a})
  BY FS_Singleton
<1>2. \A a, b : IsFiniteSet({a, b})
  <2> SUFFICES ASSUME NEW a, NEW b PROVE IsFiniteSet({a, b})
    OBVIOUS
  <2>1. {a, b} = {a} \cup {b}
    OBVIOUS
  <2>2. IsFiniteSet({a}) /\ IsFiniteSet({b})
    BY <1>1, <1>1
  <2>3. IsFiniteSet({a} \cup {b})
    BY <2>2, FS_Union, Zenon
  <2> QED
    BY <2>1, <2>3, Zenon
<1>3. \A a, b, c : IsFiniteSet({a, b, c})
  <2> SUFFICES ASSUME NEW a, NEW b, NEW c PROVE IsFiniteSet({a, b, c})
    OBVIOUS
  <2>1. {a, b, c} = {a, b} \cup {c}
    OBVIOUS
  <2>2. IsFiniteSet({a, b}) /\ IsFiniteSet({c})
    BY <1>1, <1>2
  <2>3. IsFiniteSet({a, b} \cup {c})
    BY <2>2, FS_Union, Zenon
  <2> QED
    BY <2>1, <2>3, Zenon
<1>4. \A a, b, c, d : IsFiniteSet({a, b, c, d})
  <2> SUFFICES ASSUME NEW a, NEW b, NEW c, NEW d PROVE IsFiniteSet({a, b, c, d})
    OBVIOUS
  <2>1. {a, b, c, d} = {a, b, c} \cup {d}
    OBVIOUS
  <2>2. IsFiniteSet({a, b, c}) /\ IsFiniteSet({d})
    BY <1>1, <1>3
  <2>3. IsFiniteSet({a, b, c} \cup {d})
    BY <2>2, FS_Union, Zenon
  <2> QED
    BY <2>1, <2>3, Zenon
<1>5. IsFiniteSet(RUNTIME_DOCS_MARKERS)
  <2>1. RUNTIME_DOCS_MARKERS
          = {"swaggerpolicy", "gin-swagger", "openapiroutes.Register", "swagger build tag"} \cup {"/swagger route", "/api/docs route"}
    BY DEF RUNTIME_DOCS_MARKERS
  <2> QED
    BY <1>2, <1>4, <2>1, FS_Union
<1>6. IsFiniteSet(SECURITY_HEADERS_REQUIRED)
  BY <1>4 DEF SECURITY_HEADERS_REQUIRED
<1>7. IsFiniteSet(SECURITY_HEADERS_REQUIRED \cup {CSP})
  BY <1>1, <1>6, FS_Union
<1> QED
  BY <1>2, <1>3, <1>4, <1>5, <1>7 DEF Statuses

\* A spec that does not parse is one violation.
LEMMA OfSpecIsANumber == \A T : \A n \in Int : OfSpec(T, n) \in Int
BY DEF OfSpec

\* There is a nearest accepted set.
LEMMA NearestIsANumber ==
  ASSUME NEW T
  PROVE  compare_to_accepted_sets(T) \in Int
<1> DEFINE D(v) == {n \in ComponentNames : <<"component", "-", n, v>> \notin T}
           S == {Cardinality(D(v)) : v \in AcceptedVintages}
<1>1. \A v \in AcceptedVintages : Cardinality(D(v)) \in Nat
  BY SelectionCounts, TreesAssumption
<1>2. S \subseteq Nat /\ S # {}
  <2> HIDE DEF D
  <2>1. AcceptedVintages # {}
    BY ContractAssumption
  <2> QED
    BY <1>1, <2>1
<1>3. compare_to_accepted_sets(T) = Min(S)
  BY DEF compare_to_accepted_sets
<1> HIDE DEF S
<1>4. PICK x \in S : \A y \in S : ~(<<y, x>> \in OpToRel(<, Nat))
  BY <1>2, WFMin, NatLessThanWellFounded
<1>5. \A y \in S : x <= y
  <2> SUFFICES ASSUME NEW y \in S PROVE x <= y
    OBVIOUS
  <2>1. x \in Nat /\ y \in Nat
    BY <1>2
  <2>2. ~(y < x)
    BY <1>4, <2>1 DEF OpToRel
  <2> QED
    BY <2>1, <2>2
<1>6. Min(S) \in S
  BY <1>5 DEF Min
<1>7. Min(S) \in Int
  <2>1. \A m : m \in S => m \in Int
    BY <1>2
  <2> QED
    BY <1>6, <2>1, Zenon
<1> QED
  BY <1>3, <1>7, Zenon

\* Every detector of check-api-contract.py returns a number.
LEMMA ApiCountsAreNumbers ==
  ASSUME NEW T, IsFiniteSet(T), NEW c \in ApiControls
  PROVE  ApiCount(c, T) \in Int
<1>1. \A S : S \subseteq T => IsFiniteSet(S) /\ Cardinality(S) \in Nat
  BY SelectionCounts
<1>2. \A S : S \subseteq Functions => IsFiniteSet(S) /\ Cardinality(S) \in Nat
  BY SelectionCounts, TreesAssumption
<1>3. \A S : S \subseteq Operations => IsFiniteSet(S) /\ Cardinality(S) \in Nat
  BY SelectionCounts, TreesAssumption
<1>4. operations(T) \subseteq Operations
  BY DEF operations
<1>5. \A m, v : Runtime(T, m, v) \subseteq Functions
  BY RuntimeIsFinite
<1>6. no_runtime_docs(T) \in Nat
  <2> DEFINE S == UNION {FilesOf(Runtime(T, m, Text)) \X {m} : m \in RUNTIME_DOCS_MARKERS}
  <2>1. \A m : FilesOf(Runtime(T, m, Text)) \subseteq FilesOf(Functions)
    BY <1>5 DEF FilesOf
  <2>2. S \subseteq FilesOf(Functions) \X RUNTIME_DOCS_MARKERS
    BY <2>1
  <2>3. IsFiniteSet(FilesOf(Functions) \X RUNTIME_DOCS_MARKERS)
    BY FilesAreFinite, FiniteEnumerations, FS_Product
  <2>4. Cardinality(S) \in Nat
    BY <2>2, <2>3, SelectionCounts
  <2> QED
    BY <2>4 DEF no_runtime_docs
<1>7. single_committed_spec(T) \in Nat
  BY <1>1 DEF single_committed_spec
<1>8. shared_conformance_suite(T) \in Nat
  <2>1. Holds(T, "kin-openapi", Text) \subseteq Functions
    BY DEF Holds
  <2>2. IsFiniteSet(FilesOf(Holds(T, "kin-openapi", Text)))
    BY <2>1, FilesAreFinite
  <2> QED
    BY <2>2, SelectionCounts DEF shared_conformance_suite
<1>9. canonical_envelope(T) \in Int
  <2>1. IsFiniteSet(operations(T) \X Statuses)
    BY <1>3, <1>4, FiniteEnumerations, FS_Product
  <2>2. Cardinality({a \in operations(T) \X Statuses : Inline(T, a[1], a[2]) /\ Body(T, a[1], a[2], "bespoke")}) \in Nat
    BY <2>1, SelectionCounts
  <2> QED
    BY <2>2, OfSpecIsANumber DEF canonical_envelope
<1>10. operation_ids_governed(T) \in Int
  <2> DEFINE ids == {t \in T : t[1] = "op" /\ t[2] \in operations(T) /\ t[3] = "operationId"}
             f == [t \in ids |-> t[4]]
             unlocked == operations(T) # {} /\ <<"file", "docs/openapi.operationids.lock.json", "lock", "-">> \notin T
             n == Cardinality(operations(T)) - Cardinality(ids) + (Cardinality(ids) - Cardinality({t[4] : t \in ids}))
                    + (IF unlocked THEN 1 ELSE 0)
  <2>1. IsFiniteSet(ids) /\ Cardinality(ids) \in Nat /\ Cardinality(operations(T)) \in Nat
    BY <1>1, <1>3, <1>4
  <2>2. {t[4] : t \in ids} = {f[t] : t \in ids}
    OBVIOUS
  <2>3. IsFiniteSet({f[t] : t \in ids})
    <3>1. DOMAIN f = ids
      OBVIOUS
    <3> HIDE DEF f, ids
    <3> QED
      BY <2>1, <3>1, ImageIsFinite
  <2>4. Cardinality({t[4] : t \in ids}) \in Nat
    BY <2>2, <2>3, FS_CardinalityType
  <2>5. n \in Int
    <3> HIDE DEF ids, unlocked
    <3> QED
      BY <2>1, <2>4
  <2>6. operation_ids_governed(T) = OfSpec(T, n)
    BY DEF operation_ids_governed
  <2> HIDE DEF n
  <2> QED
    BY <2>5, <2>6, OfSpecIsANumber
<1>11. no_swaggo_annotation_source(T) \in Nat
  BY <1>1 DEF no_swaggo_annotation_source
<1>12. canonical_components_current(T) \in Int
  BY NearestIsANumber, OfSpecIsANumber DEF canonical_components_current
<1>13. conditional_requests(T) \in Int
  <2> DEFINE Read(o) == /\ MethodOf[o] = "get" /\ PathOf[o] \in SingleResourcePaths \ NonResourcePaths
                        /\ ~Part(T, o, "deprecated", "-") /\ ~\E n \in PAGINATION_PARAM_NAMES : Resolved(T, o, n)
                        /\ Declared(T, o, "200") /\ ~response_is_collection(T, o)
             reads == {o \in operations(T) : Read(o)}
             tagged == {o \in reads : Resolved(T, o, "200") /\ Part(T, o, "ETag", "-")}
             Guarded(o) == Resolved(T, o, "If-Match") /\ Declared(T, o, "412") /\ Declared(T, o, "428")
             writes == {o \in operations(T) : MethodOf[o] \in {"put", "patch", "delete"} /\ PathOf[o] \in {PathOf[r] : r \in tagged}}
  <2>1. reads \ tagged \subseteq Operations /\ {o \in writes : ~Guarded(o)} \subseteq Operations
    BY <1>4
  <2>2. Cardinality(reads \ tagged) + Cardinality({o \in writes : ~Guarded(o)}) \in Int
    BY <1>3, <2>1
  <2>3. conditional_requests(T) = OfSpec(T, Cardinality(reads \ tagged) + Cardinality({o \in writes : ~Guarded(o)}))
    BY DEF conditional_requests
  <2> HIDE DEF reads, tagged, writes
  <2> QED
    BY <2>2, <2>3, OfSpecIsANumber
<1>14. cache_key_declared(T) \in Nat
  BY <1>2, <1>5 DEF cache_key_declared
<1>15. standard_ratelimit_fields(T) \in Nat
  <2>1. Cardinality(Runtime(T, "X-RateLimit", Stripped)) \in Nat
    BY <1>2, <1>5
  <2>2. (Runtime(T, "429", Blanked) \cap Runtime(T, "response writer", Blanked)) \ Runtime(T, "Retry-After", Stripped) \subseteq Functions
    BY <1>5
  <2>3. Cardinality((Runtime(T, "429", Blanked) \cap Runtime(T, "response writer", Blanked)) \ Runtime(T, "Retry-After", Stripped)) \in Nat
    BY <1>2, <2>2
  <2>4. \A m, n \in Nat : m + n \in Nat
    OBVIOUS
  <2> QED
    BY <2>1, <2>3, <2>4, Zenon DEF standard_ratelimit_fields
<1>16. patch_media_type(T) \in Int
  <2>1. {o \in operations(T) : MethodOf[o] = "patch" /\ ~Part(T, o, "requestBody", "merge-patch")} \subseteq Operations
    BY <1>4
  <2> QED
    BY <1>3, <2>1, OfSpecIsANumber DEF patch_media_type
<1>17. idempotency_declared(T) \in Int
  <2>1. {o \in operations(T) : MethodOf[o] \in NON_IDEMPOTENT_METHODS /\ ~Inline(T, o, "Idempotency-Key")} \subseteq Operations
    BY <1>4
  <2> QED
    BY <1>3, <2>1, OfSpecIsANumber DEF idempotency_declared
<1>18. protocol_version_pinned(T) \in Int
  BY OfSpecIsANumber DEF protocol_version_pinned
<1>19. trace_context_propagated(T) \in Nat
  <2> DEFINE M == {"http.DefaultClient", "http.Get(", "bare http.Client{}"}
             S == UNION {Runtime(T, m, Blanked) \X {m} : m \in M}
  <2>1. ASSUME NEW x \in S PROVE x \in Functions \X M
    <3>1. PICK m \in M : x \in Runtime(T, m, Blanked) \X {m}
      BY <2>1
    <3> QED
      BY <1>5, <3>1
  <2>2. IsFiniteSet(Functions \X M)
    BY FiniteEnumerations, TreesAssumption, FS_Product
  <2>3. Cardinality(S) \in Nat
    BY <2>1, <2>2, SelectionCounts
  <2> QED
    BY <2>3 DEF trace_context_propagated
<1>20. security_response_headers(T) \in Nat
  <2> DEFINE H == SECURITY_HEADERS_REQUIRED \cup (IF Marked(T, "text/html", Text) THEN {CSP} ELSE {})
             S == {h \in H : ~header_set_anywhere(T, h)}
  <2>1. S \subseteq SECURITY_HEADERS_REQUIRED \cup {CSP}
    OBVIOUS
  <2>2. Cardinality(S) \in Nat
    BY <2>1, FiniteEnumerations, SelectionCounts
  <2> QED
    BY <2>2 DEF security_response_headers
<1> QED
  BY <1>6, <1>7, <1>8, <1>9, <1>10, <1>11, <1>12, <1>13, <1>14, <1>15, <1>16, <1>17, <1>18, <1>19, <1>20
     DEF ApiCount, ApiControls

\* And so does every detector of check-gateway-baseline.py.
LEMMA GwFindingsAreNumbers ==
  ASSUME NEW T, IsFiniteSet(T), NEW r, NEW c \in GwControls
  PROVE  GwFinding(r, c, T) \in Int
<1>1. \A S, u : IsFiniteSet(S) => Decide(S, u) \in Int
  BY FS_CardinalityType DEF Decide, Indeterminate
<1>2. \A S : S \subseteq T => IsFiniteSet(S) /\ Cardinality(S) \in Nat
  BY SelectionCounts
<1>3. yaml_docs(T) \subseteq T
  BY DEF yaml_docs
<1>4. no_local_policy_redefinition(T) \in Int
  <2>1. {t \in yaml_docs(T) : t[2] \in Defaults /\ t[3] \in OWNED_KEYS \ excepted(T)} \subseteq T
    BY <1>3
  <2> QED
    BY <1>2, <2>1 DEF no_local_policy_redefinition
<1>5. protocol_gateway_proxy(T) \in Int
  <2>1. {t \in yaml_docs(T) : t[3] = "websocket" /\ t[4] = "gateway"} \subseteq T
    BY <1>3
  <2> QED
    BY <1>1, <1>2, <2>1 DEF protocol_gateway_proxy
<1>6. bounded_long_lived_connections(T) \in Int
  <2> DEFINE In(m) == FilesOf(Runtime(T, m, Visible))
             tunnels == {f \in In("io.Copy") : Cardinality({s \in Runtime(T, "io.Copy", Visible) : FileOf[s] = f}) > 1}
             V == {b \in tunnels \X {"SetDeadline", "connection cap"} : b[1] \notin In(b[2])}
  <2>1. IsFiniteSet(In("io.Copy"))
    BY RuntimeIsFinite, FilesAreFinite
  <2>2. IsFiniteSet(tunnels)
    BY <2>1, SelectionCounts
  <2>3. IsFiniteSet(tunnels \X {"SetDeadline", "connection cap"})
    BY <2>2, FiniteEnumerations, FS_Product
  <2>4. IsFiniteSet(V)
    BY <2>3, SelectionCounts
  <2>5. bounded_long_lived_connections(T) = Decide(V, In("io.Copy") \ tunnels # {})
    BY DEF bounded_long_lived_connections
  <2> HIDE DEF V, tunnels, In
  <2> QED
    BY <1>1, <2>4, <2>5
<1>7. grpc_decision_hops(T) \in Int
  <2>1. {t \in yaml_docs(T) : t[3] \in {"validate_endpoint", "check_endpoint"} /\ t[4] = "http"} \subseteq T
    BY <1>3
  <2> QED
    BY <1>1, <1>2, <2>1 DEF grpc_decision_hops
<1>8. tls_backend_hops(T) \in Int
  BY <1>1, RuntimeIsFinite DEF tls_backend_hops
<1>9. shared_baseline_loaded(r, T) \in Int
  BY DEF shared_baseline_loaded, Indeterminate
<1>10. module_floor(T) \in Int
  BY DEF module_floor, Indeterminate
<1>11. grpc_interceptor_security(T) \in Int
  BY DEF grpc_interceptor_security, Indeterminate
<1> QED
  BY <1>4, <1>5, <1>6, <1>7, <1>8, <1>9, <1>10, <1>11 DEF GwFinding, GwControls

LEMMA JudgedInNumbers ==
  ASSUME NEW T, IsFiniteSet(T), NEW r
  PROVE  Judge(r, T) \in [ApiControls \cup GwControls -> Int]
<1>1. \A c \in ApiControls : ApiCount(c, T) \in Int
  BY ApiCountsAreNumbers
<1>2. \A c \in GwControls : GwFinding(r, c, T) \in Int
  BY GwFindingsAreNumbers
<1> QED
  BY <1>1, <1>2 DEF Judge, Unjudged
-----------------------------------------------------------------------------
(* The trees stay in order, and the findings are those of the trees *)

\* A fact that takes the place of another leaves one there.
LEMMA OneFactKeepsOrder ==
  ASSUME NEW T, Orderly(T), NEW f, f = <<f[1], f[2], f[3], f[4]>>,
         NEW rest, rest = {t \in T : <<t[1], t[2], t[3]>> # <<f[1], f[2], f[3]>>}
  PROVE  Orderly(rest) /\ Orderly(rest \cup {f})
<1>1. IsFiniteSet(rest)
  BY FS_Subset DEF Orderly
<1>2. IsFiniteSet(rest \cup {f})
  BY <1>1, FS_AddElement
<1>3. \A t \in rest : t \in T /\ ~(t[1] = f[1] /\ t[2] = f[2] /\ t[3] = f[3])
  OBVIOUS
<1>4. \A t, u \in rest : t[1] = "op" /\ t[1] = u[1] /\ t[2] = u[2] /\ t[3] = u[3] => t = u
  BY <1>3 DEF Orderly
<1>5. \A t \in rest : t = <<t[1], t[2], t[3], t[4]>>
  BY <1>3 DEF Orderly
<1>6. \A t, u \in rest \cup {f} : t[1] = "op" /\ t[1] = u[1] /\ t[2] = u[2] /\ t[3] = u[3] => t = u
  BY <1>3, <1>4
<1>7. \A t \in rest \cup {f} : t = <<t[1], t[2], t[3], t[4]>>
  BY <1>5
<1> HIDE DEF Orderly
<1>8. Orderly(rest)
  BY <1>1, <1>4, <1>5 DEF Orderly
<1> QED
  BY <1>2, <1>6, <1>7, <1>8 DEF Orderly

\* The facts of a file are of no operation, and are the same in number elsewhere.
LEMMA RenamedAreOrderly ==
  ASSUME NEW T, Orderly(T), NEW f, NEW g
  PROVE  /\ IsFiniteSet(OfFile(T, f)) /\ OfFile(T, f) \subseteq T
         /\ IsFiniteSet(Renamed(OfFile(T, f), g))
         /\ \A u \in Renamed(OfFile(T, f), g) : u = <<u[1], u[2], u[3], u[4]>> /\ u[1] \in {"go", "yaml", "file"}
<1> DEFINE F == OfFile(T, f)
           moved == [t \in F |-> IF t[1] = "go" THEN t ELSE [t EXCEPT ![2] = g]]
<1>1. F \subseteq T /\ IsFiniteSet(F)
  <2>1. F \subseteq T
    BY DEF OfFile
  <2> QED
    BY <2>1, FS_Subset DEF Orderly
<1>2. Renamed(F, g) = {moved[t] : t \in F}
  BY DEF Renamed
<1>3. IsFiniteSet({moved[t] : t \in F})
  <2>1. DOMAIN moved = F
    OBVIOUS
  <2> HIDE DEF moved, F
  <2> QED
    BY <1>1, <2>1, ImageIsFinite
<1>4. ASSUME NEW t \in F
      PROVE  moved[t] = <<moved[t][1], moved[t][2], moved[t][3], moved[t][4]>> /\ moved[t][1] \in {"go", "yaml", "file"}
  <2>1. t = <<t[1], t[2], t[3], t[4]>> /\ t[1] \in {"go", "yaml", "file"}
    BY <1>1 DEF Orderly, OfFile
  <2>2. CASE t[1] = "go"
    BY <2>1, <2>2
  <2>3. CASE t[1] # "go"
    <3>1. moved[t] = <<t[1], g, t[3], t[4]>>
      BY <2>1, <2>3
    <3> QED
      BY <2>1, <3>1
  <2> QED
    BY <2>2, <2>3
<1> QED
  BY <1>1, <1>2, <1>3, <1>4

LEMMA TreesStart == Init => TreesInv
<1> SUFFICES ASSUME Init PROVE TreesInv
  OBVIOUS
<1>1. tree = Start /\ edits = 0 /\ found = [r \in Repos |-> Judge(r, Start[r])] /\ DOMAIN gw = Repos
  BY DEF Init
<1>2. \A r \in Repos : Orderly(Start[r])
  BY TreesAssumption DEF Orderly
<1> QED
  BY <1>1, <1>2, TreesAssumption DEF TreesInv

\* A commit to a tree leaves it in order and judged.
LEMMA EditKeepsTrees ==
  ASSUME TreesInv, NEW r \in Repos, EditTree(r)
  PROVE  TreesInv'
<1>1. PICK f \in Writable(r) :
        LET rest == {t \in tree[r] : <<t[1], t[2], t[3]>> # <<f[1], f[2], f[3]>>}
            T == IF f \in tree[r] THEN rest ELSE rest \cup {f}
        IN tree' = [tree EXCEPT ![r] = T] /\ found' = [found EXCEPT ![r] = Judge(r, T)]
  BY DEF EditTree
<1> DEFINE rest == {t \in tree[r] : <<t[1], t[2], t[3]>> # <<f[1], f[2], f[3]>>}
           T == IF f \in tree[r] THEN rest ELSE rest \cup {f}
<1>2. Orderly(T)
  <2>1. f = <<f[1], f[2], f[3], f[4]>>
    BY TreesAssumption
  <2>2. Orderly(tree[r])
    BY DEF TreesInv
  <2>3. Orderly(rest) /\ Orderly(rest \cup {f})
    BY <2>1, <2>2, OneFactKeepsOrder
  <2> QED
    BY <2>3
<1>3. tree' = [tree EXCEPT ![r] = T] /\ found' = [found EXCEPT ![r] = Judge(r, T)]
  BY <1>1
<1>4. edits' \in Nat /\ gw' = gw
  BY DEF EditTree, Commit, TreesInv
<1> HIDE DEF T
<1> QED
  BY <1>2, <1>3, <1>4 DEF TreesInv

\* A file that moves leaves both trees in order and judged.
LEMMA MoveKeepsTrees ==
  ASSUME TreesInv, NEW r \in Repos, Move(r)
  PROVE  TreesInv'
<1>1. PICK m \in Relocations(r) :
        LET facts == OfFile(tree[r], m[2])
        IN /\ facts # {} /\ OfFile(tree[m[1]], m[3]) = {}
           /\ tree' = [tree EXCEPT ![r] = @ \ facts, ![m[1]] = @ \cup Renamed(facts, m[3])]
           /\ found' = [found EXCEPT ![r] = Judge(r, tree'[r]), ![m[1]] = Judge(m[1], tree'[m[1]])]
  BY DEF Move
<1> DEFINE F == OfFile(tree[r], m[2])
           G == Renamed(F, m[3])
<1>2. tree' = [tree EXCEPT ![r] = @ \ F, ![m[1]] = @ \cup G]
      /\ found' = [found EXCEPT ![r] = Judge(r, tree'[r]), ![m[1]] = Judge(m[1], tree'[m[1]])]
  BY <1>1
<1>3. m[1] \in Repos
  BY TreesAssumption
<1>4. IsFiniteSet(G) /\ \A u \in G : u = <<u[1], u[2], u[3], u[4]>> /\ u[1] # "op"
  BY RenamedAreOrderly DEF TreesInv
<1>5. \A S : Orderly(S) => Orderly(S \ F)
  BY FS_Subset DEF Orderly
<1>6. ASSUME NEW S, Orderly(S) PROVE Orderly(S \cup G)
  <2>1. IsFiniteSet(S \cup G)
    BY <1>4, <1>6, FS_Union DEF Orderly
  <2> HIDE DEF G
  <2>2. \A t \in S \cup G : t = <<t[1], t[2], t[3], t[4]>>
    BY <1>4, <1>6 DEF Orderly
  <2>3. \A t \in S \cup G : t[1] = "op" => t \in S
    BY <1>4
  <2>4. \A t, u \in S \cup G : t[1] = "op" /\ t[1] = u[1] /\ t[2] = u[2] /\ t[3] = u[3] => t = u
    BY <2>3, <1>6 DEF Orderly
  <2> QED
    BY <2>1, <2>2, <2>4 DEF Orderly
<1> HIDE DEF F, G
<1>7. ASSUME NEW q \in Repos PROVE Orderly(tree'[q]) /\ found'[q] = Judge(q, tree'[q])
  <2>1. tree'[q] \in {tree[q], tree[q] \ F, tree[q] \cup G, (tree[q] \ F) \cup G}
    BY <1>2, <1>3 DEF TreesInv
  <2>2. Orderly(tree'[q])
    BY <2>1, <1>5, <1>6 DEF TreesInv
  <2>3. q \notin {r, m[1]} => tree'[q] = tree[q]
    BY <1>2, <1>3 DEF TreesInv
  <2>4. found'[q] = Judge(q, tree'[q])
    BY <1>2, <1>3, <2>3 DEF TreesInv
  <2> QED
    BY <2>2, <2>4
<1>8. edits' \in Nat /\ gw' = gw /\ DOMAIN tree' = Repos /\ DOMAIN found' = Repos
  BY <1>2 DEF Move, Commit, TreesInv
<1> QED
  BY <1>7, <1>8 DEF TreesInv

\* Every other step leaves the trees alone.
LEMMA NextKeepsTrees == TreesInv /\ [Next]_vars => TreesInv'
<1> SUFFICES ASSUME TreesInv, [Next]_vars PROVE TreesInv'
  OBVIOUS
<1>1. ASSUME UNCHANGED <<tree, found>>, edits' \in Nat, DOMAIN gw' = Repos PROVE TreesInv'
  BY <1>1 DEF TreesInv
<1>2. CASE CatalogMoves
  BY <1>1, <1>2 DEF CatalogMoves, Commit, TreesInv
<1>3. ASSUME NEW r \in Repos, EditTree(r) PROVE TreesInv'
  BY <1>3, EditKeepsTrees
<1>4. ASSUME NEW r \in Repos, Move(r) PROVE TreesInv'
  BY <1>4, MoveKeepsTrees
<1>5. ASSUME NEW r \in Repos, EditBaseline(r) \/ BreakBaseline(r) \/ OthersWriteBaseline(r) PROVE TreesInv'
  BY <1>1, <1>5 DEF EditBaseline, BreakBaseline, OthersWriteBaseline, Commit, TreesInv
<1>6. ASSUME NEW r \in Repos, BreakGateway(r) PROVE TreesInv'
  BY <1>1, <1>6 DEF BreakGateway, Commit, TreesInv
<1>7. ASSUME NEW r \in Repos, ApiWriteBaseline(r) PROVE TreesInv'
  BY <1>1, <1>7 DEF ApiWriteBaseline, TreesInv
<1>8. ASSUME NEW r \in Repos, GwWriteBaseline(r) PROVE TreesInv'
  BY <1>1, <1>8 DEF GwWriteBaseline, TreesInv
<1>9. CASE UNCHANGED vars
  BY <1>1, <1>9 DEF vars, TreesInv
<1> QED
  BY <1>2, <1>3, <1>4, <1>5, <1>6, <1>7, <1>8, <1>9 DEF Next

LEMMA TreesAreJudged == Spec => []TreesInv
BY TreesStart, NextKeepsTrees, PTL DEF Spec

\* So what the gates compare are numbers.
LEMMA FindingsAreNumbers ==
  ASSUME TreesInv, NEW r \in Repos
  PROVE  found[r] \in [ApiControls \cup GwControls -> Int]
<1>1. IsFiniteSet(tree[r]) /\ found[r] = Judge(r, tree[r])
  BY DEF TreesInv, Orderly
<1>2. Judge(r, tree[r]) \in [ApiControls \cup GwControls -> Int]
  BY <1>1, JudgedInNumbers
<1> QED
  BY <1>1, <1>2
-----------------------------------------------------------------------------
(* A refreeze recovers *)

\* What the contract gate wrote down is what it then tolerates.
LEMMA ApiRefreezePasses ==
  ASSUME TreesInv, RatchetInv, NEW r \in Repos, ApiWriteBaseline(r)
  PROVE  /\ api_verdict(r)' = "ok" /\ UNCHANGED gw
         /\ \A q \in Repos \ {r} : api'[q] = api[q] /\ frozen'[q] = frozen[q]
<1> DEFINE counts == [k \in {Key(c) : c \in Recorded(r)} |-> found[r][k[1]]]
           file == [state |-> "readable", controls |-> counts, others |-> Kept(r)]
           was == [c \in ApiControls |-> IF c \in Recorded(r) THEN found[r][c] ELSE 0]
<1>1. /\ api' = [api EXCEPT ![r] = IF counts = NoCounts /\ Kept(r) = NoOthers THEN Absent ELSE file]
      /\ frozen' = [frozen EXCEPT ![r] = was] /\ UNCHANGED <<tree, found, gw, catalog, edits>>
  BY DEF ApiWriteBaseline
<1>2. \A q \in Repos \ {r} : api'[q] = api[q] /\ frozen'[q] = frozen[q]
  BY <1>1 DEF RatchetInv, Shapes
<1>3. api'[r].controls = counts /\ api'[r].state \in {"readable", "absent"}
  BY <1>1 DEF RatchetInv, Shapes, Absent
<1>4. \A c \in Recorded(r) : c \in Listed /\ found[r][c] \in Int
  <2>1. found[r] \in [ApiControls \cup GwControls -> Int]
    BY FindingsAreNumbers
  <2> QED
    BY <2>1 DEF Recorded, Evaluated
<1>5. Listed' = Listed /\ (\A c : Key(c)' = Key(c)) /\ \A c : Evaluated(r, c)' <=> Evaluated(r, c)
  BY <1>1 DEF Listed, Key, Evaluated
<1>6. ~baseline_problems(r)'
  BY <1>3, <1>4, <1>5 DEF baseline_problems
<1>7. ASSUME NEW c \in ApiControls, Evaluated(r, c)
      PROVE  ~(found[r][c] > ApiFrozen(r, c)')
  <2>1. \A b : Key(b)[1] = b
    BY DEF Key
  <2>2. CASE c \in Recorded(r)
    <3>1. ApiFrozen(r, c)' = found[r][c]
      BY <1>3, <1>5, <2>1, <2>2 DEF ApiFrozen
    <3> QED
      BY <1>4, <2>2, <3>1
  <2>3. CASE c \notin Recorded(r)
    <3>1. Key(c) \notin DOMAIN counts
      BY <2>1, <2>3
    <3>2. ApiFrozen(r, c)' = 0
      BY <1>3, <1>5, <3>1 DEF ApiFrozen
    <3>3. ~(found[r][c] > 0)
      BY <1>7, <2>3 DEF Recorded
    <3> QED
      BY <3>2, <3>3
  <2> QED
    BY <2>2, <2>3
<1>8. \A c \in ApiControls : ~ApiFails(r, c)'
  BY <1>1, <1>5, <1>7 DEF ApiFails
<1>9. api_ok(r)'
  BY <1>8 DEF api_ok
<1> QED
  BY <1>1, <1>2, <1>6, <1>9 DEF api_verdict

\* And so for the gateway gate.
LEMMA GwRefreezePasses ==
  ASSUME TreesInv, NEW r \in Repos, GwWriteBaseline(r)
  PROVE  /\ gw_verdict(r)' = "ok" /\ UNCHANGED <<api, frozen>>
         /\ \A q \in Repos \ {r} : gw'[q] = gw[q]
<1> DEFINE owing == {c \in GwControls : Count(r, c) > 0}
           counts == [c \in owing |-> Count(r, c)]
<1>1. /\ gw' = [gw EXCEPT ![r] = IF counts = NoCounts THEN GwAbsent
                                 ELSE [state |-> "readable", controls |-> counts, notes |-> gw[r].notes]]
      /\ UNCHANGED <<tree, found, api, catalog, frozen, edits>>
  BY DEF GwWriteBaseline
<1>2. gw'[r].controls = counts /\ gw'[r].state \in {"readable", "absent"}
  BY <1>1 DEF TreesInv, GwAbsent
<1>3. \A c \in GwControls : Count(r, c)' = Count(r, c) /\ Count(r, c) \in Nat
  <2>1. found[r] \in [ApiControls \cup GwControls -> Int]
    BY FindingsAreNumbers
  <2> QED
    BY <1>1, <2>1 DEF Count
<1>4. \A c \in GwControls : Count(r, c)' <= GwFrozen(r, c)'
  <2> SUFFICES ASSUME NEW c \in GwControls PROVE Count(r, c)' <= GwFrozen(r, c)'
    OBVIOUS
  <2>1. CASE c \in owing
    <3>1. GwFrozen(r, c)' = Count(r, c)
      BY <1>2, <2>1 DEF GwFrozen
    <3> QED
      BY <1>3, <3>1
  <2>2. CASE c \notin owing
    <3>1. GwFrozen(r, c)' = 0
      BY <1>2, <2>2 DEF GwFrozen
    <3>2. Count(r, c) = 0
      BY <1>3, <2>2
    <3> QED
      BY <1>3, <3>1, <3>2
  <2> QED
    BY <2>1, <2>2
<1>5. \A q \in Repos \ {r} : gw'[q] = gw[q]
  BY <1>1 DEF TreesInv
<1> QED
  BY <1>1, <1>2, <1>4, <1>5 DEF gw_verdict, gw_ok

\* --write-baseline ends every red and every refusal of the gate that ran it,
\* whatever the tree counts, the catalog lists and the file had become.
THEOREM RefreezeEndsRed == Spec => RefreezeRecovers
<1>1. TreesInv /\ RatchetInv /\ [Next]_vars
        => (Refreeze => \A r \in Repos : /\ (api'[r] # api[r] \/ frozen'[r] # frozen[r]) => api_verdict(r)' = "ok"
                                         /\ gw'[r] # gw[r] => gw_verdict(r)' = "ok")
  <2> SUFFICES ASSUME TreesInv, RatchetInv, [Next]_vars, Refreeze, NEW r \in Repos
               PROVE  /\ (api'[r] # api[r] \/ frozen'[r] # frozen[r]) => api_verdict(r)' = "ok"
                      /\ gw'[r] # gw[r] => gw_verdict(r)' = "ok"
    OBVIOUS
  <2>1. ~Commit
    BY DEF Refreeze, Commit, TreesInv
  <2>2. CASE UNCHANGED <<api, frozen, gw>>
    BY <2>2
  <2>3. ASSUME NEW q \in Repos, ApiWriteBaseline(q)
        PROVE  /\ (api'[r] # api[r] \/ frozen'[r] # frozen[r]) => api_verdict(r)' = "ok"
               /\ gw'[r] # gw[r] => gw_verdict(r)' = "ok"
    BY <2>3, ApiRefreezePasses
  <2>4. ASSUME NEW q \in Repos, GwWriteBaseline(q)
        PROVE  /\ (api'[r] # api[r] \/ frozen'[r] # frozen[r]) => api_verdict(r)' = "ok"
               /\ gw'[r] # gw[r] => gw_verdict(r)' = "ok"
    BY <2>4, GwRefreezePasses
  <2> QED
    BY <2>1, <2>2, <2>3, <2>4 DEF Next, vars, CatalogMoves, EditTree, Move, EditBaseline, BreakBaseline,
                                  OthersWriteBaseline, BreakGateway
<1> QED
  BY <1>1, Ratchet, TreesAreJudged, PTL DEF Spec, RefreezeRecovers
-----------------------------------------------------------------------------
(* Sharing costs nothing *)

\* A part that is inline in one tree and shared in the other resolves in both.
LEMMA SharedResolves ==
  ASSUME NEW T, NEW U, Orderly(T), Places(T) \subseteq Places(U),
         \A t \in (T \ U) \cup (U \ T) : t[1] = "op" /\ t[4] \in {"inline", "shared"},
         NEW o, NEW part, Resolved(T, o, part),
         \A u \in U : u = <<u[1], u[2], u[3], u[4]>>
  PROVE  Resolved(U, o, part)
<1>1. PICK how \in {"inline", "shared"} : <<"op", o, part, how>> \in T
  BY DEF Resolved, Inline, Part
<1>2. <<"op", o, part>> \in Places(T)
  BY <1>1 DEF Places
<1>3. PICK u \in U : <<u[1], u[2], u[3]>> = <<"op", o, part>>
  BY <1>2 DEF Places
<1>4. u = <<"op", o, part, u[4]>>
  BY <1>3
<1>5. CASE u \in T
  <2>1. u = <<"op", o, part, how>>
    BY <1>1, <1>4, <1>5 DEF Orderly
  <2> QED
    BY <2>1 DEF Resolved, Inline, Part
<1>6. CASE u \notin T
  <2>1. u[4] \in {"inline", "shared"}
    BY <1>6
  <2> QED
    BY <1>4, <2>1 DEF Resolved, Inline, Part
<1> QED
  BY <1>5, <1>6

\* API-0008 reads what it follows through a $ref the same.
LEMMA SharedCountsTheSame ==
  ASSUME NEW T, NEW U, Orderly(T), Orderly(U), Places(T) = Places(U),
         \A t \in (T \ U) \cup (U \ T) : t[1] = "op" /\ t[4] \in {"inline", "shared"}
  PROVE  (has_http_api(T) <=> has_http_api(U)) /\ conditional_requests(T) = conditional_requests(U)
<1>1. \A o, part : Resolved(T, o, part) <=> Resolved(U, o, part)
  <2>1. \A o, part : Resolved(T, o, part) => Resolved(U, o, part)
    BY SharedResolves DEF Orderly
  <2>2. \A o, part : Resolved(U, o, part) => Resolved(T, o, part)
    BY SharedResolves DEF Orderly
  <2> QED
    BY <2>1, <2>2
<1>2. \A o, part : Declared(T, o, part) <=> Declared(U, o, part)
  BY <1>1 DEF Declared, Resolved
<1>3. \A k, o, part, v : k # "op" \/ v \notin {"inline", "shared"} => (<<k, o, part, v>> \in T <=> <<k, o, part, v>> \in U)
  OBVIOUS
<1>4. (has_http_api(T) <=> has_http_api(U)) /\ (spec_error(T) <=> spec_error(U))
  BY <1>3 DEF has_http_api, spec_error
<1>5. operations(T) = operations(U)
  BY <1>3, <1>4 DEF operations
<1>6. \A o, part : Part(T, o, part, "-") <=> Part(U, o, part, "-")
  BY <1>3 DEF Part
<1>7. \A o : response_is_collection(T, o) <=> response_is_collection(U, o)
  BY <1>1, <1>3 DEF response_is_collection, Body
<1> DEFINE Read(S, o) == /\ MethodOf[o] = "get" /\ PathOf[o] \in SingleResourcePaths \ NonResourcePaths
                         /\ ~Part(S, o, "deprecated", "-") /\ ~\E n \in PAGINATION_PARAM_NAMES : Resolved(S, o, n)
                         /\ Declared(S, o, "200") /\ ~response_is_collection(S, o)
           reads(S) == {o \in operations(S) : Read(S, o)}
           tagged(S) == {o \in reads(S) : Resolved(S, o, "200") /\ Part(S, o, "ETag", "-")}
           Guarded(S, o) == Resolved(S, o, "If-Match") /\ Declared(S, o, "412") /\ Declared(S, o, "428")
           writes(S) == {o \in operations(S) : MethodOf[o] \in {"put", "patch", "delete"} /\ PathOf[o] \in {PathOf[r] : r \in tagged(S)}}
           open(S) == {o \in writes(S) : ~Guarded(S, o)}
<1>8. \A o : Read(T, o) <=> Read(U, o)
  BY <1>1, <1>2, <1>6, <1>7
<1>9. reads(T) = reads(U)
  <2> HIDE DEF Read
  <2> QED
    BY <1>5, <1>8
<1>10. tagged(T) = tagged(U)
  <2> HIDE DEF reads
  <2> QED
    BY <1>1, <1>6, <1>9
<1>11. writes(T) = writes(U)
  <2> HIDE DEF tagged
  <2> QED
    BY <1>5, <1>10
<1>12. open(T) = open(U)
  <2> HIDE DEF writes
  <2> QED
    BY <1>1, <1>2, <1>11
<1>13. \A S : conditional_requests(S) = OfSpec(S, Cardinality(reads(S) \ tagged(S)) + Cardinality(open(S)))
  BY DEF conditional_requests
<1> HIDE DEF reads, tagged, open
<1>14. Cardinality(reads(T) \ tagged(T)) + Cardinality(open(T)) = Cardinality(reads(U) \ tagged(U)) + Cardinality(open(U))
  BY <1>9, <1>10, <1>12
<1>15. \A n : OfSpec(T, n) = OfSpec(U, n)
  BY <1>4 DEF OfSpec
<1>16. conditional_requests(T) = conditional_requests(U)
  BY <1>13, <1>14, <1>15
<1> QED
  BY <1>4, <1>16

\* Moving a parameter or a response into a shared component, or back, changes
\* nothing API-0008 counts, whatever the operations and their parts.
THEOREM SharingIsFree == Spec => SharingCostsNothing
<1>1. TreesInv /\ TreesInv'
        => \A r \in Repos :
             /\ Changed(r) # {} /\ \A t \in Changed(r) : t[1] = "op" /\ t[4] \in {"inline", "shared"}
             /\ Places(tree[r]) = Places(tree'[r])
             => found'[r]["API-0008"] = found[r]["API-0008"]
  <2> SUFFICES ASSUME TreesInv, TreesInv', NEW r \in Repos,
                      \A t \in Changed(r) : t[1] = "op" /\ t[4] \in {"inline", "shared"},
                      Places(tree[r]) = Places(tree'[r])
               PROVE  found'[r]["API-0008"] = found[r]["API-0008"]
    OBVIOUS
  <2>1. PICK T, U : T = tree[r] /\ U = tree'[r]
    OBVIOUS
  <2>2. Orderly(T) /\ Orderly(U) /\ found[r] = Judge(r, T) /\ found'[r] = Judge(r, U)
    BY <2>1 DEF TreesInv
  <2>3. (has_http_api(T) <=> has_http_api(U)) /\ conditional_requests(T) = conditional_requests(U)
    <3>1. \A t \in (T \ U) \cup (U \ T) : t[1] = "op" /\ t[4] \in {"inline", "shared"}
      BY <2>1 DEF Changed
    <3>2. Places(T) = Places(U)
      BY <2>1
    <3> QED
      BY <2>2, <3>1, <3>2, SharedCountsTheSame
  <2>4. "API-0008" \in ApiControls /\ "API-0008" \in HttpApiOnly
    BY DEF ApiControls, HttpApiOnly
  <2>5. \A S : Judge(r, S)["API-0008"] = IF ~has_http_api(S) THEN Unjudged ELSE conditional_requests(S)
    <3>1. \A S : ApiCount("API-0008", S) = conditional_requests(S)
      BY DEF ApiCount
    <3> QED
      BY <2>4, <3>1 DEF Judge
  <2> QED
    BY <2>2, <2>3, <2>5
<1> QED
  BY <1>1, TreesAreJudged, PTL DEF SharingCostsNothing
-----------------------------------------------------------------------------
(* Moving hides nothing *)

\* A hop of a file is found again under the new name of the file.
Hop(t) == t[1] = "yaml" /\ t[3] \in {"validate_endpoint", "check_endpoint"} /\ t[4] = "http"
Hops(T) == {t \in yaml_docs(T) : Hop(t)}

LEMMA YamlFactsAreRenamed ==
  ASSUME NEW T, Orderly(T), NEW f, NEW g
  PROVE  \A k, v : <<"yaml", f, k, v>> \in T <=> <<"yaml", g, k, v>> \in Renamed(OfFile(T, f), g)
<1> SUFFICES ASSUME NEW k, NEW v
             PROVE  <<"yaml", f, k, v>> \in T <=> <<"yaml", g, k, v>> \in Renamed(OfFile(T, f), g)
  OBVIOUS
<1>1. ASSUME <<"yaml", f, k, v>> \in T PROVE <<"yaml", g, k, v>> \in Renamed(OfFile(T, f), g)
  <2> DEFINE t == <<"yaml", f, k, v>>
  <2>1. t \in OfFile(T, f)
    BY <1>1 DEF OfFile
  <2>2. <<"yaml", g, k, v>> = IF t[1] = "go" THEN t ELSE [t EXCEPT ![2] = g]
    OBVIOUS
  <2> HIDE DEF t
  <2> QED
    BY <2>1, <2>2 DEF Renamed
<1>2. ASSUME <<"yaml", g, k, v>> \in Renamed(OfFile(T, f), g) PROVE <<"yaml", f, k, v>> \in T
  <2>1. PICK t \in OfFile(T, f) : <<"yaml", g, k, v>> = IF t[1] = "go" THEN t ELSE [t EXCEPT ![2] = g]
    BY <1>2 DEF Renamed
  <2>2. t \in T /\ t = <<t[1], t[2], t[3], t[4]>>
    BY DEF OfFile, Orderly
  <2>3. t[1] # "go"
    BY <2>1
  <2>4. t[2] = f
    BY <2>3 DEF OfFile
  <2>5. [t EXCEPT ![2] = g] = <<t[1], g, t[3], t[4]>>
    BY <2>2
  <2>6. t[1] = "yaml" /\ t[3] = k /\ t[4] = v
    BY <2>1, <2>3, <2>5
  <2> QED
    BY <2>2, <2>4, <2>6
<1> QED
  BY <1>1, <1>2

\* The hops of a file that moves into a tree which knows no such name add to
\* those the tree has.
LEMMA HopsAdd ==
  ASSUME NEW T, Orderly(T), NEW f, NEW g, NEW S, Orderly(S), OfFile(S, g) = {}, NEW F, F = OfFile(T, f),
         NEW U, U = S \cup Renamed(F, g), Orderly(U)
  PROVE  /\ IsFiniteSet(Hops(U)) /\ IsFiniteSet(Hops(S)) /\ IsFiniteSet(Hops(F))
         /\ Cardinality(Hops(U)) \in Nat /\ Cardinality(Hops(S)) \in Nat /\ Cardinality(Hops(F)) \in Nat
         /\ Cardinality(Hops(U)) >= Cardinality(Hops(S)) + Cardinality(Hops(F))
<1> DEFINE G == Renamed(F, g)
           A == Hops(S)
           B == Hops(F)
           C == {<<t[1], g, t[3], t[4]>> : t \in B}
<1>1. F \subseteq T /\ IsFiniteSet(F)
  BY RenamedAreOrderly
<1>2. \A X : Hops(X) \subseteq X
  BY DEF Hops, yaml_docs
<1>3. IsFiniteSet(Hops(U)) /\ IsFiniteSet(A) /\ IsFiniteSet(B)
  BY <1>1, <1>2, FS_Subset DEF Orderly
<1>4. \A t \in B : t = <<"yaml", f, t[3], t[4]>> /\ t \in F /\ Hop(t) /\ <<"yaml", f, "file", "broken">> \notin F
  <2> SUFFICES ASSUME NEW t \in B
               PROVE  t = <<"yaml", f, t[3], t[4]>> /\ t \in F /\ Hop(t) /\ <<"yaml", f, "file", "broken">> \notin F
    OBVIOUS
  <2>1. t \in F /\ t[1] = "yaml" /\ Hop(t) /\ <<"yaml", t[2], "file", "broken">> \notin F
    BY DEF Hops, yaml_docs, broken
  <2>2. t[2] = f
    BY <2>1 DEF OfFile
  <2>3. t = <<t[1], t[2], t[3], t[4]>>
    BY <1>1, <2>1 DEF Orderly
  <2> QED
    BY <2>1, <2>2, <2>3
<1>5. \A k, v : <<"yaml", g, k, v>> \notin S
  <2> SUFFICES ASSUME NEW k, NEW v, <<"yaml", g, k, v>> \in S PROVE FALSE
    OBVIOUS
  <2>1. <<"yaml", g, k, v>> \in OfFile(S, g)
    BY DEF OfFile
  <2> QED
    BY <2>1
<1>6. \A k, v : <<"yaml", f, k, v>> \in T <=> <<"yaml", g, k, v>> \in G
  BY YamlFactsAreRenamed
<1>7. \A k, v : <<"yaml", f, k, v>> \in T <=> <<"yaml", f, k, v>> \in F
  BY DEF OfFile
<1>8. \A x, k, v : <<"yaml", x, k, v>> \in G => x = g
  <2> SUFFICES ASSUME NEW x, NEW k, NEW v, <<"yaml", x, k, v>> \in G PROVE x = g
    OBVIOUS
  <2>1. PICK t \in F : <<"yaml", x, k, v>> = IF t[1] = "go" THEN t ELSE [t EXCEPT ![2] = g]
    BY DEF Renamed
  <2>2. t = <<t[1], t[2], t[3], t[4]>>
    BY <1>1 DEF Orderly
  <2>3. t[1] # "go"
    BY <2>1
  <2>4. [t EXCEPT ![2] = g] = <<t[1], g, t[3], t[4]>>
    BY <2>2
  <2> QED
    BY <2>1, <2>3, <2>4
<1>9. A \subseteq Hops(U)
  <2> SUFFICES ASSUME NEW t \in A PROVE t \in Hops(U)
    OBVIOUS
  <2>1. t \in S /\ t[1] = "yaml" /\ Hop(t) /\ <<"yaml", t[2], "file", "broken">> \notin S
    BY DEF Hops, yaml_docs, broken
  <2>2. t = <<"yaml", t[2], t[3], t[4]>>
    BY <2>1 DEF Orderly
  <2>3. t[2] # g
    BY <1>5, <2>1, <2>2
  <2>4. <<"yaml", t[2], "file", "broken">> \notin U
    BY <1>8, <2>1, <2>3
  <2> QED
    BY <2>1, <2>4 DEF Hops, yaml_docs, broken
<1>10. C \subseteq Hops(U)
  <2> SUFFICES ASSUME NEW t \in B PROVE <<t[1], g, t[3], t[4]>> \in Hops(U)
    OBVIOUS
  <2> DEFINE u == <<"yaml", g, t[3], t[4]>>
  <2>1. t = <<"yaml", f, t[3], t[4]>> /\ t \in F /\ Hop(t) /\ <<"yaml", f, "file", "broken">> \notin F
    BY <1>4
  <2>2. u \in G
    BY <1>1, <1>6, <2>1
  <2>3. <<"yaml", g, "file", "broken">> \notin U
    BY <1>5, <1>6, <1>7, <2>1
  <2>4. u[1] = "yaml" /\ u[2] = g /\ Hop(u)
    BY <2>1 DEF Hop
  <2>5. u = <<t[1], g, t[3], t[4]>>
    BY <2>1
  <2> HIDE DEF u
  <2> QED
    BY <2>2, <2>3, <2>4, <2>5 DEF Hops, yaml_docs, broken
<1>11. A \cap C = {}
  <2> SUFFICES ASSUME NEW t \in B, <<t[1], g, t[3], t[4]>> \in A PROVE FALSE
    OBVIOUS
  <2>1. t[1] = "yaml"
    BY <1>4
  <2>2. <<t[1], g, t[3], t[4]>> \in S
    BY <1>2
  <2> QED
    BY <1>5, <2>1, <2>2
<1>12. IsFiniteSet(C) /\ Cardinality(C) = Cardinality(B)
  <2> DEFINE h == [t \in B |-> <<t[1], g, t[3], t[4]>>]
  <2>1. h \in [B -> C]
    OBVIOUS
  <2>2. \A t, u \in B : h[t] = h[u] => t = u
    <3> SUFFICES ASSUME NEW t \in B, NEW u \in B, h[t] = h[u] PROVE t = u
      OBVIOUS
    <3>1. t[3] = u[3] /\ t[4] = u[4]
      OBVIOUS
    <3> QED
      BY <1>4, <3>1
  <2>3. \A c \in C : \E t \in B : h[t] = c
    OBVIOUS
  <2>4. h \in Bijection(B, C)
    <3>1. DOMAIN h = B
      OBVIOUS
    <3> HIDE DEF h, B, C
    <3> QED
      BY <2>1, <2>2, <2>3, <3>1 DEF Bijection, Injection, Surjection, IsInjective
  <2>5. IsFiniteSet(C)
    BY <1>3, <1>10, FS_Subset
  <2> HIDE DEF h, B, C
  <2> QED
    BY <1>3, <2>4, <2>5, FS_Bijection DEF ExistsBijection
<1> HIDE DEF A, B, C
<1>13. Cardinality(A \cup C) = Cardinality(A) + Cardinality(C)
  <2>1. Cardinality(A \cup C) = Cardinality(A) + Cardinality(C) - Cardinality(A \cap C)
    BY <1>3, <1>12, FS_Union
  <2>2. Cardinality(A \cap C) = 0
    BY <1>11, FS_EmptySet
  <2>3. Cardinality(A) \in Nat /\ Cardinality(C) \in Nat
    BY <1>3, <1>12, FS_CardinalityType
  <2> QED
    BY <2>1, <2>2, <2>3
<1>14. Cardinality(A \cup C) <= Cardinality(Hops(U))
  BY <1>3, <1>9, <1>10, FS_Subset
<1>15. Cardinality(A) \in Nat /\ Cardinality(B) \in Nat /\ Cardinality(Hops(U)) \in Nat
  BY <1>3, FS_CardinalityType
<1>16. Cardinality(Hops(U)) >= Cardinality(A) + Cardinality(B)
  BY <1>12, <1>13, <1>14, <1>15
<1> QED
  BY <1>3, <1>15, <1>16 DEF A, B

\* The count of GW-0006 is that of the hops, where the control applies.
LEMMA HopCount ==
  ASSUME NEW T, NEW r, Cardinality(Hops(T)) \in Nat, IsFiniteSet(Hops(T)), NEW n, n = Judge(r, T)["GW-0006"]
  PROVE  /\ (IF n > 0 THEN n ELSE 0) <= Cardinality(Hops(T))
         /\ is_gateway(r, T) \/ owns_shared_baseline(T) => (IF n > 0 THEN n ELSE 0) = Cardinality(Hops(T))
<1>1. Hops(T) = {t \in yaml_docs(T) : t[3] \in {"validate_endpoint", "check_endpoint"} /\ t[4] = "http"}
  BY DEF Hops, Hop, yaml_docs
<1>2. grpc_decision_hops(T) = Decide(Hops(T), yaml_errors(T))
  BY <1>1 DEF grpc_decision_hops
<1>3. n = IF is_gateway(r, T) \/ owns_shared_baseline(T) THEN grpc_decision_hops(T) ELSE Unjudged
  <2>1. "GW-0006" \in GwControls /\ "GW-0006" \notin ApiControls
    BY DEF GwControls, ApiControls
  <2>2. applies(r, "GW-0006", T) <=> is_gateway(r, T) \/ owns_shared_baseline(T)
    BY DEF applies
  <2>3. GwFinding(r, "GW-0006", T) = grpc_decision_hops(T)
    BY DEF GwFinding
  <2> QED
    BY <2>1, <2>2, <2>3 DEF Judge
<1>4. Hops(T) = {} => Cardinality(Hops(T)) = 0
  BY FS_EmptySet
<1> QED
  BY <1>2, <1>3, <1>4 DEF Decide, Indeterminate, Unjudged

\* Which step moves a file, and under which name.
LEMMA MovesIsMove ==
  ASSUME TreesInv, [Next]_vars, NEW r \in Repos, NEW m \in Relocations(r), Moves(r, m)
  PROVE  /\ r # m[1] /\ m[1] \in Repos
         /\ \E n \in Relocations(r) : /\ OfFile(tree[r], n[2]) = Moved(r, m) /\ OfFile(tree[m[1]], n[3]) = {}
                                      /\ tree'[m[1]] = tree[m[1]] \cup Renamed(Moved(r, m), n[3])
<1>1. /\ tree'[r] # tree[r] /\ tree'[m[1]] # tree[m[1]]
      /\ tree'[r] = tree[r] \ Moved(r, m) /\ tree'[m[1]] = tree[m[1]] \cup Renamed(Moved(r, m), m[3])
  BY DEF Moves
<1>2. r # m[1] /\ m[1] \in Repos
  BY <1>1, TreesAssumption
<1>3. \A q \in Repos : ~EditTree(q)
  BY <1>1, <1>2 DEF EditTree, TreesInv
<1>4. PICK q \in Repos : Move(q)
  BY <1>1, <1>3 DEF Next, vars, CatalogMoves, EditBaseline, BreakBaseline, OthersWriteBaseline, BreakGateway,
                    ApiWriteBaseline, GwWriteBaseline
<1>5. PICK n \in Relocations(q) :
        LET facts == OfFile(tree[q], n[2])
        IN /\ facts # {} /\ OfFile(tree[n[1]], n[3]) = {}
           /\ tree' = [tree EXCEPT ![q] = @ \ facts, ![n[1]] = @ \cup Renamed(facts, n[3])]
  BY <1>4 DEF Move
<1> DEFINE F == OfFile(tree[q], n[2])
           G == Renamed(F, n[3])
<1>6. tree' = [tree EXCEPT ![q] = @ \ F, ![n[1]] = @ \cup G] /\ OfFile(tree[n[1]], n[3]) = {}
  BY <1>5
<1>7. n[1] \in Repos /\ F \subseteq tree[q] /\ Moved(r, m) \subseteq tree[r]
  BY TreesAssumption DEF OfFile, Moved
<1> HIDE DEF F, G
<1>8. \A p \in Repos \ {q, n[1]} : tree'[p] = tree[p]
  BY <1>6 DEF TreesInv
<1>9. q # n[1]
  <2> SUFFICES ASSUME q = n[1] PROVE FALSE
    OBVIOUS
  <2> QED
    BY <1>1, <1>2, <1>8
<1>10. tree'[q] = tree[q] \ F /\ tree'[n[1]] = tree[n[1]] \cup G
  BY <1>6, <1>7, <1>9 DEF TreesInv
<1>11. q = r /\ n[1] = m[1]
  <2>1. {r, m[1]} = {q, n[1]}
    BY <1>1, <1>2, <1>8
  <2>2. CASE q = r
    BY <1>2, <2>1, <2>2
  <2>3. CASE q = m[1]
    <3>1. n[1] = r
      BY <1>2, <2>1, <2>3
    <3>2. tree'[r] = tree[r] \cup G
      BY <1>10, <3>1
    <3> QED
      BY <1>1, <3>2
  <2> QED
    BY <2>1, <2>2, <2>3
<1>12. F = Moved(r, m)
  BY <1>1, <1>7, <1>10, <1>11
<1> QED
  BY <1>2, <1>6, <1>10, <1>11, <1>12 DEF F, G

\* A server assembled in the file that moved is seen where it arrived.
LEMMA ServersAreSeen ==
  ASSUME TreesInv, NEW q \in Repos, Marked(tree[q], RAW_GRPC_SERVER, Visible), ~Vouched(q)
  PROVE  Count(q, "GW-0007") = 1
<1> DEFINE T == tree[q]
<1>1. \A e \in GrpcEvidence : ~Marked(T, e, Visible)
  BY DEF Vouched
<1>2. has_grpc(T)
  BY DEF has_grpc, assembles_grpc_server
<1>3. grpc_interceptor_security(T) = 1
  BY <1>1 DEF grpc_interceptor_security, GrpcEvidence
<1>4. "GW-0007" \in GwControls /\ "GW-0007" \notin ApiControls
  BY DEF GwControls, ApiControls
<1>5. GwFinding(q, "GW-0007", T) = 1 /\ applies(q, "GW-0007", T)
  BY <1>2, <1>3 DEF GwFinding, applies
<1>6. found[q]["GW-0007"] = 1
  BY <1>4, <1>5 DEF Judge, TreesInv
<1> QED
  BY <1>6 DEF Count

\* A file that moves takes its violations along: the decision hops it declares
\* add to those of the gateway or baseline it moved to, and the server it
\* assembles is one violation there.
THEOREM MovesAreSeen == Spec => MovingHidesNothing
<1>1. TreesInv /\ TreesInv' /\ [Next]_vars
        => \A r \in Repos : \A m \in Relocations(r) : Moves(r, m) =>
             /\ InPerimeter(m[1])' => Count(m[1], "GW-0006")' >= Count(m[1], "GW-0006") + Cardinality(HopsIn(Moved(r, m)))
             /\ Marked(Moved(r, m), RAW_GRPC_SERVER, Visible) /\ ~Vouched(m[1])' => Count(m[1], "GW-0007")' = 1
  <2> SUFFICES ASSUME TreesInv, TreesInv', [Next]_vars, NEW r \in Repos, NEW m \in Relocations(r), Moves(r, m)
               PROVE  /\ InPerimeter(m[1])' => Count(m[1], "GW-0006")' >= Count(m[1], "GW-0006") + Cardinality(HopsIn(Moved(r, m)))
                      /\ Marked(Moved(r, m), RAW_GRPC_SERVER, Visible) /\ ~Vouched(m[1])' => Count(m[1], "GW-0007")' = 1
    OBVIOUS
  <2>1. PICK q \in Repos : q = m[1]
    BY MovesIsMove
  <2>2. PICK n \in Relocations(r) : /\ OfFile(tree[r], n[2]) = Moved(r, m) /\ OfFile(tree[q], n[3]) = {}
                                    /\ tree'[q] = tree[q] \cup Renamed(Moved(r, m), n[3])
    BY <2>1, MovesIsMove
  <2>3. PICK T, S, U, F : T = tree[r] /\ S = tree[q] /\ U = tree'[q] /\ F = Moved(r, m)
    OBVIOUS
  <2>4. Orderly(T) /\ Orderly(S) /\ Orderly(U) /\ F = OfFile(T, n[2]) /\ OfFile(S, n[3]) = {} /\ U = S \cup Renamed(F, n[3])
    BY <2>1, <2>2, <2>3 DEF TreesInv
  <2>5. /\ IsFiniteSet(Hops(U)) /\ IsFiniteSet(Hops(S))
        /\ Cardinality(Hops(U)) \in Nat /\ Cardinality(Hops(S)) \in Nat /\ Cardinality(Hops(F)) \in Nat
        /\ Cardinality(Hops(U)) >= Cardinality(Hops(S)) + Cardinality(Hops(F))
    BY <2>4, HopsAdd
  <2>6. HopsIn(F) = Hops(F)
    BY DEF HopsIn, Hops, Hop, yaml_docs
  <2>7. Count(q, "GW-0006") <= Cardinality(Hops(S)) /\ Count(q, "GW-0006") \in Nat
    <3>1. found[q]["GW-0006"] = Judge(q, S)["GW-0006"]
      BY <2>3 DEF TreesInv
    <3>2. Count(q, "GW-0006") <= Cardinality(Hops(S))
      BY <2>5, <3>1, HopCount DEF Count
    <3>3. found[q]["GW-0006"] \in Int
      BY FindingsAreNumbers DEF GwControls
    <3> QED
      BY <3>2, <3>3 DEF Count
  <2>8. InPerimeter(q)' => Count(q, "GW-0006")' = Cardinality(Hops(U))
    <3>1. found'[q]["GW-0006"] = Judge(q, U)["GW-0006"]
      BY <2>3 DEF TreesInv
    <3> QED
      BY <2>3, <2>5, <3>1, HopCount DEF Count, InPerimeter
  <2>9. Marked(F, RAW_GRPC_SERVER, Visible) => Marked(U, RAW_GRPC_SERVER, Visible)
    <3>1. \A s, k, v : <<"go", s, k, v>> \in F => <<"go", s, k, v>> \in U
      <4> SUFFICES ASSUME NEW s, NEW k, NEW v, <<"go", s, k, v>> \in F PROVE <<"go", s, k, v>> \in Renamed(F, n[3])
        BY <2>4
      <4> QED
        BY DEF Renamed
    <3> QED
      BY <3>1 DEF Marked, Runtime, Holds
  <2>10. Marked(F, RAW_GRPC_SERVER, Visible) /\ ~Vouched(q)' => Count(q, "GW-0007")' = 1
    <3>1. (TreesInv /\ Marked(tree[q], RAW_GRPC_SERVER, Visible) /\ ~Vouched(q) => Count(q, "GW-0007") = 1)'
      BY ServersAreSeen, PTL
    <3> QED
      BY <2>3, <2>9, <3>1
  <2>11. InPerimeter(q)' => Count(q, "GW-0006")' >= Count(q, "GW-0006") + Cardinality(Hops(F))
    BY <2>5, <2>7, <2>8
  <2> QED
    BY <2>1, <2>3, <2>6, <2>10, <2>11
<1> QED
  BY <1>1, TreesAreJudged, PTL DEF Spec, MovingHidesNothing
=============================================================================
