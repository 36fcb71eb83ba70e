--------------------------- MODULE VerdictProofs ---------------------------
(***************************************************************************)
(* What the verdicts of three scripts mean.                                *)
(*                                                                         *)
(* DocsGovernance, ServicePorts: a green guard over the trees of several   *)
(* repositories implies its promises, for every library, fleet, calendar   *)
(* and sequence of edits.                                                  *)
(* DiffRange: a change that skips jobs brings nothing those jobs read, for *)
(* every history of commits, merges and force pushes.                      *)
(***************************************************************************)
EXTENDS DocsGovernance, ServicePorts, DiffRange, WellFoundedInduction, NaturalsInduction, TLAPS

-----------------------------------------------------------------------------
(* DocsGovernance: supersession *)

\* A green namespace passes every control of severity major or above.
LEMMA GreenPasses ==
  ASSUME NEW n \in Spaces, Green(n)
  PROVE  /\ supersession_integrity(n) /\ duplicate_document_ids(n) /\ document_id_frontmatter(n)
         /\ document_reference_resolution(n) /\ platform_concern_core_authority(n)
<1>1. \A c \in {"DOC_0006", "DOC_0014", "DOC_0015", "DOC_0017", "DOC_0024"} : c \in Controls /\ is_enforced(c)
  BY DEF Controls, is_enforced, Severity, Threshold
<1>2. \A c \in {"DOC_0006", "DOC_0014", "DOC_0015", "DOC_0017", "DOC_0024"} : evaluate(c, n)
  BY <1>1 DEF Green
<1>3. supersession_integrity(n)
  <2>1. evaluate("DOC_0006", n)
    BY <1>2
  <2> QED
    BY <2>1 DEF evaluate
<1>4. duplicate_document_ids(n)
  <2>1. evaluate("DOC_0014", n)
    BY <1>2
  <2> QED
    BY <2>1 DEF evaluate
<1>5. document_reference_resolution(n)
  <2>1. evaluate("DOC_0015", n)
    BY <1>2
  <2> QED
    BY <2>1 DEF evaluate
<1>6. document_id_frontmatter(n)
  <2>1. evaluate("DOC_0017", n)
    BY <1>2
  <2> QED
    BY <2>1 DEF evaluate
<1>7. platform_concern_core_authority(n)
  <2>1. evaluate("DOC_0024", n)
    BY <1>2
  <2> QED
    BY <2>1 DEF evaluate
<1> QED
  BY <1>3, <1>4, <1>5, <1>6, <1>7

\* The index has under an id a decision of that id: of some files one is read last.
LEMMA IndexKeepsTheId ==
  ASSUME NEW n, NEW i, NEW g \in Of(n, i)
  PROVE  g \in Decisions(n) /\ docs[g].name = i
<1> DEFINE F == {f \in Decisions(n) : docs[f].name = i}
<1>1. F # {} /\ g = LastRead(F)
  BY DEF Of
<1>2. \A f \in F : Read[docs[f].dir] \in {1, 2, 3}
  <2> SUFFICES ASSUME NEW f \in F PROVE Read[docs[f].dir] \in {1, 2, 3}
    OBVIOUS
  <2>1. docs[f].dir \in {"adrs", "templates", "rfcs"}
    BY DEF Decisions, Read
  <2> QED
    BY <2>1 DEF Read
<1> DEFINE at(f) == Read[docs[f].dir]
<1>3. \E f \in F : \A h \in F : at(h) <= at(f)
  <2> HIDE DEF F
  <2>1. PICK x \in F : TRUE
    BY <1>1
  <2>2. \A f \in F : at(f) \in {1, 2, 3}
    BY <1>2
  <2> HIDE DEF at
  <2>3. CASE \E f \in F : at(f) = 3
    BY <2>2, <2>3
  <2>4. CASE (\A f \in F : at(f) # 3) /\ \E f \in F : at(f) = 2
    BY <2>2, <2>4
  <2>5. CASE \A f \in F : at(f) \notin {2, 3}
    BY <2>1, <2>2, <2>5
  <2> QED
    BY <2>3, <2>4, <2>5
<1> HIDE DEF F
<1>4. LastRead(F) \in F
  BY <1>3 DEF LastRead
<1> QED
  BY <1>1, <1>4 DEF F

\* In a green namespace a decision no template hides is the one the index keeps.
LEMMA IndexedIsKept ==
  ASSUME NEW n \in Spaces, Green(n), NEW f \in Indexed(n)
  PROVE  Of(n, docs[f].name) = {f} /\ f \in Records(n)
<1> DEFINE F == {g \in Decisions(n) : docs[g].name = docs[f].name}
<1>1. f \in Numbered(n) /\ f \in Decisions(n)
  BY DEF Indexed, Numbered, numbered_doc_candidates, NumberedFolders, Decisions, Read
<1>2. ASSUME NEW g \in F PROVE g = f
  <2>1. g \in Decisions(n) /\ docs[g].name = docs[f].name /\ docs[g].dir \in {"adrs", "templates", "rfcs"}
    BY DEF Decisions, Read
  <2>2. ~template(g)
    BY <2>1 DEF Indexed
  <2>3. docs[g].dir \in NumberedFolders
    BY <2>1, <2>2 DEF template, NumberedFolders
  <2>4. g \in Numbered(n)
    BY <2>1, <2>3 DEF Numbered, numbered_doc_candidates, Decisions, Parsed
  <2> QED
    BY <1>1, <2>1, <2>4, GreenPasses DEF duplicate_document_ids
<1>3. F = {f}
  BY <1>1, <1>2
<1>4. Of(n, docs[f].name) # {}
  BY <1>3 DEF Of
<1>5. \A g \in Of(n, docs[f].name) : g = f
  BY <1>2, IndexKeepsTheId
<1>6. Of(n, docs[f].name) = {f}
  BY <1>4, <1>5
<1> QED
  BY <1>1, <1>6 DEF Records

\* In a green namespace nothing another decision replaced is in force: the link
\* back that DOC-0006 asks for is in the one file DOC-0014 leaves of the id.
THEOREM GreenRetiresTheReplaced == Spec => []ReplacedIsNotInForce
<1>1. ReplacedIsNotInForce
  <2> SUFFICES ASSUME NEW n \in Spaces, Green(n), NEW f \in Indexed(n), NEW g \in Indexed(n),
                      docs[f].name \in docs[g].supersedes
               PROVE  docs[f].status = "superseded"
    BY DEF ReplacedIsNotInForce
  <2>1. f \in Records(n) /\ g \in Records(n) /\ Of(n, docs[f].name) = {f}
    BY IndexedIsKept
  <2>2. \E h \in Of(n, docs[f].name) : docs[g].name \in docs[h].superseded_by
    BY <2>1, GreenPasses DEF supersession_integrity
  <2>3. docs[g].name \in docs[f].superseded_by
    BY <2>1, <2>2
  <2> QED
    BY <2>1, <2>3, GreenPasses DEF supersession_integrity
<1> QED
  BY <1>1, PTL

-----------------------------------------------------------------------------
(* DocsGovernance: citations *)

\* Every citation is qualified by an alias of the registry or by nothing: what
\* the parser of citations recognises.
AliasesKnown ==
  /\ DOMAIN docs = Files
  /\ \A f \in Files : "cites" \in DOMAIN docs[f] /\ \A c \in docs[f].cites : c.to \in {"-"} \cup DOMAIN Spelled

\* No edit writes a citation the parser would not recognise.
LEMMA AliasesStayKnown == Spec => []AliasesKnown
<1>1. Init => AliasesKnown
  BY DocsAssumption DEF Init, AliasesKnown
<1>2. AliasesKnown /\ [Next]_vars => AliasesKnown'
  <2> SUFFICES ASSUME AliasesKnown, [Next]_vars
               PROVE  AliasesKnown'
    OBVIOUS
  <2>1. ASSUME NEW f \in Files, Edit(f)
        PROVE  AliasesKnown'
    <3>1. PICK field \in DOMAIN docs[f] : \E v \in Options(field) : docs' = [docs EXCEPT ![f] = [@ EXCEPT ![field] = v]]
      BY <2>1 DEF Edit
    <3>2. PICK v \in Options(field) : docs' = [docs EXCEPT ![f] = [@ EXCEPT ![field] = v]]
      BY <3>1
    <3>3. docs' = [docs EXCEPT ![f] = [docs[f] EXCEPT ![field] = v]]
      BY <3>2
    <3>4. DOMAIN docs' = Files /\ \A g \in Files \ {f} : docs'[g] = docs[g]
      BY <3>3 DEF AliasesKnown
    <3>5. docs'[f] = [docs[f] EXCEPT ![field] = v]
      BY <3>3 DEF AliasesKnown
    <3>6. "cites" \in DOMAIN docs'[f] /\ docs'[f]["cites"] = IF field = "cites" THEN v ELSE docs[f]["cites"]
      BY <3>5 DEF AliasesKnown
    <3>7. \A c \in docs'[f]["cites"] : c.to \in {"-"} \cup DOMAIN Spelled
      BY <3>6, DocsAssumption DEF AliasesKnown
    <3> QED
      BY <3>4, <3>6, <3>7 DEF AliasesKnown
  <2>2. CASE UNCHANGED docs
    BY <2>2 DEF AliasesKnown
  <2> QED
    BY <2>1, <2>2 DEF Next, Tick, Register, vars
<1> QED
  BY <1>1, <1>2, PTL DEF Spec

\* A number that a green namespace publishes leads every reader, by the name of
\* the file or by the id the catalog keys it on, to one document.
LEMMA OneDocument ==
  ASSUME NEW n \in Spaces, Green(n), NEW i, NEW f \in Published(n, i), NEW g \in Published(n, i)
  PROVE  f = g
<1>1. f \in Numbered(n) /\ g \in Numbered(n) /\ docs[f].name = i /\ docs[g].name = i
  BY GreenPasses DEF Published, document_id_frontmatter
<1> QED
  BY <1>1, GreenPasses DEF duplicate_document_ids

\* What a green namespace cites, is bound by or replaces exists where the citation
\* says, as far as that is checked out, and once where that is green too.
THEOREM GreenResolvesCitations == Spec => []CitationReachesOneDocument
<1>1. AliasesKnown => CitationReachesOneDocument
  <2> SUFFICES ASSUME AliasesKnown, NEW n \in Spaces, Green(n), NEW r \in Reached(n)
               PROVE  /\ r[1] \in Spaces
                      /\ r[1] = n \/ r[1] \in peers =>
                           r[2] \in ids_in_tree(r[1]) \cup (IF r[1] = n THEN reserved[r[1]] ELSE {})
    BY OneDocument DEF CitationReachesOneDocument
  <2>1. Core \in peers => peer_ids(Hub, Core) = {ids_in_tree(Core)}
    BY DEF peer_ids
  <2>2. ASSUME NEW f \in governed(n), NEW c \in Followed(n, f), r = <<Space(n, f, c), c.id>>
        PROVE  /\ r[1] \in Spaces
               /\ r[1] = n \/ r[1] \in peers =>
                    r[2] \in ids_in_tree(r[1]) \cup (IF r[1] = n THEN reserved[r[1]] ELSE {})
    <3>1. f \in Files /\ SpaceOf[f] = n /\ c \in citations(f) /\ c.to \in {"-"} \cup DOMAIN Spelled
      BY DEF governed, In, Followed, citations, AliasesKnown
    <3>2. CASE ~Leaves(f, c)
      <4>1. ~EXTERNAL_STANDARD(c.id)
        BY <2>2, <3>2 DEF Followed
      <4>2. c.id \in ids_in_tree(n) \cup reserved[n]
        BY <3>1, <3>2, <4>1, GreenPasses DEF document_reference_resolution
      <4> QED
        BY <2>2, <3>2, <4>2 DEF Space
    <3>3. CASE Leaves(f, c)
      <4>1. n = Hub
        BY <2>2, <3>3 DEF Followed
      <4>2. Spelled[c.to] = Core
        BY <3>1, <3>3, <4>1 DEF Leaves, Spelled, Hub, Core
      <4>3. r = <<Core, c.id>> /\ Core \in Spaces /\ Core # n
        BY <2>2, <3>3, <4>1, <4>2 DEF Space, Spaces, Hub, Core
      <4>4. Core \in peers => c.id \in ids_in_tree(Core)
        BY <2>1, <3>1, <3>3, <4>1, <4>2, GreenPasses DEF document_reference_resolution
      <4> QED
        BY <4>3, <4>4
    <3> QED
      BY <3>2, <3>3
  <2>3. ASSUME NEW f \in Bound(n), NEW i \in docs[f].authority, r = <<Core, i>>
        PROVE  /\ r[1] \in Spaces
               /\ r[1] = n \/ r[1] \in peers => r[2] \in ids_in_tree(r[1])
    <3>1. n = Hub /\ Core # n
      BY <2>3 DEF Bound, PlatformConcerns, Spaces, Hub, Core
    <3>2. Core \in peers => docs[f].authority \subseteq ids_in_tree(Core)
      BY <2>1, <2>3, <3>1, GreenPasses DEF platform_concern_core_authority
    <3> QED
      BY <2>3, <3>1, <3>2 DEF Spaces
  <2>4. ASSUME NEW f \in Records(n), NEW i \in docs[f].supersedes \cup docs[f].superseded_by, r = <<n, i>>
        PROVE  r[1] \in Spaces /\ r[2] \in ids_in_tree(r[1])
    <3>1. PICK g \in Of(n, i) : TRUE
      BY <2>4, GreenPasses DEF supersession_integrity
    <3>2. g \in Decisions(n) /\ docs[g].name = i
      BY <3>1, IndexKeepsTheId
    <3> QED
      BY <2>4, <3>2 DEF Decisions, Parsed, governed, ids_in_tree
  <2> QED
    BY <2>2, <2>3, <2>4 DEF Reached
<1> QED
  BY <1>1, AliasesStayKnown, PTL

-----------------------------------------------------------------------------
(* DocsGovernance: time *)

\* What the rules read of a namespace, apart from the date, a day leaves alone.
LEMMA ADayChangesNoDocument ==
  ASSUME Tick, NEW n \in Spaces
  PROVE  /\ docs' = docs /\ reserved' = reserved /\ peers' = peers
         /\ In(n)' = In(n) /\ governed(n)' = governed(n) /\ Parsed(n)' = Parsed(n)
         /\ ids_in_tree(n)' = ids_in_tree(n) /\ \A m : peer_ids(n, m)' = peer_ids(n, m)
         /\ numbered_doc_candidates(n)' = numbered_doc_candidates(n) /\ Numbered(n)' = Numbered(n)
         /\ Records(n)' = Records(n) /\ (\A i : Of(n, i)' = Of(n, i)) /\ Bound(n)' = Bound(n)
<1>1. docs' = docs /\ reserved' = reserved /\ peers' = peers
  BY DEF Tick
<1>2. In(n)' = In(n)
  BY <1>1 DEF In
<1>3. governed(n)' = governed(n)
  BY <1>1, <1>2 DEF governed
<1>4. Parsed(n)' = Parsed(n)
  BY <1>1, <1>3 DEF Parsed
<1>5. \A m : ids_in_tree(m)' = ids_in_tree(m)
  BY <1>1 DEF ids_in_tree, In
<1>6. \A m : peer_ids(n, m)' = peer_ids(n, m)
  BY <1>1, <1>5 DEF peer_ids
<1>7. numbered_doc_candidates(n)' = numbered_doc_candidates(n)
  BY <1>1, <1>3 DEF numbered_doc_candidates
<1>8. Numbered(n)' = Numbered(n)
  BY <1>1, <1>7 DEF Numbered
<1>9. Decisions(n)' = Decisions(n)
  BY <1>1, <1>4 DEF Decisions
<1>10. \A i : Of(n, i)' = Of(n, i)
  BY <1>1, <1>9 DEF Of, LastRead
<1>11. Records(n)' = Records(n)
  BY <1>1, <1>9, <1>10 DEF Records
<1>12. Bound(n)' = Bound(n)
  BY <1>1, <1>4 DEF Bound, template
<1> QED
  BY <1>1, <1>2, <1>3, <1>4, <1>5, <1>6, <1>7, <1>8, <1>10, <1>11, <1>12

\* The rules with no date in them judge the documents of a namespace alike today
\* and tomorrow.
LEMMA ADayChangesNoVerdict ==
  ASSUME Tick, NEW n \in Spaces, NEW c \in Controls \ {"DOC_0007"}
  PROVE  evaluate(c, n)' = evaluate(c, n)
<1> USE ADayChangesNoDocument
<1>1. frontmatter_structure(n)' = frontmatter_structure(n)
  BY DEF frontmatter_structure, template
<1>2. owner_registered(n)' = owner_registered(n)
  BY DEF owner_registered, template
<1>3. controlled_vocabulary(n)' = controlled_vocabulary(n)
  BY DEF controlled_vocabulary
<1>4. related_key_hygiene(n)' = related_key_hygiene(n)
  BY DEF related_key_hygiene
<1>5. related_docs_links(n)' = related_docs_links(n)
  BY DEF related_docs_links
<1>6. supersession_integrity(n)' = supersession_integrity(n)
  BY DEF supersession_integrity
<1>7. client_scope_isolation(n)' = client_scope_isolation(n)
  BY DEF client_scope_isolation
<1>8. owner_registry_usage(n)' = owner_registry_usage(n)
  BY DEF owner_registry_usage, template
<1>9. doc_root_naming(n)' = doc_root_naming(n)
  BY DEF doc_root_naming
<1>10. source_path_citations(n)' = source_path_citations(n)
  BY DEF source_path_citations
<1>11. document_id_convention(n)' = document_id_convention(n)
  BY DEF document_id_convention
<1>12. duplicate_document_ids(n)' = duplicate_document_ids(n)
  BY DEF duplicate_document_ids
<1>13. document_reference_resolution(n)' = document_reference_resolution(n)
  BY DEF document_reference_resolution, citations, Leaves
<1>14. cross_namespace_citation_form(n)' = cross_namespace_citation_form(n)
  BY DEF cross_namespace_citation_form, citations, Leaves
<1>15. document_id_frontmatter(n)' = document_id_frontmatter(n)
  BY DEF document_id_frontmatter
<1>16. sequential_id_allocation(n)' = sequential_id_allocation(n)
  BY DEF sequential_id_allocation
<1>17. internal_link_resolution(n)' = internal_link_resolution(n)
  BY DEF internal_link_resolution
<1>18. decision_domain_vocabulary(n)' = decision_domain_vocabulary(n)
  BY DEF decision_domain_vocabulary, template
<1>19. platform_concern_core_authority(n)' = platform_concern_core_authority(n)
  BY DEF platform_concern_core_authority
<1>20. logging_rule_restatement(n)' = logging_rule_restatement(n)
  BY DEF logging_rule_restatement, template
<1> QED
  BY <1>1, <1>2, <1>3, <1>4, <1>5, <1>6, <1>7, <1>8, <1>9, <1>10, <1>11, <1>12, <1>13, <1>14, <1>15, <1>16, <1>17,
     <1>18, <1>19, <1>20 DEF evaluate, Controls

\* No lane goes red because a day has passed: the one rule that reads the date is
\* advice.
THEOREM TimeFailsNoLane == Spec => TimeAloneNeverFails
<1>1. Next => (day' # day => \A n \in Spaces : Green(n) => Green(n)')
  <2> SUFFICES ASSUME Next, day' # day, NEW n \in Spaces, Green(n)
               PROVE  Green(n)'
    OBVIOUS
  <2>1. Tick
    BY DEF Next, Edit, Register
  <2>2. ASSUME NEW c \in Controls, is_enforced(c)
        PROVE  evaluate(c, n)'
    <3>1. c # "DOC_0007"
      BY <2>2 DEF is_enforced, Severity, Threshold
    <3>2. evaluate(c, n)
      BY <2>2 DEF Green
    <3>3. evaluate(c, n)' = evaluate(c, n)
      BY <2>1, <3>1, ADayChangesNoVerdict
    <3> QED
      BY <3>2, <3>3
  <2> QED
    BY <2>2 DEF Green
<1> QED
  BY <1>1, PTL DEF Spec, TimeAloneNeverFails, vars

-----------------------------------------------------------------------------
(* ServicePorts: what the detectors leave of a registered service *)

\* The name of a variable decides its concern.
LEMMA ConcernOfVar == \A v \in Vars : PORT_ENV_CONCERN[v] \in Concerns
BY DEF Vars, PORT_ENV_CONCERN, Concerns, Concern

\* SP-0006 (k8s_ports_are_constants) leaves a published, registered service at
\* the constant of the concern in all three places the manifests write it.
LEMMA AtTheConstant ==
  ASSUME PortsGreen, NEW s \in registry \cap Loaded, published(s) # {}
  PROVE  /\ \A n \in published(s) : n \in Concerns /\ At("port", s, n) = Concern[n]
         /\ \A k \in Concerns : Has("target", s, k) => At("target", s, k) = Concern[k]
         /\ \A v \in env_ports(s) : At("env", s, v) = Concern[PORT_ENV_CONCERN[v]]
<1>1. k8s_ports_are_constants = {}
  BY DEF PortsGreen
<1>2. ~off_constant(s)
  BY <1>1 DEF k8s_ports_are_constants
<1> QED
  BY <1>2 DEF off_constant

\* The constants tell the concerns apart.
LEMMA ConcernIsInjective ==
  \A j, k \in Concerns : Concern[j] = Concern[k] => j = k
BY DEF Concerns, Concern

\* What arrives at the constant of a published concern leaves at it.
LEMMA RoutedToTheConstant ==
  ASSUME PortsGreen, NEW s \in registry \cap Loaded, NEW k \in published(s)
  PROVE  k \in Concerns /\ Routed(s, Concern[k]) = {Concern[k]}
<1>1. /\ \A n \in published(s) : n \in Concerns /\ At("port", s, n) = Concern[n]
      /\ \A j \in Concerns : Has("target", s, j) => At("target", s, j) = Concern[j]
  BY AtTheConstant
<1>2. {n \in published(s) : At("port", s, n) = Concern[k]} = {k}
  BY <1>1, ConcernIsInjective
<1>3. (IF Has("target", s, k) THEN At("target", s, k) ELSE Concern[k]) = Concern[k]
  BY <1>1
<1>4. Routed(s, Concern[k])
        = {IF Has("target", s, n) THEN At("target", s, n) ELSE Concern[k] : n \in {k}}
  BY <1>2 DEF Routed
<1> QED
  BY <1>1, <1>3, <1>4

\* The process of a service listens at the constant, where it says so at all.
LEMMA ListensAtTheConstant ==
  ASSUME PortsGreen, NEW s \in registry \cap Loaded, NEW k \in published(s), Listens(s, k) # {}
  PROVE  Listens(s, k) = {Concern[k]}
<1>1. \A v \in env_ports(s) : At("env", s, v) = Concern[PORT_ENV_CONCERN[v]]
  BY AtTheConstant
<1>2. \A p \in Listens(s, k) : p = Concern[k]
  BY <1>1 DEF Listens
<1> QED
  BY <1>2

-----------------------------------------------------------------------------
(* ServicePorts: the promises *)

\* A green guard leaves no caller at a wrong listener: SP-0011 puts the registry
\* of constants under every caller that resolves, and SP-0006 puts the Service
\* and the process where that registry answers.
THEOREM GreenReachesTheListener == PortsSpec => []CallersReachTheListener
<1>1. CallersReachTheListener
  <2> SUFFICES ASSUME PortsGreen, NEW s \in registry \cap Loaded
               PROVE  /\ \A r \in repo_dirs, k \in {"http", "grpc"} :
                           At("resolves", r, "-") = 1 /\ k \in published(s) /\ Listens(s, k) # {}
                             => Routed(s, Dialled(r, s, k)) = Listens(s, k)
                      /\ "metrics" \in published(s) /\ Listens(s, "metrics") # {} /\ Has("scrape", s, "-")
                           => Routed(s, IF At("scrape", s, "-") = 0 THEN At("port", s, "metrics")
                                                                   ELSE At("scrape", s, "-"))
                                = Listens(s, "metrics")
    BY DEF CallersReachTheListener
  <2>1. ASSUME NEW r \in repo_dirs, NEW k \in {"http", "grpc"},
               At("resolves", r, "-") = 1, k \in published(s), Listens(s, k) # {}
        PROVE  Routed(s, Dialled(r, s, k)) = Listens(s, k)
    <3>1. ~(At("pin", r, "-") < CONSTANTS_REGISTRY_MIN)
      BY <2>1 DEF PortsGreen, resolvers_pin_a_constants_registry
    <3>2. Dialled(r, s, k) = Concern[k]
      BY <3>1 DEF Dialled
    <3> QED
      BY <2>1, <3>2, RoutedToTheConstant, ListensAtTheConstant
  <2>2. ASSUME "metrics" \in published(s), Listens(s, "metrics") # {}, Has("scrape", s, "-")
        PROVE  Routed(s, IF At("scrape", s, "-") = 0 THEN At("port", s, "metrics") ELSE At("scrape", s, "-"))
                 = Listens(s, "metrics")
    <3>1. At("scrape", s, "-") = 0
      BY <2>2 DEF PortsGreen, metrics_are_scraped_by_port_name, Has
    <3>2. At("port", s, "metrics") = Concern["metrics"]
      BY <2>2, AtTheConstant
    <3> QED
      BY <2>2, <3>1, <3>2, RoutedToTheConstant, ListensAtTheConstant
  <2> QED
    BY <2>1, <2>2
<1> QED
  BY <1>1, PTL

-----------------------------------------------------------------------------
\* A green SP-0013 leaves an allocation that answers for every concern of every
\* service it lists, apart from the infrastructure and from every other service.
LEMMA AllocationIsWhole ==
  ASSUME PortsGreen
  PROVE  /\ alloc # {}
         /\ \A s \in alloc, k \in Concerns :
              /\ Has("alloc", s, k) /\ At("alloc", s, k) \notin RESERVED_PORTS
              /\ At("alloc", s, k) # 0 => \A t \in alloc \ {s} : At("alloc", t, k) # At("alloc", s, k)
         /\ \A s \in local_registry, k \in {"http", "grpc"} : At("local", s, k) = At("alloc", s, k)
<1>1. local_allocation_source_is_valid = {}
  BY DEF PortsGreen
<1>2. alloc # {}
  BY <1>1 DEF local_allocation_source_is_valid
<1>3. \A s \in alloc, k \in Concerns : ~Invalid(s, k)
  BY <1>1, <1>2 DEF local_allocation_source_is_valid
<1>4. \A s \in local_registry, k \in {"http", "grpc"} : At("local", s, k) = At("alloc", s, k)
  BY <1>1, <1>2 DEF local_allocation_source_is_valid
<1> QED
  BY <1>2, <1>3, <1>4 DEF Has, Invalid

\* An env.example says what its service is allocated, or nothing (SP-0014).
LEMMA ExampleIsAllocated ==
  ASSUME PortsGreen, NEW r \in repo_dirs, NEW v \in ENV_EXAMPLE_VARS, Has("example", r, v)
  PROVE  /\ ServiceOf[r] \in alloc
         /\ PORT_ENV_CONCERN[v] \in Concerns
         /\ At("example", r, v) = At("alloc", ServiceOf[r], PORT_ENV_CONCERN[v])
<1>1. PORT_ENV_CONCERN[v] \in Concerns
  BY ConcernOfVar DEF ENV_EXAMPLE_VARS
<1>2. env_example_matches_local_allocation = {} /\ alloc # {}
  BY AllocationIsWhole DEF PortsGreen
<1>3. ServiceOf[r] \in alloc
  BY <1>2 DEF env_example_matches_local_allocation
<1>4. Has("alloc", ServiceOf[r], PORT_ENV_CONCERN[v])
  BY <1>1, <1>3, AllocationIsWhole
<1> QED
  BY <1>1, <1>2, <1>3, <1>4 DEF env_example_matches_local_allocation

\* A green guard lets one workstation run the whole fleet: the allocation tells
\* the services apart, and every env.example, generated table and local
\* gateway bind says what it allocates.
THEOREM GreenHoldsTheWorkstation == PortsSpec => []WorkstationHoldsTheFleet
<1>1. WorkstationHoldsTheFleet
  <2> SUFFICES ASSUME PortsGreen, NEW r \in repo_dirs, NEW v \in ENV_EXAMPLE_VARS,
                      At("example", r, v) \notin {None, 0}
               PROVE  LET k == PORT_ENV_CONCERN[v] s == ServiceOf[r] IN
                      /\ At("example", r, v) \notin RESERVED_PORTS
                      /\ k \in {"http", "grpc"} /\ s \in local_registry
                           => At("local", s, k) = At("example", r, v)
                      /\ \A q \in repo_dirs : ServiceOf[q] # s => At("example", q, v) # At("example", r, v)
                      /\ r \in Gateways /\ v = "PORT" => At("bind", r, "local") \in {None, At("example", r, v)}
    BY DEF WorkstationHoldsTheFleet
  <2> DEFINE k == PORT_ENV_CONCERN[v]
             s == ServiceOf[r]
  <2>1. s \in alloc /\ k \in Concerns /\ At("example", r, v) = At("alloc", s, k)
    BY ExampleIsAllocated DEF Has
  <2>2. At("example", r, v) \notin RESERVED_PORTS
    BY <2>1, AllocationIsWhole
  <2>3. k \in {"http", "grpc"} /\ s \in local_registry => At("local", s, k) = At("example", r, v)
    BY <2>1, AllocationIsWhole
  <2>4. ASSUME NEW q \in repo_dirs, ServiceOf[q] # s
        PROVE  At("example", q, v) # At("example", r, v)
    <3>1. CASE ~Has("example", q, v)
      BY <3>1 DEF Has
    <3>2. CASE Has("example", q, v)
      <4>1. ServiceOf[q] \in alloc \ {s} /\ At("example", q, v) = At("alloc", ServiceOf[q], k)
        BY <2>4, <3>2, ExampleIsAllocated
      <4> QED
        BY <2>1, <4>1, AllocationIsWhole
    <3> QED
      BY <3>1, <3>2
  <2>5. ASSUME r \in Gateways, v = "PORT"
        PROVE  At("bind", r, "local") \in {None, At("example", r, v)}
    <3>1. k = "http"
      BY <2>5 DEF PORT_ENV_CONCERN
    <3>2. At("alloc", s, "http") \notin {None, 0}
      BY <2>1, <3>1
    <3> QED
      BY <2>1, <2>5, <3>1, <3>2 DEF PortsGreen, gateway_bind_port_is_right_for_its_environment
  <2> QED
    BY <2>2, <2>3, <2>4, <2>5
<1> QED
  BY <1>1, PTL

-----------------------------------------------------------------------------
\* A green guard leaves one answer to which port a registered service is on: the
\* manifests, its contract, the catalog and the gateways' dev binds all say the
\* constant of the concern.
THEOREM GreenGivesOneAnswer == PortsSpec => []OneAnswer
<1>1. OneAnswer
  <2> SUFFICES ASSUME PortsGreen, NEW s \in registry \cap Loaded, NEW k \in published(s) \cap Concerns
               PROVE  {At("port", s, k)}
                        \cup Some("target", s, {k})
                        \cup Some("env", s, {v \in Vars : PORT_ENV_CONCERN[v] = k /\ v \in env_ports(s)})
                        \cup (UNION {Some("contract", r, {k}) : r \in {q \in repo_dirs : ServiceOf[q] = s}})
                        \cup (IF k = "http"
                              THEN Some("catalog", s, {"-"})
                                     \cup (UNION {Some("bind", g, {"dev"}) :
                                                    g \in {h \in Gateways \cap repo_dirs : ServiceOf[h] = s}})
                              ELSE {})
                      = {Concern[k]}
    BY DEF OneAnswer
  <2>1. At("port", s, k) = Concern[k]
    BY AtTheConstant
  <2>2. \A p \in Some("target", s, {k}) : p = Concern[k]
    BY AtTheConstant DEF Some
  <2>3. \A p \in Some("env", s, {v \in Vars : PORT_ENV_CONCERN[v] = k /\ v \in env_ports(s)}) : p = Concern[k]
    BY AtTheConstant DEF Some
  <2>4. ASSUME NEW r \in repo_dirs, ServiceOf[r] = s, NEW p \in Some("contract", r, {k})
        PROVE  p = Concern[k]
    <3>1. Known(r) /\ Has("contract", r, k) /\ p = At("contract", r, k)
      BY <2>4 DEF Known, Some
    <3> QED
      BY <2>1, <2>4, <3>1 DEF PortsGreen, contract_ports_match_service
  <2>5. ASSUME k = "http", NEW p \in Some("catalog", s, {"-"})
        PROVE  p = Concern[k]
    <3>1. p # None /\ p = At("catalog", s, "-")
      BY <2>5 DEF Some, Has
    <3> QED
      BY <2>1, <2>5, <3>1 DEF PortsGreen, contract_ports_match_service
  <2>6. ASSUME k = "http", NEW g \in Gateways \cap repo_dirs, NEW p \in Some("bind", g, {"dev"})
        PROVE  p = Concern[k]
    <3>1. p = At("bind", g, "dev") /\ p # None
      BY <2>6 DEF Some, Has
    <3> QED
      BY <2>6, <3>1 DEF PortsGreen, gateway_bind_port_is_right_for_its_environment
  <2>7. \A p \in UNION {Some("contract", r, {k}) : r \in {q \in repo_dirs : ServiceOf[q] = s}} : p = Concern[k]
    BY <2>4
  <2>8. k = "http" => \A p \in UNION {Some("bind", g, {"dev"}) :
                                        g \in {h \in Gateways \cap repo_dirs : ServiceOf[h] = s}} : p = Concern[k]
    BY <2>6
  <2> QED
    BY <2>1, <2>2, <2>3, <2>5, <2>7, <2>8
<1> QED
  BY <1>1, PTL

-----------------------------------------------------------------------------
(* DiffRange: ancestry *)

\* The commits are typed, and the parents of a commit are older than it.
Typed == /\ commits \in Seq([parents : SUBSET Nat, tree : Tree])
         /\ \A c \in Ids : commits[c].parents \subseteq 1 .. c - 1

\* The least set with c that holds the parents of what it holds.
Reach(c) == {d \in Ids : \A X \in SUBSET Ids :
               c \in X /\ (\A x \in X : commits[x].parents \subseteq X) => d \in X}

\* The recursion of anc has a solution, so anc is one: what a commit reaches.
LEMMA AncUnfolds ==
  ASSUME Typed
  PROVE  anc = [c \in Ids |-> {c} \cup UNION {anc[p] : p \in commits[c].parents}]
<1> DEFINE g == [c \in Ids |-> Reach(c)]
           Closed(X) == \A x \in X : commits[x].parents \subseteq X
<1>0. \A c \in Ids : commits[c].parents \subseteq Ids
  <2> SUFFICES ASSUME NEW c \in Ids, NEW p \in commits[c].parents PROVE p \in Ids
    OBVIOUS
  <2>1. c \in 1 .. Len(commits) /\ p \in 1 .. c - 1
    BY DEF Typed, Ids
  <2> QED
    BY <2>1 DEF Ids
<1>1. ASSUME NEW c \in Ids
      PROVE  Reach(c) = {c} \cup UNION {Reach(p) : p \in commits[c].parents}
  <2> DEFINE U == {c} \cup UNION {Reach(p) : p \in commits[c].parents}
  <2>1. \A d \in Ids : d \in Reach(d) /\ \A p \in commits[d].parents : Reach(p) \subseteq Reach(d)
    <3> SUFFICES ASSUME NEW d \in Ids
                 PROVE  d \in Reach(d) /\ \A p \in commits[d].parents : Reach(p) \subseteq Reach(d)
      OBVIOUS
    <3>1. d \in Reach(d)
      BY DEF Reach
    <3>2. ASSUME NEW p \in commits[d].parents, NEW e \in Reach(p), NEW X \in SUBSET Ids, d \in X, Closed(X)
          PROVE  e \in X
      <4>1. p \in X
        BY <3>2
      <4> QED
        BY <3>2, <4>1 DEF Reach
    <3> QED
      BY <3>1, <3>2 DEF Reach
  <2>2. U \subseteq Reach(c)
    BY <2>1
  <2>3. U \subseteq Ids /\ Closed(U)
    <3>1. U \subseteq Ids
      BY DEF Reach
    <3>2. ASSUME NEW x \in U PROVE commits[x].parents \subseteq U
      <4>1. CASE x = c
        BY <1>0, <2>1, <4>1
      <4>2. CASE x # c
        <5>1. PICK p \in commits[c].parents : x \in Reach(p)
          BY <4>2
        <5>2. commits[x].parents \subseteq Reach(p)
          <6> SUFFICES ASSUME NEW q \in commits[x].parents, NEW X \in SUBSET Ids, p \in X, Closed(X)
                       PROVE  q \in X
            BY <1>0, <5>1 DEF Reach
          <6>1. x \in X
            BY <5>1 DEF Reach
          <6> QED
            BY <6>1
        <5> QED
          BY <5>2
      <4> QED
        BY <4>1, <4>2
    <3> QED
      BY <3>1, <3>2
  <2>4. Reach(c) \subseteq U
    <3> HIDE DEF U
    <3>1. c \in U
      BY DEF U
    <3> QED
      BY <2>3, <3>1 DEF Reach
  <2> QED
    BY <2>2, <2>4
<1>2. g = [c \in Ids |-> {c} \cup UNION {g[p] : p \in commits[c].parents}]
  <2>1. \A c \in Ids : UNION {g[p] : p \in commits[c].parents} = UNION {Reach(p) : p \in commits[c].parents}
    BY <1>0
  <2> QED
    BY <1>1, <2>1
<1> HIDE DEF g
<1> DEFINE Ancestry(f) == f = [c \in Ids |-> {c} \cup UNION {f[p] : p \in commits[c].parents}]
<1>3. \E f : Ancestry(f)
  BY <1>2
<1>4. anc = CHOOSE f : Ancestry(f)
  BY DEF anc
<1>5. Ancestry(anc)
  <2> HIDE DEF Ancestry
  <2> QED
    BY <1>3, <1>4
<1> QED
  BY <1>5

\* A parent is a commit, and older.
LEMMA ParentsAreOlder ==
  ASSUME Typed
  PROVE  \A c \in Ids : c \in Nat /\ commits[c].parents \subseteq Ids /\ \A p \in commits[c].parents : p < c
<1> SUFFICES ASSUME NEW c \in Ids PROVE c \in Nat /\ commits[c].parents \subseteq Ids /\ \A p \in commits[c].parents : p < c
  OBVIOUS
<1>1. c \in 1 .. Len(commits) /\ Len(commits) \in Nat /\ commits[c].parents \subseteq 1 .. c - 1
  BY DEF Typed, Ids
<1> QED
  BY <1>1 DEF Ids

\* What an ancestor reaches the commit reaches: no least counterexample exists.
LEMMA AncestryIsTransitive ==
  ASSUME Typed, NEW h \in Ids, NEW b \in anc[h]
  PROVE  anc[b] \subseteq anc[h]
<1> DEFINE Bad == {n \in Ids : \E d \in anc[n] : ~(anc[d] \subseteq anc[n])}
<1>1. Ids \subseteq Nat /\ \A c \in Ids : commits[c].parents \subseteq Ids /\ \A p \in commits[c].parents : p < c
  <2> SUFFICES ASSUME NEW c \in Ids PROVE c \in Nat /\ commits[c].parents \subseteq Ids /\ \A p \in commits[c].parents : p < c
    OBVIOUS
  <2>1. c \in 1 .. Len(commits) /\ Len(commits) \in Nat /\ commits[c].parents \subseteq 1 .. c - 1
    BY DEF Typed, Ids
  <2> QED
    BY <2>1 DEF Ids
<1>2. \A c \in Ids : anc[c] = {c} \cup UNION {anc[p] : p \in commits[c].parents}
  BY AncUnfolds
<1>3. Bad = {}
  <2> SUFFICES ASSUME Bad # {} PROVE FALSE
    OBVIOUS
  <2>1. Bad \subseteq Nat
    BY <1>1
  <2> HIDE DEF Bad
  <2>2. PICK n \in Bad : \A m \in Bad : ~(<<m, n>> \in OpToRel(<, Nat))
    BY <2>1, WFMin, NatLessThanWellFounded
  <2>3. PICK d \in anc[n] : n \in Ids /\ ~(anc[d] \subseteq anc[n])
    BY DEF Bad
  <2>4. d # n
    BY <2>3
  <2>5. PICK p \in commits[n].parents : d \in anc[p]
    BY <1>2, <2>3, <2>4
  <2>6. p \in Ids /\ p < n /\ n \in Nat /\ p \in Nat
    BY <1>1, <2>3
  <2>7. p \notin Bad
    BY <2>2, <2>6 DEF OpToRel
  <2>8. anc[d] \subseteq anc[p]
    BY <2>5, <2>6, <2>7 DEF Bad
  <2>9. anc[p] \subseteq anc[n]
    BY <1>2, <2>3
  <2> QED
    BY <2>3, <2>8, <2>9
<1> QED
  BY <1>3

\* An ancestor is a commit.
LEMMA AncestorsAreCommits ==
  ASSUME Typed, NEW h \in Ids
  PROVE  anc[h] \subseteq Ids
<1> DEFINE Bad == {n \in Ids : ~(anc[n] \subseteq Ids)}
<1>1. \A c \in Ids : c \in Nat /\ commits[c].parents \subseteq Ids /\ \A p \in commits[c].parents : p < c
  BY ParentsAreOlder
<1>2. \A c \in Ids : anc[c] = {c} \cup UNION {anc[p] : p \in commits[c].parents}
  BY AncUnfolds
<1>3. Bad = {}
  <2> SUFFICES ASSUME Bad # {} PROVE FALSE
    OBVIOUS
  <2>1. Bad \subseteq Nat
    BY <1>1
  <2> HIDE DEF Bad
  <2>2. PICK n \in Bad : \A m \in Bad : ~(<<m, n>> \in OpToRel(<, Nat))
    BY <2>1, WFMin, NatLessThanWellFounded
  <2>3. PICK d \in anc[n] : n \in Ids /\ d \notin Ids
    BY DEF Bad
  <2>4. PICK p \in commits[n].parents : d \in anc[p]
    BY <1>2, <2>3
  <2>5. p \in Ids /\ p < n /\ n \in Nat /\ p \in Nat
    BY <1>1, <2>3
  <2>6. p \notin Bad
    BY <2>2, <2>5 DEF OpToRel
  <2> QED
    BY <2>3, <2>4, <2>5, <2>6 DEF Bad
<1> QED
  BY <1>3

-----------------------------------------------------------------------------
(* DiffRange: the invariant *)

\* What the payload of the last event says of main.
Payload ==
  /\ event.name = "push" => event.base = was /\ event.head = main /\ main \in Ids /\ was \in Ids \cup {0}
  /\ event.name = "pull_request" => event.base = was /\ was \in Ids /\ event.head \in Ids
  /\ event.name \in {"none", "push", "pull_request", "workflow_dispatch"}
  /\ main \in Ids \cup {0}

DiffInv == Typed /\ Payload

\* The invariant holds of every history.
LEMMA DiffInvariant == DiffSpec => []DiffInv
<1>1. DiffInit => DiffInv
  <2> SUFFICES ASSUME DiffInit PROVE DiffInv
    OBVIOUS
  <2>1. Typed
    <3>1. [p \in Pieces |-> IF p \in {"guide", "source"} THEN 1 ELSE 0] \in Tree
      BY DEF Tree
    <3>2. commits \in Seq([parents : SUBSET Nat, tree : Tree]) /\ Ids = {1} /\ commits[1].parents = {}
      BY <3>1 DEF DiffInit, Ids
    <3> QED
      BY <3>2 DEF Typed
  <2> QED
    BY <2>1 DEF DiffInit, DiffInv, Payload, NoEvent
<1>2. DiffInv /\ [DiffNext]_diffVars => DiffInv'
  <2> SUFFICES ASSUME DiffInv, [DiffNext]_diffVars PROVE DiffInv'
    OBVIOUS
  <2> USE DEF DiffInv
  <2>1. ASSUME NEW P \in SUBSET Ids, NEW t \in Tree, Add(P, t)
        PROVE  DiffInv'
    <3>1. /\ commits \in Seq([parents : SUBSET Nat, tree : Tree])
          /\ commits' = Append(commits, [parents |-> P, tree |-> t])
          /\ UNCHANGED <<main, was, event>>
      BY <2>1 DEF Add, Typed
    <3>2. Len(commits) \in Nat /\ Ids = 1 .. Len(commits) /\ P \subseteq Nat
      BY <3>1 DEF Ids
    <3>3. /\ commits' \in Seq([parents : SUBSET Nat, tree : Tree])
          /\ Len(commits') = Len(commits) + 1
          /\ \A c \in 1 .. Len(commits) : commits'[c] = commits[c]
          /\ commits'[Len(commits) + 1] = [parents |-> P, tree |-> t]
      BY <3>1, <3>2
    <3>4. Ids' = 1 .. Len(commits) + 1 /\ Ids \subseteq Ids'
      BY <3>2, <3>3 DEF Ids
    <3>5. ASSUME NEW c \in Ids' PROVE commits'[c].parents \subseteq 1 .. c - 1
      BY <3>2, <3>3, <3>4, <3>5 DEF Typed
    <3>6. Payload'
      BY <3>1, <3>4 DEF Payload
    <3> QED
      BY <3>3, <3>5, <3>6 DEF Typed
  <2>2. ASSUME NEW c \in Ids, Commit(c)
        PROVE  DiffInv'
    <3>1. PICK edit \in Edits : Add({c}, [p \in Pieces |-> IF p \in edit THEN 1 - TreeOf(c)[p] ELSE TreeOf(c)[p]])
      BY <2>2 DEF Commit
    <3>2. TreeOf(c) \in Tree
      <4> DEFINE R == [parents : SUBSET Nat, tree : Tree]
      <4>0. commits \in Seq(R) /\ c \in 1 .. Len(commits)
        BY DEF Ids, Typed
      <4> HIDE DEF R
      <4>2. commits[c] \in R
        BY <4>0
      <4>1. commits[c].tree \in Tree
        BY <4>2 DEF R
      <4> QED
        BY <4>1 DEF TreeOf
    <3>3. [p \in Pieces |-> IF p \in edit THEN 1 - TreeOf(c)[p] ELSE TreeOf(c)[p]] \in Tree
      BY <3>2 DEF Tree
    <3> QED
      BY <2>1, <3>1, <3>3
  <2>3. ASSUME NEW c \in Ids, NEW d \in Ids, Merge(c, d)
        PROVE  DiffInv'
    BY <2>1, <2>3 DEF Merge
  <2>4. ASSUME NEW c \in Ids, Push(c)
        PROVE  DiffInv'
    <3>1. UNCHANGED commits /\ was' = main /\ main' = c /\ event'.name = "push" /\ event'.base = main /\ event'.head = c
      BY <2>4 DEF Push, Happens
    <3> QED
      BY <3>1 DEF Typed, Payload, Ids
  <2>5. ASSUME NEW c \in Ids, OpenPR(c)
        PROVE  DiffInv'
    <3>1. /\ UNCHANGED <<commits, main>> /\ was' = main /\ main # 0
          /\ event'.name = "pull_request" /\ event'.base = main /\ event'.head = c
      BY <2>5 DEF OpenPR, Happens
    <3> QED
      BY <3>1 DEF Typed, Payload, Ids
  <2>6. ASSUME Dispatch
        PROVE  DiffInv'
    <3>1. UNCHANGED <<commits, main>> /\ event'.name = "workflow_dispatch"
      BY <2>6 DEF Dispatch, Happens, NoEvent
    <3> QED
      BY <3>1 DEF Typed, Payload, Ids
  <2>7. CASE UNCHANGED diffVars
    BY <2>7 DEF diffVars, Typed, Payload, Ids
  <2> QED
    BY <2>2, <2>3, <2>4, <2>5, <2>6, <2>7 DEF DiffNext
<1> QED
  BY <1>1, <1>2, PTL DEF DiffSpec

-----------------------------------------------------------------------------
(* DiffRange: the verdicts *)

\* A verdict is read from one range: the one of a push that moves main forward,
\* or the one from a merge base that the branch and main share.
LEMMA RangeOf ==
  ASSUME DiffInv, NEW r \in resolve_range(event)
  PROVE  /\ r[2] = event.head /\ event.head \in Ids /\ was \in Ids
         /\ event.name = "push" => r[1] = was /\ main = event.head
         /\ event.name = "pull_request" => r[1] \in MergeBase(was, event.head)
         /\ event.name \in {"push", "pull_request"}
         /\ r[1] \in anc[was] /\ r[1] \in Ids
<1>1. CASE event.name = "push"
  <2>1. was # 0 /\ r = <<was, event.head>> /\ event.head \in Ids /\ main = event.head /\ was \in Ids
    BY <1>1 DEF resolve_range, DiffInv, Payload
  <2>2. was \in anc[was]
    BY <2>1, AncUnfolds DEF DiffInv
  <2> QED
    BY <1>1, <2>1, <2>2
<1>2. CASE event.name = "pull_request"
  <2>1. was \in Ids /\ event.head \in Ids /\ event.base = was
    BY <1>2 DEF DiffInv, Payload
  <2>2. PICK b \in MergeBase(was, event.head) : r = <<b, event.head>>
    BY <1>2, <2>1 DEF resolve_range
  <2>3. b \in anc[was]
    BY DEF MergeBase
  <2>4. b \in Ids
    BY <2>1, <2>3, AncestorsAreCommits DEF DiffInv
  <2> QED
    BY <1>2, <2>1, <2>2, <2>3, <2>4
<1>3. CASE event.name \notin {"push", "pull_request"}
  BY <1>3 DEF resolve_range
<1> QED
  BY <1>1, <1>2, <1>3

\* Only README.md is documentation, and the prose is all of it.
LEMMA DocsPaths ==
  ASSUME NEW b, NEW h, \A p \in changed_paths(b, h) : is_documentation(p)
  PROVE  /\ Net(TreeOf(b), TreeOf(h)) \subseteq {"prose"}
         /\ \A c \in anc[h] \ anc[b] : Touched(c) \subseteq {"prose"}
<1>1. \A p \in Pieces : PathOf[p] = "README.md" => p = "prose"
  BY DEF Pieces, PathOf
<1>2. ASSUME NEW p \in Net(TreeOf(b), TreeOf(h)) PROVE p = "prose"
  BY <1>1 DEF Net, changed_paths, is_documentation
<1>3. ASSUME NEW c \in anc[h] \ anc[b], NEW p \in Touched(c) PROVE p = "prose"
  <2>1. p \in Pieces
    BY DEF Touched, Net
  <2>2. PathOf[p] \in changed_paths(b, h)
    BY DEF changed_paths
  <2> QED
    BY <1>1, <2>1, <2>2 DEF is_documentation
<1> QED
  BY <1>2, <1>3

\* What arrives differs between the ends of the range, where the range is the only one.
LEMMA ArrivesIsNet ==
  ASSUME DiffInv, ~CrissCross, NEW r \in resolve_range(event)
  PROVE  Arrives \subseteq Net(TreeOf(r[1]), TreeOf(r[2]))
<1>1. CASE event.name = "push"
  <2>1. r[1] = was /\ r[2] = main /\ was # 0
    BY <1>1, RangeOf DEF resolve_range, DiffInv, Payload
  <2> QED
    BY <1>1, <2>1 DEF Arrives
<1>2. CASE event.name = "pull_request"
  <2>1. r[1] \in MergeBase(was, event.head) /\ r[2] = event.head /\ event.base = was
    BY <1>2, RangeOf DEF DiffInv, Payload
  <2>2. \A b \in MergeBase(was, event.head) : b = r[1]
    BY <1>2, <2>1 DEF CrissCross
  <2> QED
    BY <1>2, <2>1, <2>2 DEF Arrives, Net
<1> QED
  BY <1>1, <1>2, RangeOf

\* A change that skips the gates as documentation brings nothing a gate reads to
\* main, for every history in which the branch and main did not merge each other:
\* the net difference names what arrives, and the range is the only one there is.
THEOREM DocsSkipNoCode == DiffSpec => []DocsBringNoCode
<1>1. ASSUME DiffInv PROVE DocsBringNoCode
  <2> SUFFICES ASSUME docs_only(event), ~CrissCross PROVE Arrives \subseteq {"prose"}
    BY DEF DocsBringNoCode
  <2>1. PICK r \in resolve_range(event) : \A p \in changed_paths(r[1], r[2]) : is_documentation(p)
    BY DEF docs_only
  <2> QED
    BY <1>1, <2>1, DocsPaths, ArrivesIsNet
<1> QED
  BY <1>1, DiffInvariant, PTL

\* Code that a later commit of the same push or branch takes back is still seen:
\* a commit main does not have is not behind the merge base either.
THEOREM TakenBackIsSeen == DiffSpec => []EveryCommitIsDocs
<1>1. ASSUME DiffInv PROVE EveryCommitIsDocs
  <2> SUFFICES ASSUME docs_only(event), NEW c \in anc[event.head] \ anc[was] PROVE Touched(c) \subseteq {"prose"}
    BY DEF EveryCommitIsDocs
  <2>1. PICK r \in resolve_range(event) : \A p \in changed_paths(r[1], r[2]) : is_documentation(p)
    BY DEF docs_only
  <2>2. r[1] \in anc[was] /\ was \in Ids /\ r[2] = event.head
    BY <1>1, RangeOf
  <2>3. anc[r[1]] \subseteq anc[was]
    BY <1>1, <2>2, AncestryIsTransitive DEF DiffInv
  <2>4. c \in anc[r[2]] \ anc[r[1]]
    BY <2>2, <2>3
  <2> QED
    BY <2>1, <2>4, DocsPaths
<1> QED
  BY <1>1, DiffInvariant, PTL

-----------------------------------------------------------------------------
(* DiffRange: pins *)

\* No commit has a line in a block of go.mod.
NoBlocks == \A c \in Ids : TreeOf(c)["block"] = 0

\* Where no commit edits a block, none has one.
LEMMA BlocksStayAway ==
  ASSUME \A edit \in Edits : "block" \notin edit
  PROVE  DiffSpec => []NoBlocks
<1>1. DiffInit => NoBlocks
  BY DEF DiffInit, NoBlocks, Ids, TreeOf, Pieces
<1>2. DiffInv /\ NoBlocks /\ [DiffNext]_diffVars => NoBlocks'
  <2> SUFFICES ASSUME DiffInv, NoBlocks, [DiffNext]_diffVars PROVE NoBlocks'
    OBVIOUS
  <2> USE DEF DiffInv
  <2>1. ASSUME NEW P, NEW t, t["block"] = 0, Add(P, t)
        PROVE  NoBlocks'
    <3>1. /\ commits \in Seq([parents : SUBSET Nat, tree : Tree])
          /\ commits' = Append(commits, [parents |-> P, tree |-> t])
      BY <2>1 DEF Add, Typed
    <3>2. ASSUME NEW c \in DOMAIN commits' PROVE commits'[c].tree["block"] = 0
      <4>1. c \in 1 .. Len(commits) + 1 /\ Len(commits) \in Nat
        BY <3>1, <3>2
      <4>2. CASE c = Len(commits) + 1
        BY <2>1, <3>1, <4>1, <4>2
      <4>3. CASE c # Len(commits) + 1
        <5>1. c \in Ids /\ commits'[c] = commits[c]
          BY <3>1, <4>1, <4>3 DEF Ids
        <5> QED
          BY <5>1 DEF NoBlocks, TreeOf
      <4> QED
        BY <4>2, <4>3
    <3> QED
      BY <3>2 DEF NoBlocks, TreeOf, Ids
  <2>2. ASSUME NEW c \in Ids, Commit(c)
        PROVE  NoBlocks'
    <3>1. PICK edit \in Edits : Add({c}, [p \in Pieces |-> IF p \in edit THEN 1 - TreeOf(c)[p] ELSE TreeOf(c)[p]])
      BY <2>2 DEF Commit
    <3>2. [p \in Pieces |-> IF p \in edit THEN 1 - TreeOf(c)[p] ELSE TreeOf(c)[p]]["block"] = 0
      BY DEF NoBlocks, Pieces
    <3> QED
      BY <2>1, <3>1, <3>2
  <2>3. ASSUME NEW c \in Ids, NEW d \in Ids, Merge(c, d)
        PROVE  NoBlocks'
    <3>1. PICK t \in Tree : /\ \A p \in Pieces : t[p] \in {TreeOf(c)[p], TreeOf(d)[p]}
                            /\ Add({c, d}, t)
      BY <2>3 DEF Merge
    <3>2. t["block"] = 0
      BY <3>1 DEF NoBlocks, Pieces
    <3> QED
      BY <2>1, <3>1, <3>2
  <2>4. CASE UNCHANGED commits
    BY <2>4 DEF NoBlocks, TreeOf, Ids
  <2>5. (\E c \in Ids : Push(c) \/ OpenPR(c)) \/ Dispatch \/ UNCHANGED diffVars => UNCHANGED commits
    BY DEF Push, OpenPR, Dispatch, Happens, diffVars
  <2> QED
    BY <2>2, <2>3, <2>4, <2>5 DEF DiffNext
<1> QED
  BY <1>1, <1>2, DiffInvariant, PTL DEF DiffSpec

\* What the scanners read is what it was before a change that skips them as pins,
\* for the same histories, as long as no commit edits a block of go.mod: is_pin_line
\* takes a line of a block for a pin.
THEOREM PinsSkipNoSource ==
  ASSUME \A edit \in Edits : "block" \notin edit
  PROVE  DiffSpec => []PinsBringNoSource
<1>1. ASSUME DiffInv, NoBlocks PROVE PinsBringNoSource
  <2> SUFFICES ASSUME pin_only(event), ~CrissCross PROVE Arrives \subseteq {"require", "sum"}
    BY DEF PinsBringNoSource
  <2>1. PICK r \in resolve_range(event) :
          LET paths == changed_paths(r[1], r[2])
          IN /\ \A p \in paths : is_pin_file(p)
             /\ "go.mod" \in paths => go_mod_is_pins_only(r[1], r[2])
    BY DEF pin_only
  <2>2. ASSUME NEW p \in Net(TreeOf(r[1]), TreeOf(r[2])) PROVE p \in {"require", "sum"}
    <3>1. p \in Pieces /\ PathOf[p] \in changed_paths(r[1], r[2]) /\ TreeOf(r[1])[p] # TreeOf(r[2])[p]
      BY <2>2 DEF Net, changed_paths
    <3>2. PathOf[p] \in {"go.mod", "go.sum"}
      BY <2>1, <3>1 DEF is_pin_file
    <3>3. PathOf[p] = "go.mod" => is_pin_line(p)
      BY <2>1, <2>2, <3>1 DEF go_mod_is_pins_only
    <3>4. p # "block"
      BY <1>1, <3>1, RangeOf DEF NoBlocks
    <3> QED
      BY <3>1, <3>2, <3>3, <3>4 DEF Pieces, PathOf, is_pin_line
  <2> QED
    BY <1>1, <2>2, ArrivesIsNet
<1> QED
  BY <1>1, DiffInvariant, BlocksStayAway, PTL
=============================================================================
