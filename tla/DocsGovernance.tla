--------------------------- MODULE DocsGovernance ---------------------------
(***************************************************************************)
(* The documentation guard (scripts/check-docs-governance.py) over two     *)
(* namespaces that number their decisions on their own: the platform's,    *)
(* which cites nobody, and a client hub, which cites the platform's.       *)
(*                                                                         *)
(* A document is a file with its place, its name, its frontmatter and what *)
(* its text holds.  A numbered document is an ADR or an RFC; each field    *)
(* that several rules treat alike stands for one of them.                  *)
(***************************************************************************)
EXTENDS Integers, FiniteSets

CONSTANTS
  Files,      \* every file that may exist, in either namespace
  SpaceOf,    \* the namespace each belongs to
  Start,      \* the documents at the start
  Options(_), \* the values an edit may give a field
  Slugs,      \* the owners registered in governance/OWNER_DIRECTORY.md
  MaxEdits,   \* bound: edits
  MaxDay      \* bound: days

VARIABLES
  docs,      \* what each file holds
  reserved,  \* governance/RESERVED_IDS.md of each namespace: three lists read as one
  peers,     \* the namespaces a run of the hub finds checked out beside it
  day,       \* today
  edits      \* counts the edits (bound)

vars == <<docs, reserved, peers, day, edits>>

Core == "core-docs"
Hub == "inboxxhq-platform-docs"
Spaces == {Core, Hub}

(* controls/doc-namespaces.yaml and the docs-governance.yaml of each repository *)
Qualifier == [n \in Spaces |-> IF n = Core THEN "Core" ELSE "InboxxHQ"]
Spelled == [Core |-> Core, core |-> Core, InboxxHQ |-> Hub]  \* the aliases a citation may be read by
Vocabulary == [n \in Spaces |-> IF n = Core THEN {"events"} ELSE {"sales", "network"}]
PlatformConcerns == [n \in Spaces |-> IF n = Core THEN {} ELSE {"network"}]

\* An identifier of a document, and the folder of its kind.
Id(prefix, number) == [prefix |-> prefix, number |-> number]
NoId == Id("-", 0)  \* a name, or an id key, without one
NUMBERED_DOC_FOLDERS == [ADR |-> "adrs", RFC |-> "rfcs"]

Silent == {NoId}  \* a list the frontmatter does not have
Floor == 9000     \* TRANSITIONAL_BAND_FLOOR
\* The identifiers an IETF standard may have too.
EXTERNAL_STANDARD(i) == i.prefix = "RFC" /\ i.number >= 1000
CycleDays == [quarterly |-> 1, annual |-> 8]  \* in the days of this model
Grace == 0

ASSUME DocsAssumption ==
  /\ SpaceOf \in [Files -> Spaces] /\ MaxEdits \in Nat /\ MaxDay \in Nat
  /\ DOMAIN Start = Files /\ \A f \in Files : "cites" \in DOMAIN Start[f]
  /\ \A c \in Options("cites") \cup {Start[f].cites : f \in Files} :  \* an id is qualified by an alias or by nothing
       \A x \in c : x.to \in {"-"} \cup DOMAIN Spelled

Init ==
  /\ docs = Start /\ reserved = [n \in Spaces |-> {}]
  /\ peers \in {{}, {Core}} /\ day = 0 /\ edits = 0

\* One field of one file; a file is added or removed by its folder.
Edit(f) ==
  /\ edits < MaxEdits /\ edits' = edits + 1
  /\ \E field \in DOMAIN docs[f] : \E v \in Options(field) :
       /\ docs[f].dir = "none" => field = "dir"
       /\ v # docs[f][field] /\ docs' = [docs EXCEPT ![f] = [@ EXCEPT ![field] = v]]
  /\ UNCHANGED <<reserved, peers, day>>

Register(n) ==
  /\ edits < MaxEdits /\ edits' = edits + 1
  /\ \E i \in Options("name") \ ({NoId} \cup reserved[n]) : reserved' = [reserved EXCEPT ![n] = @ \cup {i}]
  /\ UNCHANGED <<docs, peers, day>>

Tick == day < MaxDay /\ day' = day + 1 /\ UNCHANGED <<docs, reserved, peers, edits>>

Next == Tick \/ (\E f \in Files : Edit(f)) \/ (\E n \in Spaces : Register(n))

Spec == Init /\ [][Next]_vars

-----------------------------------------------------------------------------
(* What a run reads *)

NumberedFolders == {"adrs", "rfcs"}
Roots == NumberedFolders \cup {"standards", "templates"}  \* templates: adrs/templates
In(n) == {f \in Files : SpaceOf[f] = n /\ docs[f].dir # "none"}
governed(n) == {f \in In(n) : docs[f].dir \in Roots}
Parsed(n) == {f \in governed(n) : docs[f].head \in {"ok", "flow"}}  \* frontmatter that can be read
template(f) == docs[f].dir = "templates"

\* Every file with a numbered name resolves a citation, in whatever folder.
ids_in_tree(n) == {docs[f].name : f \in In(n)} \ {NoId}
\* Those the numbering rules look at.
numbered_doc_candidates(n) == {f \in governed(n) : docs[f].dir \in NumberedFolders}
Numbered(n) == {f \in numbered_doc_candidates(n) : docs[f].name # NoId}
peer_ids(n, m) == IF n = Hub /\ m \in peers THEN {ids_in_tree(m)} ELSE {}  \* nothing when it is absent
citations(f) == docs[f].cites
Leaves(f, c) == c.to # "-" /\ Spelled[c.to] # SpaceOf[f]

-----------------------------------------------------------------------------
(* The controls, by their detectors: each is true of a namespace it passes. *)

frontmatter_structure(n) ==
  \A f \in governed(n) : docs[f].head \in {"ok", "flow"} \/ (docs[f].head = "none" /\ template(f))
owner_registered(n) == \A f \in Parsed(n) : template(f) \/ docs[f].owner \in Slugs
controlled_vocabulary(n) ==
  \A f \in Parsed(n) :
    /\ docs[f].status \in {"accepted", "superseded"}
    /\ docs[f].cycle \in {"event-driven", "quarterly", "annual"}
    /\ docs[f].doc_type \in {"-", "adr", "rfc", "standard"}  \* no document has to have one
related_key_hygiene(n) == \A f \in governed(n) : docs[f].head # "flow"
related_docs_links(n) == \A f \in Parsed(n) : docs[f].related \subseteq docs[f].links

\* The index of decisions: of the files of one id the last one read is kept, and
\* the templates of a folder are read after its documents.
Read == [adrs |-> 1, templates |-> 2, rfcs |-> 3]
Decisions(n) == {f \in Parsed(n) : docs[f].dir \in DOMAIN Read /\ docs[f].name # NoId}
LastRead(F) == CHOOSE f \in F : \A g \in F : Read[docs[g].dir] <= Read[docs[f].dir]
Of(n, i) == LET F == {f \in Decisions(n) : docs[f].name = i} IN IF F = {} THEN {} ELSE {LastRead(F)}
Records(n) == UNION {Of(n, docs[f].name) : f \in Decisions(n)}
supersession_integrity_Mutant(n) ==  \* the link alone, not what it says of the status
  \A f \in Records(n) :
    /\ \A i \in docs[f].superseded_by : \E g \in Of(n, i) : docs[f].name \in docs[g].supersedes
    /\ \A i \in docs[f].supersedes : \E g \in Of(n, i) : docs[f].name \in docs[g].superseded_by
supersession_integrity(n) ==
  \A f \in Records(n) :
    /\ (docs[f].status = "superseded") = (docs[f].superseded_by # {})
    /\ \A i \in docs[f].superseded_by : \E g \in Of(n, i) : docs[f].name \in docs[g].supersedes
    /\ \A i \in docs[f].supersedes : \E g \in Of(n, i) : docs[f].name \in docs[g].superseded_by

freshness_sla(n) ==
  \A f \in Parsed(n) : docs[f].cycle \in DOMAIN CycleDays => day <= docs[f].reviewed + CycleDays[docs[f].cycle] + Grace

\* Of any Markdown file, governed or not; only the hub has a client scope.
client_scope_isolation(n) == n = Hub => \A f \in In(n) : "sibling" \notin docs[f].says
\* The homes of the rules are standards of the platform.
logging_rule_restatement(n) ==
  \A f \in In(n) : "logging" \in docs[f].says => template(f) \/ (n = Core /\ docs[f].dir = "standards")
owner_registry_usage(n) == Slugs \subseteq {docs[f].owner : f \in {g \in Parsed(n) : ~template(g)}}
doc_root_naming(n) == \A f \in In(n) : docs[f].dir # "adr"
source_path_citations(n) == \A f \in governed(n) : "line" \notin docs[f].says
internal_link_resolution(n) == \A f \in governed(n) : "dead link" \notin docs[f].says

document_id_convention(n) == \A f \in numbered_doc_candidates(n) :
                               docs[f].name # NoId /\ docs[f].dir = NUMBERED_DOC_FOLDERS[docs[f].name.prefix]
document_id_frontmatter(n) == \A f \in Numbered(n) \cap Parsed(n) : docs[f].id = docs[f].name
duplicate_document_ids(n) ==
  LET numbered == Numbered(n) IN \A f, g \in numbered : docs[f].name = docs[g].name => f = g

\* Every number below one that is taken is taken or reserved; the transitional
\* band is outside the sequence.
sequential_id_allocation(n) ==
  LET taken == {docs[g].name : g \in Numbered(n)} IN
  \A i \in taken : i.number < Floor => \A k \in 1 .. i.number : Id(i.prefix, k) \in taken \cup reserved[n]

document_reference_resolution_Mutant(n) ==  \* an id is looked up at home first, whatever its namespace
  \A f \in governed(n) : \A c \in citations(f) :
    \/ c.id \in ids_in_tree(n) \cup reserved[n] \/ EXTERNAL_STANDARD(c.id)
    \/ Leaves(f, c) /\ \A ids \in peer_ids(n, Spelled[c.to]) : c.id \in ids
\* What may be a standard of the IETF need not resolve at home.
document_reference_resolution(n) ==
  LET local == ids_in_tree(n) \cup reserved[n] IN
  \A f \in governed(n) : \A c \in citations(f) :
    IF Leaves(f, c) THEN \A ids \in peer_ids(n, Spelled[c.to]) : c.id \in ids
                    ELSE c.id \in local \/ EXTERNAL_STANDARD(c.id)

cross_namespace_citation_form(n) ==
  \A f \in governed(n) : \A c \in citations(f) : Leaves(f, c) => c.to = Qualifier[Spelled[c.to]] /\ c.linked

\* Only what says it is a decision owes a domain; a domain is always of the vocabulary.
decision_domain_vocabulary(n) ==
  \A f \in Parsed(n) :
    \/ template(f)
    \/ docs[f].domain \in Vocabulary[n]
    \/ docs[f].domain = "-" /\ docs[f].doc_type # "adr"

\* What says it is a decision and is tagged with a concern of the platform.
Bound(n) ==
  {f \in Parsed(n) : ~template(f) /\ docs[f].doc_type = "adr" /\ docs[f].domain \in PlatformConcerns[n]}
platform_concern_core_authority(n) ==
  \A f \in Bound(n) :
    /\ docs[f].authority # Silent
    /\ \A ids \in peer_ids(n, Core) : docs[f].authority \subseteq ids

-----------------------------------------------------------------------------
(* evaluate: whether a control passes, and which of them fail the lane *)

Severity(c) == IF c \in {"DOC_0007", "DOC_0009", "DOC_0012", "DOC_0019"} THEN 1 ELSE 2
Threshold == 2  \* --fail-on major, the default of the workflow
is_enforced_Mutant(c) == TRUE  \* an advisory finding fails the lane too
is_enforced(c) == Severity(c) >= Threshold

Controls ==
  {"DOC_0001", "DOC_0002", "DOC_0003", "DOC_0004", "DOC_0005", "DOC_0006", "DOC_0007", "DOC_0008", "DOC_0009", "DOC_0011",
   "DOC_0012", "DOC_0013", "DOC_0014", "DOC_0015", "DOC_0016", "DOC_0017", "DOC_0018", "DOC_0019", "DOC_0023", "DOC_0024",
   "DOC_0025"}
evaluate(c, n) ==
  CASE c = "DOC_0001" -> frontmatter_structure(n)   [] c = "DOC_0002" -> owner_registered(n)
    [] c = "DOC_0003" -> controlled_vocabulary(n)   [] c = "DOC_0004" -> related_key_hygiene(n)
    [] c = "DOC_0005" -> related_docs_links(n)      [] c = "DOC_0006" -> supersession_integrity(n)
    [] c = "DOC_0007" -> freshness_sla(n)           [] c = "DOC_0008" -> client_scope_isolation(n)
    [] c = "DOC_0009" -> owner_registry_usage(n)    [] c = "DOC_0011" -> doc_root_naming(n)
    [] c = "DOC_0012" -> source_path_citations(n)   [] c = "DOC_0013" -> document_id_convention(n)
    [] c = "DOC_0014" -> duplicate_document_ids(n)  [] c = "DOC_0015" -> document_reference_resolution(n)
    [] c = "DOC_0016" -> cross_namespace_citation_form(n) [] c = "DOC_0017" -> document_id_frontmatter(n)
    [] c = "DOC_0018" -> sequential_id_allocation(n) [] c = "DOC_0019" -> internal_link_resolution(n)
    [] c = "DOC_0023" -> decision_domain_vocabulary(n) [] c = "DOC_0024" -> platform_concern_core_authority(n)
    [] c = "DOC_0025" -> logging_rule_restatement(n)
Green(n) == \A c \in Controls : is_enforced(c) => evaluate(c, n)

-----------------------------------------------------------------------------
\* The numbered documents of a namespace a reader of an id may be given: by the
\* name of the file, or by the id the catalog keys them on.
Published(n, i) == {f \in Numbered(n) : docs[f].name = i \/ (f \in Parsed(n) /\ docs[f].id = i)}
Space(n, f, c) == IF Leaves(f, c) THEN Spelled[c.to] ELSE n  \* the namespace a citation names
\* The citations of documents: not what may be a standard, nor what the platform
\* cites of a hub, which nobody resolves (CoreCitesNoHub).
Followed(n, f) == {c \in citations(f) : IF Leaves(f, c) THEN n = Hub ELSE ~EXTERNAL_STANDARD(c.id)}
Reached(n) ==
  (UNION {{<<Space(n, f, c), c.id>> : c \in Followed(n, f)} : f \in governed(n)})
    \cup (UNION {{<<Core, i>> : i \in docs[f].authority} : f \in Bound(n)})
    \cup (UNION {{<<n, i>> : i \in docs[f].supersedes \cup docs[f].superseded_by} : f \in Records(n)})

\* What a green namespace cites, is bound by or replaces exists: in its own tree or
\* among its reserved ids, or in the tree of the platform when that is checked out
\* beside it.  And where that namespace is green too, no reader of the id finds two
\* documents of the numbered folders.
CitationReachesOneDocument ==
  \A n \in Spaces : Green(n) =>
    \A r \in Reached(n) : LET m == r[1] i == r[2] IN
      /\ m = n \/ m \in peers => i \in ids_in_tree(m) \cup (IF m = n THEN reserved[m] ELSE {})
      /\ \A f, g \in Published(m, i) : f # g => ~Green(m)

\* The decisions whose place in the index no template takes.
Indexed(n) ==
  {f \in Numbered(n) \cap Parsed(n) :
     ~(\E g \in Decisions(n) : template(g) /\ docs[g].name = docs[f].name)}

\* In a green namespace no decision is in force that another one says it
\* replaced, and a decision that was replaced says so itself.
ReplacedIsNotInForce ==
  \A n \in Spaces : Green(n) =>
    \A f, g \in Indexed(n) : docs[f].name \in docs[g].supersedes => docs[f].status = "superseded"

\* Time alone never turns a lane red: a review that is overdue is advice.
TimeAloneNeverFails == [][day' # day => \A n \in Spaces : Green(n) => Green(n)']_vars

(* Expectations the code does not meet; the README says what refutes them. *)

\* A citation from core-docs into a client hub fails closed.
CoreCitesNoHub == Green(Core) => \A f \in governed(Core) : \A c \in citations(f) : ~Leaves(f, c)

\* A citation of a transitional RFC is checked like any other.
TransitionalIsChecked ==
  \A n \in Spaces : Green(n) =>
    \A f \in governed(n) : \A c \in citations(f) :
      ~Leaves(f, c) /\ c.id.number >= Floor => c.id \in ids_in_tree(n) \cup reserved[n]

\* Every ADR declares a domain, and every ADR of a platform concern what binds it.
DecisionsAreTagged ==
  \A n \in Spaces : Green(n) =>
    \A f \in Numbered(n) \cap Parsed(n) : docs[f].name.prefix = "ADR" =>
      /\ docs[f].domain \in Vocabulary[n]
      /\ docs[f].domain \in PlatformConcerns[n] => docs[f].authority # Silent
=============================================================================
