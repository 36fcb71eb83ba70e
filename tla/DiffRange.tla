------------------------------ MODULE DiffRange ------------------------------
(***************************************************************************)
(* What a push or a pull request changed, and the two verdicts that let a  *)
(* pipeline skip jobs: documentation only (scripts/docs-only-diff.py) and  *)
(* dependency pins only (scripts/pin-only-diff.py), both over the range    *)
(* scripts/diffrange.py resolves.                                          *)
(*                                                                         *)
(* A tree is reduced to the pieces the verdicts tell apart.  go.mod is one *)
(* file with three of them: its requirements, the directives on a line of  *)
(* their own, and the lines inside a replace, exclude or retract block.    *)
(***************************************************************************)
EXTENDS Integers, Sequences, FiniteSets

CONSTANTS
  MaxCommits,  \* bound: commits of the repository, the first one included
  MaxEvents,   \* bound: events
  Edits        \* the sets of pieces one commit may change

VARIABLES
  commits,  \* every commit: its parents and its tree
  main,     \* the tip of main; 0 before its first push
  was,      \* the tip of main before the last event
  event,    \* the last event and its payload
  events    \* counts events (bound)

diffVars == <<commits, main, was, event, events>>

Pieces == {"prose", "guide", "source", "require", "rule", "block", "sum"}

ASSUME BoundAssumption == {MaxCommits, MaxEvents} \subseteq Nat
ASSUME EditsAssumption == Edits \subseteq SUBSET Pieces \ {{}}

\* guide.md is named by a go:embed directive, README.md by none.
PathOf == [prose |-> "README.md", guide |-> "guide.md", source |-> "main.go", require |-> "go.mod",
           rule |-> "go.mod", block |-> "go.mod", sum |-> "go.sum"]
Tree == [Pieces -> 0 .. 1]  \* 0: prose and source are absent, the others have their first text

Ids == DOMAIN commits
anc == LET f[c \in Ids] == {c} \cup UNION {f[p] : p \in commits[c].parents} IN f
Ancestor(b, h) == b \in anc[h]
Net(t, u) == {p \in Pieces : t[p] # u[p]}
TreeOf(c) == commits[c].tree

NoEvent == [name |-> "none", base |-> 0, head |-> 0, forced |-> FALSE, held |-> TRUE]

DiffInit ==
  /\ commits = << [parents |-> {}, tree |-> [p \in Pieces |-> IF p \in {"guide", "source"} THEN 1 ELSE 0]] >>
  /\ main = 0 /\ was = 0 /\ event = NoEvent /\ events = 0

-----------------------------------------------------------------------------
(* The repository *)

Add(parents, tree) ==
  /\ Len(commits) < MaxCommits
  /\ commits' = Append(commits, [parents |-> parents, tree |-> tree])
  /\ UNCHANGED <<main, was, event, events>>

Commit(c) ==
  \E edit \in Edits :
    Add({c}, [p \in Pieces |-> IF p \in edit THEN 1 - TreeOf(c)[p] ELSE TreeOf(c)[p]])

\* A merge takes each piece from one side.
Merge(c, d) ==
  /\ c < d /\ ~Ancestor(c, d)
  /\ \E t \in Tree : /\ \A p \in Pieces : t[p] \in {TreeOf(c)[p], TreeOf(d)[p]}
                     /\ Add({c, d}, t)

Happens(e) ==
  /\ events < MaxEvents /\ events' = events + 1
  /\ event' = e /\ was' = main
  /\ UNCHANGED commits

\* held: the clone of the job has, or can fetch, both ends of the range.
Push(c) ==
  /\ c # main
  /\ \E held \in BOOLEAN :
       Happens([name |-> "push", base |-> main, head |-> c, held |-> held,
                forced |-> main # 0 /\ ~Ancestor(main, c)])
  /\ main' = c

OpenPR(c) ==
  /\ main # 0 /\ ~Ancestor(c, main)
  /\ \E held \in BOOLEAN :
       Happens([name |-> "pull_request", base |-> main, head |-> c, held |-> held, forced |-> FALSE])
  /\ UNCHANGED main

Dispatch ==
  /\ main # 0
  /\ Happens([NoEvent EXCEPT !.name = "workflow_dispatch", !.head = main])
  /\ UNCHANGED main

DiffNext ==
  \/ \E c \in Ids : Commit(c) \/ Push(c) \/ OpenPR(c) \/ \E d \in Ids : Merge(c, d)
  \/ Dispatch

DiffSpec == DiffInit /\ [][DiffNext]_diffVars

-----------------------------------------------------------------------------
(* diffrange.py *)

\* The newest commits both sides have.
MergeBase(b, h) ==
  LET common == anc[b] \cap anc[h]
  IN {c \in common : \A d \in common : Ancestor(c, d) => d = c}

\* The range of an event: one pair, or none that can be trusted.
resolve_range(e) ==
  CASE e.name = "push" ->
         IF e.base # 0 /\ ~e.forced /\ e.held /\ Ancestor(e.base, e.head)
         THEN {<<e.base, e.head>>} ELSE {}
    [] e.name = "pull_request" ->
         IF e.held THEN {<<b, e.head>> : b \in MergeBase(e.base, e.head)} ELSE {}
    [] OTHER -> {}

\* What one commit touched, as git log lists it: nothing for a merge.
Touched(c) ==
  IF Cardinality(commits[c].parents) = 1
  THEN UNION {Net(TreeOf(p), TreeOf(c)) : p \in commits[c].parents} ELSE {}

\* Both readings: the net difference, and the union of the commits.
changed_paths_Mutant(b, h) ==  \* the net difference alone
  {PathOf[p] : p \in Net(TreeOf(b), TreeOf(h))}
changed_paths_Renames(b, h) ==  \* without --no-renames a move shows its new name only
  LET Shown(t, u) == Net(t, u) \ (IF t.source > u.source /\ u.prose > t.prose THEN {"source"} ELSE {})
  IN {PathOf[p] : p \in Shown(TreeOf(b), TreeOf(h))
        \cup UNION {UNION {Shown(TreeOf(p), TreeOf(c)) : p \in commits[c].parents} : c \in anc[h] \ anc[b]}}
changed_paths(b, h) ==
  {PathOf[p] : p \in Net(TreeOf(b), TreeOf(h)) \cup UNION {Touched(c) : c \in anc[h] \ anc[b]}}

-----------------------------------------------------------------------------
(* The verdicts *)

is_documentation(path) == path = "README.md"

docs_only(e) ==
  \E r \in resolve_range(e) :
    LET paths == changed_paths(r[1], r[2])
    IN paths # {} /\ \A p \in paths : is_documentation(p)

is_pin_file(path) == path \in {"go.mod", "go.sum"}

\* The line of a block starts with a module path or a version: it has a dot.
is_pin_line_Mutant(p) == TRUE  \* the name of the file is enough
is_pin_line(p) == p \in {"require", "block"}

go_mod_is_pins_only(b, h) ==
  LET lines == {p \in Net(TreeOf(b), TreeOf(h)) : PathOf[p] = "go.mod"}
  IN lines # {} /\ \A p \in lines : is_pin_line(p)

pin_only(e) ==
  \E r \in resolve_range(e) :
    LET paths == changed_paths(r[1], r[2])
    IN /\ paths # {} /\ \A p \in paths : is_pin_file(p)
       /\ "go.mod" \in paths => go_mod_is_pins_only(r[1], r[2])

-----------------------------------------------------------------------------

\* The pieces main gets different ones of: by the push, or by merging the pull request.
Arrives ==
  CASE event.name = "push" /\ was # 0 -> Net(TreeOf(was), TreeOf(main))
    [] event.name = "pull_request" ->
         {p \in Pieces : \E b \in MergeBase(was, event.head) :
            TreeOf(event.head)[p] # TreeOf(b)[p] /\ TreeOf(event.head)[p] # TreeOf(was)[p]}
    [] OTHER -> Pieces

\* Each side merged the other since they forked: git merge-base then names one of
\* several newest common commits, and the diff is read from that one.
CrissCross ==
  event.name = "pull_request" /\ \E b, c \in MergeBase(event.base, event.head) : b # c

\* A change that skips the gates as documentation brings nothing a gate reads
\* to main, after force pushes, merges, reverts and moves of files included;
\* unless the branch and main merged each other.
DocsBringNoCode == docs_only(event) /\ ~CrissCross => Arrives \subseteq {"prose"}

\* What the scanners read is what it was before a change that skips them as
\* pins; unless the branch and main merged each other.
PinsBringNoSource == pin_only(event) /\ ~CrissCross => Arrives \subseteq {"require", "sum"}

\* Code that a later commit of the same push takes back still runs every gate.
EveryCommitIsDocs ==
  docs_only(event) =>
    \A c \in anc[event.head] \ anc[was] : Touched(c) \subseteq {"prose"}

(* An expectation the code does not meet; the README says what refutes it. *)

\* The same as DocsBringNoCode, whatever merged what.
DocsNeverBringCode == docs_only(event) => Arrives \subseteq {"prose"}
=============================================================================
