------------------------------ MODULE SourceTree ------------------------------
(***************************************************************************)
(* What the gates of a service repository see of its tree: a set of facts  *)
(* <<kind, owner, name, value>>, of which a place <<kind, owner, name>>    *)
(* holds at most one.                                                      *)
(*                                                                         *)
(*   <<"go", fn, mark, view>>     a Go function holds a text a detector    *)
(*                                looks for: as code, inside a string      *)
(*                                literal, or in a comment                 *)
(*   <<"yaml", file, key, value>> a YAML document says so, or is broken    *)
(*   <<"file", file, role, "-">>  the file is there, under a telling name  *)
(*   <<"op", o, part, value>>     an operation of docs/openapi.json has    *)
(*                                the part: inline or by a shared $ref     *)
(*   <<"spec" | "contract" | "go.mod" | "component", ...>>  the rest       *)
(*                                                                         *)
(* Vendored code, testdata and dot-directories hold no facts: no gate      *)
(* reads them.                                                             *)
(***************************************************************************)
EXTENDS Integers, FiniteSets, FiniteSetsExt

CONSTANTS
  Functions,        \* top-level Go functions
  FileOf,           \* the file of each
  TestFiles,        \* the files named *_test.go
  MiddlewareFiles   \* the files with "middleware" in their path

ASSUME SourceAssumption == DOMAIN FileOf = Functions

\* A function stands for its span: the closures inside it, and no doc comment
\* of the next one.
Text == {"code", "string", "comment"}
Stripped == {"code", "string"}  \* comments blanked, strings kept
Blanked == {"code"}             \* the contents of strings blanked as well

Holds(T, mark, views) == {s \in Functions : \E v \in views : <<"go", s, mark, v>> \in T}
runtime_sources == {s \in Functions : FileOf[s] \notin TestFiles}
Runtime(T, mark, views) == Holds(T, mark, views) \cap runtime_sources
Marked(T, mark, views) == Runtime(T, mark, views) # {}
FilesOf(S) == {FileOf[s] : s \in S}

\* The facts about one file, and the same facts about it elsewhere under a new name.
OfFile(T, f) == {t \in T : (t[1] = "go" /\ FileOf[t[2]] = f) \/ (t[1] \in {"yaml", "file"} /\ t[2] = f)}
Renamed(facts, g) == {IF t[1] = "go" THEN t ELSE [t EXCEPT ![2] = g] : t \in facts}
=============================================================================
