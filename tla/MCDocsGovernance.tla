--------------------------- MODULE MCDocsGovernance ---------------------------
(* Values of the constants of DocsGovernance for TLC: a platform decision that
   replaced another, a transitional RFC, a standard that cites both, a name that
   is free, and a decision of a hub. *)
EXTENDS DocsGovernance

SixFiles == {"old", "new", "move", "logs", "spare", "topology"}
Owners == {"platform"}
Home == [f \in SixFiles |-> IF f = "topology" THEN Hub ELSE Core]

A1 == Id("ADR", 1)
A2 == Id("ADR", 2)
A3 == Id("ADR", 3)
R9 == Id("RFC", 9001)
Cites(to, i, linked) == [to |-> to, id |-> i, linked |-> linked]

Blank == [dir |-> "none", name |-> A3, head |-> "ok", id |-> A3, owner |-> "platform", status |-> "accepted",
          cycle |-> "event-driven", reviewed |-> -1, supersedes |-> {}, superseded_by |-> {}, doc_type |-> "adr",
          domain |-> "events", authority |-> Silent, related |-> {}, links |-> {}, cites |-> {}, says |-> {}]
Library ==
  [f \in SixFiles |->
    CASE f = "old" -> [Blank EXCEPT !.dir = "adrs", !.name = A1, !.id = A1, !.status = "superseded", !.superseded_by = {A2}]
      [] f = "new" -> [Blank EXCEPT !.dir = "adrs", !.name = A2, !.id = A2, !.supersedes = {A1}, !.related = {A1},
                                    !.links = {A1}, !.cycle = "quarterly"]
      [] f = "move" -> [Blank EXCEPT !.dir = "rfcs", !.name = R9, !.id = R9, !.doc_type = "rfc", !.domain = "-"]
      [] f = "logs" -> [Blank EXCEPT !.dir = "standards", !.name = NoId, !.doc_type = "standard", !.domain = "-",
                                     !.says = {"logging"}, !.cites = {Cites("-", A2, FALSE), Cites("-", R9, FALSE)}]
      [] f = "spare" -> Blank
      [] f = "topology" -> [Blank EXCEPT !.dir = "adrs", !.name = A1, !.id = A1, !.domain = "network",
                                         !.authority = {A2}, !.cites = {Cites("Core", A2, TRUE)}]]

Values(field) ==
  CASE field = "dir" -> {"none", "adrs", "rfcs", "standards", "templates", "notes", "adr"}
    [] field \in {"name", "id"} -> {NoId, A1, A2, A3, R9}
    [] field = "head" -> {"ok", "flow", "none", "broken"}
    [] field = "owner" -> {"platform", "nobody"}
    [] field = "status" -> {"accepted", "superseded"}
    [] field = "cycle" -> {"event-driven", "quarterly"}
    [] field = "reviewed" -> {-1, 0}
    [] field \in {"supersedes", "superseded_by"} -> {{}, {A1}, {A2}}
    [] field = "doc_type" -> {"-", "adr", "rfc", "decision"}
    [] field = "domain" -> {"-", "events", "sales", "network"}
    [] field = "authority" -> {Silent, {}, {A2}, {A3}}
    [] field \in {"related", "links"} -> {{}, {A1}}
    [] field = "cites" -> {{}} \cup {{c} : c \in {Cites("-", A2, FALSE), Cites("-", A3, TRUE), Cites("-", R9, FALSE),
                                              Cites("Core", A1, FALSE), Cites("Core", A3, TRUE), Cites("Core", R9, TRUE),
                                              Cites("core", A2, TRUE), Cites("InboxxHQ", A1, TRUE)}}
    [] field = "says" -> {{}, {"sibling"}, {"logging"}, {"line"}}
=============================================================================
