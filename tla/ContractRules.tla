---------------------------- MODULE ContractRules ----------------------------
(***************************************************************************)
(* The controls API-0001 .. API-0015 of scripts/check-api-contract.py over *)
(* a tree: how many violations each counts.  The control ids are those of  *)
(* controls/api-contract.yaml.                                             *)
(***************************************************************************)
EXTENDS SourceTree

CONSTANTS
  Operations,          \* operations of docs/openapi.json
  PathOf, MethodOf,    \* of each
  SingleResourcePaths, \* the paths that end in a template parameter
  NonResourcePaths,    \* the paths with a health, metrics or version segment
  ComponentNames,      \* the common.v1 components of the accepted sets
  AcceptedVintages     \* the sets a spec may reproduce (ReferenceWindow moves them)

ASSUME ContractAssumption ==
  /\ DOMAIN PathOf = Operations /\ DOMAIN MethodOf = Operations
  /\ \A o, p \in Operations : PathOf[o] = PathOf[p] /\ MethodOf[o] = MethodOf[p] => o = p
  /\ AcceptedVintages # {} /\ IsFiniteSet(AcceptedVintages)

RUNTIME_DOCS_MARKERS == {"swaggerpolicy", "gin-swagger", "openapiroutes.Register", "swagger build tag", "/swagger route", "/api/docs route"}
PAGINATION_PARAM_NAMES == {"page", "pagesize", "limit", "offset", "cursor"}
SECURITY_HEADERS_REQUIRED == {"Strict-Transport-Security", "X-Content-Type-Options", "Referrer-Policy", "Permissions-Policy"}
CSP == "Content-Security-Policy"
Statuses == {"200", "400", "412", "428"}  \* of the responses modelled
NON_IDEMPOTENT_METHODS == {"post", "patch"}

(* The spec *)
spec_error(T) == <<"spec", "-", "file", "broken">> \in T
has_http_api(T) == spec_error(T) \/ <<"spec", "-", "file", "parsed">> \in T
operations(T) == {o \in Operations : has_http_api(T) /\ ~spec_error(T) /\ <<"op", o, "there", "-">> \in T}
Part(T, o, part, value) == <<"op", o, part, value>> \in T
\* A part written in the operation itself; what it has once a $ref is followed.
Inline(T, o, part) == Part(T, o, part, "inline")
Resolved_Mutant(T, o, part) == Inline(T, o, part)  \* the $ref is not followed
Resolved(T, o, part) == Inline(T, o, part) \/ Part(T, o, part, "shared")
\* A response that is declared: its key is there before any $ref is followed.
Declared(T, o, status) == Inline(T, o, status) \/ Part(T, o, status, "shared")
\* What the response carries: an "item" or an "array" in the envelope, or something "bespoke".
Body(T, o, status, shape) == <<"body", o, status, shape>> \in T
\* A spec that does not parse is one violation of every control that reads it.
OfSpec(T, n) == IF spec_error(T) THEN 1 ELSE n

(* The detectors *)
no_runtime_docs(T) ==
  Cardinality(UNION {FilesOf(Runtime(T, m, Text)) \X {m} : m \in RUNTIME_DOCS_MARKERS})
single_committed_spec(T) == Cardinality({t \in T : t[1] = "file" /\ t[3] = "rival spec"})
shared_conformance_suite(T) ==
  Cardinality((FilesOf(Holds(T, "kin-openapi", Text)) \cap TestFiles) \ FilesOf(Holds(T, "conformance import", Text)))
\* A response that is a $ref has no content of its own, and is read as bodiless.
canonical_envelope(T) ==
  OfSpec(T, Cardinality({a \in operations(T) \X Statuses : Inline(T, a[1], a[2]) /\ Body(T, a[1], a[2], "bespoke")}))
operation_ids_governed(T) ==
  LET ids == {t \in T : t[1] = "op" /\ t[2] \in operations(T) /\ t[3] = "operationId"}
      missing == Cardinality(operations(T)) - Cardinality(ids)
      duplicates == Cardinality(ids) - Cardinality({t[4] : t \in ids})
      unlocked == operations(T) # {} /\ <<"file", "docs/openapi.operationids.lock.json", "lock", "-">> \notin T
  IN OfSpec(T, missing + duplicates + (IF unlocked THEN 1 ELSE 0))
no_swaggo_annotation_source(T) == Cardinality({t \in T : t[1] = "file" /\ t[3] = "swagger_main.go"})

\* The distance to the nearest accepted set, taken whole.
compare_to_accepted_sets(T) ==
  Min({Cardinality({n \in ComponentNames : <<"component", "-", n, v>> \notin T}) : v \in AcceptedVintages})
canonical_components_current(T) ==
  OfSpec(T, IF \E t \in T : t[1] = "component" THEN compare_to_accepted_sets(T) ELSE 0)

response_is_collection(T, o) == Resolved(T, o, "200") /\ Body(T, o, "200", "array")

\* A read of one resource carries an ETag, and where it does each write of the
\* same path takes If-Match and answers 412 and 428.
conditional_requests(T) ==
  LET Read(o) == /\ MethodOf[o] = "get" /\ PathOf[o] \in SingleResourcePaths \ NonResourcePaths
                 /\ ~Part(T, o, "deprecated", "-") /\ ~\E n \in PAGINATION_PARAM_NAMES : Resolved(T, o, n)
                 /\ Declared(T, o, "200") /\ ~response_is_collection(T, o)
      reads == {o \in operations(T) : Read(o)}
      tagged == {o \in reads : Resolved(T, o, "200") /\ Part(T, o, "ETag", "-")}
      Guarded(o) == Resolved(T, o, "If-Match") /\ Declared(T, o, "412") /\ Declared(T, o, "428")
      writes == {o \in operations(T) : MethodOf[o] \in {"put", "patch", "delete"} /\ PathOf[o] \in {PathOf[r] : r \in tagged}}
  IN OfSpec(T, Cardinality(reads \ tagged) + Cardinality({o \in writes : ~Guarded(o)}))

\* Comments count here: nothing is stripped.
cache_key_declared(T) == Cardinality(Runtime(T, "Cache-Control storable", Text) \ Runtime(T, "Vary", Text))
standard_ratelimit_fields(T) ==
  Cardinality(Runtime(T, "X-RateLimit", Stripped))
    + Cardinality((Runtime(T, "429", Blanked) \cap Runtime(T, "response writer", Blanked)) \ Runtime(T, "Retry-After", Stripped))
patch_media_type(T) ==
  OfSpec(T, Cardinality({o \in operations(T) : MethodOf[o] = "patch" /\ ~Part(T, o, "requestBody", "merge-patch")}))
honours_idempotency_key(T) ==
  \/ Marked(T, "reads Idempotency-Key", Text)
  \/ \E f \in MiddlewareFiles : \A m \in {"Idempotency-Key", "reads a header"} : f \in FilesOf(Runtime(T, m, Text))
\* A shared parameter is not followed here.
idempotency_declared(T) ==
  IF ~honours_idempotency_key(T) THEN 0
  ELSE OfSpec(T, Cardinality({o \in operations(T) : MethodOf[o] \in NON_IDEMPOTENT_METHODS /\ ~Inline(T, o, "Idempotency-Key")}))
protocol_version_pinned(T) == OfSpec(T, IF <<"spec", "-", "openapi", "3.0.3">> \in T THEN 0 ELSE 1)
trace_context_propagated(T) ==
  Cardinality(UNION {Runtime(T, m, Blanked) \X {m} : m \in {"http.DefaultClient", "http.Get(", "bare http.Client{}"}})

\* A name with a value, in a document that parses.
config_header_rules(T) == {t[3] : t \in {u \in T : u[1] = "yaml" /\ u[4] = "value" /\ <<"yaml", u[2], "file", "broken">> \notin T}}
header_set_anywhere(T, h) ==
  \/ Marked(T, h, Text)
  \/ h \in SECURITY_HEADERS_REQUIRED /\ Marked(T, "SecurityHeaders()", Text)
  \/ h = CSP /\ Marked(T, "WithContentSecurityPolicy()", Text)
  \/ h \in config_header_rules(T)
security_response_headers(T) ==
  Cardinality({h \in SECURITY_HEADERS_REQUIRED \cup (IF Marked(T, "text/html", Text) THEN {CSP} ELSE {}) :
                 ~header_set_anywhere(T, h)})

(* The catalog *)
ApiControls ==
  {"API-0001", "API-0002", "API-0003", "API-0004", "API-0005", "API-0006", "API-0007", "API-0008", "API-0009",
   "API-0010", "API-0011", "API-0012", "API-0013", "API-0014", "API-0015"}
HttpApiOnly == ApiControls \ {"API-0001", "API-0002", "API-0006", "API-0009", "API-0010", "API-0014"}
Minor == {"API-0006"}  \* below the lanes' --fail-on major

ApiCount(c, T) ==
  CASE c = "API-0001" -> no_runtime_docs(T)
    [] c = "API-0002" -> single_committed_spec(T)
    [] c = "API-0003" -> shared_conformance_suite(T)
    [] c = "API-0004" -> canonical_envelope(T)
    [] c = "API-0005" -> operation_ids_governed(T)
    [] c = "API-0006" -> no_swaggo_annotation_source(T)
    [] c = "API-0007" -> canonical_components_current(T)
    [] c = "API-0008" -> conditional_requests(T)
    [] c = "API-0009" -> cache_key_declared(T)
    [] c = "API-0010" -> standard_ratelimit_fields(T)
    [] c = "API-0011" -> patch_media_type(T)
    [] c = "API-0012" -> idempotency_declared(T)
    [] c = "API-0013" -> protocol_version_pinned(T)
    [] c = "API-0014" -> trace_context_propagated(T)
    [] c = "API-0015" -> security_response_headers(T)
=============================================================================
