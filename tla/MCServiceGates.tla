---------------------------- MODULE MCServiceGates ----------------------------
(* Values of the constants of ServiceGates for TLC: an edge gateway, a service
   and its -core module, and the shared library, with debt frozen in two. *)
EXTENDS ServiceGates

FourRepos == {"edge-gateway", "order-service", "order-core", "platform-shared-go"}
Fns == {"handler", "client", "serve", "tunnel", "copier", "probe_test"}
FileOfFn == [s \in Fns |-> CASE s = "probe_test" -> "probe_test.go" [] s = "serve" -> "grpc.go"
                            [] s \in {"tunnel", "copier"} -> "tunnel.go" [] OTHER -> "middleware/http.go"]
Tests == {"probe_test.go"}
Middleware == {"middleware/http.go"}

Ops == {"read", "replace", "create", "amend"}
Paths == [o \in Ops |-> IF o = "create" THEN "/orders" ELSE "/orders/{id}"]
Methods == [o \in Ops |-> CASE o = "read" -> "get" [] o = "replace" -> "put" [] o = "create" -> "post" [] OTHER -> "patch"]
OnePath == {"/orders/{id}"}
Components == {"common.v1.ErrorResponse", "common.v1.ErrorCode"}
Vintages == {"current", "previous"}

AuthYaml == "config/base/auth.yaml"
SharedYaml == "platform/gatewaybaseline/config/auth.yaml"
LimitsYaml == "platform/gatewaybaseline/config/limits.yaml"
DefaultYaml == {AuthYaml}
BaselineYaml == {SharedYaml, LimitsYaml}
AllYaml == {AuthYaml, SharedYaml, LimitsYaml, "config/surfaces/live.yaml"}
Edge == {"edge-gateway"}

\* A service with an API in order, one bespoke error and one bare client frozen.
Service ==
  {<<"spec", "-", "file", "parsed">>, <<"spec", "-", "openapi", "3.0.3">>,
   <<"file", "docs/openapi.operationids.lock.json", "lock", "-">>,
   <<"op", "read", "200", "inline">>, <<"op", "read", "ETag", "-">>, <<"body", "read", "200", "item">>,
   <<"op", "replace", "If-Match", "inline">>, <<"op", "replace", "412", "inline">>, <<"op", "replace", "428", "inline">>,
   <<"op", "create", "400", "inline">>, <<"body", "create", "400", "bespoke">>,
   <<"go", "handler", "SecurityHeaders()", "code">>, <<"go", "client", "bare http.Client{}", "code">>,
   <<"contract", "-", "ports", "grpc">>, <<"go", "serve", "grpc.NewServer", "code">>}
    \cup {<<"op", o, "there", "-">> : o \in {"read", "replace", "create"}}
    \cup {<<"op", o, "operationId", o>> : o \in {"read", "replace", "create"}}
    \cup {<<"component", "-", n, "current">> : n \in Components}
Trees ==
  [r \in FourRepos |->
    CASE r = "order-service" -> Service
      [] r = "edge-gateway" -> {<<"yaml", AuthYaml, "validate_endpoint", "http">>, <<"go.mod", "-", "pin", "at floor">>,
                                <<"go", "handler", "baseline import", "code">>, <<"go", "handler", "baseline.Load", "code">>}
      [] r = "platform-shared-go" -> {<<"yaml", LimitsYaml, "there", "-">>}
      [] OTHER -> {}]

Go(marks, fn) == {<<"go", fn, m, v>> : m \in marks, v \in {"code", "comment"}}
Commits(r) ==
  CASE r = "order-service" ->
         Go({"429", "response writer", "Retry-After", "Vary", "Cache-Control storable"}, "handler")
           \cup Go({"bare http.Client{}", "reads Idempotency-Key"}, "client") \cup Go({"grpc.NewServer", "authn interceptor"}, "serve")
           \cup {<<"go", "handler", "429", "string">>, <<"go", "handler", "gin-swagger", "code">>,
                 <<"go", "handler", "text/html", "code">>, <<"go", "probe_test", "kin-openapi", "code">>,
                 <<"file", "docs/swagger.json", "rival spec", "-">>, <<"file", "swagger_main.go", "swagger_main.go", "-">>,
                 <<"spec", "-", "file", "broken">>, <<"spec", "-", "file", "parsed">>, <<"spec", "-", "openapi", "3.1.0">>,
                 <<"op", "read", "limit", "shared">>, <<"op", "read", "deprecated", "-">>, <<"body", "read", "200", "array">>,
                 <<"op", "amend", "there", "-">>, <<"op", "create", "operationId", "read">>,
                 <<"component", "-", "common.v1.ErrorCode", "previous">>}
           \cup {<<"op", "replace", p, how>> : p \in {"If-Match", "428"}, how \in {"inline", "shared"}}
           \cup {<<"op", "read", "200", how>> : how \in {"inline", "shared"}}
           \cup {<<"op", "create", "400", "shared">>, <<"op", "create", "Idempotency-Key", "shared">>}
    [] r = "edge-gateway" ->
         {<<"yaml", AuthYaml, k, "http">> : k \in {"validate_endpoint", "check_endpoint"}}
           \cup {<<"yaml", AuthYaml, "file", "broken">>, <<"yaml", AuthYaml, "auth", "-">>, <<"exception", "-", "auth", "reason">>,
                 <<"yaml", "config/surfaces/live.yaml", "websocket", "gateway">>, <<"yaml", "config/surfaces/live.yaml", "websocket", "dynamic">>,
                 <<"go.mod", "-", "pin", "below">>, <<"go", "tunnel", "net.Dial backend", "code">>, <<"go", "tunnel", "SetDeadline", "comment">>,
                 <<"go", "handler", "baseline.Load", "comment">>, <<"contract", "-", "internet_facing", "false">>}
           \cup {<<"go", s, "io.Copy", "code">> : s \in {"tunnel", "copier"}}
    [] r = "order-core" -> {<<"go", "serve", "grpcx.NewServer", "code">>, <<"go", "handler", "authn interceptor", "code">>}
    [] OTHER -> {<<"yaml", LimitsYaml, "there", "-">>, <<"yaml", LimitsYaml, "file", "broken">>, <<"yaml", SharedYaml, "check_endpoint", "http">>}
MovesOf(r) ==
  CASE r = "edge-gateway" -> {<<"platform-shared-go", AuthYaml, SharedYaml>>, <<"order-core", AuthYaml, AuthYaml>>}
    [] r = "order-service" -> {<<"order-core", "grpc.go", "grpc.go">>}
    [] OTHER -> {}

Renamed1 == {"API-0004"}
=============================================================================
