----------------------------- MODULE GatewayRules -----------------------------
(***************************************************************************)
(* The controls GW-0001 .. GW-0008 of scripts/check-gateway-baseline.py    *)
(* over the tree T of a repository r: the violations each counts, or that  *)
(* it cannot tell.  The control ids are those of                           *)
(* controls/gateway-baseline.yaml.                                         *)
(***************************************************************************)
EXTENDS SourceTree

CONSTANTS
  GatewayNamed,    \* repositories named *-gateway or *-bff
  EdgeNamed,       \* those named edge-gateway
  Defaults,        \* YAML files of the global defaults layer: config/, but its surfaces/ and environments/
  BaselineConfigs, \* the path platform/gatewaybaseline/config/*.yaml
  YamlFiles,       \* every YAML path
  FloorRecorded    \* module-floors.yaml has a stable floor for platform-shared-go

ASSUME GatewayAssumption ==
  Defaults \cup BaselineConfigs \subseteq YamlFiles /\ EdgeNamed \subseteq GatewayNamed /\ FloorRecorded \in BOOLEAN

OWNED_KEYS == {"auth", "authz", "headers", "ratelimit", "security"}
Indeterminate == -1

Visible == Stripped  \* this script has a copy of the state machine of its own

(* The repository *)
broken(T, f) == <<"yaml", f, "file", "broken">> \in T
yaml_docs(T) == {t \in T : t[1] = "yaml" /\ ~broken(T, t[2])}
yaml_errors(T) == \E f \in YamlFiles \cup {"service.contract.yaml"} : broken(T, f)
\* An unreadable contract declares nothing.
Contract(T, key, value) == ~broken(T, "service.contract.yaml") /\ <<"contract", "-", key, value>> \in T
is_gateway(r, T) == r \in GatewayNamed \/ Contract(T, "type", "gateway") \/ Contract(T, "type", "bff")
declares_grpc_port(T) == Contract(T, "ports", "grpc")
GRPC_ASSEMBLY == {"grpcx.NewServer", "StartGRPCServer"}
RAW_GRPC_SERVER == "grpc.NewServer"
assembles_grpc_server(T) == \E m \in GRPC_ASSEMBLY \cup {RAW_GRPC_SERVER} : Marked(T, m, Visible)
has_grpc(T) == declares_grpc_port(T) \/ assembles_grpc_server(T)
owns_shared_baseline(T) == \E t \in T : t[1] = "yaml" /\ t[2] \in BaselineConfigs
\* What the contract says decides, then the name.
InternetFacing(r, T) ==
  ~Contract(T, "internet_facing", "false") /\ (Contract(T, "internet_facing", "true") \/ r \in EdgeNamed)
\* A direct requirement of platform-shared-go at a stable version, of no other's source.
PinnedAtFloor(T) == <<"go.mod", "-", "pin", "at floor">> \in T /\ <<"go.mod", "-", "replace", "-">> \notin T
excepted(T) == {k \in OWNED_KEYS : <<"exception", "-", k, "reason">> \in T}

(* The detectors *)
\* Violations decide; without any, what cannot be classified does.
Decide(violations, uncertain) == IF violations = {} /\ uncertain THEN Indeterminate ELSE Cardinality(violations)

shared_baseline_loaded(r, T) ==
  CASE Marked(T, "baseline import", Visible) /\ Marked(T, "baseline.Load", Visible) -> 0
    [] OTHER -> IF InternetFacing(r, T) THEN 1
                ELSE IF Contract(T, "internet_facing", "false") THEN 0 ELSE Indeterminate
no_local_policy_redefinition(T) ==
  Cardinality({t \in yaml_docs(T) : t[2] \in Defaults /\ t[3] \in OWNED_KEYS \ excepted(T)})
\* An absent, replaced, indirect, unstable or older pin is a violation.
module_floor(T) ==
  IF ~FloorRecorded THEN Indeterminate
  ELSE IF PinnedAtFloor(T) THEN 0 ELSE 1
protocol_gateway_proxy(T) ==
  LET Upstream(u) == {t \in yaml_docs(T) : t[3] = "websocket" /\ t[4] = u}
  IN Decide(Upstream("gateway"), Upstream("dynamic") # {})
\* Two copies make a tunnel: its file needs a deadline and a cap.
bounded_long_lived_connections(T) ==
  LET In(m) == FilesOf(Runtime(T, m, Visible))
      tunnels == {f \in In("io.Copy") : Cardinality({s \in Runtime(T, "io.Copy", Visible) : FileOf[s] = f}) > 1}
  IN Decide({b \in tunnels \X {"SetDeadline", "connection cap"} : b[1] \notin In(b[2])}, In("io.Copy") \ tunnels # {})
grpc_decision_hops(T) ==
  Decide({t \in yaml_docs(T) : t[3] \in {"validate_endpoint", "check_endpoint"} /\ t[4] = "http"}, yaml_errors(T))
\* Evidence anywhere in the repository credits every server in it.
GrpcEvidence == GRPC_ASSEMBLY \cup {"authn interceptor", "authz interceptor", "UnaryInterceptor", "StreamInterceptor"}
grpc_interceptor_security(T) ==
  LET Seen(m) == Marked(T, m, Visible)
      Chains == \A m \in {"authn interceptor", "authz interceptor", "UnaryInterceptor", "StreamInterceptor"} : Seen(m)
  IN CASE \E m \in GRPC_ASSEMBLY : Seen(m) -> 0
       [] OTHER -> IF ~Seen(RAW_GRPC_SERVER) THEN Indeterminate
                   ELSE IF Chains THEN 0
                   ELSE IF Seen("authn interceptor") \/ Seen("authz interceptor") THEN Indeterminate ELSE 1
tls_backend_hops(T) == Decide(Runtime(T, "net.Dial backend", Visible), Marked(T, "net.Dial", Visible))

(* The catalog *)
GwControls == {"GW-0001", "GW-0002", "GW-0003", "GW-0004", "GW-0005", "GW-0006", "GW-0007", "GW-0008"}
\* The controls on the content of the perimeter follow it to the repository that holds it.
applies_Mutant(r, c, T) ==  \* to gateways alone
  IF c = "GW-0007" THEN has_grpc(T) ELSE is_gateway(r, T)
applies(r, c, T) ==
  CASE c = "GW-0006" -> is_gateway(r, T) \/ owns_shared_baseline(T)
    [] c = "GW-0007" -> has_grpc(T)
    [] OTHER -> is_gateway(r, T)

GwFinding(r, c, T) ==
  CASE c = "GW-0001" -> shared_baseline_loaded(r, T)
    [] c = "GW-0002" -> no_local_policy_redefinition(T)
    [] c = "GW-0003" -> module_floor(T)
    [] c = "GW-0004" -> protocol_gateway_proxy(T)
    [] c = "GW-0005" -> bounded_long_lived_connections(T)
    [] c = "GW-0006" -> grpc_decision_hops(T)
    [] c = "GW-0007" -> grpc_interceptor_security(T)
    [] c = "GW-0008" -> tls_backend_hops(T)
=============================================================================
