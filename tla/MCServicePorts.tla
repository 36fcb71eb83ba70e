---------------------------- MODULE MCServicePorts ----------------------------
(* Values of the constants of ServicePorts for TLC: a service behind a gateway,
   each with its repository, and a second directory of the service's. *)
EXTENDS ServicePorts

TwoServices == {"auth-service", "edge-gateway"}
ThreeRepos == {"auth-service", "auth-copy", "edge-gateway"}
OneGateway == {"edge-gateway"}
Declared == [r \in ThreeRepos |-> IF r = "edge-gateway" THEN r ELSE "auth-service"]
ReadsOld == [s \in TwoServices |-> IF s = "auth-service" THEN "HTTP_PORT" ELSE "PORT"]

\* The gateway serves no gRPC; local numbers are 41xx and 42xx, by service.
Local(s, k) == (IF s = "auth-service" THEN 4100 ELSE 4200) + (CASE k = "http" -> 1 [] k = "grpc" -> 2 [] OTHER -> 3)
Runs(s, k) == k \in Concerns /\ (k = "grpc" => s = "auth-service")
Fleet ==
  [p \in Places |->
    CASE p[1] \in {"port", "target", "container"} -> IF Runs(p[2], p[3]) THEN Concern[p[3]] ELSE None
      [] p[1] = "env" -> IF p[3] # "HTTP_PORT" /\ Runs(p[2], PORT_ENV_CONCERN[p[3]]) THEN Concern[PORT_ENV_CONCERN[p[3]]] ELSE None
      [] p[1] \in {"listener", "local"} /\ p[3] = "entry" -> 1
      [] p[1] = "listener" -> IF Runs(p[2], p[3]) THEN 1 ELSE 0
      [] p[1] \in {"alloc", "local"} -> IF Runs(p[2], p[3]) THEN Local(p[2], p[3]) ELSE 0
      [] p[1] = "contract" -> IF Runs(Declared[p[2]], p[3]) THEN Concern[p[3]] ELSE None
      [] p[1] = "example" -> IF Runs(Declared[p[2]], PORT_ENV_CONCERN[p[3]]) THEN Local(Declared[p[2]], PORT_ENV_CONCERN[p[3]]) ELSE None
      [] p[1] = "bind" -> IF p[3] = "local" THEN Local(p[2], "http") ELSE 8080
      [] p[1] \in {"expose", "health", "catalog", "probe"} -> 8080
      [] p[1] = "checkout" -> IF p[2] = "auth-copy" THEN 2 ELSE 1
      [] p[1] = "pin" -> 148
      [] p[1] = "resolves" -> IF p[2] = "edge-gateway" THEN 1 ELSE 0
      [] p[1] \in {"scrape", "manifests", "address"} -> 0
      [] OTHER -> None]

\* What a commit writes by mistake: another constant, a number of the withdrawn
\* allocation, a reserved port, nothing; or the opposite of a flag.
Slips(p) ==
  CASE p[1] \in {"resolves", "manifests", "address"} \/ p[3] = "entry" \/ p[1] = "listener" -> {0, 1}
    [] p[1] = "checkout" -> {0, 1, 2}
    [] p[1] = "pin" -> {None, 147, 148}
    [] p[1] \in {"alloc", "local", "example"} -> {None, 4101, 4201, 8080, 3000} \ (IF p[1] = "local" THEN {None} ELSE {})
    [] p[1] = "scrape" -> {None, 9464, 4103}
    [] p[1] = "pprof" -> {None, 6060, 6061}
    [] p[1] = "bind" -> {None, 8080, 4101, 4201}
    [] OTHER -> {None, 8080, 50051, 4101}
=============================================================================
