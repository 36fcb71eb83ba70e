---------------------------- MODULE ServicePorts ----------------------------
(***************************************************************************)
(* The port guard of RFC-0007 (scripts/check-service-ports.py): the places *)
(* of several repositories that write a port down, edited one at a time,   *)
(* and the controls SP-0001 .. SP-0019 that compare them.                  *)
(*                                                                         *)
(* A place is <<kind, owner, key>>.  Every overlay of a service is checked *)
(* alike, so a service has one; the workspace holds every tree, as the     *)
(* lane demands before it runs the guard, and every document parses.       *)
(***************************************************************************)
EXTENDS Integers, FiniteSets

CONSTANTS
  Services,   \* directories of inboxxhq-infra/services
  Repos,      \* directories of the workspace that hold a service repository
  Gateways,   \* those of Repos under gateways/
  ServiceOf,  \* the service name each repository declares
  Reads,      \* the variable each service takes its HTTP port from
  Compliant,  \* a fleet to start from: a port, a flag or None for every place
  Alternatives(_), \* the values an edit may write at a place
  MaxWrites    \* bound: edits

VARIABLES
  fact,   \* what every place says
  writes   \* counts the edits (bound)

portVars == <<fact, writes>>

None == -1  \* the place does not exist
Concern == [http |-> 8080, grpc |-> 50051, metrics |-> 9464]  \* CONSTANTS of the script
Concerns == DOMAIN Concern
PPROF_CONSTANT == 6060
RESERVED_PORTS == {80, 443, 3000, 9090, 9091, 9093, 3100, 3200, 4317, 4318, 9095, 5432, 6379, 8500}
CONSTANTS_REGISTRY_MIN == 148  \* v1.48.0 of platform-shared-go
PORT_ENV_CONCERN == [PORT |-> "http", HTTP_PORT |-> "http", GRPC_PORT |-> "grpc", METRICS_PORT |-> "metrics"]
Vars == DOMAIN PORT_ENV_CONCERN
RETIRED_PORT_ENV_NAMES == {"HTTP_PORT"}
ENV_EXAMPLE_VARS == Vars \ RETIRED_PORT_ENV_NAMES
PortNames == Concerns \cup {"pprof"}

(* Where a port, or a flag about one, is written, by the tree that holds it. *)
Infra ==
  ({"port", "target", "container"} \X Services \X PortNames)
    \cup ({"env"} \X Services \X Vars)
    \cup ({"probe", "pprof", "scrape", "address"} \X Services \X {"-"})
Shared ==
  ({"listener"} \X Services \X {"entry", "http", "grpc"})
    \cup ({"alloc"} \X Services \X Concerns) \cup ({"local"} \X Services \X {"entry", "http", "grpc"})
Source ==
  ({"contract"} \X Repos \X Concerns) \cup ({"example"} \X Repos \X ENV_EXAMPLE_VARS)
    \cup ({"checkout", "expose", "health", "upstream", "observability", "pin", "resolves", "manifests"}
            \X Repos \X {"-"})
    \cup ({"route"} \X Gateways \X {"-"}) \cup ({"bind"} \X Gateways \X {"local", "dev"})
Docs == {"catalog"} \X Services \X {"-"}
Places == Infra \cup Shared \cup Source \cup Docs

ASSUME PortsAssumption ==
  /\ Gateways \subseteq Repos /\ ServiceOf \in [Repos -> Services] /\ Reads \in [Services -> {"PORT", "HTTP_PORT"}]
  /\ Compliant \in [Places -> Int] /\ MaxWrites \in Nat

PortsInit == fact = Compliant /\ writes = 0

\* One commit to one repository: nothing commits to two of them at once.
Write(tree) ==
  /\ writes < MaxWrites /\ writes' = writes + 1
  /\ \E p \in tree : \E v \in Alternatives(p) : v # fact[p] /\ fact' = [fact EXCEPT ![p] = v]

\* The generated tables are written again, from the manifests and localports.yaml.
Regenerate ==
  /\ writes < MaxWrites /\ writes' = writes + 1
  /\ fact' = [p \in Places |->
       CASE p[1] = "listener" /\ p[3] # "entry" -> IF fact[<<"port", p[2], p[3]>>] = None THEN 0 ELSE 1
         [] p[1] = "local" /\ p[3] # "entry" /\ fact[<<"alloc", p[2], p[3]>>] # None -> fact[<<"alloc", p[2], p[3]>>]
         [] OTHER -> fact[p]]

PortsNext == Write(Infra) \/ Write(Shared) \/ Write(Source) \/ Write(Docs) \/ Regenerate

PortsSpec == PortsInit /\ [][PortsNext]_portVars

-----------------------------------------------------------------------------
(* What the guard reads *)

At(kind, owner, key) == fact[<<kind, owner, key>>]
Has(kind, owner, key) == At(kind, owner, key) # None
Some(kind, owner, keys) == {At(kind, owner, k) : k \in {j \in keys : Has(kind, owner, j)}}

published(s) == {n \in PortNames : Has("port", s, n)}  \* the names
all_published(s) == Some("port", s, PortNames)
container_ports(s) == Some("container", s, PortNames)
probe_ports(s) == Some("probe", s, {"-"})
overlay(s) == container_ports(s) \cup probe_ports(s) # {}  \* one that names no port by number is not read
env_ports(s) == {v \in Vars : overlay(s) /\ Has("env", s, v)}
registry == {s \in Services : At("listener", s, "entry") = 1}
local_registry == {s \in Services : At("local", s, "entry") = 1}
alloc == {s \in Services : \E k \in Concerns : Has("alloc", s, k)}
Loaded == {s \in Services : published(s) # {} \/ overlay(s)}
repo_dirs == {r \in Repos : At("checkout", r, "-") # 0}
Known(r) == ServiceOf[r] \in Loaded /\ published(ServiceOf[r]) # {}

-----------------------------------------------------------------------------
(* The detectors: each is the set of the services or repositories it accuses. *)

\* PORT is the port of its own concern, not any port of the Service.
k8s_ports_internally_consistent ==
  LET Targets(s) == {n \in published(s) : Has("target", s, n) /\ At("target", s, n) # At("port", s, n)}
      Containers(s) == {p \in container_ports(s) : published(s) # {} /\ p \notin all_published(s)}
      Probes(s) == {p \in probe_ports(s) : container_ports(s) # {} /\ p \notin container_ports(s)}
      Bound(s) == {v \in env_ports(s) : container_ports(s) # {} /\ At("env", s, v) \notin container_ports(s)}
      Crossed(s) == {v \in env_ports(s) : LET k == PORT_ENV_CONCERN[v] IN
                       IF k \in published(s) THEN At("env", s, v) # At("port", s, k) ELSE published(s) # {}}
  IN {s \in Loaded : Targets(s) \cup Bound(s) \cup Crossed(s) # {} \/ Containers(s) \cup Probes(s) # {}}

k8s_ports_match_registry ==
  LET Expected(s, k) == IF At("listener", s, k) = 1 THEN Concern[k] ELSE 0
  IN {s \in Loaded \cap registry :
        \E k \in {"http", "grpc"} : k \in published(s) /\ At("port", s, k) # Expected(s, k)}

no_reserved_ports ==
  {s \in Loaded : (all_published(s) \cup container_ports(s)) \cap RESERVED_PORTS # {}}

dockerfile_ports_are_own ==
  LET Named(r) == Some("expose", r, {"-"}) \cup Some("health", r, {"-"})
  IN {r \in repo_dirs : Known(r) /\ ~(Named(r) \subseteq all_published(ServiceOf[r]))}

\* A name the Service does not publish is taken if its number is one it does.
contract_ports_match_service_Mutant ==  \* any number the Service publishes will do
  {r \in repo_dirs : Known(r) /\ ~(Some("contract", r, Concerns) \subseteq all_published(ServiceOf[r]))}
contract_ports_match_service ==
  LET Wrong(r, s) == \E k \in Concerns : /\ Has("contract", r, k)
                                         /\ IF k \in published(s) THEN At("contract", r, k) # At("port", s, k)
                                                                  ELSE At("contract", r, k) \notin all_published(s)
  IN {s \in Loaded : "http" \in published(s) /\ At("catalog", s, "-") \notin {None, At("port", s, "http")}}
       \cup {r \in repo_dirs : Known(r) /\ Wrong(r, ServiceOf[r])}

off_constant(s) ==
  \/ \E n \in published(s) : n \notin Concerns \/ (n \in Concerns /\ At("port", s, n) # Concern[n])
  \/ \E k \in Concerns : Has("target", s, k) /\ At("target", s, k) # Concern[k]
  \/ ~(container_ports(s) \cup probe_ports(s) \subseteq {Concern[k] : k \in Concerns})
  \/ \E v \in env_ports(s) : At("env", s, v) # Concern[PORT_ENV_CONCERN[v]]
k8s_ports_are_constants == {s \in Loaded \cap registry : published(s) # {} /\ off_constant(s)}

pprof_is_the_constant_and_stays_private ==
  {s \in Loaded : \/ PPROF_CONSTANT \in all_published(s) \cup container_ports(s) \/ "pprof" \in published(s)
                  \/ overlay(s) /\ At("pprof", s, "-") \notin {None, PPROF_CONSTANT}}

\* A table without an entry cannot be read, and then there is nothing to compare.
local_allocation_is_per_service ==
  IF registry = {} \/ local_registry = {} THEN {} ELSE
  (registry \ local_registry)
    \cup {t \in local_registry : \E s \in local_registry \ {t}, k \in {"http", "grpc"} :
            At("local", s, k) = At("local", t, k) /\ At("local", s, k) # 0}

\* A scrape endpoint of 0 selects the port by name.
metrics_are_scraped_by_port_name == {s \in Loaded : At("scrape", s, "-") \notin {None, 0}}

manifest_address_vars == {s \in Services : At("address", s, "-") = 1}

resolvers_pin_a_constants_registry_Mutant == {}  \* a pin is no port
resolvers_pin_a_constants_registry ==
  {r \in repo_dirs : At("resolves", r, "-") = 1 /\ At("pin", r, "-") < CONSTANTS_REGISTRY_MIN}

port_env_has_one_name == {s \in Loaded : env_ports(s) \cap RETIRED_PORT_ENV_NAMES # {}}

local_allocation_source_is_valid_Mutant ==  \* the source alone, not what was generated from it
  {s \in alloc : \E k \in Concerns : At("alloc", s, k) \in {None, Concern[k]} \cup RESERVED_PORTS}
Invalid(s, k) ==
  \/ At("alloc", s, k) \in {None, Concern[k]} \cup RESERVED_PORTS
  \/ At("alloc", s, k) # 0 /\ \E t \in alloc \ {s} : At("alloc", t, k) = At("alloc", s, k)
local_allocation_source_is_valid ==
  IF alloc = {} THEN {"localports.yaml"} ELSE
  {s \in alloc : \E k \in Concerns : Invalid(s, k)}
    \cup {s \in local_registry : s \notin alloc \/ \E k \in {"http", "grpc"} : At("local", s, k) # At("alloc", s, k)}

env_example_matches_local_allocation ==
  {r \in repo_dirs : alloc # {} /\ \E v \in ENV_EXAMPLE_VARS :
     LET s == ServiceOf[r] k == PORT_ENV_CONCERN[v] IN
     /\ Has("example", r, v)
     /\ s \notin alloc \/ (Has("alloc", s, k) /\ At("example", r, v) # At("alloc", s, k))}

contracts_hold_no_foreign_ports == {r \in repo_dirs : Has("upstream", r, "-") \/ Has("observability", r, "-")}
routing_config_holds_no_ports == {g \in Gateways \cap repo_dirs : Has("route", g, "-")}

gateway_bind_port_is_right_for_its_environment ==
  {g \in Gateways \cap repo_dirs :
     \/ At("bind", g, "dev") \notin {None, Concern.http}
     \/ /\ At("alloc", ServiceOf[g], "http") \notin {None, 0}
        /\ At("bind", g, "local") \notin {None, At("alloc", ServiceOf[g], "http")}}

\* A checkout of 1 is a clone, of 2 a linked worktree of another clone that is here.
one_repository_per_service ==
  {s \in Services : Cardinality({r \in repo_dirs : ServiceOf[r] = s /\ At("checkout", r, "-") = 1}) > 1}
service_repos_hold_no_manifests == {r \in repo_dirs : At("manifests", r, "-") = 1}

\* Every control is enforced at zero but the advisory SP-0007, below the threshold of the lane.
PortsGreen ==
  /\ k8s_ports_internally_consistent = {} /\ k8s_ports_match_registry = {} /\ no_reserved_ports = {}
  /\ dockerfile_ports_are_own = {} /\ contract_ports_match_service = {} /\ k8s_ports_are_constants = {}
  /\ pprof_is_the_constant_and_stays_private = {} /\ local_allocation_is_per_service = {}
  /\ metrics_are_scraped_by_port_name = {} /\ resolvers_pin_a_constants_registry = {}
  /\ port_env_has_one_name = {} /\ local_allocation_source_is_valid = {}
  /\ env_example_matches_local_allocation = {} /\ contracts_hold_no_foreign_ports = {}
  /\ routing_config_holds_no_ports = {} /\ gateway_bind_port_is_right_for_its_environment = {}
  /\ one_repository_per_service = {} /\ service_repos_hold_no_manifests = {}
Advice == manifest_address_vars

-----------------------------------------------------------------------------
(* What runs *)

\* The port a caller dials: its pin decides which registry answers.
Dialled(r, s, k) == IF At("pin", r, "-") < CONSTANTS_REGISTRY_MIN THEN 4001 ELSE Concern[k]
\* Where the Service sends what arrives on a port.
Routed(s, d) == {IF Has("target", s, n) THEN At("target", s, n) ELSE d : n \in {m \in published(s) : At("port", s, m) = d}}
\* Where the process listens, when the guard reads a manifest that says so: an
\* overlay that names no container or probe port by number is not read.
Listens(s, k) ==
  {At("env", s, v) : v \in {w \in env_ports(s) : PORT_ENV_CONCERN[w] = k /\ (k = "http" => w = Reads[s])}}

\* A caller that resolves a registered service by name reaches the listener of
\* the concern it asked for, through its pin, the Service and the variable the
\* process reads, and Prometheus reaches the metrics, whenever the guard is
\* green; a listener that is registered and published by nothing is not in it.
CallersReachTheListener ==
  PortsGreen =>
    \A s \in registry \cap Loaded :
      /\ \A r \in repo_dirs, k \in {"http", "grpc"} :
           At("resolves", r, "-") = 1 /\ k \in published(s) /\ Listens(s, k) # {}
             => Routed(s, Dialled(r, s, k)) = Listens(s, k)
      /\ "metrics" \in published(s) /\ Listens(s, "metrics") # {} /\ Has("scrape", s, "-")
             => Routed(s, IF At("scrape", s, "-") = 0 THEN At("port", s, "metrics") ELSE At("scrape", s, "-"))
                  = Listens(s, "metrics")

\* Under a green guard a workstation can run every service from its env.example:
\* no two of them want the same port for the same concern, none wants what the
\* infrastructure has, and local resolution answers what the process binds.
WorkstationHoldsTheFleet ==
  PortsGreen =>
    \A r \in repo_dirs, v \in ENV_EXAMPLE_VARS : LET k == PORT_ENV_CONCERN[v] s == ServiceOf[r] IN
      At("example", r, v) \notin {None, 0} =>
        /\ At("example", r, v) \notin RESERVED_PORTS
        /\ k \in {"http", "grpc"} /\ s \in local_registry => At("local", s, k) = At("example", r, v)
        /\ \A q \in repo_dirs : ServiceOf[q] # s => At("example", q, v) # At("example", r, v)
        /\ r \in Gateways /\ v = "PORT" => At("bind", r, "local") \in {None, At("example", r, v)}

\* Under a green guard every place that says which port a registered service
\* answers on in the cluster, in whichever repository, says the same.
OneAnswer ==
  PortsGreen =>
    \A s \in registry \cap Loaded : \A k \in published(s) \cap Concerns :
      {At("port", s, k)}
        \cup Some("target", s, {k}) \cup Some("env", s, {v \in Vars : PORT_ENV_CONCERN[v] = k /\ v \in env_ports(s)})
        \cup (UNION {Some("contract", r, {k}) : r \in {q \in repo_dirs : ServiceOf[q] = s}})
        \cup (IF k = "http" THEN Some("catalog", s, {"-"})
                                   \cup (UNION {Some("bind", g, {"dev"}) : g \in {h \in Gateways \cap repo_dirs : ServiceOf[h] = s}})
              ELSE {})
      = {Concern[k]}
=============================================================================
