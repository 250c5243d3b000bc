---------------------------- MODULE ControlPlane ----------------------------
(***************************************************************************)
(* The CARISMA control plane: the node registry, the service registry and *)
(* the xDS snapshot builder, which share one RWMutex and talk over two     *)
(* unbuffered Go channels (channelNodes, channelServices).                 *)
(*                                                                         *)
(*   src/pkg/registry/node_regisry.go       Register, ValidateNodeID       *)
(*   src/pkg/registry/service_regisry.go    OpenChannel, (un)registerService*)
(*   src/cmd/carisma-control-plane/app/xds  the two consumer goroutines,   *)
(*                                          generateSnapshots, makeClusters,*)
(*                                          makeEndpoints, makeRoutes      *)
(*                                                                         *)
(* Every critical section of the shared mutex is a single action, so the  *)
(* lock itself needs no variable.  A node ID "node-<i>" is its index i; a *)
(* node's address is the satellite (model value) that registered it.      *)
(***************************************************************************)
EXTENDS Integers, Sequences, FiniteSets, FiniteSetsExt, TLC

CONSTANTS
  Clients,          \* satellites that call Register, one call each
  Bundles,          \* bundle IDs a satellite may announce
  Ports,            \* local service ports a satellite may announce
  IngressPort,      \* cfg.IngressPort of the control plane
  MaxAnnouncements, \* bound on service announcements over a behaviour
  IntendedGuard     \* FALSE: makeEndpoints' guard as written (cds.go:33)
                    \* TRUE : the bounds check spec.md section 9 prescribes

ASSUME /\ Clients # {} /\ Bundles # {} /\ Ports # {}
       /\ MaxAnnouncements \in Nat
       /\ IntendedGuard \in BOOLEAN

NodeIdx == 0 .. Cardinality(Clients) - 1
NoSnapshot == [version |-> -1, clusters |-> {}, routes |-> {}, localRoutes |-> {}]

VARIABLES
  regNodes,   \* NodeRegistryServer.nodes: sequence of addresses
  regPc,      \* per client: where its Register call is
  regIdx,     \* per client: the index Register assigned (-1 before)
  services,   \* ServiceRegistryServer.services: idx -> (bundle -> ports)
  svcPc,      \* per client: state of its service-announcement stream
  nAnn,       \* announcements made so far (bounded)
  ncPc,       \* goroutine consuming channelNodes
  ncItem,     \* the address it received
  scPc,       \* goroutine consuming channelServices
  xNodes,     \* xds Server.nodes: its own copy, in arrival order
  xAliased,   \* xds Server.services is the registry's map (after 1st send)
  version,    \* xds Server.snapshotVersion
  cache       \* SnapshotCache: node index -> last snapshot set

vars == <<regNodes, regPc, regIdx, services, svcPc, nAnn, ncPc, ncItem,
          scPc, xNodes, xAliased, version, cache>>

EmptyMap == [b \in {} |-> {}]

\* Server.services as generateSnapshots reads it: until the services consumer
\* has stored a received map once it is the server's own empty map, afterwards the very map
\* the service registry mutates (server.go:75 stores the reference).
xServices == IF xAliased THEN services ELSE [k \in NodeIdx |-> EmptyMap]

-----------------------------------------------------------------------------
(* Snapshot compilation (resource.go, cds.go).                             *)

\* generateClusterName: local_<b>_cluster or <b>_cluster
generateClusterName(b, isLocal) == <<IF isLocal THEN "local" ELSE "remote", b>>

Owners(xs, b) == {o \in NodeIdx : b \in DOMAIN xs[o]}

\* Mutant of RemoteBundles: a bundle the target serves itself is taken as
\* seen, so no <b>_cluster is built for it.
RemoteBundles_SkipLocal(xs, i) ==
  {b \in Bundles : Owners(xs, b) \ {i} # {} /\ b \notin DOMAIN xs[i]}

\* Bundles that reach target i as a (non-local) <b>_cluster.
RemoteBundles(xs, i) == {b \in Bundles : Owners(xs, b) \ {i} # {}}

\* makeClusters ranges over Go maps, whose order is random: for a remote
\* bundle served by several nodes the first one visited names the cluster
\* and the rest are skipped as seen.  A pick fixes that first owner.
Picks(xs, i) ==
  {p \in [RemoteBundles(xs, i) -> NodeIdx] :
      \A b \in DOMAIN p : p[b] \in Owners(xs, b) \ {i}}

\* makeEndpoints' guard on the owner's index.
InvalidNodeIdx(idx, xn) ==
  IF IntendedGuard THEN idx < 0 \/ idx >= Len(xn)
                   ELSE idx >= Len(xn) \/ idx < Len(xn)

\* Owners makeClusters passes to makeEndpoints for target i.
Visited(xs, i, p) ==
  {i : b \in DOMAIN xs[i]} \cup {p[b] : b \in DOMAIN p}

makeClustersFails(xn, xs, i, p) == \E o \in Visited(xs, i, p) : InvalidNodeIdx(o, xn)

\* A cluster: its name, the host and ports of its endpoints; owner is the
\* services key it came from (kept to relate the host to the registry).
makeClusters(xn, xs, i, p) ==
  {[name |-> generateClusterName(b, TRUE), owner |-> i,
    host |-> xn[i + 1], ports |-> xs[i][b]] : b \in DOMAIN xs[i]}
  \cup
  {[name |-> generateClusterName(b, FALSE), owner |-> p[b],
    host |-> xn[p[b] + 1], ports |-> {IngressPort}] : b \in DOMAIN p}

\* makeRoutes: every (owner, bundle) gives "/<b>" -> its cluster in
\* grpc_route; the local ones also go to local_grpc_route.
makeRoutes(xs, i) ==
  UNION {{<<b, generateClusterName(b, o = i)>> : b \in DOMAIN xs[o]} : o \in NodeIdx}

makeLocalRoutes(xs, i) == {<<b, generateClusterName(b, TRUE)>> : b \in DOMAIN xs[i]}

\* The snapshot for target i under pick p, with version v.
Snapshot(xn, xs, i, p, v) ==
  [version |-> v, clusters |-> makeClusters(xn, xs, i, p),
   routes |-> makeRoutes(xs, i), localRoutes |-> makeLocalRoutes(xs, i)]

Targets(xn) == 0 .. Len(xn) - 1

\* One pick per target node: Go re-randomises every range statement.
Plans(xn, xs) ==
  {pl \in [Targets(xn) -> UNION {Picks(xs, i) : i \in Targets(xn)}] :
      \A i \in Targets(xn) : pl[i] \in Picks(xs, i)}

FailingTargets(xn, xs, pl) == {i \in Targets(xn) : makeClustersFails(xn, xs, i, pl[i])}

\* generateSnapshots: bump the version, then build and SetSnapshot node by
\* node in index order; the first makeClusters error returns at once.
generateSnapshots(xn, xs, pl) ==
  LET stop == IF FailingTargets(xn, xs, pl) = {} THEN Len(xn)
              ELSE Min(FailingTargets(xn, xs, pl))
  IN /\ version' = version + 1
     /\ cache' = [j \in NodeIdx |->
                   IF j < stop
                   THEN Snapshot(xn, xs, j, pl[j], version + 1)
                   ELSE cache[j]]

-----------------------------------------------------------------------------
Init ==
  /\ regNodes = <<>>
  /\ regPc = [c \in Clients |-> "idle"]
  /\ regIdx = [c \in Clients |-> -1]
  /\ services = [k \in NodeIdx |-> EmptyMap]
  /\ svcPc = [c \in Clients |-> "closed"]
  /\ nAnn = 0
  /\ ncPc = "recv"
  /\ ncItem = CHOOSE c \in Clients : TRUE
  /\ scPc = "recv"
  /\ xNodes = <<>>
  /\ xAliased = FALSE
  /\ version = -1
  /\ cache = [k \in NodeIdx |-> NoSnapshot]

-----------------------------------------------------------------------------
(* Node registry (node_regisry.go).                                        *)

\* Mutant of Register: the ID is taken from len(s.nodes) after the append.
Register_OffByOne(c) ==
  /\ regPc[c] = "idle"
  /\ regNodes' = Append(regNodes, c)
  /\ regIdx' = [regIdx EXCEPT ![c] = Len(regNodes) + 1]
  /\ regPc' = [regPc EXCEPT ![c] = "send"]
  /\ UNCHANGED <<services, svcPc, nAnn, ncPc, ncItem, scPc, xNodes, xAliased,
                 version, cache>>

\* Register, lines 61-75: under the lock append the address and take its
\* index; the lock is released before the node is announced.
Register(c) ==
  /\ regPc[c] = "idle"
  /\ regNodes' = Append(regNodes, c)
  /\ regIdx' = [regIdx EXCEPT ![c] = Len(regNodes)]
  /\ regPc' = [regPc EXCEPT ![c] = "send"]
  /\ UNCHANGED <<services, svcPc, nAnn, ncPc, ncItem, scPc, xNodes, xAliased,
                 version, cache>>

\* Register, lines 77-87: s.chanNodes <- newNode (the caller's address, read
\* under the lock at line 73) meets the node consumer's receive
\* (server.go:54); then the ID "node-<idx>" is returned.
RegisterSend(c) ==
  /\ regPc[c] = "send"
  /\ ncPc = "recv"
  /\ ncItem' = c
  /\ ncPc' = "gen"
  /\ regPc' = [regPc EXCEPT ![c] = "done"]
  /\ UNCHANGED <<regNodes, regIdx, services, svcPc, nAnn, scPc, xNodes,
                 xAliased, version, cache>>

\* ValidateNodeID: the parsed index must name a registered node.
ValidateNodeID(idx) == idx >= 0 /\ idx <= Len(regNodes) - 1

-----------------------------------------------------------------------------
(* Service registry (service_regisry.go).                                  *)

\* OpenChannel, lines 231-242: a satellite opens its announcement stream
\* with the ID Register returned (orchestrator app.go:126-132).
OpenChannel(c) ==
  /\ regPc[c] = "done"
  /\ svcPc[c] = "closed"
  /\ ValidateNodeID(regIdx[c])
  /\ svcPc' = [svcPc EXCEPT ![c] = "open"]
  /\ UNCHANGED <<regNodes, regPc, regIdx, services, nAnn, ncPc, ncItem, scPc,
                 xNodes, xAliased, version, cache>>

\* registerService, lines 274-287: append, sort, compact.
registerService(m, b, p) ==
  IF b \in DOMAIN m THEN [m EXCEPT ![b] = @ \cup {p}] ELSE (b :> {p}) @@ m

\* unregisterService, lines 292-304: drop the port if present, and the
\* bundle key once its port list is empty.
unregisterService(m, b, p) ==
  IF b \notin DOMAIN m THEN m
  ELSE IF m[b] \ {p} = {}
       THEN [x \in DOMAIN m \ {b} |-> m[x]]
       ELSE [m EXCEPT ![b] = @ \ {p}]

\* OpenChannel's receive loop, lines 245-270, applying one announcement
\* under the lock; the stream then blocks on s.updateChannel <- s.services.
Announce(c, b, p, registered) ==
  /\ svcPc[c] = "open"
  /\ nAnn < MaxAnnouncements
  /\ services' = [services EXCEPT ![regIdx[c]] =
                    IF registered THEN registerService(@, b, p)
                                  ELSE unregisterService(@, b, p)]
  /\ svcPc' = [svcPc EXCEPT ![c] = "send"]
  /\ nAnn' = nAnn + 1
  /\ UNCHANGED <<regNodes, regPc, regIdx, ncPc, ncItem, scPc, xNodes,
                 xAliased, version, cache>>

\* registerService/unregisterService, lines 95/112: the send meets the
\* services consumer's receive (server.go:72).
ServiceSend(c) ==
  /\ svcPc[c] = "send"
  /\ scPc = "recv"
  /\ svcPc' = [svcPc EXCEPT ![c] = "open"]
  /\ scPc' = "gen"
  /\ UNCHANGED <<regNodes, regPc, regIdx, services, nAnn, ncPc, ncItem,
                 xNodes, xAliased, version, cache>>

-----------------------------------------------------------------------------
(* xDS server consumer goroutines (server.go:51-86).                       *)

\* Lines 55-64: lock, append the node, regenerate all, unlock; on an error
\* the goroutine returns for good.
NodeConsumerGenerate ==
  /\ ncPc = "gen"
  /\ LET xn == Append(xNodes, ncItem)
     IN \E pl \in Plans(xn, xServices) :
          /\ generateSnapshots(xn, xServices, pl)
          /\ xNodes' = xn
          /\ ncPc' = IF FailingTargets(xn, xServices, pl) = {} THEN "recv" ELSE "dead"
  /\ UNCHANGED <<regNodes, regPc, regIdx, services, svcPc, nAnn, ncItem, scPc,
                 xAliased>>

\* Mutant of ServiceConsumerGenerate: the received map is not stored in
\* x.services before the regeneration.
ServiceConsumerGenerate_NoStore ==
  /\ scPc = "gen"
  /\ \E pl \in Plans(xNodes, xServices) :
       /\ generateSnapshots(xNodes, xServices, pl)
       /\ scPc' = IF FailingTargets(xNodes, xServices, pl) = {} THEN "recv" ELSE "dead"
  /\ UNCHANGED <<regNodes, regPc, regIdx, services, svcPc, nAnn, ncPc, ncItem,
                 xNodes, xAliased>>

\* Lines 72-83: lock, store the received map (from then on x.services is the
\* registry's own map, so it reads as services), regenerate all, unlock;
\* on an error the goroutine returns for good.
ServiceConsumerGenerate ==
  /\ scPc = "gen"
  /\ xAliased' = TRUE
  /\ \E pl \in Plans(xNodes, services) :
       /\ generateSnapshots(xNodes, services, pl)
       /\ scPc' = IF FailingTargets(xNodes, services, pl) = {} THEN "recv" ELSE "dead"
  /\ UNCHANGED <<regNodes, regPc, regIdx, services, svcPc, nAnn, ncPc, ncItem,
                 xNodes>>

-----------------------------------------------------------------------------
Next ==
  \/ \E c \in Clients : Register(c) \/ RegisterSend(c) \/ OpenChannel(c)
  \/ \E c \in Clients, b \in Bundles, p \in Ports, r \in BOOLEAN : Announce(c, b, p, r)
  \/ \E c \in Clients : ServiceSend(c)
  \/ NodeConsumerGenerate
  \/ ServiceConsumerGenerate

\* The two consumers are runnable goroutines (weak fairness).  A blocked
\* channel send is enabled only while its consumer waits in receive, and
\* Go serves blocked senders in FIFO order: strong fairness.  Satellites
\* are not obliged to register or announce at all.
Fairness ==
  /\ WF_vars(NodeConsumerGenerate)
  /\ WF_vars(ServiceConsumerGenerate)
  /\ \A c \in Clients : SF_vars(RegisterSend(c)) /\ SF_vars(ServiceSend(c))

Spec == Init /\ [][Next]_vars /\ Fairness

-----------------------------------------------------------------------------
(* Properties.                                                             *)

SnapshotType ==
  [version : Int,
   clusters : SUBSET [name : {"local", "remote"} \X Bundles, owner : NodeIdx,
                      host : Clients, ports : SUBSET (Ports \cup {IngressPort})],
   routes : SUBSET (Bundles \X ({"local", "remote"} \X Bundles)),
   localRoutes : SUBSET (Bundles \X ({"local", "remote"} \X Bundles))]

TypeOK ==
  /\ regNodes \in Seq(Clients) /\ Len(regNodes) <= Cardinality(Clients)
  /\ regPc \in [Clients -> {"idle", "send", "done"}]
  /\ regIdx \in [Clients -> NodeIdx \cup {-1}]
  /\ \A k \in NodeIdx : DOMAIN services[k] \subseteq Bundles
                         /\ \A b \in DOMAIN services[k] : services[k][b] \in SUBSET Ports
  /\ svcPc \in [Clients -> {"closed", "open", "send"}]
  /\ nAnn \in 0 .. MaxAnnouncements
  /\ ncPc \in {"recv", "gen", "dead"} /\ scPc \in {"recv", "gen", "dead"}
  /\ ncItem \in Clients
  /\ xNodes \in Seq(Clients) /\ xAliased \in BOOLEAN
  /\ version \in Int
  /\ cache \in [NodeIdx -> SnapshotType]

\* No notification is in flight and both consumer goroutines are alive and
\* waiting on their channels.
Quiescent ==
  /\ ncPc = "recv" /\ scPc = "recv"
  /\ \A c \in Clients : regPc[c] # "send" /\ svcPc[c] # "send"

\* Once every registry mutation has been announced and consumed, the xDS
\* server knows every registered node and each of them holds a snapshot of
\* the current version built from the registry's current services map: no
\* mutation by Register, registerService or unregisterService is lost
\* between the registries, the unbuffered channels and the two consumers.
QuiescentCacheCurrent ==
  Quiescent =>
    /\ Len(xNodes) = Len(regNodes)
    /\ \A j \in Targets(xNodes) :
         \E p \in Picks(services, j) : cache[j] = Snapshot(xNodes, services, j, p, version)

\* spec.md section 8: in every snapshot a sidecar holds, every route of
\* grpc_route and local_grpc_route names a cluster of that snapshot.
\* makeRoutes and makeClusters range over the services map separately, and
\* makeClusters deduplicates by name in Go's random map order, so a bundle
\* served by the target and by other nodes must still get both clusters.
RoutesResolve ==
  \A j \in NodeIdx :
    \A r \in cache[j].routes \cup cache[j].localRoutes :
      \E cl \in cache[j].clusters : cl.name = r[2]

\* Every endpoint of every snapshot points at the host that registered
\* under the owner's node ID: makeEndpoints indexes the xDS server's node
\* list with the registry's index (cds.go:37).
EndpointHostCorrect ==
  \A j \in NodeIdx : \A cl \in cache[j].clusters : cl.host = regNodes[cl.owner + 1]

\* Every Register call that has appended its node eventually returns the
\* node ID (spec: "registration itself cannot fail").
RegisterReturns ==
  \A c \in Clients : regPc[c] = "send" ~> regPc[c] = "done"

\* A bundle a node has registered eventually reaches that node's own
\* sidecar as its local cluster, unless it is unregistered first.
ServiceRouted ==
  \A k \in NodeIdx, b \in Bundles :
    b \in DOMAIN services[k]
      ~> (b \notin DOMAIN services[k]
          \/ \E cl \in cache[k].clusters : cl.name = generateClusterName(b, TRUE))

=============================================================================
