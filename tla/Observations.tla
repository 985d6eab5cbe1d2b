---------------------------- MODULE Observations ----------------------------
(***************************************************************************)
(* What snapshots say of the network: the checks of a snapshot and the     *)
(* responses that are current (domain/observation.js), the devices of a    *)
(* snapshot (collectors/linux.js) and the composition of the current       *)
(* state from all snapshots (domain/current-state.js).                     *)
(*                                                                         *)
(* Names, roles, evidence and the clocks of snapshots are left out, and    *)
(* so are SNMP and controllers.  A snapshot is                             *)
(*   [id, profile, interfaces, neighbors, nodes, services, checks],        *)
(* interfaces, neighbors, nodes and services as they were read, see View.  *)
(***************************************************************************)
EXTENDS IPv4, FiniteSetsExt

CONSTANTS Mac,        \* hardware addresses
          NodeName    \* names of the nodes of Kubernetes

NoMac == ""           \* of a neighbor whose hardware address is not known
NoPort == 0           \* of a response of the host itself

Icmp == "icmp-echo"
Mdns == "mdns"
Protocol == {"tcp-connect", "udp-probe"}
Method == {Icmp, Mdns} \cup Protocol
Endpoint == Address \X Nat

\* What may be read from the host and from the API of Kubernetes; what was read of nodes and
\* of services is a list of one, or of none when that failed.
Unread == <<>>
Read(list) == <<list>>
Interface == [name : Name, mac : Mac, up : BOOLEAN, addresses : Seq(CIDR)]
Neighbor == [address : Address, mac : Mac \cup {NoMac}, interface : Name \cup {NoName}]
KubernetesNode == [name : NodeName, addresses : Seq(Address)]
KubernetesService == [name : STRING, addresses : SUBSET Address]   \* its external addresses
IsView(v) ==
    /\ v.interfaces \in Seq(Interface) /\ v.neighbors \in Seq(Neighbor)
    /\ v.nodes \in Seq(Seq(KubernetesNode)) /\ Len(v.nodes) <= 1
    /\ v.services \in Seq(Seq(KubernetesService)) /\ Len(v.services) <= 1
-----------------------------------------------------------------------------
\* observationChecks: what a snapshot has checked.
Ping(targets, responders) ==
    [method |-> Icmp, addresses |-> targets, ports |-> {},
     responses |-> {<<a, NoPort>> : a \in responders}]

\* The addresses of a scan for services are those of its range, also those that were left
\* out; the range itself is kept for comparisons.
Probe(method, range, ports, open) ==
    [method |-> method, addresses |-> {a \in Address : ContainsIPv4(range, a)}, ports |-> ports,
     responses |-> open, range |-> Canonical(range)]

\* Nobody knows who could have answered a query to all: it covers those who did.
Query(responders) ==
    [method |-> Mdns, addresses |-> responders, ports |-> {},
     responses |-> {<<a, NoPort>> : a \in responders}]

\* A check has covered an endpoint.
Covers(check, e) == /\ e[1] \in check.addresses
                    /\ e[2] = NoPort \/ e[2] \in check.ports

\* The checks of the snapshots s, in their order, each with the snapshot it is from.
ChecksOf(snapshot) == [i \in 1..Len(snapshot.checks) |-> <<snapshot.id, snapshot.checks[i]>>]
Checks(s) == FlattenSeq([i \in 1..Len(s) |-> ChecksOf(s[i])])

Response == [method : Method, endpoint : Endpoint, snapshot : Nat]
Before(e, f) == e[1] < f[1] \/ (e[1] = f[1] /\ e[2] < f[2])
Position(e, endpoints) == Cardinality({f \in endpoints : f = e \/ Before(f, e)})
ResponsesOf(c) ==
    LET At(k) == CHOOSE e \in c[2].responses : Position(e, c[2].responses) = k
    IN  [k \in 1..Cardinality(c[2].responses) |-> [method |-> c[2].method, endpoint |-> At(k), snapshot |-> c[1]]]

\* Mutant: a check supersedes only what it has found again.
SupersedeFound(responses, c) ==
    Kept(responses, {r \in ToSet(responses) : ~(r.method = c[2].method /\ r.endpoint \in c[2].responses)})
        \o ResponsesOf(c)

\* One step of currentResponses: the check c supersedes what it covers.
Supersede(responses, c) ==
    Kept(responses, {r \in ToSet(responses) : ~(r.method = c[2].method /\ Covers(c[2], r.endpoint))})
        \o ResponsesOf(c)

CurrentResponses(checks) == FoldLeft(Supersede, <<>>, checks)
-----------------------------------------------------------------------------
\* The devices of a snapshot, as collectLinux makes them: one for every hardware address
\* among the neighbors, one for each neighbor without, and the probe, with the addresses of
\* the first interface that has some.
Self == <<"self">>
IdOf(n) == IF n.mac = NoMac THEN <<"ip", n.address>> ELSE <<"mac", n.mac>>

DeviceOf(id, neighbors) ==
    LET first == neighbors[SelectInSeq(neighbors, LAMBDA n : IdOf(n) = id)]
    IN  [id |-> id, mac |-> first.mac, interface |-> first.interface,
         addresses |-> {n.address : n \in {m \in ToSet(neighbors) : IdOf(m) = id}}, sources |-> {"neighbor-cache"}]

Ids(neighbors) ==
    LET Add(ids, n) == IF IdOf(n) \in ToSet(ids) THEN ids ELSE Append(ids, IdOf(n))
    IN  FoldLeft(Add, <<>>, neighbors)

\* The interfaces but the loopback.
Real(interfaces) == Kept(interfaces, {x \in ToSet(interfaces) : x.name # Loopback})
AddressesOf(interface) == {c.address : c \in ToSet(interface.addresses)}
OwnAddresses(interfaces) == UNION {AddressesOf(x) : x \in ToSet(interfaces)}

Probes(interfaces) ==
    LET i == SelectInSeq(interfaces, LAMBDA x : x.name # Loopback /\ x.addresses # <<>>)
    IN  IF i = 0 THEN <<>>
        ELSE <<[id |-> Self, mac |-> interfaces[i].mac, interface |-> interfaces[i].name,
                addresses |-> AddressesOf(interfaces[i]), sources |-> {"local-interface"}]>>

Devices(snapshot) ==
    LET ids == Ids(snapshot.neighbors)
    IN  [i \in 1..Len(ids) |-> DeviceOf(ids[i], snapshot.neighbors)] \o Probes(snapshot.interfaces)
-----------------------------------------------------------------------------
\* findMatchingDevice: by id, or else by hardware address, or else by an address; the
\* first one in the list, 0 if there is none.
Matching(devices, candidate) ==
    LET First(Same(_)) == SelectInSeq(devices, Same)
        byId == First(LAMBDA d : d.id = candidate.id)
        byMac == First(LAMBDA d : candidate.mac # NoMac /\ d.mac = candidate.mac)
        byAddress == First(LAMBDA d : d.addresses \cap candidate.addresses # {})
    IN  CASE byId # 0 -> byId
          [] byId = 0 /\ byMac # 0 -> byMac
          [] OTHER -> byAddress

\* One step of mergeDevices.  What an older snapshot says of the probe does not count, nor
\* does what it says of others at an address of the probe.
Enrich(devices, candidate) ==
    LET i == Matching(devices, candidate)
    IN  CASE candidate.id = Self -> devices
          [] candidate.id # Self /\ i = 0 -> Append(devices, candidate)
          [] candidate.id # Self /\ i # 0 /\ devices[i].id = Self -> devices
          [] OTHER -> [devices EXCEPT ![i].addresses = @ \cup candidate.addresses,
                                      ![i].sources = @ \cup candidate.sources]

\* findLatest and uniqueSnapshots, on snapshots given by their position, 0 for none.
Latest(positions) == Max(positions \cup {0})

Unique(positions) ==
    LET Add(list, i) == IF i = 0 \/ i \in ToSet(list) THEN list ELSE Append(list, i)
    IN  FoldLeft(Add, <<>>, positions)

Made(snapshot, method) == \E i \in 1..Len(snapshot.checks) : snapshot.checks[i].method = method

\* The snapshots that enrich the newest one, in their order: the newest that has more than
\* local facts, the newest sweep, the newest deep one, and those of current responses.
Enriching(s) ==
    LET responding == {r.snapshot : r \in ToSet(CurrentResponses(Checks(s)))}
        facts == Latest({i \in 1..Len(s) : s[i].profile # "local"})
        icmp == Latest({i \in 1..Len(s) : Made(s[i], Icmp)})
        deep == Latest({i \in 1..Len(s) : s[i].profile = "deep"})
    IN  Unique(<<facts, icmp, deep>> \o InOrder({i \in 1..Len(s) : s[i].id \in responding}))

\* The devices of the current state.
ComposedDevices(s) ==
    LET enriching == Enriching(s)
        candidates == FlattenSeq([i \in 1..Len(enriching) |-> Devices(s[enriching[i]])])
    IN  FoldLeft(Enrich, Devices(Last(s)), candidates)

\* The nodes and services that were read last.
LastRead(reads) ==
    LET i == Latest({j \in 1..Len(reads) : reads[j] # Unread}) IN IF i = 0 THEN <<>> ELSE reads[i][1]

\* The facts that inventories are built from: those of one snapshot as it is, and those of
\* the current state.
FactsOf(snapshot) ==
    [interfaces |-> snapshot.interfaces, devices |-> Devices(snapshot),
     nodes |-> LastRead(<<snapshot.nodes>>), services |-> LastRead(<<snapshot.services>>),
     responses |-> CurrentResponses(ChecksOf(snapshot))]

\* composeCurrentSnapshot.  A scan for services has found what responds to it: the open
\* endpoints of composeServiceResults are the current responses of its method.
Compose(s) ==
    [interfaces |-> Last(s).interfaces, devices |-> ComposedDevices(s),
     nodes |-> LastRead([i \in 1..Len(s) |-> s[i].nodes]),
     services |-> LastRead([i \in 1..Len(s) |-> s[i].services]),
     responses |-> CurrentResponses(Checks(s))]

Open(facts, method) == {r \in ToSet(facts.responses) : r.method = method}
=============================================================================
