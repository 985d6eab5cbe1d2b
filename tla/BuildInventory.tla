--------------------------- MODULE BuildInventory ---------------------------
(***************************************************************************)
(* buildInventory of domain/inventory.js: the devices, interfaces and      *)
(* addresses that the facts of a snapshot, or of the current state, come   *)
(* to, under the settings of the interfaces and the corrections of users.  *)
(***************************************************************************)
EXTENDS Observations

CONSTANTS DeviceId    \* ids of devices, those that merges and splits make among them

NoDevice == <<>>

\* Every device that is found has an id.
ASSUME DeviceIdAssumption ==
    /\ NoDevice \notin DeviceId /\ Self \in DeviceId
    /\ \A a \in Address : <<"ip", a>> \in DeviceId
    /\ \A mac \in Mac : <<"mac", mac>> \in DeviceId
    /\ \A name \in NodeName : <<"node", name>> \in DeviceId

Unknown == "unknown"           \* the label of an interface without hardware address and name
ServiceInterface == "observed" \* tcp-observed and udp-observed

\* The tables of an inventory and the corrections; an interface is told by its label, which
\* is its hardware address if it has one.
I == INSTANCE Inventory WITH Mac <- Mac \cup Name \cup {Unknown, ServiceInterface},
                             Source <- Method \cup {"neighbor-cache", "local-interface", "kubernetes-api"}

LabelOf(device) == CASE device.mac # NoMac -> device.mac
                     [] device.mac = NoMac /\ device.interface # NoName -> device.interface
                     [] OTHER -> Unknown

PolicyOf(device, settings) == ResolvePolicy(settings, device.interface, TRUE)
-----------------------------------------------------------------------------
\* Devices of responses at addresses that no device has.
AddResponse(devices, r) ==
    IF r.endpoint[1] \in UNION {d.addresses : d \in ToSet(devices)} THEN devices
    ELSE Append(devices, [id |-> <<"ip", r.endpoint[1]>>, mac |-> NoMac, interface |-> NoName,
                          addresses |-> {r.endpoint[1]}, sources |-> {r.method}])

\* A node of Kubernetes is the first device that has one of its addresses, and gets those
\* that nobody has, or else a new one.
AddNode(devices, node) ==
    LET addresses == ToSet(node.addresses)
        known == UNION {d.addresses : d \in ToSet(devices)}
        i == SelectInSeq(devices, LAMBDA d : d.addresses \cap addresses # {})
    IN  CASE addresses = {} -> devices
          [] addresses # {} /\ i # 0 -> [devices EXCEPT ![i].addresses = @ \cup (addresses \ known)]
          [] OTHER -> Append(devices, [id |-> <<"node", node.name>>, mac |-> NoMac, interface |-> NoName,
                                       addresses |-> addresses, sources |-> {"kubernetes-api"}])

\* The raw devices, but those of interfaces that are not to identify devices.
Eligible(facts, settings) ==
    LET devices == FoldLeft(AddNode, FoldLeft(AddResponse, facts.devices, facts.responses), facts.nodes)
    IN  Kept(devices, {d \in ToSet(devices) : d.id = Self \/ PolicyOf(d, settings).identity})

\* The interfaces of the probe take the place of the one of its raw device.
ProbeInterfaces(facts, raw) ==
    IF \E i \in 1..Len(raw) : raw[i].id = Self THEN Real(facts.interfaces) ELSE <<>>

\* addAssignment: an address is of the first device that lists it.  What the probe has got
\* that way is taken back, and the addresses of its interfaces are added.
Owned(raw, own, settings) ==
    LET Owner(a) == raw[SelectInSeq(raw, LAMBDA d : a \in d.addresses)]
        Port(a) == own[SelectInSeq(own, LAMBDA x : a \in AddressesOf(x))]
        others == {a \in UNION {d.addresses : d \in ToSet(raw)} : Owner(a).id # Self}
        Listed(d) == [device |-> d.id, interface |-> <<d.id, LabelOf(d)>>, advertisedBy |-> {},
                      visible |-> PolicyOf(d, settings).map]
        Probed(x) == [device |-> Self, interface |-> <<Self, x.name>>, advertisedBy |-> {},
                      visible |-> ResolvePolicy(settings, x.name, x.up).map]
    IN  [a \in others \cup OwnAddresses(own) |-> IF a \in others THEN Listed(Owner(a)) ELSE Probed(Port(a))]

\* The tables of these raw devices, interfaces of the probe and assignments.
Tables(raw, own, assignments, settings) ==
    LET others == {raw[i] : i \in {j \in 1..Len(raw) : raw[j].id # Self}}
        Listed(id) == {a \in DOMAIN assignments : assignments[a].device = id}
        Of(id) == CHOOSE d \in others : d.id = id
        ids == {d.id : d \in others}
        probe == IF \E i \in 1..Len(raw) : raw[i].id = Self THEN {Self} ELSE {}
        ofOthers == {<<d.id, LabelOf(d)>> : d \in others}
        ofProbe == {<<Self, x.name>> : x \in ToSet(own)}
        Port(name) == CHOOSE x \in ToSet(own) : x.name = name
    IN  [devices |-> [id \in ids \cup probe |->
             IF id = Self THEN [interfaces |-> ofProbe, assignments |-> Listed(id), sources |-> {"local-interface"}]
             ELSE [interfaces |-> {<<id, LabelOf(Of(id))>>}, assignments |-> Listed(id), sources |-> Of(id).sources]],
         interfaces |-> [i \in ofOthers \cup ofProbe |->
             IF i[1] = Self
             THEN [device |-> Self, mac |-> Port(i[2]).mac,
                   visible |-> ResolvePolicy(settings, i[2], Port(i[2]).up).map]
             ELSE [device |-> i[1], mac |-> i[2], visible |-> PolicyOf(Of(i[1]), settings).map]],
         assignments |-> assignments]

\* The inventory before services and corrections.
Observed(facts, settings) ==
    LET raw == Eligible(facts, settings)
        own == ProbeInterfaces(facts, raw)
    IN  Tables(raw, own, Owned(raw, own, settings), settings)
-----------------------------------------------------------------------------
\* The device that a node is: that of the first of its addresses that has been assigned.
NodeDevice(inv, node) ==
    LET i == SelectInSeq(node.addresses, LAMBDA a : a \in DOMAIN inv.assignments)
    IN  inv.assignments[node.addresses[i]].device

Registered(facts, inv) ==
    {NodeDevice(inv, n) : n \in {x \in ToSet(facts.nodes) : ToSet(x.addresses) \cap DOMAIN inv.assignments # {}}}

\* Mutant: an address that becomes virtual keeps its device.
VirtualOwned(x) == [x EXCEPT !.advertisedBy = @ \cup {x.device}]

\* An address of a service is nobody's any more; the device that had it advertises it.
Virtual(x) == [x EXCEPT !.device = NoDevice, !.interface = I!NoInterface,
                        !.advertisedBy = @ \cup ({x.device} \ {NoDevice})]

\* The API of Kubernetes knows of a device too.
RegisteredDevice(device) == [device EXCEPT !.sources = @ \cup {"kubernetes-api"}]

\* applyKubernetes.
WithKubernetes(facts, inv) ==
    LET virtual == UNION {x.addresses : x \in ToSet(facts.services)}
        nodes == Registered(facts, inv)
        new == [device |-> NoDevice, interface |-> I!NoInterface, advertisedBy |-> {}, visible |-> TRUE]
    IN  [inv EXCEPT
            !.devices = [d \in DOMAIN @ |-> IF d \in nodes THEN RegisteredDevice(@[d]) ELSE @[d]],
            !.assignments = [a \in DOMAIN @ \cup virtual |->
                                CASE a \notin virtual -> @[a]
                                  [] a \in virtual /\ a \in DOMAIN @ -> Virtual(@[a])
                                  [] OTHER -> new]]

\* applyObservedServices: an open endpoint whose address nobody has makes a device, and the
\* device of its address is known from it.
WithService(inv, r) ==
    LET a == r.endpoint[1]
        device == <<"ip", a>>
        interface == <<device, ServiceInterface>>
        unassigned == a \notin DOMAIN inv.assignments
        made == IF unassigned /\ device \notin DOMAIN inv.devices THEN {device} ELSE {}
        assignments ==
            IF ~unassigned THEN inv.assignments
            ELSE [b \in DOMAIN inv.assignments \cup {a} |->
                     IF b # a THEN inv.assignments[b]
                     ELSE [device |-> device,
                           interface |-> IF made # {} THEN interface ELSE CHOOSE i \in inv.devices[device].interfaces : TRUE,
                           advertisedBy |-> {}, visible |-> TRUE]]
        devices == [d \in DOMAIN inv.devices \cup made |->
                       IF d \in made THEN [interfaces |-> {interface}, assignments |-> {}, sources |-> {r.method}]
                       ELSE inv.devices[d]]
        owner == assignments[a].device
    IN  [devices |-> [d \in DOMAIN devices |->
                         IF d # owner THEN devices[d]
                         ELSE [devices[d] EXCEPT !.sources = @ \cup {r.method},
                                                 !.assignments = IF unassigned THEN @ \cup {a} ELSE @]],
         interfaces |-> [i \in DOMAIN inv.interfaces \cup {<<d, ServiceInterface>> : d \in made} |->
                            IF i \in DOMAIN inv.interfaces THEN inv.interfaces[i]
                            ELSE [device |-> device, mac |-> Unknown, visible |-> TRUE]],
         assignments |-> assignments]

\* applyTcpServices, then applyUdpServices.
WithServices(facts, inv) ==
    LET Of(method) == Kept(facts.responses, {r \in ToSet(facts.responses) : r.method = method})
    IN  FoldLeft(WithService, inv, Of("tcp-connect") \o Of("udp-probe"))

\* What users may correct.
Correction == [kind : {"merge"}, sources : SUBSET DeviceId, target : DeviceId] \cup
              [kind : {"split"}, source : DeviceId, addresses : SUBSET Address, target : DeviceId]

\* applyIdentityOperations, of operations in their order.
Corrected(inv, operation) ==
    IF operation.kind = "merge" THEN I!ApplyMerge(inv, operation) ELSE I!ApplySplit(inv, operation)

Inventory(facts, settings, operations) ==
    FoldLeft(Corrected, WithServices(facts, WithKubernetes(facts, Observed(facts, settings))), operations)
-----------------------------------------------------------------------------
\* annotateObservations: the responses at an address and at those of a device, and what the
\* two are shown as.
ResponsesAt(facts, a) == {r \in ToSet(facts.responses) : r.endpoint[1] = a}
Addresses(inv, d) == {a \in DOMAIN inv.assignments : inv.assignments[a].device = d}
ResponsesFrom(facts, inv, d) == UNION {ResponsesAt(facts, a) : a \in Addresses(inv, d)}

KindOfAddress(facts, inv, a) ==
    LET listed == \/ \E n \in ToSet(facts.nodes) : a \in ToSet(n.addresses)
                  \/ \E x \in ToSet(facts.services) : a \in x.addresses
    IN  CASE inv.assignments[a].device = Self -> "local"
          [] inv.assignments[a].device # Self /\ ResponsesAt(facts, a) # {} -> "response"
          [] inv.assignments[a].device # Self /\ ResponsesAt(facts, a) = {} /\ listed -> "registered"
          [] OTHER -> "candidate"

KindOfDevice(facts, inv, d) ==
    CASE d = Self -> "local"
      [] d # Self /\ ResponsesFrom(facts, inv, d) # {} -> "response"
      [] d # Self /\ ResponsesFrom(facts, inv, d) = {} /\ "kubernetes-api" \in inv.devices[d].sources -> "registered"
      [] OTHER -> "candidate"

\* The ranges of the interfaces that the map shows, in their order, and findNetwork: the
\* first that contains an address.
Networks(facts, settings) ==
    FlattenSeq([i \in 1..Len(Real(facts.interfaces)) |->
        LET x == Real(facts.interfaces)[i]
        IN  IF ResolvePolicy(settings, x.name, x.up).map THEN [j \in 1..Len(x.addresses) |-> Canonical(x.addresses[j])]
            ELSE <<>>])
NoNetwork == [address |-> 0, prefix |-> Width + 1]
FindNetwork(networks, a) ==
    LET i == SelectInSeq(networks, LAMBDA c : ContainsIPv4(c, a)) IN IF i = 0 THEN NoNetwork ELSE networks[i]
=============================================================================
