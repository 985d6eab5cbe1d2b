------------------------------ MODULE Topology ------------------------------
(***************************************************************************)
(* The topology that is shown of an inventory, and the differences between *)
(* two of them (topology/build-topology.js).  Labels, legends and          *)
(* confidence are left out, as are explicit links, of which the physical   *)
(* view is made, routes, and the groups of internal services and NodePorts.*)
(***************************************************************************)
EXTENDS BuildInventory

\* addressesForDevice: what a device lists, is its own and is shown.
AddressesForDevice(inv, d) ==
    {a \in inv.devices[d].assignments :
        a \in DOMAIN inv.assignments /\ inv.assignments[a].device = d /\ inv.assignments[a].visible}

DeviceVisible(facts, inv, d) ==
    LET interfaces == {i \in DOMAIN inv.interfaces : i \in inv.devices[d].interfaces}
    IN  /\ KindOfDevice(facts, inv, d) # "candidate"
        /\ interfaces = {} \/ \E i \in interfaces : inv.interfaces[i].visible

IsVirtual(inv, a) == inv.assignments[a].device = NoDevice

\* Nodes and links of a view; buildTopology drops the links whose ends are not both nodes.
Drawn(nodes, links) == [nodes |-> nodes, links |-> {l \in links : l.source \in nodes /\ l.target \in nodes}]

Link(source, target, relation) == [source |-> source, target |-> target, relation |-> relation]
NetworkNode(c) == <<"network", c>>
DeviceNode(d) == <<"device", d>>
AddressNode(a) == <<"address", a>>
ServiceNode(x) == <<"service", x>>

\* Mutant: the membership of an address that has answered is not shown.
MemberIfAnswered(facts, inv, networks, a) ==
    /\ FindNetwork(networks, a) # NoNetwork /\ ~IsVirtual(inv, a) /\ inv.assignments[a].visible
    /\ KindOfAddress(facts, inv, a) \notin {"candidate", "response"}

\* An address shown as a member of its network.
Member(facts, inv, networks, a) ==
    /\ FindNetwork(networks, a) # NoNetwork /\ ~IsVirtual(inv, a) /\ inv.assignments[a].visible
    /\ KindOfAddress(facts, inv, a) # "candidate"

\* buildLogical.
Logical(facts, inv, networks) ==
    LET virtual == {a \in DOMAIN inv.assignments : IsVirtual(inv, a)}
        visible == {d \in DOMAIN inv.devices : DeviceVisible(facts, inv, d)}
        listed(d) == {a \in inv.devices[d].assignments \cap DOMAIN inv.assignments : Member(facts, inv, networks, a)}
        memberships == UNION {{Link(NetworkNode(FindNetwork(networks, a)), DeviceNode(d), "member") : a \in listed(d)}
                              : d \in DOMAIN inv.devices}
        located == {Link(NetworkNode(FindNetwork(networks, a)), AddressNode(a), "virtual")
                    : a \in {b \in virtual : FindNetwork(networks, b) # NoNetwork}}
        advertised == UNION {{Link(AddressNode(a), DeviceNode(d), "advertised") : d \in inv.assignments[a].advertisedBy}
                             : a \in virtual}
    IN  Drawn({NetworkNode(c) : c \in ToSet(networks)} \cup {DeviceNode(d) : d \in visible}
                 \cup {AddressNode(a) : a \in virtual},
             memberships \cup located \cup advertised)

\* The services that buildServices shows: the open endpoints, by method, address and port,
\* and the services of Kubernetes, by name, with the addresses of each.
Services(facts) ==
    {[id |-> <<r.method, r.endpoint>>, addresses |-> {r.endpoint[1]}]
     : r \in {x \in ToSet(facts.responses) : x.method \in Protocol}}
        \cup {[id |-> <<"kubernetes", x.name>>, addresses |-> x.addresses] : x \in ToSet(facts.services)}

\* buildServices: the addresses of a service, the device that has each and those that
\* advertise it.
ServiceView(facts, inv) ==
    LET assigned(x) == x.addresses \cap DOMAIN inv.assignments
        serving == UNION {{Link(AddressNode(a), ServiceNode(x.id), "serves") : a \in assigned(x)} : x \in Services(facts)}
        addresses == UNION {assigned(x) : x \in Services(facts)}
        hosting == {Link(DeviceNode(inv.assignments[a].device), AddressNode(a), "hosts")
                    : a \in {b \in addresses : ~IsVirtual(inv, b)}}
        announcing == UNION {{Link(DeviceNode(d), AddressNode(a), "advertises") : d \in inv.assignments[a].advertisedBy}
                             : a \in addresses}
        relevant == {l.source : l \in hosting \cup announcing}
    IN  Drawn({ServiceNode(x.id) : x \in Services(facts)} \cup {AddressNode(a) : a \in addresses}
                 \cup (relevant \cap {DeviceNode(d) : d \in {e \in DOMAIN inv.devices : DeviceVisible(facts, inv, e)}}),
             serving \cup hosting \cup announcing)

\* diffSnapshots: the devices that one inventory has and the other has not, and those whose
\* addresses differ, as far as they are shown.
Diff(before, after) ==
    LET both == DOMAIN before.devices \cap DOMAIN after.devices
    IN  [added |-> DOMAIN after.devices \ DOMAIN before.devices,
         removed |-> DOMAIN before.devices \ DOMAIN after.devices,
         changed |-> {d \in both : AddressesForDevice(before, d) # AddressesForDevice(after, d)},
         assigned |-> [d \in both |-> AddressesForDevice(after, d) \ AddressesForDevice(before, d)],
         unassigned |-> [d \in both |-> AddressesForDevice(before, d) \ AddressesForDevice(after, d)]]
-----------------------------------------------------------------------------
\* TOP-03, TOP-04: what answers is drawn.  A device with a response at an address that the
\* map shows, in a network that it shows, hangs on that network, and a service that answers
\* hangs on the device at its address.
AnswersAreDrawn(facts, inv, networks) ==
    \A r \in ToSet(facts.responses) :
        LET a == r.endpoint[1]
            d == inv.assignments[a].device
        IN  a \in DOMAIN inv.assignments /\ d # NoDevice /\ DeviceVisible(facts, inv, d) =>
                /\ inv.assignments[a].visible /\ FindNetwork(networks, a) # NoNetwork =>
                       Link(NetworkNode(FindNetwork(networks, a)), DeviceNode(d), "member")
                           \in Logical(facts, inv, networks).links
                /\ r.method \in Protocol =>
                       {Link(AddressNode(a), ServiceNode(<<r.method, r.endpoint>>), "serves"),
                        Link(DeviceNode(d), AddressNode(a), "hosts")} \subseteq ServiceView(facts, inv).links

\* TOP-03: a virtual address hangs on those that advertise it, as far as they are drawn, and
\* on nothing as if it were theirs.
VirtualIsAdvertised(facts, inv, networks) ==
    \A l \in Logical(facts, inv, networks).links :
        /\ l.target[1] = "device" /\ l.source[1] = "address" => l.target[2] \in inv.assignments[l.source[2]].advertisedBy
        /\ l.relation = "member" =>
               \E a \in AddressesForDevice(inv, l.target[2]) : FindNetwork(networks, a) = l.source[2]
=============================================================================
