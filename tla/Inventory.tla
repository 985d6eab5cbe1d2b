----------------------------- MODULE Inventory -----------------------------
(***************************************************************************)
(* applyMerges and applySplits of domain/inventory.js: what the manual     *)
(* corrections of users do to the projection of a snapshot.                *)
(*                                                                         *)
(* An inventory has the tables devices, interfaces and assignments, which  *)
(* refer to each other: a device lists its interfaces and addresses, each  *)
(* interface and each assignment names its device, an assignment names its *)
(* interface and the devices that advertise it.  Of what else is known of  *)
(* them, a device has the sources that know of it, and interfaces and      *)
(* assignments whether the map shows them; names, roles and evidence are   *)
(* left out.  The id of an interface is made of the id of a device and of  *)
(* a hardware address: see interfaceIdentifier.                            *)
(***************************************************************************)

CONSTANTS DeviceId, Mac, Address,
          Source,      \* the kinds of sources that know of devices
          NoDevice     \* the device of a virtual address, which is only advertised

ASSUME InventoryAssumption == NoDevice \notin DeviceId

InterfaceId == DeviceId \X Mac
NoInterface == <<>>

Device == [interfaces : SUBSET InterfaceId, assignments : SUBSET Address, sources : SUBSET Source]
Interface == [device : DeviceId, mac : Mac, visible : BOOLEAN]
Assignment == [device : DeviceId \cup {NoDevice}, interface : InterfaceId \cup {NoInterface},
               advertisedBy : SUBSET DeviceId, visible : BOOLEAN]

\* Tables, as functions of the ids that are in them.
IsTable(t, keys, values) == DOMAIN t \subseteq keys /\ t \in [DOMAIN t -> values]
IsInventory(inv) ==
    /\ inv = [devices |-> inv.devices, interfaces |-> inv.interfaces, assignments |-> inv.assignments]
    /\ IsTable(inv.devices, DeviceId, Device)
    /\ IsTable(inv.interfaces, InterfaceId, Interface)
    /\ IsTable(inv.assignments, Address, Assignment)

MergeOperation == [sources : SUBSET DeviceId, target : DeviceId]
SplitOperation == [source : DeviceId, addresses : SUBSET Address, target : DeviceId]

\* What a merge may say of the devices that are there; a merge of none does nothing.
Members(inv, m) == m.sources \cap DOMAIN inv.devices

\* Mutant: those who advertise an address are not renamed.
MergedKeepingAdvertisers(inv, m) ==
    LET members == Members(inv, m)
        Renamed(d) == IF d \in members THEN m.target ELSE d
        target == [interfaces  |-> UNION {inv.devices[d].interfaces : d \in members},
                   assignments |-> UNION {inv.devices[d].assignments : d \in members},
                   sources     |-> UNION {inv.devices[d].sources : d \in members}]
    IN  [devices |-> [d \in (DOMAIN inv.devices \ members) \cup {m.target} |->
                          IF d = m.target THEN target ELSE inv.devices[d]],
         interfaces |-> [i \in DOMAIN inv.interfaces |->
                             [inv.interfaces[i] EXCEPT !.device = Renamed(@)]],
         assignments |-> [a \in DOMAIN inv.assignments |->
                              [inv.assignments[a] EXCEPT !.device = Renamed(@)]]]

\* applyMerges: the target gets what the members have, and takes their place in every
\* reference to them.
Merged(inv, m) ==
    LET members == Members(inv, m)
        Renamed(d) == IF d \in members THEN m.target ELSE d
        target == [interfaces  |-> UNION {inv.devices[d].interfaces : d \in members},
                   assignments |-> UNION {inv.devices[d].assignments : d \in members},
                   sources     |-> UNION {inv.devices[d].sources : d \in members}]
    IN  [devices |-> [d \in (DOMAIN inv.devices \ members) \cup {m.target} |->
                          IF d = m.target THEN target ELSE inv.devices[d]],
         interfaces |-> [i \in DOMAIN inv.interfaces |->
                             [inv.interfaces[i] EXCEPT !.device = Renamed(@)]],
         assignments |-> [a \in DOMAIN inv.assignments |->
                              [inv.assignments[a] EXCEPT !.device = Renamed(@),
                                                         !.advertisedBy = {Renamed(d) : d \in @}]]]

ApplyMerge(inv, m) == IF Members(inv, m) = {} THEN inv ELSE Merged(inv, m)

\* The addresses of a split that its source still has.
Moved(inv, s) == {a \in s.addresses \cap DOMAIN inv.assignments : inv.assignments[a].device = s.source}

\* applySplits: the target is a new device with the addresses, each on an interface of the
\* target's id, which is copied from the one of the address when there is none of that id.
Parted(inv, s) ==
    LET moved == Moved(inv, s)
        Original(a) == inv.interfaces[inv.assignments[a].interface]
        new == [a \in moved |-> <<s.target, Original(a).mac>>]
        made == {new[a] : a \in moved}
        target == [interfaces |-> made, assignments |-> moved, sources |-> inv.devices[s.source].sources]
    IN  [devices |-> [d \in DOMAIN inv.devices \cup {s.target} |->
                          CASE d = s.target -> target
                            [] d = s.source /\ d # s.target -> [inv.devices[d] EXCEPT !.assignments = @ \ moved]
                            [] OTHER -> inv.devices[d]],
         interfaces |-> [i \in DOMAIN inv.interfaces \cup made |->
                             IF i \in DOMAIN inv.interfaces THEN inv.interfaces[i]
                             ELSE [Original(CHOOSE a \in moved : new[a] = i) EXCEPT !.device = s.target]],
         assignments |-> [a \in DOMAIN inv.assignments |->
                              IF a \in moved
                              THEN [inv.assignments[a] EXCEPT !.device = s.target, !.interface = new[a]]
                              ELSE inv.assignments[a]]]

ApplySplit(inv, s) ==
    IF s.source \notin DOMAIN inv.devices \/ Moved(inv, s) = {} THEN inv ELSE Parted(inv, s)
-----------------------------------------------------------------------------
\* No reference dangles: what an address, an interface or an advertisement names is there,
\* and an address that a device lists is its own or a virtual one that it advertises.
ReferencesHold(inv) ==
    /\ \A a \in DOMAIN inv.assignments :
          LET x == inv.assignments[a]
          IN  /\ x.device # NoDevice => /\ x.device \in DOMAIN inv.devices
                                        /\ x.interface \in DOMAIN inv.interfaces
              /\ x.advertisedBy \subseteq DOMAIN inv.devices
    /\ \A i \in DOMAIN inv.interfaces : inv.interfaces[i].device \in DOMAIN inv.devices
    /\ \A d \in DOMAIN inv.devices :
          /\ inv.devices[d].interfaces \subseteq DOMAIN inv.interfaces
          /\ \A a \in inv.devices[d].assignments :
                /\ a \in DOMAIN inv.assignments
                /\ inv.assignments[a].device = d \/ d \in inv.assignments[a].advertisedBy
=============================================================================
