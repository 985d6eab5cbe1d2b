---------------------------- MODULE MacTimeline ----------------------------
(***************************************************************************)
(* The timeline of a hardware address (domain/mac-timeline.js): what each  *)
(* retained snapshot, taken by itself, says of the devices that have it.   *)
(* Texts, labels and their order are left out.                             *)
(***************************************************************************)
EXTENDS BuildInventory

\* projectHistory: the snapshots with their inventories, and the hardware addresses of the
\* index.
Project(snapshot, settings, operations) ==
    LET facts == FactsOf(snapshot)
    IN  [id |-> snapshot.id, facts |-> facts, inventory |-> Inventory(facts, settings, operations)]

History(s, settings, operations) == [i \in 1..Len(s) |-> Project(s[i], settings, operations)]

MacsIn(inv) == {inv.interfaces[i].mac : i \in DOMAIN inv.interfaces} \cap Mac
Macs(history) == UNION {MacsIn(p.inventory) : p \in ToSet(history)}

\* The devices that have an interface with the address, and are there.
Branches(inv, mac) ==
    {inv.interfaces[i].device : i \in {j \in DOMAIN inv.interfaces : inv.interfaces[j].mac = mac}}
        \cap DOMAIN inv.devices

\* branchAtPoint, and changesSince of what it says: nothing of the first observation.
Facts(p, d) == [addresses |-> Addresses(p.inventory, d),
                methods |-> {r.method : r \in ResponsesFrom(p.facts, p.inventory, d)}]

Changes(previous, now) ==
    [added |-> now.addresses \ previous.addresses, gone |-> previous.addresses \ now.addresses,
     methods |-> now.methods \ previous.methods]

Branch(p, d, previous) ==
    LET now == Facts(p, d)
    IN  [facts |-> now, changes |-> IF d \in DOMAIN previous THEN <<Changes(previous[d], now)>> ELSE <<>>]

\* previousBranches: what was last said of each device.
Remembered(previous, branches) ==
    [d \in DOMAIN previous \cup DOMAIN branches |-> IF d \in DOMAIN branches THEN branches[d].facts ELSE previous[d]]

\* buildTimelineFromHistory: one entry for every snapshot that has the address.
Timeline(history, mac) ==
    LET Extend(line, p) ==
            LET devices == Branches(p.inventory, mac)
                branches == [d \in devices |-> Branch(p, d, line.previous)]
            IN  IF devices = {} THEN line
                ELSE [entries |-> Append(line.entries, [id |-> p.id, branches |-> branches]),
                      previous |-> Remembered(line.previous, branches)]
    IN  FoldLeft(Extend, [entries |-> <<>>, previous |-> <<>>], history).entries

\* summarizeTimeline: how many devices have the address, and whether that needs review.
Summary(entries) ==
    [points |-> Len(entries), branches |-> Cardinality(UNION {DOMAIN e.branches : e \in ToSet(entries)}),
     review |-> \E e \in ToSet(entries) : Cardinality(DOMAIN e.branches) > 1]
-----------------------------------------------------------------------------
\* MTL-02, MTL-04, MTL-08: every address of the index has a timeline, which has an entry
\* for each snapshot in which the address is on an interface; what a branch says has changed
\* is the difference to the last entry that has its device, however many lie between them.
TimelineHolds(history, mac) ==
    LET entries == Timeline(history, mac)
        with == {p.id : p \in {q \in ToSet(history) : mac \in MacsIn(q.inventory)}}
        Earlier(k, d) == {j \in 1..(k - 1) : d \in DOMAIN entries[j].branches}
    IN  /\ entries # <<>>
        /\ {e.id : e \in ToSet(entries)} = with
        /\ \A k \in 1..Len(entries) : \A d \in DOMAIN entries[k].branches :
              LET x == entries[k].branches[d]
                  before == entries[Max(Earlier(k, d))].branches[d].facts.addresses
              IN  IF Earlier(k, d) = {} THEN x.changes = <<>>
                  ELSE /\ x.changes # <<>>
                       /\ x.facts.addresses = (before \ x.changes[1].gone) \cup x.changes[1].added
                       /\ x.changes[1].gone \subseteq before
TimelinesHold(history) == \A mac \in Macs(history) : TimelineHolds(history, mac)
=============================================================================
