---------------------------- MODULE CurrentState ----------------------------
(***************************************************************************)
(* The history of snapshots and what the server makes of it.  Every scan   *)
(* saves a snapshot: what the host knew of its network (the view) and the  *)
(* checks the scan has made, each with what it covered and who responded.  *)
(* Nothing in a saved snapshot changes any more.  The current state, the   *)
(* inventory, the topology, the timelines and the comparisons are made     *)
(* anew of all snapshots at every request, under the settings and the      *)
(* corrections of that moment, so what is said of them here is said for    *)
(* every Context in every state.                                           *)
(***************************************************************************)
EXTENDS ServerViews

CONSTANTS View,        \* what may be read: [interfaces, neighbors, nodes, services]
          Sweep,       \* sweeps: [profile, requested, responders, heard], the range asked for,
                       \* as a list of one or none, who answers and who announces itself
          ServiceScan, \* scans for services: [method, range, ports, open]
          Context,     \* [settings, corrections]: of interfaces, functions of names to some
                       \* fields of a policy, and a sequence of merges and splits
          MaxSnapshots \* maxSnapshots, 50 in the code

ASSUME CurrentStateAssumption ==
    /\ \A v \in View : IsView(v)
    /\ \A w \in Sweep : w.profile \in {"standard", "deep"}
    /\ \A w \in Sweep : w.requested \in Seq(CIDR) /\ Len(w.requested) <= 1 /\ w.responders \cup w.heard \subseteq Address
    /\ \A x \in ServiceScan : x.method \in Protocol /\ x.range \in CIDR
    /\ \A x \in ServiceScan : x.ports \subseteq Nat \ {NoPort} /\ IsFiniteSet(x.ports)
    /\ \A x \in Context : IsSettings(x.settings) /\ x.corrections \in Seq(Correction)
    /\ MaxSnapshots \in Nat \ {0}

VARIABLES snapshots   \* the retained snapshots, oldest first

vars == snapshots
-----------------------------------------------------------------------------
Init == snapshots = <<>>

\* Mutant: the newest of the old ones is dropped.
RetainedButLast(s) == IF Len(s) > MaxSnapshots THEN Append(SubSeq(s, 1, MaxSnapshots - 1), Last(s)) ELSE s

\* saveSnapshot keeps the newest ones.
Retained(s) == SubSeq(s, Max({1, Len(s) - MaxSnapshots + 1}), Len(s))

\* An id that no retained snapshot has, for randomUUID.
NewId == CHOOSE n \in 1..(MaxSnapshots + 1) : \A i \in 1..Len(snapshots) : snapshots[i].id # n

\* A scan that has read the view v and made these checks saves its snapshot; a local one
\* reads nothing but the interfaces.
Save(profile, v, checks) ==
    LET local == profile = "local"
    IN  snapshots' = Retained(Append(snapshots,
            [id |-> NewId, profile |-> profile, interfaces |-> v.interfaces,
             neighbors |-> IF local THEN <<>> ELSE v.neighbors,
             nodes |-> IF local THEN Unread ELSE v.nodes,
             services |-> IF local THEN Unread ELSE v.services, checks |-> checks]))

ReadLocal(v) == Save("local", v, <<>>)
ReadPassive(v) == Save("passive", v, <<>>)

\* The range of a sweep is the one asked for, or else the first candidate under the settings
\* of the moment; without one, or when it is not safe, the scan fails.  The probe does not
\* ping itself.
Ranges(v, w) ==
    {c \in IF w.requested # <<>> THEN ToSet(w.requested)
           ELSE {Candidates(v.interfaces, x.settings)[1]
                    : x \in {y \in Context : Candidates(v.interfaces, y.settings) # <<>>}} : Safe(c)}

Pinged(v, c, w) ==
    LET targets == HostAddresses(c, OwnAddresses(v.interfaces)) IN <<Ping(targets, targets \cap w.responders)>>

ScanStandard(v) ==
    \E w \in Sweep : \E c \in Ranges(v, w) :
        w.profile = "standard" /\ Save("standard", v, Pinged(v, c, w))

\* A deep scan listens for announcements too.
ScanDeep(v) ==
    \E w \in Sweep : \E c \in Ranges(v, w) :
        /\ w.profile = "deep"
        /\ Save("deep", v, Pinged(v, c, w) \o (IF w.heard = {} THEN <<>> ELSE <<Query(w.heard)>>))

\* A scan for services reads the passive sources first; one with errors saves nothing.
ScanServices(v) ==
    \E x \in ServiceScan :
        /\ Safe(x.range)
        /\ Save("services", v, <<Probe(x.method, x.range, x.ports, x.open \cap (HostAddresses(x.range, {}) \X x.ports))>>)

Next == \E v \in View : \/ ReadLocal(v)
                        \/ ReadPassive(v)
                        \/ ScanStandard(v)
                        \/ ScanDeep(v)
                        \/ ScanServices(v)

Spec == Init /\ [][Next]_vars
-----------------------------------------------------------------------------
\* INV-02, OBS-05: a response is current exactly if, in the retained history, no later
\* check by the same method has covered its endpoint.
ResponsesAreLastWord ==
    LET checks == Checks(snapshots)
    IN  ToSet(CurrentResponses(checks)) =
            UNION {{r \in ToSet(ResponsesOf(checks[i])) :
                       \A j \in (i + 1)..Len(checks) :
                           checks[j][2].method = r.method => ~Covers(checks[j][2], r.endpoint)}
                   : i \in 1..Len(checks)}

\* INV-18: the probe is as the newest snapshot has it, and no device of the history takes
\* part in it.
SelfIsNewest ==
    LET devices == ComposedDevices(snapshots)
        probes == Probes(Last(snapshots).interfaces)
        own == {i \in 1..Len(devices) : devices[i].id = Self}
    IN  Cardinality(own) = Len(probes) /\ \A i \in own : devices[i] = probes[1]

\* The current state is composed of what is newest, each from the source entitled to it.
NewestOfEach == snapshots # <<>> => ResponsesAreLastWord /\ SelfIsNewest

\* OBS-05, OBS-06: a snapshot takes away no response but those that its checks cover and
\* those whose snapshot leaves the history, and brings none but its own: a response that
\* has gone does not come back, not even when the check that removed it is forgotten.
OnlyChecksCount ==
    LET before == ToSet(CurrentResponses(Checks(snapshots)))
        after == ToSet(CurrentResponses(Checks(snapshots')))
        new == Last(snapshots')
        kept == {snapshots'[i].id : i \in 1..Len(snapshots')}
    IN  /\ \A r \in after \ before : r.snapshot = new.id
        /\ \A r \in before \ after :
              \/ r.snapshot \notin kept
              \/ \E i \in 1..Len(new.checks) :
                    new.checks[i].method = r.method /\ Covers(new.checks[i], r.endpoint)
OnlyChecksChange == [][OnlyChecksCount]_vars
-----------------------------------------------------------------------------
\* INV-08, INV-10, INV-15: the inventory of the current state and of each snapshot by
\* itself, under any settings and after any corrections, is one: it is well formed, and no
\* reference in it dangles.  No response is lost: its address is assigned, but when the
\* settings exclude the interface of the device that has it.  The address of a service is
\* no device's, and whoever had it before, by whatever name now, advertises it.
Projects(inv, facts, settings) ==
    /\ I!IsInventory(inv) /\ I!ReferencesHold(inv)
    /\ \A r \in ToSet(facts.responses) :
          \/ r.endpoint[1] \in DOMAIN inv.assignments
          \/ \E i \in 1..Len(facts.devices) : /\ r.endpoint[1] \in facts.devices[i].addresses
                                              /\ ~PolicyOf(facts.devices[i], settings).identity
    /\ \A a \in UNION {v.addresses : v \in ToSet(facts.services)} :
          /\ inv.assignments[a].device = NoDevice
          /\ inv.assignments[a].advertisedBy # {} <=> a \in DOMAIN Observed(facts, settings).assignments
ProjectionHolds(facts, x) == Projects(Inventory(facts, x.settings, x.corrections), facts, x.settings)
InventoryHolds ==
    snapshots # <<>> =>
        LET current == Compose(snapshots)
            newest == FactsOf(Last(snapshots))
        IN  \A x \in Context : ProjectionHolds(current, x) /\ ProjectionHolds(newest, x)

\* The views that the server makes of one history agree with it and with each other: the
\* timelines, the presence of devices, the comparison of scans for services and the maps.
HistoryAgrees(facts, inv, history) ==
    TimelinesHold(history) /\ PresenceHolds(snapshots, history, Responding(facts, inv))
MapsAgree(facts, inv, networks) ==
    AnswersAreDrawn(facts, inv, networks) /\ VirtualIsAdvertised(facts, inv, networks)
ViewsHold(facts, x) ==
    LET inv == Inventory(facts, x.settings, x.corrections)
    IN  /\ HistoryAgrees(facts, inv, History(snapshots, x.settings, x.corrections))
        /\ RefreshKeeps(snapshots, x.settings, x.corrections)
        /\ MapsAgree(facts, inv, Networks(facts, x.settings))
ViewsAgree ==
    snapshots # <<>> => /\ \A method \in Protocol : ServicesHold(snapshots, method)
                        /\ LET facts == Compose(snapshots) IN \A x \in Context : ViewsHold(facts, x)

\* NET-03 .. NET-05, NET-08, UI-13: whatever is asked for, a scan stays in its scope: what it has sent to is
\* in an allowed and in a private range, no ping went to an address of the probe, and what
\* is offered to scan is safe and inside a range of an interface that may be scanned.
TargetsInScope ==
    snapshots # <<>> =>
        LET new == Last(snapshots)
            offered(x) == ScanCandidates(new.interfaces, x.settings)
        IN  /\ \A i \in 1..Len(new.checks) : new.checks[i].method # Mdns =>
                  \A a \in new.checks[i].addresses :
                      /\ \E r \in AllowedRange : ContainsIPv4(r, a)
                      /\ IsAllowedLocalIPv4(a)
                      /\ new.checks[i].method = Icmp => a \notin OwnAddresses(new.interfaces)
            /\ \A x \in Context : ShownCandidates(offered(x), new.interfaces, x.settings) = offered(x)
=============================================================================
