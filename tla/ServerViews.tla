---------------------------- MODULE ServerViews ----------------------------
(***************************************************************************)
(* What server.js answers of the retained snapshots, but for the           *)
(* inventory and the topology: the presence of devices, the observation of *)
(* services and the comparison of two points of the history.               *)
(***************************************************************************)
EXTENDS MacTimeline, Topology

\* buildPresence: of every device of a retained snapshot, the first and the last snapshot
\* that has it, how many have, how often it has responded, and whether it counts as observed
\* in the current state.
Responding(facts, inv) == {d \in DOMAIN inv.devices : ResponsesFrom(facts, inv, d) # {}}

Presence(s, history, responding) ==
    LET with(d) == {i \in 1..Len(s) : d \in DOMAIN history[i].inventory.devices}
        answers(d, i) == Cardinality(ResponsesFrom(history[i].facts, history[i].inventory, d))
    IN  [d \in UNION {DOMAIN p.inventory.devices : p \in ToSet(history)} |->
            [first |-> s[Min(with(d))].id, last |-> s[Max(with(d))].id, observations |-> Cardinality(with(d)),
             responses |-> MapThenSumSet(LAMBDA i : answers(d, i), with(d)), observed |-> d \in responding]]
-----------------------------------------------------------------------------
\* The scan for services that a snapshot has made, its only check of the method.
ScanOf(snapshot, method) == SelectSeq(snapshot.checks, LAMBDA c : c.method = method)[1]

\* The newest scan before the i-th that asked the same, 0 for none.
Baseline(s, i, method) ==
    Latest({j \in 1..(i - 1) : /\ Made(s[j], method)
                               /\ ScanOf(s[j], method).range = ScanOf(s[i], method).range
                               /\ ScanOf(s[j], method).ports = ScanOf(s[i], method).ports})

\* buildComparableServiceChanges for the i-th snapshot.
ServiceChanges(s, i, method) ==
    LET j == Baseline(s, i, method)
        now == ScanOf(s[i], method).responses
        before == ScanOf(s[j], method).responses
    IN  IF j = 0 THEN [comparable |-> FALSE, added |-> {}, removed |-> {}]
        ELSE [comparable |-> TRUE, added |-> now \ before, removed |-> before \ now]

\* buildTcpServiceObservation and buildUdpServiceObservation: the newest scan of the method,
\* the endpoints that are open now, each with what has changed, and those that are not any
\* more.  Endpoints that a scan is uncertain of are left out.
ServiceObservation(s, method) ==
    LET newest == Latest({i \in 1..Len(s) : Made(s[i], method)})
        changes == ServiceChanges(s, newest, method)
        ChangeOf(r) == CASE r.snapshot # s[newest].id \/ ~changes.comparable -> "baseline"
                         [] r.snapshot = s[newest].id /\ changes.comparable /\ r.endpoint \in changes.added -> "new"
                         [] OTHER -> "unchanged"
    IN  [snapshot |-> s[newest].id,
         endpoints |-> {[endpoint |-> r.endpoint, change |-> ChangeOf(r)] : r \in Open(Compose(s), method)},
         closed |-> changes.removed]

\* GET /api/compare, of two snapshots by their position: each with the history before it.
Comparison(s, i, j, settings, operations) ==
    Diff(Inventory(Compose(SubSeq(s, 1, i)), settings, operations),
         Inventory(Compose(SubSeq(s, 1, j)), settings, operations))
-----------------------------------------------------------------------------
\* TOP-11: a response counts once, for the device that had its address when it was given,
\* however often the snapshot is read or its devices are merged and split; those of virtual
\* addresses, and of interfaces that identify nothing, count for none.
PresenceHolds(s, history, responding) ==
    LET presence == Presence(s, history, responding)
        Counted(p) == {r \in ToSet(p.facts.responses) :
                          /\ r.endpoint[1] \in DOMAIN p.inventory.assignments
                          /\ p.inventory.assignments[r.endpoint[1]].device # NoDevice}
    IN  MapThenSumSet(LAMBDA d : presence[d].responses, DOMAIN presence) =
            MapThenSumSet(LAMBDA i : Cardinality(Counted(history[i])), 1..Len(s))

\* TOP-08: an endpoint is not open and closed at once, a new one was not open in the scan
\* that it is compared with, and only scans of one coverage are compared.
AgreesWithScans(x, s, method) ==
    LET scan == ScanOf(s[CHOOSE i \in 1..Len(s) : s[i].id = x.snapshot], method)
        Alike(i) == /\ Made(s[i], method) /\ s[i].id # x.snapshot
                    /\ ScanOf(s[i], method).range = scan.range /\ ScanOf(s[i], method).ports = scan.ports
        Found(i, e) == e.endpoint \in ScanOf(s[i], method).responses
    IN  /\ x.closed \cap {e.endpoint : e \in x.endpoints} = {}
        /\ \A e \in x.closed : Covers(scan, e)
        /\ \A e \in x.endpoints : e.change = "new" =>
              \A i \in 1..Len(s) : Alike(i) /\ Found(i, e) => \E j \in (i + 1)..Len(s) : Alike(j) /\ ~Found(j, e)
ServicesHold(s, method) ==
    (\E i \in 1..Len(s) : Made(s[i], method)) => AgreesWithScans(ServiceObservation(s, method), s, method)

\* OBS-06, TOP-07: a refresh of the local configuration that finds nothing new is no change:
\* the comparison with the point before it shows no difference.  This is so unless an older
\* snapshot gives an address of the probe to another device too; which of the two has it
\* then depends on their order, and that is another one after the refresh.
NoDifference(diff) == diff.added \cup diff.removed \cup diff.changed = {}
RefreshKeeps(s, settings, operations) ==
    LET n == Len(s)
        own == OwnAddresses(s[n].interfaces)
    IN  /\ n > 1 /\ s[n].profile = "local" /\ s[n].interfaces = s[n - 1].interfaces
        /\ \A d \in ToSet(ComposedDevices(s)) : d.id # Self => d.addresses \cap own = {}
        => NoDifference(Comparison(s, n - 1, n, settings, operations))
=============================================================================
