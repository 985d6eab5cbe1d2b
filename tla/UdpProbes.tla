----------------------------- MODULE UdpProbes -----------------------------
(***************************************************************************)
(* collectUdpServices of collectors/udp-services.js: workers that take the *)
(* addresses of a network one by one and probe every port of an address,   *)
(* once more when nothing was heard, each datagram with a permit of one    *)
(* pacer.                                                                  *)
(*                                                                         *)
(* Time is counted in intervals of the pacer.  A timer fires when it is    *)
(* due or up to Lateness intervals later, while other callbacks keep the   *)
(* event loop busy.  From one await to the next is one action.             *)
(***************************************************************************)
EXTENDS Integers, Sequences, FiniteSets, FiniteSetsExt

CONSTANTS Addresses,   \* how many addresses the network has
          Ports,       \* how many ports are probed on each
          Concurrency, \* how many workers there may be
          Retries,     \* 1, or 0
          RetryDelay,  \* how long a worker waits before it tries again
          Lateness,    \* how late a timer may fire
          MaxTime      \* bound: up to then time passes without a timer that is waited for

ASSUME ProbesAssumption ==
    /\ {Addresses, Ports, Concurrency} \subseteq Nat \ {0}
    /\ Retries \in {0, 1}
    /\ {RetryDelay, Lateness, MaxTime} \subseteq Nat

Worker == 1..Min({Concurrency, Addresses})
Endpoint == (1..Addresses) \X (1..Ports)

VARIABLES now,
          cursor,    \* the addresses taken so far
          at,        \* what every worker is doing
          endpoint,  \* the endpoint it is at
          probes,    \* the datagrams it has sent to that endpoint
          alarm,     \* when the timer it waits for is due
          nextPermit,\* nextPermitAt
          outcome,   \* the state of every endpoint that has been checked
          completed, \* the count that onProgress has reported last
          transmissions,
          aborted,   \* signal.aborted
          scan,      \* the promise of the collector
          sent       \* history: the times of the datagrams

vars == <<now, cursor, at, endpoint, probes, alarm, nextPermit, outcome, completed,
          transmissions, aborted, scan, sent>>

\* An endpoint has answered, as open, closed, unreachable or with an error, or it has not.
Outcome == {"answered", "open-or-filtered"}

TypeOK == /\ now \in Nat
          /\ cursor \in 0..Addresses
          /\ at \in [Worker -> {"new", "permit", "probing", "retrying", "ended", "threwAbort"}]
          /\ endpoint \in [Worker -> Endpoint]
          /\ probes \in [Worker -> 0..(1 + Retries)]
          /\ alarm \in [Worker -> Nat]
          /\ nextPermit \in Nat
          /\ outcome \in [Endpoint -> Outcome \cup {"none"}]
          /\ completed \in 0..(Addresses * Ports)
          /\ transmissions \in Nat
          /\ aborted \in BOOLEAN
          /\ scan \in {"new", "running", "returned", "threwAbort"}
          /\ sent \in Seq(Nat)

Init == /\ now = 0
        /\ cursor = 0
        /\ at = [w \in Worker |-> "new"]
        /\ endpoint = [w \in Worker |-> <<w, 1>>]
        /\ probes = [w \in Worker |-> 0]
        /\ alarm = [w \in Worker |-> 0]
        /\ nextPermit = 0
        /\ outcome = [e \in Endpoint |-> "none"]
        /\ completed = 0
        /\ transmissions = 0
        /\ aborted = FALSE
        /\ scan = "new"
        /\ sent = <<>>

Waiting(w) == at[w] \in {"permit", "retrying"}

\* A worker that has waited or need not wait sends its datagram.
Send(w, n) == /\ at' = [at EXCEPT ![w] = "probing"]
              /\ probes' = [probes EXCEPT ![w] = n + 1]
              /\ transmissions' = transmissions + 1
              /\ sent' = Append(sent, now)

\* Mutant: permits that nobody asked for are saved up.
AskPermitSavedUp(w, n) ==
    LET permitAt == nextPermit
    IN  /\ nextPermit' = permitAt + 1
        /\ alarm' = [alarm EXCEPT ![w] = permitAt]
        /\ IF permitAt <= now
           THEN Send(w, n)
           ELSE /\ at' = [at EXCEPT ![w] = "permit"]
                /\ probes' = [probes EXCEPT ![w] = n]
                /\ UNCHANGED <<transmissions, sent>>

\* waitForPermit: the worker gets the next free interval, and waits for it; it has sent n
\* datagrams to its endpoint before.
AskPermit(w, n) ==
    LET permitAt == Max({now, nextPermit})
    IN  /\ nextPermit' = permitAt + 1
        /\ alarm' = [alarm EXCEPT ![w] = permitAt]
        /\ IF permitAt = now
           THEN Send(w, n)
           ELSE /\ at' = [at EXCEPT ![w] = "permit"]
                /\ probes' = [probes EXCEPT ![w] = n]
                /\ UNCHANGED <<transmissions, sent>>

\* All workers are called one after the other; the first permit is for now.
Launch ==
    /\ scan = "new"
    /\ cursor' = Cardinality(Worker)
    /\ IF aborted
       THEN /\ at' = [w \in Worker |-> "threwAbort"]
            /\ scan' = "threwAbort"
            /\ UNCHANGED <<alarm, nextPermit, probes, transmissions, sent>>
       ELSE /\ at' = [w \in Worker |-> IF w = 1 THEN "probing" ELSE "permit"]
            /\ alarm' = [w \in Worker |-> now + w - 1]
            /\ nextPermit' = now + Cardinality(Worker)
            /\ probes' = [w \in Worker |-> IF w = 1 THEN 1 ELSE 0]
            /\ transmissions' = 1
            /\ sent' = <<now>>
            /\ scan' = "running"
    /\ UNCHANGED <<now, endpoint, outcome, completed, aborted>>

\* Mutant: the delay of the pacer cannot be aborted.
PermitComesAnyway(w) ==
    /\ at[w] = "permit"
    /\ now >= alarm[w]
    /\ Send(w, probes[w])
    /\ UNCHANGED <<now, cursor, endpoint, alarm, nextPermit, outcome, completed, aborted, scan>>

PermitComes(w) ==
    /\ at[w] = "permit"
    /\ now >= alarm[w]
    /\ ~aborted
    /\ Send(w, probes[w])
    /\ UNCHANGED <<now, cursor, endpoint, alarm, nextPermit, outcome, completed, aborted, scan>>

\* Nothing was heard: the endpoint is tried once more, after a delay.
TryAgain(w) ==
    /\ at[w] = "probing"
    /\ ~aborted
    /\ probes[w] <= Retries
    /\ at' = [at EXCEPT ![w] = "retrying"]
    /\ alarm' = [alarm EXCEPT ![w] = now + RetryDelay]
    /\ UNCHANGED <<now, cursor, endpoint, probes, nextPermit, outcome, completed,
                   transmissions, aborted, scan, sent>>

DelayEnds(w) ==
    /\ at[w] = "retrying"
    /\ now >= alarm[w]
    /\ ~aborted
    /\ AskPermit(w, probes[w])
    /\ UNCHANGED <<now, cursor, endpoint, outcome, completed, aborted, scan>>

\* The endpoint the worker goes to next: the next port, or the first one of the next address.
HasNext(w) == endpoint[w][2] < Ports \/ cursor < Addresses
NextEndpoint(w) == IF endpoint[w][2] < Ports THEN <<endpoint[w][1], endpoint[w][2] + 1>>
                   ELSE <<cursor + 1, 1>>

\* Mutant: an endpoint is given up at its first timeout.
CheckedAtOnce(w, o) ==
    /\ at[w] = "probing"
    /\ ~aborted
    /\ outcome' = [outcome EXCEPT ![endpoint[w]] = o]
    /\ completed' = completed + 1
    /\ IF HasNext(w)
       THEN /\ endpoint' = [endpoint EXCEPT ![w] = NextEndpoint(w)]
            /\ cursor' = Max({cursor, NextEndpoint(w)[1]})
            /\ AskPermit(w, 0)
            /\ UNCHANGED scan
       ELSE /\ at' = [at EXCEPT ![w] = "ended"]
            /\ scan' = IF \A v \in Worker \ {w} : at[v] = "ended" THEN "returned" ELSE scan
            /\ UNCHANGED <<cursor, endpoint, probes, alarm, nextPermit, transmissions, sent>>
    /\ UNCHANGED <<now, aborted>>

\* The endpoint has its outcome, and the worker goes on.
Checked(w, o) ==
    /\ at[w] = "probing"
    /\ ~aborted
    /\ o = "open-or-filtered" => probes[w] > Retries
    /\ outcome' = [outcome EXCEPT ![endpoint[w]] = o]
    /\ completed' = completed + 1
    /\ IF HasNext(w)
       THEN /\ endpoint' = [endpoint EXCEPT ![w] = NextEndpoint(w)]
            /\ cursor' = Max({cursor, NextEndpoint(w)[1]})
            /\ AskPermit(w, 0)
            /\ UNCHANGED scan
       ELSE /\ at' = [at EXCEPT ![w] = "ended"]
            /\ scan' = IF \A v \in Worker \ {w} : at[v] = "ended" THEN "returned" ELSE scan
            /\ UNCHANGED <<cursor, endpoint, probes, alarm, nextPermit, transmissions, sent>>
    /\ UNCHANGED <<now, aborted>>

\* Mutant: the delay before a retry is given up and never settles.
StopProbing(w) ==
    /\ aborted
    /\ at[w] \in {"permit", "probing"}
    /\ at' = [at EXCEPT ![w] = "threwAbort"]
    /\ scan' = IF scan = "running" THEN "threwAbort" ELSE scan
    /\ UNCHANGED <<now, cursor, endpoint, probes, alarm, nextPermit, outcome, completed,
                   transmissions, aborted, sent>>

\* Timers and sockets reject when the scan is aborted.
Stop(w) ==
    /\ aborted
    /\ at[w] \in {"permit", "retrying", "probing"}
    /\ at' = [at EXCEPT ![w] = "threwAbort"]
    /\ scan' = IF scan = "running" THEN "threwAbort" ELSE scan
    /\ UNCHANGED <<now, cursor, endpoint, probes, alarm, nextPermit, outcome, completed,
                   transmissions, aborted, sent>>

Abort ==
    /\ ~aborted
    /\ aborted' = TRUE
    /\ UNCHANGED <<now, cursor, at, endpoint, probes, alarm, nextPermit, outcome, completed,
                   transmissions, scan, sent>>

\* No timer is later than Lateness.
TimePasses ==
    /\ now < MaxTime \/ \E w \in Worker : Waiting(w) /\ alarm[w] > now
    /\ \A w \in Worker : Waiting(w) => now < alarm[w] + Lateness
    /\ now' = now + 1
    /\ UNCHANGED <<cursor, at, endpoint, probes, alarm, nextPermit, outcome, completed,
                   transmissions, aborted, scan, sent>>

WorkerGoesOn(w) == \/ PermitComes(w) \/ TryAgain(w) \/ DelayEnds(w) \/ Stop(w)
                   \/ \E o \in Outcome : Checked(w, o)

Next == \/ Launch
        \/ \E w \in Worker : WorkerGoesOn(w)
        \/ Abort
        \/ TimePasses

\* Time passes, timers fire, and every probe has a timeout.
Fairness == /\ WF_vars(Launch) /\ WF_vars(TimePasses)
            /\ \A w \in Worker : WF_vars(WorkerGoesOn(w))

Spec == Init /\ [][Next]_vars /\ Fairness
-----------------------------------------------------------------------------
\* UDP-08: datagrams are an interval apart, but for timers that fire late: over any
\* stretch the workers are ahead of the pacer by the lateness and no more.
PacedUpToLateness ==
    \A i, j \in 1..Len(sent) : i < j => sent[j] - sent[i] + Lateness >= j - i

\* UDP-07, UDP-10: an endpoint counts as uncertain only when all its tries were made, every
\* endpoint of a scan that returns has an outcome, and the totals agree with each other.
TotalsAgree ==
    /\ completed = Cardinality({e \in Endpoint : outcome[e] # "none"})
    /\ transmissions = Len(sent)
    /\ transmissions >= completed + Cardinality({e \in Endpoint : outcome[e] = "open-or-filtered"}) * Retries
    /\ transmissions <= (completed + Cardinality(Worker)) * (1 + Retries)
    /\ scan = "returned" => \A e \in Endpoint : outcome[e] # "none"

\* UDP-09: once the scan is aborted nothing more is sent.
NothingIsSent == aborted => sent' = sent
StopsSending == [][NothingIsSent]_vars

\* The scan ends, and so do all its workers.
AllEnds == <>(scan \notin {"new", "running"} /\ \A w \in Worker : at[w] \in {"ended", "threwAbort"})
=============================================================================
