----------------------------- MODULE ProbePool -----------------------------
(***************************************************************************)
(* The worker pools of collectTcpServices (collectors/tcp-services.js) and *)
(* pingSweep (collectors/linux.js): workers that share a cursor over the   *)
(* targets, probe one target after the other, and stop when the scan is    *)
(* aborted.  Promise.all waits for them: it returns when all have ended    *)
(* and rejects with the first that throws, while the others go on.         *)
(*                                                                         *)
(* From the end of one probe to the start of its next one a worker runs    *)
(* without an await; this is one action.                                   *)
(***************************************************************************)
EXTENDS Integers, FiniteSets, FiniteSetsExt

CONSTANTS Targets,     \* how many attempts there are: addresses, or addresses times ports
          Concurrency  \* how many workers there may be

ASSUME PoolAssumption == /\ Targets \in Nat \ {0}
                         /\ Concurrency \in Nat \ {0}

Target == 1..Targets
Worker == 1..Min({Concurrency, Targets})

VARIABLES ping,      \* whether this is the pool of pingSweep.  Its probes may throw, when
                     \* the command cannot run, while a connection has an outcome always.
                     \* Behind a connection the signal is looked at, but behind a ping only
                     \* when it throws: a response that was there before counts
          cursor,    \* the targets taken so far
          at,        \* what every worker is doing
          target,    \* the target it has taken last, 0 before the first
          outcome,   \* what the probes found
          completed, \* the count that onProgress has reported last
          signal,    \* signal.aborted
          scan,      \* the promise of the collector
          probed     \* history: how often every target was probed

poolVars == <<ping, cursor, at, target, outcome, completed, signal, scan, probed>>

PoolTypeOK == /\ ping \in BOOLEAN
              /\ cursor \in 0..Targets
              /\ at \in [Worker -> {"new", "probing", "ended", "threw", "threwAbort"}]
              /\ target \in [Worker -> 0..Targets]
              /\ outcome \in [Target -> {"none", "positive", "negative"}]
              /\ completed \in 0..Targets
              /\ signal \in BOOLEAN
              /\ scan \in {"new", "running", "returned", "threw", "threwAbort"}
              /\ probed \in [Target -> Nat]

PoolInit == /\ ping \in BOOLEAN
            /\ cursor = 0
            /\ at = [w \in Worker |-> "new"]
            /\ target = [w \in Worker |-> 0]
            /\ outcome = [t \in Target |-> "none"]
            /\ completed = 0
            /\ signal = FALSE
            /\ scan = "new"
            /\ probed = [t \in Target |-> 0]

\* All workers are called one after the other: each takes a target and starts its probe,
\* or throws when the scan has been aborted before.
Launch ==
    /\ scan = "new"
    /\ cursor' = Cardinality(Worker)
    /\ target' = [w \in Worker |-> w]
    /\ IF signal
       THEN /\ at' = [w \in Worker |-> "threwAbort"]
            /\ scan' = "threwAbort"
            /\ UNCHANGED probed
       ELSE /\ at' = [w \in Worker |-> "probing"]
            /\ scan' = "running"
            /\ probed' = [t \in Target |-> IF t \in Worker THEN 1 ELSE 0]
    /\ UNCHANGED <<ping, outcome, completed, signal>>

\* Promise.all: what becomes of the scan when the worker w ends as how.
ScanAfter(w, how) ==
    LET last == \A v \in Worker \ {w} : at[v] = "ended"
    IN  IF scan # "running" \/ (how = "ended" /\ ~last) THEN scan
        ELSE IF how = "ended" THEN "returned" ELSE how

End(w, how) == /\ at' = [at EXCEPT ![w] = how]
               /\ scan' = ScanAfter(w, how)
               /\ UNCHANGED <<cursor, target, probed>>

\* Mutant: the signal is not looked at when a target has been taken.
ProbeUnchecked(w, t) ==
    /\ target' = [target EXCEPT ![w] = t]
    /\ probed' = [probed EXCEPT ![t] = @ + 1]
    /\ UNCHANGED <<at, scan>>

\* A worker whose loop has taken the target t probes it, or throws when the scan has been
\* aborted.
Probe(w, t) ==
    /\ target' = [target EXCEPT ![w] = t]
    /\ IF signal
       THEN /\ at' = [at EXCEPT ![w] = "threwAbort"]
            /\ scan' = ScanAfter(w, "threwAbort")
            /\ UNCHANGED probed
       ELSE /\ probed' = [probed EXCEPT ![t] = @ + 1]
            /\ UNCHANGED <<at, scan>>

\* Mutant: a cursor for every worker of its own.
TakeOwn(w) == IF target[w] < Targets THEN UNCHANGED cursor /\ Probe(w, target[w] + 1)
              ELSE End(w, "ended")

\* The loop of a worker: it takes the next target, if there is one.
TakeNext(w) == IF cursor < Targets THEN cursor' = cursor + 1 /\ Probe(w, cursor + 1)
               ELSE End(w, "ended")

\* Mutant: the position is reported as the count.
ProbeReturnsPosition(w, o) ==
    /\ at[w] = "probing"
    /\ ~signal
    /\ outcome' = [outcome EXCEPT ![target[w]] = o]
    /\ completed' = target[w]
    /\ TakeNext(w)
    /\ UNCHANGED <<ping, signal>>

\* A probe has an outcome, and the worker goes on.
ProbeReturns(w, o) ==
    /\ at[w] = "probing"
    /\ signal => ping /\ o = "positive"
    /\ outcome' = [outcome EXCEPT ![target[w]] = o]
    /\ completed' = completed + 1
    /\ TakeNext(w)
    /\ UNCHANGED <<ping, signal>>

\* Mutant: an aborted probe is given up and never settles.
ProbeHangs(w) ==
    /\ at[w] = "probing"
    /\ ping /\ ~signal
    /\ End(w, "threw")
    /\ UNCHANGED <<ping, outcome, completed, signal>>

\* The probe of a worker throws, or the worker finds the scan aborted behind it.
ProbeThrows(w) ==
    /\ at[w] = "probing"
    /\ signal \/ ping
    /\ End(w, IF signal THEN "threwAbort" ELSE "threw")
    /\ UNCHANGED <<ping, outcome, completed, signal>>

\* The scan manager aborts the signal.
Abort ==
    /\ ~signal
    /\ signal' = TRUE
    /\ UNCHANGED <<ping, cursor, at, target, outcome, completed, scan, probed>>

PoolNext == \/ Launch
            \/ \E w \in Worker, o \in {"positive", "negative"} : ProbeReturns(w, o)
            \/ \E w \in Worker : ProbeThrows(w)
            \/ Abort

\* Every probe ends: a connection has a timeout, and so has the ping command.
PoolFairness == /\ WF_poolVars(Launch)
                /\ \A w \in Worker : WF_poolVars(ProbeThrows(w) \/ \E o \in {"positive", "negative"} : ProbeReturns(w, o))

PoolSpec == PoolInit /\ [][PoolNext]_poolVars /\ PoolFairness
-----------------------------------------------------------------------------
\* COL-08: no target is probed twice, and a scan that returns has probed all of them and
\* has the outcome of each.
EachTargetOnce ==
    /\ \A t \in Target : probed[t] <= 1
    /\ scan = "returned" => \A t \in Target : probed[t] = 1 /\ outcome[t] # "none"

\* TCP-10: with workers that end in any order, the count that is reported is the number
\* of outcomes, never more than the total and never less than before.
ProgressIsAccurate == completed = Cardinality({t \in Target : outcome[t] # "none"})

\* TCP-08, COL-10: once the scan is aborted no probe is started, and it does not return,
\* but for a sweep whose last responses were there already.
NoProbeOnceAborted == signal => /\ probed' = probed
                                /\ scan' = "returned" => ping \/ scan = "returned"
StopsOnAbort == [][NoProbeOnceAborted]_poolVars

\* The scan ends, and so do all its workers, in the end.
AllEnds == <>(scan \notin {"new", "running"} /\ \A w \in Worker : at[w] # "probing")

\* features.md: "one-scan-at-a-time execution": when a scan has ended, and with it its
\* hold on the scan manager, it starts no more probes beside those of the next scan.
NoProbeOnceEnded == scan \notin {"new", "running"} => probed' = probed
NoProbeAfterEnd == [][NoProbeOnceEnded]_poolVars
=============================================================================
