-------------------------- MODULE ServiceScheduler --------------------------
(***************************************************************************)
(* src/src/scan/service-scheduler.js, and what meets it in server.js and   *)
(* json-store.js: the run of a schedule, POST /api/schedules/:id/run, the  *)
(* changes of schedules, and the runtime fields (nextRunAt, lastStatus)    *)
(* that both kinds of run write.                                           *)
(*                                                                         *)
(* A timer calls tick() again and again; a tick reads the schedules, keeps *)
(* copies of those that are due, and runs them one after the other, each   *)
(* with the store and a whole scan to wait for.  Meanwhile users run,      *)
(* change and delete schedules; a PATCH merges its body into the schedule  *)
(* that it has read before.  Writes go through the queue of the store in   *)
(* the order of the calls.                                                 *)
(*                                                                         *)
(* Ticks and manual runs come back to "idle": each name stands for one     *)
(* activation that may be at work beside the others, and not for one call. *)
(***************************************************************************)
EXTENDS Integers, Sequences, FiniteSets, SequencesExt, FiniteSetsExt

CONSTANTS Schedule,    \* the stored schedules
          Interval,    \* intervalMinutes of every schedule at first
          NewInterval, \* those it may be changed to
          Ticks,       \* how many activations of tick() may overlap
          ManualRun,   \* activations of POST /api/schedules/:id/run
          Patch,       \* activations of PATCH /api/schedules/:id
          MaxTime,     \* bound: the clock stops there
          MaxEvents    \* bound: how often, in all, users run, change or delete a
                       \* schedule, a write fails or the process dies

ASSUME SchedulerAssumption ==
    /\ IsFiniteSet(Schedule)
    /\ Interval \in [Schedule -> Nat \ {0}] /\ NewInterval \subseteq Nat \ {0}
    /\ {Ticks, MaxTime, MaxEvents} \subseteq Nat
    /\ ManualRun \cap Nat = {}

Tick == 1..Ticks
Run == Tick \cup ManualRun
Intervals == NewInterval \cup {Interval[id] : id \in Schedule}

VARIABLES now,       \* the clock
          stored,    \* the schedules in the database
          writes,    \* calls of the store that have not taken effect yet
          running,   \* this.running of the scheduler
          at,        \* where every tick and every manual run waits
          behind,    \* how many of the writes its read has to wait for
          due,       \* the copies of the schedules it still has to run
          patching,  \* the copy that a PATCH has read and not yet written, if any
          started,   \* the time a tick has taken
          active,    \* whose scan holds the slot of the scan manager: at most one
          result,    \* how the scan of a tick or a run ended
          lastScan,  \* history: the tick time of the last scheduled scan, per schedule
          shortest,  \* history: the shortest interval a schedule has had
          events,    \* counts towards MaxEvents
          faults     \* history: whether a write has failed or the process has died

vars == <<now, stored, writes, running, at, behind, due, patching, started, active, result,
          lastScan, shortest, events, faults>>
edits == <<patching, shortest>>

Copy == [id : Schedule, interval : Intervals]
Change == [id : Schedule, change : {"patch"}, enabled : BOOLEAN, interval : Intervals]
             \cup [id : Schedule, change : {"delete"}]
Status == {"none", "running", "completed", "failed", "skipped", "cancelled"}
Keep == -1     \* a write that leaves nextRunAt alone
Never == -1    \* no time

TypeOK ==
    /\ now \in 0..MaxTime
    /\ stored \in [Schedule -> [present : BOOLEAN, enabled : BOOLEAN, interval : Intervals,
                              next : Nat, last : Status]]
    /\ \A i \in 1..Len(writes) :
          writes[i] \in [by : Run, id : Schedule, next : Nat \cup {Keep}, last : Status]
                   \cup Change
    /\ running \in BOOLEAN
    /\ at \in [Run -> {"idle", "reading", "next", "announcing", "starting", "scanning", "recording"}]
    /\ behind \in [Run -> 0..Len(writes)]
    /\ due \in [Run -> Seq(Copy)]
    /\ \A p \in Patch : patching[p] \in Seq([id : Schedule, enabled : BOOLEAN, interval : Intervals])
    /\ started \in [Run -> 0..MaxTime]
    /\ active \in {{}} \cup {{r} : r \in Run}
    /\ result \in [Run -> {"none", "completed", "failed", "cancelled"}]
    /\ lastScan \in [Schedule -> {Never} \cup 0..MaxTime]
    /\ shortest \in [Schedule -> Intervals]
    /\ events \in 0..MaxEvents
    /\ faults \in BOOLEAN

Init == /\ now = 0
        /\ stored = [id \in Schedule |-> [present |-> TRUE, enabled |-> TRUE, interval |-> Interval[id],
                                          next |-> 0, last |-> "none"]]
        /\ writes = <<>>
        /\ running = FALSE
        /\ at = [r \in Run |-> "idle"]
        /\ behind = [r \in Run |-> 0]
        /\ due = [r \in Run |-> <<>>]
        /\ patching = [p \in Patch |-> <<>>]
        /\ started = [r \in Run |-> 0]
        /\ active = {}
        /\ result = [r \in Run |-> "none"]
        /\ lastScan = [id \in Schedule |-> Never]
        /\ shortest = Interval
        /\ events = 0
        /\ faults = FALSE

\* The status of a schedule as every later read returns it: sanitizeServiceSchedule
\* knows four values and makes null of any other.
Shown(last) == IF last \in {"running", "completed", "failed", "skipped"} THEN last ELSE "none"

\* r calls updateServiceScheduleRuntime.
Update(r, id, next, last) ==
    writes' = Append(writes, [by |-> r, id |-> id, next |-> next, last |-> last])

Goto(r, place) == at' = [at EXCEPT ![r] = place]

\* r calls read(), and waits for the writes that are queued by then.
CallRead(r, place) == Goto(r, place) /\ behind' = [behind EXCEPT ![r] = Len(writes)]

\* A schedule as updateServiceSchedule leaves it: all that can be changed is as the PATCH
\* says, and a new interval starts now.
Patched(s, w) ==
    [s EXCEPT !.enabled = w.enabled, !.interval = w.interval,
              !.next = IF w.interval # s.interval THEN now + w.interval ELSE @]

\* The stored schedules after the write w; a schedule that is gone stays gone.
Effect(w) ==
    LET s == [stored[w.id] EXCEPT !.last = Shown(@)]
        new == CASE "change" \notin DOMAIN w -> [s EXCEPT !.last = w.last, !.next = IF w.next = Keep THEN @ ELSE w.next]
                 [] "change" \in DOMAIN w /\ w.change = "patch" -> Patched(s, w)
                 [] OTHER -> [s EXCEPT !.present = FALSE]
    IN  IF s.present THEN [stored EXCEPT ![w.id] = new] ELSE stored

\* Where the run r goes on when its write is done, with the writes q still queued.  A
\* tick has announced a run and reads again, or has recorded it and goes to the next.
Resume(r, q) ==
    LET step == CASE at[r] = "announcing" -> IF r \in Tick THEN "starting" ELSE "scanning"
                  [] at[r] = "recording" -> IF r \in Tick THEN "next" ELSE "idle"
    IN  /\ Goto(r, step)
        /\ behind' = [x \in Run |-> CASE x = r /\ step = "starting" -> q
                                      [] behind[x] > 0 -> behind[x] - 1
                                      [] OTHER -> 0]
        /\ due' = IF at[r] = "recording" THEN [due EXCEPT ![r] = Tail(@)] ELSE due
        /\ result' = IF at[r] = "recording" THEN [result EXCEPT ![r] = "none"] ELSE result

\* The store does the first write.
StoreWrites ==
    /\ writes # <<>>
    /\ LET w == Head(writes)
       IN  /\ stored' = Effect(w)
           /\ shortest' = [id \in Schedule |-> Min({shortest[id], stored'[id].interval})]
           /\ IF "change" \in DOMAIN w
              THEN /\ behind' = [x \in Run |-> IF behind[x] > 0 THEN behind[x] - 1 ELSE 0]
                   /\ UNCHANGED <<at, due, result>>
              ELSE Resume(w.by, Len(writes) - 1)
    /\ writes' = Tail(writes)
    /\ UNCHANGED <<now, running, patching, started, active, lastScan, events, faults>>

\* #runOne catches that its run could not be recorded as completed: it is to be as failed.
RecordsAsFailed(w) ==
    /\ w.by \in Tick /\ at[w.by] = "recording" /\ w.last = "completed"
    /\ writes' = Append(Tail(writes), [w EXCEPT !.last = "failed"])
    /\ UNCHANGED <<at, due>>

\* It fails to: a manual run ends there, while its scan goes on, and a tick records its run
\* as failed.  Any other failure makes the tick reject, and so dies the process, see Crash.
StoreFails ==
    /\ writes # <<>>
    /\ events < MaxEvents
    /\ faults' = TRUE
    /\ events' = events + 1
    /\ LET w == Head(writes)
       IN  \/ /\ "change" \in DOMAIN w
              /\ writes' = Tail(writes)
              /\ UNCHANGED <<at, due>>
           \/ /\ "change" \notin DOMAIN w /\ w.by \in ManualRun
              /\ writes' = Tail(writes)
              /\ Goto(w.by, "idle")
              /\ due' = [due EXCEPT ![w.by] = <<>>]
           \/ "change" \notin DOMAIN w /\ RecordsAsFailed(w)
    /\ behind' = [x \in Run |-> IF behind[x] > 0 THEN behind[x] - 1 ELSE 0]
    /\ UNCHANGED <<now, stored, running, patching, started, active, result, lastScan, shortest>>
-----------------------------------------------------------------------------
\* The first activation that is free stands for the next call.
Free(t) == at[t] = "idle" /\ \A s \in 1..(t - 1) : at[s] # "idle"

\* Mutant: ticks overlap.
TickStartsAgain(t) ==
    /\ Free(t)
    /\ running' = TRUE
    /\ CallRead(t, "reading")
    /\ UNCHANGED <<now, stored, writes, due, started, active, result, lastScan, events, faults, edits>>

\* The timer calls tick(), which returns at once while another tick is at work.
TickStarts(t) ==
    /\ Free(t)
    /\ ~running
    /\ running' = TRUE
    /\ CallRead(t, "reading")
    /\ UNCHANGED <<now, stored, writes, due, started, active, result, lastScan, events, faults, edits>>

CopyOf(id) == [id |-> id, interval |-> stored[id].interval]

\* The tick has read the schedules and takes the time: the due ones, earliest first; those
\* due at the same time come in any order, as they are stored.
TickReads(t) ==
    /\ at[t] = "reading"
    /\ behind[t] = 0
    /\ started' = [started EXCEPT ![t] = now]
   /\ \E ids \in SetToSeqs({id \in Schedule : /\ stored[id].present
                                               /\ stored[id].enabled
                                                /\ stored[id].next <= now}) :
          /\ \A i, j \in 1..Len(ids) : i < j => stored[ids[i]].next <= stored[ids[j]].next
          /\ due' = [due EXCEPT ![t] = [i \in 1..Len(ids) |-> CopyOf(ids[i])]]
    /\ Goto(t, "next")
    /\ UNCHANGED <<now, stored, writes, running, behind, active, result, lastScan, events, faults, edits>>

\* Mutant: the next time is not set before the run.
AnnounceOnly(t) ==
    /\ at[t] = "next"
    /\ due[t] # <<>>
    /\ Update(t, Head(due[t]).id, Keep, "running")
    /\ Goto(t, "announcing")
    /\ UNCHANGED <<now, stored, running, behind, due, started, active, result, lastScan, events, faults, edits>>

\* #runOne: before the run, the schedule gets its next time, by the interval of the copy.
Announce(t) ==
    /\ at[t] = "next"
    /\ due[t] # <<>>
    /\ Update(t, Head(due[t]).id, started[t] + Head(due[t]).interval, "running")
    /\ Goto(t, "announcing")
    /\ UNCHANGED <<now, stored, running, behind, due, started, active, result, lastScan, events, faults, edits>>

\* Mutant: the tick returns and is still marked as running.
TickEndsRunning(t) ==
    /\ at[t] = "next"
    /\ due[t] = <<>>
    /\ started' = [started EXCEPT ![t] = 0]
    /\ Goto(t, "idle")
    /\ UNCHANGED <<now, stored, writes, running, behind, due, active, result, lastScan, events, faults, edits>>

TickEnds(t) ==
    /\ at[t] = "next"
    /\ due[t] = <<>>
    /\ running' = FALSE
    /\ started' = [started EXCEPT ![t] = 0]
    /\ Goto(t, "idle")
    /\ UNCHANGED <<now, stored, writes, behind, due, active, result, lastScan, events, faults, edits>>

Runnable(id) == stored[id].present /\ stored[id].enabled

\* Mutant: a refused run is not recorded.
ScanRefusedSilently(t) ==
    /\ at[t] = "starting"
    /\ behind[t] = 0
    /\ ~Runnable(Head(due[t]).id) \/ active # {}
    /\ due' = [due EXCEPT ![t] = Tail(@)]
    /\ Goto(t, "next")
    /\ UNCHANGED <<now, stored, writes, running, behind, started, active, result, lastScan, events, faults, edits>>

\* startServiceScan has read the schedule again, and starts the scan ...
ScanStarts(t) ==
    /\ at[t] = "starting"
    /\ behind[t] = 0
    /\ Runnable(Head(due[t]).id)
    /\ active = {}
    /\ active' = {t}
    /\ lastScan' = [lastScan EXCEPT ![Head(due[t]).id] = started[t]]
    /\ Goto(t, "scanning")
    /\ UNCHANGED <<now, stored, writes, running, behind, due, started, result, events, faults, edits>>

\* ... or throws: SCAN_ACTIVE is recorded as skipped, anything else as failed.
ScanRefused(t) ==
    /\ at[t] = "starting"
    /\ behind[t] = 0
    /\ ~Runnable(Head(due[t]).id) \/ active # {}
    /\ Update(t, Head(due[t]).id, Keep, IF Runnable(Head(due[t]).id) THEN "skipped" ELSE "failed")
    /\ Goto(t, "recording")
    /\ UNCHANGED <<now, stored, running, behind, due, started, active, result, lastScan, events, faults, edits>>

\* A scan ends; it may end before the caller of a manual run has come to wait for it.
ScanEnds(r, how) ==
    /\ active = {r}
    /\ active' = {}
    /\ result' = [result EXCEPT ![r] = IF at[r] = "idle" THEN "none" ELSE how]
    /\ UNCHANGED <<now, stored, writes, running, at, behind, due, started, lastScan, events, faults, edits>>

\* A tick records completed or failed, a cancelled scan being a failed one.
TickRecords(t) ==
    /\ at[t] = "scanning"
    /\ t \notin active
    /\ Update(t, Head(due[t]).id, Keep, IF result[t] = "completed" THEN "completed" ELSE "failed")
    /\ Goto(t, "recording")
    /\ UNCHANGED <<now, stored, running, behind, due, started, active, result, lastScan, events, faults, edits>>
-----------------------------------------------------------------------------
\* POST /api/schedules/:id/run reads the schedule twice and starts its scan.
ManualStarts(r, id) ==
    /\ at[r] = "idle"
    /\ events < MaxEvents
    /\ events' = events + 1
    /\ writes = <<>>
    /\ Runnable(id)
    /\ active = {}
    /\ active' = {r}
    /\ due' = [due EXCEPT ![r] = <<CopyOf(id)>>]
    /\ Update(r, id, now + stored[id].interval, "running")
    /\ Goto(r, "announcing")
    /\ UNCHANGED <<now, stored, running, behind, started, result, lastScan, faults, edits>>

\* When the scan has ended, its status is recorded as it is.
ManualRecords(r) ==
    /\ at[r] = "scanning"
    /\ r \notin active
    /\ Update(r, Head(due[r]).id, Keep, result[r])
    /\ Goto(r, "recording")
    /\ UNCHANGED <<now, stored, running, behind, due, started, active, result, lastScan, events, faults, edits>>

\* PATCH /api/schedules/:id reads the schedule, ...
PatchReads(p, id) ==
    /\ patching[p] = <<>>
    /\ events < MaxEvents
    /\ events' = events + 1
    /\ writes = <<>>
    /\ stored[id].present
    /\ patching' = [patching EXCEPT ![p] = <<[id |-> id, enabled |-> stored[id].enabled, interval |-> stored[id].interval]>>]
    /\ UNCHANGED <<now, stored, writes, running, at, behind, due, started, active, result, lastScan, shortest, faults>>

\* ... waits for its body and for a read by which that is validated, and writes all fields,
\* as it has read them or as the body has them.
PatchWrites(p, enabled, interval) ==
    /\ patching[p] # <<>>
    /\ LET copy == Head(patching[p])
       IN  /\ enabled = copy.enabled \/ interval = copy.interval   \* bound: a body of one field
           /\ writes' = Append(writes, [id |-> copy.id, change |-> "patch", enabled |-> enabled, interval |-> interval])
    /\ patching' = [patching EXCEPT ![p] = <<>>]
    /\ UNCHANGED <<now, stored, running, at, behind, due, started, active, result, lastScan, shortest, events, faults>>

\* DELETE of a schedule.
UserDeletes(id) ==
    /\ events < MaxEvents
    /\ events' = events + 1
    /\ stored[id].present
    /\ writes' = Append(writes, [id |-> id, change |-> "delete"])
    /\ UNCHANGED <<now, stored, running, at, behind, due, started, active, result, lastScan, faults, edits>>

TimePasses ==
    /\ now < MaxTime
    /\ now' = now + 1
    /\ UNCHANGED <<stored, writes, running, at, behind, due, started, active, result, lastScan, events, faults, edits>>

\* The process dies and is started again: ticks, runs, scans, requests and queued writes are
\* gone.
Crash ==
    /\ events < MaxEvents
    /\ faults' = TRUE
    /\ events' = events + 1
    /\ writes' = <<>>
    /\ running' = FALSE
    /\ at' = [r \in Run |-> "idle"]
    /\ behind' = [r \in Run |-> 0]
    /\ due' = [r \in Run |-> <<>>]
    /\ patching' = [p \in Patch |-> <<>>]
    /\ started' = [r \in Run |-> 0]
    /\ active' = {}
    /\ result' = [r \in Run |-> "none"]
    /\ UNCHANGED <<now, stored, lastScan, shortest>>

TickWorks(t) == \/ TickReads(t) \/ Announce(t) \/ TickEnds(t)
                \/ ScanStarts(t) \/ ScanRefused(t) \/ TickRecords(t)

AnyScanEnds == \E r \in Run, how \in {"completed", "failed", "cancelled"} : ScanEnds(r, how)

Next == \/ StoreWrites \/ StoreFails
        \/ \E t \in Tick : TickStarts(t) \/ TickWorks(t)
        \/ \E r \in ManualRun : ManualRecords(r) \/ \E id \in Schedule : ManualStarts(r, id)
        \/ AnyScanEnds
        \/ \E p \in Patch : \/ \E id \in Schedule : PatchReads(p, id)
                            \/ \E enabled \in BOOLEAN, interval \in Intervals : PatchWrites(p, enabled, interval)
        \/ \E id \in Schedule : UserDeletes(id)
        \/ TimePasses
        \/ Crash

\* The event loop goes on, the store answers and every scan ends.
Fairness == /\ WF_vars(StoreWrites)
            /\ \A t \in Tick : WF_vars(TickWorks(t))
            /\ \A r \in ManualRun : WF_vars(ManualRecords(r))
            /\ WF_vars(AnyScanEnds)

Spec == Init /\ [][Next]_vars /\ Fairness
-----------------------------------------------------------------------------
\* SCH-05: while the process lives and the store works, "running" is never left behind:
\* a schedule that shows it belongs to a tick or a run that will still record its end.
RunningIsRunning ==
    ~faults => \A id \in Schedule : stored[id].present /\ stored[id].last = "running" =>
        \E r \in Run : at[r] # "idle" /\ due[r] # <<>> /\ Head(due[r]).id = id

\* SCH-03: no due time is served twice, whether by overlapping ticks or by a tick after
\* a crash, or by one that runs an old copy of a schedule that was changed meanwhile: the
\* times of the scans the scheduler starts are an interval apart, the shortest there was.
ScansAreSpaced ==
    \A t \in Tick : at[t] = "starting" /\ at'[t] = "scanning" =>
        LET id == Head(due[t]).id
        IN  lastScan[id] # Never => started[t] >= lastScan[id] + shortest[id]
RunsAreSpaced == [][ScansAreSpaced]_vars

\* SCH-04: whatever the run comes to, a schedule that is announced is not due again at
\* the time of that tick: neither a skipped nor a failed run is retried at once, and no change
\* of the interval brings it back.
HandledIsNotDue ==
    \A t \in Tick : at[t] \in {"starting", "scanning", "recording"} =>
        LET s == stored[Head(due[t]).id] IN s.present => s.next >= started[t] + shortest[Head(due[t]).id]

\* A tick always ends, so that the next one can start: neither a refused scan nor one
\* that was cancelled leaves the scheduler marked as running for good.
TickGivesWay == running ~> ~running
=============================================================================
