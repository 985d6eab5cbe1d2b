--------------------------- MODULE BoushunServer ---------------------------
(***************************************************************************)
(* src/src/server.js: the handlers that may change the database, and the   *)
(* scan tasks they start, over the promises of their two components: the   *)
(* one slot of the scan manager (ScanSlot) and the calls of the store that *)
(* take effect one by one (SerialStore).                                   *)
(*                                                                         *)
(* A handler runs from one await to the next without interruption.  It     *)
(* awaits the body of its request, reads of the store, and writes.  While  *)
(* it waits, other handlers run: the guards are databaseMutationActive,    *)
(* databaseGeneration and scans.active().                                  *)
(*                                                                         *)
(* Scans of the schedule are started by ticks of the scheduler, which keep *)
(* copies of what is due while they run the schedules before it, and by    *)
(* POST /api/schedules/:id/run.  Either writes the status of the schedule  *)
(* when the run begins and when it is over, and asks for no generation     *)
(* before it does.  An import keeps the ids of the schedules in its file.  *)
(*                                                                         *)
(* The database is the sequence of the calls it results from, beginning    *)
(* with the import or reset that made it; it holds a schedule at first.    *)
(***************************************************************************)
EXTENDS Integers, Sequences, FiniteSets, SequencesExt

CONSTANTS Manual,      \* POST /api/scan, /api/tcp-service-scan, /api/udp-service-scan
          Scheduled,   \* runs of the stored schedule, by a tick or on demand
          Maintenance, \* POST /api/database/import and /api/database/reset
          Edit,        \* requests that change the stored schedule or the overrides
          Removing,    \* those of them that delete the schedule
          Disabling,   \* those that disable it
          Enabling,    \* those that enable it
          MaxSnapshots,\* maxSnapshots, 50 in the code
          None         \* no job

Scan == Manual \cup Scheduled
Request == Scan \cup Maintenance \cup Edit

ASSUME ServerAssumption ==
    /\ Manual \cap Scheduled = {}
    /\ Scan \cap (Maintenance \cup Edit) = {}
    /\ Maintenance \cap Edit = {}
    /\ Removing \cup Disabling \cup Enabling \subseteq Edit
    /\ None \notin Scan
    /\ MaxSnapshots \in Nat \ {0}

\* The calls of the store: a scan saves its snapshot and appends its notifications, and
\* a run of the schedule is announced and recorded by updateServiceScheduleRuntime.  A
\* replacement leaves what its file has of the schedule; a reset leaves none.
Save(s) == <<"saveSnapshot", s>>
Notify(s) == <<"appendPortNotifications", s>>
Announcement(s) == <<"running", s>>
Record(s) == <<"recorded", s>>
Change(e) == <<"edit", e>>
Replacement(m, left) == <<"replace", <<m, left>>>>
Runtime == {Announcement(s) : s \in Scheduled} \cup {Record(s) : s \in Scheduled}
Update == {Save(s) : s \in Scan} \cup {Notify(s) : s \in Scheduled} \cup {Change(e) : e \in Edit}
             \cup Runtime
Left == {"enabled", "disabled", "none"}
Replace == {Replacement(m, left) : m \in Maintenance, left \in Left}

VARIABLES mutating,    \* databaseMutationActive
          generation,  \* databaseGeneration
          db, pending, applied, outcome,  \* the store: see SerialStore
          holder, asked, verdict,         \* the scan manager: see ScanSlot
          at,          \* where every request or the scan it started waits
          gen,         \* the generation it has captured
          seen,        \* the database its last read returned, until it has looked at it
          after,       \* the calls its read still has to wait for
          found,       \* the scans whose snapshots have the port open
          runtime,     \* how far the runtime writes of a run of the schedule have come
          born,        \* history: the epoch of the database a request arrived at
          settings     \* history: the epoch of the database a scan has its settings from

store == <<db, pending, applied, outcome>>
slot == <<holder, asked, verdict>>
local == <<at, gen, seen, after, found, runtime, born, settings>>
vars == <<mutating, generation, store, slot, local>>

Store == INSTANCE SerialStore
Slot == INSTANCE ScanSlot WITH Job <- Scan

Place == {"new", "body", "due", "reading", "read", "collecting", "saving", "rereading", "reread",
          "notifying", "replacing", "changing", "refused", "ended"}
\* Which import or reset has made the database d.
First == <<"initialize">>
Epoch(d) == IF d # <<>> /\ Head(d) \in Replace THEN Head(d) ELSE First

TypeOK ==
    /\ mutating \in BOOLEAN
    /\ generation \in Nat
    /\ db \in Seq(Update \cup Replace)
    /\ pending \in Seq(Update \cup Replace)
    /\ applied \in BOOLEAN
    /\ outcome \in [Update \cup Replace -> {"none", "pending", "done", "failed"}]
    /\ Slot!TypeOK
    /\ at \in [Request -> Place]
    /\ gen \in [Request -> Nat]
    /\ seen \in [Request -> Seq(Update \cup Replace)]
    /\ after \in [Request -> SUBSET (Update \cup Replace)]
    /\ found \subseteq Scan
    /\ born \in [Request -> Replace \cup {First}]
    /\ settings \in [Scan -> Replace \cup {First}]
    /\ runtime \in [Scheduled -> {"none", "announcing", "announced", "recording", "over"}]

Init == /\ mutating = FALSE
        /\ generation = 0
        /\ Store!Init
        /\ Slot!Init
        /\ at = [r \in Request |-> "new"]
        /\ gen = [r \in Request |-> 0]
        /\ seen = [r \in Request |-> <<>>]
        /\ after = [r \in Request |-> {}]
        /\ found = {}
        /\ born = [r \in Request |-> First]
        /\ settings = [s \in Scan |-> First]
        /\ runtime = [s \in Scheduled |-> "none"]

\* Mutant: only maintenance at work makes a request stale.
CurrentUnlessMutating(g) == ~mutating

\* assertGeneration(g) does not throw.
Current(g) == ~mutating /\ g = generation

\* store.read() is called by r, and returns to r with the database of that moment.
CallRead(r, place) ==
    /\ after' = [after EXCEPT ![r] = ToSet(pending)]
    /\ at' = [at EXCEPT ![r] = place]

ReturnRead(r, place) ==
    /\ after[r] \cap ToSet(pending) = {}
    /\ seen' = [seen EXCEPT ![r] = db]
    /\ after' = [after EXCEPT ![r] = {}]
    /\ at' = [at EXCEPT ![r] = place]
-----------------------------------------------------------------------------
\* A request arrives, and its requestGeneration is noted.  The handler of a run on demand
\* has no body to wait for, and reads the schedule.
Arrive(r) ==
    /\ at[r] = "new"
    /\ IF r \in Scheduled THEN CallRead(r, "body")
       ELSE at' = [at EXCEPT ![r] = "body"] /\ UNCHANGED after
    /\ gen' = [gen EXCEPT ![r] = generation]
    /\ born' = [born EXCEPT ![r] = Epoch(db)]
    /\ UNCHANGED <<mutating, generation, store, slot, seen, found, runtime, settings>>

\* The schedule is in the database d, and is enabled there: nothing has disabled it since it
\* was enabled.
HasSchedule(d) ==
    /\ \A e \in Removing : Change(e) \notin ToSet(d)
    /\ \A m \in Maintenance : Replacement(m, "none") \notin ToSet(d)

ScheduleEnabled(d) ==
    /\ HasSchedule(d)
    /\ \A i \in DOMAIN d :
          d[i] \in {Change(e) : e \in Disabling} \cup {Replacement(m, "disabled") : m \in Maintenance} =>
              \E j \in DOMAIN d : i < j /\ d[j] \in {Change(e) : e \in Enabling}

\* Of the handlers below, each goes on from the body only if that is the first it gets:
\* readJsonBody asserts that the database is still the one the request arrived at; a body
\* that is not valid, or a schedule that is not there, ends the request.  One that is
\* refused here does nothing more, and its place stays "body".

\* The scan handlers then read the settings from the store; that of a run on demand has
\* found the schedule in what it has read.
RequestScan(s) ==
    /\ at[s] = "body"
    /\ Current(gen[s])
    /\ s \in Scheduled => after[s] \cap ToSet(pending) = {}
    /\ CallRead(s, "reading")
    /\ UNCHANGED <<mutating, generation, store, slot, gen, seen, found, runtime, born, settings>>

\* A tick has read the schedules, by a call made at any time before, and keeps a copy of
\* this one, which is due.
TickReads(s) ==
    /\ s \in Scheduled
    /\ at[s] = "new"
    /\ ScheduleEnabled(db)
    /\ at' = [at EXCEPT ![s] = "due"]
    /\ UNCHANGED <<mutating, generation, store, slot, gen, seen, after, found, runtime, born, settings>>

\* Whoever runs the schedule writes that it is running: a tick before it starts the scan,
\* the handler of a run on demand when startServiceScan has returned to it.
Announce(s) ==
    /\ s \in Scheduled
    /\ runtime[s] = "none"
    /\ at[s] \in {"due", "collecting", "saving", "rereading", "reread", "notifying", "ended"}
    /\ Store!Call(Announcement(s))
    /\ runtime' = [runtime EXCEPT ![s] = "announcing"]
    /\ UNCHANGED <<mutating, generation, slot, at, gen, seen, after, found, born, settings>>

\* When that write fails, the tick or the handler goes no further (that the process dies of
\* a rejected tick is the matter of ServiceScheduler).
Announced(s) ==
    /\ s \in Scheduled
    /\ runtime[s] = "announcing"
    /\ Store!Report(Announcement(s))
    /\ runtime' = [runtime EXCEPT ![s] = IF applied THEN "announced" ELSE "over"]
    /\ UNCHANGED <<mutating, generation, slot, at, gen, seen, after, found, born, settings>>

\* The tick calls startServiceScan with its copy of the schedule for a body, whichever
\* database that is from; the generation is captured here.
StartScheduled(s) ==
    /\ s \in Scheduled
    /\ at[s] = "due"
    /\ runtime[s] = "announced"
    /\ IF mutating
       THEN at' = [at EXCEPT ![s] = "refused"] /\ UNCHANGED <<gen, after>>
       ELSE gen' = [gen EXCEPT ![s] = generation] /\ CallRead(s, "reading")
    /\ UNCHANGED <<mutating, generation, store, slot, seen, found, runtime, born, settings>>

SettingsRead(s) ==
    /\ s \in Scan
    /\ at[s] = "reading"
    /\ ReturnRead(s, "read")
    /\ settings' = [settings EXCEPT ![s] = Epoch(db)]
    /\ UNCHANGED <<mutating, generation, store, slot, gen, found, runtime, born>>

\* Mutant: the database is not looked at again after the settings were read.
AdmissibleAtAnyTime(s) == s \in Scheduled => ScheduleEnabled(seen[s])

Admissible(s) == /\ Current(gen[s])
                 /\ s \in Scheduled => ScheduleEnabled(seen[s])

\* With the settings read, the handler starts the scan ...
Admit(s) ==
    /\ at[s] = "read"
    /\ Admissible(s)
    /\ Slot!Admit(s)
    /\ at' = [at EXCEPT ![s] = "collecting"]
    /\ seen' = [seen EXCEPT ![s] = <<>>]
    /\ UNCHANGED <<mutating, generation, store, gen, after, found, runtime, born, settings>>

\* ... or answers 409, because the database has changed or another scan is active.
Reject(s) ==
    /\ s \in Scan
    /\ at[s] = "read"
    /\ ~(Admissible(s) /\ holder = None)
    /\ at' = [at EXCEPT ![s] = "refused"]
    /\ seen' = [seen EXCEPT ![s] = <<>>]
    /\ UNCHANGED <<mutating, generation, store, slot, gen, after, found, runtime, born, settings>>

\* DELETE /api/scans/:id
Cancel(s) ==
    /\ s \in Scan \ asked
    /\ Slot!Ask(s)
    /\ UNCHANGED <<mutating, generation, store, local>>
-----------------------------------------------------------------------------
\* Mutant: a task that has failed has completed.
EndTaskCompleted(s, returned) ==
    /\ Slot!Release(s, IF s \in asked THEN "cancelled" ELSE "completed")
    /\ at' = [at EXCEPT ![s] = "ended"]

\* The task of scan s returns or throws, and the scan manager settles the job.
EndTask(s, returned) ==
    /\ Slot!Release(s, IF s \in asked THEN "cancelled"
                       ELSE IF returned THEN "completed" ELSE "failed")
    /\ at' = [at EXCEPT ![s] = "ended"]

\* A collector throws, reports an error outcome for some endpoint, or was aborted.
CollectFails(s) ==
    /\ at[s] = "collecting"
    /\ EndTask(s, FALSE)
    /\ UNCHANGED <<mutating, generation, store, gen, seen, after, found, runtime, born, settings>>

\* Mutant: the abort is not looked at before the save.
CollectReturnsAborted(s) ==
    /\ at[s] = "collecting"
    /\ IF Current(gen[s])
       THEN /\ Store!Call(Save(s))
            /\ found' \in {found, found \cup {s}}
            /\ at' = [at EXCEPT ![s] = "saving"]
            /\ UNCHANGED slot
       ELSE EndTask(s, s \in asked) /\ UNCHANGED <<store, found>>
    /\ UNCHANGED <<mutating, generation, gen, seen, after, runtime, born, settings>>

\* The collectors have returned.  Unless the scan was cancelled or the database has
\* changed, the snapshot is saved.
CollectReturns(s) ==
    /\ at[s] = "collecting"
    /\ IF s \notin asked /\ Current(gen[s])
       THEN /\ Store!Call(Save(s))
            /\ found' \in {found, found \cup {s}}
            /\ at' = [at EXCEPT ![s] = "saving"]
            /\ UNCHANGED slot
       ELSE EndTask(s, s \in asked) /\ UNCHANGED <<store, found>>
    /\ UNCHANGED <<mutating, generation, gen, seen, after, runtime, born, settings>>

\* saveSnapshot has returned to the task.
Saved(s) ==
    /\ at[s] = "saving"
    /\ Store!Report(Save(s))
    /\ IF applied /\ s \in Scheduled \ asked
       THEN CallRead(s, "rereading") /\ UNCHANGED slot
       ELSE EndTask(s, applied) /\ UNCHANGED after
    /\ UNCHANGED <<mutating, generation, gen, seen, found, runtime, born, settings>>

HistoryRead(s) ==
    /\ at[s] = "rereading"
    /\ ReturnRead(s, "reread")
    /\ UNCHANGED <<mutating, generation, store, slot, gen, found, runtime, born, settings>>

ReadFails(s) ==
    /\ at[s] \in {"reading", "rereading"}
    /\ after[s] \cap ToSet(pending) = {}
    /\ after' = [after EXCEPT ![s] = {}]
    /\ IF at[s] = "rereading"
       THEN EndTask(s, FALSE)
       ELSE at' = [at EXCEPT ![s] = "refused"] /\ UNCHANGED slot
    /\ UNCHANGED <<mutating, generation, store, gen, seen, found, runtime, born, settings>>

\* The retained snapshots of the database d, by their positions: the last maxSnapshots.
Snapshots(d) ==
    LET saves == {i \in DOMAIN d : d[i] \in {Save(s) : s \in Scan}}
    IN  {i \in saves : Cardinality({j \in saves : j > i}) < MaxSnapshots}

\* buildComparableServiceChanges: scan s found the port open and the comparable scan
\* before it did not.  All scans here have the same protocol, CIDR and ports.
NewPort(s, d) ==
     \E i, j \in Snapshots(d) : /\ d[j] = Save(s) /\ s \in found
                               /\ i < j /\ d[i][2] \notin found
                              /\ \A k \in Snapshots(d) : ~(i < k /\ k < j)

Compared(s) ==
    /\ at[s] = "reread"
    /\ IF NewPort(s, seen[s])
       THEN /\ Store!Call(Notify(s))
            /\ at' = [at EXCEPT ![s] = "notifying"]
            /\ UNCHANGED slot
       ELSE EndTask(s, TRUE) /\ UNCHANGED store
    /\ seen' = [seen EXCEPT ![s] = <<>>]
    /\ UNCHANGED <<mutating, generation, gen, after, found, runtime, born, settings>>

Notified(s) ==
    /\ at[s] = "notifying"
    /\ Store!Report(Notify(s))
    /\ EndTask(s, applied)
    /\ UNCHANGED <<mutating, generation, gen, seen, after, found, runtime, born, settings>>

\* The scan is over, or has not been started: that is written as well.
RunIsOver(s) ==
    /\ s \in Scheduled
    /\ runtime[s] = "announced"
    /\ at[s] \in {"refused", "ended"}
    /\ Store!Call(Record(s))
    /\ runtime' = [runtime EXCEPT ![s] = "recording"]
    /\ UNCHANGED <<mutating, generation, slot, at, gen, seen, after, found, born, settings>>

\* When that fails, so be it: what a tick tries once more is the same call again, for which
\* the same holds, see RecordsAsFailed in ServiceScheduler.
Recorded(s) ==
    /\ s \in Scheduled
    /\ runtime[s] = "recording"
    /\ Store!Report(Record(s))
    /\ runtime' = [runtime EXCEPT ![s] = "over"]
    /\ UNCHANGED <<mutating, generation, slot, at, gen, seen, after, found, born, settings>>
-----------------------------------------------------------------------------
\* Mutant: an active scan does not block import and reset.
ReplacingAnyTime(m) ==
    /\ m \in Maintenance
    /\ at[m] = "body"
    /\ Current(gen[m])
    /\ mutating' = TRUE
    /\ \E left \in Left : Store!Call(Replacement(m, left))
    /\ at' = [at EXCEPT ![m] = "replacing"]
    /\ UNCHANGED <<generation, slot, gen, seen, after, found, runtime, born, settings>>

\* Import and reset: refused while a scan is active or another one is at work.
Replacing(m) ==
    /\ m \in Maintenance
    /\ at[m] = "body"
    /\ Current(gen[m])
    /\ holder = None
    /\ mutating' = TRUE
    /\ \E left \in Left : Store!Call(Replacement(m, left))
    /\ at' = [at EXCEPT ![m] = "replacing"]
    /\ UNCHANGED <<generation, slot, gen, seen, after, found, runtime, born, settings>>

\* Mutant: a replacement that failed does not end the maintenance.
ReplacedIfDone(m) ==
    /\ at[m] = "replacing"
    /\ \E left \in Left : Store!Report(Replacement(m, left))
    /\ generation' = IF applied THEN generation + 1 ELSE generation
    /\ mutating' = ~applied
    /\ at' = [at EXCEPT ![m] = "ended"]
    /\ UNCHANGED <<slot, gen, seen, after, found, runtime, born, settings>>

\* The new generation and the end of the maintenance are one step; a replacement that
\* failed leaves the generation as it is.
Replaced(m) ==
    /\ at[m] = "replacing"
    /\ \E left \in Left : Store!Report(Replacement(m, left))
    /\ generation' = IF applied THEN generation + 1 ELSE generation
    /\ mutating' = FALSE
    /\ at' = [at EXCEPT ![m] = "ended"]
    /\ UNCHANGED <<slot, gen, seen, after, found, runtime, born, settings>>

\* The other handlers that change the database: schedules, overrides, layout.
Changing(e) ==
    /\ e \in Edit
    /\ at[e] = "body"
    /\ Current(gen[e])
    /\ Store!Call(Change(e))
    /\ at' = [at EXCEPT ![e] = "changing"]
    /\ UNCHANGED <<mutating, generation, slot, gen, seen, after, found, runtime, born, settings>>

Changed(e) ==
    /\ at[e] = "changing"
    /\ Store!Report(Change(e))
    /\ at' = [at EXCEPT ![e] = "ended"]
    /\ UNCHANGED <<mutating, generation, slot, gen, seen, after, found, runtime, born, settings>>

\* The store writes: the first call is in effect, its caller does not know yet.  The
\* runtime of a schedule that is not there is not written.
StoreWrites ==
    /\ pending # <<>>
    /\ Store!Apply(Head(pending))
    /\ db' = db <=> Head(pending) \in Runtime /\ ~HasSchedule(db)
    /\ UNCHANGED <<mutating, generation, slot, local>>

Next ==
    \/ \E r \in Request : Arrive(r)
    \/ \E s \in Scan : \/ RequestScan(s) \/ StartScheduled(s) \/ SettingsRead(s)
                       \/ Admit(s) \/ Reject(s) \/ Cancel(s)
                       \/ CollectFails(s) \/ CollectReturns(s) \/ Saved(s)
                       \/ HistoryRead(s) \/ ReadFails(s)
                       \/ Compared(s) \/ Notified(s)
                       \/ TickReads(s) \/ Announce(s) \/ Announced(s)
                       \/ RunIsOver(s) \/ Recorded(s)
    \/ \E m \in Maintenance : Replacing(m) \/ Replaced(m)
    \/ \E e \in Edit : Changing(e) \/ Changed(e)
    \/ StoreWrites

\* The store answers every call, and collectors end.  No request has to arrive, and a
\* client may send the body of its request late or never.
Fairness ==
    /\ \A s \in Scan : WF_vars(\/ CollectFails(s) \/ CollectReturns(s) \/ Saved(s)
                               \/ HistoryRead(s) \/ ReadFails(s) \/ Compared(s) \/ Notified(s))
    /\ \A s \in Scheduled : WF_vars(Announced(s) \/ Recorded(s))
    /\ \A m \in Maintenance : WF_vars(Replaced(m))
    /\ \A e \in Edit : WF_vars(Changed(e))

Spec == Init /\ [][Next]_vars /\ Fairness
-----------------------------------------------------------------------------
\* DB-10: no scan is active while the database is being replaced.
NoScanDuringMaintenance == mutating => holder = None

\* The database d began with the schedule, and has had it enabled.
HadScheduleEnabled(d) ==
    /\ HasSchedule(<<Epoch(d)>>)
    /\ ScheduleEnabled(<<Epoch(d)>>) \/ \E e \in Enabling : Change(e) \in ToSet(d)

\* RST-04, DB-14: a snapshot is of a scan with the settings of the database it is saved in,
\* and what users ask for reaches no database but the one their request arrived at.  A tick
\* may scan an old copy of a schedule, and write its status, after an import with a
\* schedule of that id; never in a database that began without one or, for a scan, never
\* had it enabled.  A notification is of a snapshot of the same database.
NothingStale ==
    /\ \A s \in Scan : Save(s) \in ToSet(db) => settings[s] = Epoch(db)
    /\ \A s \in Manual : Save(s) \in ToSet(db) => born[s] = Epoch(db)
    /\ \A e \in Edit : Change(e) \in ToSet(db) => born[e] = Epoch(db)
    /\ \A s \in Scheduled :
          /\ Save(s) \in ToSet(db) => HadScheduleEnabled(db)
          /\ Notify(s) \in ToSet(db) => Save(s) \in ToSet(db)
          /\ {Announcement(s), Record(s)} \cap ToSet(db) # {} => HasSchedule(<<Epoch(db)>>)

\* An active scan always works for the database of today: the assertion before its save
\* cannot fail, so no completed collection is thrown away because of a reset.
ActiveScanIsCurrent == holder # None => gen[holder] = generation

\* JOB-01: a scan that is shown as completed has its snapshot saved, and SCH-06: its new
\* port has been notified.
CompletedIsSaved ==
    \A s \in Scan : verdict[s] = "completed" =>
        /\ outcome[Save(s)] = "done"
        /\ s \in Scheduled /\ Save(s) \in ToSet(db) /\ NewPort(s, db)
              => outcome[Notify(s)] = "done"

\* JOB-03, TCP-08, UDP-09: a scan that was cancelled before its collectors returned
\* never calls saveSnapshot.
CancelledBeforeSave ==
    \A s \in Scan : s \in asked /\ outcome[Save(s)] = "none" => outcome'[Save(s)] = "none"
CancelPreventsSave == [][CancelledBeforeSave]_vars

\* Maintenance always ends, whether or not the replacement succeeded, and so does a
\* scan: neither blocks the other for good, and always there comes a time with neither.
NothingBlocks == []<>(~mutating /\ holder = None)
=============================================================================
