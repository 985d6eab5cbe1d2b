---------------------------- MODULE ScanManager ----------------------------
(***************************************************************************)
(* src/src/scan/scan-manager.js: the asynchronous scan jobs of the server. *)
(*                                                                         *)
(* JavaScript runs one callback at a time, so an action is the code from   *)
(* one await to the next.  start() puts a job into the map and schedules a *)
(* microtask (Begin); the microtask calls the task; the task reports       *)
(* progress and settles in its own time; anybody who has the id may cancel *)
(* at any moment.  A job outlives its entry in the map: the closures of    *)
(* its task keep it, so its fields are kept here when it is trimmed.       *)
(***************************************************************************)
EXTENDS Integers, FiniteSets

CONSTANTS Job,      \* the jobs that may ever be created (their random ids)
          MaxJobs,  \* maxJobs, 20 in the code: entries the map may hold
          None      \* no job

ASSUME JobAssumption == IsFiniteSet(Job) /\ None \notin Job
ASSUME MaxJobsAssumption == MaxJobs \in Nat \ {0}

VARIABLES jobs,      \* this.jobs: the jobs in the map
          order,     \* the position of every job in the map's insertion order, 0: not created
          status,    \* job.status, "absent" before start()
          aborted,   \* the jobs whose AbortController has been aborted
          task,      \* the promise of every job: scheduled, executing, settled
          progress   \* what job.progress shows: the start, some progress, or 100 %

vars == <<jobs, order, status, aborted, task, progress>>

Active == {"queued", "running", "cancelling"}
Finished == {"completed", "cancelled", "failed"}
Outcome == {"returned", "threw", "threwAbort"}

TypeOK == /\ jobs \subseteq Job
          /\ order \in [Job -> 0..Cardinality(Job)]
          /\ status \in [Job -> Active \cup Finished \cup {"absent"}]
          /\ aborted \subseteq Job
          /\ task \in [Job -> {"none", "scheduled", "executing", "settled"}]
          /\ progress \in [Job -> {"waiting", "reported", "complete"}]

Init == /\ jobs = {}
        /\ order = [j \in Job |-> 0]
        /\ status = [j \in Job |-> "absent"]
        /\ aborted = {}
        /\ task = [j \in Job |-> "none"]
        /\ progress = [j \in Job |-> "waiting"]

ActiveJobs == {j \in jobs : status[j] \in Active}
Created == {j \in Job : order[j] > 0}

\* Mutant: the newest finished jobs are trimmed instead of the oldest.
TrimNewest(m, st, ord) ==
    LET finished == {j \in m : st[j] \notin Active}
    IN  {j \in finished :
            Cardinality({i \in finished : ord[i] > ord[j]}) < Cardinality(m) - MaxJobs}

\* The entries #trim drops from a map that holds m, with the statuses st and the
\* insertion order ord: the oldest finished ones, as many as the map is too large.
Expired(m, st, ord) ==
    LET finished == {j \in m : st[j] \notin Active}
    IN  {j \in finished :
            Cardinality({i \in finished : ord[i] < ord[j]}) < Cardinality(m) - MaxJobs}

\* Mutant: only a running job keeps others out.
StartBesideQueued(j) ==
    /\ status[j] = "absent"
    /\ \A i \in jobs : status[i] # "running"
    /\ status' = [status EXCEPT ![j] = "queued"]
    /\ order' = [order EXCEPT ![j] = Cardinality(Created) + 1]
    /\ jobs' = (jobs \cup {j}) \ Expired(jobs \cup {j}, status', order')
    /\ task' = [task EXCEPT ![j] = "scheduled"]
    /\ UNCHANGED <<aborted, progress>>

Start(j) ==
    /\ status[j] = "absent"
    /\ ActiveJobs = {}
    /\ status' = [status EXCEPT ![j] = "queued"]
    /\ order' = [order EXCEPT ![j] = Cardinality(Created) + 1]
    /\ jobs' = (jobs \cup {j}) \ Expired(jobs \cup {j}, status', order')
    /\ task' = [task EXCEPT ![j] = "scheduled"]
    /\ UNCHANGED <<aborted, progress>>

Begin(j) ==
    /\ task[j] = "scheduled"
    /\ task' = [task EXCEPT ![j] = "executing"]
    /\ status' = [status EXCEPT ![j] = "running"]
    /\ UNCHANGED <<jobs, order, aborted, progress>>

\* Mutant: a late report is taken, whatever the status of the job.
ProgressAnyTime(j) ==
    /\ task[j] \in {"executing", "settled"}
    /\ progress' = [progress EXCEPT ![j] = "reported"]
    /\ UNCHANGED <<jobs, order, status, aborted, task>>

\* The task, or a probe worker that outlives it, reports progress.
Progress(j) ==
    /\ task[j] \in {"executing", "settled"}
    /\ status[j] \in {"running", "cancelling"}
    /\ progress' = [progress EXCEPT ![j] = "reported"]
    /\ UNCHANGED <<jobs, order, status, aborted, task>>

\* Mutant: a cancelled job is shown as finished before its task has settled.
CancelAtOnce(j) ==
    /\ j \in jobs
    /\ status[j] \in {"queued", "running"}
    /\ status' = [status EXCEPT ![j] = "cancelled"]
    /\ aborted' = aborted \cup {j}
    /\ UNCHANGED <<jobs, order, task, progress>>

Cancel(j) ==
    /\ j \in jobs
    /\ status[j] \in {"queued", "running"}
    /\ status' = [status EXCEPT ![j] = "cancelling"]
    /\ aborted' = aborted \cup {j}
    /\ UNCHANGED <<jobs, order, task, progress>>

\* Mutants: a status of the task's own, and a result that hides the abort.
StatusOfTask(j, o) == IF o = "returned" /\ j \notin aborted THEN "completed" ELSE o
ReturnedIsCompleted(j, o) ==
    CASE o = "returned" -> "completed"
      [] o = "threwAbort" \/ j \in aborted -> "cancelled"
      [] OTHER -> "failed"

\* The status a job ends with when its task settles with the outcome o.
FinalStatus(j, o) ==
    CASE o = "returned" /\ j \notin aborted -> "completed"
      [] o = "threwAbort" \/ j \in aborted -> "cancelled"
      [] OTHER -> "failed"

Settle(j, o) ==
    /\ task[j] = "executing"
    /\ task' = [task EXCEPT ![j] = "settled"]
    /\ status' = [status EXCEPT ![j] = FinalStatus(j, o)]
    /\ progress' = IF FinalStatus(j, o) = "completed"
                   THEN [progress EXCEPT ![j] = "complete"]
                   ELSE progress
    /\ UNCHANGED <<jobs, order, aborted>>

Next == \E j \in Job : \/ Start(j)
                       \/ Begin(j)
                       \/ Progress(j)
                       \/ Cancel(j)
                       \/ \E o \in Outcome : Settle(j, o)

\* The event loop runs every microtask, and every collector ends: each of its
\* commands, sockets and probes has a timeout.  Nobody has to cancel or to start.
Fairness == \A j \in Job : /\ WF_vars(Begin(j))
                           /\ WF_vars(\E o \in Outcome : Settle(j, o))

Spec == Init /\ [][Next]_vars /\ Fairness
-----------------------------------------------------------------------------
\* "One scan at a time" for the work itself and not only for what the map shows: at
\* most one task is scheduled or executing, whether or not the map still holds it.
OneTaskAtATime ==
    \A i, j \in Job : /\ task[i] \in {"scheduled", "executing"}
                      /\ task[j] \in {"scheduled", "executing"}
                      => i = j

\* A job whose task has not settled can be found by its id, to poll or to cancel it:
\* no trim evicts it, and it is shown as active exactly as long as it works.
UnsettledIsTracked ==
    \A j \in Job : task[j] \in {"scheduled", "executing"} <=> j \in ActiveJobs

\* The history is bounded and what is kept is the newest: start() leaves at most maxJobs
\* entries, however the jobs before it ended, and an evicted job is older than every
\* job that is still in the map.
HistoryIsNewest ==
    /\ Cardinality(jobs) <= MaxJobs
    /\ \A i \in Created \ jobs, j \in jobs : order[i] < order[j]

\* The final report of a job is final: once its task has settled, neither a late
\* cancel nor a progress report of a worker that is still running changes it.
FinalReportKept ==
    \A j \in Job : status[j] \in Finished =>
        /\ status'[j] = status[j]
        /\ progress'[j] = progress[j]
TerminalIsFrozen == [][FinalReportKept]_vars

\* A cancelled scan ends as cancelled, also when its task returned a result or threw
\* something else after the abort.
CancelTakesEffect ==
    \A j \in Job : (status[j] = "cancelling") ~> (status[j] = "cancelled")

\* The manager implements the one slot of ScanSlot: the active job holds it, and the
\* status of a finished job is its verdict.
Holder == IF ActiveJobs = {} THEN None ELSE CHOOSE j \in ActiveJobs : TRUE
FinalVerdict == [j \in Job |-> IF status[j] \in Finished THEN status[j] ELSE "none"]
Slot == INSTANCE ScanSlot WITH holder <- Holder, asked <- aborted, verdict <- FinalVerdict
ImplementsScanSlot == Slot!Spec
=============================================================================
