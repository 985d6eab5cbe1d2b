------------------------------ MODULE ScanSlot ------------------------------
(***************************************************************************)
(* What the scan manager promises its callers, with no task, no map and no *)
(* trimming: there is one slot.  A scan that is admitted holds the slot    *)
(* until it gets its one final verdict; a holder that was asked to stop    *)
(* cannot be given the verdict "completed".                                *)
(***************************************************************************)
CONSTANTS Job,    \* the scan jobs that may ever be created
          None    \* no job holds the slot

VARIABLES holder,   \* the job that holds the slot, or None
          asked,    \* the jobs that were asked to stop
          verdict   \* the final status of every job, "none" before it has one

vars == <<holder, asked, verdict>>

Verdict == {"completed", "cancelled", "failed"}

TypeOK == /\ holder \in Job \cup {None}
          /\ asked \subseteq Job
          /\ verdict \in [Job -> Verdict \cup {"none"}]

Init == /\ holder = None
        /\ asked = {}
        /\ verdict = [j \in Job |-> "none"]

Admit(j) == /\ holder = None
            /\ verdict[j] = "none"
            /\ j \notin asked
            /\ holder' = j
            /\ UNCHANGED <<asked, verdict>>

Ask(j) == /\ holder = j
          /\ asked' = asked \cup {j}
          /\ UNCHANGED <<holder, verdict>>

Release(j, v) == /\ holder = j
                 /\ v \in Verdict
                 /\ j \in asked => v = "cancelled"
                 /\ verdict' = [verdict EXCEPT ![j] = v]
                 /\ holder' = None
                 /\ UNCHANGED asked

Next == \E j \in Job : \/ Admit(j)
                       \/ Ask(j)
                       \/ \E v \in Verdict : Release(j, v)

Spec == Init /\ [][Next]_vars
=============================================================================
