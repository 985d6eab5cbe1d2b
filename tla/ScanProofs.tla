----------------------------- MODULE ScanProofs -----------------------------
(***************************************************************************)
(* Theorems about scans: the manager that admits them, for every set of    *)
(* jobs and every maxJobs, and the pool of workers that each of them runs, *)
(* for any number of targets and of workers.                               *)
(*                                                                         *)
(* No single property of the manager is inductive: that a scan cannot be   *)
(* admitted beside another one rests on the map holding every job that     *)
(* still works, which rests on #trim dropping finished jobs only, which    *)
(* rests on status and task moving together.  SlotInv says all of it.      *)
(*                                                                         *)
(* The targets behind the cursor of a pool are those that were taken, each *)
(* by one worker, and a worker that probes holds its own: PoolInv.  A      *)
(* worker that ends has found the cursor at its end, so that a scan of     *)
(* which all workers have ended, and none has thrown, has the outcome of   *)
(* each.                                                                   *)
(***************************************************************************)
EXTENDS ScanManager, ProbePool, FiniteSetTheorems, TLAPS

\* Status and promise of a job move together.
Lockstep ==
    \A j \in Job : /\ status[j] = "absent" <=> task[j] = "none"
                   /\ task[j] = "scheduled" => status[j] \in {"queued", "cancelling"}
                   /\ task[j] = "executing" => status[j] \in {"running", "cancelling"}
                   /\ task[j] = "settled" => status[j] \in Finished

\* A job exists exactly when it has a place in the insertion order, and nothing that
\* does not exist is in the map or aborted.
Existence ==
    \A j \in Job : /\ status[j] = "absent" <=> order[j] = 0
                   /\ status[j] = "absent" => j \notin jobs \cup aborted

\* Every job that works is in the map, and there is at most one.
OneActive ==
    /\ \A j \in Job : status[j] \in Active => j \in jobs
    /\ \A i, j \in Job : status[i] \in Active /\ status[j] \in Active => i = j

\* A job that was aborted ends as cancelled, and only an aborted one is cancelling.
AbortRemembered ==
    \A j \in Job : /\ status[j] = "cancelling" => j \in aborted
                   /\ j \in aborted /\ task[j] = "settled" => status[j] = "cancelled"

SlotInv == TypeOK /\ Lockstep /\ Existence /\ OneActive /\ AbortRemembered

\* #trim only ever drops entries of finished jobs.
LEMMA ExpiredAreFinished ==
    ASSUME NEW m, NEW st, NEW ord
    PROVE  \A j \in Expired(m, st, ord) : j \in m /\ st[j] \notin Active
  BY DEF Expired

\* The next place in the insertion order is within the bound on the number of jobs.
LEMMA NextOrder ==
    ASSUME TypeOK, NEW j \in Job, order[j] = 0
    PROVE  Cardinality(Created) + 1 \in 0..Cardinality(Job)
<1>1. /\ Created \subseteq Job
      /\ j \notin Created
  BY DEF Created
<1>2. IsFiniteSet(Created) /\ IsFiniteSet(Created \cup {j})
  BY <1>1, JobAssumption, FS_Subset, FS_AddElement
<1>3. Cardinality(Created \cup {j}) = Cardinality(Created) + 1
  BY <1>1, <1>2, FS_AddElement
<1>4. Cardinality(Created \cup {j}) <= Cardinality(Job)
  BY <1>1, JobAssumption, FS_Subset
<1>5. Cardinality(Created) \in Nat /\ Cardinality(Job) \in Nat
  BY <1>2, JobAssumption, FS_CardinalityType
<1>. QED  BY <1>3, <1>4, <1>5

LEMMA SlotInvInit == Init => SlotInv
  BY JobAssumption, FS_CardinalityType
  DEF Init, SlotInv, TypeOK, Lockstep, Existence, OneActive, AbortRemembered, Active, Finished

LEMMA SlotInvNext == SlotInv /\ [Next]_vars => SlotInv'
<1>. SUFFICES ASSUME SlotInv, [Next]_vars
              PROVE  SlotInv'
  OBVIOUS
<1>. USE DEF SlotInv, Active, Finished
<1>1. ASSUME NEW j \in Job, Start(j)
      PROVE  SlotInv'
  <2>1. order[j] = 0 /\ task[j] = "none" /\ j \notin jobs /\ j \notin aborted
    BY <1>1 DEF Start, Existence, Lockstep
  <2>2. \A i \in Job : status[i] \notin Active
    BY <1>1 DEF Start, OneActive, ActiveJobs
  <2>3. /\ jobs' \subseteq jobs \cup {j}
        /\ j \in jobs'
    <3>1. status'[j] \in Active
      BY <1>1 DEF Start, TypeOK
    <3>2. j \notin Expired(jobs \cup {j}, status', order')
      BY <3>1, ExpiredAreFinished, Zenon
    <3>. QED  BY <1>1, <3>2 DEF Start
  <2>4. TypeOK'
    BY <1>1, <2>1, <2>3, NextOrder DEF Start, TypeOK
  <2>5. Lockstep'
    BY <1>1 DEF Start, Lockstep, TypeOK
  <2>6. Existence'
    <3>1. Cardinality(Created) + 1 # 0
      BY <2>1, NextOrder, FS_CardinalityType, JobAssumption, FS_Subset DEF Created
    <3>. QED  BY <1>1, <2>3, <3>1 DEF Start, Existence, TypeOK
  <2>7. OneActive'
    BY <1>1, <2>2, <2>3 DEF Start, OneActive, TypeOK
  <2>8. AbortRemembered'
    BY <1>1, <2>1 DEF Start, AbortRemembered, TypeOK
  <2>. QED  BY <2>4, <2>5, <2>6, <2>7, <2>8
<1>2. ASSUME NEW j \in Job, Begin(j)
      PROVE  SlotInv'
  BY <1>2 DEF Begin, TypeOK, Lockstep, Existence, OneActive, AbortRemembered
<1>3. ASSUME NEW j \in Job, Progress(j)
      PROVE  SlotInv'
  BY <1>3 DEF Progress, TypeOK, Lockstep, Existence, OneActive, AbortRemembered
<1>4. ASSUME NEW j \in Job, Cancel(j)
      PROVE  SlotInv'
  BY <1>4 DEF Cancel, TypeOK, Lockstep, Existence, OneActive, AbortRemembered
<1>5. ASSUME NEW j \in Job, NEW o \in Outcome, Settle(j, o)
      PROVE  SlotInv'
  <2>1. /\ FinalStatus(j, o) \in Finished
        /\ j \in aborted => FinalStatus(j, o) = "cancelled"
    BY DEF FinalStatus, Outcome
  <2>. QED
    BY <1>5, <2>1 DEF Settle, TypeOK, Lockstep, Existence, OneActive, AbortRemembered
<1>6. CASE UNCHANGED vars
  BY <1>6 DEF vars, TypeOK, Lockstep, Existence, OneActive, AbortRemembered
<1>. QED  BY <1>1, <1>2, <1>3, <1>4, <1>5, <1>6 DEF Next

LEMMA SlotInvHolds == Spec => []SlotInv
  BY SlotInvInit, SlotInvNext, PTL DEF Spec

\* Type correctness, for every set of jobs and every bound on the map.
THEOREM TypeCorrect == Spec => []TypeOK
<1>1. SlotInv => TypeOK
  BY DEF SlotInv
<1>. QED  BY <1>1, SlotInvHolds, PTL

\* JOB-02: a scan is never started while the task of another one is scheduled or
\* executing, cancelled ones that still have to wind up included.
THEOREM MutualExclusion == Spec => []OneTaskAtATime
<1>1. SlotInv => OneTaskAtATime
  BY DEF SlotInv, Lockstep, OneActive, OneTaskAtATime, Active
<1>. QED  BY <1>1, SlotInvHolds, PTL

\* JOB-06: trimming never evicts a job that works, so it can always be cancelled.
THEOREM NeverEvictsWork == Spec => []UnsettledIsTracked
<1>1. SlotInv => UnsettledIsTracked
  BY DEF SlotInv, TypeOK, Lockstep, OneActive, UnsettledIsTracked, ActiveJobs, Active, Finished
<1>. QED  BY <1>1, SlotInvHolds, PTL

\* JOB-04: the status and the progress of a finished job never change again.
THEOREM FinishedStaysFinished == Spec => TerminalIsFrozen
<1>1. SlotInv /\ [Next]_vars => [FinalReportKept]_vars
  <2>. SUFFICES ASSUME SlotInv, Next, NEW i \in Job, status[i] \in Finished
                PROVE  status'[i] = status[i] /\ progress'[i] = progress[i]
    BY DEF FinalReportKept
  <2>. USE DEF SlotInv, TypeOK, Lockstep, Finished
  <2>1. ASSUME NEW j \in Job, Start(j) \/ Begin(j) \/ Progress(j) \/ Cancel(j)
        PROVE  status'[i] = status[i] /\ progress'[i] = progress[i]
    BY <2>1 DEF Start, Begin, Progress, Cancel
  <2>2. ASSUME NEW j \in Job, NEW o \in Outcome, Settle(j, o)
        PROVE  status'[i] = status[i] /\ progress'[i] = progress[i]
    <3>1. j # i
      BY <2>2 DEF Settle
    <3>. QED  BY <2>2, <3>1 DEF Settle
  <2>. QED  BY <2>1, <2>2 DEF Next
<1>. QED  BY <1>1, SlotInvHolds, PTL DEF Spec, TerminalIsFrozen

-----------------------------------------------------------------------------
\* With at most one active job, the holder of the slot is that job.
LEMMA HolderIsActive ==
    ASSUME SlotInv
    PROVE  /\ \A j \in Job : status[j] \in Active <=> Holder = j
           /\ (\A j \in Job : status[j] \notin Active) => Holder = None
<1>. USE DEF SlotInv, OneActive, ActiveJobs, TypeOK
<1>1. CASE ActiveJobs = {}
  BY <1>1, JobAssumption DEF Holder
<1>2. CASE ActiveJobs # {}
  <2>1. PICK a \in ActiveJobs : TRUE
    BY <1>2
  <2>2. ActiveJobs = {a}
    BY <2>1
  <2>3. Holder = a
    BY <1>2, <2>2 DEF Holder
  <2>. QED  BY <2>1, <2>2, <2>3
<1>. QED  BY <1>1, <1>2

\* The same in the next state, for the steps of the refinement proof.
LEMMA HolderIsActiveNext ==
    ASSUME SlotInv'
    PROVE  /\ \A j \in Job : status'[j] \in Active <=> Holder' = j
           /\ (\A j \in Job : status'[j] \notin Active) => Holder' = None
<1>. USE DEF SlotInv, OneActive, ActiveJobs, TypeOK
<1>1. CASE ActiveJobs' = {}
  BY <1>1, JobAssumption DEF Holder
<1>2. CASE ActiveJobs' # {}
  <2>1. PICK a \in ActiveJobs' : TRUE
    BY <1>2
  <2>2. ActiveJobs' = {a}
    BY <2>1
  <2>3. Holder' = a
    BY <1>2, <2>2 DEF Holder
  <2>. QED  BY <2>1, <2>2, <2>3
<1>. QED  BY <1>1, <1>2

\* Every step of the manager is a step of the slot or leaves the slot alone.
LEMMA SlotStep ==
    ASSUME SlotInv, SlotInv', [Next]_vars
    PROVE  [Slot!Next]_(Slot!vars)
<1>. USE DEF SlotInv, TypeOK, Active, Finished
<1>1. ASSUME NEW j \in Job, Start(j)
      PROVE  Slot!Admit(j)
  <2>1. status[j] = "absent" /\ (\A i \in Job : status[i] \notin Active)
    BY <1>1 DEF Start, OneActive, ActiveJobs
  <2>2. Holder = None
    BY <2>1, HolderIsActive
  <2>3. status'[j] = "queued" /\ aborted' = aborted /\ j \notin aborted
    BY <1>1 DEF Start, Existence
  <2>4. Holder' = j
    BY <2>3, HolderIsActiveNext
  <2>5. FinalVerdict[j] = "none" /\ FinalVerdict' = FinalVerdict
    BY <1>1, <2>1 DEF Start, FinalVerdict
  <2>. QED  BY <2>2, <2>3, <2>4, <2>5 DEF Slot!Admit
<1>2. ASSUME NEW j \in Job, Begin(j)
      PROVE  UNCHANGED Slot!vars
  <2>1. status[j] \in Active /\ status'[j] \in Active /\ aborted' = aborted
    BY <1>2 DEF Begin, Lockstep
  <2>2. Holder' = Holder
    BY <2>1, HolderIsActive, HolderIsActiveNext
  <2>3. FinalVerdict' = FinalVerdict
    BY <1>2, <2>1 DEF Begin, FinalVerdict
  <2>. QED  BY <2>1, <2>2, <2>3 DEF Slot!vars
<1>3. ASSUME NEW j \in Job, Cancel(j)
      PROVE  Slot!Ask(j)
  <2>1. status[j] \in Active /\ status'[j] \in Active /\ aborted' = aborted \cup {j}
    BY <1>3 DEF Cancel
  <2>2. Holder = j /\ Holder' = j
    BY <2>1, HolderIsActive, HolderIsActiveNext
  <2>3. FinalVerdict' = FinalVerdict
    BY <1>3, <2>1 DEF Cancel, FinalVerdict
  <2>. QED  BY <2>1, <2>2, <2>3 DEF Slot!Ask
<1>4. ASSUME NEW j \in Job, NEW o \in Outcome, Settle(j, o)
      PROVE  Slot!Release(j, FinalStatus(j, o))
  <2>1. /\ FinalStatus(j, o) \in Finished
        /\ j \in aborted => FinalStatus(j, o) = "cancelled"
    BY DEF FinalStatus, Outcome
  <2>2. status[j] \in Active
    BY <1>4 DEF Settle, Lockstep
  <2>3. Holder = j
    BY <2>2, HolderIsActive
  <2>4. \A i \in Job : status'[i] \notin Active
    BY <1>4, <2>1, <2>2 DEF Settle, OneActive
  <2>5. Holder' = None
    BY <2>4, HolderIsActiveNext
  <2>6. FinalVerdict' = [FinalVerdict EXCEPT ![j] = FinalStatus(j, o)] /\ aborted' = aborted
    <3>1. /\ status' = [status EXCEPT ![j] = FinalStatus(j, o)] /\ aborted' = aborted
          /\ status \in [Job -> Active \cup Finished \cup {"absent"}]
      BY <1>4 DEF Settle
    <3>. QED
      BY <2>1, <3>1 DEF FinalVerdict
  <2>. QED  BY <2>1, <2>3, <2>5, <2>6 DEF Slot!Release, Slot!Verdict
<1>5. ASSUME jobs' = jobs, status' = status, aborted' = aborted
      PROVE  UNCHANGED Slot!vars
  BY <1>5 DEF Slot!vars, Holder, ActiveJobs, FinalVerdict
<1>6. ASSUME NEW j \in Job, Progress(j)
      PROVE  UNCHANGED Slot!vars
  BY <1>5, <1>6 DEF Progress
<1>7. CASE UNCHANGED vars
  BY <1>5, <1>7 DEF vars
<1>8. ASSUME NEW j \in Job, NEW o \in Outcome, Settle(j, o)
      PROVE  FinalStatus(j, o) \in Slot!Verdict
  BY DEF FinalStatus, Outcome, Slot!Verdict
<1>. QED  BY <1>1, <1>2, <1>3, <1>4, <1>6, <1>7, <1>8 DEF Next, Slot!Next

\* The manager implements the slot: whatever the map, the microtasks and the trims do,
\* its callers see one holder at a time, and one final verdict for each.
THEOREM Refinement == Spec => ImplementsScanSlot
<1>1. Init => Slot!Init
  BY DEF Init, Slot!Init, Holder, ActiveJobs, FinalVerdict, Finished
<1>. QED  BY <1>1, SlotStep, SlotInvHolds, PTL DEF Spec, ImplementsScanSlot, Slot!Spec
-----------------------------------------------------------------------------
\* The jobs have the places from 1 on in the insertion order, and the map holds the last of
\* them: as many as have been created, up to maxJobs.
Newest ==
    LET n == Cardinality(Created)
        c == Cardinality(jobs)
    IN  /\ n \in Nat /\ c \in 0..n /\ c <= MaxJobs
        /\ \A k \in 1..n : \E j \in Job : order[j] = k
        /\ \A i, j \in Created : order[i] = order[j] => i = j
        /\ \A j \in Created : order[j] <= n /\ (j \in jobs <=> order[j] > n - c)

\* A map that grows beyond maxJobs loses its oldest entry, and no other.
LEMMA TrimsOldest ==
    ASSUME TypeOK, Existence, Newest, NEW j \in Job, Start(j), \A i \in jobs : status[i] \notin Active
    PROVE  LET n == Cardinality(Created)
               c == Cardinality(jobs)
           IN  /\ c < MaxJobs => jobs' = jobs \cup {j}
               /\ c = MaxJobs => jobs' = {i \in jobs : order[i] > n - c + 1} \cup {j}
<1>. DEFINE n == Cardinality(Created)
            c == Cardinality(jobs)
            m == jobs \cup {j}
            Before(k) == {i \in jobs : order'[i] < order'[k]}
<1>1. /\ IsFiniteSet(jobs) /\ c \in Nat /\ n \in Nat /\ c <= n /\ c <= MaxJobs
      /\ order \in [Job -> 0..Cardinality(Job)] /\ status[j] = "absent" /\ jobs \subseteq Job
  BY JobAssumption, FS_Subset, FS_CardinalityType DEF TypeOK, Newest, Start
<1>2. j \notin jobs /\ jobs \subseteq Created
  BY <1>1 DEF Existence, TypeOK, Created
<1>3. Cardinality(m) = c + 1
  BY <1>1, <1>2, FS_AddElement
<1>4. /\ \A i \in jobs : order'[i] = order[i] /\ status'[i] = status[i]
      /\ status'[j] = "queued" /\ order'[j] = n + 1
  BY <1>1, <1>2 DEF Start, TypeOK
<1>5. {i \in m : status'[i] \notin Active} = jobs
  BY <1>2, <1>4 DEF Active
<1>. DEFINE E == Expired(m, status', order')
<1>6. \A k : k \in E <=> k \in jobs /\ Cardinality(Before(k)) < c + 1 - MaxJobs
  <2>. DEFINE F == {i \in m : status'[i] \notin Active}
              Earlier(k) == {i \in F : order'[i] < order'[k]}
  <2>1. \A k : k \in E <=> k \in F /\ Cardinality(Earlier(k)) < Cardinality(m) - MaxJobs
    BY DEF Expired
  <2>2. F = jobs
    BY <1>5
  <2>. HIDE DEF F, E, m
  <2>3. \A k : Earlier(k) = Before(k)
    BY <2>2
  <2>4. ASSUME NEW k PROVE k \in E <=> k \in jobs /\ Cardinality(Before(k)) < c + 1 - MaxJobs
    <3>1. Earlier(k) = Before(k)
      BY <2>3
    <3>2. k \in E <=> k \in F /\ Cardinality(Earlier(k)) < Cardinality(m) - MaxJobs
      BY <2>1
    <3>3. k \in E <=> k \in F /\ Cardinality(Before(k)) < Cardinality(m) - MaxJobs
      BY <3>1, <3>2
    <3>4. k \in E <=> k \in jobs /\ Cardinality(Before(k)) < Cardinality(m) - MaxJobs
      BY <2>2, <3>3
    <3>. HIDE DEF Before, c
    <3>. QED
      BY <1>1, <1>3, <3>4, MaxJobsAssumption
  <2>. QED
    BY <2>4
<1>7. \A k \in jobs : IsFiniteSet(Before(k)) /\ Cardinality(Before(k)) \in Nat /\ (Cardinality(Before(k)) = 0 <=> Before(k) = {})
  BY <1>1, FS_Subset, FS_CardinalityType, FS_EmptySet
<1>8. jobs' = (jobs \cup {j}) \ E
  BY DEF Start
<1>9. MaxJobs \in Nat /\ MaxJobs > 0
  BY MaxJobsAssumption
<1>10. \A k \in jobs : \A i : i \in Before(k) <=> i \in jobs /\ order[i] < order[k]
  BY <1>4
<1>11. \A k \in 1..n : \E i \in Job : order[i] = k
  BY DEF Newest
<1>12. \A i \in Job : order[i] \in Nat /\ (order[i] > 0 => (i \in jobs <=> order[i] > n - c)) /\ (i \in jobs => order[i] > 0)
  <2>1. \A i \in Job : order[i] \in Nat
    BY <1>1, JobAssumption, FS_CardinalityType
  <2>. QED
    BY <1>2, <2>1 DEF Newest, Created
<1>. HIDE DEF n, c, m, E, Before
<1>13. CASE c < MaxJobs
  <2>1. \A k \in jobs : ~(Cardinality(Before(k)) < c + 1 - MaxJobs)
    BY <1>1, <1>7, <1>9, <1>13
  <2>2. E = {}
    BY <1>6, <2>1
  <2>3. jobs' = jobs \cup {j} /\ ~(c = MaxJobs)
    BY <1>1, <1>8, <1>9, <1>13, <2>2
  <2>. QED
    BY <1>13, <2>3 DEF c
<1>14. CASE c = MaxJobs
  <2>1. PICK o \in Job : order[o] = n - c + 1
    <3>1. n - c + 1 \in 1..n
      BY <1>1, <1>9, <1>14
    <3>. QED
      BY <1>11, <3>1
  <2>2. o \in jobs
    BY <1>1, <1>12, <2>1
  <2>3. \A k \in jobs : order[k] \in Nat /\ order[k] >= n - c + 1
    BY <1>1, <1>12
  <2>4. ASSUME NEW k \in jobs PROVE k \in E <=> ~(order[k] > n - c + 1)
    <3>1. k \in E <=> Before(k) = {}
      BY <1>1, <1>6, <1>7, <1>9, <1>14
    <3>2. CASE order[k] > n - c + 1
      <4>1. o \in Before(k)
        BY <1>10, <2>1, <2>2, <3>2
      <4>. QED
        BY <3>1, <3>2, <4>1
    <3>3. CASE ~(order[k] > n - c + 1)
      <4>1. \A i \in jobs : ~(order[i] < order[k])
        BY <1>1, <2>3, <3>3
      <4>2. Before(k) = {}
        BY <1>10, <4>1
      <4>. QED
        BY <3>1, <3>3, <4>2
    <3>. QED
      BY <3>2, <3>3
  <2>5. j \notin E
    BY <1>2, <1>6
  <2>6. jobs' = {i \in jobs : order[i] > n - c + 1} \cup {j} /\ ~(c < MaxJobs)
    BY <1>1, <1>8, <1>14, <2>4, <2>5
  <2>. QED
    BY <1>14, <2>6 DEF n, c
<1>. QED
  BY <1>1, <1>9, <1>13, <1>14

\* Every step keeps the newest.
LEMMA NewestNext == SlotInv /\ Newest /\ [Next]_vars => Newest'
<1>. SUFFICES ASSUME SlotInv, Newest, [Next]_vars PROVE Newest'
  OBVIOUS
<1>1. ASSUME UNCHANGED <<jobs, order>> PROVE Newest'
  BY <1>1 DEF Newest, Created
<1>2. ASSUME NEW j \in Job, Start(j) PROVE Newest'
  <2>. DEFINE n == Cardinality(Created)
              c == Cardinality(jobs)
  <2>1. /\ n \in Nat /\ c \in Nat /\ c <= n /\ c <= MaxJobs /\ MaxJobs \in Nat /\ MaxJobs > 0
        /\ order \in [Job -> 0..Cardinality(Job)] /\ jobs \subseteq Job /\ j \notin jobs /\ order[j] = 0
    BY <1>2, MaxJobsAssumption DEF Newest, SlotInv, TypeOK, Existence, Start
  <2>2. /\ \A k \in 1..n : \E i \in Job : order[i] = k
        /\ \A i, k \in Created : order[i] = order[k] => i = k
        /\ \A i \in Created : order[i] <= n /\ order[i] > 0 /\ order[i] \in Nat /\ (i \in jobs <=> order[i] > n - c)
    BY <2>1 DEF Newest, Created
  <2>3. /\ IsFiniteSet(Created) /\ IsFiniteSet(jobs) /\ jobs \subseteq Created
    BY <2>1, JobAssumption, FS_Subset DEF Created, SlotInv, Existence
  <2>4. order' = [order EXCEPT ![j] = n + 1]
    BY <1>2 DEF Start
  <2>. HIDE DEF n, c
  <2>5. Created' = Created \cup {j} /\ j \notin Created
    BY <2>1, <2>4 DEF Created
  <2>6. Cardinality(Created') = n + 1
    BY <2>3, <2>5, FS_AddElement DEF n
  <2>7. /\ c < MaxJobs => jobs' = jobs \cup {j}
        /\ c = MaxJobs => jobs' = {i \in jobs : order[i] > n - c + 1} \cup {j}
    <3>1. \A i \in jobs : status[i] \notin Active
      BY <1>2 DEF Start, ActiveJobs
    <3>. QED
      BY <1>2, <3>1, TrimsOldest DEF SlotInv, n, c
  <2>8. Cardinality(jobs') = (IF c < MaxJobs THEN c + 1 ELSE c)
    <3>1. CASE c < MaxJobs
      BY <2>1, <2>3, <2>7, <3>1, FS_AddElement DEF c
    <3>2. CASE c = MaxJobs
      <4>1. PICK o \in Job : order[o] = n - c + 1
        <5>1. n - c + 1 \in 1..n
          BY <2>1, <3>2
        <5>. QED
          BY <2>2, <5>1
      <4>2. o \in jobs
        <5>1. o \in Created
          BY <2>1, <3>2, <4>1 DEF Created
        <5>. QED
          BY <2>1, <2>2, <4>1, <5>1
      <4>3. jobs' = (jobs \ {o}) \cup {j}
        <5>1. \A i \in jobs : order[i] > n - c + 1 <=> i # o
          BY <2>1, <2>2, <2>3, <4>1, <4>2
        <5>. QED
          BY <2>7, <3>2, <5>1
      <4>4. IsFiniteSet(jobs \ {o}) /\ Cardinality(jobs \ {o}) = c - 1
        BY <2>3, <4>2, FS_RemoveElement DEF c
      <4>5. Cardinality(jobs') = c - 1 + 1
        <5>1. j \notin jobs \ {o}
          BY <2>1
        <5>. QED
          BY ONLY <4>3, <4>4, <5>1, FS_AddElement
      <4>. QED
        BY <2>1, <3>2, <4>5
    <3>. QED
      BY <2>1, <3>1, <3>2
  <2>9. \A k \in 1..(n + 1) : \E i \in Job : order'[i] = k
    <3>1. \A k \in 1..n : \E i \in Job : order'[i] = k
      BY <2>1, <2>2, <2>4
    <3>2. order'[j] = n + 1
      BY <2>1, <2>4
    <3>. QED
      BY <2>1, <3>1, <3>2
  <2>10. \A i, k \in Created' : order'[i] = order'[k] => i = k
    BY <2>1, <2>2, <2>4, <2>5
  <2>11. \A i \in Created' : order'[i] <= n + 1
                             /\ (i \in jobs' <=> order'[i] > n + 1 - (IF c < MaxJobs THEN c + 1 ELSE c))
    BY <2>1, <2>2, <2>3, <2>4, <2>5, <2>7
  <2>. QED
    BY <2>1, <2>6, <2>8, <2>9, <2>10, <2>11 DEF Newest
<1>3. ASSUME NEW j \in Job, Begin(j) \/ Progress(j) \/ Cancel(j) \/ \E o \in Outcome : Settle(j, o) PROVE Newest'
  BY <1>1, <1>3 DEF Begin, Progress, Cancel, Settle
<1>. QED
  BY <1>1, <1>2, <1>3 DEF Next, vars

\* JOB-06: the map never holds more than maxJobs entries, and those it holds are the newest.
THEOREM KeepsTheNewest == Spec => []HistoryIsNewest
<1>1. Init => Newest
  <2>. SUFFICES ASSUME Init PROVE Newest
    OBVIOUS
  <2>1. Created = {} /\ jobs = {}
    BY DEF Init, Created
  <2>. QED
    BY <2>1, FS_EmptySet, MaxJobsAssumption DEF Newest
<1>2. SlotInv /\ Newest => HistoryIsNewest
  <2>. SUFFICES ASSUME SlotInv, Newest PROVE HistoryIsNewest
    OBVIOUS
  <2>1. jobs \subseteq Created /\ \A i \in Created : order[i] \in Nat
    BY JobAssumption, FS_CardinalityType DEF SlotInv, TypeOK, Existence, Created
  <2>. QED
    BY <2>1 DEF Newest, HistoryIsNewest
<1>. QED
  BY <1>1, <1>2, NewestNext, SlotInvHolds, PTL DEF Spec
-----------------------------------------------------------------------------
\* Nothing is taken before the launch, and nobody waits for it after.
Launched == IF scan = "new" THEN cursor = 0 /\ completed = 0 /\ \A w \in Worker : at[w] = "new"
            ELSE \A w \in Worker : at[w] # "new" /\ target[w] \in 1..cursor

\* What was not taken is untouched, and what was probed was probed once.
Untouched == \A t \in Target : /\ probed[t] \in 0..1
                               /\ t > cursor => probed[t] = 0
                               /\ probed[t] = 0 => outcome[t] = "none"

\* A worker that probes has its target for itself, and no outcome of it yet.
OwnTarget == \A w \in Worker : at[w] = "probing" =>
                /\ probed[target[w]] = 1 /\ outcome[target[w]] = "none"
                /\ \A v \in Worker \ {w} : target[v] # target[w]

\* Workers end when all targets are taken.  What was taken was probed and has an outcome,
\* or it is being probed, unless a worker has thrown.
Complete ==
    /\ \A w \in Worker : at[w] = "ended" => cursor = Targets
    /\ scan = "returned" => \A w \in Worker : at[w] = "ended"
    /\ (scan # "new" /\ \A w \in Worker : at[w] \in {"probing", "ended"}) =>
           \A t \in 1..cursor : /\ probed[t] = 1
                                /\ outcome[t] # "none" \/ \E w \in Worker : at[w] = "probing" /\ target[w] = t

PoolInv == PoolTypeOK /\ Launched /\ Untouched /\ OwnTarget /\ Complete /\ ProgressIsAccurate

\* There is a worker, and no more of them than targets.
LEMMA Workers ==
    /\ Min({Concurrency, Targets}) \in 1..Targets
    /\ 1 \in Worker /\ Worker \subseteq Target
    /\ IsFiniteSet(Worker) /\ Cardinality(Worker) = Min({Concurrency, Targets})
<1>1. Min({Concurrency, Targets}) \in {Concurrency, Targets} /\ Min({Concurrency, Targets}) <= Targets
  <2>1. \E x \in {Concurrency, Targets} : \A y \in {Concurrency, Targets} : x <= y
    <3>1. CASE Concurrency <= Targets
      BY <3>1, PoolAssumption
    <3>2. CASE ~(Concurrency <= Targets)
      BY <3>2, PoolAssumption
    <3>. QED
      BY <3>1, <3>2
  <2>. QED
    BY <2>1 DEF Min
<1>2. Min({Concurrency, Targets}) \in 1..Targets
  BY <1>1, PoolAssumption
<1>3. 1 \in Worker /\ Worker \subseteq Target
  BY <1>2, PoolAssumption DEF Worker, Target
<1>4. IsFiniteSet(Worker) /\ Cardinality(Worker) = Min({Concurrency, Targets})
  BY <1>2, PoolAssumption, FS_Interval DEF Worker
<1>. QED
  BY <1>2, <1>3, <1>4

\* The invariant holds before the launch.
LEMMA PoolInvInit == PoolInit => PoolInv
<1>. SUFFICES ASSUME PoolInit PROVE PoolInv
  OBVIOUS
<1>1. PoolTypeOK
  <2>1. 0 \in 0..Targets
    BY PoolAssumption
  <2>. QED
    BY <2>1 DEF PoolInit, PoolTypeOK
<1>2. {t \in Target : outcome[t] # "none"} = {}
  BY DEF PoolInit
<1>3. ProgressIsAccurate
  BY <1>2, FS_EmptySet DEF PoolInit, ProgressIsAccurate
<1>4. Launched /\ Untouched /\ OwnTarget /\ Complete
  BY DEF PoolInit, Launched, Untouched, OwnTarget, Complete
<1>. QED
  BY <1>1, <1>3, <1>4 DEF PoolInv

\* The launch gives every worker a target.
LEMMA LaunchStep == ASSUME PoolInv, Launch PROVE PoolInv'
<1>1. /\ scan = "new" /\ cursor' = Cardinality(Worker) /\ target' = [w \in Worker |-> w]
      /\ UNCHANGED <<ping, outcome, completed, signal>>
  BY DEF Launch
<1>2. cursor' \in 1..Targets /\ Worker = 1..cursor' /\ Worker \subseteq Target
  BY <1>1, Workers DEF Worker
<1>3. \A t \in Target : outcome[t] = "none" /\ probed[t] = 0
  BY <1>1 DEF PoolInv, Launched, Untouched, Target, PoolTypeOK
<1>4. PoolTypeOK'
  <2>1. cursor' \in 0..Targets /\ \A w \in Worker : w \in 0..Targets
    BY <1>2, PoolAssumption DEF Target
  <2>2. at' \in [Worker -> {"new", "probing", "ended", "threw", "threwAbort"}]
        /\ scan' \in {"new", "running", "returned", "threw", "threwAbort"}
    BY DEF Launch
  <2>3. probed' \in [Target -> Nat]
    BY DEF Launch, PoolInv, PoolTypeOK
  <2>4. target' \in [Worker -> 0..Targets]
    BY <1>1, <2>1
  <2>. QED
    BY <1>1, <2>1, <2>2, <2>3, <2>4 DEF PoolInv, PoolTypeOK
<1>5. ProgressIsAccurate'
  BY <1>1 DEF PoolInv, ProgressIsAccurate
<1>6. CASE signal
  <2>1. /\ at' = [w \in Worker |-> "threwAbort"] /\ scan' = "threwAbort" /\ probed' = probed
    BY <1>6 DEF Launch
  <2>2. Launched' /\ Untouched' /\ OwnTarget'
    <3>1. Launched'
      BY <1>1, <1>2, <2>1 DEF Launched
    <3>2. Untouched'
      BY <1>1, <1>3, <2>1 DEF Untouched
    <3>. QED
      BY <2>1, <3>1, <3>2 DEF OwnTarget
  <2>3. Complete'
    BY <2>1, Workers DEF Complete
  <2>. QED
    BY <1>4, <1>5, <2>2, <2>3 DEF PoolInv
<1>7. CASE ~signal
  <2>1. /\ at' = [w \in Worker |-> "probing"] /\ scan' = "running"
        /\ probed' = [t \in Target |-> IF t \in Worker THEN 1 ELSE 0]
    BY <1>7 DEF Launch
  <2>2. Launched' /\ OwnTarget'
    <3>1. Launched'
      BY <1>1, <1>2, <2>1 DEF Launched
    <3>2. \A w \in Worker : target'[w] = w /\ w \in Target /\ probed'[w] = 1 /\ outcome'[w] = "none"
      BY <1>1, <1>2, <1>3, <2>1
    <3>3. OwnTarget'
      BY <3>2 DEF OwnTarget
    <3>. QED
      BY <3>1, <3>3
  <2>3. Untouched'
    <3>1. \A t \in Target : /\ probed'[t] = (IF t \in Worker THEN 1 ELSE 0)
                            /\ outcome'[t] = "none" /\ (t > cursor' => t \notin Worker)
      <4>1. \A t \in Target : t > cursor' => t \notin Worker
        BY <1>2, PoolAssumption DEF Target
      <4>. QED
        BY <1>1, <1>3, <2>1, <4>1
    <3>. QED
      BY <3>1 DEF Untouched
  <2>4. Complete'
    <3>1. \A t \in 1..cursor' : t \in Worker /\ probed'[t] = 1 /\ at'[t] = "probing" /\ target'[t] = t
      BY <1>1, <1>2, <2>1
    <3>2. \A w \in Worker : at'[w] # "ended"
      BY <2>1
    <3>. QED
      BY <2>1, <3>1, <3>2 DEF Complete
  <2>. QED
    BY <1>4, <1>5, <2>2, <2>3, <2>4 DEF PoolInv
<1>. QED
  BY <1>6, <1>7
-----------------------------------------------------------------------------
\* What becomes of the scan when a worker ends.
LEMMA AfterEnd ==
    ASSUME PoolInv, NEW w \in Worker, at[w] = "probing", NEW how \in {"ended", "threw", "threwAbort"},
           at' = [at EXCEPT ![w] = how], scan' = ScanAfter(w, how)
    PROVE  /\ scan # "new" /\ scan' # "new" /\ scan' \in {"running", "returned", "threw", "threwAbort"}
           /\ scan' = "returned" => \A v \in Worker : at'[v] = "ended"
<1>1. \A v \in Worker : at'[v] = IF v = w THEN how ELSE at[v]
  BY DEF PoolInv, PoolTypeOK
<1>2. scan # "new" /\ scan # "returned"
  BY DEF PoolInv, Launched, Complete
<1>. QED
  BY <1>1, <1>2 DEF ScanAfter, PoolInv, PoolTypeOK

\* The probe of a worker throws.
LEMMA ThrowStep == ASSUME PoolInv, NEW w \in Worker, ProbeThrows(w) PROVE PoolInv'
<1>. DEFINE how == IF signal THEN "threwAbort" ELSE "threw"
<1>1. /\ at[w] = "probing" /\ at' = [at EXCEPT ![w] = how] /\ scan' = ScanAfter(w, how)
      /\ UNCHANGED <<ping, cursor, target, outcome, completed, signal, probed>>
      /\ how \in {"threw", "threwAbort"}
  BY DEF ProbeThrows, End
<1>. HIDE DEF how
<1>2. \A v \in Worker : at'[v] = IF v = w THEN how ELSE at[v]
  BY <1>1 DEF PoolInv, PoolTypeOK
<1>3. /\ scan # "new" /\ scan' # "new" /\ scan' \in {"running", "returned", "threw", "threwAbort"}
      /\ scan' = "returned" => \A v \in Worker : at'[v] = "ended"
  BY <1>1, AfterEnd
<1>4. PoolTypeOK'
  BY <1>1, <1>2, <1>3 DEF PoolInv, PoolTypeOK
<1>5. Launched' /\ Untouched' /\ OwnTarget' /\ ProgressIsAccurate'
  BY <1>1, <1>2, <1>3 DEF PoolInv, Launched, Untouched, OwnTarget, ProgressIsAccurate
<1>6. Complete'
  <2>1. at'[w] \notin {"probing", "ended"}
    BY <1>1, <1>2
  <2>. QED
    BY <1>1, <1>2, <1>3, <2>1 DEF PoolInv, Complete
<1>. QED
  BY <1>4, <1>5, <1>6 DEF PoolInv

\* A probe has an outcome: there is one more, and the count is right again.
LEMMA OutcomeCounted ==
    ASSUME PoolInv, NEW w \in Worker, NEW o \in {"positive", "negative"}, at[w] = "probing",
           outcome' = [outcome EXCEPT ![target[w]] = o], completed' = completed + 1
    PROVE  /\ target[w] \in Target /\ target[w] <= cursor
           /\ \A t \in Target : outcome'[t] = IF t = target[w] THEN o ELSE outcome[t]
           /\ ProgressIsAccurate' /\ completed' \in 0..Targets
           /\ outcome' \in [Target -> {"none", "positive", "negative"}]
<1>. DEFINE found == {t \in Target : outcome[t] # "none"}
<1>1. target[w] \in 1..cursor /\ cursor \in 0..Targets
  BY DEF PoolInv, PoolTypeOK, Launched
<1>2. target[w] \in Target /\ target[w] <= cursor
  BY <1>1, PoolAssumption DEF Target
<1>3. /\ \A t \in Target : outcome'[t] = IF t = target[w] THEN o ELSE outcome[t]
      /\ outcome' \in [Target -> {"none", "positive", "negative"}]
  BY DEF PoolInv, PoolTypeOK
<1>4. outcome[target[w]] = "none"
  BY DEF PoolInv, OwnTarget
<1>5. {t \in Target : outcome'[t] # "none"} = found \cup {target[w]} /\ target[w] \notin found
  BY <1>2, <1>3, <1>4
<1>6. IsFiniteSet(Target) /\ Cardinality(Target) = Targets
  BY PoolAssumption, FS_Interval DEF Target
<1>7. IsFiniteSet(found) /\ IsFiniteSet(found \cup {target[w]})
  BY <1>6, FS_Subset, FS_AddElement
<1>8. Cardinality(found \cup {target[w]}) = Cardinality(found) + 1
  BY <1>5, <1>7, FS_AddElement
<1>9. Cardinality(found \cup {target[w]}) <= Targets
  BY <1>2, <1>6, FS_Subset
<1>10. completed = Cardinality(found) /\ completed \in Nat
  BY DEF PoolInv, ProgressIsAccurate, PoolTypeOK
<1>. HIDE DEF found
<1>11. ProgressIsAccurate'
  BY <1>5, <1>8, <1>10 DEF ProgressIsAccurate
<1>12. completed' \in 0..Targets
  BY <1>8, <1>9, <1>10, PoolAssumption
<1>. QED
  BY <1>2, <1>3, <1>11, <1>12

\* A worker that has an outcome takes the next target, or ends when there is none.
LEMMA ReturnStep ==
    ASSUME PoolInv, NEW w \in Worker, NEW o \in {"positive", "negative"}, ProbeReturns(w, o) PROVE PoolInv'
<1>1. /\ at[w] = "probing" /\ outcome' = [outcome EXCEPT ![target[w]] = o] /\ completed' = completed + 1
      /\ UNCHANGED <<ping, signal>> /\ TakeNext(w)
  BY DEF ProbeReturns
<1>2. /\ target[w] \in Target /\ target[w] <= cursor
      /\ \A t \in Target : outcome'[t] = IF t = target[w] THEN o ELSE outcome[t]
      /\ ProgressIsAccurate' /\ completed' \in 0..Targets
      /\ outcome' \in [Target -> {"none", "positive", "negative"}]
  BY <1>1, OutcomeCounted
<1>3. /\ scan # "new" /\ cursor \in 0..Targets /\ probed[target[w]] = 1
      /\ \A v \in Worker : at[v] # "new" /\ target[v] \in 1..cursor
      /\ \A v \in Worker : v # w => target[v] # target[w]
  BY <1>1 DEF PoolInv, PoolTypeOK, Launched, OwnTarget
<1>4. CASE cursor < Targets
  <2>. DEFINE t == cursor + 1
  <2>1. cursor' = t /\ Probe(w, t) /\ target' = [target EXCEPT ![w] = t]
    BY <1>1, <1>4 DEF TakeNext, Probe
  <2>2. t \in Target /\ t \in 0..Targets /\ t # target[w] /\ ~(t <= cursor) /\ t \in 1..t
    BY <1>2, <1>3, <1>4, PoolAssumption DEF Target
  <2>3. \A x \in 1..t : x = t \/ x \in 1..cursor
    BY <1>3
  <2>4. \A x \in 1..cursor : x \in 1..t /\ x # t /\ x \in Target
    BY <1>3, <1>4, PoolAssumption DEF Target
  <2>5. probed[t] = 0 /\ outcome[t] = "none" /\ outcome'[t] = "none"
    <3>1. t > cursor
      BY <1>3, PoolAssumption
    <3>. HIDE DEF t
    <3>2. probed[t] = 0 /\ outcome[t] = "none"
      BY <2>2, <3>1 DEF PoolInv, Untouched
    <3>. QED
      BY <1>2, <2>2, <3>2
  <2>6. \A v \in Worker : target'[v] = IF v = w THEN t ELSE target[v]
    BY <2>1 DEF PoolInv, PoolTypeOK
  <2>7. \A x \in Target : x > t => x > cursor /\ x # t
    BY <1>3 DEF Target
  <2>. HIDE DEF t
  <2>8. CASE signal
    <3>1. /\ at' = [at EXCEPT ![w] = "threwAbort"] /\ scan' = ScanAfter(w, "threwAbort") /\ probed' = probed
      BY <2>1, <2>8 DEF Probe
    <3>2. /\ scan' # "new" /\ scan' \in {"running", "returned", "threw", "threwAbort"}
          /\ scan' = "returned" => \A v \in Worker : at'[v] = "ended"
      BY <1>1, <3>1, AfterEnd
    <3>3. \A v \in Worker : at'[v] = IF v = w THEN "threwAbort" ELSE at[v]
      BY <3>1 DEF PoolInv, PoolTypeOK
    <3>4. PoolTypeOK'
      BY <1>1, <1>2, <2>1, <2>2, <3>1, <3>2 DEF PoolInv, PoolTypeOK
    <3>5. Launched'
      BY <1>3, <2>1, <2>2, <2>4, <2>6, <3>2, <3>3 DEF Launched
    <3>6. Untouched'
      BY <1>2, <1>3, <2>1, <2>7, <3>1 DEF PoolInv, Untouched
    <3>7. OwnTarget'
      BY <1>2, <1>3, <2>2, <2>4, <2>6, <3>1, <3>3 DEF PoolInv, OwnTarget
    <3>8. Complete'
      <4>1. \A v \in Worker : at'[v] # "ended"  \/ cursor = Targets
        BY <3>3 DEF PoolInv, Complete
      <4>2. at'[w] = "threwAbort"
        BY <3>3
      <4>3. cursor # Targets
        BY <1>3, <1>4
      <4>. QED
        BY <3>2, <4>1, <4>2, <4>3 DEF Complete
    <3>. QED
      BY <1>2, <3>4, <3>5, <3>6, <3>7, <3>8 DEF PoolInv
  <2>9. CASE ~signal
    <3>1. probed' = [probed EXCEPT ![t] = @ + 1] /\ UNCHANGED <<at, scan>>
      BY <2>1, <2>9 DEF Probe
    <3>2. /\ probed' \in [Target -> Nat]
          /\ \A x \in Target : probed'[x] = IF x = t THEN 1 ELSE probed[x]
      BY <2>2, <2>5, <3>1 DEF PoolInv, PoolTypeOK
    <3>3. PoolTypeOK'
      BY <1>1, <1>2, <2>1, <2>2, <3>1, <3>2 DEF PoolInv, PoolTypeOK
    <3>4. Launched'
      BY <1>3, <2>1, <2>2, <2>4, <2>6, <3>1 DEF Launched
    <3>5. Untouched'
      BY <1>2, <1>3, <2>1, <2>2, <2>5, <2>7, <3>2 DEF PoolInv, Untouched
    <3>6. OwnTarget'
      <4>1. ASSUME NEW v \in Worker, at'[v] = "probing"
            PROVE  /\ probed'[target'[v]] = 1 /\ outcome'[target'[v]] = "none"
                   /\ \A x \in Worker \ {v} : target'[x] # target'[v]
        <5>1. CASE v = w
          BY <1>3, <2>2, <2>4, <2>5, <2>6, <3>2, <5>1
        <5>2. CASE v # w
          <6>1. at[v] = "probing" /\ target'[v] = target[v] /\ target[v] \in 1..cursor /\ target[v] # target[w]
            BY <1>3, <2>6, <3>1, <4>1, <5>2
          <6>2. probed[target[v]] = 1 /\ outcome[target[v]] = "none" /\ \A x \in Worker \ {v} : target[x] # target[v]
            BY <6>1 DEF PoolInv, OwnTarget
          <6>. QED
            BY <1>2, <2>4, <2>6, <3>2, <5>2, <6>1, <6>2
        <5>. QED
          BY <5>1, <5>2
      <4>. QED
        BY <4>1 DEF OwnTarget
    <3>7. Complete'
      <4>1. \A v \in Worker : at'[v] # "ended"
        BY <1>3, <1>4, <3>1 DEF PoolInv, Complete
      <4>2. scan' # "returned"
        BY <4>1, <3>1, Workers DEF PoolInv, Complete
      <4>3. ASSUME \A v \in Worker : at'[v] \in {"probing", "ended"}, NEW x \in 1..cursor'
            PROVE  /\ probed'[x] = 1
                   /\ outcome'[x] # "none" \/ \E v \in Worker : at'[v] = "probing" /\ target'[v] = x
        <5>1. CASE x = t
          BY <1>1, <2>2, <2>6, <3>1, <3>2, <5>1
        <5>2. CASE x # t
          <6>1. x \in 1..cursor /\ x \in Target
            BY <2>1, <2>3, <2>4, <5>2
          <6>2. /\ probed[x] = 1
                /\ outcome[x] # "none" \/ \E v \in Worker : at[v] = "probing" /\ target[v] = x
            BY <1>3, <3>1, <4>3, <6>1 DEF PoolInv, Complete
          <6>3. CASE x = target[w]
            BY <1>2, <3>2, <5>2, <6>1, <6>2, <6>3
          <6>4. CASE x # target[w]
            BY <1>2, <2>6, <3>1, <3>2, <5>2, <6>1, <6>2, <6>4
          <6>. QED
            BY <6>3, <6>4
        <5>. QED
          BY <5>1, <5>2
      <4>. QED
        BY <4>1, <4>2, <4>3 DEF Complete
    <3>. QED
      BY <1>2, <3>3, <3>4, <3>5, <3>6, <3>7 DEF PoolInv
  <2>. QED
    BY <2>8, <2>9
<1>5. CASE ~(cursor < Targets)
  <2>1. /\ at' = [at EXCEPT ![w] = "ended"] /\ scan' = ScanAfter(w, "ended") /\ UNCHANGED <<cursor, target, probed>>
    BY <1>1, <1>5 DEF TakeNext, End
  <2>2. /\ scan' # "new" /\ scan' \in {"running", "returned", "threw", "threwAbort"}
        /\ scan' = "returned" => \A v \in Worker : at'[v] = "ended"
    BY <1>1, <2>1, AfterEnd
  <2>3. \A v \in Worker : at'[v] = IF v = w THEN "ended" ELSE at[v]
    BY <2>1 DEF PoolInv, PoolTypeOK
  <2>4. cursor = Targets
    BY <1>3, <1>5, PoolAssumption
  <2>5. PoolTypeOK'
    BY <1>1, <1>2, <2>1, <2>2 DEF PoolInv, PoolTypeOK
  <2>6. Launched' /\ Untouched'
    BY <1>2, <1>3, <2>1, <2>2, <2>3 DEF PoolInv, Launched, Untouched
  <2>7. OwnTarget'
    BY <1>2, <1>3, <2>1, <2>3, <2>4 DEF PoolInv, OwnTarget, Target
  <2>8. Complete'
    <3>1. ASSUME \A v \in Worker : at'[v] \in {"probing", "ended"}, NEW x \in 1..cursor'
          PROVE  /\ probed'[x] = 1
                 /\ outcome'[x] # "none" \/ \E v \in Worker : at'[v] = "probing" /\ target'[v] = x
      <4>1. \A v \in Worker : at[v] \in {"probing", "ended"}
        BY <1>1, <2>3, <3>1
      <4>2. /\ x \in Target /\ probed[x] = 1
            /\ outcome[x] # "none" \/ \E v \in Worker : at[v] = "probing" /\ target[v] = x
        BY <1>3, <2>1, <2>4, <3>1, <4>1 DEF PoolInv, Complete, Target
      <4>3. CASE x = target[w]
        BY <1>2, <2>1, <4>2, <4>3
      <4>4. CASE x # target[w]
        BY <1>2, <2>1, <2>3, <4>2, <4>4
      <4>. QED
        BY <4>3, <4>4
    <3>. QED
      BY <2>1, <2>2, <2>3, <2>4, <3>1 DEF PoolInv, Complete
  <2>. QED
    BY <1>2, <2>5, <2>6, <2>7, <2>8 DEF PoolInv
<1>. QED
  BY <1>4, <1>5

\* Every step of the pool preserves the invariant.
LEMMA PoolInvNext == PoolInv /\ [PoolNext]_poolVars => PoolInv'
<1>. SUFFICES ASSUME PoolInv, [PoolNext]_poolVars PROVE PoolInv'
  OBVIOUS
<1>1. CASE Abort
  BY <1>1 DEF Abort, PoolInv, PoolTypeOK, Launched, Untouched, OwnTarget, Complete, ProgressIsAccurate
<1>2. CASE UNCHANGED poolVars
  BY <1>2 DEF poolVars, PoolInv, PoolTypeOK, Launched, Untouched, OwnTarget, Complete, ProgressIsAccurate
<1>. QED
  BY <1>1, <1>2, LaunchStep, ReturnStep, ThrowStep DEF PoolNext

\* The invariant holds throughout.
LEMMA PoolInvHolds == PoolSpec => []PoolInv
  BY PoolInvInit, PoolInvNext, PTL DEF PoolSpec

\* COL-08: however many workers share the cursor, no target is probed twice, and a scan
\* that returns has the outcome of every target.
THEOREM OnceEach == PoolSpec => []EachTargetOnce
<1>1. PoolInv => EachTargetOnce
  <2>. SUFFICES ASSUME PoolInv PROVE EachTargetOnce
    OBVIOUS
  <2>1. \A t \in Target : probed[t] <= 1
    BY DEF PoolInv, Untouched
  <2>2. ASSUME scan = "returned" PROVE \A t \in Target : probed[t] = 1 /\ outcome[t] # "none"
    <3>1. \A w \in Worker : at[w] = "ended"
      BY <2>2 DEF PoolInv, Complete
    <3>2. cursor = Targets
      BY <3>1, Workers DEF PoolInv, Complete
    <3>. QED
      BY <2>2, <3>1, <3>2 DEF PoolInv, Complete, Target
  <2>. QED
    BY <2>1, <2>2 DEF EachTargetOnce
<1>. QED
  BY <1>1, PoolInvHolds, PTL

\* TCP-10: the count that is reported is the number of outcomes, in whatever order they come.
THEOREM CountIsExact == PoolSpec => []ProgressIsAccurate
<1>1. PoolInv => ProgressIsAccurate
  BY DEF PoolInv
<1>. QED
  BY <1>1, PoolInvHolds, PTL

\* TCP-08, COL-10: behind an abort no probe starts, and no scan of connections returns.
THEOREM AbortStops == PoolSpec => StopsOnAbort
<1>1. PoolInv /\ [PoolNext]_poolVars => NoProbeOnceAborted
  <2>. SUFFICES ASSUME PoolInv, [PoolNext]_poolVars, signal
                PROVE  probed' = probed /\ (scan' = "returned" => ping \/ scan = "returned")
    BY DEF NoProbeOnceAborted
  <2>1. CASE Launch
    BY <2>1 DEF Launch
  <2>2. ASSUME NEW w \in Worker, NEW o \in {"positive", "negative"}, ProbeReturns(w, o)
        PROVE  probed' = probed /\ ping
    BY <2>2 DEF ProbeReturns, TakeNext, Probe, End
  <2>3. ASSUME NEW w \in Worker, ProbeThrows(w)
        PROVE  probed' = probed /\ (scan' = "returned" => scan = "returned")
    BY <2>3 DEF ProbeThrows, End, ScanAfter
  <2>4. CASE Abort \/ UNCHANGED poolVars
    BY <2>4 DEF Abort, poolVars
  <2>. QED
    BY <2>1, <2>2, <2>3, <2>4 DEF PoolNext
<1>2. PoolInv /\ [PoolNext]_poolVars => [NoProbeOnceAborted]_poolVars
  BY <1>1
<1>. QED
  BY <1>2, PoolInvHolds, PTL DEF PoolSpec, StopsOnAbort
=============================================================================
