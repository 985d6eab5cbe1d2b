----------------------- MODULE ServiceSchedulerProofs -----------------------
(***************************************************************************)
(* What holds of the scheduler for any schedules, intervals, ticks, runs   *)
(* and changes.                                                            *)
(*                                                                         *)
(* That a time is served once rests on the order of the queue.  A tick     *)
(* serves a schedule only after its announcement has been written, so the  *)
(* question is what can set an earlier time behind it.  No other run that  *)
(* waits for its own announcement does: only one tick is at work, and a    *)
(* manual run counts from a later moment (Handled).  No old copy does:     *)
(* what was copied is at least the shortest interval there was (Copied).   *)
(* Spaced carries this from the scan to the next: from the time a scan has *)
(* started, whatever sets the time of that schedule, in the database, in   *)
(* the queue or in the hands of a tick, is an interval later.  Nothing of  *)
(* it is lost when the process dies, because the database says it alone.   *)
(***************************************************************************)
EXTENDS ServiceScheduler, FiniteSetTheorems, TLAPS

\* The writes that a run queues, and all writes.
RunWrite == [by : Run, id : Schedule, next : Nat \cup {Keep}, last : Status]
Write == RunWrite \cup Change

\* The types, where a step needs more of them than TypeOK says.
Typed ==
    /\ now \in Nat
    /\ stored \in [Schedule -> [present : BOOLEAN, enabled : BOOLEAN, interval : Intervals,
                              next : Nat, last : Status]]
    /\ writes \in Seq(Write)
    /\ at \in [Run -> {"idle", "reading", "next", "announcing", "starting", "scanning", "recording"}]
    /\ due \in [Run -> Seq(Copy)]
    /\ patching \in [Patch -> Seq([id : Schedule, enabled : BOOLEAN, interval : Intervals])]
    /\ started \in [Run -> Nat]
    /\ result \in [Run -> {"none", "completed", "failed", "cancelled"}]
    /\ lastScan \in [Schedule -> {Never} \cup Nat]
    /\ shortest \in [Schedule -> Intervals]

\* A tick at work is marked as running, and is alone.
OneTick == \A t \in Tick : at[t] # "idle" => running /\ \A u \in Tick : at[u] # "idle" => u = t

\* A run has a write in the queue while it waits for it, and then that one only.
Awaited ==
    /\ \A i \in 1..Len(writes) : writes[i] \in RunWrite =>
          LET w == writes[i]
          IN  /\ at[w.by] \in {"announcing", "recording"} /\ w.id = Head(due[w.by]).id
              /\ at[w.by] = "announcing" => w.next # Keep
              /\ at[w.by] = "recording" => w.next = Keep /\ w.last # "running"
    /\ \A i, j \in 1..Len(writes) :
          writes[i] \in RunWrite /\ writes[j] \in RunWrite /\ writes[i].by = writes[j].by => i = j

\* What a run has to do, each schedule once, was read from the database.
Copied ==
    /\ \A id \in Schedule : shortest[id] <= stored[id].interval
    /\ \A r \in Run : /\ at[r] \in {"announcing", "starting", "scanning", "recording"} => due[r] # <<>>
                      /\ started[r] <= now
                      /\ \A i \in 1..Len(due[r]) : shortest[due[r][i].id] <= due[r][i].interval
                      /\ \A i, j \in 1..Len(due[r]) : due[r][i].id = due[r][j].id => i = j

\* A schedule that shows "running" is one that has been announced.
Busy == \A id \in Schedule : stored[id].present /\ stored[id].last = "running" =>
            \E r \in Run : at[r] \in {"starting", "scanning", "recording"} /\ Head(due[r]).id = id

\* Behind the announcement of a tick, nothing sets a time the tick has served.
LaterThan(w, t) ==
    w \in RunWrite /\ w.next # Keep /\ w.id = Head(due[t]).id => w.next >= started[t] + shortest[w.id]
Handled ==
    \A t \in Tick :
        /\ at[t] \in {"starting", "scanning", "recording"} => \A i \in 1..Len(writes) : LaterThan(writes[i], t)
        /\ \A i, j \in 1..Len(writes) :
              i <= j /\ writes[i] \in RunWrite /\ writes[i].by = t => LaterThan(writes[j], t)

\* No time before the next scan is due, no write sets one, and no tick means to serve one.
After(time, id) == lastScan[id] # Never => time >= lastScan[id] + shortest[id]
Left(r) == IF at[r] \in {"scanning", "recording"} THEN 2..Len(due[r]) ELSE 1..Len(due[r])
Spaced ==
    /\ \A id \in Schedule : lastScan[id] <= now /\ After(stored[id].next, id)
    /\ \A i \in 1..Len(writes) :
          writes[i] \in RunWrite /\ writes[i].next # Keep => After(writes[i].next, writes[i].id)
    /\ \A t \in Tick : at[t] \notin {"idle", "reading"} => \A i \in Left(t) : After(started[t], due[t][i].id)

Inv == Typed /\ OneTick /\ Awaited /\ Copied /\ Handled /\ HandledIsNotDue /\ Spaced
-----------------------------------------------------------------------------
\* The two kinds of writes are told apart by their fields.
LEMMA Kinds ==
    ASSUME NEW w \in Write
    PROVE  /\ w \in RunWrite <=> "change" \notin DOMAIN w
           /\ w \in Change <=> "change" \in DOMAIN w
           /\ w.id \in Schedule
  BY DEF Write, RunWrite, Change

\* What the numbers are.
LEMMA Numbers == Intervals \subseteq Nat \ {0} /\ Keep = -1 /\ Never = -1
  BY SchedulerAssumption DEF Intervals, Keep, Never

\* The smaller of two numbers.
LEMMA LessOf ==
    ASSUME NEW m \in Nat, NEW n \in Nat
    PROVE  Min({m, n}) \in {m, n} /\ Min({m, n}) <= m /\ Min({m, n}) <= n
<1>1. \E x \in {m, n} : \A y \in {m, n} : x =< y
  <2>1. CASE m <= n
    BY <2>1
  <2>2. CASE ~(m <= n)
    BY <2>2
  <2>. QED
    BY <2>1, <2>2
<1>. QED
  BY <1>1 DEF Min

\* What is a number in every state.
LEMMA States ==
    ASSUME Inv
    PROVE  /\ now \in Nat /\ \A r \in Run : started[r] \in Nat
           /\ \A id \in Schedule : /\ shortest[id] \in Nat /\ lastScan[id] \in Int
                                   /\ stored[id].next \in Nat /\ stored[id].interval \in Nat
<1>1. \A id \in Schedule : lastScan[id] \in {Never} \cup Nat /\ shortest[id] \in Intervals /\ stored[id].interval \in Intervals
  BY DEF Inv, Typed
<1>2. (\A n \in Intervals : n \in Nat) /\ \A n \in {Never} \cup Nat : n \in Int
  BY Numbers
<1>3. \A id \in Schedule : shortest[id] \in Nat /\ lastScan[id] \in Int /\ stored[id].interval \in Nat
  <2>. HIDE DEF Intervals
  <2>. QED
    BY <1>1, <1>2
<1>. QED
  BY <1>3 DEF Inv, Typed

\* What Append does to a queue.
LEMMA Appended ==
    ASSUME NEW S, NEW q \in Seq(S), NEW w \in S
    PROVE  /\ Append(q, w) \in Seq(S)
           /\ Len(Append(q, w)) = Len(q) + 1 /\ 1..Len(Append(q, w)) = 1..Len(q) \cup {Len(q) + 1}
           /\ \A i \in 1..Len(q) : Append(q, w)[i] = q[i] /\ i < Len(q) + 1 /\ i # Len(q) + 1
           /\ Append(q, w)[Len(q) + 1] = w
  OBVIOUS

\* What taking the first from a queue leaves.
LEMMA Removed ==
    ASSUME NEW S, NEW q \in Seq(S), q # <<>>
    PROVE  /\ Tail(q) \in Seq(S) /\ Head(q) \in S /\ 1 \in 1..Len(q) /\ Head(q) = q[1]
           /\ Len(Tail(q)) = Len(q) - 1
           /\ \A i \in 1..Len(Tail(q)) : i + 1 \in 1..Len(q) /\ Tail(q)[i] = q[i + 1]
  OBVIOUS

\* A run that waits for nothing has nothing in the queue.
LEMMA NothingQueued ==
    ASSUME Inv, NEW r \in Run, at[r] \notin {"announcing", "recording"}
    PROVE  \A i \in 1..Len(writes) : writes[i] \in RunWrite => writes[i].by # r
  BY DEF Inv, Awaited

\* The invariant holds when nothing has been started.
LEMMA InvInit == Init => Inv
<1>. SUFFICES ASSUME Init PROVE Inv
  OBVIOUS
<1>. USE DEF Init
<1>1. \A id \in Schedule : Interval[id] \in Intervals /\ Interval[id] \in Nat
  BY SchedulerAssumption DEF Intervals
<1>2. Typed
  BY <1>1, SchedulerAssumption DEF Typed, Status, Never
<1>3. Len(writes) = 0 /\ \A r \in Run : Len(due[r]) = 0 /\ at[r] = "idle"
  OBVIOUS
<1>4. Tick \subseteq Run
  BY DEF Run
<1>5. OneTick /\ Awaited /\ Handled /\ HandledIsNotDue
  BY <1>3, <1>4 DEF OneTick, Awaited, Handled, HandledIsNotDue
<1>6. Copied
  BY <1>1, <1>3 DEF Copied
<1>7. Spaced
  BY <1>3, <1>4 DEF Spaced, After, Never
<1>. QED
  BY <1>2, <1>5, <1>6, <1>7 DEF Inv
-----------------------------------------------------------------------------
\* A run queues a write and waits for it.
LEMMA QueueStep ==
    ASSUME Inv, NEW r \in Run, NEW w \in RunWrite, w.by = r, NEW p \in {"announcing", "recording"},
           at[r] \notin {"announcing", "recording"}, at' = [at EXCEPT ![r] = p],
           writes' = Append(writes, w), w.id = Head(due'[r]).id, due'[r] # <<>>,
           p = "announcing" => w.next # Keep /\ at[r] \in {"idle", "next"},
           p = "recording" => w.next = Keep /\ w.last # "running" /\ at[r] \in {"starting", "scanning"},
           w.next # Keep => /\ After(w.next, w.id)
                            /\ \A t \in Tick : at'[t] # "idle" /\ w.id = Head(due'[t]).id =>
                                  w.next >= started[t] + shortest[w.id],
           due' = due \/ (r \in ManualRun /\ at[r] = "idle" /\ \E id \in Schedule : due' = [due EXCEPT ![r] = <<CopyOf(id)>>]),
           r \in Tick => at[r] # "idle",
           UNCHANGED <<now, stored, shortest, started, lastScan, result, patching, running>>
    PROVE  Inv'
<1>1. /\ writes \in Seq(Write) /\ writes' \in Seq(Write) /\ Len(writes) \in Nat
      /\ Len(writes') = Len(writes) + 1 /\ 1..Len(writes') = 1..Len(writes) \cup {Len(writes) + 1}
      /\ \A i \in 1..Len(writes) : writes'[i] = writes[i] /\ i < Len(writes) + 1 /\ i # Len(writes) + 1
      /\ writes'[Len(writes) + 1] = w
  BY Appended DEF Inv, Typed, Write
<1>2. \A i \in 1..Len(writes) : writes[i] \in RunWrite => writes[i].by # r
  BY NothingQueued
<1>3. \A x \in Run : at'[x] = IF x = r THEN p ELSE at[x]
  BY DEF Inv, Typed
<1>4. Tick \subseteq Run /\ \A t \in Tick : t \notin ManualRun
  BY SchedulerAssumption DEF Run, Tick
<1>5. \A x \in Run : x # r => due'[x] = due[x]
  BY DEF Inv, Typed
<1>6. due' \in [Run -> Seq(Copy)]
  <2>1. \A id \in Schedule : <<CopyOf(id)>> \in Seq(Copy)
    <3>1. \A id \in Schedule : CopyOf(id) \in Copy
      BY DEF CopyOf, Copy, Inv, Typed
    <3>. QED
      BY <3>1
  <2>2. due \in [Run -> Seq(Copy)]
    BY DEF Inv, Typed
  <2>3. CASE due' = due
    BY <2>2, <2>3
  <2>4. CASE \E id \in Schedule : due' = [due EXCEPT ![r] = <<CopyOf(id)>>]
    BY <2>1, <2>2, <2>4
  <2>. QED
    BY <2>3, <2>4
<1>7. Typed'
  BY <1>1, <1>6 DEF Inv, Typed
<1>8. OneTick'
  BY <1>3, <1>4 DEF Inv, OneTick
<1>9. Awaited'
  <2>1. ASSUME NEW i \in 1..Len(writes'), writes'[i] \in RunWrite
        PROVE  /\ at'[writes'[i].by] \in {"announcing", "recording"} /\ writes'[i].id = Head(due'[writes'[i].by]).id
               /\ at'[writes'[i].by] = "announcing" => writes'[i].next # Keep
               /\ at'[writes'[i].by] = "recording" => writes'[i].next = Keep /\ writes'[i].last # "running"
    <3>1. writes'[i].by \in Run
      BY <2>1 DEF RunWrite
    <3>2. CASE i = Len(writes) + 1
      BY <1>1, <1>3, <3>2
    <3>3. CASE i # Len(writes) + 1
      <4>1. i \in 1..Len(writes) /\ writes'[i] = writes[i] /\ writes[i].by # r
        BY <1>1, <1>2, <2>1, <3>3
      <4>. QED
        BY <1>3, <1>5, <2>1, <3>1, <4>1 DEF Inv, Awaited
    <3>. QED
      BY <3>2, <3>3
  <2>2. \A i, j \in 1..Len(writes') :
            writes'[i] \in RunWrite /\ writes'[j] \in RunWrite /\ writes'[i].by = writes'[j].by => i = j
    BY <1>1, <1>2 DEF Inv, Awaited
  <2>. QED
    BY <2>1, <2>2 DEF Awaited
<1>10. Copied'
  <2>1. CASE due' = due
    BY <1>3, <2>1 DEF Inv, Copied
  <2>2. CASE r \in ManualRun /\ at[r] = "idle" /\ \E id \in Schedule : due' = [due EXCEPT ![r] = <<CopyOf(id)>>]
    <3>1. PICK id \in Schedule : due' = [due EXCEPT ![r] = <<CopyOf(id)>>]
      BY <2>2
    <3>2. due'[r] = <<[id |-> id, interval |-> stored[id].interval]>>
      BY <3>1 DEF CopyOf, Inv, Typed
    <3>3. Len(due'[r]) = 1 /\ due'[r][1].id = id /\ due'[r][1].interval = stored[id].interval
      BY <3>2
    <3>4. ASSUME NEW x \in Run
          PROVE  /\ at'[x] \in {"announcing", "starting", "scanning", "recording"} => due'[x] # <<>>
                 /\ started[x] <= now
                 /\ \A i \in 1..Len(due'[x]) : shortest[due'[x][i].id] <= due'[x][i].interval
                 /\ \A i, j \in 1..Len(due'[x]) : due'[x][i].id = due'[x][j].id => i = j
      <4>1. CASE x = r
        BY <3>3, <4>1 DEF Inv, Copied
      <4>2. CASE x # r
        BY <1>3, <1>5, <4>2 DEF Inv, Copied
      <4>. QED
        BY <4>1, <4>2
    <3>. QED
      BY <3>4 DEF Inv, Copied
  <2>. QED
    BY <2>1, <2>2
<1>11. \A t \in Tick : due'[t] = due[t]
  BY <1>4, <1>5
<1>12. \A t \in Tick : at'[t] # "idle" => LaterThan(w, t)'
  BY DEF LaterThan
<1>13. Handled'
  <2>1. ASSUME NEW t \in Tick, NEW j \in 1..Len(writes') PROVE
            /\ at'[t] \in {"starting", "scanning", "recording"} => LaterThan(writes[j], t)'
            /\ \A i \in 1..Len(writes') : i <= j /\ writes'[i] \in RunWrite /\ writes'[i].by = t => LaterThan(writes[j], t)'
    <3>1. CASE j = Len(writes) + 1
      <4>1. \A i \in 1..Len(writes') : writes'[i] \in RunWrite /\ writes'[i].by = t => at'[t] # "idle"
        BY <1>9 DEF Awaited
      <4>. QED
        BY <1>1, <1>12, <3>1, <4>1
    <3>2. CASE j # Len(writes) + 1
      <4>1. j \in 1..Len(writes) /\ writes'[j] = writes[j]
        BY <1>1, <3>2
      <4>2. LaterThan(writes[j], t) => LaterThan(writes[j], t)'
        BY <1>11, <4>1 DEF LaterThan
      <4>3. at'[t] \in {"starting", "scanning", "recording"} => LaterThan(writes[j], t)
        BY <1>3, <1>4, <4>1 DEF Inv, Handled
      <4>4. \A i \in 1..Len(writes') : i <= j /\ writes'[i] \in RunWrite /\ writes'[i].by = t => LaterThan(writes[j], t)
        <5>1. \A i \in 1..Len(writes') : i <= j => i \in 1..Len(writes) /\ writes'[i] = writes[i]
          BY <1>1, <4>1
        <5>. QED
          BY <4>1, <5>1 DEF Inv, Handled
      <4>. QED
        BY <4>2, <4>3, <4>4
    <3>. QED
      BY <3>1, <3>2
  <2>. QED
    BY <2>1 DEF Handled
<1>14. HandledIsNotDue'
  BY <1>3, <1>4, <1>11 DEF Inv, HandledIsNotDue
<1>15. Spaced'
  <2>1. \A i \in 1..Len(writes') : writes'[i] \in RunWrite /\ writes'[i].next # Keep => After(writes'[i].next, writes'[i].id)
    BY <1>1 DEF Inv, Spaced
  <2>2. \A t \in Tick : at'[t] \notin {"idle", "reading"} =>
                          at[t] \notin {"idle", "reading"} /\ Left(t)' \subseteq Left(t)
    BY <1>1, <1>3, <1>4, <1>11 DEF Left
  <2>. QED
    BY <1>11, <2>1, <2>2 DEF Inv, Spaced, After
<1>. QED
  BY <1>7, <1>8, <1>9, <1>10, <1>13, <1>14, <1>15 DEF Inv

\* A user's change is queued.
LEMMA ChangeStep ==
    ASSUME Inv, NEW w \in Change, writes' = Append(writes, w),
           patching' \in [Patch -> Seq([id : Schedule, enabled : BOOLEAN, interval : Intervals])],
           UNCHANGED <<now, stored, at, due, shortest, started, lastScan, result, running>>
    PROVE  Inv'
<1>1. /\ writes \in Seq(Write) /\ writes' \in Seq(Write) /\ Len(writes) \in Nat
      /\ Len(writes') = Len(writes) + 1 /\ 1..Len(writes') = 1..Len(writes) \cup {Len(writes) + 1}
      /\ \A i \in 1..Len(writes) : writes'[i] = writes[i] /\ i < Len(writes) + 1 /\ i # Len(writes) + 1
      /\ writes'[Len(writes) + 1] = w
  BY Appended DEF Inv, Typed, Write
<1>2. w \notin RunWrite
  BY Kinds DEF Write
<1>3. Typed'
  BY <1>1 DEF Inv, Typed
<1>4. OneTick' /\ Copied' /\ HandledIsNotDue'
  BY DEF Inv, OneTick, Copied, HandledIsNotDue
<1>5. Awaited'
  BY <1>1, <1>2 DEF Inv, Awaited
<1>6. Handled'
  <2>1. ASSUME NEW t \in Tick, NEW j \in 1..Len(writes')
        PROVE  /\ at'[t] \in {"starting", "scanning", "recording"} => LaterThan(writes[j], t)'
               /\ \A i \in 1..Len(writes') : i <= j /\ writes'[i] \in RunWrite /\ writes'[i].by = t => LaterThan(writes[j], t)'
    <3>1. CASE j = Len(writes) + 1
      BY <1>1, <1>2, <3>1 DEF LaterThan
    <3>2. CASE j # Len(writes) + 1
      <4>1. j \in 1..Len(writes) /\ writes'[j] = writes[j]
        BY <1>1, <3>2
      <4>2. LaterThan(writes[j], t) => LaterThan(writes[j], t)'
        BY <4>1 DEF LaterThan
      <4>3. \A i \in 1..Len(writes') : i <= j => i \in 1..Len(writes) /\ writes'[i] = writes[i]
        BY <1>1, <4>1
      <4>. QED
        BY <4>1, <4>2, <4>3 DEF Inv, Handled
    <3>. QED
      BY <3>1, <3>2
  <2>. QED
    BY <2>1 DEF Handled
<1>7. Spaced'
  BY <1>1, <1>2 DEF Inv, Spaced, After, Left
<1>. QED
  BY <1>3, <1>4, <1>5, <1>6, <1>7 DEF Inv

\* What a write that leaves the queue does to the schedules ...
SchedulesStep(w) ==
    /\ stored' \in [Schedule -> [present : BOOLEAN, enabled : BOOLEAN, interval : Intervals, next : Nat, last : Status]]
    /\ shortest' \in [Schedule -> Intervals]
    /\ \A id \in Schedule :
          /\ shortest'[id] <= shortest[id] /\ shortest'[id] <= stored'[id].interval
          /\ stored'[id].present => stored[id].present
          /\ \/ stored'[id].next \in {stored[id].next, now + stored'[id].interval}
             \/ w \in RunWrite /\ w.next # Keep /\ w.id = id /\ stored'[id].next = w.next
          /\ w \in RunWrite /\ w.by \in Tick /\ w.next # Keep /\ w.id = id /\ stored'[id].present
                => stored'[id].next = w.next

\* ... and to the runs: the one that waited for it goes on, or ends.
WaitersStep(w) ==
    /\ at' \in [Run -> {"idle", "reading", "next", "announcing", "starting", "scanning", "recording"}]
    /\ due' \in [Run -> Seq(Copy)]
    /\ \A x \in Run : ~(w \in RunWrite /\ w.by = x) => at'[x] = at[x] /\ due'[x] = due[x]
    /\ w \in RunWrite =>
          \/ at'[w.by] = "idle" /\ w.by \in ManualRun /\ due'[w.by] = <<>>
          \/ at[w.by] = "announcing" /\ at'[w.by] \in {"starting", "scanning"} /\ due'[w.by] = due[w.by]
          \/ /\ at[w.by] = "recording" /\ at'[w.by] \in {"next", "idle"} /\ due'[w.by] = Tail(due[w.by])
             /\ w.by \in Tick => at'[w.by] = "next"

\* A write leaves the queue.
LEMMA LeavesStep ==
    ASSUME Inv, writes # <<>>, writes' = Tail(writes), NEW w, w = Head(writes), SchedulesStep(w), WaitersStep(w),
           result' \in [Run -> {"none", "completed", "failed", "cancelled"}],
           UNCHANGED <<now, running, started, lastScan, patching>>
    PROVE  Inv'
<1>1. /\ writes \in Seq(Write) /\ writes' \in Seq(Write) /\ w \in Write /\ 1 \in 1..Len(writes) /\ w = writes[1]
      /\ Len(writes') = Len(writes) - 1 /\ Len(writes) \in Nat
      /\ \A i \in 1..Len(writes') : i + 1 \in 1..Len(writes) /\ writes'[i] = writes[i + 1] /\ i + 1 # 1
  <2>1. writes \in Seq(Write)
    BY DEF Inv, Typed
  <2>. QED
    BY <2>1, Removed
<1>2. ASSUME w \in RunWrite, NEW i \in 1..Len(writes'), writes'[i] \in RunWrite PROVE writes'[i].by # w.by
  BY <1>1, <1>2 DEF Inv, Awaited
<1>3. Tick \subseteq Run /\ (\A t \in Tick : t \notin ManualRun)
  BY SchedulerAssumption DEF Run, Tick
<1>4. w \in RunWrite => w.by \in Run /\ w.id \in Schedule /\ w.id = Head(due[w.by]).id /\ at[w.by] \in {"announcing", "recording"}
  BY <1>1 DEF RunWrite, Inv, Awaited
<1>5. \A id \in Schedule : shortest[id] \in Nat /\ shortest'[id] \in Nat /\ stored[id].next \in Nat /\ stored[id].interval \in Nat
                           /\ stored'[id].interval \in Nat
  BY Numbers DEF Inv, Typed, SchedulesStep
<1>6. Typed'
  <2>1. /\ stored' \in [Schedule -> [present : BOOLEAN, enabled : BOOLEAN, interval : Intervals,
                                   next : Nat, last : Status]]
        /\ shortest' \in [Schedule -> Intervals]
    BY DEF SchedulesStep
  <2>2. /\ at' \in [Run -> {"idle", "reading", "next", "announcing", "starting", "scanning", "recording"}]
        /\ due' \in [Run -> Seq(Copy)]
    BY DEF WaitersStep
  <2>3. writes' \in Seq(Write)
    BY <1>1
  <2>. QED
    BY <2>1, <2>2, <2>3 DEF Inv, Typed
<1>7. OneTick'
  <2>1. ASSUME NEW t \in Tick, at'[t] # "idle" PROVE at[t] # "idle"
    <3>1. CASE w \in RunWrite /\ w.by = t
      BY <1>4, <3>1
    <3>2. CASE ~(w \in RunWrite /\ w.by = t)
      BY <1>3, <2>1, <3>2 DEF WaitersStep
    <3>. QED
      BY <3>1, <3>2
  <2>. QED
    BY <2>1 DEF Inv, OneTick
<1>8. Awaited'
  <2>1. ASSUME NEW i \in 1..Len(writes'), writes'[i] \in RunWrite
        PROVE  /\ at'[writes'[i].by] \in {"announcing", "recording"} /\ writes'[i].id = Head(due'[writes'[i].by]).id
               /\ at'[writes'[i].by] = "announcing" => writes'[i].next # Keep
               /\ at'[writes'[i].by] = "recording" => writes'[i].next = Keep /\ writes'[i].last # "running"
    <3>1. writes'[i].by \in Run /\ at'[writes'[i].by] = at[writes'[i].by] /\ due'[writes'[i].by] = due[writes'[i].by]
      BY <1>2, <2>1 DEF RunWrite, WaitersStep
    <3>. QED
      BY <1>1, <2>1, <3>1 DEF Inv, Awaited
  <2>2. \A i, j \in 1..Len(writes') :
            writes'[i] \in RunWrite /\ writes'[j] \in RunWrite /\ writes'[i].by = writes'[j].by => i + 1 = j + 1
    BY <1>1 DEF Inv, Awaited
  <2>3. \A i, j \in 1..Len(writes') : i + 1 = j + 1 => i = j
    OBVIOUS
  <2>. QED
    BY <2>1, <2>2, <2>3 DEF Awaited
<1>9. ASSUME NEW x \in Run
      PROVE  /\ \A i \in 1..Len(due'[x]) : \E j \in 1..Len(due[x]) : due'[x][i] = due[x][j]
             /\ \A i, j \in 1..Len(due'[x]) : due'[x][i].id = due'[x][j].id => i = j
             /\ at'[x] \in {"announcing", "starting", "scanning", "recording"} => due'[x] = due[x] /\ due[x] # <<>>
  <2>1. due[x] \in Seq(Copy) /\ Len(due[x]) \in Nat
    BY DEF Inv, Typed
  <2>2. \A i, j \in 1..Len(due[x]) : due[x][i].id = due[x][j].id => i = j
    BY DEF Inv, Copied
  <2>3. at[x] \in {"announcing", "starting", "scanning", "recording"} => due[x] # <<>>
    BY DEF Inv, Copied
  <2>4. CASE due'[x] = due[x] /\ at'[x] = at[x]
    BY <2>2, <2>3, <2>4
  <2>5. CASE due'[x] = due[x] /\ at[x] = "announcing"
    BY <2>2, <2>3, <2>5
  <2>6. CASE due'[x] = <<>> /\ at'[x] = "idle"
    BY <2>6
  <2>7. CASE due'[x] = Tail(due[x]) /\ at[x] = "recording" /\ at'[x] \in {"next", "idle"}
    <3>1. Len(due'[x]) = Len(due[x]) - 1 /\ \A i \in 1..Len(due'[x]) : i + 1 \in 1..Len(due[x]) /\ due'[x][i] = due[x][i + 1]
      BY <2>1, <2>3, <2>7, Removed
    <3>2. ASSUME NEW i \in 1..Len(due'[x]), NEW j \in 1..Len(due'[x]), due'[x][i].id = due'[x][j].id
          PROVE  i + 1 = j + 1
      <4>1. /\ i + 1 \in 1..Len(due[x]) /\ due'[x][i] = due[x][i + 1]
            /\ j + 1 \in 1..Len(due[x]) /\ due'[x][j] = due[x][j + 1]
        BY <3>1
      <4>. QED
        BY <2>2, <3>2, <4>1
    <3>3. \A i, j \in 1..Len(due'[x]) : i + 1 = j + 1 => i = j
      OBVIOUS
    <3>. QED
      BY <2>7, <3>1, <3>2, <3>3
  <2>. QED
    BY <2>4, <2>5, <2>6, <2>7, <1>4 DEF WaitersStep
<1>10. ASSUME NEW x \in Run, NEW j \in 1..Len(due[x])
       PROVE  due[x][j].id \in Schedule /\ due[x][j].interval \in Nat
  <2>1. due[x] \in Seq(Copy)
    BY DEF Inv, Typed
  <2>2. due[x][j] \in Copy
    BY <2>1
  <2>. QED
    BY <2>2, Numbers DEF Copy
<1>11. Copied'
  <2>1. ASSUME NEW x \in Run, NEW i \in 1..Len(due'[x]) PROVE shortest'[due'[x][i].id] <= due'[x][i].interval
    <3>1. PICK j \in 1..Len(due[x]) : due'[x][i] = due[x][j]
      BY <1>9
    <3>2. shortest[due[x][j].id] <= due[x][j].interval
      BY DEF Inv, Copied
    <3>. QED
      BY <1>5, <1>10, <3>1, <3>2 DEF SchedulesStep
  <2>2. \A id \in Schedule : shortest'[id] <= stored'[id].interval
    BY DEF SchedulesStep
  <2>3. \A x \in Run : started'[x] <= now'
    BY DEF Inv, Copied
  <2>. QED
    BY <1>9, <2>1, <2>2, <2>3 DEF Copied
<1>12. Handled'
  <2>1. ASSUME NEW t \in Tick, NEW j \in 1..Len(writes'), at'[t] \in {"announcing", "starting", "scanning", "recording"},
               LaterThan(writes[j + 1], t)
        PROVE  LaterThan(writes[j], t)'
    <3>1. due'[t] = due[t] /\ started[t] \in Nat
      BY <1>3, <1>9, <2>1 DEF Inv, Typed
    <3>2. writes'[j] = writes[j + 1] /\ writes'[j] \in Write
      BY <1>1
    <3>3. writes'[j].id \in Schedule /\ (writes'[j] \in RunWrite => writes'[j].next \in Int)
      BY <3>2, Kinds, Numbers DEF RunWrite
    <3>4. shortest'[writes'[j].id] <= shortest[writes'[j].id]
      BY <3>3 DEF SchedulesStep
    <3>5. ASSUME writes'[j] \in RunWrite, writes'[j].next # Keep, writes'[j].id = Head(due[t]).id
          PROVE  writes'[j].next >= started[t] + shortest'[writes'[j].id]
      <4>1. writes'[j].next >= started[t] + shortest[writes'[j].id]
        BY <2>1, <3>2, <3>5 DEF LaterThan
      <4>2. shortest[writes'[j].id] \in Nat /\ shortest'[writes'[j].id] \in Nat /\ writes'[j].next \in Int
        BY <1>5, <3>3, <3>5
      <4>. QED
        BY <3>1, <3>4, <4>1, <4>2
    <3>. QED
      BY <3>1, <3>5 DEF LaterThan
  <2>2. ASSUME NEW t \in Tick, NEW j \in 1..Len(writes'), at'[t] \in {"starting", "scanning", "recording"}
        PROVE  LaterThan(writes[j + 1], t)
    <3>1. CASE w \in RunWrite /\ w.by = t
      <4>1. 1 <= j + 1
        OBVIOUS
      <4>. QED
        BY <1>1, <3>1, <4>1 DEF Inv, Handled
    <3>2. CASE ~(w \in RunWrite /\ w.by = t)
      BY <1>1, <1>3, <2>2, <3>2 DEF Inv, Handled, WaitersStep
    <3>. QED
      BY <3>1, <3>2
  <2>3. ASSUME NEW t \in Tick, NEW i \in 1..Len(writes'), NEW j \in 1..Len(writes'), i <= j,
               writes'[i] \in RunWrite, writes'[i].by = t
        PROVE  LaterThan(writes[j + 1], t) /\ at'[t] \in {"announcing", "recording"}
    <3>1. i + 1 <= j + 1
      BY <2>3
    <3>2. at'[t] \in {"announcing", "recording"}
      BY <1>8, <2>3 DEF Awaited
    <3>. QED
      BY <1>1, <2>3, <3>1, <3>2 DEF Inv, Handled
  <2>. QED
    BY <2>1, <2>2, <2>3 DEF Handled
<1>13. HandledIsNotDue'
  <2>. SUFFICES ASSUME NEW t \in Tick, at'[t] \in {"starting", "scanning", "recording"},
                       NEW id, id = Head(due'[t]).id, stored'[id].present
                PROVE  stored'[id].next >= started[t] + shortest'[id]
    BY DEF HandledIsNotDue
  <2>1. t \in Run /\ due'[t] = due[t] /\ due[t] # <<>> /\ id = Head(due[t]).id
    BY <1>3, <1>9
  <2>2. id \in Schedule
    <3>1. due[t] \in Seq(Copy)
      BY <2>1 DEF Inv, Typed
    <3>2. Head(due[t]) \in Copy
      BY <2>1, <3>1
    <3>. QED
      BY <2>1, <3>2 DEF Copy
  <2>3. started[t] \in Nat /\ now \in Nat /\ started[t] <= now
    BY <2>1 DEF Inv, Typed, Copied
  <2>4. stored[id].present /\ shortest'[id] <= shortest[id] /\ shortest'[id] <= stored'[id].interval
    BY <2>2 DEF SchedulesStep
  <2>5. CASE stored'[id].next = now + stored'[id].interval
    BY <1>5, <2>2, <2>3, <2>4, <2>5
  <2>6. CASE w \in RunWrite /\ w.next # Keep /\ w.id = id /\ stored'[id].next = w.next
    <3>1. stored'[id].next = w.next
      BY <2>6
    <3>2. LaterThan(w, t)
      <4>1. CASE w.by = t
        <5>1. \A i, j \in 1..Len(writes) : i <= j /\ writes[i] \in RunWrite /\ writes[i].by = t => LaterThan(writes[j], t)
          BY DEF Inv, Handled
        <5>. QED
          BY <1>1, <2>6, <4>1, <5>1
      <4>2. CASE w.by # t
        <5>1. at'[t] = at[t]
          BY <2>1, <4>2 DEF WaitersStep
        <5>2. \A i \in 1..Len(writes) : LaterThan(writes[i], t)
          BY <5>1 DEF Inv, Handled
        <5>. QED
          BY <1>1, <5>2
      <4>. QED
        BY <4>1, <4>2
    <3>3. w.next >= started[t] + shortest[id]
      BY <2>1, <2>6, <3>2 DEF LaterThan
    <3>4. w.next \in Int
      BY <2>6, Numbers DEF RunWrite
    <3>. QED
      BY <1>5, <2>2, <2>3, <2>4, <3>1, <3>3, <3>4
  <2>7. CASE stored'[id].next = stored[id].next /\ ~(w \in RunWrite /\ w.next # Keep /\ w.by = t)
    <3>1. at[t] \in {"starting", "scanning", "recording"}
      <4>1. CASE w \in RunWrite /\ w.by = t
        <5>1. at[t] # "announcing"
          BY <1>1, <1>4, <2>1, <2>7, <4>1 DEF Inv, Awaited
        <5>. QED
          BY <1>4, <4>1, <5>1
      <4>2. CASE ~(w \in RunWrite /\ w.by = t)
        BY <2>1, <4>2 DEF WaitersStep
      <4>. QED
        BY <4>1, <4>2
    <3>2. stored[id].next >= started[t] + shortest[id]
      BY <2>1, <2>4, <3>1 DEF Inv, HandledIsNotDue
    <3>. QED
      BY <1>5, <2>2, <2>3, <2>4, <2>7, <3>2
  <2>8. w \in RunWrite /\ w.next # Keep /\ w.by = t => w.id = id /\ stored'[id].next = w.next
    BY <1>4, <2>1, <2>2 DEF SchedulesStep
  <2>. QED
    BY <2>2, <2>5, <2>6, <2>7, <2>8 DEF SchedulesStep
<1>. DEFINE StillAfter(time, id) == lastScan[id] # Never => time >= lastScan[id] + shortest'[id]
<1>14. ASSUME NEW id \in Schedule, NEW time \in Int, After(time, id) PROVE StillAfter(time, id)
  <2>1. shortest'[id] <= shortest[id] /\ lastScan[id] \in Int
    BY Numbers DEF SchedulesStep, Inv, Typed
  <2>. QED
    BY <1>5, <1>14, <2>1 DEF After
<1>15. ASSUME NEW id \in Schedule PROVE lastScan[id] <= now /\ StillAfter(stored'[id].next, id)
  <2>1. lastScan[id] <= now /\ now \in Nat /\ lastScan[id] \in Int /\ After(stored[id].next, id)
    BY Numbers DEF Inv, Typed, Spaced
  <2>2. CASE stored'[id].next = stored[id].next
    BY <1>5, <1>14, <2>1, <2>2
  <2>3. CASE stored'[id].next = now + stored'[id].interval
    <3>1. shortest'[id] <= stored'[id].interval
      BY DEF SchedulesStep
    <3>. QED
      BY <1>5, <2>1, <2>3, <3>1
  <2>4. CASE w \in RunWrite /\ w.next # Keep /\ w.id = id /\ stored'[id].next = w.next
    <3>1. w.next \in Int
      BY <2>4, Numbers DEF RunWrite
    <3>2. After(w.next, id)
      BY <1>1, <2>4 DEF Inv, Spaced
    <3>. QED
      BY <1>14, <2>1, <2>4, <3>1, <3>2
  <2>. QED
    BY <2>1, <2>2, <2>3, <2>4 DEF SchedulesStep
<1>16. ASSUME NEW i \in 1..Len(writes'), writes'[i] \in RunWrite, writes'[i].next # Keep
       PROVE  StillAfter(writes'[i].next, writes'[i].id)
  <2>1. writes'[i] = writes[i + 1] /\ i + 1 \in 1..Len(writes)
    BY <1>1
  <2>2. After(writes'[i].next, writes'[i].id)
    BY <1>16, <2>1 DEF Inv, Spaced
  <2>3. writes'[i].next \in Int /\ writes'[i].id \in Schedule
    BY <1>16, Numbers DEF RunWrite
  <2>. QED
    BY <1>14, <2>2, <2>3
<1>17. ASSUME NEW t \in Tick, at'[t] \notin {"idle", "reading"}, NEW i \in Left(t)' PROVE StillAfter(started[t], due'[t][i].id)
  <2>1. t \in Run /\ due[t] \in Seq(Copy) /\ started[t] \in Int /\ Len(due[t]) \in Nat
    BY <1>3 DEF Inv, Typed
  <2>2. ASSUME NEW j \in Left(t), at[t] \notin {"idle", "reading"} PROVE StillAfter(started[t], due[t][j].id)
    <3>1. j \in 1..Len(due[t])
      BY <2>1 DEF Left
    <3>2. After(started[t], due[t][j].id)
      BY <2>2 DEF Inv, Spaced
    <3>3. due[t][j].id \in Schedule
      BY <1>10, <2>1, <3>1
    <3>. QED
      BY <1>14, <2>1, <3>2, <3>3
  <2>3. at[t] \notin {"idle", "reading"} /\ (at'[t] = at[t] \/ at[t] \in {"announcing", "recording"})
    BY <1>3, <1>4, <1>17 DEF WaitersStep
  <2>4. CASE due'[t] = due[t] /\ at'[t] = at[t]
    BY <1>17, <2>2, <2>3, <2>4 DEF Left
  <2>5. CASE due'[t] = due[t] /\ at[t] = "announcing"
    <3>1. i \in Left(t)
      BY <1>17, <2>1, <2>5 DEF Left
    <3>. QED
      BY <2>2, <2>3, <2>5, <3>1
  <2>6. CASE due'[t] = Tail(due[t]) /\ at[t] = "recording" /\ at'[t] = "next"
    <3>1. due[t] # <<>>
      BY <2>1, <2>6 DEF Inv, Copied
    <3>2. Len(due'[t]) = Len(due[t]) - 1 /\ i \in 1..Len(due'[t]) /\ \A j \in 1..Len(due'[t]) : due'[t][j] = due[t][j + 1]
      BY <2>1, <2>6, <3>1, Removed DEF Left
    <3>3. i + 1 \in Left(t)
      BY <2>1, <2>6, <3>2 DEF Left
    <3>. QED
      BY <2>2, <2>3, <3>2, <3>3
  <2>. QED
    BY <1>3, <1>17, <2>1, <2>4, <2>5, <2>6 DEF WaitersStep
<1>18. Spaced'
  BY <1>15, <1>16, <1>17 DEF Spaced, After
<1>. QED
  BY <1>6, <1>7, <1>8, <1>11, <1>12, <1>13, <1>18 DEF Inv

\* The store does the first write: what it makes of the schedules.
LEMMA EffectOfWrite ==
    ASSUME Inv, StoreWrites
    PROVE  /\ SchedulesStep(Head(writes))
           /\ \A id \in Schedule : stored'[id].last = "running" /\ stored'[id].present =>
                 \/ stored[id].last = "running" /\ stored[id].present
                    /\ ~(Head(writes) \in RunWrite /\ Head(writes).id = id)
                 \/ Head(writes) \in RunWrite /\ Head(writes).id = id /\ Head(writes).last = "running"
<1>. DEFINE w == Head(writes)
            s == [stored[w.id] EXCEPT !.last = Shown(@)]
            S == [present : BOOLEAN, enabled : BOOLEAN, interval : Intervals, next : Nat, last : Status]
<1>1. w \in Write /\ w.id \in Schedule /\ (w \in RunWrite <=> "change" \notin DOMAIN w) /\ (w \in Change <=> "change" \in DOMAIN w)
  <2>1. w \in Write
    BY Removed DEF StoreWrites, Inv, Typed
  <2>. QED
    BY <2>1, Kinds
<1>2. stored' = Effect(w) /\ shortest' = [id \in Schedule |-> Min({shortest[id], stored'[id].interval})]
  BY DEF StoreWrites
<1>. HIDE DEF w
<1>3. stored \in [Schedule -> S] /\ now \in Nat /\ shortest \in [Schedule -> Intervals]
  BY DEF Inv, Typed
<1>4. /\ s \in S /\ s.present = stored[w.id].present /\ s.next = stored[w.id].next /\ s.interval = stored[w.id].interval
      /\ s.last = "running" => stored[w.id].last = "running"
  BY <1>1, <1>3 DEF Shown, Status
<1>. HIDE DEF s
<1>5. PICK new \in S :
         /\ stored' = IF s.present THEN [stored EXCEPT ![w.id] = new] ELSE stored
         /\ \/ /\ w \in RunWrite /\ new.present = s.present /\ new.interval = s.interval /\ new.last = w.last
               /\ new.next = IF w.next = Keep THEN s.next ELSE w.next
            \/ /\ w \in Change /\ new.last = s.last
               /\ new.next = s.next \/ new.next = now + new.interval
  <2>1. CASE w \in RunWrite
    <3>. DEFINE new == [s EXCEPT !.last = w.last, !.next = IF w.next = Keep THEN @ ELSE w.next]
    <3>1. new \in S
      BY <1>4, <2>1 DEF RunWrite
    <3>2. stored' = IF s.present THEN [stored EXCEPT ![w.id] = new] ELSE stored
      BY <1>1, <1>2, <2>1 DEF Effect, s
    <3>3. new.present = s.present /\ new.interval = s.interval /\ new.last = w.last /\ new.next = IF w.next = Keep THEN s.next ELSE w.next
      BY <1>4
    <3>. QED
      BY <2>1, <3>1, <3>2, <3>3
  <2>2. CASE w \in Change /\ w.change = "patch"
    <3>1. w \in [id : Schedule, change : {"patch"}, enabled : BOOLEAN, interval : Intervals]
      <4>1. w \in [id : Schedule, change : {"delete"}] => w.change = "delete"
        OBVIOUS
      <4>. QED
        BY <2>2, <4>1 DEF Change
    <3>2. w.enabled \in BOOLEAN /\ w.interval \in Intervals /\ w.interval \in Nat
      BY <3>1, Numbers
    <3>3. Patched(s, w) \in S
      <4>. DEFINE next == IF w.interval # s.interval THEN now + w.interval ELSE s.next
      <4>1. next \in Nat
        BY <1>3, <1>4, <3>2
      <4>. HIDE DEF next
      <4>2. [s EXCEPT !.enabled = w.enabled, !.interval = w.interval, !.next = next] \in S
        BY <1>4, <3>2, <4>1
      <4>. QED
        BY <4>2 DEF Patched, next
    <3>4. stored' = IF s.present THEN [stored EXCEPT ![w.id] = Patched(s, w)] ELSE stored
      BY <1>1, <1>2, <2>2 DEF Effect, s
    <3>5. Patched(s, w).last = s.last /\ (Patched(s, w).next = s.next \/ Patched(s, w).next = now + Patched(s, w).interval)
      BY <1>4 DEF Patched
    <3>. QED
      BY <2>2, <3>3, <3>4, <3>5
  <2>3. CASE w \in Change /\ w.change # "patch"
    <3>1. stored' = IF s.present THEN [stored EXCEPT ![w.id] = [s EXCEPT !.present = FALSE]] ELSE stored
      BY <1>1, <1>2, <2>3 DEF Effect, s
    <3>2. [s EXCEPT !.present = FALSE] \in S /\ [s EXCEPT !.present = FALSE].last = s.last /\ [s EXCEPT !.present = FALSE].next = s.next
      BY <1>4
    <3>. QED
      BY <2>3, <3>1, <3>2
  <2>. QED
    BY <1>1, <2>1, <2>2, <2>3 DEF Write
<1>6. \A id \in Schedule : stored'[id] = IF id = w.id /\ stored[id].present THEN new ELSE stored[id]
  BY <1>1, <1>3, <1>4, <1>5
<1>7. stored' \in [Schedule -> S]
  BY <1>1, <1>3, <1>5
<1>8. \A id \in Schedule : /\ shortest'[id] \in {shortest[id], stored'[id].interval}
                           /\ shortest'[id] <= shortest[id] /\ shortest'[id] <= stored'[id].interval
  BY <1>2, <1>3, <1>7, Numbers, LessOf
<1>9. shortest' \in [Schedule -> Intervals]
  <2>1. \A id \in Schedule : shortest[id] \in Intervals /\ stored'[id].interval \in Intervals
    BY <1>3, <1>7
  <2>2. \A id \in Schedule : shortest'[id] \in Intervals
    BY <1>8, <2>1
  <2>. QED
    BY <1>2, <2>2
<1>10. \A id \in Schedule :
          /\ stored'[id].present => stored[id].present
          /\ \/ stored'[id].next \in {stored[id].next, now + stored'[id].interval}
             \/ w \in RunWrite /\ w.next # Keep /\ w.id = id /\ stored'[id].next = w.next
          /\ w \in RunWrite /\ w.next # Keep /\ w.id = id /\ stored'[id].present => stored'[id].next = w.next
  <2>. TAKE id \in Schedule
  <2>1. CASE id = w.id /\ stored[id].present
    <3>1. stored'[id] = new
      BY <1>6, <2>1
    <3>2. CASE w \in RunWrite
      <4>1. new.next = IF w.next = Keep THEN s.next ELSE w.next
        BY <1>1, <1>5, <3>2
      <4>. QED
        BY <1>4, <2>1, <3>1, <3>2, <4>1
    <3>3. CASE w \notin RunWrite
      <4>1. new.next = s.next \/ new.next = now + new.interval
        BY <1>5, <3>3
      <4>. QED
        BY <1>4, <2>1, <3>1, <3>3, <4>1
    <3>. QED
      BY <3>2, <3>3
  <2>2. CASE ~(id = w.id /\ stored[id].present)
    BY <1>6, <2>2
  <2>. QED
    BY <2>1, <2>2
<1>11. SchedulesStep(w)
  BY <1>7, <1>8, <1>9, <1>10 DEF SchedulesStep
<1>12. w \in RunWrite => w \notin Change
  BY <1>1
<1>13. \A id \in Schedule : stored'[id].last = "running" /\ stored'[id].present =>
           \/ stored[id].last = "running" /\ stored[id].present /\ ~(w \in RunWrite /\ w.id = id)
           \/ w \in RunWrite /\ w.id = id /\ w.last = "running"
  BY <1>4, <1>5, <1>6, <1>10, <1>12
<1>. QED
  BY <1>11, <1>13 DEF w

\* ... and of the run that waited for it.
LEMMA WaiterOfWrite ==
    ASSUME Inv, StoreWrites
    PROVE  /\ WaitersStep(Head(writes)) /\ result' \in [Run -> {"none", "completed", "failed", "cancelled"}]
           /\ Head(writes) \in RunWrite /\ at[Head(writes).by] = "announcing"
                 => at'[Head(writes).by] \in {"starting", "scanning"}
<1>. DEFINE w == Head(writes)
<1>1. writes # <<>> /\ w \in Write /\ w = writes[1] /\ 1 \in 1..Len(writes) /\ (w \in RunWrite <=> "change" \notin DOMAIN w)
  <2>1. w \in Write /\ w = writes[1] /\ 1 \in 1..Len(writes)
    BY Removed DEF StoreWrites, Inv, Typed
  <2>. QED
    BY <2>1, Kinds DEF StoreWrites
<1>2. at \in [Run -> {"idle", "reading", "next", "announcing", "starting", "scanning", "recording"}] /\ due \in [Run -> Seq(Copy)]
      /\ result \in [Run -> {"none", "completed", "failed", "cancelled"}]
  BY DEF Inv, Typed
<1>3. CASE w \notin RunWrite
  <2>1. UNCHANGED <<at, due, result>>
    BY <1>1, <1>3 DEF StoreWrites
  <2>. QED
    BY <1>2, <1>3, <2>1 DEF WaitersStep
<1>4. CASE w \in RunWrite
  <2>1. Resume(w.by, Len(writes) - 1)
    BY <1>1, <1>4 DEF StoreWrites
  <2>2. w.by \in Run /\ at[w.by] \in {"announcing", "recording"} /\ due[w.by] # <<>>
    BY <1>1, <1>4 DEF RunWrite, Inv, Awaited, Copied
  <2>. HIDE DEF w
  <2>3. CASE at[w.by] = "announcing"
    <3>1. at' = [at EXCEPT ![w.by] = IF w.by \in Tick THEN "starting" ELSE "scanning"] /\ UNCHANGED <<due, result>>
      BY <2>1, <2>3 DEF Resume, Goto
    <3>. QED
      BY <1>2, <1>4, <2>2, <2>3, <3>1 DEF WaitersStep, w
  <2>4. CASE at[w.by] = "recording"
    <3>1. /\ at' = [at EXCEPT ![w.by] = IF w.by \in Tick THEN "next" ELSE "idle"]
          /\ due' = [due EXCEPT ![w.by] = Tail(@)] /\ result' = [result EXCEPT ![w.by] = "none"]
      BY <2>1, <2>4 DEF Resume, Goto
    <3>2. Tail(due[w.by]) \in Seq(Copy)
      BY <1>2, <2>2
    <3>. QED
      BY <1>2, <1>4, <2>2, <2>4, <3>1, <3>2 DEF WaitersStep, w
  <2>. QED
    BY <2>2, <2>3, <2>4
<1>. QED
  BY <1>3, <1>4

\* The store does the first write, and its caller goes on.
LEMMA StoreWritesStep == ASSUME Inv, StoreWrites PROVE Inv'
<1>1. writes # <<>> /\ writes' = Tail(writes) /\ UNCHANGED <<now, running, started, lastScan, patching>>
  BY DEF StoreWrites
<1>. QED
  BY <1>1, EffectOfWrite, WaiterOfWrite, LeavesStep

\* A tick could not record its run as completed, and queues another write.
LEMMA RetryStep ==
    ASSUME Inv, writes # <<>>, NEW w \in RunWrite, w = Head(writes), at[w.by] = "recording",
           writes' = Append(Tail(writes), [w EXCEPT !.last = "failed"]),
           UNCHANGED <<now, stored, at, due, shortest, started, lastScan, result, running, patching>>
    PROVE  Inv'
<1>. DEFINE v == [w EXCEPT !.last = "failed"]
            n == Len(writes)
<1>1. v \in RunWrite /\ v.by = w.by /\ v.id = w.id /\ v.next = w.next /\ v.last = "failed"
  BY DEF RunWrite, Status
<1>. HIDE DEF v
<1>2. writes' = Append(Tail(writes), v)
  BY DEF v
<1>3. /\ writes' \in Seq(Write) /\ n \in Nat /\ Len(writes') = n /\ writes[1] = w /\ 1 \in 1..n
      /\ writes'[n] = v
      /\ \A i \in 1..n : i # n => i + 1 \in 1..n /\ i + 1 # 1 /\ writes'[i] = writes[i + 1]
  <2>1. writes \in Seq(Write) /\ v \in Write
    BY <1>1 DEF Inv, Typed, Write
  <2>2. /\ Tail(writes) \in Seq(Write) /\ w = writes[1] /\ 1 \in 1..n /\ n \in Nat /\ Len(Tail(writes)) = n - 1
        /\ \A i \in 1..Len(Tail(writes)) : i + 1 \in 1..n /\ Tail(writes)[i] = writes[i + 1]
    BY <2>1, Removed
  <2>3. /\ writes' \in Seq(Write) /\ Len(writes') = Len(Tail(writes)) + 1 /\ writes'[Len(Tail(writes)) + 1] = v
        /\ \A i \in 1..Len(Tail(writes)) : writes'[i] = Tail(writes)[i]
    BY <1>2, <2>1, <2>2, Appended
  <2>. HIDE DEF n
  <2>4. Len(Tail(writes)) + 1 = n /\ \A i \in 1..n : i # n => i \in 1..Len(Tail(writes)) /\ i + 1 # 1
    BY <2>2
  <2>5. \A i \in 1..n : i # n => i + 1 \in 1..n /\ i + 1 # 1 /\ writes'[i] = writes[i + 1]
    BY <2>2, <2>3, <2>4
  <2>6. Len(writes') = n /\ writes'[n] = v
    BY <2>3, <2>4
  <2>. QED
    BY <2>2, <2>3, <2>5, <2>6
<1>4. v.next = Keep /\ v.id = Head(due[v.by]).id /\ at[v.by] = "recording"
  <2>1. writes[1] \in RunWrite /\ 1 \in 1..Len(writes)
    BY <1>3
  <2>2. w.next = Keep /\ w.id = Head(due[w.by]).id
    BY <1>3, <2>1 DEF Inv, Awaited
  <2>. QED
    BY <1>1, <2>2
<1>5. Typed'
  BY <1>3 DEF Inv, Typed
<1>6. OneTick' /\ Copied' /\ HandledIsNotDue'
  BY DEF Inv, OneTick, Copied, HandledIsNotDue
<1>. HIDE DEF n
<1>7. Awaited'
  <2>. DEFINE ok(x) == /\ at[x.by] \in {"announcing", "recording"} /\ x.id = Head(due[x.by]).id
                       /\ at[x.by] = "announcing" => x.next # Keep
                       /\ at[x.by] = "recording" => x.next = Keep /\ x.last # "running"
  <2>0. /\ \A i \in 1..n : writes[i] \in RunWrite => ok(writes[i])
        /\ \A i, j \in 1..n : writes[i] \in RunWrite /\ writes[j] \in RunWrite /\ writes[i].by = writes[j].by => i = j
    BY DEF n, Inv, Awaited
  <2>1. ASSUME NEW i \in 1..n, writes'[i] \in RunWrite PROVE ok(writes'[i])
    <3>1. CASE i = n
      BY <1>1, <1>3, <1>4, <3>1
    <3>2. CASE i # n
      <4>. HIDE DEF ok
      <4>. QED
        BY <1>3, <2>0, <2>1, <3>2
    <3>. QED
      BY <3>1, <3>2
  <2>2. ASSUME NEW i \in 1..n, NEW j \in 1..n,
               writes'[i] \in RunWrite, writes'[j] \in RunWrite, writes'[i].by = writes'[j].by
        PROVE  i = j
    <3>1. ASSUME NEW k \in 1..n, k # n, writes'[k] \in RunWrite PROVE writes'[k].by # v.by
      <4>1. k + 1 \in 1..n /\ k + 1 # 1 /\ writes'[k] = writes[k + 1]
        BY <1>3, <3>1
      <4>. QED
        BY <1>1, <1>3, <2>0, <3>1, <4>1
    <3>2. CASE i # n /\ j # n
      <4>1. i + 1 \in 1..n /\ writes'[i] = writes[i + 1] /\ j + 1 \in 1..n /\ writes'[j] = writes[j + 1]
        BY <1>3, <3>2
      <4>2. i + 1 = j + 1
        BY <2>0, <2>2, <4>1
      <4>. QED
        BY <1>3, <4>2
    <3>. QED
      BY <1>3, <2>2, <3>1, <3>2
  <2>. QED
    BY <1>3, <2>1, <2>2 DEF Awaited
<1>8. Handled'
  <2>1. ASSUME NEW t \in Tick, NEW j \in 1..n
        PROVE  /\ at[t] \in {"starting", "scanning", "recording"} => LaterThan(writes'[j], t)
               /\ \A i \in 1..n : i <= j /\ writes'[i] \in RunWrite /\ writes'[i].by = t => LaterThan(writes'[j], t)
    <3>1. CASE j = n
      BY <1>3, <1>4, <3>1 DEF LaterThan
    <3>2. CASE j # n
      <4>1. j + 1 \in 1..n /\ writes'[j] = writes[j + 1]
        BY <1>3, <3>2
      <4>2. ASSUME NEW i \in 1..n, i <= j PROVE i + 1 \in 1..n /\ i + 1 <= j + 1 /\ writes'[i] = writes[i + 1]
        <5>1. i # n
          BY <1>3, <3>2, <4>2
        <5>. QED
          BY <1>3, <4>2, <5>1
      <4>. QED
        BY <4>1, <4>2 DEF n, Inv, Handled
    <3>. QED
      BY <3>1, <3>2
  <2>2. \A t \in Tick, j \in 1..n : LaterThan(writes'[j], t) <=> LaterThan(writes[j], t)'
    BY DEF LaterThan
  <2>. QED
    BY <1>3, <2>1, <2>2 DEF Handled
<1>9. Spaced'
  <2>1. \A i \in 1..n : writes[i] \in RunWrite /\ writes[i].next # Keep => After(writes[i].next, writes[i].id)
    BY DEF n, Inv, Spaced
  <2>2. \A i \in 1..n : writes'[i] \in RunWrite /\ writes'[i].next # Keep => After(writes'[i].next, writes'[i].id)
    <3>. HIDE DEF After
    <3>. QED
      BY <1>3, <1>4, <2>1
  <2>. QED
    BY <1>3, <2>2 DEF Inv, Spaced, After, Left
<1>. QED
  BY <1>5, <1>6, <1>7, <1>8, <1>9 DEF Inv

\* A write fails: the manual run that waited for it ends, and a tick tries again.
LEMMA StoreFailsStep == ASSUME Inv, StoreFails PROVE Inv'
<1>. DEFINE w == Head(writes)
<1>1. /\ writes # <<>> /\ w \in Write /\ (w \in RunWrite <=> "change" \notin DOMAIN w)
      /\ UNCHANGED <<now, running, stored, shortest, started, lastScan, patching, result>>
  <2>1. w \in Write
    BY Removed DEF StoreFails, Inv, Typed
  <2>. QED
    BY <2>1, Kinds DEF StoreFails
<1>2. \/ w \notin RunWrite /\ writes' = Tail(writes) /\ UNCHANGED <<at, due>>
      \/ /\ w \in RunWrite /\ w.by \in ManualRun /\ writes' = Tail(writes)
         /\ at' = [at EXCEPT ![w.by] = "idle"] /\ due' = [due EXCEPT ![w.by] = <<>>]
      \/ /\ w \in RunWrite /\ at[w.by] = "recording" /\ UNCHANGED <<at, due>>
         /\ writes' = Append(Tail(writes), [w EXCEPT !.last = "failed"])
  BY <1>1 DEF StoreFails, RecordsAsFailed, Goto
<1>. HIDE DEF w
<1>3. CASE writes' = Tail(writes) /\ (w \in RunWrite => /\ w.by \in ManualRun /\ at' = [at EXCEPT ![w.by] = "idle"]
                                                       /\ due' = [due EXCEPT ![w.by] = <<>>])
                                /\ (w \notin RunWrite => UNCHANGED <<at, due>>)
  <2>1. WaitersStep(w)
    <3>1. at \in [Run -> {"idle", "reading", "next", "announcing", "starting", "scanning", "recording"}] /\ due \in [Run -> Seq(Copy)]
      BY DEF Inv, Typed
    <3>2. CASE w \notin RunWrite
      BY <1>3, <3>1, <3>2 DEF WaitersStep
    <3>3. CASE w \in RunWrite
      <4>1. w.by \in Run /\ <<>> \in Seq(Copy)
        BY <3>3 DEF RunWrite
      <4>2. /\ at' \in [Run -> {"idle", "reading", "next", "announcing", "starting", "scanning", "recording"}] /\ at'[w.by] = "idle"
            /\ due' \in [Run -> Seq(Copy)] /\ due'[w.by] = <<>>
            /\ \A x \in Run : x # w.by => at'[x] = at[x] /\ due'[x] = due[x]
        BY <1>3, <3>1, <3>3, <4>1
      <4>. QED
        BY <1>3, <3>3, <4>2 DEF WaitersStep
    <3>. QED
      BY <3>2, <3>3
  <2>2. SchedulesStep(w)
    <3>1. w \in RunWrite => w.by \notin Tick
      BY <1>3, SchedulerAssumption DEF Tick
    <3>2. \A id \in Schedule : shortest[id] <= stored[id].interval /\ shortest[id] <= shortest[id]
      <4>1. \A id \in Schedule : shortest[id] \in Nat
        BY Numbers DEF Inv, Typed
      <4>. QED
        BY <4>1 DEF Inv, Copied
    <3>. QED
      BY <1>1, <3>1, <3>2 DEF SchedulesStep, Inv, Typed
  <2>. QED
    BY <1>1, <1>3, <2>1, <2>2, LeavesStep DEF w, Inv, Typed
<1>4. CASE /\ w \in RunWrite /\ at[w.by] = "recording" /\ UNCHANGED <<at, due>>
           /\ writes' = Append(Tail(writes), [w EXCEPT !.last = "failed"])
  BY <1>1, <1>4, RetryStep DEF w
<1>. QED
  BY <1>2, <1>3, <1>4
-----------------------------------------------------------------------------
\* What a run has to do are copies of schedules.
LEMMA DueCopies ==
    ASSUME Inv, NEW r \in Run
    PROVE  /\ due \in [Run -> Seq(Copy)] /\ Len(due[r]) \in Nat
           /\ \A i \in 1..Len(due[r]) : /\ due[r][i] \in Copy /\ due[r][i].id \in Schedule
                                        /\ due[r][i].interval \in Intervals
           /\ due[r] # <<>> => /\ 1 \in 1..Len(due[r]) /\ Head(due[r]) = due[r][1]
                               /\ Head(due[r]).id \in Schedule /\ Head(due[r]).interval \in Intervals
<1>1. due \in [Run -> Seq(Copy)] /\ due[r] \in Seq(Copy)
  BY DEF Inv, Typed
<1>2. Len(due[r]) \in Nat /\ \A i \in 1..Len(due[r]) : due[r][i] \in Copy
  BY <1>1
<1>3. due[r] # <<>> => 1 \in 1..Len(due[r]) /\ Head(due[r]) = due[r][1]
  BY <1>1
<1>4. \A c \in Copy : c.id \in Schedule /\ c.interval \in Intervals
  BY DEF Copy
<1>. QED
  BY <1>1, <1>2, <1>3, <1>4

\* A run goes on that waits for no write, and the queue and the database stay.
LEMMA MovesStep ==
    ASSUME Inv, NEW t \in Tick, NEW p \in {"idle", "reading", "next", "scanning"}, at' = [at EXCEPT ![t] = p],
           at[t] \notin {"announcing", "recording"}, UNCHANGED <<now, stored, writes, shortest, result, patching>>,
           due' \in [Run -> Seq(Copy)], \A x \in Run : x # t => due'[x] = due[x] /\ started'[x] = started[x],
           started' \in [Run -> Nat], started'[t] <= now, lastScan' \in [Schedule -> {Never} \cup Nat],
           p # "idle" => running' /\ \A u \in Tick : at[u] # "idle" => u = t,
           \A u \in Tick : u # t => at[u] = "idle" \/ running',
           p = "scanning" => at[t] = "starting" /\ UNCHANGED <<due, started>>,
           \A i \in 1..Len(due'[t]) : shortest[due'[t][i].id] <= due'[t][i].interval,
           \A i, j \in 1..Len(due'[t]) : due'[t][i].id = due'[t][j].id => i = j,
           Spaced'
    PROVE  Inv'
<1>1. \A x \in Run : at'[x] = IF x = t THEN p ELSE at[x]
  BY DEF Inv, Typed
<1>2. t \in Run /\ Tick \subseteq Run
  BY DEF Run
<1>3. \A i \in 1..Len(writes) : writes[i] \in RunWrite => writes[i].by # t /\ writes[i].by \in Run
  BY <1>2, NothingQueued DEF RunWrite
<1>4. Typed'
  <2>1. at' \in [Run -> {"idle", "reading", "next", "announcing", "starting", "scanning", "recording"}]
    BY DEF Inv, Typed
  <2>. QED
    BY <2>1 DEF Inv, Typed
<1>5. OneTick'
  BY <1>1, <1>2 DEF Inv, OneTick
<1>6. Awaited'
  BY <1>1, <1>3 DEF Inv, Awaited
<1>7. Copied'
  <2>1. ASSUME NEW x \in Run
        PROVE  /\ at'[x] \in {"announcing", "starting", "scanning", "recording"} => due'[x] # <<>>
               /\ started'[x] <= now
               /\ \A i \in 1..Len(due'[x]) : shortest[due'[x][i].id] <= due'[x][i].interval
               /\ \A i, j \in 1..Len(due'[x]) : due'[x][i].id = due'[x][j].id => i = j
    <3>1. CASE x = t
      BY <1>1, <1>2, <3>1 DEF Inv, Copied
    <3>2. CASE x # t
      BY <1>1, <3>2 DEF Inv, Copied
    <3>. QED
      BY <3>1, <3>2
  <2>. QED
    BY <2>1 DEF Inv, Copied
<1>8. \A u \in Tick : at'[u] \in {"announcing", "starting", "scanning", "recording"} =>
          due'[u] = due[u] /\ started'[u] = started[u] /\ at[u] \in {"announcing", "starting", "scanning", "recording"}
          /\ (at'[u] # "announcing" => at[u] # "announcing")
  BY <1>1, <1>2
<1>9. Handled'
  <2>1. \A u \in Tick, i \in 1..Len(writes) : writes[i] \in RunWrite /\ writes[i].by = u => at'[u] \in {"announcing", "recording"}
    BY <1>6 DEF Awaited
  <2>2. \A u \in Tick, j \in 1..Len(writes) :
            at'[u] \in {"announcing", "starting", "scanning", "recording"} /\ LaterThan(writes[j], u) => LaterThan(writes[j], u)'
    BY <1>8 DEF LaterThan
  <2>. QED
    BY <1>8, <2>1, <2>2 DEF Inv, Handled
<1>10. HandledIsNotDue'
  <2>1. \A u \in Tick : at'[u] \in {"starting", "scanning", "recording"} => at[u] \in {"starting", "scanning", "recording"}
    BY <1>1, <1>2
  <2>. QED
    BY <1>8, <2>1 DEF Inv, HandledIsNotDue
<1>. QED
  BY <1>4, <1>5, <1>6, <1>7, <1>9, <1>10 DEF Inv

\* A tick reads the schedules that are due.
LEMMA ReadsStep == ASSUME Inv, NEW t \in Tick, TickReads(t) PROVE Inv'
<1>. DEFINE ready == {id \in Schedule : stored[id].present /\ stored[id].enabled /\ stored[id].next <= now}
<1>1. PICK ids \in SetToSeqs(ready) : due' = [due EXCEPT ![t] = [i \in 1..Len(ids) |-> CopyOf(ids[i])]]
  BY DEF TickReads
<1>2. /\ at[t] = "reading" /\ at' = [at EXCEPT ![t] = "next"] /\ started' = [started EXCEPT ![t] = now]
      /\ UNCHANGED <<now, stored, writes, running, result, lastScan, patching, shortest>>
  BY DEF TickReads, Goto, edits
<1>3. t \in Run /\ running' /\ \A u \in Tick : at[u] # "idle" => u = t
  BY <1>2 DEF Run, Inv, OneTick
<1>4. Len(ids) \in Nat /\ (\A i \in 1..Len(ids) : ids[i] \in ready) /\ \A i, j \in 1..Len(ids) : ids[i] = ids[j] => i = j
  <2>1. IsFiniteSet(ready)
    BY SchedulerAssumption, FS_Subset
  <2>2. Cardinality(ready) \in Nat
    BY <2>1, FS_CardinalityType
  <2>3. ids \in [1..Cardinality(ready) -> ready] /\ \A i, j \in 1..Cardinality(ready) : i # j => ids[i] # ids[j]
    BY DEF SetToSeqs
  <2>4. Len(ids) = Cardinality(ready)
    BY <2>2, <2>3
  <2>. QED
    BY <2>2, <2>3, <2>4
<1>5. /\ due'[t] = [i \in 1..Len(ids) |-> CopyOf(ids[i])] /\ \A x \in Run : x # t => due'[x] = due[x]
      /\ due' \in [Run -> Seq(Copy)]
  <2>1. due \in [Run -> Seq(Copy)]
    BY DEF Inv, Typed
  <2>2. \A i \in 1..Len(ids) : CopyOf(ids[i]) \in Copy
    BY <1>4 DEF CopyOf, Copy, Inv, Typed
  <2>3. [i \in 1..Len(ids) |-> CopyOf(ids[i])] \in Seq(Copy)
    BY <1>4, <2>2
  <2>. QED
    BY <1>1, <1>3, <2>1, <2>3
<1>6. Len(due'[t]) = Len(ids) /\ \A i \in 1..Len(ids) : due'[t][i].id = ids[i] /\ due'[t][i].interval = stored[ids[i]].interval
  BY <1>4, <1>5 DEF CopyOf
<1>7. \A i \in 1..Len(ids) : ids[i] \in Schedule /\ stored[ids[i]].next <= now
  BY <1>4
<1>. HIDE DEF ready
<1>8. \A i \in 1..Len(due'[t]) : shortest[due'[t][i].id] <= due'[t][i].interval
  BY <1>6, <1>7 DEF Inv, Copied
<1>9. \A i, j \in 1..Len(due'[t]) : due'[t][i].id = due'[t][j].id => i = j
  BY <1>4, <1>6
<1>10. started' \in [Run -> Nat] /\ started'[t] = now /\ now \in Nat /\ \A x \in Run : x # t => started'[x] = started[x]
  BY <1>2, <1>3 DEF Inv, Typed
<1>11. Spaced'
  <2>1. ASSUME NEW u \in Tick, at'[u] \notin {"idle", "reading"}, NEW i \in Left(u)' PROVE After(started[u], due[u][i].id)'
    <3>1. u = t
      BY <1>2, <1>3, <2>1 DEF Inv, Typed, Run
    <3>2. i \in 1..Len(ids)
      BY <1>2, <1>3, <1>6, <2>1, <3>1 DEF Left, Inv, Typed
    <3>3. After(stored[ids[i]].next, ids[i]) /\ lastScan[ids[i]] \in Int /\ shortest[ids[i]] \in Int /\ stored[ids[i]].next \in Int
      <4>1. ids[i] \in Schedule
        BY <1>7, <3>2
      <4>2. After(stored[ids[i]].next, ids[i])
        BY <4>1 DEF Inv, Spaced
      <4>. QED
        BY <4>1, <4>2, States
    <3>4. due'[t][i].id = ids[i] /\ stored[ids[i]].next <= now /\ now \in Nat /\ started'[t] = now
      BY <1>6, <1>7, <1>10, <3>2
    <3>5. lastScan[ids[i]] # Never => now >= lastScan[ids[i]] + shortest[ids[i]]
      BY <3>3, <3>4 DEF After
    <3>. QED
      BY <1>2, <3>1, <3>4, <3>5 DEF After
  <2>. QED
    BY <1>2, <2>1 DEF Inv, Spaced, After
<1>12. lastScan' \in [Schedule -> {Never} \cup Nat] /\ started'[t] <= now /\ at[t] \notin {"announcing", "recording"}
  BY <1>2, <1>10 DEF Inv, Typed
<1>. QED
  BY <1>2, <1>3, <1>5, <1>8, <1>9, <1>10, <1>11, <1>12, MovesStep

\* A tick starts, ends, or starts a scan.
LEMMA TickStep == ASSUME Inv, NEW t \in Tick, TickStarts(t) \/ TickEnds(t) \/ ScanStarts(t) PROVE Inv'
<1>1. t \in Run /\ \A x \in Tick : x \in Run
  BY DEF Run
<1>2. /\ \A i \in 1..Len(due[t]) : shortest[due[t][i].id] <= due[t][i].interval
      /\ \A i, j \in 1..Len(due[t]) : due[t][i].id = due[t][j].id => i = j
  BY <1>1 DEF Inv, Copied
<1>3. CASE TickStarts(t)
  <2>1. /\ at[t] = "idle" /\ ~running /\ at' = [at EXCEPT ![t] = "reading"]
        /\ UNCHANGED <<now, stored, writes, due, started, result, lastScan, patching, shortest>>
    BY <1>3 DEF TickStarts, Free, CallRead, Goto, edits
  <2>2. running'
    BY <1>3 DEF TickStarts
  <2>3. \A u \in Tick : at[u] = "idle"
    BY <2>1 DEF Inv, OneTick
  <2>4. Spaced'
    BY <1>1, <2>1, <2>3 DEF Inv, Typed, Spaced, After, Left
  <2>. QED
    BY <1>1, <1>2, <2>1, <2>2, <2>3, <2>4, MovesStep DEF Inv, Typed, Copied
<1>4. CASE TickEnds(t)
  <2>1. /\ at[t] = "next" /\ at' = [at EXCEPT ![t] = "idle"] /\ started' = [started EXCEPT ![t] = 0]
        /\ UNCHANGED <<now, stored, writes, due, result, lastScan, patching, shortest>>
    BY <1>4 DEF TickEnds, Goto, edits
  <2>2. \A u \in Tick : u # t => at[u] = "idle"
    BY <2>1 DEF Inv, OneTick
  <2>3. Spaced'
    BY <1>1, <2>1, <2>2 DEF Inv, Typed, Spaced, After, Left
  <2>4. started' \in [Run -> Nat] /\ started'[t] <= now /\ \A x \in Run : x # t => started'[x] = started[x]
    BY <1>1, <2>1 DEF Inv, Typed
  <2>5. /\ lastScan' \in [Schedule -> {Never} \cup Nat] /\ due' \in [Run -> Seq(Copy)] /\ due' = due
        /\ at[t] \notin {"announcing", "recording"} /\ \A u \in Tick : u # t => at[u] = "idle" \/ running'
    BY <2>1, <2>2 DEF Inv, Typed
  <2>6. \A x \in Run : x # t => due'[x] = due[x] /\ started'[x] = started[x]
    BY <2>4, <2>5
  <2>7. /\ \A i \in 1..Len(due'[t]) : shortest[due'[t][i].id] <= due'[t][i].interval
        /\ \A i, j \in 1..Len(due'[t]) : due'[t][i].id = due'[t][j].id => i = j
    BY <1>2, <2>5
  <2>. DEFINE p == "idle"
  <2>8. p \in {"idle", "reading", "next", "scanning"} /\ p = "idle" /\ at' = [at EXCEPT ![t] = p]
    BY <2>1
  <2>. HIDE DEF p
  <2>. QED
    BY <1>1, <2>1, <2>3, <2>4, <2>5, <2>6, <2>7, <2>8, MovesStep
<1>5. CASE ScanStarts(t)
  <2>. DEFINE id == Head(due[t]).id
  <2>1. /\ at[t] = "starting" /\ at' = [at EXCEPT ![t] = "scanning"] /\ lastScan' = [lastScan EXCEPT ![id] = started[t]]
        /\ stored[id].present
        /\ UNCHANGED <<now, stored, writes, due, started, result, patching, shortest>>
    BY <1>5 DEF ScanStarts, Runnable, Goto, edits
  <2>2. (\A u \in Tick : at[u] # "idle" => u = t) /\ running
    BY <2>1 DEF Inv, OneTick
  <2>3. running'
    BY <1>5, <2>2 DEF ScanStarts
  <2>4. due[t] # <<>> /\ Len(due[t]) \in Nat /\ due[t][1].id = id /\ 1 \in 1..Len(due[t])
    BY <1>1, <2>1, DueCopies DEF Inv, Copied
  <2>5. id \in Schedule
    BY <1>1, <2>4, DueCopies
  <2>. HIDE DEF id
  <2>6. /\ started[t] \in Nat /\ now \in Nat /\ started[t] <= now /\ lastScan' \in [Schedule -> {Never} \cup Nat]
        /\ \A x \in Schedule : lastScan'[x] = IF x = id THEN started[t] ELSE lastScan[x]
    BY <1>1, <2>1, <2>5 DEF Inv, Typed, Copied
  <2>7. Spaced'
    <3>1. ASSUME NEW x \in Schedule PROVE lastScan'[x] <= now /\ After(stored[x].next, x)'
      <4>1. CASE x = id
        <5>1. stored[x].next >= started[t] + shortest[x]
          BY <2>1, <4>1 DEF Inv, HandledIsNotDue, id
        <5>. QED
          BY <2>1, <2>5, <2>6, <4>1, <5>1 DEF After
      <4>2. CASE x # id
        BY <2>1, <2>6, <4>2 DEF After, Inv, Spaced
      <4>. QED
        BY <4>1, <4>2
    <3>2. ASSUME NEW i \in 1..Len(writes), writes[i] \in RunWrite, writes[i].next # Keep
          PROVE  After(writes[i].next, writes[i].id)'
      <4>1. writes[i].id \in Schedule
        BY <3>2 DEF RunWrite
      <4>2. CASE writes[i].id = id
        <5>1. LaterThan(writes[i], t)
          BY <2>1 DEF Inv, Handled
        <5>2. writes[i].next >= started[t] + shortest[id]
          BY <3>2, <4>2, <5>1 DEF LaterThan, id
        <5>. QED
          BY <2>1, <2>5, <2>6, <4>2, <5>2 DEF After
      <4>3. CASE writes[i].id # id
        BY <2>1, <2>6, <3>2, <4>1, <4>3 DEF After, Inv, Spaced
      <4>. QED
        BY <4>2, <4>3
    <3>3. ASSUME NEW u \in Tick, at'[u] \notin {"idle", "reading"}, NEW i \in Left(u)' PROVE After(started[u], due[u][i].id)'
      <4>1. u = t
        BY <1>1, <2>1, <2>2, <3>3 DEF Inv, Typed
      <4>2. i \in 2..Len(due[t])
        BY <1>1, <2>1, <3>3, <4>1 DEF Left, Inv, Typed
      <4>3. i \in 1..Len(due[t]) /\ i # 1 /\ i \in Left(t)
        BY <2>1, <2>4, <4>2 DEF Left
      <4>4. due[t][i].id # id
        BY <1>2, <2>4, <4>3
      <4>5. due[t][i].id \in Schedule
        BY <1>1, <4>3, DueCopies
      <4>6. After(started[t], due[t][i].id)
        BY <2>1, <4>3 DEF Inv, Spaced
      <4>. QED
        BY <2>1, <2>6, <4>1, <4>4, <4>5, <4>6 DEF After
    <3>. QED
      BY <2>1, <3>1, <3>2, <3>3 DEF Spaced
  <2>. QED
    BY <1>1, <1>2, <2>1, <2>2, <2>3, <2>6, <2>7, MovesStep DEF Inv, Typed
<1>. QED
  BY <1>3, <1>4, <1>5

\* A tick or a manual run queues a write.
LEMMA RunQueues ==
    ASSUME Inv, NEW r \in Run,
           \/ r \in Tick /\ (Announce(r) \/ ScanRefused(r) \/ TickRecords(r))
           \/ r \in ManualRun /\ (ManualRecords(r) \/ \E id \in Schedule : ManualStarts(r, id))
    PROVE  Inv'
<1>1. Tick \subseteq Run /\ (\A t \in Tick : t \notin ManualRun) /\ \A t \in Run : t \notin Tick => t \in ManualRun
  BY SchedulerAssumption DEF Run, Tick
<1>2. /\ at \in [Run -> {"idle", "reading", "next", "announcing", "starting", "scanning", "recording"}]
      /\ now \in Nat /\ started[r] \in Nat /\ started[r] <= now /\ result[r] \in {"none", "completed", "failed", "cancelled"}
  BY DEF Inv, Typed, Copied
<1>3. r \in Tick /\ at[r] # "idle" => \A t \in Tick : at[t] # "idle" => t = r
  BY DEF Inv, OneTick
<1>4. CASE r \in Tick /\ Announce(r)
  <2>. DEFINE c == Head(due[r])
              w == [by |-> r, id |-> c.id, next |-> started[r] + c.interval, last |-> "running"]
  <2>1. /\ at[r] = "next" /\ due[r] # <<>> /\ writes' = Append(writes, w) /\ at' = [at EXCEPT ![r] = "announcing"]
        /\ UNCHANGED <<now, stored, due, shortest, started, lastScan, result, patching, running>>
    BY <1>4 DEF Announce, Update, Goto, edits
  <2>2. c.id \in Schedule /\ c.interval \in Intervals /\ c.interval \in Nat /\ c = due[r][1] /\ 1 \in 1..Len(due[r])
    BY <2>1, DueCopies, Numbers
  <2>3. shortest[c.id] <= c.interval /\ After(started[r], c.id) /\ shortest[c.id] \in Nat /\ lastScan[c.id] \in Int
    <3>1. shortest[c.id] <= c.interval
      BY <2>2 DEF Inv, Copied
    <3>2. 1 \in Left(r)
      BY <2>1, <2>2 DEF Left
    <3>3. After(started[r], c.id)
      BY <1>4, <2>1, <2>2, <3>2 DEF Inv, Spaced
    <3>. QED
      BY <2>2, <3>1, <3>3, States
  <2>. HIDE DEF c
  <2>4. w \in RunWrite /\ w.by = r /\ w.id = c.id /\ w.next = started[r] + c.interval /\ w.next # Keep
    BY <1>2, <2>2, Numbers DEF RunWrite, Status
  <2>. HIDE DEF w
  <2>5. After(w.next, w.id) /\ w.next >= started[r] + shortest[w.id]
    BY <1>2, <2>2, <2>3, <2>4 DEF After
  <2>6. \A t \in Tick : at'[t] # "idle" => t = r
    BY <1>1, <1>2, <1>3, <1>4, <2>1
  <2>7. w.id = Head(due'[r]).id
    BY <2>1, <2>4 DEF c
  <2>. QED
    BY <1>4, <2>1, <2>4, <2>5, <2>6, <2>7, QueueStep
<1>5. CASE r \in Tick /\ ScanRefused(r)
  <2>. DEFINE last == IF Runnable(Head(due[r]).id) THEN "skipped" ELSE "failed"
              w == [by |-> r, id |-> Head(due[r]).id, next |-> Keep, last |-> last]
  <2>1. /\ at[r] = "starting" /\ writes' = Append(writes, w) /\ at' = [at EXCEPT ![r] = "recording"]
        /\ UNCHANGED <<now, stored, due, shortest, started, lastScan, result, patching, running>>
    BY <1>5 DEF ScanRefused, Update, Goto, edits
  <2>2. due[r] # <<>>
    BY <2>1 DEF Inv, Copied
  <2>3. w \in RunWrite /\ w.by = r /\ w.id = Head(due'[r]).id /\ w.next = Keep /\ w.last # "running"
    BY <2>1, <2>2, DueCopies DEF RunWrite, Status
  <2>. HIDE DEF w
  <2>. QED
    BY <1>5, <2>1, <2>2, <2>3, QueueStep
<1>6. CASE r \in Tick /\ TickRecords(r)
  <2>. DEFINE last == IF result[r] = "completed" THEN "completed" ELSE "failed"
              w == [by |-> r, id |-> Head(due[r]).id, next |-> Keep, last |-> last]
  <2>1. /\ at[r] = "scanning" /\ writes' = Append(writes, w) /\ at' = [at EXCEPT ![r] = "recording"]
        /\ UNCHANGED <<now, stored, due, shortest, started, lastScan, result, patching, running>>
    BY <1>6 DEF TickRecords, Update, Goto, edits
  <2>2. due[r] # <<>>
    BY <2>1 DEF Inv, Copied
  <2>3. w \in RunWrite /\ w.by = r /\ w.id = Head(due'[r]).id /\ w.next = Keep /\ w.last # "running"
    BY <2>1, <2>2, DueCopies DEF RunWrite, Status
  <2>. HIDE DEF w
  <2>. QED
    BY <1>6, <2>1, <2>2, <2>3, QueueStep
<1>7. CASE r \in ManualRun /\ ManualRecords(r)
  <2>. DEFINE w == [by |-> r, id |-> Head(due[r]).id, next |-> Keep, last |-> result[r]]
  <2>1. /\ at[r] = "scanning" /\ writes' = Append(writes, w) /\ at' = [at EXCEPT ![r] = "recording"]
        /\ UNCHANGED <<now, stored, due, shortest, started, lastScan, result, patching, running>>
    BY <1>7 DEF ManualRecords, Update, Goto, edits
  <2>2. due[r] # <<>>
    BY <2>1 DEF Inv, Copied
  <2>3. w \in RunWrite /\ w.by = r /\ w.id = Head(due'[r]).id /\ w.next = Keep /\ w.last # "running"
    BY <1>2, <2>1, <2>2, DueCopies DEF RunWrite, Status
  <2>. HIDE DEF w
  <2>. QED
    BY <1>1, <1>7, <2>1, <2>2, <2>3, QueueStep
<1>8. ASSUME r \in ManualRun, NEW id \in Schedule, ManualStarts(r, id) PROVE Inv'
  <2>. DEFINE w == [by |-> r, id |-> id, next |-> now + stored[id].interval, last |-> "running"]
  <2>1. /\ at[r] = "idle" /\ writes' = Append(writes, w) /\ at' = [at EXCEPT ![r] = "announcing"]
        /\ due' = [due EXCEPT ![r] = <<CopyOf(id)>>]
        /\ UNCHANGED <<now, stored, shortest, started, lastScan, result, patching, running>>
    BY <1>8 DEF ManualStarts, Update, Goto, edits
  <2>2. due'[r] = <<CopyOf(id)>> /\ due'[r] # <<>> /\ Head(due'[r]).id = id
    BY <2>1 DEF Inv, Typed, CopyOf
  <2>3. /\ shortest[id] <= stored[id].interval /\ lastScan[id] <= now /\ shortest[id] \in Nat /\ lastScan[id] \in Int
        /\ stored[id].interval \in Nat
    BY States DEF Inv, Copied, Spaced
  <2>4. w \in RunWrite /\ w.by = r /\ w.id = id /\ w.next = now + stored[id].interval /\ w.next # Keep
    BY <1>2, <2>3, Numbers DEF RunWrite, Status
  <2>. HIDE DEF w
  <2>5. \A t \in Tick : started[t] \in Nat /\ started[t] <= now
    BY <1>1 DEF Inv, Typed, Copied
  <2>6. After(w.next, w.id) /\ \A t \in Tick : w.next >= started[t] + shortest[w.id]
    BY <1>2, <2>3, <2>4, <2>5 DEF After
  <2>. QED
    BY <1>1, <1>8, <2>1, <2>2, <2>4, <2>6, QueueStep
<1>. QED
  BY <1>4, <1>5, <1>6, <1>7, <1>8

\* A user changes or deletes a schedule.
LEMMA UserQueues ==
    ASSUME Inv,
           \/ \E p \in Patch, enabled \in BOOLEAN, interval \in Intervals : PatchWrites(p, enabled, interval)
           \/ \E id \in Schedule : UserDeletes(id)
    PROVE  Inv'
<1>. DEFINE Body == [id : Schedule, enabled : BOOLEAN, interval : Intervals]
<1>1. patching \in [Patch -> Seq(Body)]
  BY DEF Inv, Typed
<1>2. ASSUME NEW p \in Patch, NEW enabled \in BOOLEAN, NEW interval \in Intervals, PatchWrites(p, enabled, interval) PROVE Inv'
  <2>. DEFINE copy == Head(patching[p])
              w == [id |-> copy.id, change |-> "patch", enabled |-> enabled, interval |-> interval]
  <2>1. /\ patching[p] # <<>> /\ writes' = Append(writes, w) /\ patching' = [patching EXCEPT ![p] = <<>>]
        /\ UNCHANGED <<now, stored, at, due, shortest, started, lastScan, result, running>>
    BY <1>2 DEF PatchWrites
  <2>2. copy \in Body
    <3>. HIDE DEF Body
    <3>1. patching[p] \in Seq(Body)
      BY <1>1
    <3>. QED
      BY <2>1, <3>1
  <2>3. w \in Change
    BY <2>2 DEF Change
  <2>. HIDE DEF w
  <2>4. patching' \in [Patch -> Seq(Body)]
    <3>. HIDE DEF Body
    <3>1. <<>> \in Seq(Body)
      OBVIOUS
    <3>. QED
      BY <1>1, <2>1, <3>1
  <2>. QED
    BY <2>1, <2>3, <2>4, ChangeStep
<1>3. ASSUME NEW id \in Schedule, UserDeletes(id) PROVE Inv'
  <2>. DEFINE w == [id |-> id, change |-> "delete"]
  <2>1. /\ writes' = Append(writes, w)
        /\ UNCHANGED <<now, stored, at, due, shortest, started, lastScan, result, running, patching>>
    BY <1>3 DEF UserDeletes, edits
  <2>2. w \in Change
    BY DEF Change
  <2>. HIDE DEF w
  <2>. QED
    BY <1>1, <2>1, <2>2, ChangeStep
<1>. QED
  BY <1>2, <1>3

\* Time passes.
LEMMA TimeStep == ASSUME Inv, TimePasses PROVE Inv'
<1>1. /\ now' = now + 1
      /\ UNCHANGED <<stored, writes, at, due, shortest, started, lastScan, result, running, patching>>
  BY DEF TimePasses, edits
<1>2. now \in Nat /\ now' \in Nat /\ (\A r \in Run : started[r] \in Nat) /\ \A id \in Schedule : lastScan[id] \in Int
  BY <1>1, States
<1>3. Typed'
  BY <1>1, <1>2 DEF Inv, Typed
<1>4. OneTick' /\ Awaited' /\ HandledIsNotDue'
  BY <1>1 DEF Inv, OneTick, Awaited, HandledIsNotDue
<1>5. Copied'
  BY <1>1, <1>2 DEF Inv, Copied
<1>6. Handled'
  BY <1>1 DEF Inv, Handled, LaterThan
<1>7. Spaced'
  BY <1>1, <1>2 DEF Inv, Spaced, After, Left
<1>. QED
  BY <1>3, <1>4, <1>5, <1>6, <1>7 DEF Inv

\* What leaves the runs, the queue and the database alone.
LEMMA OtherStep ==
    ASSUME Inv,
           UNCHANGED <<now, stored, writes, at, due, shortest, started, lastScan, running>>,
           result' \in [Run -> {"none", "completed", "failed", "cancelled"}],
           patching' \in [Patch -> Seq([id : Schedule, enabled : BOOLEAN, interval : Intervals])]
    PROVE  Inv'
<1>1. Typed'
  BY DEF Inv, Typed
<1>2. OneTick' /\ Awaited' /\ HandledIsNotDue' /\ Copied'
  BY DEF Inv, OneTick, Awaited, HandledIsNotDue, Copied
<1>3. Handled' /\ Spaced'
  BY DEF Inv, Handled, LaterThan, Spaced, After, Left
<1>. QED
  BY <1>1, <1>2, <1>3 DEF Inv

\* After a crash, the database is all there is.
LEMMA CrashStep == ASSUME Inv, Crash PROVE Inv'
<1>1. /\ writes' = <<>> /\ at' = [r \in Run |-> "idle"] /\ due' = [r \in Run |-> <<>>]
      /\ patching' = [p \in Patch |-> <<>>] /\ started' = [r \in Run |-> 0] /\ result' = [r \in Run |-> "none"]
      /\ UNCHANGED <<now, stored, lastScan, shortest>>
  BY DEF Crash
<1>2. Len(writes') = 0 /\ \A r \in Run : Len(due'[r]) = 0 /\ at'[r] = "idle" /\ started'[r] = 0
  BY <1>1
<1>3. Tick \subseteq Run /\ now \in Nat
  BY DEF Run, Inv, Typed
<1>4. Typed'
  BY <1>1 DEF Inv, Typed
<1>5. OneTick' /\ Awaited' /\ HandledIsNotDue' /\ Handled'
  BY <1>2, <1>3 DEF OneTick, Awaited, HandledIsNotDue, Handled
<1>6. Copied'
  BY <1>1, <1>2, <1>3 DEF Inv, Copied
<1>7. Spaced'
  BY <1>1, <1>2, <1>3 DEF Inv, Spaced, After
<1>. QED
  BY <1>4, <1>5, <1>6, <1>7 DEF Inv

\* Each step keeps the invariant.
LEMMA InvNext == Inv /\ [Next]_vars => Inv'
<1>. SUFFICES ASSUME Inv, [Next]_vars PROVE Inv'
  OBVIOUS
<1>1. CASE UNCHANGED vars
  BY <1>1, OtherStep DEF vars, Inv, Typed
<1>2. CASE AnyScanEnds
  <2>1. PICK r \in Run, how \in {"completed", "failed", "cancelled"} : ScanEnds(r, how)
    BY <1>2 DEF AnyScanEnds
  <2>2. /\ UNCHANGED <<now, stored, writes, at, due, shortest, started, lastScan, running, patching>>
        /\ result' = [result EXCEPT ![r] = IF at[r] = "idle" THEN "none" ELSE how]
    BY <2>1 DEF ScanEnds, edits
  <2>. QED
    BY <2>2, OtherStep DEF Inv, Typed
<1>3. ASSUME NEW p \in Patch, NEW id \in Schedule, PatchReads(p, id) PROVE Inv'
  <2>. DEFINE copy == [id |-> id, enabled |-> stored[id].enabled, interval |-> stored[id].interval]
  <2>1. /\ UNCHANGED <<now, stored, writes, at, due, shortest, started, lastScan, running, result>>
        /\ patching' = [patching EXCEPT ![p] = <<copy>>]
    BY <1>3 DEF PatchReads
  <2>2. <<copy>> \in Seq([id : Schedule, enabled : BOOLEAN, interval : Intervals])
    <3>1. copy \in [id : Schedule, enabled : BOOLEAN, interval : Intervals]
      BY DEF Inv, Typed
    <3>. HIDE DEF copy
    <3>. QED
      BY <3>1
  <2>. HIDE DEF copy
  <2>. QED
    BY <2>1, <2>2, OtherStep DEF Inv, Typed
<1>4. ASSUME NEW t \in Tick, TickStarts(t) \/ TickWorks(t) PROVE Inv'
  BY <1>4, ReadsStep, TickStep, RunQueues DEF TickWorks, Run
<1>5. ASSUME NEW r \in ManualRun, ManualRecords(r) \/ \E id \in Schedule : ManualStarts(r, id) PROVE Inv'
  BY <1>5, RunQueues DEF Run
<1>. QED
  BY <1>1, <1>2, <1>3, <1>4, <1>5, StoreWritesStep, StoreFailsStep, UserQueues, TimeStep, CrashStep DEF Next

-----------------------------------------------------------------------------
\* The invariant holds of every state.
LEMMA InvHolds == Spec => []Inv
  BY InvInit, InvNext, PTL DEF Spec

\* SCH-04: whatever a run comes to, its schedule is not due again at the time of that tick.
THEOREM NotRetriedAtOnce == Spec => []HandledIsNotDue
<1>1. Inv => HandledIsNotDue
  BY DEF Inv
<1>. QED
  BY <1>1, InvHolds, PTL

\* SCH-03: the times of the scans that ticks start are an interval apart, across ticks,
\* changes of the schedules, writes that fail and crashes.
THEOREM Spacing == Spec => RunsAreSpaced
<1>1. Inv /\ [Next]_vars => [ScansAreSpaced]_vars
  <2>. SUFFICES ASSUME Inv, NEW t \in Tick, at[t] = "starting" PROVE After(started[t], Head(due[t]).id)
    BY DEF ScansAreSpaced, After
  <2>1. t \in Run /\ due[t] # <<>>
    BY DEF Run, Inv, Copied
  <2>2. 1 \in 1..Len(due[t]) /\ Head(due[t]) = due[t][1]
    BY <2>1, DueCopies
  <2>3. 1 \in Left(t)
    BY <2>2 DEF Left
  <2>. QED
    BY <2>2, <2>3 DEF Inv, Spaced
<1>. QED
  BY <1>1, InvHolds, PTL DEF Spec, RunsAreSpaced
-----------------------------------------------------------------------------
\* While nothing fails, a schedule that shows "running" is the one that a run works on.
Owned == ~faults => Busy

\* No step of a run gives up a schedule that it has announced, except by the write it has
\* waited for.
LEMMA OwnersStay ==
    ASSUME Inv, [Next]_vars, ~StoreWrites, ~faults'
    PROVE  /\ UNCHANGED <<stored, faults>>
           /\ \A r \in Run : at[r] \in {"starting", "scanning", "recording"} =>
                 at'[r] \in {"starting", "scanning", "recording"} /\ due'[r] = due[r]
<1>1. /\ at \in [Run -> {"idle", "reading", "next", "announcing", "starting", "scanning", "recording"}]
      /\ due \in [Run -> Seq(Copy)] /\ Tick \subseteq Run /\ ManualRun \subseteq Run
  BY DEF Inv, Typed, Run
<1>2. ASSUME NEW t \in Tick, TickStarts(t) \/ TickReads(t) \/ TickEnds(t)
      PROVE  /\ UNCHANGED <<stored, faults>> /\ at[t] \in {"idle", "reading", "next"}
             /\ \E p \in {"reading", "next", "idle"} : at' = [at EXCEPT ![t] = p]
             /\ \E q : due' = [due EXCEPT ![t] = q]
  <2>1. CASE TickStarts(t)
    <3>1. /\ UNCHANGED <<stored, faults>> /\ at[t] = "idle" /\ at' = [at EXCEPT ![t] = "reading"]
          /\ due' = [due EXCEPT ![t] = due[t]]
      BY <1>1, <2>1 DEF TickStarts, Free, CallRead, Goto
    <3>. QED
      BY <3>1
  <2>2. CASE TickReads(t)
    BY <2>2 DEF TickReads, Goto
  <2>3. CASE TickEnds(t)
    <3>1. /\ UNCHANGED <<stored, faults>> /\ at[t] = "next" /\ at' = [at EXCEPT ![t] = "idle"]
          /\ due' = [due EXCEPT ![t] = due[t]]
      BY <1>1, <2>3 DEF TickEnds, Goto
    <3>. QED
      BY <3>1
  <2>. QED
    BY <1>2, <2>1, <2>2, <2>3
<1>3. ASSUME NEW t \in Tick, Announce(t) \/ ScanStarts(t) \/ ScanRefused(t) \/ TickRecords(t)
      PROVE  /\ UNCHANGED <<stored, faults, due>>
             /\ \/ at[t] = "next" /\ at' = [at EXCEPT ![t] = "announcing"]
                \/ at' = [at EXCEPT ![t] = "scanning"] \/ at' = [at EXCEPT ![t] = "recording"]
  BY <1>3 DEF Announce, ScanStarts, ScanRefused, TickRecords, Goto
<1>4. ASSUME NEW r \in ManualRun, ManualRecords(r)
      PROVE  UNCHANGED <<stored, faults, due>> /\ at' = [at EXCEPT ![r] = "recording"]
  BY <1>4 DEF ManualRecords, Goto
<1>5. ASSUME NEW r \in ManualRun, NEW id \in Schedule, ManualStarts(r, id)
      PROVE  /\ UNCHANGED <<stored, faults>> /\ at[r] = "idle" /\ at' = [at EXCEPT ![r] = "announcing"]
             /\ \E q : due' = [due EXCEPT ![r] = q]
  BY <1>5 DEF ManualStarts, Goto
<1>6. ~StoreFails /\ ~Crash
  BY DEF StoreFails, Crash
<1>7. CASE \/ UNCHANGED vars \/ AnyScanEnds \/ TimePasses
           \/ \E p \in Patch : \/ \E id \in Schedule : PatchReads(p, id)
                               \/ \E enabled \in BOOLEAN, interval \in Intervals : PatchWrites(p, enabled, interval)
           \/ \E id \in Schedule : UserDeletes(id)
  <2>1. UNCHANGED <<stored, faults, at, due>>
    BY <1>7 DEF vars, AnyScanEnds, ScanEnds, TimePasses, PatchReads, PatchWrites, UserDeletes
  <2>. QED
    BY <2>1
<1>8. ASSUME NEW t \in Tick, TickStarts(t) \/ TickWorks(t)
      PROVE  /\ UNCHANGED <<stored, faults>>
             /\ \A r \in Run : at[r] \in {"starting", "scanning", "recording"} =>
                   at'[r] \in {"starting", "scanning", "recording"} /\ due'[r] = due[r]
  <2>1. t \in Run
    BY <1>1
  <2>2. CASE TickStarts(t) \/ TickReads(t) \/ TickEnds(t)
    BY <1>1, <1>2, <2>1, <2>2
  <2>3. CASE Announce(t) \/ ScanStarts(t) \/ ScanRefused(t) \/ TickRecords(t)
    BY <1>1, <1>3, <2>1, <2>3
  <2>. QED
    BY <1>8, <2>2, <2>3 DEF TickWorks
<1>9. ASSUME NEW r \in ManualRun, ManualRecords(r) \/ \E id \in Schedule : ManualStarts(r, id)
      PROVE  /\ UNCHANGED <<stored, faults>>
             /\ \A x \in Run : at[x] \in {"starting", "scanning", "recording"} =>
                   at'[x] \in {"starting", "scanning", "recording"} /\ due'[x] = due[x]
  <2>1. r \in Run
    BY <1>1
  <2>2. CASE ManualRecords(r)
    BY <1>1, <1>4, <2>1, <2>2
  <2>3. ASSUME NEW id \in Schedule, ManualStarts(r, id)
        PROVE  /\ UNCHANGED <<stored, faults>>
               /\ \A x \in Run : at[x] \in {"starting", "scanning", "recording"} =>
                     at'[x] \in {"starting", "scanning", "recording"} /\ due'[x] = due[x]
    BY <1>1, <1>5, <2>1, <2>3
  <2>. QED
    BY <1>9, <2>2, <2>3
<1>. QED
  BY <1>6, <1>7, <1>8, <1>9 DEF Next

\* Each step keeps it.
LEMMA OwnedNext == Inv /\ Owned /\ [Next]_vars => Owned'
<1>. SUFFICES ASSUME Inv, Owned, [Next]_vars, ~faults',
                     NEW id \in Schedule, stored'[id].present, stored'[id].last = "running"
              PROVE  \E r \in Run : at'[r] \in {"starting", "scanning", "recording"} /\ Head(due'[r]).id = id
  BY DEF Owned, Busy
<1>1. CASE ~StoreWrites
  BY <1>1, OwnersStay DEF Owned, Busy
<1>2. CASE StoreWrites
  <2>. DEFINE w == Head(writes)
  <2>1. w \in Write /\ 1 \in 1..Len(writes) /\ w = writes[1] /\ ~faults
    BY <1>2, Removed DEF StoreWrites, Inv, Typed
  <2>2. /\ WaitersStep(w)
        /\ w \in RunWrite /\ at[w.by] = "announcing" => at'[w.by] \in {"starting", "scanning"}
    BY <1>2, WaiterOfWrite
  <2>3. \/ stored[id].last = "running" /\ stored[id].present /\ ~(w \in RunWrite /\ w.id = id)
        \/ w \in RunWrite /\ w.id = id /\ w.last = "running"
    BY <1>2, EffectOfWrite
  <2>. HIDE DEF w
  <2>4. w \in RunWrite => /\ w.by \in Run /\ w.id = Head(due[w.by]).id /\ at[w.by] \in {"announcing", "recording"}
                          /\ at[w.by] = "recording" => w.last # "running"
    BY <2>1 DEF RunWrite, Inv, Awaited
  <2>5. CASE stored[id].last = "running" /\ stored[id].present /\ ~(w \in RunWrite /\ w.id = id)
    <3>1. PICK r \in Run : at[r] \in {"starting", "scanning", "recording"} /\ Head(due[r]).id = id
      BY <2>1, <2>5 DEF Owned, Busy
    <3>2. ~(w \in RunWrite /\ w.by = r)
      BY <2>4, <2>5, <3>1
    <3>3. at'[r] = at[r] /\ due'[r] = due[r]
      BY <2>2, <3>1, <3>2 DEF WaitersStep
    <3>. QED
      BY <3>1, <3>3
  <2>6. CASE w \in RunWrite /\ w.id = id /\ w.last = "running"
    <3>1. at'[w.by] \in {"starting", "scanning"} /\ due'[w.by] = due[w.by]
      BY <2>2, <2>4, <2>6 DEF WaitersStep
    <3>. QED
      BY <2>4, <2>6, <3>1
  <2>. QED
    BY <2>3, <2>5, <2>6
<1>. QED
  BY <1>1, <1>2

\* SCH-05: a schedule that shows "running" belongs to a tick or a run that will still record
\* its end, as long as no write has failed and the process has not died.
THEOREM NoneLeftRunning == Spec => []RunningIsRunning
<1>1. Init => Owned
  BY DEF Init, Owned, Busy
<1>2. Inv /\ Owned => RunningIsRunning
  BY DEF Inv, Copied, Owned, Busy, RunningIsRunning
<1>. QED
  BY <1>1, <1>2, OwnedNext, InvHolds, PTL DEF Spec
=============================================================================
