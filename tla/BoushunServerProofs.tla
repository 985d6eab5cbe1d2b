------------------------ MODULE BoushunServerProofs ------------------------
(***************************************************************************)
(* Theorems about BoushunServer, for any number of scans, edits and        *)
(* replacements.  NothingStale is not inductive by itself.  A call belongs *)
(* to the database it was made for because its caller was current then,    *)
(* and it stays so because no replacement can be called before it has been *)
(* reported to a scan that holds the slot, nor anything behind a           *)
(* replacement but what ticks and runs on demand write of their schedule:  *)
(* ServerInv says so of the slot (SlotHeld), of the queue (RuntimeBehind,  *)
(* Written), of the generations (NoneAhead, Fresh), of the calls (Called,  *)
(* Stamped) and of the runs of the schedule (OfSchedule).  The one time    *)
(* when a generation of today stands for the database of yesterday is the  *)
(* Window, between the write of a replacement and its report; nothing that *)
(* asks for a generation is called then.  What asks for none, the writes   *)
(* of the runtime, finds the schedule in the database or is not written.   *)
(*                                                                         *)
(* That a completed scan has been notified needs SaveInv: the history that *)
(* a task has read and compared is not the database of the moment when the *)
(* scan is shown as completed, but no call in between gives a saved scan a *)
(* new port (LaterSnapshots, LaterFinding).                                *)
(***************************************************************************)
EXTENDS BoushunServer, FiniteSetTheorems, TLAPS

\* Where a scan is that holds the slot.
Working == {"collecting", "saving", "rereading", "reread", "notifying"}

\* Behind its save, where only scans of the schedule come.
PastSave == {"rereading", "reread", "notifying"}

\* A replacement is in effect, and its handler does not know yet.
Window == applied /\ pending # <<>> /\ Head(pending) \in Replace

\* The slot is held by the one scan that works, for the database of today, and by none
\* during maintenance.
SlotHeld ==
    /\ mutating => holder = None
    /\ \A s \in Scan : holder = s <=> at[s] \in Working
    /\ holder # None => gen[holder] = generation

\* Only scans of the schedule read the history, for their notifications.
OnlyScheduled == \A s \in Scan : at[s] \in PastSave => s \in Scheduled

\* Nobody has captured a generation that is still to come.
NoneAhead == \A r \in Request : gen[r] <= generation

\* A replacement is called during maintenance only, and behind it nothing is called but
\* writes of the runtime.
RuntimeBehind ==
    \A i \in 1..Len(pending) : pending[i] \in Replace =>
        mutating /\ \A j \in 1..Len(pending) : i < j => pending[j] \in Runtime

\* A call that has succeeded is in the database, unless it is a write of the runtime.
Written == applied => pending # <<>> /\ (Head(pending) \in Runtime \/ Head(pending) \in ToSet(db))

\* What is queued or in the database was called, by a request that has come that far.
Called ==
    /\ \A o \in ToSet(pending) \cup ToSet(db) : outcome[o] # "none"
    /\ \A s \in Scan : outcome[Save(s)] # "none" => at[s] \in (Working \ {"collecting"}) \cup {"ended"}
    /\ \A s \in Scheduled : outcome[Notify(s)] # "none" => at[s] \in {"notifying", "ended"}
    /\ \A e \in Edit : outcome[Change(e)] # "none" => at[e] \in {"changing", "ended"}

\* Where requests that have made a call may go.
Onwards(p, q) ==
    /\ p \in (Working \ {"collecting"}) \cup {"ended"} => q \in (Working \ {"collecting"}) \cup {"ended"}
    /\ p \in {"notifying", "ended"} => q \in {"notifying", "ended"}
    /\ p \in {"changing", "ended"} => q \in {"changing", "ended"}

\* A captured generation that is the one of today stands for the database of today, but in
\* the window.  A tick captures it later than it has read the schedule, and for a scan
\* of the schedule it stands for the settings only, and for the schedule that was read
\* together with them.
Fresh ==
    ~Window =>
        /\ \A r \in Request \ Scheduled : at[r] # "new" /\ gen[r] = generation => born[r] = Epoch(db)
        /\ \A s \in Scan : at[s] \in Working \cup {"read"} /\ gen[s] = generation =>
              /\ settings[s] = Epoch(db)
              /\ at[s] = "read" => Epoch(seen[s]) = Epoch(db) /\ ToSet(seen[s]) \subseteq ToSet(db)

\* What is queued, and what is in the database, belongs to this database; what a run
\* writes of its schedule belongs to any that began with the schedule.
Stamped ==
    LET calls == ToSet(pending) \cup ToSet(db)
    IN  /\ \A s \in Scan : Save(s) \in calls => settings[s] = Epoch(db)
        /\ \A s \in Manual : Save(s) \in calls => born[s] = Epoch(db)
        /\ \A e \in Edit : Change(e) \in calls => born[e] = Epoch(db)
        /\ \A s \in Scheduled :
              /\ Save(s) \in calls => HadScheduleEnabled(db)
              /\ Notify(s) \in calls => Save(s) \in ToSet(db)
              /\ {Announcement(s), Record(s)} \cap ToSet(db) # {} => HasSchedule(<<Epoch(db)>>)

\* A scan of the schedule works where the schedule was enabled once, and reads the history
\* that its own snapshot is in.
OfSchedule ==
    \A s \in Scheduled : /\ at[s] \in Working => HadScheduleEnabled(db)
                         /\ at[s] \in PastSave => Save(s) \in ToSet(db)

ServerInv == /\ TypeOK /\ SlotHeld /\ OnlyScheduled /\ NoneAhead /\ RuntimeBehind /\ Written
             /\ Called /\ Fresh /\ Stamped /\ OfSchedule

\* The calls of the store are told apart by their first component.
LEMMA Calls ==
    /\ Update \cap Replace = {} /\ Runtime \subseteq Update
    /\ \A s, t \in Scan : Save(s) = Save(t) => s = t
    /\ \A s, t \in Scheduled : Notify(s) = Notify(t) => s = t
    /\ \A e, f \in Edit : Change(e) = Change(f) => e = f
    /\ \A s \in Scan : /\ \A t \in Scheduled : Save(s) # Notify(t)
                       /\ \A e \in Edit : Save(s) # Change(e)
    /\ \A t \in Scheduled, e \in Edit : Notify(t) # Change(e)
    /\ \A s \in Scan : Save(s) \in Update \ Runtime
    /\ \A s \in Scheduled : /\ s \in Scan /\ Notify(s) \in Update \ Runtime
                            /\ Announcement(s) \in Runtime /\ Record(s) \in Runtime
    /\ \A e \in Edit : Change(e) \in Update \ Runtime
    /\ \A m \in Maintenance, left \in Left : Replacement(m, left) \in Replace
    /\ First \notin Replace /\ \A e \in Edit : Change(e) # First
    /\ \A m \in Maintenance, left \in Left : Replacement(m, left) # First
<1>. USE DEF Update, Replace, Runtime, Save, Notify, Change, Replacement, Announcement, Record, First, Scan
<1>1. Update \cap Replace = {} /\ Runtime \subseteq Update
  OBVIOUS
<1>2. /\ \A s, t \in Scan : Save(s) = Save(t) => s = t
      /\ \A s, t \in Scheduled : Notify(s) = Notify(t) => s = t
      /\ \A e, f \in Edit : Change(e) = Change(f) => e = f
      /\ \A s \in Scan : /\ \A t \in Scheduled : Save(s) # Notify(t)
                         /\ \A e \in Edit : Save(s) # Change(e)
      /\ \A t \in Scheduled, e \in Edit : Notify(t) # Change(e)
  OBVIOUS
<1>3. /\ \A s \in Scan : Save(s) \in Update \ Runtime
      /\ \A s \in Scheduled : /\ s \in Scan /\ Notify(s) \in Update \ Runtime
                              /\ Announcement(s) \in Runtime /\ Record(s) \in Runtime
      /\ \A e \in Edit : Change(e) \in Update \ Runtime
  OBVIOUS
<1>4. /\ \A m \in Maintenance, left \in Left : Replacement(m, left) \in Replace
      /\ First \notin Replace /\ \A e \in Edit : Change(e) # First
      /\ \A m \in Maintenance, left \in Left : Replacement(m, left) # First
  OBVIOUS
<1>. QED
  BY ONLY <1>1, <1>2, <1>3, <1>4

\* What Append does to a queue and to what is in it.
LEMMA Appended ==
    ASSUME NEW S, NEW q \in Seq(S), NEW o \in S
    PROVE  /\ Append(q, o) \in Seq(S) /\ ToSet(Append(q, o)) = ToSet(q) \cup {o}
           /\ Len(Append(q, o)) = Len(q) + 1 /\ Append(q, o)[Len(q) + 1] = o
           /\ \A i \in 1..Len(q) : Append(q, o)[i] = q[i]
           /\ Append(q, o) # <<>>
           /\ q # <<>> => Head(Append(q, o)) = Head(q)
           /\ q = <<>> => Head(Append(q, o)) = o
<1>1. /\ Append(q, o) \in Seq(S) /\ Len(Append(q, o)) = Len(q) + 1 /\ Append(q, o)[Len(q) + 1] = o
      /\ \A i \in 1..Len(q) : Append(q, o)[i] = q[i]
  OBVIOUS
<1>2. DOMAIN Append(q, o) = 1..(Len(q) + 1) /\ DOMAIN q = 1..Len(q) /\ Len(q) \in Nat
  BY <1>1
<1>3. ToSet(Append(q, o)) = ToSet(q) \cup {o}
  BY <1>1, <1>2 DEF ToSet
<1>4. Append(q, o) # <<>> /\ Head(Append(q, o)) = Append(q, o)[1]
  BY <1>1, <1>2
<1>5. (q # <<>> => Len(q) >= 1 /\ Head(q) = q[1]) /\ (q = <<>> => Len(q) = 0)
  BY <1>2
<1>. QED
  BY <1>1, <1>2, <1>3, <1>4, <1>5

\* What taking the first call from a queue leaves.
LEMMA Removed ==
    ASSUME NEW S, NEW q \in Seq(S), q # <<>>
    PROVE  /\ Tail(q) \in Seq(S) /\ ToSet(Tail(q)) \subseteq ToSet(q)
           /\ Head(q) \in S /\ Head(q) = q[1] /\ Head(q) \in ToSet(q)
           /\ Len(q) >= 1 /\ Len(Tail(q)) = Len(q) - 1
           /\ \A i \in 1..Len(Tail(q)) : Tail(q)[i] = q[i + 1]
  BY DEF ToSet

\* What a database has of the schedule, it began with.
LEMMA BeganWith ==
    ASSUME NEW S, NEW d \in Seq(S)
    PROVE  /\ HasSchedule(d) => HasSchedule(<<Epoch(d)>>)
           /\ ScheduleEnabled(d) => HadScheduleEnabled(d)
<1>1. ToSet(<<Epoch(d)>>) = {Epoch(d)}
  BY DEF ToSet
<1>2. \A e \in Edit : Change(e) # Epoch(d)
  BY Calls DEF Epoch
<1>3. ASSUME NEW m \in Maintenance, NEW left \in Left, Replacement(m, left) = Epoch(d)
      PROVE  Replacement(m, left) \in ToSet(d)
  BY <1>3, Removed, Calls DEF Epoch
<1>4. HasSchedule(d) => HasSchedule(<<Epoch(d)>>)
  BY <1>1, <1>2, <1>3, ServerAssumption DEF HasSchedule, Left
<1>5. ASSUME ScheduleEnabled(d) PROVE HadScheduleEnabled(d)
  <2>. DEFINE off == {Change(e) : e \in Disabling} \cup {Replacement(m, "disabled") : m \in Maintenance}
              on == {Change(e) : e \in Enabling}
  <2>1. HasSchedule(<<Epoch(d)>>)
    BY <1>4, <1>5 DEF ScheduleEnabled
  <2>2. CASE Epoch(d) \notin off
    <3>1. <<Epoch(d)>>[1] = Epoch(d) /\ DOMAIN <<Epoch(d)>> = {1}
      OBVIOUS
    <3>2. ScheduleEnabled(<<Epoch(d)>>)
      BY <2>1, <2>2, <3>1 DEF ScheduleEnabled
    <3>. QED
      BY <2>1, <3>2 DEF HadScheduleEnabled
  <2>3. CASE Epoch(d) \in off
    <3>1. d # <<>> /\ Epoch(d) = d[1] /\ 1 \in DOMAIN d
      <4>1. Epoch(d) # First
        BY <2>3, Calls, ServerAssumption DEF Left
      <4>2. d # <<>> /\ Epoch(d) = Head(d)
        BY <4>1 DEF Epoch
      <4>. QED
        BY <4>2
    <3>2. PICK j \in DOMAIN d : d[j] \in on
      BY <1>5, <2>3, <3>1 DEF ScheduleEnabled
    <3>3. d[j] \in ToSet(d)
      BY DEF ToSet
    <3>. QED
      BY <2>1, <3>2, <3>3 DEF HadScheduleEnabled
  <2>. QED
    BY <2>2, <2>3
<1>. QED
  BY <1>4, <1>5

\* What a database has had, it has had when more has been written to it.
LEMMA StillHad ==
    ASSUME NEW d, NEW e, HadScheduleEnabled(d), Epoch(e) = Epoch(d), ToSet(d) \subseteq ToSet(e)
    PROVE  HadScheduleEnabled(e)
  BY DEF HadScheduleEnabled

\* The invariant holds when the server starts.
LEMMA ServerInvInit == Init => ServerInv
<1>. SUFFICES ASSUME Init PROVE ServerInv
  OBVIOUS
<1>. USE DEF Init, Slot!Init, Store!Init
<1>1. TypeOK
  <2>1. <<>> \in Seq(Update \cup Replace)
    OBVIOUS
  <2>2. outcome \in [Update \cup Replace -> {"none", "pending", "done", "failed"}]
    BY DEF Store!Op
  <2>3. at \in [Request -> Place] /\ gen \in [Request -> Nat] /\ after \in [Request -> SUBSET (Update \cup Replace)]
    BY DEF Place
  <2>4. /\ seen \in [Request -> Seq(Update \cup Replace)] /\ born \in [Request -> Replace \cup {First}]
        /\ runtime \in [Scheduled -> {"none", "announcing", "announced", "recording", "over"}]
        /\ settings \in [Scan -> Replace \cup {First}]
    BY <2>1
  <2>5. Slot!TypeOK
    BY DEF Slot!TypeOK, Slot!Verdict
  <2>. QED
    BY <2>1, <2>2, <2>3, <2>4, <2>5 DEF TypeOK
<1>2. SlotHeld
  BY ServerAssumption DEF SlotHeld, Working, Scan, Request
<1>3. ToSet(db) = {} /\ ToSet(pending) = {} /\ Epoch(db) = First
  BY DEF ToSet, Epoch
<1>4. NoneAhead /\ RuntimeBehind /\ Written /\ Stamped /\ OnlyScheduled /\ OfSchedule
  BY <1>3 DEF NoneAhead, RuntimeBehind, Written, Stamped, OnlyScheduled, OfSchedule, Working, PastSave, Scan, Request
<1>5. Called
  BY <1>3, Calls DEF Called, Store!Op
<1>6. Fresh
  BY <1>3 DEF Fresh, Working, Scan, Request
<1>. QED
  BY <1>1, <1>2, <1>4, <1>5, <1>6 DEF ServerInv
-----------------------------------------------------------------------------
\* A request that goes on changes nothing of the slot, unless it gets or gives up work.
LEMMA SlotKept ==
    ASSUME TypeOK, SlotHeld, NEW r \in Request, NEW p, at' = [at EXCEPT ![r] = p],
           UNCHANGED <<mutating, generation, holder>>,
           at[r] \in Working <=> p \in Working,
           \A x \in Request : x # r \/ at[x] \in Working => gen'[x] = gen[x]
    PROVE  SlotHeld'
<1>1. Scan \subseteq Request
  BY DEF Request
<1>2. \A s \in Scan : at'[s] \in Working <=> at[s] \in Working
  BY <1>1 DEF TypeOK
<1>3. holder # None => holder \in Scan /\ at[holder] \in Working
  BY DEF TypeOK, SlotHeld, Slot!TypeOK
<1>. QED
  BY <1>1, <1>2, <1>3 DEF SlotHeld

\* The end of a task frees the slot.
LEMMA SlotFreed ==
    ASSUME TypeOK, SlotHeld, NEW s \in Scan, NEW returned \in BOOLEAN, EndTask(s, returned),
           UNCHANGED <<mutating, generation, gen>>
    PROVE  /\ SlotHeld'
           /\ Slot!TypeOK' /\ at' \in [Request -> Place]
           /\ at[s] \in Working /\ at' = [at EXCEPT ![s] = "ended"]
<1>1. Scan \subseteq Request
  BY DEF Request
<1>2. holder = s /\ holder' = None /\ at' = [at EXCEPT ![s] = "ended"]
  BY DEF EndTask, Slot!Release
<1>3. at[s] \in Working /\ \A t \in Scan : t # s => at[t] \notin Working
  BY <1>2 DEF SlotHeld
<1>4. \A t \in Scan : at'[t] \notin Working /\ t # None
  BY <1>1, <1>2, <1>3, ServerAssumption DEF TypeOK, Working, Scan
<1>5. SlotHeld'
  BY <1>2, <1>4 DEF SlotHeld
<1>6. Slot!TypeOK'
  BY <1>2 DEF EndTask, Slot!Release, Slot!TypeOK, TypeOK
<1>7. at' \in [Request -> Place]
  BY <1>1, <1>2 DEF TypeOK, Place
<1>. QED
  BY <1>2, <1>3, <1>5, <1>6, <1>7

\* What a request may do that leaves the store alone.
LEMMA LocalStep ==
    ASSUME ServerInv, UNCHANGED <<mutating, generation, store>>,
           NEW r \in Request, NEW p, at' = [at EXCEPT ![r] = p], p # "new", Onwards(at[r], p),
           \A x \in Request : x # r => gen'[x] = gen[x] /\ seen'[x] = seen[x] /\ born'[x] = born[x],
           \A x \in Scan : settings'[x] = settings[x] \/ (x = r /\ settings'[x] = Epoch(db)),
           gen'[r] \in {gen[r], generation}, p = "read" => seen'[r] = db,
           \/ r \in Scheduled
           \/ at[r] # "new" /\ gen'[r] = gen[r] /\ born'[r] = born[r]
           \/ at[r] = "new" /\ gen'[r] = generation /\ born'[r] = Epoch(db),
           p \in Working \cup {"read"} =>
               gen'[r] = gen[r] /\ (settings'[r] = Epoch(db) \/ at[r] \in Working \cup {"read"}),
           r \in Scheduled /\ p \in Working => HadScheduleEnabled(db),
           p \in PastSave => at[r] \in PastSave
    PROVE  NoneAhead' /\ RuntimeBehind' /\ Written' /\ Called' /\ Fresh' /\ Stamped' /\ OfSchedule'
<1>1. /\ Scan \subseteq Request /\ Edit \subseteq Request /\ Scheduled \subseteq Scan /\ Manual \subseteq Scan
      /\ Manual \cap Scheduled = {} /\ Edit \cap Scheduled = {}
  BY ServerAssumption DEF Request, Scan
<1>2. UNCHANGED <<mutating, generation, db, pending, applied, outcome>>
  BY DEF store
<1>3. \A x \in Request : at'[x] = IF x = r THEN p ELSE at[x]
  BY DEF ServerInv, TypeOK
<1>4. NoneAhead'
  <2>1. generation \in Nat /\ generation <= generation /\ \A x \in Request : gen[x] <= generation
    BY DEF ServerInv, NoneAhead, TypeOK
  <2>2. ASSUME NEW x \in Request PROVE gen'[x] \in {gen[x], generation}
    BY <2>2
  <2>3. \A x \in Request : gen'[x] <= generation
    BY <2>1, <2>2
  <2>. QED
    BY <1>2, <2>3 DEF NoneAhead
<1>5. RuntimeBehind' /\ Written'
  BY <1>2 DEF ServerInv, RuntimeBehind, Written
<1>6. Called'
  BY <1>1, <1>2, <1>3 DEF ServerInv, Called, Onwards
<1>7. Fresh'
  <2>1. Window' = Window
    BY <1>2 DEF Window
  <2>. SUFFICES ASSUME ~Window
               PROVE  /\ \A x \in Request \ Scheduled :
                            at'[x] # "new" /\ gen'[x] = generation => born'[x] = Epoch(db)
                      /\ \A x \in Scan : at'[x] \in Working \cup {"read"} /\ gen'[x] = generation =>
                            /\ settings'[x] = Epoch(db)
                            /\ at'[x] = "read" =>
                                  Epoch(seen'[x]) = Epoch(db) /\ ToSet(seen'[x]) \subseteq ToSet(db)
    BY <1>2, <2>1 DEF Fresh
  <2>2. \A x \in Request \ Scheduled : at'[x] # "new" /\ gen'[x] = generation => born'[x] = Epoch(db)
    BY <1>3 DEF ServerInv, Fresh
  <2>3. ASSUME NEW x \in Scan, at'[x] \in Working \cup {"read"}, gen'[x] = generation
        PROVE  /\ settings'[x] = Epoch(db)
               /\ at'[x] = "read" => Epoch(seen'[x]) = Epoch(db) /\ ToSet(seen'[x]) \subseteq ToSet(db)
    <3>1. CASE x # r
      BY <3>1, <2>3, <1>1, <1>3 DEF ServerInv, Fresh
    <3>2. CASE x = r
      <4>1. at'[x] = p /\ gen[x] = generation
        BY <3>2, <2>3, <1>1, <1>3
      <4>2. settings'[x] = Epoch(db)
        <5>1. CASE at[x] \in Working \cup {"read"}
          BY <4>1, <5>1 DEF ServerInv, Fresh
        <5>2. CASE at[x] \notin Working \cup {"read"}
          BY <3>2, <2>3, <4>1, <5>2
        <5>. QED
          BY <5>1, <5>2
      <4>. QED
        BY <3>2, <4>1, <4>2
    <3>. QED
      BY <3>1, <3>2
  <2>. QED
    BY <2>2, <2>3
<1>8. Stamped'
  <2>1. \A s \in Scan : Save(s) \in ToSet(pending) \cup ToSet(db) => at[s] # "new"
    BY <1>1 DEF ServerInv, Called, Working
  <2>2. \A e \in Edit : Change(e) \in ToSet(pending) \cup ToSet(db) => at[e] # "new"
    BY <1>1 DEF ServerInv, Called
  <2>3. \A x \in Request \ Scheduled : at[x] # "new" => born'[x] = born[x]
    OBVIOUS
  <2>5. \A s \in Scan : Save(s) \in ToSet(pending) \cup ToSet(db) => settings'[s] = Epoch(db)
    BY DEF ServerInv, Stamped
  <2>6. /\ \A s \in Manual : Save(s) \in ToSet(pending) \cup ToSet(db) => born'[s] = Epoch(db)
        /\ \A e \in Edit : Change(e) \in ToSet(pending) \cup ToSet(db) => born'[e] = Epoch(db)
    BY <1>1, <2>1, <2>2, <2>3 DEF ServerInv, Stamped
  <2>. QED
    BY <1>2, <2>5, <2>6 DEF ServerInv, Stamped
<1>9. OfSchedule'
  BY <1>1, <1>2, <1>3 DEF ServerInv, OfSchedule
<1>. QED
  BY <1>4, <1>5, <1>6, <1>7, <1>8, <1>9
-----------------------------------------------------------------------------
\* Outside maintenance no replacement is queued.
LEMMA NoWindow ==
    ASSUME ServerInv, ~mutating
    PROVE  ~Window /\ \A i \in 1..Len(pending) : pending[i] \notin Replace
<1>1. \A i \in 1..Len(pending) : pending[i] \notin Replace
  BY DEF ServerInv, RuntimeBehind
<1>2. CASE pending = <<>>
  BY <1>1, <1>2 DEF Window
<1>3. CASE pending # <<>>
  <2>1. Head(pending) = pending[1] /\ Len(pending) >= 1
    BY <1>3, Removed DEF ServerInv, TypeOK
  <2>2. 1 \in 1..Len(pending)
    BY <2>1 DEF ServerInv, TypeOK
  <2>. QED
    BY <1>1, <2>1, <2>2 DEF Window
<1>. QED
  BY <1>2, <1>3

\* The call o of request r, which goes to the place p, belongs to the database of today.
Belongs(o, r, p) ==
    /\ \A s \in Scan : o = Save(s) => s = r /\ p = "saving" /\ settings[s] = Epoch(db)
    /\ \A s \in Manual : o = Save(s) => born[s] = Epoch(db)
    /\ \A s \in Scheduled : o = Save(s) => HadScheduleEnabled(db)
    /\ \A s \in Scheduled : o = Notify(s) => s = r /\ p = "notifying" /\ Save(s) \in ToSet(db)
    /\ \A e \in Edit : o = Change(e) => e = r /\ p = "changing" /\ born[e] = Epoch(db)

\* A request outside maintenance calls the store for the database it belongs to; a run of
\* the schedule writes its runtime at any time.
LEMMA CallStep ==
    ASSUME ServerInv, UNCHANGED <<mutating, generation, gen, born, settings>>,
           NEW o \in Update, Store!Call(o), ~mutating \/ o \in Runtime,
           NEW r \in Request, NEW p, at' = [at EXCEPT ![r] = p], at[r] # "new", p # "new", Onwards(at[r], p),
           \A x \in Request : x # r => seen'[x] = seen[x],
           p \in Working \cup {"read"} => at[r] \in Working /\ p # "read", p \in PastSave => at[r] \in PastSave,
           Belongs(o, r, p)
    PROVE  /\ NoneAhead' /\ RuntimeBehind' /\ Written' /\ Called' /\ Fresh' /\ Stamped' /\ OfSchedule'
           /\ pending' \in Seq(Update \cup Replace)
           /\ outcome' \in [Update \cup Replace -> {"none", "pending", "done", "failed"}]
<1>1. Scan \subseteq Request /\ Edit \subseteq Request /\ Scheduled \subseteq Scan
  BY DEF Request, Scan
<1>2. /\ pending' = Append(pending, o) /\ outcome' = [outcome EXCEPT ![o] = "pending"]
      /\ UNCHANGED <<db, applied>>
  BY DEF Store!Call
<1>3. \A x \in Request : at'[x] = IF x = r THEN p ELSE at[x]
  BY DEF ServerInv, TypeOK
<1>4. pending \in Seq(Update \cup Replace) /\ Len(pending) \in Nat
  BY DEF ServerInv, TypeOK
<1>5. /\ pending' \in Seq(Update \cup Replace) /\ ToSet(pending') = ToSet(pending) \cup {o}
      /\ Len(pending') = Len(pending) + 1 /\ pending'[Len(pending) + 1] = o
      /\ \A i \in 1..Len(pending) : pending'[i] = pending[i]
  BY <1>2, <1>4, Appended
<1>6. /\ outcome' \in [Update \cup Replace -> {"none", "pending", "done", "failed"}]
      /\ \A x \in Update \cup Replace : outcome'[x] = IF x = o THEN "pending" ELSE outcome[x]
  BY <1>2 DEF ServerInv, TypeOK
<1>7. o \notin Replace
  BY Calls
<1>8. Written' /\ Window' = Window
  <2>1. applied => Head(pending') = Head(pending) /\ pending # <<>> /\ pending' # <<>>
    BY <1>2, <1>4, Appended DEF ServerInv, Written
  <2>. QED
    BY <1>2, <2>1 DEF ServerInv, Written, Window
<1>9. NoneAhead'
  BY DEF ServerInv, NoneAhead
<1>10. RuntimeBehind'
  <2>. SUFFICES ASSUME NEW i \in 1..Len(pending'), pending'[i] \in Replace
               PROVE  mutating /\ \A j \in 1..Len(pending') : i < j => pending'[j] \in Runtime
    BY DEF RuntimeBehind
  <2>1. i \in 1..Len(pending) /\ pending[i] \in Replace
    BY <1>4, <1>5, <1>7
  <2>2. mutating /\ \A j \in 1..Len(pending) : i < j => pending[j] \in Runtime
    BY <2>1 DEF ServerInv, RuntimeBehind
  <2>. QED
    BY <1>4, <1>5, <2>2
<1>11. Called'
  <2>1. ToSet(pending) \cup ToSet(db) \subseteq Update \cup Replace
    BY DEF ServerInv, TypeOK, ToSet
  <2>2. \A x \in ToSet(pending') \cup ToSet(db') : outcome'[x] # "none"
    BY <1>2, <1>5, <1>6, <2>1 DEF ServerInv, Called
  <2>3. ASSUME NEW s \in Scan, outcome'[Save(s)] # "none"
        PROVE  at'[s] \in (Working \ {"collecting"}) \cup {"ended"}
    <3>1. CASE o = Save(s)
      BY <3>1, <1>1, <1>3 DEF Belongs, Working
    <3>2. CASE o # Save(s)
      BY <3>2, <2>3, <1>1, <1>3, <1>6, Calls DEF ServerInv, Called, Onwards
    <3>. QED
      BY <3>1, <3>2
  <2>4. ASSUME NEW s \in Scheduled, outcome'[Notify(s)] # "none"
        PROVE  at'[s] \in {"notifying", "ended"}
    <3>1. CASE o = Notify(s)
      BY <3>1, <1>1, <1>3 DEF Belongs
    <3>2. CASE o # Notify(s)
      BY <3>2, <2>4, <1>1, <1>3, <1>6, Calls DEF ServerInv, Called, Onwards
    <3>. QED
      BY <3>1, <3>2
  <2>5. ASSUME NEW e \in Edit, outcome'[Change(e)] # "none"
        PROVE  at'[e] \in {"changing", "ended"}
    <3>1. CASE o = Change(e)
      BY <3>1, <1>1, <1>3 DEF Belongs
    <3>2. CASE o # Change(e)
      BY <3>2, <2>5, <1>1, <1>3, <1>6, Calls DEF ServerInv, Called, Onwards
    <3>. QED
      BY <3>1, <3>2
  <2>. QED
    BY <2>2, <2>3, <2>4, <2>5 DEF Called
<1>12. Fresh'
  BY <1>1, <1>2, <1>3, <1>8 DEF ServerInv, Fresh
<1>13. Stamped'
  BY <1>2, <1>5 DEF ServerInv, Stamped, Belongs
<1>14. OfSchedule'
  BY <1>1, <1>2, <1>3 DEF ServerInv, OfSchedule
<1>. QED
  BY <1>5, <1>6, <1>8, <1>9, <1>10, <1>11, <1>12, <1>13, <1>14

\* The store reports an update, and its caller goes on.
LEMMA ReportStep ==
    ASSUME ServerInv, UNCHANGED <<mutating, generation, gen, seen, born, settings>>,
           NEW o \in Update, Store!Report(o),
           NEW r \in Request, NEW p, at' = [at EXCEPT ![r] = p], Onwards(at[r], p), p = "new" <=> at[r] = "new",
           p \in Working => at[r] \in Working, p = "read" => at[r] = "read",
           r \in Scheduled /\ p \in PastSave => at[r] \in PastSave \/ (o = Save(r) /\ applied)
    PROVE  /\ NoneAhead' /\ RuntimeBehind' /\ Written' /\ Called' /\ Fresh' /\ Stamped' /\ OfSchedule'
           /\ pending' \in Seq(Update \cup Replace) /\ applied' \in BOOLEAN
           /\ outcome' \in [Update \cup Replace -> {"none", "pending", "done", "failed"}]
<1>1. Scan \subseteq Request /\ Edit \subseteq Request /\ Scheduled \subseteq Scan
  BY DEF Request, Scan
<1>2. /\ pending # <<>> /\ o = Head(pending) /\ pending' = Tail(pending)
      /\ outcome' = [outcome EXCEPT ![o] = IF applied THEN "done" ELSE "failed"]
      /\ applied' = FALSE /\ db' = db
  BY DEF Store!Report
<1>3. \A x \in Request : at'[x] = IF x = r THEN p ELSE at[x]
  BY DEF ServerInv, TypeOK
<1>4. pending \in Seq(Update \cup Replace) /\ Len(pending) \in Nat
  BY DEF ServerInv, TypeOK
<1>5. /\ pending' \in Seq(Update \cup Replace) /\ ToSet(pending') \subseteq ToSet(pending)
      /\ o \in ToSet(pending) /\ Len(pending') = Len(pending) - 1 /\ Len(pending) >= 1
      /\ \A i \in 1..Len(pending') : pending'[i] = pending[i + 1]
  BY <1>2, <1>4, Removed
<1>6. /\ outcome' \in [Update \cup Replace -> {"none", "pending", "done", "failed"}]
      /\ \A x \in Update \cup Replace : outcome'[x] # "none" <=> outcome[x] # "none"
  BY <1>2, <1>5 DEF ServerInv, TypeOK, Called
<1>7. ~Window /\ ~Window'
  BY <1>2, Calls DEF Window
<1>8. NoneAhead'
  BY DEF ServerInv, NoneAhead
<1>9. RuntimeBehind'
  <2>. SUFFICES ASSUME NEW i \in 1..Len(pending'), pending'[i] \in Replace
               PROVE  mutating /\ \A j \in 1..Len(pending') : i < j => pending'[j] \in Runtime
    BY DEF RuntimeBehind
  <2>1. i + 1 \in 1..Len(pending) /\ pending[i + 1] \in Replace
    BY <1>4, <1>5
  <2>2. mutating /\ \A j \in 1..Len(pending) : i + 1 < j => pending[j] \in Runtime
    BY <2>1 DEF ServerInv, RuntimeBehind
  <2>3. ASSUME NEW j \in 1..Len(pending'), i < j PROVE pending'[j] \in Runtime
    <3>1. j + 1 \in 1..Len(pending) /\ i + 1 < j + 1
      BY <1>4, <1>5, <2>3
    <3>. QED
      BY <1>5, <2>2, <3>1
  <2>. QED
    BY <2>2, <2>3
<1>10. Called'
  <2>1. ToSet(pending) \cup ToSet(db) \subseteq Update \cup Replace
    BY DEF ServerInv, TypeOK, ToSet
  <2>2. \A x \in ToSet(pending') \cup ToSet(db') : outcome'[x] # "none"
    BY <1>2, <1>5, <1>6, <2>1 DEF ServerInv, Called
  <2>3. \A s \in Scan : outcome'[Save(s)] # "none" => at'[s] \in (Working \ {"collecting"}) \cup {"ended"}
    BY <1>1, <1>3, <1>6, Calls DEF ServerInv, Called, Onwards
  <2>4. \A s \in Scheduled : outcome'[Notify(s)] # "none" => at'[s] \in {"notifying", "ended"}
    BY <1>1, <1>3, <1>6, Calls DEF ServerInv, Called, Onwards
  <2>5. \A e \in Edit : outcome'[Change(e)] # "none" => at'[e] \in {"changing", "ended"}
    BY <1>1, <1>3, <1>6, Calls DEF ServerInv, Called, Onwards
  <2>. QED
    BY <2>2, <2>3, <2>4, <2>5 DEF Called
<1>11. Fresh'
  BY <1>1, <1>2, <1>3, <1>7 DEF ServerInv, Fresh
<1>12. Stamped' /\ Written'
  BY <1>2, <1>5 DEF ServerInv, Stamped, Written
<1>13. OfSchedule'
  <2>1. r \in Scheduled /\ o = Save(r) /\ applied => Save(r) \in ToSet(db)
    BY <1>1, <1>2, Calls DEF ServerInv, Written
  <2>. QED
    BY <1>1, <1>2, <1>3, <2>1 DEF ServerInv, OfSchedule
<1>. QED
  BY <1>2, <1>5, <1>6, <1>8, <1>9, <1>10, <1>11, <1>12, <1>13
-----------------------------------------------------------------------------
\* A scan at work has captured the generation of today, and there is no window.
LEMMA AtWork ==
    ASSUME ServerInv, NEW s \in Scan, at[s] \in Working
    PROVE  /\ ~mutating /\ gen[s] = generation /\ settings[s] = Epoch(db)
           /\ s \in Manual => born[s] = Epoch(db)
<1>1. holder = s /\ holder # None
  BY ServerAssumption DEF ServerInv, SlotHeld, Scan
<1>2. ~mutating /\ gen[s] = generation
  BY <1>1 DEF ServerInv, SlotHeld
<1>3. ~Window /\ s \in Request /\ at[s] # "new"
  BY <1>2, NoWindow DEF Working, Request
<1>. QED
  BY <1>2, <1>3, ServerAssumption DEF ServerInv, Fresh

\* A place of a scan that has nothing to do with notifications.
LEMMA PlaceKept ==
    ASSUME TypeOK, OnlyScheduled, NEW r \in Request, NEW p \in Place, at' = [at EXCEPT ![r] = p],
           r \in Scan /\ p \in PastSave => r \in Scheduled
    PROVE  OnlyScheduled' /\ at' \in [Request -> Place]
<1>1. Scan \subseteq Request
  BY DEF Request
<1>2. \A x \in Request : at'[x] = IF x = r THEN p ELSE at[x]
  BY DEF TypeOK
<1>. QED
  BY <1>1, <1>2 DEF OnlyScheduled, TypeOK

\* A request goes on, and neither the store nor the slot is concerned.
LEMMA Goes ==
    ASSUME ServerInv, UNCHANGED <<mutating, generation, store, slot, found, runtime>>,
           NEW r \in Request, NEW p \in Place, at' = [at EXCEPT ![r] = p], p # "new", Onwards(at[r], p),
           at[r] \in Working <=> p \in Working,
           r \in Scan /\ p \in PastSave => r \in Scheduled /\ at[r] \in PastSave,
           gen' \in {gen, [gen EXCEPT ![r] = generation]}, born' \in {born, [born EXCEPT ![r] = Epoch(db)]},
           \/ r \in Scheduled
           \/ at[r] # "new" /\ UNCHANGED <<gen, born>>
           \/ at[r] = "new" /\ gen' = [gen EXCEPT ![r] = generation] /\ born' = [born EXCEPT ![r] = Epoch(db)],
           p \in Working \cup {"read"} => gen' = gen /\ r \in Scan,
           seen' \in {seen, [seen EXCEPT ![r] = db], [seen EXCEPT ![r] = <<>>]},
           settings' \in {settings, [settings EXCEPT ![r] = Epoch(db)]},
           p = "read" => seen' = [seen EXCEPT ![r] = db] /\ settings' = [settings EXCEPT ![r] = Epoch(db)],
           after' \in {after, [after EXCEPT ![r] = ToSet(pending)], [after EXCEPT ![r] = {}]}
    PROVE  ServerInv'
<1>1. /\ Epoch(db) \in Replace \cup {First} /\ ToSet(pending) \subseteq Update \cup Replace
      /\ Scheduled \subseteq Request /\ Scan \subseteq Request
  BY DEF Epoch, ServerInv, TypeOK, ToSet, Request, Scan
<1>2. /\ generation \in Nat /\ db \in Seq(Update \cup Replace) /\ at \in [Request -> Place]
      /\ gen \in [Request -> Nat] /\ seen \in [Request -> Seq(Update \cup Replace)]
      /\ born \in [Request -> Replace \cup {First}] /\ after \in [Request -> SUBSET (Update \cup Replace)]
      /\ settings \in [Scan -> Replace \cup {First}]
  BY DEF ServerInv, TypeOK
<1>3. /\ gen' \in [Request -> Nat] /\ seen' \in [Request -> Seq(Update \cup Replace)]
      /\ born' \in [Request -> Replace \cup {First}] /\ after' \in [Request -> SUBSET (Update \cup Replace)]
      /\ settings' \in [Scan -> Replace \cup {First}]
  <2>1. gen' \in [Request -> Nat]
    BY <1>2
  <2>2. born' \in [Request -> Replace \cup {First}]
    BY <1>1, <1>2
  <2>3. seen' \in [Request -> Seq(Update \cup Replace)]
    <3>1. <<>> \in Seq(Update \cup Replace)
      OBVIOUS
    <3>. QED
      BY <1>2, <3>1
  <2>4. after' \in [Request -> SUBSET (Update \cup Replace)]
    BY <1>1, <1>2
  <2>5. settings' \in [Scan -> Replace \cup {First}]
    BY <1>1, <1>2
  <2>. QED
    BY <2>1, <2>2, <2>3, <2>4, <2>5
<1>4. /\ \A x \in Request : x # r => gen'[x] = gen[x] /\ seen'[x] = seen[x] /\ born'[x] = born[x]
      /\ \A x \in Scan : settings'[x] = settings[x] \/ (x = r /\ settings'[x] = Epoch(db))
      /\ gen'[r] \in {gen[r], generation} /\ (p = "read" => seen'[r] = db)
      /\ p \in Working \cup {"read"} =>
            gen'[r] = gen[r] /\ (settings'[r] = Epoch(db) \/ at[r] \in Working \cup {"read"})
  <2>1. \A x \in Request : x # r => gen'[x] = gen[x] /\ seen'[x] = seen[x] /\ born'[x] = born[x]
    BY <1>2
  <2>2. \A x \in Scan : settings'[x] = settings[x] \/ (x = r /\ settings'[x] = Epoch(db))
    BY <1>2
  <2>3. gen'[r] \in {gen[r], generation} /\ (p = "read" => seen'[r] = db)
    BY <1>2
  <2>4. p \in Working \cup {"read"} =>
            gen'[r] = gen[r] /\ (settings'[r] = Epoch(db) \/ at[r] \in Working \cup {"read"})
    BY <1>2
  <2>. QED
    BY <2>1, <2>2, <2>3, <2>4
<1>5. \/ r \in Scheduled
      \/ at[r] # "new" /\ gen'[r] = gen[r] /\ born'[r] = born[r]
      \/ at[r] = "new" /\ gen'[r] = generation /\ born'[r] = Epoch(db)
  BY <1>2
<1>6. r \in Scheduled /\ p \in Working => HadScheduleEnabled(db)
  BY DEF ServerInv, OfSchedule
<1>7. p \in PastSave => at[r] \in PastSave
  BY DEF PastSave, Working
<1>8. NoneAhead' /\ RuntimeBehind' /\ Written' /\ Called' /\ Fresh' /\ Stamped' /\ OfSchedule'
  BY <1>4, <1>5, <1>6, <1>7, LocalStep
<1>9. OnlyScheduled' /\ at' \in [Request -> Place]
  BY PlaceKept DEF ServerInv
<1>10. SlotHeld'
  <2>1. \A x \in Request : x # r \/ at[x] \in Working => gen'[x] = gen[x]
    BY <1>4
  <2>. QED
    BY <2>1, SlotKept DEF ServerInv, slot
<1>11. TypeOK'
  BY <1>3, <1>9 DEF ServerInv, TypeOK, store, slot, Slot!TypeOK
<1>. QED
  BY <1>8, <1>9, <1>10, <1>11 DEF ServerInv

\* The task of a scan ends, and the store is not concerned.
LEMMA Ends ==
    ASSUME ServerInv, NEW s \in Scan, NEW returned \in BOOLEAN, EndTask(s, returned),
           UNCHANGED <<mutating, generation, store, gen, born, settings, runtime>>, found' \subseteq Scan,
           seen' \in {seen, [seen EXCEPT ![s] = <<>>]}, after' \in {after, [after EXCEPT ![s] = {}]}
    PROVE  ServerInv'
<1>1. s \in Request /\ "ended" \in Place
  BY DEF Request, Place
<1>2. /\ SlotHeld' /\ Slot!TypeOK' /\ at[s] \in Working /\ at' = [at EXCEPT ![s] = "ended"]
  BY SlotFreed DEF ServerInv
<1>3. OnlyScheduled' /\ at' \in [Request -> Place]
  BY <1>1, <1>2, PlaceKept DEF ServerInv, PastSave
<1>4. NoneAhead' /\ RuntimeBehind' /\ Written' /\ Called' /\ Fresh' /\ Stamped' /\ OfSchedule'
  <2>1. Onwards(at[s], "ended") /\ at[s] # "new" /\ "ended" \notin Working \cup PastSave \cup {"read", "new"}
    BY <1>2 DEF Onwards, Working, PastSave
  <2>2. \A x \in Request : x # s => seen'[x] = seen[x]
    BY DEF ServerInv, TypeOK
  <2>. QED
    BY <1>1, <1>2, <2>1, <2>2, LocalStep
<1>5. TypeOK'
  <2>1. after' \in [Request -> SUBSET (Update \cup Replace)] /\ seen' \in [Request -> Seq(Update \cup Replace)]
    <3>1. <<>> \in Seq(Update \cup Replace)
      OBVIOUS
    <3>. QED
      BY <3>1 DEF ServerInv, TypeOK
  <2>. QED
    BY <1>2, <1>3, <2>1 DEF ServerInv, TypeOK, store
<1>. QED
  BY <1>2, <1>3, <1>4, <1>5 DEF ServerInv

\* The invariant speaks of the variables of the server only.
LEMMA Stutters == ASSUME ServerInv, UNCHANGED vars PROVE ServerInv'
<1>. USE DEF vars, store, slot, local
<1>1. TypeOK' /\ SlotHeld' /\ OnlyScheduled'
  BY DEF ServerInv, TypeOK, Slot!TypeOK, SlotHeld, OnlyScheduled
<1>2. NoneAhead' /\ RuntimeBehind' /\ Written' /\ Called' /\ Stamped' /\ OfSchedule'
  BY DEF ServerInv, NoneAhead, RuntimeBehind, Written, Called, Stamped, OfSchedule
<1>3. Fresh'
  BY DEF ServerInv, Fresh, Window
<1>. QED
  BY <1>1, <1>2, <1>3 DEF ServerInv
-----------------------------------------------------------------------------
\* A scan gets the slot: its generation is the one of today.
LEMMA AdmitStep == ASSUME ServerInv, NEW s \in Scan, Admit(s) PROVE ServerInv'
<1>1. Scan \subseteq Request /\ "collecting" \in Place
  BY DEF Request, Place
<1>2. /\ at[s] = "read" /\ at' = [at EXCEPT ![s] = "collecting"] /\ ~mutating /\ gen[s] = generation
      /\ s \in Scheduled => ScheduleEnabled(seen[s])
      /\ holder = None /\ holder' = s /\ UNCHANGED <<asked, verdict>>
      /\ UNCHANGED <<mutating, generation, store, gen, after, found, runtime, born, settings>>
      /\ seen' = [seen EXCEPT ![s] = <<>>] /\ seen' \in [Request -> Seq(Update \cup Replace)]
  <2>1. seen \in [Request -> Seq(Update \cup Replace)] /\ <<>> \in Seq(Update \cup Replace)
    BY DEF ServerInv, TypeOK
  <2>. QED
    BY <2>1 DEF Admit, Admissible, Current, Slot!Admit
<1>3. SlotHeld'
  <2>1. \A t \in Scan : at[t] \notin Working
    BY <1>2, ServerAssumption DEF ServerInv, SlotHeld, Scan
  <2>2. \A t \in Scan : at'[t] = IF t = s THEN "collecting" ELSE at[t]
    BY <1>1, <1>2 DEF ServerInv, TypeOK
  <2>3. \A t \in Scan : s = t <=> at'[t] \in Working
    BY <2>1, <2>2 DEF Working
  <2>. QED
    BY <1>2, <2>3 DEF SlotHeld
<1>4. OnlyScheduled' /\ at' \in [Request -> Place]
  BY <1>1, <1>2, PlaceKept DEF ServerInv, PastSave
<1>5. NoneAhead' /\ RuntimeBehind' /\ Written' /\ Called' /\ Fresh' /\ Stamped' /\ OfSchedule'
  <2>1. Onwards(at[s], "collecting") /\ at[s] # "new" /\ at[s] \in Working \cup {"read"} /\ "collecting" \notin PastSave
    BY <1>2 DEF Onwards, Working, PastSave
  <2>2. ASSUME s \in Scheduled PROVE HadScheduleEnabled(db)
    <3>1. seen[s] \in Seq(Update \cup Replace)
      BY <1>1 DEF ServerInv, TypeOK
    <3>2. HadScheduleEnabled(seen[s])
      BY <1>2, <2>2, <3>1, BeganWith
    <3>3. Epoch(seen[s]) = Epoch(db) /\ ToSet(seen[s]) \subseteq ToSet(db)
      BY <1>2, NoWindow DEF ServerInv, Fresh
    <3>. QED
      BY <3>2, <3>3, StillHad
  <2>. QED
    BY <1>1, <1>2, <2>1, <2>2, LocalStep
<1>6. TypeOK'
  BY <1>2, <1>4 DEF ServerInv, TypeOK, Slot!TypeOK, store
<1>. QED
  BY <1>3, <1>4, <1>5, <1>6 DEF ServerInv

\* The collectors of a scan have returned, and its snapshot is to be saved.
LEMMA SaveStep ==
    ASSUME ServerInv, NEW s \in Scan, at[s] = "collecting", Store!Call(Save(s)), found' \subseteq Scan,
           at' = [at EXCEPT ![s] = "saving"], UNCHANGED <<mutating, generation, slot, gen, seen, after, runtime, born, settings>>
    PROVE  ServerInv'
<1>1. s \in Request /\ "saving" \in Place /\ Save(s) \in Update
  BY Calls DEF Request, Place
<1>2. /\ ~mutating /\ settings[s] = Epoch(db)
      /\ s \in Manual => born[s] = Epoch(db)
      /\ s \in Scheduled => HadScheduleEnabled(db)
  BY AtWork DEF Working, ServerInv, OfSchedule
<1>3. /\ NoneAhead' /\ RuntimeBehind' /\ Written' /\ Called' /\ Fresh' /\ Stamped' /\ OfSchedule'
      /\ pending' \in Seq(Update \cup Replace)
      /\ outcome' \in [Update \cup Replace -> {"none", "pending", "done", "failed"}]
  <2>1. Onwards(at[s], "saving") /\ at[s] # "new" /\ at[s] \in Working /\ "saving" \notin PastSave
    BY DEF Onwards, Working, PastSave
  <2>2. Belongs(Save(s), s, "saving")
    BY <1>2, Calls DEF Belongs, Scan
  <2>. QED
    BY <1>1, <1>2, <2>1, <2>2, CallStep
<1>4. OnlyScheduled' /\ at' \in [Request -> Place]
  BY <1>1, PlaceKept DEF ServerInv, PastSave
<1>5. SlotHeld'
  BY <1>1, SlotKept DEF ServerInv, slot, Working
<1>6. TypeOK'
  BY <1>3, <1>4 DEF ServerInv, TypeOK, Slot!TypeOK, slot, Store!Call
<1>. QED
  BY <1>3, <1>4, <1>5, <1>6 DEF ServerInv

\* A new port is to be notified.
LEMMA NotifyStep ==
    ASSUME ServerInv, NEW s \in Scan, at[s] = "reread", Store!Call(Notify(s)),
           at' = [at EXCEPT ![s] = "notifying"], seen' = [seen EXCEPT ![s] = <<>>],
           UNCHANGED <<mutating, generation, slot, gen, after, found, runtime, born, settings>>
    PROVE  ServerInv'
<1>1. s \in Request /\ "notifying" \in Place /\ s \in Scheduled /\ Notify(s) \in Update
  BY Calls DEF Request, Place, ServerInv, OnlyScheduled, PastSave
<1>2. ~mutating /\ Save(s) \in ToSet(db)
  BY <1>1, AtWork DEF Working, PastSave, ServerInv, OfSchedule
<1>3. /\ NoneAhead' /\ RuntimeBehind' /\ Written' /\ Called' /\ Fresh' /\ Stamped' /\ OfSchedule'
      /\ pending' \in Seq(Update \cup Replace)
      /\ outcome' \in [Update \cup Replace -> {"none", "pending", "done", "failed"}]
  <2>1. Onwards(at[s], "notifying") /\ at[s] # "new" /\ at[s] \in Working /\ at[s] \in PastSave
    BY DEF Onwards, Working, PastSave
  <2>2. Belongs(Notify(s), s, "notifying")
    BY <1>1, <1>2, Calls DEF Belongs, Scan
  <2>3. \A x \in Request : x # s => seen'[x] = seen[x]
    BY DEF ServerInv, TypeOK
  <2>. QED
    BY <1>1, <1>2, <2>1, <2>2, <2>3, CallStep
<1>4. OnlyScheduled' /\ at' \in [Request -> Place]
  BY <1>1, PlaceKept DEF ServerInv
<1>5. SlotHeld'
  BY <1>1, SlotKept DEF ServerInv, slot, Working
<1>6. TypeOK'
  BY <1>3, <1>4 DEF ServerInv, TypeOK, Slot!TypeOK, slot, Store!Call
<1>. QED
  BY <1>3, <1>4, <1>5, <1>6 DEF ServerInv

\* An edit calls the store, outside maintenance and for the database of today.
LEMMA ChangingStep == ASSUME ServerInv, NEW e \in Edit, Changing(e) PROVE ServerInv'
<1>1. e \in Request /\ "changing" \in Place /\ Change(e) \in Update
  BY Calls DEF Request, Place
<1>2. /\ at[e] = "body" /\ ~mutating /\ gen[e] = generation
      /\ Store!Call(Change(e)) /\ at' = [at EXCEPT ![e] = "changing"]
      /\ UNCHANGED <<mutating, generation, slot, gen, seen, after, found, runtime, born, settings>>
  BY DEF Changing, Current
<1>3. born[e] = Epoch(db)
  BY <1>1, <1>2, NoWindow, ServerAssumption DEF ServerInv, Fresh, Scan
<1>4. /\ NoneAhead' /\ RuntimeBehind' /\ Written' /\ Called' /\ Fresh' /\ Stamped' /\ OfSchedule'
      /\ pending' \in Seq(Update \cup Replace)
      /\ outcome' \in [Update \cup Replace -> {"none", "pending", "done", "failed"}]
  <2>1. Onwards(at[e], "changing") /\ at[e] # "new" /\ "changing" \notin Working \cup PastSave \cup {"read", "new"}
    BY <1>2 DEF Onwards, Working, PastSave
  <2>2. Belongs(Change(e), e, "changing")
    BY <1>3, Calls DEF Belongs, Scan
  <2>. QED
    BY <1>1, <1>2, <2>1, <2>2, CallStep
<1>5. OnlyScheduled' /\ at' \in [Request -> Place]
  BY <1>1, <1>2, PlaceKept DEF ServerInv, PastSave
<1>6. SlotHeld'
  BY <1>1, <1>2, SlotKept DEF ServerInv, slot, Working
<1>7. TypeOK'
  BY <1>2, <1>4, <1>5 DEF ServerInv, TypeOK, Slot!TypeOK, slot, Store!Call
<1>. QED
  BY <1>4, <1>5, <1>6, <1>7 DEF ServerInv
\* A run of the schedule writes its runtime, at any time.
LEMMA RuntimeCall ==
    ASSUME ServerInv, NEW s \in Scheduled, NEW o \in Runtime, Store!Call(o), at[s] \notin {"new", "read"},
           NEW q \in {"announcing", "recording"}, runtime' = [runtime EXCEPT ![s] = q],
           UNCHANGED <<mutating, generation, slot, at, gen, seen, after, found, born, settings>>
    PROVE  ServerInv'
<1>1. s \in Request /\ s \in Scan /\ o \in Update /\ at' = [at EXCEPT ![s] = at[s]]
  BY Calls DEF Request, Scan, ServerInv, TypeOK
<1>2. /\ NoneAhead' /\ RuntimeBehind' /\ Written' /\ Called' /\ Fresh' /\ Stamped' /\ OfSchedule'
      /\ pending' \in Seq(Update \cup Replace)
      /\ outcome' \in [Update \cup Replace -> {"none", "pending", "done", "failed"}]
  <2>1. Onwards(at[s], at[s]) /\ (at[s] \in Working \cup {"read"} => at[s] \in Working)
    BY DEF Onwards
  <2>2. Belongs(o, s, at[s])
    BY Calls DEF Belongs, Scan
  <2>. QED
    BY <1>1, <2>1, <2>2, CallStep
<1>3. SlotHeld' /\ OnlyScheduled'
  BY DEF ServerInv, SlotHeld, OnlyScheduled, slot
<1>4. TypeOK'
  BY <1>2 DEF ServerInv, TypeOK, Slot!TypeOK, slot, Store!Call
<1>. QED
  BY <1>2, <1>3, <1>4 DEF ServerInv

\* Its call is reported, and it goes on with the scan or ends.
LEMMA RuntimeReport ==
    ASSUME ServerInv, NEW s \in Scheduled, NEW o \in Runtime, Store!Report(o),
           NEW q \in {"announced", "over"}, runtime' = [runtime EXCEPT ![s] = q],
           UNCHANGED <<mutating, generation, slot, at, gen, seen, after, found, born, settings>>
    PROVE  ServerInv'
<1>1. s \in Request /\ o \in Update /\ at' = [at EXCEPT ![s] = at[s]]
  BY Calls DEF Request, Scan, ServerInv, TypeOK
<1>2. /\ NoneAhead' /\ RuntimeBehind' /\ Written' /\ Called' /\ Fresh' /\ Stamped' /\ OfSchedule'
      /\ pending' \in Seq(Update \cup Replace) /\ applied' \in BOOLEAN
      /\ outcome' \in [Update \cup Replace -> {"none", "pending", "done", "failed"}]
  <2>1. Onwards(at[s], at[s])
    BY DEF Onwards
  <2>. QED
    BY <1>1, <2>1, ReportStep
<1>3. SlotHeld' /\ OnlyScheduled'
  BY DEF ServerInv, SlotHeld, OnlyScheduled, slot
<1>4. TypeOK'
  BY <1>2 DEF ServerInv, TypeOK, Slot!TypeOK, slot, Store!Report
<1>. QED
  BY <1>2, <1>3, <1>4 DEF ServerInv
-----------------------------------------------------------------------------
\* The store reports the last call of a task, which ends.
LEMMA LastReport ==
    ASSUME ServerInv, NEW s \in Scan, at[s] \in Working, NEW o \in Update, Store!Report(o),
           NEW returned \in BOOLEAN, EndTask(s, returned),
           UNCHANGED <<mutating, generation, gen, seen, after, found, runtime, born, settings>>
    PROVE  ServerInv'
<1>1. s \in Request /\ "ended" \in Place
  BY DEF Request, Place
<1>2. SlotHeld' /\ Slot!TypeOK' /\ at' = [at EXCEPT ![s] = "ended"]
  BY SlotFreed DEF ServerInv
<1>3. OnlyScheduled' /\ at' \in [Request -> Place]
  BY <1>1, <1>2, PlaceKept DEF ServerInv, PastSave
<1>4. /\ NoneAhead' /\ RuntimeBehind' /\ Written' /\ Called' /\ Fresh' /\ Stamped' /\ OfSchedule'
      /\ pending' \in Seq(Update \cup Replace) /\ applied' \in BOOLEAN
      /\ outcome' \in [Update \cup Replace -> {"none", "pending", "done", "failed"}]
  <2>1. Onwards(at[s], "ended") /\ at[s] # "new" /\ "ended" \notin Working \cup PastSave \cup {"read", "new"}
    BY DEF Onwards, Working, PastSave
  <2>. QED
    BY <1>1, <1>2, <2>1, ReportStep
<1>5. TypeOK'
  BY <1>2, <1>3, <1>4 DEF ServerInv, TypeOK, Store!Report
<1>. QED
  BY <1>2, <1>3, <1>4, <1>5 DEF ServerInv

\* The snapshot is saved, or the save failed: the history is read, or the task ends.
LEMMA SavedStep == ASSUME ServerInv, NEW s \in Scan, Saved(s) PROVE ServerInv'
<1>1. /\ at[s] = "saving" /\ Store!Report(Save(s)) /\ Save(s) \in Update
      /\ UNCHANGED <<mutating, generation, gen, seen, found, runtime, born, settings>>
  BY Calls DEF Saved
<1>2. CASE applied /\ s \in Scheduled \ asked
  <2>1. /\ s \in Request /\ "rereading" \in Place /\ UNCHANGED slot
        /\ at' = [at EXCEPT ![s] = "rereading"] /\ after' = [after EXCEPT ![s] = ToSet(pending)]
    BY <1>2 DEF Saved, CallRead, Request, Place
  <2>2. OnlyScheduled' /\ at' \in [Request -> Place]
    BY <1>2, <2>1, PlaceKept DEF ServerInv
  <2>3. /\ NoneAhead' /\ RuntimeBehind' /\ Written' /\ Called' /\ Fresh' /\ Stamped' /\ OfSchedule'
        /\ pending' \in Seq(Update \cup Replace) /\ applied' \in BOOLEAN
        /\ outcome' \in [Update \cup Replace -> {"none", "pending", "done", "failed"}]
    <3>1. Onwards(at[s], "rereading") /\ at[s] # "new" /\ at[s] \in Working
      BY <1>1 DEF Onwards, Working
    <3>. QED
      BY <1>1, <1>2, <2>1, <3>1, ReportStep
  <2>4. SlotHeld'
    BY <1>1, <2>1, SlotKept DEF ServerInv, slot, Working
  <2>5. after' \in [Request -> SUBSET (Update \cup Replace)]
    <3>1. ToSet(pending) \subseteq Update \cup Replace
      BY DEF ServerInv, TypeOK, ToSet
    <3>. QED
      BY <2>1, <3>1 DEF ServerInv, TypeOK
  <2>6. TypeOK'
    BY <1>1, <2>1, <2>2, <2>3, <2>5 DEF ServerInv, TypeOK, Slot!TypeOK, slot, Store!Report
  <2>. QED
    BY <2>2, <2>3, <2>4, <2>6 DEF ServerInv
<1>3. CASE ~(applied /\ s \in Scheduled \ asked)
  <2>1. EndTask(s, applied) /\ UNCHANGED after /\ applied \in BOOLEAN
    BY <1>3 DEF Saved, ServerInv, TypeOK
  <2>. QED
    BY <1>1, <2>1, LastReport DEF Working
<1>. QED
  BY <1>2, <1>3

\* The notifications are appended, and the task ends.
LEMMA NotifiedStep == ASSUME ServerInv, NEW s \in Scan, Notified(s) PROVE ServerInv'
<1>1. /\ at[s] = "notifying" /\ Store!Report(Notify(s)) /\ EndTask(s, applied)
      /\ UNCHANGED <<mutating, generation, gen, seen, after, found, runtime, born, settings>>
  BY DEF Notified
<1>2. Notify(s) \in Update /\ applied \in BOOLEAN
  BY <1>1, Calls DEF ServerInv, OnlyScheduled, PastSave, TypeOK
<1>. QED
  BY <1>1, <1>2, LastReport DEF Working

\* An edit is reported, and its request answered.
LEMMA ChangedStep == ASSUME ServerInv, NEW e \in Edit, Changed(e) PROVE ServerInv'
<1>1. /\ at[e] = "changing" /\ Store!Report(Change(e)) /\ at' = [at EXCEPT ![e] = "ended"]
      /\ UNCHANGED <<mutating, generation, slot, gen, seen, after, found, runtime, born, settings>>
      /\ Change(e) \in Update /\ e \in Request /\ "ended" \in Place
  BY Calls DEF Changed, Request, Place
<1>2. OnlyScheduled' /\ at' \in [Request -> Place]
  BY <1>1, PlaceKept DEF ServerInv, PastSave
<1>3. /\ NoneAhead' /\ RuntimeBehind' /\ Written' /\ Called' /\ Fresh' /\ Stamped' /\ OfSchedule'
      /\ pending' \in Seq(Update \cup Replace) /\ applied' \in BOOLEAN
      /\ outcome' \in [Update \cup Replace -> {"none", "pending", "done", "failed"}]
  <2>1. Onwards(at[e], "ended") /\ at[e] # "new" /\ "ended" \notin Working \cup PastSave \cup {"read", "new"}
    BY <1>1 DEF Onwards, Working, PastSave
  <2>. QED
    BY <1>1, <2>1, ReportStep
<1>4. SlotHeld'
  BY <1>1, SlotKept DEF ServerInv, slot, Working
<1>5. TypeOK'
  BY <1>1, <1>2, <1>3 DEF ServerInv, TypeOK, Slot!TypeOK, slot, Store!Report
<1>. QED
  BY <1>2, <1>3, <1>4, <1>5 DEF ServerInv
-----------------------------------------------------------------------------
\* Maintenance begins when nobody holds the slot, and calls the replacement last.
LEMMA ReplacingStep == ASSUME ServerInv, NEW m \in Maintenance, Replacing(m) PROVE ServerInv'
<1>0. PICK left \in Left : Store!Call(Replacement(m, left))
  BY DEF Replacing
<1>. DEFINE o == Replacement(m, left)
<1>1. /\ at[m] = "body" /\ ~mutating /\ holder = None /\ mutating' = TRUE /\ Store!Call(o)
      /\ at' = [at EXCEPT ![m] = "replacing"] /\ UNCHANGED <<generation, slot, gen, seen, after, found, runtime, born, settings>>
      /\ o \in Replace /\ m \in Request /\ "replacing" \in Place
  BY <1>0, Calls DEF Replacing, Current, Request, Place
<1>. HIDE DEF o
<1>2. /\ pending' = Append(pending, o) /\ outcome' = [outcome EXCEPT ![o] = "pending"] /\ UNCHANGED <<db, applied>>
  BY <1>1 DEF Store!Call
<1>3. Scan \subseteq Request /\ Scheduled \subseteq Scan /\ Edit \subseteq Request
  BY DEF Request, Scan
<1>4. pending \in Seq(Update \cup Replace) /\ Len(pending) \in Nat
  BY DEF ServerInv, TypeOK
<1>5. /\ pending' \in Seq(Update \cup Replace) /\ ToSet(pending') = ToSet(pending) \cup {o}
      /\ Len(pending') = Len(pending) + 1
      /\ \A i \in 1..Len(pending) : pending'[i] = pending[i]
  BY <1>1, <1>2, <1>4, Appended
<1>6. \A x \in Request : at'[x] = IF x = m THEN "replacing" ELSE at[x]
  BY <1>1 DEF ServerInv, TypeOK
<1>7. OnlyScheduled' /\ at' \in [Request -> Place]
  BY <1>1, PlaceKept DEF ServerInv, PastSave
<1>8. SlotHeld'
  <2>1. \A s \in Scan : at[s] \notin Working /\ s # None
    BY <1>1, ServerAssumption DEF ServerInv, SlotHeld, Scan
  <2>2. \A s \in Scan : at'[s] \notin Working
    BY <1>3, <1>6, <2>1 DEF Working
  <2>. QED
    BY <1>1, <2>1, <2>2 DEF SlotHeld, slot
<1>9. NoneAhead'
  BY <1>1 DEF ServerInv, NoneAhead
<1>10. RuntimeBehind'
  <2>1. ASSUME NEW i \in 1..Len(pending'), pending'[i] \in Replace PROVE i = Len(pending')
    <3>1. i \notin 1..Len(pending)
      BY <1>1, <1>5, <2>1, NoWindow
    <3>. QED
      BY <1>4, <1>5, <3>1
  <2>2. \A j \in 1..Len(pending') : ~(Len(pending') < j)
    BY <1>4, <1>5
  <2>. QED
    BY <1>1, <2>1, <2>2 DEF RuntimeBehind
<1>11. Called'
  <2>1. ToSet(pending) \cup ToSet(db) \subseteq Update \cup Replace
    BY DEF ServerInv, TypeOK, ToSet
  <2>2. \A x \in Update \cup Replace : outcome'[x] = IF x = o THEN "pending" ELSE outcome[x]
    BY <1>2 DEF ServerInv, TypeOK
  <2>3. \A x \in ToSet(pending') \cup ToSet(db') : outcome'[x] # "none"
    BY <1>1, <1>2, <1>5, <2>1, <2>2 DEF ServerInv, Called
  <2>4. \A x \in Update : outcome'[x] = outcome[x]
    BY <1>1, <2>2, Calls
  <2>5. \A s \in Scan : outcome'[Save(s)] # "none" => at'[s] \in (Working \ {"collecting"}) \cup {"ended"}
    BY <1>1, <1>3, <1>6, <2>4, Calls DEF ServerInv, Called, Working
  <2>6. \A s \in Scheduled : outcome'[Notify(s)] # "none" => at'[s] \in {"notifying", "ended"}
    BY <1>1, <1>3, <1>6, <2>4, Calls DEF ServerInv, Called
  <2>7. \A e \in Edit : outcome'[Change(e)] # "none" => at'[e] \in {"changing", "ended"}
    BY <1>1, <1>3, <1>6, <2>4, Calls DEF ServerInv, Called
  <2>. QED
    BY <2>3, <2>5, <2>6, <2>7 DEF Called
<1>12. Fresh'
  <2>1. ~Window
    BY <1>1, NoWindow
  <2>. QED
    BY <1>1, <1>2, <1>3, <1>6, <2>1 DEF ServerInv, Fresh, Working
<1>13. Stamped' /\ OfSchedule'
  <2>1. \A x \in Update : x \in ToSet(pending') \cup ToSet(db') => x \in ToSet(pending) \cup ToSet(db)
    BY <1>1, <1>2, <1>5, Calls
  <2>2. Stamped'
    BY <1>1, <1>2, <2>1, Calls, ServerAssumption DEF ServerInv, Stamped, Scan
  <2>3. OfSchedule'
    BY <1>1, <1>2, <1>3, <1>6 DEF ServerInv, OfSchedule, Working, PastSave
  <2>. QED
    BY <2>2, <2>3
<1>15. Written'
  BY <1>1, <1>2, <1>4, Appended DEF ServerInv, Written
<1>14. TypeOK'
  <2>1. outcome' \in [Update \cup Replace -> {"none", "pending", "done", "failed"}]
    BY <1>2 DEF ServerInv, TypeOK
  <2>. QED
    BY <1>1, <1>2, <1>5, <1>7, <2>1 DEF ServerInv, TypeOK, Slot!TypeOK, slot
<1>. QED
  BY <1>7, <1>8, <1>9, <1>10, <1>11, <1>12, <1>13, <1>14, <1>15 DEF ServerInv

\* Behind a replacement at the head of the queue there are only writes of the runtime.
LEMMA ReplacementAlone ==
    ASSUME ServerInv, pending # <<>>, Head(pending) \in Replace
    PROVE  /\ mutating /\ Tail(pending) \in Seq(Update \cup Replace)
           /\ ToSet(Tail(pending)) \subseteq Runtime
           /\ ToSet(pending) \subseteq {Head(pending)} \cup Runtime
<1>1. /\ pending \in Seq(Update \cup Replace) /\ Len(pending) >= 1 /\ Head(pending) = pending[1]
      /\ Tail(pending) \in Seq(Update \cup Replace) /\ Len(Tail(pending)) = Len(pending) - 1 /\ Len(pending) \in Nat
      /\ \A i \in 1..Len(Tail(pending)) : Tail(pending)[i] = pending[i + 1]
  BY Removed DEF ServerInv, TypeOK
<1>2. mutating /\ \A j \in 1..Len(pending) : 1 < j => pending[j] \in Runtime
  <2>1. 1 \in 1..Len(pending)
    BY <1>1
  <2>. QED
    BY <1>1, <2>1 DEF ServerInv, RuntimeBehind
<1>3. \A i \in 1..Len(Tail(pending)) : Tail(pending)[i] \in Runtime
  BY <1>1, <1>2
<1>4. ToSet(Tail(pending)) \subseteq Runtime
  BY <1>1, <1>3 DEF ToSet
<1>5. \A j \in 1..Len(pending) : pending[j] \in {Head(pending)} \cup Runtime
  <2>1. \A j \in 1..Len(pending) : j = 1 \/ 1 < j
    BY <1>1
  <2>. QED
    BY <1>1, <1>2, <2>1
<1>6. ToSet(pending) \subseteq {Head(pending)} \cup Runtime
  BY <1>1, <1>5 DEF ToSet
<1>. QED
  BY <1>1, <1>2, <1>4, <1>6

\* Maintenance ends: whoever has captured a generation before it is not current any more.
LEMMA ReplacedStep == ASSUME ServerInv, NEW m \in Maintenance, Replaced(m) PROVE ServerInv'
<1>0. PICK left \in Left : Store!Report(Replacement(m, left))
  BY DEF Replaced
<1>. DEFINE o == Replacement(m, left)
<1>1. /\ at[m] = "replacing" /\ Store!Report(o) /\ mutating' = FALSE
      /\ generation' = IF applied THEN generation + 1 ELSE generation
      /\ at' = [at EXCEPT ![m] = "ended"] /\ UNCHANGED <<slot, gen, seen, after, found, runtime, born, settings>>
      /\ o \in Replace /\ m \in Request /\ "ended" \in Place
  BY <1>0, Calls DEF Replaced, Request, Place
<1>. HIDE DEF o
<1>2. /\ pending # <<>> /\ o = Head(pending) /\ pending' = Tail(pending)
      /\ outcome' = [outcome EXCEPT ![o] = IF applied THEN "done" ELSE "failed"]
      /\ applied' = FALSE /\ db' = db
  BY <1>1 DEF Store!Report
<1>3. /\ mutating /\ pending' \in Seq(Update \cup Replace) /\ ToSet(pending') \subseteq Runtime
      /\ \A i \in 1..Len(pending') : pending'[i] \in ToSet(pending')
      /\ ToSet(pending') \subseteq ToSet(pending) /\ ToSet(pending') \cap Replace = {}
  <2>1. /\ mutating /\ pending' \in Seq(Update \cup Replace) /\ ToSet(pending') \subseteq Runtime
    BY <1>1, <1>2, ReplacementAlone
  <2>2. \A i \in 1..Len(pending') : pending'[i] \in ToSet(pending')
    BY <2>1 DEF ToSet
  <2>3. ToSet(pending') \subseteq ToSet(pending)
    BY <1>2, Removed DEF ServerInv, TypeOK
  <2>. QED
    BY <2>1, <2>2, <2>3, Calls
<1>4. Scan \subseteq Request /\ Scheduled \subseteq Scan /\ Edit \subseteq Request
  BY DEF Request, Scan
<1>5. \A x \in Request : at'[x] = IF x = m THEN "ended" ELSE at[x]
  BY <1>1 DEF ServerInv, TypeOK
<1>6. generation' \in Nat /\ generation <= generation' /\ (applied => generation' = generation + 1)
  BY <1>1 DEF ServerInv, TypeOK
<1>7. OnlyScheduled' /\ at' \in [Request -> Place]
  BY <1>1, PlaceKept DEF ServerInv, PastSave
<1>8. SlotHeld'
  <2>1. holder = None /\ \A s \in Scan : at[s] \notin Working /\ s # None
    BY <1>3, ServerAssumption DEF ServerInv, SlotHeld, Scan
  <2>2. \A s \in Scan : at'[s] \notin Working
    BY <1>4, <1>5, <2>1 DEF Working
  <2>. QED
    BY <1>1, <2>1, <2>2 DEF SlotHeld, slot
<1>9. \A r \in Request : gen'[r] = gen[r] /\ gen[r] \in Nat /\ gen[r] <= generation
  BY <1>1 DEF ServerInv, TypeOK, NoneAhead
<1>10. NoneAhead'
  <2>1. generation \in Nat
    BY DEF ServerInv, TypeOK
  <2>2. \A r \in Request : gen'[r] <= generation'
    BY <1>6, <1>9, <2>1
  <2>. QED
    BY <2>2 DEF NoneAhead
<1>11. RuntimeBehind' /\ Written'
  BY <1>2, <1>3 DEF RuntimeBehind, Written
<1>12. Called'
  <2>1. \A x \in Update \cup Replace : outcome'[x] # "none" <=> outcome[x] # "none" \/ x = o
    BY <1>2 DEF ServerInv, TypeOK
  <2>2. ToSet(db) \subseteq Update \cup Replace
    BY DEF ServerInv, TypeOK, ToSet
  <2>3. \A x \in ToSet(pending') \cup ToSet(db') : outcome'[x] # "none"
    BY <1>2, <1>3, <2>1, <2>2, Calls DEF ServerInv, Called
  <2>4. \A x \in Update : outcome'[x] # "none" <=> outcome[x] # "none"
    BY <1>1, <2>1, Calls
  <2>5. \A s \in Scan : outcome'[Save(s)] # "none" => at'[s] \in (Working \ {"collecting"}) \cup {"ended"}
    BY <1>4, <1>5, <2>4, Calls DEF ServerInv, Called
  <2>6. \A s \in Scheduled : outcome'[Notify(s)] # "none" => at'[s] \in {"notifying", "ended"}
    BY <1>4, <1>5, <2>4, Calls DEF ServerInv, Called
  <2>7. \A e \in Edit : outcome'[Change(e)] # "none" => at'[e] \in {"changing", "ended"}
    BY <1>4, <1>5, <2>4, Calls DEF ServerInv, Called
  <2>. QED
    BY <2>3, <2>5, <2>6, <2>7 DEF Called
<1>13. Fresh'
  <2>1. CASE applied
    <3>1. \A r \in Request : gen'[r] # generation'
      BY <1>6, <1>9, <2>1 DEF ServerInv, TypeOK
    <3>. QED
      BY <1>4, <3>1 DEF Fresh
  <2>2. CASE ~applied
    <3>1. ~Window /\ generation' = generation
      BY <1>1, <2>2 DEF Window
    <3>. QED
      BY <1>1, <1>2, <1>4, <1>5, <3>1 DEF ServerInv, Fresh, Working
  <2>. QED
    BY <2>1, <2>2
<1>14. Stamped' /\ OfSchedule'
  <2>1. Stamped'
    BY <1>1, <1>2, <1>3 DEF ServerInv, Stamped
  <2>2. OfSchedule'
    BY <1>1, <1>2, <1>4, <1>5 DEF ServerInv, OfSchedule, Working, PastSave
  <2>. QED
    BY <2>1, <2>2
<1>15. TypeOK'
  <2>1. outcome' \in [Update \cup Replace -> {"none", "pending", "done", "failed"}]
    BY <1>2 DEF ServerInv, TypeOK
  <2>. QED
    BY <1>1, <1>2, <1>3, <1>6, <1>7, <2>1 DEF ServerInv, TypeOK, Slot!TypeOK, slot
<1>. QED
  BY <1>7, <1>8, <1>10, <1>11, <1>12, <1>13, <1>14, <1>15 DEF ServerInv

\* The first call takes effect: an update leaves the epoch as it is, a replacement opens
\* the window.
LEMMA StoreStep == ASSUME ServerInv, StoreWrites PROVE ServerInv'
<1>. DEFINE o == Head(pending)
<1>1. /\ pending # <<>> /\ ~applied /\ applied' = TRUE
      /\ \/ o \in Update /\ db' = Append(db, o) /\ (o \in Runtime => HasSchedule(db))
         \/ o \in Runtime /\ db' = db
         \/ o \in Replace /\ db' = <<o>>
      /\ UNCHANGED <<pending, outcome, mutating, generation, slot, local>>
  <2>1. /\ pending # <<>> /\ ~applied /\ applied' = TRUE
        /\ UNCHANGED <<pending, outcome, mutating, generation, slot, local>>
    BY DEF StoreWrites, Store!Apply
  <2>2. /\ db \in Seq(Update \cup Replace) /\ o \in Update \cup Replace
        /\ db' = db <=> o \in Runtime /\ ~HasSchedule(db)
        /\ \/ o \in Update /\ db' = Append(db, o)
           \/ o \in Update /\ db' = db
           \/ o \in Replace /\ db' = <<o>>
    BY <2>1, Removed DEF StoreWrites, Store!Apply, ServerInv, TypeOK
  <2>3. Append(db, o) # db
    <3>1. Len(Append(db, o)) = Len(db) + 1 /\ Len(db) \in Nat
      BY <2>2
    <3>. QED
      BY <3>1
  <2>. QED
    BY <2>1, <2>2, <2>3
<1>2. /\ pending \in Seq(Update \cup Replace) /\ db \in Seq(Update \cup Replace)
      /\ o \in ToSet(pending) /\ o \in Update \cup Replace
  BY <1>1, Removed DEF ServerInv, TypeOK
<1>. HIDE DEF o
<1>3. SlotHeld' /\ OnlyScheduled' /\ NoneAhead' /\ RuntimeBehind'
  BY <1>1 DEF ServerInv, SlotHeld, OnlyScheduled, NoneAhead, RuntimeBehind, slot, local
<1>4. /\ db' \in Seq(Update \cup Replace)
      /\ ToSet(pending') \cup ToSet(db') \subseteq ToSet(pending) \cup ToSet(db)
      /\ o \in Replace => ToSet(db') = {o}
      /\ o \in Update => ToSet(db) \subseteq ToSet(db') /\ ToSet(db') \subseteq ToSet(db) \cup {o}
      /\ o \in Runtime \/ o \in ToSet(db')
  <2>1. CASE o \in Update /\ db' = Append(db, o)
    BY <1>1, <1>2, <2>1, Calls, Appended
  <2>2. CASE o \in Replace /\ db' = <<o>>
    <3>1. ToSet(db') = {o}
      BY <2>2 DEF ToSet
    <3>. QED
      BY <1>1, <1>2, <2>2, <3>1, Calls
  <2>3. CASE o \in Runtime /\ db' = db
    BY <1>1, <1>2, <2>3, Calls
  <2>. QED
    BY <1>1, <2>1, <2>2, <2>3
<1>5. TypeOK' /\ Written'
  <2>1. TypeOK'
    BY <1>1, <1>4 DEF ServerInv, TypeOK, Slot!TypeOK, slot, local
  <2>2. Written'
    BY <1>1, <1>4 DEF Written, o
  <2>. QED
    BY <2>1, <2>2
<1>6. Called'
  BY <1>1, <1>4 DEF ServerInv, Called, local
<1>7. Fresh' /\ Stamped' /\ OfSchedule'
  <2>1. CASE o \in Update
    <3>1. o \notin Replace
      BY <2>1, Calls
    <3>2. Epoch(db') = Epoch(db)
      BY <1>1, <1>2, <3>1, Appended DEF Epoch
    <3>3. ~Window /\ ~Window'
      BY <1>1, <3>1 DEF Window, o
    <3>4. Fresh'
      <4>1. ToSet(db) \subseteq ToSet(db')
        BY <1>4, <2>1
      <4>. QED
        BY <1>1, <3>2, <3>3, <4>1 DEF ServerInv, Fresh, local
    <3>8. HadScheduleEnabled(db) => HadScheduleEnabled(db')
      BY <1>4, <2>1, <3>2, StillHad
    <3>5. ASSUME NEW s \in Scheduled, {Announcement(s), Record(s)} \cap ToSet(db') # {}
          PROVE  HasSchedule(<<Epoch(db)>>)
      <4>1. CASE o \in Runtime /\ db' # db
        BY <1>1, <1>2, <3>1, <4>1, BeganWith
      <4>2. CASE o \notin Runtime \/ db' = db
        <5>1. {Announcement(s), Record(s)} \cap ToSet(db) # {}
          BY <1>4, <2>1, <3>5, <4>2, Calls
        <5>. QED
          BY <5>1 DEF ServerInv, Stamped
      <4>. QED
        BY <4>1, <4>2
    <3>6. Stamped'
      BY <1>1, <1>4, <2>1, <3>2, <3>5, <3>8 DEF ServerInv, Stamped, local
    <3>7. OfSchedule'
      BY <1>1, <1>4, <2>1, <3>8 DEF ServerInv, OfSchedule, local
    <3>. QED
      BY <3>4, <3>6, <3>7
  <2>2. CASE o \in Replace
    <3>1. o \notin Update /\ mutating
      BY <1>1, <2>2, Calls, ReplacementAlone DEF o
    <3>2. ToSet(pending') \subseteq {o} \cup Runtime /\ ToSet(db') = {o}
      BY <1>1, <1>4, <2>2, ReplacementAlone DEF o
    <3>3. Window'
      BY <1>1, <2>2 DEF Window, o
    <3>4. Stamped'
      BY <3>1, <3>2, Calls, ServerAssumption DEF Stamped, Scan
    <3>5. OfSchedule'
      <4>1. \A s \in Scheduled : at[s] \notin Working
        BY <3>1, ServerAssumption DEF ServerInv, SlotHeld, Scan
      <4>. QED
        BY <1>1, <4>1 DEF OfSchedule, Working, PastSave, local
    <3>. QED
      BY <3>3, <3>4, <3>5 DEF Fresh
  <2>. QED
    BY <1>2, <2>1, <2>2
<1>. QED
  BY <1>3, <1>5, <1>6, <1>7 DEF ServerInv
-----------------------------------------------------------------------------
\* Every step of the server preserves the invariant.
LEMMA ServerInvNext == ServerInv /\ [Next]_vars => ServerInv'
<1>. SUFFICES ASSUME ServerInv, [Next]_vars PROVE ServerInv'
  OBVIOUS
<1>. USE DEF Onwards, Working, PastSave, Place
<1>1. Scan \subseteq Request /\ Scheduled \subseteq Scan
  BY DEF Request, Scan
<1>2. ASSUME NEW r \in Request, Arrive(r) PROVE ServerInv'
  BY <1>2, Goes DEF Arrive, CallRead
<1>4. ASSUME NEW s \in Scan, RequestScan(s) PROVE ServerInv'
  BY <1>1, <1>4, Goes DEF RequestScan, CallRead
<1>5. ASSUME NEW s \in Scan, StartScheduled(s) PROVE ServerInv'
  <2>1. CASE mutating
    BY <1>1, <1>5, <2>1, Goes DEF StartScheduled
  <2>2. CASE ~mutating
    BY <1>1, <1>5, <2>2, Goes DEF StartScheduled, CallRead
  <2>. QED
    BY <2>1, <2>2
<1>6. ASSUME NEW s \in Scan, SettingsRead(s) PROVE ServerInv'
  BY <1>1, <1>6, Goes DEF SettingsRead, ReturnRead
<1>7. ASSUME NEW s \in Scan, Reject(s) PROVE ServerInv'
  BY <1>1, <1>7, Goes DEF Reject
<1>8. ASSUME NEW s \in Scan, HistoryRead(s) PROVE ServerInv'
  <2>1. s \in Scheduled
    BY <1>8 DEF HistoryRead, ServerInv, OnlyScheduled, PastSave
  <2>. QED
    BY <1>1, <1>8, <2>1, Goes DEF HistoryRead, ReturnRead
<1>9. ASSUME NEW s \in Scan, Cancel(s) PROVE ServerInv'
  <2>1. UNCHANGED <<mutating, generation, store, local, holder, verdict>> /\ asked' = asked \cup {s}
    BY <1>9 DEF Cancel, Slot!Ask
  <2>2. TypeOK' /\ SlotHeld' /\ OnlyScheduled'
    BY <2>1 DEF ServerInv, TypeOK, Slot!TypeOK, SlotHeld, OnlyScheduled, store, local
  <2>3. NoneAhead' /\ RuntimeBehind' /\ Written' /\ Called' /\ Stamped' /\ OfSchedule'
    BY <2>1 DEF ServerInv, NoneAhead, RuntimeBehind, Written, Called, Stamped, OfSchedule, store, local
  <2>4. Fresh'
    BY <2>1 DEF ServerInv, Fresh, Window, store, local
  <2>. QED
    BY <2>2, <2>3, <2>4 DEF ServerInv
<1>10. ASSUME NEW s \in Scan, CollectFails(s) PROVE ServerInv'
  BY <1>10, Ends DEF CollectFails, ServerInv, TypeOK
<1>11. ASSUME NEW s \in Scan, CollectReturns(s) PROVE ServerInv'
  <2>1. at[s] = "collecting" /\ found' \subseteq Scan /\ UNCHANGED <<mutating, generation, gen, seen, after, runtime, born, settings>>
    BY <1>11 DEF CollectReturns, ServerInv, TypeOK
  <2>2. CASE s \notin asked /\ Current(gen[s])
    BY <1>11, <2>1, <2>2, SaveStep DEF CollectReturns
  <2>3. CASE ~(s \notin asked /\ Current(gen[s]))
    <3>1. EndTask(s, s \in asked) /\ UNCHANGED store
      BY <1>11, <2>3 DEF CollectReturns
    <3>2. EndTask(s, TRUE) \/ EndTask(s, FALSE)
      BY <3>1 DEF EndTask
    <3>. QED
      BY <2>1, <3>1, <3>2, Ends
  <2>. QED
    BY <2>2, <2>3
<1>12. ASSUME NEW s \in Scan, ReadFails(s) PROVE ServerInv'
  <2>1. CASE at[s] = "rereading"
    BY <1>12, <2>1, Ends DEF ReadFails, ServerInv, TypeOK
  <2>2. CASE at[s] = "reading"
    BY <1>1, <1>12, <2>2, Goes DEF ReadFails
  <2>. QED
    BY <1>12, <2>1, <2>2 DEF ReadFails
<1>13. ASSUME NEW s \in Scan, Compared(s) PROVE ServerInv'
  <2>1. CASE NewPort(s, seen[s])
    BY <1>13, <2>1, NotifyStep DEF Compared
  <2>2. CASE ~NewPort(s, seen[s])
    BY <1>13, <2>2, Ends DEF Compared, ServerInv, TypeOK
  <2>. QED
    BY <2>1, <2>2
<1>14. CASE UNCHANGED vars
  BY <1>14, Stutters
<1>15. ASSUME NEW s \in Scan, TickReads(s) PROVE ServerInv'
  BY <1>1, <1>15, Goes DEF TickReads
<1>16. ASSUME NEW s \in Scan, Announce(s) \/ RunIsOver(s) PROVE ServerInv'
  BY <1>16, Calls, RuntimeCall DEF Announce, RunIsOver
<1>17. ASSUME NEW s \in Scan, Announced(s) \/ Recorded(s) PROVE ServerInv'
  BY <1>17, Calls, RuntimeReport DEF Announced, Recorded
<1>. QED
  BY <1>2, <1>4, <1>5, <1>6, <1>7, <1>8, <1>9, <1>10, <1>11, <1>12, <1>13, <1>14, <1>15, <1>16, <1>17,
     AdmitStep, SavedStep, NotifiedStep, ReplacingStep, ReplacedStep, ChangingStep, ChangedStep, StoreStep
     DEF Next

\* The invariant holds throughout.
LEMMA ServerInvHolds == Spec => []ServerInv
  BY ServerInvInit, ServerInvNext, PTL DEF Spec

\* Whatever arrives, in whatever order the calls of the store are reported, every variable
\* of the server stays within its type.
THEOREM TypeCorrect == Spec => []TypeOK
<1>1. ServerInv => TypeOK
  BY DEF ServerInv
<1>. QED
  BY <1>1, ServerInvHolds, PTL

\* DB-10: import and reset find no active scan, and none becomes active before they end.
THEOREM MaintenanceIsAlone == Spec => []NoScanDuringMaintenance
<1>1. ServerInv => NoScanDuringMaintenance
  BY DEF ServerInv, SlotHeld, NoScanDuringMaintenance
<1>. QED
  BY <1>1, ServerInvHolds, PTL

\* The assertion of the generation before the save of an active scan cannot fail.
THEOREM ScansAreCurrent == Spec => []ActiveScanIsCurrent
<1>1. ServerInv => ActiveScanIsCurrent
  BY DEF ServerInv, SlotHeld, ActiveScanIsCurrent
<1>. QED
  BY <1>1, ServerInvHolds, PTL

\* RST-04, DB-14: for any number of scans, edits, ticks, imports and resets, what is in the
\* database was scanned with its own settings, and what users asked for was asked of this
\* very database; what runs of the schedule have left there, they left in a database that
\* began with the schedule, and enabled if it is a snapshot.
THEOREM NothingOutlivesReplacement == Spec => []NothingStale
<1>1. ServerInv => NothingStale
  BY DEF ServerInv, Stamped, NothingStale
<1>. QED
  BY <1>1, ServerInvHolds, PTL
-----------------------------------------------------------------------------
\* A call leaves the outcomes of all other calls alone.
LEMMA OtherCall ==
    ASSUME ServerInv, NEW o \in Update \cup Replace, Store!Call(o),
           NEW c \in Update \cup Replace, c # o
    PROVE  outcome'[c] = outcome[c]
  BY DEF Store!Call, ServerInv, TypeOK

\* A report is about a call that was made, and leaves the others alone.
LEMMA OtherReport ==
    ASSUME ServerInv, NEW o, Store!Report(o), NEW c \in Update \cup Replace, outcome[c] = "none"
    PROVE  outcome'[c] = "none"
<1>1. pending # <<>> /\ o = Head(pending) /\ pending \in Seq(Update \cup Replace)
  BY DEF Store!Report, ServerInv, TypeOK
<1>2. Head(pending) \in ToSet(pending)
  BY <1>1, Removed
<1>3. outcome[o] # "none"
  BY <1>1, <1>2 DEF ServerInv, Called
<1>. QED
  BY <1>3 DEF Store!Report, ServerInv, TypeOK

\* No step calls saveSnapshot for a scan that has been asked to stop.
LEMMA NoSaveBehindCancel == ServerInv /\ [Next]_vars => CancelledBeforeSave
<1>. SUFFICES ASSUME ServerInv, [Next]_vars, NEW s \in Scan, s \in asked, outcome[Save(s)] = "none"
             PROVE  outcome'[Save(s)] = "none"
  BY DEF CancelledBeforeSave
<1>1. Save(s) \in Update \ Runtime /\ Save(s) \notin Replace
  BY Calls
<1>2. CASE UNCHANGED outcome
  BY <1>2
<1>3. ASSUME NEW t \in Scan, CollectReturns(t) PROVE outcome'[Save(s)] = "none"
  <2>1. CASE t \notin asked /\ Current(gen[t])
    <3>1. Store!Call(Save(t)) /\ Save(t) # Save(s) /\ Save(t) \in Update
      BY <1>3, <2>1, Calls DEF CollectReturns
    <3>. QED
      BY <1>1, <3>1, OtherCall
  <2>2. CASE ~(t \notin asked /\ Current(gen[t]))
    BY <1>3, <2>2 DEF CollectReturns, store
  <2>. QED
    BY <2>1, <2>2
<1>4. ASSUME NEW t \in Scan, Compared(t) PROVE outcome'[Save(s)] = "none"
  <2>1. CASE NewPort(t, seen[t])
    <3>1. t \in Scheduled
      BY <1>4 DEF Compared, ServerInv, OnlyScheduled, PastSave
    <3>2. Store!Call(Notify(t)) /\ Notify(t) # Save(s) /\ Notify(t) \in Update
      BY <1>4, <2>1, <3>1, Calls DEF Compared
    <3>. QED
      BY <1>1, <3>2, OtherCall
  <2>2. CASE ~NewPort(t, seen[t])
    BY <1>4, <2>2 DEF Compared, store
  <2>. QED
    BY <2>1, <2>2
<1>5. ASSUME NEW t \in Scan, Saved(t) \/ Notified(t) PROVE outcome'[Save(s)] = "none"
  BY <1>1, <1>5, OtherReport DEF Saved, Notified
<1>6. ASSUME NEW m \in Maintenance, Replacing(m) PROVE outcome'[Save(s)] = "none"
  BY <1>1, <1>6, Calls, OtherCall DEF Replacing
<1>7. ASSUME NEW m \in Maintenance, Replaced(m) PROVE outcome'[Save(s)] = "none"
  BY <1>1, <1>7, OtherReport DEF Replaced
<1>8. ASSUME NEW e \in Edit, Changing(e) PROVE outcome'[Save(s)] = "none"
  BY <1>1, <1>8, Calls, OtherCall DEF Changing
<1>9. ASSUME NEW e \in Edit, Changed(e) PROVE outcome'[Save(s)] = "none"
  BY <1>1, <1>9, OtherReport DEF Changed
<1>10. ASSUME StoreWrites PROVE UNCHANGED outcome
  BY <1>10 DEF StoreWrites, Store!Apply
<1>11. ASSUME NEW r \in Request, Arrive(r) PROVE UNCHANGED outcome
  BY <1>11 DEF Arrive, store
<1>12. ASSUME NEW t \in Scan, \/ RequestScan(t) \/ TickReads(t) \/ StartScheduled(t) \/ SettingsRead(t) \/ Admit(t)
                              \/ Reject(t) \/ Cancel(t) \/ CollectFails(t) \/ HistoryRead(t) \/ ReadFails(t)
       PROVE  UNCHANGED outcome
  BY <1>12 DEF RequestScan, TickReads, StartScheduled, SettingsRead, Admit, Reject, Cancel, CollectFails, HistoryRead,
               ReadFails, store
<1>13. CASE UNCHANGED vars
  BY <1>13, <1>2 DEF vars, store
<1>14. ASSUME NEW t \in Scan, Announce(t) \/ RunIsOver(t) PROVE outcome'[Save(s)] = "none"
  BY <1>1, <1>14, Calls, OtherCall DEF Announce, RunIsOver
<1>15. ASSUME NEW t \in Scan, Announced(t) \/ Recorded(t) PROVE outcome'[Save(s)] = "none"
  BY <1>1, <1>15, OtherReport DEF Announced, Recorded
<1>. QED
  BY <1>2, <1>3, <1>4, <1>5, <1>6, <1>7, <1>8, <1>9, <1>10, <1>11, <1>12, <1>13, <1>14, <1>15 DEF Next

\* JOB-03, TCP-08, UDP-09: a scan that was cancelled before its collectors returned never
\* calls saveSnapshot, whatever else goes on.
THEOREM CancelledIsNotSaved == Spec => CancelPreventsSave
<1>1. ServerInv /\ [Next]_vars => [CancelledBeforeSave]_vars
  BY NoSaveBehindCancel
<1>. QED
  BY <1>1, ServerInvHolds, PTL DEF Spec, CancelPreventsSave
-----------------------------------------------------------------------------
\* What is queued has not been reported, and is queued once.
Queue ==
    /\ \A o \in ToSet(pending) : outcome[o] = "pending"
    /\ \A i, j \in 1..Len(pending) : pending[i] = pending[j] => i = j

\* A scan that is behind its save has its snapshot saved.
SavedFirst ==
    \A s \in Scan : at[s] \in {"rereading", "reread", "notifying"} \/ verdict[s] = "completed"
                       => outcome[Save(s)] = "done"

\* What a task has read of the history, it can still compare: later snapshots and
\* replacements never turn an old port of a saved scan into a new one.
HistoryHolds == \A s \in Scan : at[s] = "reread" /\ NewPort(s, db) => NewPort(s, seen[s])

\* The new port of a completed scan has been notified.
NewPortNotified ==
    \A s \in Scheduled : verdict[s] = "completed" /\ NewPort(s, db) => outcome[Notify(s)] = "done"

SaveInv == ServerInv /\ Queue /\ SavedFirst /\ HistoryHolds /\ NewPortNotified

\* An older database has every new port that a later one has, unless it is of the scan
\* that was saved in between: the scans before it are the same, or have been dropped.
LEMMA LaterSnapshots ==
    ASSUME NEW S, NEW d \in Seq(S), NEW x \in S, NEW s \in Scan, x # Save(s), NewPort(s, Append(d, x))
    PROVE  NewPort(s, d)
<1>. DEFINE Saves(e) == {i \in DOMAIN e : e[i] \in {Save(t) : t \in Scan}}
            Behind(e, k) == {j \in Saves(e) : j > k}
            n == Append(d, x)
<1>1. /\ Len(d) \in Nat /\ DOMAIN d = 1..Len(d) /\ DOMAIN n = 1..(Len(d) + 1)
      /\ \A i \in 1..Len(d) : n[i] = d[i]
      /\ n[Len(d) + 1] = x
  OBVIOUS
<1>2. /\ \A k : k \in Snapshots(n) <=> k \in Saves(n) /\ Cardinality(Behind(n, k)) < MaxSnapshots
      /\ \A k : k \in Snapshots(d) <=> k \in Saves(d) /\ Cardinality(Behind(d, k)) < MaxSnapshots
  BY DEF Snapshots
<1>3. Saves(d) = Saves(n) \cap (1..Len(d)) /\ Saves(n) \subseteq 1..(Len(d) + 1)
  BY <1>1
<1>. HIDE DEF Saves, n
<1>4. \A k \in Nat : /\ IsFiniteSet(Behind(n, k)) /\ Cardinality(Behind(n, k)) \in Nat
                     /\ Cardinality(Behind(d, k)) \in Nat
                     /\ Cardinality(Behind(d, k)) <= Cardinality(Behind(n, k))
  <2>1. IsFiniteSet(1..(Len(d) + 1))
    BY <1>1, FS_Interval
  <2>. SUFFICES ASSUME NEW k \in Nat
               PROVE  /\ IsFiniteSet(Behind(n, k)) /\ Cardinality(Behind(n, k)) \in Nat
                      /\ Cardinality(Behind(d, k)) \in Nat
                      /\ Cardinality(Behind(d, k)) <= Cardinality(Behind(n, k))
    OBVIOUS
  <2>2. Behind(n, k) \subseteq 1..(Len(d) + 1) /\ Behind(d, k) \subseteq Behind(n, k)
    BY <1>3
  <2>. QED
    BY ONLY <2>1, <2>2, FS_Subset, FS_CardinalityType
<1>. HIDE DEF Behind
<1>5. MaxSnapshots \in Nat
  BY ServerAssumption
<1>6. PICK i \in Snapshots(n), j \in Snapshots(n) :
           /\ n[j] = Save(s) /\ s \in found /\ i < j /\ n[i][2] \notin found
           /\ \A k \in Snapshots(n) : ~(i < k /\ k < j)
  BY DEF NewPort, n
<1>7. i \in Saves(n) /\ j \in Saves(n) /\ i \in Nat /\ j \in Nat
  BY <1>2, <1>3, <1>6
<1>8. i \in 1..Len(d) /\ j \in 1..Len(d)
  <2>1. j # Len(d) + 1
    BY <1>1, <1>6 DEF n
  <2>. QED
    BY <1>1, <1>3, <1>6, <1>7, <2>1
<1>9. i \in Snapshots(d) /\ j \in Snapshots(d)
  <2>. SUFFICES ASSUME NEW k \in Snapshots(n), k \in Saves(d), k \in Nat PROVE k \in Snapshots(d)
    BY <1>3, <1>6, <1>7, <1>8
  <2>1. Cardinality(Behind(n, k)) < MaxSnapshots
    BY <1>2
  <2>2. Cardinality(Behind(d, k)) < MaxSnapshots
    BY <1>4, <1>5, <2>1
  <2>. QED
    BY <1>2, <2>2
<1>10. ASSUME NEW k \in Snapshots(d), i < k, k < j PROVE FALSE
  <2>1. k \in Saves(n) /\ k \in Nat
    BY <1>2, <1>3
  <2>2. Behind(n, k) \subseteq Behind(n, i)
    BY <1>3, <1>7, <1>10, <2>1 DEF Behind
  <2>3. Cardinality(Behind(n, k)) <= Cardinality(Behind(n, i))
    BY <1>4, <1>7, <2>2, FS_Subset
  <2>4. k \in Snapshots(n)
    BY <1>2, <1>4, <1>5, <1>6, <1>7, <2>1, <2>3
  <2>. QED
    BY <1>6, <1>10, <2>4
<1>11. n[i] = d[i] /\ n[j] = d[j]
  BY <1>1, <1>8 DEF n
<1>. QED
  BY <1>6, <1>9, <1>10, <1>11 DEF NewPort

\* A new port is of a scan that has been saved.
LEMMA NewPortIsSaved ==
    ASSUME NEW s \in Scan, NEW d, NewPort(s, d)
    PROVE  Save(s) \in ToSet(d)
<1>1. \A k \in Snapshots(d) : k \in DOMAIN d
  BY DEF Snapshots
<1>. QED
  BY <1>1 DEF NewPort, ToSet

\* What a scan finds that has not been saved changes no comparison.
LEMMA LaterFinding ==
    ASSUME NEW s \in Scan, NEW t \in Scan, Save(t) \notin ToSet(db), found' = found \cup {t}, UNCHANGED db,
           NewPort(s, db)'
    PROVE  NewPort(s, db)
<1>1. Snapshots(db)' = Snapshots(db)
  BY DEF Snapshots, Save
<1>2. PICK i \in Snapshots(db), j \in Snapshots(db) :
           /\ db[j] = Save(s) /\ s \in found' /\ i < j /\ db[i][2] \notin found'
           /\ \A k \in Snapshots(db) : ~(i < k /\ k < j)
  BY <1>1 DEF NewPort, Save
<1>3. j \in DOMAIN db
  BY DEF Snapshots
<1>4. s # t
  BY <1>2, <1>3 DEF ToSet
<1>. QED
  BY <1>2, <1>4 DEF NewPort

\* The server uses its store only as SerialStore has it.
LEMMA StoreIsUsed ==
    ASSUME ServerInv, [Next]_vars
    PROVE  \/ UNCHANGED store
           \/ \E o \in Update \cup Replace : Store!Call(o) \/ Store!Apply(o) \/ Store!Report(o)
<1>1. \A s \in Scan : Save(s) \in Update
  BY Calls
<1>2. ASSUME NEW s \in Scan, CollectReturns(s) PROVE UNCHANGED store \/ Store!Call(Save(s))
  BY <1>2 DEF CollectReturns
<1>3. ASSUME NEW s \in Scan, Compared(s)
      PROVE  UNCHANGED store \/ (Store!Call(Notify(s)) /\ Notify(s) \in Update)
  BY <1>3, Calls DEF Compared, ServerInv, OnlyScheduled, PastSave
<1>4. ASSUME NEW s \in Scan, Saved(s) PROVE Store!Report(Save(s))
  BY <1>4 DEF Saved
<1>5. ASSUME NEW s \in Scan, Notified(s) PROVE Store!Report(Notify(s)) /\ Notify(s) \in Update
  BY <1>5, Calls DEF Notified, ServerInv, OnlyScheduled, PastSave
<1>6. ASSUME NEW m \in Maintenance, Replacing(m) \/ Replaced(m)
      PROVE  \E o \in Replace : Store!Call(o) \/ Store!Report(o)
  BY <1>6, Calls DEF Replacing, Replaced
<1>7. ASSUME NEW e \in Edit, Changing(e) \/ Changed(e)
      PROVE  Change(e) \in Update /\ (Store!Call(Change(e)) \/ Store!Report(Change(e)))
  BY <1>7, Calls DEF Changing, Changed
<1>8. ASSUME StoreWrites PROVE Store!Apply(Head(pending)) /\ Head(pending) \in Update \cup Replace
  BY <1>8, Removed DEF StoreWrites, ServerInv, TypeOK
<1>9. ASSUME NEW r \in Request, Arrive(r) PROVE UNCHANGED store
  BY <1>9 DEF Arrive
<1>10. ASSUME NEW s \in Scan, \/ RequestScan(s) \/ TickReads(s) \/ StartScheduled(s) \/ SettingsRead(s) \/ Admit(s)
                              \/ Reject(s) \/ Cancel(s) \/ CollectFails(s) \/ HistoryRead(s) \/ ReadFails(s)
       PROVE  UNCHANGED store
  BY <1>10 DEF RequestScan, TickReads, StartScheduled, SettingsRead, Admit, Reject, Cancel, CollectFails, HistoryRead,
               ReadFails
<1>11. CASE UNCHANGED vars
  BY <1>11 DEF vars
<1>12. ASSUME NEW s \in Scan, Announce(s) \/ Announced(s) \/ RunIsOver(s) \/ Recorded(s)
       PROVE  \E o \in Update : Store!Call(o) \/ Store!Report(o)
  BY <1>12, Calls DEF Announce, Announced, RunIsOver, Recorded
<1>. QED
  BY <1>1, <1>2, <1>3, <1>4, <1>5, <1>6, <1>7, <1>8, <1>9, <1>10, <1>11, <1>12 DEF Next

\* The queue stays one of distinct calls, and what is done stays done.
LEMMA QueueNext ==
    ASSUME ServerInv, Queue, [Next]_vars
    PROVE  Queue' /\ \A o \in Update \cup Replace : outcome[o] = "done" => outcome'[o] = "done"
<1>1. /\ pending \in Seq(Update \cup Replace)
      /\ outcome \in [Update \cup Replace -> {"none", "pending", "done", "failed"}]
  BY DEF ServerInv, TypeOK
<1>2. CASE UNCHANGED store \/ \E o \in Update \cup Replace : Store!Apply(o)
  <2>1. UNCHANGED <<pending, outcome>>
    BY <1>2 DEF store, Store!Apply
  <2>. QED
    BY <2>1 DEF Queue
<1>3. ASSUME NEW o \in Update \cup Replace, Store!Call(o)
      PROVE  Queue' /\ \A c \in Update \cup Replace : outcome[c] = "done" => outcome'[c] = "done"
  <2>1. /\ outcome[o] = "none" /\ pending' = Append(pending, o)
        /\ \A c \in Update \cup Replace : outcome'[c] = IF c = o THEN "pending" ELSE outcome[c]
    BY <1>1, <1>3 DEF Store!Call
  <2>2. /\ ToSet(pending') = ToSet(pending) \cup {o} /\ Len(pending') = Len(pending) + 1
        /\ pending'[Len(pending) + 1] = o /\ \A i \in 1..Len(pending) : pending'[i] = pending[i]
        /\ Len(pending) \in Nat
    BY <1>1, <2>1, Appended
  <2>3. \A i \in 1..Len(pending) : pending[i] \in ToSet(pending) /\ pending[i] # o
    BY <1>1, <2>1 DEF Queue, ToSet
  <2>4. \A c \in ToSet(pending') : c \in Update \cup Replace /\ outcome'[c] = "pending"
    <3>1. ToSet(pending) \subseteq Update \cup Replace
      BY <1>1 DEF ToSet
    <3>. QED
      BY <2>1, <2>2, <3>1 DEF Queue
  <2>5. \A i, j \in 1..Len(pending') : pending'[i] = pending'[j] => i = j
    BY <2>2, <2>3 DEF Queue
  <2>. QED
    BY <2>1, <2>4, <2>5 DEF Queue
<1>4. ASSUME NEW o \in Update \cup Replace, Store!Report(o)
      PROVE  Queue' /\ \A c \in Update \cup Replace : outcome[c] = "done" => outcome'[c] = "done"
  <2>1. /\ pending # <<>> /\ o = Head(pending) /\ pending' = Tail(pending)
        /\ \A c \in Update \cup Replace : c # o => outcome'[c] = outcome[c]
    BY <1>1, <1>4 DEF Store!Report
  <2>2. /\ ToSet(pending') \subseteq ToSet(pending) /\ o = pending[1] /\ o \in ToSet(pending)
        /\ Len(pending) \in Nat /\ Len(pending) >= 1 /\ Len(pending') = Len(pending) - 1
        /\ \A i \in 1..Len(pending') : pending'[i] = pending[i + 1]
    BY <1>1, <2>1, Removed
  <2>3. outcome[o] = "pending"
    BY <2>2 DEF Queue
  <2>4. \A i \in 1..Len(pending') : pending'[i] # o
    BY <2>2 DEF Queue
  <2>5. pending' \in Seq(Update \cup Replace)
    BY <1>1, <2>1, Removed
  <2>6. \A c \in ToSet(pending') : c \in Update \cup Replace /\ c # o
    BY <2>4, <2>5 DEF ToSet
  <2>7. \A c \in ToSet(pending') : outcome'[c] = "pending"
    BY <2>1, <2>2, <2>6 DEF Queue
  <2>8. \A i, j \in 1..Len(pending') : pending'[i] = pending'[j] => i = j
    BY <2>2 DEF Queue
  <2>. QED
    BY <2>1, <2>3, <2>7, <2>8 DEF Queue
<1>. QED
  BY <1>2, <1>3, <1>4, StoreIsUsed

\* The scan whose collectors return is the only one that finds anything, and it has not
\* called saveSnapshot yet.
LEMMA WhoFinds ==
    ASSUME ServerInv, [Next]_vars
    PROVE  \/ UNCHANGED found
           \/ UNCHANGED db /\ \E t \in Scan : CollectReturns(t) /\ found' = found \cup {t} /\ Save(t) \notin ToSet(db)
<1>1. ASSUME NEW t \in Scan, CollectReturns(t)
      PROVE  /\ UNCHANGED db /\ found' \in {found, found \cup {t}} /\ Save(t) \notin ToSet(db)
  <2>1. UNCHANGED db
    BY <1>1 DEF CollectReturns, Store!Call, store
  <2>2. at[t] = "collecting" /\ found' \in {found, found \cup {t}}
    BY <1>1 DEF CollectReturns
  <2>3. Save(t) \notin ToSet(db)
    BY <2>2 DEF ServerInv, Called, Working
  <2>. QED
    BY <2>1, <2>2, <2>3
<1>2. ASSUME NEW s \in Scan, Compared(s) \/ Saved(s) \/ Notified(s) PROVE UNCHANGED found
  BY <1>2 DEF Compared, Saved, Notified
<1>3. ASSUME NEW m \in Maintenance, Replacing(m) \/ Replaced(m) PROVE UNCHANGED found
  BY <1>3 DEF Replacing, Replaced
<1>4. ASSUME NEW e \in Edit, Changing(e) \/ Changed(e) PROVE UNCHANGED found
  BY <1>4 DEF Changing, Changed
<1>5. ASSUME StoreWrites PROVE UNCHANGED found
  BY <1>5 DEF StoreWrites, local
<1>6. ASSUME NEW r \in Request, Arrive(r) PROVE UNCHANGED found
  BY <1>6 DEF Arrive
<1>7. ASSUME NEW s \in Scan, \/ RequestScan(s) \/ StartScheduled(s) \/ SettingsRead(s) \/ Admit(s)
                             \/ TickReads(s) \/ Announce(s) \/ Announced(s) \/ RunIsOver(s) \/ Recorded(s)
                             \/ Reject(s) \/ Cancel(s) \/ CollectFails(s) \/ HistoryRead(s) \/ ReadFails(s)
      PROVE  UNCHANGED found
  BY <1>7 DEF RequestScan, TickReads, Announce, Announced, RunIsOver, Recorded, StartScheduled, SettingsRead, Admit, Reject, Cancel, CollectFails, HistoryRead,
              ReadFails, local
<1>8. CASE UNCHANGED vars
  BY <1>8 DEF vars, local
<1>. QED
  BY <1>1, <1>2, <1>3, <1>4, <1>5, <1>6, <1>7, <1>8 DEF Next

\* No step gives a scan that is saved a new port that it did not have.
LEMMA NoNewPort ==
    ASSUME SaveInv, [Next]_vars, NEW s \in Scan, outcome[Save(s)] = "done", NewPort(s, db)'
    PROVE  NewPort(s, db)
<1>1. pending \in Seq(Update \cup Replace) /\ db \in Seq(Update \cup Replace)
  BY DEF SaveInv, ServerInv, TypeOK
<1>2. CASE UNCHANGED found
  <2>1. CASE UNCHANGED db
    BY <1>2, <2>1 DEF NewPort, Snapshots, Save
  <2>2. ASSUME NEW o \in Update \cup Replace, Store!Apply(o) PROVE NewPort(s, db)
    <3>1. o = Head(pending) /\ pending # <<>>
      BY <2>2 DEF Store!Apply
    <3>2. outcome[o] = "pending"
      BY <1>1, <3>1, Removed DEF SaveInv, Queue
    <3>3. o # Save(s)
      BY <3>2
    <3>4. NewPort(s, db')
      BY <1>2 DEF NewPort, Snapshots, Save
    <3>5. CASE db' = Append(db, o)
      BY <1>1, <3>3, <3>4, <3>5, LaterSnapshots
    <3>6. CASE db' = db
      BY <3>4, <3>6
    <3>7. CASE db' = <<o>>
      <4>1. Save(s) \in ToSet(<<o>>)
        BY <3>4, <3>7, NewPortIsSaved
      <4>2. ToSet(<<o>>) = {o}
        BY DEF ToSet
      <4>. QED
        BY <3>3, <4>1, <4>2
    <3>. QED
      BY <2>2, <3>5, <3>6, <3>7 DEF Store!Apply
  <2>3. UNCHANGED db \/ \E o \in Update \cup Replace : Store!Apply(o)
    BY StoreIsUsed DEF SaveInv, store, Store!Call, Store!Report
  <2>. QED
    BY <2>1, <2>2, <2>3
<1>3. ASSUME UNCHANGED db, NEW t \in Scan, found' = found \cup {t}, Save(t) \notin ToSet(db)
      PROVE  NewPort(s, db)
  BY <1>3, LaterFinding
<1>. QED
  BY <1>2, <1>3, WhoFinds DEF SaveInv

\* How a scan comes to the end of its task: reading the history behind its save, notifying
\* behind the comparison, and completed only where everything has succeeded.
LEMMA WhereScansAre ==
    ASSUME ServerInv, [Next]_vars, NEW s \in Scan
    PROVE  /\ at'[s] \in {"rereading", "reread", "notifying"} =>
                \/ at[s] \in {"rereading", "reread"} \/ at'[s] = at[s]
                \/ Saved(s) /\ applied
           /\ at'[s] = "reread" => (at[s] = "reread" /\ seen'[s] = seen[s]) \/ HistoryRead(s)
           /\ verdict'[s] = "completed" =>
                \/ verdict[s] = "completed"
                \/ Saved(s) /\ applied /\ s \notin Scheduled
                \/ Compared(s) /\ ~NewPort(s, seen[s])
                \/ Notified(s) /\ applied
<1>. DEFINE Goal ==
            /\ at'[s] \in {"rereading", "reread", "notifying"} =>
                \/ at[s] \in {"rereading", "reread"} \/ at'[s] = at[s]
                \/ Saved(s) /\ applied
            /\ at'[s] = "reread" => (at[s] = "reread" /\ seen'[s] = seen[s]) \/ HistoryRead(s)
            /\ verdict'[s] = "completed" =>
                \/ verdict[s] = "completed"
                \/ Saved(s) /\ applied /\ s \notin Scheduled
                \/ Compared(s) /\ ~NewPort(s, seen[s])
                \/ Notified(s) /\ applied
<1>0. /\ s \in Request /\ at \in [Request -> Place] /\ verdict \in [Scan -> {"completed", "cancelled", "failed", "none"}]
      /\ seen \in [Request -> Seq(Update \cup Replace)]
      /\ Scan \subseteq Request /\ Maintenance \subseteq Request /\ Edit \subseteq Request
  BY DEF ServerInv, TypeOK, Slot!TypeOK, Slot!Verdict, Request
<1>1. ASSUME at'[s] = at[s], seen'[s] = seen[s], verdict'[s] = verdict[s] PROVE Goal
  BY <1>1
<1>2. ASSUME NEW r \in Request, r # s, NEW p, at' = [at EXCEPT ![r] = p], \A x \in Request : x # r => seen'[x] = seen[x],
             \/ UNCHANGED verdict
             \/ r \in Scan /\ \E v : verdict' = [verdict EXCEPT ![r] = v]
      PROVE  Goal
  BY <1>0, <1>1, <1>2
<1>3. ASSUME NEW t \in Scan, NEW returned \in BOOLEAN, EndTask(t, returned)
      PROVE  /\ at' = [at EXCEPT ![t] = "ended"]
             /\ verdict' = [verdict EXCEPT ![t] = IF t \in asked THEN "cancelled"
                                                  ELSE IF returned THEN "completed" ELSE "failed"]
  BY <1>3 DEF EndTask, Slot!Release
<1>4. ASSUME at' = [at EXCEPT ![s] = "ended"], verdict'[s] # "completed" PROVE Goal
  BY <1>0, <1>4
<1>. HIDE DEF Goal
<1>5. ASSUME NEW r \in Request, Arrive(r) PROVE Goal
  <2>1. UNCHANGED <<seen, verdict>> /\ at' = [at EXCEPT ![r] = "body"]
    BY <1>5 DEF Arrive, CallRead, slot
  <2>2. CASE r = s
    BY <1>0, <2>1, <2>2 DEF Goal
  <2>3. CASE r # s
    BY <1>2, <2>1, <2>3
  <2>. QED
    BY <2>2, <2>3
<1>6. ASSUME NEW t \in Scan, RequestScan(t) \/ TickReads(t) \/ StartScheduled(t) \/ Admit(t) \/ Reject(t)
      PROVE  Goal
  <2>1. UNCHANGED verdict /\ \A x \in Request : x # t => seen'[x] = seen[x]
    BY <1>0, <1>6 DEF RequestScan, TickReads, StartScheduled, Admit, Reject, slot, Slot!Admit
  <2>2. PICK p \in {"due", "reading", "collecting", "refused"} : at' = [at EXCEPT ![t] = p]
    BY <1>6 DEF RequestScan, TickReads, StartScheduled, Admit, Reject, CallRead
  <2>3. CASE t = s
    BY <1>0, <2>1, <2>2, <2>3 DEF Goal
  <2>4. CASE t # s
    BY <1>0, <1>2, <2>1, <2>2, <2>4
  <2>. QED
    BY <2>3, <2>4
<1>7. ASSUME NEW t \in Scan, SettingsRead(t) PROVE Goal
  <2>1. UNCHANGED verdict /\ at' = [at EXCEPT ![t] = "read"] /\ seen' = [seen EXCEPT ![t] = db]
    BY <1>7 DEF SettingsRead, ReturnRead, slot
  <2>2. CASE t = s
    BY <1>0, <2>1, <2>2 DEF Goal
  <2>. QED
    BY <1>0, <1>2, <2>1, <2>2
<1>8. ASSUME NEW t \in Scan, HistoryRead(t) PROVE Goal
  <2>1. /\ at[t] = "rereading" /\ UNCHANGED verdict
        /\ at' = [at EXCEPT ![t] = "reread"] /\ seen' = [seen EXCEPT ![t] = db]
    BY <1>8 DEF HistoryRead, ReturnRead, slot
  <2>2. CASE t = s
    BY <1>0, <1>8, <2>1, <2>2 DEF Goal
  <2>. QED
    BY <1>0, <1>2, <2>1, <2>2
<1>9. ASSUME NEW t \in Scan, Cancel(t) PROVE Goal
  BY <1>1, <1>9 DEF Cancel, Slot!Ask, local
<1>10. ASSUME NEW t \in Scan, NEW returned \in BOOLEAN, EndTask(t, returned),
              \A x \in Request : x # t => seen'[x] = seen[x],
              \/ ~returned
              \/ t \in asked
              \/ Saved(t) /\ applied /\ t \notin Scheduled
              \/ Compared(t) /\ ~NewPort(t, seen[t])
              \/ Notified(t) /\ applied
       PROVE  Goal
  <2>1. CASE t = s
    <3>1. at'[s] = "ended" /\ ((returned /\ t \notin asked) \/ verdict'[s] # "completed")
      BY <1>0, <1>3, <1>10, <2>1
    <3>. QED
      BY <1>10, <2>1, <3>1 DEF Goal
  <2>2. CASE t # s
    <3>1. at' = [at EXCEPT ![t] = "ended"] /\ \E v : verdict' = [verdict EXCEPT ![t] = v]
      BY <1>3, <1>10
    <3>2. (\A x \in Request : x # t => seen'[x] = seen[x]) /\ t \in Request
      BY <1>0, <1>10
    <3>. QED
      BY <1>2, <2>2, <3>1, <3>2
  <2>. QED
    BY <2>1, <2>2
<1>11. ASSUME NEW t \in Scan, CollectFails(t) PROVE Goal
  BY <1>10, <1>11 DEF CollectFails
<1>12. ASSUME NEW t \in Scan, CollectReturns(t) PROVE Goal
  <2>1. CASE t \notin asked /\ Current(gen[t])
    <3>1. UNCHANGED <<seen, verdict>> /\ at' = [at EXCEPT ![t] = "saving"]
      BY <1>12, <2>1 DEF CollectReturns, slot
    <3>2. CASE t = s
      BY <1>0, <3>1, <3>2 DEF Goal
    <3>. QED
      BY <1>0, <1>2, <3>1, <3>2
  <2>2. CASE ~(t \notin asked /\ Current(gen[t]))
    <3>1. EndTask(t, t \in asked) /\ UNCHANGED seen
      BY <1>12, <2>2 DEF CollectReturns
    <3>2. CASE t \in asked
      <4>1. EndTask(t, TRUE)
        BY <3>1, <3>2 DEF EndTask
      <4>. QED
        BY <1>10, <3>1, <3>2, <4>1
    <3>3. CASE t \notin asked
      <4>1. EndTask(t, FALSE)
        BY <3>1, <3>3 DEF EndTask
      <4>. QED
        BY <1>10, <3>1, <4>1
    <3>. QED
      BY <3>2, <3>3
  <2>. QED
    BY <2>1, <2>2
<1>13. ASSUME NEW t \in Scan, Saved(t) PROVE Goal
  <2>1. UNCHANGED seen /\ applied \in BOOLEAN
    BY <1>13 DEF Saved, ServerInv, TypeOK
  <2>2. CASE applied /\ t \in Scheduled \ asked
    <3>1. UNCHANGED verdict /\ at' = [at EXCEPT ![t] = "rereading"]
      BY <1>13, <2>2 DEF Saved, CallRead, slot
    <3>2. CASE t = s
      BY <1>0, <1>13, <2>1, <2>2, <3>1, <3>2 DEF Goal
    <3>. QED
      BY <1>0, <1>2, <2>1, <3>1, <3>2
  <2>3. CASE ~(applied /\ t \in Scheduled \ asked)
    <3>1. EndTask(t, applied)
      BY <1>13, <2>3 DEF Saved
    <3>2. ~applied \/ t \in asked \/ (applied /\ t \notin Scheduled)
      BY <2>1, <2>3
    <3>. QED
      BY <1>10, <1>13, <2>1, <3>1, <3>2
  <2>. QED
    BY <2>2, <2>3
<1>14. ASSUME NEW t \in Scan, ReadFails(t) PROVE Goal
  <2>1. CASE at[t] = "rereading"
    BY <1>10, <1>14, <2>1 DEF ReadFails
  <2>2. CASE at[t] # "rereading"
    <3>1. UNCHANGED <<seen, verdict>> /\ at' = [at EXCEPT ![t] = "refused"]
      BY <1>14, <2>2 DEF ReadFails, slot
    <3>2. CASE t = s
      BY <1>0, <3>1, <3>2 DEF Goal
    <3>. QED
      BY <1>0, <1>2, <3>1, <3>2
  <2>. QED
    BY <2>1, <2>2
<1>15. ASSUME NEW t \in Scan, Compared(t) PROVE Goal
  <2>1. CASE NewPort(t, seen[t])
    <3>1. /\ at[t] = "reread" /\ UNCHANGED verdict /\ at' = [at EXCEPT ![t] = "notifying"]
          /\ \A x \in Request : x # t => seen'[x] = seen[x]
      BY <1>0, <1>15, <2>1 DEF Compared, slot
    <3>2. CASE t = s
      BY <1>0, <3>1, <3>2 DEF Goal
    <3>. QED
      BY <1>0, <1>2, <3>1, <3>2
  <2>2. CASE ~NewPort(t, seen[t])
    <3>1. EndTask(t, TRUE) /\ \A x \in Request : x # t => seen'[x] = seen[x]
      BY <1>0, <1>15, <2>2 DEF Compared
    <3>. QED
      BY <1>10, <1>15, <2>2, <3>1
  <2>. QED
    BY <2>1, <2>2
<1>16. ASSUME NEW t \in Scan, Notified(t) PROVE Goal
  <2>1. EndTask(t, applied) /\ UNCHANGED seen /\ applied \in BOOLEAN
    BY <1>16 DEF Notified, ServerInv, TypeOK
  <2>. QED
    BY <1>10, <1>16, <2>1
<1>17. ASSUME NEW m \in Maintenance, Replacing(m) \/ Replaced(m) PROVE Goal
  <2>1. UNCHANGED <<seen, verdict>> /\ \E p \in {"replacing", "ended"} : at' = [at EXCEPT ![m] = p]
    BY <1>17 DEF Replacing, Replaced, slot
  <2>2. m # s
    BY ServerAssumption DEF Scan
  <2>. QED
    BY <1>0, <1>2, <2>1, <2>2
<1>18. ASSUME NEW e \in Edit, Changing(e) \/ Changed(e) PROVE Goal
  <2>1. UNCHANGED <<seen, verdict>> /\ \E p \in {"changing", "ended"} : at' = [at EXCEPT ![e] = p]
    BY <1>18 DEF Changing, Changed, slot
  <2>2. e # s
    BY ServerAssumption DEF Scan
  <2>. QED
    BY <1>0, <1>2, <2>1, <2>2
<1>19. ASSUME StoreWrites PROVE Goal
  BY <1>1, <1>19 DEF StoreWrites, slot, local
<1>20. ASSUME UNCHANGED vars PROVE Goal
  BY <1>1, <1>20 DEF vars, slot, local
<1>21. ASSUME NEW t \in Scan, Announce(t) \/ Announced(t) \/ RunIsOver(t) \/ Recorded(t) PROVE Goal
  BY <1>1, <1>21 DEF Announce, Announced, RunIsOver, Recorded, slot
<1>22. Goal
  <2>1. CASE \E r \in Request : Arrive(r)
    BY <1>5, <2>1
  <2>2. ASSUME NEW t \in Scan, \/ RequestScan(t) \/ StartScheduled(t) \/ SettingsRead(t) \/ Admit(t) \/ Reject(t)
                               \/ Cancel(t) \/ CollectFails(t) \/ CollectReturns(t) \/ Saved(t)
                               \/ HistoryRead(t) \/ ReadFails(t) \/ Compared(t) \/ Notified(t)
                               \/ TickReads(t) \/ Announce(t) \/ Announced(t) \/ RunIsOver(t) \/ Recorded(t)
        PROVE  Goal
    BY <1>6, <1>7, <1>8, <1>9, <1>11, <1>12, <1>13, <1>14, <1>15, <1>16, <1>21, <2>2
  <2>3. CASE \/ \E m \in Maintenance : Replacing(m) \/ Replaced(m)
             \/ \E e \in Edit : Changing(e) \/ Changed(e)
    BY <1>17, <1>18, <2>3
  <2>. QED
    BY <1>19, <1>20, <2>1, <2>2, <2>3 DEF Next
<1>. QED
  BY <1>22 DEF Goal

\* Every step keeps the snapshots of completed scans saved and their new ports notified.
LEMMA SaveInvNext == SaveInv /\ [Next]_vars => SaveInv'
<1>. SUFFICES ASSUME SaveInv, [Next]_vars PROVE SaveInv'
  OBVIOUS
<1>1. ServerInv' /\ Queue'
  BY ServerInvNext, QueueNext DEF SaveInv
<1>2. \A o \in Update \cup Replace : outcome[o] = "done" => outcome'[o] = "done"
  BY QueueNext DEF SaveInv
<1>3. /\ \A s \in Scan : Save(s) \in Update
      /\ \A s \in Scheduled : s \in Scan /\ Notify(s) \in Update
      /\ outcome \in [Update \cup Replace -> {"none", "pending", "done", "failed"}]
  BY Calls DEF SaveInv, ServerInv, TypeOK
<1>4. ASSUME NEW s \in Scan, Saved(s), applied PROVE outcome'[Save(s)] = "done"
  BY <1>3, <1>4 DEF Saved, Store!Report
<1>5. ASSUME NEW s \in Scheduled, Notified(s), applied PROVE outcome'[Notify(s)] = "done"
  BY <1>3, <1>5 DEF Notified, Store!Report
<1>6. ASSUME NEW s \in Scan, \/ at[s] \in {"rereading", "reread", "notifying"}
                             \/ verdict[s] = "completed"
      PROVE  outcome[Save(s)] = "done" /\ outcome'[Save(s)] = "done"
  BY <1>2, <1>3, <1>6 DEF SaveInv, SavedFirst
<1>7. SavedFirst'
  <2>. SUFFICES ASSUME NEW s \in Scan, at'[s] \in {"rereading", "reread", "notifying"} \/ verdict'[s] = "completed"
               PROVE  outcome'[Save(s)] = "done"
    BY DEF SavedFirst, Save
  <2>1. Compared(s) => at[s] = "reread"
    BY DEF Compared
  <2>2. Notified(s) => at[s] = "notifying"
    BY DEF Notified
  <2>. QED
    BY <1>4, <1>6, <2>1, <2>2, WhereScansAre DEF SaveInv
<1>8. HistoryHolds'
  <2>. SUFFICES ASSUME NEW s \in Scan, at'[s] = "reread", NewPort(s, db)' PROVE NewPort(s, seen[s])'
    BY DEF HistoryHolds
  <2>1. CASE HistoryRead(s)
    <3>1. seen'[s] = db'
      BY <2>1 DEF HistoryRead, ReturnRead, store, SaveInv, ServerInv, TypeOK, Request
    <3>. QED
      BY <3>1 DEF NewPort, Snapshots, Save
  <2>2. CASE at[s] = "reread" /\ seen'[s] = seen[s]
    <3>1. NewPort(s, db)
      BY <1>6, <2>2, NoNewPort
    <3>2. NewPort(s, seen[s])
      BY <2>2, <3>1 DEF SaveInv, HistoryHolds
    <3>3. UNCHANGED found
      <4>1. ASSUME NEW t \in Scan, CollectReturns(t) PROVE FALSE
        BY <2>2, <4>1 DEF CollectReturns, SaveInv, ServerInv, SlotHeld, Working
      <4>. QED
        BY <4>1, WhoFinds DEF SaveInv
    <3>. QED
      BY <2>2, <3>2, <3>3 DEF NewPort, Snapshots, Save
  <2>. QED
    BY <2>1, <2>2, WhereScansAre DEF SaveInv
<1>9. NewPortNotified'
  <2>. SUFFICES ASSUME NEW s \in Scheduled, verdict'[s] = "completed", NewPort(s, db)'
               PROVE  outcome'[Notify(s)] = "done"
    BY DEF NewPortNotified, Notify
  <2>1. CASE verdict[s] = "completed"
    <3>1. NewPort(s, db)
      BY <1>3, <1>6, <2>1, NoNewPort
    <3>. QED
      BY <1>2, <1>3, <2>1, <3>1 DEF SaveInv, NewPortNotified
  <2>2. CASE Compared(s) /\ ~NewPort(s, seen[s])
    <3>1. at[s] = "reread"
      BY <2>2 DEF Compared
    <3>2. NewPort(s, db)
      BY <1>3, <1>6, <3>1, NoNewPort
    <3>. QED
      BY <1>3, <2>2, <3>1, <3>2 DEF SaveInv, HistoryHolds
  <2>3. CASE Notified(s) /\ applied
    BY <1>5, <2>3
  <2>. QED
    BY <1>3, <2>1, <2>2, <2>3, WhereScansAre DEF SaveInv
<1>. QED
  BY <1>1, <1>7, <1>8, <1>9 DEF SaveInv

\* JOB-01, SCH-06: a scan that is shown as completed has its snapshot saved and its new
\* port notified, whatever was saved, replaced or cancelled meanwhile.
THEOREM CompletedWasSaved == Spec => []CompletedIsSaved
<1>1. Init => SaveInv
  <2>. SUFFICES ASSUME Init PROVE SaveInv
    OBVIOUS
  <2>1. pending = <<>> /\ ToSet(pending) = {} /\ Len(pending) = 0
    BY DEF Init, Store!Init, ToSet
  <2>2. \A s \in Scan : at[s] = "new" /\ verdict[s] = "none"
    BY DEF Init, Slot!Init, Request
  <2>3. \A s \in Scheduled : s \in Scan
    BY DEF Scan
  <2>4. Queue
    BY <2>1 DEF Queue
  <2>. QED
    BY <2>2, <2>3, <2>4, ServerInvInit DEF SaveInv, SavedFirst, HistoryHolds, NewPortNotified
<1>2. SaveInv => CompletedIsSaved
  BY DEF SaveInv, SavedFirst, NewPortNotified, CompletedIsSaved
<1>. QED
  BY <1>1, <1>2, SaveInvNext, PTL DEF Spec
=============================================================================
