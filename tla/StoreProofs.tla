---------------------------- MODULE StoreProofs -----------------------------
(***************************************************************************)
(* What holds of the store for any calls, readers and number of crashes,   *)
(* and of the corrections that it keeps, for any devices and addresses,    *)
(* any limit of the log, any older files and any number of operations.     *)
(*                                                                         *)
(* QueueInv is what all of it rests on: only the first call of the queue   *)
(* has begun, so the database does not change between what that call has   *)
(* read and what it writes.  From it follows, step by step, that the files *)
(* implement the serial store.  Each of the other properties needs one     *)
(* more invariant: the bound on the backups holds already for those the    *)
(* pruning call means to leave (Retained); the backup of a replacement is  *)
(* the newest, or it might be pruned itself (BackedUp); and a value that   *)
(* was written stays visible behind later calls, because a value never has *)
(* a replacement in it that is still to come (EffectsKept).                *)
(*                                                                         *)
(* Of the corrections, each keeps the references of an inventory, and they *)
(* are applied in the order in which they were recorded, because a read    *)
(* gives each operation the number of its place (IdInv); so whatever is    *)
(* shown of a snapshot has no dangling reference (FoldKeepsSound).         *)
(***************************************************************************)
EXTENDS JsonStore, IdentityOperations, SelectionProofs

\* The database is never torn: a write that was cut short is only in the temporary file.
\* Before initialize() has returned, there is no call.
WholeFile ==
    /\ disk # Partial
    /\ process \in {"booting", "seeding"} => disk = Absent
    /\ process = "seeding" => tmp = <<>>
    /\ process # "up" => writeQueue = <<>>

\* A call is in the queue exactly while its caller waits, and once.
Queued ==
    /\ \A o \in Op : /\ step[o] # "idle" <=> o \in ToSet(writeQueue)
                     /\ outcome[o] = "pending" <=> o \in ToSet(writeQueue)
    /\ \A i, j \in 1..Len(writeQueue) : writeQueue[i] = writeQueue[j] => i = j

\* Only the first call has begun.
OneAtWork == \A o \in Op : step[o] \notin {"idle", "queued"} => writeQueue # <<>> /\ o = Head(writeQueue)

\* What a call writes is the database with the call.
Written(o) == IF o \in Update THEN Append(Content(disk), o) ELSE <<o>>

\* A call works on the database as it is, and only replacements make backups.
OwnValue ==
    \A o \in Op :
        /\ outcome[o] = "none" \/ step[o] \in {"queued", "reading"} => state[o] = <<>>
        /\ step[o] \in {"backup", "publish", "list", "prune"} => o \in Replace /\ state[o] = Content(disk)
        /\ step[o] \in {"writing", "renaming"} => state[o] = Written(o)
        /\ step[o] = "renaming" => tmp = state[o]

QueueInv == TypeOK /\ WholeFile /\ Queued /\ OneAtWork /\ OwnValue

\* Pruning leaves Keep backups.
Retained ==
    /\ IsFiniteSet(backups) /\ doomed \subseteq backups
    /\ \A o \in Replace : /\ step[o] = "prune" => Cardinality(backups \ doomed) <= Keep
                          /\ step[o] \in {"writing", "renaming", "written"} => Cardinality(backups) <= Keep

\* With a clock that goes forward, the backup of the replacement at work is the newest.
Own(o, b) == b.of = o /\ b.content = Content(disk) /\ b.at = clock /\ \A e \in backups \ {b} : e.at < clock
BackedUp ==
    /\ \A b \in backups : b.at <= clock
    /\ \A o \in Replace :
          /\ step[o] \in {"backup", "publish"} => \A b \in backups : b.at < clock
          /\ step[o] \in {"list", "writing", "renaming"} => \E b \in backups : Own(o, b)
          /\ step[o] = "prune" => \E b \in backups \ doomed : Own(o, b)

\* Calls whose effect is in the database, or has been.
Landed == {o \in Op : outcome[o] \in {"done", "lost"} \/ step[o] = "written"}

\* What a read returns if it sees the value s.
Sees(s, d) == \/ IsPrefix(s, d)
              \/ \E later \in Replace \ ToSet(s) : IsPrefix(<<later>>, d)

\* What has landed is seen, and what is seen has landed.
EffectsKept ==
    /\ ToSet(Content(disk)) \subseteq Landed
    /\ \A o \in Op : (outcome[o] = "done" \/ step[o] = "written") /\ state[o] # <<>> =>
          ToSet(state[o]) \subseteq Landed /\ Sees(state[o], Content(disk))

\* A read is about calls that were made before it, and returns when they have been answered.
ReadsLater ==
    \A r \in Reader :
        /\ \A o \in reads[r].after : outcome[o] # "none"
        /\ reads[r].at = "done" => \A o \in reads[r].after :
              /\ outcome[o] # "pending"
              /\ outcome[o] = "done" /\ state[o] # <<>> => Sees(state[o], reads[r].value)
-----------------------------------------------------------------------------
\* What Append does to a queue and to what is in it.
LEMMA Appended ==
    ASSUME NEW S, NEW q \in Seq(S), NEW o \in S
    PROVE  /\ Append(q, o) \in Seq(S) /\ ToSet(Append(q, o)) = ToSet(q) \cup {o}
           /\ Len(Append(q, o)) = Len(q) + 1 /\ Append(q, o)[Len(q) + 1] = o
           /\ \A i \in 1..Len(q) : Append(q, o)[i] = q[i]
           /\ Append(q, o) # <<>>
           /\ q # <<>> => Head(Append(q, o)) = Head(q)
           /\ q = <<>> => Head(Append(q, o)) = o
<1>1. /\ Append(q, o) \in Seq(S) /\ Len(Append(q, o)) = Len(q) + 1 /\ Append(q, o)[Len(q) + 1] = o
      /\ \A i \in 1..Len(q) : Append(q, o)[i] = q[i]
  OBVIOUS
<1>2. DOMAIN Append(q, o) = 1..(Len(q) + 1) /\ DOMAIN q = 1..Len(q) /\ Len(q) \in Nat
  BY <1>1
<1>3. ToSet(Append(q, o)) = ToSet(q) \cup {o}
  BY <1>1, <1>2 DEF ToSet
<1>4. Append(q, o) # <<>> /\ Head(Append(q, o)) = Append(q, o)[1]
  BY <1>1, <1>2
<1>5. (q # <<>> => Len(q) >= 1 /\ Head(q) = q[1]) /\ (q = <<>> => Len(q) = 0)
  BY <1>2
<1>. QED
  BY <1>1, <1>2, <1>3, <1>4, <1>5

\* What taking the first call from a queue without repetitions leaves.
LEMMA Removed ==
    ASSUME NEW S, NEW q \in Seq(S), q # <<>>, \A i, j \in 1..Len(q) : q[i] = q[j] => i = j
    PROVE  /\ Tail(q) \in Seq(S) /\ ToSet(Tail(q)) = ToSet(q) \ {Head(q)}
           /\ Head(q) \in S /\ Head(q) \in ToSet(q)
           /\ \A i, j \in 1..Len(Tail(q)) : Tail(q)[i] = Tail(q)[j] => i = j
<1>1. /\ Tail(q) \in Seq(S) /\ Len(q) \in Nat \ {0} /\ Len(Tail(q)) = Len(q) - 1 /\ Head(q) = q[1]
      /\ \A i \in 1..Len(Tail(q)) : Tail(q)[i] = q[i + 1]
  OBVIOUS
<1>2. DOMAIN Tail(q) = 1..(Len(q) - 1) /\ DOMAIN q = 1..Len(q)
  BY <1>1
<1>3. /\ \A x : x \in ToSet(Tail(q)) <=> \E i \in 1..(Len(q) - 1) : x = q[i + 1]
      /\ \A x : x \in ToSet(q) <=> \E i \in 1..Len(q) : x = q[i]
  <2>1. \A i \in 1..(Len(q) - 1) : Tail(q)[i] = q[i + 1]
    BY <1>1
  <2>. QED
    BY <1>2, <2>1 DEF ToSet
<1>4. ASSUME NEW x \in ToSet(Tail(q)) PROVE x \in ToSet(q) \ {Head(q)}
  <2>1. PICK i \in 1..(Len(q) - 1) : x = q[i + 1]
    BY <1>3
  <2>2. i + 1 \in 1..Len(q) /\ 1 \in 1..Len(q) /\ i + 1 # 1
    BY <1>1
  <2>. QED
    BY <1>1, <1>3, <2>1, <2>2
<1>5. ASSUME NEW x \in ToSet(q), x # Head(q) PROVE x \in ToSet(Tail(q))
  <2>1. PICK i \in 1..Len(q) : x = q[i]
    BY <1>3
  <2>2. i - 1 \in 1..(Len(q) - 1) /\ i = (i - 1) + 1
    BY <1>1, <1>5, <2>1
  <2>. QED
    BY <1>3, <2>1, <2>2
<1>6. \A i, j \in 1..Len(Tail(q)) : Tail(q)[i] = Tail(q)[j] => i = j
  BY <1>1
<1>7. Head(q) \in S /\ Head(q) \in ToSet(q)
  BY <1>1, <1>3
<1>. QED
  BY <1>1, <1>4, <1>5, <1>6, <1>7

\* A database that is whole is the sequence of calls it results from.
LEMMA Contents ==
    ASSUME QueueInv
    PROVE  Content(disk) \in Seq(Op)
  BY DEF QueueInv, TypeOK, WholeFile, Content, Files

\* What a call writes is a value, and never the fresh one.
LEMMA WrittenType ==
    ASSUME QueueInv, NEW o \in Op
    PROVE  /\ Written(o) \in Seq(Op) /\ Written(o) # <<>>
           /\ o \in Update => Written(o) = Append(Content(disk), o)
           /\ o \in Replace => Written(o) = <<o>>
<1>1. Content(disk) \in Seq(Op) /\ <<o>> \in Seq(Op) /\ <<o>> # <<>>
  BY Contents
<1>2. Append(Content(disk), o) \in Seq(Op) /\ Append(Content(disk), o) # <<>>
  BY <1>1, Appended
<1>3. o \in Replace => o \notin Update
  BY StoreAssumption
<1>. QED
  BY <1>1, <1>2, <1>3 DEF Written

\* The invariant holds when nothing has been started.
LEMMA QueueInvInit == Init => QueueInv
<1>. SUFFICES ASSUME Init PROVE QueueInv
  OBVIOUS
<1>. USE DEF Init
<1>1. clock \in Nat /\ backups = {} /\ <<>> \in Seq(Op)
  <2>1. CASE MonotoneClock
    BY <2>1
  <2>2. CASE ~MonotoneClock
    BY <2>2
  <2>. QED
    BY <2>1, <2>2
<1>2. TypeOK
  BY <1>1, StoreAssumption DEF TypeOK, Steps, Files
<1>3. WholeFile
  BY FilesAssumption DEF WholeFile
<1>4. ToSet(writeQueue) = {} /\ Len(writeQueue) = 0
  BY DEF ToSet
<1>5. Queued /\ OneAtWork /\ OwnValue
  BY <1>4 DEF Queued, OneAtWork, OwnValue
<1>. QED
  BY <1>2, <1>3, <1>5 DEF QueueInv
-----------------------------------------------------------------------------
\* Where a call is that has begun.
Working == Steps \ {"idle", "queued"}

\* The first call moves on, and nobody enters or leaves the queue.
LEMMA Moves ==
    ASSUME QueueInv, NEW o \in Op, NEW p \in Working, step' = [step EXCEPT ![o] = p],
           step[o] # "idle", o = Head(writeQueue), UNCHANGED <<process, writeQueue, outcome>>
    PROVE  /\ Queued' /\ OneAtWork'
           /\ step' \in [Op -> Steps]
           /\ \A x \in Op : step'[x] = IF x = o THEN p ELSE step[x]
           /\ \A x \in Op : x # o => step[x] \in {"idle", "queued"} /\ step'[x] \in {"idle", "queued"}
<1>1. o \in ToSet(writeQueue) /\ writeQueue # <<>>
  BY DEF QueueInv, Queued, ToSet
<1>2. step' \in [Op -> Steps] /\ \A x \in Op : step'[x] = IF x = o THEN p ELSE step[x]
  BY DEF QueueInv, TypeOK, Working
<1>3. p # "idle"
  BY DEF Working
<1>4. Queued'
  BY <1>1, <1>2, <1>3 DEF QueueInv, Queued
<1>5. \A x \in Op : x # o => step[x] \in {"idle", "queued"}
  BY DEF QueueInv, OneAtWork
<1>6. OneAtWork'
  BY <1>1, <1>2, <1>5 DEF OneAtWork
<1>. QED
  BY <1>2, <1>4, <1>5, <1>6

\* A call that has begun is the first one, of a store that is up.
LEMMA AtWork ==
    ASSUME QueueInv, NEW o \in Op, step[o] \notin {"idle", "queued"}
    PROVE  step[o] # "idle" /\ o = Head(writeQueue) /\ writeQueue # <<>> /\ process = "up"
  BY DEF QueueInv, OneAtWork, WholeFile, TypeOK

\* While the first call moves on, the others keep their values.
LEMMA OthersKeep ==
    ASSUME QueueInv, NEW o \in Op, NEW p \in Working, UNCHANGED outcome,
           \A x \in Op : step'[x] = IF x = o THEN p ELSE step[x],
           \A x \in Op : x # o => step[x] \in {"idle", "queued"} /\ state'[x] = state[x],
           step[o] # "idle",
           p = "reading" => state'[o] = <<>>,
           p \in {"backup", "publish", "list", "prune"} => o \in Replace /\ state'[o] = Content(disk'),
           p \in {"writing", "renaming"} => state'[o] = IF o \in Update THEN Append(Content(disk'), o) ELSE <<o>>,
           p = "renaming" => tmp' = state'[o]
    PROVE  OwnValue'
<1>. SUFFICES ASSUME NEW x \in Op
             PROVE  (/\ outcome[x] = "none" \/ step[x] \in {"queued", "reading"} => state[x] = <<>>
                     /\ step[x] \in {"backup", "publish", "list", "prune"} => x \in Replace /\ state[x] = Content(disk)
                     /\ step[x] \in {"writing", "renaming"} => state[x] = Written(x)
                     /\ step[x] = "renaming" => tmp = state[x])'
  BY DEF OwnValue
<1>1. CASE x = o
  <2>1. outcome[o] # "none"
    BY DEF QueueInv, Queued
  <2>. QED
    BY <1>1, <2>1 DEF Working, Written, Content
<1>2. CASE x # o
  BY <1>2 DEF QueueInv, OwnValue
<1>. QED
  BY <1>1, <1>2

\* What a step of the first call has to keep to.
LEMMA WorkStep ==
    ASSUME QueueInv, NEW o \in Op, NEW p \in Working, step' = [step EXCEPT ![o] = p],
           step[o] # "idle", o = Head(writeQueue), UNCHANGED <<process, writeQueue, outcome, reads, crashes>>,
           disk' \in Seq(Op) \cup {Absent}, tmp' \in Seq(Op) \cup Files, backups' \subseteq Backup,
           doomed' \subseteq Backup, clock' \in Nat, state' \in [Op -> Seq(Op)],
           \A x \in Op : x # o => state'[x] = state[x],
           p = "reading" => state'[o] = <<>>,
           p \in {"backup", "publish", "list", "prune"} => o \in Replace /\ state'[o] = Content(disk'),
           p \in {"writing", "renaming"} => state'[o] = IF o \in Update THEN Append(Content(disk'), o) ELSE <<o>>,
           p = "renaming" => tmp' = state'[o]
    PROVE  QueueInv'
<1>1. /\ Queued' /\ OneAtWork' /\ step' \in [Op -> Steps]
      /\ \A x \in Op : step'[x] = IF x = o THEN p ELSE step[x]
      /\ \A x \in Op : x # o => step[x] \in {"idle", "queued"} /\ step'[x] \in {"idle", "queued"}
  BY Moves
<1>2. OwnValue'
  BY <1>1, OthersKeep
<1>3. TypeOK'
  BY <1>1 DEF QueueInv, TypeOK, Files
<1>4. disk' # Partial /\ process' = "up"
  <2>1. o \in ToSet(writeQueue)
    BY DEF QueueInv, Queued
  <2>2. writeQueue # <<>>
    BY <2>1 DEF ToSet
  <2>. QED
    BY <2>2, FilesAssumption DEF QueueInv, TypeOK, WholeFile
<1>5. WholeFile'
  BY <1>4 DEF WholeFile
<1>. QED
  BY <1>1, <1>2, <1>3, <1>5 DEF QueueInv

\* One step of the first call, whichever it is.
LEMMA ProceedStep == ASSUME QueueInv, NEW o \in Op, Proceed(o), ~Settle(o) PROVE QueueInv'
<1>. USE DEF Working, Steps
<1>1. /\ disk \in Seq(Op) \cup {Absent} /\ tmp \in Seq(Op) \cup Files /\ backups \subseteq Backup
      /\ doomed \subseteq Backup /\ clock \in Nat /\ state \in [Op -> Seq(Op)]
  BY DEF QueueInv, TypeOK, WholeFile, Files
<1>2. /\ Written(o) \in Seq(Op) /\ Content(disk) \in Seq(Op) /\ <<o>> \in Seq(Op)
      /\ o \in Update => Written(o) = Append(Content(disk), o)
      /\ o \in Replace => Written(o) = <<o>> /\ o \notin Update
  BY WrittenType, Contents, StoreAssumption
<1>3. step[o] \notin {"idle", "queued"} => o = Head(writeQueue)
  BY AtWork
<1>4. /\ step[o] \in {"queued", "reading"} => state[o] = <<>>
      /\ step[o] \in {"backup", "publish", "list", "prune"} => o \in Replace /\ state[o] = Content(disk)
      /\ step[o] \in {"writing", "renaming"} => state[o] = Written(o)
      /\ step[o] = "renaming" => tmp = state[o]
  BY DEF QueueInv, OwnValue
<1>5. CASE Begin(o)
  BY <1>1, <1>4, <1>5, WorkStep DEF Begin
<1>6. CASE ReadForUpdate(o)
  BY <1>1, <1>2, <1>3, <1>6, WorkStep DEF ReadForUpdate, Files
<1>7. CASE ReadForNothing(o)
  BY <1>1, <1>3, <1>7, WorkStep DEF ReadForNothing
<1>8. CASE ReadForReplace(o)
  <2>1. clock' \in Nat
    BY <1>1, <1>8 DEF ReadForReplace
  <2>. QED
    BY <1>1, <1>2, <1>3, <1>8, <2>1, WorkStep DEF ReadForReplace
<1>9. CASE BackupWritten(o)
  BY <1>1, <1>3, <1>4, <1>9, WorkStep DEF BackupWritten
<1>10. CASE BackupRenamed(o)
  <2>1. [at |-> clock, of |-> o, content |-> state[o]] \in Backup
    BY <1>1, <1>4, <1>10 DEF BackupRenamed, Backup
  <2>. QED
    BY <1>1, <1>3, <1>4, <1>10, <2>1, WorkStep DEF BackupRenamed
<1>11. CASE ListBackups(o)
  BY <1>1, <1>3, <1>4, <1>11, WorkStep DEF ListBackups
<1>12. CASE Unlink(o)
  <2>1. step' = [step EXCEPT ![o] = "prune"] /\ step[o] = "prune"
    BY <1>12 DEF Unlink, QueueInv, TypeOK
  <2>2. backups' \subseteq Backup /\ doomed' \subseteq Backup
    BY <1>1, <1>12 DEF Unlink
  <2>. QED
    BY <1>1, <1>3, <1>4, <1>12, <2>1, <2>2, WorkStep DEF Unlink
<1>13. CASE WriteReplacement(o)
  BY <1>1, <1>2, <1>3, <1>4, <1>13, WorkStep DEF WriteReplacement, Files
<1>14. CASE WriteDone(o)
  <2>1. state[o] = IF o \in Update THEN Append(Content(disk), o) ELSE <<o>>
    BY <1>4, <1>14 DEF WriteDone, Written
  <2>. QED
    BY <1>1, <1>3, <1>14, <2>1, WorkStep DEF WriteDone
<1>15. CASE Rename(o)
  BY <1>1, <1>2, <1>3, <1>4, <1>15, WorkStep DEF Rename, Files
<1>16. CASE Fail(o)
  BY <1>1, <1>3, <1>16, WorkStep DEF Fail
<1>. QED
  BY <1>5, <1>6, <1>7, <1>8, <1>9, <1>10, <1>11, <1>12, <1>13, <1>14, <1>15, <1>16 DEF Proceed

\* The first call is answered and leaves the queue.
LEMMA SettleStep == ASSUME QueueInv, NEW o \in Op, Settle(o) PROVE QueueInv'
<1>1. /\ step[o] \in {"written", "rejected"} /\ step' = [step EXCEPT ![o] = "idle"]
      /\ outcome' = [outcome EXCEPT ![o] = IF step[o] = "written" THEN "done" ELSE "failed"]
      /\ writeQueue' = Tail(writeQueue)
      /\ UNCHANGED <<process, disk, tmp, backups, state, doomed, reads, clock, crashes>>
  BY DEF Settle
<1>2. o = Head(writeQueue) /\ writeQueue # <<>> /\ process = "up"
  BY <1>1, AtWork
<1>3. /\ writeQueue' \in Seq(Op) /\ ToSet(writeQueue') = ToSet(writeQueue) \ {o}
      /\ \A i, j \in 1..Len(writeQueue') : writeQueue'[i] = writeQueue'[j] => i = j
  <2>1. writeQueue \in Seq(Op) /\ \A i, j \in 1..Len(writeQueue) : writeQueue[i] = writeQueue[j] => i = j
    BY DEF QueueInv, TypeOK, Queued
  <2>. QED
    BY SMTT(20), <1>1, <1>2, <2>1, Removed
<1>4. /\ \A x \in Op : step'[x] = IF x = o THEN "idle" ELSE step[x]
      /\ \A x \in Op : outcome'[x] = IF x = o THEN IF step[o] = "written" THEN "done" ELSE "failed" ELSE outcome[x]
      /\ step' \in [Op -> Steps] /\ outcome' \in [Op -> {"none", "pending", "done", "failed", "lost"}]
  BY <1>1 DEF QueueInv, TypeOK, Steps
<1>5. TypeOK'
  BY <1>1, <1>3, <1>4 DEF QueueInv, TypeOK
<1>6. WholeFile'
  BY <1>1, <1>2 DEF QueueInv, WholeFile
<1>7. Queued'
  BY <1>3, <1>4 DEF QueueInv, Queued
<1>8. \A x \in Op : x # o => step[x] \in {"idle", "queued"}
  BY <1>2 DEF QueueInv, OneAtWork
<1>9. OneAtWork'
  BY <1>4, <1>8 DEF OneAtWork
<1>10. OwnValue'
  BY <1>1, <1>4, <1>8 DEF QueueInv, OwnValue, Content, Written
<1>. QED
  BY <1>5, <1>6, <1>7, <1>9, <1>10 DEF QueueInv

\* A call is queued behind those that are there.
LEMMA EnqueueStep == ASSUME QueueInv, NEW o \in Op, Enqueue(o) PROVE QueueInv'
<1>1. /\ process = "up" /\ outcome[o] = "none" /\ step' = [step EXCEPT ![o] = "queued"]
      /\ outcome' = [outcome EXCEPT ![o] = "pending"] /\ writeQueue' = Append(writeQueue, o)
      /\ UNCHANGED <<process, disk, tmp, backups, state, doomed, reads, clock, crashes>>
  BY DEF Enqueue
<1>2. writeQueue \in Seq(Op) /\ Len(writeQueue) \in Nat
  BY DEF QueueInv, TypeOK
<1>3. /\ writeQueue' \in Seq(Op) /\ ToSet(writeQueue') = ToSet(writeQueue) \cup {o} /\ writeQueue' # <<>>
      /\ Len(writeQueue') = Len(writeQueue) + 1 /\ writeQueue'[Len(writeQueue) + 1] = o
      /\ \A i \in 1..Len(writeQueue) : writeQueue'[i] = writeQueue[i]
      /\ writeQueue # <<>> => Head(writeQueue') = Head(writeQueue)
  BY <1>1, <1>2, Appended
<1>4. /\ \A x \in Op : step'[x] = IF x = o THEN "queued" ELSE step[x]
      /\ \A x \in Op : outcome'[x] = IF x = o THEN "pending" ELSE outcome[x]
      /\ step' \in [Op -> Steps] /\ outcome' \in [Op -> {"none", "pending", "done", "failed", "lost"}]
  BY <1>1 DEF QueueInv, TypeOK, Steps
<1>5. TypeOK'
  BY <1>1, <1>3, <1>4 DEF QueueInv, TypeOK
<1>6. WholeFile'
  BY <1>1 DEF QueueInv, WholeFile
<1>7. Queued'
  <2>1. \A x \in Op : /\ step'[x] # "idle" <=> x \in ToSet(writeQueue')
                      /\ outcome'[x] = "pending" <=> x \in ToSet(writeQueue')
    BY <1>3, <1>4 DEF QueueInv, Queued
  <2>2. o \notin ToSet(writeQueue)
    BY <1>1 DEF QueueInv, Queued
  <2>3. \A i \in 1..Len(writeQueue) : writeQueue[i] # o
    BY <1>2, <2>2 DEF ToSet
  <2>4. \A i, j \in 1..Len(writeQueue') : writeQueue'[i] = writeQueue'[j] => i = j
    <3>1. 1..Len(writeQueue') = 1..Len(writeQueue) \cup {Len(writeQueue) + 1}
      BY <1>2, <1>3
    <3>2. \A i, j \in 1..Len(writeQueue) : writeQueue[i] = writeQueue[j] => i = j
      BY DEF QueueInv, Queued
    <3>. QED
      BY <1>2, <1>3, <2>3, <3>1, <3>2
  <2>. QED
    BY <2>1, <2>4 DEF Queued
<1>8. OneAtWork'
  BY <1>3, <1>4 DEF QueueInv, OneAtWork
<1>9. OwnValue'
  BY <1>1, <1>4 DEF QueueInv, OwnValue, Content, Written
<1>. QED
  BY <1>5, <1>6, <1>7, <1>8, <1>9 DEF QueueInv

\* initialize() meets no call, and never a file that is not complete.
LEMMA InitializeStep == ASSUME QueueInv, Boot \/ SeedWritten \/ SeedRenamed PROVE QueueInv'
<1>1. /\ process # "up" /\ writeQueue = <<>>
      /\ UNCHANGED <<backups, writeQueue, step, state, doomed, outcome, reads, clock, crashes>>
  BY DEF Boot, SeedWritten, SeedRenamed, QueueInv, WholeFile
<1>2. <<>> \in Seq(Op) /\ ToSet(writeQueue) = {}
  BY <1>1 DEF ToSet
<1>3. Content(disk') = Content(disk)
  BY DEF Boot, SeedWritten, SeedRenamed, QueueInv, WholeFile, Content
<1>4. TypeOK'
  BY <1>1, <1>2 DEF Boot, SeedWritten, SeedRenamed, QueueInv, TypeOK, Files
<1>5. WholeFile'
  <2>1. <<>> # Partial
    BY <1>2, FilesAssumption
  <2>. QED
    BY <1>1, <2>1, FilesAssumption DEF Boot, SeedWritten, SeedRenamed, QueueInv, TypeOK, WholeFile
<1>6. Queued' /\ OneAtWork'
  BY <1>1 DEF QueueInv, Queued, OneAtWork
<1>7. OwnValue'
  <2>1. \A x \in Op : step[x] = "idle"
    BY <1>2 DEF QueueInv, Queued
  <2>. QED
    BY <1>1, <2>1 DEF QueueInv, OwnValue
<1>. QED
  BY <1>4, <1>5, <1>6, <1>7 DEF QueueInv

\* Reads that have not returned a value, and those that have.
Open == [at : {"idle", "waiting", "failed", "lost"}, after : SUBSET Op, value : Seq(Op)]
Returned == [at : {"done"}, after : SUBSET Op, value : Seq(Op) \cup Files]

\* A read touches nothing that is written.
LEMMA ReadStep == ASSUME QueueInv, NEW r \in Reader, Read(r) \/ ReadDone(r) \/ ReadFails(r) PROVE QueueInv'
<1>1. UNCHANGED <<process, disk, tmp, backups, writeQueue, step, state, doomed, outcome, clock, crashes>>
  BY DEF Read, ReadDone, ReadFails
<1>2. reads' \in [Reader -> Open \cup Returned]
  <2>1. ToSet(writeQueue) \subseteq Op /\ Content(disk) \in Seq(Op)
    BY Contents DEF QueueInv, TypeOK, ToSet
  <2>2. reads \in [Reader -> Open \cup Returned]
    BY DEF QueueInv, TypeOK, Open, Returned
  <2>3. reads[r].at # "done"
    BY DEF Read, ReadDone, ReadFails
  <2>4. reads[r] \in Open
    BY <2>2, <2>3 DEF Returned
  <2>5. CASE Read(r)
    <3>1. [reads[r] EXCEPT !.at = "waiting", !.after = ToSet(writeQueue)] \in Open
      BY <2>1, <2>4 DEF Open
    <3>2. reads' = [reads EXCEPT ![r] = [reads[r] EXCEPT !.at = "waiting", !.after = ToSet(writeQueue)]]
      BY <2>5, <2>2 DEF Read
    <3>. QED
      BY <2>2, <3>1, <3>2
  <2>6. CASE ReadDone(r)
    <3>1. [reads[r] EXCEPT !.at = "done", !.value = Content(disk)] \in Returned
      BY <2>1, <2>4 DEF Open, Returned
    <3>2. reads' = [reads EXCEPT ![r] = [reads[r] EXCEPT !.at = "done", !.value = Content(disk)]]
      BY <2>6, <2>2 DEF ReadDone
    <3>. QED
      BY <2>2, <3>1, <3>2
  <2>7. CASE ReadFails(r)
    <3>1. [reads[r] EXCEPT !.at = "failed"] \in Open
      BY <2>4 DEF Open
    <3>2. reads' = [reads EXCEPT ![r] = [reads[r] EXCEPT !.at = "failed"]]
      BY <2>7, <2>2 DEF ReadFails
    <3>. QED
      BY <2>2, <3>1, <3>2
  <2>. QED
    BY <2>5, <2>6, <2>7
<1>3. TypeOK'
  BY <1>1, <1>2 DEF QueueInv, TypeOK, Open, Returned
<1>4. WholeFile' /\ Queued' /\ OneAtWork'
  BY <1>1 DEF QueueInv, WholeFile, Queued, OneAtWork
<1>5. OwnValue'
  BY <1>1 DEF QueueInv, OwnValue, Written, Content
<1>. QED
  BY <1>3, <1>4, <1>5 DEF QueueInv

\* A crash leaves the files, and nobody who waits for them.
LEMMA CrashStep == ASSUME QueueInv, Crash PROVE QueueInv'
<1>1. /\ writeQueue' = <<>> /\ step' = [o \in Op |-> "idle"] /\ doomed' = {} /\ process' = "down"
      /\ outcome' = [o \in Op |-> IF outcome[o] = "pending" THEN "lost" ELSE outcome[o]]
      /\ UNCHANGED <<disk, tmp, backups, state, clock>>
  BY DEF Crash
<1>2. TypeOK'
  <2>1. reads' \in [Reader -> [at : {"idle", "waiting", "failed", "lost"}, after : SUBSET Op, value : Seq(Op)]
                       \cup [at : {"done"}, after : SUBSET Op, value : Seq(Op) \cup Files]]
    BY DEF Crash, QueueInv, TypeOK
  <2>2. crashes' \in 0..MaxCrashes
    BY StoreAssumption DEF Crash, QueueInv, TypeOK
  <2>3. writeQueue' \in Seq(Op) /\ step' \in [Op -> Steps]
    BY <1>1 DEF Steps
  <2>4. outcome' \in [Op -> {"none", "pending", "done", "failed", "lost"}]
    BY <1>1 DEF QueueInv, TypeOK
  <2>. QED
    BY <1>1, <2>1, <2>2, <2>3, <2>4 DEF QueueInv, TypeOK
<1>3. WholeFile'
  BY <1>1 DEF QueueInv, WholeFile
<1>4. ToSet(writeQueue') = {} /\ Len(writeQueue') = 0
  BY <1>1 DEF ToSet
<1>5. Queued' /\ OneAtWork'
  BY <1>1, <1>4 DEF Queued, OneAtWork
<1>6. OwnValue'
  BY <1>1 DEF QueueInv, OwnValue
<1>. QED
  BY <1>2, <1>3, <1>5, <1>6 DEF QueueInv

\* Each step keeps the invariant.
LEMMA QueueInvNext == QueueInv /\ [Next]_vars => QueueInv'
<1>. SUFFICES ASSUME QueueInv, [Next]_vars PROVE QueueInv'
  OBVIOUS
<1>1. CASE UNCHANGED vars
  <2>1. TypeOK' /\ WholeFile' /\ Queued' /\ OneAtWork'
    BY <1>1 DEF vars, QueueInv, TypeOK, WholeFile, Queued, OneAtWork
  <2>2. OwnValue'
    BY <1>1 DEF vars, QueueInv, OwnValue, Written, Content
  <2>. QED
    BY <2>1, <2>2 DEF QueueInv
<1>. QED
  BY <1>1, ProceedStep, SettleStep, EnqueueStep, InitializeStep, ReadStep, CrashStep DEF Next

\* At every moment, only the first call is at work, on the database as it is.
LEMMA QueueInvHolds == Spec => []QueueInv
  BY QueueInvInit, QueueInvNext, PTL DEF Spec
-----------------------------------------------------------------------------
\* Whether the first call has taken effect.
Applied == \E o \in Op : step[o] = "written"

\* A step of the first call that does not take effect leaves the serial store alone.
LEMMA SilentStep ==
    ASSUME QueueInv, NEW o \in Op, NEW p, step' = [step EXCEPT ![o] = p], step[o] # "written", p # "written",
           UNCHANGED <<disk, writeQueue, outcome>>
    PROVE  UNCHANGED Serial!vars
<1>1. \A x \in Op : step'[x] = IF x = o THEN p ELSE step[x]
  BY DEF QueueInv, TypeOK
<1>2. Applied' = Applied
  BY <1>1 DEF Applied
<1>3. Content(disk)' = Content(disk)
  BY DEF Content
<1>. QED
  BY <1>2, <1>3 DEF Serial!vars, Applied

\* The first call takes effect.
LEMMA EffectStep ==
    ASSUME QueueInv, NEW o \in Op, step' = [step EXCEPT ![o] = "written"], step[o] \in {"reading", "renaming"},
           UNCHANGED <<writeQueue, outcome>>,
           \/ o \in Update /\ Content(disk)' = Append(Content(disk), o)
           \/ o \in Update /\ Content(disk)' = Content(disk)
           \/ o \in Replace /\ Content(disk)' = <<o>>
    PROVE  Serial!Apply(o)
<1>1. o = Head(writeQueue) /\ writeQueue # <<>>
  BY AtWork
<1>2. /\ step'[o] = "written" /\ \A x \in Op : step[x] # "written"
  BY <1>1 DEF QueueInv, TypeOK, OneAtWork
<1>3. ~Applied /\ Applied'
  BY <1>2 DEF Applied
<1>. QED
  BY <1>1, <1>3 DEF Serial!Apply, Applied

\* The first call is reported: as done exactly if it has taken effect.
LEMMA ReportStep == ASSUME QueueInv, NEW o \in Op, Settle(o) PROVE Serial!Report(o)
<1>1. /\ step[o] \in {"written", "rejected"} /\ step' = [step EXCEPT ![o] = "idle"]
      /\ outcome' = [outcome EXCEPT ![o] = IF step[o] = "written" THEN "done" ELSE "failed"]
      /\ writeQueue' = Tail(writeQueue) /\ UNCHANGED disk
  BY DEF Settle
<1>2. o = Head(writeQueue) /\ writeQueue # <<>> /\ \A x \in Op : x # o => step[x] # "written"
  BY <1>1, AtWork DEF QueueInv, OneAtWork
<1>3. Applied <=> step[o] = "written"
  BY <1>2 DEF Applied
<1>4. ~Applied'
  BY <1>1, <1>2 DEF Applied, QueueInv, TypeOK
<1>5. Content(disk)' = Content(disk)
  BY <1>1 DEF Content
<1>. QED
  BY <1>1, <1>2, <1>3, <1>4, <1>5 DEF Serial!Report, Applied

\* Every step of the files is a step of the serial store or leaves it alone.
LEMMA SerialStep == ASSUME QueueInv, [Next]_vars PROVE [Serial!Next]_(Serial!vars)
<1>1. ASSUME NEW o \in Op, Enqueue(o) PROVE Serial!Call(o)
  <2>1. Applied' = Applied
    BY <1>1 DEF Enqueue, Applied, QueueInv, TypeOK, Queued
  <2>2. Content(disk)' = Content(disk)
    BY <1>1 DEF Enqueue, Content
  <2>. QED
    BY <1>1, <2>1, <2>2 DEF Enqueue, Serial!Call, Applied
<1>2. ASSUME NEW o \in Op, Begin(o) \/ ReadForUpdate(o) \/ ReadForReplace(o) \/ BackupWritten(o) \/ BackupRenamed(o)
                           \/ ListBackups(o) \/ WriteReplacement(o) \/ WriteDone(o) \/ Fail(o)
      PROVE  UNCHANGED Serial!vars
  BY <1>2, SilentStep
     DEF Begin, ReadForUpdate, ReadForReplace, BackupWritten, BackupRenamed, ListBackups, WriteReplacement, WriteDone, Fail
<1>3. ASSUME NEW o \in Op, Unlink(o) PROVE UNCHANGED Serial!vars
  <2>1. Applied' = Applied
    BY <1>3 DEF Unlink, Applied
  <2>2. Content(disk)' = Content(disk)
    BY <1>3 DEF Unlink, Content
  <2>. QED
    BY <1>3, <2>1, <2>2 DEF Unlink, Serial!vars, Applied
<1>4. ASSUME NEW o \in Op, ReadForNothing(o) PROVE Serial!Apply(o)
  <2>1. Content(disk)' = Content(disk)
    BY <1>4 DEF ReadForNothing, Content
  <2>. QED
    BY <1>4, <2>1, EffectStep DEF ReadForNothing
<1>5. ASSUME NEW o \in Op, Rename(o) PROVE Serial!Apply(o)
  <2>1. disk' = Written(o) /\ Written(o) \in Seq(Op)
    BY <1>5, WrittenType DEF Rename, QueueInv, OwnValue
  <2>2. Content(disk)' = Written(o)
    BY <2>1, FilesAssumption DEF Content
  <2>3. /\ o \in Update => Content(disk)' = Append(Content(disk), o)
        /\ o \in Replace => Content(disk)' = <<o>>
    BY <2>2, WrittenType
  <2>. QED
    BY <1>5, <2>3, EffectStep DEF Rename, Op
<1>6. ASSUME Boot \/ SeedWritten \/ SeedRenamed PROVE UNCHANGED Serial!vars
  <2>1. Content(disk)' = Content(disk)
    BY <1>6 DEF Boot, SeedWritten, SeedRenamed, QueueInv, WholeFile, Content
  <2>2. UNCHANGED <<writeQueue, step, outcome>>
    BY <1>6 DEF Boot, SeedWritten, SeedRenamed
  <2>3. Applied' = Applied
    BY <2>2 DEF Applied
  <2>. QED
    BY <2>1, <2>2, <2>3 DEF Serial!vars, Applied
<1>7. ASSUME \/ \E r \in Reader : Read(r) \/ ReadDone(r) \/ ReadFails(r)
             \/ UNCHANGED vars
      PROVE  UNCHANGED Serial!vars
  <2>1. UNCHANGED <<disk, writeQueue, step, outcome>>
    BY <1>7 DEF Read, ReadDone, ReadFails, vars
  <2>2. Applied' = Applied /\ Content(disk)' = Content(disk)
    BY <2>1 DEF Applied, Content
  <2>. QED
    BY <2>1, <2>2 DEF Serial!vars, Applied
<1>8. ASSUME Crash PROVE Serial!Crash
  <2>1. ~Applied'
    BY <1>8 DEF Crash, Applied
  <2>2. Content(disk)' = Content(disk)
    BY <1>8 DEF Crash, Content
  <2>. QED
    BY <1>8, <2>1, <2>2 DEF Crash, Serial!Crash, Applied, Op, Serial!Op
<1>9. Op = Serial!Op
  BY DEF Op, Serial!Op
<1>. QED
  BY <1>1, <1>2, <1>3, <1>4, <1>5, <1>6, <1>7, <1>8, <1>9, ReportStep DEF Next, Proceed, Serial!Next

\* DB-03, DB-12: for any calls, failures and crashes, the files implement a store whose calls
\* take effect one after the other, each wholly or not at all, and whose reports are true.
THEOREM Refinement == Spec => ImplementsSerialStore
<1>1. Init => Serial!Init
  <2>. SUFFICES ASSUME Init PROVE Serial!Init
    OBVIOUS
  <2>1. ~Applied /\ Content(disk) = <<>>
    BY DEF Init, Applied, Content
  <2>. QED
    BY <2>1 DEF Init, Serial!Init, Applied, Op, Serial!Op
<1>. QED
  BY <1>1, SerialStep, QueueInvHolds, PTL DEF Spec, ImplementsSerialStore, Serial!Spec
-----------------------------------------------------------------------------
\* How many of the backups are kept.
LEMMA KeptSome ==
    ASSUME NEW S, IsFiniteSet(S), NEW kept \in SUBSET S, Cardinality(kept) = Min({Cardinality(S), Keep})
    PROVE  /\ IsFiniteSet(kept) /\ Cardinality(kept) <= Keep
           /\ S # {} => kept # {}
<1>1. Cardinality(S) \in Nat /\ IsFiniteSet(kept)
  BY FS_CardinalityType, FS_Subset
<1>2. \E x \in {Cardinality(S), Keep} : \A y \in {Cardinality(S), Keep} : x =< y
  <2>1. CASE Cardinality(S) <= Keep
    BY <1>1, <2>1, StoreAssumption
  <2>2. CASE ~(Cardinality(S) <= Keep)
    BY <1>1, <2>2, StoreAssumption
  <2>. QED
    BY <2>1, <2>2
<1>3. Min({Cardinality(S), Keep}) \in {Cardinality(S), Keep} /\ Min({Cardinality(S), Keep}) <= Keep
  BY <1>2 DEF Min
<1>4. S # {} => Cardinality(S) # 0
  BY FS_EmptySet
<1>5. kept = {} => Cardinality(kept) = 0
  BY FS_EmptySet
<1>6. S # {} => kept # {}
  BY <1>3, <1>4, <1>5, StoreAssumption
<1>. QED
  BY <1>1, <1>3, <1>6

\* Each step keeps the bound on the backups.
LEMMA RetainedNext == QueueInv /\ Retained /\ [Next]_vars => Retained'
<1>. SUFFICES ASSUME QueueInv, Retained, [Next]_vars PROVE Retained'
  OBVIOUS
<1>1. ASSUME NEW o \in Op, \/ Enqueue(o) \/ Begin(o) \/ ReadForUpdate(o) \/ ReadForNothing(o) \/ ReadForReplace(o)
                           \/ BackupWritten(o) \/ WriteDone(o) \/ Rename(o) \/ Fail(o) \/ Settle(o)
      PROVE  Retained'
  <2>1. backups' = backups /\ doomed' \in {doomed, {}}
    BY <1>1 DEF Enqueue, Begin, ReadForUpdate, ReadForNothing, ReadForReplace, BackupWritten, WriteDone, Rename,
                Fail, Settle
  <2>2. \A x \in Replace : step'[x] \in {"prune", "writing", "renaming", "written"} =>
            \/ step'[x] = step[x] /\ doomed' = doomed
            \/ step'[x] \in {"renaming", "written"} /\ step[x] \in {"writing", "renaming"}
            \/ step'[x] # "prune" /\ step'[x] = step[x]
    <3>1. Replace \subseteq Op /\ \A x \in Replace : x \notin Update
      BY StoreAssumption DEF Op
    <3>2. \A x \in Op : step[x] = "prune" => x = Head(writeQueue)
      BY AtWork
    <3>3. step[o] \notin {"idle", "queued"} => o = Head(writeQueue)
      BY AtWork
    <3>. QED
      BY <1>1, <3>1, <3>2, <3>3
      DEF Enqueue, Begin, ReadForUpdate, ReadForNothing, ReadForReplace, BackupWritten, WriteDone, Rename,
          Fail, Settle, QueueInv, TypeOK, Queued
  <2>. QED
    BY <2>1, <2>2 DEF Retained
<1>2. ASSUME NEW o \in Op, BackupRenamed(o) PROVE Retained'
  <2>1. /\ backups' = backups \cup {[at |-> clock, of |-> o, content |-> state[o]]} /\ doomed' = doomed
        /\ step[o] = "publish" /\ step' = [step EXCEPT ![o] = "list"]
    BY <1>2 DEF BackupRenamed
  <2>2. IsFiniteSet(backups')
    BY <2>1, FS_AddElement DEF Retained
  <2>3. \A x \in Op : step'[x] \notin {"prune", "writing", "renaming", "written"}
    BY <2>1, AtWork DEF QueueInv, TypeOK, OneAtWork
  <2>. QED
    BY <2>1, <2>2, <2>3 DEF Retained, Op
<1>3. ASSUME NEW o \in Op, ListBackups(o) PROVE Retained'
  <2>1. PICK kept \in SUBSET backups : /\ Cardinality(kept) = Min({Cardinality(backups), Keep})
                                       /\ doomed' = backups \ kept
    BY <1>3 DEF ListBackups
  <2>2. backups' = backups /\ step[o] = "list" /\ step' = [step EXCEPT ![o] = "prune"]
    BY <1>3 DEF ListBackups
  <2>3. backups' \ doomed' = kept /\ Cardinality(kept) <= Keep
    BY <2>1, <2>2, KeptSome DEF Retained
  <2>4. \A x \in Op : step'[x] \notin {"writing", "renaming", "written"}
    BY <2>2, AtWork DEF QueueInv, TypeOK, OneAtWork
  <2>. QED
    BY <2>1, <2>2, <2>3, <2>4 DEF Retained, Op
<1>4. ASSUME NEW o \in Op, Unlink(o) PROVE Retained'
  <2>1. PICK b \in doomed : backups' = backups \ {b} /\ doomed' = doomed \ {b}
    BY <1>4 DEF Unlink
  <2>2. step' = step /\ step[o] = "prune"
    BY <1>4 DEF Unlink
  <2>3. IsFiniteSet(backups') /\ doomed' \subseteq backups' /\ backups' \ doomed' = backups \ doomed
    BY <2>1, FS_RemoveElement DEF Retained
  <2>4. \A x \in Op : step[x] \notin {"writing", "renaming", "written"}
    BY <2>2, AtWork DEF QueueInv, OneAtWork
  <2>. QED
    BY <2>2, <2>3, <2>4 DEF Retained, Op
<1>5. ASSUME NEW o \in Op, WriteReplacement(o) PROVE Retained'
  <2>1. doomed = {} /\ backups' = backups /\ doomed' = doomed /\ step[o] = "prune" /\ step' = [step EXCEPT ![o] = "writing"]
    BY <1>5 DEF WriteReplacement
  <2>2. o \in Replace /\ backups \ doomed = backups
    BY <2>1 DEF QueueInv, OwnValue
  <2>3. Cardinality(backups) <= Keep
    BY <2>1, <2>2 DEF Retained
  <2>4. \A x \in Op : step'[x] # "prune"
    BY <2>1, AtWork DEF QueueInv, TypeOK, OneAtWork
  <2>. QED
    BY <2>1, <2>3, <2>4 DEF Retained, Op
<1>6. ASSUME Crash PROVE Retained'
  BY <1>6 DEF Crash, Retained, Op
<1>7. ASSUME \/ Boot \/ SeedWritten \/ SeedRenamed \/ UNCHANGED vars
             \/ \E r \in Reader : Read(r) \/ ReadDone(r) \/ ReadFails(r)
      PROVE  Retained'
  <2>1. UNCHANGED <<backups, doomed, step>>
    BY <1>7 DEF Boot, SeedWritten, SeedRenamed, vars, Read, ReadDone, ReadFails
  <2>. QED
    BY <2>1 DEF Retained
<1>. QED
  BY <1>1, <1>2, <1>3, <1>4, <1>5, <1>6, <1>7 DEF Next, Proceed

\* At every moment, the bound holds for what pruning leaves.
LEMMA RetainedHolds == Spec => [](QueueInv /\ Retained)
<1>1. Init => Retained
  BY FS_EmptySet DEF Init, Retained, Op
<1>. QED
  BY <1>1, RetainedNext, QueueInvHolds, PTL DEF Spec

\* DB-13: for any calls, failures and crashes, a replacement that is reported done leaves at
\* most Keep backups.
THEOREM FewBackups == Spec => BackupRetention
<1>1. QueueInv /\ Retained /\ [Next]_vars => [RetentionAtReport]_vars
  <2>. SUFFICES ASSUME QueueInv, Retained, Next,
                       NEW o \in Replace, outcome[o] = "pending", outcome'[o] = "done"
               PROVE  Cardinality(backups') <= Keep
    BY DEF RetentionAtReport
  <2>1. o \in Op
    BY DEF Op
  <2>2. PICK x \in Op : Settle(x)
    BY <2>1 DEF Next, Proceed, Boot, SeedWritten, SeedRenamed, Enqueue, Begin, ReadForUpdate, ReadForNothing,
                ReadForReplace, BackupWritten, BackupRenamed, ListBackups, Unlink, WriteReplacement, WriteDone,
                Rename, Fail, Read, ReadDone, ReadFails, Crash, QueueInv, TypeOK
  <2>3. step[o] = "written" /\ backups' = backups
    BY <2>1, <2>2 DEF Settle, QueueInv, TypeOK
  <2>. QED
    BY <2>3 DEF Retained
<1>. QED
  BY <1>1, RetainedHolds, PTL DEF Spec, BackupRetention
-----------------------------------------------------------------------------
\* Each step keeps the backup of the replacement at work.
LEMMA BackedUpNext == MonotoneClock /\ QueueInv /\ Retained /\ BackedUp /\ [Next]_vars => BackedUp'
<1>. SUFFICES ASSUME MonotoneClock, QueueInv, Retained, BackedUp, [Next]_vars PROVE BackedUp'
  OBVIOUS
<1>. USE DEF Own
<1>1. Replace \subseteq Op /\ clock \in Nat /\ (\A b \in backups : b.at \in Nat) /\ \A x \in Replace : x \notin Update
  BY StoreAssumption DEF Op, QueueInv, TypeOK, Backup
<1>2. \A o, x \in Op : step[o] \notin {"idle", "queued"} /\ x # o => step[x] \in {"idle", "queued"}
  BY AtWork
<1>3. ASSUME NEW o \in Op, \/ Enqueue(o) \/ Begin(o) \/ ReadForUpdate(o) \/ ReadForNothing(o)
                           \/ BackupWritten(o) \/ WriteDone(o) \/ Fail(o) \/ Settle(o)
      PROVE  BackedUp'
  <2>1. UNCHANGED <<backups, clock, disk>>
    BY <1>3 DEF Enqueue, Begin, ReadForUpdate, ReadForNothing, BackupWritten, WriteDone, Fail, Settle
  <2>2. doomed' = doomed \/ (step[o] \notin {"idle", "queued"} /\ step'[o] = "rejected")
    BY <1>3 DEF Enqueue, Begin, ReadForUpdate, ReadForNothing, BackupWritten, WriteDone, Fail, Settle, QueueInv, TypeOK
  <2>3. \A x \in Replace : step'[x] \in {"backup", "publish", "list", "writing", "renaming", "prune"} =>
            \/ step'[x] = step[x]
            \/ step[x] = "backup" /\ step'[x] = "publish"
            \/ step[x] = "writing" /\ step'[x] = "renaming"
    BY <1>1, <1>3 DEF Enqueue, Begin, ReadForUpdate, ReadForNothing, BackupWritten, WriteDone, Fail, Settle, QueueInv, TypeOK
  <2>4. \A x \in Replace : step'[x] = "prune" => doomed' = doomed
    BY <1>1, <1>2, <2>2, <2>3
  <2>5. \A b \in backups' : b.at <= clock'
    BY <2>1 DEF BackedUp
  <2>6. ASSUME NEW x \in Replace, step'[x] \in {"backup", "publish"} PROVE \A b \in backups' : b.at < clock'
    BY <2>1, <2>3, <2>6 DEF BackedUp
  <2>7. ASSUME NEW x \in Replace, NEW b PROVE Own(x, b)' <=> Own(x, b)
    BY <2>1 DEF Content
  <2>. HIDE DEF Own
  <2>8. ASSUME NEW x \in Replace, step'[x] \in {"list", "writing", "renaming"} PROVE (\E b \in backups : Own(x, b))'
    BY <2>1, <2>3, <2>7, <2>8 DEF BackedUp
  <2>9. ASSUME NEW x \in Replace, step'[x] = "prune" PROVE (\E b \in backups \ doomed : Own(x, b))'
    BY <2>1, <2>3, <2>4, <2>7, <2>9 DEF BackedUp
  <2>. QED
    BY <2>5, <2>6, <2>8, <2>9 DEF BackedUp
<1>4. ASSUME NEW o \in Op, ReadForReplace(o) PROVE BackedUp'
  <2>1. clock' = clock + 1 /\ UNCHANGED <<backups, disk>> /\ step[o] = "reading" /\ step' = [step EXCEPT ![o] = "backup"]
    BY <1>4 DEF ReadForReplace
  <2>2. \A b \in backups : b.at < clock'
    BY <1>1, <2>1 DEF BackedUp
  <2>3. \A x \in Op : step'[x] \notin {"publish", "list", "writing", "renaming", "prune"}
    BY <1>2, <2>1 DEF QueueInv, TypeOK
  <2>4. \A b \in backups : b.at <= clock'
    BY <1>1, <2>1 DEF BackedUp
  <2>. QED
    BY <1>1, <2>1, <2>2, <2>3, <2>4 DEF BackedUp
<1>5. ASSUME NEW o \in Op, BackupRenamed(o) PROVE BackedUp'
  <2>. DEFINE new == [at |-> clock, of |-> o, content |-> state[o]]
  <2>1. /\ backups' = backups \cup {new} /\ UNCHANGED <<clock, disk>>
        /\ step[o] = "publish" /\ step' = [step EXCEPT ![o] = "list"]
    BY <1>5 DEF BackupRenamed
  <2>2. o \in Replace /\ state[o] = Content(disk)
    BY <2>1 DEF QueueInv, OwnValue
  <2>3. \A b \in backups : b.at < clock
    BY <2>1, <2>2 DEF BackedUp
  <2>4. new.at = clock /\ new.of = o /\ new.content = Content(disk)
    BY <2>2
  <2>5. (\E b \in backups : Own(o, b))'
    BY <2>1, <2>3, <2>4 DEF Content
  <2>6. \A b \in backups' : b.at <= clock'
    BY <1>1, <2>1, <2>3, <2>4
  <2>7. \A x \in Op : step'[x] = IF x = o THEN "list" ELSE step[x]
    BY <2>1 DEF QueueInv, TypeOK
  <2>8. \A x \in Op : x # o => step[x] \in {"idle", "queued"}
    BY <1>2, <2>1
  <2>. HIDE DEF Own
  <2>. QED
    BY <1>1, <2>5, <2>6, <2>7, <2>8 DEF BackedUp
<1>6. ASSUME NEW o \in Op, ListBackups(o) PROVE BackedUp'
  <2>1. PICK kept \in SUBSET backups : /\ Cardinality(kept) = Min({Cardinality(backups), Keep})
                                       /\ \A k \in kept, e \in backups \ kept : k.at >= e.at
                                       /\ doomed' = backups \ kept
    BY <1>6 DEF ListBackups
  <2>2. UNCHANGED <<backups, clock, disk>> /\ step[o] = "list" /\ step' = [step EXCEPT ![o] = "prune"]
    BY <1>6 DEF ListBackups
  <2>3. o \in Replace
    BY <2>2 DEF QueueInv, OwnValue
  <2>4. PICK b \in backups : Own(o, b)
    BY <2>2, <2>3 DEF BackedUp
  <2>5. kept # {}
    BY <2>1, <2>4, KeptSome DEF Retained
  <2>6. b \in kept
    <3>. SUFFICES ASSUME b \notin kept PROVE FALSE
      OBVIOUS
    <3>1. PICK k \in kept : k.at >= b.at
      BY <2>1, <2>5
    <3>2. k \in backups \ {b}
      BY <3>1
    <3>3. k.at < clock /\ b.at = clock
      BY <2>4, <3>2
    <3>. QED
      BY <1>1, <3>1, <3>2, <3>3
  <2>7. (\E e \in backups \ doomed : Own(o, e))'
    BY <2>1, <2>2, <2>4, <2>6 DEF Content
  <2>8. \A x \in Op : x # o => step'[x] \in {"idle", "queued"}
    BY <1>2, <2>2 DEF QueueInv, TypeOK
  <2>9. step'[o] = "prune"
    BY <2>2 DEF QueueInv, TypeOK
  <2>. HIDE DEF Own
  <2>. QED
    BY <1>1, <2>2, <2>7, <2>8, <2>9 DEF BackedUp
<1>7. ASSUME NEW o \in Op, Unlink(o) PROVE BackedUp'
  <2>1. PICK e \in doomed : backups' = backups \ {e} /\ doomed' = doomed \ {e}
    BY <1>7 DEF Unlink
  <2>2. UNCHANGED <<step, clock, disk>> /\ step[o] = "prune"
    BY <1>7 DEF Unlink
  <2>3. o \in Replace
    BY <2>2 DEF QueueInv, OwnValue
  <2>4. PICK b \in backups \ doomed : Own(o, b)
    BY <2>2, <2>3 DEF BackedUp
  <2>5. b \in backups' \ doomed'
    BY <2>1, <2>4
  <2>6. (\E x \in backups \ doomed : Own(o, x))'
    BY <2>1, <2>2, <2>4, <2>5 DEF Content
  <2>7. \A x \in Op : x # o => step'[x] \in {"idle", "queued"}
    BY <1>2, <2>2
  <2>8. \A x \in backups' : x.at <= clock'
    BY <2>1, <2>2 DEF BackedUp
  <2>. HIDE DEF Own
  <2>. QED
    BY <1>1, <2>2, <2>6, <2>7, <2>8 DEF BackedUp
<1>8. ASSUME NEW o \in Op, WriteReplacement(o) PROVE BackedUp'
  <2>1. doomed = {} /\ UNCHANGED <<backups, clock, disk>> /\ step[o] = "prune" /\ step' = [step EXCEPT ![o] = "writing"]
    BY <1>8 DEF WriteReplacement
  <2>2. o \in Replace
    BY <2>1 DEF QueueInv, OwnValue
  <2>3. (\E b \in backups : Own(o, b))'
    BY <2>1, <2>2 DEF BackedUp, Content
  <2>4. \A x \in Op : step'[x] = IF x = o THEN "writing" ELSE step[x]
    BY <2>1 DEF QueueInv, TypeOK
  <2>5. \A x \in Op : x # o => step[x] \in {"idle", "queued"}
    BY <1>2, <2>1
  <2>6. \A x \in backups' : x.at <= clock'
    BY <2>1 DEF BackedUp
  <2>. HIDE DEF Own
  <2>. QED
    BY <1>1, <2>3, <2>4, <2>5, <2>6 DEF BackedUp
<1>9. ASSUME NEW o \in Op, Rename(o) PROVE BackedUp'
  <2>1. UNCHANGED <<backups, clock>> /\ step[o] = "renaming" /\ step' = [step EXCEPT ![o] = "written"]
    BY <1>9 DEF Rename
  <2>2. \A x \in Op : step'[x] \in {"idle", "queued", "written"}
    BY <1>2, <2>1 DEF QueueInv, TypeOK
  <2>3. \A x \in backups' : x.at <= clock'
    BY <2>1 DEF BackedUp
  <2>. QED
    BY <1>1, <2>2, <2>3 DEF BackedUp
<1>10. ASSUME Crash PROVE BackedUp'
  BY <1>1, <1>10 DEF Crash, BackedUp
<1>11. ASSUME \/ Boot \/ SeedWritten \/ SeedRenamed \/ UNCHANGED vars
              \/ \E r \in Reader : Read(r) \/ ReadDone(r) \/ ReadFails(r)
       PROVE  BackedUp'
  <2>1. UNCHANGED <<backups, doomed, step, clock>>
    BY <1>11 DEF Boot, SeedWritten, SeedRenamed, vars, Read, ReadDone, ReadFails
  <2>2. Content(disk)' = Content(disk)
    BY <1>11 DEF Boot, SeedWritten, SeedRenamed, vars, Read, ReadDone, ReadFails, QueueInv, WholeFile, Content
  <2>. QED
    BY <2>1, <2>2 DEF BackedUp
<1>. QED
  BY <1>3, <1>4, <1>5, <1>6, <1>7, <1>8, <1>9, <1>10, <1>11 DEF Next, Proceed

\* DB-11: as long as the clock goes forward, for any calls, failures and crashes, a
\* replacement finds a complete backup of what it replaces.
THEOREM BackupFirst == ASSUME MonotoneClock PROVE Spec => BackupBeforeReplace
<1>1. Init => BackedUp
  BY DEF Init, BackedUp, Op
<1>2. QueueInv /\ BackedUp /\ [Next]_vars => [BackupAtReplacement]_vars
  BY DEF BackedUp, BackupAtReplacement, Own
<1>3. QueueInv /\ Retained /\ BackedUp /\ [Next]_vars => BackedUp'
  BY BackedUpNext
<1>. QED
  BY <1>1, <1>2, <1>3, RetainedHolds, PTL DEF Spec, BackupBeforeReplace
-----------------------------------------------------------------------------
\* What a prefix is, call by call.
LEMMA PrefixOf ==
    ASSUME NEW S, NEW s \in Seq(S), NEW t \in Seq(S)
    PROVE  IsPrefix(s, t) <=> Len(s) <= Len(t) /\ \A i \in 1..Len(s) : s[i] = t[i]
<1>1. Len(s) \in Nat /\ Len(t) \in Nat
  OBVIOUS
<1>2. ASSUME Len(s) <= Len(t)
      PROVE  SubSeq(s, 1, Len(s)) = SubSeq(t, 1, Len(s)) <=> \A i \in 1..Len(s) : s[i] = t[i]
  <2>1. SubSeq(s, 1, Len(s)) = [i \in 1..Len(s) |-> s[i]] /\ SubSeq(t, 1, Len(s)) = [i \in 1..Len(s) |-> t[i]]
    BY <1>1, <1>2
  <2>2. ASSUME SubSeq(s, 1, Len(s)) = SubSeq(t, 1, Len(s)), NEW i \in 1..Len(s) PROVE s[i] = t[i]
    <3>1. SubSeq(s, 1, Len(s))[i] = s[i] /\ SubSeq(t, 1, Len(s))[i] = t[i]
      BY <2>1
    <3>. QED
      BY <2>2, <3>1
  <2>. QED
    BY <2>1, <2>2
<1>. QED
  BY <1>2 DEF IsPrefix

\* A value is a prefix of itself.
LEMMA PrefixOfItself == ASSUME NEW s \in Seq(Op) PROVE IsPrefix(s, s)
  BY PrefixOf

\* What a value shows of an earlier one stays visible while calls come after it, and behind
\* a replacement the earlier one does not have.
LEMMA StillSeen ==
    ASSUME NEW s \in Seq(Op), NEW d \in Seq(Op), Sees(s, d), NEW o \in Op, NEW e \in Seq(Op),
           \/ e = d
           \/ e = Append(d, o)
           \/ e = <<o>> /\ o \in Replace \ ToSet(s)
    PROVE  Sees(s, e)
<1>1. ASSUME NEW p \in Seq(Op), IsPrefix(p, d), e = d \/ e = Append(d, o) PROVE IsPrefix(p, e)
  <2>1. Len(p) \in Nat /\ Len(d) \in Nat
    OBVIOUS
  <2>2. Len(e) >= Len(d) /\ \A i \in 1..Len(d) : e[i] = d[i]
    <3>1. CASE e = d
      BY <2>1, <3>1
    <3>2. CASE e = Append(d, o)
      <4>1. Len(Append(d, o)) = Len(d) + 1 /\ \A i \in 1..Len(d) : Append(d, o)[i] = d[i]
        BY Appended
      <4>. QED
        BY <2>1, <3>2, <4>1
    <3>. QED
      BY <1>1, <3>1, <3>2
  <2>3. Len(p) <= Len(d) /\ \A i \in 1..Len(p) : p[i] = d[i]
    BY <1>1, PrefixOf
  <2>4. Len(p) <= Len(e) /\ \A i \in 1..Len(p) : p[i] = e[i]
    BY <2>1, <2>2, <2>3
  <2>. QED
    BY <2>4, PrefixOf
<1>2. CASE e = d \/ e = Append(d, o)
  <2>1. \A r \in Replace : <<r>> \in Seq(Op)
    BY DEF Op
  <2>. QED
    BY <1>1, <1>2, <2>1 DEF Sees
<1>3. CASE e = <<o>> /\ o \in Replace \ ToSet(s)
  <2>1. <<o>> \in Seq(Op)
    OBVIOUS
  <2>2. IsPrefix(<<o>>, <<o>>)
    BY <2>1, PrefixOfItself
  <2>. QED
    BY <1>3, <2>2 DEF Sees
<1>. QED
  BY <1>2, <1>3

\* A value shows itself.
LEMMA SeesItself == ASSUME NEW s \in Seq(Op) PROVE Sees(s, s)
  BY PrefixOfItself DEF Sees

\* Each step keeps the effects of the calls before it.
LEMMA EffectsKeptNext == QueueInv /\ EffectsKept /\ [Next]_vars => EffectsKept'
<1>. SUFFICES ASSUME QueueInv, EffectsKept, [Next]_vars PROVE EffectsKept'
  OBVIOUS
<1>1. \A x \in Op : state[x] \in Seq(Op)
  BY DEF QueueInv, TypeOK
<1>2. Content(disk) \in Seq(Op)
  BY Contents
<1>3. ASSUME Landed \subseteq Landed', Content(disk') = Content(disk),
             \A x \in Op : (outcome'[x] = "done" \/ step'[x] = "written") /\ state'[x] # <<>> =>
                 (outcome[x] = "done" \/ step[x] = "written") /\ state'[x] = state[x]
      PROVE  EffectsKept'
  <2>1. ToSet(Content(disk')) \subseteq Landed'
    BY <1>3 DEF EffectsKept
  <2>2. ASSUME NEW x \in Op, outcome'[x] = "done" \/ step'[x] = "written", state'[x] # <<>>
        PROVE  ToSet(state'[x]) \subseteq Landed' /\ Sees(state'[x], Content(disk'))
    BY <1>3, <2>2 DEF EffectsKept
  <2>. QED
    BY <2>1, <2>2 DEF EffectsKept, Sees, Content
<1>4. ASSUME NEW o \in Op, \/ Enqueue(o) \/ Begin(o) \/ ReadForUpdate(o) \/ ReadForNothing(o) \/ ReadForReplace(o)
                           \/ BackupWritten(o) \/ BackupRenamed(o) \/ ListBackups(o) \/ Unlink(o)
                           \/ WriteReplacement(o) \/ WriteDone(o) \/ Fail(o)
      PROVE  EffectsKept'
  <2>1. UNCHANGED disk
    BY <1>4 DEF Enqueue, Begin, ReadForUpdate, ReadForNothing, ReadForReplace, BackupWritten, BackupRenamed,
                ListBackups, Unlink, WriteReplacement, WriteDone, Fail
  <2>2. \A x \in Op : /\ x # o => state'[x] = state[x] /\ step'[x] = step[x] /\ outcome'[x] = outcome[x]
                      /\ outcome'[x] = "done" <=> outcome[x] = "done"
                      /\ outcome'[x] = "lost" <=> outcome[x] = "lost"
    BY <1>4 DEF Enqueue, Begin, ReadForUpdate, ReadForNothing, ReadForReplace, BackupWritten, BackupRenamed,
                ListBackups, Unlink, WriteReplacement, WriteDone, Fail, QueueInv, TypeOK
  <2>3. step[o] # "written"
    BY <1>4 DEF Enqueue, Begin, ReadForUpdate, ReadForNothing, ReadForReplace, BackupWritten, BackupRenamed,
                ListBackups, Unlink, WriteReplacement, WriteDone, Fail, QueueInv, Queued
  <2>4. outcome[o] \in {"none", "pending"}
    BY <1>4 DEF Enqueue, Begin, ReadForUpdate, ReadForNothing, ReadForReplace, BackupWritten, BackupRenamed,
                ListBackups, Unlink, WriteReplacement, WriteDone, Fail, QueueInv, Queued
  <2>5. step'[o] = "written" => state'[o] = <<>>
    BY <1>4 DEF Enqueue, Begin, ReadForUpdate, ReadForNothing, ReadForReplace, BackupWritten, BackupRenamed,
                ListBackups, Unlink, WriteReplacement, WriteDone, Fail, QueueInv, TypeOK, OwnValue
  <2>6. Landed \subseteq Landed'
    BY <2>2, <2>3 DEF Landed
  <2>7. Content(disk') = Content(disk)
    BY <2>1
  <2>. QED
    BY <1>3, <2>2, <2>4, <2>5, <2>6, <2>7
<1>5. ASSUME NEW o \in Op, Settle(o) PROVE EffectsKept'
  <2>1. /\ step[o] \in {"written", "rejected"} /\ step' = [step EXCEPT ![o] = "idle"] /\ UNCHANGED <<disk, state>>
        /\ outcome' = [outcome EXCEPT ![o] = IF step[o] = "written" THEN "done" ELSE "failed"]
        /\ outcome[o] = "pending"
    BY <1>5 DEF Settle, QueueInv, Queued
  <2>2. Landed \subseteq Landed' /\ Content(disk') = Content(disk)
    BY <2>1 DEF Landed, QueueInv, TypeOK
  <2>3. \A x \in Op : outcome'[x] = "done" \/ step'[x] = "written" => outcome[x] = "done" \/ step[x] = "written"
    BY <2>1 DEF QueueInv, TypeOK
  <2>. QED
    BY <1>3, <2>1, <2>2, <2>3
<1>6. ASSUME NEW o \in Op, Rename(o) PROVE EffectsKept'
  <2>1. step[o] = "renaming" /\ step' = [step EXCEPT ![o] = "written"] /\ UNCHANGED <<state, outcome>>
    BY <1>6 DEF Rename
  <2>2. disk' = state[o] /\ state[o] = Written(o) /\ Written(o) \in Seq(Op)
    BY <1>6, WrittenType DEF Rename, QueueInv, OwnValue
  <2>3. Content(disk') = Written(o)
    BY <2>2, FilesAssumption DEF Content
  <2>4. o \notin Landed /\ Landed' = Landed \cup {o}
    <3>1. outcome[o] = "pending"
      BY <2>1 DEF QueueInv, Queued
    <3>2. \A x \in Op : step'[x] = IF x = o THEN "written" ELSE step[x]
      BY <2>1 DEF QueueInv, TypeOK
    <3>. QED
      BY <2>1, <3>1, <3>2 DEF Landed
  <2>5. \/ Written(o) = Append(Content(disk), o)
        \/ Written(o) = <<o>> /\ o \in Replace
    BY WrittenType DEF Op
  <2>6. ToSet(Written(o)) \subseteq Landed'
    <3>1. CASE Written(o) = Append(Content(disk), o)
      BY <1>2, <2>4, <3>1, Appended DEF EffectsKept
    <3>2. CASE Written(o) = <<o>>
      BY <2>4, <3>2 DEF ToSet
    <3>. QED
      BY <2>5, <3>1, <3>2
  <2>7. ASSUME NEW x \in Op, outcome'[x] = "done" \/ step'[x] = "written", state'[x] # <<>>
        PROVE  ToSet(state'[x]) \subseteq Landed' /\ Sees(state'[x], Content(disk'))
    <3>1. CASE x = o
      BY <2>1, <2>2, <2>3, <2>6, <3>1, SeesItself
    <3>2. CASE x # o
      <4>1. (outcome[x] = "done" \/ step[x] = "written") /\ state[x] # <<>>
        BY <2>1, <2>7, <3>2 DEF QueueInv, TypeOK
      <4>2. ToSet(state[x]) \subseteq Landed /\ Sees(state[x], Content(disk)) /\ o \notin ToSet(state[x])
        BY <2>4, <4>1 DEF EffectsKept
      <4>3. Sees(state[x], Written(o))
        BY <1>1, <1>2, <2>2, <2>5, <4>2, StillSeen
      <4>. QED
        BY <2>1, <2>3, <2>4, <4>2, <4>3
    <3>. QED
      BY <3>1, <3>2
  <2>. QED
    BY <2>3, <2>6, <2>7 DEF EffectsKept, Sees, Content
<1>7. ASSUME Crash PROVE EffectsKept'
  <2>1. /\ step' = [x \in Op |-> "idle"] /\ UNCHANGED <<disk, state>>
        /\ outcome' = [x \in Op |-> IF outcome[x] = "pending" THEN "lost" ELSE outcome[x]]
    BY <1>7 DEF Crash
  <2>2. \A x \in Op : step[x] = "written" => outcome[x] = "pending"
    BY DEF QueueInv, Queued
  <2>3. Landed \subseteq Landed' /\ Content(disk') = Content(disk)
    BY <2>1, <2>2 DEF Landed
  <2>4. \A x \in Op : outcome'[x] = "done" \/ step'[x] = "written" => outcome[x] = "done"
    BY <2>1
  <2>. QED
    BY <1>3, <2>1, <2>3, <2>4
<1>8. ASSUME \/ Boot \/ SeedWritten \/ SeedRenamed \/ UNCHANGED vars
             \/ \E r \in Reader : Read(r) \/ ReadDone(r) \/ ReadFails(r)
      PROVE  EffectsKept'
  <2>1. UNCHANGED <<step, state, outcome>>
    BY <1>8 DEF Boot, SeedWritten, SeedRenamed, vars, Read, ReadDone, ReadFails
  <2>2. Content(disk') = Content(disk)
    BY <1>8 DEF Boot, SeedWritten, SeedRenamed, vars, Read, ReadDone, ReadFails, QueueInv, WholeFile, Content
  <2>3. Landed' = Landed
    BY <2>1 DEF Landed
  <2>. QED
    BY <1>3, <2>1, <2>2, <2>3
<1>. QED
  BY <1>4, <1>5, <1>6, <1>7, <1>8 DEF Next, Proceed

\* What has been answered stays as it was answered.
LEMMA AnsweredStays ==
    ASSUME QueueInv, [Next]_vars, NEW x \in Op, outcome[x] \notin {"none", "pending"}
    PROVE  outcome'[x] = outcome[x] /\ state'[x] = state[x]
<1>1. ASSUME NEW o \in Op, Enqueue(o) \/ Proceed(o) PROVE outcome'[x] = outcome[x] /\ state'[x] = state[x]
  <2>1. o # x
    BY <1>1 DEF Proceed, Enqueue, Begin, ReadForUpdate, ReadForNothing, ReadForReplace, BackupWritten, BackupRenamed,
                ListBackups, Unlink, WriteReplacement, WriteDone, Rename, Fail, Settle, QueueInv, Queued
  <2>. QED
    BY <1>1, <2>1
    DEF Proceed, Enqueue, Begin, ReadForUpdate, ReadForNothing, ReadForReplace, BackupWritten, BackupRenamed,
        ListBackups, Unlink, WriteReplacement, WriteDone, Rename, Fail, Settle, QueueInv, TypeOK
<1>2. CASE Crash
  BY <1>2 DEF Crash
<1>3. CASE \/ Boot \/ SeedWritten \/ SeedRenamed \/ UNCHANGED vars
           \/ \E r \in Reader : Read(r) \/ ReadDone(r) \/ ReadFails(r)
  BY <1>3 DEF Boot, SeedWritten, SeedRenamed, vars, Read, ReadDone, ReadFails
<1>. QED
  BY <1>1, <1>2, <1>3 DEF Next

\* A call that has been made has been made.
LEMMA MadeStays ==
    ASSUME QueueInv, [Next]_vars, NEW x \in Op, outcome[x] # "none"
    PROVE  outcome'[x] # "none"
<1>1. CASE outcome[x] # "pending"
  BY <1>1, AnsweredStays
<1>2. CASE outcome[x] = "pending"
  <2>1. outcome' = outcome \/ \E o \in Op : Enqueue(o) \/ Settle(o) \/ Crash
    BY DEF Next, Proceed, Begin, ReadForUpdate, ReadForNothing, ReadForReplace, BackupWritten, BackupRenamed,
           ListBackups, Unlink, WriteReplacement, WriteDone, Rename, Fail, Boot, SeedWritten, SeedRenamed, vars,
           Read, ReadDone, ReadFails
  <2>. QED
    BY <1>2, <2>1 DEF Enqueue, Settle, Crash, QueueInv, TypeOK
<1>. QED
  BY <1>1, <1>2

\* Each step keeps what the reads have returned, and what they wait for.
LEMMA ReadsLaterNext == QueueInv /\ EffectsKept /\ ReadsLater /\ [Next]_vars => ReadsLater'
<1>. SUFFICES ASSUME QueueInv, EffectsKept, ReadsLater, [Next]_vars, NEW r \in Reader
              PROVE  (/\ \A o \in reads[r].after : outcome[o] # "none"
                      /\ reads[r].at = "done" => \A o \in reads[r].after :
                            /\ outcome[o] # "pending"
                            /\ outcome[o] = "done" /\ state[o] # <<>> => Sees(state[o], reads[r].value))'
  BY DEF ReadsLater
<1>1. reads[r].after \subseteq Op /\ reads \in [Reader -> Open \cup Returned]
  BY DEF QueueInv, TypeOK, Open, Returned
<1>2. CASE reads'[r].after = reads[r].after /\ (reads'[r].at = "done" => reads'[r] = reads[r])
  <2>1. \A o \in reads[r].after : outcome'[o] # "none"
    BY <1>1, MadeStays DEF ReadsLater
  <2>2. ASSUME reads'[r].at = "done", NEW o \in reads[r].after
        PROVE  /\ outcome'[o] # "pending"
               /\ outcome'[o] = "done" /\ state'[o] # <<>> => Sees(state'[o], reads'[r].value)
    <3>1. reads'[r] = reads[r] /\ outcome[o] \notin {"none", "pending"}
      BY <1>2, <2>2 DEF ReadsLater
    <3>2. outcome'[o] = outcome[o] /\ state'[o] = state[o]
      BY <1>1, <3>1, AnsweredStays
    <3>. QED
      BY <2>2, <3>1, <3>2 DEF ReadsLater
  <2>. QED
    BY <1>2, <2>1, <2>2 DEF Sees
<1>3. CASE ReadDone(r)
  <2>1. /\ reads[r].after \cap ToSet(writeQueue) = {} /\ UNCHANGED <<outcome, state>>
        /\ reads'[r].at = "done" /\ reads'[r].after = reads[r].after /\ reads'[r].value = Content(disk)
    BY <1>1, <1>3 DEF ReadDone
  <2>2. \A o \in reads[r].after : outcome[o] \notin {"none", "pending"}
    BY <1>1, <2>1 DEF QueueInv, Queued, ReadsLater
  <2>3. \A o \in reads[r].after : outcome[o] = "done" /\ state[o] # <<>> => Sees(state[o], Content(disk))
    BY <1>1 DEF EffectsKept
  <2>. QED
    BY <2>1, <2>2, <2>3 DEF Sees
<1>4. CASE Read(r)
  <2>1. reads'[r].at = "waiting" /\ reads'[r].after = ToSet(writeQueue) /\ UNCHANGED outcome
    BY <1>1, <1>4 DEF Read
  <2>2. ToSet(writeQueue) \subseteq Op
    BY DEF QueueInv, TypeOK, ToSet
  <2>3. \A o \in ToSet(writeQueue) : outcome[o] = "pending"
    BY <2>2 DEF QueueInv, Queued
  <2>. QED
    BY <2>1, <2>3
<1>5. CASE ReadFails(r)
  <2>1. reads'[r].at = "failed" /\ reads'[r].after = reads[r].after
    BY <1>1, <1>5 DEF ReadFails
  <2>. QED
    BY <1>2, <2>1
<1>6. CASE \E x \in Reader \ {r} : Read(x) \/ ReadDone(x) \/ ReadFails(x)
  <2>1. reads'[r] = reads[r]
    BY <1>1, <1>6 DEF Read, ReadDone, ReadFails
  <2>. QED
    BY <1>2, <2>1
<1>7. CASE Crash
  <2>1. reads'[r] = IF reads[r].at = "waiting" THEN [reads[r] EXCEPT !.at = "lost"] ELSE reads[r]
    BY <1>7 DEF Crash
  <2>2. reads[r] \in Open \cup Returned
    BY <1>1
  <2>3. reads'[r].after = reads[r].after /\ (reads'[r].at = "done" => reads'[r] = reads[r])
    BY <2>1, <2>2 DEF Open, Returned
  <2>. QED
    BY <1>2, <2>3
<1>8. CASE \/ Boot \/ SeedWritten \/ SeedRenamed \/ UNCHANGED vars
           \/ \E o \in Op : Enqueue(o) \/ Proceed(o)
  <2>1. reads' = reads
    BY <1>8 DEF Boot, SeedWritten, SeedRenamed, vars, Proceed, Enqueue, Begin, ReadForUpdate, ReadForNothing,
                ReadForReplace, BackupWritten, BackupRenamed, ListBackups, Unlink, WriteReplacement, WriteDone,
                Rename, Fail, Settle
  <2>. QED
    BY <1>2, <2>1
<1>. QED
  BY <1>3, <1>4, <1>5, <1>6, <1>7, <1>8 DEF Next

\* For any calls, failures and crashes: a read sees every call that was queued when it was
\* made and is reported done, unless a replacement came after that call.
THEOREM ReadsSee == Spec => []ReadSeesEarlierWrites
<1>1. Init => EffectsKept /\ ReadsLater
  <2>. SUFFICES ASSUME Init PROVE EffectsKept /\ ReadsLater
    OBVIOUS
  <2>1. ToSet(Content(disk)) = {}
    BY DEF Init, Content, ToSet
  <2>. QED
    BY <2>1 DEF Init, EffectsKept, ReadsLater
<1>2. QueueInv /\ EffectsKept /\ ReadsLater /\ [Next]_vars => EffectsKept' /\ ReadsLater'
  BY EffectsKeptNext, ReadsLaterNext
<1>3. ReadsLater => ReadSeesEarlierWrites
  BY DEF ReadsLater, ReadSeesEarlierWrites, Sees
<1>. QED
  BY <1>1, <1>2, <1>3, QueueInvHolds, PTL DEF Spec
-----------------------------------------------------------------------------
\* A merge, whatever its members and its target, leaves no reference dangling.
THEOREM MergeKeepsReferences ==
    ASSUME NEW inv, IsInventory(inv), ReferencesHold(inv),
           NEW m, m.sources \subseteq DeviceId, m.target \in DeviceId
    PROVE  ReferencesHold(ApplyMerge(inv, m))
<1>1. CASE Members(inv, m) = {}
  BY <1>1 DEF ApplyMerge
<1>2. CASE Members(inv, m) # {}
  <2> DEFINE members == Members(inv, m)
             new == Merged(inv, m)
             Renamed(d) == IF d \in members THEN m.target ELSE d
  <2>1. ApplyMerge(inv, m) = new
    BY <1>2 DEF ApplyMerge
  <2>2. /\ DOMAIN new.devices = (DOMAIN inv.devices \ members) \cup {m.target}
        /\ DOMAIN new.interfaces = DOMAIN inv.interfaces
        /\ DOMAIN new.assignments = DOMAIN inv.assignments
    BY DEF Merged
  <2>3. \A d \in DOMAIN inv.devices : Renamed(d) \in DOMAIN new.devices
    BY <2>2
  <2>4. m.target # NoDevice /\ NoDevice \notin members
    BY InventoryAssumption DEF Members
  <2>5. ASSUME NEW a \in DOMAIN new.assignments
        PROVE  LET x == new.assignments[a]
               IN  /\ x.device # NoDevice => /\ x.device \in DOMAIN new.devices
                                             /\ x.interface \in DOMAIN new.interfaces
                   /\ x.advertisedBy \subseteq DOMAIN new.devices
    <3> DEFINE old == inv.assignments[a]
    <3>1. a \in DOMAIN inv.assignments /\ old \in Assignment
      BY <2>2 DEF IsInventory, IsTable
    <3>2. /\ new.assignments[a].device = Renamed(old.device)
          /\ new.assignments[a].interface = old.interface
          /\ new.assignments[a].advertisedBy = {Renamed(d) : d \in old.advertisedBy}
      BY <3>1 DEF Merged, Assignment
    <3>3. /\ old.device # NoDevice => old.device \in DOMAIN inv.devices
                                      /\ old.interface \in DOMAIN inv.interfaces
          /\ old.advertisedBy \subseteq DOMAIN inv.devices
      BY <3>1 DEF ReferencesHold
    <3>4. new.assignments[a].device # NoDevice => old.device # NoDevice
      BY <3>2, <2>4
    <3> QED BY <3>2, <3>3, <3>4, <2>2, <2>3
  <2>6. ASSUME NEW i \in DOMAIN new.interfaces
        PROVE  new.interfaces[i].device \in DOMAIN new.devices
    <3>1. i \in DOMAIN inv.interfaces /\ inv.interfaces[i] \in Interface
      BY <2>2 DEF IsInventory, IsTable
    <3>2. new.interfaces[i].device = Renamed(inv.interfaces[i].device)
      BY <3>1 DEF Merged, Interface
    <3> QED BY <3>1, <3>2, <2>3 DEF ReferencesHold
  <2>7. ASSUME NEW d \in DOMAIN new.devices
        PROVE  /\ new.devices[d].interfaces \subseteq DOMAIN new.interfaces
               /\ \A a \in new.devices[d].assignments :
                     /\ a \in DOMAIN new.assignments
                     /\ new.assignments[a].device = d \/ d \in new.assignments[a].advertisedBy
    <3>0. \A a \in DOMAIN inv.assignments :
             /\ inv.assignments[a] \in Assignment
             /\ new.assignments[a].device = Renamed(inv.assignments[a].device)
             /\ new.assignments[a].advertisedBy = {Renamed(e) : e \in inv.assignments[a].advertisedBy}
      BY DEF IsInventory, IsTable, Merged, Assignment
    <3>1. CASE d = m.target
      <4>1. /\ new.devices[d].interfaces = UNION {inv.devices[e].interfaces : e \in members}
            /\ new.devices[d].assignments = UNION {inv.devices[e].assignments : e \in members}
        BY <3>1, <2>2 DEF Merged
      <4>2. ASSUME NEW e \in members
            PROVE  /\ inv.devices[e].interfaces \subseteq DOMAIN inv.interfaces
                   /\ \A a \in inv.devices[e].assignments :
                         /\ a \in DOMAIN inv.assignments
                         /\ inv.assignments[a].device = e \/ e \in inv.assignments[a].advertisedBy
        BY <4>2 DEF ReferencesHold, Members
      <4> QED BY <4>1, <4>2, <3>0, <3>1, <2>2
    <3>2. CASE d # m.target
      <4>1. d \in DOMAIN inv.devices /\ d \notin members /\ new.devices[d] = inv.devices[d]
        BY <3>2, <2>2 DEF Merged
      <4>2. /\ inv.devices[d].interfaces \subseteq DOMAIN inv.interfaces
            /\ \A a \in inv.devices[d].assignments :
                  /\ a \in DOMAIN inv.assignments
                  /\ inv.assignments[a].device = d \/ d \in inv.assignments[a].advertisedBy
        BY <4>1 DEF ReferencesHold
      <4> QED BY <4>1, <4>2, <3>0, <2>2
    <3> QED BY <3>1, <3>2
  <2>8. ReferencesHold(new)
    BY <2>5, <2>6, <2>7 DEF ReferencesHold
  <2> QED BY <2>1, <2>8
<1> QED BY <1>1, <1>2

\* A split, whatever its addresses and its target, leaves no reference dangling, also when
\* the target is a device already.
THEOREM SplitKeepsReferences ==
    ASSUME NEW inv, IsInventory(inv), ReferencesHold(inv),
           NEW s, s.source \in DeviceId, s.target \in DeviceId
    PROVE  ReferencesHold(ApplySplit(inv, s))
<1>1. CASE s.source \notin DOMAIN inv.devices \/ Moved(inv, s) = {}
  BY <1>1 DEF ApplySplit
<1>2. CASE s.source \in DOMAIN inv.devices /\ Moved(inv, s) # {}
  <2> DEFINE moved == Moved(inv, s)
             Port(a) == <<s.target, inv.interfaces[inv.assignments[a].interface].mac>>
             made == {Port(a) : a \in moved}
             new == Parted(inv, s)
  <2>1. ApplySplit(inv, s) = new
    BY <1>2 DEF ApplySplit
  <2>2. /\ DOMAIN new.devices = DOMAIN inv.devices \cup {s.target}
        /\ DOMAIN new.interfaces = DOMAIN inv.interfaces \cup made
        /\ DOMAIN new.assignments = DOMAIN inv.assignments
    BY DEF Parted
  <2>3. \A a \in moved : a \in DOMAIN inv.assignments /\ inv.assignments[a].device = s.source
    BY DEF Moved
  <2>4. \A a \in DOMAIN inv.assignments :
           /\ inv.assignments[a] \in Assignment
           /\ new.assignments[a].advertisedBy = inv.assignments[a].advertisedBy
           /\ a \in moved => /\ new.assignments[a].device = s.target
                             /\ new.assignments[a].interface = Port(a)
           /\ a \notin moved => new.assignments[a] = inv.assignments[a]
    BY DEF IsInventory, IsTable, Parted, Assignment
  <2>5. ASSUME NEW a \in DOMAIN new.assignments
        PROVE  LET x == new.assignments[a]
               IN  /\ x.device # NoDevice => /\ x.device \in DOMAIN new.devices
                                             /\ x.interface \in DOMAIN new.interfaces
                   /\ x.advertisedBy \subseteq DOMAIN new.devices
    <3> DEFINE was == inv.assignments[a]
    <3>1. a \in DOMAIN inv.assignments
      BY <2>5, <2>2
    <3>2. /\ was.device # NoDevice => /\ was.device \in DOMAIN inv.devices
                                      /\ was.interface \in DOMAIN inv.interfaces
          /\ was.advertisedBy \subseteq DOMAIN inv.devices
      BY <3>1 DEF ReferencesHold
    <3>3. new.assignments[a].advertisedBy \subseteq DOMAIN new.devices
      BY <3>1, <3>2, <2>2, <2>4
    <3>4. CASE a \in moved
      BY <3>1, <3>3, <3>4, <2>2, <2>4
    <3>5. CASE a \notin moved
      BY <3>1, <3>2, <3>5, <2>2, <2>4
    <3> QED BY <3>4, <3>5, <3>3
  <2>6. ASSUME NEW i \in DOMAIN new.interfaces
        PROVE  new.interfaces[i].device \in DOMAIN new.devices
    <3>1. CASE i \in DOMAIN inv.interfaces
      <4>1. new.interfaces[i] = inv.interfaces[i]
        BY <3>1 DEF Parted
      <4> QED BY <4>1, <3>1, <2>2 DEF ReferencesHold
    <3>2. CASE i \notin DOMAIN inv.interfaces
      <4> DEFINE a == CHOOSE x \in moved : Port(x) = i
                 original == inv.interfaces[inv.assignments[a].interface]
      <4>1. a \in moved
        BY <2>6, <3>2, <2>2
      <4>2. inv.assignments[a].interface \in DOMAIN inv.interfaces
        BY <4>1, <2>3, InventoryAssumption DEF ReferencesHold
      <4>3. original \in Interface
        BY <4>2 DEF IsInventory, IsTable
      <4>4. new.interfaces[i] = [original EXCEPT !.device = s.target]
        BY <3>2, <2>6, <2>2 DEF Parted
      <4>5. new.interfaces[i].device = s.target
        BY <4>3, <4>4 DEF Interface
      <4> QED BY <4>5, <2>2
    <3> QED BY <3>1, <3>2
  <2>7. ASSUME NEW d \in DOMAIN new.devices
        PROVE  /\ new.devices[d].interfaces \subseteq DOMAIN new.interfaces
               /\ \A a \in new.devices[d].assignments :
                     /\ a \in DOMAIN new.assignments
                     /\ new.assignments[a].device = d \/ d \in new.assignments[a].advertisedBy
    <3>1. CASE d = s.target
      <4>1. new.devices[d].interfaces = made /\ new.devices[d].assignments = moved
        BY <3>1, <2>2 DEF Parted
      <4> QED BY <4>1, <3>1, <2>2, <2>3, <2>4
    <3>2. CASE d # s.target
      <4>1. d \in DOMAIN inv.devices
        BY <3>2, <2>2
      <4>2. /\ inv.devices[d].interfaces \subseteq DOMAIN inv.interfaces
            /\ \A a \in inv.devices[d].assignments :
                  /\ a \in DOMAIN inv.assignments
                  /\ inv.assignments[a].device = d \/ d \in inv.assignments[a].advertisedBy
        BY <4>1 DEF ReferencesHold
      <4>3. CASE d = s.source
        <5>1. inv.devices[d] \in Device
          BY <4>1 DEF IsInventory, IsTable
        <5>2. /\ new.devices[d].interfaces = inv.devices[d].interfaces
              /\ new.devices[d].assignments = inv.devices[d].assignments \ moved
          BY <3>2, <4>1, <4>3, <5>1 DEF Parted, Device
        <5> QED BY <5>2, <4>2, <2>2, <2>4
      <4>4. CASE d # s.source
        <5>1. new.devices[d] = inv.devices[d]
          BY <3>2, <4>1, <4>4 DEF Parted
        <5>2. ASSUME NEW a \in inv.devices[d].assignments
              PROVE  new.assignments[a].device = d \/ d \in new.assignments[a].advertisedBy
          <6>1. a \in DOMAIN inv.assignments
            BY <4>2
          <6>2. CASE inv.assignments[a].device = d
            BY <6>1, <6>2, <4>4, <2>3, <2>4
          <6>3. CASE d \in inv.assignments[a].advertisedBy
            BY <6>1, <6>3, <2>4
          <6> QED BY <4>2, <6>2, <6>3
        <5> QED BY <5>1, <5>2, <4>2, <2>2
      <4> QED BY <4>3, <4>4
    <3> QED BY <3>1, <3>2
  <2>8. ReferencesHold(new)
    BY <2>5, <2>6, <2>7 DEF ReferencesHold
  <2> QED BY <2>1, <2>8
<1> QED BY <1>1, <1>2
-----------------------------------------------------------------------------
\* A merge makes an inventory of an inventory: with MergeKeepsReferences, whatever is shown
\* of it holds after any number of merges.
THEOREM MergeKeepsTables ==
    ASSUME NEW inv, IsInventory(inv), NEW m, m.target \in DeviceId
    PROVE  IsInventory(ApplyMerge(inv, m))
<1>1. CASE Members(inv, m) = {}
  BY <1>1 DEF ApplyMerge
<1>2. CASE Members(inv, m) # {}
  <2> DEFINE members == Members(inv, m)
             new == Merged(inv, m)
             Renamed(d) == IF d \in members THEN m.target ELSE d
  <2>1. ApplyMerge(inv, m) = new
    BY <1>2 DEF ApplyMerge
  <2>2. /\ DOMAIN inv.devices \subseteq DeviceId /\ members \subseteq DOMAIN inv.devices
        /\ \A d \in DOMAIN inv.devices : inv.devices[d] \in Device
        /\ DOMAIN inv.interfaces \subseteq InterfaceId
        /\ \A i \in DOMAIN inv.interfaces : inv.interfaces[i] \in Interface
        /\ DOMAIN inv.assignments \subseteq Address
        /\ \A a \in DOMAIN inv.assignments : inv.assignments[a] \in Assignment
    BY DEF IsInventory, IsTable, Members
  <2>3. IsTable(new.devices, DeviceId, Device)
    <3> DEFINE target == [interfaces  |-> UNION {inv.devices[d].interfaces : d \in members},
                          assignments |-> UNION {inv.devices[d].assignments : d \in members},
                          sources     |-> UNION {inv.devices[d].sources : d \in members}]
    <3>1. new.devices = [d \in (DOMAIN inv.devices \ members) \cup {m.target} |->
                             IF d = m.target THEN target ELSE inv.devices[d]]
      BY DEF Merged
    <3>2. target \in Device
      <4>1. \A d \in members : /\ inv.devices[d].interfaces \subseteq InterfaceId
                               /\ inv.devices[d].assignments \subseteq Address
                               /\ inv.devices[d].sources \subseteq Source
        BY <2>2 DEF Device
      <4>. QED
        BY <4>1 DEF Device
    <3>. HIDE DEF target, new, members
    <3>. QED
      BY <2>2, <3>1, <3>2 DEF IsTable
  <2>4. IsTable(new.interfaces, InterfaceId, Interface)
    <3>1. new.interfaces = [i \in DOMAIN inv.interfaces |-> [inv.interfaces[i] EXCEPT !.device = Renamed(@)]]
      BY DEF Merged
    <3>2. \A i \in DOMAIN inv.interfaces : [inv.interfaces[i] EXCEPT !.device = Renamed(@)] \in Interface
      BY <2>2 DEF Interface
    <3>. HIDE DEF Renamed, new
    <3>. QED
      BY <2>2, <3>1, <3>2 DEF IsTable
  <2>5. IsTable(new.assignments, Address, Assignment)
    <3> DEFINE Moving(x) == [x EXCEPT !.device = Renamed(@), !.advertisedBy = {Renamed(d) : d \in @}]
    <3>1. new.assignments = [a \in DOMAIN inv.assignments |-> Moving(inv.assignments[a])]
      BY DEF Merged
    <3>2. \A x \in Assignment : Moving(x) \in Assignment
      <4>1. \A d \in DeviceId \cup {NoDevice} : Renamed(d) \in DeviceId \cup {NoDevice}
        OBVIOUS
      <4>2. \A d \in DeviceId : Renamed(d) \in DeviceId
        OBVIOUS
      <4>. HIDE DEF Renamed
      <4>. QED
        BY <4>1, <4>2 DEF Assignment
    <3>. HIDE DEF Moving, new
    <3>. QED
      BY <2>2, <3>1, <3>2 DEF IsTable
  <2>6. new = [devices |-> new.devices, interfaces |-> new.interfaces, assignments |-> new.assignments]
    BY DEF Merged
  <2>. HIDE DEF new
  <2>. QED
    BY <2>1, <2>3, <2>4, <2>5, <2>6 DEF IsInventory
<1>. QED
  BY <1>1, <1>2

\* A split makes an inventory of an inventory of which no reference dangles.
THEOREM SplitKeepsTables ==
    ASSUME NEW inv, IsInventory(inv), ReferencesHold(inv),
           NEW s, s.source \in DeviceId, s.target \in DeviceId
    PROVE  IsInventory(ApplySplit(inv, s))
<1>1. CASE s.source \notin DOMAIN inv.devices \/ Moved(inv, s) = {}
  BY <1>1 DEF ApplySplit
<1>2. CASE s.source \in DOMAIN inv.devices /\ Moved(inv, s) # {}
  <2> DEFINE moved == Moved(inv, s)
             Original(a) == inv.interfaces[inv.assignments[a].interface]
             Port(a) == <<s.target, Original(a).mac>>
             made == {Port(a) : a \in moved}
             new == Parted(inv, s)
  <2>1. ApplySplit(inv, s) = new
    BY <1>2 DEF ApplySplit
  <2>2. /\ DOMAIN inv.devices \subseteq DeviceId
        /\ \A d \in DOMAIN inv.devices : inv.devices[d] \in Device
        /\ DOMAIN inv.interfaces \subseteq InterfaceId
        /\ \A i \in DOMAIN inv.interfaces : inv.interfaces[i] \in Interface
        /\ DOMAIN inv.assignments \subseteq Address
        /\ \A a \in DOMAIN inv.assignments : inv.assignments[a] \in Assignment
    BY DEF IsInventory, IsTable
  <2>3. \A a \in moved : a \in DOMAIN inv.assignments /\ inv.assignments[a].interface \in DOMAIN inv.interfaces
    BY InventoryAssumption DEF Moved, ReferencesHold
  <2>4. \A a \in moved : Original(a) \in Interface /\ Port(a) \in InterfaceId
    <3>1. \A a \in moved : Original(a) \in Interface
      BY <2>2, <2>3
    <3>2. \A x \in Interface : <<s.target, x.mac>> \in InterfaceId
      BY DEF Interface, InterfaceId
    <3>. HIDE DEF moved, Original
    <3>. QED
      BY <3>1, <3>2
  <2>5. IsTable(new.devices, DeviceId, Device)
    <3> DEFINE target == [interfaces |-> made, assignments |-> moved, sources |-> inv.devices[s.source].sources]
    <3>1. /\ DOMAIN new.devices = DOMAIN inv.devices \cup {s.target}
          /\ new.devices[s.target] = target
          /\ \A d \in DOMAIN inv.devices \ {s.target} :
                new.devices[d] \in {inv.devices[d], [inv.devices[d] EXCEPT !.assignments = @ \ moved]}
          /\ new.devices = [d \in DOMAIN new.devices |-> new.devices[d]]
      BY DEF Parted
    <3>2. target \in Device
      <4>1. moved \subseteq Address /\ made \subseteq InterfaceId
        BY <2>2, <2>3, <2>4
      <4>2. inv.devices[s.source].sources \subseteq Source
        BY <1>2, <2>2 DEF Device
      <4>. HIDE DEF moved, made
      <4>. QED
        BY <4>1, <4>2 DEF Device
    <3>3. \A d \in DOMAIN inv.devices : [inv.devices[d] EXCEPT !.assignments = @ \ moved] \in Device
      BY <2>2 DEF Device
    <3>. HIDE DEF target, new, moved
    <3>4. \A d \in DOMAIN new.devices : new.devices[d] \in Device
      BY <2>2, <3>1, <3>2, <3>3
    <3>5. new.devices \in [DOMAIN new.devices -> Device]
      BY <3>1, <3>4
    <3>. QED
      BY <2>2, <3>1, <3>5 DEF IsTable
  <2>6. IsTable(new.interfaces, InterfaceId, Interface)
    <3>1. /\ DOMAIN new.interfaces = DOMAIN inv.interfaces \cup made
          /\ \A i \in DOMAIN inv.interfaces : new.interfaces[i] = inv.interfaces[i]
          /\ \A i \in made \ DOMAIN inv.interfaces :
                new.interfaces[i] = [Original(CHOOSE a \in moved : Port(a) = i) EXCEPT !.device = s.target]
          /\ new.interfaces = [i \in DOMAIN new.interfaces |-> new.interfaces[i]]
      BY DEF Parted
    <3>2. \A i \in made : (CHOOSE a \in moved : Port(a) = i) \in moved
      OBVIOUS
    <3>3. \A x \in Interface : [x EXCEPT !.device = s.target] \in Interface
      BY DEF Interface
    <3>4. made \subseteq InterfaceId
      BY <2>4
    <3>. HIDE DEF new, made, Original, Port, moved
    <3>5. ASSUME NEW i \in DOMAIN new.interfaces PROVE new.interfaces[i] \in Interface
      <4>1. CASE i \in DOMAIN inv.interfaces
        BY <2>2, <3>1, <4>1
      <4>2. CASE i \notin DOMAIN inv.interfaces
        <5>1. i \in made \ DOMAIN inv.interfaces
          BY <3>1, <4>2
        <5>2. PICK x \in Interface : new.interfaces[i] = [x EXCEPT !.device = s.target]
          BY <2>4, <3>1, <3>2, <5>1
        <5>. QED
          BY <3>3, <5>2
      <4>. QED
        BY <4>1, <4>2
    <3>6. new.interfaces \in [DOMAIN new.interfaces -> Interface]
      BY <3>1, <3>5
    <3>. QED
      BY <2>2, <3>1, <3>4, <3>6 DEF IsTable
  <2>7. IsTable(new.assignments, Address, Assignment)
    <3>1. /\ DOMAIN new.assignments = DOMAIN inv.assignments
          /\ \A a \in DOMAIN inv.assignments : new.assignments[a] =
                IF a \in moved THEN [inv.assignments[a] EXCEPT !.device = s.target, !.interface = Port(a)]
                ELSE inv.assignments[a]
          /\ new.assignments = [a \in DOMAIN new.assignments |-> new.assignments[a]]
      BY DEF Parted
    <3>2. \A x \in Assignment, i \in InterfaceId : [x EXCEPT !.device = s.target, !.interface = i] \in Assignment
      BY DEF Assignment
    <3>. HIDE DEF new, moved, Port
    <3>3. ASSUME NEW a \in DOMAIN new.assignments PROVE new.assignments[a] \in Assignment
      <4>1. CASE a \in moved
        <5>1. /\ new.assignments[a] = [inv.assignments[a] EXCEPT !.device = s.target, !.interface = Port(a)]
              /\ inv.assignments[a] \in Assignment
          BY <2>2, <3>1, <4>1
        <5>2. Port(a) \in InterfaceId
          BY <2>4, <4>1
        <5>. QED
          BY <3>2, <5>1, <5>2
      <4>2. CASE a \notin moved
        BY <2>2, <3>1, <4>2
      <4>. QED
        BY <4>1, <4>2
    <3>4. new.assignments \in [DOMAIN new.assignments -> Assignment]
      BY <3>1, <3>3
    <3>. QED
      BY <2>2, <3>1, <3>4 DEF IsTable
  <2>8. new = [devices |-> new.devices, interfaces |-> new.interfaces, assignments |-> new.assignments]
    BY DEF Parted
  <2>. HIDE DEF new
  <2>. QED
    BY <2>1, <2>5, <2>6, <2>7, <2>8 DEF IsInventory
<1>. QED
  BY <1>1, <1>2
-----------------------------------------------------------------------------
\* The operations have the numbers 1, 2, 3 and so on, in the order of the keys h.
Agrees(o, h) ==
    /\ \A x \in ToSet(o.merges) : x.sequence \in 1..Len(h) /\ h[x.sequence] = <<"merge", x.id>>
    /\ \A x \in ToSet(o.splits) : x.sequence \in 1..Len(h) /\ h[x.sequence] = <<"split", x.id>>
    /\ \A n \in 1..Len(h) : \E x \in ToSet(o.merges) \cup ToSet(o.splits) : x.sequence = n

\* The keys, read off the operations that have these numbers.
LEMMA NumbersAgree ==
    ASSUME NEW o, NEW h \in Seq(OperationKey), Agrees(o, h)
    PROVE  /\ Sequences(o) = 1..Len(h)
           /\ Unnumbered(o) = {}
           /\ Numbered(o) = {<<h[n][1], h[n][2], n>> : n \in 1..Len(h)}
           /\ Recorded(o) = ToSet(h)
<1>. DEFINE N == Len(h)
            M == ToSet(o.merges)
            P == ToSet(o.splits)
            Triple(n) == <<h[n][1], h[n][2], n>>
<1>1. N \in Nat /\ 0 \notin 1..N /\ DOMAIN h = 1..N
  OBVIOUS
<1>2. /\ \A x \in M : x.sequence \in 1..N /\ x.sequence # 0 /\ h[x.sequence] = <<"merge", x.id>>
      /\ \A x \in P : x.sequence \in 1..N /\ x.sequence # 0 /\ h[x.sequence] = <<"split", x.id>>
      /\ \A n \in 1..N : \E x \in M \cup P : x.sequence = n
  BY <1>1 DEF Agrees
<1>. HIDE DEF N, M, P
<1>3. Sequences(o) = 1..N
  <2>1. Sequences(o) = {x.sequence : x \in M \cup P} \ {0}
    BY DEF Sequences, Unset, M, P
  <2>2. ASSUME NEW n \in Sequences(o) PROVE n \in 1..N
    BY <1>2, <2>1, <2>2
  <2>3. ASSUME NEW n \in 1..N PROVE n \in Sequences(o)
    BY <1>1, <1>2, <2>1
  <2>. QED
    BY <2>2, <2>3
<1>4. Unnumbered(o) = {}
  BY <1>2 DEF Unnumbered, Unset, M, P
<1>5. Numbered(o) = {<<"merge", x.id, x.sequence>> : x \in M} \cup {<<"split", x.id, x.sequence>> : x \in P}
  BY <1>2 DEF Numbered, Unset, M, P
<1>6. /\ \A x \in M : <<"merge", x.id, x.sequence>> = Triple(x.sequence)
      /\ \A x \in P : <<"split", x.id, x.sequence>> = Triple(x.sequence)
  <2>1. ASSUME NEW x \in M PROVE h[x.sequence][1] = "merge" /\ h[x.sequence][2] = x.id
    <3>1. h[x.sequence] = <<"merge", x.id>>
      BY <1>2
    <3>. QED
      BY <3>1, PairAt
  <2>2. ASSUME NEW x \in P PROVE h[x.sequence][1] = "split" /\ h[x.sequence][2] = x.id
    <3>1. h[x.sequence] = <<"split", x.id>>
      BY <1>2
    <3>. QED
      BY <3>1, PairAt
  <2>. QED
    BY <2>1, <2>2
<1>7. Numbered(o) = {Triple(n) : n \in 1..N}
  <2>. HIDE DEF Triple
  <2>1. ASSUME NEW t \in Numbered(o) PROVE t \in {Triple(n) : n \in 1..N}
    BY <1>2, <1>5, <1>6
  <2>2. ASSUME NEW n \in 1..N PROVE Triple(n) \in Numbered(o)
    BY <1>2, <1>5, <1>6
  <2>. QED
    BY <2>1, <2>2
<1>8. Recorded(o) = ToSet(h)
  <2>1. Recorded(o) = {<<"merge", x.id>> : x \in M} \cup {<<"split", x.id>> : x \in P}
    BY DEF Recorded, Key, M, P
  <2>2. ToSet(h) = {h[n] : n \in 1..N}
    BY <1>1 DEF ToSet
  <2>3. ASSUME NEW k \in Recorded(o) PROVE k \in ToSet(h)
    <3>1. CASE \E x \in M : k = <<"merge", x.id>>
      <4>1. PICK x \in M : k = <<"merge", x.id>>
        BY <3>1
      <4>2. k = h[x.sequence] /\ x.sequence \in 1..N
        BY <1>2, <4>1, Zenon
      <4>. QED
        BY <2>2, <4>2
    <3>2. CASE \E x \in P : k = <<"split", x.id>>
      <4>1. PICK x \in P : k = <<"split", x.id>>
        BY <3>2
      <4>2. k = h[x.sequence] /\ x.sequence \in 1..N
        BY <1>2, <4>1, Zenon
      <4>. QED
        BY <2>2, <4>2
    <3>. QED
      BY <2>1, <3>1, <3>2
  <2>4. ASSUME NEW n \in 1..N PROVE h[n] \in Recorded(o)
    <3>1. PICK x \in M \cup P : x.sequence = n
      BY <1>2
    <3>2. CASE x \in M
      <4>1. h[n] = <<"merge", x.id>>
        BY <1>2, <3>1, <3>2
      <4>. QED
        BY <2>1, <3>2, <4>1
    <3>3. CASE x \in P
      <4>1. h[n] = <<"split", x.id>>
        BY <1>2, <3>1, <3>3
      <4>. QED
        BY <2>1, <3>3, <4>1
    <3>. QED
      BY <3>2, <3>3
  <2>. QED
    BY <2>2, <2>3, <2>4
<1>. QED
  BY <1>3, <1>4, <1>7, <1>8 DEF N

\* Operations that have these numbers are applied in the order of the keys, whatever the
\* log says of them.
LEMMA OrderOfNumbers ==
    ASSUME NEW o, NEW h \in Seq(OperationKey), Agrees(o, h)
    PROVE  Ordered(o) = h
<1>. DEFINE N == Len(h)
            WithNumber(n) == CHOOSE x \in Numbered(o) : x[3] = n
<1>1. N \in Nat /\ h = [n \in 1..N |-> h[n]]
  OBVIOUS
<1>2. \A n \in 1..N : WithNumber(n) = <<h[n][1], h[n][2], n>>
  BY NumbersAgree
<1>3. \A n \in 1..N : <<WithNumber(n)[1], WithNumber(n)[2]>> = h[n]
  <2>1. \A n \in 1..N : h[n] = <<h[n][1], h[n][2]>>
    BY DEF OperationKey
  <2>2. ASSUME NEW n \in 1..N PROVE WithNumber(n)[1] = h[n][1] /\ WithNumber(n)[2] = h[n][2]
    <3>1. WithNumber(n) = <<h[n][1], h[n][2], n>>
      BY <1>2
    <3>. HIDE DEF WithNumber
    <3>. QED
      BY <3>1, TripleAt
  <2>. HIDE DEF WithNumber, N
  <2>. QED
    BY <2>1, <2>2
<1>4. InOrder(Sequences(o)) = [n \in 1..N |-> n]
  BY <1>1, NumbersAgree, InOrderOfInterval
<1>. DEFINE logged == Kept(Audited(o), Unnumbered(o))
            others == Kept(Keys("split", o.splits) \o Keys("merge", o.merges), Unnumbered(o) \ ToSet(logged))
            numbers == InOrder(Sequences(o))
            numbered == [k \in DOMAIN numbers |-> <<WithNumber(numbers[k])[1], WithNumber(numbers[k])[2]>>]
<1>5. logged = <<>>
  BY NumbersAgree, KeptOfNone
<1>6. others = <<>>
  <2>1. Unnumbered(o) \ ToSet(logged) = {}
    BY NumbersAgree
  <2>. QED
    BY <2>1, KeptOfNone
<1>7. numbered = h
  <2>. HIDE DEF WithNumber, N
  <2>1. numbered = [n \in 1..N |-> <<WithNumber(n)[1], WithNumber(n)[2]>>]
    BY <1>4
  <2>. QED
    BY <1>1, <1>3, <2>1
<1>8. Ordered(o) = logged \o others \o numbered
  BY Zenon DEF Ordered
<1>. HIDE DEF logged, others, numbered
<1>. QED
  BY <1>1, <1>5, <1>6, <1>7, <1>8

\* The next number is one more than there are operations.
LEMMA NextOfNumbers ==
    ASSUME NEW o, NEW h \in Seq(OperationKey), Agrees(o, h)
    PROVE  NextSequence(o) = Len(h) + 1
<1>. DEFINE S == (1..Len(h)) \cup {0}
<1>1. Len(h) \in Nat /\ S \subseteq Nat /\ Len(h) \in S /\ \A k \in S : k <= Len(h)
  OBVIOUS
<1>2. Sequences(o) \cup {0} = S
  BY NumbersAgree
<1>. HIDE DEF S
<1>3. Max(S) \in S /\ \A k \in S : k <= Max(S)
  BY <1>1, Greatest
<1>4. Max(S) = Len(h)
  <2>1. Max(S) \in Nat /\ Max(S) <= Len(h) /\ Len(h) <= Max(S)
    BY <1>1, <1>3
  <2>. QED
    BY <1>1, <2>1
<1>. QED
  BY <1>2, <1>4 DEF NextSequence

\* No two operations have the same number.
LEMMA CountsAgree ==
    ASSUME NEW o, NEW h \in Seq(OperationKey), Agrees(o, h)
    PROVE  Cardinality(Sequences(o)) = Cardinality(Numbered(o))
<1>. DEFINE I == 1..Len(h)
            f == [n \in I |-> <<h[n][1], h[n][2], n>>]
<1>1. Numbered(o) = {f[n] : n \in I} /\ Sequences(o) = I
  BY NumbersAgree
<1>2. \A m, n \in I : f[m] = f[n] => m = n
  OBVIOUS
<1>3. f \in [I -> Numbered(o)] /\ \A t \in Numbered(o) : \E n \in I : f[n] = t
  BY <1>1
<1>4. IsFiniteSet(I)
  BY FS_Interval
<1>. HIDE DEF f, I
<1>5. f \in Bijection(I, Numbered(o))
  BY <1>2, <1>3 DEF Bijection, Injection, Surjection, IsInjective
<1>. QED
  BY <1>1, <1>4, <1>5, FS_Bijection DEF ExistsBijection

\* The log, with another entry, is cut at its limit.
LEMMA LogIsCut ==
    ASSUME NEW log \in Seq(Seq(OperationKey))
    PROVE  KeptAudit(log) \in Seq(Seq(OperationKey)) /\ Len(KeptAudit(log)) <= AuditLimit
<1>. DEFINE n == Len(log)
            first == Max({1, n - AuditLimit + 1})
<1>1. n \in Nat /\ AuditLimit \in Nat \ {0}
  BY IdentityAssumption
<1>2. first = IF 1 < n - AuditLimit + 1 THEN n - AuditLimit + 1 ELSE 1
  BY <1>1, MaxOfTwo
<1>3. KeptAudit(log) = SubSeq(log, first, n)
  BY DEF KeptAudit
<1>. HIDE DEF first
<1>4. first \in 1..(n + 1) /\ n - first + 1 <= AuditLimit /\ first \in Int
  BY <1>1, <1>2
<1>5. SubSeq(log, first, n) \in Seq(Seq(OperationKey))
  BY <1>4
<1>6. Len(SubSeq(log, first, n)) = n - first + 1
  BY <1>1, <1>4
<1>. QED
  BY <1>1, <1>3, <1>4, <1>5, <1>6

\* The keys of h name each operation once, and ids that are greater than its length are new.
KeysHold(h) ==
    /\ h \in Seq(OperationKey) /\ IsInjective(h)
    /\ \A i \in 1..Len(h) : h[i][2] \in 1..Len(h)

\* New operations have new ids, so that the keys still name each operation once.
LEMMA KeysAppended ==
    ASSUME NEW h, KeysHold(h), NEW g \in Seq(OperationKey),
           \A i \in 1..Len(g) : g[i][2] = Len(h) + i
    PROVE  KeysHold(h \o g)
<1>. DEFINE n == Len(h)
            all == h \o g
<1>1. n \in Nat /\ Len(g) \in Nat /\ h \in Seq(OperationKey) /\ DOMAIN h = 1..n
  BY DEF KeysHold
<1>2. all \in Seq(OperationKey) /\ Len(all) = n + Len(g) /\ DOMAIN all = 1..(n + Len(g))
  BY <1>1
<1>3. \A i \in 1..n : all[i] = h[i] /\ h[i][2] \in 1..n
  BY <1>1 DEF KeysHold
<1>4. ASSUME NEW i \in (n + 1)..(n + Len(g)) PROVE all[i][2] = i
  <2>1. i - n \in 1..Len(g) /\ all[i] = g[i - n]
    BY <1>1
  <2>2. g[i - n][2] = n + (i - n)
    BY <2>1
  <2>. QED
    BY <1>1, <2>1, <2>2
<1>. HIDE DEF n, all
<1>5. \A i \in 1..(n + Len(g)) : i \in 1..n \/ i \in (n + 1)..(n + Len(g))
  BY <1>1
<1>6. \A i \in 1..(n + Len(g)) : all[i][2] \in 1..(n + Len(g))
  BY <1>1, <1>3, <1>4, <1>5
<1>7. ASSUME NEW i \in 1..(n + Len(g)), NEW j \in 1..(n + Len(g)), all[i] = all[j]
      PROVE  i = j
  <2>1. CASE i \in 1..n /\ j \in 1..n
    BY <1>1, <1>3, <1>7, <2>1 DEF KeysHold, IsInjective
  <2>2. CASE i \in (n + 1)..(n + Len(g)) /\ j \in (n + 1)..(n + Len(g))
    BY <1>4, <1>7, <2>2
  <2>3. CASE i \in 1..n /\ j \in (n + 1)..(n + Len(g))
    BY <1>1, <1>3, <1>4, <1>7, <2>3
  <2>4. CASE j \in 1..n /\ i \in (n + 1)..(n + Len(g))
    BY <1>1, <1>3, <1>4, <1>7, <2>4
  <2>. QED
    BY <1>5, <2>1, <2>2, <2>3, <2>4
<1>. QED
  BY <1>2, <1>6, <1>7 DEF KeysHold, IsInjective, all

\* New operations that have the next numbers, in the order of the new keys g.
LEMMA AgreesAppended ==
    ASSUME NEW o, NEW p, NEW h \in Seq(OperationKey), NEW g \in Seq(OperationKey), Agrees(o, h),
           NEW A, NEW B, ToSet(p.merges) = ToSet(o.merges) \cup A, ToSet(p.splits) = ToSet(o.splits) \cup B,
           \A x \in A : \E i \in 1..Len(g) : x.sequence = Len(h) + i /\ g[i] = <<"merge", x.id>>,
           \A x \in B : \E i \in 1..Len(g) : x.sequence = Len(h) + i /\ g[i] = <<"split", x.id>>,
           \A i \in 1..Len(g) : \E x \in A \cup B : x.sequence = Len(h) + i
    PROVE  Agrees(p, h \o g)
<1>. DEFINE n == Len(h)
            all == h \o g
<1>1. n \in Nat /\ Len(g) \in Nat /\ Len(all) = n + Len(g)
  OBVIOUS
<1>2. \A i \in 1..n : i \in 1..(n + Len(g)) /\ all[i] = h[i]
  BY <1>1
<1>3. \A i \in 1..Len(g) : n + i \in 1..(n + Len(g)) /\ all[n + i] = g[i]
  BY <1>1
<1>. HIDE DEF n, all
<1>4. ASSUME NEW x \in ToSet(p.merges) PROVE x.sequence \in 1..Len(all) /\ all[x.sequence] = <<"merge", x.id>>
  <2>1. CASE x \in ToSet(o.merges)
    BY <1>1, <1>2, <2>1 DEF Agrees, n
  <2>2. CASE x \in A
    <3>1. PICK i \in 1..Len(g) : x.sequence = n + i /\ g[i] = <<"merge", x.id>>
      BY <2>2 DEF n
    <3>. QED
      BY <1>1, <1>3, <3>1
  <2>. QED
    BY <2>1, <2>2
<1>5. ASSUME NEW x \in ToSet(p.splits) PROVE x.sequence \in 1..Len(all) /\ all[x.sequence] = <<"split", x.id>>
  <2>1. CASE x \in ToSet(o.splits)
    BY <1>1, <1>2, <2>1 DEF Agrees, n
  <2>2. CASE x \in B
    <3>1. PICK i \in 1..Len(g) : x.sequence = n + i /\ g[i] = <<"split", x.id>>
      BY <2>2 DEF n
    <3>. QED
      BY <1>1, <1>3, <3>1
  <2>. QED
    BY <2>1, <2>2
<1>6. ASSUME NEW i \in 1..Len(all) PROVE \E x \in ToSet(p.merges) \cup ToSet(p.splits) : x.sequence = i
  <2>1. CASE i \in 1..n
    BY <2>1 DEF Agrees, n
  <2>2. CASE i \notin 1..n
    <3>1. i - n \in 1..Len(g) /\ n + (i - n) = i
      BY <1>1, <2>2
    <3>. QED
      BY <3>1 DEF n
  <2>. QED
    BY <2>1, <2>2
<1>. QED
  BY <1>4, <1>5, <1>6 DEF Agrees, all

\* The inductive invariant: the history names what is recorded, each operation once, and
\* the order that is read from the file is the history.
IdInv ==
    /\ overrides \in Overrides /\ Len(overrides.audit) <= AuditLimit
    /\ Cardinality(Sequences(overrides)) = Cardinality(Numbered(overrides))
    /\ KeysHold(history)
    /\ ToSet(history) = Recorded(overrides)
    /\ Ordered(overrides) = history

\* A read gives each operation the number of its place in the history.
LEMMA NormalizedAgrees ==
    ASSUME IdInv
    PROVE  /\ Normalized(overrides) \in Overrides
           /\ Agrees(Normalized(overrides), history)
<1>. DEFINE N == Len(history)
            o == Normalized(overrides)
            Place(kind, x) == CHOOSE n \in 1..N : history[n] = <<kind, x.id>>
            Numbering(kind, operations) ==
                [i \in 1..Len(operations) |-> [operations[i] EXCEPT !.sequence = Place(kind, operations[i])]]
<1>1. /\ history \in Seq(OperationKey) /\ N \in Nat /\ DOMAIN history = 1..N
      /\ \A m, n \in 1..N : history[m] = history[n] => m = n
      /\ \A k \in Recorded(overrides) : \E n \in 1..N : history[n] = k
      /\ \A n \in 1..N : history[n] \in Recorded(overrides)
  <2>1. history \in Seq(OperationKey) /\ N \in Nat /\ DOMAIN history = 1..N
    BY DEF IdInv, KeysHold
  <2>2. \A m, n \in 1..N : history[m] = history[n] => m = n
    BY <2>1 DEF IdInv, KeysHold, IsInjective
  <2>3. Recorded(overrides) = {history[n] : n \in 1..N}
    BY <2>1 DEF IdInv, ToSet
  <2>. QED
    BY <2>1, <2>2, <2>3
<1>2. overrides \in Overrides /\ overrides.merges \in Seq(Merge) /\ overrides.splits \in Seq(Split)
  BY DEF IdInv, Overrides
<1>3. o = [overrides EXCEPT !.merges = Numbering("merge", @), !.splits = Numbering("split", @)]
  <2>. DEFINE NumberedBy(order) ==
           LET Numbers(kind, operations) ==
                   [i \in 1..Len(operations) |->
                       [operations[i] EXCEPT !.sequence = CHOOSE n \in 1..Len(order) : order[n] = <<kind, operations[i].id>>]]
           IN  [overrides EXCEPT !.merges = Numbers("merge", @), !.splits = Numbers("split", @)]
  <2>1. o = NumberedBy(Ordered(overrides))
    BY Zenon DEF Normalized
  <2>2. Ordered(overrides) = history
    BY DEF IdInv
  <2>3. o = NumberedBy(history)
    <3>. HIDE DEF NumberedBy, o
    <3>. QED
      BY <2>1, <2>2
  <2>. QED
    BY <2>3, Zenon
<1>4. o.merges = Numbering("merge", overrides.merges) /\ o.splits = Numbering("split", overrides.splits)
      /\ o = [merges |-> o.merges, splits |-> o.splits, audit |-> overrides.audit]
  <2>. HIDE DEF Numbering, o
  <2>. QED
    BY <1>2, <1>3 DEF Overrides
<1>5. ASSUME NEW x \in ToSet(overrides.merges)
      PROVE  Place("merge", x) \in 1..N /\ history[Place("merge", x)] = <<"merge", x.id>>
  <2>1. <<"merge", x.id>> \in Recorded(overrides)
    BY DEF Recorded, Key
  <2>. QED
    BY <1>1, <2>1
<1>6. ASSUME NEW x \in ToSet(overrides.splits)
      PROVE  Place("split", x) \in 1..N /\ history[Place("split", x)] = <<"split", x.id>>
  <2>1. <<"split", x.id>> \in Recorded(overrides)
    BY DEF Recorded, Key
  <2>. QED
    BY <1>1, <2>1
<1>. DEFINE NewMerge(x) == [x EXCEPT !.sequence = Place("merge", x)]
            NewSplit(x) == [x EXCEPT !.sequence = Place("split", x)]
<1>7. /\ ToSet(overrides.merges) \subseteq Merge /\ ToSet(overrides.splits) \subseteq Split
  BY <1>2 DEF ToSet
<1>8. ASSUME NEW x \in ToSet(overrides.merges)
      PROVE  NewMerge(x) \in Merge /\ NewMerge(x).id = x.id /\ NewMerge(x).sequence = Place("merge", x)
  <2>. HIDE DEF Place, N
  <2>1. x \in Merge /\ Place("merge", x) \in Nat
    BY <1>1, <1>5, <1>7
  <2>. QED
    BY <2>1 DEF Merge
<1>9. ASSUME NEW x \in ToSet(overrides.splits)
      PROVE  NewSplit(x) \in Split /\ NewSplit(x).id = x.id /\ NewSplit(x).sequence = Place("split", x)
  <2>. HIDE DEF Place, N
  <2>1. x \in Split /\ Place("split", x) \in Nat
    BY <1>1, <1>6, <1>7
  <2>. QED
    BY <2>1 DEF Split
<1>10. /\ o.merges \in Seq(Merge) /\ ToSet(o.merges) = {NewMerge(x) : x \in ToSet(overrides.merges)}
  <2>1. o.merges = [i \in 1..Len(overrides.merges) |-> NewMerge(overrides.merges[i])]
    BY <1>4
  <2>2. \A i \in 1..Len(overrides.merges) : overrides.merges[i] \in ToSet(overrides.merges)
    BY <1>2 DEF ToSet
  <2>3. ToSet(overrides.merges) = {overrides.merges[i] : i \in 1..Len(overrides.merges)}
    BY <1>2 DEF ToSet
  <2>. HIDE DEF NewMerge, o
  <2>4. o.merges \in Seq(Merge)
    BY <1>2, <1>8, <2>1, <2>2
  <2>5. ToSet(o.merges) = {NewMerge(overrides.merges[i]) : i \in 1..Len(overrides.merges)}
    BY <2>1 DEF ToSet
  <2>. QED
    BY <2>3, <2>4, <2>5
<1>11. /\ o.splits \in Seq(Split) /\ ToSet(o.splits) = {NewSplit(x) : x \in ToSet(overrides.splits)}
  <2>1. o.splits = [i \in 1..Len(overrides.splits) |-> NewSplit(overrides.splits[i])]
    BY <1>4
  <2>2. \A i \in 1..Len(overrides.splits) : overrides.splits[i] \in ToSet(overrides.splits)
    BY <1>2 DEF ToSet
  <2>3. ToSet(overrides.splits) = {overrides.splits[i] : i \in 1..Len(overrides.splits)}
    BY <1>2 DEF ToSet
  <2>. HIDE DEF NewSplit, o
  <2>4. o.splits \in Seq(Split)
    BY <1>2, <1>9, <2>1, <2>2
  <2>5. ToSet(o.splits) = {NewSplit(overrides.splits[i]) : i \in 1..Len(overrides.splits)}
    BY <2>1 DEF ToSet
  <2>. QED
    BY <2>3, <2>4, <2>5
<1>12. o \in Overrides
  <2>1. overrides.audit \in Seq(Seq(OperationKey))
    BY <1>2 DEF Overrides
  <2>2. \A ms \in Seq(Merge), ss \in Seq(Split), log \in Seq(Seq(OperationKey)) :
           [merges |-> ms, splits |-> ss, audit |-> log] \in Overrides
    BY DEF Overrides
  <2>. HIDE DEF o
  <2>. QED
    <3>1. o.merges \in Seq(Merge) /\ o.splits \in Seq(Split)
      BY <1>10, <1>11
    <3>2. [merges |-> o.merges, splits |-> o.splits, audit |-> overrides.audit] \in Overrides
      BY <2>1, <2>2, <3>1
    <3>3. o = [merges |-> o.merges, splits |-> o.splits, audit |-> overrides.audit]
      BY <1>4
    <3>. QED
      BY <3>2, <3>3, Zenon
<1>13. ASSUME NEW n \in 1..N PROVE \E x \in ToSet(o.merges) \cup ToSet(o.splits) : x.sequence = n
  <2>1. history[n] \in Recorded(overrides)
    BY <1>1
  <2>2. CASE \E x \in ToSet(overrides.merges) : history[n] = <<"merge", x.id>>
    <3>1. PICK x \in ToSet(overrides.merges) : history[n] = <<"merge", x.id>>
      BY <2>2
    <3>2. Place("merge", x) = n
      BY <1>1, <1>5, <3>1
    <3>. HIDE DEF NewMerge, Place, o
    <3>. QED
      BY <1>8, <1>10, <3>2
  <2>3. CASE \E x \in ToSet(overrides.splits) : history[n] = <<"split", x.id>>
    <3>1. PICK x \in ToSet(overrides.splits) : history[n] = <<"split", x.id>>
      BY <2>3
    <3>2. Place("split", x) = n
      BY <1>1, <1>6, <3>1
    <3>. HIDE DEF NewSplit, Place, o
    <3>. QED
      BY <1>9, <1>11, <3>2
  <2>. QED
    BY <2>1, <2>2, <2>3 DEF Recorded, Key
<1>14. Agrees(o, history)
  <2>. HIDE DEF NewMerge, NewSplit, Place, o
  <2>1. ASSUME NEW y \in ToSet(o.merges) PROVE y.sequence \in 1..N /\ history[y.sequence] = <<"merge", y.id>>
    <3>1. PICK x \in ToSet(overrides.merges) : y = NewMerge(x)
      BY <1>10
    <3>. QED
      BY <1>5, <1>8, <3>1
  <2>2. ASSUME NEW y \in ToSet(o.splits) PROVE y.sequence \in 1..N /\ history[y.sequence] = <<"split", y.id>>
    <3>1. PICK x \in ToSet(overrides.splits) : y = NewSplit(x)
      BY <1>11
    <3>. QED
      BY <1>6, <1>9, <3>1
  <2>. QED
    BY <1>13, <2>1, <2>2 DEF Agrees
<1>. QED
  BY <1>12, <1>14
-----------------------------------------------------------------------------
\* The inventories of which no reference dangles, as a set.
Tables(keys, values) == UNION {[D -> values] : D \in SUBSET keys}
Sound == {inv \in [devices : Tables(DeviceId, Device), interfaces : Tables(InterfaceId, Interface),
                   assignments : Tables(Address, Assignment)] : ReferencesHold(inv)}

\* The set is that of the inventories of which no reference dangles.
LEMMA SoundIs ==
    ASSUME NEW inv
    PROVE  inv \in Sound <=> IsInventory(inv) /\ ReferencesHold(inv)
<1>1. ASSUME NEW t, NEW keys, NEW values
      PROVE  t \in Tables(keys, values) <=> IsTable(t, keys, values)
  BY DEF Tables, IsTable
<1>. DEFINE R == [devices : Tables(DeviceId, Device), interfaces : Tables(InterfaceId, Interface),
                   assignments : Tables(Address, Assignment)]
<1>2. inv \in R <=> IsInventory(inv)
  <2>1. inv \in R <=> /\ inv = [devices |-> inv.devices, interfaces |-> inv.interfaces, assignments |-> inv.assignments]
                      /\ inv.devices \in Tables(DeviceId, Device)
                      /\ inv.interfaces \in Tables(InterfaceId, Interface)
                      /\ inv.assignments \in Tables(Address, Assignment)
    OBVIOUS
  <2>. QED
    BY <1>1, <2>1 DEF IsInventory
<1>. QED
  BY <1>2 DEF Sound

\* An operation that is recorded is applied to a sound inventory, and makes a sound one of it.
LEMMA ApplyKeepsSound ==
    ASSUME overrides \in Overrides, NEW inv \in Sound, NEW key \in Recorded(overrides)
    PROVE  Apply(inv, key) \in Sound
<1>. DEFINE x == Operation(overrides, key)
<1>1. IsInventory(inv) /\ ReferencesHold(inv)
  BY SoundIs
<1>2. CASE key[1] = "merge"
  <2>1. PICK y \in ToSet(overrides.merges) : key = <<"merge", y.id>>
    BY <1>2 DEF Recorded, Key
  <2>2. x \in ToSet(overrides.merges)
    BY <1>2, <2>1 DEF Operation
  <2>3. x \in Merge
    BY <2>2 DEF Overrides, ToSet
  <2>4. x.sources \subseteq DeviceId /\ x.target \in DeviceId
    BY <2>3 DEF Merge
  <2>5. Apply(inv, key) = ApplyMerge(inv, x)
    BY <1>2 DEF Apply
  <2>. HIDE DEF x
  <2>. QED
    BY <1>1, <2>4, <2>5, MergeKeepsReferences, MergeKeepsTables, SoundIs
<1>3. CASE key[1] # "merge"
  <2>1. PICK y \in ToSet(overrides.splits) : key = <<"split", y.id>>
    BY <1>3 DEF Recorded, Key
  <2>2. x \in ToSet(overrides.splits)
    BY <1>3, <2>1 DEF Operation
  <2>3. x \in Split
    BY <2>2 DEF Overrides, ToSet
  <2>4. x.source \in DeviceId /\ x.target \in DeviceId
    BY <2>3 DEF Split
  <2>5. Apply(inv, key) = ApplySplit(inv, x)
    BY <1>3 DEF Apply
  <2>. HIDE DEF x
  <2>. QED
    BY <1>1, <2>4, <2>5, SplitKeepsReferences, SplitKeepsTables, SoundIs
<1>. QED
  BY <1>2, <1>3

\* Whatever the recorded operations are and in whatever order, what they make of the
\* inventory of a snapshot is sound.
LEMMA FoldKeepsSound ==
    ASSUME overrides \in Overrides, NEW s \in Seq(OperationKey), ToSet(s) \subseteq Recorded(overrides)
    PROVE  FoldLeft(Apply, Raw, s) \in Sound
<1>. DEFINE n == Len(s)
            Follows(f) == f = [t \in SUBSET (1..n) |-> IF t = {} THEN Raw ELSE Apply(f[t \ {Max(t)}], s[Max(t)])]
<1>1. n \in Nat /\ DOMAIN s = 1..n
  OBVIOUS
<1>2. FoldLeft(Apply, Raw, s) = (CHOOSE f : Follows(f))[1..n]
  <2>1. FoldLeft(Apply, Raw, s)
         = (CHOOSE f : f = [t \in SUBSET DOMAIN s |->
                                 IF t = {} THEN Raw ELSE Apply(f[t \ {Max(t)}], s[Max(t)])])[DOMAIN s]
    BY Zenon DEF FoldLeft, MapThenFoldSet
  <2>. QED
    BY <1>1, <2>1, Zenon
<1>3. ASSUME NEW x \in Sound, NEW k \in 1..n PROVE Apply(x, s[k]) \in Sound
  <2>1. s[k] \in Recorded(overrides)
    BY <1>1, <1>3 DEF ToSet
  <2>. QED
    BY <2>1, ApplyKeepsSound
<1>4. Raw \in Sound
  BY SoundIs, IdentityAssumption
<1>5. \E f : Follows(f)
  <2>. DEFINE apply == [p \in Sound \X (1..n) |-> Apply(p[1], s[p[2]])]
  <2>1. apply \in [Sound \X (1..n) -> Sound]
    BY <1>3
  <2>2. PICK f \in [SUBSET (1..n) -> Sound] : FoldedBy(f, n, Raw, apply)
    <3>. HIDE DEF apply, n
    <3>. QED
      BY <1>1, <1>4, <2>1, FoldExists
  <2>3. ASSUME NEW t \in SUBSET (1..n), t # {}
        PROVE  apply[<<f[t \ {Max(t)}], Max(t)>>] = Apply(f[t \ {Max(t)}], s[Max(t)])
    <3>1. Max(t) \in 1..n
      <4>1. t \subseteq Nat /\ \A k \in t : k <= n
        BY <1>1
      <4>. QED
        BY <1>1, <2>3, <4>1, Greatest
    <3>2. f[t \ {Max(t)}] \in Sound
      BY <2>2
    <3>. QED
      BY <3>1, <3>2
  <2>4. f = [t \in SUBSET (1..n) |-> f[t]]
    BY <2>2
  <2>. HIDE DEF apply, n
  <2>5. \A t \in SUBSET (1..n) : f[t] = IF t = {} THEN Raw ELSE Apply(f[t \ {Max(t)}], s[Max(t)])
    BY <2>2, <2>3 DEF FoldedBy
  <2>6. Follows(f)
    BY <2>4, <2>5, Zenon
  <2>. QED
    BY <2>6
<1>. DEFINE f == CHOOSE g : Follows(g)
            S == {k \in 0..n : f[1..k] \in Sound}
<1>6. Follows(f)
  BY <1>5, Zenon
<1>. HIDE DEF f
<1>7. 0 \in S
  <2>1. 1..0 = {} /\ 0 \in 0..n
    BY <1>1
  <2>2. f[{}] = Raw
    BY <1>6
  <2>. QED
    BY <1>4, <2>1, <2>2
<1>8. ASSUME NEW k \in 0..(n - 1), k \in S PROVE k + 1 \in S
  <2>1. k \in Nat /\ k + 1 \in 1..n /\ k + 1 \in 0..n /\ 1..(k + 1) \in SUBSET (1..n) /\ 1..(k + 1) # {}
    <3>. HIDE DEF n
    <3>1. k \in Nat /\ k + 1 \in 1..n /\ k + 1 \in 0..n /\ k + 1 <= n
      BY <1>1
    <3>2. \A x \in 1..(k + 1) : x \in 1..n
      BY <1>1, <3>1
    <3>3. 1 \in 1..(k + 1)
      BY <3>1
    <3>. QED
      BY <3>1, <3>2, <3>3
  <2>2. Max(1..(k + 1)) = k + 1
    <3>1. \A y \in 1..(k + 1) : (\A x \in 1..(k + 1) : y >= x) <=> y = k + 1
      BY <2>1
    <3>. QED
      BY <2>1, <3>1 DEF Max
  <2>3. (1..(k + 1)) \ {k + 1} = 1..k
    BY <2>1
  <2>4. f[1..(k + 1)] = Apply(f[1..k], s[k + 1])
    BY <1>6, <2>1, <2>2, <2>3
  <2>. QED
    BY <1>3, <1>8, <2>1, <2>4
<1>9. n \in S
  <2>1. \A k \in 0..n : k \in S
    <3>. HIDE DEF S, n
    <3>. QED
      BY <1>1, <1>7, <1>8, Induction
  <2>. QED
    BY <1>1, <2>1
<1>. QED
  BY <1>2, <1>9, Zenon DEF f
-----------------------------------------------------------------------------
\* What is written, when its operations have the numbers of the keys of the new history.
LEMMA WritesInv ==
    ASSUME NEW o \in Overrides, NEW h, KeysHold(h), Agrees(o, h), NEW keys \in Seq(OperationKey),
           overrides' = AppendAudit(o, keys), history' = h
    PROVE  IdInv'
<1>. DEFINE log == KeptAudit(Append(o.audit, keys))
            p == AppendAudit(o, keys)
<1>1. /\ o.merges \in Seq(Merge) /\ o.splits \in Seq(Split) /\ o.audit \in Seq(Seq(OperationKey))
      /\ h \in Seq(OperationKey)
  BY DEF Overrides, KeysHold
<1>2. log \in Seq(Seq(OperationKey)) /\ Len(log) <= AuditLimit
  <2>1. Append(o.audit, keys) \in Seq(Seq(OperationKey))
    BY <1>1
  <2>. QED
    BY <2>1, LogIsCut
<1>3. p = [o EXCEPT !.audit = log]
  BY DEF AppendAudit
<1>. HIDE DEF log, p
<1>4. p \in Overrides /\ p.merges = o.merges /\ p.splits = o.splits /\ p.audit = log
  BY <1>2, <1>3 DEF Overrides
<1>5. Agrees(p, h)
  BY <1>4 DEF Agrees
<1>6. Ordered(p) = h
  BY <1>1, <1>5, OrderOfNumbers
<1>7. Recorded(p) = ToSet(h)
  BY <1>1, <1>5, NumbersAgree
<1>8. Cardinality(Sequences(p)) = Cardinality(Numbered(p))
  BY <1>1, <1>5, CountsAgree
<1>9. overrides' = p
  BY DEF p
<1>. QED
  BY <1>2, <1>4, <1>6, <1>7, <1>8, <1>9 DEF IdInv

\* A merge that is recorded is the last of the history.
LEMMA MergeInv ==
    ASSUME IdInv, NEW input \in MergeOperation, SaveMerge(input)
    PROVE  IdInv'
<1>. DEFINE o == Normalized(overrides)
            merge == [id |-> Id, sequence |-> NextSequence(o), sources |-> input.sources, target |-> input.target]
            p == [o EXCEPT !.merges = Append(@, merge)]
            g == <<<<"merge", Id>>>>
<1>1. o \in Overrides /\ Agrees(o, history)
  BY NormalizedAgrees
<1>2. history \in Seq(OperationKey) /\ KeysHold(history) /\ Len(history) \in Nat /\ Id = Len(history) + 1
  BY DEF IdInv, KeysHold, Id
<1>3. NextSequence(o) = Id
  BY <1>1, <1>2, NextOfNumbers
<1>4. merge \in Merge /\ merge.sequence = Id /\ merge.id = Id
  BY <1>2, <1>3 DEF Merge, MergeOperation
<1>5. overrides' = AppendAudit(p, <<Key("merge", merge)>>) /\ history' = Append(history, <<"merge", Id>>)
  BY Zenon DEF SaveMerge
<1>6. Key("merge", merge) = <<"merge", Id>>
  BY <1>4 DEF Key
<1>7. g \in Seq(OperationKey) /\ Len(g) = 1 /\ g[1] = <<"merge", Id>> /\ g[1][2] = Id
  BY <1>2 DEF OperationKey
<1>. HIDE DEF o, merge
<1>8. /\ o.merges \in Seq(Merge) /\ o.splits \in Seq(Split) /\ o.audit \in Seq(Seq(OperationKey))
      /\ p = [o EXCEPT !.merges = Append(o.merges, merge)]
  BY <1>1 DEF Overrides
<1>9. Append(o.merges, merge) \in Seq(Merge) /\ ToSet(Append(o.merges, merge)) = ToSet(o.merges) \cup {merge}
  BY <1>4, <1>8, AppendedElement
<1>10. p \in Overrides /\ p.merges = Append(o.merges, merge) /\ p.splits = o.splits
  BY <1>1, <1>8, <1>9 DEF Overrides
<1>. HIDE DEF p
<1>11. Agrees(p, history \o g)
  <2>. DEFINE A == {merge}
              B == {}
  <2>1. ToSet(p.merges) = ToSet(o.merges) \cup A /\ ToSet(p.splits) = ToSet(o.splits) \cup B
    BY <1>9, <1>10
  <2>2. \A x \in A : \E i \in 1..Len(g) : x.sequence = Len(history) + i /\ g[i] = <<"merge", x.id>>
    BY <1>2, <1>4, <1>7
  <2>3. \A x \in B : \E i \in 1..Len(g) : x.sequence = Len(history) + i /\ g[i] = <<"split", x.id>>
    OBVIOUS
  <2>4. \A i \in 1..Len(g) : \E x \in A \cup B : x.sequence = Len(history) + i
    BY <1>2, <1>4, <1>7
  <2>. HIDE DEF A, B, g
  <2>. QED
    BY <1>1, <1>2, <1>7, <2>1, <2>2, <2>3, <2>4, AgreesAppended
<1>12. KeysHold(history \o g)
  <2>1. \A i \in 1..Len(g) : g[i][2] = Len(history) + i
    BY <1>2, <1>7
  <2>. HIDE DEF g
  <2>. QED
    BY <1>2, <1>7, <2>1, KeysAppended
<1>13. history' = history \o g
  <2>1. <<"merge", Id>> \in OperationKey
    BY <1>2 DEF OperationKey
  <2>. QED
    BY <1>2, <1>5, <2>1, AppendIsConcat
<1>14. overrides' = AppendAudit(p, g)
  BY <1>5, <1>6
<1>. HIDE DEF g
<1>. QED
  BY <1>7, <1>10, <1>11, <1>12, <1>13, <1>14, WritesInv

\* A batch of splits follows the history, in the order in which it was asked for.
LEMMA SplitsInv ==
    ASSUME IdInv, NEW inputs \in Seq(SplitOperation), SaveSplits(inputs)
    PROVE  IdInv'
<1>. DEFINE o == Normalized(overrides)
            N == Len(history)
            m == Len(inputs)
            NewSplit(i) == [id |-> Id + i - 1, sequence |-> NextSequence(o) + i - 1, source |-> inputs[i].source,
                            addresses |-> inputs[i].addresses, target |-> inputs[i].target]
            splits == [i \in 1..m |-> NewSplit(i)]
            p == [o EXCEPT !.splits = @ \o splits]
            g == Keys("split", splits)
<1>1. o \in Overrides /\ Agrees(o, history)
  BY NormalizedAgrees
<1>2. history \in Seq(OperationKey) /\ KeysHold(history) /\ N \in Nat /\ Id = N + 1 /\ m \in Nat
  BY DEF IdInv, KeysHold, Id
<1>3. NextSequence(o) = N + 1
  BY <1>1, <1>2, NextOfNumbers
<1>4. ASSUME NEW i \in 1..m
      PROVE  NewSplit(i) \in Split /\ NewSplit(i).sequence = N + i /\ NewSplit(i).id = N + i
  <2>1. inputs[i] \in SplitOperation
    OBVIOUS
  <2>2. N + 1 + i - 1 = N + i /\ N + i \in Nat
    BY <1>2
  <2>3. /\ inputs[i].source \in DeviceId /\ inputs[i].addresses \in SUBSET Address
        /\ inputs[i].target \in DeviceId
    BY <2>1 DEF SplitOperation
  <2>. HIDE DEF o, N
  <2>. QED
    BY <1>2, <1>3, <2>2, <2>3 DEF Split
<1>5. overrides' = AppendAudit(p, g) /\ history' = history \o g
  BY Zenon DEF SaveSplits
<1>. HIDE DEF NewSplit, o, N, m
<1>6. splits \in Seq(Split) /\ Len(splits) = m /\ \A i \in 1..m : splits[i] = NewSplit(i)
  BY <1>2, <1>4
<1>7. g = [i \in 1..m |-> <<"split", N + i>>]
  <2>. HIDE DEF splits
  <2>. QED
    BY <1>4, <1>6 DEF Keys, Key
<1>8. g \in Seq(OperationKey) /\ Len(g) = m /\ \A i \in 1..m : g[i] = <<"split", N + i>> /\ g[i][2] = N + i
  <2>. HIDE DEF g
  <2>1. \A i \in 1..m : <<"split", N + i>> \in OperationKey
    BY <1>2 DEF OperationKey
  <2>2. g \in Seq(OperationKey) /\ Len(g) = m /\ \A i \in 1..m : g[i] = <<"split", N + i>>
    <3>. DEFINE K(i) == <<"split", N + i>>
    <3>1. g = [i \in 1..m |-> K(i)] /\ \A i \in 1..m : K(i) \in OperationKey
      BY <1>7, <2>1
    <3>. HIDE DEF K
    <3>2. g \in Seq(OperationKey) /\ Len(g) = m /\ \A i \in 1..m : g[i] = K(i)
      BY <1>2, <3>1
    <3>. QED
      BY <3>2 DEF K
  <2>3. ASSUME NEW i \in 1..m PROVE g[i][2] = N + i
    <3>1. g[i] = <<"split", N + i>>
      BY <2>2
    <3>. QED
      BY <3>1, PairAt
  <2>. QED
    BY <2>2, <2>3
<1>. HIDE DEF g, splits
<1>9. /\ o.merges \in Seq(Merge) /\ o.splits \in Seq(Split) /\ o.audit \in Seq(Seq(OperationKey))
      /\ p = [o EXCEPT !.splits = o.splits \o splits]
  BY <1>1 DEF Overrides
<1>10. /\ o.splits \o splits \in Seq(Split)
       /\ ToSet(o.splits \o splits) = ToSet(o.splits) \cup {NewSplit(i) : i \in 1..m}
  <2>1. ToSet(splits) = {NewSplit(i) : i \in 1..m}
    BY <1>6 DEF ToSet
  <2>2. ToSet(o.splits \o splits) = ToSet(o.splits) \cup ToSet(splits)
    BY <1>6, <1>9, Joined
  <2>. QED
    BY <1>6, <1>9, <2>1, <2>2
<1>11. p \in Overrides /\ p.splits = o.splits \o splits /\ p.merges = o.merges
  BY <1>1, <1>9, <1>10 DEF Overrides
<1>. HIDE DEF p
<1>12. Agrees(p, history \o g)
  <2>. DEFINE A == {}
              B == {NewSplit(i) : i \in 1..m}
  <2>1. ToSet(p.merges) = ToSet(o.merges) \cup A /\ ToSet(p.splits) = ToSet(o.splits) \cup B
    BY <1>10, <1>11
  <2>2. \A x \in A : \E i \in 1..Len(g) : x.sequence = Len(history) + i /\ g[i] = <<"merge", x.id>>
    OBVIOUS
  <2>3. \A x \in B : \E i \in 1..Len(g) : x.sequence = Len(history) + i /\ g[i] = <<"split", x.id>>
    BY <1>4, <1>8 DEF N
  <2>4. \A i \in 1..Len(g) : \E x \in A \cup B : x.sequence = Len(history) + i
    BY <1>4, <1>8 DEF N
  <2>. HIDE DEF A, B
  <2>. QED
    BY <1>1, <1>2, <1>8, <2>1, <2>2, <2>3, <2>4, AgreesAppended
<1>13. KeysHold(history \o g)
  <2>1. \A i \in 1..Len(g) : g[i][2] = Len(history) + i
    BY <1>8 DEF N
  <2>. QED
    BY <1>2, <1>8, <2>1, KeysAppended
<1>. QED
  BY <1>5, <1>8, <1>11, <1>12, <1>13, WritesInv

\* Whatever is recorded, what is shown of a snapshot is an inventory, and sound.
LEMMA ShownIsSound ==
    ASSUME IdInv
    PROVE  Projection \in Sound
<1>1. Normalized(overrides) \in Overrides /\ Agrees(Normalized(overrides), history)
  BY NormalizedAgrees
<1>2. history \in Seq(OperationKey) /\ ToSet(history) \subseteq Recorded(overrides) /\ overrides \in Overrides
  BY DEF IdInv, KeysHold
<1>3. Ordered(Normalized(overrides)) = history
  BY <1>1, <1>2, OrderOfNumbers
<1>4. Projection = FoldLeft(Apply, Raw, history)
  BY <1>3, Zenon DEF Projection
<1>. QED
  BY <1>2, <1>4, FoldKeepsSound

\* A recommended split is a batch of splits that may be recorded: its addresses, which
\* are read off what is shown, are addresses.
LEMMA RecommendedInv ==
    ASSUME IdInv, NEW d \in DeviceId, RecommendedSplit(d)
    PROVE  IdInv'
<1>. DEFINE own == AddressesOf(Projection, d)
            rest == own \ {Min(own)}
            leaving == InOrder(rest)
            inputs == [i \in 1..Len(leaving) |->
                          [source |-> d, addresses |-> {leaving[i]}, target |-> ManualId[leaving[i]]]]
<1>1. IsInventory(Projection)
  BY ShownIsSound, SoundIs
<1>2. rest \subseteq Address
  BY <1>1 DEF AddressesOf, IsInventory, IsTable
<1>3. rest \subseteq Nat /\ IsFiniteSet(rest)
  BY <1>2, IdentityAssumption, FS_Subset
<1>4. SaveSplits(inputs)
  BY Zenon DEF RecommendedSplit
<1>. HIDE DEF rest
<1>5. leaving \in Seq(rest) /\ Len(leaving) \in Nat /\ \A i \in 1..Len(leaving) : leaving[i] \in Address
  <2>1. leaving \in Seq(rest)
    BY <1>3, InOrderOfSet
  <2>. HIDE DEF leaving
  <2>. QED
    BY <1>2, <2>1
<1>. HIDE DEF leaving
<1>6. \A a \in Address : [source |-> d, addresses |-> {a}, target |-> ManualId[a]] \in SplitOperation
  BY IdentityAssumption DEF SplitOperation
<1>7. inputs \in Seq(SplitOperation)
  BY <1>5, <1>6
<1>. HIDE DEF inputs
<1>. QED
  BY <1>4, <1>7, SplitsInv

\* The history and the file agree, at each step: merges, splits, batches, recommended
\* splits and every other write of the file, for any files that older versions left.
THEOREM OperationsHold == CorrectionsSpec => []IdInv
<1>1. CorrectionsInit => IdInv
  <2>. SUFFICES ASSUME NEW start \in Legacy, overrides = start.overrides, history = start.history
                PROVE  IdInv
    BY DEF CorrectionsInit
  <2>. QED
    BY LegacyAssumption DEF IdInv, KeysHold
<1>2. IdInv /\ [CorrectionsNext]_correctionVars => IdInv'
  <2>. SUFFICES ASSUME IdInv, [CorrectionsNext]_correctionVars PROVE IdInv'
    OBVIOUS
  <2>1. ASSUME NEW input \in MergeInput, SaveMerge(input) PROVE IdInv'
    BY <2>1, IdentityAssumption, MergeInv
  <2>2. ASSUME NEW input \in SplitInput, SaveSplit(input) PROVE IdInv'
    <3>1. <<input>> \in Seq(SplitOperation)
      BY IdentityAssumption
    <3>. QED
      BY <2>2, <3>1, SplitsInv DEF SaveSplit
  <2>3. ASSUME NEW d \in DeviceId, RecommendedSplit(d) PROVE IdInv'
    BY <2>3, RecommendedInv
  <2>4. CASE SaveOther
    <3>1. overrides' = AppendAudit(Normalized(overrides), <<>>) /\ history' = history
      BY <2>4 DEF SaveOther
    <3>2. KeysHold(history) /\ <<>> \in Seq(OperationKey)
      BY DEF IdInv
    <3>. QED
      BY <3>1, <3>2, NormalizedAgrees, WritesInv
  <2>5. CASE UNCHANGED correctionVars
    BY <2>5 DEF IdInv, correctionVars
  <2>. QED
    BY <2>1, <2>2, <2>3, <2>4, <2>5 DEF CorrectionsNext
<1>. QED
  BY <1>1, <1>2, PTL DEF CorrectionsSpec

\* INV-16, orderedIdentityOperations after normalizeIdentityOperations: operations are applied
\* in the order in which they were recorded, whatever entries appendAudit has cut off the log.
THEOREM OrderHolds == CorrectionsSpec => []OrderIsKept
<1>1. IdInv => OrderIsKept
  BY DEF IdInv, OrderIsKept
<1>. QED
  BY <1>1, OperationsHold, PTL

\* INV-15, applyIdentityOperations: after any number of corrections, in any order, no
\* reference of the projection dangles.
THEOREM ShownHolds == CorrectionsSpec => []ProjectionHolds
<1>1. IdInv => ProjectionHolds
  BY ShownIsSound, SoundIs DEF ProjectionHolds
<1>. QED
  BY <1>1, OperationsHold, PTL

\* The file keeps its shape and the limit of its log, no two operations of it have the
\* same number, and what is shown of a snapshot is an inventory.
THEOREM TypesHold == CorrectionsSpec => []CorrectionsTypeOK
<1>1. IdInv => CorrectionsTypeOK
  BY ShownIsSound, SoundIs DEF IdInv, KeysHold, CorrectionsTypeOK
<1>. QED
  BY <1>1, OperationsHold, PTL
=============================================================================
