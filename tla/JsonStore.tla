----------------------------- MODULE JsonStore -----------------------------
(***************************************************************************)
(* src/src/store/json-store.js: the database in one JSON file.             *)
(*                                                                         *)
(* Calls that write are chained on one promise, writeQueue.  Each of them  *)
(* reads state.json, changes the value in memory and writes it back: to a  *)
(* temporary file first, which is then renamed.  Import and reset write a  *)
(* backup beside the file before.  Every file-system call is an await: an  *)
(* action is one of them, other callers, a failure of the call or a crash  *)
(* of the process may come between any two.                                *)
(*                                                                         *)
(* A database value is the sequence of the calls it results from: an       *)
(* update appends itself, a replacement starts afresh.                     *)
(***************************************************************************)
EXTENDS Integers, Sequences, FiniteSets, SequencesExt

CONSTANTS Update,       \* calls that change part of the database
          Replace,      \* importDatabase and resetDatabase
          Reader,       \* callers of read()
          Absent,       \* there is no such file
          Partial,      \* a file whose content is not written completely
          Keep,         \* MAX_DATABASE_BACKUPS, 5 in the code
          MaxCrashes,   \* bound: how often the process dies
          MonotoneClock \* whether the wall clock only goes forward

ASSUME StoreAssumption ==
    /\ Update \cap Replace = {}
    /\ Keep \in Nat \ {0}
    /\ MaxCrashes \in Nat
    /\ MonotoneClock \in BOOLEAN

Op == Update \cup Replace
Files == {Absent, Partial}
ASSUME FilesAssumption == Absent # Partial /\ Absent \notin Seq(Op) /\ Partial \notin Seq(Op)

VARIABLES process,  \* "down", initialize() at work ("booting", "seeding"), or "up"
          disk,     \* state.json
          tmp,      \* state.json.<pid>.tmp
          backups,  \* the state.backup.*.json files
          writeQueue, \* the calls not reported yet, in the order they were made
          step,     \* the file-system call every call is in
          state,    \* the database value every call works on
          doomed,   \* the backups the pruning call still has to unlink
          outcome,  \* what every call was told
          reads,    \* the calls of read()
          clock,    \* the wall clock
          crashes

vars == <<process, disk, tmp, backups, writeQueue, step, state, doomed, outcome, reads,
          clock, crashes>>

Steps == {"idle", "queued", "reading", "backup", "publish", "list", "prune", "writing",
          "renaming", "written", "rejected"}
Backup == [at : Nat, of : Replace, content : Seq(Op) \cup Files]

TypeOK ==
    /\ process \in {"down", "booting", "seeding", "up"}
    /\ disk \in Seq(Op) \cup Files
    /\ tmp \in Seq(Op) \cup Files
    /\ backups \subseteq Backup
    /\ writeQueue \in Seq(Op)
    /\ step \in [Op -> Steps]
    /\ state \in [Op -> Seq(Op)]
    /\ doomed \subseteq Backup
    /\ outcome \in [Op -> {"none", "pending", "done", "failed", "lost"}]
    /\ reads \in [Reader -> [at : {"idle", "waiting", "failed", "lost"},
                             after : SUBSET Op, value : Seq(Op)]
                       \cup [at : {"done"}, after : SUBSET Op, value : Seq(Op) \cup Files]]
    /\ clock \in Nat
    /\ crashes \in 0..MaxCrashes

Init == /\ process = "down"
        /\ disk = Absent
        /\ tmp = Absent
        /\ backups = {}
        /\ writeQueue = <<>>
        /\ step = [o \in Op |-> "idle"]
        /\ state = [o \in Op |-> <<>>]
        /\ doomed = {}
        /\ outcome = [o \in Op |-> "none"]
        /\ reads = [r \in Reader |-> [at |-> "idle", after |-> {}, value |-> <<>>]]
        /\ clock \in IF MonotoneClock THEN {0} ELSE 0..Cardinality(Replace)
        /\ crashes = 0

\* What readFile and JSON.parse make of the file f; a missing one is the fresh state.
Content(f) == IF f = Absent THEN <<>> ELSE f

-----------------------------------------------------------------------------
\* initialize(): an existing file is kept as it is, a missing one is written.
Boot ==
    /\ process = "down"
    /\ IF disk = Absent
       THEN process' = "booting" /\ tmp' = Partial
       ELSE process' = "up" /\ tmp' = tmp
    /\ UNCHANGED <<disk, backups, writeQueue, step, state, doomed, outcome, reads, clock, crashes>>

SeedWritten ==
    /\ process = "booting"
    /\ process' = "seeding"
    /\ tmp' = <<>>
    /\ UNCHANGED <<disk, backups, writeQueue, step, state, doomed, outcome, reads, clock, crashes>>

SeedRenamed ==
    /\ process = "seeding"
    /\ process' = "up"
    /\ disk' = tmp
    /\ tmp' = Absent
    /\ UNCHANGED <<backups, writeQueue, step, state, doomed, outcome, reads, clock, crashes>>
-----------------------------------------------------------------------------
\* #enqueue: the call is chained on writeQueue.
Enqueue(o) ==
    /\ process = "up"
    /\ outcome[o] = "none"
    /\ outcome' = [outcome EXCEPT ![o] = "pending"]
    /\ writeQueue' = Append(writeQueue, o)
    /\ step' = [step EXCEPT ![o] = "queued"]
    /\ UNCHANGED <<process, disk, tmp, backups, state, doomed, reads, clock, crashes>>

\* Mutant: a call does not wait for the one before it.
BeginAtOnce(o) ==
    /\ step[o] = "queued"
    /\ step' = [step EXCEPT ![o] = "reading"]
    /\ UNCHANGED <<process, disk, tmp, backups, writeQueue, state, doomed, outcome, reads, clock, crashes>>

\* The promise before it has settled, one way or the other: the call starts to read.
Begin(o) ==
    /\ step[o] = "queued"
    /\ o = Head(writeQueue)
    /\ step' = [step EXCEPT ![o] = "reading"]
    /\ UNCHANGED <<process, disk, tmp, backups, writeQueue, state, doomed, outcome, reads, clock, crashes>>

\* An update changes the value it has read and starts to write it.
ReadForUpdate(o) ==
    /\ step[o] = "reading"
    /\ o \in Update
    /\ state' = [state EXCEPT ![o] = Append(Content(disk), o)]
    /\ step' = [step EXCEPT ![o] = "writing"]
    /\ tmp' = Partial
    /\ UNCHANGED <<process, disk, backups, writeQueue, doomed, outcome, reads, clock, crashes>>

\* An update that changes nothing returns without a write: a schedule that is gone,
\* notifications that are all known already.
ReadForNothing(o) ==
    /\ step[o] = "reading"
    /\ o \in Update
    /\ step' = [step EXCEPT ![o] = "written"]
    /\ UNCHANGED <<process, disk, tmp, backups, writeQueue, state, doomed, outcome, reads, clock, crashes>>

\* Mutant: a replacement without a backup.
ReadAndReplace(o) ==
    /\ step[o] = "reading"
    /\ o \in Replace
    /\ state' = [state EXCEPT ![o] = Content(disk)]
    /\ step' = [step EXCEPT ![o] = "prune"]
    /\ UNCHANGED <<process, disk, tmp, backups, writeQueue, doomed, outcome, reads, clock, crashes>>

\* Import and reset take the value they have read to the backup; its name has the time.
ReadForReplace(o) ==
    /\ step[o] = "reading"
    /\ o \in Replace
    /\ state' = [state EXCEPT ![o] = Content(disk)]
    /\ step' = [step EXCEPT ![o] = "backup"]
    /\ clock' \in IF MonotoneClock THEN {clock + 1} ELSE 0..Cardinality(Replace)
    /\ UNCHANGED <<process, disk, tmp, backups, writeQueue, doomed, outcome, reads, crashes>>

\* The backup is complete in its temporary file ...
BackupWritten(o) ==
    /\ step[o] = "backup"
    /\ step' = [step EXCEPT ![o] = "publish"]
    /\ UNCHANGED <<process, disk, tmp, backups, writeQueue, state, doomed, outcome, reads, clock, crashes>>

\* ... and gets its name.
BackupRenamed(o) ==
    /\ step[o] = "publish"
    /\ backups' = backups \cup {[at |-> clock, of |-> o, content |-> state[o]]}
    /\ step' = [step EXCEPT ![o] = "list"]
    /\ UNCHANGED <<process, disk, tmp, writeQueue, state, doomed, outcome, reads, clock, crashes>>

\* Mutant: one backup too many is kept.
ListBackupsKeepingMore(o) ==
    /\ step[o] = "list"
    /\ \E kept \in SUBSET backups :
          /\ Cardinality(kept) = Min({Cardinality(backups), Keep + 1})
          /\ \A k \in kept, e \in backups \ kept : k.at >= e.at
          /\ doomed' = backups \ kept
    /\ step' = [step EXCEPT ![o] = "prune"]
    /\ UNCHANGED <<process, disk, tmp, backups, writeQueue, state, outcome, reads, clock, crashes>>

\* The names are sorted, latest time first; names with the same time differ in the
\* operation and a random part.  All but the first Keep expire.
ListBackups(o) ==
    /\ step[o] = "list"
    /\ \E kept \in SUBSET backups :
          /\ Cardinality(kept) = Min({Cardinality(backups), Keep})
          /\ \A k \in kept, e \in backups \ kept : k.at >= e.at
          /\ doomed' = backups \ kept
    /\ step' = [step EXCEPT ![o] = "prune"]
    /\ UNCHANGED <<process, disk, tmp, backups, writeQueue, state, outcome, reads, clock, crashes>>

Unlink(o) ==
    /\ step[o] = "prune"
    /\ \E b \in doomed : /\ \A e \in doomed : b.at >= e.at
                         /\ backups' = backups \ {b}
                         /\ doomed' = doomed \ {b}
    /\ UNCHANGED <<process, disk, tmp, writeQueue, step, state, outcome, reads, clock, crashes>>

\* With the old backups gone, import and reset start to write their own value.
WriteReplacement(o) ==
    /\ step[o] = "prune"
    /\ doomed = {}
    /\ state' = [state EXCEPT ![o] = <<o>>]
    /\ step' = [step EXCEPT ![o] = "writing"]
    /\ tmp' = Partial
    /\ UNCHANGED <<process, disk, backups, writeQueue, doomed, outcome, reads, clock, crashes>>

WriteDone(o) ==
    /\ step[o] = "writing"
    /\ tmp' = state[o]
    /\ step' = [step EXCEPT ![o] = "renaming"]
    /\ UNCHANGED <<process, disk, backups, writeQueue, state, doomed, outcome, reads, clock, crashes>>

Rename(o) ==
    /\ step[o] = "renaming"
    /\ disk' = tmp
    /\ tmp' = Absent
    /\ step' = [step EXCEPT ![o] = "written"]
    /\ UNCHANGED <<process, backups, writeQueue, state, doomed, outcome, reads, clock, crashes>>

\* The file-system call o is in fails, or what o was given is not valid: o rejects.
Fail(o) ==
    /\ step[o] \in {"reading", "backup", "publish", "list", "prune", "writing", "renaming"}
    /\ step' = [step EXCEPT ![o] = "rejected"]
    /\ doomed' = {}
    /\ UNCHANGED <<process, disk, tmp, backups, writeQueue, state, outcome, reads, clock, crashes>>

\* Mutant: the queue goes on only behind a call that succeeded.
SettleIfWritten(o) ==
    /\ step[o] = "written"
    /\ outcome' = [outcome EXCEPT ![o] = "done"]
    /\ step' = [step EXCEPT ![o] = "idle"]
    /\ writeQueue' = Tail(writeQueue)
    /\ UNCHANGED <<process, disk, tmp, backups, state, doomed, reads, clock, crashes>>

\* The caller is told, and the promise of the queue settles.
Settle(o) ==
    /\ step[o] \in {"written", "rejected"}
    /\ outcome' = [outcome EXCEPT ![o] = IF step[o] = "written" THEN "done" ELSE "failed"]
    /\ step' = [step EXCEPT ![o] = "idle"]
    /\ writeQueue' = Tail(writeQueue)
    /\ UNCHANGED <<process, disk, tmp, backups, state, doomed, reads, clock, crashes>>
-----------------------------------------------------------------------------
\* read() waits for the queue as it is when it is called ...
Read(r) ==
    /\ process = "up"
    /\ reads[r].at = "idle"
    /\ reads' = [reads EXCEPT ![r].at = "waiting", ![r].after = ToSet(writeQueue)]
    /\ UNCHANGED <<process, disk, tmp, backups, writeQueue, step, state, doomed, outcome, clock, crashes>>

\* Mutant: the file is read without waiting.
ReadDoneAtOnce(r) ==
    /\ reads[r].at = "waiting"
    /\ reads' = [reads EXCEPT ![r].at = "done", ![r].value = Content(disk)]
    /\ UNCHANGED <<process, disk, tmp, backups, writeQueue, step, state, doomed, outcome, clock, crashes>>

\* ... and reads the file then, whatever has been queued since.
ReadDone(r) ==
    /\ reads[r].at = "waiting"
    /\ reads[r].after \cap ToSet(writeQueue) = {}
    /\ reads' = [reads EXCEPT ![r].at = "done", ![r].value = Content(disk)]
    /\ UNCHANGED <<process, disk, tmp, backups, writeQueue, step, state, doomed, outcome, clock, crashes>>

ReadFails(r) ==
    /\ reads[r].at = "waiting"
    /\ reads[r].after \cap ToSet(writeQueue) = {}
    /\ reads' = [reads EXCEPT ![r].at = "failed"]
    /\ UNCHANGED <<process, disk, tmp, backups, writeQueue, step, state, doomed, outcome, clock, crashes>>

\* The process dies: the files stay, everything in memory is gone.
Crash ==
    /\ process # "down"
    /\ crashes < MaxCrashes
    /\ crashes' = crashes + 1
    /\ process' = "down"
    /\ writeQueue' = <<>>
    /\ step' = [o \in Op |-> "idle"]
    /\ doomed' = {}
    /\ outcome' = [o \in Op |-> IF outcome[o] = "pending" THEN "lost" ELSE outcome[o]]
    /\ reads' = [r \in Reader |-> IF reads[r].at = "waiting"
                                  THEN [reads[r] EXCEPT !.at = "lost"] ELSE reads[r]]
    /\ UNCHANGED <<disk, tmp, backups, state, clock>>

\* One call moves on: it starts, or the file-system call it is in returns or fails.
Proceed(o) ==
    \/ Begin(o)
    \/ ReadForUpdate(o) \/ ReadForNothing(o) \/ ReadForReplace(o)
    \/ BackupWritten(o) \/ BackupRenamed(o) \/ ListBackups(o) \/ Unlink(o)
    \/ WriteReplacement(o) \/ WriteDone(o) \/ Rename(o)
    \/ Fail(o)
    \/ Settle(o)

Next == \/ Boot \/ SeedWritten \/ SeedRenamed
        \/ \E o \in Op : Enqueue(o) \/ Proceed(o)
        \/ \E r \in Reader : Read(r) \/ ReadDone(r) \/ ReadFails(r)
        \/ Crash

\* Every file-system call returns in the end, with or without an error.
Fairness == /\ \A o \in Op : WF_vars(Proceed(o))
            /\ \A r \in Reader : WF_vars(ReadDone(r) \/ ReadFails(r))

Spec == Init /\ [][Next]_vars /\ Fairness
-----------------------------------------------------------------------------
\* The files implement the serial store: reads and writes of two calls never overlap
\* (no lost update), a failure or a crash leaves the database as it was before or as
\* it is after the call, and what was reported done survives: a write that was cut short
\* is only ever in the temporary file.
Serial == INSTANCE SerialStore
            WITH db <- Content(disk),
                 pending <- writeQueue,
                 applied <- \E o \in Op : step[o] = "written"
ImplementsSerialStore == Serial!Spec

\* DB-11: at the moment the database is replaced, a complete backup of exactly what is
\* being replaced is there.
BackupAtReplacement ==
    \A o \in Replace : step[o] = "renaming" /\ disk' # disk =>
        \E b \in backups : b.of = o /\ b.content = Content(disk)
BackupBeforeReplace == [][BackupAtReplacement]_vars

\* DB-13: a replacement that is reported done leaves no more than Keep backups, also
\* when earlier ones were interrupted between writing their backup and pruning.
RetentionAtReport ==
    \A o \in Replace : outcome[o] = "pending" /\ outcome'[o] = "done" =>
        Cardinality(backups') <= Keep
BackupRetention == [][RetentionAtReport]_vars

\* A read sees the writes that were queued when it was called and are reported done: its
\* value extends what the call wrote, or starts from a replacement that came later.  (What
\* was reported before the read was called is in the database it then finds: see
\* ImplementsSerialStore.)
ReadSeesEarlierWrites ==
    \A r \in Reader : reads[r].at = "done" =>
        \A o \in reads[r].after : outcome[o] = "done" /\ state[o] # <<>> =>
            \/ IsPrefix(state[o], reads[r].value)
            \/ \E later \in Replace \ ToSet(state[o]) : IsPrefix(<<later>>, reads[r].value)

\* Every call is answered unless the process dies first: one that failed does not
\* block the ones behind it.
EveryCallAnswered == /\ \A o \in Op : outcome[o] = "pending" ~> outcome[o] # "pending"
                     /\ \A r \in Reader : reads[r].at = "waiting" ~> reads[r].at # "waiting"
=============================================================================
