# Boushun in TLA+

Boushun (`src/`) maps a home network: a Node.js server that reads what its host knows,
probes the network when it is asked to, keeps snapshots of what it has seen in one JSON
file, and shows a current state composed of them. This directory has TLA+ models of its
core, TLC runs over small instances, and TLAPS proofs. `PROJECT.json` lists the runs, the
mutants that each property is known to catch, the source lines of every definition
(`map`), the hazards of the code, the findings and the theorems.

Paths below are relative to `src/src/`.

## The system

| Component | State | Operations | Talks to | Correct when |
|---|---|---|---|---|
| Scan manager (`scan/scan-manager.js`) | a map of jobs, each with status, progress, promise, abort controller | start, cancel, progress, settle, trim | server (calls), tasks (callbacks) | one scan at a time; a job that works is found by its id; final reports stay; a cancelled scan never ends as completed |
| JSON store (`store/json-store.js`) | the state file, its temporary file, backups, the write queue | read, some fifteen read-modify-write calls, import, reset, initialize | server, scheduler | calls take effect one by one, each wholly or not at all, through failures and crashes; a backup before each replacement, five kept |
| HTTP server (`server.js`) | `databaseMutationActive`, `databaseGeneration`; one continuation per request | scans, cancel, import, reset, edits, read-only views | all of them | what users asked of a database that was replaced does not change its successor, and of what the scheduler does no more than the successor's own schedule allows; scans and maintenance exclude each other and neither blocks the other for good |
| Service scheduler (`scan/service-scheduler.js`, `server.js`) | `running`; the runtime fields of schedules in the store | tick, manual run, edits of schedules | store, server, scan manager | no due time is served twice, none is retried at once, no status is left behind, ticks go on |
| Probes (`collectors/tcp-services.js`, `udp-services.js`, `pingSweep` in `linux.js`) | cursor, count, outcomes, `nextPermitAt` | workers, pacer, retry, abort | sockets, timers, ping commands | each target once; accurate progress; no probe after an abort; paced datagrams; all workers end |
| Observations and current state (`domain/observation.js`, `current-state.js`) | none: recomputed from the snapshots | checks, responses, composition | server | a response is current until a later check covers it; the newest facts stand |
| Inventory and identity (`domain/inventory.js`, `identity-operations.js`, store) | recorded merges and splits, audit log | building from facts, merge, split, recommended split, projection | server, store | the recorded order, whatever the log has lost; no dangling reference; no response without its address; a virtual address is nobody's |
| Scope of scans (`domain/ipv4.js`, `interface-policy.js`, candidates in `linux.js`) | none | ranges, policies of interfaces, candidates, targets | collectors, server | nothing is sent outside the allowed and private ranges, nor to the probe itself |
| Views (`domain/mac-timeline.js`, `service-observation.js`, `topology/build-topology.js`, `server.js`) | none | timelines, presence, comparison of service scans and of snapshots, maps | server, page | they agree with the history and with each other |
| Web application (`web/app.js`, `api-client.js`) | `state.epoch`, `scanning`, `scanJobId`, the payload, the MAC panel, buttons and overlay | some twenty handlers with requests, a timer | server (HTTP) | one poller; what is shown was asked for by what is selected, and not before a reset; scans come to an end on the page |
| Other collectors, layout, OUI | | | | not modelled, see below |

What is hard in it: everything runs in one JavaScript thread, so there are no data races,
but every `await` lets other handlers run. A value read before an `await` (settings, a
schedule, the generation) may be stale behind it; two calls of the store are not one; an
abort may arrive at any `await`; a promise that rejects leaves its siblings running; the
process may die between any two file-system calls; and histories are bounded, so what a
decision rests on may have been forgotten. The page is a second concurrent program: its
handlers overlap at their requests, which are answered in any order or not at all.

## How the modules model the code

An action is the code from one `await` to the next, with all the changes it makes there:
between two awaits nothing can come in between. Data are abstracted to what the
properties tell apart: the database is the sequence of calls it results from, a scan found
a port or did not, a schedule has a next time, an address is a number. Constants are
parameters with assumptions, in the module that declares them. The next-state relation of
`ProbePool` is `PoolNext` and that of `IdentityOperations` `CorrectionsNext`, since theorems
about them share a module with those about `ScanManager` and `JsonStore`.

| Module | Models | Correspondence |
|---|---|---|
| `ScanSlot` | abstract: what the scan manager promises | one holder, who was asked to stop, one final verdict |
| `ScanManager` | `ScanManager` | `Start` is `start()` with its `#trim`; `Begin` the microtask; `Progress`, `Cancel`, `Settle` the callbacks. `order` is the insertion order of the `Map` |
| `SerialStore` | abstract: what the store promises | calls take effect in the order they were made, or fail without an effect |
| `JsonStore` | `#enqueue`, `#readUnqueued`, `#write`, `#backup`, `read`, `initialize` | every file-system call that is awaited is a step of its own and may fail; `Crash` may come between any two |
| `BoushunServer` | handlers that scan or change the database, the tasks of scans, and the runs of a schedule by ticks | over the *abstract* `ScanSlot` and `SerialStore`, so that what it shows holds of any manager and store that implement them; `at` is the `await` a request is in, and `runtime` how far the run of a schedule has come with its two writes of the runtime. A tick (`TickReads`, `Announce`, `StartScheduled`) keeps its copy of the schedule while it waits, whatever happens to the database; a run on demand (`Arrive`, `RequestScan`) reads the schedule itself. A replacement leaves the schedule enabled, disabled or gone (`Left`): an import keeps the ids of its file |
| `ServiceScheduler` | `tick`, `#runOne`, manual runs, `PATCH` and `DELETE` of schedules, the runtime fields | `writes` is the queue of the store; a read waits for the writes called before it (`behind`); `due` and `patching` hold the copies that ticks, runs and patches have read; a tick takes its due schedules by their times, and those of the same time in any order |
| `ProbePool` | the worker loops of `collectTcpServices` and `pingSweep` | `ping` chooses between them: their loops differ in where they look at the signal and whether a probe may throw |
| `UdpProbes` | `collectUdpServices`, `createPacer`, `abortableDelay`, `probeUdp` | time in intervals of the pacer; timers are up to `Lateness` late |
| `IPv4` | `parseCIDR`, containment, `assertSafeScanCIDR`, `hostAddresses`, `resolveInterfacePolicy`, candidates (pure) | addresses are numbers of `Width` bits; `ShiftLeft` is the `<<` of that width |
| `Observations` | `observationChecks`, `currentResponses`, `composeCurrentSnapshot`, the devices of `assembleSnapshot` (pure) | a snapshot is what a scan has read and its checks; *facts* are what an inventory is made of |
| `BuildInventory` | `buildInventory` with the services of Kubernetes, `annotateObservations` (pure) | tables as functions, corrected by the operators of `Inventory` |
| `MacTimeline`, `Topology`, `ServerViews` | `buildTimelineFromHistory`; `buildLogical`, `buildServices`, `diffSnapshots`; presence, service observations, comparisons (pure) | each a function of the history or of facts and inventory |
| `CurrentState` | the scans of each profile, `saveSnapshot`'s retention | the state machine over the pure modules above: `snapshots`; every `Context` of settings and corrections is asked about in every state |
| `WebClient` | the handlers of `web/app.js` | a waiting handler is a call in the bag `calls`: where it waits, the epoch it captured, the reply. `epoch`, `scanning`, `scanJob`, `panel` are the fields of `state`; `shown` says from which database each part of the page is, and when it was asked for |
| `Inventory` | `applyMerges`, `applySplits` (pure) | tables of devices, interfaces and assignments as functions |
| `IdentityOperations` | `saveMerge`, `saveSplit`, `saveSplitBatch`, the recommended split, `orderedIdentityOperations` | `overrides` as stored; `Projection` applies the operations in order with `Inventory` |
| `Selection` | what the code does with lists everywhere: keep the entries of a kind, put numbers in order | `Kept` and `InOrder`, without recursion, so that they can be reasoned about |
| `ScanProofs`, `StoreProofs`, `SelectionProofs`, `BoushunServerProofs`, `ServiceSchedulerProofs`, `UdpProbesProofs`, `WebClientProofs`, `CurrentStateProofs` | theorems | `ScanProofs` is about `ScanManager` and `ProbePool`, `StoreProofs` about `JsonStore`, `Inventory` and `IdentityOperations`, the others each about the module of that name; see below |
| `MC...` | the instances for TLC | one per module that has runs |

Deliberate mergings. In `ServiceScheduler` the return of the read of `startServiceScan` and
the continuation behind it are one step, since nothing can change the *stored* schedule
between the end of a read and the code that uses it except another write, which the
scheduler's own re-read does not notice either way. A manual run starts when no write is
queued, with its two reads as one, and so does a `PATCH`, which changes one field of the
two that matter (enabled, interval) and writes both. In `BoushunServer` a `scheduled` request is one
run of one schedule, and what a tick writes once more after `completed` could not be written
is not a call of its own (it is in `ServiceScheduler`, `RecordsAsFailed`); that the other failed
writes of a tick kill the process is in `ServiceScheduler` only. In `WebClient` the three requests of a
load are one, and so are the request of a poll and the delay before it. In `CurrentState` a scan is one step: what happens
during it is the matter of the other modules. In `ProbePool` the end of one probe and the
start of the worker's next one are one step, as in the code.

Some variables are history, for properties only: `born` and `found` (server), `lastScan`,
`shortest` and `faults` (scheduler), `probed`, `sent`, `history`. `TypeOK` of the scan
manager is checked in its run; those of the other modules document their variables.

## What is checked

Every property of a passing run has a mutant (listed in `PROJECT.json`, defined next to the
operator it changes) that breaks it.

| Run | Question | Bounds, and why they are enough |
|---|---|---|
| `scan_manager` | Invariants, the fate of cancelled jobs, and refinement of `ScanSlot` | 4 jobs, a map of 2: `start()` trims twice, with every mix of finished and active jobs |
| `json_store` | Refinement of `SerialStore`, backups, reads, answers | an update, two replacements, a reader, one backup kept, one crash: pruning has something to prune, and a crash may leave a surplus |
| `server` | Staleness, mutual exclusion, what a verdict says of the database, cancellation before the save, no blocking | one request of each kind (a manual scan, a run of the schedule by a tick or on demand, an import or reset, an edit that enables the schedule): each pair meets at every await, an import that leaves the schedule enabled, disabled or gone meets the tick at each of its writes, and the manual scan may be the baseline which the run is compared with; 1.1 million states. `settings` and `born` are history: which import or reset had made the database that a scan's settings are from, and that a request arrived at |
| `scheduler` | Spacing, retries, left-over statuses, ticks that go on | two schedules with intervals 1 and 2, two ticks that may overlap, one manual run, time 0..1, and 2 events out of {run, patch, deletion, failed write, crash}, in any combination; 2 patches, so that one may write over the other, and an interval that may shrink from 2 to 1 while a tick or a patch holds the old one |
| `probe_pool` | Completeness, progress, abort, termination, for both pools | 5 targets, 3 workers: workers take more than one target, and end in any order |
| `udp_probes` | Pacing, totals, abort, termination | 3 addresses, 2 workers, one retry, timers one interval late |
| `current_state` | The last word on each endpoint, the probe, forgetting; the inventory, the timelines, presence, comparisons and maps; the scope of scans | any number of scans, 3 retained (states that differ by the ids of snapshots are one, `VIEW`); 16 addresses, /2 in the place of /24; 2 views between which the probe and a host exchange addresses and a node turns into a virtual address; 6 sweeps, 4 of them asking for ranges that are too large, public, single or not allowed; 4 scans for services; 3 contexts with merges, a split and interfaces that are hidden or do not identify |
| `identity` | Order and references under any sequence of three operations | 2 devices with 5 addresses, one of them only advertised; 2 more for splits; audit limit 2, so the log is cut; older files with a log and without |
| `web_client` | Overtaken answers, pollers, the MAC panel, the end of scans on the page | 2 hardware addresses, 2 files, one job, one replacement, one failed request, 3 handlers begun by the user or the timer, one of them while another waits: any two handlers meet at every answer, before, during and after a replacement |
| three `violation` runs | Findings, below | |

The properties, by hazard rather than by module:

* **Nothing stale.** `NothingStale`, `ActiveScanIsCurrent`: a manual scan or an edit that was
  asked of one database never changes the next one, and no snapshot is of a scan with the
  settings of another database than the one it is saved in. The generation is asserted
  after the body was read, after the settings were read and before the save. The schedule is
  the exception, and the property says how far it goes. A tick keeps copies of what is due
  (`service-scheduler.js:29`) and hands one to `startServiceScan` as its body; the writes of
  the runtime (`service-scheduler.js:40`, `48`, `51`; `server.js:430`, `437`) ask for no generation. So after
  an import with a schedule of the same id, which is how an import of the database's own
  backup looks, a tick may scan the range and ports of its *old* copy into the new database,
  and write its status there. It may not when the new database began without the schedule
  or, for the scan, has never had it enabled: in particular nothing crosses a reset (RST-04).
* **Exclusion.** `ImplementsScanSlot`, `UnsettledIsTracked`, `NoScanDuringMaintenance`: the
  slot is taken at `start()`, not when the task runs, and a cancelled job keeps it.
* **Atomicity of the store.** `ImplementsSerialStore` (no lost update, no torn file, nothing
  reported and lost), `ReadSeesEarlierWrites` (of the writes that were still queued when the
  read was called; those reported before are in the database it finds), `BackupBeforeReplace`, `BackupRetention`.
* **Abort at any await.** `CancelTakesEffect`, `CancelPreventsSave`, `StopsOnAbort`,
  `StopsSending`.
* **Once and only once.** `RunsAreSpaced`, `HandledIsNotDue`, `EachTargetOnce`.
* **Reports that are true.** `CompletedIsSaved`, `TerminalIsFrozen`, `RunningIsRunning`,
  `ProgressIsAccurate`, `TotalsAgree`, `HistoryIsNewest`.
* **What a bounded history still says.** `NewestOfEach` compares the incremental
  `currentResponses` with a reference definition; `OnlyChecksChange` says that forgetting
  a check does not bring back what it had removed; `OrderIsKept` does the same for the
  audit log.
* **References.** `ProjectionHolds`, for any sequence of operations on one inventory, and
  `InventoryHolds`, for the inventories of every history: no response is lost, and the
  virtual address of a service belongs to nobody and is advertised by whoever had it.
* **Views that agree.** `ViewsAgree` gathers what the documents say of the views: each
  hardware address has its timeline, without gaps, and its changes are differences to the
  last entry of the device (MTL); each response counts once in the presence (TOP-11); what is
  new or closed was not so in the scan it is compared with (TOP-08); a refresh that finds
  nothing new shows no difference (TOP-07); what answers is drawn where it is (TOP-03, 04).
* **Scope.** `TargetsInScope`: no sweep or probe leaves the allowed and private ranges, and
  what is offered is what a scan would accept. One mutant compares one end of a range only.
* **A page that tells the truth.** `OnePoller`, `OldAnswersStayOut`, `TimelineIsOfSelected`.
* **It ends.** `EveryCallAnswered`, `NothingBlocks`, `TickGivesWay`, `AllEnds`, `ScanEndsOnPage`.

### Fairness

Weak fairness only, of what the run time does by itself: a microtask that is queued runs;
a file-system call returns or fails; a timer that is due fires; a probe or a collector ends
(sockets, pings and commands have timeouts, and listen to the abort); a continuation whose
promise has settled runs. Nobody has to send a request, finish its body, cancel, or edit; a
tick need not be called; the process need not die. For the page: the server answers or the
request fails, jobs end, and handlers that follow a scan go on when they are answered;
loads, edits and timelines may wait for ever. `CHECK_DEADLOCK FALSE` stands in every
configuration since the bounded instances run out of requests, jobs or scans, which is not
a deadlock of the system; the liveness properties are about that instead.

The clock. `JsonStore` has the constant `MonotoneClock`. Backups are pruned by the time in
their names, and the run assumes that the wall clock is not set back; with `FALSE`, TLC
shows `BackupBeforeReplace` to fail: pruning then unlinks the backup just written.

## What is proved

TLAPS proves for every value of the constants what TLC checks on an instance: every
invariant and every action property of the runs of the scan manager, the store, the server,
the scheduler, both kinds of probes, the corrections and the page, both refinements, and of
the current state all but the agreement of the views. The assumptions on
constants are the named `ASSUME`s of the modules, and nothing else is assumed but where a
theorem says so (`BackupFirst`). The bounds of the runs (`MaxCrashes`, `MaxTime`, `MaxActions`
and the like) are constants as well, so that the theorems hold of any number of crashes,
ticks or clicks. Each inductive invariant was checked by TLC, on the instance of its run,
before it was proved.

`ScanProofs`, of the manager: type correctness, `OneTaskAtATime`, `UnsettledIsTracked`,
`TerminalIsFrozen`, `HistoryIsNewest`, and the refinement of `ScanSlot`. None of the invariants
is inductive alone: that a job cannot start beside another one rests on the map holding every
job that works (`start()` looks at nothing else), which rests on `#trim` dropping finished jobs
only, which rests on the status and the promise of a job moving together. `SlotInv` is the
conjunction: types, `Lockstep` of status and task, `Existence` (a job exists exactly if it
has a place in the order), `OneActive` (whoever works is in the map, and alone) and
`AbortRemembered`. It holds initially (`SlotInvInit`) and each action keeps it
(`SlotInvNext`, one step per action); everything else follows from it. The refinement maps
`Start` to `Admit`, `Cancel` to `Ask`, `Settle` to `Release`, the rest to stuttering. That the
history holds the newest needs `Newest`: the places in the order are 1 to the number of jobs
created, and the map holds the last of them, as many as there are up to the limit. The lemma
`TrimsOldest` says that a trim at the limit drops exactly one job, the oldest; that it is never
spared rests on `start()` being refused while a job is active.

`StoreProofs`, of the files: the refinement of `SerialStore`, `BackupRetention`, `BackupBeforeReplace` and
`ReadSeesEarlierWrites`, for any calls, readers and number of crashes. `QueueInv` carries all of
it: a call is in the queue exactly while its caller waits (`Queued`), only the first one has
begun (`OneAtWork`), so that what it works on is the database as it is and what it writes is the
database with the call (`OwnValue`), and the file itself is never torn (`WholeFile`). A call
is then applied in the abstract store when its rename has happened, and every other step but
calls, reports and crashes stutters. For the backups, `Retained`: what pruning means to leave
are at most `Keep`, whatever interrupted replacements had left before. `BackedUp`: the backup
of the replacement at work is the newest, which is why pruning spares it; the theorem
`BackupFirst` has `MonotoneClock` as its hypothesis, and is false without it. For reads,
`EffectsKept`: the value of a call that was reported stays visible in the database, or behind a
replacement that came later, because no value has a call in it that has not landed yet.

`BoushunServerProofs`: type correctness, `NoScanDuringMaintenance`, `ActiveScanIsCurrent`,
`NothingStale`, `CompletedIsSaved` and `CancelPreventsSave`, for any number of scans, edits,
ticks and replacements. That what is saved belongs
to the database it is saved in is not inductive: the handler asserts its generation when it
*calls* the store, and the call takes effect later. What makes it true is that nothing can
come between: a replacement is called during maintenance only, which no scan may hold the
slot for (`SlotHeld`), and nothing but writes of the runtime is called behind one
(`RuntimeBehind`), since everybody else who would is refused or finds another generation.
Those writes find the schedule in the database that the replacement has left, or have no
effect (`Written`); what there is of runs in a database is of its own schedule (`OfSchedule`),
since a scan starts only when the settings it has just read, of this database, had the
schedule enabled (`BeganWith`, `StillHad`), and one that is gone does not come back. `Fresh` ties the two kinds of identity
together: a captured generation that is the one of today stands for the database of today,
except in the `Window` between the write of a replacement and its report, and then nobody
calls. `Called` and `Stamped` carry this from the call to its effect. `ServerInv` is the
conjunction of these with types, `OnlyScheduled` and `NoneAhead`. Assumptions: the kinds of
requests are disjoint, `None` is no scan, and snapshots are retained at all.

That a completed scan has notified its new port needs `SaveInv` on top. The task compares the
history it has *read*, and the property speaks of the database at any later time. The lemmas
`LaterSnapshots` and `LaterFinding` bridge this: a call that takes effect in between, or a scan
that finds something and is not saved yet, never turns an old port of a saved scan into a new
one, since the snapshot that it is compared with stays the same or is dropped from the
retained ones, and then there is nothing to compare with (`HistoryHolds`, `NewPortNotified`). The
store must not report a call twice for that (`Queue`), nor apply a save behind its report
(`SavedFirst`).

`ServiceSchedulerProofs`: `HandledIsNotDue`, `RunsAreSpaced` and `RunningIsRunning`, for any
schedules, intervals, ticks, manual runs and patches. A tick serves a schedule only after its
announcement was written; the question is what can set an earlier time behind it. No second
tick is at work (`OneTick`), a run has one write in the queue at most (`Awaited`), what a tick or
a patch has copied is no shorter than the shortest interval there was (`Copied`), and so no
write behind an announcement sets a time that was served (`Handled`); the write that a tick
repeats as `failed` (`RetryStep`) sets none. `Spaced` carries it from
one scan to the next: the stored time, the queued ones and those that a tick means to serve
are all an interval after the last scan. Nothing of this is lost when the process dies, since
the database says it alone. `RunningIsRunning` is the invariant `Owned`: without failed writes
and crashes, a schedule that shows "running" is the one that some run works on.

`ScanProofs`, of the pool: `EachTargetOnce`, `ProgressIsAccurate` and `StopsOnAbort`, for any number
of targets and workers and for both pools. `PoolInv` says that what lies behind the cursor
was not touched and nothing was probed twice (`Untouched`); that a worker that probes has its
target for itself, without an outcome yet (`OwnTarget`); that as long as no worker has
thrown, every target up to the cursor has its outcome or is being probed, and a worker ends
only when the cursor is at the last target (`Complete`); and that the count is the
cardinality of the targets with an outcome.

`UdpProbesProofs`: type correctness, `PacedUpToLateness`, `TotalsAgree` and `StopsSending`, for any
number of addresses, ports and workers and timers that are late by any bound. The pace is a
counting argument. `Permits` says that the datagrams can be given intervals of the pacer, no
two the same, each sent in its interval or at most `Lateness` behind: an existential over
assignments, since datagrams leave in another order than their permits were given. From
the i-th to the j-th datagram these are j - i + 1 different numbers in a stretch of known
length. The totals: an address belongs to one worker, which goes through its ports in order
(`Shares`), and what was sent is what the endpoints with an outcome have cost, plus what is on
the way (`Counted`).

`StoreProofs`, of the corrections: `OrderIsKept` and `ProjectionHolds`, for any inventory, older
files, limit of the log and number of operations. A merge and a split, of any sources,
addresses and targets, make an inventory of any inventory (`MergeKeepsTables`,
`SplitKeepsTables`) and keep `ReferencesHold` (`MergeKeepsReferences`, `SplitKeepsReferences`);
`FoldKeepsSound` chains them over any sequence of operations. The order needs `IdInv`: the
history names every recorded operation once, and the order that the file gives is the
history. The lemma `Agrees` is the heart of it: after a read each operation has the number
of its place, so that the numbers given next come last, and the log does not matter any more
and may lose what it likes. `LegacyAssumption` says of files of older versions that what they
stand for is the order which the first read gives them; nothing else could tell.

`SelectionProofs`: what the provers need to know of sequences. The library's induction theorems
take operators as parameters and cannot be used, so induction is made of the least element
of a set of numbers (`Least`, `Induction`, from the library's well-founded relations), for sets
in the place of predicates. `FoldExists` gives the states that a fold goes through, `Kept`
and `InOrder` their elements and order (`KeptElements`, `InOrderOfSet`), and `Flattened` and
`Places` say where in a flattened list an entry of one of its parts is.

`CurrentStateProofs`: `NewestOfEach`, `OnlyChecksChange`, `InventoryHolds` and `TargetsInScope`, for
any views, scans, settings, corrections, limits of the history and widths of addresses. All rest on `HistoryInv`: snapshots
are typed and no two have one id (the id chosen for a new one exists, by counting).
*Scope:* a mask gives each range the size of its prefix and lets it begin at a multiple of
that size (`HostMaskIsSize`, `Block`), so of two ranges one is inside the other or they are
disjoint (`Nested`), which is why looking at the two ends of a range is enough. The laws of
powers of two are part of `IPv4Assumption`, since the provers know none; that no private range
is smaller than the smallest scan is so in the code (/8 to /16, and /24). *Responses:*
`CurrentRuns` makes the incremental computation a function of the number of checks, of
which `LastWord` is shown by induction; when the history moves on, its oldest checks go,
and those that are left keep their order. *The probe:* older devices are merged into those
of the newest snapshot one after the other, and none of these steps moves or changes the
entry of the probe (`EnrichKeepsOwn`), since no neighbor has its id. *Inventories:* each
pass of `buildInventory` has what it keeps as its lemma. While responses and nodes are added,
the list of devices goes on and nobody who is in it loses its place, its interface or an
address (`GoesOn`), so the device that has the address of a response is either left by the
settings or one of those that were excluded (`AnswersAreOwned`); here the probe matters, whose
raw addresses are taken back and given again with its interfaces (`ProbeIsAtHome`).
`TablesAreSound` shows that the first tables refer to what is there, `KubernetesIsApplied` and
`ServiceIsApplied` that the next passes keep that, and that an open endpoint finds an interface
of the device it is put on (`Ready`). From then on addresses stay assigned, and virtual ones
stay nobody's, advertised or not (`Keeps`), through any sequence of merges and splits.
`NameAssumption` (no interface without a name) is what makes a device that was seen on no
interface one that the settings cannot exclude; `DeviceIdAssumption` says that the ids which
the code makes of addresses and names are ids.

`WebClientProofs`: `OnePoller`, `OldAnswersStayOut` and `TimelineIsOfSelected`, for any hardware
addresses, files, jobs and number of handlers that wait. `Captured`: no call was sent before
the epoch it captured, nor is it of an epoch to come, so that an answer that is applied, which
has captured the epoch of today, was sent in it. `Followed`: the calls that take part in a scan
are one while the page is scanning and none otherwise, with the job and the epoch of the page.
Handlers that wait are a bag, so the lemmas `Added` and `Removed` say what a handler that begins,
goes on or ends does to it.

Left to TLC: liveness under fairness, for which the provers have no rules; and of the current
state `ViewsAgree`: timelines, presence, comparisons and maps are passes of their own over the
inventories of all snapshots, and each would need lemmas like those of `buildInventory`.

## Findings

Each is a run that TLC must find violated; the quotations are in `PROJECT.json`.

1. `probe_pool_stragglers`: when one ping cannot be run, the scan fails at once and frees the
   slot, while the other workers go on to ping the rest of the network, beside the next scan.
2. `identity_interfaces`: split, merge back, split again: the split-off device is left on an
   interface that belongs to the other one, because an interface of that id is there already.
3. `web_loading`: a load that fails, or is overtaken by the end of a scan, while the page
   follows that scan leaves its overlay on the page when nothing is waited for any more.

Behaviours met on the way that no run asks about, since no document says clearly what
should happen, or since they are of little consequence:

* a scan cancelled after its save is shown as cancelled with its results saved, and loses
  its notifications (`server.js:114`, `116`);
* a manual run that is cancelled is recorded as `cancelled` (`server.js:438`), which the store
  reads back as no status (`json-store.js:463`);
* two `PATCH`es of one schedule at once: the second restores what the first has changed;
* a merge into a device that is not among its sources makes that device forget its own
  addresses (`inventory.js:476`);
* after an import, a tick may scan with its copy of a schedule of the database before, and the
  status of its run is written to the imported schedule of that id
  (`service-scheduler.js:32`, `json-store.js:222`, `452`);
* after addresses were leased anew, those that older snapshots list stay with their former
  owner (`current-state.js:153`); which of two devices has an address of the probe may then
  change with a refresh, and the comparison shows it (`RefreshKeeps` says when not); and a
  device may count as observed in the current state without a response of its own in any
  single snapshot (`server.js:842`);
* on the page: an answer read between the click on Reset and the replacement of the
  database passes the test of the epoch (DB-14) and is shown until the next load; the MAC
  panel may say that it loads when a timeline was overtaken by typing another address
  (`app.js:1667`); the bar of a scan may reappear when the answer to Cancel is late
  (`app.js:1976`);
* a limit of datagrams per second is met only when timers are punctual
  (`PacedUpToLateness` says what is met otherwise).

## Not modelled

* Parsing and formatting: what `ip`, mDNS, SNMP, Kubernetes and controllers print; CSV and
  SVG exports; validation messages. Pure I/O or wording.
* Layout, viewport and rendering, the physical view and the links that users draw: geometry
  and display.
* The fields of an inventory that do not refer to anything: names, roles, confidence,
  issues, evidence, SNMP facts; the health of sources.
* The sanitisers and limits of the store, and the validation of an import.
* The request boundary (origins, tokens, sizes), and the static demo of the page.

## Plan

Done, in this order: `ScanSlot`, `ScanManager` and its proofs; `SerialStore`, `JsonStore`;
`BoushunServer` over both; `ServiceScheduler`; `ProbePool`, `UdpProbes`; `Inventory`,
`IdentityOperations` and the proofs about the former; `IPv4`, `Observations`,
`BuildInventory`, `MacTimeline`, `Topology`, `ServerViews` and `CurrentState` over them;
`WebClient`; `PATCH` in `ServiceScheduler`; the proofs about `BoushunServer`, `ProbePool` and
the tables of `Inventory`; the proofs about `JsonStore`, `ServiceScheduler`, `UdpProbes` and
`WebClient`, and the rest of those about `ScanManager` and `BoushunServer`; `Selection`, and the
proofs about corrections, about the current state and about the inventories made of it.

Next:

1. Proofs: the views that are made of the current state (`ViewsAgree`).
2. Models: the limits of the store and the normalisation of an import (sanitizers as
   operators on small records); the health of sources; a physical view.
