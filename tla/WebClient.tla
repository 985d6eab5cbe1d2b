----------------------------- MODULE WebClient -----------------------------
(***************************************************************************)
(* The page of web/app.js over the live runtime of web/api-client.js: the  *)
(* handlers of its buttons and of its timer, broken at every await of an   *)
(* answer, and what they leave on the page.                                *)
(*                                                                         *)
(* A handler that waits is a call: where it waits, the epoch it captured,  *)
(* the epoch its request was sent in, the functions that await it, and the *)
(* reply.  The server answers calls in any order and the page goes on with *)
(* the answered ones in any order.  Of an answer counts which database it  *)
(* was read from (its generation), the active job and the hardware         *)
(* addresses with a history.  The three requests of a load are read as     *)
(* one: nothing below compares them with each other.                       *)
(***************************************************************************)
EXTENDS Integers, FiniteSets, FiniteSetsExt, Bags

CONSTANTS Mac,              \* hardware addresses a timeline may be asked for
          File, ValidFile,  \* the files a user may pick, and those that hold a database
          MaxScans,         \* bound: jobs that are ever started; beyond it a start is refused
          MaxReplacements,  \* bound: imports and resets that the user begins
          MaxActions,       \* bound: handlers that the user or the timer starts
          MaxWaiting,       \* bound: calls that wait when a handler is started
          MaxFailures       \* bound: requests whose answer is an error or is lost

None == "none"

ASSUME WebClientAssumption ==
    /\ None \notin Mac /\ None \notin File /\ ValidFile \subseteq File
    /\ {MaxScans, MaxReplacements, MaxActions, MaxWaiting, MaxFailures} \subseteq Nat

VARIABLES generation, \* of the server's database
          macs,       \* that its history knows
          jobs,       \* the status of every job
          epoch,      \* state.epoch: imports and resets begun on this page
          shown,      \* of every part of the page: from which database, sent in which epoch
          scanning,   \* state.scanning
          scanJob,    \* state.scanJobId, 0 for null
          bar,        \* state.activeJob: the scan status is on the page
          overlay,    \* the loading overlay is visible
          buttons,    \* are Import and Reset enabled
          pending,    \* state.pendingDatabaseImport
          panel,      \* the MAC timeline view
          calls,      \* the bag of the calls that wait
          booted,     \* the first load has returned, the timer runs
          left,       \* handlers that may still be started
          failures    \* requests that may still fail

server == <<generation, macs, jobs>>
page == <<epoch, shown, scanning, scanJob, bar, overlay, buttons, pending, panel, booted>>
vars == <<server, page, calls, left, failures>>

Loads == {"state", "automation", "database"}           \* what a load brings
Part == Loads \cup {"comparison", "index", "timeline"}
Nothing == [generation |-> 0, sent |-> 0]
Loaded == shown["state"] # Nothing

At == {"loading", "fetching", "refreshing", "reading", "indexing", "tracing", "polling", "starting",
       "launching", "replacing", "cancelling", "editing", "scheduling", "previewing"}
Sent == [state |-> "sent", generation |-> 0, job |-> 0, status |-> None, macs |-> {}]

\* A call that captures the epoch e, asks at once and is awaited by outer.
Ask(at, e, arg, outer) ==
    [at |-> at, epoch |-> e, sent |-> e, arg |-> arg, outer |-> outer, reply |-> Sent]

\* The call c has come to its next await, or to its end, and has started others.
Becomes(c, next) == calls' = (calls (-) SetToBag({c})) (+) SetToBag(next)

\* What becomes of the call c: its reply is there, or it fails, before it reaches the
\* server or after, and nothing more is heard of it.  The answer to an edit does not
\* depend on anything modelled, and may come at any time.
Outcome(c, ok) ==
    \/ /\ UNCHANGED failures
       /\ ok = (c.reply.state # "refused" /\ (c.at = "previewing" => c.arg \in ValidFile))
       /\ c.reply.state # "sent" \/ c.at \in {"editing", "scheduling", "previewing", "cancelling"}
    \/ ~ok /\ failures > 0 /\ failures' = failures - 1

\* Mutants: no epoch is compared; an address that is no longer selected is as good.
AppliesAnyway(c, ok) == ok
WantedAnyway(c) == epoch = c.epoch

\* The answers are applied if the epoch is the one that was captured.
Applies(c, ok) == ok /\ epoch = c.epoch
Wanted(c) == epoch = c.epoch /\ panel.selected = c.arg
-----------------------------------------------------------------------------
\* The server.  Its jobs are kept (MaxScans is below the limit of the scan manager), and
\* stop when they fail or are cancelled, which are one thing for the page.
ActiveJobs == {j \in 1..MaxScans : jobs[j] = "active"}
Active == Max(ActiveJobs \cup {0})
Unused == {j \in 1..MaxScans : jobs[j] = None}

Replies(c, reply) == calls' = (calls (-) SetToBag({c})) (+) SetToBag({[c EXCEPT !.reply = reply]})
Success == [Sent EXCEPT !.state = "ok", !.generation = generation]
Refusal == [Sent EXCEPT !.state = "refused"]
Asked(at) == {c \in BagToSet(calls) : c.at \in at /\ c.reply.state = "sent"}

AnswerRead ==
    \E c \in Asked({"loading", "fetching", "refreshing", "reading", "indexing"}) :
        /\ Replies(c, CASE c.at \in {"loading", "refreshing"} -> [Success EXCEPT !.job = Active]
                        [] c.at = "indexing" -> [Success EXCEPT !.macs = macs]
                        [] OTHER -> Success)
        /\ UNCHANGED <<server, page, left, failures>>

AnswerTimeline ==
    \E c \in Asked({"tracing"}) :
        /\ Replies(c, IF c.arg \in macs THEN Success ELSE Refusal)
        /\ UNCHANGED <<server, page, left, failures>>

AnswerPoll ==
    \E c \in Asked({"polling"}) :
        /\ Replies(c, [Success EXCEPT !.status = jobs[c.arg]])
        /\ UNCHANGED <<server, page, left, failures>>

AnswerStart ==
    \E c \in Asked({"starting", "launching"}) :
        /\ IF Active = 0 /\ Unused # {}
           THEN /\ jobs' = [jobs EXCEPT ![Min(Unused)] = "active"]
                /\ Replies(c, [Success EXCEPT !.job = Min(Unused)])
           ELSE Replies(c, Refusal) /\ UNCHANGED jobs
        /\ UNCHANGED <<generation, macs, page, left, failures>>

\* An active scan refuses the replacement.
AnswerReplace ==
    \E c \in Asked({"replacing"}) :
        /\ IF Active = 0
           THEN /\ generation' = generation + 1
                /\ macs' = IF c.arg = None THEN {} ELSE Mac
                /\ Replies(c, Success)
           ELSE Replies(c, Refusal) /\ UNCHANGED <<generation, macs>>
        /\ UNCHANGED <<jobs, page, left, failures>>

JobEnds ==
    \E j \in ActiveJobs :
        /\ \/ jobs' = [jobs EXCEPT ![j] = "completed"] /\ macs' = Mac
           \/ jobs' = [jobs EXCEPT ![j] = "stopped"] /\ UNCHANGED macs
        /\ UNCHANGED <<generation, page, calls, left, failures>>

\* A schedule, or another page, starts a scan.
OtherStarts ==
    /\ Active = 0 /\ Unused # {}
    /\ jobs' = [jobs EXCEPT ![Min(Unused)] = "active"]
    /\ UNCHANGED <<generation, macs, page, calls, left, failures>>
-----------------------------------------------------------------------------
\* The page.  What the reply of c shows in the parts.
Shows(parts, c) ==
    [p \in Part |-> IF p \in parts THEN [generation |-> c.reply.generation, sent |-> c.sent] ELSE shown[p]]

Begin(next) == /\ left > 0 /\ left' = left - 1
               /\ BagCardinality(calls) <= MaxWaiting
               /\ calls' = calls (+) SetToBag(next)
Start(c) == /\ Begin({c})
            /\ UNCHANGED <<server, failures, booted>>

\* What goes on after a reply: the budgets and the server stay as they are.
Goes == UNCHANGED <<server, left>>

\* toggleScanButtons: Import needs a file that was found valid.
Enabled(yes, file) == [reset |-> yes, import |-> yes /\ file # None]

\* resumeScan, or the rest of a start, with the job.
Polls(job) == /\ scanning' = TRUE /\ scanJob' = job /\ bar' = TRUE
              /\ buttons' = Enabled(FALSE, pending)

\* applyPayload and the rendering that follows it: the index of the timelines is dropped,
\* and read again if its view is open, unless something of that view is being loaded.
Applied(c) ==
    /\ shown' = [Shows(Loads, c) EXCEPT !["index"] = Nothing, !["timeline"] = Nothing]
    /\ panel' = [panel EXCEPT !.index = {}, !.timeline = None, !.loading = @ \/ panel.open]
Index(open) == IF open /\ ~panel.loading THEN {Ask("indexing", epoch, None, {})} ELSE {}
Reindex == Index(panel.open)

\* The end of loadState (o: is the overlay visible) and of what awaits it: the start of
\* the page, or an import or reset, which shows the database section and reads it again.
LoadEnds(c, o) ==
    /\ overlay' = (o /\ "replace" \notin c.outer /\ (epoch # c.epoch \/ scanning'))
    /\ booted' = (booted \/ "boot" \in c.outer)
AfterLoad(c) == IF "replace" \in c.outer /\ shown'["state"] # Nothing THEN {Ask("reading", epoch, "database", {})} ELSE {}

\* loadState goes on.
LoadReturns(c, ok) ==
    /\ c.at = "loading"
    /\ LET applied == Applies(c, ok)
           resumes == applied /\ c.reply.job # 0 /\ ~scanning
       IN  /\ IF applied THEN Applied(c) ELSE UNCHANGED <<shown, panel>>
           /\ IF resumes
              THEN /\ Polls(c.reply.job) /\ overlay' = FALSE /\ UNCHANGED booted
                   /\ Becomes(c, Reindex \cup {Ask("polling", epoch, c.reply.job, c.outer \cup {"load"})})
              ELSE /\ UNCHANGED <<scanning, scanJob, bar>>
                   /\ LoadEnds(c, overlay /\ ~(applied /\ c.reply.job # 0))
                   /\ buttons' = IF "replace" \in c.outer THEN Enabled(~scanning, pending) ELSE buttons
                   /\ Becomes(c, (IF applied THEN Reindex ELSE {}) \cup AfterLoad(c))
           /\ Goes /\ UNCHANGED <<epoch, pending>>

\* The finally of the scan handlers, and the end of the loadState they were resumed by.
ScanEnds(c, next) ==
    /\ scanning' = FALSE /\ scanJob' = 0 /\ bar' = FALSE
    /\ buttons' = Enabled(TRUE, pending)
    /\ IF "load" \in c.outer
       THEN LoadEnds(c, overlay) /\ Becomes(c, next \cup AfterLoad(c))
       ELSE UNCHANGED <<overlay, booted>> /\ Becomes(c, next)
    /\ Goes /\ UNCHANGED <<epoch, pending>>

\* pollScan goes on: with the next request (the delay is part of it), with the load of
\* what the scan has found, or to its end.
PollReturns(c, ok) ==
    /\ c.at = "polling"
    /\ LET current == Applies(c, ok)
       IN  \/ /\ current /\ c.reply.status \in {"active", "completed"}
              /\ bar' = TRUE
              /\ Becomes(c, {[c EXCEPT !.at = IF c.reply.status = "completed" THEN "fetching" ELSE "polling",
                                       !.sent = epoch, !.reply = Sent]})
              /\ Goes
              /\ UNCHANGED <<epoch, shown, scanning, scanJob, overlay, buttons, pending, panel, booted>>
           \/ /\ ~current \/ c.reply.status = "stopped"
              /\ UNCHANGED <<shown, panel>> /\ ScanEnds(c, {})

FetchReturns(c, ok) ==
    /\ c.at = "fetching"
    /\ IF Applies(c, ok)
       THEN Applied(c) /\ ScanEnds(c, Reindex)
       ELSE UNCHANGED <<shown, panel>> /\ ScanEnds(c, {})

\* Mutant: the job of a failed start is looked for all the same.
StartReturnsWithout(c, ok) ==
    /\ c.at = "starting"
    /\ \/ /\ ok /\ Polls(c.reply.job)
          /\ Becomes(c, {Ask("polling", epoch, c.reply.job, {})})
          /\ Goes /\ UNCHANGED <<epoch, shown, overlay, pending, panel, booted>>
       \/ /\ ~ok /\ Becomes(c, {})
          /\ Goes /\ UNCHANGED page

\* runScan, runTcpServiceScan and runUdpServiceScan go on.
StartReturns(c, ok) ==
    /\ c.at = "starting"
    /\ \/ /\ ok /\ Polls(c.reply.job)
          /\ Becomes(c, {Ask("polling", epoch, c.reply.job, {})})
          /\ Goes /\ UNCHANGED <<epoch, shown, overlay, pending, panel, booted>>
       \/ /\ ~ok /\ UNCHANGED <<shown, panel>> /\ ScanEnds(c, {})

\* Mutant: the timer does not ask whether the page follows a scan already.
ResumesAnyway(c, job) ==
    \/ /\ job # 0 /\ Polls(job)
       /\ Becomes(c, {Ask("polling", epoch, job, {})})
    \/ /\ job = 0
       /\ Becomes(c, {}) /\ UNCHANGED <<scanning, scanJob, bar, buttons>>

\* resumeScan, called by c with a job, if there is one.
Resumes(c, job) ==
    \/ /\ job # 0 /\ ~scanning /\ Polls(job)
       /\ Becomes(c, {Ask("polling", epoch, job, {})})
    \/ /\ job = 0 \/ scanning
       /\ Becomes(c, {}) /\ UNCHANGED <<scanning, scanJob, bar, buttons>>

\* runScheduleNow goes on.
LaunchReturns(c, ok) ==
    /\ c.at = "launching"
    /\ Resumes(c, IF ok THEN c.reply.job ELSE 0)
    /\ Goes /\ UNCHANGED <<epoch, shown, overlay, pending, panel, booted>>

\* refreshAutomation goes on.
RefreshReturns(c, ok) ==
    /\ c.at = "refreshing"
    /\ LET current == Applies(c, ok)
       IN  /\ shown' = IF current THEN Shows({"automation"}, c) ELSE shown
           /\ Resumes(c, IF current THEN c.reply.job ELSE 0)
           /\ Goes /\ UNCHANGED <<epoch, overlay, pending, panel, booted>>

\* createSchedule, updateSchedule, deleteSchedule and the marking of notifications go on.
ScheduleReturns(c, ok) ==
    /\ c.at = "scheduling"
    /\ Becomes(c, IF ok THEN {Ask("refreshing", epoch, None, {})} ELSE {})
    /\ Goes /\ UNCHANGED page

\* saveDeviceOverride, the merge and the splits load the state again after a success,
\* saveInterfacePolicy after a failure too.
EditReturns(c, ok) ==
    /\ c.at = "editing"
    /\ IF ok \/ c.arg = "policy"
          THEN overlay' = TRUE /\ Becomes(c, {Ask("loading", epoch, None, {})})
          ELSE Becomes(c, {}) /\ UNCHANGED overlay
    /\ Goes /\ UNCHANGED <<epoch, shown, scanning, scanJob, bar, buttons, pending, panel, booted>>

\* refreshDatabase and compareHistory go on.
ReadReturns(c, ok) ==
    /\ c.at = "reading"
    /\ shown' = IF Applies(c, ok) THEN Shows({c.arg}, c) ELSE shown
    /\ Becomes(c, {})
    /\ Goes /\ UNCHANGED <<epoch, scanning, scanJob, bar, overlay, buttons, pending, panel, booted>>

\* cancelScan goes on: it shows the job as it is cancelled.
CancelReturns(c, ok) ==
    /\ c.at = "cancelling"
    /\ bar' = (bar \/ ok)
    /\ Becomes(c, {})
    /\ Goes /\ UNCHANGED <<epoch, shown, scanning, scanJob, overlay, buttons, pending, panel, booted>>

PreviewReturns(c, ok) ==
    /\ c.at = "previewing"
    /\ LET valid == Applies(c, ok)
       IN  /\ pending' = IF valid THEN c.arg ELSE pending
           /\ buttons' = IF valid THEN [buttons EXCEPT !.import = ~scanning] ELSE buttons
           /\ Becomes(c, {})
           /\ Goes /\ UNCHANGED <<epoch, shown, scanning, scanJob, bar, overlay, panel, booted>>

\* importDatabase and resetDatabase go on.
ReplaceReturns(c, ok) ==
    /\ c.at = "replacing"
    /\ IF ok
          THEN /\ pending' = None /\ overlay' = TRUE /\ UNCHANGED buttons
               /\ Becomes(c, {Ask("loading", epoch, None, {"replace"})})
          ELSE /\ overlay' = FALSE /\ buttons' = Enabled(~scanning, pending)
               /\ Becomes(c, {}) /\ UNCHANGED pending
    /\ Goes /\ UNCHANGED <<epoch, shown, scanning, scanJob, bar, panel, booted>>
-----------------------------------------------------------------------------
\* The view of MAC timelines.  Its index is a set of at most one set of addresses.
Listed == UNION panel.index

\* loadMacTimeline, up to its request.
Selecting(m) == [panel EXCEPT !.selected = m, !.query = m, !.timeline = None, !.loading = TRUE]

\* loadMacTimelineIndex goes on, and awaits the timeline that was asked for meanwhile.
IndexReturns(c, ok) ==
    /\ c.at = "indexing"
    /\ LET requested == IF panel.selected # None THEN panel.selected ELSE panel.query
           found == Applies(c, ok) /\ requested \in c.reply.macs
       IN  /\ shown' = IF Applies(c, ok) THEN Shows({"index"}, c) ELSE shown
           /\ panel' = CASE ~Applies(c, ok) -> [panel EXCEPT !.loading = @ /\ epoch # c.epoch]
                         [] found -> [Selecting(requested) EXCEPT !.index = {c.reply.macs}]
                         [] OTHER -> [panel EXCEPT !.index = {c.reply.macs}, !.selected = None,
                                          !.timeline = IF panel.selected # None THEN None ELSE @,
                                          !.loading = FALSE]
           /\ Becomes(c, IF found THEN {Ask("tracing", epoch, requested, {"index"})} ELSE {})
           /\ Goes /\ UNCHANGED <<epoch, scanning, scanJob, bar, overlay, buttons, pending, booted>>

\* loadMacTimeline goes on, and the load of the index that awaits it.
TimelineReturns(c, ok) ==
    /\ c.at = "tracing"
    /\ shown' = IF Wanted(c) /\ ok THEN Shows({"timeline"}, c) ELSE shown
    /\ panel' = [panel EXCEPT !.timeline = IF Wanted(c) /\ ok THEN c.arg ELSE @,
                              !.loading = @ /\ ~Wanted(c) /\ ~(epoch = c.epoch /\ "index" \in c.outer)]
    /\ Becomes(c, {})
    /\ Goes /\ UNCHANGED <<epoch, scanning, scanJob, bar, overlay, buttons, pending, booted>>

OnPanel(next) ==
    /\ Begin(next)
    /\ UNCHANGED <<server, failures, epoch, scanning, scanJob, bar, overlay, buttons, pending, booted>>

\* switchSection and setHistoryView.
OpenPanel ==
    /\ ~panel.open
    /\ OnPanel(IF panel.index = {} THEN Index(TRUE) ELSE {})
    /\ panel' = [panel EXCEPT !.open = TRUE, !.loading = @ \/ panel.index = {}]
    /\ UNCHANGED shown

ClosePanel ==
    /\ panel.open
    /\ OnPanel({}) /\ panel' = [panel EXCEPT !.open = FALSE] /\ UNCHANGED shown

\* The input of the selector: an address the index lists, or anything else, which is
\* remembered if it is an address.
TypeMac(text) ==
    /\ panel.open
    /\ IF text \in Listed
       THEN \/ /\ text # panel.selected \/ (panel.timeline = None /\ ~panel.loading)
               /\ panel' = Selecting(text)
               /\ OnPanel({Ask("tracing", epoch, text, {})})
               /\ shown' = [shown EXCEPT !["timeline"] = Nothing]
       ELSE /\ panel' = [panel EXCEPT !.selected = None, !.timeline = None, !.query = text,
                                      !.loading = @ /\ panel.index = {}]
            /\ OnPanel({})
            /\ shown' = [shown EXCEPT !["timeline"] = Nothing]

\* The button of the drawer: the view is opened with an address selected.
ShowTimeline(m) ==
    /\ Loaded
    /\ OnPanel(IF panel.index # {} THEN {Ask("tracing", epoch, m, {})}
               ELSE IF panel.loading THEN {} ELSE {Ask("indexing", epoch, None, {})})
    /\ panel' = [Selecting(m) EXCEPT !.open = TRUE]
    /\ shown' = [shown EXCEPT !["timeline"] = Nothing]
-----------------------------------------------------------------------------
\* The handlers of the user and of the timer, up to their first request.
Edit(what) ==
    /\ Loaded /\ Start(Ask("editing", epoch, what, {}))
    /\ UNCHANGED <<epoch, shown, scanning, scanJob, bar, overlay, buttons, pending, panel>>

\* runScan and the like: events are bound before the first load has returned.
Run ==
    /\ ~scanning
    /\ scanning' = TRUE /\ bar' = TRUE /\ buttons' = Enabled(FALSE, pending)
    /\ Start(Ask("starting", epoch, None, {}))
    /\ UNCHANGED <<epoch, shown, scanJob, overlay, pending, panel>>

RunSchedule ==
    /\ Loaded /\ ~scanning
    /\ Start(Ask("launching", epoch, None, {}))
    /\ UNCHANGED <<epoch, shown, scanning, scanJob, bar, overlay, buttons, pending, panel>>

\* The timer, every 30 s.
Tick ==
    /\ Loaded /\ booted
    /\ Start(Ask("refreshing", epoch, None, {}))
    /\ UNCHANGED <<epoch, shown, scanning, scanJob, bar, overlay, buttons, pending, panel>>

EditSchedule ==
    /\ Loaded /\ Start(Ask("scheduling", epoch, None, {}))
    /\ UNCHANGED <<epoch, shown, scanning, scanJob, bar, overlay, buttons, pending, panel>>

\* The database section is opened, or two observations are compared.
Consult(part) ==
    /\ Loaded /\ Start(Ask("reading", epoch, part, {}))
    /\ UNCHANGED <<epoch, shown, scanning, scanJob, bar, overlay, buttons, pending, panel>>

Cancel ==
    /\ scanJob # 0 /\ Start(Ask("cancelling", epoch, scanJob, {}))
    /\ UNCHANGED <<epoch, shown, scanning, scanJob, bar, overlay, buttons, pending, panel>>

Preview(file) ==
    /\ Start(Ask("previewing", epoch, file, {}))
    /\ pending' = None /\ buttons' = [buttons EXCEPT !.import = FALSE]
    /\ UNCHANGED <<epoch, shown, scanning, scanJob, bar, overlay, panel>>

\* importDatabase and resetDatabase (a file of None), with invalidatePendingViews.
Replace(file) ==
    /\ epoch < MaxReplacements
    /\ ~scanning
    /\ epoch' = epoch + 1
    /\ panel' = [panel EXCEPT !.loading = FALSE]
    /\ overlay' = TRUE /\ buttons' = Enabled(FALSE, None)
    /\ Start(Ask("replacing", epoch + 1, file, {}))
    /\ UNCHANGED <<shown, scanning, scanJob, bar, pending>>

Import == pending # None /\ buttons.import /\ Replace(pending)
Reset == buttons.reset /\ Replace(None)

Init ==
    /\ generation = 1 /\ macs = Mac /\ jobs = [j \in 1..MaxScans |-> None]
    /\ epoch = 0 /\ shown = [p \in Part |-> Nothing]
    /\ scanning = FALSE /\ scanJob = 0 /\ bar = FALSE /\ overlay = TRUE
    /\ buttons = [reset |-> TRUE, import |-> FALSE] /\ pending = None
    /\ panel = [open |-> FALSE, index |-> {}, query |-> None, selected |-> None, timeline |-> None,
                loading |-> FALSE]
    /\ calls = SetToBag({Ask("loading", 0, None, {"boot"})})
    /\ booted = FALSE /\ left = MaxActions /\ failures = MaxFailures

Begins ==
    \/ Run \/ RunSchedule \/ Tick \/ EditSchedule \/ Cancel \/ Import \/ Reset
    \/ OpenPanel \/ ClosePanel
    \/ \E what \in {"device", "policy"} : Edit(what)
    \/ \E part \in {"database", "comparison"} : Consult(part)
    \/ \E file \in File : Preview(file)
    \/ \E m \in Mac : TypeMac(m) \/ ShowTimeline(m)
    \/ TypeMac(None)

Returned(c, ok) ==
    \/ LoadReturns(c, ok) \/ PollReturns(c, ok) \/ FetchReturns(c, ok) \/ StartReturns(c, ok)
    \/ LaunchReturns(c, ok) \/ RefreshReturns(c, ok) \/ ScheduleReturns(c, ok)
    \/ EditReturns(c, ok) \/ ReadReturns(c, ok) \/ CancelReturns(c, ok) \/ PreviewReturns(c, ok)
    \/ ReplaceReturns(c, ok) \/ IndexReturns(c, ok) \/ TimelineReturns(c, ok)

Return(at) ==
    \E c \in BagToSet(calls), ok \in BOOLEAN : c.at = at /\ Outcome(c, ok) /\ Returned(c, ok)

Answers == AnswerRead \/ AnswerTimeline \/ AnswerPoll \/ AnswerStart \/ AnswerReplace

Next == Begins \/ (\E at \in At : Return(at)) \/ Answers \/ JobEnds \/ OtherStarts

\* The server answers and its jobs end (its own modules show that), and the page's event
\* loop runs what was answered.
Fairness ==
    /\ WF_vars(AnswerRead) /\ WF_vars(AnswerPoll) /\ WF_vars(AnswerStart) /\ WF_vars(JobEnds)
    /\ WF_vars(Return("starting")) /\ WF_vars(Return("polling")) /\ WF_vars(Return("fetching"))

Spec == Init /\ [][Next]_vars /\ Fairness
-----------------------------------------------------------------------------
Polling == {c \in BagToSet(calls) : c.at \in {"starting", "polling", "fetching"}}

\* UI-04: the page takes part in a scan exactly as long as one of its handlers does: a
\* second one, started by the timer, a load or the user, would show two jobs in turns.
OnePoller ==
    /\ scanning <=> Polling # {}
    /\ MapThenSumSet(LAMBDA c : calls[c], Polling) <= 1
    /\ \A c \in Polling : c.at # "starting" => c.arg = scanJob /\ c.epoch = epoch

\* RST-05: an answer to a request that was sent before an import or reset was begun
\* changes no part of the page afterwards: neither the payload of a load, the automation
\* and database sections, the comparison, nor the timelines.  The bar of a scan is no part: a
\* late answer to cancelScan shows it again.
OldAnswerChangesNothing ==
    \A p \in Part : shown'[p] \in {shown[p], Nothing} \/ shown'[p].sent = epoch'
OldAnswersStayOut == [][OldAnswerChangesNothing]_vars

\* The timeline on the page is the one of the selected address, and was read for it.
TimelineIsOfSelected == panel.timeline \in {None, panel.selected}

\* UI-19: a scan that the page takes part in comes to an end on the page.
ScanEndsOnPage == scanning ~> ~scanning

\* UI-19: when nothing is being waited for, nothing is shown as being loaded, whatever the
\* answers were.
LoadingIsOver == calls = EmptyBag => ~overlay
=============================================================================
