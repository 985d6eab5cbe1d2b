-------------------------- MODULE WebClientProofs --------------------------
(***************************************************************************)
(* Theorems about WebClient, for any addresses, files and bounds.          *)
(*                                                                         *)
(* A call carries the epoch it captured and the one its request was sent   *)
(* in, neither later than the epoch of the page (Captured): an answer that *)
(* is applied, which has the epoch of the page, was sent in it.            *)
(* The calls that follow a scan are one while the page takes part in a     *)
(* scan and none otherwise (Followed): a handler that begins to follow     *)
(* finds none, and the one that goes on is the one that is taken from the  *)
(* bag.                                                                    *)
(***************************************************************************)
EXTENDS WebClient, FiniteSetTheorems, TLAPS

IsCall(d) == d = [at |-> d.at, epoch |-> d.epoch, sent |-> d.sent, arg |-> d.arg, outer |-> d.outer, reply |-> d.reply]

\* The page has its parts, and its calls are a bag.
Typed ==
    /\ epoch \in Nat /\ scanning \in BOOLEAN /\ IsABag(calls)
    /\ shown = [p \in Part |-> shown[p]]
    /\ panel = [open |-> panel.open, index |-> panel.index, query |-> panel.query, selected |-> panel.selected,
                timeline |-> panel.timeline, loading |-> panel.loading]

\* No call captured an epoch after its request was sent, or was sent in one to come.
Timely(d, now) == IsCall(d) /\ d.epoch \in Nat /\ d.sent \in Nat /\ d.epoch <= d.sent /\ d.sent <= now
Captured == \A c \in DOMAIN calls : Timely(c, epoch)

\* The call of the handler that takes part in a scan is the only one, and has its job.
Follower(d) == d.at \in {"starting", "polling", "fetching"}
Follows(d, job, now) == d.at # "starting" => d.arg = job /\ d.epoch = now
Followed ==
    /\ scanning <=> Polling # {}
    /\ \A c, d \in Polling : c = d
    /\ \A c \in Polling : calls[c] = 1 /\ Follows(c, scanJob, epoch)

Inv == Typed /\ Captured /\ Followed /\ TimelineIsOfSelected
-----------------------------------------------------------------------------
\* What (+) and (-) do to the bag of the calls.
LEMMA Added ==
    ASSUME NEW b, IsABag(b), NEW S
    PROVE  /\ IsABag(b (+) SetToBag(S)) /\ DOMAIN (b (+) SetToBag(S)) = DOMAIN b \cup S
           /\ \A x \in DOMAIN b \ S : (b (+) SetToBag(S))[x] = b[x]
           /\ \A x \in S \ DOMAIN b : (b (+) SetToBag(S))[x] = 1
<1>. DEFINE s == SetToBag(S)
<1>1. s = [x \in S |-> 1]
  BY DEF SetToBag
<1>. HIDE DEF s
<1>2. b \in [DOMAIN b -> {n \in Nat : n > 0}]
  BY DEF IsABag
<1>3. b (+) s = [x \in DOMAIN b \cup S |-> (IF x \in DOMAIN b THEN b[x] ELSE 0) + (IF x \in S THEN s[x] ELSE 0)]
  BY <1>1 DEF (+)
<1>4. \A x \in DOMAIN b : b[x] \in Nat /\ b[x] > 0
  BY <1>2
<1>. DEFINE a == b (+) s
<1>5. DOMAIN a = DOMAIN b \cup S
  BY <1>3
<1>6. ASSUME NEW x \in DOMAIN a PROVE a[x] \in Nat /\ a[x] > 0 /\ (x \notin S => a[x] = b[x]) /\ (x \notin DOMAIN b => a[x] = 1)
  <2>1. a[x] = (IF x \in DOMAIN b THEN b[x] ELSE 0) + (IF x \in S THEN s[x] ELSE 0)
    BY <1>3, <1>5
  <2>2. x \in S => s[x] = 1
    BY <1>1
  <2>3. x \in DOMAIN b \/ x \in S
    BY <1>5
  <2>. QED
    BY <1>4, <2>1, <2>2, <2>3
<1>7. a = [x \in DOMAIN a |-> a[x]]
  BY <1>3
<1>. HIDE DEF a
<1>8. IsABag(a)
  BY <1>6, <1>7 DEF IsABag
<1>. QED
  BY <1>5, <1>6, <1>8 DEF a, s

\* What (-) does to it.
LEMMA Removed ==
    ASSUME NEW b, IsABag(b), NEW c \in DOMAIN b
    PROVE  /\ IsABag(b (-) SetToBag({c})) /\ DOMAIN (b (-) SetToBag({c})) \subseteq DOMAIN b
           /\ \A x \in DOMAIN b \ {c} : x \in DOMAIN (b (-) SetToBag({c})) /\ (b (-) SetToBag({c}))[x] = b[x]
           /\ b[c] = 1 => c \notin DOMAIN (b (-) SetToBag({c}))
<1>. DEFINE s == SetToBag({c})
            less == [x \in DOMAIN b |-> IF x \in DOMAIN s THEN b[x] - s[x] ELSE b[x]]
            rest == {x \in DOMAIN less : less[x] > 0}
            a == b (-) s
<1>1. DOMAIN s = {c} /\ s[c] = 1
  BY DEF SetToBag
<1>2. \A x \in DOMAIN b : b[x] \in Nat /\ b[x] > 0
  BY DEF IsABag
<1>3. a = [x \in rest |-> less[x]]
  BY DEF (-)
<1>. HIDE DEF s, a
<1>4. \A x \in DOMAIN b : less[x] = IF x = c THEN b[x] - 1 ELSE b[x]
  BY <1>1
<1>5. \A x : x \in rest <=> x \in DOMAIN b /\ less[x] > 0
  OBVIOUS
<1>. HIDE DEF less, rest
<1>6. DOMAIN a = rest /\ \A x \in rest : a[x] = less[x]
  BY <1>3
<1>7. \A x \in rest : x \in DOMAIN b /\ a[x] \in Nat /\ a[x] > 0
  BY <1>2, <1>4, <1>5, <1>6
<1>8. IsABag(a)
  BY <1>3, <1>6, <1>7 DEF IsABag
<1>9. \A x \in DOMAIN b \ {c} : x \in rest /\ a[x] = b[x]
  BY <1>2, <1>4, <1>5, <1>6
<1>10. b[c] = 1 => c \notin rest
  BY <1>4, <1>5
<1>. QED
  BY <1>6, <1>7, <1>8, <1>9, <1>10 DEF a, s
-----------------------------------------------------------------------------
\* A step that starts the calls next, and ends a call (was: it followed the scan) or none.
FollowsOn(was, next) ==
    \/ /\ ~was /\ \A d \in next : ~Follower(d)
       /\ UNCHANGED <<scanning, scanJob>> /\ (scanning => epoch' = epoch)
    \/ /\ was \/ ~scanning
       /\ scanning' = TRUE
       /\ \E d \in next : Follower(d) /\ Follows(d, scanJob', epoch') /\ \A e \in next : Follower(e) => e = d
    \/ /\ was /\ \A d \in next : ~Follower(d)
       /\ scanning' = FALSE
Carries(was, next) ==
    /\ FollowsOn(was, next)
    /\ \A d \in next : Timely(d, epoch')
    /\ epoch' \in Nat /\ epoch <= epoch'

\* b is what is left of the bag when a call was taken from it, or the bag.
LEMMA CallsChange ==
    ASSUME Inv, NEW b, IsABag(b), DOMAIN b \subseteq DOMAIN calls, NEW was \in BOOLEAN, NEW next,
           was => Polling # {} /\ \A x \in DOMAIN b : ~Follower(x),
           ~was => \A x \in Polling : x \in DOMAIN b /\ b[x] = calls[x],
           calls' = b (+) SetToBag(next), Carries(was, next)
    PROVE  IsABag(calls') /\ scanning' \in BOOLEAN /\ Captured' /\ Followed'
<1>1. /\ IsABag(calls') /\ DOMAIN calls' = DOMAIN b \cup next
      /\ \A x \in DOMAIN b \ next : calls'[x] = b[x]
      /\ \A x \in next \ DOMAIN b : calls'[x] = 1
  <2>. DEFINE a == b (+) SetToBag(next)
  <2>1. /\ IsABag(a) /\ DOMAIN a = DOMAIN b \cup next
        /\ \A x \in DOMAIN b \ next : a[x] = b[x]
        /\ \A x \in next \ DOMAIN b : a[x] = 1
    BY ONLY IsABag(b), Added
  <2>2. calls' = a
    OBVIOUS
  <2>. HIDE DEF a
  <2>. QED
    BY <2>1, <2>2
<1>2. Polling = {x \in DOMAIN calls : Follower(x)} /\ Polling' = {x \in DOMAIN calls' : Follower(x)}
  BY DEF Polling, Follower, BagToSet
<1>3. scanning \in BOOLEAN /\ (scanning <=> Polling # {}) /\ epoch \in Nat
  BY DEF Inv, Typed, Followed
<1>4. scanning' \in BOOLEAN
  BY <1>3 DEF Carries, FollowsOn
<1>5. Captured'
  <2>1. \A x \in DOMAIN b : Timely(x, epoch')
    BY <1>3 DEF Inv, Captured, Carries, Timely
  <2>. QED
    BY <1>1, <2>1 DEF Captured, Carries
<1>6. Followed'
  <2>1. CASE ~was /\ (\A d \in next : ~Follower(d)) /\ UNCHANGED <<scanning, scanJob>> /\ (scanning => epoch' = epoch)
    <3>1. \A x : x \in Polling' <=> x \in Polling
      BY <1>1, <1>2, <2>1
    <3>2. \A x \in Polling : calls'[x] = calls[x]
      BY <1>1, <1>2, <2>1
    <3>3. Polling' = Polling
      BY <3>1
    <3>4. Polling # {} => scanJob' = scanJob /\ epoch' = epoch
      BY <1>3, <2>1
    <3>. QED
      BY <2>1, <3>2, <3>3, <3>4 DEF Inv, Followed
  <2>2. ASSUME was \/ ~scanning PROVE \A x \in DOMAIN b : ~Follower(x)
    BY <1>2, <1>3, <2>2
  <2>3. CASE /\ was \/ ~scanning
             /\ scanning' = TRUE
             /\ \E d \in next : Follower(d) /\ Follows(d, scanJob', epoch') /\ \A e \in next : Follower(e) => e = d
    <3>1. PICK d \in next : Follower(d) /\ Follows(d, scanJob', epoch') /\ \A e \in next : Follower(e) => e = d
      BY <2>3
    <3>2. Polling' = {d} /\ calls'[d] = 1
      BY <1>1, <1>2, <2>2, <2>3, <3>1
    <3>. QED
      BY <2>3, <3>1, <3>2 DEF Followed
  <2>4. CASE was /\ (\A d \in next : ~Follower(d)) /\ scanning' = FALSE
    <3>1. Polling' = {}
      BY <1>1, <1>2, <2>2, <2>4
    <3>. QED
      BY <2>4, <3>1 DEF Followed
  <2>. QED
    BY <2>1, <2>3, <2>4 DEF Carries, FollowsOn
<1>. QED
  BY <1>1, <1>4, <1>5, <1>6

\* A handler is started, with its calls.
LEMMA Started ==
    ASSUME Inv, NEW next, calls' = calls (+) SetToBag(next), Carries(FALSE, next)
    PROVE  IsABag(calls') /\ scanning' \in BOOLEAN /\ Captured' /\ Followed'
<1>1. IsABag(calls) /\ Polling \subseteq DOMAIN calls
  BY DEF Inv, Typed, Polling, BagToSet
<1>. QED
  BY <1>1, CallsChange

\* A call is taken from the bag, and others are put there.
LEMMA Became ==
    ASSUME Inv, NEW c \in DOMAIN calls, NEW next, Becomes(c, next), Carries(Follower(c), next)
    PROVE  IsABag(calls') /\ scanning' \in BOOLEAN /\ Captured' /\ Followed'
<1>. DEFINE b == calls (-) SetToBag({c})
<1>1. IsABag(calls) /\ calls' = b (+) SetToBag(next)
  BY DEF Inv, Typed, Becomes
<1>2. /\ IsABag(b) /\ DOMAIN b \subseteq DOMAIN calls
      /\ \A x \in DOMAIN calls \ {c} : x \in DOMAIN b /\ b[x] = calls[x]
      /\ calls[c] = 1 => c \notin DOMAIN b
  BY <1>1, Removed
<1>. HIDE DEF b
<1>3. Follower(c) \in BOOLEAN
  BY DEF Follower
<1>4. \A x \in DOMAIN calls : x \in Polling <=> Follower(x)
  BY DEF Polling, Follower, BagToSet
<1>5. (\A x, y \in Polling : x = y) /\ \A x \in Polling : calls[x] = 1
  BY DEF Inv, Followed
<1>6. Follower(c) => Polling # {} /\ \A x \in DOMAIN b : ~Follower(x)
  BY <1>2, <1>4, <1>5
<1>7. ~Follower(c) => \A x \in Polling : x \in DOMAIN b /\ b[x] = calls[x]
  <2>1. Polling \subseteq DOMAIN calls
    BY DEF Polling, BagToSet
  <2>. QED
    BY <1>2, <1>4, <2>1
<1>. QED
  BY <1>1, <1>2, <1>3, <1>6, <1>7, CallsChange
-----------------------------------------------------------------------------
\* What a step leaves on the page.
PageKept ==
    /\ shown' = [p \in Part |-> shown'[p]] /\ OldAnswerChangesNothing
    /\ panel' = [open |-> panel.open', index |-> panel.index', query |-> panel.query', selected |-> panel.selected',
                 timeline |-> panel.timeline', loading |-> panel.loading']
    /\ TimelineIsOfSelected'
Kept == Inv' /\ OldAnswerChangesNothing

\* What the lemmas below show of a step.
LEMMA Together ==
    ASSUME IsABag(calls'), scanning' \in BOOLEAN, Captured', Followed', PageKept, epoch' \in Nat
    PROVE  Kept
  BY DEF Kept, Inv, Typed, PageKept

\* The views stay as they are.
LEMMA SameViews == ASSUME Inv, UNCHANGED <<shown, panel>> PROVE PageKept
<1>1. shown = [p \in Part |-> shown[p]] /\ shown' = shown /\ panel' = panel /\ TimelineIsOfSelected
  BY DEF Inv, Typed
<1>2. shown' = [p \in Part |-> shown'[p]] /\ OldAnswerChangesNothing
  BY <1>1 DEF OldAnswerChangesNothing
<1>3. TimelineIsOfSelected'
  BY <1>1 DEF TimelineIsOfSelected
<1>. QED
  BY <1>1, <1>2, <1>3 DEF PageKept, Inv, Typed

\* Only the server moves.
LEMMA Idle == ASSUME Inv, UNCHANGED <<page, calls>> PROVE Kept
<1>1. UNCHANGED <<epoch, shown, scanning, scanJob, panel, calls>>
  BY DEF page
<1>2. PageKept
  BY <1>1, SameViews
<1>3. IsABag(calls') /\ scanning' \in BOOLEAN /\ epoch' \in Nat
  BY <1>1 DEF Inv, Typed
<1>4. Captured' /\ Followed'
  BY <1>1 DEF Inv, Captured, Followed, Polling
<1>. QED
  BY <1>2, <1>3, <1>4, Together

\* The reply to a call arrives.
LEMMA Replied == ASSUME Inv, NEW c \in DOMAIN calls, NEW reply, Replies(c, reply), UNCHANGED page PROVE Kept
<1>. DEFINE d == [c EXCEPT !.reply = reply]
<1>1. UNCHANGED <<epoch, shown, scanning, scanJob, panel>>
  BY DEF page
<1>2. Timely(c, epoch) /\ epoch \in Nat
  BY DEF Inv, Captured, Typed
<1>3. IsCall(d) /\ d.at = c.at /\ d.epoch = c.epoch /\ d.sent = c.sent /\ d.arg = c.arg
  BY <1>2 DEF Timely, IsCall
<1>4. Becomes(c, {d})
  BY DEF Replies, Becomes
<1>. HIDE DEF d
<1>5. Timely(d, epoch')
  BY <1>1, <1>2, <1>3 DEF Timely
<1>6. FollowsOn(Follower(c), {d})
  <2>1. Follower(d) <=> Follower(c)
    BY <1>3 DEF Follower
  <2>2. Follower(c) => c \in Polling
    BY DEF Follower, Polling, BagToSet
  <2>3. Follower(c) => scanning = TRUE /\ Follows(c, scanJob, epoch)
    BY <2>2 DEF Inv, Typed, Followed
  <2>4. Follower(c) => Follows(d, scanJob', epoch')
    BY <1>1, <1>3, <2>3 DEF Follows
  <2>. QED
    BY <1>1, <2>1, <2>3, <2>4 DEF FollowsOn
<1>7. Carries(Follower(c), {d})
  BY <1>1, <1>2, <1>5, <1>6 DEF Carries
<1>8. IsABag(calls') /\ scanning' \in BOOLEAN /\ Captured' /\ Followed'
  BY <1>4, <1>7, Became
<1>. QED
  BY <1>1, <1>2, <1>8, SameViews, Together

\* The server answers, or its jobs start and end.
LEMMA ServerStep == ASSUME Inv, Answers \/ JobEnds \/ OtherStarts PROVE Kept
<1>1. \A at, c : c \in Asked(at) => c \in DOMAIN calls
  BY DEF Asked, BagToSet
<1>2. CASE JobEnds \/ OtherStarts
  BY <1>2, Idle DEF JobEnds, OtherStarts
<1>3. CASE AnswerRead
  <2>1. PICK c \in DOMAIN calls : \E reply : Replies(c, reply) /\ UNCHANGED page
    BY <1>1, <1>3 DEF AnswerRead
  <2>. QED
    BY <2>1, Replied
<1>4. CASE AnswerTimeline
  <2>1. PICK c \in DOMAIN calls : \E reply : Replies(c, reply) /\ UNCHANGED page
    BY <1>1, <1>4 DEF AnswerTimeline
  <2>. QED
    BY <2>1, Replied
<1>5. CASE AnswerPoll
  <2>1. PICK c \in DOMAIN calls : \E reply : Replies(c, reply) /\ UNCHANGED page
    BY <1>1, <1>5 DEF AnswerPoll
  <2>. QED
    BY <2>1, Replied
<1>6. CASE AnswerStart
  <2>1. PICK c \in DOMAIN calls : \E reply : Replies(c, reply) /\ UNCHANGED page
    BY <1>1, <1>6 DEF AnswerStart
  <2>. QED
    BY <2>1, Replied
<1>7. CASE AnswerReplace
  <2>1. PICK c \in DOMAIN calls : \E reply : Replies(c, reply) /\ UNCHANGED page
    BY <1>1, <1>7 DEF AnswerReplace
  <2>. QED
    BY <2>1, Replied
<1>. QED
  BY <1>2, <1>3, <1>4, <1>5, <1>6, <1>7 DEF Answers
-----------------------------------------------------------------------------
\* A new call is sent in the epoch that it captures.
LEMMA Asks ==
    ASSUME NEW at, NEW e \in Nat, NEW arg, NEW outer
    PROVE  /\ Timely(Ask(at, e, arg, outer), e) /\ (Follower(Ask(at, e, arg, outer)) <=> at \in {"starting", "polling", "fetching"})
           /\ Ask(at, e, arg, outer).arg = arg /\ Ask(at, e, arg, outer).epoch = e /\ Ask(at, e, arg, outer).at = at
  BY DEF Ask, Timely, IsCall, Follower

\* Calls that do not take part in a scan.
Quiet(next) == \A d \in next : ~Follower(d) /\ Timely(d, epoch')

\* A handler that leaves the scan alone is started, or goes on.
LEMMA BeginsQuietly ==
    ASSUME Inv, NEW next, Begin(next), Quiet(next), epoch' \in Nat, epoch <= epoch',
           UNCHANGED <<scanning, scanJob>>, scanning => epoch' = epoch, PageKept
    PROVE  Kept
<1>1. Carries(FALSE, next) /\ calls' = calls (+) SetToBag(next)
  BY DEF Quiet, Carries, FollowsOn, Begin
<1>. QED
  BY <1>1, Started, Together

\* A handler goes on that leaves the scan alone.
LEMMA BecomesQuietly ==
    ASSUME Inv, NEW c \in DOMAIN calls, ~Follower(c), NEW next, Becomes(c, next), Quiet(next),
           UNCHANGED <<epoch, scanning, scanJob>>, PageKept
    PROVE  Kept
<1>1. Follower(c) = FALSE
  BY DEF Follower
<1>2. Carries(FALSE, next)
  BY DEF Quiet, Carries, FollowsOn, Inv, Typed
<1>. QED
  BY <1>1, <1>2, Became, Together DEF Inv, Typed

\* A handler that leaves the scan and the views alone is started.
LEMMA StartsQuietly ==
    ASSUME Inv, NEW at, at \notin {"starting", "polling", "fetching"}, NEW arg, Start(Ask(at, epoch, arg, {})),
           UNCHANGED <<epoch, shown, scanning, scanJob, panel>>
    PROVE  Kept
<1>. DEFINE a == Ask(at, epoch, arg, {})
<1>1. epoch \in Nat
  BY DEF Inv, Typed
<1>2. ~Follower(a) /\ Timely(a, epoch)
  BY <1>1, Asks
<1>3. Begin({a})
  BY DEF Start
<1>. HIDE DEF a
<1>4. Quiet({a}) /\ PageKept
  BY <1>2, SameViews DEF Quiet
<1>. QED
  BY <1>1, <1>3, <1>4, BeginsQuietly

\* The handlers of the user, of the schedules and of the timer.
LEMMA UserStep ==
    ASSUME Inv, \/ RunSchedule \/ Tick \/ EditSchedule \/ Cancel
                \/ \E what \in {"device", "policy"} : Edit(what)
                \/ \E part \in {"database", "comparison"} : Consult(part)
                \/ \E file \in File : Preview(file)
    PROVE  Kept
<1>1. CASE RunSchedule
  BY <1>1, StartsQuietly DEF RunSchedule
<1>2. CASE Tick
  BY <1>2, StartsQuietly DEF Tick
<1>3. CASE EditSchedule
  BY <1>3, StartsQuietly DEF EditSchedule
<1>4. CASE Cancel
  BY <1>4, StartsQuietly DEF Cancel
<1>5. ASSUME NEW what, Edit(what) PROVE Kept
  BY <1>5, StartsQuietly DEF Edit
<1>6. ASSUME NEW part, Consult(part) PROVE Kept
  BY <1>6, StartsQuietly DEF Consult
<1>7. ASSUME NEW file, Preview(file) PROVE Kept
  BY <1>7, StartsQuietly DEF Preview
<1>. QED
  BY <1>1, <1>2, <1>3, <1>4, <1>5, <1>6, <1>7

\* A scan is started: the page follows none before.
LEMMA RunStep == ASSUME Inv, Run PROVE Kept
<1>. DEFINE a == Ask("starting", epoch, None, {})
<1>1. ~scanning /\ scanning' = TRUE /\ Start(a) /\ UNCHANGED <<epoch, shown, scanJob, panel>>
  BY DEF Run
<1>2. epoch \in Nat
  BY DEF Inv, Typed
<1>3. Follower(a) /\ Timely(a, epoch) /\ a.at = "starting"
  BY <1>2, Asks
<1>4. calls' = calls (+) SetToBag({a})
  BY <1>1 DEF Start, Begin
<1>. HIDE DEF a
<1>5. Carries(FALSE, {a})
  BY <1>1, <1>2, <1>3 DEF Carries, FollowsOn, Follows
<1>6. IsABag(calls') /\ scanning' \in BOOLEAN /\ Captured' /\ Followed'
  BY <1>4, <1>5, Started
<1>. QED
  BY <1>1, <1>2, <1>6, SameViews, Together

\* An import or reset is begun: no call follows a scan, and every call is of an earlier epoch.
LEMMA ReplaceStep == ASSUME Inv, Import \/ Reset PROVE Kept
<1>1. PICK file : Replace(file)
  BY DEF Import, Reset
<1>. DEFINE a == Ask("replacing", epoch + 1, file, {})
<1>2. /\ ~scanning /\ epoch' = epoch + 1 /\ panel' = [panel EXCEPT !.loading = FALSE] /\ Start(a)
      /\ UNCHANGED <<shown, scanning, scanJob>>
  BY <1>1 DEF Replace
<1>3. epoch \in Nat /\ epoch' \in Nat /\ epoch <= epoch'
  BY <1>2 DEF Inv, Typed
<1>4. ~Follower(a) /\ Timely(a, epoch')
  BY <1>2, <1>3, Asks
<1>5. Begin({a})
  BY <1>2 DEF Start
<1>. HIDE DEF a
<1>6. Quiet({a})
  BY <1>4 DEF Quiet
<1>7. PageKept
  <2>1. shown' = [p \in Part |-> shown'[p]] /\ OldAnswerChangesNothing
    BY <1>2 DEF Inv, Typed, OldAnswerChangesNothing
  <2>2. panel' = [open |-> panel.open, index |-> panel.index, query |-> panel.query, selected |-> panel.selected,
                  timeline |-> panel.timeline, loading |-> FALSE]
    BY <1>2 DEF Inv, Typed
  <2>3. panel.timeline \in {None, panel.selected}
    BY DEF Inv, TimelineIsOfSelected
  <2>. QED
    BY <2>1, <2>2, <2>3 DEF PageKept, TimelineIsOfSelected
<1>. QED
  BY <1>2, <1>3, <1>5, <1>6, <1>7, BeginsQuietly
-----------------------------------------------------------------------------
\* What may be shown next: what is, nothing, or what was sent in this epoch.
ShownNext == shown' = [p \in Part |-> shown'[p]] /\ OldAnswerChangesNothing

\* The same is shown.
LEMMA ShownStays == ASSUME Inv, shown' = shown PROVE ShownNext
  BY DEF Inv, Typed, ShownNext, OldAnswerChangesNothing

\* The timeline is no longer shown.
LEMMA ShownDropped == ASSUME Inv, shown' = [shown EXCEPT !["timeline"] = Nothing] PROVE ShownNext
<1>1. shown = [p \in Part |-> shown[p]]
  BY DEF Inv, Typed
<1>2. shown' = [p \in Part |-> IF p = "timeline" THEN Nothing ELSE shown[p]]
  BY <1>1
<1>. QED
  BY <1>2 DEF ShownNext, OldAnswerChangesNothing

\* The answer to c, which was sent in this epoch, is shown.
LEMMA ShownRead == ASSUME NEW parts, NEW c, c.sent = epoch', shown' = Shows(parts, c) PROVE ShownNext
<1>1. [generation |-> c.reply.generation, sent |-> c.sent].sent = epoch'
  OBVIOUS
<1>2. shown' = [p \in Part |-> shown'[p]]
  BY DEF Shows
<1>3. \A p \in Part : shown'[p] = shown[p] \/ shown'[p].sent = epoch'
  BY <1>1 DEF Shows
<1>. QED
  BY <1>2, <1>3 DEF ShownNext, OldAnswerChangesNothing

View(open, index, query, selected, timeline, loading) ==
    [open |-> open, index |-> index, query |-> query, selected |-> selected, timeline |-> timeline,
     loading |-> loading]

\* The view of timelines has no timeline but of the selected address.
LEMMA ViewIs ==
    ASSUME NEW o, NEW i, NEW q, NEW s, NEW t, NEW l, panel' = View(o, i, q, s, t, l), t \in {None, s}, ShownNext
    PROVE  PageKept
  BY DEF View, PageKept, ShownNext, TimelineIsOfSelected

\* The view, and the timeline in it.
LEMMA PanelNow ==
    ASSUME Inv
    PROVE  /\ panel = View(panel.open, panel.index, panel.query, panel.selected, panel.timeline, panel.loading)
           /\ panel.timeline \in {None, panel.selected}
  BY DEF Inv, Typed, View, TimelineIsOfSelected

\* Opening or closing the view leaves the rest of what it shows.
LEMMA ViewOpened ==
    ASSUME NEW o, NEW i, NEW q, NEW s, NEW t, NEW l, NEW b
    PROVE  [View(o, i, q, s, t, l) EXCEPT !.open = b] = View(b, i, q, s, t, l)
  BY DEF View

\* No call but of the index is made when the view is opened or what it shows is dropped.
LEMMA IndexQuiet == ASSUME Inv, epoch' = epoch, NEW open PROVE Quiet(Index(open))
<1>1. ~Follower(Ask("indexing", epoch, None, {})) /\ Timely(Ask("indexing", epoch, None, {}), epoch)
  BY Asks DEF Inv, Typed
<1>. QED
  BY <1>1 DEF Quiet, Index

\* The handlers of the view of timelines.
LEMMA PanelStep ==
    ASSUME Inv, OpenPanel \/ ClosePanel \/ (\E m \in Mac : TypeMac(m) \/ ShowTimeline(m)) \/ TypeMac(None)
    PROVE  Kept
<1>1. epoch \in Nat
  BY DEF Inv, Typed
<1>2. ASSUME NEW next, OnPanel(next), epoch' = epoch => Quiet(next), epoch' = epoch => PageKept PROVE Kept
  <2>1. Begin(next) /\ UNCHANGED <<epoch, scanning, scanJob>>
    BY <1>2 DEF OnPanel
  <2>. QED
    BY <1>1, <1>2, <2>1, BeginsQuietly
<1>3. Quiet({})
  BY DEF Quiet
<1>4. ASSUME NEW at, at \in {"tracing", "indexing"}, NEW m, epoch' = epoch PROVE Quiet({Ask(at, epoch, m, {})})
  BY <1>1, <1>4, Asks DEF Quiet
<1>5. CASE OpenPanel
  <2>1. PICK next : OnPanel(next) /\ (epoch' = epoch => Quiet(next))
    BY <1>3, <1>5, IndexQuiet DEF OpenPanel
  <2>2. PICK l : panel' = View(TRUE, panel.index, panel.query, panel.selected, panel.timeline, l)
    BY <1>5, PanelNow DEF OpenPanel, View
  <2>3. shown' = shown
    BY <1>5 DEF OpenPanel
  <2>4. PageKept
    BY <2>2, <2>3, PanelNow, ViewIs, ShownStays
  <2>. QED
    BY <1>2, <2>1, <2>4
<1>6. CASE ClosePanel
  <2>1. PICK b : panel' = View(b, panel.index, panel.query, panel.selected, panel.timeline, panel.loading)
    <3>1. PICK b : panel' = [panel EXCEPT !.open = b]
      BY <1>6 DEF ClosePanel
    <3>2. panel = View(panel.open, panel.index, panel.query, panel.selected, panel.timeline, panel.loading)
      BY PanelNow
    <3>3. [View(panel.open, panel.index, panel.query, panel.selected, panel.timeline, panel.loading) EXCEPT !.open = b]
             = View(b, panel.index, panel.query, panel.selected, panel.timeline, panel.loading)
      BY ViewOpened
    <3>. QED
      BY Zenon, <3>1, <3>2, <3>3
  <2>2. shown' = shown
    BY <1>6 DEF ClosePanel
  <2>3. PageKept
    BY <2>1, <2>2, PanelNow, ViewIs, ShownStays
  <2>. QED
    BY <1>2, <1>3, <1>6, <2>3 DEF ClosePanel
<1>7. ASSUME NEW m, TypeMac(m) PROVE Kept
  <2>1. shown' = [shown EXCEPT !["timeline"] = Nothing]
    BY <1>7 DEF TypeMac
  <2>2. CASE m \in Listed
    <3>1. panel' = Selecting(m) /\ OnPanel({Ask("tracing", epoch, m, {})})
      BY <1>7, <2>2 DEF TypeMac
    <3>2. panel' = View(panel.open, panel.index, m, m, None, TRUE)
      BY <3>1, PanelNow DEF Selecting, View
    <3>3. PageKept
      BY <2>1, <3>2, ViewIs, ShownDropped
    <3>. QED
      BY <1>2, <1>4, <3>1, <3>3
  <2>3. CASE m \notin Listed
    <3>1. panel' = [panel EXCEPT !.selected = None, !.timeline = None, !.query = m, !.loading = @ /\ panel.index = {}]
          /\ OnPanel({})
      BY <1>7, <2>3 DEF TypeMac
    <3>2. PICK l : panel' = View(panel.open, panel.index, m, None, None, l)
      BY <3>1, PanelNow DEF View
    <3>3. PageKept
      BY <2>1, <3>2, ViewIs, ShownDropped
    <3>. QED
      BY <1>2, <1>3, <3>1, <3>3
  <2>. QED
    BY <2>2, <2>3
<1>8. ASSUME NEW m, ShowTimeline(m) PROVE Kept
  <2>1. PICK next : OnPanel(next) /\ (epoch' = epoch => Quiet(next))
    BY <1>3, <1>4, <1>8 DEF ShowTimeline
  <2>2. panel' = View(TRUE, panel.index, m, m, None, TRUE)
    BY <1>8, PanelNow DEF ShowTimeline, Selecting, View
  <2>3. PageKept
    BY <1>8, <2>2, ViewIs, ShownDropped DEF ShowTimeline
  <2>. QED
    BY <1>2, <2>1, <2>3
<1>. QED
  BY <1>5, <1>6, <1>7, <1>8

\* The handlers that may be started.
LEMMA BeginsStep == ASSUME Inv, Begins PROVE Kept
  BY UserStep, RunStep, ReplaceStep, PanelStep DEF Begins
-----------------------------------------------------------------------------
\* A handler goes on that leaves the scan and the views alone.
LEMMA GoesOnQuietly ==
    ASSUME Inv, NEW c \in DOMAIN calls, NEW next, c.at \notin {"starting", "polling", "fetching"},
           Becomes(c, next), next = {} \/ \E at, arg, outer : /\ at \notin {"starting", "polling", "fetching"}
                                                              /\ next = {Ask(at, epoch, arg, outer)},
           UNCHANGED <<epoch, scanning, scanJob, panel>>, ShownNext
    PROVE  Kept
<1>1. epoch' \in Nat /\ epoch' = epoch
  BY DEF Inv, Typed
<1>2. Quiet(next)
  BY <1>1, Asks DEF Quiet
<1>3. PageKept
  BY PanelNow, ViewIs
<1>. QED
  BY <1>1, <1>2, <1>3, BecomesQuietly DEF Follower

\* resumeScan follows the job when the page follows none.
LEMMA ResumesStep ==
    ASSUME Inv, NEW c \in DOMAIN calls, c.at \in {"launching", "refreshing"}, NEW job, Resumes(c, job),
           UNCHANGED <<epoch, panel>>, ShownNext
    PROVE  Kept
<1>1. epoch \in Nat
  BY DEF Inv, Typed
<1>2. PageKept
  BY PanelNow, ViewIs
<1>3. CASE job # 0 /\ ~scanning /\ Polls(job) /\ Becomes(c, {Ask("polling", epoch, job, {})})
  <2>. DEFINE a == Ask("polling", epoch, job, {})
  <2>1. Follower(a) /\ Timely(a, epoch) /\ a.arg = job /\ a.epoch = epoch
    BY <1>1, Asks
  <2>2. Becomes(c, {a}) /\ scanning' = TRUE /\ scanJob' = job
    BY <1>3 DEF Polls
  <2>. HIDE DEF a
  <2>3. Carries(Follower(c), {a})
    BY <1>1, <1>3, <2>1, <2>2 DEF Carries, FollowsOn, Follows
  <2>. QED
    BY <1>1, <1>2, <2>2, <2>3, Became, Together
<1>4. CASE Becomes(c, {}) /\ UNCHANGED <<scanning, scanJob>>
  BY <1>4, GoesOnQuietly
<1>. QED
  BY <1>3, <1>4 DEF Resumes

\* The handlers of the user and of the timer go on.
LEMMA UserReturns ==
    ASSUME Inv, NEW c \in DOMAIN calls, NEW ok \in BOOLEAN,
           \/ LaunchReturns(c, ok) \/ RefreshReturns(c, ok) \/ ScheduleReturns(c, ok) \/ EditReturns(c, ok)
           \/ ReadReturns(c, ok) \/ CancelReturns(c, ok) \/ PreviewReturns(c, ok) \/ ReplaceReturns(c, ok)
    PROVE  Kept
<1>1. Applies(c, ok) => c.sent = epoch
  BY DEF Applies, Inv, Typed, Captured, Timely
<1>2. CASE LaunchReturns(c, ok)
  BY <1>2, ShownStays, ResumesStep DEF LaunchReturns
<1>3. CASE RefreshReturns(c, ok)
  <2>1. UNCHANGED <<epoch, panel>> /\ c.at = "refreshing"
        /\ shown' = (IF Applies(c, ok) THEN Shows({"automation"}, c) ELSE shown)
        /\ Resumes(c, IF Applies(c, ok) THEN c.reply.job ELSE 0)
    BY <1>3 DEF RefreshReturns
  <2>2. ShownNext
    BY <1>1, <2>1, ShownStays, ShownRead
  <2>. QED
    BY <2>1, <2>2, ResumesStep
<1>4. CASE ScheduleReturns(c, ok)
  BY <1>4, ShownStays, GoesOnQuietly DEF ScheduleReturns, page
<1>5. CASE EditReturns(c, ok)
  BY <1>5, ShownStays, GoesOnQuietly DEF EditReturns
<1>6. CASE ReadReturns(c, ok)
  <2>1. UNCHANGED <<epoch, scanning, scanJob, panel>> /\ c.at = "reading" /\ Becomes(c, {})
        /\ shown' = (IF Applies(c, ok) THEN Shows({c.arg}, c) ELSE shown)
    BY <1>6 DEF ReadReturns
  <2>2. ShownNext
    BY <1>1, <2>1, ShownStays, ShownRead
  <2>. QED
    BY <2>1, <2>2, GoesOnQuietly
<1>7. CASE CancelReturns(c, ok)
  BY <1>7, ShownStays, GoesOnQuietly DEF CancelReturns
<1>8. CASE PreviewReturns(c, ok)
  BY <1>8, ShownStays, GoesOnQuietly DEF PreviewReturns
<1>9. CASE ReplaceReturns(c, ok)
  BY <1>9, ShownStays, GoesOnQuietly DEF ReplaceReturns
<1>. QED
  BY <1>2, <1>3, <1>4, <1>5, <1>6, <1>7, <1>8, <1>9
-----------------------------------------------------------------------------
\* applyPayload shows what was sent in this epoch, and no timeline.
LEMMA AppliedViews == ASSUME Inv, NEW c, c.sent = epoch', Applied(c) PROVE PageKept
<1>1. shown' = [p \in Part |-> IF p \in {"index", "timeline"} THEN Nothing ELSE Shows(Loads, c)[p]]
  BY DEF Applied, Shows
<1>2. \A p \in Part : Shows(Loads, c)[p] = shown[p] \/ Shows(Loads, c)[p].sent = epoch'
  BY DEF Shows
<1>3. ShownNext
  BY <1>1, <1>2 DEF ShownNext, OldAnswerChangesNothing
<1>4. PICK l : panel' = View(panel.open, {}, panel.query, panel.selected, None, l)
  BY PanelNow DEF Applied, View
<1>. QED
  BY <1>3, <1>4, ViewIs

\* The calls that follow a load: of the index and of the database section.
LEMMA LaterCalls == ASSUME Inv, epoch' = epoch, NEW c PROVE Quiet(Reindex) /\ Quiet(AfterLoad(c)) /\ Quiet({})
<1>1. ~Follower(Ask("reading", epoch, "database", {})) /\ Timely(Ask("reading", epoch, "database", {}), epoch)
  BY Asks DEF Inv, Typed
<1>2. Quiet(AfterLoad(c)) /\ Quiet({})
  BY <1>1 DEF Quiet, AfterLoad
<1>3. Quiet(Reindex)
  BY IndexQuiet DEF Reindex
<1>. QED
  BY <1>2, <1>3

\* The handler that took part in the scan comes to its end.
LEMMA EndsStep ==
    ASSUME Inv, NEW c \in DOMAIN calls, Follower(c), NEW next, ScanEnds(c, next), epoch' = epoch => Quiet(next), PageKept
    PROVE  Kept
<1>1. scanning' = FALSE /\ epoch' = epoch
  BY DEF ScanEnds
<1>2. PICK all : Becomes(c, all) /\ Quiet(all)
  <2>1. Quiet(next) /\ Quiet(next \cup AfterLoad(c))
    BY <1>1, LaterCalls DEF Quiet
  <2>. QED
    BY <2>1 DEF ScanEnds
<1>3. Follower(c) = TRUE /\ epoch \in Nat
  BY DEF Follower, Inv, Typed
<1>4. Carries(Follower(c), all)
  BY <1>1, <1>2, <1>3 DEF Carries, FollowsOn, Quiet
<1>. QED
  BY <1>1, <1>2, <1>3, <1>4, Became, Together

\* The handler goes on with the scan, and has its job.
LEMMA GoesOnFollowing ==
    ASSUME Inv, NEW c \in DOMAIN calls, Follower(c) \/ ~scanning, NEW d, Follower(d), Timely(d, epoch'), Follows(d, scanJob', epoch'),
           NEW next, Quiet(next), Becomes(c, next \cup {d}), scanning' = TRUE, UNCHANGED epoch, PageKept
    PROVE  Kept
<1>1. epoch \in Nat
  BY DEF Inv, Typed
<1>. DEFINE all == next \cup {d}
<1>2. (\A e \in all : Timely(e, epoch') /\ (Follower(e) => e = d)) /\ d \in all /\ Becomes(c, all)
  BY DEF Quiet
<1>. HIDE DEF all
<1>3. FollowsOn(Follower(c), all)
  BY <1>2 DEF FollowsOn
<1>4. Carries(Follower(c), all)
  BY <1>1, <1>2, <1>3 DEF Carries
<1>. QED
  BY <1>1, <1>2, <1>4, Became, Together

\* The handlers that take part in a scan go on.
LEMMA ScanReturns ==
    ASSUME Inv, NEW c \in DOMAIN calls, NEW ok \in BOOLEAN,
           PollReturns(c, ok) \/ FetchReturns(c, ok) \/ StartReturns(c, ok)
    PROVE  Kept
<1>1. Follower(c) /\ c \in Polling
  BY DEF PollReturns, FetchReturns, StartReturns, Follower, Polling, BagToSet
<1>2. scanning = TRUE /\ Follows(c, scanJob, epoch) /\ epoch \in Nat
  BY <1>1 DEF Inv, Typed, Followed
<1>3. Timely(c, epoch)
  BY DEF Inv, Captured
<1>4. Applies(c, ok) => c.sent = epoch /\ c.epoch = epoch
  BY <1>2, <1>3 DEF Applies, Timely
<1>5. epoch' = epoch => Quiet({}) /\ Quiet(Reindex)
  BY LaterCalls
<1>6. CASE PollReturns(c, ok)
  <2>1. CASE UNCHANGED <<shown, panel>> /\ ScanEnds(c, {})
    BY <1>1, <1>5, <2>1, SameViews, EndsStep
  <2>2. CASE /\ Applies(c, ok)
             /\ \E at \in {"fetching", "polling"} : Becomes(c, {[c EXCEPT !.at = at, !.sent = epoch, !.reply = Sent]})
             /\ UNCHANGED <<epoch, shown, scanning, scanJob, panel>>
    <3>. PICK at \in {"fetching", "polling"} : Becomes(c, {[c EXCEPT !.at = at, !.sent = epoch, !.reply = Sent]})
      BY <2>2
    <3>1. PICK d : d = [c EXCEPT !.at = at, !.sent = epoch, !.reply = Sent] /\ Becomes(c, {d})
      OBVIOUS
    <3>2. d = [at |-> at, epoch |-> c.epoch, sent |-> epoch, arg |-> c.arg, outer |-> c.outer, reply |-> Sent]
      BY <1>3, <3>1 DEF Timely, IsCall
    <3>3. Becomes(c, {d})
      BY <3>1
    <3>4. Follower(d) /\ Timely(d, epoch) /\ d.arg = c.arg /\ d.epoch = epoch
      BY <1>2, <1>4, <2>2, <3>2 DEF Follower, Timely, IsCall
    <3>5. c.arg = scanJob
      BY <1>2, <1>6 DEF Follows, PollReturns
    <3>6. Follows(d, scanJob', epoch') /\ Timely(d, epoch') /\ scanning' = TRUE /\ PageKept
      BY <1>2, <2>2, <3>4, <3>5, SameViews DEF Follows
    <3>7. {} \cup {d} = {d}
      OBVIOUS
    <3>. QED
      BY <1>1, <1>5, <2>2, <3>3, <3>4, <3>6, <3>7, GoesOnFollowing
  <2>. QED
    BY <1>6, <2>1, <2>2 DEF PollReturns
<1>7. CASE FetchReturns(c, ok)
  <2>1. CASE Applies(c, ok)
    <3>1. Applied(c) /\ ScanEnds(c, Reindex)
      BY <1>7, <2>1 DEF FetchReturns
    <3>2. epoch' = epoch
      BY <3>1 DEF ScanEnds
    <3>. QED
      BY <1>1, <1>4, <1>5, <2>1, <3>1, <3>2, AppliedViews, EndsStep
  <2>2. CASE ~Applies(c, ok)
    <3>1. UNCHANGED <<shown, panel>> /\ ScanEnds(c, {})
      BY <1>7, <2>2 DEF FetchReturns
    <3>. QED
      BY <1>1, <1>5, <3>1, SameViews, EndsStep
  <2>. QED
    BY <2>1, <2>2
<1>8. CASE StartReturns(c, ok)
  <2>1. CASE UNCHANGED <<shown, panel>> /\ ScanEnds(c, {})
    BY <1>1, <1>5, <2>1, SameViews, EndsStep
  <2>2. CASE /\ Polls(c.reply.job) /\ Becomes(c, {Ask("polling", epoch, c.reply.job, {})})
             /\ UNCHANGED <<epoch, shown, panel>>
    <3>. DEFINE d == Ask("polling", epoch, c.reply.job, {})
    <3>1. Follower(d) /\ Timely(d, epoch) /\ d.arg = c.reply.job /\ d.epoch = epoch
      BY <1>2, Asks
    <3>2. Becomes(c, {d}) /\ {} \cup {d} = {d}
      BY <2>2
    <3>. HIDE DEF d
    <3>3. Follows(d, scanJob', epoch') /\ Timely(d, epoch') /\ scanning' = TRUE /\ PageKept
      BY <2>2, <3>1, SameViews DEF Follows, Polls
    <3>. QED
      BY <1>1, <1>5, <2>2, <3>1, <3>2, <3>3, GoesOnFollowing
  <2>. QED
    BY <1>8, <2>1, <2>2 DEF StartReturns
<1>. QED
  BY <1>6, <1>7, <1>8

\* loadState goes on: it takes part in a scan only if the page does not.
LEMMA LoadStep == ASSUME Inv, NEW c \in DOMAIN calls, NEW ok \in BOOLEAN, LoadReturns(c, ok) PROVE Kept
<1>1. /\ ~Follower(c) /\ epoch' = epoch /\ epoch \in Nat
      /\ IF Applies(c, ok) THEN Applied(c) ELSE UNCHANGED <<shown, panel>>
  BY DEF LoadReturns, Follower, Inv, Typed
<1>2. Applies(c, ok) => c.sent = epoch
  BY DEF Applies, Inv, Typed, Captured, Timely
<1>3. PageKept
  <2>1. Applies(c, ok) => PageKept
    BY <1>1, <1>2, AppliedViews
  <2>2. ~Applies(c, ok) => PageKept
    BY <1>1, SameViews
  <2>. QED
    BY <2>1, <2>2
<1>4. Quiet(Reindex) /\ Quiet(AfterLoad(c)) /\ Quiet({})
  BY <1>1, LaterCalls
<1>5. CASE /\ ~scanning /\ Polls(c.reply.job)
           /\ Becomes(c, Reindex \cup {Ask("polling", epoch, c.reply.job, c.outer \cup {"load"})})
  <2>. DEFINE d == Ask("polling", epoch, c.reply.job, c.outer \cup {"load"})
  <2>1. Follower(d) /\ Timely(d, epoch) /\ d.arg = c.reply.job /\ d.epoch = epoch
    BY <1>1, Asks
  <2>2. Becomes(c, Reindex \cup {d})
    BY <1>5
  <2>. HIDE DEF d
  <2>3. Follows(d, scanJob', epoch') /\ Timely(d, epoch') /\ scanning' = TRUE
    BY <1>1, <1>5, <2>1 DEF Follows, Polls
  <2>. QED
    BY <1>1, <1>3, <1>4, <1>5, <2>1, <2>2, <2>3, GoesOnFollowing
<1>6. CASE /\ UNCHANGED <<scanning, scanJob>>
           /\ \E next \in {{}, Reindex} : Becomes(c, next \cup AfterLoad(c))
  <2>1. PICK next : Becomes(c, next) /\ Quiet(next)
    BY <1>4, <1>6 DEF Quiet
  <2>. QED
    BY <1>1, <1>3, <1>6, <2>1, BecomesQuietly
<1>. QED
  <2>1. CASE Applies(c, ok) /\ c.reply.job # 0 /\ ~scanning
    BY <1>5, <2>1 DEF LoadReturns
  <2>2. CASE ~(Applies(c, ok) /\ c.reply.job # 0 /\ ~scanning)
    <3>1. UNCHANGED <<scanning, scanJob>> /\ Becomes(c, (IF Applies(c, ok) THEN Reindex ELSE {}) \cup AfterLoad(c))
      BY <2>2 DEF LoadReturns
    <3>. QED
      BY <1>6, <3>1
  <2>. QED
    BY <2>1, <2>2
\* The answers to the requests of the timeline view are applied.
LEMMA PanelReturns ==
    ASSUME Inv, NEW c \in DOMAIN calls, NEW ok \in BOOLEAN, IndexReturns(c, ok) \/ TimelineReturns(c, ok)
    PROVE  Kept
<1>1. Applies(c, ok) \/ Wanted(c) => c.sent = epoch
  BY DEF Applies, Wanted, Inv, Typed, Captured, Timely
<1>2. UNCHANGED <<epoch, scanning, scanJob>> /\ epoch \in Nat /\ ~Follower(c)
  BY DEF IndexReturns, TimelineReturns, Inv, Typed, Follower
<1>3. CASE IndexReturns(c, ok)
  <2>. DEFINE requested == IF panel.selected # None THEN panel.selected ELSE panel.query
              found == Applies(c, ok) /\ requested \in c.reply.macs
  <2>1. shown' = (IF Applies(c, ok) THEN Shows({"index"}, c) ELSE shown)
        /\ Becomes(c, IF found THEN {Ask("tracing", epoch, requested, {"index"})} ELSE {})
    BY <1>3 DEF IndexReturns
  <2>2. ShownNext
    BY <1>1, <1>2, <2>1, ShownStays, ShownRead
  <2>3. Quiet(IF found THEN {Ask("tracing", epoch, requested, {"index"})} ELSE {})
    BY <1>2, Asks DEF Quiet
  <2>4. \/ panel' = [panel EXCEPT !.loading = @ /\ epoch # c.epoch]
        \/ panel' = [Selecting(requested) EXCEPT !.index = {c.reply.macs}]
        \/ panel' = [panel EXCEPT !.index = {c.reply.macs}, !.selected = None,
                                  !.timeline = IF panel.selected # None THEN None ELSE @, !.loading = FALSE]
    BY <1>3 DEF IndexReturns
  <2>5. PageKept
    <3>1. CASE panel' = [panel EXCEPT !.loading = @ /\ epoch # c.epoch]
      <4>1. PICK l : panel' = View(panel.open, panel.index, panel.query, panel.selected, panel.timeline, l)
        BY <3>1, PanelNow DEF View
      <4>. QED
        BY <2>2, <4>1, PanelNow, ViewIs
    <3>2. CASE panel' = [Selecting(requested) EXCEPT !.index = {c.reply.macs}]
      <4>1. PICK s : panel' = View(panel.open, {c.reply.macs}, s, s, None, TRUE)
        BY <3>2, PanelNow DEF Selecting, View
      <4>. QED
        BY <2>2, <4>1, ViewIs
    <3>3. CASE panel' = [panel EXCEPT !.index = {c.reply.macs}, !.selected = None,
                                      !.timeline = IF panel.selected # None THEN None ELSE @, !.loading = FALSE]
      <4>1. PICK t : /\ panel' = View(panel.open, {c.reply.macs}, panel.query, None, t, FALSE)
                     /\ t = IF panel.selected # None THEN None ELSE panel.timeline
        BY <3>3, PanelNow DEF View
      <4>2. t = None
        BY <4>1, PanelNow
      <4>. QED
        BY <2>2, <4>1, <4>2, ViewIs
    <3>. QED
      BY <2>4, <3>1, <3>2, <3>3
  <2>. QED
    BY <1>2, <2>1, <2>3, <2>5, BecomesQuietly
<1>4. CASE TimelineReturns(c, ok)
  <2>1. shown' = (IF Wanted(c) /\ ok THEN Shows({"timeline"}, c) ELSE shown) /\ Becomes(c, {})
    BY <1>4 DEF TimelineReturns
  <2>2. ShownNext
    BY <1>1, <1>2, <2>1, ShownStays, ShownRead
  <2>3. PICK t, l : /\ panel' = View(panel.open, panel.index, panel.query, panel.selected, t, l)
                    /\ t = IF Wanted(c) /\ ok THEN c.arg ELSE panel.timeline
    BY <1>4, PanelNow DEF TimelineReturns, View
  <2>4. t \in {None, panel.selected}
    BY <2>3, PanelNow DEF Wanted
  <2>5. PageKept /\ Quiet({})
    BY <2>2, <2>3, <2>4, ViewIs DEF Quiet
  <2>. QED
    BY <1>2, <2>1, <2>5, BecomesQuietly
<1>. QED
  BY <1>3, <1>4
-----------------------------------------------------------------------------
\* The page is loaded.
LEMMA InvInit == Init => Inv
<1>. SUFFICES ASSUME Init PROVE Inv
  OBVIOUS
<1>. DEFINE a == Ask("loading", 0, None, {"boot"})
<1>1. Timely(a, 0) /\ ~Follower(a)
  BY Asks
<1>2. calls = SetToBag({a}) /\ epoch = 0 /\ scanning = FALSE
  BY DEF Init
<1>. HIDE DEF a
<1>3. IsABag(calls) /\ DOMAIN calls = {a}
  BY <1>2 DEF IsABag, SetToBag
<1>4. Polling = {}
  BY <1>1, <1>3 DEF Polling, BagToSet, Follower
<1>5. Captured /\ Followed
  BY <1>1, <1>2, <1>3, <1>4 DEF Captured, Followed
<1>6. Typed /\ TimelineIsOfSelected
  <2>1. shown = [p \in Part |-> shown[p]]
    BY DEF Init
  <2>2. panel = View(FALSE, {}, None, None, None, FALSE)
    BY DEF Init, View
  <2>3. panel.timeline = None /\ panel = View(panel.open, panel.index, panel.query, panel.selected, panel.timeline, panel.loading)
    BY <2>2 DEF View
  <2>. QED
    BY <1>2, <1>3, <2>1, <2>3 DEF Typed, TimelineIsOfSelected, View
<1>. QED
  BY <1>5, <1>6 DEF Inv

\* Each step keeps the invariant, and applies no answer of an earlier epoch.
LEMMA InvNext == Inv /\ [Next]_vars => Kept
<1>. SUFFICES ASSUME Inv, [Next]_vars PROVE Kept
  OBVIOUS
<1>1. CASE Begins
  BY <1>1, BeginsStep
<1>2. ASSUME NEW name \in At, Return(name) PROVE Kept
  <2>1. PICK c \in DOMAIN calls, ok \in BOOLEAN : Returned(c, ok)
    BY <1>2 DEF Return, BagToSet
  <2>2. CASE LoadReturns(c, ok)
    BY <2>2, LoadStep
  <2>3. CASE PollReturns(c, ok) \/ FetchReturns(c, ok) \/ StartReturns(c, ok)
    BY <2>3, ScanReturns
  <2>4. CASE \/ LaunchReturns(c, ok) \/ RefreshReturns(c, ok) \/ ScheduleReturns(c, ok) \/ EditReturns(c, ok)
             \/ ReadReturns(c, ok) \/ CancelReturns(c, ok) \/ PreviewReturns(c, ok) \/ ReplaceReturns(c, ok)
    BY <2>4, UserReturns
  <2>5. CASE IndexReturns(c, ok) \/ TimelineReturns(c, ok)
    BY <2>5, PanelReturns
  <2>. QED
    BY <2>1, <2>2, <2>3, <2>4, <2>5 DEF Returned
<1>3. CASE Answers \/ JobEnds \/ OtherStarts
  BY <1>3, ServerStep
<1>4. CASE UNCHANGED vars
  BY <1>4, Idle DEF vars
<1>. QED
  BY <1>1, <1>2, <1>3, <1>4 DEF Next

\* The invariant holds of every state.
LEMMA InvHolds == Spec => []Inv
<1>1. Inv /\ [Next]_vars => Inv'
  BY InvNext DEF Kept
<1>. QED
  BY <1>1, InvInit, PTL DEF Spec
-----------------------------------------------------------------------------
\* RST-05: no answer to a request that was sent before an import or reset was begun is
\* shown afterwards in a part of the page (those of Part, which the bar of a scan is not).
THEOREM NothingOldIsShown == Spec => OldAnswersStayOut
<1>1. Inv /\ [Next]_vars => [OldAnswerChangesNothing]_vars
  BY InvNext DEF Kept
<1>. QED
  BY <1>1, InvHolds, PTL DEF Spec, OldAnswersStayOut

\* The timeline on the page is the one of the selected address.
THEOREM ShowsTheSelected == Spec => []TimelineIsOfSelected
<1>1. Inv => TimelineIsOfSelected
  BY DEF Inv
<1>. QED
  BY <1>1, InvHolds, PTL
-----------------------------------------------------------------------------
\* The sum over no call, or over one that is in the bag once.
LEMMA AtMostOnce ==
    ASSUME Polling = {} \/ \E c : Polling = {c} /\ calls[c] = 1
    PROVE  MapThenSumSet(LAMBDA c : calls[c], Polling) <= 1
<1>. DEFINE S == Polling
            Rec(f) == [s \in SUBSET S |-> IF s = {} THEN 0 ELSE calls[CHOOSE x \in s : TRUE] + f[s \ {CHOOSE x \in s : TRUE}]]
            sum == CHOOSE f : f = Rec(f)
            few == [s \in SUBSET S |-> IF s = {} THEN 0 ELSE 1]
<1>1. (MapThenSumSet(LAMBDA c : calls[c], Polling) <= 1) <=> (sum[S] <= 1)
  BY DEF MapThenSumSet, MapThenFoldSet
<1>. HIDE DEF S
<1>2. ASSUME NEW s \in SUBSET S, s # {} PROVE s = S /\ calls[CHOOSE x \in s : TRUE] = 1 /\ s \ {CHOOSE x \in s : TRUE} = {}
  <2>1. PICK x : S = {x} /\ calls[x] = 1
    BY <1>2 DEF S
  <2>2. s = {x}
    BY <1>2, <2>1
  <2>3. (CHOOSE y \in s : TRUE) = x
    BY <2>2
  <2>. QED
    BY <2>1, <2>2, <2>3
<1>3. few = Rec(few)
  <2>1. {} \in SUBSET S /\ few[{}] = 0
    OBVIOUS
  <2>2. ASSUME NEW s \in SUBSET S PROVE few[s] = Rec(few)[s]
    <3>1. CASE s = {}
      BY <3>1
    <3>2. CASE s # {}
      BY <1>2, <2>1, <3>2
    <3>. QED
      BY <3>1, <3>2
  <2>. QED
    BY <2>2
<1>4. sum = Rec(sum)
  BY <1>3
<1>5. \A s \in SUBSET S : sum[s] = IF s = {} THEN 0 ELSE calls[CHOOSE x \in s : TRUE] + sum[s \ {CHOOSE x \in s : TRUE}]
  BY <1>4
<1>. HIDE DEF sum
<1>6. sum[{}] = 0
  BY <1>5
<1>7. sum[S] <= 1
  <2>1. CASE S = {}
    BY <1>6, <2>1
  <2>2. CASE S # {}
    <3>1. sum[S] = calls[CHOOSE x \in S : TRUE] + sum[S \ {CHOOSE x \in S : TRUE}]
      BY <1>5, <2>2
    <3>2. calls[CHOOSE x \in S : TRUE] = 1 /\ S \ {CHOOSE x \in S : TRUE} = {}
      BY <1>2, <2>2
    <3>3. sum[S] = 1 + 0
      BY <1>6, <3>1, <3>2
    <3>. QED
      BY <3>3
  <2>. QED
    BY <2>1, <2>2
<1>. QED
  BY <1>1, <1>7

\* UI-04: the page takes part in a scan exactly as long as one of its handlers does, and
\* in the job that this one follows.
THEOREM OneFollows == Spec => []OnePoller
<1>1. ASSUME Inv PROVE OnePoller
  <2>1. (scanning <=> Polling # {}) /\ \A c \in Polling : c.at # "starting" => c.arg = scanJob /\ c.epoch = epoch
    BY <1>1 DEF Inv, Followed, Follows
  <2>2. Polling = {} \/ \E c : Polling = {c} /\ calls[c] = 1
    BY <1>1 DEF Inv, Followed
  <2>3. MapThenSumSet(LAMBDA c : calls[c], Polling) <= 1
    BY <2>2, AtMostOnce
  <2>. QED
    BY <2>1, <2>3 DEF OnePoller
<1>. QED
  BY <1>1, InvHolds, PTL
=============================================================================
