--------------------------- MODULE CaptureSession ---------------------------
(***************************************************************************)
(* One capture of one page (CaptureSession in webshotd/src/crawler/        *)
(* runner.cpp): the capture task that sets the page up, navigates, waits,  *)
(* reads and tears down, and the event loop task that feeds the page       *)
(* tracker, answers intercepted requests and wakes the capture task.       *)
(*                                                                         *)
(* The tasks share the tracker, the interception error and the progress    *)
(* counter, each behind its own lock; a step is one critical section or    *)
(* one answered command.  A command always returns (CdpClient.tla): with a *)
(* result, or with an error, which is the only outcome once the connection *)
(* is broken.  progress->version is only compared with the value the       *)
(* current iteration of a wait has read, so it is kept as progressed: the  *)
(* counter moved since.  A failed Invariant ends the process: aborted.     *)
(***************************************************************************)
EXTENDS PageTracker, PageSession

CONSTANTS
    MaxRedirects,   \* bound of the redirects and the authentication challenges
    NetIdleWait,    \* whether a wait for network idle is configured
    Misbehaves      \* whether the browser may send events that do not parse, or that
                    \* leave out an optional field that a handler needs

ASSUME CaptureAssumption ==
    /\ MaxRedirects \in Nat /\ NetIdleWait \in BOOLEAN /\ Misbehaves \in BOOLEAN
    /\ None \notin Pages

Waits == {"load", "idle", "main"}
SetupPhases == {"connect", "context", "target", "attach", "enable", "setup",
                "navigate", "navigating"}
Phases == SetupPhases \cup Waits \cup
          {"behavior", "delay", "read", "body", "resources", "stop loop", "stop page",
           "exchange", "finish", "fail", "clean up", "stop cdp", "captured", "failed"}
Ended == {"captured", "failed"}

WaitSteps == {"test", "error", "version", "retest", "reerror", "sleep",
              "late test", "late error", "final error"}
LoopSteps == {"none", "check", "wait", "send", "note", "fail", "progress", "ended"}

VARIABLES
    phase,       \* the capture task
    wait,        \* its step inside WaitForPredicate or WaitForIdle
    cdp,         \* cdp_ is set
    page,        \* page_session_: a page, or None
    tracker,     \* tracker_: a tracker, or None
    loop,        \* the event loop task
    paused,      \* the intercepted request it is answering
    stopping,    \* stopping_event_loop_
    interception,\* interception_error_ is set
    progressed,  \* event_progress_ moved since the wait read it
    timedOut,    \* deadline_ has passed
    aborted,     \* the Invariant that failed, or None
    \* the browser
    broken,      \* the connection has a fatal error
    gone,        \* the target is: no command of its session succeeds
    navigated,   \* Page.navigate has arrived
    seedMatches, \* the seed request is sent with the seed URL
    net,         \* what it has emitted for each request
    held,        \* requests held until Fetch.continueRequest
    redirects

taskVars == <<phase, wait, cdp, page, timedOut>>
loopVars == <<loop, paused>>
sharedVars == <<tracker, stopping, interception, progressed>>
browserVars == <<broken, gone, navigated, seedMatches, net, held, redirects>>
vars == <<phase, wait, cdp, page, tracker, loop, paused, stopping, interception,
          progressed, timedOut, aborted, broken, gone, navigated, seedMatches, net, held,
          redirects>>

TaskTypeOK ==
    /\ phase \in Phases /\ wait \in WaitSteps /\ cdp \in BOOLEAN /\ timedOut \in BOOLEAN
    /\ page \in Pages \cup {None}

LoopTypeOK ==
    /\ loop \in LoopSteps /\ paused \in Requests \cup {None}
    /\ tracker \in Trackers \cup {None} /\ stopping \in BOOLEAN /\ interception \in BOOLEAN
    /\ progressed \in BOOLEAN
    /\ aborted \in {None, "lifecycle", "session", "seed", "redirect", "exchange"}

BrowserTypeOK ==
    /\ broken \in BOOLEAN /\ gone \in BOOLEAN /\ navigated \in BOOLEAN /\ seedMatches \in BOOLEAN
    /\ net \in [Requests -> {"unsent", "sent", "answered", "ended"}]
    /\ held \subseteq Requests /\ redirects \in 0..MaxRedirects

TypeOK == TaskTypeOK /\ LoopTypeOK /\ BrowserTypeOK

Init ==
    /\ phase = "connect" /\ wait = "test" /\ cdp = FALSE /\ page = None /\ tracker = None
    /\ loop = "none" /\ paused = None /\ stopping = FALSE /\ interception = FALSE
    /\ progressed = FALSE /\ timedOut = FALSE /\ aborted = None
    /\ broken = FALSE /\ gone = FALSE /\ navigated = FALSE /\ seedMatches \in BOOLEAN
    /\ net = [r \in Requests |-> "unsent"] /\ held = {} /\ redirects = 0

CurrentWaitError == interception \/ (tracker # None /\ tracker.error)

HasSession == page # None /\ page.session

\* Commands of the connection, and of the target's session, can succeed.
Reachable == ~broken
SessionReachable == ~broken /\ ~gone

-----------------------------------------------------------------------------
(* The capture task: a step is a command that returns, or a critical       *)
(* section.                                                                *)

Abort(why) ==
    /\ aborted' = why
    /\ UNCHANGED <<taskVars, loopVars, sharedVars, browserVars>>

Go(p) == phase' = p /\ UNCHANGED <<wait, timedOut>>

\* Start and CaptureAttachedTarget return early: Capture calls StopCdpForError.
Failure == Go("fail") /\ UNCHANGED <<cdp, page, tracker>>

ConnectCdp ==
    /\ phase = "connect"
    /\ \/ Failure
       \/ Go("context") /\ cdp' = TRUE /\ page' = NewPage /\ UNCHANGED tracker
    /\ UNCHANGED <<loopVars, stopping, interception, progressed, aborted, browserVars>>

\* A command of the page session followed by its lifecycle mark.
PageCommand(event, next) ==
    \/ Failure /\ UNCHANGED aborted
    \/ /\ Reachable /\ Accepts(page.state, event)
       /\ Go(next) /\ page' = Mark(page, event)
       /\ UNCHANGED <<cdp, tracker, aborted>>
    \/ /\ Reachable /\ ~Accepts(page.state, event)
       /\ aborted' = "lifecycle" /\ UNCHANGED <<taskVars, tracker>>

MakeBrowserContext ==
    /\ phase = "context" /\ PageCommand("context created", "target")
    /\ UNCHANGED <<loopVars, stopping, interception, progressed, browserVars>>

MakeBlankTarget ==
    /\ phase = "target" /\ PageCommand("target created", "attach")
    /\ UNCHANGED <<loopVars, stopping, interception, progressed, browserVars>>

\* AttachToTarget, the tracker's construction and StartEventLoop.
AttachToTarget ==
    /\ phase = "attach"
    /\ \/ /\ Failure /\ UNCHANGED <<loop, stopping, aborted>>
       \/ /\ Reachable /\ Accepts(page.state, "attached")
          /\ Go("enable") /\ page' = Mark(page, "attached") /\ tracker' = NewTracker
          /\ stopping' = FALSE /\ loop' = "check" /\ UNCHANGED <<cdp, aborted>>
       \/ /\ Reachable /\ ~Accepts(page.state, "attached")
          /\ aborted' = "lifecycle" /\ UNCHANGED <<taskVars, tracker, loop, stopping>>
    /\ UNCHANGED <<paused, interception, progressed, browserVars>>

EnableBaseDomains ==
    /\ phase = "enable"
    /\ \/ SessionReachable /\ PageCommand("enabled", "setup")
       \/ ~SessionReachable /\ Failure /\ UNCHANGED aborted
    /\ UNCHANGED <<loopVars, stopping, interception, progressed, browserVars>>

\* Fetch.enable to Page.getFrameTree: commands only.  The seed URL may be too long.
SetUpTarget ==
    /\ phase = "setup"
    /\ \/ Failure
       \/ SessionReachable /\ Go("navigate") /\ UNCHANGED <<cdp, page, tracker>>
    /\ UNCHANGED <<loopVars, stopping, interception, progressed, aborted, browserVars>>

\* BeginSeedNavigation, then Page.navigate is sent.
Navigate ==
    /\ phase = "navigate"
    /\ Go("navigating") /\ tracker' = BeginSeedNavigation(tracker)
    /\ navigated' = SessionReachable
    /\ UNCHANGED <<loopVars, cdp, page, stopping, interception, progressed, aborted,
                   broken, gone, seedMatches, net, held, redirects>>

\* The answer may carry the loader id, and may come before or after the request's events.
NavigateAnswered ==
    /\ phase = "navigating"
    /\ \/ Failure
       \/ /\ SessionReachable /\ phase' = "load" /\ wait' = "test"
          /\ \E loader \in {None, Seed} :
                tracker' = SetExpectedMainLoaderId(tracker, loader)
          /\ UNCHANGED <<cdp, page, timedOut>>
    /\ UNCHANGED <<loopVars, stopping, interception, progressed, aborted, browserVars>>

-----------------------------------------------------------------------------
(* WaitForPredicate and WaitForIdle.                                       *)

Predicate ==
    CASE phase = "load" -> IsLoadedOrFailed(tracker)
      [] phase = "idle" -> IsIdle(tracker)
      [] phase = "main" -> HasMainDocumentOrError(tracker)

AfterWait ==
    CASE phase = "load" -> "behavior"
      [] phase = "idle" -> "delay"
      [] phase = "main" -> "read"

WaitReturns == phase' = AfterWait /\ wait' = "test"
WaitFails == phase' = "fail" /\ wait' = "test"
WaitGoesTo(step) == phase' = phase /\ wait' = step

\* One step of the loop of either function; WaitUntil ends at a notification, at the
\* deadline or, when waiting for idle, once the idle time has passed.
WaitStep ==
    \/ wait = "test" /\ IF Predicate THEN WaitGoesTo("final error") ELSE WaitGoesTo("error")
    \/ wait = "error" /\ IF CurrentWaitError THEN WaitFails ELSE WaitGoesTo("version")
    \/ wait = "retest" /\ IF Predicate THEN WaitReturns ELSE WaitGoesTo("reerror")
    \/ wait = "reerror" /\ IF CurrentWaitError THEN WaitFails ELSE WaitGoesTo("sleep")
    \/ wait = "sleep" /\ progressed /\ WaitGoesTo("test")
    \/ /\ wait = "sleep" /\ (timedOut \/ (phase = "idle" /\ tracker.quiet))
       /\ WaitGoesTo("late test")
    \/ wait = "late test" /\ IF Predicate THEN WaitReturns ELSE WaitGoesTo("late error")
    \/ /\ wait = "late error"
       /\ IF CurrentWaitError \/ phase # "idle" \/ timedOut
          THEN WaitFails ELSE WaitGoesTo("test")
    \/ wait = "final error" /\ IF CurrentWaitError THEN WaitFails ELSE WaitReturns

\* Mutant: the version is read only once the predicate has been tested.
ReadVersionLate ==
    \/ wait = "version" /\ WaitGoesTo("retest") /\ UNCHANGED progressed
    \/ wait = "sleep" /\ progressed /\ progressed' = FALSE /\ WaitGoesTo("sleep")

\* The version is read under its lock, before the predicate is tested again.
ReadVersion == wait = "version" /\ progressed' = FALSE /\ WaitGoesTo("retest")

WaitForPredicate ==
    /\ phase \in Waits
    /\ \/ WaitStep /\ UNCHANGED progressed
       \/ ReadVersion
    /\ UNCHANGED <<loopVars, cdp, page, tracker, stopping, interception, timedOut, aborted,
                   browserVars>>

-----------------------------------------------------------------------------
\* The post-load delay and the scrolling command; each may be configured away.
RunSiteBehavior ==
    /\ phase = "behavior"
    /\ \/ Failure
       \/ /\ Go(IF NetIdleWait THEN "idle" ELSE "delay")
          /\ UNCHANGED <<cdp, page, tracker>>
    /\ UNCHANGED <<loopVars, stopping, interception, progressed, aborted, browserVars>>

ExtraDelay ==
    /\ phase = "delay"
    /\ \/ timedOut /\ Failure
       \/ Go("main") /\ UNCHANGED <<cdp, page, tracker>>
    /\ UNCHANGED <<loopVars, stopping, interception, progressed, aborted, browserVars>>

\* What the page has become; the command must succeed.
ReadDomState ==
    /\ phase = "read"
    /\ \/ Failure
       \/ SessionReachable /\ Go("body") /\ UNCHANGED <<cdp, page, tracker>>
    /\ UNCHANGED <<loopVars, stopping, interception, progressed, aborted, browserVars>>

\* A body that cannot be read or decoded is left empty; one too many for the budget fails.
ReadBody ==
    /\ phase = "body"
    /\ \/ Failure
       \/ Go("resources") /\ UNCHANGED <<cdp, page, tracker>>
    /\ UNCHANGED <<loopVars, stopping, interception, progressed, aborted, browserVars>>

\* The bodies of what the tracker knew when the reading began, on the same terms.
ReadResources ==
    /\ phase = "resources"
    /\ \/ Failure
       \/ Go("stop loop") /\ UNCHANGED <<cdp, page, tracker>>
    /\ UNCHANGED <<loopVars, stopping, interception, progressed, aborted, browserVars>>

ReadPage == ReadDomState \/ ReadBody \/ ReadResources

\* StopEventLoop: store, cancel, and wait for the task.
RequestStop ==
    /\ phase \in {"stop loop", "fail"} /\ ~stopping
    /\ stopping' = TRUE
    /\ UNCHANGED <<taskVars, loopVars, tracker, interception, progressed, aborted, browserVars>>

\* Mutant: does not wait for the task.
JoinNothing ==
    /\ phase \in {"stop loop", "fail"} /\ stopping
    /\ Go(IF phase = "fail" THEN "clean up" ELSE "stop page")
    /\ UNCHANGED <<cdp, page, tracker, loop, paused, stopping, interception, progressed,
                   aborted, browserVars>>

\* The event loop task is joined, if it was started.
JoinEventLoop ==
    /\ phase \in {"stop loop", "fail"} /\ stopping /\ loop \in {"none", "ended"}
    /\ Go(IF phase = "fail" THEN "clean up" ELSE "stop page")
    /\ loop' = "none"
    /\ UNCHANGED <<cdp, page, tracker, paused, stopping, interception, progressed, aborted,
                   browserVars>>

\* One step of BrowserPageSession::Stop succeeds.  The page is gone after the last one.
StopPageStep(next) ==
    LET event == NextStopEvent(page) IN
    IF ~Accepts(page.state, event)
    THEN aborted' = "lifecycle" /\ UNCHANGED <<phase, page>>
    ELSE /\ UNCHANGED aborted
         /\ IF event = "stopped" THEN phase' = next /\ page' = None
                                 ELSE phase' = phase /\ page' = Mark(page, event)

\* The commands fail when the connection is broken, and may fail when it is not.
StopPage ==
    /\ phase = "stop page"
    /\ \/ Failure /\ NextStopEvent(page) # "stopped" /\ UNCHANGED aborted
       \/ /\ Reachable \/ NextStopEvent(page) = "stopped"
          /\ StopPageStep("exchange") /\ UNCHANGED <<wait, timedOut, cdp, tracker>>
    /\ UNCHANGED <<loopVars, stopping, interception, progressed, browserVars>>

MakeExchange ==
    /\ phase = "exchange"
    /\ IF HasMainResponse(tracker)
       THEN Go("finish") /\ tracker' = None /\ cdp' = FALSE /\ UNCHANGED <<page, aborted>>
       ELSE aborted' = "exchange" /\ UNCHANGED <<taskVars, tracker>>
    /\ UNCHANGED <<loopVars, stopping, interception, progressed, browserVars>>

\* The proxy's error fails a capture whose main document has no success status.
FinishCapture ==
    /\ phase = "finish"
    /\ \/ Failure
       \/ Go("captured") /\ UNCHANGED <<cdp, page, tracker>>
    /\ UNCHANGED <<loopVars, stopping, interception, progressed, aborted, browserVars>>

\* Mutant: tries again until the page stops.
CleanUpPageRetries ==
    /\ phase = "clean up"
    /\ \/ page = None /\ Go("stop cdp") /\ UNCHANGED <<page, aborted>>
       \/ /\ page # None /\ (Reachable \/ NextStopEvent(page) = "stopped")
          /\ StopPageStep("stop cdp") /\ UNCHANGED <<wait, timedOut>>
       \/ page # None /\ UNCHANGED <<phase, wait, timedOut, page, aborted>>
    /\ UNCHANGED <<loopVars, cdp, tracker, stopping, interception, progressed, browserVars>>

\* StopCdpForError after StopEventLoop: the page's stop errors are suppressed.
CleanUpPage ==
    /\ phase = "clean up"
    /\ \/ page = None /\ Go("stop cdp") /\ UNCHANGED <<page, aborted>>
       \/ /\ page # None /\ NextStopEvent(page) # "stopped"
          /\ Go("stop cdp") /\ page' = None /\ UNCHANGED aborted
       \/ /\ page # None /\ (Reachable \/ NextStopEvent(page) = "stopped")
          /\ StopPageStep("stop cdp") /\ UNCHANGED <<wait, timedOut>>
    /\ UNCHANGED <<loopVars, cdp, tracker, stopping, interception, progressed, browserVars>>

StopCdp ==
    /\ phase = "stop cdp"
    /\ Go("failed") /\ cdp' = FALSE
    /\ UNCHANGED <<loopVars, page, tracker, stopping, interception, progressed, aborted,
                   browserVars>>

-----------------------------------------------------------------------------
(* The event loop task.                                                    *)

LoopGoesTo(step) == loop' = step /\ UNCHANGED paused

\* The loop's two conditions (only the loop sets an error, so they are one step), then
\* GetSession: the page and its session must still be there.
CheckStopping ==
    /\ loop = "check"
    /\ IF stopping \/ CurrentWaitError THEN LoopGoesTo("ended") /\ UNCHANGED aborted
       ELSE IF HasSession THEN LoopGoesTo("wait") /\ UNCHANGED aborted
       ELSE aborted' = "session" /\ UNCHANGED loopVars
    /\ UNCHANGED <<taskVars, sharedVars, browserVars>>

\* WaitEvent returns an error: deadline, fatal error or cancellation.
LoseEvents ==
    /\ loop = "wait" /\ (timedOut \/ broken \/ stopping)
    /\ LoopGoesTo(IF stopping THEN "ended" ELSE "note")
    /\ UNCHANGED <<taskVars, sharedVars, aborted, browserVars>>

\* NoteInterceptionError keeps the first error and passes it to the tracker.
NoteInterceptionError ==
    \/ /\ loop = "note"
       /\ interception' = TRUE /\ LoopGoesTo(IF interception THEN "progress" ELSE "fail")
       /\ UNCHANGED <<taskVars, tracker, stopping, progressed, aborted, browserVars>>
    \/ /\ loop = "fail"
       /\ tracker' = Fail(tracker) /\ LoopGoesTo("progress")
       /\ UNCHANGED <<taskVars, stopping, interception, progressed, aborted, browserVars>>

NoteEventProgress ==
    /\ loop = "progress"
    /\ progressed' = TRUE /\ LoopGoesTo("check")
    /\ UNCHANGED <<taskVars, tracker, stopping, interception, aborted, browserVars>>

\* The command that answers the intercepted request returns: continued, or
\* fulfilled with 403 when the access policy denies it; or it fails.
AnswerPaused ==
    /\ loop = "send"
    /\ \/ ~HasSession /\ aborted' = "session" /\ UNCHANGED <<loopVars, held>>
       \/ HasSession /\ loop' = "note" /\ paused' = None /\ UNCHANGED <<aborted, held>>
       \/ /\ HasSession /\ SessionReachable
          /\ loop' = "progress" /\ paused' = None /\ held' = held \ {paused}
          /\ UNCHANGED aborted
    /\ UNCHANGED <<taskVars, sharedVars, broken, gone, navigated, seedMatches, net, redirects>>

-----------------------------------------------------------------------------
(* An event of the browser, taken by the event loop.  The browser holds a  *)
(* request from its first event until the interception is answered.        *)

TakeEvent == loop = "wait" /\ SessionReachable

Receive(t) ==
    /\ loop' = "progress" /\ tracker' = t
    /\ UNCHANGED <<taskVars, paused, stopping, interception, progressed, aborted,
                   broken, gone, navigated, seedMatches>>

\* Whether an event of r is a main frame's document request, and has the seed URL.
IsMainDocument(r) == IF r = Seed THEN {TRUE} ELSE BOOLEAN
MatchesSeedUrl(r) == IF r = Seed THEN {seedMatches} ELSE BOOLEAN

RequestWillBeSent(r) ==
    /\ TakeEvent /\ navigated /\ net[r] = "unsent"
    /\ r # Seed => net[Seed] \in {"answered", "ended"}
    /\ \E main \in IsMainDocument(r), matches \in MatchesSeedUrl(r) :
        \/ main /\ ~tracker.started /\ Abort("seed")
        \/ /\ main => tracker.started
           /\ Receive(HandleRequestWillBeSent(tracker, r, main, matches, FALSE))
           /\ net' = [net EXCEPT ![r] = "sent"] /\ held' = held \cup {r}
           /\ UNCHANGED redirects

\* The same id again, with the response that redirects it; FinalizeRedirectRequest
\* insists that the response has a status.
Redirected(r) ==
    /\ TakeEvent /\ net[r] = "sent" /\ r \notin held /\ redirects < MaxRedirects
    /\ \E main \in IsMainDocument(r), matches \in BOOLEAN :
        \/ main /\ ~tracker.started /\ Abort("seed")
        \/ /\ main => tracker.started
           /\ Misbehaves /\ IsFollowed(tracker, r, main, matches) /\ Abort("redirect")
        \/ /\ main => tracker.started
           /\ Receive(HandleRequestWillBeSent(tracker, r, main, matches, TRUE))
           /\ held' = held \cup {r} /\ redirects' = redirects + 1
           /\ UNCHANGED net

RequestPaused(r) ==
    /\ TakeEvent /\ r \in held
    /\ loop' = "send" /\ paused' = r
    /\ UNCHANGED <<taskVars, sharedVars, aborted, browserVars>>

\* The server or the proxy challenges a request that was let through.
AuthRequired(r) ==
    /\ TakeEvent /\ net[r] = "sent" /\ r \notin held /\ redirects < MaxRedirects
    /\ loop' = "send" /\ paused' = r
    /\ held' = held \cup {r} /\ redirects' = redirects + 1
    /\ UNCHANGED <<taskVars, sharedVars, aborted, broken, gone, navigated, seedMatches, net>>

ResponseReceived(r) ==
    /\ TakeEvent /\ net[r] = "sent" /\ r \notin held
    /\ Receive(HandleResponseReceived(tracker, r))
    /\ net' = [net EXCEPT ![r] = "answered"] /\ UNCHANGED <<held, redirects>>

LoadingFinished(r) ==
    /\ TakeEvent /\ net[r] = "answered"
    /\ Receive(HandleLoadingFinished(tracker, r))
    /\ net' = [net EXCEPT ![r] = "ended"] /\ UNCHANGED <<held, redirects>>

LoadingFailed(r) ==
    /\ TakeEvent /\ net[r] \in {"sent", "answered"}
    /\ Receive(HandleLoadingFailed(tracker, r))
    /\ net' = [net EXCEPT ![r] = "ended"] /\ held' = held \ {r}
    /\ UNCHANGED redirects

\* Also the blank page's own load event, once the Page domain is enabled.
LoadEventFired ==
    /\ TakeEvent /\ ~tracker.loaded
    /\ Receive(HandleLoadEventFired(tracker)) /\ UNCHANGED <<net, held, redirects>>

\* Target crashed, detached or destroyed, or inspector detached.
TargetGone ==
    /\ TakeEvent
    /\ loop' = "progress" /\ tracker' = Fail(tracker) /\ gone' = TRUE
    /\ UNCHANGED <<taskVars, paused, stopping, interception, progressed, aborted,
                   broken, navigated, seedMatches, net, held, redirects>>

\* ParseEventParams fails: an error of the tracker, or of the interception.
UnparsedEvent ==
    /\ Misbehaves /\ TakeEvent
    /\ \/ Receive(Fail(tracker)) /\ UNCHANGED <<net, held, redirects>>
       \/ LoopGoesTo("note") /\ UNCHANGED <<taskVars, sharedVars, aborted, browserVars>>

-----------------------------------------------------------------------------
(* The environment.                                                        *)

ConnectionBreaks ==
    /\ cdp /\ ~broken /\ broken' = TRUE
    /\ UNCHANGED <<taskVars, loopVars, sharedVars, aborted, gone, navigated, seedMatches, net, held,
                   redirects>>

DeadlinePasses ==
    /\ ~timedOut /\ phase \notin Ended /\ timedOut' = TRUE
    /\ UNCHANGED <<phase, wait, cdp, page, loopVars, sharedVars, aborted, browserVars>>

\* The configured idle time passes without network activity; only WaitForIdle looks.
IdleTimePasses ==
    /\ phase = "idle" /\ ~tracker.quiet
    /\ tracker' = [tracker EXCEPT !.quiet = TRUE]
    /\ UNCHANGED <<taskVars, loopVars, stopping, interception, progressed, aborted, browserVars>>

CaptureTask ==
    \/ ConnectCdp \/ MakeBrowserContext \/ MakeBlankTarget \/ AttachToTarget
    \/ EnableBaseDomains \/ SetUpTarget \/ Navigate \/ NavigateAnswered
    \/ WaitForPredicate \/ RunSiteBehavior \/ ExtraDelay \/ ReadPage \/ RequestStop \/ JoinEventLoop
    \/ StopPage \/ MakeExchange \/ FinishCapture \/ CleanUpPage \/ StopCdp

EventLoopTask ==
    \/ CheckStopping \/ LoseEvents \/ NoteInterceptionError \/ NoteEventProgress
    \/ AnswerPaused

BrowserEvent ==
    \/ \E r \in Requests :
        \/ RequestWillBeSent(r) \/ Redirected(r) \/ RequestPaused(r) \/ AuthRequired(r)
        \/ ResponseReceived(r) \/ LoadingFinished(r) \/ LoadingFailed(r)
    \/ LoadEventFired \/ TargetGone \/ UnparsedEvent

Terminated == phase \in Ended \/ aborted # None

Next ==
    \/ /\ aborted = None
       /\ \/ CaptureTask \/ EventLoopTask \/ BrowserEvent
          \/ ConnectionBreaks \/ DeadlinePasses \/ IdleTimePasses
    \/ Terminated /\ UNCHANGED vars

\* Both tasks run, a command returns, and the run's deadline passes.
Fairness ==
    /\ WF_vars(aborted = None /\ CaptureTask)
    /\ WF_vars(aborted = None /\ EventLoopTask)
    /\ WF_vars(aborted = None /\ DeadlinePasses)

Spec == Init /\ [][Next]_vars

FairSpec == Spec /\ Fairness

-----------------------------------------------------------------------------
(* Properties.                                                             *)

\* Two Invariants of the capture can fail: the one on the main response, in MakeExchange,
\* and, by the browser's doing alone, the one on a redirect response without a status.
\* The page's lifecycle accepts every transition after any partial failure, the event loop
\* never outlives the session it uses, and no document request, redirected or not,
\* precedes the seed navigation.
AbortsAreKnown ==
    aborted \in {None, "exchange"} \/ (Misbehaves /\ aborted = "redirect")

\* The event loop runs only while the objects it dereferences exist: StopEventLoop joins
\* it before the page session, the tracker or the connection are taken away.
TeardownOrder ==
    loop \notin {"none", "ended"} => cdp /\ tracker # None /\ HasSession

\* A capture task asleep at the current version, with no event in the loop's hands, has
\* nothing to wake up for: no change of the tracker or of the error goes unnoticed.
NoLostWakeup ==
    (/\ phase \in {"load", "main"} /\ wait = "sleep" /\ ~progressed /\ ~timedOut
     /\ loop \notin {"note", "fail", "progress"})
        => ~Predicate /\ ~CurrentWaitError

\* With the seed URL requested verbatim, what is captured is the seed navigation's
\* document, however the answer to Page.navigate and later navigations interleave.
CapturesTheSeed ==
    seedMatches /\ tracker # None =>
        tracker.mainId \in {None, Seed} /\ tracker.mainLoader \in {None, Seed}

\* WaitForPredicate's promise to MakeExchange: a main response, unless an error was noted.
MainResponseUnlessError ==
    phase \in {"read", "body", "resources", "stop loop", "stop page", "exchange"} =>
        HasMainResponse(tracker) \/ CurrentWaitError

\* Waiting for the network to go idle watches exactly the requests under way, in a state
\* that is well formed.
InflightIsExact ==
    /\ TypeOK
    /\ tracker # None => tracker.inflight = {r \in Requests : net[r] \in {"sent", "answered"}}

\* The assertion "missing main response while building exchange": an exchange is only
\* built when the main document has answered.
ExchangeHasResponse == phase = "exchange" => HasMainResponse(tracker)

\* Every capture ends, whatever the browser does: captured, failed or aborted.
CaptureEnds == <>Terminated
=============================================================================
