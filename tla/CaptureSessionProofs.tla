------------------------ MODULE CaptureSessionProofs ------------------------
(***************************************************************************)
(* Theorems about CaptureSession, for every page: any set of requests, any *)
(* number of redirects, a browser that behaves or not, and every order in  *)
(* which the capture task, the event loop and the browser take their       *)
(* steps.                                                                  *)
(***************************************************************************)
EXTENDS CaptureSession, TLAPS

-----------------------------------------------------------------------------
(***************************************************************************)
(* The inductive invariant, in parts.                                      *)
(***************************************************************************)

(* The identifiers a page holds are the ones its lifecycle says it holds;  *)
(* a page that has been stopped is gone.                                   *)
PageOk(p) ==
    /\ p.state # "stopped"
    /\ p.context <=> (p.state \in {"context", "target", "attached", "enabled", "detached"})
    /\ p.target <=> (p.state \in {"target", "attached", "enabled", "detached"})
    /\ p.session <=> (p.state \in {"attached", "enabled"})

PageInv == page # None => PageOk(page)

PageTypeInv == page \in Pages \cup {None} /\ PageInv

(* The setup a phase has behind it.                                        *)
BeforeLoop == {"connect", "context", "target", "attach"}
WithPage == {"setup", "navigate", "navigating", "behavior", "delay", "read",
             "body", "resources", "stop loop"} \cup Waits

PagePhase ==
    /\ phase = "context" => page # None /\ page.state = "idle"
    /\ phase = "target" => page # None /\ page.state = "context"
    /\ phase = "attach" => page # None /\ page.state = "target"
    /\ phase = "enable" => page # None /\ page.state = "attached"
    /\ phase \in WithPage => page # None /\ page.state = "enabled"
    /\ phase = "stop page" => page # None
    /\ phase \in {"connect", "exchange", "finish", "stop cdp"} \cup Ended => page = None

ObjectPhase ==
    /\ phase \in {"context", "target", "attach", "enable", "stop page", "exchange"} \cup WithPage => cdp
    /\ phase \in {"enable", "stop page", "exchange"} \cup WithPage => tracker # None
    /\ phase \in BeforeLoop => tracker = None /\ ~navigated /\ loop = "none"

StartedPhase ==
    /\ phase \in {"enable", "setup", "navigate"} => ~navigated
    /\ navigated /\ tracker # None => tracker.started
    /\ phase \notin Waits => wait = "test"

PhaseInv == PagePhase /\ ObjectPhase /\ StartedPhase

(* The event loop is between its start and its join, and what it uses is   *)
(* there.                                                                  *)
LoopUses ==
    loop # "none" => /\ phase \in {"enable", "fail"} \cup WithPage
                     /\ cdp /\ tracker # None /\ HasSession

LoopInv == LoopUses /\ AbortsAreKnown

(* The capture task has looked since the last change the loop has told it  *)
(* of.                                                                     *)
InHand == {"note", "fail", "progress"}

WakeInv ==
    phase \in {"load", "main"} /\ ~progressed /\ loop \notin InHand
        => /\ wait \in {"reerror", "sleep"} => ~Predicate
           /\ wait = "sleep" => ~CurrentWaitError

(* A request is sent after the seed and after its navigation.              *)
NetOrder == \A r \in Requests : net[r] # "unsent" => net[Seed] # "unsent" /\ navigated

(* The main document is one that was sent, and the seed once it was.       *)
MainSent == tracker # None /\ tracker.mainId # None => net[tracker.mainId] # "unsent"

SeedLoads ==
    seedMatches /\ tracker # None /\ net[Seed] # "unsent" => tracker.mainLoader = Seed

NetInv == NetOrder /\ MainSent /\ SeedLoads

SeedInv == MainSent /\ SeedLoads /\ CapturesTheSeed

(* The tracker remembers the response of every main document.              *)
TrackerOk(t) ==
    /\ \A r \in Requests :
          t.active[r] # None /\ t.active[r].main /\ t.active[r].response => HasResponse(t.completed)
    /\ t.mainId # None => t.active[t.mainId] # None /\ t.active[t.mainId].main

TrackerInv == tracker # None => TrackerOk(tracker)

(* From the end of the wait for it on, the main document has answered.     *)
MainDue ==
    \/ phase = "main" /\ wait = "final error"
    \/ phase \in {"read", "body", "resources", "stop loop", "stop page", "exchange"}

MainInv == MainDue => HasMainResponse(tracker) \/ CurrentWaitError

InflightInv ==
    tracker # None => tracker.inflight = {r \in Requests : net[r] \in {"sent", "answered"}}

(* What no event takes away from a tracker.                                *)
Kept(t, u) ==
    /\ u \in Trackers /\ (t.started => u.started) /\ (t.error => u.error)
    /\ HasResponse(t.completed) => HasResponse(u.completed)
    /\ TrackerOk(t) => TrackerOk(u)

(* What a request that goes out makes of the main document.                *)
Follows(t, u, r, main, matches) ==
    /\ u.inflight = t.inflight \cup {r}
    /\ main /\ IsForeignDocument(t, r, matches) =>
          u.mainLoader = t.mainLoader /\ u.mainId = t.mainId
    /\ ~main => u.mainLoader = t.mainLoader /\ u.mainId \in {t.mainId, None}
    /\ main /\ ~IsForeignDocument(t, r, matches) =>
          u.mainId = r /\ u.mainLoader = IF t.mainLoader = None THEN r ELSE t.mainLoader

CaptureInv ==
    /\ TypeOK /\ PageInv /\ PhaseInv /\ LoopInv /\ WakeInv
    /\ NetInv /\ CapturesTheSeed /\ TrackerInv /\ MainInv /\ InflightInv

-----------------------------------------------------------------------------
(***************************************************************************)
(* The lifecycle of a page.                                                *)
(***************************************************************************)

(* No page is None.                                                        *)
LEMMA PagesAreThere == \A p \in Pages : p # None
BY CaptureAssumption

(* What the rows of the machine say of an event.                           *)
Row(s, e, n) ==
    /\ e = "context created" => s = "idle" /\ n = "context"
    /\ e = "target created" => s = "context" /\ n = "target"
    /\ e = "attached" => s = "target" /\ n = "attached"
    /\ e = "enabled" => s = "attached" /\ n = "enabled"
    /\ e = "detached" => \/ s \in {"attached", "enabled", "detached"} /\ n = "detached"
                         \/ s \in {"disposed", "stopped"} /\ n = s
    /\ e = "disposed" => \/ s \in {"context", "target", "detached", "disposed"} /\ n = "disposed"
                         \/ s = "stopped" /\ n = s
    /\ e = "stopped" => n = "stopped"
    /\ e \in PageEvents

(* They do.                                                                *)
LEMMA TransitionRows ==
    ASSUME NEW s, NEW e, NEW n, <<s, e, n>> \in Transitions
    PROVE  Row(s, e, n)
<1>1. \/ <<s, e, n>> \in {<<"idle", "context created", "context">>,
                           <<"context", "target created", "target">>,
                           <<"target", "attached", "attached">>, <<"attached", "enabled", "enabled">>}
      \/ \E x \in {"attached", "enabled", "detached"} : <<s, e, n>> = <<x, "detached", "detached">>
      \/ \E x \in {"disposed", "stopped"} : <<s, e, n>> = <<x, "detached", x>>
      \/ \E x \in {"context", "target", "detached", "disposed"} :
             <<s, e, n>> = <<x, "disposed", "disposed">>
      \/ <<s, e, n>> = <<"stopped", "disposed", "stopped">>
      \/ \E x \in {"idle", "disposed", "stopped"} : <<s, e, n>> = <<x, "stopped", "stopped">>
  BY DEF Transitions
<1> QED
  BY <1>1 DEF PageEvents, Row

(* A state and an event have one next state.                               *)
LEMMA TransitionsAreAFunction ==
    ASSUME NEW s, NEW e, NEW n, NEW m, <<s, e, n>> \in Transitions, <<s, e, m>> \in Transitions
    PROVE  n = m
<1>1. Row(s, e, n) /\ Row(s, e, m)
  BY TransitionRows
<1>2. CASE e \in {"context created", "target created"}
  BY <1>1, <1>2 DEF Row
<1>3. CASE e = "attached"
  BY <1>1, <1>3 DEF Row
<1>4. CASE e = "enabled"
  BY <1>1, <1>4 DEF Row
<1>5. CASE e = "detached"
  BY <1>1, <1>5 DEF Row
<1>6. CASE e = "disposed"
  BY <1>1, <1>6 DEF Row
<1>7. CASE e = "stopped"
  BY <1>1, <1>7 DEF Row
<1> QED
  BY <1>1, <1>2, <1>3, <1>4, <1>5, <1>6, <1>7 DEF PageEvents, Row

(* A transition the machine has is accepted, and keeps the identifiers in  *)
(* step with the state.                                                    *)
LEMMA MarkKeepsPage ==
    ASSUME NEW p \in Pages, PageOk(p), NEW e \in PageEvents, e # "stopped",
           NEW s \in PageStates, <<p.state, e, s>> \in Transitions
    PROVE  /\ Accepts(p.state, e) /\ Mark(p, e) \in Pages
           /\ Mark(p, e).state = s /\ PageOk(Mark(p, e))
<1>1. Accepts(p.state, e) /\ NextPageState(p.state, e) = s
  BY TransitionsAreAFunction DEF Accepts, NextPageState
<1>2. Apply(p, e) \in Pages
  BY DEF Apply, Pages
<1>3. Mark(p, e) = [Apply(p, e) EXCEPT !.state = s]
  BY <1>1 DEF Mark
<1>4. Mark(p, e) \in Pages /\ Mark(p, e).state = s
  BY <1>2, <1>3 DEF Pages
<1>5. /\ Mark(p, e).context = Apply(p, e).context /\ Mark(p, e).target = Apply(p, e).target
      /\ Mark(p, e).session = Apply(p, e).session
  BY <1>2, <1>3 DEF Pages
<1>6. Row(p.state, e, s)
  BY TransitionRows
<1>7. PageOk(Mark(p, e))
  <2>1. CASE e = "context created"
    <3>1. p.state = "idle" /\ s = "context"
      BY <1>6, <2>1 DEF Row
    <3>2. /\ Apply(p, e).context = TRUE /\ Apply(p, e).target = p.target
          /\ Apply(p, e).session = p.session
      BY <2>1 DEF Apply, Pages
    <3> QED
      BY <1>4, <1>5, <3>1, <3>2 DEF PageOk
  <2>2. CASE e = "target created"
    <3>1. p.state = "context" /\ s = "target"
      BY <1>6, <2>2 DEF Row
    <3>2. /\ Apply(p, e).context = p.context /\ Apply(p, e).target = TRUE
          /\ Apply(p, e).session = p.session
      BY <2>2 DEF Apply, Pages
    <3> QED
      BY <1>4, <1>5, <3>1, <3>2 DEF PageOk
  <2>3. CASE e = "attached"
    <3>1. p.state = "target" /\ s = "attached"
      BY <1>6, <2>3 DEF Row
    <3> QED
      BY <1>4, <1>5, <2>3, <3>1 DEF Apply, PageOk, Pages
  <2>4. CASE e = "enabled"
    <3>1. p.state = "attached" /\ s = "enabled"
      BY <1>6, <2>4 DEF Row
    <3> QED
      BY <1>4, <1>5, <2>4, <3>1 DEF Apply, PageOk, Pages
  <2>5. CASE e = "detached"
    <3>1. \/ p.state \in {"attached", "enabled", "detached"} /\ s = "detached"
          \/ p.state = "disposed" /\ s = "disposed"
      BY <1>6, <2>5 DEF Row, PageOk
    <3> QED
      BY <1>4, <1>5, <2>5, <3>1 DEF Apply, PageOk, Pages
  <2>6. CASE e = "disposed"
    <3>1. p.state \in {"context", "target", "detached", "disposed"} /\ s = "disposed"
      BY <1>6, <2>6 DEF Row, PageOk
    <3>2. /\ Apply(p, e).context = FALSE /\ Apply(p, e).target = FALSE
          /\ Apply(p, e).session = p.session
      BY <2>6 DEF Apply, Pages
    <3> QED
      BY <1>4, <1>5, <3>1, <3>2 DEF PageOk
  <2> QED
    BY <2>1, <2>2, <2>3, <2>4, <2>5, <2>6 DEF PageEvents
<1> QED
  BY <1>1, <1>4, <1>7

(* Stop always has a transition left.                                      *)
LEMMA StopIsAccepted ==
    ASSUME NEW p \in Pages, PageOk(p)
    PROVE  /\ NextStopEvent(p) \in PageEvents /\ Accepts(p.state, NextStopEvent(p))
           /\ NextStopEvent(p) # "stopped" =>
                 Mark(p, NextStopEvent(p)) \in Pages /\ PageOk(Mark(p, NextStopEvent(p)))
<1>1. CASE p.session
  <2>1. <<p.state, "detached", "detached">> \in Transitions
    BY <1>1 DEF PageOk, Transitions
  <2> QED
    BY <1>1, <2>1, MarkKeepsPage DEF NextStopEvent, PageEvents, PageStates
<1>2. CASE ~p.session /\ p.context
  <2>1. <<p.state, "disposed", "disposed">> \in Transitions
    BY <1>2 DEF PageOk, Transitions
  <2> QED
    BY <1>2, <2>1, MarkKeepsPage DEF NextStopEvent, PageEvents, PageStates
<1>3. CASE ~p.session /\ ~p.context
  <2>1. p.state \in {"idle", "disposed"}
    BY <1>3 DEF PageOk, Pages, PageStates
  <2>2. <<p.state, "stopped", "stopped">> \in Transitions
    BY <2>1 DEF Transitions
  <2> QED
    BY <1>3, <2>2 DEF NextStopEvent, PageEvents, PageStates, Accepts
<1> QED
  BY <1>1, <1>2, <1>3

-----------------------------------------------------------------------------
(***************************************************************************)
(* The handlers of the tracker.                                            *)
(***************************************************************************)

(* The bound of the redirects, apart from the other assumptions.           *)
LEMMA RedirectsAreCounted == MaxRedirects \in Nat
BY CaptureAssumption

(* A tracker, field by field.                                              *)
LEMMA TrackerFields ==
    ASSUME NEW t \in Trackers
    PROVE  /\ t.active \in [Requests -> TrackedRequests \cup {None}]
           /\ t.inflight \subseteq Requests
           /\ t.mainId \in Requests \cup {None} /\ t.mainLoader \in Requests \cup {None}
           /\ t.completed \in TrackedRequests \cup {None}
           /\ t.loaded \in BOOLEAN /\ t.error \in BOOLEAN /\ t.started \in BOOLEAN
           /\ t.quiet \in BOOLEAN
BY DEF Trackers

(* No tracker is None.                                                    *)
LEMMA TrackersAreThere == \A u \in Trackers : u # None
BY TrackerAssumption

(* No request is None.                                                     *)
LEMMA NoneIsNoRequest == None \notin Requests /\ None # Seed
BY TrackerAssumption DEF Requests

(* A main document with a response has completed.                          *)
LEMMA ActiveMainIsTracked ==
    ASSUME NEW t \in Trackers, TrackerOk(t), HasMainResponse(t)
    PROVE  HasResponse(t.completed)
<1>1. t.mainId \in Requests \cup {None}
  BY TrackerFields
<1> QED
  BY <1>1 DEF TrackerOk, HasMainResponse, ActiveMainRequest, HasResponse

(* A tracker that has no tracked request yet.                              *)
LEMMA NewTrackerOk == NewTracker \in Trackers /\ TrackerOk(NewTracker)
BY DEF NewTracker, Trackers, TrackerOk

(* The error, the load event, the start and the answer of the navigation   *)
(* and the passing of time leave the requests alone.                       *)
LEMMA SimpleHandlersKeep ==
    ASSUME NEW t \in Trackers, NEW loader \in {None, Seed}
    PROVE  /\ Kept(t, Fail(t)) /\ Kept(t, HandleLoadEventFired(t)) /\ Kept(t, BeginSeedNavigation(t))
           /\ Kept(t, SetExpectedMainLoaderId(t, loader))
           /\ Kept(t, [t EXCEPT !.quiet = TRUE])
<1>1. Kept(t, Fail(t))
  BY DEF Kept, Fail, Trackers, TrackerOk
<1>2. Kept(t, HandleLoadEventFired(t))
  BY DEF Kept, HandleLoadEventFired, Trackers, TrackerOk
<1>3. Kept(t, BeginSeedNavigation(t))
  BY DEF Kept, BeginSeedNavigation, Trackers, TrackerOk
<1>4. Kept(t, SetExpectedMainLoaderId(t, loader))
  BY DEF Kept, SetExpectedMainLoaderId, Trackers, TrackerOk, Requests
<1>5. Kept(t, [t EXCEPT !.quiet = TRUE])
  BY DEF Kept, Trackers, TrackerOk
<1> QED
  BY <1>1, <1>2, <1>3, <1>4, <1>5


(* FinalizeRedirectRequest.                                                *)
LEMMA FinalizeKeeps ==
    ASSUME NEW t \in Trackers, NEW r \in Requests
    PROVE  LET u == FinalizeRedirectRequest(t, r)
           IN  /\ Kept(t, u) /\ u.inflight = t.inflight /\ u.mainLoader = t.mainLoader
               /\ u.mainId \in {t.mainId, None} /\ (TrackerOk(t) => u.mainId # r)
<1> DEFINE u == FinalizeRedirectRequest(t, r)
<1>1. CASE t.active[r] = None
  <2>1. u = Fail(t)
    BY <1>1 DEF FinalizeRedirectRequest
  <2>2. Kept(t, u)
    BY <2>1, SimpleHandlersKeep
  <2>3. u.inflight = t.inflight /\ u.mainLoader = t.mainLoader /\ u.mainId = t.mainId
    BY <2>1 DEF Fail, Trackers
  <2>4. TrackerOk(t) => t.mainId # r
    BY <1>1, TrackerAssumption DEF TrackerOk
  <2> QED
    BY <2>2, <2>3, <2>4
<1>2. CASE t.active[r] # None
  <2> DEFINE id == IF t.active[r].main /\ t.mainId = r THEN None ELSE t.mainId
  <2>1. u = [t EXCEPT !.active[r] = None, !.mainId = id]
    BY <1>2 DEF FinalizeRedirectRequest
  <2>2. /\ u.active = [t.active EXCEPT ![r] = None] /\ u.mainId = id
        /\ u.inflight = t.inflight /\ u.mainLoader = t.mainLoader /\ u.completed = t.completed
        /\ u.loaded = t.loaded /\ u.error = t.error /\ u.started = t.started /\ u.quiet = t.quiet
    BY <2>1 DEF Trackers
  <2>3. id \in Requests \cup {None}
    BY TrackerFields
  <2>4. u \in Trackers
    <3>1. [t.active EXCEPT ![r] = None] \in [Requests -> TrackedRequests \cup {None}]
      BY TrackerFields
    <3> QED
      BY <2>1, <2>3, <3>1 DEF Trackers
  <2>5. ASSUME TrackerOk(t) PROVE TrackerOk(u) /\ u.mainId # r
    <3>1. u.mainId # r
      BY <2>2, <2>5, TrackerAssumption DEF TrackerOk
    <3>2. u.mainId # None => u.active[u.mainId] = t.active[t.mainId] /\ u.mainId = t.mainId
      BY <2>2, <2>3, <3>1, TrackerFields
    <3>3. \A q \in Requests : u.active[q] # None => u.active[q] = t.active[q]
      BY <2>2, TrackerFields
    <3> QED
      BY <2>2, <2>5, <3>1, <3>2, <3>3 DEF TrackerOk
  <2>6. Kept(t, u)
    BY <2>2, <2>4, <2>5 DEF Kept
  <2> QED
    BY <2>2, <2>5, <2>6
<1> QED
  BY <1>1, <1>2


(* A request goes out: the tracker follows it unless it is a document of   *)
(* another navigation.                                                     *)
LEMMA WillBeSentKeeps ==
    ASSUME NEW t \in Trackers, NEW r \in Requests, NEW main \in BOOLEAN, NEW matches \in BOOLEAN,
           NEW redirected \in BOOLEAN, redirected \/ t.mainId # r
    PROVE  /\ Kept(t, HandleRequestWillBeSent(t, r, main, matches, redirected))
           /\ Follows(t, HandleRequestWillBeSent(t, r, main, matches, redirected), r, main, matches)
<1> DEFINE seen == [t EXCEPT !.inflight = @ \cup {r}, !.quiet = FALSE]
           final == IF redirected THEN FinalizeRedirectRequest(seen, r) ELSE seen
           fresh == [main |-> main, response |-> FALSE, loaded |-> FALSE]
           u == HandleRequestWillBeSent(t, r, main, matches, redirected)
<1>1. /\ seen.active = t.active /\ seen.inflight = t.inflight \cup {r} /\ seen.mainId = t.mainId
      /\ seen.mainLoader = t.mainLoader /\ seen.completed = t.completed /\ seen.loaded = t.loaded
      /\ seen.error = t.error /\ seen.started = t.started
  BY DEF Trackers
<1>2. seen \in Trackers /\ Kept(t, seen)
  BY DEF Trackers, Kept, TrackerOk
<1>3. CASE main /\ IsForeignDocument(t, r, matches)
  <2>1. u = seen
    BY <1>3 DEF HandleRequestWillBeSent, IsFollowed
  <2> QED
    BY <1>1, <1>2, <1>3, <2>1 DEF Follows
<1>4. CASE ~(main /\ IsForeignDocument(t, r, matches))
  <2>1. /\ Kept(seen, final) /\ final.inflight = seen.inflight /\ final.mainLoader = seen.mainLoader
        /\ final.mainId \in {seen.mainId, None} /\ (TrackerOk(seen) => final.mainId # r)
    <3>1. CASE redirected
      BY <1>2, <3>1, FinalizeKeeps
    <3>2. CASE ~redirected
      BY <1>1, <1>2, <3>2 DEF Kept
    <3> QED
      BY <3>1, <3>2
  <2>2. final \in Trackers
    BY <2>1 DEF Kept
  <2> HIDE DEF final, seen
  <2> DEFINE loader == IF main /\ final.mainLoader = None THEN r ELSE final.mainLoader
             id == IF main THEN r ELSE final.mainId
  <2>3. u = [final EXCEPT !.active[r] = fresh, !.mainLoader = loader, !.mainId = id]
    BY <1>4 DEF HandleRequestWillBeSent, IsFollowed, final, seen
  <2>4. /\ u.active = [final.active EXCEPT ![r] = fresh] /\ u.mainLoader = loader /\ u.mainId = id
        /\ u.inflight = final.inflight /\ u.completed = final.completed /\ u.loaded = final.loaded
        /\ u.error = final.error /\ u.started = final.started /\ u.quiet = final.quiet
    BY <2>2, <2>3 DEF Trackers
  <2>5. u \in Trackers
    <3>1. fresh \in TrackedRequests
      BY DEF TrackedRequests
    <3>2. [final.active EXCEPT ![r] = fresh] \in [Requests -> TrackedRequests \cup {None}]
      BY <2>2, <3>1, TrackerFields
    <3>3. loader \in Requests \cup {None} /\ id \in Requests \cup {None}
      BY <2>2, TrackerFields
    <3> HIDE DEF loader, id, fresh
    <3> QED
      BY <2>2, <2>3, <3>2, <3>3 DEF Trackers
  <2>6. ASSUME TrackerOk(t) PROVE TrackerOk(u)
    <3>1. TrackerOk(final) /\ final.mainId # r
      BY <1>2, <2>1, <2>6 DEF Kept
    <3>2. fresh # None /\ fresh.main = main /\ ~fresh.response
      <4>1. fresh \in TrackedRequests
        BY DEF TrackedRequests
      <4>2. fresh # None
        BY <4>1, TrackerAssumption
      <4> QED
        BY <4>2
    <3>3. u.active[r] = fresh /\ \A q \in Requests \ {r} : u.active[q] = final.active[q]
      BY <2>2, <2>4, TrackerFields
    <3>4. \A q \in Requests : u.active[q] # None /\ u.active[q].main /\ u.active[q].response
                             => HasResponse(u.completed)
      BY <2>4, <3>1, <3>2, <3>3 DEF TrackerOk
    <3>5. u.mainId # None => u.active[u.mainId] # None /\ u.active[u.mainId].main
      <4>1. CASE main
        BY <2>4, <3>2, <3>3, <4>1
      <4>2. CASE ~main
        <5>1. u.mainId = final.mainId /\ final.mainId \in Requests \cup {None}
          BY <2>2, <2>4, <4>2, TrackerFields
        <5> QED
          BY <3>1, <3>3, <5>1 DEF TrackerOk
      <4> QED
        BY <4>1, <4>2
    <3> QED
      BY <3>4, <3>5 DEF TrackerOk
  <2>7. Kept(t, u)
    BY <1>2, <2>1, <2>4, <2>5, <2>6 DEF Kept
  <2>8. u.inflight = t.inflight \cup {r}
    BY <1>1, <2>1, <2>4
  <2>9. u.mainId = id /\ u.mainLoader = loader /\ final.mainLoader = t.mainLoader
        /\ final.mainId \in {t.mainId, None}
    BY <1>1, <2>1, <2>4
  <2> QED
    BY <1>4, <2>7, <2>8, <2>9 DEF Follows
<1> QED
  BY <1>3, <1>4

(* A tracked request is replaced by what is known of it now.               *)
LEMMA UpdateKeeps ==
    ASSUME NEW t \in Trackers, NEW r \in Requests, t.active[r] # None,
           NEW request \in TrackedRequests, NEW u \in Trackers,
           request.main = t.active[r].main,
           u.active = [t.active EXCEPT ![r] = request], u.mainId = t.mainId,
           u.started = t.started, t.error => u.error,
           HasResponse(t.completed) => HasResponse(u.completed),
           request.main /\ request.response => t.active[r].response \/ HasResponse(u.completed)
    PROVE  Kept(t, u)
<1>1. request # None
  BY TrackerAssumption
<1>2. u.active[r] = request /\ \A q \in Requests \ {r} : u.active[q] = t.active[q]
  BY TrackerFields
<1>3. ASSUME TrackerOk(t) PROVE TrackerOk(u)
  <2>1. t.mainId \in Requests \cup {None}
    BY TrackerFields
  <2>2. u.mainId # None => u.active[u.mainId] # None /\ u.active[u.mainId].main
    BY <1>1, <1>2, <1>3, <2>1 DEF TrackerOk
  <2>3. \A q \in Requests : u.active[q] # None /\ u.active[q].main /\ u.active[q].response
                           => HasResponse(u.completed)
    BY <1>2, <1>3 DEF TrackerOk
  <2> QED
    BY <2>2, <2>3 DEF TrackerOk
<1> QED
  BY <1>3 DEF Kept


(* A response: the one of a main document is remembered.                   *)
LEMMA ResponseReceivedKeeps ==
    ASSUME NEW t \in Trackers, NEW r \in Requests
    PROVE  LET u == HandleResponseReceived(t, r)
           IN  /\ Kept(t, u) /\ u.inflight = t.inflight
               /\ u.mainId = t.mainId /\ u.mainLoader = t.mainLoader
<1> DEFINE u == HandleResponseReceived(t, r)
           seen == t
           request == [t.active[r] EXCEPT !.response = TRUE]
<1>1. seen \in Trackers
  BY DEF Trackers
<1>2. CASE t.active[r] = None
  <2>1. u = [seen EXCEPT !.error = seen.error \/ seen.mainId = r]
    BY <1>2 DEF HandleResponseReceived, UnknownRequest
  <2>2. u \in Trackers
    BY <1>1, <2>1 DEF Trackers
  <2>3. /\ u.active = t.active /\ u.mainId = t.mainId /\ u.mainLoader = t.mainLoader
        /\ u.completed = t.completed /\ u.started = t.started /\ (t.error => u.error)
        /\ u.inflight = t.inflight
    BY <2>1 DEF Trackers
  <2> QED
    BY <2>2, <2>3 DEF Kept, TrackerOk
<1>3. CASE t.active[r] # None
  <2>1. t.active[r] \in TrackedRequests
    BY <1>3, TrackerFields
  <2>2. /\ request \in TrackedRequests /\ request.main = t.active[r].main
        /\ request.response = TRUE
    BY <2>1 DEF TrackedRequests
  <2> DEFINE done == IF request.main THEN request ELSE t.completed
             failed == t.error
  <2>3. done \in TrackedRequests \cup {None} /\ failed \in BOOLEAN
    BY <2>1, <2>2, TrackerFields DEF TrackedRequests
  <2>4. HasResponse(t.completed) => HasResponse(done)
    BY <2>2, TrackerAssumption DEF HasResponse
  <2>5. request.main /\ request.response => t.active[r].response \/ HasResponse(done)
    BY <2>2, TrackerAssumption DEF HasResponse
  <2>6. [t.active EXCEPT ![r] = request] \in [Requests -> TrackedRequests \cup {None}]
    BY <2>2, TrackerFields
  <2>7. u = [seen EXCEPT !.active[r] = request, !.completed = done, !.error = failed]
    BY <1>1, <1>3 DEF HandleResponseReceived, Trackers
  <2>8. t.error => failed
    OBVIOUS
  <2> HIDE DEF done, failed, request
  <2>9. /\ u.active = [t.active EXCEPT ![r] = request] /\ u.mainId = t.mainId
        /\ u.mainLoader = t.mainLoader /\ u.completed = done /\ u.started = t.started
        /\ u.inflight = t.inflight /\ u.error = failed
    BY <2>7 DEF Trackers
  <2>10. u \in Trackers
    BY <1>1, <2>3, <2>6, <2>7 DEF Trackers
  <2>11. Kept(t, u)
    <3> HIDE DEF u
    <3> QED
      BY <1>3, <2>2, <2>4, <2>5, <2>8, <2>9, <2>10, UpdateKeeps
  <2> QED
    BY <2>9, <2>11
<1> QED
  BY <1>2, <1>3

(* A request ends well.                                                    *)
LEMMA LoadingFinishedKeeps ==
    ASSUME NEW t \in Trackers, NEW r \in Requests
    PROVE  LET u == HandleLoadingFinished(t, r)
           IN  /\ Kept(t, u) /\ u.inflight = t.inflight \ {r}
               /\ u.mainId = t.mainId /\ u.mainLoader = t.mainLoader
<1> DEFINE u == HandleLoadingFinished(t, r)
           seen == [t EXCEPT !.inflight = @ \ {r}, !.quiet = FALSE]
           request == [t.active[r] EXCEPT !.loaded = TRUE]
<1>1. seen \in Trackers
  BY DEF Trackers
<1>2. CASE t.active[r] = None
  <2>1. u = [seen EXCEPT !.error = seen.error \/ seen.mainId = r]
    BY <1>2 DEF HandleLoadingFinished, UnknownRequest
  <2>2. u \in Trackers
    BY <1>1, <2>1 DEF Trackers
  <2>3. /\ u.active = t.active /\ u.mainId = t.mainId /\ u.mainLoader = t.mainLoader
        /\ u.completed = t.completed /\ u.started = t.started /\ (t.error => u.error)
        /\ u.inflight = t.inflight \ {r}
    BY <2>1 DEF Trackers
  <2> QED
    BY <2>2, <2>3 DEF Kept, TrackerOk
<1>3. CASE t.active[r] # None
  <2>1. t.active[r] \in TrackedRequests
    BY <1>3, TrackerFields
  <2>2. /\ request \in TrackedRequests /\ request.main = t.active[r].main
        /\ request.response = t.active[r].response
    BY <2>1 DEF TrackedRequests
  <2> DEFINE done == IF request.main /\ request.response THEN request ELSE t.completed
             failed == t.error
  <2>3. done \in TrackedRequests \cup {None} /\ failed \in BOOLEAN
    BY <2>1, <2>2, TrackerFields DEF TrackedRequests
  <2>4. HasResponse(t.completed) => HasResponse(done)
    BY <2>2, TrackerAssumption DEF HasResponse
  <2>5. request.main /\ request.response => t.active[r].response \/ HasResponse(done)
    BY <2>2, TrackerAssumption DEF HasResponse
  <2>6. [t.active EXCEPT ![r] = request] \in [Requests -> TrackedRequests \cup {None}]
    BY <2>2, TrackerFields
  <2>7. u = [seen EXCEPT !.active[r] = request, !.completed = done, !.error = failed]
    BY <1>1, <1>3 DEF HandleLoadingFinished, Trackers
  <2>8. t.error => failed
    OBVIOUS
  <2> HIDE DEF done, failed, request
  <2>9. /\ u.active = [t.active EXCEPT ![r] = request] /\ u.mainId = t.mainId
        /\ u.mainLoader = t.mainLoader /\ u.completed = done /\ u.started = t.started
        /\ u.inflight = t.inflight \ {r} /\ u.error = failed
    BY <2>7 DEF Trackers
  <2>10. u \in Trackers
    BY <1>1, <2>3, <2>6, <2>7 DEF Trackers
  <2>11. Kept(t, u)
    <3> HIDE DEF u
    <3> QED
      BY <1>3, <2>2, <2>4, <2>5, <2>8, <2>9, <2>10, UpdateKeeps
  <2> QED
    BY <2>9, <2>11
<1> QED
  BY <1>2, <1>3

(* Or badly.                                                               *)
LEMMA LoadingFailedKeeps ==
    ASSUME NEW t \in Trackers, NEW r \in Requests
    PROVE  LET u == HandleLoadingFailed(t, r)
           IN  /\ Kept(t, u) /\ u.inflight = t.inflight \ {r}
               /\ u.mainId = t.mainId /\ u.mainLoader = t.mainLoader
<1> DEFINE u == HandleLoadingFailed(t, r)
           seen == [t EXCEPT !.inflight = @ \ {r}, !.quiet = FALSE]
           request == [t.active[r] EXCEPT !.loaded = TRUE]
<1>1. seen \in Trackers
  BY DEF Trackers
<1>2. CASE t.active[r] = None
  <2>1. u = [seen EXCEPT !.error = seen.error \/ seen.mainId = r]
    BY <1>2 DEF HandleLoadingFailed, UnknownRequest
  <2>2. u \in Trackers
    BY <1>1, <2>1 DEF Trackers
  <2>3. /\ u.active = t.active /\ u.mainId = t.mainId /\ u.mainLoader = t.mainLoader
        /\ u.completed = t.completed /\ u.started = t.started /\ (t.error => u.error)
        /\ u.inflight = t.inflight \ {r}
    BY <2>1 DEF Trackers
  <2> QED
    BY <2>2, <2>3 DEF Kept, TrackerOk
<1>3. CASE t.active[r] # None
  <2>1. t.active[r] \in TrackedRequests
    BY <1>3, TrackerFields
  <2>2. /\ request \in TrackedRequests /\ request.main = t.active[r].main
        /\ request.response = t.active[r].response
    BY <2>1 DEF TrackedRequests
  <2> DEFINE done == t.completed
             failed == t.error \/ (request.main /\ ~request.response)
  <2>3. done \in TrackedRequests \cup {None} /\ failed \in BOOLEAN
    BY <2>1, <2>2, TrackerFields DEF TrackedRequests
  <2>4. HasResponse(t.completed) => HasResponse(done)
    BY <2>2, TrackerAssumption DEF HasResponse
  <2>5. request.main /\ request.response => t.active[r].response \/ HasResponse(done)
    BY <2>2, TrackerAssumption DEF HasResponse
  <2>6. [t.active EXCEPT ![r] = request] \in [Requests -> TrackedRequests \cup {None}]
    BY <2>2, TrackerFields
  <2>7. u = [seen EXCEPT !.active[r] = request, !.completed = done, !.error = failed]
    BY <1>1, <1>3 DEF HandleLoadingFailed, Trackers
  <2>8. t.error => failed
    OBVIOUS
  <2> HIDE DEF done, failed, request
  <2>9. /\ u.active = [t.active EXCEPT ![r] = request] /\ u.mainId = t.mainId
        /\ u.mainLoader = t.mainLoader /\ u.completed = done /\ u.started = t.started
        /\ u.inflight = t.inflight \ {r} /\ u.error = failed
    BY <2>7 DEF Trackers
  <2>10. u \in Trackers
    BY <1>1, <2>3, <2>6, <2>7 DEF Trackers
  <2>11. Kept(t, u)
    <3> HIDE DEF u
    <3> QED
      BY <1>3, <2>2, <2>4, <2>5, <2>8, <2>9, <2>10, UpdateKeeps
  <2> QED
    BY <2>9, <2>11
<1> QED
  BY <1>2, <1>3
-----------------------------------------------------------------------------
(***************************************************************************)
(* What the shared parts of the capture task's steps do.                   *)
(***************************************************************************)

(* A command of the page session whose transition the machine has.         *)
LEMMA PageCommandMarks ==
    ASSUME page \in Pages, PageOk(page), NEW e \in PageEvents, e # "stopped",
           NEW s \in PageStates, <<page.state, e, s>> \in Transitions, NEW next, PageCommand(e, next)
    PROVE  /\ UNCHANGED <<aborted, tracker, wait, timedOut, cdp>>
           /\ \/ phase' = "fail" /\ page' = page
              \/ phase' = next /\ page' \in Pages /\ PageOk(page') /\ page'.state = s
<1>1. /\ Accepts(page.state, e) /\ Mark(page, e) \in Pages
      /\ Mark(page, e).state = s /\ PageOk(Mark(page, e))
  BY MarkKeepsPage
<1> QED
  BY <1>1 DEF PageCommand, Failure, Go

(* A step of Stop.                                                         *)
LEMMA StopPageStepMarks ==
    ASSUME page \in Pages, PageOk(page), NEW next, StopPageStep(next)
    PROVE  /\ aborted' = aborted
           /\ \/ phase' = next /\ page' = None
              \/ phase' = phase /\ page' \in Pages /\ PageOk(page')
<1>1. /\ Accepts(page.state, NextStopEvent(page))
      /\ NextStopEvent(page) # "stopped" =>
            Mark(page, NextStopEvent(page)) \in Pages /\ PageOk(Mark(page, NextStopEvent(page)))
  BY StopIsAccepted
<1> QED
  BY <1>1 DEF StopPageStep

-----------------------------------------------------------------------------
(***************************************************************************)
(* The invariant is inductive, part by part.                               *)
(***************************************************************************)

(* What may become of the tracker in a step.                               *)
TrackerMove ==
    \/ tracker' = tracker
    \/ phase' = "finish" /\ tracker' = None
    \/ phase = "attach" /\ phase' = "enable" /\ tracker' = NewTracker
    \/ tracker # None /\ phase' # "finish" /\ Kept(tracker, tracker')

(* A tracker comes with the page, goes with the exchange, and otherwise    *)
(* keeps what it has learnt.                                               *)
LEMMA TrackerMoves == TypeOK /\ PhaseInv /\ LoopInv /\ NetInv /\ [Next]_vars => TrackerMove
<1> SUFFICES ASSUME TypeOK, PhaseInv, LoopInv, NetInv, [Next]_vars PROVE TrackerMove
  OBVIOUS
<1> USE DEF PhaseInv, ObjectPhase, LoopInv, LoopUses, WithPage, Waits, taskVars, loopVars,
            sharedVars, browserVars
<1>1. CASE AttachToTarget
  BY <1>1 DEF AttachToTarget, Failure, Go, TrackerMove
<1>2. CASE Navigate
  <2>1. tracker \in Trackers /\ tracker # None
    BY <1>2 DEF Navigate, Go, TypeOK, TaskTypeOK, LoopTypeOK
  <2> QED
    BY <1>2, <2>1, SimpleHandlersKeep DEF Navigate, Go, TrackerMove
<1>3. CASE NavigateAnswered
  <2>1. tracker \in Trackers /\ tracker # None
    BY <1>3 DEF NavigateAnswered, Failure, Go, TypeOK, TaskTypeOK, LoopTypeOK
  <2> QED
    BY <1>3, <2>1, SimpleHandlersKeep DEF NavigateAnswered, Failure, Go, TrackerMove
<1>4. CASE MakeExchange
  BY <1>4 DEF MakeExchange, Go, TrackerMove
<1>5. CASE NoteInterceptionError
  <2>1. tracker \in Trackers /\ tracker # None
    BY <1>5 DEF NoteInterceptionError, LoopGoesTo, TypeOK, TaskTypeOK, LoopTypeOK
  <2> QED
    BY <1>5, <2>1, SimpleHandlersKeep DEF NoteInterceptionError, LoopGoesTo, TrackerMove
<1>6. CASE IdleTimePasses
  <2>1. tracker \in Trackers /\ tracker # None
    BY <1>6 DEF IdleTimePasses, TypeOK, TaskTypeOK, LoopTypeOK
  <2> QED
    BY <1>6, <2>1, SimpleHandlersKeep DEF IdleTimePasses, TrackerMove
<1>7. CASE LoadEventFired
  <2>1. tracker \in Trackers /\ tracker # None
    BY <1>7 DEF LoadEventFired, TakeEvent, Receive, TypeOK, TaskTypeOK, LoopTypeOK
  <2> QED
    BY <1>7, <2>1, SimpleHandlersKeep DEF LoadEventFired, TakeEvent, Receive, TrackerMove
<1>8. CASE TargetGone
  <2>1. tracker \in Trackers /\ tracker # None
    BY <1>8 DEF TargetGone, TakeEvent, TypeOK, TaskTypeOK, LoopTypeOK
  <2> QED
    BY <1>8, <2>1, SimpleHandlersKeep DEF TargetGone, TakeEvent, TrackerMove
<1>9. CASE UnparsedEvent
  <2>1. tracker \in Trackers /\ tracker # None
    BY <1>9 DEF UnparsedEvent, TakeEvent, Receive, LoopGoesTo, TypeOK, TaskTypeOK, LoopTypeOK
  <2> QED
    BY <1>9, <2>1, SimpleHandlersKeep DEF UnparsedEvent, TakeEvent, Receive, LoopGoesTo,
         TrackerMove
<1>10. ASSUME NEW r \in Requests, RequestWillBeSent(r) PROVE TrackerMove
  <2>1. tracker \in Trackers /\ tracker # None
    BY <1>10 DEF RequestWillBeSent, TakeEvent, TypeOK, TaskTypeOK, LoopTypeOK
  <2>2. tracker.mainId # r
    <3>1. r # None /\ net[r] = "unsent"
      BY <1>10, TrackerAssumption DEF RequestWillBeSent
    <3> QED
      BY <2>1, <3>1 DEF NetInv, MainSent
  <2>3. CASE tracker' = tracker
    BY <2>3 DEF TrackerMove
  <2>4. ASSUME NEW main \in BOOLEAN, NEW matches \in BOOLEAN,
               Receive(HandleRequestWillBeSent(tracker, r, main, matches, FALSE))
        PROVE  TrackerMove
    BY <1>10, <2>1, <2>2, <2>4, WillBeSentKeeps DEF RequestWillBeSent, Receive, TakeEvent,
         TrackerMove
  <2>5. \A q \in Requests : IsMainDocument(q) \subseteq BOOLEAN /\ MatchesSeedUrl(q) \subseteq BOOLEAN
    BY DEF IsMainDocument, MatchesSeedUrl, TypeOK, BrowserTypeOK
  <2> QED
    BY <1>10, <2>3, <2>4, <2>5 DEF RequestWillBeSent, Abort
<1>11. ASSUME NEW r \in Requests, Redirected(r) PROVE TrackerMove
  <2>1. tracker \in Trackers /\ tracker # None
    BY <1>11 DEF Redirected, TakeEvent, TypeOK, TaskTypeOK, LoopTypeOK
  <2>2. ASSUME NEW main \in BOOLEAN, NEW matches \in BOOLEAN,
               Receive(HandleRequestWillBeSent(tracker, r, main, matches, TRUE))
        PROVE  TrackerMove
    BY <1>11, <2>1, <2>2, WillBeSentKeeps DEF Redirected, Receive, TakeEvent, TrackerMove
  <2>3. \A q \in Requests : IsMainDocument(q) \subseteq BOOLEAN
    BY DEF IsMainDocument
  <2>4. CASE tracker' = tracker
    BY <2>4 DEF TrackerMove
  <2> QED
    BY <1>11, <2>2, <2>3, <2>4 DEF Redirected, Abort
<1>12. ASSUME NEW r \in Requests, ResponseReceived(r) PROVE TrackerMove
  <2>1. tracker \in Trackers /\ tracker # None
    BY <1>12 DEF ResponseReceived, TakeEvent, TypeOK, TaskTypeOK, LoopTypeOK
  <2> QED
    BY <1>12, <2>1, ResponseReceivedKeeps DEF ResponseReceived, Receive, TakeEvent, TrackerMove
<1>13. ASSUME NEW r \in Requests, LoadingFinished(r) PROVE TrackerMove
  <2>1. tracker \in Trackers /\ tracker # None
    BY <1>13 DEF LoadingFinished, TakeEvent, TypeOK, TaskTypeOK, LoopTypeOK
  <2> QED
    BY <1>13, <2>1, LoadingFinishedKeeps DEF LoadingFinished, Receive, TakeEvent, TrackerMove
<1>14. ASSUME NEW r \in Requests, LoadingFailed(r) PROVE TrackerMove
  <2>1. tracker \in Trackers /\ tracker # None
    BY <1>14 DEF LoadingFailed, TakeEvent, TypeOK, TaskTypeOK, LoopTypeOK
  <2> QED
    BY <1>14, <2>1, LoadingFailedKeeps DEF LoadingFailed, Receive, TakeEvent, TrackerMove
<1>15. CASE UNCHANGED tracker
  BY <1>15 DEF TrackerMove
<1>16. CASE ConnectCdp \/ MakeBrowserContext \/ MakeBlankTarget \/ EnableBaseDomains
            \/ SetUpTarget \/ WaitForPredicate \/ RunSiteBehavior \/ ExtraDelay
  BY <1>15, <1>16 DEF ConnectCdp, Failure, Go, MakeBrowserContext, PageCommand,
     MakeBlankTarget, EnableBaseDomains, SetUpTarget, WaitForPredicate, WaitStep,
     ReadVersion, WaitReturns, WaitFails, WaitGoesTo, RunSiteBehavior, ExtraDelay
<1>17. CASE ReadPage \/ RequestStop \/ JoinEventLoop \/ StopPage \/ FinishCapture
            \/ CleanUpPage \/ StopCdp \/ CheckStopping
  BY <1>15, <1>17 DEF ReadPage, ReadDomState, ReadBody, ReadResources,
     Failure, Go, RequestStop, JoinEventLoop, StopPage,
     StopPageStep, FinishCapture, CleanUpPage, StopCdp, CheckStopping, LoopGoesTo
<1>18. CASE LoseEvents \/ NoteEventProgress \/ AnswerPaused \/ ConnectionBreaks
            \/ DeadlinePasses
  BY <1>15, <1>18 DEF LoseEvents, LoopGoesTo, NoteEventProgress, AnswerPaused,
     ConnectionBreaks, DeadlinePasses
<1>19. ASSUME NEW r \in Requests,
             RequestPaused(r) \/ AuthRequired(r)
      PROVE  TrackerMove
  BY <1>15, <1>19 DEF RequestPaused, TakeEvent, AuthRequired
<1>20. CASE UNCHANGED vars
  BY <1>15, <1>20 DEF vars
<1> QED
  BY <1>1, <1>2, <1>3, <1>4, <1>5, <1>6, <1>7, <1>8, <1>9, <1>10, <1>11, <1>12, <1>13,
     <1>14, <1>15, <1>16, <1>17, <1>18, <1>19, <1>20 DEF Next, CaptureTask, EventLoopTask,
     BrowserEvent

(* A page keeps its identifiers in step with its lifecycle.                *)
LEMMA PageStep == TypeOK /\ PageInv /\ PhaseInv /\ [Next]_vars => PageTypeInv'
<1> SUFFICES ASSUME TypeOK, PageInv, PhaseInv, [Next]_vars PROVE PageTypeInv'
  OBVIOUS
<1> USE DEF PageTypeInv, PageInv, taskVars, loopVars, sharedVars, browserVars
<1>1. CASE ConnectCdp
  <2>1. NewPage \in Pages /\ PageOk(NewPage)
    BY DEF NewPage, Pages, PageStates, PageOk
  <2> QED
    BY <1>1, <2>1 DEF ConnectCdp, Failure, TypeOK, TaskTypeOK, LoopTypeOK
<1>2. CASE MakeBrowserContext
  <2>1. page \in Pages /\ PageOk(page) /\ page.state = "idle"
    BY <1>2 DEF MakeBrowserContext, PhaseInv, PagePhase, TypeOK, TaskTypeOK, LoopTypeOK
  <2>2. <<page.state, "context created", "context">> \in Transitions
    BY <2>1 DEF Transitions
  <2> QED
    BY <1>2, <2>1, <2>2, PageCommandMarks DEF MakeBrowserContext, Failure, PageEvents,
         PageStates
<1>3. CASE MakeBlankTarget
  <2>1. page \in Pages /\ PageOk(page) /\ page.state = "context"
    BY <1>3 DEF MakeBlankTarget, PhaseInv, PagePhase, TypeOK, TaskTypeOK, LoopTypeOK
  <2>2. <<page.state, "target created", "target">> \in Transitions
    BY <2>1 DEF Transitions
  <2> QED
    BY <1>3, <2>1, <2>2, PageCommandMarks DEF MakeBlankTarget, Failure, PageEvents, PageStates
<1>4. CASE AttachToTarget
  <2>1. page \in Pages /\ PageOk(page) /\ page.state = "target"
    BY <1>4 DEF AttachToTarget, PhaseInv, PagePhase, TypeOK, TaskTypeOK, LoopTypeOK
  <2>2. <<page.state, "attached", "attached">> \in Transitions
    BY <2>1 DEF Transitions
  <2>3. Mark(page, "attached") \in Pages /\ PageOk(Mark(page, "attached"))
    BY <2>1, <2>2, MarkKeepsPage DEF PageEvents, PageStates
  <2> QED
    BY <1>4, <2>1, <2>3 DEF AttachToTarget, Failure
<1>5. CASE EnableBaseDomains
  <2>1. page \in Pages /\ PageOk(page) /\ page.state = "attached"
    BY <1>5 DEF EnableBaseDomains, PhaseInv, PagePhase, TypeOK, TaskTypeOK, LoopTypeOK
  <2>2. <<page.state, "enabled", "enabled">> \in Transitions
    BY <2>1 DEF Transitions
  <2> QED
    BY <1>5, <2>1, <2>2, PageCommandMarks DEF EnableBaseDomains, Failure, PageEvents, PageStates
<1>6. CASE StopPage
  <2>1. page \in Pages /\ PageOk(page)
    BY <1>6 DEF StopPage, PhaseInv, PagePhase, TypeOK, TaskTypeOK, LoopTypeOK
  <2> QED
    BY <1>6, <2>1, StopPageStepMarks DEF StopPage, Failure
<1>7. CASE CleanUpPage
  <2>1. CASE page \in Pages /\ PageOk(page)
    BY <1>7, <2>1, StopPageStepMarks DEF CleanUpPage, Failure
  <2>2. CASE page = None
    BY <1>7, <2>2 DEF CleanUpPage
  <2> QED
    BY <2>1, <2>2 DEF TypeOK, TaskTypeOK
<1>8. CASE UNCHANGED page
  BY <1>8 DEF TypeOK, TaskTypeOK
<1>9. CASE SetUpTarget \/ Navigate \/ NavigateAnswered \/ WaitForPredicate
            \/ RunSiteBehavior \/ ExtraDelay \/ ReadPage \/ RequestStop
  BY <1>8, <1>9 DEF SetUpTarget, Failure, Go, Navigate, NavigateAnswered,
     WaitForPredicate, WaitStep, ReadVersion, WaitReturns, WaitFails, WaitGoesTo,
     RunSiteBehavior, ExtraDelay, ReadPage, ReadDomState, ReadBody, ReadResources, RequestStop
<1>10. CASE JoinEventLoop \/ MakeExchange \/ FinishCapture \/ StopCdp \/ CheckStopping
            \/ LoseEvents \/ NoteInterceptionError \/ NoteEventProgress
  BY <1>8, <1>10 DEF JoinEventLoop, Go, MakeExchange, FinishCapture, Failure, StopCdp,
     CheckStopping, LoopGoesTo, LoseEvents, NoteInterceptionError, NoteEventProgress
<1>11. CASE AnswerPaused \/ ConnectionBreaks \/ DeadlinePasses \/ IdleTimePasses
            \/ LoadEventFired \/ TargetGone \/ UnparsedEvent
  BY <1>8, <1>11 DEF AnswerPaused, ConnectionBreaks, DeadlinePasses, IdleTimePasses,
     LoadEventFired, TakeEvent, Receive, TargetGone, UnparsedEvent, LoopGoesTo
<1>12. ASSUME NEW r \in Requests,
             RequestWillBeSent(r) \/ Redirected(r) \/ RequestPaused(r) \/ AuthRequired(r)
             \/ ResponseReceived(r) \/ LoadingFinished(r) \/ LoadingFailed(r)
      PROVE  PageTypeInv'
  BY <1>8, <1>12 DEF RequestWillBeSent, TakeEvent, Receive, Abort, Redirected,
     RequestPaused, AuthRequired, ResponseReceived, LoadingFinished, LoadingFailed
<1>13. CASE UNCHANGED vars
  BY <1>8, <1>13 DEF vars
<1> QED
  BY <1>1, <1>2, <1>3, <1>4, <1>5, <1>6, <1>7, <1>8, <1>9, <1>10, <1>11, <1>12,
     <1>13 DEF Next, CaptureTask, EventLoopTask, BrowserEvent

(* Every step keeps the types of the capture task.                         *)
LEMMA TaskTypeStep == TypeOK /\ PageInv /\ PhaseInv /\ [Next]_vars => TaskTypeOK'
<1> SUFFICES ASSUME TypeOK, PageInv, PhaseInv, [Next]_vars PROVE TaskTypeOK'
  OBVIOUS
<1>1. page' \in Pages \cup {None}
  BY PageStep DEF PageTypeInv
<1> USE <1>1 DEF TypeOK, TaskTypeOK, taskVars, loopVars, sharedVars, browserVars
<1>2. CASE ConnectCdp
  BY <1>2 DEF ConnectCdp, Failure, Go, Phases, SetupPhases, Waits
<1>3. CASE MakeBrowserContext
  BY <1>3 DEF MakeBrowserContext, PageCommand, Failure, Go, Phases, SetupPhases, Waits
<1>4. CASE MakeBlankTarget
  BY <1>4 DEF MakeBlankTarget, PageCommand, Failure, Go, Phases, SetupPhases, Waits
<1>5. CASE AttachToTarget
  BY <1>5 DEF AttachToTarget, Failure, Go, Phases, SetupPhases, Waits
<1>6. CASE EnableBaseDomains
  BY <1>6 DEF EnableBaseDomains, PageCommand, Failure, Go, Phases, SetupPhases, Waits
<1>7. CASE SetUpTarget
  BY <1>7 DEF SetUpTarget, Failure, Go, Phases, SetupPhases, Waits
<1>8. CASE Navigate
  BY <1>8 DEF Navigate, Go, Phases, SetupPhases, Waits
<1>9. CASE NavigateAnswered
  BY <1>9 DEF NavigateAnswered, Failure, Go, Phases, SetupPhases, Waits, WaitSteps
<1>10. CASE WaitForPredicate
  <2>1. AfterWait \in {"behavior", "delay", "read"}
    BY <1>10 DEF WaitForPredicate, AfterWait, Waits
  <2>2. phase' \in Phases /\ wait' \in WaitSteps
    BY <1>10, <2>1 DEF WaitForPredicate, WaitStep, ReadVersion, WaitReturns, WaitFails,
         WaitGoesTo, Phases, WaitSteps
  <2> QED
    BY <1>10, <2>2 DEF WaitForPredicate
<1>11. CASE RunSiteBehavior
  BY <1>11 DEF RunSiteBehavior, Failure, Go, Phases, SetupPhases, Waits
<1>12. CASE ExtraDelay
  BY <1>12 DEF ExtraDelay, Failure, Go, Phases, SetupPhases, Waits
<1>13. CASE ReadPage
  BY <1>13 DEF ReadPage, ReadDomState, ReadBody, ReadResources,
     Failure, Go, Phases, SetupPhases, Waits
<1>14. CASE RequestStop
  BY <1>14 DEF RequestStop
<1>15. CASE JoinEventLoop
  BY <1>15 DEF JoinEventLoop, Go, Phases
<1>16. CASE StopPage
  BY <1>16 DEF StopPage, StopPageStep, Failure, Go, Phases
<1>17. CASE MakeExchange
  BY <1>17 DEF MakeExchange, Go, Phases
<1>18. CASE FinishCapture
  BY <1>18 DEF FinishCapture, Failure, Go, Phases
<1>19. CASE CleanUpPage
  BY <1>19 DEF CleanUpPage, StopPageStep, Go, Phases
<1>20. CASE StopCdp
  BY <1>20 DEF StopCdp, Go, Phases
<1>21. CASE DeadlinePasses
  BY <1>21 DEF DeadlinePasses
<1>22. CASE UNCHANGED taskVars
  BY <1>22
<1>23. CASE CheckStopping \/ LoseEvents \/ NoteInterceptionError \/ NoteEventProgress
            \/ AnswerPaused \/ ConnectionBreaks \/ IdleTimePasses \/ LoadEventFired
  BY <1>22, <1>23 DEF CheckStopping, LoopGoesTo, Phases, LoseEvents,
     NoteInterceptionError, NoteEventProgress, AnswerPaused, ConnectionBreaks,
     IdleTimePasses, LoadEventFired, TakeEvent, Receive
<1>24. CASE TargetGone \/ UnparsedEvent
  BY <1>22, <1>24 DEF TargetGone, TakeEvent, Phases, UnparsedEvent, Receive, LoopGoesTo
<1>25. ASSUME NEW r \in Requests,
             RequestWillBeSent(r) \/ Redirected(r) \/ RequestPaused(r) \/ AuthRequired(r)
             \/ ResponseReceived(r) \/ LoadingFinished(r) \/ LoadingFailed(r)
      PROVE  TaskTypeOK'
  BY <1>22, <1>25 DEF RequestWillBeSent, TakeEvent, Receive, Abort, Phases, Redirected,
     RequestPaused, AuthRequired, ResponseReceived, LoadingFinished, LoadingFailed
<1>26. CASE UNCHANGED vars
  BY <1>22, <1>26 DEF vars
<1> QED
  BY <1>2, <1>3, <1>4, <1>5, <1>6, <1>7, <1>8, <1>9, <1>10, <1>11, <1>12, <1>13, <1>14,
     <1>15, <1>16, <1>17, <1>18, <1>19, <1>20, <1>21, <1>22, <1>23, <1>24, <1>25,
     <1>26 DEF Next, CaptureTask, EventLoopTask, BrowserEvent

(* Every step keeps the types of the event loop.                           *)
LEMMA LoopTypeStep == TypeOK /\ PhaseInv /\ LoopInv /\ NetInv /\ [Next]_vars => LoopTypeOK'
<1> SUFFICES ASSUME TypeOK, PhaseInv, LoopInv, NetInv, [Next]_vars PROVE LoopTypeOK'
  OBVIOUS
<1>1. tracker' \in Trackers \cup {None}
  <2>1. TrackerMove
    BY TrackerMoves
  <2> QED
    BY <2>1, NewTrackerOk DEF TrackerMove, Kept, TypeOK, LoopTypeOK
<1> USE <1>1 DEF TypeOK, LoopTypeOK, taskVars, loopVars, sharedVars, browserVars
<1>2. CASE MakeBrowserContext
  BY <1>2 DEF MakeBrowserContext, PageCommand, Failure, Go, LoopSteps
<1>3. CASE MakeBlankTarget
  BY <1>3 DEF MakeBlankTarget, PageCommand, Failure, Go, LoopSteps
<1>4. CASE AttachToTarget
  BY <1>4 DEF AttachToTarget, Failure, Go, LoopSteps
<1>5. CASE EnableBaseDomains
  BY <1>5 DEF EnableBaseDomains, PageCommand, Failure, Go, LoopSteps
<1>6. CASE Navigate
  BY <1>6 DEF Navigate, Go, LoopSteps
<1>7. CASE NavigateAnswered
  BY <1>7 DEF NavigateAnswered, Failure, Go, LoopSteps
<1>8. CASE WaitForPredicate
  BY <1>8 DEF WaitForPredicate, WaitStep, ReadVersion, WaitReturns, WaitFails, WaitGoesTo,
     LoopSteps
<1>9. CASE RequestStop
  BY <1>9 DEF RequestStop
<1>10. CASE JoinEventLoop
  BY <1>10 DEF JoinEventLoop, Go, LoopSteps
<1>11. CASE StopPage
  BY <1>11 DEF StopPage, StopPageStep, Failure, Go, LoopSteps
<1>12. CASE MakeExchange
  BY <1>12 DEF MakeExchange, Go, LoopSteps
<1>13. CASE CleanUpPage
  BY <1>13 DEF CleanUpPage, StopPageStep, Go, LoopSteps
<1>14. CASE CheckStopping
  BY <1>14 DEF CheckStopping, LoopGoesTo, LoopSteps
<1>15. CASE LoseEvents
  BY <1>15 DEF LoseEvents, LoopGoesTo, LoopSteps
<1>16. CASE NoteInterceptionError
  BY <1>16 DEF NoteInterceptionError, LoopGoesTo, LoopSteps
<1>17. CASE NoteEventProgress
  BY <1>17 DEF NoteEventProgress, LoopGoesTo, LoopSteps
<1>18. CASE AnswerPaused
  BY <1>18 DEF AnswerPaused, LoopSteps
<1>19. CASE IdleTimePasses
  BY <1>19 DEF IdleTimePasses
<1>20. CASE LoadEventFired
  BY <1>20 DEF LoadEventFired, TakeEvent, Receive, LoopSteps
<1>21. CASE TargetGone
  BY <1>21 DEF TargetGone, TakeEvent, LoopSteps
<1>22. CASE UnparsedEvent
  BY <1>22 DEF UnparsedEvent, TakeEvent, Receive, LoopGoesTo, LoopSteps
<1>23. ASSUME NEW r \in Requests, RequestWillBeSent(r) PROVE LoopTypeOK'
  BY <1>23 DEF RequestWillBeSent, TakeEvent, Receive, Abort, LoopSteps
<1>24. ASSUME NEW r \in Requests, Redirected(r) PROVE LoopTypeOK'
  BY <1>24 DEF Redirected, TakeEvent, Receive, Abort, LoopSteps
<1>25. ASSUME NEW r \in Requests, RequestPaused(r) PROVE LoopTypeOK'
  BY <1>25 DEF RequestPaused, TakeEvent, LoopSteps
<1>26. ASSUME NEW r \in Requests, AuthRequired(r) PROVE LoopTypeOK'
  BY <1>26 DEF AuthRequired, TakeEvent, LoopSteps
<1>27. ASSUME NEW r \in Requests, ResponseReceived(r) PROVE LoopTypeOK'
  BY <1>27 DEF ResponseReceived, TakeEvent, Receive, LoopSteps
<1>28. ASSUME NEW r \in Requests, LoadingFinished(r) PROVE LoopTypeOK'
  BY <1>28 DEF LoadingFinished, TakeEvent, Receive, LoopSteps
<1>29. ASSUME NEW r \in Requests, LoadingFailed(r) PROVE LoopTypeOK'
  BY <1>29 DEF LoadingFailed, TakeEvent, Receive, LoopSteps
<1>30. CASE UNCHANGED <<loopVars, sharedVars, aborted>>
  BY <1>30
<1>31. CASE ConnectCdp \/ SetUpTarget \/ RunSiteBehavior \/ ExtraDelay \/ ReadPage
            \/ FinishCapture \/ StopCdp \/ ConnectionBreaks
  BY <1>30, <1>31 DEF ConnectCdp, Failure, Go, LoopSteps, SetUpTarget, RunSiteBehavior,
     ExtraDelay, ReadPage, ReadDomState, ReadBody, ReadResources,
     FinishCapture, StopCdp, ConnectionBreaks
<1>32. CASE DeadlinePasses
  BY <1>30, <1>32 DEF DeadlinePasses
<1>33. CASE UNCHANGED vars
  BY <1>30, <1>33 DEF vars
<1> QED
  BY <1>2, <1>3, <1>4, <1>5, <1>6, <1>7, <1>8, <1>9, <1>10, <1>11, <1>12, <1>13, <1>14,
     <1>15, <1>16, <1>17, <1>18, <1>19, <1>20, <1>21, <1>22, <1>23, <1>24, <1>25, <1>26,
     <1>27, <1>28, <1>29, <1>30, <1>31, <1>32, <1>33 DEF Next, CaptureTask, EventLoopTask,
     BrowserEvent

(* Every step keeps the types of the browser.                              *)
LEMMA BrowserTypeStep == TypeOK /\ [Next]_vars => BrowserTypeOK'
<1> SUFFICES ASSUME TypeOK, [Next]_vars PROVE BrowserTypeOK'
  OBVIOUS
<1> USE DEF TypeOK, BrowserTypeOK, taskVars, loopVars, sharedVars, browserVars
<1>1. CASE Navigate
  BY <1>1 DEF Navigate, SessionReachable
<1>2. CASE AnswerPaused
  BY <1>2 DEF AnswerPaused
<1>3. CASE ConnectionBreaks
  BY <1>3 DEF ConnectionBreaks
<1>4. CASE LoadEventFired
  BY <1>4 DEF LoadEventFired, TakeEvent, Receive
<1>5. CASE TargetGone
  BY <1>5 DEF TargetGone, TakeEvent
<1>6. CASE UnparsedEvent
  BY <1>6 DEF UnparsedEvent, TakeEvent, Receive, LoopGoesTo
<1>7. ASSUME NEW r \in Requests, RequestWillBeSent(r) PROVE BrowserTypeOK'
  BY <1>7 DEF RequestWillBeSent, TakeEvent, Receive, Abort
<1>8. ASSUME NEW r \in Requests, Redirected(r) PROVE BrowserTypeOK'
  <2>1. redirects' \in 0..MaxRedirects
    <3>1. redirects' = redirects \/ (redirects < MaxRedirects /\ redirects' = redirects + 1)
      BY <1>8 DEF Redirected, Abort
    <3> QED
      BY <3>1, RedirectsAreCounted
  <2> QED
    BY <1>8, <2>1 DEF Redirected, Receive, Abort
<1>9. ASSUME NEW r \in Requests, AuthRequired(r) PROVE BrowserTypeOK'
  <2>1. redirects' \in 0..MaxRedirects
    BY <1>9, RedirectsAreCounted DEF AuthRequired
  <2> QED
    BY <1>9, <2>1 DEF AuthRequired, Receive
<1>10. ASSUME NEW r \in Requests, ResponseReceived(r) PROVE BrowserTypeOK'
  BY <1>10 DEF ResponseReceived, TakeEvent, Receive
<1>11. ASSUME NEW r \in Requests, LoadingFinished(r) PROVE BrowserTypeOK'
  BY <1>11 DEF LoadingFinished, TakeEvent, Receive
<1>12. ASSUME NEW r \in Requests, LoadingFailed(r) PROVE BrowserTypeOK'
  BY <1>12 DEF LoadingFailed, TakeEvent, Receive
<1>13. CASE UNCHANGED browserVars
  BY <1>13
<1>14. CASE ConnectCdp \/ MakeBrowserContext \/ MakeBlankTarget \/ AttachToTarget
            \/ EnableBaseDomains \/ SetUpTarget \/ NavigateAnswered \/ WaitForPredicate
  BY <1>13, <1>14 DEF ConnectCdp, Failure, Go, MakeBrowserContext, PageCommand,
     MakeBlankTarget, AttachToTarget, EnableBaseDomains, SetUpTarget, NavigateAnswered,
     WaitForPredicate, WaitStep, ReadVersion, WaitReturns, WaitFails, WaitGoesTo
<1>15. CASE RunSiteBehavior \/ ExtraDelay \/ ReadPage \/ RequestStop \/ JoinEventLoop
            \/ StopPage \/ MakeExchange \/ FinishCapture
  BY <1>13, <1>15 DEF RunSiteBehavior, Failure, Go, ExtraDelay,
     ReadPage, ReadDomState, ReadBody, ReadResources, RequestStop,
     JoinEventLoop, StopPage, StopPageStep, MakeExchange, FinishCapture
<1>16. CASE CleanUpPage \/ StopCdp \/ CheckStopping \/ LoseEvents \/ NoteInterceptionError
            \/ NoteEventProgress \/ DeadlinePasses \/ IdleTimePasses
  BY <1>13, <1>16 DEF CleanUpPage, StopPageStep, Go, StopCdp, CheckStopping, LoopGoesTo,
     LoseEvents, NoteInterceptionError, NoteEventProgress, DeadlinePasses, IdleTimePasses
<1>17. ASSUME NEW r \in Requests,
             RequestPaused(r)
      PROVE  BrowserTypeOK'
  BY <1>13, <1>17 DEF RequestPaused, TakeEvent
<1>18. CASE UNCHANGED vars
  BY <1>13, <1>18 DEF vars
<1> QED
  BY <1>1, <1>2, <1>3, <1>4, <1>5, <1>6, <1>7, <1>8, <1>9, <1>10, <1>11, <1>12, <1>13,
     <1>14, <1>15, <1>16, <1>17, <1>18 DEF Next, CaptureTask, EventLoopTask, BrowserEvent

(* A phase has its page.                                                   *)
LEMMA PagePhaseStep == TypeOK /\ PageInv /\ PhaseInv /\ [Next]_vars => PagePhase'
<1> SUFFICES ASSUME TypeOK, PageInv, PhaseInv, [Next]_vars PROVE PagePhase'
  OBVIOUS
<1> USE DEF PhaseInv, PagePhase, WithPage, Waits, Ended, taskVars, loopVars, sharedVars,
            browserVars
<1>1. CASE ConnectCdp
  <2>1. NewPage \in Pages /\ NewPage.state = "idle"
    BY DEF NewPage, Pages, PageStates
  <2>2. \/ phase' = "fail"
        \/ phase' = "context" /\ page' \in Pages /\ page'.state = "idle"
    BY <1>1, <2>1 DEF ConnectCdp, Failure, Go
  <2> QED
    BY <2>2, PagesAreThere
<1>2. CASE MakeBrowserContext
  <2>1. page \in Pages /\ PageOk(page) /\ page.state = "idle" /\ phase \notin WithPage
    BY <1>2 DEF MakeBrowserContext, TypeOK, TaskTypeOK, PageInv
  <2>2. <<page.state, "context created", "context">> \in Transitions
    BY <2>1 DEF Transitions
  <2>3. \/ phase' = "fail"
        \/ phase' = "target" /\ page' \in Pages /\ page'.state = "context"
    BY <1>2, <2>1, <2>2, PageCommandMarks DEF MakeBrowserContext, Failure, Go, PageEvents,
         PageStates
  <2> QED
    BY <2>3, PagesAreThere
<1>3. CASE MakeBlankTarget
  <2>1. page \in Pages /\ PageOk(page) /\ page.state = "context" /\ phase \notin WithPage
    BY <1>3 DEF MakeBlankTarget, TypeOK, TaskTypeOK, PageInv
  <2>2. <<page.state, "target created", "target">> \in Transitions
    BY <2>1 DEF Transitions
  <2>3. \/ phase' = "fail"
        \/ phase' = "attach" /\ page' \in Pages /\ page'.state = "target"
    BY <1>3, <2>1, <2>2, PageCommandMarks DEF MakeBlankTarget, Failure, Go, PageEvents,
         PageStates
  <2> QED
    BY <2>3, PagesAreThere
<1>4. CASE AttachToTarget
  <2>1. page \in Pages /\ PageOk(page) /\ page.state = "target"
    BY <1>4 DEF AttachToTarget, TypeOK, TaskTypeOK, PageInv
  <2>2. <<page.state, "attached", "attached">> \in Transitions
    BY <2>1 DEF Transitions
  <2>3. /\ Accepts(page.state, "attached") /\ Mark(page, "attached") \in Pages
        /\ Mark(page, "attached").state = "attached"
    BY <2>1, <2>2, MarkKeepsPage DEF PageEvents, PageStates
  <2>4. \/ phase' = "fail"
        \/ phase' = "enable" /\ page' \in Pages /\ page'.state = "attached"
    BY <1>4, <2>3 DEF AttachToTarget, Failure, Go
  <2> QED
    BY <2>4, PagesAreThere
<1>5. CASE EnableBaseDomains
  <2>1. page \in Pages /\ PageOk(page) /\ page.state = "attached" /\ phase \notin WithPage
    BY <1>5 DEF EnableBaseDomains, TypeOK, TaskTypeOK, PageInv
  <2>2. <<page.state, "enabled", "enabled">> \in Transitions
    BY <2>1 DEF Transitions
  <2>3. \/ phase' = "fail"
        \/ phase' = "setup" /\ page' \in Pages /\ page'.state = "enabled"
    BY <1>5, <2>1, <2>2, PageCommandMarks DEF EnableBaseDomains, Failure, Go, PageEvents,
         PageStates
  <2> QED
    BY <2>3, PagesAreThere
<1>6. CASE SetUpTarget
  BY <1>6 DEF SetUpTarget, Failure, Go
<1>7. CASE Navigate
  BY <1>7 DEF Navigate, Go
<1>8. CASE NavigateAnswered
  BY <1>8 DEF NavigateAnswered, Failure, Go
<1>9. CASE WaitForPredicate
  <2>1. AfterWait \in {"behavior", "delay", "read"}
    BY <1>9 DEF WaitForPredicate, AfterWait
  <2>2. phase \in Waits /\ phase' \in Waits \cup {"behavior", "delay", "read", "fail"}
    BY <1>9, <2>1 DEF WaitForPredicate, WaitStep, ReadVersion, WaitReturns, WaitFails,
         WaitGoesTo
  <2>3. UNCHANGED <<page, cdp, tracker, navigated, loop>>
    BY <1>9 DEF WaitForPredicate
  <2> QED
    BY <2>2, <2>3
<1>10. CASE RunSiteBehavior
  BY <1>10 DEF RunSiteBehavior, Failure, Go
<1>11. CASE ExtraDelay
  BY <1>11 DEF ExtraDelay, Failure, Go
<1>12. CASE ReadPage
  BY <1>12 DEF ReadPage, ReadDomState, ReadBody, ReadResources, Failure, Go
<1>13. CASE RequestStop
  BY <1>13 DEF RequestStop
<1>14. CASE JoinEventLoop
  BY <1>14 DEF JoinEventLoop, Go
<1>15. CASE StopPage
  <2>1. page \in Pages /\ PageOk(page)
    BY <1>15 DEF StopPage, TypeOK, TaskTypeOK, PageInv
  <2>2. \/ phase' = "fail"
        \/ phase' = "exchange" /\ page' = None
        \/ phase' = "stop page" /\ page' \in Pages
    BY <1>15, <2>1, StopPageStepMarks DEF StopPage, Failure, Go
  <2> QED
    BY <2>2, PagesAreThere
<1>16. CASE MakeExchange
  BY <1>16 DEF MakeExchange, Go
<1>17. CASE FinishCapture
  BY <1>17 DEF FinishCapture, Failure, Go
<1>18. CASE CleanUpPage
  <2>1. CASE page \in Pages /\ PageOk(page)
    <3>1. (phase' = "stop cdp" /\ page' = None) \/ phase' = "clean up"
      BY <1>18, <2>1, StopPageStepMarks DEF CleanUpPage, Go
    <3> QED
      BY <3>1
  <2>2. CASE page = None
    <3>1. phase' = "stop cdp" /\ page' = None
      BY <1>18, <2>2 DEF CleanUpPage, Go
    <3> QED
      BY <3>1
  <2> QED
    BY <2>1, <2>2 DEF TypeOK, TaskTypeOK, PageInv
<1>19. CASE StopCdp
  BY <1>19 DEF StopCdp, Go
<1>20. CASE UNCHANGED <<phase, page>>
  BY <1>20
<1>21. CASE CheckStopping \/ LoseEvents \/ NoteInterceptionError \/ NoteEventProgress
            \/ AnswerPaused \/ ConnectionBreaks \/ DeadlinePasses \/ IdleTimePasses
  BY <1>20, <1>21 DEF CheckStopping, LoopGoesTo, LoseEvents, NoteInterceptionError,
     NoteEventProgress, AnswerPaused, ConnectionBreaks, DeadlinePasses, IdleTimePasses
<1>22. CASE LoadEventFired \/ TargetGone \/ UnparsedEvent
  BY <1>20, <1>22 DEF LoadEventFired, TakeEvent, Receive, TargetGone, UnparsedEvent,
     LoopGoesTo
<1>23. ASSUME NEW r \in Requests,
             RequestWillBeSent(r) \/ Redirected(r) \/ RequestPaused(r) \/ AuthRequired(r)
             \/ ResponseReceived(r) \/ LoadingFinished(r) \/ LoadingFailed(r)
      PROVE  PagePhase'
  BY <1>20, <1>23 DEF RequestWillBeSent, TakeEvent, Receive, Abort, Redirected,
     RequestPaused, AuthRequired, ResponseReceived, LoadingFinished, LoadingFailed
<1>24. CASE UNCHANGED vars
  BY <1>20, <1>24 DEF vars
<1> QED
  BY <1>1, <1>2, <1>3, <1>4, <1>5, <1>6, <1>7, <1>8, <1>9, <1>10, <1>11, <1>12, <1>13,
     <1>14, <1>15, <1>16, <1>17, <1>18, <1>19, <1>20, <1>21, <1>22, <1>23, <1>24 DEF Next,
     CaptureTask, EventLoopTask, BrowserEvent

(* A phase has its connection and its tracker.                             *)
LEMMA ObjectPhaseStep == TypeOK /\ PageInv /\ PhaseInv /\ LoopInv /\ NetInv /\ [Next]_vars => ObjectPhase'
<1> SUFFICES ASSUME TypeOK, PageInv, PhaseInv, LoopInv, NetInv, [Next]_vars PROVE ObjectPhase'
  OBVIOUS
<1>1. tracker # None /\ phase' # "finish" => tracker' # None
  <2>1. TrackerMove
    BY TrackerMoves
  <2> QED
    BY <2>1, NewTrackerOk, TrackersAreThere DEF TrackerMove, Kept
<1>2. tracker = None /\ phase # "attach" => tracker' = None
  <2>1. TrackerMove
    BY TrackerMoves
  <2> QED
    BY <2>1 DEF TrackerMove
<1> USE <1>1, <1>2 DEF PhaseInv, ObjectPhase, LoopInv, LoopUses, WithPage, BeforeLoop, Waits,
            taskVars, loopVars, sharedVars, browserVars
<1>3. CASE ConnectCdp
  BY <1>3 DEF ConnectCdp, Failure, Go
<1>4. CASE MakeBrowserContext
  BY <1>4 DEF MakeBrowserContext, PageCommand, Failure, Go
<1>5. CASE MakeBlankTarget
  BY <1>5 DEF MakeBlankTarget, PageCommand, Failure, Go
<1>6. CASE AttachToTarget
  <2>1. phase = "attach" /\ cdp' = cdp
    BY <1>6 DEF AttachToTarget, Failure, Go
  <2>2. CASE phase' = "fail"
    BY <2>2
  <2>3. CASE phase' = "enable" /\ tracker' = NewTracker
    BY <2>1, <2>3, NewTrackerOk, TrackersAreThere
  <2>4. CASE UNCHANGED <<phase, tracker, navigated, loop>>
    BY <2>1, <2>4
  <2> QED
    BY <1>6, <2>2, <2>3, <2>4 DEF AttachToTarget, Failure, Go
<1>7. CASE EnableBaseDomains
  BY <1>7 DEF EnableBaseDomains, PageCommand, Failure, Go
<1>8. CASE SetUpTarget
  BY <1>8 DEF SetUpTarget, Failure, Go
<1>9. CASE Navigate
  BY <1>9 DEF Navigate, Go
<1>10. CASE NavigateAnswered
  BY <1>10 DEF NavigateAnswered, Failure, Go
<1>11. CASE WaitForPredicate
  <2>1. AfterWait \in {"behavior", "delay", "read"}
    BY <1>11 DEF WaitForPredicate, AfterWait
  <2>2. phase \in Waits /\ phase' \in Waits \cup {"behavior", "delay", "read", "fail"}
    BY <1>11, <2>1 DEF WaitForPredicate, WaitStep, ReadVersion, WaitReturns, WaitFails,
         WaitGoesTo
  <2>3. UNCHANGED <<page, cdp, tracker, navigated, loop>>
    BY <1>11 DEF WaitForPredicate
  <2> QED
    BY <2>2, <2>3
<1>12. CASE RunSiteBehavior
  BY <1>12 DEF RunSiteBehavior, Failure, Go
<1>13. CASE ExtraDelay
  BY <1>13 DEF ExtraDelay, Failure, Go
<1>14. CASE ReadPage
  BY <1>14 DEF ReadPage, ReadDomState, ReadBody, ReadResources, Failure, Go
<1>15. CASE RequestStop
  BY <1>15 DEF RequestStop
<1>16. CASE JoinEventLoop
  BY <1>16 DEF JoinEventLoop, Go
<1>17. CASE StopPage
  BY <1>17 DEF StopPage, StopPageStep, Failure, Go
<1>18. CASE MakeExchange
  BY <1>18 DEF MakeExchange, Go
<1>19. CASE FinishCapture
  BY <1>19 DEF FinishCapture, Failure, Go
<1>20. CASE CleanUpPage
  BY <1>20 DEF CleanUpPage, StopPageStep, Go
<1>21. CASE StopCdp
  BY <1>21 DEF StopCdp, Go
<1>22. CASE CheckStopping
  BY <1>22 DEF CheckStopping, LoopGoesTo
<1>23. CASE LoseEvents
  BY <1>23 DEF LoseEvents, LoopGoesTo
<1>24. CASE NoteInterceptionError
  BY <1>24 DEF NoteInterceptionError, LoopGoesTo
<1>25. CASE NoteEventProgress
  BY <1>25 DEF NoteEventProgress, LoopGoesTo
<1>26. CASE AnswerPaused
  BY <1>26 DEF AnswerPaused
<1>27. CASE ConnectionBreaks
  BY <1>27 DEF ConnectionBreaks
<1>28. CASE DeadlinePasses
  BY <1>28 DEF DeadlinePasses
<1>29. CASE IdleTimePasses
  BY <1>29 DEF IdleTimePasses
<1>30. CASE LoadEventFired
  BY <1>30 DEF LoadEventFired, TakeEvent, Receive
<1>31. CASE TargetGone
  BY <1>31 DEF TargetGone, TakeEvent
<1>32. CASE UnparsedEvent
  <2>1. UNCHANGED <<phase, cdp>> /\ loop = "wait"
    BY <1>32 DEF UnparsedEvent, TakeEvent, Receive, LoopGoesTo
  <2> QED
    BY <2>1
<1>33. ASSUME NEW r \in Requests, RequestWillBeSent(r) PROVE ObjectPhase'
  <2>1. UNCHANGED <<phase, cdp>> /\ loop = "wait"
    BY <1>33 DEF RequestWillBeSent, TakeEvent, Receive, Abort
  <2> QED
    BY <2>1
<1>34. ASSUME NEW r \in Requests, Redirected(r) PROVE ObjectPhase'
  <2>1. UNCHANGED <<phase, cdp>> /\ loop = "wait"
    BY <1>34 DEF Redirected, TakeEvent, Receive, Abort
  <2> QED
    BY <2>1
<1>35. ASSUME NEW r \in Requests, RequestPaused(r) PROVE ObjectPhase'
  BY <1>35 DEF RequestPaused, TakeEvent
<1>36. ASSUME NEW r \in Requests, AuthRequired(r) PROVE ObjectPhase'
  BY <1>36 DEF AuthRequired, TakeEvent
<1>37. ASSUME NEW r \in Requests, ResponseReceived(r) PROVE ObjectPhase'
  BY <1>37 DEF ResponseReceived, TakeEvent, Receive
<1>38. ASSUME NEW r \in Requests, LoadingFinished(r) PROVE ObjectPhase'
  BY <1>38 DEF LoadingFinished, TakeEvent, Receive
<1>39. ASSUME NEW r \in Requests, LoadingFailed(r) PROVE ObjectPhase'
  BY <1>39 DEF LoadingFailed, TakeEvent, Receive
<1>40. CASE UNCHANGED <<phase, cdp, tracker, navigated, loop>>
  BY <1>40
<1>41. CASE UNCHANGED vars
  BY <1>40, <1>41 DEF vars
<1> QED
  BY <1>3, <1>4, <1>5, <1>6, <1>7, <1>8, <1>9, <1>10, <1>11, <1>12, <1>13, <1>14, <1>15,
     <1>16, <1>17, <1>18, <1>19, <1>20, <1>21, <1>22, <1>23, <1>24, <1>25, <1>26, <1>27,
     <1>28, <1>29, <1>30, <1>31, <1>32, <1>33, <1>34, <1>35, <1>36, <1>37, <1>38, <1>39,
     <1>40, <1>41 DEF Next, CaptureTask, EventLoopTask, BrowserEvent

(* The navigation is begun before it is requested, and a wait begins at its*)
(* beginning.                                                              *)
LEMMA StartedPhaseStep == TypeOK /\ PhaseInv /\ LoopInv /\ NetInv /\ [Next]_vars => StartedPhase'
<1> SUFFICES ASSUME TypeOK, PhaseInv, LoopInv, NetInv, [Next]_vars PROVE StartedPhase'
  OBVIOUS
<1>1. navigated /\ tracker' # None => tracker # None /\ tracker'.started
  <2>1. TrackerMove
    BY TrackerMoves
  <2> QED
    BY <2>1, NewTrackerOk DEF TrackerMove, Kept, PhaseInv, StartedPhase, ObjectPhase, BeforeLoop
<1>2. loop # "none" => phase \notin BeforeLoop
  BY DEF PhaseInv, ObjectPhase, LoopInv, LoopUses, BeforeLoop, WithPage, Waits
<1> USE <1>1, <1>2 DEF PhaseInv, StartedPhase, ObjectPhase, WithPage, BeforeLoop, taskVars, loopVars,
            sharedVars, browserVars
<1>3. CASE ConnectCdp
  BY <1>3 DEF ConnectCdp, Failure, Go, Waits
<1>4. CASE MakeBrowserContext
  BY <1>4 DEF MakeBrowserContext, PageCommand, Failure, Go, Waits
<1>5. CASE MakeBlankTarget
  BY <1>5 DEF MakeBlankTarget, PageCommand, Failure, Go, Waits
<1>6. CASE AttachToTarget
  BY <1>6 DEF AttachToTarget, Failure, Go, Waits
<1>7. CASE EnableBaseDomains
  BY <1>7 DEF EnableBaseDomains, PageCommand, Failure, Go, Waits
<1>8. CASE SetUpTarget
  BY <1>8 DEF SetUpTarget, Failure, Go, Waits
<1>9. CASE Navigate
  <2>1. tracker \in Trackers /\ phase = "navigate"
    BY <1>9 DEF Navigate, TypeOK, LoopTypeOK, Waits
  <2>2. tracker'.started
    BY <1>9, <2>1 DEF Navigate, BeginSeedNavigation, Trackers
  <2>3. phase \notin Waits /\ wait' = wait /\ phase' = "navigating"
    BY <1>9 DEF Navigate, Go, Waits
  <2> QED
    BY <2>2, <2>3
<1>10. CASE NavigateAnswered
  BY <1>10 DEF NavigateAnswered, Failure, Go, Waits
<1>11. CASE WaitForPredicate
  <2>1. UNCHANGED <<navigated, tracker>> /\ phase \in Waits
    BY <1>11 DEF WaitForPredicate
  <2>2. phase' \notin Waits => wait' = "test"
    BY <1>11, <2>1 DEF WaitForPredicate, WaitStep, ReadVersion, WaitReturns, WaitFails,
         WaitGoesTo
  <2>3. AfterWait \in {"behavior", "delay", "read"}
    BY <2>1 DEF AfterWait, Waits
  <2>4. phase' \in Waits \cup {"behavior", "delay", "read", "fail"}
    BY <1>11, <2>1, <2>3 DEF WaitForPredicate, WaitStep, ReadVersion, WaitReturns, WaitFails,
         WaitGoesTo
  <2> QED
    BY <2>1, <2>2, <2>4 DEF Waits
<1>12. CASE RunSiteBehavior
  BY <1>12 DEF RunSiteBehavior, Failure, Go, Waits
<1>13. CASE ExtraDelay
  BY <1>13 DEF ExtraDelay, Failure, Go, Waits
<1>14. CASE ReadPage
  <2>1. CASE ReadDomState
    BY <2>1 DEF ReadDomState, Failure, Go, Waits
  <2>2. CASE ReadBody
    BY <2>2 DEF ReadBody, Failure, Go, Waits
  <2>3. CASE ReadResources
    BY <2>3 DEF ReadResources, Failure, Go, Waits
  <2> QED
    BY <1>14, <2>1, <2>2, <2>3 DEF ReadPage
<1>15. CASE RequestStop
  BY <1>15 DEF RequestStop, Waits
<1>16. CASE JoinEventLoop
  BY <1>16 DEF JoinEventLoop, Go, Waits
<1>17. CASE StopPage
  <2>1. phase \notin Waits /\ wait' = wait /\ UNCHANGED <<tracker, navigated>>
    BY <1>17 DEF StopPage, Failure, Go, Waits
  <2>2. phase' \in {"fail", "exchange", "stop page", "stop cdp", "clean up"}
    BY <1>17 DEF StopPage, StopPageStep, Failure, Go
  <2> QED
    BY <2>1, <2>2
<1>18. CASE MakeExchange
  BY <1>18 DEF MakeExchange, Go, Waits
<1>19. CASE FinishCapture
  BY <1>19 DEF FinishCapture, Failure, Go, Waits
<1>20. CASE CleanUpPage
  <2>1. phase \notin Waits /\ wait' = wait /\ UNCHANGED <<tracker, navigated>>
    BY <1>20 DEF CleanUpPage, Failure, Go, Waits
  <2>2. phase' \in {"fail", "exchange", "stop page", "stop cdp", "clean up"}
    BY <1>20 DEF CleanUpPage, StopPageStep, Failure, Go
  <2> QED
    BY <2>1, <2>2
<1>21. CASE StopCdp
  BY <1>21 DEF StopCdp, Go, Waits
<1>22. CASE UNCHANGED <<phase, navigated, wait>>
  BY <1>22
<1>23. CASE CheckStopping \/ LoseEvents \/ NoteInterceptionError
  BY <1>22, <1>23 DEF CheckStopping, LoopGoesTo, LoseEvents, NoteInterceptionError
<1>24. CASE NoteEventProgress \/ AnswerPaused \/ ConnectionBreaks
  BY <1>22, <1>24 DEF NoteEventProgress, LoopGoesTo, AnswerPaused, ConnectionBreaks
<1>25. CASE DeadlinePasses \/ IdleTimePasses \/ LoadEventFired
  BY <1>22, <1>25 DEF DeadlinePasses, IdleTimePasses, LoadEventFired, TakeEvent, Receive
<1>26. CASE TargetGone \/ UnparsedEvent
  BY <1>22, <1>26 DEF TargetGone, TakeEvent, UnparsedEvent, Receive, LoopGoesTo
<1>27. ASSUME NEW r \in Requests,
             RequestWillBeSent(r) \/ Redirected(r) \/ RequestPaused(r)
      PROVE  StartedPhase'
  BY <1>22, <1>27 DEF RequestWillBeSent, TakeEvent, Receive, Abort, Redirected,
     RequestPaused
<1>28. ASSUME NEW r \in Requests,
             AuthRequired(r) \/ ResponseReceived(r) \/ LoadingFinished(r)
      PROVE  StartedPhase'
  BY <1>22, <1>28 DEF AuthRequired, TakeEvent, ResponseReceived, Receive, LoadingFinished
<1>29. ASSUME NEW r \in Requests,
             LoadingFailed(r)
      PROVE  StartedPhase'
  BY <1>22, <1>29 DEF LoadingFailed, TakeEvent, Receive
<1>30. CASE UNCHANGED vars
  BY <1>22, <1>30 DEF vars
<1> QED
  BY <1>3, <1>4, <1>5, <1>6, <1>7, <1>8, <1>9, <1>10, <1>11, <1>12, <1>13, <1>14, <1>15,
     <1>16, <1>17, <1>18, <1>19, <1>20, <1>21, <1>22, <1>23, <1>24, <1>25, <1>26, <1>27,
     <1>28, <1>29, <1>30 DEF Next, CaptureTask, EventLoopTask, BrowserEvent

(* The event loop runs only while what it uses is there.                   *)
LEMMA LoopUsesStep == TypeOK /\ PageInv /\ PhaseInv /\ LoopInv /\ NetInv /\ [Next]_vars => LoopUses'
<1> SUFFICES ASSUME TypeOK, PageInv, PhaseInv, LoopInv, NetInv, [Next]_vars PROVE LoopUses'
  OBVIOUS
<1>1. tracker # None /\ phase' # "finish" => tracker' # None
  <2>1. TrackerMove
    BY TrackerMoves
  <2> QED
    BY <2>1, NewTrackerOk, TrackersAreThere DEF TrackerMove, Kept
<1>2. phase' \in {"enable"} \cup WithPage => cdp' /\ tracker' # None /\ page' # None /\ page'.session
  <2>1. PagePhase' /\ PageInv' /\ ObjectPhase'
    BY PageStep, PagePhaseStep, ObjectPhaseStep DEF PageTypeInv
  <2> QED
    BY <2>1 DEF PagePhase, PageInv, ObjectPhase, PageOk
<1> USE <1>1, <1>2 DEF LoopInv, LoopUses, HasSession, taskVars, loopVars, sharedVars, browserVars
<1>3. CASE ConnectCdp
  BY <1>3 DEF ConnectCdp, PhaseInv, ObjectPhase, BeforeLoop
<1>4. CASE MakeBrowserContext
  BY <1>4 DEF MakeBrowserContext, PhaseInv, ObjectPhase, BeforeLoop
<1>5. CASE MakeBlankTarget
  BY <1>5 DEF MakeBlankTarget, PhaseInv, ObjectPhase, BeforeLoop
<1>6. CASE AttachToTarget
  <2>1. loop = "none" /\ (loop' = "none" \/ phase' = "enable")
    BY <1>6 DEF AttachToTarget, Go, Failure, PhaseInv, ObjectPhase, BeforeLoop
  <2> QED
    BY <2>1
<1>7. CASE EnableBaseDomains
  <2>1. page \in Pages /\ PageOk(page) /\ page.state = "attached"
    BY <1>7 DEF EnableBaseDomains, TypeOK, TaskTypeOK, PageInv, PhaseInv, PagePhase
  <2>2. <<page.state, "enabled", "enabled">> \in Transitions
    BY <2>1 DEF Transitions
  <2>3. /\ UNCHANGED <<loop, tracker, cdp>>
        /\ (phase' = "fail" /\ page' = page) \/ phase' = "setup"
    BY <1>7, <2>1, <2>2, PageCommandMarks DEF EnableBaseDomains, Failure, Go, PageEvents,
         PageStates
  <2> QED
    BY <2>3 DEF WithPage
<1>8. CASE SetUpTarget
  BY <1>8 DEF SetUpTarget, Failure, Go, WithPage, Waits
<1>9. CASE Navigate
  BY <1>9 DEF Navigate, Go, WithPage, Waits
<1>10. CASE NavigateAnswered
  BY <1>10 DEF NavigateAnswered, Failure, Go, WithPage, Waits
<1>11. CASE WaitForPredicate
  <2>1. phase \in Waits /\ UNCHANGED <<loop, page, cdp, tracker>>
    BY <1>11 DEF WaitForPredicate
  <2>2. AfterWait \in {"behavior", "delay", "read"}
    BY <2>1 DEF AfterWait, Waits
  <2>3. phase' \in {"fail"} \cup WithPage
    BY <1>11, <2>1, <2>2 DEF WaitForPredicate, WaitStep, ReadVersion, WaitReturns, WaitFails,
         WaitGoesTo, WithPage
  <2> QED
    BY <2>1, <2>3
<1>12. CASE RunSiteBehavior
  BY <1>12 DEF RunSiteBehavior, Failure, Go, WithPage, Waits
<1>13. CASE ExtraDelay
  BY <1>13 DEF ExtraDelay, Failure, Go, WithPage, Waits
<1>14. CASE ReadPage
  BY <1>14 DEF ReadPage, ReadDomState, ReadBody, ReadResources, Failure, Go, WithPage, Waits
<1>15. CASE RequestStop
  BY <1>15 DEF RequestStop, WithPage, Waits
<1>16. CASE JoinEventLoop
  BY <1>16 DEF JoinEventLoop, Go, WithPage, Waits
<1>17. CASE StopPage
  BY <1>17 DEF StopPage, StopPageStep, Failure, Go, WithPage, Waits
<1>18. CASE MakeExchange
  BY <1>18 DEF MakeExchange, Go, WithPage, Waits
<1>19. CASE FinishCapture
  BY <1>19 DEF FinishCapture, Failure, Go, WithPage, Waits
<1>20. CASE CleanUpPage
  BY <1>20 DEF CleanUpPage, StopPageStep, Go, WithPage, Waits
<1>21. CASE StopCdp
  BY <1>21 DEF StopCdp, Go, WithPage, Waits
<1>22. CASE UNCHANGED <<phase, page, cdp>> /\ (loop # "none" \/ loop' = "none")
  BY <1>22
<1>23. CASE CheckStopping \/ LoseEvents \/ NoteInterceptionError
  BY <1>22, <1>23 DEF CheckStopping, LoopGoesTo, LoseEvents, NoteInterceptionError
<1>24. CASE NoteEventProgress \/ AnswerPaused \/ ConnectionBreaks
  BY <1>22, <1>24 DEF NoteEventProgress, LoopGoesTo, AnswerPaused, ConnectionBreaks
<1>25. CASE DeadlinePasses \/ IdleTimePasses \/ LoadEventFired
  BY <1>22, <1>25 DEF DeadlinePasses, IdleTimePasses, LoadEventFired, TakeEvent, Receive
<1>26. CASE TargetGone \/ UnparsedEvent
  BY <1>22, <1>26 DEF TargetGone, TakeEvent, UnparsedEvent, Receive, LoopGoesTo
<1>27. ASSUME NEW r \in Requests,
             RequestWillBeSent(r) \/ Redirected(r) \/ RequestPaused(r)
      PROVE  LoopUses'
  BY <1>22, <1>27 DEF RequestWillBeSent, TakeEvent, Receive, Abort, Redirected,
     RequestPaused
<1>28. ASSUME NEW r \in Requests,
             AuthRequired(r) \/ ResponseReceived(r) \/ LoadingFinished(r)
      PROVE  LoopUses'
  BY <1>22, <1>28 DEF AuthRequired, TakeEvent, ResponseReceived, Receive, LoadingFinished
<1>29. ASSUME NEW r \in Requests,
             LoadingFailed(r)
      PROVE  LoopUses'
  BY <1>22, <1>29 DEF LoadingFailed, TakeEvent, Receive
<1>30. CASE UNCHANGED vars
  BY <1>30 DEF vars
<1> QED
  BY <1>3, <1>4, <1>5, <1>6, <1>7, <1>8, <1>9, <1>10, <1>11, <1>12, <1>13, <1>14, <1>15,
     <1>16, <1>17, <1>18, <1>19, <1>20, <1>21, <1>22, <1>23, <1>24, <1>25, <1>26, <1>27,
     <1>28, <1>29, <1>30 DEF Next, CaptureTask, EventLoopTask, BrowserEvent

(* Only the exchange and a redirect without a status may abort.            *)
LEMMA AbortStep ==
    TypeOK /\ PageInv /\ PhaseInv /\ LoopInv /\ NetOrder /\ [Next]_vars => AbortsAreKnown'
<1> SUFFICES ASSUME TypeOK, PageInv, PhaseInv, LoopInv, NetOrder, [Next]_vars
             PROVE  AbortsAreKnown'
  OBVIOUS
<1> USE DEF LoopInv, AbortsAreKnown, taskVars, loopVars, sharedVars, browserVars
<1>1. CASE MakeBrowserContext
  <2>1. page \in Pages /\ PageOk(page) /\ page.state = "idle"
    BY <1>1 DEF MakeBrowserContext, TypeOK, TaskTypeOK, PageInv, PhaseInv, PagePhase
  <2>2. <<page.state, "context created", "context">> \in Transitions
    BY <2>1 DEF Transitions
  <2> QED
    BY <1>1, <2>1, <2>2, PageCommandMarks DEF MakeBrowserContext, PageEvents, PageStates
<1>2. CASE MakeBlankTarget
  <2>1. page \in Pages /\ PageOk(page) /\ page.state = "context"
    BY <1>2 DEF MakeBlankTarget, TypeOK, TaskTypeOK, PageInv, PhaseInv, PagePhase
  <2>2. <<page.state, "target created", "target">> \in Transitions
    BY <2>1 DEF Transitions
  <2> QED
    BY <1>2, <2>1, <2>2, PageCommandMarks DEF MakeBlankTarget, PageEvents, PageStates
<1>3. CASE AttachToTarget
  <2>1. page \in Pages /\ PageOk(page) /\ page.state = "target"
    BY <1>3 DEF AttachToTarget, TypeOK, TaskTypeOK, PageInv, PhaseInv, PagePhase
  <2>2. <<page.state, "attached", "attached">> \in Transitions
    BY <2>1 DEF Transitions
  <2>3. Accepts(page.state, "attached")
    BY <2>1, <2>2, MarkKeepsPage DEF PageEvents, PageStates
  <2> QED
    BY <1>3, <2>3 DEF AttachToTarget
<1>4. CASE EnableBaseDomains
  <2>1. page \in Pages /\ PageOk(page) /\ page.state = "attached"
    BY <1>4 DEF EnableBaseDomains, TypeOK, TaskTypeOK, PageInv, PhaseInv, PagePhase
  <2>2. <<page.state, "enabled", "enabled">> \in Transitions
    BY <2>1 DEF Transitions
  <2> QED
    BY <1>4, <2>1, <2>2, PageCommandMarks DEF EnableBaseDomains, PageEvents, PageStates
<1>5. CASE StopPage
  <2>1. page \in Pages /\ PageOk(page)
    BY <1>5 DEF StopPage, TypeOK, TaskTypeOK, PageInv, PhaseInv, PagePhase
  <2> QED
    BY <1>5, <2>1, StopPageStepMarks DEF StopPage
<1>6. CASE MakeExchange
  BY <1>6 DEF MakeExchange, Go
<1>7. CASE CleanUpPage
  <2>1. CASE page \in Pages /\ PageOk(page)
    BY <1>7, <2>1, StopPageStepMarks DEF CleanUpPage
  <2>2. CASE page = None
    BY <1>7, <2>2 DEF CleanUpPage
  <2> QED
    BY <2>1, <2>2 DEF TypeOK, TaskTypeOK, PageInv
<1>8. CASE CheckStopping
  <2>1. HasSession
    BY <1>8 DEF CheckStopping, LoopUses
  <2> QED
    BY <1>8, <2>1 DEF CheckStopping
<1>9. CASE AnswerPaused
  <2>1. HasSession
    BY <1>9 DEF AnswerPaused, LoopUses
  <2> QED
    BY <1>9, <2>1 DEF AnswerPaused
<1>10. ASSUME NEW r \in Requests, RequestWillBeSent(r) PROVE AbortsAreKnown'
  <2>1. tracker.started
    BY <1>10 DEF RequestWillBeSent, TakeEvent, LoopUses, PhaseInv, StartedPhase
  <2> QED
    BY <1>10, <2>1 DEF RequestWillBeSent, Abort, Receive
<1>11. CASE UNCHANGED aborted
  BY <1>11
<1>12. CASE ConnectCdp \/ SetUpTarget \/ Navigate \/ NavigateAnswered \/ WaitForPredicate
            \/ RunSiteBehavior \/ ExtraDelay \/ ReadPage
  BY <1>11, <1>12 DEF ConnectCdp, Failure, Go, SetUpTarget, Navigate, NavigateAnswered,
     WaitForPredicate, WaitStep, ReadVersion, WaitReturns, WaitFails, WaitGoesTo,
     RunSiteBehavior, ExtraDelay, ReadPage, ReadDomState, ReadBody, ReadResources
<1>13. CASE RequestStop \/ JoinEventLoop \/ FinishCapture \/ StopCdp \/ LoseEvents
            \/ NoteInterceptionError \/ NoteEventProgress \/ ConnectionBreaks
  BY <1>11, <1>13 DEF RequestStop, JoinEventLoop, Go, FinishCapture, Failure, StopCdp,
     LoseEvents, LoopGoesTo, NoteInterceptionError, NoteEventProgress, ConnectionBreaks
<1>14. CASE DeadlinePasses \/ IdleTimePasses \/ LoadEventFired \/ TargetGone
            \/ UnparsedEvent
  BY <1>11, <1>14 DEF DeadlinePasses, IdleTimePasses, LoadEventFired, TakeEvent, Receive,
     TargetGone, UnparsedEvent, LoopGoesTo
<1>15. ASSUME NEW r \in Requests,
             RequestPaused(r) \/ AuthRequired(r) \/ ResponseReceived(r)
             \/ LoadingFinished(r) \/ LoadingFailed(r)
      PROVE  AbortsAreKnown'
  BY <1>11, <1>15 DEF TakeEvent, Receive, RequestPaused, AuthRequired,
     ResponseReceived, LoadingFinished, LoadingFailed
<1>16. CASE UNCHANGED vars
  BY <1>11, <1>16 DEF vars
<1>17. ASSUME NEW r \in Requests, Redirected(r) PROVE AbortsAreKnown'
  <2>1. tracker.started
    BY <1>17 DEF Redirected, TakeEvent, LoopUses, PhaseInv, StartedPhase, NetOrder
  <2> QED
    BY <1>17, <2>1 DEF Redirected, Abort, Receive
<1> QED
  BY <1>1, <1>2, <1>3, <1>4, <1>5, <1>6, <1>7, <1>8, <1>9, <1>10, <1>11, <1>12, <1>13,
     <1>14, <1>15, <1>16, <1>17 DEF Next, CaptureTask, EventLoopTask, BrowserEvent

(* What the capture task has not seen yet, it will be told.                *)
LEMMA WakeStep == TypeOK /\ PhaseInv /\ WakeInv /\ [Next]_vars => WakeInv'
<1> SUFFICES ASSUME TypeOK, PhaseInv, WakeInv, [Next]_vars PROVE WakeInv'
  OBVIOUS
<1> USE DEF WakeInv, InHand, taskVars, loopVars, sharedVars, browserVars
<1>1. CASE WaitForPredicate
  <2>1. UNCHANGED <<loop, tracker, interception>> /\ phase \in Waits
    BY <1>1 DEF WaitForPredicate
  <2>2. CurrentWaitError' = CurrentWaitError
    BY <2>1 DEF CurrentWaitError
  <2>3. phase' = phase => Predicate' = Predicate
    BY <2>1 DEF Predicate
  <2>4. CASE ReadVersion
    BY <2>4 DEF ReadVersion, WaitGoesTo
  <2>5. CASE WaitStep /\ UNCHANGED progressed
    <3>1. CASE wait' \notin {"reerror", "sleep"}
      BY <3>1
    <3>2. CASE wait' = "reerror"
      <4>1. phase' = phase /\ ~Predicate
        BY <2>5, <3>2 DEF WaitStep, WaitReturns, WaitFails, WaitGoesTo
      <4> QED
        BY <2>3, <3>2, <4>1
    <3>3. CASE wait' = "sleep"
      <4>1. phase' = phase /\ wait = "reerror" /\ ~CurrentWaitError
        BY <2>5, <3>3 DEF WaitStep, WaitReturns, WaitFails, WaitGoesTo
      <4> QED
        BY <2>1, <2>2, <2>3, <2>5, <3>3, <4>1
    <3> QED
      BY <3>1, <3>2, <3>3
  <2> QED
    BY <1>1, <2>4, <2>5 DEF WaitForPredicate
<1>2. CASE UNCHANGED <<phase, wait, tracker, interception, progressed>> /\ (loop' \in InHand \/ loop \notin InHand)
  BY <1>2 DEF Predicate, CurrentWaitError
<1>3. CASE ConnectCdp \/ MakeBrowserContext \/ MakeBlankTarget
  BY <1>2, <1>3 DEF ConnectCdp, Failure, Go, Waits, PhaseInv, StartedPhase,
     MakeBrowserContext, PageCommand, MakeBlankTarget
<1>4. CASE AttachToTarget \/ EnableBaseDomains \/ SetUpTarget
  BY <1>2, <1>4 DEF AttachToTarget, Failure, Go, Waits, PhaseInv, StartedPhase,
     EnableBaseDomains, PageCommand, SetUpTarget
<1>5. CASE Navigate \/ NavigateAnswered \/ RunSiteBehavior
  BY <1>2, <1>5 DEF Navigate, Go, Waits, PhaseInv, StartedPhase, NavigateAnswered,
     Failure, RunSiteBehavior
<1>6. CASE ExtraDelay \/ ReadPage \/ RequestStop
  BY <1>2, <1>6 DEF ExtraDelay, Failure, Go, Waits, PhaseInv, StartedPhase,
     ReadPage, ReadDomState, ReadBody, ReadResources,
     RequestStop
<1>7. CASE JoinEventLoop \/ StopPage \/ MakeExchange
  BY <1>2, <1>7 DEF JoinEventLoop, Go, Waits, PhaseInv, StartedPhase, StopPage,
     StopPageStep, Failure, MakeExchange
<1>8. CASE FinishCapture \/ CleanUpPage \/ StopCdp
  BY <1>2, <1>8 DEF FinishCapture, Failure, Go, Waits, PhaseInv, StartedPhase,
     CleanUpPage, StopPageStep, StopCdp
<1>9. CASE CheckStopping \/ LoseEvents \/ NoteInterceptionError
  BY <1>2, <1>9 DEF CheckStopping, LoopGoesTo, LoseEvents, NoteInterceptionError
<1>10. CASE NoteEventProgress \/ AnswerPaused \/ ConnectionBreaks
  BY <1>2, <1>10 DEF NoteEventProgress, LoopGoesTo, AnswerPaused, ConnectionBreaks
<1>11. CASE DeadlinePasses \/ IdleTimePasses \/ LoadEventFired
  BY <1>2, <1>11 DEF DeadlinePasses, IdleTimePasses, LoadEventFired, TakeEvent, Receive
<1>12. CASE TargetGone \/ UnparsedEvent
  BY <1>2, <1>12 DEF TargetGone, TakeEvent, UnparsedEvent, Receive, LoopGoesTo
<1>13. ASSUME NEW r \in Requests,
             RequestWillBeSent(r) \/ Redirected(r) \/ RequestPaused(r)
      PROVE  WakeInv'
  BY <1>2, <1>13 DEF RequestWillBeSent, TakeEvent, Receive, Abort, Redirected,
     RequestPaused
<1>14. ASSUME NEW r \in Requests,
             AuthRequired(r) \/ ResponseReceived(r) \/ LoadingFinished(r)
      PROVE  WakeInv'
  BY <1>2, <1>14 DEF AuthRequired, TakeEvent, ResponseReceived, Receive, LoadingFinished
<1>15. ASSUME NEW r \in Requests,
             LoadingFailed(r)
      PROVE  WakeInv'
  BY <1>2, <1>15 DEF LoadingFailed, TakeEvent, Receive
<1>16. CASE UNCHANGED vars
  BY <1>2, <1>16 DEF vars
<1> QED
  BY <1>1, <1>2, <1>3, <1>4, <1>5, <1>6, <1>7, <1>8, <1>9, <1>10, <1>11, <1>12, <1>13,
     <1>14, <1>15, <1>16 DEF Next, CaptureTask, EventLoopTask, BrowserEvent

(* No request goes out before the seed.                                    *)
LEMMA NetOrderStep == TypeOK /\ PhaseInv /\ NetOrder /\ [Next]_vars => NetOrder'
<1> SUFFICES ASSUME TypeOK, PhaseInv, NetOrder, [Next]_vars PROVE NetOrder'
  OBVIOUS
<1> USE DEF NetOrder, taskVars, loopVars, sharedVars, browserVars
<1>1. CASE Navigate
  <2>1. ~navigated /\ UNCHANGED net
    BY <1>1 DEF Navigate, PhaseInv, StartedPhase
  <2> QED
    BY <2>1
<1>2. ASSUME NEW r \in Requests, RequestWillBeSent(r) PROVE NetOrder'
  <2>1. navigated /\ navigated' = navigated /\ (r # Seed => net[Seed] # "unsent")
    BY <1>2 DEF RequestWillBeSent, Abort, Receive
  <2>2. net' = net \/ net' = [net EXCEPT ![r] = "sent"]
    BY <1>2 DEF RequestWillBeSent, Abort
  <2> QED
    BY <2>1, <2>2 DEF Requests, TypeOK, BrowserTypeOK
<1>3. ASSUME NEW r \in Requests, ResponseReceived(r) PROVE NetOrder'
  <2>1. net[r] # "unsent" /\ net' = [net EXCEPT ![r] = "answered"] /\ navigated' = navigated
    BY <1>3 DEF ResponseReceived, Receive
  <2> QED
    BY <2>1 DEF Requests, TypeOK, BrowserTypeOK
<1>4. ASSUME NEW r \in Requests, LoadingFinished(r) PROVE NetOrder'
  <2>1. net[r] # "unsent" /\ net' = [net EXCEPT ![r] = "ended"] /\ navigated' = navigated
    BY <1>4 DEF LoadingFinished, Receive
  <2> QED
    BY <2>1 DEF Requests, TypeOK, BrowserTypeOK
<1>5. ASSUME NEW r \in Requests, LoadingFailed(r) PROVE NetOrder'
  <2>1. net[r] # "unsent" /\ net' = [net EXCEPT ![r] = "ended"] /\ navigated' = navigated
    BY <1>5 DEF LoadingFailed, Receive
  <2> QED
    BY <2>1 DEF Requests, TypeOK, BrowserTypeOK
<1>6. CASE UNCHANGED <<net, navigated>>
  BY <1>6
<1>7. CASE ConnectCdp \/ MakeBrowserContext \/ MakeBlankTarget \/ AttachToTarget
            \/ EnableBaseDomains \/ SetUpTarget \/ NavigateAnswered \/ WaitForPredicate
  BY <1>6, <1>7 DEF ConnectCdp, Failure, Go, MakeBrowserContext, PageCommand,
     MakeBlankTarget, AttachToTarget, EnableBaseDomains, SetUpTarget, NavigateAnswered,
     WaitForPredicate, WaitStep, ReadVersion, WaitReturns, WaitFails, WaitGoesTo
<1>8. CASE RunSiteBehavior \/ ExtraDelay \/ ReadPage \/ RequestStop \/ JoinEventLoop
            \/ StopPage \/ MakeExchange \/ FinishCapture
  BY <1>6, <1>8 DEF RunSiteBehavior, Failure, Go, ExtraDelay,
     ReadPage, ReadDomState, ReadBody, ReadResources, RequestStop,
     JoinEventLoop, StopPage, StopPageStep, MakeExchange, FinishCapture
<1>9. CASE CleanUpPage \/ StopCdp \/ CheckStopping \/ LoseEvents \/ NoteInterceptionError
            \/ NoteEventProgress \/ AnswerPaused \/ ConnectionBreaks
  BY <1>6, <1>9 DEF CleanUpPage, StopPageStep, Go, StopCdp, CheckStopping, LoopGoesTo,
     LoseEvents, NoteInterceptionError, NoteEventProgress, AnswerPaused, ConnectionBreaks
<1>10. CASE DeadlinePasses \/ IdleTimePasses \/ LoadEventFired \/ TargetGone
            \/ UnparsedEvent
  BY <1>6, <1>10 DEF DeadlinePasses, IdleTimePasses, LoadEventFired, TakeEvent, Receive,
     TargetGone, UnparsedEvent, LoopGoesTo
<1>11. ASSUME NEW r \in Requests,
             Redirected(r) \/ RequestPaused(r) \/ AuthRequired(r)
      PROVE  NetOrder'
  BY <1>6, <1>11 DEF Redirected, TakeEvent, Receive, Abort, RequestPaused, AuthRequired
<1>12. CASE UNCHANGED vars
  BY <1>6, <1>12 DEF vars
<1> QED
  BY <1>1, <1>2, <1>3, <1>4, <1>5, <1>6, <1>7, <1>8, <1>9, <1>10, <1>11, <1>12 DEF Next,
     CaptureTask, EventLoopTask, BrowserEvent

(* No step makes another document than the seed the main one.              *)
LEMMA SeedStep == TypeOK /\ PhaseInv /\ LoopInv /\ NetInv /\ CapturesTheSeed /\ [Next]_vars => SeedInv'
<1> SUFFICES ASSUME TypeOK, PhaseInv, LoopInv, NetInv, CapturesTheSeed, [Next]_vars PROVE SeedInv'
  OBVIOUS
<1>1. CASE UNCHANGED <<tracker, net, seedMatches>>
  BY <1>1 DEF SeedInv, NetInv, MainSent, SeedLoads, CapturesTheSeed
<1>2. ASSUME tracker \in Trackers, tracker # None, seedMatches' = seedMatches,
             \/ tracker' = tracker
             \/ tracker'.mainId = tracker.mainId /\ tracker'.mainLoader = tracker.mainLoader,
             \A q \in Requests : net'[q] = "unsent" <=> net[q] = "unsent"
      PROVE  SeedInv'
  <2>1. tracker.mainId \in Requests \cup {None} /\ Seed \in Requests
    BY <1>2, TrackerFields DEF Requests
  <2> QED
    BY <1>2, <2>1 DEF SeedInv, NetInv, MainSent, SeedLoads, CapturesTheSeed
<1> USE DEF taskVars, loopVars, sharedVars, browserVars
<1>3. CASE AttachToTarget
  <2>1. net[Seed] = "unsent" /\ UNCHANGED <<net, seedMatches>>
    BY <1>3 DEF AttachToTarget, PhaseInv, ObjectPhase, BeforeLoop, NetInv, NetOrder, Requests
  <2>2. tracker' = tracker \/ tracker' = NewTracker
    BY <1>3 DEF AttachToTarget, Failure
  <2>3. NewTracker.mainId = None /\ NewTracker.mainLoader = None
    BY DEF NewTracker
  <2> QED
    BY <2>1, <2>2, <2>3 DEF SeedInv, NetInv, MainSent, SeedLoads, CapturesTheSeed
<1>4. CASE Navigate
  <2>1. tracker \in Trackers /\ tracker # None
    BY <1>4 DEF Navigate, Go, TypeOK, LoopTypeOK, PhaseInv, ObjectPhase, WithPage, Waits,
         LoopInv, LoopUses
  <2>2. \/ tracker' = tracker
        \/ tracker'.mainId = tracker.mainId /\ tracker'.mainLoader = tracker.mainLoader
    BY <1>4, <2>1 DEF Navigate, Go, BeginSeedNavigation, Trackers
  <2>3. seedMatches' = seedMatches /\ \A q \in Requests : net'[q] = "unsent" <=> net[q] = "unsent"
    BY <1>4 DEF Navigate, Go, TypeOK, BrowserTypeOK
  <2> QED
    BY <1>2, <2>1, <2>2, <2>3
<1>5. CASE NavigateAnswered
  <2>1. tracker \in Trackers /\ UNCHANGED <<net, seedMatches>>
    BY <1>5 DEF NavigateAnswered, TypeOK, LoopTypeOK, PhaseInv, ObjectPhase, WithPage
  <2>2. \/ tracker' = tracker
        \/ tracker' = [tracker EXCEPT !.mainLoader = Seed]
    BY <1>5 DEF NavigateAnswered, Failure, SetExpectedMainLoaderId
  <2>3. tracker'.mainId = tracker.mainId /\ tracker'.mainLoader \in {tracker.mainLoader, Seed}
    BY <2>1, <2>2 DEF Trackers
  <2>4. tracker # None
    BY <2>1, TrackersAreThere
  <2> QED
    BY <2>1, <2>3, <2>4 DEF SeedInv, NetInv, MainSent, SeedLoads, CapturesTheSeed
<1>6. CASE MakeExchange
  <2>1. tracker' \in {None, tracker} /\ UNCHANGED <<net, seedMatches>>
    BY <1>6 DEF MakeExchange, Go
  <2> QED
    BY <2>1 DEF SeedInv, NetInv, MainSent, SeedLoads, CapturesTheSeed
<1>7. CASE NoteInterceptionError
  <2>1. tracker \in Trackers /\ tracker # None
    BY <1>7 DEF NoteInterceptionError, LoopGoesTo, TypeOK, LoopTypeOK, PhaseInv, ObjectPhase,
         WithPage, Waits, LoopInv, LoopUses
  <2>2. \/ tracker' = tracker
        \/ tracker'.mainId = tracker.mainId /\ tracker'.mainLoader = tracker.mainLoader
    BY <1>7, <2>1 DEF NoteInterceptionError, LoopGoesTo, Fail, Trackers
  <2>3. seedMatches' = seedMatches /\ \A q \in Requests : net'[q] = "unsent" <=> net[q] = "unsent"
    BY <1>7 DEF NoteInterceptionError, LoopGoesTo, TypeOK, BrowserTypeOK
  <2> QED
    BY <1>2, <2>1, <2>2, <2>3
<1>8. CASE IdleTimePasses
  <2>1. tracker \in Trackers /\ tracker # None
    BY <1>8 DEF IdleTimePasses, TypeOK, LoopTypeOK, PhaseInv, ObjectPhase, WithPage, Waits,
         LoopInv, LoopUses
  <2>2. \/ tracker' = tracker
        \/ tracker'.mainId = tracker.mainId /\ tracker'.mainLoader = tracker.mainLoader
    BY <1>8, <2>1 DEF IdleTimePasses, Trackers
  <2>3. seedMatches' = seedMatches /\ \A q \in Requests : net'[q] = "unsent" <=> net[q] = "unsent"
    BY <1>8 DEF IdleTimePasses, TypeOK, BrowserTypeOK
  <2> QED
    BY <1>2, <2>1, <2>2, <2>3
<1>9. CASE LoadEventFired
  <2>1. tracker \in Trackers /\ tracker # None
    BY <1>9 DEF LoadEventFired, TakeEvent, Receive, TypeOK, LoopTypeOK, PhaseInv, ObjectPhase,
         WithPage, Waits, LoopInv, LoopUses
  <2>2. \/ tracker' = tracker
        \/ tracker'.mainId = tracker.mainId /\ tracker'.mainLoader = tracker.mainLoader
    BY <1>9, <2>1 DEF LoadEventFired, TakeEvent, Receive, HandleLoadEventFired, Trackers
  <2>3. seedMatches' = seedMatches /\ \A q \in Requests : net'[q] = "unsent" <=> net[q] = "unsent"
    BY <1>9 DEF LoadEventFired, TakeEvent, Receive, TypeOK, BrowserTypeOK
  <2> QED
    BY <1>2, <2>1, <2>2, <2>3
<1>10. CASE TargetGone
  <2>1. tracker \in Trackers /\ tracker # None
    BY <1>10 DEF TargetGone, TakeEvent, TypeOK, LoopTypeOK, PhaseInv, ObjectPhase, WithPage,
         Waits, LoopInv, LoopUses
  <2>2. \/ tracker' = tracker
        \/ tracker'.mainId = tracker.mainId /\ tracker'.mainLoader = tracker.mainLoader
    BY <1>10, <2>1 DEF TargetGone, TakeEvent, Fail, Trackers
  <2>3. seedMatches' = seedMatches /\ \A q \in Requests : net'[q] = "unsent" <=> net[q] = "unsent"
    BY <1>10 DEF TargetGone, TakeEvent, TypeOK, BrowserTypeOK
  <2> QED
    BY <1>2, <2>1, <2>2, <2>3
<1>11. CASE UnparsedEvent
  <2>1. tracker \in Trackers /\ tracker # None
    BY <1>11 DEF UnparsedEvent, TakeEvent, Receive, LoopGoesTo, TypeOK, LoopTypeOK, PhaseInv,
         ObjectPhase, WithPage, Waits, LoopInv, LoopUses
  <2>2. \/ tracker' = tracker
        \/ tracker'.mainId = tracker.mainId /\ tracker'.mainLoader = tracker.mainLoader
    BY <1>11, <2>1 DEF UnparsedEvent, TakeEvent, Receive, LoopGoesTo, Fail, Trackers
  <2>3. seedMatches' = seedMatches /\ \A q \in Requests : net'[q] = "unsent" <=> net[q] = "unsent"
    BY <1>11 DEF UnparsedEvent, TakeEvent, Receive, LoopGoesTo, TypeOK, BrowserTypeOK
  <2> QED
    BY <1>2, <2>1, <2>2, <2>3
<1>12. ASSUME NEW r \in Requests, RequestWillBeSent(r) PROVE SeedInv'
  <2>1. tracker \in Trackers /\ tracker # None
    BY <1>12 DEF RequestWillBeSent, TakeEvent, TypeOK, LoopTypeOK, LoopInv, LoopUses
  <2>2. tracker.mainId # r
    <3>1. r # None /\ net[r] = "unsent"
      BY <1>12, TrackerAssumption DEF RequestWillBeSent
    <3> QED
      BY <2>1, <3>1 DEF NetInv, MainSent
  <2>3. \A q \in Requests : IsMainDocument(q) \subseteq BOOLEAN /\ MatchesSeedUrl(q) \subseteq BOOLEAN
    BY DEF IsMainDocument, MatchesSeedUrl, TypeOK, BrowserTypeOK
  <2>4. CASE UNCHANGED <<tracker, net, seedMatches>>
    BY <1>1, <2>4
  <2>5. ASSUME NEW main \in BOOLEAN, NEW matches \in BOOLEAN,
               r = Seed => main /\ matches = seedMatches,
               tracker' = HandleRequestWillBeSent(tracker, r, main, matches, FALSE),
               net' = [net EXCEPT ![r] = "sent"], seedMatches' = seedMatches,
               r # Seed => net[Seed] # "unsent"
        PROVE  SeedInv'
    <3> DEFINE u == HandleRequestWillBeSent(tracker, r, main, matches, FALSE)
    <3>1. Follows(tracker, u, r, main, matches)
      BY <2>1, <2>2, WillBeSentKeeps
    <3> HIDE DEF u
    <3>2. MainSent'
      <4>1. u.mainId \in {tracker.mainId, None, r}
        BY <3>1 DEF Follows
      <4>2. tracker.mainId \in Requests \cup {None}
        BY <2>1, TrackerFields
      <4> QED
        BY <2>1, <2>5, <4>1, <4>2 DEF MainSent, SeedInv, NetInv, u, TypeOK, BrowserTypeOK
    <3>3. ASSUME seedMatches PROVE u.mainLoader = Seed /\ u.mainId \in {None, Seed}
      <4>1. tracker.mainId \in {None, Seed} /\ tracker.mainLoader \in {None, Seed}
        BY <2>1, <3>3 DEF CapturesTheSeed, SeedInv
      <4>2. CASE r = Seed
        BY <2>5, <3>1, <3>3, <4>1, <4>2, NoneIsNoRequest DEF IsForeignDocument, Follows
      <4>3. CASE r # Seed
        <5>1. tracker.mainLoader = Seed
          BY <2>1, <2>5, <3>3, <4>3 DEF SeedLoads, NetInv, SeedInv
        <5> QED
          BY <3>1, <4>1, <4>3, <5>1, NoneIsNoRequest DEF IsForeignDocument, Follows
      <4> QED
        BY <4>2, <4>3
    <3> QED
      BY <2>5, <3>2, <3>3 DEF SeedInv, SeedLoads, CapturesTheSeed, u
  <2> QED
    BY <1>12, <2>3, <2>4, <2>5 DEF RequestWillBeSent, Abort, Receive, IsMainDocument,
         MatchesSeedUrl
<1>13. ASSUME NEW r \in Requests, Redirected(r) PROVE SeedInv'
  <2>1. tracker \in Trackers /\ tracker # None
    BY <1>13 DEF Redirected, TakeEvent, TypeOK, LoopTypeOK, LoopInv, LoopUses
  <2>2. net[r] # "unsent" /\ net[Seed] # "unsent" /\ UNCHANGED <<net, seedMatches>>
    BY <1>13 DEF Redirected, Receive, Abort, NetInv, NetOrder
  <2> SUFFICES ASSUME tracker' # tracker PROVE SeedInv'
    BY <1>2, <2>1, <2>2
  <2>3. PICK main \in BOOLEAN, matches \in BOOLEAN :
            /\ r = Seed => main
            /\ tracker' = HandleRequestWillBeSent(tracker, r, main, matches, TRUE)
    BY <1>13 DEF Redirected, Receive, Abort, IsMainDocument
  <2> DEFINE u == HandleRequestWillBeSent(tracker, r, main, matches, TRUE)
  <2>4. Follows(tracker, u, r, main, matches)
    BY <2>1, WillBeSentKeeps
  <2> HIDE DEF u
  <2>5. MainSent'
    <3>1. u.mainId \in {tracker.mainId, None, r}
      BY <2>4 DEF Follows
    <3> QED
      BY <2>1, <2>2, <2>3, <3>1 DEF MainSent, NetInv, u
  <2>6. ASSUME seedMatches PROVE u.mainLoader = Seed /\ u.mainId \in {None, Seed}
    <3>1. tracker.mainId \in {None, Seed} /\ tracker.mainLoader = Seed
      BY <2>1, <2>2, <2>6 DEF CapturesTheSeed, SeedLoads, NetInv
    <3> QED
      BY <2>3, <2>4, <3>1, NoneIsNoRequest DEF IsForeignDocument, Follows
  <2> QED
    BY <2>2, <2>3, <2>5, <2>6 DEF SeedInv, SeedLoads, CapturesTheSeed, u
<1>14. ASSUME NEW r \in Requests, ResponseReceived(r) PROVE SeedInv'
  <2>1. tracker \in Trackers /\ tracker # None
    BY <1>14 DEF ResponseReceived, TakeEvent, Receive, TypeOK, LoopTypeOK, PhaseInv,
         ObjectPhase, WithPage, Waits, LoopInv, LoopUses
  <2>2. \/ tracker' = tracker
        \/ tracker'.mainId = tracker.mainId /\ tracker'.mainLoader = tracker.mainLoader
    BY <1>14, <2>1, ResponseReceivedKeeps DEF ResponseReceived, TakeEvent, Receive, Kept
  <2>3. seedMatches' = seedMatches /\ \A q \in Requests : net'[q] = "unsent" <=> net[q] = "unsent"
    BY <1>14 DEF ResponseReceived, TakeEvent, Receive, TypeOK, BrowserTypeOK
  <2> QED
    BY <1>2, <2>1, <2>2, <2>3
<1>15. ASSUME NEW r \in Requests, LoadingFinished(r) PROVE SeedInv'
  <2>1. tracker \in Trackers /\ tracker # None
    BY <1>15 DEF LoadingFinished, TakeEvent, Receive, TypeOK, LoopTypeOK, PhaseInv,
         ObjectPhase, WithPage, Waits, LoopInv, LoopUses
  <2>2. \/ tracker' = tracker
        \/ tracker'.mainId = tracker.mainId /\ tracker'.mainLoader = tracker.mainLoader
    BY <1>15, <2>1, LoadingFinishedKeeps DEF LoadingFinished, TakeEvent, Receive, Kept
  <2>3. seedMatches' = seedMatches /\ \A q \in Requests : net'[q] = "unsent" <=> net[q] = "unsent"
    BY <1>15 DEF LoadingFinished, TakeEvent, Receive, TypeOK, BrowserTypeOK
  <2> QED
    BY <1>2, <2>1, <2>2, <2>3
<1>16. ASSUME NEW r \in Requests, LoadingFailed(r) PROVE SeedInv'
  <2>1. tracker \in Trackers /\ tracker # None
    BY <1>16 DEF LoadingFailed, TakeEvent, Receive, TypeOK, LoopTypeOK, PhaseInv, ObjectPhase,
         WithPage, Waits, LoopInv, LoopUses
  <2>2. \/ tracker' = tracker
        \/ tracker'.mainId = tracker.mainId /\ tracker'.mainLoader = tracker.mainLoader
    BY <1>16, <2>1, LoadingFailedKeeps DEF LoadingFailed, TakeEvent, Receive, Kept
  <2>3. seedMatches' = seedMatches /\ \A q \in Requests : net'[q] = "unsent" <=> net[q] = "unsent"
    BY <1>16 DEF LoadingFailed, TakeEvent, Receive, TypeOK, BrowserTypeOK
  <2> QED
    BY <1>2, <2>1, <2>2, <2>3
<1>17. CASE ConnectCdp \/ MakeBrowserContext \/ MakeBlankTarget \/ EnableBaseDomains
            \/ SetUpTarget
  BY <1>1, <1>17 DEF ConnectCdp, Failure, Go, MakeBrowserContext, PageCommand,
     MakeBlankTarget, EnableBaseDomains, SetUpTarget
<1>18. CASE WaitForPredicate \/ RunSiteBehavior \/ ExtraDelay \/ ReadPage \/ RequestStop
  BY <1>1, <1>18 DEF WaitForPredicate, WaitStep, ReadVersion, WaitReturns, WaitFails,
     WaitGoesTo, RunSiteBehavior, Failure, Go, ExtraDelay,
     ReadPage, ReadDomState, ReadBody, ReadResources, RequestStop
<1>19. CASE JoinEventLoop \/ StopPage \/ FinishCapture \/ CleanUpPage \/ StopCdp
  BY <1>1, <1>19 DEF JoinEventLoop, Go, StopPage, StopPageStep, Failure, FinishCapture,
     CleanUpPage, StopCdp
<1>20. CASE CheckStopping \/ LoseEvents \/ NoteEventProgress \/ AnswerPaused
            \/ ConnectionBreaks
  BY <1>1, <1>20 DEF CheckStopping, LoopGoesTo, LoseEvents, NoteEventProgress,
     AnswerPaused, ConnectionBreaks
<1>21. CASE DeadlinePasses
  BY <1>1, <1>21 DEF DeadlinePasses
<1>22. ASSUME NEW r \in Requests,
             RequestPaused(r) \/ AuthRequired(r)
      PROVE  SeedInv'
  BY <1>1, <1>22 DEF RequestPaused, TakeEvent, AuthRequired
<1>23. CASE UNCHANGED vars
  BY <1>1, <1>23 DEF vars
<1> QED
  BY <1>3, <1>4, <1>5, <1>6, <1>7, <1>8, <1>9, <1>10, <1>11, <1>12, <1>13, <1>14, <1>15,
     <1>16, <1>1, <1>17, <1>18, <1>19, <1>20, <1>21, <1>22, <1>23 DEF Next, CaptureTask,
     EventLoopTask, BrowserEvent

(* Every step keeps the count of the requests under way.                   *)
LEMMA InflightStep == TypeOK /\ PhaseInv /\ LoopInv /\ NetInv /\ InflightInv /\ [Next]_vars => InflightInv'
<1> SUFFICES ASSUME TypeOK, PhaseInv, LoopInv, NetInv, InflightInv, [Next]_vars PROVE InflightInv'
  OBVIOUS
<1> USE DEF InflightInv, taskVars, loopVars, sharedVars, browserVars
<1>1. CASE AttachToTarget
  <2>1. UNCHANGED net /\ \A q \in Requests : net[q] = "unsent"
    BY <1>1 DEF AttachToTarget, PhaseInv, ObjectPhase, BeforeLoop, NetInv, NetOrder
  <2>2. tracker' = tracker \/ tracker' = NewTracker
    BY <1>1 DEF AttachToTarget, Failure
  <2>3. NewTracker.inflight = {}
    BY DEF NewTracker
  <2> QED
    BY <2>1, <2>2, <2>3
<1>2. CASE Navigate
  <2>1. tracker \in Trackers /\ tracker # None /\ UNCHANGED net
    BY <1>2 DEF Navigate, Go, TypeOK, LoopTypeOK, PhaseInv, ObjectPhase, WithPage, Waits,
         LoopInv, LoopUses
  <2>2. tracker'.inflight = tracker.inflight
    BY <1>2, <2>1 DEF Navigate, Go, BeginSeedNavigation, Trackers
  <2> QED
    BY <2>1, <2>2
<1>3. CASE NavigateAnswered
  <2>1. tracker \in Trackers /\ tracker # None /\ UNCHANGED net
    BY <1>3 DEF NavigateAnswered, Failure, Go, TypeOK, LoopTypeOK, PhaseInv, ObjectPhase,
         WithPage, Waits, LoopInv, LoopUses
  <2>2. tracker'.inflight = tracker.inflight
    BY <1>3, <2>1 DEF NavigateAnswered, Failure, Go, SetExpectedMainLoaderId, Trackers
  <2> QED
    BY <2>1, <2>2
<1>4. CASE MakeExchange
  <2>1. tracker' \in {None, tracker} /\ UNCHANGED net
    BY <1>4 DEF MakeExchange, Go
  <2> QED
    BY <2>1
<1>5. CASE NoteInterceptionError
  <2>1. tracker \in Trackers /\ tracker # None /\ UNCHANGED net
    BY <1>5 DEF NoteInterceptionError, LoopGoesTo, TypeOK, LoopTypeOK, PhaseInv, ObjectPhase,
         WithPage, Waits, LoopInv, LoopUses
  <2>2. tracker'.inflight = tracker.inflight
    BY <1>5, <2>1 DEF NoteInterceptionError, LoopGoesTo, Fail, Trackers
  <2> QED
    BY <2>1, <2>2
<1>6. CASE IdleTimePasses
  <2>1. tracker \in Trackers /\ tracker # None /\ UNCHANGED net
    BY <1>6 DEF IdleTimePasses, TypeOK, LoopTypeOK, PhaseInv, ObjectPhase, WithPage, Waits,
         LoopInv, LoopUses
  <2>2. tracker'.inflight = tracker.inflight
    BY <1>6, <2>1 DEF IdleTimePasses, TypeOK, Trackers
  <2> QED
    BY <2>1, <2>2
<1>7. CASE LoadEventFired
  <2>1. tracker \in Trackers /\ tracker # None /\ UNCHANGED net
    BY <1>7 DEF LoadEventFired, TakeEvent, Receive, TypeOK, LoopTypeOK, PhaseInv, ObjectPhase,
         WithPage, Waits, LoopInv, LoopUses
  <2>2. tracker'.inflight = tracker.inflight
    BY <1>7, <2>1 DEF LoadEventFired, TakeEvent, Receive, HandleLoadEventFired, Trackers
  <2> QED
    BY <2>1, <2>2
<1>8. CASE TargetGone
  <2>1. tracker \in Trackers /\ tracker # None /\ UNCHANGED net
    BY <1>8 DEF TargetGone, TakeEvent, TypeOK, LoopTypeOK, PhaseInv, ObjectPhase, WithPage,
         Waits, LoopInv, LoopUses
  <2>2. tracker'.inflight = tracker.inflight
    BY <1>8, <2>1 DEF TargetGone, TakeEvent, Fail, Trackers
  <2> QED
    BY <2>1, <2>2
<1>9. CASE UnparsedEvent
  <2>1. tracker \in Trackers /\ tracker # None /\ UNCHANGED net
    BY <1>9 DEF UnparsedEvent, TakeEvent, Receive, LoopGoesTo, TypeOK, LoopTypeOK, PhaseInv,
         ObjectPhase, WithPage, Waits, LoopInv, LoopUses
  <2>2. tracker'.inflight = tracker.inflight
    BY <1>9, <2>1 DEF UnparsedEvent, TakeEvent, Receive, LoopGoesTo, Fail, Trackers
  <2> QED
    BY <2>1, <2>2
<1>10. ASSUME NEW r \in Requests, RequestWillBeSent(r) PROVE InflightInv'
  <2>1. tracker \in Trackers /\ tracker # None
    BY <1>10 DEF RequestWillBeSent, TakeEvent, TypeOK, LoopTypeOK, LoopInv, LoopUses
  <2>2. tracker.mainId # r
    <3>1. r # None /\ net[r] = "unsent"
      BY <1>10, TrackerAssumption DEF RequestWillBeSent
    <3> QED
      BY <2>1, <3>1 DEF NetInv, MainSent
  <2>3. \A q \in Requests : IsMainDocument(q) \subseteq BOOLEAN /\ MatchesSeedUrl(q) \subseteq BOOLEAN
    BY DEF IsMainDocument, MatchesSeedUrl, TypeOK, BrowserTypeOK
  <2>4. CASE UNCHANGED <<tracker, net>>
    BY <2>4
  <2>5. ASSUME NEW main \in BOOLEAN, NEW matches \in BOOLEAN,
               tracker' = HandleRequestWillBeSent(tracker, r, main, matches, FALSE),
               net' = [net EXCEPT ![r] = "sent"]
        PROVE  InflightInv'
    <3>1. Follows(tracker, tracker', r, main, matches)
      BY <2>1, <2>2, <2>5, WillBeSentKeeps
    <3> QED
      BY <2>1, <2>5, <3>1 DEF TypeOK, BrowserTypeOK, Follows
  <2> QED
    BY <1>10, <2>3, <2>4, <2>5 DEF RequestWillBeSent, Abort, Receive
<1>11. ASSUME NEW r \in Requests, Redirected(r) PROVE InflightInv'
  <2>1. tracker \in Trackers /\ tracker # None
    BY <1>11 DEF Redirected, TakeEvent, TypeOK, LoopTypeOK, LoopInv, LoopUses
  <2>2. net[r] = "sent" /\ UNCHANGED net
    BY <1>11 DEF Redirected, Abort
  <2> SUFFICES ASSUME tracker' # tracker PROVE InflightInv'
    BY <2>1, <2>2
  <2>3. PICK main \in BOOLEAN, matches \in BOOLEAN :
            tracker' = HandleRequestWillBeSent(tracker, r, main, matches, TRUE)
    BY <1>11 DEF Redirected, Receive, Abort, IsMainDocument
  <2>4. Follows(tracker, tracker', r, main, matches)
    BY <2>1, <2>3, WillBeSentKeeps
  <2> QED
    BY <2>1, <2>2, <2>4 DEF Follows
<1>12. ASSUME NEW r \in Requests, ResponseReceived(r) PROVE InflightInv'
  <2>1. tracker \in Trackers /\ tracker # None
    BY <1>12 DEF ResponseReceived, TakeEvent, TypeOK, LoopTypeOK, LoopInv, LoopUses
  <2>2. tracker'.inflight = tracker.inflight
    BY <1>12, <2>1, ResponseReceivedKeeps DEF ResponseReceived, Receive
  <2>3. net[r] \in {"sent", "answered"} /\ net' = [net EXCEPT ![r] = "answered"]
    BY <1>12 DEF ResponseReceived
  <2> QED
    BY <2>1, <2>2, <2>3 DEF TypeOK, BrowserTypeOK
<1>13. ASSUME NEW r \in Requests, LoadingFinished(r) PROVE InflightInv'
  <2>1. tracker \in Trackers /\ tracker # None
    BY <1>13 DEF LoadingFinished, TakeEvent, TypeOK, LoopTypeOK, LoopInv, LoopUses
  <2>2. tracker'.inflight = tracker.inflight \ {r}
    BY <1>13, <2>1, LoadingFinishedKeeps DEF LoadingFinished, Receive
  <2>3. net[r] \in {"sent", "answered"} /\ net' = [net EXCEPT ![r] = "ended"]
    BY <1>13 DEF LoadingFinished
  <2> QED
    BY <2>1, <2>2, <2>3 DEF TypeOK, BrowserTypeOK
<1>14. ASSUME NEW r \in Requests, LoadingFailed(r) PROVE InflightInv'
  <2>1. tracker \in Trackers /\ tracker # None
    BY <1>14 DEF LoadingFailed, TakeEvent, TypeOK, LoopTypeOK, LoopInv, LoopUses
  <2>2. tracker'.inflight = tracker.inflight \ {r}
    BY <1>14, <2>1, LoadingFailedKeeps DEF LoadingFailed, Receive
  <2>3. net[r] \in {"sent", "answered"} /\ net' = [net EXCEPT ![r] = "ended"]
    BY <1>14 DEF LoadingFailed
  <2> QED
    BY <2>1, <2>2, <2>3 DEF TypeOK, BrowserTypeOK
<1>15. CASE UNCHANGED <<tracker, net>>
  BY <1>15
<1>16. CASE ConnectCdp \/ MakeBrowserContext \/ MakeBlankTarget \/ EnableBaseDomains
            \/ SetUpTarget
  BY <1>15, <1>16 DEF ConnectCdp, Failure, Go, MakeBrowserContext, PageCommand,
     MakeBlankTarget, EnableBaseDomains, SetUpTarget
<1>17. CASE WaitForPredicate \/ RunSiteBehavior \/ ExtraDelay \/ ReadPage \/ RequestStop
  BY <1>15, <1>17 DEF WaitForPredicate, WaitStep, ReadVersion, WaitReturns, WaitFails,
     WaitGoesTo, RunSiteBehavior, Failure, Go, ExtraDelay,
     ReadPage, ReadDomState, ReadBody, ReadResources, RequestStop
<1>18. CASE JoinEventLoop \/ StopPage \/ FinishCapture \/ CleanUpPage \/ StopCdp
  BY <1>15, <1>18 DEF JoinEventLoop, Go, StopPage, StopPageStep, Failure, FinishCapture,
     CleanUpPage, StopCdp
<1>19. CASE CheckStopping \/ LoseEvents \/ NoteEventProgress \/ AnswerPaused
            \/ ConnectionBreaks
  BY <1>15, <1>19 DEF CheckStopping, LoopGoesTo, LoseEvents, NoteEventProgress,
     AnswerPaused, ConnectionBreaks
<1>20. CASE DeadlinePasses
  BY <1>15, <1>20 DEF DeadlinePasses
<1>21. ASSUME NEW r \in Requests,
             RequestPaused(r) \/ AuthRequired(r)
      PROVE  InflightInv'
  BY <1>15, <1>21 DEF RequestPaused, TakeEvent, AuthRequired
<1>22. CASE UNCHANGED vars
  BY <1>15, <1>22 DEF vars
<1> QED
  BY <1>1, <1>2, <1>3, <1>4, <1>5, <1>6, <1>7, <1>8, <1>9, <1>10, <1>11, <1>12, <1>13,
     <1>14, <1>15, <1>16, <1>17, <1>18, <1>19, <1>20, <1>21, <1>22 DEF Next, CaptureTask,
     EventLoopTask, BrowserEvent

(* A response that was there stays.                                        *)
LEMMA MainStep == TypeOK /\ PhaseInv /\ LoopInv /\ NetInv /\ TrackerInv /\ MainInv /\ [Next]_vars => MainInv'
<1> SUFFICES ASSUME TypeOK, PhaseInv, LoopInv, NetInv, TrackerInv, MainInv, [Next]_vars PROVE MainInv'
  OBVIOUS
<1>1. ASSUME MainDue' => MainDue, interception => interception' PROVE MainInv'
  <2> SUFFICES ASSUME MainDue' PROVE HasMainResponse(tracker') \/ CurrentWaitError'
    BY DEF MainInv
  <2>1. TrackerMove
    BY TrackerMoves
  <2>2. tracker # None /\ phase # "attach" /\ phase' # "finish"
    BY <1>1 DEF MainDue, PhaseInv, ObjectPhase, WithPage, Waits
  <2>3. CASE tracker' = tracker
    BY <1>1, <2>3 DEF MainInv, CurrentWaitError
  <2>4. CASE Kept(tracker, tracker')
    <3>1. HasMainResponse(tracker) => HasResponse(tracker.completed)
      BY <2>2, ActiveMainIsTracked DEF TrackerInv, TypeOK, LoopTypeOK
    <3>2. HasMainResponse(tracker) => HasMainResponse(tracker')
      BY <2>4, <3>1 DEF Kept, HasMainResponse
    <3>3. tracker' # None /\ (tracker.error => tracker'.error)
      BY <2>4, TrackersAreThere DEF Kept
    <3> QED
      BY <1>1, <3>2, <3>3 DEF MainInv, CurrentWaitError
  <2> QED
    BY <2>1, <2>2, <2>3, <2>4 DEF TrackerMove
<1> USE DEF taskVars, loopVars, sharedVars, browserVars
<1>2. CASE WaitForPredicate
  <2>1. phase \in Waits /\ UNCHANGED <<tracker, interception>>
    BY <1>2 DEF WaitForPredicate
  <2>2. CASE MainDue
    BY <1>1, <2>1, <2>2
  <2>3. ASSUME ~MainDue, MainDue' PROVE HasMainResponse(tracker) \/ CurrentWaitError
    <3>1. phase = "main" /\ Predicate
      BY <1>2, <2>1, <2>3 DEF WaitForPredicate, WaitStep, ReadVersion, WaitReturns, WaitFails,
           WaitGoesTo,
         AfterWait, Waits, MainDue
    <3>2. tracker # None
      BY <3>1 DEF PhaseInv, ObjectPhase, WithPage, Waits
    <3>3. HasMainDocumentOrError(tracker)
      BY <3>1 DEF Predicate
    <3> QED
      BY <3>2, <3>3 DEF HasMainDocumentOrError, HasMainResponse, CurrentWaitError
  <2> QED
    BY <2>1, <2>2, <2>3 DEF MainInv, CurrentWaitError
<1>3. CASE UNCHANGED <<phase, wait>> /\ (interception => interception')
  BY <1>1, <1>3 DEF MainDue, MainInv
<1>4. CASE ConnectCdp \/ MakeBrowserContext \/ MakeBlankTarget
  BY <1>1, <1>4 DEF ConnectCdp, Failure, Go, MainDue, Waits, PhaseInv, StartedPhase,
     MakeBrowserContext, PageCommand, MakeBlankTarget
<1>5. CASE AttachToTarget \/ EnableBaseDomains \/ SetUpTarget
  BY <1>1, <1>5 DEF AttachToTarget, Failure, Go, MainDue, Waits, PhaseInv, StartedPhase,
     EnableBaseDomains, PageCommand, SetUpTarget
<1>6. CASE Navigate \/ NavigateAnswered \/ RunSiteBehavior
  BY <1>1, <1>6 DEF Navigate, Go, MainDue, Waits, PhaseInv, StartedPhase,
     NavigateAnswered, Failure, RunSiteBehavior
<1>7. CASE ExtraDelay \/ ReadPage \/ RequestStop
  BY <1>1, <1>7 DEF ExtraDelay, Failure, Go, MainDue, Waits, PhaseInv, StartedPhase,
     ReadPage, ReadDomState, ReadBody, ReadResources, RequestStop
<1>8. CASE JoinEventLoop \/ StopPage \/ MakeExchange
  BY <1>1, <1>8 DEF JoinEventLoop, Go, MainDue, Waits, PhaseInv, StartedPhase, StopPage,
     StopPageStep, Failure, MakeExchange
<1>9. CASE FinishCapture \/ CleanUpPage \/ StopCdp
  BY <1>1, <1>9 DEF FinishCapture, Failure, Go, MainDue, Waits, PhaseInv, StartedPhase,
     CleanUpPage, StopPageStep, StopCdp
<1>10. CASE CheckStopping \/ LoseEvents \/ NoteInterceptionError
  BY <1>1, <1>10 DEF CheckStopping, LoopGoesTo, MainDue, Waits, PhaseInv, StartedPhase,
     LoseEvents, NoteInterceptionError
<1>11. CASE NoteEventProgress \/ AnswerPaused \/ ConnectionBreaks
  BY <1>1, <1>11 DEF NoteEventProgress, LoopGoesTo, MainDue, Waits, PhaseInv,
     StartedPhase, AnswerPaused, ConnectionBreaks
<1>12. CASE DeadlinePasses \/ IdleTimePasses \/ LoadEventFired
  BY <1>1, <1>12 DEF DeadlinePasses, MainDue, Waits, PhaseInv, StartedPhase,
     IdleTimePasses, LoadEventFired, TakeEvent, Receive
<1>13. CASE TargetGone \/ UnparsedEvent
  BY <1>1, <1>13 DEF TargetGone, TakeEvent, MainDue, Waits, PhaseInv, StartedPhase,
     UnparsedEvent, Receive, LoopGoesTo
<1>14. ASSUME NEW r \in Requests,
             RequestWillBeSent(r) \/ Redirected(r) \/ RequestPaused(r)
      PROVE  MainInv'
  BY <1>1, <1>14 DEF RequestWillBeSent, TakeEvent, Receive, Abort, MainDue, Waits,
     PhaseInv, StartedPhase, Redirected, RequestPaused
<1>15. ASSUME NEW r \in Requests,
             AuthRequired(r) \/ ResponseReceived(r) \/ LoadingFinished(r)
      PROVE  MainInv'
  BY <1>1, <1>15 DEF AuthRequired, TakeEvent, MainDue, Waits, PhaseInv, StartedPhase,
     ResponseReceived, Receive, LoadingFinished
<1>16. ASSUME NEW r \in Requests,
             LoadingFailed(r)
      PROVE  MainInv'
  BY <1>1, <1>16 DEF LoadingFailed, TakeEvent, Receive, MainDue, Waits, PhaseInv,
     StartedPhase
<1>17. CASE UNCHANGED vars
  BY <1>1, <1>17 DEF vars, MainDue
<1> QED
  BY <1>2, <1>3, <1>4, <1>5, <1>6, <1>7, <1>8, <1>9, <1>10, <1>11, <1>12, <1>13, <1>14,
     <1>15, <1>16, <1>17 DEF Next, CaptureTask, EventLoopTask, BrowserEvent

(* A tracker that comes or changes keeps its account of the main document. *)
LEMMA TrackerStep ==
    TypeOK /\ PhaseInv /\ LoopInv /\ NetInv /\ TrackerInv /\ [Next]_vars => TrackerInv'
<1> SUFFICES ASSUME TypeOK, PhaseInv, LoopInv, NetInv, TrackerInv, [Next]_vars PROVE TrackerInv'
  OBVIOUS
<1>1. TrackerMove
  BY TrackerMoves
<1> QED
  BY <1>1, NewTrackerOk DEF TrackerMove, Kept, TrackerInv

(* Before the connection there is nothing.                                 *)
LEMMA CaptureInvInit == Init => CaptureInv
<1> SUFFICES ASSUME Init PROVE CaptureInv
  OBVIOUS
<1>1. TaskTypeOK
  BY DEF Init, TaskTypeOK, Phases, SetupPhases, WaitSteps
<1>2. LoopTypeOK
  BY DEF Init, LoopTypeOK, LoopSteps
<1>3. BrowserTypeOK
  <2>1. redirects \in 0..MaxRedirects
    BY RedirectsAreCounted DEF Init
  <2>2. net \in [Requests -> {"unsent", "sent", "answered", "ended"}]
    BY DEF Init
  <2> QED
    BY <2>1, <2>2 DEF Init, BrowserTypeOK
<1>4. PagePhase /\ ObjectPhase /\ StartedPhase
  BY DEF Init, PagePhase, ObjectPhase, StartedPhase, WithPage, Waits, BeforeLoop, Ended
<1>5. PageInv /\ LoopUses /\ AbortsAreKnown /\ WakeInv /\ MainInv
  BY DEF Init, PageInv, LoopUses, AbortsAreKnown, WakeInv, MainInv, MainDue
<1>6. NetOrder /\ MainSent /\ SeedLoads /\ CapturesTheSeed /\ TrackerInv /\ InflightInv
  BY DEF Init, NetOrder, MainSent, SeedLoads, CapturesTheSeed, TrackerInv, InflightInv
<1> QED
  BY <1>1, <1>2, <1>3, <1>4, <1>5, <1>6 DEF CaptureInv, TypeOK, PhaseInv, LoopInv, NetInv

(* The invariant holds in every reachable state.                           *)
THEOREM CaptureInvariant == Spec => []CaptureInv
<1>1. ASSUME CaptureInv, [Next]_vars PROVE CaptureInv'
  <2>1. TypeOK /\ PageInv /\ PhaseInv /\ LoopInv /\ WakeInv
    BY <1>1 DEF CaptureInv
  <2>2. NetInv /\ CapturesTheSeed /\ TrackerInv /\ MainInv /\ InflightInv /\ NetOrder
    BY <1>1 DEF CaptureInv, NetInv
  <2>3. TypeOK'
    BY <1>1, <2>1, <2>2, TaskTypeStep, LoopTypeStep, BrowserTypeStep DEF TypeOK
  <2>4. PageInv' /\ PhaseInv'
    BY <1>1, <2>1, <2>2, PageStep, PagePhaseStep, ObjectPhaseStep, StartedPhaseStep
       DEF PhaseInv, PageTypeInv
  <2>5. LoopInv' /\ WakeInv'
    BY <1>1, <2>1, <2>2, LoopUsesStep, AbortStep, WakeStep DEF LoopInv
  <2>6. NetInv' /\ CapturesTheSeed'
    BY <1>1, <2>1, <2>2, NetOrderStep, SeedStep DEF NetInv, SeedInv
  <2>7. TrackerInv' /\ MainInv' /\ InflightInv'
    BY <1>1, <2>1, <2>2, TrackerStep, MainStep, InflightStep
  <2> QED
    BY <2>3, <2>4, <2>5, <2>6, <2>7 DEF CaptureInv
<1>2. CaptureInv /\ [Next]_vars => CaptureInv'
  BY <1>1
<1> QED
  BY <1>2, CaptureInvInit, PTL DEF Spec

-----------------------------------------------------------------------------
(***************************************************************************)
(* What the runs check.                                                    *)
(***************************************************************************)

(* The page's lifecycle accepts every transition, the event loop finds its *)
(* session and no document precedes the navigation: no Invariant of the    *)
(* capture fails but the one on the main response and, where the browser   *)
(* leaves out the status of a redirect, the one on that.                   *)
THEOREM CaptureAbortsAreKnown == Spec => []AbortsAreKnown
<1>1. CaptureInv => AbortsAreKnown
  BY DEF CaptureInv, LoopInv
<1> QED
  BY <1>1, CaptureInvariant, PTL

(* StopEventLoop joins the loop before anything it dereferences goes.      *)
THEOREM TeardownIsOrdered == Spec => []TeardownOrder
<1>1. CaptureInv => TeardownOrder
  BY DEF CaptureInv, LoopInv, LoopUses, TeardownOrder
<1> QED
  BY <1>1, CaptureInvariant, PTL

(* A capture task asleep has nothing to wake up for: the version it waits  *)
(* on was read before it looked.                                           *)
THEOREM WakeupsAreNotLost == Spec => []NoLostWakeup
<1>1. CaptureInv => NoLostWakeup
  BY DEF CaptureInv, WakeInv, InHand, NoLostWakeup
<1> QED
  BY <1>1, CaptureInvariant, PTL

(* With the seed URL requested verbatim, the document that is captured is  *)
(* the seed navigation's, for any number of later documents.               *)
THEOREM TheSeedIsCaptured == Spec => []CapturesTheSeed
<1>1. CaptureInv => CapturesTheSeed
  BY DEF CaptureInv
<1> QED
  BY <1>1, CaptureInvariant, PTL

(* After the wait for the main document it has answered, unless an error   *)
(* was noted, and no later event takes the response away.                  *)
THEOREM MainResponseStays == Spec => []MainResponseUnlessError
<1>1. CaptureInv => MainResponseUnlessError
  BY DEF CaptureInv, MainInv, MainDue, MainResponseUnlessError
<1> QED
  BY <1>1, CaptureInvariant, PTL

(* Waiting for the network to go idle watches exactly the requests under   *)
(* way.                                                                    *)
THEOREM InflightStaysExact == Spec => []InflightIsExact
<1>1. CaptureInv => InflightIsExact
  BY DEF CaptureInv, InflightInv, InflightIsExact
<1> QED
  BY <1>1, CaptureInvariant, PTL

-----------------------------------------------------------------------------
(***************************************************************************)
(* How a capture ends.                                                     *)
(***************************************************************************)

(* MakeExchange takes tracker and connection away, StopCdp the connection; *)
(* an assertion that fails is that on a redirect's status, or the one of   *)
(* MakeExchange, which leaves what it has found.                           *)
EndInv ==
    /\ phase \in {"finish"} \cup Ended => ~cdp
    /\ phase \in {"finish", "captured"} => tracker = None
    /\ aborted # None =>
          aborted = "redirect" \/ (phase = "exchange" /\ ~HasMainResponse(tracker))

(* A capture that is over holds no page, no connection and no task.        *)
NothingIsHeld ==
    phase \in Ended => loop = "none" /\ page = None /\ ~cdp

(* Once the exchange is built the tracker is gone, so the proxy's error    *)
(* that still fails the capture comes without what the tracker knew.       *)
ExchangeTakesTracker == phase \in {"finish", "captured"} => tracker = None

(* Unless the browser left out the status of a redirect, an assertion      *)
(* fails only where an error was noted and the main document has no        *)
(* response.                                                               *)
AbortFollowsError ==
    aborted # None =>
        \/ Misbehaves /\ aborted = "redirect"
        \/ phase = "exchange" /\ ~HasMainResponse(tracker) /\ CurrentWaitError

LEMMA EndStep ==
    TypeOK /\ LoopInv /\ AbortsAreKnown' /\ EndInv /\ [Next]_vars => EndInv'
<1> SUFFICES ASSUME TypeOK, LoopInv, AbortsAreKnown', EndInv, [Next]_vars PROVE EndInv'
  OBVIOUS
<1> USE DEF EndInv, Ended, taskVars, loopVars, sharedVars, browserVars
<1>1. CASE UNCHANGED vars
  BY <1>1 DEF vars, HasMainResponse, HasResponse
<1>2. ASSUME aborted = None, CaptureTask PROVE EndInv'
  <2>1. CASE ConnectCdp \/ SetUpTarget \/ Navigate \/ NavigateAnswered
    BY <1>2, <2>1 DEF ConnectCdp, SetUpTarget, Navigate, NavigateAnswered, Failure, Go
  <2>2. CASE MakeBrowserContext \/ MakeBlankTarget \/ EnableBaseDomains
    BY <1>2, <2>2 DEF MakeBrowserContext, MakeBlankTarget, EnableBaseDomains, PageCommand,
       Failure, Go, AbortsAreKnown
  <2>3. CASE AttachToTarget
    BY <1>2, <2>3 DEF AttachToTarget, Failure, Go, AbortsAreKnown
  <2>4. CASE WaitForPredicate
    <3>1. AfterWait \in {"behavior", "delay", "read"}
      BY <2>4 DEF WaitForPredicate, AfterWait, Waits
    <3>2. phase' \in Waits \cup {"behavior", "delay", "read", "fail"} /\ aborted' = aborted
      BY <2>4, <3>1 DEF WaitForPredicate, WaitStep, ReadVersion, WaitReturns, WaitFails,
         WaitGoesTo
    <3> QED
      BY <1>2, <3>2 DEF Waits
  <2>5. CASE RunSiteBehavior \/ ExtraDelay \/ ReadPage \/ RequestStop \/ JoinEventLoop
    BY <1>2, <2>5 DEF RunSiteBehavior, ExtraDelay,
       ReadPage, ReadDomState, ReadBody, ReadResources, RequestStop, JoinEventLoop,
       Failure, Go
  <2>6. CASE StopPage
    BY <1>2, <2>6 DEF StopPage, StopPageStep, Failure, Go, AbortsAreKnown
  <2>7. CASE MakeExchange
    BY <1>2, <2>7 DEF MakeExchange, Go, HasMainResponse, HasResponse
  <2>8. CASE FinishCapture
    BY <1>2, <2>8 DEF FinishCapture, Failure, Go
  <2>9. CASE CleanUpPage
    BY <1>2, <2>9 DEF CleanUpPage, StopPageStep, Go, AbortsAreKnown
  <2>10. CASE StopCdp
    BY <1>2, <2>10 DEF StopCdp, Go
  <2> QED
    BY <1>2, <2>1, <2>2, <2>3, <2>4, <2>5, <2>6, <2>7, <2>8, <2>9, <2>10 DEF CaptureTask
<1>3. ASSUME aborted = None, loop # "none", UNCHANGED <<phase, cdp>>, aborted' # None => aborted' # "exchange"
      PROVE  EndInv'
  BY <1>3 DEF LoopInv, LoopUses, WithPage, Waits, AbortsAreKnown
<1>4. ASSUME aborted = None, EventLoopTask PROVE EndInv'
  BY <1>3, <1>4 DEF EventLoopTask, CheckStopping, LoopGoesTo, LoseEvents,
     NoteInterceptionError, NoteEventProgress, AnswerPaused
<1>5. ASSUME aborted = None, LoadEventFired \/ TargetGone \/ UnparsedEvent PROVE EndInv'
  BY <1>3, <1>5 DEF LoadEventFired, TakeEvent, Receive, TargetGone, UnparsedEvent, LoopGoesTo
<1>6. ASSUME aborted = None, NEW r \in Requests,
             RequestWillBeSent(r) \/ Redirected(r) \/ RequestPaused(r) \/ AuthRequired(r)
             \/ ResponseReceived(r) \/ LoadingFinished(r) \/ LoadingFailed(r)
      PROVE  EndInv'
  BY <1>3, <1>6 DEF RequestWillBeSent, TakeEvent, Receive, Abort, Redirected,
     RequestPaused, AuthRequired, ResponseReceived, LoadingFinished, LoadingFailed
<1>7. ASSUME aborted = None, ConnectionBreaks \/ DeadlinePasses \/ IdleTimePasses PROVE EndInv'
  BY <1>7 DEF ConnectionBreaks, DeadlinePasses, IdleTimePasses
<1> QED
  BY <1>1, <1>2, <1>4, <1>5, <1>6, <1>7 DEF Next, BrowserEvent

(* How every capture ends, beside CaptureInv.                              *)
LEMMA EndInvariant == Spec => [](CaptureInv /\ EndInv)
<1>1. Init => EndInv
  BY DEF Init, EndInv, Ended
<1>2. CaptureInv /\ CaptureInv' /\ EndInv /\ [Next]_vars => EndInv'
  BY EndStep DEF CaptureInv, LoopInv
<1> QED
  BY <1>1, <1>2, CaptureInvariant, PTL DEF Spec

(* Whatever failed, when Capture returns the event loop has been joined,   *)
(* the page session is gone and the connection is closed: the browser      *)
(* session that CrawlRun takes apart next is in nobody's hands.            *)
THEOREM CaptureHoldsNothing == Spec => []NothingIsHeld
<1>1. CaptureInv /\ EndInv => NothingIsHeld
  BY DEF CaptureInv, PhaseInv, PagePhase, LoopInv, LoopUses, WithPage, Waits, Ended, EndInv,
     NothingIsHeld
<1> QED
  BY <1>1, EndInvariant, PTL

(* A capture that returns an exchange, and one the proxy's error fails     *)
(* after the exchange was built, has no tracker left to report from: what  *)
(* CrawlRun assumes of the two ways CaptureReturns ends.                   *)
THEOREM ProxyErrorHasNoTracker == Spec => []ExchangeTakesTracker
<1>1. EndInv => ExchangeTakesTracker
  BY DEF EndInv, ExchangeTakesTracker
<1> QED
  BY <1>1, EndInvariant, PTL

(* The assertion on the main response fails only where an error was noted  *)
(* that WaitForPredicate did not look at before it returned: without one,  *)
(* and from a browser that gives every redirect its status, no order of    *)
(* events brings a capture to abort.                                       *)
THEOREM AbortsOnlyAfterError == Spec => []AbortFollowsError
<1>1. CaptureInv /\ EndInv => AbortFollowsError
  BY DEF CaptureInv, LoopInv, AbortsAreKnown, MainInv, MainDue, EndInv, AbortFollowsError
<1> QED
  BY <1>1, EndInvariant, PTL
=============================================================================
