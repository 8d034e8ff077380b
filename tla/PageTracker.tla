---------------------------- MODULE PageTracker ----------------------------
(***************************************************************************)
(* What a capture knows of its page's network traffic (PageTracker in      *)
(* webshotd/src/crawler/runner.cpp).  Its state sits behind one lock, so a *)
(* handler is an operator from a tracker to the tracker after it.          *)
(*                                                                         *)
(* A request is known by its id.  A document request of the main frame     *)
(* starts a loader of its own, so its id stands for its loader id; it      *)
(* keeps both across redirects.  URLs, headers and bodies are left out; of *)
(* a URL only whether it equals the seed URL matters.  The redirect chains *)
(* and redirected resources are not kept.                                  *)
(***************************************************************************)
EXTENDS Naturals

CONSTANTS
    Seed,     \* the document request of the seed navigation
    Others,   \* the page's other requests: resources and later documents
    None

Requests == {Seed} \cup Others

TrackedRequests == [main : BOOLEAN, response : BOOLEAN, loaded : BOOLEAN]

Trackers ==
    [active : [Requests -> TrackedRequests \cup {None}],   \* active_requests
     inflight : SUBSET Requests,
     mainId : Requests \cup {None},                        \* main_request_id
     mainLoader : Requests \cup {None},                    \* main_loader_id
     completed : TrackedRequests \cup {None},              \* completed_main_request
     loaded : BOOLEAN,
     error : BOOLEAN,                                      \* main_request_error
     started : BOOLEAN,                                    \* seed_navigation_started
     quiet : BOOLEAN]        \* the idle time has passed since last_network_at

ASSUME TrackerAssumption ==
    /\ Seed \notin Others /\ None \notin Requests
    /\ None \notin TrackedRequests /\ None \notin Trackers

NewTracker ==
    [active |-> [r \in Requests |-> None], inflight |-> {}, mainId |-> None,
     mainLoader |-> None, completed |-> None, loaded |-> FALSE, error |-> FALSE,
     started |-> FALSE, quiet |-> FALSE]

BeginSeedNavigation(t) == [t EXCEPT !.started = TRUE]

SetExpectedMainLoaderId(t, loader) ==
    IF loader = None THEN t ELSE [t EXCEPT !.mainLoader = loader]

Fail(t) == [t EXCEPT !.error = TRUE]

-----------------------------------------------------------------------------
ActiveMainRequest(t) == IF t.mainId = None THEN None ELSE t.active[t.mainId]

HasResponse(request) == request # None /\ request.response

\* Whether SelectMainResponse finds a response.
HasMainResponse(t) == HasResponse(t.completed) \/ HasResponse(ActiveMainRequest(t))

IsLoadedOrFailed(t) == t.loaded \/ t.error

\* Mutant: settles for the load event.
IsLoadedDocumentOrError(t) == t.error \/ t.loaded

HasMainDocumentOrError(t) ==
    \/ t.error
    \/ \E request \in {t.completed, ActiveMainRequest(t)} :
            HasResponse(request) /\ request.loaded

IsIdle(t) == t.inflight = {} /\ t.quiet

-----------------------------------------------------------------------------
\* The lookups of an unknown request id: an error only for the main document.
UnknownRequest(t, r) == [t EXCEPT !.error = @ \/ t.mainId = r]

\* For a redirect response with a status: without one its Invariant fails.
FinalizeRedirectRequest(t, r) ==
    IF t.active[r] = None
    THEN Fail(t)
    ELSE [t EXCEPT !.active[r] = None,
                   !.mainId = IF t.active[r].main /\ @ = r THEN None ELSE @]

\* Mutant: the loader is not compared.
IsForeignDocumentAnyLoader(t, r, matchesSeedUrl) ==
    t.mainLoader = None /\ t.mainId = None /\ ~matchesSeedUrl

\* A document request of the main frame that is not the seed navigation's.
IsForeignDocument(t, r, matchesSeedUrl) ==
    IF t.mainLoader # None THEN t.mainLoader # r ELSE t.mainId = None /\ ~matchesSeedUrl

\* Whether HandleRequestWillBeSent gets past the early returns of a foreign document.
IsFollowed(t, r, main, matchesSeedUrl) == main => ~IsForeignDocument(t, r, matchesSeedUrl)

\* main: IsMainFrameDocumentRequest.
HandleRequestWillBeSent(t, r, main, matchesSeedUrl, redirected) ==
    LET seen == [t EXCEPT !.inflight = @ \cup {r}, !.quiet = FALSE]
        finalized == IF redirected THEN FinalizeRedirectRequest(seen, r) ELSE seen
    IN IF ~IsFollowed(t, r, main, matchesSeedUrl)
       THEN seen
       ELSE [finalized EXCEPT
                !.active[r] = [main |-> main, response |-> FALSE, loaded |-> FALSE],
                !.mainLoader = IF main /\ @ = None THEN r ELSE @,
                !.mainId = IF main THEN r ELSE @]

HandleResponseReceived(t, r) ==
    IF t.active[r] = None
    THEN UnknownRequest(t, r)
    ELSE LET request == [t.active[r] EXCEPT !.response = TRUE]
         IN [t EXCEPT !.active[r] = request,
                      !.completed = IF request.main THEN request ELSE @]

HandleLoadingFinished(t, r) ==
    LET seen == [t EXCEPT !.inflight = @ \ {r}, !.quiet = FALSE]
        request == [t.active[r] EXCEPT !.loaded = TRUE]
    IN IF t.active[r] = None
       THEN UnknownRequest(seen, r)
       ELSE [seen EXCEPT !.active[r] = request,
                         !.completed = IF request.main /\ request.response
                                       THEN request ELSE @]

\* Mutant: a failed request stays in flight.
HandleLoadingFailedInflight(t, r) ==
    LET request == [t.active[r] EXCEPT !.loaded = TRUE]
    IN IF t.active[r] = None
       THEN UnknownRequest(t, r)
       ELSE [t EXCEPT !.active[r] = request,
                      !.error = @ \/ (request.main /\ ~request.response)]

\* A failure after the response counts as the document's end.
HandleLoadingFailed(t, r) ==
    LET seen == [t EXCEPT !.inflight = @ \ {r}, !.quiet = FALSE]
        request == [t.active[r] EXCEPT !.loaded = TRUE]
    IN IF t.active[r] = None
       THEN UnknownRequest(seen, r)
       ELSE [seen EXCEPT !.active[r] = request,
                         !.error = @ \/ (request.main /\ ~request.response)]

HandleLoadEventFired(t) == [t EXCEPT !.loaded = TRUE]
=============================================================================
