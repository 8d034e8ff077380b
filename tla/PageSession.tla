---------------------------- MODULE PageSession ----------------------------
(***************************************************************************)
(* The page of a capture as the program holds it (BrowserPageSession in    *)
(* webshotd/src/crawler/browser_session.cpp) and the state machine that    *)
(* guards it (browser_page_lifecycle.cpp).  A page is a value: which of    *)
(* its three identifiers are set, and the machine's state.  A transition   *)
(* the machine refuses is a failed Invariant, which aborts the process.    *)
(***************************************************************************)
PageEvents == {"context created", "target created", "attached", "enabled",
               "detached", "disposed", "stopped"}
PageStates == {"idle", "context", "target", "attached", "enabled", "detached",
               "disposed", "stopped"}

Pages == [state : PageStates, context : BOOLEAN, target : BOOLEAN, session : BOOLEAN]

NewPage == [state |-> "idle", context |-> FALSE, target |-> FALSE, session |-> FALSE]

\* The rows of BrowserPageSessionLifecycleDefinition: <<state, event, next state>>.
Transitions ==
    {<<"idle", "context created", "context">>, <<"context", "target created", "target">>,
     <<"target", "attached", "attached">>, <<"attached", "enabled", "enabled">>}
    \cup {<<s, "detached", "detached">> : s \in {"attached", "enabled", "detached"}}
    \cup {<<s, "detached", s>> : s \in {"disposed", "stopped"}}
    \cup {<<s, "disposed", "disposed">> : s \in {"context", "target", "detached", "disposed"}}
    \cup {<<"stopped", "disposed", "stopped">>}
    \cup {<<s, "stopped", "stopped">> : s \in {"idle", "disposed", "stopped"}}

Accepts(state, event) == \E s \in PageStates : <<state, event, s>> \in Transitions

NextPageState(state, event) ==
    CHOOSE s \in PageStates : <<state, event, s>> \in Transitions

\* The identifiers an event sets or resets.
Apply(page, event) ==
    CASE event = "context created" -> [page EXCEPT !.context = TRUE]
      [] event = "target created"  -> [page EXCEPT !.target = TRUE]
      [] event = "attached"        -> [page EXCEPT !.session = TRUE]
      [] event = "detached"        -> [page EXCEPT !.session = FALSE]
      [] event = "disposed"        -> [page EXCEPT !.context = FALSE, !.target = FALSE]
      [] OTHER                     -> page

Mark(page, event) ==
    [Apply(page, event) EXCEPT !.state = NextPageState(page.state, event)]

\* Mutant: disposes of the context before it detaches.
NextStopEventContextFirst(page) ==
    IF page.context THEN "disposed" ELSE IF page.session THEN "detached" ELSE "stopped"

\* The first step of BrowserPageSession::Stop that has something left to do.
NextStopEvent(page) ==
    IF page.session THEN "detached" ELSE IF page.context THEN "disposed" ELSE "stopped"
=============================================================================
