---------------------------- MODULE ProxyService ----------------------------
(***************************************************************************)
(* What a browser session relies on of its egress proxy: it is opened      *)
(* once, serves connections until it is stopped or gives up accepting,     *)
(* reports a byte count within the limit and the first error it met, and   *)
(* once stopped has ended every connection and changes nothing any more.   *)
(***************************************************************************)
EXTENDS Naturals

CONSTANTS
    None,
    Clients,  \* connections
    Limit,    \* down_bytes_max
    Kinds     \* the kinds of error it reports

VARIABLES
    state,      \* "absent", "serving", "stopping", "closed" or "dead"
    accepting,  \* new connections are served
    live,       \* connections being served
    served,     \* connections that have ended
    bytes,      \* DownBytes
    reason      \* ErrorReason, None as long as there is none

serviceVars == <<state, accepting, live, served, bytes, reason>>

Init ==
    /\ state = "absent" /\ accepting = FALSE /\ live = {} /\ served = {}
    /\ bytes = 0 /\ reason = None

Open ==
    /\ state = "absent"
    /\ state' = "serving" /\ accepting' = TRUE
    /\ UNCHANGED <<live, served, bytes, reason>>

Accept(c) ==
    /\ state \in {"serving", "stopping"} /\ accepting /\ c \notin live \cup served
    /\ live' = live \cup {c}
    /\ UNCHANGED <<state, accepting, served, bytes, reason>>

\* For good: the proxy never starts to accept again.
GiveUpAccepting ==
    /\ accepting /\ accepting' = FALSE
    /\ UNCHANGED <<state, live, served, bytes, reason>>

\* A connection moves the byte count, notes the first error, or ends, or does all of it.
Serve(c) ==
    /\ c \in live
    /\ live' \in {live, live \ {c}} /\ served' = served \cup (live \ live')
    /\ bytes' \in 0..Limit
    /\ IF reason = None THEN reason' \in Kinds \cup {None} ELSE reason' = reason
    /\ UNCHANGED <<state, accepting>>

BeginStop ==
    /\ state = "serving" /\ state' = "stopping"
    /\ UNCHANGED <<accepting, live, served, bytes, reason>>

Close ==
    /\ state = "stopping" /\ ~accepting /\ live = {}
    /\ state' = "closed"
    /\ UNCHANGED <<accepting, live, served, bytes, reason>>

\* Being stopped may kill the process.
Die ==
    /\ state = "stopping" /\ live # {}
    /\ state' = "dead" /\ accepting' = FALSE
    /\ live' = {} /\ served' = Clients
    /\ UNCHANGED <<bytes, reason>>

Next ==
    \/ Die \/ Open \/ GiveUpAccepting \/ BeginStop \/ Close
    \/ \E c \in Clients : Accept(c) \/ Serve(c)

Spec == Init /\ [][Next]_serviceVars
=============================================================================
