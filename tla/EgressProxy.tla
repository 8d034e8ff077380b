---------------------------- MODULE EgressProxy -----------------------------
(***************************************************************************)
(* The proxy every byte of a browser goes through (egress_proxy.cpp): one  *)
(* task accepts connections, one task per connection reads a request head, *)
(* connects upstream and relays, and all of them share a budget of bytes   *)
(* sent to the browser, a stop flag and the first error.                   *)
(*                                                                         *)
(* A step is what a task does between two points where another task can    *)
(* see or change what it uses.  Bytes are counted, not stored; what goes   *)
(* upstream is not counted by the code either.                             *)
(***************************************************************************)
EXTENDS ProxyRequest, FiniteSetsExt

CONSTANTS
    Connections,  \* how many connections the browser may open
    Limit,        \* down_bytes_max
    MaxChunk,     \* most bytes one RecvSome returns
    ReplyBytes,   \* size of the proxy's own replies
    Requests,     \* request heads the browser may send
    RequireAuth,
    Rewrite,      \* enable_local_fixture_rewrite
    LoopbackHosts, LoopbackPorts,  \* kTestsuiteLoopbackHosts and its ports
    FixtureHosts, FixturePorts,    \* kLocalFixtureHosts and their ports
    PrivateIps, PublicIps          \* hosts that are literal addresses

ASSUME ProxyAssumption ==
    /\ Limit \in Nat \ {0} /\ MaxChunk \in Nat \ {0} /\ ReplyBytes \in Nat \ {0}
    /\ RequireAuth \in BOOLEAN /\ Rewrite \in BOOLEAN
    /\ Connections \in Nat /\ None \notin Nat \cup Requests \cup {"public", "private"}

\* Connections are numbered in the order in which they are accepted.
Clients == 1..Connections

VARIABLES
    counter,    \* down_bytes_
    stopped,
    error,      \* the kind of the first error noted
    apc,        \* the accept task: "none" once accept_task is reset
    acur,       \* the connection it has spawned a task for and not yet pushed
    acancel,    \* its cancellation was requested
    tasks,      \* client_tasks
    cancel,     \* client tasks whose cancellation was requested
    spc, taken, \* StopAll, and the tasks it has moved out of client_tasks
    expired,    \* the deadline Make was given has passed
    pc, req,    \* per connection: the handler, and the request it serves
    upstream,   \* the kind of address it is connected to
    up,         \* CopyClientToUpstream of a tunnel
    snd,        \* CopyUpstreamToClientBudgeted, or the reply being sent
    pend,       \* bytes received and not yet sent
    claim,      \* bytes of the budget claimed for the send under way
    acked,      \* history: bytes sends have reported as sent
    leak        \* history: bytes that failed sends may have delivered

budgetVars  == <<counter, claim, acked, leak>>
acceptVars  == <<apc, acur, acancel>>
taskVars    == <<tasks, cancel>>
stopVars    == <<spc, taken>>
sharedVars  == <<stopped, error>>
handlerVars == <<pc, req, upstream, up>>
sendVars    == <<snd, pend>>
proxyVars   == <<budgetVars, acceptVars, taskVars, stopVars, sharedVars, handlerVars,
                 sendVars, expired>>

AcceptPCs  == {"none", "accept", "push", "done"}
StopPCs    == {"absent", "serving", "join accept", "reset", "take", "join", "closed",
               "dead"}
HandlerPCs == {"away", "start", "head", "connect", "reply", "established", "request",
               "copy", "relay", "join", "done"}
SendPCs    == {"idle", "recv", "send", "claim", "socket", "done"}
Errors     == {None, "connect", "send upstream", "net_limit"}

HandlerTypeOK ==
    /\ pc \in [Clients -> HandlerPCs] /\ req \in [Clients -> Requests \cup {None}]
    /\ upstream \in [Clients -> {None, "public", "private"}]
    /\ up \in [Clients -> {"none", "run", "done"}]
    /\ snd \in [Clients -> SendPCs] /\ pend \in [Clients -> 0..(MaxChunk + ReplyBytes)]

EgressTypeOK ==
    /\ counter \in 0..Limit /\ acked \in 0..Limit
    /\ stopped \in BOOLEAN /\ expired \in BOOLEAN
    /\ error \in Errors
    /\ apc \in AcceptPCs /\ acur \in Clients \cup {None} /\ acancel \in BOOLEAN
    /\ tasks \subseteq Clients /\ cancel \subseteq Clients /\ taken \subseteq Clients
    /\ spc \in StopPCs
    /\ HandlerTypeOK
    /\ claim \in [Clients -> 0..Limit] /\ leak \in [Clients -> Nat]

\* No proxy yet: what a new session starts from.
NoProxy ==
    /\ counter = 0 /\ stopped = FALSE /\ error = None
    /\ apc = "none" /\ acur = None /\ acancel = FALSE
    /\ tasks = {} /\ cancel = {} /\ spc = "absent" /\ taken = {}
    /\ expired = FALSE
    /\ pc = [c \in Clients |-> "away"] /\ req = [c \in Clients |-> None]
    /\ upstream = [c \in Clients |-> None] /\ up = [c \in Clients |-> "none"]
    /\ snd = [c \in Clients |-> "idle"] /\ pend = [c \in Clients |-> 0]
    /\ claim = [c \in Clients |-> 0] /\ acked = 0 /\ leak = [c \in Clients |-> 0]

\* Bind and Listen succeed, and the accept task is started.
Make ==
    /\ spc = "absent"
    /\ spc' = "serving" /\ apc' = "accept"
    /\ UNCHANGED <<budgetVars, acur, acancel, taskVars, taken, sharedVars, handlerVars,
                   sendVars, expired>>

-----------------------------------------------------------------------------
(* The accept loop.  "accept" stands for the loop's test of stopped, for   *)
(* the wait in Accept and for the second test: a connection accepted       *)
(* before stopped is set is served, one accepted after it is dropped.      *)

AcceptClient(c) ==
    /\ apc = "accept" /\ ~stopped /\ pc[c] = "away" /\ \A d \in 1..(c - 1) : pc[d] # "away"
    /\ apc' = "push" /\ acur' = c
    /\ pc' = [pc EXCEPT ![c] = "start"]
    /\ UNCHANGED <<budgetVars, acancel, taskVars, stopVars, sharedVars, req, upstream, up,
                   sendVars, expired>>

PushTask ==
    /\ apc = "push"
    /\ tasks' = tasks \cup {acur}
    /\ apc' = "accept" /\ acur' = None
    /\ UNCHANGED <<budgetVars, acancel, cancel, stopVars, sharedVars, handlerVars, sendVars, expired>>

AcceptReturns ==
    /\ apc = "accept"
    /\ apc' = "done"
    /\ UNCHANGED <<budgetVars, acur, acancel, taskVars, stopVars, sharedVars, handlerVars,
                   sendVars, expired>>

\* Accept throws, for a while or for good: the loop ends either way.
AcceptFails == AcceptReturns

\* Cancelled, at the deadline, or stopped.
AcceptEnds == (acancel \/ expired \/ stopped) /\ AcceptReturns

-----------------------------------------------------------------------------
(* One connection.                                                         *)

\* A blocking call of the handler throws; and one of a tunnel's copies, which are tasks
\* of their own, not listed in client_tasks.
Interrupted(c) == expired \/ c \in cancel
CopyInterrupted(c) ==
    expired \/ (IF pc[c] \in {"relay", "join"} THEN pc[c] = "join" ELSE c \in cancel)

NoteError(kind) == error' = IF error = None THEN kind ELSE error

\* HandleClient returns; its sockets are closed.
Finish(c) ==
    /\ pc' = [pc EXCEPT ![c] = "done"] /\ req' = [req EXCEPT ![c] = None]
    /\ upstream' = [upstream EXCEPT ![c] = None] /\ up' = [up EXCEPT ![c] = "none"]
    /\ snd' = [snd EXCEPT ![c] = "idle"] /\ pend' = [pend EXCEPT ![c] = 0]

\* Send400, Send407, Send502, and the reply to CONNECT, all through SendBudgeted.
StartReply(c, then) ==
    /\ pc' = [pc EXCEPT ![c] = then]
    /\ snd' = [snd EXCEPT ![c] = "send"] /\ pend' = [pend EXCEPT ![c] = ReplyBytes]

EnterHandler(c) ==
    /\ pc[c] = "start"
    /\ \/ stopped /\ Finish(c)
       \/ ~stopped /\ pc' = [pc EXCEPT ![c] = "head"] /\ UNCHANGED <<req, upstream, up, sendVars>>
    /\ UNCHANGED <<budgetVars, acceptVars, taskVars, stopVars, sharedVars, expired>>

\* The head is complete: it is refused, has no usable target, or is served.
ReadHead(c, r) ==
    /\ pc[c] = "head"
    /\ req' = [req EXCEPT ![c] = r]
    /\ \/ /\ Refused(r, RequireAuth) \/ Target(r) = None
          /\ StartReply(c, "reply")
       \/ /\ ~Refused(r, RequireAuth) /\ Target(r) # None
          /\ pc' = [pc EXCEPT ![c] = "connect"] /\ UNCHANGED sendVars
    /\ UNCHANGED <<budgetVars, acceptVars, taskVars, stopVars, sharedVars, upstream, up, expired>>

\* The browser closes before its head is complete, or RecvSome throws.
LoseHead(c) ==
    /\ pc[c] = "head" /\ Finish(c)
    /\ UNCHANGED <<budgetVars, acceptVars, taskVars, stopVars, sharedVars, expired>>

RewriteLocalFixtureIfNeeded(t) ==
    IF Rewrite /\ t.host \in LoopbackHosts /\ t.port \in LoopbackPorts
    THEN [host |-> t.host, allowed |-> TRUE]
    ELSE IF Rewrite /\ t.host \in FixtureHosts /\ t.port \in FixturePorts
    THEN [host |-> CHOOSE h \in LoopbackHosts : TRUE, allowed |-> TRUE]
    ELSE [host |-> t.host, allowed |-> FALSE]

(* Mutant of ResolveTcp: only literal addresses are checked.               *)
ResolveTcpUnchecked(host, allowed) ==
    IF host \in PublicIps THEN {"public"}
    ELSE IF host \in PrivateIps THEN IF allowed THEN {"private"} ELSE {}
    ELSE {"public", "private"}

\* The addresses that may come out; a name resolves to any of both kinds.
ResolveTcp(host, allowed) ==
    LET Resolved == IF host \in PublicIps THEN {"public"}
                    ELSE IF host \in PrivateIps THEN {"private"}
                    ELSE {"public", "private"}
    IN  IF allowed THEN Resolved ELSE Resolved \ {"private"}

Candidates(t) ==
    LET u == RewriteLocalFixtureIfNeeded(t) IN ResolveTcp(u.host, u.allowed)

ConnectUpstream(c, address) ==
    /\ pc[c] = "connect" /\ address \in Candidates(Target(req[c]))
    /\ upstream' = [upstream EXCEPT ![c] = address]
    /\ \/ req[c].method = "CONNECT" /\ StartReply(c, "established")
       \/ /\ req[c].method # "CONNECT"
          /\ pc' = [pc EXCEPT ![c] = "request"] /\ UNCHANGED sendVars
    /\ UNCHANGED <<budgetVars, acceptVars, taskVars, stopVars, sharedVars, req, up, expired>>

\* No address, none that may be used, or every connect fails or is interrupted.
ConnectFails(c) ==
    /\ pc[c] = "connect"
    /\ NoteError("connect") /\ StartReply(c, "reply")
    /\ UNCHANGED <<budgetVars, acceptVars, taskVars, stopVars, stopped, req, upstream, up, expired>>

\* The request line and headers, then the body: however the forwarding of the body ends,
\* the answer is copied next.
SendRequest(c) ==
    /\ pc[c] = "request"
    /\ \/ /\ pc' = [pc EXCEPT ![c] = "copy"] /\ snd' = [snd EXCEPT ![c] = "recv"]
          /\ UNCHANGED <<error, pend>>
       \/ NoteError("send upstream") /\ StartReply(c, "reply")
    /\ UNCHANGED <<budgetVars, acceptVars, taskVars, stopVars, stopped, req, upstream, up, expired>>

-----------------------------------------------------------------------------
(* SendBudgeted: the test of stopped, the claim under the counter's lock,  *)
(* and the send, after which what was not sent is given back.              *)

(* Mutant of SendReturns: a failed send is tried again.                    *)
SendReturnsRetrying(c, sent, stop) ==
    LET rest == pend[c] - sent
    IN  \/ pc[c] \in {"reply", "established"} /\ Finish(c)
        \/ /\ pc[c] \in {"copy", "relay", "join"}
           /\ snd' = [snd EXCEPT ![c] = IF stop THEN "done" ELSE IF rest = 0 THEN "recv" ELSE "send"]
           /\ pend' = [pend EXCEPT ![c] = IF stop THEN 0 ELSE rest]
           /\ UNCHANGED handlerVars

\* What its caller does with the number of bytes sent, and with the flag it reads then.
SendReturns(c, sent, stop) ==
    LET rest == pend[c] - sent
    IN  \/ pc[c] = "reply" /\ Finish(c)
        \/ pc[c] = "established" /\ stop /\ Finish(c)
        \/ /\ pc[c] = "established" /\ ~stop
           /\ pc' = [pc EXCEPT ![c] = "relay"] /\ up' = [up EXCEPT ![c] = "run"]
           /\ snd' = [snd EXCEPT ![c] = "recv"] /\ pend' = [pend EXCEPT ![c] = 0]
           /\ UNCHANGED <<req, upstream>>
        \/ /\ pc[c] \in {"copy", "relay", "join"}
           /\ LET ended == sent = 0 \/ stop
              IN  /\ snd' = [snd EXCEPT ![c] = IF ended THEN "done"
                                               ELSE IF rest = 0 THEN "recv" ELSE "send"]
                  /\ pend' = [pend EXCEPT ![c] = IF ended THEN 0 ELSE rest]
           /\ UNCHANGED handlerVars

SendCheck(c) ==
    /\ snd[c] = "send"
    /\ \/ stopped /\ SendReturns(c, 0, TRUE)
       \/ ~stopped /\ snd' = [snd EXCEPT ![c] = "claim"] /\ UNCHANGED <<handlerVars, pend>>
    /\ UNCHANGED <<budgetVars, acceptVars, taskVars, stopVars, sharedVars, expired>>

MaxClaim(c) == Min({pend[c], Limit})

Claim(c) ==
    /\ snd[c] = "claim" /\ counter <= Limit - MaxClaim(c)
    /\ counter' = counter + MaxClaim(c)
    /\ claim' = [claim EXCEPT ![c] = MaxClaim(c)]
    /\ snd' = [snd EXCEPT ![c] = "socket"]
    /\ UNCHANGED <<acked, leak, acceptVars, taskVars, stopVars, sharedVars, handlerVars, pend, expired>>

\* The claim does not fit: the error is noted, the proxy stops and every task listed is
\* cancelled.
TripLimit(c) ==
    /\ snd[c] = "claim" /\ counter > Limit - MaxClaim(c)
    /\ NoteError("net_limit") /\ stopped' = TRUE
    /\ acancel' = (acancel \/ apc # "none")
    /\ cancel' = cancel \cup tasks
    /\ SendReturns(c, 0, TRUE)
    /\ UNCHANGED <<budgetVars, apc, acur, tasks, stopVars, expired>>

\* While StopAll resets accept_task, TripLimit's look at it is a data race, and the
\* process may die of it.
DataRace(c) ==
    /\ snd[c] = "claim" /\ counter > Limit - MaxClaim(c) /\ spc = "reset"
    /\ spc' = "dead" /\ apc' = "none"
    /\ pc' = [d \in Clients |-> "done"]
    /\ up' = [d \in Clients |-> "none"] /\ snd' = [d \in Clients |-> "idle"]
    /\ UNCHANGED <<budgetVars, acur, acancel, taskVars, taken, sharedVars, req, upstream, pend,
                   expired>>

\* SendAll returns: all of it, or less when the browser has closed.
SocketSends(c, sent) ==
    /\ snd[c] = "socket" /\ sent <= claim[c]
    /\ counter' = counter - (claim[c] - sent)
    /\ claim' = [claim EXCEPT ![c] = 0] /\ acked' = acked + sent
    /\ SendReturns(c, sent, stopped)
    /\ UNCHANGED <<leak, acceptVars, taskVars, stopVars, sharedVars, expired>>

(* Mutant of SocketFails: the claim of a failed send is not given back.    *)
SocketFailsKeepsClaim(c) ==
    /\ snd[c] = "socket"
    /\ claim' = [claim EXCEPT ![c] = 0] /\ leak' = [leak EXCEPT ![c] = @ + claim[c]]
    /\ SendReturns(c, 0, stopped)
    /\ UNCHANGED <<counter, acked, acceptVars, taskVars, stopVars, sharedVars, expired>>

\* SendAll throws after some, at worst all, of the bytes went out: the whole claim is
\* given back.
SocketFails(c) ==
    /\ snd[c] = "socket"
    /\ counter' = counter - claim[c]
    /\ claim' = [claim EXCEPT ![c] = 0] /\ leak' = [leak EXCEPT ![c] = @ + claim[c]]
    /\ SendReturns(c, 0, stopped)
    /\ UNCHANGED <<acked, acceptVars, taskVars, stopVars, sharedVars, expired>>

-----------------------------------------------------------------------------
(* The copies of a tunnel and of an HTTP answer.                           *)

Receive(c, received) ==
    /\ snd[c] = "recv"
    /\ snd' = [snd EXCEPT ![c] = "send"] /\ pend' = [pend EXCEPT ![c] = received]
    /\ UNCHANGED <<budgetVars, acceptVars, taskVars, stopVars, sharedVars, handlerVars, expired>>

\* End of file, an error, or stopped when the loop looks again.
DownEnds(c) ==
    /\ snd[c] = "recv"
    /\ snd' = [snd EXCEPT ![c] = "done"]
    /\ UNCHANGED <<budgetVars, acceptVars, taskVars, stopVars, sharedVars, handlerVars, pend, expired>>

UpEnds(c) ==
    /\ up[c] = "run"
    /\ up' = [up EXCEPT ![c] = "done"]
    /\ UNCHANGED <<budgetVars, acceptVars, taskVars, stopVars, sharedVars, pc, req, upstream,
                   sendVars, expired>>

(* Mutant of CancelCopies: only the deadline ends the wait for the copies. *)
CancelCopiesAtDeadline(c) ==
    /\ pc[c] = "relay" /\ expired
    /\ pc' = [pc EXCEPT ![c] = "join"]
    /\ UNCHANGED <<budgetVars, acceptVars, taskVars, stopVars, sharedVars, req, upstream, up,
                   sendVars, expired>>

\* WaitAllCheckedUntil returns early: both copies are cancelled.
CancelCopies(c) ==
    /\ pc[c] = "relay" /\ Interrupted(c)
    /\ pc' = [pc EXCEPT ![c] = "join"]
    /\ UNCHANGED <<budgetVars, acceptVars, taskVars, stopVars, sharedVars, req, upstream, up,
                   sendVars, expired>>

\* Both copies are joined, by the waits or by the destructors, before the sockets go.
CopiesDone(c) ==
    /\ \/ pc[c] = "copy" /\ snd[c] = "done"
       \/ pc[c] \in {"relay", "join"} /\ snd[c] = "done" /\ up[c] = "done"
    /\ Finish(c)
    /\ UNCHANGED <<budgetVars, acceptVars, taskVars, stopVars, sharedVars, expired>>

-----------------------------------------------------------------------------
(* StopAll.  Where its caller is cancelled the waits return early and the  *)
(* destructors of the tasks wait instead: it is the same join.             *)

(* Mutant of StopAll: the tasks are taken before the accept task is joined. *)
StopAllTasksFirst ==
    /\ spc = "serving"
    /\ stopped' = TRUE /\ acancel' = TRUE
    /\ taken' = tasks /\ tasks' = {} /\ cancel' = cancel \cup tasks
    /\ spc' = "join"
    /\ UNCHANGED <<budgetVars, apc, acur, error, handlerVars, sendVars, expired>>

StopAll ==
    /\ spc = "serving"
    /\ stopped' = TRUE /\ acancel' = TRUE
    /\ spc' = "join accept"
    /\ UNCHANGED <<budgetVars, apc, acur, taskVars, taken, error, handlerVars, sendVars, expired>>

JoinAccept ==
    /\ spc = "join accept" /\ apc = "done"
    /\ spc' = "reset"
    /\ UNCHANGED <<budgetVars, acceptVars, taskVars, taken, sharedVars, handlerVars, sendVars, expired>>

ResetAccept ==
    /\ spc = "reset"
    /\ apc' = "none" /\ spc' = "take"
    /\ UNCHANGED <<budgetVars, acur, acancel, taskVars, taken, sharedVars, handlerVars,
                   sendVars, expired>>

TakeTasks ==
    /\ spc = "take"
    /\ taken' = tasks /\ tasks' = {} /\ cancel' = cancel \cup tasks
    /\ spc' = "join"
    /\ UNCHANGED <<budgetVars, acceptVars, sharedVars, handlerVars, sendVars, expired>>

JoinTasks ==
    /\ spc = "join" /\ \A c \in taken : pc[c] = "done"
    /\ spc' = "closed"
    /\ UNCHANGED <<budgetVars, acceptVars, taskVars, taken, sharedVars, handlerVars, sendVars, expired>>

-----------------------------------------------------------------------------
Expire ==
    /\ ~expired /\ spc \notin {"absent", "closed", "dead"}
    /\ expired' = TRUE
    /\ UNCHANGED <<budgetVars, acceptVars, taskVars, stopVars, sharedVars, handlerVars, sendVars>>

\* What a task does by itself, or because it was interrupted.
AcceptTask == PushTask \/ AcceptEnds

HandlerTask(c) ==
    \/ EnterHandler(c) \/ SendRequest(c)
    \/ SendCheck(c) \/ Claim(c) \/ TripLimit(c) \/ CancelCopies(c) \/ CopiesDone(c)
    \/ Interrupted(c) /\ (LoseHead(c) \/ ConnectFails(c))
    \/ CopyInterrupted(c) /\ (SocketFails(c) \/ DownEnds(c))
    \/ stopped /\ DownEnds(c)

UpTask(c) == CopyInterrupted(c) /\ UpEnds(c)

StopTask == JoinAccept \/ ResetAccept \/ TakeTasks \/ JoinTasks

\* What depends on the browser, on the upstream servers and on the network.
Network(c) ==
    \/ AcceptClient(c) \/ (\E r \in Requests : ReadHead(c, r)) \/ LoseHead(c)
    \/ (\E address \in {"public", "private"} : ConnectUpstream(c, address)) \/ ConnectFails(c)
    \/ (\E n \in 1..MaxChunk : Receive(c, n)) \/ DownEnds(c) \/ UpEnds(c)
    \/ (\E n \in 0..Limit : SocketSends(c, n)) \/ SocketFails(c)

\* Nothing is left to do, or nobody is left to do it.
Over ==
    /\ spc \in {"closed", "dead"}
    /\ UNCHANGED proxyVars

Next ==
    \/ Make \/ StopAll \/ AcceptTask \/ AcceptFails \/ StopTask \/ Expire \/ Over
    \/ \E c \in Clients : HandlerTask(c) \/ UpTask(c) \/ Network(c) \/ DataRace(c)

Spec == NoProxy /\ [][Next]_proxyVars

\* Tasks are scheduled fairly, and an interrupted call returns; the browser, the servers
\* and the deadline owe nothing.
FairSpec ==
    /\ Spec
    /\ WF_proxyVars(AcceptTask) /\ WF_proxyVars(StopTask)
    /\ \A c \in Clients : WF_proxyVars(HandlerTask(c)) /\ WF_proxyVars(UpTask(c))

-----------------------------------------------------------------------------
(* Properties.                                                             *)

\* The bytes that claims stand for, each as a pair of a connection and a number.
BytesOf(claims) == {b \in Clients \X (1..Limit) : b[2] <= claims[b[1]]}

\* The counter is exactly what sends have reported and what is claimed by sends under
\* way, through every failure, so that the budget neither leaks nor is spent twice; and it
\* keeps to the limit, as EgressTypeOK says.
BudgetIsExact == EgressTypeOK /\ counter = acked + Cardinality(BytesOf(claim))

\* A failed send is forgiven: its bytes may have reached the browser without counting.
\* A connection gets no second chance to do so beyond its CONNECT reply and one chunk.
UncountedIsBounded == \A c \in Clients : leak[c] <= ReplyBytes + MaxChunk

\* What the browser session relies on.
Service == INSTANCE ProxyService WITH
    Kinds     <- Errors \ {None},
    state     <- CASE spc \in {"absent", "serving", "closed", "dead"} -> spc
                   [] OTHER -> "stopping",
    accepting <- apc \in {"accept", "push"},
    live      <- {c \in Clients : pc[c] \notin {"away", "done"}},
    served    <- {c \in Clients : pc[c] = "done"},
    bytes     <- counter,
    reason    <- error

\* The tasks of the proxy implement it.  In particular, once StopAll returns no task runs
\* and none can start, those accepted while the limit tripped or while StopAll was called
\* included, and DownBytes and ErrorReason do not change any more.
ServiceHolds == Service!Spec

\* A target that is a local fixture.
IsFixture(t) ==
    \/ t.host \in LoopbackHosts /\ t.port \in LoopbackPorts
    \/ t.host \in FixtureHosts /\ t.port \in FixturePorts

\* The browser reaches a non-public address only as a local fixture the request it sent
\* names by host and port, whatever names resolve to.
OnlyPublicOrFixture ==
    \A c \in Clients : upstream[c] = "private" => Rewrite /\ IsFixture(Target(req[c]))

\* Whoever calls StopAll gets control back, unless the data race kills the process.
StopReturns == spc = "join accept" ~> spc \in {"closed", "dead"}

\* The fact about ParseAuthority, which no state changes, is looked at once.
ParserIsExact == spc = "absent" => AuthorityIsUnambiguous(SomeAuthorities)
=============================================================================
