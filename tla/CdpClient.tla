----------------------------- MODULE CdpClient ------------------------------
(***************************************************************************)
(* The DevTools connection of one browser (webshotd/src/crawler/           *)
(* cdp_client.cpp): tasks that send commands and wait for their responses, *)
(* one reader task that matches responses to waiters and routes events to  *)
(* sessions, and the error that ends the connection for everyone.          *)
(*                                                                         *)
(* The steps are the critical sections: shared_state_ is one lock, every   *)
(* waiter and every session has a lock of its own, and between two of them *)
(* any other task may run.  A command is known by its id.  The callers are *)
(* the capture task and its event loop; the capture task stops the client  *)
(* after it has joined the event loop (CaptureSession::StopCdpForError).   *)
(***************************************************************************)
EXTENDS Naturals, Sequences, FiniteSets

CONSTANTS
    Callers,     \* tasks that call SendRaw
    Sessions,    \* CDP sessions, of one target each
    None,
    MaxId,       \* bound of next_request_id
    MaxEvents,   \* bound of the events the browser emits for a session
    Misbehaves   \* whether the browser sends what no command asked for

Ids == 1..MaxId
Fatals == {"transport", "closed", "protocol"}
Outcomes == Fatals \cup {"result", "failed"}

ASSUME CdpAssumption ==
    /\ MaxId \in Nat /\ MaxEvents \in Nat /\ Misbehaves \in BOOLEAN
    /\ None \notin Sessions \cup Fatals

VARIABLES
    \* shared_state_
    nextId, pending, ignored, waiters, registered, fatal, stopping, stopped,
    \* waiters: those completed, and with what
    done, reply,
    \* SendRaw calls: program counter, id of the command
    pc, cid,
    \* the reader: program counter, response or session in hand, cancellation
    rpc, rid, rsession, rcancelled,
    \* the rest of a SetFatalError: who runs it, waiters and sessions to tell
    failer, todo, todoSessions,
    \* sessions: life, queued events, error
    life, queue, serror,
    \* the capture task stopping the client
    spc,
    \* the browser: commands it owes an answer, answers under way, events emitted
    atBrowser, onWire, emitted

sharedVars  == <<nextId, pending, ignored, waiters, registered, fatal, stopping, stopped>>
waiterVars  == <<done, reply>>
callerVars  == <<pc, cid>>
readerVars  == <<rpc, rid, rsession, rcancelled>>
fatalVars   == <<failer, todo, todoSessions>>
sessionVars == <<life, queue, serror>>
browserVars == <<atBrowser, onWire, emitted>>
vars == <<nextId, pending, ignored, waiters, registered, fatal, stopping, stopped,
          done, reply, pc, cid, rpc, rid, rsession, rcancelled,
          failer, todo, todoSessions, life, queue, serror, spc,
          atBrowser, onWire, emitted>>

TypeOK ==
    /\ nextId \in 1..(MaxId + 1)
    /\ pending \subseteq Ids /\ ignored \subseteq pending /\ waiters \subseteq Ids
    /\ registered \subseteq Sessions
    /\ fatal \in Fatals \cup {None} /\ stopping \in BOOLEAN /\ stopped \in BOOLEAN
    /\ done \subseteq Ids /\ reply \in [Ids -> Outcomes \cup {None}]
    /\ pc \in [Callers -> {"idle", "send", "failing", "wait", "expired", "late"}]
    /\ cid \in [Callers -> Ids \cup {None}]
    /\ rpc \in {"recv", "fill", "push", "failing", "dead"}
    /\ rid \in Ids \cup {None} /\ rsession \in Sessions \cup {None}
    /\ rcancelled \in BOOLEAN
    /\ failer \in Callers \cup {"reader", "stop", None}
    /\ todo \subseteq Ids /\ todoSessions \subseteq Sessions
    /\ life \in [Sessions -> {"new", "open", "closing", "closed"}]
    /\ queue \in [Sessions -> Seq(1..MaxEvents)]
    /\ serror \in [Sessions -> Fatals \cup {None}]
    /\ spc \in {"running", "close", "failing", "join", "stopped"}
    /\ atBrowser \subseteq Ids /\ onWire \subseteq Ids
    /\ emitted \in [Sessions -> 0..MaxEvents]

Init ==
    /\ nextId = 1 /\ pending = {} /\ ignored = {} /\ waiters = {} /\ registered = {}
    /\ fatal = None /\ stopping = FALSE /\ stopped = FALSE
    /\ done = {} /\ reply = [i \in Ids |-> None]
    /\ pc = [c \in Callers |-> "idle"]
    /\ cid = [c \in Callers |-> None]
    /\ rpc = "recv" /\ rid = None /\ rsession = None /\ rcancelled = FALSE
    /\ failer = None /\ todo = {} /\ todoSessions = {}
    /\ life = [s \in Sessions |-> "new"] /\ queue = [s \in Sessions |-> <<>>]
    /\ serror = [s \in Sessions |-> None]
    /\ spc = "running"
    /\ atBrowser = {} /\ onWire = {} /\ emitted = [s \in Sessions |-> 0]

-----------------------------------------------------------------------------
(* SetFatalError                                                           *)

(* Mutant of SetFatalError: the tables are emptied and nobody is told.     *)
SetFatalErrorMutant(who, error) ==
    IF fatal # None
    THEN UNCHANGED <<pending, ignored, waiters, registered, fatal, stopped, fatalVars>>
    ELSE /\ fatal' = error /\ stopped' = TRUE
         /\ failer' = who
         /\ todo' = {} /\ todoSessions' = registered
         /\ waiters' = {} /\ pending' = {} /\ ignored' = {} /\ registered' = {}

(* The part under the lock: the first error wins, empties the tables and   *)
(* keeps what was in them to tell after the unlock.                        *)
SetFatalError(who, error) ==
    IF fatal # None
    THEN UNCHANGED <<pending, ignored, waiters, registered, fatal, stopped, fatalVars>>
    ELSE /\ fatal' = error /\ stopped' = TRUE
         /\ failer' = who
         /\ todo' = waiters /\ todoSessions' = registered
         /\ waiters' = {} /\ pending' = {} /\ ignored' = {} /\ registered' = {}

(* The call of who is over.                                                *)
FatalTold(who) == failer # who \/ (todo = {} /\ todoSessions = {})

(* The rest of it, without the lock: the waiters, then the sessions.       *)
FailWaiter(i) ==
    /\ i \in todo
    /\ todo' = todo \ {i}
    /\ done' = done \cup {i}
    /\ reply' = [reply EXCEPT ![i] = fatal]
    /\ UNCHANGED <<sharedVars, callerVars, readerVars, failer, todoSessions, sessionVars,
                   spc, browserVars>>

(* Mutant of FailSession: the session is told of a timeout.                *)
FailSessionMutant(s) ==
    /\ s \in todoSessions /\ todo = {}
    /\ todoSessions' = todoSessions \ {s}
    /\ serror' = [serror EXCEPT ![s] = "timeout"]
    /\ UNCHANGED <<sharedVars, waiterVars, callerVars, readerVars, failer, todo, life,
                   queue, spc, browserVars>>

FailSession(s) ==
    /\ s \in todoSessions /\ todo = {}
    /\ todoSessions' = todoSessions \ {s}
    /\ serror' = [serror EXCEPT ![s] = fatal]
    /\ UNCHANGED <<sharedVars, waiterVars, callerVars, readerVars, failer, todo, life,
                   queue, spc, browserVars>>

-----------------------------------------------------------------------------
(* SendRaw                                                                 *)

(* What is returned is the reply of the waiter, or a timeout.              *)
Return(c) == pc' = [pc EXCEPT ![c] = "idle"] /\ UNCHANGED cid

(* Mutant of Issue: the error is not looked at under the lock.             *)
IssueMutant(c) ==
    /\ pc[c] = "idle" /\ spc = "running" /\ nextId <= MaxId
    /\ nextId' = nextId + 1
    /\ pending' = pending \cup {nextId}
    /\ waiters' = waiters \cup {nextId}
    /\ pc' = [pc EXCEPT ![c] = "send"]
    /\ cid' = [cid EXCEPT ![c] = nextId]
    /\ UNCHANGED <<ignored, registered, fatal, stopping, stopped, waiterVars, readerVars,
                   fatalVars, sessionVars, spc, browserVars>>

(* A call is refused at once when the connection has failed.  The capture  *)
(* task sends no command after it began to stop the client.                *)
Issue(c) ==
    /\ pc[c] = "idle" /\ spc = "running" /\ nextId <= MaxId
    /\ fatal = None /\ ~stopping /\ ~stopped
    /\ nextId' = nextId + 1
    /\ pending' = pending \cup {nextId}
    /\ waiters' = waiters \cup {nextId}
    /\ pc' = [pc EXCEPT ![c] = "send"]
    /\ cid' = [cid EXCEPT ![c] = nextId]
    /\ UNCHANGED <<ignored, registered, fatal, stopping, stopped, waiterVars, readerVars,
                   fatalVars, sessionVars, spc, browserVars>>

(* The text is sent, or the socket fails, or SendRaw is left early with    *)
(* the command still in the tables: the request cannot be serialized, or   *)
(* the cancellation of the task is thrown.  What failed may have reached   *)
(* the browser.                                                            *)
SendText(c) ==
    /\ pc[c] = "send"
    /\ \/ /\ pc' = [pc EXCEPT ![c] = "wait"]
          /\ atBrowser' = atBrowser \cup {cid[c]}
          /\ UNCHANGED <<pending, ignored, waiters, registered, fatal, stopped, fatalVars,
                         cid>>
       \/ /\ SetFatalError(c, "transport")
          /\ pc' = [pc EXCEPT ![c] = "failing"]
          /\ atBrowser' \in {atBrowser, atBrowser \cup {cid[c]}}
          /\ UNCHANGED cid
       \/ /\ Return(c)
          /\ atBrowser' \in {atBrowser, atBrowser \cup {cid[c]}}
          /\ UNCHANGED <<pending, ignored, waiters, registered, fatal, stopped, fatalVars>>
    /\ UNCHANGED <<nextId, stopping, waiterVars, readerVars, sessionVars, spc, onWire,
                   emitted>>

SendFailed(c) ==
    /\ pc[c] = "failing" /\ FatalTold(c)
    /\ Return(c)
    /\ UNCHANGED <<sharedVars, waiterVars, readerVars, fatalVars, sessionVars, spc,
                   browserVars>>

Answered(c) ==
    /\ pc[c] = "wait" /\ cid[c] \in done
    /\ Return(c)
    /\ UNCHANGED <<sharedVars, waiterVars, readerVars, fatalVars, sessionVars, spc,
                   browserVars>>

(* The deadline passes, or the task is cancelled: WaitUntil returns false  *)
(* and the waiter is unlocked.                                             *)
WaitExpires(c) ==
    /\ pc[c] = "wait" /\ cid[c] \notin done
    /\ pc' = [pc EXCEPT ![c] = "expired"]
    /\ UNCHANGED <<sharedVars, waiterVars, cid, readerVars, fatalVars, sessionVars,
                   spc, browserVars>>

(* Mutants of GiveUp: the request is forgotten, and its waiter kept.       *)
GiveUpForgetting(c) ==
    /\ pc[c] = "expired"
    /\ pending' = pending \ {cid[c]}
    /\ waiters' = waiters \ {cid[c]}
    /\ Return(c)
    /\ UNCHANGED <<nextId, ignored, registered, fatal, stopping, stopped, waiterVars,
                   readerVars, fatalVars, sessionVars, spc, browserVars>>

GiveUpKeepingWaiter(c) ==
    /\ pc[c] = "expired" /\ cid[c] \in pending
    /\ ignored' = ignored \cup {cid[c]}
    /\ Return(c)
    /\ UNCHANGED <<nextId, pending, waiters, registered, fatal, stopping, stopped,
                   waiterVars, readerVars, fatalVars, sessionVars, spc, browserVars>>

(* A late response must find the id: it is kept, marked to be ignored.     *)
GiveUp(c) ==
    /\ pc[c] = "expired"
    /\ \/ /\ cid[c] \in pending
          /\ ignored' = ignored \cup {cid[c]}
          /\ waiters' = waiters \ {cid[c]}
          /\ Return(c)
       \/ /\ cid[c] \notin pending
          /\ pc' = [pc EXCEPT ![c] = "late"]
          /\ UNCHANGED <<ignored, waiters, cid>>
    /\ UNCHANGED <<nextId, pending, registered, fatal, stopping, stopped, waiterVars,
                   readerVars, fatalVars, sessionVars, spc, browserVars>>

(* Somebody took the waiter; it may not be completed yet.                  *)
LookAgain(c) ==
    /\ pc[c] = "late"
    /\ Return(c)
    /\ UNCHANGED <<sharedVars, waiterVars, readerVars, fatalVars, sessionVars, spc,
                   browserVars>>

-----------------------------------------------------------------------------
(* The browser, from how the client uses it                                *)

BrowserAnswers(i) ==
    /\ i \in atBrowser
    /\ atBrowser' = atBrowser \ {i}
    /\ onWire' = onWire \cup {i}
    /\ UNCHANGED <<sharedVars, waiterVars, callerVars, readerVars, fatalVars, sessionVars,
                   spc, emitted>>

BrowserBabbles(i) ==
    /\ Misbehaves
    /\ onWire' = onWire \cup {i}
    /\ UNCHANGED <<sharedVars, waiterVars, callerVars, readerVars, fatalVars, sessionVars,
                   spc, atBrowser, emitted>>

-----------------------------------------------------------------------------
(* ReaderLoop and HandleMessage                                            *)

ReaderFails(error) ==
    /\ SetFatalError("reader", error)
    /\ rpc' = "failing"

(* The response to a command that timed out.                               *)
ReceiveIgnored(i) ==
    /\ rpc = "recv" /\ i \in onWire /\ i \in ignored
    /\ onWire' = onWire \ {i}
    /\ pending' = pending \ {i} /\ ignored' = ignored \ {i} /\ waiters' = waiters \ {i}
    /\ UNCHANGED <<nextId, registered, fatal, stopping, stopped, waiterVars, callerVars,
                   readerVars, fatalVars, sessionVars, spc, atBrowser, emitted>>

(* Mutant of ReceiveAnswer: the waiter stays in the table.                 *)
ReceiveAnswerMutant(i) ==
    /\ rpc = "recv" /\ i \in onWire /\ i \in waiters \cap (pending \ ignored)
    /\ onWire' = onWire \ {i}
    /\ pending' = pending \ {i}
    /\ rpc' = "fill" /\ rid' = i
    /\ UNCHANGED <<nextId, ignored, waiters, registered, fatal, stopping, stopped, waiterVars,
                   callerVars, rsession, rcancelled, fatalVars, sessionVars, spc,
                   atBrowser, emitted>>

ReceiveAnswer(i) ==
    /\ rpc = "recv" /\ i \in onWire /\ i \in waiters \cap (pending \ ignored)
    /\ onWire' = onWire \ {i}
    /\ pending' = pending \ {i} /\ waiters' = waiters \ {i}
    /\ rpc' = "fill" /\ rid' = i
    /\ UNCHANGED <<nextId, ignored, registered, fatal, stopping, stopped, waiterVars,
                   callerVars, rsession, rcancelled, fatalVars, sessionVars, spc,
                   atBrowser, emitted>>

(* An unknown id, or one without its waiter: a protocol error, unless the  *)
(* client is closing.                                                      *)
ReceiveUnknown(i) ==
    /\ rpc = "recv" /\ i \in onWire
    /\ i \notin pending \/ i \notin waiters \cup ignored
    /\ onWire' = onWire \ {i}
    /\ \/ /\ ~stopping /\ ~stopped /\ fatal = None
          /\ ReaderFails("protocol")
       \/ /\ stopping \/ stopped \/ fatal # None
          /\ UNCHANGED <<pending, ignored, waiters, registered, fatal, stopped, fatalVars,
                         rpc>>
    /\ UNCHANGED <<nextId, stopping, waiterVars, callerVars, rid, rsession, rcancelled,
                   sessionVars, spc, atBrowser, emitted>>

(* The waiter is completed after the unlock, under its own lock.           *)
FillWaiter ==
    /\ rpc = "fill"
    /\ done' = done \cup {rid}
    /\ \E outcome \in {"result", "failed"} : reply' = [reply EXCEPT ![rid] = outcome]
    /\ rpc' = "recv" /\ rid' = None
    /\ UNCHANGED <<sharedVars, callerVars, rsession, rcancelled, fatalVars, sessionVars,
                   spc, browserVars>>

(* An event of a session that is not registered is dropped.                *)
ReceiveEvent(s) ==
    /\ rpc = "recv" /\ emitted[s] < MaxEvents
    /\ emitted' = [emitted EXCEPT ![s] = @ + 1]
    /\ IF s \in registered THEN rpc' = "push" /\ rsession' = s
                           ELSE UNCHANGED <<rpc, rsession>>
    /\ UNCHANGED <<sharedVars, waiterVars, callerVars, rid, rcancelled, fatalVars,
                   sessionVars, spc, atBrowser, onWire>>

PushEvent ==
    /\ rpc = "push"
    /\ queue' = IF serror[rsession] = None
                THEN [queue EXCEPT ![rsession] = Append(@, emitted[rsession])] ELSE queue
    /\ rpc' = "recv" /\ rsession' = None
    /\ UNCHANGED <<sharedVars, waiterVars, callerVars, rid, rcancelled, fatalVars, life,
                   serror, spc, browserVars>>

(* The socket breaks, the browser closes it, a message cannot be parsed,   *)
(* or the reader is cancelled while it waits.                              *)
ReceiveError(error) ==
    /\ rpc = "recv"
    /\ error = "closed" \/ ~rcancelled
    /\ error = "protocol" => Misbehaves
    /\ ReaderFails(error)
    /\ UNCHANGED <<nextId, stopping, waiterVars, callerVars, rid, rsession, rcancelled,
                   sessionVars, spc, browserVars>>

(* A message whose id is not an integer: the exception ends the task, and  *)
(* nobody is told.                                                         *)
ReaderThrows ==
    /\ Misbehaves
    /\ rpc = "recv"
    /\ rpc' = "dead"
    /\ UNCHANGED <<sharedVars, waiterVars, callerVars, rid, rsession, rcancelled,
                   fatalVars, sessionVars, spc, browserVars>>

ReaderEnds ==
    /\ rpc = "failing" /\ FatalTold("reader")
    /\ rpc' = "dead"
    /\ UNCHANGED <<sharedVars, waiterVars, callerVars, rid, rsession, rcancelled,
                   fatalVars, sessionVars, spc, browserVars>>

-----------------------------------------------------------------------------
(* Sessions                                                                *)

MakeSession(s) ==
    /\ life[s] = "new" /\ spc = "running"
    /\ fatal = None /\ ~stopping /\ ~stopped
    /\ registered' = registered \cup {s}
    /\ life' = [life EXCEPT ![s] = "open"]
    /\ UNCHANGED <<nextId, pending, ignored, waiters, fatal, stopping, stopped, waiterVars,
                   callerVars, readerVars, fatalVars, queue, serror, spc, browserVars>>

(* WaitForSessionEvent with an event to return: an error comes first.      *)
WaitEvent(s) ==
    /\ life[s] = "open" /\ serror[s] = None /\ queue[s] # <<>>
    /\ queue' = [queue EXCEPT ![s] = Tail(@)]
    /\ UNCHANGED <<sharedVars, waiterVars, callerVars, readerVars, fatalVars, life, serror,
                   spc, browserVars>>

(* Everything that has arrived, an error or not.                           *)
DrainSessionEvents(s) ==
    /\ life[s] = "open" /\ queue[s] # <<>>
    /\ queue' = [queue EXCEPT ![s] = <<>>]
    /\ UNCHANGED <<sharedVars, waiterVars, callerVars, readerVars, fatalVars, life, serror,
                   spc, browserVars>>

TakeEvents(s) == WaitEvent(s) \/ DrainSessionEvents(s)

(* ~CdpSession, by the capture task: out of the tables, then marked.       *)
UnregisterSession(s) ==
    /\ life[s] = "open"
    /\ life' = [life EXCEPT ![s] = "closing"]
    /\ registered' = registered \ {s}
    /\ UNCHANGED <<nextId, pending, ignored, waiters, fatal, stopping, stopped, waiterVars,
                   callerVars, readerVars, fatalVars, queue, serror, spc, browserVars>>

SessionClosed(s) ==
    /\ life[s] = "closing"
    /\ life' = [life EXCEPT ![s] = "closed"]
    /\ serror' = IF serror[s] = None THEN [serror EXCEPT ![s] = "closed"] ELSE serror
    /\ UNCHANGED <<sharedVars, waiterVars, callerVars, readerVars, fatalVars, queue, spc,
                   browserVars>>

-----------------------------------------------------------------------------
(* Stop and StopQuietly                                                    *)

CallersGone ==
    /\ \A c \in Callers : pc[c] = "idle"
    /\ \A s \in Sessions : life[s] \in {"new", "closed"}

(* Mutant of StopReaderTask: the reader is not cancelled.                  *)
StopReaderTaskMutant == spc' = "join" /\ UNCHANGED rcancelled

(* StopReaderTask: RequestCancel, then WaitNothrow.                        *)
StopReaderTask == spc' = "join" /\ rcancelled' = TRUE

Stop ==
    /\ spc = "running" /\ CallersGone
    /\ stopping' = TRUE
    /\ \/ /\ stopped \/ fatal # None
          /\ stopped' = TRUE
          /\ StopReaderTask
       \/ /\ ~stopped /\ fatal = None
          /\ spc' = "close"
          /\ UNCHANGED <<stopped, rcancelled>>
    /\ UNCHANGED <<nextId, pending, ignored, waiters, registered, fatal, waiterVars,
                   callerVars, rpc, rid, rsession, fatalVars, sessionVars, browserVars>>

CloseSocket ==
    /\ spc = "close"
    /\ \/ /\ StopReaderTask
          /\ UNCHANGED <<pending, ignored, waiters, registered, fatal, stopped, fatalVars>>
       \/ /\ SetFatalError("stop", "transport")
          /\ spc' = "failing"
          /\ UNCHANGED rcancelled
    /\ UNCHANGED <<nextId, stopping, waiterVars, callerVars, rpc, rid, rsession,
                   sessionVars, browserVars>>

CloseFailed ==
    /\ spc = "failing" /\ FatalTold("stop")
    /\ StopReaderTask
    /\ UNCHANGED <<sharedVars, waiterVars, callerVars, rpc, rid, rsession, fatalVars,
                   sessionVars, browserVars>>

(* ~CdpClient, the way a successful capture ends.                          *)
StopQuietly ==
    /\ spc = "running" /\ CallersGone
    /\ stopping' = TRUE /\ stopped' = TRUE
    /\ StopReaderTask
    /\ UNCHANGED <<nextId, pending, ignored, waiters, registered, fatal, waiterVars,
                   callerVars, rpc, rid, rsession, fatalVars, sessionVars, browserVars>>

(* The reader is joined and the connection destroyed.                      *)
Joined ==
    /\ spc = "join" /\ rpc = "dead"
    /\ spc' = "stopped"
    /\ UNCHANGED <<sharedVars, waiterVars, callerVars, readerVars, fatalVars, sessionVars,
                   browserVars>>

-----------------------------------------------------------------------------
FatalSteps == (\E i \in Ids : FailWaiter(i)) \/ (\E s \in Sessions : FailSession(s))

Reader ==
    \/ \E i \in Ids : ReceiveIgnored(i) \/ ReceiveAnswer(i) \/ ReceiveUnknown(i)
    \/ \E s \in Sessions : ReceiveEvent(s)
    \/ \E error \in Fatals : ReceiveError(error)
    \/ FillWaiter \/ PushEvent \/ ReaderEnds \/ ReaderThrows

Caller(c) ==
    \/ SendText(c) \/ SendFailed(c) \/ Answered(c) \/ GiveUp(c) \/ LookAgain(c)

Stopping == CloseSocket \/ CloseFailed \/ Joined

Next ==
    \/ \E c \in Callers : Issue(c) \/ Caller(c) \/ WaitExpires(c)
    \/ \E i \in Ids : BrowserAnswers(i) \/ BrowserBabbles(i)
    \/ FatalSteps
    \/ Reader
    \/ \E s \in Sessions : MakeSession(s) \/ TakeEvents(s) \/ UnregisterSession(s)
                           \/ SessionClosed(s)
    \/ Stop \/ StopQuietly \/ Stopping

Spec == Init /\ [][Next]_vars

(* The engine schedules every task; commands, deadlines and the browser    *)
(* owe nothing, but a cancelled Recv returns.                              *)
FairSpec ==
    /\ Spec
    /\ \A c \in Callers : WF_vars(Caller(c))
    /\ WF_vars(FatalSteps)
    /\ WF_vars(FillWaiter \/ PushEvent \/ ReaderEnds)
    /\ WF_vars(rcancelled /\ ReceiveError("closed"))
    /\ WF_vars(Stopping)

-----------------------------------------------------------------------------
(* Properties                                                              *)

(* A response that comes after its command timed out, after a failed send, *)
(* or while the client is being stopped never ends the connection: only a  *)
(* browser that answers what was not asked is a protocol error.            *)
ProtocolErrorIsReal == fatal = "protocol" => Misbehaves

(* When SetFatalError is over nobody is left waiting: every command under  *)
(* way is completed, or the reader has its response in hand, and every     *)
(* session has its error.                                                  *)
NobodyStranded ==
    (fatal # None /\ todo = {} /\ todoSessions = {}) =>
        /\ \A c \in Callers : pc[c] \in {"send", "wait"} =>
              cid[c] \in done \/ (rpc = "fill" /\ rid = cid[c])
        /\ \A s \in Sessions : life[s] = "open" => serror[s] # None

(* A waiter is completed once: response and fatal error never both reach   *)
(* it, in either order.                                                    *)
CompletedOnce ==
    [][\A i \in done : i \in done' /\ reply'[i] = reply[i]]_vars

(* The table of pending requests does not grow by commands that timed out: *)
(* an entry marked to be ignored is one whose answer the browser still     *)
(* owes, and the answer removes it.                                        *)
IgnoredIsOwed == \A i \in ignored : i \in atBrowser \cup onWire /\ i \notin waiters

(* Once the connection has failed every command ends without its timeout.  *)
FatalEndsCommands ==
    \A c \in Callers : (fatal # None /\ pc[c] = "wait") ~> (pc[c] = "idle")

(* Stopping ends: the reader always gets to its end and can be joined.     *)
StopEnds == (spc = "close" \/ spc = "join") ~> (spc = "stopped")
=============================================================================
