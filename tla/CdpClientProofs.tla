-------------------------- MODULE CdpClientProofs ---------------------------
(***************************************************************************)
(* Theorems about CdpClient, for every number of callers, sessions, ids    *)
(* and events, and for a browser that misbehaves as well as for one that   *)
(* does not.                                                               *)
(***************************************************************************)
EXTENDS CdpClient, TLAPS

-----------------------------------------------------------------------------
(***************************************************************************)
(* The inductive invariant, in parts: where the id of a command, the       *)
(* waiter of a call and a session can be.                                  *)
(***************************************************************************)

Issued == 1..(nextId - 1)
Active(c) == pc[c] \in {"send", "wait", "expired"}
InHand(i) == rpc = "fill" /\ rid = i
Closing == fatal # None \/ stopping \/ stopped

(* What the reader and the callers have in hand.                           *)
HandsInv ==
    /\ rpc = "fill" => rid \in Issued
    /\ rpc = "push" => rsession \in Sessions /\ emitted[rsession] > 0
    /\ \A c \in Callers : pc[c] # "idle" => cid[c] \in Issued
    /\ \A c, d \in Callers :
          (c # d /\ pc[c] # "idle" /\ pc[d] # "idle") => cid[c] # cid[d]
    /\ pending \cup waiters \cup todo \cup done \cup atBrowser \subseteq Issued

(* A waiter is in one place: in the table, owed the fatal error, in the    *)
(* reader's hand, or completed.                                            *)
OnePlace ==
    /\ waiters \subseteq pending
    /\ waiters \cap done = {} /\ waiters \cap todo = {} /\ todo \cap done = {}
    /\ rpc = "fill" => rid \notin pending \cup waiters \cup todo \cup done

(* A failed connection has empty tables, and only it has somebody to tell. *)
FatalInv ==
    /\ fatal # None => pending = {} /\ waiters = {} /\ ignored = {} /\ registered = {}
    /\ todo # {} \/ todoSessions # {} => fatal # None

(* The waiter of a call and an open session are somewhere.                 *)
Somewhere ==
    /\ \A c \in Callers : Active(c) => cid[c] \in waiters \cup todo \cup done \/ InHand(cid[c])
    /\ \A s \in Sessions :
          life[s] = "open" => s \in registered \cup todoSessions \/ serror[s] # None

(* What was sent and is pending is owed an answer, and its waiter is kept  *)
(* as long as its caller waits.                                            *)
OwedInv ==
    /\ \A c \in Callers : Active(c) /\ cid[c] \in pending =>
          /\ cid[c] \in waiters
          /\ pc[c] # "send" => cid[c] \in atBrowser \cup onWire
    /\ IgnoredIsOwed

(* A browser that only answers what it was asked, and once, never sends an *)
(* id the tables do not know.                                              *)
HonestInv ==
    ~Misbehaves =>
        /\ onWire \subseteq Issued /\ atBrowser \cap onWire = {}
        /\ \A i \in atBrowser \cup onWire : i \in waiters \cup ignored \/ Closing
        /\ \A c \in Callers : pc[c] = "send" =>
              /\ cid[c] \notin atBrowser \cup onWire
              /\ cid[c] \in waiters \/ Closing

CdpInv ==
    /\ TypeOK /\ HandsInv /\ OnePlace /\ FatalInv /\ Somewhere /\ OwedInv /\ HonestInv
    /\ ProtocolErrorIsReal

-----------------------------------------------------------------------------
(***************************************************************************)
(* The invariant is inductive, part by part.                               *)
(***************************************************************************)

(* What the locked part of SetFatalError assigns has its type.             *)
LEMMA FatalTypes ==
    ASSUME TypeOK, NEW who \in Callers \cup {"reader", "stop"}, NEW error \in Fatals,
           SetFatalError(who, error)
    PROVE  /\ pending' \subseteq Ids /\ ignored' \subseteq pending' /\ waiters' \subseteq Ids
           /\ registered' \subseteq Sessions /\ fatal' \in Fatals \cup {None}
           /\ stopped' \in BOOLEAN /\ failer' \in Callers \cup {"reader", "stop", None}
           /\ todo' \subseteq Ids /\ todoSessions' \subseteq Sessions
<1>1. CASE fatal # None
  BY <1>1 DEF SetFatalError, TypeOK, fatalVars
<1>2. CASE fatal = None
  BY <1>2 DEF SetFatalError, TypeOK
<1> QED
  BY <1>1, <1>2

(* Every step keeps the types.                                             *)
LEMMA TypeCdpStep == TypeOK /\ HandsInv /\ [Next]_vars => TypeOK'
<1> SUFFICES ASSUME TypeOK, HandsInv, [Next]_vars PROVE TypeOK'
  OBVIOUS
<1> USE CdpAssumption DEF TypeOK, Ids, Fatals, Outcomes, HandsInv, Issued, sharedVars,
            waiterVars, callerVars, readerVars, fatalVars, sessionVars, browserVars
<1>1. ASSUME NEW c \in Callers, Issue(c) PROVE TypeOK'
  BY <1>1 DEF Issue
<1>2. ASSUME NEW c \in Callers, SendText(c) PROVE TypeOK'
  <2>1. /\ pending' \subseteq Ids /\ ignored' \subseteq pending' /\ waiters' \subseteq Ids
        /\ registered' \subseteq Sessions /\ fatal' \in Fatals \cup {None}
        /\ stopped' \in BOOLEAN /\ failer' \in Callers \cup {"reader", "stop", None}
        /\ todo' \subseteq Ids /\ todoSessions' \subseteq Sessions
    <3>1. CASE SetFatalError(c, "transport")
      BY <3>1, FatalTypes
    <3>2. CASE UNCHANGED <<pending, ignored, waiters, registered, fatal, stopped, fatalVars>>
      BY <3>2
    <3> QED
      BY <1>2, <3>1, <3>2 DEF SendText
  <2>2. cid[c] \in Ids
    BY <1>2 DEF SendText
  <2>3. atBrowser' \subseteq Ids
    BY <1>2, <2>2 DEF SendText
  <2>4. pc' \in [Callers -> {"idle", "send", "failing", "wait", "expired", "late"}]
    BY <1>2 DEF SendText, Return
  <2> QED
    BY <1>2, <2>1, <2>3, <2>4 DEF SendText, Return
<1>3. ASSUME NEW c \in Callers, SendFailed(c) PROVE TypeOK'
  BY <1>3 DEF SendFailed, Return
<1>4. ASSUME NEW c \in Callers, Answered(c) PROVE TypeOK'
  BY <1>4 DEF Answered, Return
<1>5. ASSUME NEW c \in Callers, WaitExpires(c) PROVE TypeOK'
  BY <1>5 DEF WaitExpires
<1>6. ASSUME NEW c \in Callers, LookAgain(c) PROVE TypeOK'
  BY <1>6 DEF LookAgain, Return
<1>7. ASSUME NEW c \in Callers, GiveUp(c) PROVE TypeOK'
  <2>1. pending' = pending /\ ignored' \subseteq pending' /\ waiters' \subseteq Ids
    BY <1>7 DEF GiveUp, Return
  <2>2. pc' \in [Callers -> {"idle", "send", "failing", "wait", "expired", "late"}]
    BY <1>7 DEF GiveUp, Return
  <2> QED
    BY <1>7, <2>1, <2>2 DEF GiveUp, Return
<1>8. ASSUME NEW i \in Ids, BrowserAnswers(i) PROVE TypeOK'
  BY <1>8 DEF BrowserAnswers
<1>9. ASSUME NEW i \in Ids, BrowserBabbles(i) PROVE TypeOK'
  BY <1>9 DEF BrowserBabbles
<1>10. ASSUME NEW i \in Ids, ReceiveIgnored(i) PROVE TypeOK'
  <2>1. pending' \subseteq Ids /\ ignored' \subseteq pending' /\ waiters' \subseteq Ids
    BY <1>10 DEF ReceiveIgnored
  <2>2. onWire' \subseteq Ids
    BY <1>10 DEF ReceiveIgnored
  <2> QED
    BY <1>10, <2>1, <2>2 DEF ReceiveIgnored
<1>11. ASSUME NEW i \in Ids, ReceiveAnswer(i) PROVE TypeOK'
  BY <1>11 DEF ReceiveAnswer
<1>12. ASSUME NEW i \in Ids, ReceiveUnknown(i) PROVE TypeOK'
  <2>1. onWire' \subseteq Ids /\ rpc' \in {"recv", "fill", "push", "failing", "dead"}
    BY <1>12 DEF ReceiveUnknown, ReaderFails
  <2>2. CASE SetFatalError("reader", "protocol")
    BY <1>12, <2>1, <2>2, FatalTypes DEF ReceiveUnknown
  <2>3. CASE UNCHANGED <<pending, ignored, waiters, registered, fatal, stopped, fatalVars>>
    BY <1>12, <2>1, <2>3 DEF ReceiveUnknown
  <2> QED
    BY <1>12, <2>2, <2>3 DEF ReceiveUnknown, ReaderFails
<1>13. CASE FillWaiter
  BY <1>13 DEF FillWaiter
<1>14. ASSUME NEW s \in Sessions, ReceiveEvent(s) PROVE TypeOK'
  BY <1>14 DEF ReceiveEvent
<1>15. CASE PushEvent
  <2>1. rsession \in Sessions /\ emitted[rsession] \in 1..MaxEvents
    BY <1>15 DEF PushEvent
  <2>2. queue' \in [Sessions -> Seq(1..MaxEvents)]
    BY <1>15, <2>1 DEF PushEvent
  <2> QED
    BY <1>15, <2>2 DEF PushEvent
<1>16. ASSUME NEW error \in Fatals, ReceiveError(error) PROVE TypeOK'
  BY <1>16, FatalTypes DEF ReceiveError, ReaderFails
<1>17. CASE ReaderThrows
  BY <1>17 DEF ReaderThrows
<1>18. CASE ReaderEnds
  BY <1>18 DEF ReaderEnds
<1>19. ASSUME NEW s \in Sessions, MakeSession(s) PROVE TypeOK'
  BY <1>19 DEF MakeSession
<1>20. ASSUME NEW s \in Sessions, TakeEvents(s) PROVE TypeOK'
  <2>1. CASE WaitEvent(s)
    <3>1. queue' \in [Sessions -> Seq(1..MaxEvents)]
      BY <2>1 DEF WaitEvent
    <3> QED
      BY <2>1, <3>1 DEF WaitEvent
  <2>2. CASE DrainSessionEvents(s)
    <3>1. queue' \in [Sessions -> Seq(1..MaxEvents)]
      <4>1. <<>> \in Seq(1..MaxEvents)
        OBVIOUS
      <4> QED
        BY <2>2, <4>1 DEF DrainSessionEvents
    <3> QED
      BY <2>2, <3>1 DEF DrainSessionEvents
  <2> QED
    BY <1>20, <2>1, <2>2 DEF TakeEvents
<1>21. ASSUME NEW s \in Sessions, UnregisterSession(s) PROVE TypeOK'
  BY <1>21 DEF UnregisterSession
<1>22. ASSUME NEW s \in Sessions, SessionClosed(s) PROVE TypeOK'
  BY <1>22 DEF SessionClosed
<1>23. CASE Stop
  BY <1>23 DEF Stop, StopReaderTask
<1>24. CASE CloseFailed
  BY <1>24 DEF CloseFailed, StopReaderTask
<1>25. CASE StopQuietly
  BY <1>25 DEF StopQuietly, StopReaderTask
<1>26. CASE Joined
  BY <1>26 DEF Joined
<1>27. CASE CloseSocket
  <2>1. rcancelled' \in BOOLEAN /\ spc' \in {"running", "close", "failing", "join", "stopped"}
    BY <1>27 DEF CloseSocket, StopReaderTask
  <2>2. CASE SetFatalError("stop", "transport")
    BY <1>27, <2>1, <2>2, FatalTypes DEF CloseSocket
  <2>3. CASE UNCHANGED <<pending, ignored, waiters, registered, fatal, stopped, fatalVars>>
    BY <1>27, <2>1, <2>3 DEF CloseSocket
  <2> QED
    BY <1>27, <2>2, <2>3 DEF CloseSocket
<1>28. ASSUME NEW i \in Ids, FailWaiter(i) PROVE TypeOK'
  BY <1>28 DEF FailWaiter
<1>29. ASSUME NEW s \in Sessions, FailSession(s) PROVE TypeOK'
  BY <1>29 DEF FailSession
<1>30. CASE UNCHANGED vars
  BY <1>30 DEF vars
<1> QED
  BY <1>1, <1>2, <1>3, <1>4, <1>5, <1>6, <1>7, <1>8, <1>9, <1>10, <1>11, <1>12, <1>13,
     <1>14, <1>15, <1>16, <1>17, <1>18, <1>19, <1>20, <1>21, <1>22, <1>23, <1>24, <1>25,
     <1>26, <1>27, <1>28, <1>29, <1>30 DEF Next, Caller, Reader, FatalSteps, Stopping

(* Every step keeps what the tasks have in hand.                           *)
LEMMA HandsStep == TypeOK /\ HandsInv /\ OnePlace /\ [Next]_vars => HandsInv'
<1> SUFFICES ASSUME TypeOK, HandsInv, OnePlace, [Next]_vars PROVE HandsInv'
  OBVIOUS
<1> USE CdpAssumption DEF HandsInv, Issued, TypeOK, Ids, OnePlace, sharedVars,
            waiterVars, callerVars, readerVars, fatalVars, sessionVars, browserVars
<1>1. ASSUME NEW c \in Callers, Issue(c) PROVE HandsInv'
  <2>1. Issued' = Issued \cup {nextId} /\ nextId \notin Issued
    BY <1>1 DEF Issue
  <2>2. pending' \cup waiters' \cup todo' \cup done' \cup atBrowser' \subseteq Issued'
    BY <1>1, <2>1 DEF Issue
  <2>3. \A d \in Callers : cid'[d] = (IF d = c THEN nextId ELSE cid[d])
                          /\ (d # c => pc'[d] = pc[d])
    BY <1>1 DEF Issue
  <2>4. \A d \in Callers : pc'[d] # "idle" => cid'[d] \in Issued'
    BY <2>1, <2>3
  <2>5. ASSUME NEW d \in Callers, NEW e \in Callers, d # e, pc'[d] # "idle", pc'[e] # "idle"
        PROVE  cid'[d] # cid'[e]
    BY <2>1, <2>3, <2>5
  <2> QED
    BY <1>1, <2>1, <2>2, <2>4, <2>5 DEF Issue
<1>2. ASSUME NEW c \in Callers, SendText(c) PROVE HandsInv'
  <2>1. /\ pending' \cup waiters' \cup todo' \subseteq Issued
        /\ atBrowser' \subseteq Issued /\ Issued' = Issued
    BY <1>2 DEF SendText, SetFatalError, Return
  <2>2. \A d \in Callers : cid'[d] = cid[d] /\ (pc'[d] # "idle" => pc[d] # "idle")
    BY <1>2 DEF SendText, Return
  <2> QED
    BY <1>2, <2>1, <2>2 DEF SendText
<1>3. ASSUME NEW c \in Callers, SendFailed(c) PROVE HandsInv'
  BY <1>3 DEF SendFailed, Return
<1>4. ASSUME NEW c \in Callers, Answered(c) PROVE HandsInv'
  BY <1>4 DEF Answered, Return
<1>5. ASSUME NEW c \in Callers, WaitExpires(c) PROVE HandsInv'
  BY <1>5 DEF WaitExpires
<1>6. ASSUME NEW c \in Callers, LookAgain(c) PROVE HandsInv'
  BY <1>6 DEF LookAgain, Return
<1>7. ASSUME NEW c \in Callers, GiveUp(c) PROVE HandsInv'
  BY <1>7 DEF GiveUp, Return
<1>8. ASSUME NEW i \in Ids, BrowserAnswers(i) PROVE HandsInv'
  BY <1>8 DEF BrowserAnswers
<1>9. ASSUME NEW i \in Ids, BrowserBabbles(i) PROVE HandsInv'
  BY <1>9 DEF BrowserBabbles
<1>10. ASSUME NEW i \in Ids, ReceiveIgnored(i) PROVE HandsInv'
  BY <1>10 DEF ReceiveIgnored
<1>11. ASSUME NEW i \in Ids, ReceiveAnswer(i) PROVE HandsInv'
  BY <1>11 DEF ReceiveAnswer
<1>12. ASSUME NEW i \in Ids, ReceiveUnknown(i) PROVE HandsInv'
  BY <1>12 DEF ReceiveUnknown, ReaderFails, SetFatalError
<1>13. CASE FillWaiter
  BY <1>13 DEF FillWaiter
<1>14. ASSUME NEW s \in Sessions, ReceiveEvent(s) PROVE HandsInv'
  BY <1>14 DEF ReceiveEvent
<1>15. CASE PushEvent
  BY <1>15 DEF PushEvent
<1>16. ASSUME NEW error \in Fatals, ReceiveError(error) PROVE HandsInv'
  BY <1>16 DEF ReceiveError, ReaderFails, SetFatalError
<1>17. CASE ReaderThrows
  BY <1>17 DEF ReaderThrows
<1>18. CASE ReaderEnds
  BY <1>18 DEF ReaderEnds
<1>19. ASSUME NEW s \in Sessions, MakeSession(s) PROVE HandsInv'
  BY <1>19 DEF MakeSession
<1>20. ASSUME NEW s \in Sessions, TakeEvents(s) PROVE HandsInv'
  BY <1>20 DEF TakeEvents, WaitEvent, DrainSessionEvents
<1>21. ASSUME NEW s \in Sessions, UnregisterSession(s) PROVE HandsInv'
  BY <1>21 DEF UnregisterSession
<1>22. ASSUME NEW s \in Sessions, SessionClosed(s) PROVE HandsInv'
  BY <1>22 DEF SessionClosed
<1>23. CASE Stop
  BY <1>23 DEF Stop, StopReaderTask
<1>24. CASE CloseFailed
  BY <1>24 DEF CloseFailed, StopReaderTask
<1>25. CASE StopQuietly
  BY <1>25 DEF StopQuietly, StopReaderTask
<1>26. CASE Joined
  BY <1>26 DEF Joined
<1>27. CASE CloseSocket
  BY <1>27 DEF CloseSocket, StopReaderTask, SetFatalError
<1>28. ASSUME NEW i \in Ids, FailWaiter(i) PROVE HandsInv'
  <2>1. todo' \cup done' \subseteq Issued /\ Issued' = Issued
    BY <1>28 DEF FailWaiter
  <2> QED
    BY <1>28, <2>1 DEF FailWaiter
<1>29. ASSUME NEW s \in Sessions, FailSession(s) PROVE HandsInv'
  BY <1>29 DEF FailSession
<1>30. CASE UNCHANGED vars
  BY <1>30 DEF vars
<1> QED
  BY <1>1, <1>2, <1>3, <1>4, <1>5, <1>6, <1>7, <1>8, <1>9, <1>10, <1>11, <1>12, <1>13,
     <1>14, <1>15, <1>16, <1>17, <1>18, <1>19, <1>20, <1>21, <1>22, <1>23, <1>24, <1>25,
     <1>26, <1>27, <1>28, <1>29, <1>30 DEF Next, Caller, Reader, FatalSteps, Stopping

(* No step puts a waiter in a second place.                                *)
LEMMA OnePlaceStep == TypeOK /\ HandsInv /\ OnePlace /\ FatalInv /\ [Next]_vars => OnePlace'
<1> SUFFICES ASSUME TypeOK, HandsInv, OnePlace, FatalInv, [Next]_vars PROVE OnePlace'
  OBVIOUS
<1> USE CdpAssumption DEF OnePlace, HandsInv, Issued, FatalInv, TypeOK, Ids, sharedVars,
            waiterVars, callerVars, readerVars, fatalVars, sessionVars, browserVars
<1>1. ASSUME NEW c \in Callers, Issue(c) PROVE OnePlace'
  <2>1. nextId \notin pending \cup waiters \cup done \cup todo
    OBVIOUS
  <2>2. rpc = "fill" => rid # nextId
    OBVIOUS
  <2>3. waiters' \subseteq pending'
    BY <1>1 DEF Issue
  <2>4. waiters' \cap done' = {} /\ waiters' \cap todo' = {} /\ todo' \cap done' = {}
    BY <1>1, <2>1 DEF Issue
  <2>5. rpc' = "fill" => rid' \notin pending' \cup waiters' \cup todo' \cup done'
    BY <1>1, <2>2 DEF Issue
  <2> QED
    BY <2>3, <2>4, <2>5
<1>2. ASSUME NEW c \in Callers, SendText(c) PROVE OnePlace'
  BY <1>2 DEF SendText, SetFatalError, Return
<1>3. ASSUME NEW c \in Callers, SendFailed(c) PROVE OnePlace'
  BY <1>3 DEF SendFailed, Return
<1>4. ASSUME NEW c \in Callers, Answered(c) PROVE OnePlace'
  BY <1>4 DEF Answered, Return
<1>5. ASSUME NEW c \in Callers, WaitExpires(c) PROVE OnePlace'
  BY <1>5 DEF WaitExpires
<1>6. ASSUME NEW c \in Callers, LookAgain(c) PROVE OnePlace'
  BY <1>6 DEF LookAgain, Return
<1>7. ASSUME NEW c \in Callers, GiveUp(c) PROVE OnePlace'
  BY <1>7 DEF GiveUp, Return
<1>8. ASSUME NEW i \in Ids, BrowserAnswers(i) PROVE OnePlace'
  BY <1>8 DEF BrowserAnswers
<1>9. ASSUME NEW i \in Ids, BrowserBabbles(i) PROVE OnePlace'
  BY <1>9 DEF BrowserBabbles
<1>10. ASSUME NEW i \in Ids, ReceiveIgnored(i) PROVE OnePlace'
  BY <1>10 DEF ReceiveIgnored
<1>11. ASSUME NEW i \in Ids, ReceiveAnswer(i) PROVE OnePlace'
  BY <1>11 DEF ReceiveAnswer
<1>12. ASSUME NEW i \in Ids, ReceiveUnknown(i) PROVE OnePlace'
  BY <1>12 DEF ReceiveUnknown, ReaderFails, SetFatalError
<1>13. CASE FillWaiter
  BY <1>13 DEF FillWaiter
<1>14. ASSUME NEW s \in Sessions, ReceiveEvent(s) PROVE OnePlace'
  BY <1>14 DEF ReceiveEvent
<1>15. CASE PushEvent
  BY <1>15 DEF PushEvent
<1>16. ASSUME NEW error \in Fatals, ReceiveError(error) PROVE OnePlace'
  BY <1>16 DEF ReceiveError, ReaderFails, SetFatalError
<1>17. CASE ReaderThrows
  BY <1>17 DEF ReaderThrows
<1>18. CASE ReaderEnds
  BY <1>18 DEF ReaderEnds
<1>19. ASSUME NEW s \in Sessions, MakeSession(s) PROVE OnePlace'
  BY <1>19 DEF MakeSession
<1>20. ASSUME NEW s \in Sessions, TakeEvents(s) PROVE OnePlace'
  BY <1>20 DEF TakeEvents, WaitEvent, DrainSessionEvents
<1>21. ASSUME NEW s \in Sessions, UnregisterSession(s) PROVE OnePlace'
  BY <1>21 DEF UnregisterSession
<1>22. ASSUME NEW s \in Sessions, SessionClosed(s) PROVE OnePlace'
  BY <1>22 DEF SessionClosed
<1>23. CASE Stop
  BY <1>23 DEF Stop, StopReaderTask
<1>24. CASE CloseFailed
  BY <1>24 DEF CloseFailed, StopReaderTask
<1>25. CASE StopQuietly
  BY <1>25 DEF StopQuietly, StopReaderTask
<1>26. CASE Joined
  BY <1>26 DEF Joined
<1>27. CASE CloseSocket
  BY <1>27 DEF CloseSocket, StopReaderTask, SetFatalError
<1>28. ASSUME NEW i \in Ids, FailWaiter(i) PROVE OnePlace'
  BY <1>28 DEF FailWaiter
<1>29. ASSUME NEW s \in Sessions, FailSession(s) PROVE OnePlace'
  BY <1>29 DEF FailSession
<1>30. CASE UNCHANGED vars
  BY <1>30 DEF vars
<1> QED
  BY <1>1, <1>2, <1>3, <1>4, <1>5, <1>6, <1>7, <1>8, <1>9, <1>10, <1>11, <1>12, <1>13,
     <1>14, <1>15, <1>16, <1>17, <1>18, <1>19, <1>20, <1>21, <1>22, <1>23, <1>24, <1>25,
     <1>26, <1>27, <1>28, <1>29, <1>30 DEF Next, Caller, Reader, FatalSteps, Stopping

(* The tables of a failed connection stay empty.                           *)
LEMMA FatalStep == TypeOK /\ FatalInv /\ [Next]_vars => FatalInv'
<1> SUFFICES ASSUME TypeOK, FatalInv, [Next]_vars PROVE FatalInv'
  OBVIOUS
<1> USE CdpAssumption DEF FatalInv, TypeOK, Fatals, Ids, sharedVars, waiterVars,
            callerVars, readerVars, fatalVars, sessionVars, browserVars
<1>1. ASSUME NEW c \in Callers, Issue(c) PROVE FatalInv'
  BY <1>1 DEF Issue
<1>2. ASSUME NEW c \in Callers, SendText(c) PROVE FatalInv'
  BY <1>2 DEF SendText, SetFatalError, Return
<1>3. ASSUME NEW c \in Callers, SendFailed(c) PROVE FatalInv'
  BY <1>3 DEF SendFailed, Return
<1>4. ASSUME NEW c \in Callers, Answered(c) PROVE FatalInv'
  BY <1>4 DEF Answered, Return
<1>5. ASSUME NEW c \in Callers, WaitExpires(c) PROVE FatalInv'
  BY <1>5 DEF WaitExpires
<1>6. ASSUME NEW c \in Callers, LookAgain(c) PROVE FatalInv'
  BY <1>6 DEF LookAgain, Return
<1>7. ASSUME NEW c \in Callers, GiveUp(c) PROVE FatalInv'
  BY <1>7 DEF GiveUp, Return
<1>8. ASSUME NEW i \in Ids, BrowserAnswers(i) PROVE FatalInv'
  BY <1>8 DEF BrowserAnswers
<1>9. ASSUME NEW i \in Ids, BrowserBabbles(i) PROVE FatalInv'
  BY <1>9 DEF BrowserBabbles
<1>10. ASSUME NEW i \in Ids, ReceiveIgnored(i) PROVE FatalInv'
  BY <1>10 DEF ReceiveIgnored
<1>11. ASSUME NEW i \in Ids, ReceiveAnswer(i) PROVE FatalInv'
  BY <1>11 DEF ReceiveAnswer
<1>12. ASSUME NEW i \in Ids, ReceiveUnknown(i) PROVE FatalInv'
  BY <1>12 DEF ReceiveUnknown, ReaderFails, SetFatalError
<1>13. CASE FillWaiter
  BY <1>13 DEF FillWaiter
<1>14. ASSUME NEW s \in Sessions, ReceiveEvent(s) PROVE FatalInv'
  BY <1>14 DEF ReceiveEvent
<1>15. CASE PushEvent
  BY <1>15 DEF PushEvent
<1>16. ASSUME NEW error \in Fatals, ReceiveError(error) PROVE FatalInv'
  BY <1>16 DEF ReceiveError, ReaderFails, SetFatalError
<1>17. CASE ReaderThrows
  BY <1>17 DEF ReaderThrows
<1>18. CASE ReaderEnds
  BY <1>18 DEF ReaderEnds
<1>19. ASSUME NEW s \in Sessions, MakeSession(s) PROVE FatalInv'
  BY <1>19 DEF MakeSession
<1>20. ASSUME NEW s \in Sessions, TakeEvents(s) PROVE FatalInv'
  BY <1>20 DEF TakeEvents, WaitEvent, DrainSessionEvents
<1>21. ASSUME NEW s \in Sessions, UnregisterSession(s) PROVE FatalInv'
  BY <1>21 DEF UnregisterSession
<1>22. ASSUME NEW s \in Sessions, SessionClosed(s) PROVE FatalInv'
  BY <1>22 DEF SessionClosed
<1>23. CASE Stop
  BY <1>23 DEF Stop, StopReaderTask
<1>24. CASE CloseFailed
  BY <1>24 DEF CloseFailed, StopReaderTask
<1>25. CASE StopQuietly
  BY <1>25 DEF StopQuietly, StopReaderTask
<1>26. CASE Joined
  BY <1>26 DEF Joined
<1>27. CASE CloseSocket
  BY <1>27 DEF CloseSocket, StopReaderTask, SetFatalError
<1>28. ASSUME NEW i \in Ids, FailWaiter(i) PROVE FatalInv'
  BY <1>28 DEF FailWaiter
<1>29. ASSUME NEW s \in Sessions, FailSession(s) PROVE FatalInv'
  BY <1>29 DEF FailSession
<1>30. CASE UNCHANGED vars
  BY <1>30 DEF vars
<1> QED
  BY <1>1, <1>2, <1>3, <1>4, <1>5, <1>6, <1>7, <1>8, <1>9, <1>10, <1>11, <1>12, <1>13,
     <1>14, <1>15, <1>16, <1>17, <1>18, <1>19, <1>20, <1>21, <1>22, <1>23, <1>24, <1>25,
     <1>26, <1>27, <1>28, <1>29, <1>30 DEF Next, Caller, Reader, FatalSteps, Stopping

(* No step loses a waiter or a session.                                    *)
LEMMA SomewhereStep == CdpInv /\ [Next]_vars => Somewhere'
<1> SUFFICES ASSUME CdpInv, [Next]_vars PROVE Somewhere'
  OBVIOUS
<1> USE CdpAssumption DEF CdpInv, Somewhere, Active, InHand, FatalInv, OnePlace,
            HandsInv, TypeOK, Fatals, Ids, Issued, OwedInv, IgnoredIsOwed, sharedVars,
            waiterVars, callerVars, readerVars, fatalVars, sessionVars, browserVars
<1>1. ASSUME NEW c \in Callers, Issue(c) PROVE Somewhere'
  BY <1>1 DEF Issue
<1>2. ASSUME NEW c \in Callers, SendText(c) PROVE Somewhere'
  BY <1>2 DEF SendText, SetFatalError, Return
<1>3. ASSUME NEW c \in Callers, SendFailed(c) PROVE Somewhere'
  BY <1>3 DEF SendFailed, Return
<1>4. ASSUME NEW c \in Callers, Answered(c) PROVE Somewhere'
  BY <1>4 DEF Answered, Return
<1>5. ASSUME NEW c \in Callers, WaitExpires(c) PROVE Somewhere'
  BY <1>5 DEF WaitExpires
<1>6. ASSUME NEW c \in Callers, LookAgain(c) PROVE Somewhere'
  BY <1>6 DEF LookAgain, Return
<1>7. ASSUME NEW c \in Callers, GiveUp(c) PROVE Somewhere'
  BY <1>7 DEF GiveUp, Return
<1>8. ASSUME NEW i \in Ids, BrowserAnswers(i) PROVE Somewhere'
  BY <1>8 DEF BrowserAnswers
<1>9. ASSUME NEW i \in Ids, BrowserBabbles(i) PROVE Somewhere'
  BY <1>9 DEF BrowserBabbles
<1>10. ASSUME NEW i \in Ids, ReceiveIgnored(i) PROVE Somewhere'
  BY <1>10 DEF ReceiveIgnored
<1>11. ASSUME NEW i \in Ids, ReceiveAnswer(i) PROVE Somewhere'
  BY <1>11 DEF ReceiveAnswer
<1>12. ASSUME NEW i \in Ids, ReceiveUnknown(i) PROVE Somewhere'
  BY <1>12 DEF ReceiveUnknown, ReaderFails, SetFatalError
<1>13. CASE FillWaiter
  BY <1>13 DEF FillWaiter
<1>14. ASSUME NEW s \in Sessions, ReceiveEvent(s) PROVE Somewhere'
  BY <1>14 DEF ReceiveEvent
<1>15. CASE PushEvent
  BY <1>15 DEF PushEvent
<1>16. ASSUME NEW error \in Fatals, ReceiveError(error) PROVE Somewhere'
  BY <1>16 DEF ReceiveError, ReaderFails, SetFatalError
<1>17. CASE ReaderThrows
  BY <1>17 DEF ReaderThrows
<1>18. CASE ReaderEnds
  BY <1>18 DEF ReaderEnds
<1>19. ASSUME NEW s \in Sessions, MakeSession(s) PROVE Somewhere'
  BY <1>19 DEF MakeSession
<1>20. ASSUME NEW s \in Sessions, TakeEvents(s) PROVE Somewhere'
  BY <1>20 DEF TakeEvents, WaitEvent, DrainSessionEvents
<1>21. ASSUME NEW s \in Sessions, UnregisterSession(s) PROVE Somewhere'
  BY <1>21 DEF UnregisterSession
<1>22. ASSUME NEW s \in Sessions, SessionClosed(s) PROVE Somewhere'
  BY <1>22 DEF SessionClosed
<1>23. CASE Stop
  BY <1>23 DEF Stop, StopReaderTask
<1>24. CASE CloseFailed
  BY <1>24 DEF CloseFailed, StopReaderTask
<1>25. CASE StopQuietly
  BY <1>25 DEF StopQuietly, StopReaderTask
<1>26. CASE Joined
  BY <1>26 DEF Joined
<1>27. CASE CloseSocket
  BY <1>27 DEF CloseSocket, StopReaderTask, SetFatalError
<1>28. ASSUME NEW i \in Ids, FailWaiter(i) PROVE Somewhere'
  BY <1>28 DEF FailWaiter
<1>29. ASSUME NEW s \in Sessions, FailSession(s) PROVE Somewhere'
  BY <1>29 DEF FailSession
<1>30. CASE UNCHANGED vars
  BY <1>30 DEF vars
<1> QED
  BY <1>1, <1>2, <1>3, <1>4, <1>5, <1>6, <1>7, <1>8, <1>9, <1>10, <1>11, <1>12, <1>13,
     <1>14, <1>15, <1>16, <1>17, <1>18, <1>19, <1>20, <1>21, <1>22, <1>23, <1>24, <1>25,
     <1>26, <1>27, <1>28, <1>29, <1>30 DEF Next, Caller, Reader, FatalSteps, Stopping

(* What is pending stays owed.                                             *)
LEMMA OwedStep == CdpInv /\ [Next]_vars => OwedInv'
<1> SUFFICES ASSUME CdpInv, [Next]_vars PROVE OwedInv'
  OBVIOUS
<1> USE CdpAssumption DEF CdpInv, OwedInv, Active, IgnoredIsOwed, OnePlace, HandsInv,
            TypeOK, Ids, Issued, FatalInv, sharedVars, waiterVars, callerVars,
            readerVars, fatalVars, sessionVars, browserVars
<1>1. ASSUME NEW c \in Callers, Issue(c) PROVE OwedInv'
  BY <1>1 DEF Issue
<1>2. ASSUME NEW c \in Callers, SendText(c) PROVE OwedInv'
  <2>1. CASE pending' = {} /\ ignored' = {}
    BY <2>1
  <2>2. CASE UNCHANGED <<pending, ignored, waiters>>
    BY <1>2, <2>2 DEF SendText, Return
  <2> QED
    BY <1>2, <2>1, <2>2 DEF SendText, SetFatalError, Return
<1>3. ASSUME NEW c \in Callers, SendFailed(c) PROVE OwedInv'
  BY <1>3 DEF SendFailed, Return
<1>4. ASSUME NEW c \in Callers, Answered(c) PROVE OwedInv'
  BY <1>4 DEF Answered, Return
<1>5. ASSUME NEW c \in Callers, WaitExpires(c) PROVE OwedInv'
  BY <1>5 DEF WaitExpires
<1>6. ASSUME NEW c \in Callers, LookAgain(c) PROVE OwedInv'
  BY <1>6 DEF LookAgain, Return
<1>7. ASSUME NEW c \in Callers, GiveUp(c) PROVE OwedInv'
  <2>1. CASE cid[c] \in pending
    <3>1. \A d \in Callers : Active(d)' => d # c /\ Active(d) /\ cid'[d] = cid[d] /\ cid[d] # cid[c]
      BY <1>7, <2>1 DEF GiveUp, Return
    <3>2. \A d \in Callers : Active(d)' /\ cid'[d] \in pending' =>
             cid'[d] \in waiters' /\ (pc'[d] # "send" => cid'[d] \in atBrowser' \cup onWire')
      BY <1>7, <2>1, <3>1 DEF GiveUp, Return
    <3>3. cid[c] \in atBrowser \cup onWire
      BY <1>7, <2>1 DEF GiveUp
    <3>4. /\ ignored' = ignored \cup {cid[c]} /\ waiters' = waiters \ {cid[c]}
          /\ atBrowser' = atBrowser /\ onWire' = onWire
      BY <1>7, <2>1 DEF GiveUp
    <3>5. IgnoredIsOwed'
      BY <3>3, <3>4
    <3> QED
      BY <3>2, <3>5
  <2>2. CASE cid[c] \notin pending
    BY <1>7, <2>2 DEF GiveUp, Return
  <2> QED
    BY <2>1, <2>2
<1>8. ASSUME NEW i \in Ids, BrowserAnswers(i) PROVE OwedInv'
  BY <1>8 DEF BrowserAnswers
<1>9. ASSUME NEW i \in Ids, BrowserBabbles(i) PROVE OwedInv'
  BY <1>9 DEF BrowserBabbles
<1>10. ASSUME NEW i \in Ids, ReceiveIgnored(i) PROVE OwedInv'
  BY <1>10 DEF ReceiveIgnored
<1>11. ASSUME NEW i \in Ids, ReceiveAnswer(i) PROVE OwedInv'
  BY <1>11 DEF ReceiveAnswer
<1>12. ASSUME NEW i \in Ids, ReceiveUnknown(i) PROVE OwedInv'
  <2>1. CASE pending' = {} /\ ignored' = {}
    BY <2>1
  <2>2. CASE UNCHANGED <<pending, ignored, waiters>>
    BY <1>12, <2>2 DEF ReceiveUnknown
  <2> QED
    BY <1>12, <2>1, <2>2 DEF ReceiveUnknown, ReaderFails, SetFatalError
<1>13. CASE FillWaiter
  BY <1>13 DEF FillWaiter
<1>14. ASSUME NEW s \in Sessions, ReceiveEvent(s) PROVE OwedInv'
  BY <1>14 DEF ReceiveEvent
<1>15. CASE PushEvent
  BY <1>15 DEF PushEvent
<1>16. ASSUME NEW error \in Fatals, ReceiveError(error) PROVE OwedInv'
  BY <1>16 DEF ReceiveError, ReaderFails, SetFatalError
<1>17. CASE ReaderThrows
  BY <1>17 DEF ReaderThrows
<1>18. CASE ReaderEnds
  BY <1>18 DEF ReaderEnds
<1>19. ASSUME NEW s \in Sessions, MakeSession(s) PROVE OwedInv'
  BY <1>19 DEF MakeSession
<1>20. ASSUME NEW s \in Sessions, TakeEvents(s) PROVE OwedInv'
  BY <1>20 DEF TakeEvents, WaitEvent, DrainSessionEvents
<1>21. ASSUME NEW s \in Sessions, UnregisterSession(s) PROVE OwedInv'
  BY <1>21 DEF UnregisterSession
<1>22. ASSUME NEW s \in Sessions, SessionClosed(s) PROVE OwedInv'
  BY <1>22 DEF SessionClosed
<1>23. CASE Stop
  BY <1>23 DEF Stop, StopReaderTask
<1>24. CASE CloseFailed
  BY <1>24 DEF CloseFailed, StopReaderTask
<1>25. CASE StopQuietly
  BY <1>25 DEF StopQuietly, StopReaderTask
<1>26. CASE Joined
  BY <1>26 DEF Joined
<1>27. CASE CloseSocket
  BY <1>27 DEF CloseSocket, StopReaderTask, SetFatalError
<1>28. ASSUME NEW i \in Ids, FailWaiter(i) PROVE OwedInv'
  BY <1>28 DEF FailWaiter
<1>29. ASSUME NEW s \in Sessions, FailSession(s) PROVE OwedInv'
  BY <1>29 DEF FailSession
<1>30. CASE UNCHANGED vars
  BY <1>30 DEF vars
<1> QED
  BY <1>1, <1>2, <1>3, <1>4, <1>5, <1>6, <1>7, <1>8, <1>9, <1>10, <1>11, <1>12, <1>13,
     <1>14, <1>15, <1>16, <1>17, <1>18, <1>19, <1>20, <1>21, <1>22, <1>23, <1>24, <1>25,
     <1>26, <1>27, <1>28, <1>29, <1>30 DEF Next, Caller, Reader, FatalSteps, Stopping

(* What is on the wire stays known.                                        *)
LEMMA HonestStep == CdpInv /\ [Next]_vars => HonestInv'
<1> SUFFICES ASSUME CdpInv, [Next]_vars PROVE HonestInv'
  OBVIOUS
<1> USE CdpAssumption DEF CdpInv, HonestInv, Closing, OwedInv, Active, IgnoredIsOwed,
            OnePlace, HandsInv, TypeOK, Ids, Issued, FatalInv, Fatals, sharedVars,
            waiterVars, callerVars, readerVars, fatalVars, sessionVars, browserVars
<1>1. ASSUME NEW c \in Callers, Issue(c) PROVE HonestInv'
  BY <1>1 DEF Issue
<1>2. ASSUME NEW c \in Callers, SendText(c) PROVE HonestInv'
  <2> SUFFICES ASSUME ~Misbehaves PROVE HonestInv'
    OBVIOUS
  <2>1. cid[c] \in waiters \/ Closing
    BY <1>2 DEF SendText
  <2>2. \A d \in Callers : pc'[d] = "send" => pc[d] = "send" /\ cid'[d] = cid[d] /\ cid[d] # cid[c]
    BY <1>2 DEF SendText, Return
  <2>3. atBrowser' \in {atBrowser, atBrowser \cup {cid[c]}} /\ onWire' = onWire /\ nextId' = nextId
    BY <1>2 DEF SendText
  <2>4. /\ Closing => Closing'
        /\ Closing' \/ (waiters' = waiters /\ ignored' = ignored)
    BY <1>2 DEF SendText, SetFatalError, Return
  <2>5. cid[c] \notin onWire /\ cid[c] \in Issued
    BY <1>2 DEF SendText
  <2> QED
    BY <2>1, <2>2, <2>3, <2>4, <2>5
<1>3. ASSUME NEW c \in Callers, SendFailed(c) PROVE HonestInv'
  BY <1>3 DEF SendFailed, Return
<1>4. ASSUME NEW c \in Callers, Answered(c) PROVE HonestInv'
  BY <1>4 DEF Answered, Return
<1>5. ASSUME NEW c \in Callers, WaitExpires(c) PROVE HonestInv'
  BY <1>5 DEF WaitExpires
<1>6. ASSUME NEW c \in Callers, LookAgain(c) PROVE HonestInv'
  BY <1>6 DEF LookAgain, Return
<1>7. ASSUME NEW c \in Callers, GiveUp(c) PROVE HonestInv'
  BY <1>7 DEF GiveUp, Return
<1>8. ASSUME NEW i \in Ids, BrowserAnswers(i) PROVE HonestInv'
  BY <1>8 DEF BrowserAnswers
<1>9. ASSUME NEW i \in Ids, BrowserBabbles(i) PROVE HonestInv'
  BY <1>9 DEF BrowserBabbles
<1>10. ASSUME NEW i \in Ids, ReceiveIgnored(i) PROVE HonestInv'
  BY <1>10 DEF ReceiveIgnored
<1>11. ASSUME NEW i \in Ids, ReceiveAnswer(i) PROVE HonestInv'
  BY <1>11 DEF ReceiveAnswer
<1>12. ASSUME NEW i \in Ids, ReceiveUnknown(i) PROVE HonestInv'
  BY <1>12 DEF ReceiveUnknown, ReaderFails, SetFatalError
<1>13. CASE FillWaiter
  BY <1>13 DEF FillWaiter
<1>14. ASSUME NEW s \in Sessions, ReceiveEvent(s) PROVE HonestInv'
  BY <1>14 DEF ReceiveEvent
<1>15. CASE PushEvent
  BY <1>15 DEF PushEvent
<1>16. ASSUME NEW error \in Fatals, ReceiveError(error) PROVE HonestInv'
  BY <1>16 DEF ReceiveError, ReaderFails, SetFatalError
<1>17. CASE ReaderThrows
  BY <1>17 DEF ReaderThrows
<1>18. CASE ReaderEnds
  BY <1>18 DEF ReaderEnds
<1>19. ASSUME NEW s \in Sessions, MakeSession(s) PROVE HonestInv'
  BY <1>19 DEF MakeSession
<1>20. ASSUME NEW s \in Sessions, TakeEvents(s) PROVE HonestInv'
  BY <1>20 DEF TakeEvents, WaitEvent, DrainSessionEvents
<1>21. ASSUME NEW s \in Sessions, UnregisterSession(s) PROVE HonestInv'
  BY <1>21 DEF UnregisterSession
<1>22. ASSUME NEW s \in Sessions, SessionClosed(s) PROVE HonestInv'
  BY <1>22 DEF SessionClosed
<1>23. CASE Stop
  BY <1>23 DEF Stop, StopReaderTask
<1>24. CASE CloseFailed
  BY <1>24 DEF CloseFailed, StopReaderTask
<1>25. CASE StopQuietly
  BY <1>25 DEF StopQuietly, StopReaderTask
<1>26. CASE Joined
  BY <1>26 DEF Joined
<1>27. CASE CloseSocket
  BY <1>27 DEF CloseSocket, StopReaderTask, SetFatalError
<1>28. ASSUME NEW i \in Ids, FailWaiter(i) PROVE HonestInv'
  BY <1>28 DEF FailWaiter
<1>29. ASSUME NEW s \in Sessions, FailSession(s) PROVE HonestInv'
  BY <1>29 DEF FailSession
<1>30. CASE UNCHANGED vars
  BY <1>30 DEF vars
<1> QED
  BY <1>1, <1>2, <1>3, <1>4, <1>5, <1>6, <1>7, <1>8, <1>9, <1>10, <1>11, <1>12, <1>13,
     <1>14, <1>15, <1>16, <1>17, <1>18, <1>19, <1>20, <1>21, <1>22, <1>23, <1>24, <1>25,
     <1>26, <1>27, <1>28, <1>29, <1>30 DEF Next, Caller, Reader, FatalSteps, Stopping

(* An honest browser is never blamed.                                      *)
LEMMA ProtocolStep == CdpInv /\ [Next]_vars => ProtocolErrorIsReal'
<1> SUFFICES ASSUME CdpInv, [Next]_vars PROVE ProtocolErrorIsReal'
  OBVIOUS
<1> USE CdpAssumption DEF CdpInv, ProtocolErrorIsReal, HonestInv, Closing, OnePlace,
            TypeOK, sharedVars, waiterVars, callerVars, readerVars, fatalVars,
            sessionVars, browserVars
<1>1. ASSUME NEW c \in Callers, Issue(c) PROVE ProtocolErrorIsReal'
  BY <1>1 DEF Issue
<1>2. ASSUME NEW c \in Callers, SendText(c) PROVE ProtocolErrorIsReal'
  BY <1>2 DEF SendText, SetFatalError, Return
<1>3. ASSUME NEW c \in Callers, SendFailed(c) PROVE ProtocolErrorIsReal'
  BY <1>3 DEF SendFailed, Return
<1>4. ASSUME NEW c \in Callers, Answered(c) PROVE ProtocolErrorIsReal'
  BY <1>4 DEF Answered, Return
<1>5. ASSUME NEW c \in Callers, WaitExpires(c) PROVE ProtocolErrorIsReal'
  BY <1>5 DEF WaitExpires
<1>6. ASSUME NEW c \in Callers, LookAgain(c) PROVE ProtocolErrorIsReal'
  BY <1>6 DEF LookAgain, Return
<1>7. ASSUME NEW c \in Callers, GiveUp(c) PROVE ProtocolErrorIsReal'
  BY <1>7 DEF GiveUp, Return
<1>8. ASSUME NEW i \in Ids, BrowserAnswers(i) PROVE ProtocolErrorIsReal'
  BY <1>8 DEF BrowserAnswers
<1>9. ASSUME NEW i \in Ids, BrowserBabbles(i) PROVE ProtocolErrorIsReal'
  BY <1>9 DEF BrowserBabbles
<1>10. ASSUME NEW i \in Ids, ReceiveIgnored(i) PROVE ProtocolErrorIsReal'
  BY <1>10 DEF ReceiveIgnored
<1>11. ASSUME NEW i \in Ids, ReceiveAnswer(i) PROVE ProtocolErrorIsReal'
  BY <1>11 DEF ReceiveAnswer
<1>12. ASSUME NEW i \in Ids, ReceiveUnknown(i) PROVE ProtocolErrorIsReal'
  BY <1>12 DEF ReceiveUnknown, ReaderFails, SetFatalError
<1>13. CASE FillWaiter
  BY <1>13 DEF FillWaiter
<1>14. ASSUME NEW s \in Sessions, ReceiveEvent(s) PROVE ProtocolErrorIsReal'
  BY <1>14 DEF ReceiveEvent
<1>15. CASE PushEvent
  BY <1>15 DEF PushEvent
<1>16. ASSUME NEW error \in Fatals, ReceiveError(error) PROVE ProtocolErrorIsReal'
  BY <1>16 DEF ReceiveError, ReaderFails, SetFatalError
<1>17. CASE ReaderThrows
  BY <1>17 DEF ReaderThrows
<1>18. CASE ReaderEnds
  BY <1>18 DEF ReaderEnds
<1>19. ASSUME NEW s \in Sessions, MakeSession(s) PROVE ProtocolErrorIsReal'
  BY <1>19 DEF MakeSession
<1>20. ASSUME NEW s \in Sessions, TakeEvents(s) PROVE ProtocolErrorIsReal'
  BY <1>20 DEF TakeEvents, WaitEvent, DrainSessionEvents
<1>21. ASSUME NEW s \in Sessions, UnregisterSession(s) PROVE ProtocolErrorIsReal'
  BY <1>21 DEF UnregisterSession
<1>22. ASSUME NEW s \in Sessions, SessionClosed(s) PROVE ProtocolErrorIsReal'
  BY <1>22 DEF SessionClosed
<1>23. CASE Stop
  BY <1>23 DEF Stop, StopReaderTask
<1>24. CASE CloseFailed
  BY <1>24 DEF CloseFailed, StopReaderTask
<1>25. CASE StopQuietly
  BY <1>25 DEF StopQuietly, StopReaderTask
<1>26. CASE Joined
  BY <1>26 DEF Joined
<1>27. CASE CloseSocket
  BY <1>27 DEF CloseSocket, StopReaderTask, SetFatalError
<1>28. ASSUME NEW i \in Ids, FailWaiter(i) PROVE ProtocolErrorIsReal'
  BY <1>28 DEF FailWaiter
<1>29. ASSUME NEW s \in Sessions, FailSession(s) PROVE ProtocolErrorIsReal'
  BY <1>29 DEF FailSession
<1>30. CASE UNCHANGED vars
  BY <1>30 DEF vars
<1> QED
  BY <1>1, <1>2, <1>3, <1>4, <1>5, <1>6, <1>7, <1>8, <1>9, <1>10, <1>11, <1>12, <1>13,
     <1>14, <1>15, <1>16, <1>17, <1>18, <1>19, <1>20, <1>21, <1>22, <1>23, <1>24, <1>25,
     <1>26, <1>27, <1>28, <1>29, <1>30 DEF Next, Caller, Reader, FatalSteps, Stopping

(* An empty client satisfies the invariant.                                *)
LEMMA CdpInit == Init => CdpInv
<1> SUFFICES ASSUME Init PROVE CdpInv
  OBVIOUS
<1> USE CdpAssumption DEF Init
<1>1. TypeOK
  <2>1. /\ nextId \in 1..(MaxId + 1) /\ emitted \in [Sessions -> 0..MaxEvents]
        /\ queue \in [Sessions -> Seq(1..MaxEvents)]
    OBVIOUS
  <2>2. /\ reply \in [Ids -> Outcomes \cup {None}] /\ cid \in [Callers -> Ids \cup {None}]
        /\ serror \in [Sessions -> Fatals \cup {None}]
    OBVIOUS
  <2>3. /\ pc \in [Callers -> {"idle", "send", "failing", "wait", "expired", "late"}]
        /\ life \in [Sessions -> {"new", "open", "closing", "closed"}]
    OBVIOUS
  <2> QED
    BY <2>1, <2>2, <2>3 DEF TypeOK
<1>2. HandsInv /\ OnePlace
  BY DEF HandsInv, OnePlace, Issued
<1>3. FatalInv /\ Somewhere
  BY DEF FatalInv, Somewhere, Active, InHand
<1>4. OwedInv /\ HonestInv /\ ProtocolErrorIsReal
  BY DEF OwedInv, IgnoredIsOwed, HonestInv, ProtocolErrorIsReal, Active, Closing, Issued, Fatals
<1> QED
  BY <1>1, <1>2, <1>3, <1>4 DEF CdpInv

(* The invariant holds at every step of every task.                        *)
LEMMA CdpInvariant == Spec => []CdpInv
<1>1. CdpInv /\ [Next]_vars => CdpInv'
  <2> SUFFICES ASSUME CdpInv, [Next]_vars PROVE CdpInv'
    OBVIOUS
  <2>1. TypeOK' /\ HandsInv' /\ OnePlace' /\ FatalInv'
    BY TypeCdpStep, HandsStep, OnePlaceStep, FatalStep DEF CdpInv
  <2>2. Somewhere' /\ OwedInv' /\ HonestInv' /\ ProtocolErrorIsReal'
    BY SomewhereStep, OwedStep, HonestStep, ProtocolStep
  <2> QED
    BY <2>1, <2>2 DEF CdpInv
<1> QED
  BY <1>1, CdpInit, PTL DEF Spec

-----------------------------------------------------------------------------
(***************************************************************************)
(* What follows from it.                                                   *)
(***************************************************************************)

(* The tables, the waiters and the tasks of a DevTools client have their   *)
(* types, whatever the browser sends.                                      *)
THEOREM CdpTypeCorrect == Spec => []TypeOK
BY CdpInvariant, PTL DEF CdpInv

(* HandleMessage ends the connection for a protocol error only if the      *)
(* browser sent what nobody asked for: a response that is late, to a       *)
(* failed send or to a client that stops is never one.                     *)
THEOREM ProtocolErrorsAreReal == Spec => []ProtocolErrorIsReal
BY CdpInvariant, PTL DEF CdpInv

(* When SetFatalError has told everybody it had found in the tables, every *)
(* command under way is completed or about to be, and every session has    *)
(* its error.                                                              *)
THEOREM NobodyIsStranded == Spec => []NobodyStranded
<1>1. CdpInv => NobodyStranded
  BY DEF CdpInv, FatalInv, Somewhere, Active, InHand, NobodyStranded
<1> QED
  BY <1>1, CdpInvariant, PTL

(* An entry kept for the response of a command that timed out is one whose *)
(* response is still to come, so the table does not fill with them.        *)
THEOREM IgnoredAreOwed == Spec => []IgnoredIsOwed
<1>1. CdpInv => IgnoredIsOwed
  BY DEF CdpInv, OwedInv
<1> QED
  BY <1>1, CdpInvariant, PTL

(* No step completes a waiter again: the response and the fatal error race *)
(* for it and one of them gets it.                                         *)
THEOREM WaitersCompletedOnce == Spec => CompletedOnce
<1> DEFINE Once == \A i \in done : i \in done' /\ reply'[i] = reply[i]
<1>1. ASSUME CdpInv, [Next]_vars PROVE Once
  <2> USE DEF CdpInv, OnePlace, HandsInv, TypeOK
  <2>1. ASSUME NEW i \in Ids, FailWaiter(i) PROVE Once
    <3>1. i \notin done /\ done' = done \cup {i} /\ reply' = [reply EXCEPT ![i] = fatal]
      BY <2>1, <1>1 DEF FailWaiter
    <3> QED
      BY <3>1, <1>1
  <2>2. CASE FillWaiter
    <3>1. rid \notin done /\ done' = done \cup {rid}
      BY <2>2, <1>1 DEF FillWaiter
    <3>2. PICK outcome : reply' = [reply EXCEPT ![rid] = outcome]
      BY <2>2 DEF FillWaiter
    <3> QED
      BY <3>1, <3>2, <1>1
  <2>3. CASE UNCHANGED waiterVars
    BY <2>3 DEF waiterVars
  <2>4. CASE \E c \in Callers : Issue(c) \/ Caller(c) \/ WaitExpires(c)
    BY <2>3, <2>4 DEF Issue, Caller, WaitExpires, SendText, SendFailed, Answered, GiveUp, LookAgain
  <2>5. CASE \E i \in Ids : BrowserAnswers(i) \/ BrowserBabbles(i) \/ ReceiveIgnored(i)
                            \/ ReceiveAnswer(i) \/ ReceiveUnknown(i)
    BY <2>3, <2>5 DEF BrowserAnswers, BrowserBabbles, ReceiveIgnored, ReceiveAnswer, ReceiveUnknown
  <2>6. CASE \/ \E s \in Sessions : ReceiveEvent(s) \/ FailSession(s)
             \/ \E error \in Fatals : ReceiveError(error)
             \/ PushEvent \/ ReaderEnds \/ ReaderThrows
    BY <2>3, <2>6 DEF ReceiveEvent, FailSession, ReceiveError, PushEvent, ReaderEnds, ReaderThrows
  <2>7. CASE \E s \in Sessions : MakeSession(s) \/ TakeEvents(s) \/ UnregisterSession(s)
                                 \/ SessionClosed(s)
    BY <2>3, <2>7 DEF MakeSession, TakeEvents, WaitEvent, DrainSessionEvents,
       UnregisterSession, SessionClosed
  <2>8. CASE Stop \/ StopQuietly \/ Stopping
    BY <2>3, <2>8 DEF Stop, StopQuietly, Stopping, CloseSocket, CloseFailed, Joined
  <2>9. CASE UNCHANGED vars
    BY <2>3, <2>9 DEF vars, waiterVars
  <2> QED
    BY <1>1, <2>1, <2>2, <2>4, <2>5, <2>6, <2>7, <2>8, <2>9 DEF Next, Reader, FatalSteps
<1>2. CdpInv /\ [Next]_vars => [Once]_vars
  BY <1>1
<1> QED
  BY <1>2, CdpInvariant, PTL DEF Spec, CompletedOnce
=============================================================================
