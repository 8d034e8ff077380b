-------------------------- MODULE EgressProxyProofs -------------------------
(***************************************************************************)
(* Theorems about EgressProxy, for any number of connections, any limit    *)
(* and sizes, every set of request heads and whatever names resolve to.    *)
(* The proofs of its invariants leave the parsers of ProxyRequest closed:  *)
(* none depends on what they make of a text.  The last sections are about  *)
(* ParseAuthority itself.                                                  *)
(***************************************************************************)
EXTENDS EgressProxy, FiniteSetTheorems, WellFoundedInduction, TLAPS

-----------------------------------------------------------------------------
(***************************************************************************)
(* The inductive invariant, in parts.                                      *)
(***************************************************************************)

Sending == {"send", "claim", "socket"}
Copying == {"copy", "relay", "join"}

(* A connection sends only while its handler waits for it, no more than    *)
(* was received, and has a claim only while the socket sends.              *)
SendOk(c) ==
    /\ snd[c] \in Sending => pc[c] \in {"reply", "established"} \cup Copying
    /\ snd[c] \in {"recv", "done"} => pc[c] \in Copying
    /\ snd[c] \in Sending => pend[c] <= (IF pc[c] \in Copying THEN MaxChunk ELSE ReplyBytes)
    /\ snd[c] = "socket" => claim[c] <= pend[c]
    /\ snd[c] # "socket" /\ spc # "dead" => claim[c] = 0
    /\ spc = "dead" => snd[c] = "idle" /\ pc[c] = "done"

SendInv == \A c \in Clients : SendOk(c)

(* A send that failed is the last of its connection, unless it was the     *)
(* reply to CONNECT.                                                       *)
LeakOk(c) ==
    leak[c] <= IF pc[c] = "done" \/ snd[c] = "done" THEN ReplyBytes + MaxChunk
               ELSE IF pc[c] \in {"relay", "join"} THEN ReplyBytes ELSE 0

LeakInv == \A c \in Clients : LeakOk(c)

BudgetInv == counter = acked + Cardinality(BytesOf(claim))

(* Every handler that runs is in client_tasks, is taken out of it by       *)
(* StopAll, or is about to be pushed by the accept task, which StopAll     *)
(* joins first.                                                            *)
TaskInv ==
    /\ \A c \in Clients : pc[c] \notin {"away", "done"} => c \in tasks \cup taken \/ acur = c
    /\ apc = "push" => acur \in Clients
    /\ apc # "push" => acur = None
    /\ apc \in {"accept", "push"} => spc \in {"serving", "join accept"}
    /\ spc = "absent" => apc = "none"
    /\ spc \in {"join", "closed"} => tasks = {}
    /\ spc \notin {"join", "closed"} => taken = {}

(* Who is connected upstream has read his request, and keeps it.           *)
UpstreamInv ==
    /\ \A c \in Clients : pc[c] \in {"away", "start", "head", "connect"} => upstream[c] = None
    /\ OnlyPublicOrFixture

ProxyInv == EgressTypeOK /\ SendInv /\ LeakInv /\ BudgetInv /\ TaskInv /\ UpstreamInv

-----------------------------------------------------------------------------
(***************************************************************************)
(* The sum of the claims, counted as bytes.                                *)
(***************************************************************************)

(* The sizes, apart from what else is assumed of the constants.            *)
LEMMA SizesAreNumbers ==
    /\ Limit \in Nat \ {0} /\ MaxChunk \in Nat \ {0} /\ ReplyBytes \in Nat \ {0}
    /\ Connections \in Nat
BY ProxyAssumption

(* What the claims stand for is finite.                                    *)
LEMMA BytesFinite ==
    ASSUME NEW f
    PROVE  IsFiniteSet(BytesOf(f)) /\ Cardinality(BytesOf(f)) \in Nat
<1>1. IsFiniteSet(Clients \X (1..Limit))
  <2>1. 1 \in Int /\ Connections \in Int /\ Limit \in Int
    BY SizesAreNumbers
  <2>2. IsFiniteSet(1..Connections) /\ IsFiniteSet(1..Limit)
    BY <2>1, FS_Interval
  <2> QED
    BY <2>2, FS_Product DEF Clients
<1>2. BytesOf(f) \in SUBSET (Clients \X (1..Limit))
  BY DEF BytesOf
<1> QED
  BY <1>1, <1>2, FS_Subset, FS_CardinalityType

(* A connection that had no claim adds exactly what it claims.             *)
LEMMA ClaimAdds ==
    ASSUME NEW f \in [Clients -> 0..Limit], NEW c \in Clients, f[c] = 0, NEW k \in 0..Limit
    PROVE  Cardinality(BytesOf([f EXCEPT ![c] = k])) = Cardinality(BytesOf(f)) + k
<1> DEFINE g == [f EXCEPT ![c] = k]
           new == {c} \X (1..k)
<1>1. BytesOf(g) = BytesOf(f) \cup new
  BY SizesAreNumbers DEF BytesOf
<1>2. BytesOf(f) \cap new = {}
  BY SizesAreNumbers DEF BytesOf
<1>3. IsFiniteSet(new) /\ Cardinality(new) = k
  <2>1. IsFiniteSet({c}) /\ Cardinality({c}) = 1
    BY FS_Singleton
  <2>2. IsFiniteSet(1..k) /\ Cardinality(1..k) = k
    <3>1. k \in Int /\ 1 \in Int /\ (1 > k => k = 0)
      BY SizesAreNumbers
    <3> QED
      BY <3>1, FS_Interval
  <2>3. IsFiniteSet(new) /\ Cardinality(new) = Cardinality({c}) * Cardinality(1..k)
    BY <2>1, <2>2, FS_Product
  <2> QED
    BY <2>1, <2>2, <2>3
<1>4. IsFiniteSet(BytesOf(f)) /\ Cardinality(BytesOf(f)) \in Nat
  BY BytesFinite
<1>5. Cardinality(BytesOf(f) \cup new) = Cardinality(BytesOf(f)) + k - Cardinality({})
  BY <1>2, <1>3, <1>4, FS_Union
<1>6. Cardinality(BytesOf(f) \cup new) = Cardinality(BytesOf(f)) + k
  BY <1>4, <1>5, FS_EmptySet, SizesAreNumbers
<1> QED
  BY <1>1, <1>6

(* And takes it away when the claim is over.                               *)
LEMMA ClaimGivenBack ==
    ASSUME NEW f \in [Clients -> 0..Limit], NEW g, NEW c \in Clients, g = [f EXCEPT ![c] = 0]
    PROVE  Cardinality(BytesOf(f)) = Cardinality(BytesOf(g)) + f[c]
<1> DEFINE h == [g EXCEPT ![c] = f[c]]
<1>1. 0 \in 0..Limit
  BY SizesAreNumbers
<1>2. g \in [Clients -> 0..Limit] /\ g[c] = 0
  BY <1>1
<1>3. f[c] \in 0..Limit
  OBVIOUS
<1>4. h = f
  OBVIOUS
<1>5. Cardinality(BytesOf(h)) = Cardinality(BytesOf(g)) + f[c]
  <2> HIDE DEF h
  <2> QED
    BY <1>2, <1>3, ClaimAdds DEF h
<1> QED
  BY <1>4, <1>5

(* A send claims what is there to send, or the limit.                      *)
LEMMA ClaimBounds ==
    ASSUME EgressTypeOK, NEW c \in Clients
    PROVE  MaxClaim(c) \in 0..Limit /\ MaxClaim(c) <= pend[c]
<1>1. pend[c] \in Nat /\ Limit \in Nat
  BY SizesAreNumbers DEF EgressTypeOK, HandlerTypeOK
<1>2. \E x \in {pend[c], Limit} : \A y \in {pend[c], Limit} : x =< y
  BY <1>1
<1>3. /\ MaxClaim(c) \in {pend[c], Limit}
      /\ \A y \in {pend[c], Limit} : MaxClaim(c) <= y
  BY <1>2 DEF MaxClaim, Min
<1> QED
  BY <1>1, <1>3

-----------------------------------------------------------------------------
(***************************************************************************)
(* What the shared parts of the handlers' steps do to the types.           *)
(***************************************************************************)

(* HandleClient returns.                                                   *)
LEMMA FinishTypes ==
    ASSUME HandlerTypeOK, NEW c \in Clients, Finish(c)
    PROVE  HandlerTypeOK'
<1>1. 0 \in 0..(MaxChunk + ReplyBytes)
  BY SizesAreNumbers
<1>2. snd' \in [Clients -> SendPCs] /\ pend' \in [Clients -> 0..(MaxChunk + ReplyBytes)]
  BY <1>1 DEF HandlerTypeOK, Finish, SendPCs
<1>3. /\ pc' \in [Clients -> HandlerPCs] /\ req' \in [Clients -> Requests \cup {None}]
      /\ upstream' \in [Clients -> {None, "public", "private"}]
      /\ up' \in [Clients -> {"none", "run", "done"}]
  BY DEF HandlerTypeOK, Finish, HandlerPCs
<1> QED
  BY <1>2, <1>3 DEF HandlerTypeOK

(* A reply is begun.                                                       *)
LEMMA ReplyTypes ==
    ASSUME HandlerTypeOK, NEW c \in Clients, NEW then \in {"reply", "established"},
           StartReply(c, then)
    PROVE  /\ pc' \in [Clients -> HandlerPCs] /\ snd' \in [Clients -> SendPCs]
           /\ pend' \in [Clients -> 0..(MaxChunk + ReplyBytes)]
<1>1. ReplyBytes \in 0..(MaxChunk + ReplyBytes)
  BY SizesAreNumbers
<1> QED
  BY <1>1 DEF HandlerTypeOK, StartReply, HandlerPCs, SendPCs

(* SendBudgeted returns.                                                   *)
LEMMA SendReturnsTypes ==
    ASSUME HandlerTypeOK, NEW c \in Clients, NEW sent \in 0..pend[c], NEW stop,
           SendReturns(c, sent, stop)
    PROVE  HandlerTypeOK'
<1>1. CASE Finish(c)
  BY <1>1, FinishTypes
<1>2. CASE ~Finish(c)
  <2>1. /\ 0 \in 0..(MaxChunk + ReplyBytes)
        /\ pend[c] - sent \in 0..(MaxChunk + ReplyBytes)
    BY SizesAreNumbers DEF HandlerTypeOK
  <2>2. pend' \in [Clients -> 0..(MaxChunk + ReplyBytes)]
    BY <1>2, <2>1 DEF SendReturns, HandlerTypeOK
  <2>3. snd' \in [Clients -> SendPCs]
    BY <1>2 DEF SendReturns, HandlerTypeOK, SendPCs
  <2>4. /\ pc' \in [Clients -> HandlerPCs] /\ up' \in [Clients -> {"none", "run", "done"}]
        /\ req' = req /\ upstream' = upstream
    BY <1>2 DEF SendReturns, HandlerTypeOK, HandlerPCs, handlerVars
  <2> QED
    BY <2>2, <2>3, <2>4 DEF HandlerTypeOK
<1> QED
  BY <1>1, <1>2

(* ResolveTcp yields a private address only for a target that was          *)
(* rewritten, or let through, as a local fixture.                          *)
LEMMA PrivateIsFixture ==
    ASSUME NEW t, "private" \in Candidates(t)
    PROVE  Rewrite /\ IsFixture(t)
BY DEF Candidates, ResolveTcp, RewriteLocalFixtureIfNeeded, IsFixture

(* An address is an address.                                               *)
LEMMA NoneIsNotPrivate == None # "private"
BY ProxyAssumption

(* And a connection a connection.                                          *)
LEMMA NoneIsNoClient == None \notin Clients
<1>1. Clients \subseteq Nat
  BY SizesAreNumbers DEF Clients
<1>2. None \notin Nat
  BY ProxyAssumption
<1> QED
  BY <1>1, <1>2

(* HandleClient returns: the connection upstream is closed.                *)
LEMMA FinishUpstream ==
    ASSUME HandlerTypeOK, UpstreamInv, NEW c \in Clients, Finish(c)
    PROVE  UpstreamInv'
<1>1. upstream'[c] = None /\ pc'[c] = "done"
  BY DEF HandlerTypeOK, Finish
<1>2. \A d \in Clients \ {c} : upstream'[d] = upstream[d] /\ req'[d] = req[d] /\ pc'[d] = pc[d]
  BY DEF HandlerTypeOK, Finish
<1> QED
  BY <1>1, <1>2, NoneIsNotPrivate DEF UpstreamInv, OnlyPublicOrFixture

(* SendBudgeted returns: nobody is connected to another address.           *)
LEMMA SendReturnsUpstream ==
    ASSUME HandlerTypeOK, UpstreamInv, NEW c \in Clients, NEW sent, NEW stop,
           SendReturns(c, sent, stop)
    PROVE  UpstreamInv'
<1>1. CASE Finish(c)
  BY <1>1, FinishUpstream
<1>2. CASE ~Finish(c)
  <2>1. upstream' = upstream /\ req' = req
    BY <1>2 DEF SendReturns, handlerVars
  <2>2. \A d \in Clients : pc'[d] = pc[d] \/ pc'[d] = "relay"
    BY <1>2 DEF SendReturns, handlerVars, HandlerTypeOK
  <2> QED
    BY <2>1, <2>2 DEF UpstreamInv, OnlyPublicOrFixture
<1> QED
  BY <1>1, <1>2

-----------------------------------------------------------------------------
(***************************************************************************)
(* The invariant is inductive, part by part.                               *)
(***************************************************************************)

(* Every step keeps the types of the handlers.                             *)
LEMMA HandlerTypeStep == EgressTypeOK /\ SendInv /\ [Next]_proxyVars => HandlerTypeOK'
<1> SUFFICES ASSUME EgressTypeOK, SendInv, [Next]_proxyVars PROVE HandlerTypeOK'
  OBVIOUS
<1> USE DEF HandlerTypeOK, EgressTypeOK, budgetVars, acceptVars, taskVars, stopVars,
            sharedVars, handlerVars, sendVars
<1>1. ASSUME NEW c \in Clients, AcceptClient(c) PROVE HandlerTypeOK'
  BY <1>1 DEF AcceptClient, HandlerPCs
<1>2. ASSUME NEW c \in Clients, EnterHandler(c) PROVE HandlerTypeOK'
  BY <1>2, FinishTypes DEF EnterHandler, HandlerPCs
<1>3. ASSUME NEW c \in Clients, LoseHead(c) PROVE HandlerTypeOK'
  BY <1>3, FinishTypes DEF LoseHead
<1>4. ASSUME NEW c \in Clients, ConnectFails(c) PROVE HandlerTypeOK'
  BY <1>4, ReplyTypes DEF ConnectFails
<1>5. ASSUME NEW c \in Clients, SendRequest(c) PROVE HandlerTypeOK'
  BY <1>5, ReplyTypes DEF SendRequest, HandlerPCs, SendPCs
<1>6. ASSUME NEW c \in Clients, SendCheck(c) PROVE HandlerTypeOK'
  <2>1. 0 \in 0..pend[c]
    BY SizesAreNumbers
  <2>2. CASE SendReturns(c, 0, TRUE)
    BY <2>1, <2>2, SendReturnsTypes
  <2>3. CASE snd' = [snd EXCEPT ![c] = "claim"] /\ UNCHANGED <<handlerVars, pend>>
    BY <2>3 DEF SendPCs
  <2> QED
    BY <1>6, <2>2, <2>3 DEF SendCheck
<1>7. ASSUME NEW c \in Clients, Claim(c) PROVE HandlerTypeOK'
  BY <1>7 DEF Claim, SendPCs
<1>8. ASSUME NEW c \in Clients, TripLimit(c) PROVE HandlerTypeOK'
  <2>1. 0 \in 0..pend[c]
    BY SizesAreNumbers
  <2> QED
    BY <1>8, <2>1, SendReturnsTypes DEF TripLimit
<1>9. ASSUME NEW c \in Clients, DataRace(c) PROVE HandlerTypeOK'
  BY <1>9 DEF DataRace, HandlerPCs, SendPCs
<1>10. ASSUME NEW c \in Clients, SocketFails(c) PROVE HandlerTypeOK'
  <2>1. 0 \in 0..pend[c]
    BY SizesAreNumbers
  <2> QED
    BY <1>10, <2>1, SendReturnsTypes DEF SocketFails
<1>11. ASSUME NEW c \in Clients, DownEnds(c) PROVE HandlerTypeOK'
  BY <1>11 DEF DownEnds, SendPCs
<1>12. ASSUME NEW c \in Clients, UpEnds(c) PROVE HandlerTypeOK'
  BY <1>12 DEF UpEnds
<1>13. ASSUME NEW c \in Clients, CancelCopies(c) PROVE HandlerTypeOK'
  BY <1>13 DEF CancelCopies, HandlerPCs
<1>14. ASSUME NEW c \in Clients, CopiesDone(c) PROVE HandlerTypeOK'
  BY <1>14, FinishTypes DEF CopiesDone
<1>15. ASSUME NEW c \in Clients, NEW r \in Requests, ReadHead(c, r) PROVE HandlerTypeOK'
  BY <1>15, ReplyTypes DEF ReadHead, HandlerPCs
<1>16. ASSUME NEW c \in Clients, NEW a \in {"public", "private"}, ConnectUpstream(c, a) PROVE HandlerTypeOK'
  BY <1>16, ReplyTypes DEF ConnectUpstream, HandlerPCs
<1>17. ASSUME NEW c \in Clients, NEW n \in 1..MaxChunk, Receive(c, n) PROVE HandlerTypeOK'
  <2>1. n \in 0..(MaxChunk + ReplyBytes)
    BY SizesAreNumbers
  <2> QED
    BY <1>17, <2>1 DEF Receive, SendPCs
<1>18. ASSUME NEW c \in Clients, NEW n \in 0..Limit, SocketSends(c, n) PROVE HandlerTypeOK'
  <2>1. n \in 0..pend[c]
    BY <1>18, SizesAreNumbers DEF SocketSends, SendInv, SendOk, EgressTypeOK
  <2> QED
    BY <1>18, <2>1, SendReturnsTypes DEF SocketSends
<1>19. CASE UNCHANGED <<pc, req, upstream, up, snd, pend>>
  BY <1>19
<1>20. CASE Make \/ StopAll \/ PushTask \/ AcceptReturns \/ JoinAccept \/ ResetAccept
            \/ TakeTasks \/ JoinTasks
  BY <1>19, <1>20 DEF Make, StopAll, PushTask, AcceptReturns, JoinAccept, ResetAccept,
     TakeTasks, JoinTasks
<1>21. CASE Expire
  BY <1>19, <1>21 DEF Expire
<1>22. CASE UNCHANGED proxyVars
  BY <1>19, <1>22 DEF proxyVars
<1> QED
  BY <1>1, <1>2, <1>3, <1>4, <1>5, <1>6, <1>7, <1>8, <1>9, <1>10, <1>11, <1>12, <1>13,
     <1>14, <1>15, <1>16, <1>17, <1>18, <1>19, <1>20, <1>21, <1>22 DEF Next, HandlerTask,
     UpTask, Network, AcceptTask, AcceptEnds, AcceptFails, StopTask, Over

(* Every step keeps the account of the budget.                             *)
LEMMA BudgetStep == EgressTypeOK /\ SendInv /\ BudgetInv /\ [Next]_proxyVars => BudgetInv'
<1> SUFFICES ASSUME EgressTypeOK, SendInv, BudgetInv, [Next]_proxyVars PROVE BudgetInv'
  OBVIOUS
<1> USE DEF budgetVars, acceptVars, taskVars, stopVars, sharedVars, handlerVars, sendVars
<1>1. ASSUME NEW c \in Clients, Claim(c) PROVE BudgetInv'
  <2>1. claim[c] = 0 /\ MaxClaim(c) \in 0..Limit
    BY <1>1, ClaimBounds DEF Claim, SendInv, SendOk
  <2>2. /\ claim' = [claim EXCEPT ![c] = MaxClaim(c)] /\ counter' = counter + MaxClaim(c)
        /\ acked' = acked
    BY <1>1 DEF Claim
  <2>3. Cardinality(BytesOf(claim')) = Cardinality(BytesOf(claim)) + MaxClaim(c)
    BY <2>1, <2>2, ClaimAdds DEF EgressTypeOK
  <2>4. Cardinality(BytesOf(claim)) \in Nat
    BY BytesFinite
  <2> QED
    BY <2>1, <2>2, <2>3, <2>4, SizesAreNumbers DEF BudgetInv, EgressTypeOK
<1>2. ASSUME NEW c \in Clients, SocketFails(c) PROVE BudgetInv'
  <2>1. Cardinality(BytesOf(claim)) = Cardinality(BytesOf(claim')) + claim[c]
    BY <1>2, ClaimGivenBack DEF SocketFails, EgressTypeOK
  <2>2. Cardinality(BytesOf(claim')) \in Nat /\ claim[c] \in Nat
    BY BytesFinite, SizesAreNumbers DEF EgressTypeOK
  <2> QED
    BY <1>2, <2>1, <2>2, SizesAreNumbers DEF SocketFails, BudgetInv, EgressTypeOK
<1>3. ASSUME NEW c \in Clients, NEW n \in 0..Limit, SocketSends(c, n) PROVE BudgetInv'
  <2>1. Cardinality(BytesOf(claim)) = Cardinality(BytesOf(claim')) + claim[c]
    BY <1>3, ClaimGivenBack DEF SocketSends, EgressTypeOK
  <2>2. Cardinality(BytesOf(claim')) \in Nat /\ claim[c] \in Nat
    BY BytesFinite, SizesAreNumbers DEF EgressTypeOK
  <2> QED
    BY <1>3, <2>1, <2>2, SizesAreNumbers DEF SocketSends, BudgetInv, EgressTypeOK
<1>4. CASE UNCHANGED <<counter, acked, claim>>
  BY <1>4 DEF BudgetInv
<1>5. CASE Make \/ StopAll \/ PushTask \/ AcceptReturns \/ JoinAccept \/ ResetAccept
            \/ TakeTasks \/ JoinTasks
  BY <1>4, <1>5 DEF Make, StopAll, PushTask, AcceptReturns, JoinAccept, ResetAccept,
     TakeTasks, JoinTasks
<1>6. CASE Expire
  BY <1>4, <1>6 DEF Expire
<1>7. ASSUME NEW c \in Clients,
             AcceptClient(c) \/ EnterHandler(c) \/ LoseHead(c) \/ ConnectFails(c)
             \/ SendRequest(c) \/ SendCheck(c) \/ TripLimit(c) \/ DataRace(c)
      PROVE  BudgetInv'
  BY <1>4, <1>7 DEF AcceptClient, EnterHandler, Finish, LoseHead, ConnectFails,
     StartReply, NoteError, SendRequest, SendCheck, SendReturns, TripLimit, DataRace
<1>8. ASSUME NEW c \in Clients,
             DownEnds(c) \/ UpEnds(c) \/ CancelCopies(c) \/ CopiesDone(c)
      PROVE  BudgetInv'
  BY <1>4, <1>8 DEF DownEnds, UpEnds, CancelCopies, CopiesDone, Finish
<1>9. ASSUME NEW c \in Clients, NEW r \in Requests,
             ReadHead(c, r)
      PROVE  BudgetInv'
  BY <1>4, <1>9 DEF ReadHead, StartReply
<1>10. ASSUME NEW c \in Clients, NEW a \in {"public", "private"},
             ConnectUpstream(c, a)
      PROVE  BudgetInv'
  BY <1>4, <1>10 DEF ConnectUpstream, StartReply
<1>11. ASSUME NEW c \in Clients, NEW n \in 1..MaxChunk,
             Receive(c, n)
      PROVE  BudgetInv'
  BY <1>4, <1>11 DEF Receive
<1>12. CASE UNCHANGED proxyVars
  BY <1>4, <1>12 DEF proxyVars
<1> QED
  BY <1>1, <1>2, <1>3, <1>4, <1>5, <1>6, <1>7, <1>8, <1>9, <1>10, <1>11, <1>12 DEF Next,
     HandlerTask, UpTask, Network, AcceptTask, AcceptEnds, AcceptFails, StopTask, Over

(* Every step keeps the types.                                             *)
LEMMA TypeProxyStep == EgressTypeOK /\ SendInv /\ TaskInv /\ BudgetInv /\ [Next]_proxyVars => EgressTypeOK'
<1> SUFFICES ASSUME EgressTypeOK, SendInv, TaskInv, BudgetInv, [Next]_proxyVars PROVE EgressTypeOK'
  OBVIOUS
<1>1. HandlerTypeOK'
  BY HandlerTypeStep
<1>2. BudgetInv' /\ Cardinality(BytesOf(claim')) \in Nat
  BY BudgetStep, BytesFinite
<1> USE <1>1 DEF EgressTypeOK, budgetVars, acceptVars, taskVars, stopVars, sharedVars,
            handlerVars, sendVars
<1>3. CASE Make
  BY <1>3 DEF Make, StopPCs, AcceptPCs
<1>4. CASE StopAll
  BY <1>4 DEF StopAll, StopPCs
<1>5. CASE PushTask
  BY <1>5 DEF PushTask, TaskInv, AcceptPCs
<1>6. CASE AcceptReturns
  BY <1>6 DEF AcceptReturns, AcceptPCs
<1>7. CASE JoinAccept
  BY <1>7 DEF JoinAccept, StopPCs
<1>8. CASE ResetAccept
  BY <1>8 DEF ResetAccept, StopPCs, AcceptPCs
<1>9. CASE TakeTasks
  BY <1>9 DEF TakeTasks, StopPCs
<1>10. CASE JoinTasks
  BY <1>10 DEF JoinTasks, StopPCs
<1>11. CASE Expire
  BY <1>11 DEF Expire
<1>12. ASSUME NEW c \in Clients, AcceptClient(c) PROVE EgressTypeOK'
  BY <1>12 DEF AcceptClient, AcceptPCs
<1>13. ASSUME NEW c \in Clients, ConnectFails(c) PROVE EgressTypeOK'
  BY <1>13 DEF ConnectFails, NoteError, Errors
<1>14. ASSUME NEW c \in Clients, SendRequest(c) PROVE EgressTypeOK'
  BY <1>14 DEF SendRequest, NoteError, Errors
<1>15. ASSUME NEW c \in Clients, Claim(c) PROVE EgressTypeOK'
  <2>1. MaxClaim(c) \in 0..Limit
    BY ClaimBounds
  <2>2. counter' \in 0..Limit /\ claim' \in [Clients -> 0..Limit]
    BY <1>15, <2>1, SizesAreNumbers DEF Claim
  <2> QED
    BY <1>15, <2>2 DEF Claim
<1>16. ASSUME NEW c \in Clients, TripLimit(c) PROVE EgressTypeOK'
  BY <1>16 DEF TripLimit, NoteError, Errors
<1>17. ASSUME NEW c \in Clients, DataRace(c) PROVE EgressTypeOK'
  BY <1>17 DEF DataRace, StopPCs, AcceptPCs
<1>18. ASSUME NEW c \in Clients, SocketFails(c) PROVE EgressTypeOK'
  <2>1. counter' \in Int /\ counter' <= counter /\ acked' = acked
    BY <1>18, SizesAreNumbers DEF SocketFails
  <2>2. counter' \in 0..Limit
    BY <2>1, <1>2, SizesAreNumbers DEF BudgetInv
  <2>3. claim' \in [Clients -> 0..Limit] /\ leak' \in [Clients -> Nat]
    BY <1>18, SizesAreNumbers DEF SocketFails
  <2> QED
    BY <1>18, <2>2, <2>3 DEF SocketFails
<1>19. ASSUME NEW c \in Clients, NEW n \in 0..Limit, SocketSends(c, n) PROVE EgressTypeOK'
  <2>1. acked' \in Nat /\ counter' \in Int /\ counter' <= counter
    BY <1>19, SizesAreNumbers DEF SocketSends
  <2>2. acked' \in 0..Limit /\ counter' \in 0..Limit
    BY <2>1, <1>2, SizesAreNumbers DEF BudgetInv
  <2>3. claim' \in [Clients -> 0..Limit]
    BY <1>19, SizesAreNumbers DEF SocketSends
  <2> QED
    BY <1>19, <2>2, <2>3 DEF SocketSends
<1>20. CASE UNCHANGED <<budgetVars, sharedVars, expired, acceptVars, taskVars, stopVars>>
  BY <1>20
<1>21. ASSUME NEW c \in Clients,
             EnterHandler(c) \/ LoseHead(c) \/ SendCheck(c) \/ DownEnds(c) \/ UpEnds(c)
             \/ CancelCopies(c) \/ CopiesDone(c)
      PROVE  EgressTypeOK'
  BY <1>20, <1>21 DEF EnterHandler, LoseHead, SendCheck, DownEnds, UpEnds, CancelCopies,
     CopiesDone
<1>22. ASSUME NEW c \in Clients, NEW r \in Requests,
             ReadHead(c, r)
      PROVE  EgressTypeOK'
  BY <1>20, <1>22 DEF ReadHead
<1>23. ASSUME NEW c \in Clients, NEW a \in {"public", "private"},
             ConnectUpstream(c, a)
      PROVE  EgressTypeOK'
  BY <1>20, <1>23 DEF ConnectUpstream
<1>24. ASSUME NEW c \in Clients, NEW n \in 1..MaxChunk,
             Receive(c, n)
      PROVE  EgressTypeOK'
  BY <1>20, <1>24 DEF Receive
<1>25. CASE UNCHANGED proxyVars
  BY <1>20, <1>25 DEF proxyVars
<1> QED
  BY <1>3, <1>4, <1>5, <1>6, <1>7, <1>8, <1>9, <1>10, <1>11, <1>12, <1>13, <1>14, <1>15,
     <1>16, <1>17, <1>18, <1>19, <1>20, <1>21, <1>22, <1>23, <1>24, <1>25 DEF Next,
     HandlerTask, UpTask, Network, AcceptTask, AcceptEnds, AcceptFails, StopTask, Over

(* Every step keeps to who sends what.                                     *)
LEMMA SendStep == EgressTypeOK /\ SendInv /\ [Next]_proxyVars => SendInv'
<1> SUFFICES ASSUME EgressTypeOK, SendInv, [Next]_proxyVars PROVE SendInv'
  OBVIOUS
<1> USE SizesAreNumbers DEF EgressTypeOK, HandlerTypeOK, SendInv, SendOk, Sending,
            Copying, budgetVars, acceptVars, taskVars, stopVars, sharedVars, handlerVars,
            sendVars
<1>1. CASE Make
  BY <1>1 DEF Make
<1>2. CASE StopAll
  BY <1>2 DEF StopAll
<1>3. CASE JoinAccept
  BY <1>3 DEF JoinAccept
<1>4. CASE ResetAccept
  BY <1>4 DEF ResetAccept
<1>5. CASE TakeTasks
  BY <1>5 DEF TakeTasks
<1>6. CASE JoinTasks
  BY <1>6 DEF JoinTasks
<1>7. ASSUME NEW c \in Clients, AcceptClient(c) PROVE SendInv'
  BY <1>7 DEF AcceptClient
<1>8. ASSUME NEW c \in Clients, EnterHandler(c) PROVE SendInv'
  BY <1>8 DEF EnterHandler, Finish
<1>9. ASSUME NEW c \in Clients, LoseHead(c) PROVE SendInv'
  BY <1>9 DEF LoseHead, Finish
<1>10. ASSUME NEW c \in Clients, ConnectFails(c) PROVE SendInv'
  BY <1>10 DEF ConnectFails, StartReply, NoteError
<1>11. ASSUME NEW c \in Clients, SendRequest(c) PROVE SendInv'
  <2>1. pc[c] = "request" /\ spc' = spc /\ claim' = claim
    BY <1>11 DEF SendRequest
  <2>2. /\ \A d \in Clients \ {c} : pc'[d] = pc[d] /\ snd'[d] = snd[d] /\ pend'[d] = pend[d]
        /\ \/ pc'[c] = "copy" /\ snd'[c] = "recv"
           \/ pc'[c] = "reply" /\ snd'[c] = "send" /\ pend'[c] = ReplyBytes
    BY <1>11 DEF SendRequest, StartReply
  <2>3. \A d \in Clients \ {c} : SendOk(d)'
    BY <2>1, <2>2
  <2>4. SendOk(c)'
    BY <2>1, <2>2
  <2> QED
    BY <2>3, <2>4
<1>12. ASSUME NEW c \in Clients, SendCheck(c) PROVE SendInv'
  BY <1>12 DEF SendCheck, SendReturns, Finish
<1>13. ASSUME NEW c \in Clients, Claim(c) PROVE SendInv'
  <2>1. MaxClaim(c) <= pend[c]
    BY ClaimBounds
  <2> QED
    BY <1>13, <2>1 DEF Claim
<1>14. ASSUME NEW c \in Clients, TripLimit(c) PROVE SendInv'
  BY <1>14 DEF TripLimit, NoteError, SendReturns, Finish
<1>15. ASSUME NEW c \in Clients, DataRace(c) PROVE SendInv'
  BY <1>15 DEF DataRace
<1>16. ASSUME NEW c \in Clients, SocketFails(c) PROVE SendInv'
  BY <1>16 DEF SocketFails, SendReturns, Finish
<1>17. ASSUME NEW c \in Clients, DownEnds(c) PROVE SendInv'
  BY <1>17 DEF DownEnds
<1>18. ASSUME NEW c \in Clients, CancelCopies(c) PROVE SendInv'
  BY <1>18 DEF CancelCopies
<1>19. ASSUME NEW c \in Clients, CopiesDone(c) PROVE SendInv'
  BY <1>19 DEF CopiesDone, Finish
<1>20. ASSUME NEW c \in Clients, NEW r \in Requests, ReadHead(c, r) PROVE SendInv'
  BY <1>20 DEF ReadHead, StartReply
<1>21. ASSUME NEW c \in Clients, NEW a \in {"public", "private"}, ConnectUpstream(c, a) PROVE SendInv'
  BY <1>21 DEF ConnectUpstream, StartReply
<1>22. ASSUME NEW c \in Clients, NEW n \in 1..MaxChunk, Receive(c, n) PROVE SendInv'
  BY <1>22 DEF Receive
<1>23. ASSUME NEW c \in Clients, NEW n \in 0..Limit, SocketSends(c, n) PROVE SendInv'
  BY <1>23 DEF SocketSends, SendReturns, Finish
<1>24. CASE UNCHANGED <<spc, pc, snd, pend, claim>>
  BY <1>24
<1>25. CASE PushTask \/ AcceptReturns \/ Expire
  BY <1>24, <1>25 DEF PushTask, AcceptReturns, Expire
<1>26. ASSUME NEW c \in Clients,
             UpEnds(c)
      PROVE  SendInv'
  BY <1>24, <1>26 DEF UpEnds
<1>27. CASE UNCHANGED proxyVars
  BY <1>24, <1>27 DEF proxyVars
<1> QED
  BY <1>1, <1>2, <1>3, <1>4, <1>5, <1>6, <1>7, <1>8, <1>9, <1>10, <1>11, <1>12, <1>13,
     <1>14, <1>15, <1>16, <1>17, <1>18, <1>19, <1>20, <1>21, <1>22, <1>23, <1>24, <1>25,
     <1>26, <1>27 DEF Next, HandlerTask, UpTask, Network, AcceptTask, AcceptEnds,
     AcceptFails, StopTask, Over

(* No step lets a connection leak more.                                    *)
LEMMA LeakStep == EgressTypeOK /\ SendInv /\ LeakInv /\ [Next]_proxyVars => LeakInv'
<1> SUFFICES ASSUME EgressTypeOK, SendInv, LeakInv, [Next]_proxyVars PROVE LeakInv'
  OBVIOUS
<1> USE SizesAreNumbers DEF EgressTypeOK, HandlerTypeOK, SendInv, SendOk, LeakInv, LeakOk,
            Sending, Copying, budgetVars, acceptVars, taskVars, stopVars, sharedVars,
            handlerVars, sendVars
<1>1. ASSUME NEW c \in Clients, AcceptClient(c) PROVE LeakInv'
  BY <1>1 DEF AcceptClient
<1>2. ASSUME NEW c \in Clients, EnterHandler(c) PROVE LeakInv'
  BY <1>2 DEF EnterHandler, Finish
<1>3. ASSUME NEW c \in Clients, LoseHead(c) PROVE LeakInv'
  BY <1>3 DEF LoseHead, Finish
<1>4. ASSUME NEW c \in Clients, ConnectFails(c) PROVE LeakInv'
  <2>1. leak' = leak /\ pc[c] = "connect"
    BY <1>4 DEF ConnectFails
  <2>2. \A d \in Clients \ {c} : pc'[d] = pc[d] /\ snd'[d] = snd[d]
    BY <1>4 DEF ConnectFails, StartReply
  <2>3. leak[c] <= 0
    BY <2>1
  <2> QED
    BY <2>1, <2>2, <2>3
<1>5. ASSUME NEW c \in Clients, SendRequest(c) PROVE LeakInv'
  <2>1. leak' = leak /\ pc[c] = "request"
    BY <1>5 DEF SendRequest
  <2>2. \A d \in Clients \ {c} : pc'[d] = pc[d] /\ snd'[d] = snd[d]
    BY <1>5 DEF SendRequest, StartReply
  <2>3. leak[c] <= 0
    BY <2>1
  <2> QED
    BY <2>1, <2>2, <2>3
<1>6. ASSUME NEW c \in Clients, SendCheck(c) PROVE LeakInv'
  BY <1>6 DEF SendCheck, SendReturns, Finish
<1>7. ASSUME NEW c \in Clients, Claim(c) PROVE LeakInv'
  BY <1>7 DEF Claim
<1>8. ASSUME NEW c \in Clients, TripLimit(c) PROVE LeakInv'
  BY <1>8 DEF TripLimit, NoteError, SendReturns, Finish
<1>9. ASSUME NEW c \in Clients, DataRace(c) PROVE LeakInv'
  BY <1>9 DEF DataRace
<1>10. ASSUME NEW c \in Clients, SocketFails(c) PROVE LeakInv'
  <2>1. snd[c] = "socket" /\ claim[c] <= pend[c] /\ claim[c] \in Nat
    BY <1>10 DEF SocketFails
  <2>2. leak'[c] = leak[c] + claim[c] /\ \A d \in Clients \ {c} : leak'[d] = leak[d]
    BY <1>10 DEF SocketFails
  <2>3. \A d \in Clients \ {c} : pc'[d] = pc[d] /\ snd'[d] = snd[d]
    BY <1>10 DEF SocketFails, SendReturns, Finish
  <2>4. \A d \in Clients \ {c} : LeakOk(d)'
    BY <2>2, <2>3
  <2>5. CASE pc[c] \in Copying
    <3>1. pc'[c] = pc[c] /\ snd'[c] = "done"
      BY <1>10, <2>5 DEF SocketFails, SendReturns
    <3>2. leak[c] <= ReplyBytes /\ claim[c] <= MaxChunk
      BY <2>1, <2>5
    <3> QED
      BY <2>1, <2>2, <2>4, <3>1, <3>2
  <2>6. CASE pc[c] \in {"reply", "established"}
    <3>1. leak[c] <= 0 /\ claim[c] <= ReplyBytes
      BY <2>1, <2>6
    <3>2. pc'[c] \in {"done", "relay"}
      BY <1>10, <2>6 DEF SocketFails, SendReturns, Finish
    <3> QED
      BY <2>1, <2>2, <2>4, <3>1, <3>2
  <2> QED
    BY <2>1, <2>5, <2>6
<1>11. ASSUME NEW c \in Clients, DownEnds(c) PROVE LeakInv'
  BY <1>11 DEF DownEnds
<1>12. ASSUME NEW c \in Clients, CancelCopies(c) PROVE LeakInv'
  BY <1>12 DEF CancelCopies
<1>13. ASSUME NEW c \in Clients, CopiesDone(c) PROVE LeakInv'
  BY <1>13 DEF CopiesDone, Finish
<1>14. ASSUME NEW c \in Clients, NEW r \in Requests, ReadHead(c, r) PROVE LeakInv'
  <2>1. leak' = leak /\ pc[c] = "head"
    BY <1>14 DEF ReadHead
  <2>2. \A d \in Clients \ {c} : pc'[d] = pc[d] /\ snd'[d] = snd[d]
    BY <1>14 DEF ReadHead, StartReply
  <2>3. leak[c] <= 0
    BY <2>1
  <2> QED
    BY <2>1, <2>2, <2>3
<1>15. ASSUME NEW c \in Clients, NEW a \in {"public", "private"}, ConnectUpstream(c, a) PROVE LeakInv'
  <2>1. leak' = leak /\ pc[c] = "connect"
    BY <1>15 DEF ConnectUpstream
  <2>2. \A d \in Clients \ {c} : pc'[d] = pc[d] /\ snd'[d] = snd[d]
    BY <1>15 DEF ConnectUpstream, StartReply
  <2>3. leak[c] <= 0
    BY <2>1
  <2> QED
    BY <2>1, <2>2, <2>3
<1>16. ASSUME NEW c \in Clients, NEW n \in 1..MaxChunk, Receive(c, n) PROVE LeakInv'
  BY <1>16 DEF Receive
<1>17. ASSUME NEW c \in Clients, NEW n \in 0..Limit, SocketSends(c, n) PROVE LeakInv'
  BY <1>17 DEF SocketSends, SendReturns, Finish
<1>18. CASE UNCHANGED <<pc, snd, leak>>
  BY <1>18
<1>19. CASE Make \/ StopAll \/ PushTask \/ AcceptReturns \/ JoinAccept \/ ResetAccept
            \/ TakeTasks \/ JoinTasks
  BY <1>18, <1>19 DEF Make, StopAll, PushTask, AcceptReturns, JoinAccept, ResetAccept,
     TakeTasks, JoinTasks
<1>20. CASE Expire
  BY <1>18, <1>20 DEF Expire
<1>21. ASSUME NEW c \in Clients,
             UpEnds(c)
      PROVE  LeakInv'
  BY <1>18, <1>21 DEF UpEnds
<1>22. CASE UNCHANGED proxyVars
  BY <1>18, <1>22 DEF proxyVars
<1> QED
  BY <1>1, <1>2, <1>3, <1>4, <1>5, <1>6, <1>7, <1>8, <1>9, <1>10, <1>11, <1>12, <1>13,
     <1>14, <1>15, <1>16, <1>17, <1>18, <1>19, <1>20, <1>21, <1>22 DEF Next, HandlerTask,
     UpTask, Network, AcceptTask, AcceptEnds, AcceptFails, StopTask, Over

(* Every handler stays where StopAll will find it.                         *)
LEMMA TaskStep == EgressTypeOK /\ SendInv /\ TaskInv /\ [Next]_proxyVars => TaskInv'
<1> SUFFICES ASSUME EgressTypeOK, SendInv, TaskInv, [Next]_proxyVars PROVE TaskInv'
  OBVIOUS
<1> USE DEF EgressTypeOK, HandlerTypeOK, SendInv, SendOk, TaskInv, budgetVars, acceptVars,
            taskVars, stopVars, sharedVars, handlerVars, sendVars
<1>1. CASE Make
  BY <1>1 DEF Make
<1>2. CASE StopAll
  BY <1>2 DEF StopAll
<1>3. CASE PushTask
  BY <1>3 DEF PushTask
<1>4. CASE AcceptReturns
  BY <1>4 DEF AcceptReturns
<1>5. CASE JoinAccept
  BY <1>5 DEF JoinAccept
<1>6. CASE ResetAccept
  BY <1>6 DEF ResetAccept
<1>7. CASE TakeTasks
  BY <1>7 DEF TakeTasks
<1>8. CASE JoinTasks
  BY <1>8 DEF JoinTasks
<1>9. ASSUME NEW c \in Clients, AcceptClient(c) PROVE TaskInv'
  <2>1. \A d \in Clients : pc'[d] = pc[d] \/ d = acur'
    BY <1>9 DEF AcceptClient
  <2>2. /\ apc' = "push" /\ acur' = c /\ apc = "accept" /\ acur = None
        /\ UNCHANGED <<tasks, taken, spc>>
    BY <1>9 DEF AcceptClient
  <2>3. \A d \in Clients : acur # d
    BY <2>2, NoneIsNoClient
  <2>4. \A d \in Clients : pc'[d] \notin {"away", "done"} => d \in tasks' \cup taken' \/ acur' = d
    BY <2>1, <2>2, <2>3
  <2> QED
    BY <2>2, <2>4
<1>10. ASSUME NEW c \in Clients, EnterHandler(c) PROVE TaskInv'
  BY <1>10 DEF EnterHandler, Finish
<1>11. ASSUME NEW c \in Clients, LoseHead(c) PROVE TaskInv'
  BY <1>11 DEF LoseHead, Finish
<1>12. ASSUME NEW c \in Clients, ConnectFails(c) PROVE TaskInv'
  BY <1>12 DEF ConnectFails, StartReply, NoteError
<1>13. ASSUME NEW c \in Clients, SendRequest(c) PROVE TaskInv'
  BY <1>13 DEF SendRequest, StartReply, NoteError
<1>14. ASSUME NEW c \in Clients, SendCheck(c) PROVE TaskInv'
  BY <1>14 DEF SendCheck, SendReturns, Finish
<1>15. ASSUME NEW c \in Clients, TripLimit(c) PROVE TaskInv'
  BY <1>15 DEF TripLimit, NoteError, SendReturns, Finish
<1>16. ASSUME NEW c \in Clients, DataRace(c) PROVE TaskInv'
  BY <1>16 DEF DataRace
<1>17. ASSUME NEW c \in Clients, SocketFails(c) PROVE TaskInv'
  BY <1>17 DEF SocketFails, SendReturns, Finish
<1>18. ASSUME NEW c \in Clients, CancelCopies(c) PROVE TaskInv'
  BY <1>18 DEF CancelCopies
<1>19. ASSUME NEW c \in Clients, CopiesDone(c) PROVE TaskInv'
  BY <1>19 DEF CopiesDone, Finish
<1>20. ASSUME NEW c \in Clients, NEW r \in Requests, ReadHead(c, r) PROVE TaskInv'
  BY <1>20 DEF ReadHead, StartReply
<1>21. ASSUME NEW c \in Clients, NEW a \in {"public", "private"}, ConnectUpstream(c, a) PROVE TaskInv'
  BY <1>21 DEF ConnectUpstream, StartReply
<1>22. ASSUME NEW c \in Clients, NEW n \in 0..Limit, SocketSends(c, n) PROVE TaskInv'
  BY <1>22 DEF SocketSends, SendReturns, Finish
<1>23. CASE UNCHANGED <<pc, tasks, taken, acur, apc, spc>>
  BY <1>23
<1>24. CASE Expire
  BY <1>23, <1>24 DEF Expire
<1>25. ASSUME NEW c \in Clients,
             Claim(c) \/ DownEnds(c) \/ UpEnds(c)
      PROVE  TaskInv'
  BY <1>23, <1>25 DEF Claim, DownEnds, UpEnds
<1>26. ASSUME NEW c \in Clients, NEW n \in 1..MaxChunk,
             Receive(c, n)
      PROVE  TaskInv'
  BY <1>23, <1>26 DEF Receive
<1>27. CASE UNCHANGED proxyVars
  BY <1>23, <1>27 DEF proxyVars
<1> QED
  BY <1>1, <1>2, <1>3, <1>4, <1>5, <1>6, <1>7, <1>8, <1>9, <1>10, <1>11, <1>12, <1>13,
     <1>14, <1>15, <1>16, <1>17, <1>18, <1>19, <1>20, <1>21, <1>22, <1>23, <1>24, <1>25,
     <1>26, <1>27 DEF Next, HandlerTask, UpTask, Network, AcceptTask, AcceptEnds,
     AcceptFails, StopTask, Over

(* No step connects to what is not allowed.                                *)
LEMMA UpstreamStep == EgressTypeOK /\ SendInv /\ UpstreamInv /\ [Next]_proxyVars => UpstreamInv'
<1> SUFFICES ASSUME EgressTypeOK, SendInv, UpstreamInv, [Next]_proxyVars PROVE UpstreamInv'
  OBVIOUS
<1> USE DEF UpstreamInv, OnlyPublicOrFixture, EgressTypeOK, HandlerTypeOK, budgetVars,
            acceptVars, taskVars, stopVars, sharedVars, handlerVars, sendVars
<1>1. ASSUME NEW c \in Clients, AcceptClient(c) PROVE UpstreamInv'
  BY <1>1 DEF AcceptClient
<1>2. ASSUME NEW c \in Clients, EnterHandler(c) PROVE UpstreamInv'
  BY <1>2, FinishUpstream DEF EnterHandler
<1>3. ASSUME NEW c \in Clients, LoseHead(c) PROVE UpstreamInv'
  BY <1>3, FinishUpstream DEF LoseHead
<1>4. ASSUME NEW c \in Clients, ConnectFails(c) PROVE UpstreamInv'
  <2>1. req' = req /\ upstream' = upstream
    BY <1>4 DEF ConnectFails
  <2>2. \A d \in Clients : pc'[d] = pc[d] \/ pc'[d] = "reply"
    BY <1>4 DEF ConnectFails, StartReply
  <2> QED
    BY <2>1, <2>2
<1>5. ASSUME NEW c \in Clients, SendRequest(c) PROVE UpstreamInv'
  <2>1. req' = req /\ upstream' = upstream
    BY <1>5 DEF SendRequest
  <2>2. \A d \in Clients : pc'[d] = pc[d] \/ pc'[d] \in {"copy", "reply"}
    BY <1>5 DEF SendRequest, StartReply
  <2> QED
    BY <2>1, <2>2
<1>6. ASSUME NEW c \in Clients, SendCheck(c) PROVE UpstreamInv'
  BY <1>6, SendReturnsUpstream DEF SendCheck
<1>7. ASSUME NEW c \in Clients, TripLimit(c) PROVE UpstreamInv'
  BY <1>7, SendReturnsUpstream DEF TripLimit
<1>8. ASSUME NEW c \in Clients, DataRace(c) PROVE UpstreamInv'
  BY <1>8 DEF DataRace
<1>9. ASSUME NEW c \in Clients, SocketFails(c) PROVE UpstreamInv'
  BY <1>9, SendReturnsUpstream DEF SocketFails
<1>10. ASSUME NEW c \in Clients, CancelCopies(c) PROVE UpstreamInv'
  BY <1>10 DEF CancelCopies
<1>11. ASSUME NEW c \in Clients, CopiesDone(c) PROVE UpstreamInv'
  BY <1>11, FinishUpstream DEF CopiesDone
<1>12. ASSUME NEW c \in Clients, NEW r \in Requests, ReadHead(c, r) PROVE UpstreamInv'
  <2>1. /\ upstream' = upstream /\ upstream[c] = None
        /\ \A d \in Clients \ {c} : req'[d] = req[d] /\ pc'[d] = pc[d]
    BY <1>12 DEF ReadHead, StartReply
  <2> QED
    BY <2>1, NoneIsNotPrivate
<1>13. ASSUME NEW c \in Clients, NEW a \in {"public", "private"}, ConnectUpstream(c, a) PROVE UpstreamInv'
  <2>1. a = "private" => Rewrite /\ IsFixture(Target(req[c]))
    BY <1>13, PrivateIsFixture DEF ConnectUpstream
  <2>2. /\ req' = req /\ upstream'[c] = a /\ pc'[c] \in {"established", "request"}
        /\ \A d \in Clients \ {c} : upstream'[d] = upstream[d] /\ pc'[d] = pc[d]
    BY <1>13 DEF ConnectUpstream, StartReply
  <2> QED
    BY <2>1, <2>2
<1>14. ASSUME NEW c \in Clients, NEW n \in 0..Limit, SocketSends(c, n) PROVE UpstreamInv'
  BY <1>14, SendReturnsUpstream DEF SocketSends
<1>15. CASE UNCHANGED <<pc, req, upstream>>
  BY <1>15
<1>16. CASE Make \/ StopAll \/ PushTask \/ AcceptReturns \/ JoinAccept \/ ResetAccept
            \/ TakeTasks \/ JoinTasks
  BY <1>15, <1>16 DEF Make, StopAll, PushTask, AcceptReturns, JoinAccept, ResetAccept,
     TakeTasks, JoinTasks
<1>17. CASE Expire
  BY <1>15, <1>17 DEF Expire
<1>18. ASSUME NEW c \in Clients,
             Claim(c) \/ DownEnds(c) \/ UpEnds(c)
      PROVE  UpstreamInv'
  BY <1>15, <1>18 DEF Claim, DownEnds, UpEnds
<1>19. ASSUME NEW c \in Clients, NEW n \in 1..MaxChunk,
             Receive(c, n)
      PROVE  UpstreamInv'
  BY <1>15, <1>19 DEF Receive
<1>20. CASE UNCHANGED proxyVars
  BY <1>15, <1>20 DEF proxyVars
<1> QED
  BY <1>1, <1>2, <1>3, <1>4, <1>5, <1>6, <1>7, <1>8, <1>9, <1>10, <1>11, <1>12, <1>13,
     <1>14, <1>15, <1>16, <1>17, <1>18, <1>19, <1>20 DEF Next, HandlerTask, UpTask,
     Network, AcceptTask, AcceptEnds, AcceptFails, StopTask, Over

(* Before Make nothing is claimed, sent or running.                        *)
LEMMA ProxyInvInit == NoProxy => ProxyInv
<1> SUFFICES ASSUME NoProxy PROVE ProxyInv
  OBVIOUS
<1>1. 0 \in 0..Limit /\ 0 \in 0..(MaxChunk + ReplyBytes)
  BY SizesAreNumbers
<1>2. HandlerTypeOK
  BY <1>1 DEF NoProxy, HandlerTypeOK, HandlerPCs, SendPCs
<1>3. EgressTypeOK
  BY <1>1, <1>2 DEF NoProxy, EgressTypeOK, AcceptPCs, StopPCs, Errors
<1>4. SendInv
  BY <1>1 DEF NoProxy, SendInv, SendOk, Sending
<1>5. LeakInv
  BY SizesAreNumbers DEF NoProxy, LeakInv, LeakOk
<1>6. BudgetInv
  <2>1. BytesOf(claim) = {}
    BY SizesAreNumbers DEF NoProxy, BytesOf
  <2> QED
    BY <2>1, FS_EmptySet DEF NoProxy, BudgetInv
<1>7. TaskInv
  BY DEF NoProxy, TaskInv
<1>8. UpstreamInv
  BY NoneIsNotPrivate DEF NoProxy, UpstreamInv, OnlyPublicOrFixture
<1> QED
  BY <1>3, <1>4, <1>5, <1>6, <1>7, <1>8 DEF ProxyInv

(* The invariant holds in every reachable state.                           *)
THEOREM ProxyInvariant == Spec => []ProxyInv
<1>1. ProxyInv /\ [Next]_proxyVars => ProxyInv'
  BY TypeProxyStep, SendStep, LeakStep, BudgetStep, TaskStep, UpstreamStep DEF ProxyInv
<1> QED
  BY <1>1, ProxyInvInit, PTL DEF Spec

-----------------------------------------------------------------------------
(***************************************************************************)
(* What the runs check.                                                    *)
(***************************************************************************)

(* The counter of the budget is what sends reported and what is claimed by *)
(* the sends under way, through every failure, and keeps to the limit.     *)
THEOREM BudgetIsAlwaysExact == Spec => []BudgetIsExact
<1>1. ProxyInv => BudgetIsExact
  BY DEF ProxyInv, BudgetInv, BudgetIsExact
<1> QED
  BY <1>1, ProxyInvariant, PTL

(* What a connection may have been sent without counting is its CONNECT    *)
(* reply and one chunk at most.                                            *)
THEOREM UncountedStaysBounded == Spec => []UncountedIsBounded
<1>1. ProxyInv => UncountedIsBounded
  <2> SUFFICES ASSUME ProxyInv, NEW c \in Clients PROVE leak[c] <= ReplyBytes + MaxChunk
    BY DEF UncountedIsBounded
  <2>1. LeakOk(c) /\ leak[c] \in Nat
    BY DEF ProxyInv, LeakInv, EgressTypeOK
  <2> QED
    BY <2>1, SizesAreNumbers DEF LeakOk
<1> QED
  BY <1>1, ProxyInvariant, PTL

(* The browser reaches a private address only as a local fixture that its  *)
(* own request names, whatever names resolve to and whatever the parsers   *)
(* make of a request.                                                      *)
THEOREM PrivateOnlyAsFixture == Spec => []OnlyPublicOrFixture
<1>1. ProxyInv => OnlyPublicOrFixture
  BY DEF ProxyInv, UpstreamInv
<1> QED
  BY <1>1, ProxyInvariant, PTL

-----------------------------------------------------------------------------
(***************************************************************************)
(* The proxy implements ProxyService.                                      *)
(***************************************************************************)

(* A connection that goes on or ends is served.                            *)
LEMMA HandlerServes ==
    ASSUME NEW c \in Clients, pc[c] \notin {"away", "done"}, pc'[c] # "away",
           \A d \in Clients \ {c} : pc'[d] = pc[d],
           spc' = spc, apc' = apc, counter' \in 0..Limit,
           error' \in Errors, error # None => error' = error
    PROVE  Service!Next
<1> DEFINE live == {d \in Clients : pc[d] \notin {"away", "done"}}
           served == {d \in Clients : pc[d] = "done"}
<1>1. c \in live
  OBVIOUS
<1>2. live' = IF pc'[c] = "done" THEN live \ {c} ELSE live
  OBVIOUS
<1>3. served' = IF pc'[c] = "done" THEN served \cup {c} ELSE served
  OBVIOUS
<1>4. live' \in {live, live \ {c}} /\ served' = served \cup (live \ live')
  BY <1>1, <1>2, <1>3
<1>5. IF error = None THEN error' \in (Errors \ {None}) \cup {None} ELSE error' = error
  OBVIOUS
<1>6. Service!Serve(c)
  BY <1>1, <1>4, <1>5 DEF Service!Serve
<1> QED
  BY <1>6 DEF Service!Next

(* What SendBudgeted's callers do next concerns their connection alone.    *)
LEMMA SendReturnsMoves ==
    ASSUME HandlerTypeOK, NEW c \in Clients, NEW sent, NEW stop, pc[c] # "away",
           SendReturns(c, sent, stop)
    PROVE  pc'[c] # "away" /\ \A d \in Clients \ {c} : pc'[d] = pc[d]
BY DEF HandlerTypeOK, SendReturns, Finish, handlerVars

(* The first error is kept.                                                *)
LEMMA FirstErrorIsKept ==
    ASSUME error \in Errors, NEW kind \in Errors, NoteError(kind)
    PROVE  error' \in Errors /\ (error # None => error' = error)
BY DEF NoteError

(* Every step of the tasks is a step of the service, or none.              *)
LEMMA ServiceStep ==
    ProxyInv /\ ProxyInv' /\ [Next]_proxyVars => [Service!Next]_Service!serviceVars
<1> SUFFICES ASSUME ProxyInv, ProxyInv', [Next]_proxyVars
             PROVE  Service!Next \/ UNCHANGED Service!serviceVars
  OBVIOUS
<1> DEFINE Goal == Service!Next \/ UNCHANGED Service!serviceVars
<1> USE DEF budgetVars, acceptVars, taskVars, stopVars, sharedVars, handlerVars, sendVars
<1>0. /\ HandlerTypeOK /\ error \in Errors /\ counter' \in 0..Limit /\ counter \in 0..Limit
      /\ HandlerTypeOK'
  BY DEF ProxyInv, EgressTypeOK
<1>1. CASE UNCHANGED <<spc, apc, pc, counter, error>>
  BY <1>1 DEF Service!serviceVars
<1>2. CASE Make
  <2>1. Service!Open
    BY <1>2 DEF Make, Service!Open
  <2> QED
    BY <2>1 DEF Service!Next
<1>3. CASE StopAll
  <2>1. Service!BeginStop
    BY <1>3 DEF StopAll, Service!BeginStop
  <2> QED
    BY <2>1 DEF Service!Next
<1>4. CASE AcceptReturns
  <2>1. Service!GiveUpAccepting
    BY <1>4 DEF AcceptReturns, Service!GiveUpAccepting
  <2> QED
    BY <2>1 DEF Service!Next
<1>5. CASE PushTask
  BY <1>5 DEF PushTask, Service!serviceVars
<1>6. CASE JoinAccept
  BY <1>6 DEF JoinAccept, Service!serviceVars
<1>7. CASE ResetAccept
  BY <1>7 DEF ResetAccept, Service!serviceVars, ProxyInv, TaskInv
<1>8. CASE TakeTasks
  BY <1>8 DEF TakeTasks, Service!serviceVars
<1>9. CASE JoinTasks
  <2>1. apc \notin {"accept", "push"} /\ acur = None /\ tasks = {}
    BY <1>9 DEF JoinTasks, ProxyInv, TaskInv
  <2>2. \A d \in Clients : pc[d] \in {"away", "done"}
    BY <1>9, <2>1, NoneIsNoClient DEF JoinTasks, ProxyInv, TaskInv
  <2>3. Service!Close
    BY <1>9, <2>1, <2>2 DEF JoinTasks, Service!Close
  <2> QED
    BY <2>3 DEF Service!Next
<1>10. ASSUME NEW c \in Clients, AcceptClient(c) PROVE Goal
  <2>1. spc \in {"serving", "join accept"} /\ spc' = spc
    BY <1>10 DEF AcceptClient, ProxyInv, TaskInv
  <2>2. pc[c] = "away" /\ pc'[c] = "start" /\ \A d \in Clients \ {c} : pc'[d] = pc[d]
    BY <1>0, <1>10 DEF AcceptClient, HandlerTypeOK
  <2>3. apc = "accept" /\ apc' = "push" /\ UNCHANGED <<counter, error>>
    BY <1>10 DEF AcceptClient
  <2>4. /\ {d \in Clients : pc'[d] \notin {"away", "done"}}
             = {d \in Clients : pc[d] \notin {"away", "done"}} \cup {c}
        /\ {d \in Clients : pc'[d] = "done"} = {d \in Clients : pc[d] = "done"}
    BY <2>2
  <2>5. Service!Accept(c)
    <3> DEFINE state == CASE spc \in {"absent", "serving", "closed", "dead"} -> spc
                          [] OTHER -> "stopping"
               accepting == apc \in {"accept", "push"}
    <3>1. state \in {"serving", "stopping"} /\ state' = state
      BY <2>1
    <3>2. accepting /\ accepting' = accepting
      BY <2>3
    <3>3. c \notin {d \in Clients : pc[d] \notin {"away", "done"}} \cup {d \in Clients : pc[d] = "done"}
      BY <2>2
    <3> QED
      BY <2>3, <2>4, <3>1, <3>2, <3>3 DEF Service!Accept
  <2> QED
    BY <2>5 DEF Service!Next
<1>11. ASSUME NEW c \in Clients, DataRace(c) PROVE Goal
  <2>1. pc[c] \notin {"away", "done"}
    BY <1>11 DEF DataRace, ProxyInv, SendInv, SendOk, Sending, Copying
  <2>2. /\ {d \in Clients : pc'[d] \notin {"away", "done"}} = {}
        /\ {d \in Clients : pc'[d] = "done"} = Clients
    BY <1>11 DEF DataRace
  <2>3. /\ spc = "reset" /\ spc' = "dead" /\ apc' = "none" /\ UNCHANGED <<counter, error>>
    BY <1>11 DEF DataRace
  <2>4. Service!Die
    BY <2>1, <2>2, <2>3 DEF Service!Die
  <2> QED
    BY <2>4 DEF Service!Next
<1>12. ASSUME NEW c \in Clients, EnterHandler(c) \/ LoseHead(c) \/ CancelCopies(c) \/ CopiesDone(c)
       PROVE  Goal
  <2>1. /\ pc[c] \notin {"away", "done"} /\ pc'[c] # "away" /\ UNCHANGED <<spc, apc, error>>
        /\ \A d \in Clients \ {c} : pc'[d] = pc[d]
    BY <1>0, <1>12 DEF EnterHandler, LoseHead, CancelCopies, CopiesDone, Finish, HandlerTypeOK
  <2> QED
    BY <1>0, <2>1, HandlerServes
<1>13. ASSUME NEW c \in Clients, NEW r \in Requests, ReadHead(c, r) PROVE Goal
  <2>1. /\ pc[c] \notin {"away", "done"} /\ pc'[c] # "away" /\ UNCHANGED <<spc, apc, error>>
        /\ \A d \in Clients \ {c} : pc'[d] = pc[d]
    BY <1>0, <1>13 DEF ReadHead, StartReply, HandlerTypeOK
  <2> QED
    BY <1>0, <2>1, HandlerServes
<1>14. ASSUME NEW c \in Clients, NEW a \in {"public", "private"}, ConnectUpstream(c, a) PROVE Goal
  <2>1. /\ pc[c] \notin {"away", "done"} /\ pc'[c] # "away" /\ UNCHANGED <<spc, apc, error>>
        /\ \A d \in Clients \ {c} : pc'[d] = pc[d]
    BY <1>0, <1>14 DEF ConnectUpstream, StartReply, HandlerTypeOK
  <2> QED
    BY <1>0, <2>1, HandlerServes
<1>15. ASSUME NEW c \in Clients, ConnectFails(c) \/ SendRequest(c) PROVE Goal
  <2>1. /\ pc[c] \notin {"away", "done"} /\ pc'[c] # "away" /\ UNCHANGED <<spc, apc>>
        /\ \A d \in Clients \ {c} : pc'[d] = pc[d]
    BY <1>0, <1>15 DEF ConnectFails, SendRequest, StartReply, HandlerTypeOK
  <2>2. error' \in Errors /\ (error # None => error' = error)
    BY <1>0, <1>15, FirstErrorIsKept DEF ConnectFails, SendRequest, Errors
  <2> QED
    BY <1>0, <2>1, <2>2, HandlerServes
<1>16. ASSUME NEW c \in Clients, NEW sent, NEW stop, SendReturns(c, sent, stop), snd[c] # "idle",
              UNCHANGED <<spc, apc>>, error' \in Errors, error # None => error' = error
       PROVE  Goal
  <2>1. pc[c] \notin {"away", "done"}
    BY <1>0, <1>16 DEF ProxyInv, SendInv, SendOk, Sending, Copying, HandlerTypeOK, SendPCs
  <2>2. pc'[c] # "away" /\ \A d \in Clients \ {c} : pc'[d] = pc[d]
    BY <1>0, <1>16, <2>1, SendReturnsMoves
  <2> QED
    BY <1>0, <1>16, <2>1, <2>2, HandlerServes
<1>17. ASSUME NEW c \in Clients, SendCheck(c) PROVE Goal
  BY <1>0, <1>1, <1>16, <1>17 DEF SendCheck
<1>18. ASSUME NEW c \in Clients, TripLimit(c) PROVE Goal
  <2>1. error' \in Errors /\ (error # None => error' = error)
    BY <1>0, <1>18, FirstErrorIsKept DEF TripLimit, Errors
  <2> QED
    BY <1>16, <1>18, <2>1 DEF TripLimit
<1>19. ASSUME NEW c \in Clients, NEW n \in 0..Limit, SocketSends(c, n) PROVE Goal
  BY <1>0, <1>16, <1>19 DEF SocketSends
<1>20. ASSUME NEW c \in Clients, SocketFails(c) PROVE Goal
  BY <1>0, <1>16, <1>20 DEF SocketFails
<1>21. ASSUME NEW c \in Clients, Claim(c) PROVE Goal
  <2>1. pc[c] \notin {"away", "done"} /\ UNCHANGED <<spc, apc, error, pc>>
    BY <1>21 DEF Claim, ProxyInv, SendInv, SendOk, Sending, Copying
  <2> QED
    BY <1>0, <2>1, HandlerServes
<1>22. ASSUME NEW c \in Clients, DownEnds(c) \/ UpEnds(c) PROVE Goal
  BY <1>1, <1>22 DEF DownEnds, UpEnds
<1>23. ASSUME NEW c \in Clients, NEW n \in 1..MaxChunk, Receive(c, n) PROVE Goal
  BY <1>1, <1>23 DEF Receive
<1>24. CASE Expire \/ UNCHANGED proxyVars
  BY <1>1, <1>24 DEF Expire, proxyVars
<1> QED
  BY <1>2, <1>3, <1>4, <1>5, <1>6, <1>7, <1>8, <1>9, <1>10, <1>11, <1>12, <1>13, <1>14, <1>15,
     <1>17, <1>18, <1>19, <1>20, <1>21, <1>22, <1>23, <1>24
     DEF Next, HandlerTask, UpTask, Network, AcceptTask, AcceptEnds, AcceptFails, StopTask, Over

(* The proxy implements what a browser session relies on: once StopAll has *)
(* returned no task runs and none can start, and neither the byte count    *)
(* nor the error changes any more.                                         *)
THEOREM ProxyImplementsService == Spec => ServiceHolds
<1>1. NoProxy => Service!Init
  BY DEF NoProxy, Service!Init
<1> QED
  BY <1>1, ProxyInvariant, ServiceStep, PTL DEF Spec, ServiceHolds, Service!Spec

-----------------------------------------------------------------------------
(***************************************************************************)
(* The parser of authorities.  First and last positions: the library's     *)
(* induction theorems take an operator; that the naturals are well founded *)
(* serves as well.                                                         *)
(***************************************************************************)

(* The order of the naturals.                                              *)
Lower == {pair \in Nat \X Nat : pair[1] < pair[2]}

(* The order of the naturals is well founded.                              *)
LEMMA LowerIsWellFounded == IsWellFoundedOn(Lower, Nat)
BY NatLessThanWellFounded DEF OpToRel, Lower

(* Every nonempty set of positions has a first one.                        *)
LEMMA FirstPosition ==
    ASSUME NEW n \in Nat, NEW T, T \subseteq 1..n, T # {}
    PROVE  \E i \in T : \A k \in T : i <= k
<1>1. T \subseteq Nat
  OBVIOUS
<1>2. PICK i \in T : \A k \in T : <<k, i>> \notin Lower
  BY <1>1, WFMin, LowerIsWellFounded
<1>3. \A k \in T : ~(k < i)
  BY <1>1, <1>2 DEF Lower
<1>4. \A k \in T : i <= k
  BY <1>1, <1>3
<1> QED
  BY <1>4

(* And a last one.                                                         *)
LEMMA LastPosition ==
    ASSUME NEW n \in Nat, NEW T, T \subseteq 1..n, T # {}
    PROVE  \E i \in T : \A k \in T : k <= i
<1> DEFINE R == {(n - i) + 1 : i \in T}
<1>1. R \subseteq 1..n /\ R # {}
  <2>1. \A i \in T : (n - i) + 1 \in 1..n
    OBVIOUS
  <2> QED
    BY <2>1
<1>2. PICK m \in R : \A k \in R : m <= k
  BY <1>1, FirstPosition
<1>3. PICK i \in T : m = (n - i) + 1
  OBVIOUS
<1>4. ASSUME NEW k \in T PROVE k <= i
  <2>1. m <= (n - k) + 1
    BY <1>2
  <2> QED
    BY <1>3, <2>1
<1> QED
  BY <1>4

-----------------------------------------------------------------------------
(***************************************************************************)
(* What the parser looks for in a text.                                    *)
(***************************************************************************)

(* Where a character is first.                                             *)
IsFirst(s, ch, i) == i \in 1..Len(s) /\ s[i] = ch /\ \A k \in 1..(i - 1) : s[k] # ch

(* What FindFirst finds.                                                   *)
LEMMA FindFirstMeaning ==
    ASSUME NEW S, NEW s \in Seq(S), NEW ch
    PROVE  IF \E i \in 1..Len(s) : s[i] = ch THEN IsFirst(s, ch, FindFirst(s, ch))
           ELSE FindFirst(s, ch) = 0
<1> DEFINE n == Len(s)
           T == {i \in 1..n : s[i] = ch}
<1>1. n \in Nat /\ DOMAIN s = 1..n
  OBVIOUS
<1>2. CASE \E i \in 1..n : s[i] = ch
  <2>1. PICK i \in T : \A k \in T : i <= k
    <3>1. T \subseteq 1..n /\ T # {}
      BY <1>2
    <3> HIDE DEF T
    <3> QED
      BY <1>1, <3>1, FirstPosition
  <2>2. \A k \in 1..(i - 1) : s[k] # ch
    <3> SUFFICES ASSUME NEW k \in 1..(i - 1), s[k] = ch PROVE FALSE
      OBVIOUS
    <3>1. k \in T /\ ~(i <= k)
      BY <1>1
    <3> QED
      BY <2>1, <3>1
  <2>3. \E j \in DOMAIN s : s[j] = ch /\ \A k \in 1..(j - 1) : s[k] # ch
    BY <1>1, <2>2
  <2>4. FindFirst(s, ch) = CHOOSE j \in DOMAIN s : s[j] = ch /\ \A k \in 1..(j - 1) : s[k] # ch
    BY <1>1, <1>2 DEF FindFirst
  <2> QED
    BY <1>1, <1>2, <2>3, <2>4 DEF IsFirst
<1>3. CASE ~ \E i \in 1..n : s[i] = ch
  BY <1>1, <1>3 DEF FindFirst
<1> QED
  BY <1>2, <1>3

(* The first place of a character is the last only if it is the only one.  *)
LEMMA FindLastMeaning ==
    ASSUME NEW S, NEW s \in Seq(S), NEW ch, NEW i, IsFirst(s, ch, i)
    PROVE  FindLast(s, ch) = i <=> \A k \in (i + 1)..Len(s) : s[k] # ch
<1> DEFINE n == Len(s)
           r == Reverse(s)
           g == FindFirst(r, ch)
<1>1. n \in Nat /\ i \in 1..n /\ s[i] = ch /\ \A k \in 1..(i - 1) : s[k] # ch
  BY DEF IsFirst
<1>2. r = [k \in 1..n |-> s[(n - k) + 1]]
  BY DEF Reverse
<1>3. \A k \in 1..n : (n - k) + 1 \in 1..n
  BY <1>1
<1>4. r \in Seq(S) /\ Len(r) = n /\ \A k \in 1..n : r[k] = s[(n - k) + 1]
  BY <1>1, <1>2, <1>3
<1>5. \E k \in 1..Len(r) : r[k] = ch
  <2> DEFINE m == (n - i) + 1
  <2>1. m \in 1..n /\ (n - m) + 1 = i
    BY <1>1
  <2> HIDE DEF m, n, r
  <2>2. r[m] = ch
    BY <1>1, <1>4, <2>1
  <2> QED
    BY <1>4, <2>1, <2>2
<1> HIDE DEF r
<1>6. IsFirst(r, ch, g)
  BY <1>4, <1>5, FindFirstMeaning
<1>7. FindFirst(s, ch) # 0
  BY <1>1, FindFirstMeaning DEF IsFirst
<1>8. FindLast(s, ch) = n + 1 - g
  BY <1>7 DEF FindLast, r
<1> HIDE DEF n, g
<1>9. g \in 1..n /\ r[g] = ch /\ \A k \in 1..(g - 1) : r[k] # ch
  BY <1>4, <1>6 DEF IsFirst
<1> DEFINE f == n + 1 - g
<1>10. f \in 1..n /\ f = (n - g) + 1 /\ s[f] = ch
  BY <1>1, <1>4, <1>9
<1>11. ASSUME NEW k \in (f + 1)..n PROVE s[k] # ch
  <2> DEFINE j == (n - k) + 1
  <2>1. j \in 1..(g - 1) /\ j \in 1..n /\ (n - j) + 1 = k
    BY <1>1, <1>9
  <2> HIDE DEF j
  <2>2. r[j] # ch /\ r[j] = s[k]
    BY <1>4, <1>9, <2>1
  <2> QED
    BY <2>2
<1> HIDE DEF f
<1>12. ASSUME f = i PROVE \A k \in (i + 1)..n : s[k] # ch
  BY <1>11, <1>12
<1>13. ASSUME \A k \in (i + 1)..n : s[k] # ch PROVE f = i
  <2>1. ~(f < i)
    BY <1>1, <1>10
  <2>2. ~(f > i)
    BY <1>1, <1>10, <1>13
  <2> QED
    BY <1>1, <1>10, <2>1, <2>2
<1> QED
  BY <1>8, <1>12, <1>13 DEF f, n

(* A trimmed text is a text.                                               *)
LEMMA TrimIsText ==
    ASSUME NEW s \in Seq(Characters)
    PROVE  TrimView(s) \in Seq(Characters)
<1> DEFINE Kept == {i \in DOMAIN s : s[i] # " "}
           first == CHOOSE i \in Kept : \A k \in Kept : i <= k
           last == CHOOSE i \in Kept : \A k \in Kept : k <= i
<1>1. Len(s) \in Nat /\ Kept \subseteq 1..Len(s)
  <2>1. Len(s) \in Nat /\ DOMAIN s = 1..Len(s)
    OBVIOUS
  <2> QED
    BY <2>1
<1>2. TrimView(s) = IF Kept = {} THEN <<>> ELSE SubSeq(s, first, last)
  BY DEF TrimView
<1> HIDE DEF Kept
<1>3. CASE Kept = {}
  BY <1>2, <1>3
<1>4. CASE Kept # {}
  <2>1. first \in Kept
    <3>1. \E i \in Kept : \A k \in Kept : i <= k
      BY <1>1, <1>4, FirstPosition
    <3> QED
      BY <3>1
  <2>2. last \in Kept
    <3>1. \E i \in Kept : \A k \in Kept : k <= i
      BY <1>1, <1>4, LastPosition
    <3> QED
      BY <3>1
  <2> HIDE DEF first, last
  <2>3. first \in 1..Len(s) /\ last \in 1..Len(s)
    BY <1>1, <2>1, <2>2
  <2>4. SubSeq(s, first, last) \in Seq(Characters)
    BY <2>3
  <2> QED
    BY <1>2, <1>4, <2>4
<1> QED
  BY <1>3, <1>4

-----------------------------------------------------------------------------
(***************************************************************************)
(* The parser and the grammar, split alike into places where a host ends   *)
(* and what is made of a host and what follows it.                         *)
(***************************************************************************)

(* What the parser makes of a host and what follows it.                    *)
Outcome(host, rest, default, required) ==
    IF rest = <<>> THEN IF required THEN None ELSE [host |-> host, port |-> default]
    ELSE IF rest[1] # ":" \/ ParsePort(Tail(rest)) = None THEN None
    ELSE [host |-> host, port |-> ParsePort(Tail(rest))]

(* What the grammar makes of them.                                         *)
Forms(host, rest, default, required) ==
    LET Ports == IF rest = <<>> THEN IF required THEN {} ELSE {default}
                 ELSE IF rest[1] = ":" THEN {ParsePort(Tail(rest))} \ {None} ELSE {}
    IN  {[host |-> host, port |-> p] : p \in Ports}

(* An outcome as a set.                                                    *)
Only(parsed) == IF parsed = None THEN {} ELSE {parsed}

(* A port is a number that a u16 holds.                                    *)
LEMMA PortMeaning ==
    ASSUME NEW text
    PROVE  ParsePort(text) \in 1..PortMax \cup {None}
<1>1. ParseNumber(text, PortMax) \in 0..PortMax \cup {None}
  BY DEF ParseNumber
<1> QED
  BY <1>1, PortAssumption DEF ParsePort

(* The two agree.                                                          *)
LEMMA OutcomeMeaning ==
    ASSUME NEW host \in Seq(Characters), NEW rest, NEW default \in 0..PortMax,
           NEW required \in BOOLEAN
    PROVE  Forms(host, rest, default, required) = Only(Outcome(host, rest, default, required))
<1> DEFINE port == ParsePort(Tail(rest))
<1>1. port \in 1..PortMax \cup {None}
  BY PortMeaning
<1> HIDE DEF port
<1>2. \A p \in 0..PortMax : [host |-> host, port |-> p] # None
  BY NoAuthorityAssumption DEF Authorities
<1>3. 1..PortMax \subseteq 0..PortMax
  BY PortAssumption
<1>4. CASE rest = <<>>
  BY <1>2, <1>4 DEF Forms, Outcome, Only
<1>5. CASE rest # <<>> /\ (rest[1] # ":" \/ port = None)
  BY <1>5 DEF Forms, Outcome, Only, port
<1>6. CASE rest # <<>> /\ rest[1] = ":" /\ port # None
  <2>1. [host |-> host, port |-> port] # None
    BY <1>1, <1>2, <1>3, <1>6
  <2>2. Outcome(host, rest, default, required) = [host |-> host, port |-> port]
    BY <1>6 DEF Outcome, port
  <2>3. Forms(host, rest, default, required) = {[host |-> host, port |-> port]}
    BY <1>6 DEF Forms, port
  <2> QED
    BY <2>1, <2>2, <2>3 DEF Only
<1> QED
  BY <1>4, <1>5, <1>6

(* What the parser makes of a trimmed text.                                *)
ParsedOf(a, default, required) ==
    LET bracketed == a # <<>> /\ a[1] = "["
        close     == FindFirst(a, "]")
        colon     == FindFirst(a, ":")
        hostEnd   == IF bracketed THEN close - 1 ELSE IF colon = 0 THEN Len(a) ELSE colon - 1
        host      == SubSeq(a, IF bracketed THEN 2 ELSE 1, hostEnd)
        remainder == From(a, IF bracketed THEN close + 1 ELSE hostEnd + 1)
    IN  IF \/ a = <<>>
           \/ bracketed /\ close = 0
           \/ ~bracketed /\ colon # FindLast(a, ":")
           \/ host = <<>>
        THEN None ELSE Outcome(host, remainder, default, required)

(* ParseAuthority looks at the trimmed text only.                          *)
LEMMA ParseByParsed ==
    ASSUME NEW text, NEW default, NEW required
    PROVE  ParseAuthority(text, default, required) = ParsedOf(TrimView(text), default, required)
BY DEF ParseAuthority, ParsedOf, Outcome

(* Where a host in brackets may end.                                       *)
Closes(a) == {k \in 3..Len(a) : a[k] = "]" /\ "]" \notin ToSet(SubSeq(a, 2, k - 1))}

(* Where any other host may end.                                           *)
Opens(a) == {k \in 1..Len(a) : ":" \notin ToSet(SubSeq(a, 1, k))}

(* The grammar by those places.                                            *)
LEMMA FormsByPlaces ==
    ASSUME NEW a, NEW default, NEW required
    PROVE  AuthorityForms(a, default, required) =
              IF a # <<>> /\ a[1] = "["
              THEN UNION {Forms(SubSeq(a, 2, i - 1), From(a, i + 1), default, required) :
                              i \in Closes(a)}
              ELSE UNION {Forms(SubSeq(a, 1, i), From(a, i + 1), default, required) :
                              i \in Opens(a)}
BY DEF AuthorityForms, Forms, Closes, Opens

(* The characters of a part of a text.                                     *)
LEMMA PartMeaning ==
    ASSUME NEW S, NEW a \in Seq(S), NEW i \in Nat, NEW k \in Nat, i >= 1, k <= Len(a), NEW ch
    PROVE  /\ SubSeq(a, i, k) \in Seq(S)
           /\ ch \notin ToSet(SubSeq(a, i, k)) <=> \A j \in i..k : a[j] # ch
           /\ SubSeq(a, i, k) = <<>> <=> k < i
<1> DEFINE p == SubSeq(a, i, k)
           n == IF i <= k THEN (k - i) + 1 ELSE 0
<1>1. p \in Seq(S) /\ Len(p) = n /\ \A j \in 1..n : p[j] = a[(i + j) - 1]
  OBVIOUS
<1>2. n \in Nat
  OBVIOUS
<1> HIDE DEF p
<1>3. DOMAIN p = 1..n
  BY <1>1
<1>4. ToSet(p) = {p[j] : j \in 1..n}
  BY <1>3 DEF ToSet
<1>5. ASSUME ch \notin ToSet(p), NEW j \in i..k PROVE a[j] # ch
  <2> DEFINE m == (j - i) + 1
  <2>1. m \in 1..n /\ (i + m) - 1 = j
    OBVIOUS
  <2> HIDE DEF m, n
  <2> QED
    BY <1>1, <1>4, <1>5, <2>1
<1>6. ASSUME \A j \in i..k : a[j] # ch PROVE ch \notin ToSet(p)
  <2>1. \A j \in 1..n : (i + j) - 1 \in i..k
    OBVIOUS
  <2> HIDE DEF n
  <2> QED
    BY <1>1, <1>4, <1>6, <2>1
<1>7. p = <<>> <=> n = 0
  <2> HIDE DEF n
  <2> QED
    BY <1>1, <1>2
<1> QED
  BY <1>1, <1>5, <1>6, <1>7 DEF p

(* The rest of a text.                                                     *)
LEMMA FromMeaning ==
    ASSUME NEW S, NEW a \in Seq(S), NEW i \in Nat, i >= 1, i <= Len(a) + 1
    PROVE  /\ From(a, i) = <<>> <=> i = Len(a) + 1
           /\ i <= Len(a) => From(a, i)[1] = a[i] /\ Tail(From(a, i)) = SubSeq(a, i + 1, Len(a))
<1> DEFINE n == Len(a)
           p == SubSeq(a, i, n)
           m == (n - i) + 1
<1>1. n \in Nat /\ m \in Nat /\ p \in Seq(S) /\ Len(p) = m /\ \A j \in 1..m : p[j] = a[(i + j) - 1]
  OBVIOUS
<1>2. p = <<>> <=> m = 0
  <2> HIDE DEF p, m
  <2> QED
    BY <1>1
<1>3. ASSUME i <= n PROVE p[1] = a[i] /\ Tail(p) = SubSeq(a, i + 1, n)
  <2>1. 1 \in 1..m /\ (i + 1) - 1 = i
    BY <1>3
  <2>2. p[1] = a[i]
    BY <1>1, <2>1
  <2>3. Tail(p) = SubSeq(a, i + 1, n)
    BY <1>3
  <2> QED
    BY <2>2, <2>3
<1> QED
  BY <1>2, <1>3 DEF From

(* A text in brackets.                                                     *)
LEMMA BracketedAgrees ==
    ASSUME NEW a \in Seq(Characters), a # <<>>, a[1] = "[", NEW default \in 0..PortMax,
           NEW required \in BOOLEAN
    PROVE  AuthorityForms(a, default, required) = Only(ParsedOf(a, default, required))
<1> DEFINE n == Len(a)
           close == FindFirst(a, "]")
           F(i) == Forms(SubSeq(a, 2, i - 1), From(a, i + 1), default, required)
<1>1. n \in Nat /\ n >= 1
  OBVIOUS
<1>2. AuthorityForms(a, default, required) = UNION {F(i) : i \in Closes(a)}
  BY FormsByPlaces
<1>3. ParsedOf(a, default, required) =
         IF close = 0 \/ SubSeq(a, 2, close - 1) = <<>> THEN None
         ELSE Outcome(SubSeq(a, 2, close - 1), From(a, close + 1), default, required)
  BY DEF ParsedOf
<1>4. \A k \in 3..n : k \in Closes(a) <=> a[k] = "]" /\ \A j \in 2..(k - 1) : a[j] # "]"
  <2> SUFFICES ASSUME NEW k \in 3..n
               PROVE  "]" \notin ToSet(SubSeq(a, 2, k - 1)) <=> \A j \in 2..(k - 1) : a[j] # "]"
    BY DEF Closes
  <2>1. 2 \in Nat /\ k - 1 \in Nat /\ 2 >= 1 /\ k - 1 <= Len(a)
    BY <1>1
  <2> QED
    BY <2>1, PartMeaning
<1>5. Closes(a) \subseteq 3..n
  BY DEF Closes
<1> HIDE DEF n, close, F
<1>6. CASE ~ \E i \in 1..n : a[i] = "]"
  <2>1. close = 0
    BY <1>6, FindFirstMeaning DEF close, n
  <2>2. Closes(a) = {}
    BY <1>1, <1>4, <1>5, <1>6
  <2> QED
    BY <1>2, <1>3, <2>1, <2>2 DEF Only
<1>7. CASE \E i \in 1..n : a[i] = "]"
  <2>1. close \in 1..n /\ a[close] = "]" /\ \A k \in 1..(close - 1) : a[k] # "]"
    BY <1>7, FindFirstMeaning DEF close, n, IsFirst
  <2>2. close >= 2
    <3>1. "[" # "]"
      OBVIOUS
    <3> QED
      BY <1>1, <2>1, <3>1
  <2>3. close - 1 \in Nat /\ close - 1 <= n /\ 2 \in Nat /\ 2 >= 1
    BY <1>1, <2>1, <2>2
  <2>4. SubSeq(a, 2, close - 1) \in Seq(Characters)
        /\ (SubSeq(a, 2, close - 1) = <<>> <=> close - 1 < 2)
    BY <2>3, PartMeaning DEF n
  <2>5. CASE close = 2
    <3>1. Closes(a) = {}
      BY <1>1, <1>4, <1>5, <2>1, <2>5
    <3>2. SubSeq(a, 2, close - 1) = <<>>
      BY <2>4, <2>5
    <3> QED
      BY <1>2, <1>3, <3>1, <3>2 DEF Only
  <2>6. CASE close # 2
    <3>1. close \in 3..n /\ close # 0 /\ ~(close - 1 < 2)
      BY <1>1, <2>1, <2>2, <2>6
    <3>2. close \in Closes(a)
      BY <1>4, <2>1, <3>1
    <3>3. ASSUME NEW k \in Closes(a) PROVE k = close
      <4>1. k \in 3..n /\ a[k] = "]" /\ \A j \in 2..(k - 1) : a[j] # "]"
        BY <1>4, <1>5
      <4>2. ~(k < close)
        BY <1>1, <2>1, <4>1
      <4>3. ~(close < k)
        BY <1>1, <2>1, <3>1, <4>1
      <4> QED
        BY <1>1, <2>1, <4>1, <4>2, <4>3
    <3>4. Closes(a) = {close}
      BY <3>2, <3>3
    <3>5. AuthorityForms(a, default, required) = F(close)
      BY <1>2, <3>4
    <3>6. F(close) = Only(Outcome(SubSeq(a, 2, close - 1), From(a, close + 1), default, required))
      BY <2>4, OutcomeMeaning DEF F
    <3> QED
      BY <1>3, <2>4, <3>1, <3>5, <3>6
  <2> QED
    BY <2>5, <2>6
<1> QED
  BY <1>6, <1>7

(* A text with a colon is no port.                                         *)
LEMMA ColonIsNoPort ==
    ASSUME NEW text, ":" \in ToSet(text)
    PROVE  ParsePort(text) = None
<1>1. ~(ToSet(text) \subseteq {"0", "1"})
  OBVIOUS
<1>2. ParseNumber(text, PortMax) = None
  BY <1>1 DEF ParseNumber
<1> QED
  BY <1>2 DEF ParsePort

(* Any other text.                                                         *)
LEMMA UnbracketedAgrees ==
    ASSUME NEW a \in Seq(Characters), ~(a # <<>> /\ a[1] = "["), NEW default \in 0..PortMax,
           NEW required \in BOOLEAN
    PROVE  AuthorityForms(a, default, required) = Only(ParsedOf(a, default, required))
<1> DEFINE n == Len(a)
           colon == FindFirst(a, ":")
           last == FindLast(a, ":")
           e == IF colon = 0 THEN n ELSE colon - 1
           F(i) == Forms(SubSeq(a, 1, i), From(a, i + 1), default, required)
<1>1. n \in Nat /\ (a = <<>> => n = 0)
  OBVIOUS
<1>2. AuthorityForms(a, default, required) = UNION {F(i) : i \in Opens(a)}
  BY FormsByPlaces
<1>3. ParsedOf(a, default, required) =
         IF a = <<>> \/ colon # last \/ SubSeq(a, 1, e) = <<>> THEN None
         ELSE Outcome(SubSeq(a, 1, e), From(a, e + 1), default, required)
  BY DEF ParsedOf
<1>4. \A k \in 1..n : k \in Opens(a) <=> \A j \in 1..k : a[j] # ":"
  <2> SUFFICES ASSUME NEW k \in 1..n
               PROVE  ":" \notin ToSet(SubSeq(a, 1, k)) <=> \A j \in 1..k : a[j] # ":"
    BY DEF Opens
  <2>1. 1 \in Nat /\ k \in Nat /\ 1 >= 1 /\ k <= Len(a)
    BY <1>1
  <2> QED
    BY <2>1, PartMeaning
<1>5. Opens(a) \subseteq 1..n
  BY DEF Opens
<1>6. \/ colon = 0 /\ \A i \in 1..n : a[i] # ":"
      \/ colon \in 1..n /\ a[colon] = ":" /\ \A k \in 1..(colon - 1) : a[k] # ":"
  BY FindFirstMeaning DEF IsFirst
<1>7. colon = 0 => last = 0
  BY DEF FindLast
<1>8. colon # 0 => (last = colon <=> \A k \in (colon + 1)..n : a[k] # ":")
  <2> SUFFICES ASSUME colon # 0 PROVE last = colon <=> \A k \in (colon + 1)..n : a[k] # ":"
    OBVIOUS
  <2>1. IsFirst(a, ":", colon)
    BY FindFirstMeaning
  <2> QED
    BY <2>1, FindLastMeaning
<1> HIDE DEF n, colon, last, F
<1>9. e \in Nat /\ e <= n /\ \A j \in 1..e : a[j] # ":"
  BY <1>1, <1>6
<1>10. e < n => a[e + 1] = ":" /\ colon = e + 1
  BY <1>1, <1>6
<1> HIDE DEF e
<1>11. Opens(a) = 1..e
  <2>1. ASSUME NEW k \in Opens(a) PROVE k \in 1..e
    <3>1. k \in 1..n /\ \A j \in 1..k : a[j] # ":"
      BY <1>4, <1>5
    <3>2. ~(e < k)
      BY <1>1, <1>9, <1>10, <3>1
    <3> QED
      BY <1>1, <1>9, <3>1, <3>2
  <2>2. ASSUME NEW k \in 1..e PROVE k \in Opens(a)
    BY <1>1, <1>4, <1>9
  <2> QED
    BY <2>1, <2>2
<1>12. ASSUME NEW i \in 1..e, i # e PROVE F(i) = {}
  <2> DEFINE f == i + 1
  <2>1. f \in Nat /\ f >= 1 /\ f <= n + 1 /\ f <= n /\ f # n + 1 /\ f \in 1..e
    BY <1>1, <1>9, <1>12
  <2> HIDE DEF f
  <2>2. From(a, f) # <<>> /\ From(a, f)[1] = a[f]
    BY <2>1, FromMeaning DEF n
  <2>3. From(a, f)[1] # ":"
    BY <1>9, <2>1, <2>2
  <2> QED
    BY <2>2, <2>3 DEF F, Forms, f
<1>13. SubSeq(a, 1, e) \in Seq(Characters) /\ (SubSeq(a, 1, e) = <<>> <=> e < 1)
  <2>1. 1 \in Nat /\ 1 >= 1
    OBVIOUS
  <2> QED
    BY <1>9, <2>1, PartMeaning DEF n
<1>14. CASE e = 0
  <2>1. Opens(a) = {}
    BY <1>11, <1>14
  <2>2. ParsedOf(a, default, required) = None
    BY <1>3, <1>13, <1>14
  <2> QED
    BY <1>2, <2>1, <2>2 DEF Only
<1>15. CASE e # 0
  <2>1. e \in 1..e /\ ~(e < 1) /\ a # <<>>
    BY <1>1, <1>9, <1>15
  <2>2. AuthorityForms(a, default, required) = F(e)
    BY <1>2, <1>11, <1>12, <2>1
  <2>3. F(e) = Only(Outcome(SubSeq(a, 1, e), From(a, e + 1), default, required))
    BY <1>13, OutcomeMeaning DEF F
  <2>4. CASE colon = last
    BY <1>3, <1>13, <2>1, <2>2, <2>3, <2>4
  <2>5. CASE colon # last
    <3>1. colon \in 1..n /\ colon = e + 1 /\ e < n
      BY <1>1, <1>6, <1>7, <1>9, <1>10, <2>5 DEF e
    <3>2. \E k \in (colon + 1)..n : a[k] = ":"
      BY <1>1, <1>8, <2>5, <3>1
    <3>3. colon \in Nat /\ colon >= 1 /\ colon <= n + 1 /\ colon <= n /\ colon # n + 1
          /\ colon + 1 \in Nat /\ colon + 1 >= 1 /\ n <= n
      BY <1>1, <3>1
    <3>4. /\ From(a, colon) # <<>> /\ From(a, colon)[1] = a[colon]
          /\ Tail(From(a, colon)) = SubSeq(a, colon + 1, n)
      BY <3>3, FromMeaning DEF n
    <3>5. ":" \in ToSet(SubSeq(a, colon + 1, n))
      BY <1>1, <3>2, <3>3, PartMeaning DEF n
    <3>6. ParsePort(Tail(From(a, colon))) = None
      BY <3>4, <3>5, ColonIsNoPort
    <3>7. Outcome(SubSeq(a, 1, e), From(a, e + 1), default, required) = None
      BY <3>1, <3>4, <3>6 DEF Outcome
    <3> QED
      BY <1>3, <2>2, <2>3, <2>5, <3>7
  <2> QED
    BY <2>4, <2>5
<1> QED
  BY <1>14, <1>15

(* ParseAuthority finds the host and the port of every text of the         *)
(* grammar, of whatever length, and nothing in any other.                  *)
THEOREM AuthoritiesAreUnambiguous == AuthorityIsUnambiguous(Seq(Characters))
<1> SUFFICES ASSUME NEW text \in Seq(Characters), NEW default \in {0, HttpPort},
                    NEW required \in BOOLEAN
             PROVE  AuthorityForms(TrimView(text), default, required)
                       = Only(ParseAuthority(text, default, required))
  BY DEF AuthorityIsUnambiguous, Only
<1> DEFINE a == TrimView(text)
<1>1. a \in Seq(Characters) /\ default \in 0..PortMax
  BY TrimIsText, PortAssumption
<1> HIDE DEF a
<1>2. AuthorityForms(a, default, required) = Only(ParsedOf(a, default, required))
  BY <1>1, BracketedAgrees, UnbracketedAgrees
<1> QED
  BY <1>2, ParseByParsed DEF a

(* The parser is exact on the texts of any instance: the bound of the run  *)
(* plays no part.                                                          *)
THEOREM ParserStaysExact == Spec => []ParserIsExact
<1>1. SomeAuthorities \subseteq Seq(Characters)
  <2> SUFFICES ASSUME NEW s \in SomeAuthorities PROVE s \in Seq(Characters)
    OBVIOUS
  <2>1. PICK m \in 0..AuthorityLength : s \in [1..m -> Characters]
    BY DEF SomeAuthorities, SeqOf
  <2> QED
    BY <2>1, PortAssumption
<1>2. AuthorityIsUnambiguous(SomeAuthorities)
  BY <1>1, AuthoritiesAreUnambiguous DEF AuthorityIsUnambiguous
<1>3. ParserIsExact
  BY <1>2 DEF ParserIsExact
<1> QED
  BY <1>3, PTL
=============================================================================
