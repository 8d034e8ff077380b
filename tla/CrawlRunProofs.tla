--------------------------- MODULE CrawlRunProofs ---------------------------
(***************************************************************************)
(* Theorems about CrawlRun and the BrowserSession it uses, for every limit, *)
(* every set of runs with cgroups, any number of connections to the proxy, *)
(* with and without file faults, cancellations and trust databases.        *)
(***************************************************************************)
EXTENDS CrawlRun, Integers, TLAPS

-----------------------------------------------------------------------------
(***************************************************************************)
(* The inductive invariant, in parts.                                      *)
(***************************************************************************)

Early == {"paths", "files", "stage", "proxy"}
Making == Early \cup {"spawn", "devtools", "connect", "use"}

(* A proxy that is not there or is closed serves nobody.                   *)
ProxyInv ==
    /\ bytes \in 0..Limit /\ reason \in Reasons \cup {None}
    /\ state \in {"absent", "serving", "stopping", "closed"}
    /\ state \in {"absent", "closed"} => live = {}

(* What may be running in each phase of the session.                       *)
PhaseInv ==
    /\ phase \in Early => state = "absent"
    /\ phase \in {"spawn", "devtools", "connect", "use"} => state = "serving"
    /\ phase \in {"unregister", "signal", "wait", "stop proxy"} => state \in {"absent", "serving"}
    /\ phase \in {"remove", "left", "over"} => state \in {"absent", "closed"}
    /\ phase \in Early \cup {"spawn"} => wrapper = "none"
    /\ phase \in {"stop proxy", "join proxy", "remove", "left", "over"} =>
          wrapper \in {"none", "gone"}
    /\ phase \notin {"devtools", "connect", "use", "unregister"} => registered = {}
    /\ registered \subseteq {run}

DirExcuse == cancelled \/ "fault" \in excuses
CgroupExcuse == excuses \cap {"killed", "busy"} # {}

(* Directories: those of earlier attempts have their excuse, and so has    *)
(* one the destructor does not know of.                                    *)
DirsInv ==
    /\ phase \in {"stage", "proxy", "spawn", "devtools", "connect", "use"} => known
    /\ dirs \ {run} # {} => DirExcuse
    /\ (dirs # {} /\ phase # "files" /\ (~known \/ phase \in {"paths", "left", "over"})) =>
          DirExcuse

(* Cgroups: without an excuse there is at most that of the running wrapper. *)
CgroupInv ==
    /\ cgroups \ {run} # {} => CgroupExcuse
    /\ (cgroups # {} /\ wrapper \notin {"running", "cleaning"}) => CgroupExcuse

(* A crawl whose session was left has the result of an attempt.            *)
ResultInv ==
    /\ run \in {"https", "http", "probe"}
    /\ run # "probe" /\ phase \notin Making => result \in {Thrown} \cup Errors \cup Exchanges

(* A result that looks unanswered is that of a main document without a     *)
(* response, without a status, or with a 502.                              *)
Shown ==
    /\ result.end = "error" /\ IsNoResponseSeedError(result.probe) => heard \in {None, 0, 502}
    /\ result.end = "exchange" => result.status = heard

AnswerInv == run # "probe" /\ phase \notin Making => Shown

StoredInv ==
    /\ outcome = "none" <=> phase # "over"
    /\ outcome = "stored" =>
          /\ stored.status < 400 /\ stored.wacz <= MaxArchive
          /\ stored.bytes <= Ratio * stored.wacz /\ DownBytesLimit(stored.wacz) <= MaxI64

CrawlInv ==
    /\ TypeOK /\ ProxyInv /\ PhaseInv /\ DirsInv /\ CgroupInv /\ ResultInv /\ AnswerInv
    /\ StoredInv

-----------------------------------------------------------------------------
(***************************************************************************)
(* What the actions with many outcomes have in common.                     *)
(***************************************************************************)

(* However a capture ends, all it does to the session is to leave it.      *)
LEMMA CaptureLeaves ==
    CaptureFails \/ CaptureReturns =>
        /\ phase = "use" /\ run # "probe" /\ phase' = "unregister"
        /\ UNCHANGED <<run, diskVars, processVars, registered, cancelled, excuses, proxyVars>>
        /\ UNCHANGED <<step, stored, outcome>>
<1>1. CASE CaptureFails
  BY <1>1 DEF CaptureFails, Leave, LeaveWith
<1>2. ASSUME CaptureReturns PROVE \E r : Leave(r)
  BY <1>2 DEF CaptureReturns
<1>3. CASE CaptureReturns
  BY <1>2, <1>3 DEF CaptureReturns, Leave, LeaveWith
<1> QED
  BY <1>1, <1>3

(* A crawl whose session is gone ends, or tries again.                     *)
LEMMA CrawlConcludes ==
    ASSUME NEW w, RunCrawlerForContext(w)
    PROVE  /\ phase = "left" /\ run # "probe"
           /\ UNCHANGED <<dirs, cgroups, registered, cancelled, excuses, step>>
           /\ TryHttp \/ \E how : End(how)
BY DEF RunCrawlerForContext

(* What a session that cannot start returns.                               *)
LEMMA StartErrorTyped == StartError \in Errors /\ {Thrown, StartError} \subseteq Results
BY DEF StartError, Errors, Probes, Results

-----------------------------------------------------------------------------
(***************************************************************************)
(* The invariant is inductive, part by part: first the session.            *)
(***************************************************************************)

(* Every step keeps what is known of the proxy.                            *)
LEMMA ProxyStep == ProxyInv /\ [Next]_vars => ProxyInv'
<1> SUFFICES ASSUME ProxyInv, [Next]_vars PROVE ProxyInv'
  OBVIOUS
<1> USE SessionAssumption DEF ProxyInv, Reasons, taskVars, diskVars, processVars,
            proxyVars, crawlVars
<1>1. CASE StartBrowserProxy
  BY <1>1 DEF StartBrowserProxy, Throws, LeaveWith, Excused, Proxy!Open
<1>2. CASE StopProxy
  BY <1>2 DEF StopProxy, Proxy!BeginStop
<1>3. CASE ProxyServes
  BY <1>3 DEF ProxyServes, Proxy!Accept, Proxy!Serve, Proxy!GiveUpAccepting
<1>4. CASE ProxyStops
  BY <1>4 DEF ProxyStops, Proxy!Close, Proxy!Serve, Proxy!GiveUpAccepting
<1>5. ASSUME NEW w \in {None} \cup 1..(MaxArchive + 1), RunCrawlerForContext(w) PROVE ProxyInv'
  <2>1. CASE TryHttp
    BY <2>1 DEF TryHttp
  <2>2. CASE \E how : End(how)
    BY <2>2 DEF End
  <2> QED
    BY <1>5, <2>1, <2>2, CrawlConcludes
<1>6. CASE UNCHANGED proxyVars
  BY <1>6
<1>7. CASE MakeRunDir \/ FillRunDir \/ StageLocalFixtureTrustDbIfNeeded
            \/ SpawnSandboxedBrowser \/ WaitForDevtoolsPath \/ ConnectCdp
            \/ UnregisterBrowserCgroup \/ SignalProcess
  BY <1>6, <1>7 DEF MakeRunDir, Throws, LeaveWith, Excused, FillRunDir,
     StageLocalFixtureTrustDbIfNeeded, SpawnSandboxedBrowser, WaitForDevtoolsPath,
     ConnectCdp, UnregisterBrowserCgroup, SignalProcess
<1>8. CASE WaitProcess \/ KillProcess \/ JoinProxy \/ RemoveBrowserRunDir \/ WrapperStarts
            \/ WrapperCleans \/ DevtoolsAppear \/ BrowserExits
  BY <1>6, <1>8 DEF WaitProcess, KillProcess, Excused, JoinProxy, RemoveBrowserRunDir,
     WrapperStarts, WrapperCleans, DevtoolsAppear, BrowserExits
<1>9. CASE CancelTask \/ CaptureFails \/ CaptureReturns \/ UseThrows \/ ProbeCommand
            \/ WaitForExpression \/ SettleProbeEvents \/ CleanupProbeSession
  BY <1>6, <1>9 DEF CancelTask, CaptureFails, Leave, LeaveWith, CaptureReturns, UseThrows,
     Throws, Excused, ProbeCommand, WaitForExpression, SettleProbeEvents,
     CleanupProbeSession
<1>10. CASE Cancelled \/ ProbeAnswers \/ Over
  BY <1>6, <1>10 DEF Cancelled, End, ProbeAnswers, Over, vars, sessionVars
<1>11. CASE UNCHANGED vars
  BY <1>6, <1>11 DEF vars, sessionVars
<1> QED
  BY <1>1, <1>2, <1>3, <1>4, <1>5, <1>6, <1>7, <1>8, <1>9, <1>10, <1>11 DEF Next,
     SessionStep, Starting, Leaving, WrapperStep, UseEnds, ProbeStep, Concludes

(* Every step keeps what may run in each phase.                            *)
LEMMA PhaseStep == TypeOK /\ ProxyInv /\ PhaseInv /\ [Next]_vars => PhaseInv'
<1> SUFFICES ASSUME TypeOK, ProxyInv, PhaseInv, [Next]_vars PROVE PhaseInv'
  OBVIOUS
<1> USE DEF PhaseInv, ProxyInv, TypeOK, SessionTypeOK, Early, taskVars, diskVars,
            processVars, proxyVars, crawlVars
<1>1. CASE MakeRunDir
  BY <1>1 DEF MakeRunDir, Throws, LeaveWith, Excused
<1>2. CASE FillRunDir
  BY <1>2 DEF FillRunDir, Throws, LeaveWith, Excused
<1>3. CASE StageLocalFixtureTrustDbIfNeeded
  BY <1>3 DEF StageLocalFixtureTrustDbIfNeeded, Throws, LeaveWith, Excused
<1>4. CASE StartBrowserProxy
  BY <1>4 DEF StartBrowserProxy, Throws, LeaveWith, Excused, Proxy!Open
<1>5. CASE SpawnSandboxedBrowser
  BY <1>5 DEF SpawnSandboxedBrowser, Throws, LeaveWith, Excused
<1>6. CASE WaitForDevtoolsPath
  BY <1>6 DEF WaitForDevtoolsPath, Throws, LeaveWith, Excused
<1>7. CASE ConnectCdp
  BY <1>7 DEF ConnectCdp, Throws, LeaveWith, Excused
<1>8. CASE UnregisterBrowserCgroup
  BY <1>8 DEF UnregisterBrowserCgroup
<1>9. CASE SignalProcess
  BY <1>9 DEF SignalProcess
<1>10. CASE WaitProcess
  BY <1>10 DEF WaitProcess
<1>11. CASE KillProcess
  BY <1>11 DEF KillProcess, Excused
<1>12. CASE StopProxy
  BY <1>12 DEF StopProxy, Proxy!BeginStop
<1>13. CASE JoinProxy
  BY <1>13 DEF JoinProxy
<1>14. CASE RemoveBrowserRunDir
  BY <1>14 DEF RemoveBrowserRunDir, Excused
<1>15. CASE WrapperStarts
  BY <1>15 DEF WrapperStarts
<1>16. CASE WrapperCleans
  BY <1>16 DEF WrapperCleans, Excused
<1>17. CASE BrowserExits
  BY <1>17 DEF BrowserExits
<1>18. CASE ProxyServes
  BY <1>18 DEF ProxyServes, Proxy!Accept, Proxy!Serve, Proxy!GiveUpAccepting
<1>19. CASE ProxyStops
  BY <1>19 DEF ProxyStops, Proxy!Close, Proxy!Serve, Proxy!GiveUpAccepting
<1>20. CASE CaptureFails
  BY <1>20, CaptureLeaves
<1>21. CASE CaptureReturns
  BY <1>21, CaptureLeaves
<1>22. CASE UseThrows
  BY <1>22 DEF UseThrows, Throws, LeaveWith, Excused
<1>23. CASE CleanupProbeSession
  BY <1>23 DEF CleanupProbeSession, Leave, LeaveWith
<1>24. CASE Cancelled
  BY <1>24 DEF Cancelled, End
<1>25. CASE ProbeAnswers
  BY <1>25 DEF ProbeAnswers, End
<1>26. ASSUME NEW w \in {None} \cup 1..(MaxArchive + 1), RunCrawlerForContext(w) PROVE PhaseInv'
  BY <1>26, CrawlConcludes DEF End, TryHttp
<1>27. CASE UNCHANGED <<run, phase, wrapper, state, registered>>
  BY <1>27
<1>28. CASE DevtoolsAppear \/ CancelTask \/ ProbeCommand \/ WaitForExpression
            \/ SettleProbeEvents \/ Over
  BY <1>27, <1>28 DEF DevtoolsAppear, CancelTask, ProbeCommand, WaitForExpression,
     SettleProbeEvents, Over, vars, sessionVars
<1>29. CASE UNCHANGED vars
  BY <1>27, <1>29 DEF vars, sessionVars
<1> QED
  BY <1>1, <1>2, <1>3, <1>4, <1>5, <1>6, <1>7, <1>8, <1>9, <1>10, <1>11, <1>12, <1>13,
     <1>14, <1>15, <1>16, <1>17, <1>18, <1>19, <1>20, <1>21, <1>22, <1>23, <1>24, <1>25,
     <1>26, <1>27, <1>28, <1>29 DEF Next, SessionStep, Starting, Leaving, WrapperStep,
     UseEnds, ProbeStep, Concludes

(* No directory is left without an excuse.                                 *)
LEMMA DirsStep == DirsInv /\ [Next]_vars => DirsInv'
<1> SUFFICES ASSUME DirsInv, [Next]_vars PROVE DirsInv'
  OBVIOUS
<1> USE DEF DirsInv, DirExcuse, taskVars, diskVars, processVars, proxyVars, crawlVars
<1>1. CASE MakeRunDir
  BY <1>1 DEF MakeRunDir, Throws, LeaveWith, Excused
<1>2. CASE FillRunDir
  BY <1>2 DEF FillRunDir, Throws, LeaveWith, Excused
<1>3. CASE StageLocalFixtureTrustDbIfNeeded
  BY <1>3 DEF StageLocalFixtureTrustDbIfNeeded, Throws, LeaveWith, Excused
<1>4. CASE StartBrowserProxy
  BY <1>4 DEF StartBrowserProxy, Throws, LeaveWith, Excused, Proxy!Open
<1>5. CASE SpawnSandboxedBrowser
  BY <1>5 DEF SpawnSandboxedBrowser, Throws, LeaveWith, Excused
<1>6. CASE WaitForDevtoolsPath
  BY <1>6 DEF WaitForDevtoolsPath, Throws, LeaveWith, Excused
<1>7. CASE ConnectCdp
  BY <1>7 DEF ConnectCdp, Throws, LeaveWith, Excused
<1>8. CASE UnregisterBrowserCgroup
  BY <1>8 DEF UnregisterBrowserCgroup
<1>9. CASE SignalProcess
  BY <1>9 DEF SignalProcess
<1>10. CASE WaitProcess
  BY <1>10 DEF WaitProcess
<1>11. CASE KillProcess
  BY <1>11 DEF KillProcess, Excused
<1>12. CASE StopProxy
  BY <1>12 DEF StopProxy, Proxy!BeginStop
<1>13. CASE JoinProxy
  BY <1>13 DEF JoinProxy
<1>14. CASE RemoveBrowserRunDir
  BY <1>14 DEF RemoveBrowserRunDir, Excused
<1>15. CASE WrapperCleans
  BY <1>15 DEF WrapperCleans, Excused
<1>16. CASE CancelTask
  BY <1>16 DEF CancelTask
<1>17. CASE CaptureFails
  BY <1>17, CaptureLeaves
<1>18. CASE CaptureReturns
  BY <1>18, CaptureLeaves
<1>19. CASE UseThrows
  BY <1>19 DEF UseThrows, Throws, LeaveWith, Excused
<1>20. CASE CleanupProbeSession
  BY <1>20 DEF CleanupProbeSession, Leave, LeaveWith
<1>21. CASE Cancelled
  BY <1>21 DEF Cancelled, End
<1>22. CASE ProbeAnswers
  BY <1>22 DEF ProbeAnswers, End
<1>23. ASSUME NEW w \in {None} \cup 1..(MaxArchive + 1), RunCrawlerForContext(w) PROVE DirsInv'
  BY <1>23, CrawlConcludes DEF End, TryHttp
<1>24. CASE UNCHANGED <<run, phase, dirs, known, cancelled, excuses>>
  BY <1>24
<1>25. CASE WrapperStarts \/ DevtoolsAppear \/ BrowserExits \/ ProxyServes \/ ProxyStops
            \/ ProbeCommand \/ WaitForExpression \/ SettleProbeEvents
  BY <1>24, <1>25 DEF WrapperStarts, DevtoolsAppear, BrowserExits, ProxyServes,
     Proxy!Accept, Proxy!Serve, Proxy!GiveUpAccepting, ProxyStops, Proxy!Close,
     ProbeCommand, WaitForExpression, SettleProbeEvents
<1>26. CASE Over
  BY <1>24, <1>26 DEF Over, vars, sessionVars
<1>27. CASE UNCHANGED vars
  BY <1>24, <1>27 DEF vars, sessionVars
<1> QED
  BY <1>1, <1>2, <1>3, <1>4, <1>5, <1>6, <1>7, <1>8, <1>9, <1>10, <1>11, <1>12, <1>13,
     <1>14, <1>15, <1>16, <1>17, <1>18, <1>19, <1>20, <1>21, <1>22, <1>23, <1>24, <1>25,
     <1>26, <1>27 DEF Next, SessionStep, Starting, Leaving, WrapperStep, UseEnds,
     ProbeStep, Concludes

(* No cgroup is left without an excuse.                                    *)
LEMMA CgroupStep == PhaseInv /\ CgroupInv /\ [Next]_vars => CgroupInv'
<1> SUFFICES ASSUME PhaseInv, CgroupInv, [Next]_vars PROVE CgroupInv'
  OBVIOUS
<1> USE DEF CgroupInv, CgroupExcuse, PhaseInv, Early, taskVars, diskVars, processVars,
            proxyVars, crawlVars
<1>1. CASE MakeRunDir
  BY <1>1 DEF MakeRunDir, Throws, LeaveWith, Excused
<1>2. CASE FillRunDir
  BY <1>2 DEF FillRunDir, Throws, LeaveWith, Excused
<1>3. CASE StageLocalFixtureTrustDbIfNeeded
  BY <1>3 DEF StageLocalFixtureTrustDbIfNeeded, Throws, LeaveWith, Excused
<1>4. CASE StartBrowserProxy
  BY <1>4 DEF StartBrowserProxy, Throws, LeaveWith, Excused, Proxy!Open
<1>5. CASE SpawnSandboxedBrowser
  BY <1>5 DEF SpawnSandboxedBrowser, Throws, LeaveWith, Excused
<1>6. CASE WaitForDevtoolsPath
  BY <1>6 DEF WaitForDevtoolsPath, Throws, LeaveWith, Excused
<1>7. CASE ConnectCdp
  BY <1>7 DEF ConnectCdp, Throws, LeaveWith, Excused
<1>8. CASE SignalProcess
  BY <1>8 DEF SignalProcess
<1>9. CASE KillProcess
  BY <1>9 DEF KillProcess, Excused
<1>10. CASE RemoveBrowserRunDir
  BY <1>10 DEF RemoveBrowserRunDir, Excused
<1>11. CASE WrapperStarts
  BY <1>11 DEF WrapperStarts
<1>12. CASE WrapperCleans
  BY <1>12 DEF WrapperCleans, Excused
<1>13. CASE BrowserExits
  BY <1>13 DEF BrowserExits
<1>14. CASE UseThrows
  BY <1>14 DEF UseThrows, Throws, LeaveWith, Excused
<1>15. ASSUME NEW w \in {None} \cup 1..(MaxArchive + 1), RunCrawlerForContext(w) PROVE CgroupInv'
  BY <1>15, CrawlConcludes DEF End, TryHttp
<1>16. CASE UNCHANGED <<run, wrapper, cgroups, excuses>>
  BY <1>16
<1>17. CASE UnregisterBrowserCgroup \/ WaitProcess \/ StopProxy \/ JoinProxy
            \/ DevtoolsAppear \/ ProxyServes \/ ProxyStops \/ CancelTask
  BY <1>16, <1>17 DEF UnregisterBrowserCgroup, WaitProcess, StopProxy, Proxy!BeginStop,
     JoinProxy, DevtoolsAppear, ProxyServes, Proxy!Accept, Proxy!Serve,
     Proxy!GiveUpAccepting, ProxyStops, Proxy!Close, CancelTask
<1>18. CASE CaptureFails \/ CaptureReturns \/ ProbeCommand \/ WaitForExpression
            \/ SettleProbeEvents \/ CleanupProbeSession \/ Cancelled \/ ProbeAnswers
  BY <1>16, <1>18 DEF CaptureFails, Leave, LeaveWith, CaptureReturns, ProbeCommand,
     WaitForExpression, SettleProbeEvents, CleanupProbeSession, Cancelled, End,
     ProbeAnswers
<1>19. CASE Over
  BY <1>16, <1>19 DEF Over, vars, sessionVars
<1>20. CASE UNCHANGED vars
  BY <1>16, <1>20 DEF vars, sessionVars
<1> QED
  BY <1>1, <1>2, <1>3, <1>4, <1>5, <1>6, <1>7, <1>8, <1>9, <1>10, <1>11, <1>12, <1>13,
     <1>14, <1>15, <1>16, <1>17, <1>18, <1>19, <1>20 DEF Next, SessionStep, Starting,
     Leaving, WrapperStep, UseEnds, ProbeStep, Concludes

(* What a step of the session assigns has its type.                        *)
LEMMA SessionKeepsTypes ==
    ASSUME TypeOK, SessionStep
    PROVE  SessionTypeOK'
<1> USE SessionAssumption, StartErrorTyped DEF TypeOK, SessionTypeOK, Phases, Wrappers,
            Sockets, taskVars, diskVars, processVars, proxyVars, crawlVars
<1>1. CASE MakeRunDir
  BY <1>1 DEF MakeRunDir, Throws, LeaveWith, Excused
<1>2. CASE FillRunDir
  BY <1>2 DEF FillRunDir, Throws, LeaveWith, Excused
<1>3. CASE StageLocalFixtureTrustDbIfNeeded
  BY <1>3 DEF StageLocalFixtureTrustDbIfNeeded, Throws, LeaveWith, Excused
<1>4. CASE StartBrowserProxy
  BY <1>4 DEF StartBrowserProxy, Throws, LeaveWith, Excused, Proxy!Open
<1>5. CASE SpawnSandboxedBrowser
  BY <1>5 DEF SpawnSandboxedBrowser, Throws, LeaveWith, Excused
<1>6. CASE WaitForDevtoolsPath
  BY <1>6 DEF WaitForDevtoolsPath, Throws, LeaveWith, Excused
<1>7. CASE ConnectCdp
  BY <1>7 DEF ConnectCdp, Throws, LeaveWith, Excused
<1>8. CASE UnregisterBrowserCgroup
  BY <1>8 DEF UnregisterBrowserCgroup
<1>9. CASE SignalProcess
  BY <1>9 DEF SignalProcess
<1>10. CASE WaitProcess
  BY <1>10 DEF WaitProcess
<1>11. CASE KillProcess
  BY <1>11 DEF KillProcess, Excused
<1>12. CASE StopProxy
  BY <1>12 DEF StopProxy, Proxy!BeginStop
<1>13. CASE JoinProxy
  BY <1>13 DEF JoinProxy
<1>14. CASE RemoveBrowserRunDir
  BY <1>14 DEF RemoveBrowserRunDir, Excused
<1>15. CASE WrapperStarts
  BY <1>15 DEF WrapperStarts
<1>16. CASE WrapperCleans
  BY <1>16 DEF WrapperCleans, Excused
<1>17. CASE DevtoolsAppear
  BY <1>17 DEF DevtoolsAppear
<1>18. CASE BrowserExits
  BY <1>18 DEF BrowserExits
<1>19. CASE ProxyServes
  <2>1. UNCHANGED <<taskVars, diskVars, processVars, registered, cancelled, excuses>>
    BY <1>19 DEF ProxyServes
  <2> QED
    BY <2>1
<1>20. CASE ProxyStops
  <2>1. UNCHANGED <<taskVars, diskVars, processVars, registered, cancelled, excuses>>
    BY <1>20 DEF ProxyStops
  <2> QED
    BY <2>1
<1>21. CASE CancelTask
  BY <1>21 DEF CancelTask
<1> QED
  BY <1>1, <1>2, <1>3, <1>4, <1>5, <1>6, <1>7, <1>8, <1>9, <1>10, <1>11, <1>12, <1>13,
     <1>14, <1>15, <1>16, <1>17, <1>18, <1>19, <1>20, <1>21 DEF SessionStep, Starting,
     Leaving, WrapperStep

(* A session is of one run, gets its result when it is left, and never a   *)
(* second one.                                                             *)
LEMMA SessionKeepsResult ==
    ASSUME SessionStep
    PROVE  /\ run' = run /\ (phase' = "over" <=> phase = "over")
           /\ phase \notin Making => phase' \notin Making /\ result' = result
           /\ phase \in Making /\ phase' \notin Making => result' \in {Thrown, StartError}
<1> USE DEF Making, Early, taskVars, diskVars, processVars, proxyVars, crawlVars
<1>1. CASE MakeRunDir \/ FillRunDir \/ StageLocalFixtureTrustDbIfNeeded
            \/ StartBrowserProxy \/ SpawnSandboxedBrowser \/ WaitForDevtoolsPath
            \/ ConnectCdp
  BY <1>1 DEF MakeRunDir, Throws, LeaveWith, Excused, FillRunDir,
     StageLocalFixtureTrustDbIfNeeded, StartBrowserProxy, Proxy!Open,
     SpawnSandboxedBrowser, WaitForDevtoolsPath, ConnectCdp
<1>2. CASE UnregisterBrowserCgroup \/ SignalProcess \/ WaitProcess \/ KillProcess
            \/ StopProxy \/ JoinProxy \/ RemoveBrowserRunDir
  BY <1>2 DEF UnregisterBrowserCgroup, SignalProcess, WaitProcess, KillProcess, Excused,
     StopProxy, Proxy!BeginStop, JoinProxy, RemoveBrowserRunDir
<1>3. CASE WrapperStarts \/ WrapperCleans \/ DevtoolsAppear \/ BrowserExits \/ ProxyServes
            \/ ProxyStops \/ CancelTask
  BY <1>3 DEF WrapperStarts, WrapperCleans, Excused, DevtoolsAppear, BrowserExits,
     ProxyServes, Proxy!Accept, Proxy!Serve, Proxy!GiveUpAccepting, ProxyStops,
     Proxy!Close, CancelTask
<1> QED
  BY <1>1, <1>2, <1>3 DEF SessionStep, Starting, Leaving, WrapperStep

-----------------------------------------------------------------------------
(***************************************************************************)
(* Then what the crawl makes of it.                                        *)
(***************************************************************************)

Attempts == {Thrown} \cup Errors \cup Exchanges
Sizes == {None} \cup 1..(MaxArchive + 1)

(* What a capture returns.                                                 *)
LEMMA CaptureResult ==
    ASSUME TypeOK, ProxyInv, CaptureFails \/ CaptureReturns
    PROVE  result' \in Errors \cup Exchanges
<1>1. CASE CaptureFails
  <2>1. PICK detail \in {"size_limit", "other"}, main \in Mains :
           \E probe \in CurrentSeedProbe(main) :
              Leave([end |-> "error", detail |-> detail, probe |-> probe])
    BY <1>1 DEF CaptureFails
  <2>2. CurrentSeedProbe(main) \subseteq Probes
    BY DEF CurrentSeedProbe, Probes, Mains, Statuses
  <2> QED
    BY <2>1, <2>2 DEF Leave, LeaveWith, Errors
<1>2. CASE CaptureReturns
  <2>1. PICK s \in Statuses :
           IF reason # None /\ ~IsSuccessfulMainDocumentExchange(s)
           THEN Leave([end |-> "error", detail |-> reason, probe |-> None])
           ELSE Leave([end |-> "exchange", status |-> s, bytes |-> bytes])
    BY <1>2 DEF CaptureReturns
  <2>2. CASE reason # None /\ ~IsSuccessfulMainDocumentExchange(s)
    BY <2>1, <2>2 DEF Leave, LeaveWith, Errors, Probes, ProxyInv, Reasons
  <2>3. CASE ~(reason # None /\ ~IsSuccessfulMainDocumentExchange(s))
    BY <2>1, <2>3 DEF Leave, LeaveWith, Exchanges, ProxyInv
  <2> QED
    BY <2>2, <2>3
<1> QED
  BY <1>1, <1>2

(* The limit for an archive is within what the ratio allows, and an i64.   *)
LEMMA LimitIsBounded ==
    ASSUME NEW n \in Nat \ {0}
    PROVE  /\ DownBytesLimit(n) \in Nat
           /\ DownBytesLimit(n) <= Ratio * n /\ DownBytesLimit(n) <= MaxI64
<1> DEFINE q == MaxI64 \div n
<1>1. q \in Nat /\ q * n <= MaxI64 /\ MaxI64 < (q + 1) * n
  BY CrawlAssumption
<1> HIDE DEF q
<1>2. CASE Ratio > q
  <2>1. (q + 1) * n <= Ratio * n
    BY <1>1, <1>2, CrawlAssumption
  <2>2. MaxI64 <= Ratio * n
    BY <1>1, <2>1, CrawlAssumption
  <2>3. DownBytesLimit(n) = MaxI64
    BY <1>2 DEF DownBytesLimit, q
  <2> QED
    BY <2>2, <2>3, CrawlAssumption
<1>3. CASE ~(Ratio > q)
  <2>1. Ratio * n <= q * n
    BY <1>1, <1>3, CrawlAssumption
  <2>2. Ratio * n \in Nat /\ Ratio * n <= MaxI64
    BY <1>1, <2>1, CrawlAssumption
  <2>3. DownBytesLimit(n) = Ratio * n
    BY <1>3 DEF DownBytesLimit, q
  <2> QED
    BY <2>2, <2>3, CrawlAssumption
<1> QED
  BY <1>2, <1>3

(* ExecuteRun lets an attempt pass only if it is an exchange with a good   *)
(* status and an archive within both limits.                               *)
LEMMA PassesWithinLimits ==
    ASSUME NEW r \in Attempts, NEW w \in Sizes, ExecuteRun(r, w).error = None
    PROVE  /\ r \in Exchanges /\ w \in Nat /\ r.status < 400 /\ w <= MaxArchive
           /\ r.bytes <= Ratio * w /\ DownBytesLimit(w) <= MaxI64
<1>1. r # Thrown
  BY NoneAssumption DEF ErrorKinds, ExecuteRun, Failed
<1>2. r.end # "error"
  BY <1>1, NoneAssumption DEF ErrorKinds, ExecuteRun, Failed, KindOf
<1>3. r \in Exchanges
  BY <1>1, <1>2 DEF Attempts, Errors, Exchanges
<1>4. w # None
  BY <1>1, <1>2, NoneAssumption DEF ErrorKinds, ExecuteRun, Failed
<1>5. ~(w > MaxArchive)
  BY <1>1, <1>2, <1>4, NoneAssumption DEF ErrorKinds, ExecuteRun, Failed
<1>6. ~(r.bytes > DownBytesLimit(w))
  BY <1>1, <1>2, <1>4, <1>5, NoneAssumption DEF ErrorKinds, ExecuteRun, Failed
<1>7. ~(r.status >= 400)
  BY <1>1, <1>2, <1>4, <1>5, <1>6, NoneAssumption DEF ErrorKinds, ExecuteRun
<1>8. w \in Nat \ {0}
  BY <1>4, CrawlAssumption DEF Sizes
<1>9. DownBytesLimit(w) \in Nat /\ DownBytesLimit(w) <= Ratio * w /\ DownBytesLimit(w) <= MaxI64
  BY <1>8, LimitIsBounded
<1>10. r.bytes \in Int /\ r.status \in Int /\ Ratio * w \in Int
  BY <1>3, <1>8, SessionAssumption, CrawlAssumption DEF Exchanges, Statuses
<1> QED
  BY <1>3, <1>5, <1>6, <1>7, <1>8, <1>9, <1>10, CrawlAssumption

(* Only what looks unanswered is tried again.                              *)
LEMMA RetriesLookUnanswered ==
    ASSUME NEW r \in Attempts, NEW w \in Sizes, ShouldRetryWithHttp(ExecuteRun(r, w))
    PROVE  \/ r.end = "error" /\ IsNoResponseSeedError(r.probe)
           \/ r.end = "exchange" /\ r.status \in {0, 502}
<1> DEFINE a == ExecuteRun(r, w)
<1>1. a.error = "navigation" /\ IsNoResponseSeedError(a.probe)
  BY DEF ShouldRetryWithHttp
<1>2. r # Thrown
  BY <1>1 DEF ExecuteRun, Failed
<1>3. CASE r.end = "error"
  BY <1>1, <1>2, <1>3 DEF ExecuteRun, Failed
<1>4. CASE r.end # "error"
  <2>1. r \in Exchanges
    BY <1>2, <1>4 DEF Attempts, Errors, Exchanges
  <2>2. a.probe = None \/ a.probe = [status |-> r.status, load |-> 0]
    BY <1>2, <1>4 DEF ExecuteRun, Failed, SeedStatus
  <2> QED
    BY <1>1, <2>1, <2>2 DEF IsNoResponseSeedError, Exchanges, Statuses
<1> QED
  BY <1>3, <1>4

(* The two ends of a crawl in which more changes than the phase.           *)
LEMMA CrawlStores ==
    ASSUME NEW w \in Sizes, RunCrawlerForContext(w), result \in Attempts
    PROVE  \/ /\ End("stored") /\ ExecuteRun(result, w).error = None
              /\ stored' = [status |-> result.status, wacz |-> w, bytes |-> result.bytes]
           \/ /\ TryHttp /\ run = "https" /\ ~HttpsOnly
              /\ ShouldRetryWithHttp(ExecuteRun(result, w)) /\ UNCHANGED <<stored, outcome>>
           \/ (End("size limit") \/ End("crawler error")) /\ UNCHANGED stored
BY DEF RunCrawlerForContext

(* Every step keeps the types.                                             *)
LEMMA TypeCrawlStep == TypeOK /\ ProxyInv /\ ResultInv /\ [Next]_vars => TypeOK'
<1> SUFFICES ASSUME TypeOK, ProxyInv, ResultInv, [Next]_vars PROVE TypeOK'
  OBVIOUS
<1>1. CASE SessionStep /\ UNCHANGED crawlVars
  BY <1>1, SessionKeepsTypes DEF TypeOK, crawlVars
<1> USE DEF TypeOK, SessionTypeOK, taskVars, diskVars, processVars, proxyVars, crawlVars
<1>2. CASE CaptureFails \/ CaptureReturns
  <2>1. result' \in Results
    BY <1>2, CaptureResult DEF Results
  <2>2. heard' \in Statuses \cup {None}
    BY <1>2 DEF CaptureFails, CaptureReturns, Mains
  <2> QED
    BY <1>2, <2>1, <2>2, CaptureLeaves DEF Phases
<1>3. CASE UseThrows
  BY <1>3, StartErrorTyped DEF UseThrows, Throws, LeaveWith, Excused, Phases
<1>4. ASSUME ProbeGoes \/ ProbeFails, step <= Len(ProbeSteps)
      PROVE  result' \in Results /\ step' \in 1..(Len(ProbeSteps) + 1)
  <2>1. Len(ProbeSteps) = 6
    BY DEF ProbeSteps
  <2>2. [end |-> "probed"] \in Results
    BY DEF Results
  <2> QED
    BY <1>4, <2>1, <2>2, StartErrorTyped DEF ProbeGoes, ProbeFails
<1>5. CASE ProbeCommand \/ WaitForExpression \/ SettleProbeEvents
  BY <1>4, <1>5 DEF ProbeCommand, WaitForExpression, SettleProbeEvents, Probing
<1>6. CASE CleanupProbeSession
  BY <1>6 DEF CleanupProbeSession, Leave, LeaveWith, Phases
<1>7. CASE Cancelled \/ ProbeAnswers
  BY <1>7 DEF Cancelled, ProbeAnswers, End, Phases, Outcomes
<1>8. ASSUME NEW w \in Sizes, RunCrawlerForContext(w) PROVE TypeOK'
  <2>1. result \in Attempts
    BY <1>8, CrawlConcludes DEF ResultInv, Attempts, Making, Early
  <2>2. UNCHANGED <<dirs, cgroups, registered, cancelled, excuses, step>>
    BY <1>8, CrawlConcludes
  <2>3. CASE TryHttp /\ UNCHANGED <<stored, outcome>>
    BY <2>2, <2>3, CrawlAssumption DEF TryHttp, Phases, Results, Wrappers, Sockets
  <2>4. CASE (End("size limit") \/ End("crawler error")) /\ UNCHANGED stored
    BY <2>2, <2>4 DEF End, Phases, Outcomes
  <2>5. CASE /\ End("stored") /\ ExecuteRun(result, w).error = None
             /\ stored' = [status |-> result.status, wacz |-> w, bytes |-> result.bytes]
    <3>1. result \in Exchanges /\ w \in Nat
      BY <2>1, <2>5, PassesWithinLimits
    <3>2. stored' \in [status: Statuses, wacz: Nat, bytes: 0..Limit]
      BY <2>5, <3>1 DEF Exchanges
    <3> QED
      BY <2>2, <2>5, <3>2 DEF End, Phases, Outcomes
  <2> QED
    BY <1>8, <2>1, <2>3, <2>4, <2>5, CrawlStores
<1>9. CASE UNCHANGED vars
  BY <1>9 DEF vars, sessionVars
<1> QED
  BY <1>1, <1>2, <1>3, <1>5, <1>6, <1>7, <1>8, <1>9
     DEF Next, UseEnds, ProbeStep, Concludes, Over, Sizes

(* A crawl that is left has the result of its attempt.                     *)
LEMMA ResultStep == TypeOK /\ ProxyInv /\ ResultInv /\ [Next]_vars => ResultInv'
<1> SUFFICES ASSUME TypeOK, ProxyInv, ResultInv, [Next]_vars PROVE ResultInv'
  OBVIOUS
<1>1. CASE SessionStep
  BY <1>1, SessionKeepsResult, StartErrorTyped DEF ResultInv
<1>2. CASE CaptureFails \/ CaptureReturns
  BY <1>2, CaptureResult, CaptureLeaves DEF ResultInv
<1>3. CASE UseThrows
  BY <1>3 DEF ResultInv, UseThrows, Throws, LeaveWith, taskVars
<1>4. CASE ProbeStep
  BY <1>4 DEF ResultInv, ProbeStep, ProbeCommand, WaitForExpression, SettleProbeEvents, Probing,
     CleanupProbeSession, Leave, LeaveWith, Making, Early
<1>5. CASE Cancelled \/ ProbeAnswers
  BY <1>5 DEF ResultInv, Cancelled, ProbeAnswers, End, Making, Early
<1>6. ASSUME NEW w \in Sizes, RunCrawlerForContext(w) PROVE ResultInv'
  BY <1>6, CrawlConcludes DEF ResultInv, TryHttp, End, Making, Early
<1>7. CASE UNCHANGED vars
  BY <1>7 DEF vars, sessionVars, taskVars, ResultInv
<1> QED
  BY <1>1, <1>2, <1>3, <1>4, <1>5, <1>6, <1>7 DEF Next, UseEnds, Concludes, Over, Sizes

(* What a capture saw of the main document shows in its result.            *)
LEMMA ResponseShows == CaptureFails \/ CaptureReturns => Shown'
<1>1. CASE CaptureFails
  <2>1. PICK detail \in {"size_limit", "other"}, main \in Mains :
           /\ heard' = main.status
           /\ \E probe \in CurrentSeedProbe(main) :
                 Leave([end |-> "error", detail |-> detail, probe |-> probe])
    BY <1>1 DEF CaptureFails
  <2>2. PICK probe \in CurrentSeedProbe(main) :
           Leave([end |-> "error", detail |-> detail, probe |-> probe])
    BY <2>1
  <2>3. result'.end = "error" /\ result'.probe = probe
    BY <2>2 DEF Leave, LeaveWith
  <2>4. CASE main.status # None
    <3>1. probe.status = main.status
      BY <2>4 DEF CurrentSeedProbe
    <3> QED
      BY <2>1, <2>3, <3>1 DEF Shown, IsNoResponseSeedError
  <2>5. CASE main.status = None
    BY <2>1, <2>3, <2>5 DEF Shown
  <2> QED
    BY <2>4, <2>5
<1>2. CASE CaptureReturns
  <2>1. PICK s \in Statuses :
           /\ heard' = s
           /\ IF reason # None /\ ~IsSuccessfulMainDocumentExchange(s)
              THEN Leave([end |-> "error", detail |-> reason, probe |-> None])
              ELSE Leave([end |-> "exchange", status |-> s, bytes |-> bytes])
    BY <1>2 DEF CaptureReturns
  <2>2. \/ result'.end = "error" /\ result'.probe = None
        \/ result'.end = "exchange" /\ result'.status = s
    BY <2>1 DEF Leave, LeaveWith
  <2> QED
    BY <2>1, <2>2 DEF Shown, IsNoResponseSeedError
<1> QED
  BY <1>1, <1>2

(* A start that fails and an exception look like nothing to try again for. *)
LEMMA OthersShowNothing == result' \in {Thrown, StartError} => Shown'
BY DEF Thrown, StartError, Shown, IsNoResponseSeedError

(* The result of an attempt keeps showing what was seen.                   *)
LEMMA AnswerStep == AnswerInv /\ [Next]_vars => AnswerInv'
<1> SUFFICES ASSUME AnswerInv, [Next]_vars PROVE AnswerInv'
  OBVIOUS
<1>1. CASE SessionStep /\ UNCHANGED crawlVars
  <2>1. CASE phase \notin Making
    BY <1>1, <2>1, SessionKeepsResult DEF crawlVars, AnswerInv, Shown
  <2>2. CASE phase \in Making /\ phase' \notin Making
    BY <1>1, <2>2, SessionKeepsResult, OthersShowNothing DEF AnswerInv
  <2> QED
    BY <2>1, <2>2 DEF AnswerInv
<1>2. CASE CaptureFails \/ CaptureReturns
  BY <1>2, ResponseShows DEF AnswerInv
<1>3. CASE UseThrows
  BY <1>3, OthersShowNothing DEF UseThrows, Throws, LeaveWith, AnswerInv
<1>4. CASE ProbeStep
  BY <1>4 DEF ProbeStep, ProbeCommand, WaitForExpression, SettleProbeEvents, Probing,
     CleanupProbeSession, Leave, LeaveWith, AnswerInv
<1>5. CASE Cancelled \/ ProbeAnswers
  BY <1>5 DEF Cancelled, ProbeAnswers, End, Making, Early, AnswerInv, Shown
<1>6. ASSUME NEW w \in Sizes, RunCrawlerForContext(w) PROVE AnswerInv'
  <2>1. phase = "left" /\ run # "probe" /\ (TryHttp \/ \E how : End(how))
    BY <1>6, CrawlConcludes
  <2>2. CASE TryHttp
    BY <2>2 DEF TryHttp, Making, Early, AnswerInv
  <2>3. CASE \E how : End(how)
    BY <2>1, <2>3 DEF End, Making, Early, AnswerInv, Shown
  <2> QED
    BY <2>1, <2>2, <2>3
<1>7. CASE UNCHANGED vars
  BY <1>7 DEF vars, sessionVars, taskVars, crawlVars, AnswerInv, Shown
<1> QED
  BY <1>1, <1>2, <1>3, <1>4, <1>5, <1>6, <1>7 DEF Next, UseEnds, Concludes, Over, Sizes

(* Only an https attempt that showed no response is followed by another.   *)
LEMMA FallbackStep ==
    ASSUME ResultInv, AnswerInv, [Next]_vars, run' # run
    PROVE  ~HttpsOnly /\ run = "https" /\ heard \in {None, 0, 502}
<1>1. CASE SessionStep
  BY <1>1, SessionKeepsResult
<1>2. CASE CaptureFails \/ CaptureReturns
  BY <1>2, CaptureLeaves
<1>3. CASE UseThrows
  BY <1>3 DEF UseThrows
<1>4. CASE ProbeStep
  BY <1>4 DEF ProbeStep, ProbeCommand, WaitForExpression, SettleProbeEvents,
     CleanupProbeSession, Leave
<1>5. CASE Cancelled \/ ProbeAnswers
  BY <1>5 DEF Cancelled, ProbeAnswers, End
<1>6. ASSUME NEW w \in Sizes, RunCrawlerForContext(w)
      PROVE  ~HttpsOnly /\ run = "https" /\ heard \in {None, 0, 502}
  <2>1. result \in Attempts /\ Shown
    BY <1>6, CrawlConcludes DEF ResultInv, AnswerInv, Attempts, Making, Early
  <2>2. /\ TryHttp /\ run = "https" /\ ~HttpsOnly
        /\ ShouldRetryWithHttp(ExecuteRun(result, w))
    BY <1>6, <2>1, CrawlStores DEF End
  <2> QED
    BY <2>1, <2>2, RetriesLookUnanswered DEF Shown
<1>7. CASE UNCHANGED vars
  BY <1>7 DEF vars, sessionVars, taskVars
<1> QED
  BY <1>1, <1>2, <1>3, <1>4, <1>5, <1>6, <1>7 DEF Next, UseEnds, Concludes, Over, Sizes

(* A crawl stores once, at its end, and what passed ExecuteRun.            *)
LEMMA StoredStep == TypeOK /\ ResultInv /\ StoredInv /\ [Next]_vars => StoredInv'
<1> SUFFICES ASSUME TypeOK, ResultInv, StoredInv, [Next]_vars PROVE StoredInv'
  OBVIOUS
<1> USE DEF StoredInv
<1>1. CASE SessionStep /\ UNCHANGED crawlVars
  BY <1>1, SessionKeepsResult DEF crawlVars
<1>2. CASE CaptureFails \/ CaptureReturns
  BY <1>2, CaptureLeaves
<1>3. CASE UseThrows
  BY <1>3 DEF UseThrows, Throws, LeaveWith, crawlVars
<1>4. CASE ProbeStep
  BY <1>4 DEF ProbeStep, ProbeCommand, WaitForExpression, SettleProbeEvents, Probing,
     CleanupProbeSession, Leave, LeaveWith, crawlVars
<1>5. CASE Cancelled \/ ProbeAnswers
  BY <1>5 DEF Cancelled, ProbeAnswers, End
<1>6. ASSUME NEW w \in Sizes, RunCrawlerForContext(w) PROVE StoredInv'
  <2>1. result \in Attempts /\ phase = "left"
    BY <1>6, CrawlConcludes DEF ResultInv, Attempts, Making, Early
  <2>2. CASE TryHttp /\ UNCHANGED <<stored, outcome>>
    BY <2>1, <2>2 DEF TryHttp
  <2>3. CASE End("size limit") \/ End("crawler error")
    BY <2>3 DEF End
  <2>4. CASE /\ End("stored") /\ ExecuteRun(result, w).error = None
             /\ stored' = [status |-> result.status, wacz |-> w, bytes |-> result.bytes]
    BY <2>1, <2>4, PassesWithinLimits DEF End
  <2> QED
    BY <1>6, <2>1, <2>2, <2>3, <2>4, CrawlStores
<1>7. CASE UNCHANGED vars
  BY <1>7 DEF vars, sessionVars, taskVars, crawlVars
<1> QED
  BY <1>1, <1>2, <1>3, <1>4, <1>5, <1>6, <1>7 DEF Next, UseEnds, Concludes, Over, Sizes

-----------------------------------------------------------------------------
(* A new crawl, or a new probe, satisfies the invariant.                   *)
LEMMA CrawlInit == Init => CrawlInv
<1> SUFFICES ASSUME Init PROVE CrawlInv
  OBVIOUS
<1> USE SessionAssumption, CrawlAssumption DEF Init, Fresh, Proxy!Init
<1>1. TypeOK
  <2>1. step \in 1..(Len(ProbeSteps) + 1)
    BY DEF ProbeSteps
  <2> QED
    BY <2>1 DEF TypeOK, SessionTypeOK, Phases, Results, Wrappers, Sockets, Outcomes
<1>2. ProxyInv /\ PhaseInv
  BY DEF ProxyInv, PhaseInv, Early
<1>3. DirsInv /\ CgroupInv
  BY DEF DirsInv, CgroupInv
<1>4. ResultInv /\ AnswerInv /\ StoredInv
  BY DEF ResultInv, AnswerInv, StoredInv, Making, Early
<1> QED
  BY <1>1, <1>2, <1>3, <1>4 DEF CrawlInv

(* The invariant holds throughout a crawl and throughout a probe.          *)
LEMMA CrawlInvariant == Spec => []CrawlInv
<1>1. CrawlInv /\ [Next]_vars => CrawlInv'
  <2> SUFFICES ASSUME CrawlInv, [Next]_vars PROVE CrawlInv'
    OBVIOUS
  <2>1. TypeOK' /\ ProxyInv' /\ PhaseInv' /\ DirsInv'
    BY TypeCrawlStep, ProxyStep, PhaseStep, DirsStep DEF CrawlInv
  <2>2. CgroupInv' /\ ResultInv' /\ AnswerInv' /\ StoredInv'
    BY CgroupStep, ResultStep, AnswerStep, StoredStep DEF CrawlInv
  <2> QED
    BY <2>1, <2>2 DEF CrawlInv
<1> QED
  BY <1>1, CrawlInit, PTL DEF Spec

-----------------------------------------------------------------------------
(***************************************************************************)
(* What follows from it.                                                   *)
(***************************************************************************)

(* Once a session is gone, however far it came and however it was left, no *)
(* process, no connection of its proxy and no entry of the metrics is left *)
(* of it: ~BrowserSession::Impl undoes whatever Make had done.             *)
THEOREM SessionsLeaveNothing == Spec => []NothingOutlivesTheSession
<1>1. CrawlInv => NothingOutlivesTheSession
  BY DEF CrawlInv, ProxyInv, PhaseInv, Early, NothingOutlivesTheSession
<1> QED
  BY <1>1, CrawlInvariant, PTL

(* A run directory or a cgroup stays behind after both attempts only for a *)
(* reason: a failed file operation, a cancellation, a kill, a busy cgroup. *)
THEOREM LitterIsExcused == Spec => []LitterHasAnExcuse
<1>1. CrawlInv => LitterHasAnExcuse
  BY DEF CrawlInv, DirsInv, CgroupInv, DirExcuse, CgroupExcuse, PhaseInv, LitterHasAnExcuse
<1> QED
  BY <1>1, CrawlInvariant, PTL

(* RunCrawlerForContext falls back to http only if that is allowed and the *)
(* main document of the https attempt, its redirects followed, got no      *)
(* response, one without a status or a 502, whatever the attempt ended     *)
(* with.                                                                   *)
THEOREM FallbackIsForUnanswered == Spec => FallbackOnlyUnanswered
<1>1. CrawlInv /\ [Next]_vars =>
        [run' # run => ~HttpsOnly /\ run = "https" /\ heard \in {None, 0, 502}]_vars
  BY FallbackStep DEF CrawlInv
<1> QED
  BY <1>1, CrawlInvariant, PTL DEF Spec, FallbackOnlyUnanswered

(* What a crawl hands to storage is a good document within both limits,    *)
(* whatever the limits are and whatever the proxy counted.                 *)
THEOREM StoredWithinLimits == Spec => []StoredIsWithinLimits
<1>1. CrawlInv => StoredIsWithinLimits
  BY DEF CrawlInv, StoredInv, StoredIsWithinLimits
<1> QED
  BY <1>1, CrawlInvariant, PTL
=============================================================================
