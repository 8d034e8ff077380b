------------------------------ MODULE CrawlRun -------------------------------
(***************************************************************************)
(* The two users of a browser session: the crawl of a job, which captures  *)
(* the link over https and, if nothing answered there, once more over http *)
(* (RunCrawlerForContext, ExecuteRun, fallback.hpp), and the browser probe *)
(* of the test suite (browser_probe_handler.cpp).  How a capture goes on   *)
(* inside its session is CaptureSession; here it ends in any of the ways   *)
(* CaptureSession::Capture can return.                                     *)
(***************************************************************************)
EXTENDS BrowserSession, Sequences

CONSTANTS
    HttpsOnly,   \* https_only
    MaxArchive,  \* max_archive_bytes
    Ratio,       \* network_down_bytes_ratio_max
    MaxI64       \* the largest i64

ASSUME CrawlAssumption ==
    /\ HttpsOnly \in BOOLEAN
    /\ MaxArchive \in Nat \ {0} /\ Ratio \in Nat \ {0} /\ MaxI64 \in Nat \ {0}
    /\ {"https", "http", "probe"} \subseteq Runs

VARIABLES
    step,      \* how far a probe has come
    heard,     \* history: the response of the attempt's main document, or None
    stored,    \* what the crawl hands to storage
    outcome    \* how the crawl, or the probe, ended

crawlVars == <<step, heard, stored, outcome>>
vars == <<sessionVars, crawlVars>>

\* What a probe does, one after the other.
ProbeSteps == <<"attach", "navigate", "wait", "settle", "read", "frame">>

\* 0: the browser reported a response without a status.
Statuses == {0, 200, 404, 502}

\* What the tracked main document has met: redirects, and the response at their end.
Mains == [redirected: BOOLEAN, status: Statuses \cup {None}]
Probes == {None} \cup [status: Statuses, load: {0, 2}]
ErrorKinds == {"navigation", "proxy", "archive size", "archive build", "internal"}
Outcomes == {"none", "stored", "size limit", "crawler error", "cancelled", "answered",
             "refused"}
Errors == [end: {"error"}, detail: {"size_limit", "net_limit", "connect", "other"}, probe: Probes]
Exchanges == [end: {"exchange"}, status: Statuses, bytes: 0..Limit]
Results == {None, Thrown, [end |-> "probed"]} \cup Errors \cup Exchanges

ASSUME NoneAssumption == None \notin ErrorKinds /\ None \notin Statuses

SessionTypeOK ==
    /\ run \in Runs /\ phase \in Phases /\ result \in Results
    /\ dirs \subseteq Runs /\ known \in BOOLEAN
    /\ wrapper \in Wrappers /\ cgroups \subseteq CgroupRuns /\ socket \in Sockets
    /\ registered \subseteq CgroupRuns
    /\ cancelled \in BOOLEAN
    /\ excuses \subseteq {"fault", "killed", "busy"}

TypeOK ==
    /\ SessionTypeOK
    /\ step \in 1..(Len(ProbeSteps) + 1) /\ heard \in Statuses \cup {None}
    /\ stored = None \/ stored \in [status: Statuses, wacz: Nat, bytes: 0..Limit]
    /\ outcome \in Outcomes

Init ==
    /\ \E r \in {"https", "probe"} : Fresh(r)
    /\ dirs = {} /\ cgroups = {} /\ registered = {} /\ cancelled = FALSE /\ excuses = {}
    /\ step = 1 /\ heard = None /\ stored = None /\ outcome = "none"

-----------------------------------------------------------------------------
(* The capture.                                                            *)

Leave(r) ==
    /\ LeaveWith(r)
    /\ UNCHANGED <<run, diskVars, processVars, registered, cancelled, excuses, proxyVars>>

\* What the tracker tells of its main document when a capture fails: nothing where no
\* request was seen yet, and nothing of a redirect that has not led to a response.
CurrentSeedProbe(main) ==
    IF main.status # None THEN [status: {main.status}, load: {0, 2}]
    ELSE [status: {0}, load: {0}] \cup (IF main.redirected THEN {} ELSE {None})

\* CaptureAttachedTarget fails, with what the tracker tells.
CaptureFails ==
    /\ phase = "use" /\ run # "probe"
    /\ \E detail \in {"size_limit", "other"}, main \in Mains :
          /\ heard' = main.status
          /\ \E probe \in CurrentSeedProbe(main) :
                Leave([end |-> "error", detail |-> detail, probe |-> probe])
    /\ UNCHANGED <<step, stored, outcome>>

IsSuccessfulMainDocumentExchange(status) == status >= 200 /\ status < 400

(* Mutant of CaptureReturns: a proxy error is ignored whatever was captured, and what the *)
(* tracker saw before it was reset is passed on.                                          *)
CaptureReturnsProbing ==
    /\ phase = "use" /\ run # "probe"
    /\ \E status \in Statuses :
          /\ heard' = status
          /\ IF reason # None /\ ~IsSuccessfulMainDocumentExchange(status)
             THEN Leave([end |-> "error", detail |-> reason, probe |-> [status |-> 0, load |-> 0]])
             ELSE Leave([end |-> "exchange", status |-> status, bytes |-> bytes])
    /\ UNCHANGED <<step, stored, outcome>>

\* An exchange was built.  A proxy error counts unless the main document is good; by then
\* the tracker is gone, and with it what it knew.
CaptureReturns ==
    /\ phase = "use" /\ run # "probe"
    /\ \E status \in Statuses :
          /\ heard' = status
          /\ IF reason # None /\ ~IsSuccessfulMainDocumentExchange(status)
             THEN Leave([end |-> "error", detail |-> reason, probe |-> None])
             ELSE Leave([end |-> "exchange", status |-> status, bytes |-> bytes])
    /\ UNCHANGED <<step, stored, outcome>>

\* Writing a phase marker or an error's diagnostics throws.
UseThrows ==
    /\ phase = "use" /\ Throws
    /\ heard' \in IF run = "probe" THEN {None} ELSE Statuses \cup {None}
    /\ UNCHANGED <<run, diskVars, processVars, registered, cancelled, proxyVars, step, stored,
                   outcome>>

-----------------------------------------------------------------------------
(* What becomes of it, once the session is gone.                           *)

Failed(kind, probe) == [error |-> kind, probe |-> probe, wacz |-> None]

\* ratio * n, or the largest i64 where that would overflow.
DownBytesLimit(n) == IF n > 0 /\ Ratio > MaxI64 \div n THEN MaxI64 ELSE Ratio * n

\* What the proxy is given: the bound for the largest archive.
MaxDownBytes == DownBytesLimit(MaxArchive)

ASSUME LimitAssumption == Limit = MaxDownBytes

KindOf(detail) ==
    CASE detail = "size_limit" -> "archive size"
      [] detail = "net_limit" -> "proxy"
      [] OTHER -> "navigation"

\* What an exchange tells of the main document.
SeedStatus(r) == [status |-> r.status, load |-> 0]

(* Mutant of ExecuteRun: the final test of the bytes is left out.          *)
ExecuteRunUnmetered(r, wacz) ==
    IF r = Thrown THEN Failed("internal", None)
    ELSE IF r.end = "error" THEN Failed(KindOf(r.detail), r.probe)
    ELSE IF wacz = None THEN Failed("archive build", None)
    ELSE IF wacz > MaxArchive THEN Failed("archive size", SeedStatus(r))
    ELSE IF r.status >= 400 THEN [error |-> "navigation", probe |-> SeedStatus(r), wacz |-> wacz]
    ELSE [error |-> None, probe |-> None, wacz |-> wacz]

\* The artifacts of an attempt, for an archive of the given size (None: it cannot be built).
ExecuteRun(r, wacz) ==
    IF r = Thrown THEN Failed("internal", None)
    ELSE IF r.end = "error" THEN Failed(KindOf(r.detail), r.probe)
    ELSE IF wacz = None THEN Failed("archive build", None)
    ELSE IF wacz > MaxArchive THEN Failed("archive size", SeedStatus(r))
    ELSE IF r.bytes > DownBytesLimit(wacz) THEN Failed("proxy", SeedStatus(r))
    ELSE IF r.status >= 400 THEN [error |-> "navigation", probe |-> SeedStatus(r), wacz |-> wacz]
    ELSE [error |-> None, probe |-> None, wacz |-> wacz]

IsNoResponseSeedError(probe) ==
    /\ probe # None
    /\ probe.status = 502 \/ (probe.load = 0 /\ probe.status = 0)

ShouldRetryWithHttp(a) == a.error = "navigation" /\ IsNoResponseSeedError(a.probe)

\* A new session for the second attempt: its own directory, deadlines, proxy and process.
TryHttp ==
    /\ run' = "http" /\ phase' = "paths" /\ result' = None /\ known' = FALSE
    /\ wrapper' = "none" /\ socket' = "none"
    /\ state' = "absent" /\ accepting' = FALSE /\ live' = {} /\ served' = {}
    /\ bytes' = 0 /\ reason' = None /\ heard' = None

End(how) ==
    /\ phase' = "over" /\ outcome' = how
    /\ UNCHANGED <<run, result, known, wrapper, socket, proxyVars, heard>>

\* A cancelled exception passes through ExecuteRun and ends the crawl.
Cancelled ==
    /\ phase = "left" /\ run # "probe" /\ result = Thrown /\ cancelled
    /\ End("cancelled")
    /\ UNCHANGED <<dirs, cgroups, registered, cancelled, excuses, step, stored>>

RunCrawlerForContext(wacz) ==
    /\ phase = "left" /\ run # "probe" /\ ~(result = Thrown /\ cancelled)
    /\ LET a == ExecuteRun(result, wacz)
       IN  \/ /\ a.error = None
              /\ End("stored")
              /\ stored' = [status |-> result.status, wacz |-> wacz, bytes |-> result.bytes]
           \/ /\ a.error # None /\ run = "https" /\ ~HttpsOnly /\ ShouldRetryWithHttp(a)
              /\ TryHttp
              /\ UNCHANGED <<stored, outcome>>
           \/ /\ a.error # None /\ (run = "http" \/ HttpsOnly \/ ~ShouldRetryWithHttp(a))
              /\ End(IF a.error = "archive size" THEN "size limit" ELSE "crawler error")
              /\ UNCHANGED stored
    /\ UNCHANGED <<dirs, cgroups, registered, cancelled, excuses, step>>

-----------------------------------------------------------------------------
(* The probe.  A step that fails skips the rest; the page and the          *)
(* connection are stopped in any case, their errors suppressed, before the *)
(* browser goes.                                                           *)

Probing(names) ==
    /\ phase = "use" /\ run = "probe" /\ step <= Len(ProbeSteps) /\ ProbeSteps[step] \in names

\* The lambda in RunProbe goes on, returns, or returns early.
ProbeGoes ==
    /\ step' = step + 1
    /\ result' = IF step = Len(ProbeSteps) THEN [end |-> "probed"] ELSE result

ProbeFails == step' = Len(ProbeSteps) + 1 /\ result' = StartError

\* Commands: answered, refused, or given up by the connection.
ProbeCommand ==
    /\ Probing({"attach", "navigate", "read"})
    /\ ProbeGoes \/ ProbeFails
    /\ UNCHANGED <<phase, run, diskVars, processVars, registered, cancelled, excuses, proxyVars,
                   heard, stored, outcome>>

\* The expression comes true, the connection breaks, or the deadline passes.
WaitForExpression ==
    /\ Probing({"wait", "frame"})
    /\ ProbeGoes \/ ProbeFails
    /\ UNCHANGED <<phase, run, diskVars, processVars, registered, cancelled, excuses, proxyVars,
                   heard, stored, outcome>>

\* The end of the settle window is no failure; a broken connection is, or an event that
\* cannot be read.
SettleProbeEvents ==
    /\ Probing({"settle"})
    /\ ProbeGoes \/ ProbeFails
    /\ UNCHANGED <<phase, run, diskVars, processVars, registered, cancelled, excuses, proxyVars,
                   heard, stored, outcome>>

CleanupProbeSession ==
    /\ phase = "use" /\ run = "probe" /\ step > Len(ProbeSteps)
    /\ Leave(result)
    /\ UNCHANGED crawlVars

ProbeAnswers ==
    /\ phase = "left" /\ run = "probe"
    /\ End(IF result.end = "probed" THEN "answered" ELSE "refused")
    /\ UNCHANGED <<dirs, cgroups, registered, cancelled, excuses, step, stored>>

-----------------------------------------------------------------------------
Over == phase = "over" /\ UNCHANGED vars

ProbeStep == ProbeCommand \/ WaitForExpression \/ SettleProbeEvents \/ CleanupProbeSession

UseEnds == CaptureFails \/ CaptureReturns \/ UseThrows \/ ProbeStep

Concludes == Cancelled \/ ProbeAnswers \/ \E w \in {None} \cup 1..(MaxArchive + 1) : RunCrawlerForContext(w)

Next ==
    \/ SessionStep /\ UNCHANGED crawlVars
    \/ UseEnds \/ Concludes \/ Over

Spec == Init /\ [][Next]_vars

\* The task is scheduled and its waits have deadlines, a capture ends (CaptureSession), the
\* wrapper's script runs on and a stopping proxy stops (EgressProxy).
FairSpec ==
    /\ Spec
    /\ WF_vars((Starting \/ Leaving) /\ Bound /\ UNCHANGED crawlVars)
    /\ WF_vars(UseEnds /\ Bound) /\ WF_vars(Concludes)
    /\ WF_vars(WrapperStep /\ UNCHANGED crawlVars) /\ WF_vars(ProxyStops /\ UNCHANGED crawlVars)

-----------------------------------------------------------------------------
(* Properties.                                                             *)

\* The http attempt is made only when https is optional and the main document of the https
\* attempt got no response, one without a status, or a 502: not because a page was too
\* large, an archive could not be built, the browser did not start or the server said no.
\* A redirect counts for nothing: if what it leads to does not answer, http is tried.
FallbackOnlyUnanswered ==
    [][run' # run => ~HttpsOnly /\ run = "https" /\ heard \in {None, 0, 502}]_vars

\* What is stored is a document without an error status in an archive of legal size, for
\* which no more was downloaded than the ratio allows, and the limit ExecuteRun compares
\* with is an i64 (a larger product would end the process, or the limit the i64 cannot
\* hold would let through what the ratio forbids); the rest of the state is well formed.
StoredIsWithinLimits ==
    /\ TypeOK
    /\ outcome = "stored" =>
        /\ stored.status < 400 /\ stored.wacz <= MaxArchive
        /\ stored.bytes <= Ratio * stored.wacz /\ DownBytesLimit(stored.wacz) <= MaxI64

\* A crawl ends, and so does a probe, whatever the browser, its scripts and the disk do.
RunEnds == <>(phase = "over")
=============================================================================
