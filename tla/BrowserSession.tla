--------------------------- MODULE BrowserSession ---------------------------
(***************************************************************************)
(* One browser and everything started for it (browser_session.cpp and the  *)
(* two scripts it runs): a run directory, an egress proxy, a wrapper       *)
(* process with its cgroup and its sandboxed Chromium, and an entry in the *)
(* metrics.  The session is made, connected to, used and destroyed by one  *)
(* task; the wrapper, the proxy and a cancellation interleave.             *)
(*                                                                         *)
(* Every file operation runs on another thread and is awaited, so it may   *)
(* throw because it failed and because the task was cancelled.  A wait     *)
(* with a deadline may end at any moment.                                  *)
(***************************************************************************)
EXTENDS Naturals

CONSTANTS
    None,
    Runs,        \* names of runs, and of their directories and cgroups
    CgroupRuns,  \* the runs with cgroup limits
    Stage,       \* enable_local_fixture_rewrite
    FsFaults,    \* file operations may fail
    Cancels,     \* the task may be cancelled
    Clients,     \* connections to the proxy
    Limit        \* proxy_down_bytes_max

ASSUME SessionAssumption ==
    /\ CgroupRuns \subseteq Runs /\ Limit \in Nat
    /\ Stage \in BOOLEAN /\ FsFaults \in BOOLEAN /\ Cancels \in BOOLEAN

VARIABLES
    run,         \* the run this session is for
    phase,       \* where the task is
    result,      \* how the use of the session ended
    dirs,        \* run directories on disk
    known,       \* paths is assigned, so that the destructor knows the directory
    wrapper,     \* bwrap_status_wrapper.sh and the sandbox under it
    cgroups,     \* cgroup directories
    socket,      \* cdp.sock: its listener takes one connection
    registered,  \* browser_cgroups_ of the metrics
    cancelled,   \* the task is cancelled
    excuses,     \* history: what may leave a directory behind
    state, accepting, live, served, bytes, reason  \* the proxy

taskVars    == <<run, phase, result>>
diskVars    == <<dirs, known>>
processVars == <<wrapper, cgroups, socket>>
proxyVars   == <<state, accepting, live, served, bytes, reason>>
sessionVars == <<taskVars, diskVars, processVars, registered, cancelled, excuses, proxyVars>>

Reasons == {"connect", "net_limit"}

\* The proxy, by what EgressProxy is shown to implement.
Proxy == INSTANCE ProxyService WITH Kinds <- Reasons

Phases == {"paths", "files", "stage", "proxy", "spawn", "devtools", "connect", "use",
           "unregister", "signal", "wait", "stop proxy", "join proxy", "remove", "left",
           "over"}
Wrappers == {"none", "setup", "running", "cleaning", "gone"}
Sockets  == {"none", "open", "spent"}

Thrown     == [end |-> "thrown"]
StartError == [end |-> "error", detail |-> "other", probe |-> None]

\* What a new session finds: nothing of its own.
Fresh(r) ==
    /\ run = r /\ phase = "paths" /\ result = None /\ known = FALSE
    /\ wrapper = "none" /\ socket = "none"
    /\ Proxy!Init

-----------------------------------------------------------------------------
(* BrowserSession::Make.                                                   *)

\* The scope is left: the destructors run.
LeaveWith(r) == phase' = "unregister" /\ result' = r

Excused(why) == excuses' = excuses \cup why

\* An exception leaves the scope, whatever has been started by then.
Throws ==
    /\ cancelled \/ FsFaults
    /\ LeaveWith(Thrown)
    /\ Excused(IF cancelled THEN {} ELSE {"fault"})

MakeRunDir ==
    /\ phase = "paths"
    /\ \/ dirs' = dirs \cup {run} /\ phase' = "files" /\ UNCHANGED <<result, excuses>>
       \/ Throws /\ UNCHANGED dirs
    /\ UNCHANGED <<run, known, processVars, registered, cancelled, proxyVars>>

\* The rest of MakeBrowserPaths; only when it returns is paths assigned.
FillRunDir ==
    /\ phase = "files"
    /\ \/ known' = TRUE /\ phase' = "stage" /\ UNCHANGED <<result, excuses>>
       \/ Throws /\ UNCHANGED known
    /\ UNCHANGED <<run, dirs, processVars, registered, cancelled, proxyVars>>

StageLocalFixtureTrustDbIfNeeded ==
    /\ phase = "stage"
    /\ \/ phase' = "proxy" /\ UNCHANGED <<result, excuses>>
       \/ Stage /\ LeaveWith(StartError) /\ UNCHANGED excuses
       \/ Throws
    /\ UNCHANGED <<run, diskVars, processVars, registered, cancelled, proxyVars>>

StartBrowserProxy ==
    /\ phase = "proxy"
    /\ \/ Proxy!Open /\ phase' = "spawn" /\ UNCHANGED <<result, excuses>>
       \/ LeaveWith(StartError) /\ UNCHANGED <<excuses, proxyVars>>
       \/ Throws /\ UNCHANGED proxyVars
    /\ UNCHANGED <<run, diskVars, processVars, registered, cancelled>>

SpawnSandboxedBrowser ==
    /\ phase = "spawn"
    /\ \/ /\ wrapper' = "setup" /\ registered' = registered \cup ({run} \cap CgroupRuns)
          /\ phase' = "devtools" /\ UNCHANGED <<result, excuses>>
       \/ Throws /\ UNCHANGED <<wrapper, registered>>
    /\ UNCHANGED <<run, diskVars, cgroups, socket, cancelled, proxyVars>>

(* Mutant of WaitForDevtoolsPath: it waits for as long as the process runs. *)
WaitForDevtoolsPathForever ==
    /\ phase = "devtools"
    /\ \/ socket = "open" /\ wrapper # "gone" /\ phase' = "connect" /\ UNCHANGED <<result, excuses>>
       \/ wrapper = "gone" /\ LeaveWith(StartError) /\ UNCHANGED excuses
       \/ Throws
    /\ UNCHANGED <<run, diskVars, processVars, registered, cancelled, proxyVars>>

\* Until the path is there, the process is gone or devtools_startup_timeout has passed.
WaitForDevtoolsPath ==
    /\ phase = "devtools"
    /\ \/ socket = "open" /\ wrapper # "gone" /\ phase' = "connect" /\ UNCHANGED <<result, excuses>>
       \/ LeaveWith(StartError) /\ UNCHANGED excuses
       \/ Throws
    /\ UNCHANGED <<run, diskVars, processVars, registered, cancelled, proxyVars>>

\* ConnectCdp tries until the deadline.  The first connection uses up the listener,
\* whether or not its handshake succeeds.
ConnectCdp ==
    /\ phase = "connect"
    /\ \/ /\ socket = "open" /\ wrapper = "running"
          /\ socket' = "spent" /\ phase' \in {"connect", "use"}
          /\ UNCHANGED <<result, excuses>>
       \/ LeaveWith(StartError) /\ UNCHANGED <<socket, excuses>>
       \/ Throws /\ UNCHANGED socket
    /\ UNCHANGED <<run, diskVars, wrapper, cgroups, registered, cancelled, proxyVars>>

\* A fault happens or not; only a cancelled task is bound to throw.
Bound == (result' = Thrown /\ result # Thrown) => cancelled

Starting ==
    \/ MakeRunDir \/ FillRunDir \/ StageLocalFixtureTrustDbIfNeeded \/ StartBrowserProxy
    \/ SpawnSandboxedBrowser \/ WaitForDevtoolsPath \/ ConnectCdp

-----------------------------------------------------------------------------
(* The destructor.                                                         *)

UnregisterBrowserCgroup ==
    /\ phase = "unregister"
    /\ registered' = registered \ {run} /\ phase' = "signal"
    /\ UNCHANGED <<run, result, diskVars, processVars, cancelled, excuses, proxyVars>>

\* A signal that finds the wrapper before it has set its trap ends it at once.
SignalProcess ==
    /\ phase = "signal"
    /\ IF wrapper \in {"none", "gone"}
       THEN phase' = "stop proxy" /\ UNCHANGED wrapper
       ELSE /\ phase' = "wait"
            /\ wrapper' \in {"cleaning"} \cup (IF wrapper = "setup" THEN {"gone"} ELSE {})
    /\ UNCHANGED <<run, result, diskVars, cgroups, socket, registered, cancelled, excuses,
                   proxyVars>>

WaitProcess ==
    /\ phase = "wait" /\ wrapper = "gone"
    /\ phase' = "stop proxy"
    /\ UNCHANGED <<run, result, diskVars, processVars, registered, cancelled, excuses, proxyVars>>

(* Mutant of KillProcess: the wait after SIGTERM is given up without SIGKILL. *)
KillProcessNot ==
    /\ phase = "wait" /\ wrapper # "gone"
    /\ phase' = "stop proxy"
    /\ UNCHANGED <<run, result, diskVars, processVars, registered, cancelled, excuses, proxyVars>>

\* After browser_stop_timeout, or at once when the task is cancelled.  The sandbox dies
\* with the wrapper; the wrapper's cleanup is cut short.
KillProcess ==
    /\ phase = "wait" /\ wrapper # "gone"
    /\ wrapper' = "gone" /\ phase' = "stop proxy" /\ Excused({"killed"})
    /\ UNCHANGED <<run, result, diskVars, cgroups, socket, registered, cancelled, proxyVars>>

StopProxy ==
    /\ phase = "stop proxy"
    /\ \/ state = "absent" /\ phase' = "remove" /\ UNCHANGED proxyVars
       \/ Proxy!BeginStop /\ phase' = "join proxy"
    /\ UNCHANGED <<run, result, diskVars, processVars, registered, cancelled, excuses>>

JoinProxy ==
    /\ phase = "join proxy" /\ state = "closed"
    /\ phase' = "remove"
    /\ UNCHANGED <<run, result, diskVars, processVars, registered, cancelled, excuses, proxyVars>>

(* Mutant of RemoveBrowserRunDir: the directory is removed along with the proxy, and not *)
(* without one.                                                                          *)
RemoveBrowserRunDirOfProxy ==
    /\ phase = "remove"
    /\ phase' = "left"
    /\ dirs' = IF state = "absent" THEN dirs ELSE dirs \ {run}
    /\ UNCHANGED <<run, result, known, processVars, registered, cancelled, excuses, proxyVars>>

\* Removal is attempted when the directory is known; a failure is only logged.
RemoveBrowserRunDir ==
    /\ phase = "remove"
    /\ phase' = "left"
    /\ \/ known /\ dirs' = dirs \ {run} /\ UNCHANGED excuses
       \/ /\ ~known \/ cancelled \/ FsFaults
          /\ Excused(IF known /\ ~cancelled THEN {"fault"} ELSE {}) /\ UNCHANGED dirs
    /\ UNCHANGED <<run, result, known, processVars, registered, cancelled, proxyVars>>

Leaving ==
    \/ UnregisterBrowserCgroup \/ SignalProcess \/ WaitProcess \/ KillProcess
    \/ StopProxy \/ JoinProxy \/ RemoveBrowserRunDir

-----------------------------------------------------------------------------
(* What goes on around the task.                                           *)

\* bwrap_status_wrapper.sh makes its cgroup and starts the sandbox, or exits.
WrapperStarts ==
    /\ wrapper = "setup"
    /\ cgroups' = cgroups \cup ({run} \cap CgroupRuns)
    /\ wrapper' \in {"running", "cleaning"}
    /\ UNCHANGED <<taskVars, diskVars, socket, registered, cancelled, excuses, proxyVars>>

\* browser_sandbox.sh has found the websocket path: it starts the listener of cdp.sock and
\* writes the path.
DevtoolsAppear ==
    /\ wrapper = "running" /\ socket = "none"
    /\ socket' = "open"
    /\ UNCHANGED <<taskVars, diskVars, wrapper, cgroups, registered, cancelled, excuses, proxyVars>>

BrowserExits ==
    /\ wrapper = "running"
    /\ wrapper' = "cleaning"
    /\ UNCHANGED <<taskVars, diskVars, cgroups, socket, registered, cancelled, excuses, proxyVars>>

\* The trap: kill the sandbox, leave the cgroup, and remove it if fifty attempts suffice.
WrapperCleans ==
    /\ wrapper = "cleaning"
    /\ wrapper' = "gone"
    /\ \/ cgroups' = cgroups \ {run} /\ UNCHANGED excuses
       \/ run \in cgroups /\ Excused({"busy"}) /\ UNCHANGED cgroups
    /\ UNCHANGED <<taskVars, diskVars, socket, registered, cancelled, proxyVars>>

WrapperStep == WrapperStarts \/ WrapperCleans

ProxyServes ==
    /\ \/ wrapper = "running" /\ \E c \in Clients : Proxy!Accept(c)
       \/ (\E c \in Clients : Proxy!Serve(c)) \/ Proxy!GiveUpAccepting
    /\ UNCHANGED <<taskVars, diskVars, processVars, registered, cancelled, excuses>>

\* What StopAll waits for.
ProxyStops ==
    /\ state = "stopping"
    /\ \/ Proxy!GiveUpAccepting \/ Proxy!Close
       \/ \E c \in Clients : Proxy!Serve(c) /\ live' # live
    /\ UNCHANGED <<taskVars, diskVars, processVars, registered, cancelled, excuses>>

CancelTask ==
    /\ Cancels /\ ~cancelled /\ phase # "over"
    /\ cancelled' = TRUE
    /\ UNCHANGED <<taskVars, diskVars, processVars, registered, excuses, proxyVars>>

SessionStep ==
    \/ Starting \/ Leaving \/ WrapperStep \/ DevtoolsAppear \/ BrowserExits
    \/ ProxyServes \/ ProxyStops \/ CancelTask

-----------------------------------------------------------------------------
(* Properties.                                                             *)

\* However far a session came and however its user left it, once it is gone no process,
\* no task of the proxy and no entry in the metrics is left of it: a second attempt never
\* runs beside the remains of the first.
NothingOutlivesTheSession ==
    phase \in {"paths", "left", "over"} =>
        /\ wrapper \in {"none", "gone"} /\ state \in {"absent", "closed"}
        /\ live = {} /\ registered = {}

\* A directory stays behind only because a file operation failed or the task was
\* cancelled, a cgroup only because the wrapper was killed or could not empty it.
LitterHasAnExcuse ==
    phase = "over" =>
        /\ dirs # {} => cancelled \/ "fault" \in excuses
        /\ cgroups # {} => excuses \cap {"killed", "busy"} # {}
=============================================================================
