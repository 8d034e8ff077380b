---------------------------- MODULE CaptureJobs -----------------------------
(***************************************************************************)
(* The capture pipeline of webshotd: the POST /v1/capture handler, Crud    *)
(* (webshotd/src/crud.cpp), the two Postgres repositories, the access      *)
(* policy store and the object store, as the concurrent tasks they are.    *)
(*                                                                         *)
(*   - a client's request evaluates the access policy and then creates or  *)
(*     reuses a crawl job inside a transaction (MakeOrReuseCrawlJobLocked);*)
(*   - every created job has one detached worker task which marks it       *)
(*     running, waits for a crawl slot, crawls, checks the denylist again, *)
(*     looks for an identical capture, uploads the archive, inserts the    *)
(*     capture row and marks the job;                                      *)
(*   - DenyPrefixAndPurge denylists a prefix and detaches a purge task;    *)
(*   - a periodic task expires old job rows;                               *)
(*   - the process may die, or abort itself, and restarts with no memory   *)
(*     of the tasks it had.                                                *)
(*                                                                         *)
(* One step is one statement or one request to the object store: the tasks *)
(* interleave between them.  Every capture is stored under the id of the   *)
(* job that made it, so its link and content hash are linkOf and hash of   *)
(* that id.                                                                *)
(***************************************************************************)
EXTENDS Integers, FiniteSets, AccessPolicy

CONSTANTS
    Jobs,        \* uuids the generator may draw: jobs, and captures named after them
    Hashes,      \* content hashes of the archives a crawl can produce
    Clients,     \* concurrent POST /v1/capture requests
    Purgers,     \* concurrent purge tasks
    None,
    Slots,       \* crawl_slots: worker count of the main task processor
    RateLimit,   \* link_ratelimit, 0 disables it
    Retention,   \* crawl_job_retention
    TxTimeout,   \* request_timeout of the handler: a transaction is not older
    Batch,       \* purge_delete_batch_size
    MaxTime,     \* bound of the clock
    DbFaults,    \* how a statement may fail: "notApplied", "applied" (reply lost)
    S3Faults,    \* how a request to the object store may fail, likewise
    Cancels,     \* whether the deadline of a crawl task may pass
    Crashes      \* whether the process may die

ASSUME CaptureJobsAssumption ==
    /\ None \notin Jobs /\ None \notin Links /\ None \notin Hashes
    /\ None \notin Prefixes
    /\ RateLimit \in Nat /\ Retention \in Nat /\ TxTimeout \in Nat
    /\ MaxTime \in Nat /\ Slots \in Nat \ {0} /\ Batch \in Nat \ {0}
    /\ Retention >= RateLimit   \* checked by the constructor of Crud::Impl
    /\ DbFaults \subseteq {"notApplied", "applied"}
    /\ S3Faults \subseteq {"notApplied", "applied"}
    /\ Cancels \in BOOLEAN /\ Crashes \in BOOLEAN

VARIABLES
    now,        \* the clock, shared by the service and the database
    \* table crawl_job
    status, linkOf, createdAt, resultId,
    \* requests: program counter, link asked for, start of the transaction
    cpc, creq, txStart,
    \* workers: program counter, hash of the archive, capture to report
    wpc, hash, found,
    cancelled,  \* workers whose deadline has passed
    captured,   \* ids of the rows of table capture
    objects,    \* ids with an object in the bucket
    denylist, allowlist,
    \* purge tasks: program counter, prefix, rest of the batch, id in hand
    ppc, pprefix, pbatch, pcur

jobVars    == <<status, linkOf, createdAt, resultId>>
clientVars == <<cpc, creq, txStart>>
workerVars == <<wpc, hash, found, cancelled>>
storeVars  == <<captured, objects>>
policyVars == <<denylist, allowlist>>
purgeVars  == <<ppc, pprefix, pbatch, pcur>>
vars == <<now, status, linkOf, createdAt, resultId, cpc, creq, txStart, wpc, hash,
          found, cancelled, captured, objects, denylist, allowlist,
          ppc, pprefix, pbatch, pcur>>

Statuses  == {"absent", "pending", "running", "succeeded", "failed", "gone"}
ClientPCs == {"idle", "policy1", "policy2", "create", "lock", "select", "insert"}
WorkerPCs == {"none", "start", "slot", "crawl", "check", "find", "put", "insert",
              "undo", "succeed", "fail"}
PurgePCs  == {"idle", "select", "object", "row"}

(* The scope of slot_lock in RunCrawlJob: from the crawl to the return.    *)
SlotHolding == {"crawl", "check", "find", "put", "insert", "undo"}

TypeOK ==
    /\ now \in Nat
    /\ status \in [Jobs -> Statuses]
    /\ linkOf \in [Jobs -> Links \cup {None}]
    /\ createdAt \in [Jobs -> Nat]
    /\ resultId \in [Jobs -> Jobs \cup {None}]
    /\ cpc \in [Clients -> ClientPCs]
    /\ creq \in [Clients -> Links \cup {None}]
    /\ txStart \in [Clients -> Nat]
    /\ wpc \in [Jobs -> WorkerPCs]
    /\ hash \in [Jobs -> Hashes \cup {None}]
    /\ found \in [Jobs -> Jobs \cup {None}]
    /\ cancelled \subseteq Jobs
    /\ captured \subseteq Jobs
    /\ objects \subseteq Jobs
    /\ denylist \subseteq Prefixes
    /\ allowlist \subseteq Prefixes
    /\ ppc \in [Purgers -> PurgePCs]
    /\ pprefix \in [Purgers -> Prefixes \cup {None}]
    /\ pbatch \in [Purgers -> SUBSET Jobs]
    /\ pcur \in [Purgers -> Jobs \cup {None}]

(* The tasks of a process that has just started.  Nothing of a previous    *)
(* process is taken up again: the constructor of Crud::Impl starts the     *)
(* periodic tasks and reads neither crawl_job nor the denylist.            *)
NoTasks ==
    /\ cpc = [c \in Clients |-> "idle"]
    /\ creq = [c \in Clients |-> None]
    /\ txStart = [c \in Clients |-> 0]
    /\ wpc = [j \in Jobs |-> "none"]
    /\ found = [j \in Jobs |-> None]
    /\ cancelled = {}
    /\ ppc = [a \in Purgers |-> "idle"]
    /\ pprefix = [a \in Purgers |-> None]
    /\ pbatch = [a \in Purgers |-> {}]
    /\ pcur = [a \in Purgers |-> None]

Init ==
    /\ now = 0
    /\ status = [j \in Jobs |-> "absent"]
    /\ linkOf = [j \in Jobs |-> None]
    /\ createdAt = [j \in Jobs |-> 0]
    /\ resultId = [j \in Jobs |-> None]
    /\ hash = [j \in Jobs |-> None]
    /\ captured = {} /\ objects = {}
    /\ denylist = {} /\ allowlist = {}
    /\ NoTasks

-----------------------------------------------------------------------------
(* A statement or a request to the object store that fails, and one whose  *)
(* reply is lost, are the same error to the task that made it.  "cut" is   *)
(* the deadline of a crawl task passing while it waits for the reply: an   *)
(* error too, and the task is cancelled from then on.  A cancelled task    *)
(* only gets errors, though a request of it may still go out.              *)
Applied(o) == o \in {"ok", "applied", "cut"}

TaskOutcomes(j, faults) ==
    LET lost == faults \cap {"applied"}
    IN  IF j \in cancelled THEN {"notApplied"} \cup lost
        ELSE {"ok"} \cup faults
                \cup (IF Cancels /\ lost # {} THEN {"cut"} ELSE {})

Denied(link) == ~IsAllowedPrefix(link, denylist)

(* select_capture_by_link_hash.sql; which of several is not told apart.    *)
SameCaptures(j) == {c \in captured : linkOf[c] = linkOf[j] /\ hash[c] = hash[j]}

(* select_ids_by_deny_prefix_paged.sql, before the limit.                  *)
CapturesUnder(p) == {c \in captured : linkOf[c] \in Covered[p]}

-----------------------------------------------------------------------------
(* POST /v1/capture                                                        *)

ClientReturns(c) ==
    /\ cpc' = [cpc EXCEPT ![c] = "idle"]
    /\ creq' = [creq EXCEPT ![c] = None]
    /\ txStart' = [txStart EXCEPT ![c] = 0]

ClientGoes(c, pc) ==
    /\ cpc' = [cpc EXCEPT ![c] = pc]
    /\ UNCHANGED <<creq, txStart>>

Submit(c, link) ==
    /\ cpc[c] = "idle"
    /\ cpc' = [cpc EXCEPT ![c] = "policy1"]
    /\ creq' = [creq EXCEPT ![c] = link]
    /\ UNCHANGED <<now, txStart, jobVars, workerVars, storeVars, policyVars, purgeVars>>

(* EvaluatePrefix, statement by statement; a refusal answers 403.          *)
PolicyRead1(c) ==
    LET decision == FirstRead(creq[c], denylist, allowlist)
    IN  /\ cpc[c] = "policy1"
        /\ \/ decision = "allow"     /\ ClientGoes(c, "create")
           \/ decision = "undecided" /\ ClientGoes(c, "policy2")
           \/ decision = "deny"      /\ ClientReturns(c)
        /\ UNCHANGED <<now, jobVars, workerVars, storeVars, policyVars, purgeVars>>

PolicyRead2(c) ==
    LET decision == SecondRead(creq[c], denylist, allowlist)
    IN  /\ cpc[c] = "policy2"
        /\ \/ decision = "allow" /\ ClientGoes(c, "create")
           \/ decision = "deny"  /\ ClientReturns(c)
        /\ UNCHANGED <<now, jobVars, workerVars, storeVars, policyVars, purgeVars>>

(* MakeOrReuseCrawlJobLocked.  created_at is the default now() of the      *)
(* transaction, that is the time of its start, before the wait for the     *)
(* advisory lock.                                                          *)
BeginTransaction(c) ==
    /\ cpc[c] = "create"
    /\ RateLimit > 0
    /\ cpc' = [cpc EXCEPT ![c] = "lock"]
    /\ txStart' = [txStart EXCEPT ![c] = now]
    /\ UNCHANGED <<now, creq, jobVars, workerVars, storeVars, policyVars, purgeVars>>

HoldsLinkLock(c, link) == cpc[c] \in {"select", "insert"} /\ creq[c] = link

(* Mutant of LockLink: no pg_advisory_xact_lock.                           *)
LockLinkMutant(c) ==
    /\ cpc[c] = "lock"
    /\ ClientGoes(c, "select")
    /\ UNCHANGED <<now, jobVars, workerVars, storeVars, policyVars, purgeVars>>

LockLink(c) ==
    /\ cpc[c] = "lock"
    /\ \A d \in Clients : ~HoldsLinkLock(d, creq[c])
    /\ ClientGoes(c, "select")
    /\ UNCHANGED <<now, jobVars, workerVars, storeVars, policyVars, purgeVars>>

Visible(j) == status[j] \notin {"absent", "gone"}

(* The latest row of the link is inside the window iff some row is.        *)
InRatelimitWindow(link) ==
    \E j \in Jobs : Visible(j) /\ linkOf[j] = link /\ now < createdAt[j] + RateLimit

SelectLatest(c) ==
    /\ cpc[c] = "select"
    /\ \/ InRatelimitWindow(creq[c])  /\ ClientReturns(c)
       \/ ~InRatelimitWindow(creq[c]) /\ ClientGoes(c, "insert")
    /\ UNCHANGED <<now, jobVars, workerVars, storeVars, policyVars, purgeVars>>

(* The row is inserted and committed; the worker is detached only by a     *)
(* request that knows it.                                                  *)
InsertCrawlJob(c, j, created, o) ==
    /\ status[j] = "absent"
    /\ \/ /\ Applied(o)
          /\ status' = [status EXCEPT ![j] = "pending"]
          /\ linkOf' = [linkOf EXCEPT ![j] = creq[c]]
          /\ createdAt' = [createdAt EXCEPT ![j] = created]
       \/ /\ ~Applied(o)
          /\ UNCHANGED <<status, linkOf, createdAt>>
    /\ wpc' = IF o = "ok" THEN [wpc EXCEPT ![j] = "start"] ELSE wpc
    /\ ClientReturns(c)
    /\ UNCHANGED <<now, resultId, hash, found, cancelled, storeVars, policyVars, purgeVars>>

InsertLocked(c, j, o) ==
    /\ cpc[c] = "insert"
    /\ now <= txStart[c] + TxTimeout
    /\ InsertCrawlJob(c, j, txStart[c], o)

InsertUnlimited(c, j, o) ==
    /\ cpc[c] = "create"
    /\ RateLimit = 0
    /\ InsertCrawlJob(c, j, now, o)

(* A database error, or the deadline of the request passing, at any of the *)
(* statements above: the transaction is rolled back, the lock released.    *)
RequestFails(c) ==
    /\ cpc[c] # "idle"
    /\ ClientReturns(c)
    /\ UNCHANGED <<now, jobVars, workerVars, storeVars, policyVars, purgeVars>>

-----------------------------------------------------------------------------
(* The detached crawl_job task of MakeCaptureJob                           *)

WorkerGoes(j, pc) == wpc' = [wpc EXCEPT ![j] = pc]

(* The task ends and what it held in memory goes with it.                  *)
WorkerEnds(j) ==
    /\ wpc' = [wpc EXCEPT ![j] = "none"]
    /\ found' = [found EXCEPT ![j] = None]
    /\ cancelled' = cancelled \ {j}

CutOff(j, o) == cancelled' = IF o = "cut" THEN cancelled \cup {j} ELSE cancelled

(* Mutant of MarkJobRunning: no "where status = 'pending'".                *)
MarkJobRunningMutant(j, o) ==
    /\ wpc[j] = "start"
    /\ status' = IF Applied(o) THEN [status EXCEPT ![j] = "running"] ELSE status
    /\ IF o = "ok"
       THEN WorkerGoes(j, "slot") /\ UNCHANGED <<found, cancelled>>
       ELSE WorkerEnds(j)
    /\ UNCHANGED <<now, linkOf, createdAt, resultId, hash, clientVars, storeVars,
                   policyVars, purgeVars>>

(* update_crawl_job_running.sql: no row is not an error, but an error ends *)
(* the task with the job left as it is.                                    *)
MarkJobRunning(j, o) ==
    /\ wpc[j] = "start"
    /\ status' = IF Applied(o) /\ status[j] = "pending"
                 THEN [status EXCEPT ![j] = "running"] ELSE status
    /\ IF o = "ok"
       THEN WorkerGoes(j, "slot") /\ UNCHANGED <<found, cancelled>>
       ELSE WorkerEnds(j)
    /\ UNCHANGED <<now, linkOf, createdAt, resultId, hash, clientVars, storeVars,
                   policyVars, purgeVars>>

(* The deadline set on entry to RunCrawlJob passes between two requests.   *)
DeadlinePasses(j) ==
    /\ Cancels
    /\ wpc[j] \in SlotHolding \cup {"slot"}
    /\ j \notin cancelled
    /\ cancelled' = cancelled \cup {j}
    /\ UNCHANGED <<now, wpc, hash, found, jobVars, clientVars, storeVars, policyVars,
                   purgeVars>>

(* CancellableSemaphore: only the wait for a slot is cut short.            *)
AcquireSlot(j) ==
    /\ wpc[j] = "slot"
    /\ \/ /\ Cardinality({k \in Jobs : wpc[k] \in SlotHolding}) < Slots
          /\ WorkerGoes(j, "crawl")
       \/ /\ j \in cancelled
          /\ WorkerGoes(j, "fail")
    /\ UNCHANGED <<now, hash, found, cancelled, jobVars, clientVars, storeVars,
                   policyVars, purgeVars>>

(* RunCrawlerForContext: an archive with its hash, or one of its errors.   *)
Crawl(j) ==
    /\ wpc[j] = "crawl"
    /\ \/ /\ j \notin cancelled
          /\ \E h \in Hashes : hash' = [hash EXCEPT ![j] = h]
          /\ WorkerGoes(j, "check")
       \/ /\ WorkerGoes(j, "fail")
          /\ UNCHANGED hash
    /\ UNCHANGED <<now, found, cancelled, jobVars, clientVars, storeVars, policyVars,
                   purgeVars>>

(* Mutant of CheckDenylist: the allowlist overrides, as in EvaluatePrefix. *)
CheckDenylistMutant(j, o) ==
    /\ wpc[j] = "check"
    /\ WorkerGoes(j, IF /\ o = "ok"
                        /\ \/ ListCovers(allowlist, linkOf[j])
                           \/ IsAllowedPrefix(linkOf[j], denylist)
                     THEN "find" ELSE "fail")
    /\ CutOff(j, o)
    /\ UNCHANGED <<now, hash, found, jobVars, clientVars, storeVars, policyVars, purgeVars>>

(* PersistMetadataForContext, statement by statement.                      *)
CheckDenylist(j, o) ==
    /\ wpc[j] = "check"
    /\ WorkerGoes(j, IF o = "ok" /\ IsAllowedPrefix(linkOf[j], denylist)
                     THEN "find" ELSE "fail")
    /\ CutOff(j, o)
    /\ UNCHANGED <<now, hash, found, jobVars, clientVars, storeVars, policyVars, purgeVars>>

FindCaptureByLinkHash(j, o) ==
    /\ wpc[j] = "find"
    /\ \/ /\ o = "ok"
          /\ \E c \in SameCaptures(j) : found' = [found EXCEPT ![j] = c]
          /\ WorkerGoes(j, "succeed")
       \/ /\ o = "ok" /\ SameCaptures(j) = {}
          /\ WorkerGoes(j, "put")
          /\ UNCHANGED found
       \/ /\ o # "ok"
          /\ WorkerGoes(j, "fail")
          /\ UNCHANGED found
    /\ CutOff(j, o)
    /\ UNCHANGED <<now, hash, jobVars, clientVars, storeVars, policyVars, purgeVars>>

(* Mutant of PutCaptureObject: no return after a failed upload.            *)
PutCaptureObjectMutant(j, o) ==
    /\ wpc[j] = "put"
    /\ objects' = IF Applied(o) THEN objects \cup {j} ELSE objects
    /\ WorkerGoes(j, "insert")
    /\ CutOff(j, o)
    /\ UNCHANGED <<now, hash, found, captured, jobVars, clientVars, policyVars, purgeVars>>

PutCaptureObject(j, o) ==
    /\ wpc[j] = "put"
    /\ objects' = IF Applied(o) THEN objects \cup {j} ELSE objects
    /\ WorkerGoes(j, IF o = "ok" THEN "insert" ELSE "fail")
    /\ CutOff(j, o)
    /\ UNCHANGED <<now, hash, found, captured, jobVars, clientVars, policyVars, purgeVars>>

(* Mutants of InsertCapture: the error of the insert ignored, and returned *)
(* without taking the upload back.                                         *)
InsertCaptureIgnoringError(j, o) ==
    /\ wpc[j] = "insert"
    /\ captured' = IF Applied(o) THEN captured \cup {j} ELSE captured
    /\ WorkerGoes(j, "succeed") /\ found' = [found EXCEPT ![j] = j]
    /\ CutOff(j, o)
    /\ UNCHANGED <<now, hash, objects, jobVars, clientVars, policyVars, purgeVars>>

InsertCaptureWithoutUndo(j, o) ==
    /\ wpc[j] = "insert"
    /\ captured' = IF Applied(o) THEN captured \cup {j} ELSE captured
    /\ IF o = "ok"
       THEN WorkerGoes(j, "succeed") /\ found' = [found EXCEPT ![j] = j]
       ELSE WorkerGoes(j, "fail") /\ UNCHANGED found
    /\ CutOff(j, o)
    /\ UNCHANGED <<now, hash, objects, jobVars, clientVars, policyVars, purgeVars>>

InsertCapture(j, o) ==
    /\ wpc[j] = "insert"
    /\ captured' = IF Applied(o) THEN captured \cup {j} ELSE captured
    /\ IF o = "ok"
       THEN WorkerGoes(j, "succeed") /\ found' = [found EXCEPT ![j] = j]
       ELSE WorkerGoes(j, "undo") /\ UNCHANGED found
    /\ CutOff(j, o)
    /\ UNCHANGED <<now, hash, objects, jobVars, clientVars, policyVars, purgeVars>>

(* The object of a failed insert is deleted; a failing delete is logged.   *)
UndoPut(j, o) ==
    /\ wpc[j] = "undo"
    /\ objects' = IF Applied(o) THEN objects \ {j} ELSE objects
    /\ WorkerGoes(j, "fail")
    /\ CutOff(j, o)
    /\ UNCHANGED <<now, hash, found, captured, jobVars, clientVars, policyVars, purgeVars>>

(* Mutants: the content hash reported for the capture id, and mark_failed  *)
(* without its TaskCancellationBlocker.                                    *)
MarkJobSucceededMutant(j, o) ==
    /\ wpc[j] = "succeed"
    /\ \/ /\ Applied(o) /\ status[j] = "running"
          /\ status' = [status EXCEPT ![j] = "succeeded"]
          /\ resultId' = [resultId EXCEPT ![j] = hash[j]]
       \/ /\ ~Applied(o) \/ status[j] # "running"
          /\ UNCHANGED <<status, resultId>>
    /\ WorkerEnds(j)
    /\ UNCHANGED <<now, linkOf, createdAt, hash, clientVars, storeVars, policyVars,
                   purgeVars>>

MarkJobFailedMutant(j, o) ==
    /\ wpc[j] = "fail"
    /\ status' = IF Applied(o) /\ status[j] \in {"pending", "running"} /\ j \notin cancelled
                 THEN [status EXCEPT ![j] = "failed"] ELSE status
    /\ WorkerEnds(j)
    /\ UNCHANGED <<now, linkOf, createdAt, resultId, hash, clientVars, storeVars,
                   policyVars, purgeVars>>

(* mark_succeeded and mark_failed run under a TaskCancellationBlocker, so  *)
(* a cancelled task reaches the database too.                              *)
MarkJobSucceeded(j, o) ==
    /\ wpc[j] = "succeed"
    /\ \/ /\ Applied(o) /\ status[j] = "running"
          /\ status' = [status EXCEPT ![j] = "succeeded"]
          /\ resultId' = [resultId EXCEPT ![j] = found[j]]
       \/ /\ ~Applied(o) \/ status[j] # "running"
          /\ UNCHANGED <<status, resultId>>
    /\ WorkerEnds(j)
    /\ UNCHANGED <<now, linkOf, createdAt, hash, clientVars, storeVars, policyVars,
                   purgeVars>>

MarkJobFailed(j, o) ==
    /\ wpc[j] = "fail"
    /\ status' = IF Applied(o) /\ status[j] \in {"pending", "running"}
                 THEN [status EXCEPT ![j] = "failed"] ELSE status
    /\ WorkerEnds(j)
    /\ UNCHANGED <<now, linkOf, createdAt, resultId, hash, clientVars, storeVars,
                   policyVars, purgeVars>>

-----------------------------------------------------------------------------
(* The process dies, or aborts itself: the memory of every task is lost.   *)
(* The next process starts as in NoTasks.                                  *)
AbortProcess ==
    /\ cpc' = [c \in Clients |-> "idle"]
    /\ creq' = [c \in Clients |-> None]
    /\ txStart' = [c \in Clients |-> 0]
    /\ wpc' = [j \in Jobs |-> "none"]
    /\ found' = [j \in Jobs |-> None]
    /\ cancelled' = {}
    /\ ppc' = [a \in Purgers |-> "idle"]
    /\ pprefix' = [a \in Purgers |-> None]
    /\ pbatch' = [a \in Purgers |-> {}]
    /\ pcur' = [a \in Purgers |-> None]

(* DenyPrefixAndPurge: AccessPolicyStore::InsertPrefix aborts the process  *)
(* when the insert fails.                                                  *)
DenyPrefixAndPurge(a, p, o) ==
    /\ ppc[a] = "idle"
    /\ denylist' = IF Applied(o) THEN denylist \cup {p} ELSE denylist
    /\ \/ /\ o = "ok"
          /\ ppc' = [ppc EXCEPT ![a] = "select"]
          /\ pprefix' = [pprefix EXCEPT ![a] = p]
          /\ UNCHANGED <<pbatch, pcur, clientVars, wpc, found, cancelled>>
       \/ o # "ok" /\ AbortProcess
    /\ UNCHANGED <<now, hash, allowlist, jobVars, storeVars>>

PurgeSelect(a, o) ==
    LET ids == CapturesUnder(pprefix[a])
    IN  /\ ppc[a] = "select"
        /\ \/ /\ o = "ok" /\ ids = {}
              /\ ppc' = [ppc EXCEPT ![a] = "idle"]
              /\ pprefix' = [pprefix EXCEPT ![a] = None]
              /\ UNCHANGED <<pbatch, pcur, clientVars, wpc, found, cancelled>>
           \/ /\ o = "ok" /\ ids # {}
              /\ \E batch \in SUBSET ids :
                    /\ IF Cardinality(ids) <= Batch
                       THEN batch = ids ELSE Cardinality(batch) = Batch
                    /\ pbatch' = [pbatch EXCEPT ![a] = batch]
              /\ ppc' = [ppc EXCEPT ![a] = "object"]
              /\ UNCHANGED <<pprefix, pcur, clientVars, wpc, found, cancelled>>
           \/ o # "ok" /\ AbortProcess
        /\ UNCHANGED <<now, hash, jobVars, storeVars, policyVars>>

PurgeObject(a, id, o) ==
    /\ ppc[a] = "object" /\ id \in pbatch[a]
    /\ objects' = IF Applied(o) THEN objects \ {id} ELSE objects
    /\ \/ /\ o = "ok"
          /\ ppc' = [ppc EXCEPT ![a] = "row"]
          /\ pcur' = [pcur EXCEPT ![a] = id]
          /\ UNCHANGED <<pprefix, pbatch, clientVars, wpc, found, cancelled>>
       \/ o # "ok" /\ AbortProcess
    /\ UNCHANGED <<now, hash, captured, jobVars, policyVars>>

(* Mutant of PurgeRow: the purge ends after its first batch.               *)
PurgeRowMutant(a, o) ==
    /\ ppc[a] = "row"
    /\ captured' = IF Applied(o) THEN captured \ {pcur[a]} ELSE captured
    /\ \/ /\ o = "ok"
          /\ pbatch' = [pbatch EXCEPT ![a] = @ \ {pcur[a]}]
          /\ pcur' = [pcur EXCEPT ![a] = None]
          /\ ppc' = [ppc EXCEPT ![a] =
                        IF pbatch[a] \ {pcur[a]} = {} THEN "idle" ELSE "object"]
          /\ UNCHANGED <<pprefix, clientVars, wpc, found, cancelled>>
       \/ o # "ok" /\ AbortProcess
    /\ UNCHANGED <<now, hash, objects, jobVars, policyVars>>

PurgeRow(a, o) ==
    /\ ppc[a] = "row"
    /\ captured' = IF Applied(o) THEN captured \ {pcur[a]} ELSE captured
    /\ \/ /\ o = "ok"
          /\ pbatch' = [pbatch EXCEPT ![a] = @ \ {pcur[a]}]
          /\ pcur' = [pcur EXCEPT ![a] = None]
          /\ ppc' = [ppc EXCEPT ![a] =
                        IF pbatch[a] \ {pcur[a]} = {} THEN "select" ELSE "object"]
          /\ UNCHANGED <<pprefix, clientVars, wpc, found, cancelled>>
       \/ o # "ok" /\ AbortProcess
    /\ UNCHANGED <<now, hash, objects, jobVars, policyVars>>

(* A crash, or purge_job_timeout passing, which aborts the process.        *)
Crash ==
    /\ Crashes
    /\ AbortProcess
    /\ UNCHANGED <<now, hash, jobVars, storeVars, policyVars>>

-----------------------------------------------------------------------------
InsertAllowlistPrefix(p) ==
    /\ allowlist' = allowlist \cup {p}
    /\ UNCHANGED <<now, denylist, jobVars, clientVars, workerVars, storeVars, purgeVars>>

RemoveAllowlistPrefix(p) ==
    /\ allowlist' = allowlist \ {p}
    /\ UNCHANGED <<now, denylist, jobVars, clientVars, workerVars, storeVars, purgeVars>>

(* Mutant of CleanupOldJobs: only finished jobs are deleted.               *)
CleanupOldJobsMutant ==
    /\ status' = [j \in Jobs |-> IF /\ status[j] \in {"succeeded", "failed"}
                                    /\ createdAt[j] < now - Retention
                                 THEN "gone" ELSE status[j]]
    /\ UNCHANGED <<now, linkOf, createdAt, resultId, clientVars, workerVars, storeVars,
                   policyVars, purgeVars>>

(* CleanupOldJobs: rows of any status older than the retention window.     *)
CleanupOldJobs ==
    /\ status' = [j \in Jobs |-> IF Visible(j) /\ createdAt[j] < now - Retention
                                 THEN "gone" ELSE status[j]]
    /\ UNCHANGED <<now, linkOf, createdAt, resultId, clientVars, workerVars, storeVars,
                   policyVars, purgeVars>>

Tick ==
    /\ now < MaxTime
    /\ now' = now + 1
    /\ UNCHANGED <<jobVars, clientVars, workerVars, storeVars, policyVars, purgeVars>>

-----------------------------------------------------------------------------
DbOutcomes == {"ok"} \cup DbFaults
S3Outcomes == {"ok"} \cup S3Faults

Client(c) ==
    \/ PolicyRead1(c) \/ PolicyRead2(c)
    \/ BeginTransaction(c) \/ LockLink(c) \/ SelectLatest(c)
    \/ \E j \in Jobs, o \in DbOutcomes : InsertLocked(c, j, o) \/ InsertUnlimited(c, j, o)

Worker(j) ==
    \/ AcquireSlot(j) \/ Crawl(j)
    \/ \E o \in DbOutcomes :
          MarkJobRunning(j, o) \/ MarkJobSucceeded(j, o) \/ MarkJobFailed(j, o)
    \/ \E o \in TaskOutcomes(j, DbFaults) :
          CheckDenylist(j, o) \/ FindCaptureByLinkHash(j, o) \/ InsertCapture(j, o)
    \/ \E o \in TaskOutcomes(j, S3Faults) : PutCaptureObject(j, o) \/ UndoPut(j, o)

Purge(a) ==
    \/ \E o \in DbOutcomes : PurgeSelect(a, o) \/ PurgeRow(a, o)
    \/ \E id \in Jobs, o \in S3Outcomes : PurgeObject(a, id, o)

Operator ==
    \/ \E a \in Purgers, p \in Prefixes, o \in DbOutcomes : DenyPrefixAndPurge(a, p, o)
    \/ \E p \in Prefixes : InsertAllowlistPrefix(p) \/ RemoveAllowlistPrefix(p)

Next ==
    \/ \E c \in Clients, link \in Links : Submit(c, link)
    \/ \E c \in Clients : Client(c) \/ RequestFails(c)
    \/ \E j \in Jobs : Worker(j) \/ DeadlinePasses(j)
    \/ \E a \in Purgers : Purge(a)
    \/ Operator
    \/ CleanupOldJobs
    \/ Crash
    \/ Tick

Spec == Init /\ [][Next]_vars

-----------------------------------------------------------------------------
(* Properties                                                              *)

(* Every row of table capture has its archive in the bucket, unless its    *)
(* link is denylisted: PersistMetadataForContext uploads before it inserts *)
(* and takes the upload back only when the insert failed, and PurgePrefix, *)
(* which deletes the object before the row, may be interrupted between.    *)
CaptureHasObject ==
    \A c \in captured : c \in objects \/ Denied(linkOf[c])

(* A job reported as succeeded names a capture of the same link that is    *)
(* stored, row and object, whether the worker made it or found it, unless  *)
(* the link was denylisted in the meantime.                                *)
ResultStored ==
    \A j \in Jobs : status[j] = "succeeded" =>
        /\ resultId[j] \in Jobs
        /\ linkOf[resultId[j]] = linkOf[j]
        /\ resultId[j] \in captured \cap objects \/ Denied(linkOf[j])

(* Workers between the denylist check and the insert of the capture.       *)
InFlight(link) ==
    \E j \in Jobs : linkOf[j] = link /\ wpc[j] \in {"find", "put", "insert"}

TakenDown(p) ==
    /\ p \in denylist
    /\ \A link \in Covered[p] : ~InFlight(link)
    /\ CapturesUnder(p) = {}

(* A takedown lasts: once a denylisted prefix has no captures left and no  *)
(* worker past its check, nothing under it is ever stored again, whatever  *)
(* is submitted, allowlisted, retried or restarted.                        *)
TakedownLasts == [][\A p \in Prefixes : TakenDown(p) => TakenDown(p)']_vars

(* link_ratelimit: two jobs of one link are created at least the rate      *)
(* limit apart, less the age a transaction can reach, since created_at is  *)
(* its start while the window is tested later.  Expired rows count: the    *)
(* cleanup must not reopen a window.                                       *)
RateLimitSpacing ==
    \A j, k \in Jobs :
        /\ j # k
        /\ status[j] # "absent" /\ status[k] # "absent"
        /\ linkOf[j] = linkOf[k]
        => \/ createdAt[j] + RateLimit <= createdAt[k] + TxTimeout
           \/ createdAt[k] + RateLimit <= createdAt[j] + TxTimeout

(* No archive is left in the bucket without a row pointing at it once the  *)
(* worker that uploaded it is done: the undo of a failed insert.           *)
NoOrphanObject ==
    \A c \in objects \ captured : wpc[c] \in {"insert", "undo"}

JL == INSTANCE JobLifecycle

(* The crawl_job rows behave as the job resource promises its clients.     *)
LifecycleHolds == JL!Spec

-----------------------------------------------------------------------------
(* Liveness.  Tasks are scheduled fairly by the userver engine; clients,   *)
(* operators, faults and deadlines owe nothing.                            *)
TaskFairness ==
    /\ \A j \in Jobs : WF_vars(Worker(j))
    /\ \A a \in Purgers : WF_vars(Purge(a))

FairSpec == Spec /\ TaskFairness

(* Time passes and the periodic cleanup task runs.                         *)
TimedSpec == FairSpec /\ WF_vars(Tick) /\ WF_vars(CleanupOldJobs)

Settled(j) == status[j] \in {"succeeded", "failed", "gone"}

(* An accepted job ends, however many jobs compete for the slots and       *)
(* whenever deadlines pass, as long as the database answers.               *)
JobSettles == \A j \in Jobs : (status[j] = "pending") ~> Settled(j)

(* Whatever fails, a job does not stay unfinished for ever: the row of a   *)
(* job whose worker died is removed by the retention cleanup.              *)
JobSettlesOrExpires ==
    \A j \in Jobs :
        (status[j] = "pending" /\ createdAt[j] + Retention < MaxTime) ~> Settled(j)

(* A capture that exists when its prefix is purged is removed.             *)
PurgeRemoves ==
    \A c \in Jobs, a \in Purgers :
        (c \in captured /\ ppc[a] = "select" /\ linkOf[c] \in Covered[pprefix[a]])
            ~> (c \notin captured)

-----------------------------------------------------------------------------
(* Statements of the documentation that the code does not keep             *)

(* docs/architecture.md: "Captures obey the denylist and allowlist access  *)
(* policies."  At rest, with no task running, nothing denylisted is left.  *)
CapturesObeyDenylist ==
    (\A j \in Jobs : wpc[j] = "none") /\ (\A a \in Purgers : ppc[a] = "idle")
        => \A c \in captured : ~Denied(linkOf[c])
=============================================================================
