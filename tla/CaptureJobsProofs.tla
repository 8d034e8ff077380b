------------------------- MODULE CaptureJobsProofs --------------------------
(***************************************************************************)
(* Theorems about CaptureJobs, for every value of its constants.           *)
(***************************************************************************)
EXTENDS CaptureJobs, TLAPS

-----------------------------------------------------------------------------
(***************************************************************************)
(* Types.                                                                  *)
(***************************************************************************)

(* An empty database and a process without tasks have the right types.     *)
LEMMA TypeInit == Init => TypeOK
BY CaptureJobsAssumption DEF Init, NoTasks, TypeOK, Statuses, ClientPCs, WorkerPCs, PurgePCs

(* The steps of a POST /v1/capture request keep the types.                 *)
LEMMA TypeClient ==
    ASSUME TypeOK, NEW c \in Clients,
           (\E link \in Links : Submit(c, link)) \/ Client(c) \/ RequestFails(c)
    PROVE  TypeOK'
<1> USE DEF TypeOK, Statuses, ClientPCs, WorkerPCs, PurgePCs, jobVars, workerVars,
            storeVars, policyVars, purgeVars, ClientReturns, ClientGoes
<1>1. ASSUME NEW link \in Links, Submit(c, link) PROVE TypeOK'
  BY <1>1 DEF Submit
<1>2. CASE PolicyRead1(c)
  BY <1>2 DEF PolicyRead1
<1>3. CASE PolicyRead2(c)
  BY <1>3 DEF PolicyRead2
<1>4. CASE BeginTransaction(c)
  BY <1>4 DEF BeginTransaction
<1>5. CASE LockLink(c)
  BY <1>5 DEF LockLink
<1>6. CASE SelectLatest(c)
  BY <1>6 DEF SelectLatest
<1>7. ASSUME NEW j \in Jobs, NEW o, NEW created \in Nat, InsertCrawlJob(c, j, created, o)
      PROVE  TypeOK'
  BY <1>7 DEF InsertCrawlJob
<1>8. ASSUME NEW j \in Jobs, NEW o \in DbOutcomes,
             InsertLocked(c, j, o) \/ InsertUnlimited(c, j, o)
      PROVE  TypeOK'
  BY <1>7, <1>8 DEF InsertLocked, InsertUnlimited
<1>9. CASE RequestFails(c)
  BY <1>9 DEF RequestFails
<1> QED
  BY <1>1, <1>2, <1>3, <1>4, <1>5, <1>6, <1>8, <1>9 DEF Client

(* The steps of a crawl task keep the types.                               *)
LEMMA TypeWorker ==
    ASSUME TypeOK, NEW j \in Jobs, Worker(j) \/ DeadlinePasses(j)
    PROVE  TypeOK'
<1> USE DEF TypeOK, Statuses, ClientPCs, WorkerPCs, PurgePCs, jobVars, clientVars,
            storeVars, policyVars, purgeVars, WorkerGoes, WorkerEnds, CutOff
<1>1. CASE DeadlinePasses(j)
  BY <1>1 DEF DeadlinePasses
<1>2. CASE AcquireSlot(j)
  BY <1>2 DEF AcquireSlot
<1>3. CASE Crawl(j)
  BY <1>3 DEF Crawl
<1>4. ASSUME NEW o, MarkJobRunning(j, o) PROVE TypeOK'
  BY <1>4 DEF MarkJobRunning
<1>5. ASSUME NEW o, MarkJobSucceeded(j, o) PROVE TypeOK'
  BY <1>5 DEF MarkJobSucceeded
<1>6. ASSUME NEW o, MarkJobFailed(j, o) PROVE TypeOK'
  BY <1>6 DEF MarkJobFailed
<1>7. ASSUME NEW o, CheckDenylist(j, o) PROVE TypeOK'
  BY <1>7 DEF CheckDenylist
<1>8. ASSUME NEW o, FindCaptureByLinkHash(j, o) PROVE TypeOK'
  BY <1>8 DEF FindCaptureByLinkHash, SameCaptures
<1>9. ASSUME NEW o, InsertCapture(j, o) PROVE TypeOK'
  BY <1>9 DEF InsertCapture
<1>10. ASSUME NEW o, PutCaptureObject(j, o) PROVE TypeOK'
  BY <1>10 DEF PutCaptureObject
<1>11. ASSUME NEW o, UndoPut(j, o) PROVE TypeOK'
  BY <1>11 DEF UndoPut
<1> QED
  BY <1>1, <1>2, <1>3, <1>4, <1>5, <1>6, <1>7, <1>8, <1>9, <1>10, <1>11 DEF Worker

(* The steps of DenyPrefixAndPurge and PurgePrefix keep the types.         *)
LEMMA TypePurge ==
    ASSUME TypeOK, NEW a \in Purgers,
           Purge(a) \/ \E p \in Prefixes, o \in DbOutcomes : DenyPrefixAndPurge(a, p, o)
    PROVE  TypeOK'
<1> USE DEF TypeOK, Statuses, ClientPCs, WorkerPCs, PurgePCs, jobVars, clientVars,
            storeVars, policyVars, AbortProcess
<1>1. ASSUME NEW p \in Prefixes, NEW o, DenyPrefixAndPurge(a, p, o) PROVE TypeOK'
  BY <1>1 DEF DenyPrefixAndPurge
<1>2. ASSUME NEW o, PurgeSelect(a, o) PROVE TypeOK'
  <2>1. CapturesUnder(pprefix[a]) \subseteq Jobs
    BY DEF CapturesUnder
  <2>2. ASSUME NEW batch \in SUBSET CapturesUnder(pprefix[a]),
               pbatch' = [pbatch EXCEPT ![a] = batch]
        PROVE  pbatch' \in [Purgers -> SUBSET Jobs]
    BY <2>1, <2>2
  <2>3. pbatch' \in [Purgers -> SUBSET Jobs]
    BY <1>2, <2>2 DEF PurgeSelect
  <2>4. /\ UNCHANGED <<now, status, linkOf, createdAt, resultId, hash, captured, objects,
                       denylist, allowlist>>
        /\ ppc' \in [Purgers -> PurgePCs] /\ pprefix' \in [Purgers -> Prefixes \cup {None}]
    BY <1>2 DEF PurgeSelect
  <2>5. /\ cpc' \in [Clients -> ClientPCs] /\ creq' \in [Clients -> Links \cup {None}]
        /\ txStart' \in [Clients -> Nat] /\ wpc' \in [Jobs -> WorkerPCs]
        /\ found' \in [Jobs -> Jobs \cup {None}] /\ cancelled' \subseteq Jobs
        /\ pcur' \in [Purgers -> Jobs \cup {None}]
    BY <1>2 DEF PurgeSelect
  <2> QED
    BY <2>3, <2>4, <2>5
<1>3. ASSUME NEW id \in Jobs, NEW o, PurgeObject(a, id, o) PROVE TypeOK'
  BY <1>3 DEF PurgeObject
<1>4. ASSUME NEW o, PurgeRow(a, o) PROVE TypeOK'
  BY <1>4 DEF PurgeRow
<1> QED
  BY <1>1, <1>2, <1>3, <1>4 DEF Purge

(* Every step keeps the types.                                             *)
LEMMA TypeStep == TypeOK /\ [Next]_vars => TypeOK'
<1> SUFFICES ASSUME TypeOK, [Next]_vars PROVE TypeOK'
  OBVIOUS
<1>1. CASE UNCHANGED vars
  BY <1>1 DEF TypeOK, vars
<1>2. CASE \E c \in Clients : \/ \E link \in Links : Submit(c, link)
                             \/ Client(c) \/ RequestFails(c)
  BY <1>2, TypeClient
<1>3. CASE \E j \in Jobs : Worker(j) \/ DeadlinePasses(j)
  BY <1>3, TypeWorker
<1>4. CASE \E a \in Purgers : Purge(a)
  BY <1>4, TypePurge
<1>5. CASE Operator
  <2>1. CASE \E a \in Purgers, p \in Prefixes, o \in DbOutcomes : DenyPrefixAndPurge(a, p, o)
    BY <2>1, TypePurge
  <2>2. ASSUME NEW p \in Prefixes, InsertAllowlistPrefix(p) \/ RemoveAllowlistPrefix(p)
        PROVE  TypeOK'
    BY <2>2 DEF InsertAllowlistPrefix, RemoveAllowlistPrefix, TypeOK, jobVars, clientVars,
                workerVars, storeVars, purgeVars
  <2> QED
    BY <1>5, <2>1, <2>2 DEF Operator
<1>6. CASE CleanupOldJobs
  BY <1>6 DEF CleanupOldJobs, TypeOK, Statuses, clientVars, workerVars, storeVars,
              policyVars, purgeVars
<1>7. CASE Crash
  BY <1>7 DEF Crash, AbortProcess, TypeOK, ClientPCs, WorkerPCs, PurgePCs, jobVars,
              storeVars, policyVars
<1>8. CASE Tick
  BY <1>8 DEF Tick, TypeOK, jobVars, clientVars, workerVars, storeVars, policyVars, purgeVars
<1> QED
  BY <1>1, <1>2, <1>3, <1>4, <1>5, <1>6, <1>7, <1>8 DEF Next

(* Every variable keeps its type, whatever fails and however requests,    *)
(* workers, purges, cleanup and crashes interleave.                        *)
THEOREM TypeCorrect == Spec => []TypeOK
<1>1. Init => TypeOK
  BY TypeInit
<1>2. TypeOK /\ [Next]_vars => TypeOK'
  BY TypeStep
<1> QED
  BY <1>1, <1>2, PTL DEF Spec

-----------------------------------------------------------------------------
(***************************************************************************)
(* The inductive invariants.                                               *)
(***************************************************************************)

(* Why two jobs of one link are spaced: the advisory lock is exclusive     *)
(* per link, so what SelectLatest saw still holds when the row is inserted;*)
(* no row is dated later than the clock; and a row that has expired is     *)
(* older than the retention window, hence than the rate limit.             *)
LockExclusive ==
    \A c, d \in Clients :
        HoldsLinkLock(c, creq[c]) /\ HoldsLinkLock(d, creq[c]) => c = d

NotInFuture ==
    /\ \A c \in Clients : cpc[c] \in {"lock", "select", "insert"} => txStart[c] <= now
    /\ \A j \in Jobs : status[j] # "absent" => createdAt[j] <= now
    /\ \A j \in Jobs : status[j] = "gone" => createdAt[j] + Retention <= now

WindowClosed ==
    \A c \in Clients, j \in Jobs :
        cpc[c] = "insert" /\ status[j] # "absent" /\ linkOf[j] = creq[c]
            => createdAt[j] + RateLimit <= now

RateLimitInv == LockExclusive /\ NotInFuture /\ WindowClosed /\ RateLimitSpacing

(* Ids that no job has drawn yet occur nowhere, so the link of a capture,  *)
(* of a worker and of a purge batch never changes again.                   *)
FreshIds ==
    \A j \in Jobs : status[j] = "absent" =>
        /\ wpc[j] = "none"
        /\ j \notin captured
        /\ \A a \in Purgers : j \notin pbatch[a]
        /\ \A k \in Jobs : found[k] # j /\ resultId[k] # j

(* A purge task only holds captures of a prefix that is denylisted.        *)
PurgeUnderDenylist ==
    \A a \in Purgers :
        /\ ppc[a] # "idle" => pprefix[a] \in denylist
        /\ ppc[a] = "row" => pcur[a] \in pbatch[a]
        /\ \A id \in pbatch[a] : /\ ppc[a] \in {"object", "row"}
                                /\ linkOf[id] \in Covered[pprefix[a]]

(* Until its insert has succeeded a worker has no row, and when it inserts *)
(* its object is there.                                                    *)
NoRowYet ==
    \A j \in Jobs : wpc[j] \notin {"none", "succeed"} => j \notin captured

UploadedFirst ==
    \A j \in Jobs : wpc[j] = "insert" => j \in objects \/ Denied(linkOf[j])

(* The capture a worker is about to report is stored.                      *)
FoundStored ==
    \A j \in Jobs : wpc[j] = "succeed" =>
        /\ found[j] \in Jobs
        /\ linkOf[found[j]] = linkOf[j]
        /\ found[j] \in captured \cap objects \/ Denied(linkOf[j])

StorageInv ==
    /\ PurgeUnderDenylist /\ NoRowYet /\ UploadedFirst /\ FoundStored
    /\ CaptureHasObject /\ ResultStored

(* A worker that is about to report has something to report.               *)
FoundIsCapture == \A j \in Jobs : wpc[j] = "succeed" => found[j] \in Jobs

-----------------------------------------------------------------------------
(***************************************************************************)
(* What the steps of the tasks leave alone.                                *)
(***************************************************************************)

(* A row neither appears nor expires by the hand of a worker or a purge.   *)
SameRows ==
    \A k \in Jobs :
        /\ status[k] = "absent" <=> status'[k] = "absent"
        /\ status[k] = "gone" <=> status'[k] = "gone"

(* A worker touches neither requests nor lists nor purge tasks.            *)
LEMMA WorkerFrame ==
    ASSUME TypeOK, NEW j \in Jobs, Worker(j) \/ DeadlinePasses(j)
    PROVE  /\ UNCHANGED <<now, linkOf, createdAt, cpc, creq, txStart, denylist, allowlist>>
           /\ UNCHANGED <<ppc, pprefix, pbatch, pcur>>
           /\ SameRows
<1> USE DEF TypeOK, SameRows, jobVars, clientVars, policyVars, purgeVars
<1>1. CASE DeadlinePasses(j)
  BY <1>1 DEF DeadlinePasses
<1>2. CASE AcquireSlot(j) \/ Crawl(j)
  BY <1>2 DEF AcquireSlot, Crawl
<1>3. ASSUME NEW o, MarkJobRunning(j, o) \/ MarkJobSucceeded(j, o) \/ MarkJobFailed(j, o)
      PROVE  /\ UNCHANGED <<now, linkOf, createdAt, cpc, creq, txStart, denylist, allowlist>>
             /\ UNCHANGED <<ppc, pprefix, pbatch, pcur>>
             /\ SameRows
  BY <1>3 DEF MarkJobRunning, MarkJobSucceeded, MarkJobFailed
<1>4. ASSUME NEW o, \/ CheckDenylist(j, o) \/ FindCaptureByLinkHash(j, o)
                    \/ InsertCapture(j, o) \/ PutCaptureObject(j, o) \/ UndoPut(j, o)
      PROVE  /\ UNCHANGED <<now, linkOf, createdAt, cpc, creq, txStart, denylist, allowlist>>
             /\ UNCHANGED <<ppc, pprefix, pbatch, pcur>>
             /\ SameRows
  BY <1>4 DEF CheckDenylist, FindCaptureByLinkHash, InsertCapture, PutCaptureObject, UndoPut
<1> QED
  BY <1>1, <1>2, <1>3, <1>4 DEF Worker

(* A purge step, or the denylist insert before it, leaves the job table    *)
(* and the clock alone; requests go on, or end with the process.           *)
LEMMA PurgeFrame ==
    ASSUME NEW a \in Purgers,
           Purge(a) \/ \E p \in Prefixes, o \in DbOutcomes : DenyPrefixAndPurge(a, p, o)
    PROVE  /\ UNCHANGED <<now, status, linkOf, createdAt, resultId, hash>>
           /\ \/ UNCHANGED <<cpc, creq, txStart, wpc, found, cancelled>>
              \/ AbortProcess
BY DEF Purge, DenyPrefixAndPurge, PurgeSelect, PurgeObject, PurgeRow, jobVars, clientVars

-----------------------------------------------------------------------------
(***************************************************************************)
(* The rate limit.                                                         *)
(***************************************************************************)

(* Steps that do not touch the table, the clock or the requests.           *)
LEMMA RateLimitQuiet ==
    ASSUME TypeOK, RateLimitInv, SameRows, UNCHANGED <<now, linkOf, createdAt>>,
           UNCHANGED <<cpc, creq, txStart>> \/ cpc' = [c \in Clients |-> "idle"]
    PROVE  RateLimitInv'
<1>1. LockExclusive'
  BY DEF RateLimitInv, LockExclusive, HoldsLinkLock
<1>2. NotInFuture'
  BY DEF RateLimitInv, NotInFuture, SameRows
<1>3. WindowClosed'
  BY DEF RateLimitInv, WindowClosed, SameRows
<1>4. RateLimitSpacing'
  BY DEF RateLimitInv, RateLimitSpacing, SameRows
<1> QED
  BY <1>1, <1>2, <1>3, <1>4 DEF RateLimitInv

(* Steps of a request, up to the insert.                                   *)
LEMMA RateLimitRequest ==
    ASSUME TypeOK, RateLimitInv, NEW c \in Clients,
           \/ \E link \in Links : Submit(c, link)
           \/ PolicyRead1(c) \/ PolicyRead2(c) \/ BeginTransaction(c)
           \/ LockLink(c) \/ SelectLatest(c) \/ RequestFails(c)
    PROVE  RateLimitInv'
<1> USE DEF TypeOK, RateLimitInv, LockExclusive, HoldsLinkLock, NotInFuture, WindowClosed,
            RateLimitSpacing, jobVars, ClientGoes, ClientReturns
<1>1. ASSUME NEW link \in Links, Submit(c, link) PROVE RateLimitInv'
  BY <1>1 DEF Submit
<1>2. CASE PolicyRead1(c) \/ PolicyRead2(c)
  BY <1>2 DEF PolicyRead1, PolicyRead2
<1>3. CASE BeginTransaction(c)
  BY <1>3 DEF BeginTransaction
<1>4. CASE LockLink(c)
  BY <1>4 DEF LockLink
<1>5. CASE SelectLatest(c)
  <2>1. CASE InRatelimitWindow(creq[c])
    <3>1. ClientReturns(c) /\ UNCHANGED <<now, status, linkOf, createdAt>>
      BY <1>5, <2>1 DEF SelectLatest
    <3> QED
      BY <3>1
  <2>2. CASE ~InRatelimitWindow(creq[c])
    <3>1. \A j \in Jobs : status[j] # "absent" /\ linkOf[j] = creq[c]
                            => createdAt[j] + RateLimit <= now
      BY <2>2, CaptureJobsAssumption DEF InRatelimitWindow, Visible
    <3> QED
      BY <1>5, <2>2, <3>1 DEF SelectLatest
  <2> QED
    BY <2>1, <2>2
<1>6. CASE RequestFails(c)
  BY <1>6 DEF RequestFails
<1> QED
  BY <1>1, <1>2, <1>3, <1>4, <1>5, <1>6

(* The insert: what was seen under the lock makes the new row far enough   *)
(* from the others, and the lock keeps the other requests of the link from *)
(* having seen too little.                                                 *)
LEMMA RateLimitInsert ==
    ASSUME TypeOK, RateLimitInv, NEW c \in Clients, NEW j \in Jobs, NEW o,
           InsertLocked(c, j, o) \/ InsertUnlimited(c, j, o)
    PROVE  RateLimitInv'
<1> USE CaptureJobsAssumption DEF TypeOK, RateLimitInv
<1>1. UNCHANGED now /\ status[j] = "absent" /\ ClientReturns(c)
  BY DEF InsertLocked, InsertUnlimited, InsertCrawlJob
<1>2. PICK created \in Nat :
        /\ created <= now
        /\ \A k \in Jobs : status[k] # "absent" /\ linkOf[k] = creq[c]
              => createdAt[k] + RateLimit <= created + TxTimeout
        /\ cpc[c] = "insert" \/ (RateLimit = 0 /\ created = now)
        /\ \/ /\ status' = [status EXCEPT ![j] = "pending"]
              /\ linkOf' = [linkOf EXCEPT ![j] = creq[c]]
              /\ createdAt' = [createdAt EXCEPT ![j] = created]
           \/ UNCHANGED <<status, linkOf, createdAt>>
  <2>1. CASE InsertLocked(c, j, o)
    <3> WITNESS txStart[c] \in Nat
    <3> QED
      BY <2>1 DEF InsertLocked, InsertCrawlJob, NotInFuture, WindowClosed
  <2>2. CASE InsertUnlimited(c, j, o)
    <3> WITNESS now \in Nat
    <3> QED
      BY <2>2 DEF InsertUnlimited, InsertCrawlJob, NotInFuture
  <2> QED
    BY <2>1, <2>2
<1>3. LockExclusive'
  BY <1>1 DEF ClientReturns, LockExclusive, HoldsLinkLock
<1>4. NotInFuture'
  BY <1>1, <1>2 DEF ClientReturns, NotInFuture
<1>5. WindowClosed'
  BY <1>1, <1>2 DEF ClientReturns, WindowClosed, LockExclusive, HoldsLinkLock, NotInFuture
<1>6. RateLimitSpacing'
  BY <1>1, <1>2 DEF RateLimitSpacing
<1> QED
  BY <1>3, <1>4, <1>5, <1>6

(* Every step keeps the rate limit invariant.                              *)
LEMMA RateLimitStep == TypeOK /\ RateLimitInv /\ [Next]_vars => RateLimitInv'
<1> SUFFICES ASSUME TypeOK, RateLimitInv, [Next]_vars PROVE RateLimitInv'
  OBVIOUS
<1>1. CASE UNCHANGED vars
  BY <1>1, RateLimitQuiet DEF vars, SameRows
<1>2. ASSUME NEW c \in Clients, \/ \E link \in Links : Submit(c, link)
                                \/ Client(c) \/ RequestFails(c)
      PROVE  RateLimitInv'
  BY <1>2, RateLimitRequest, RateLimitInsert DEF Client
<1>3. ASSUME NEW j \in Jobs, Worker(j) \/ DeadlinePasses(j) PROVE RateLimitInv'
  BY <1>3, WorkerFrame, RateLimitQuiet
<1>4. ASSUME NEW a \in Purgers,
             Purge(a) \/ \E p \in Prefixes, o \in DbOutcomes : DenyPrefixAndPurge(a, p, o)
      PROVE  RateLimitInv'
  BY <1>4, PurgeFrame, RateLimitQuiet DEF AbortProcess, SameRows
<1>5. ASSUME NEW p \in Prefixes, InsertAllowlistPrefix(p) \/ RemoveAllowlistPrefix(p)
      PROVE  RateLimitInv'
  BY <1>5, RateLimitQuiet DEF InsertAllowlistPrefix, RemoveAllowlistPrefix, jobVars,
                              clientVars, SameRows
<1>6. CASE CleanupOldJobs
  BY <1>6, CaptureJobsAssumption
     DEF CleanupOldJobs, Visible, TypeOK, clientVars, RateLimitInv, LockExclusive,
         HoldsLinkLock, NotInFuture, WindowClosed, RateLimitSpacing
<1>7. CASE Crash
  BY <1>7, RateLimitQuiet DEF Crash, AbortProcess, jobVars, SameRows
<1>8. CASE Tick
  BY <1>8, CaptureJobsAssumption
     DEF Tick, TypeOK, jobVars, clientVars, RateLimitInv, LockExclusive,
         HoldsLinkLock, NotInFuture, WindowClosed, RateLimitSpacing
<1> QED
  BY <1>1, <1>2, <1>3, <1>4, <1>5, <1>6, <1>7, <1>8 DEF Next, Operator

(* Two rows of crawl_job with one link are at least link_ratelimit less    *)
(* the age of a transaction apart, however many requests race for the link *)
(* and whatever the cleanup has deleted (MakeOrReuseCrawlJobLocked).       *)
THEOREM RateLimitSpaced == Spec => []RateLimitSpacing
<1>1. Init => RateLimitInv
  BY DEF Init, NoTasks, RateLimitInv, LockExclusive, HoldsLinkLock, NotInFuture,
         WindowClosed, RateLimitSpacing
<1>2. TypeOK /\ RateLimitInv /\ [Next]_vars => RateLimitInv'
  BY RateLimitStep
<1>3. RateLimitInv => RateLimitSpacing
  BY DEF RateLimitInv
<1> QED
  BY <1>1, <1>2, <1>3, TypeCorrect, PTL DEF Spec

-----------------------------------------------------------------------------
(***************************************************************************)
(* Ids that are not drawn yet.                                             *)
(***************************************************************************)
(* A worker only handles ids that are drawn.                               *)
LEMMA FreshIdsWorker ==
    ASSUME TypeOK, FreshIds, NEW j \in Jobs, Worker(j) \/ DeadlinePasses(j)
    PROVE  FreshIds'
<1>1. /\ UNCHANGED pbatch
      /\ \A k \in Jobs : status[k] = "absent" <=> status'[k] = "absent"
  BY WorkerFrame DEF SameRows
<1>2. status[j] # "absent"
  BY DEF FreshIds, Worker, DeadlinePasses, AcquireSlot, Crawl, MarkJobRunning,
         MarkJobSucceeded, MarkJobFailed, CheckDenylist, FindCaptureByLinkHash,
         InsertCapture, PutCaptureObject, UndoPut, SlotHolding
<1>3. \A k \in Jobs \ {j} : /\ wpc'[k] = wpc[k] /\ found'[k] = found[k]
                            /\ resultId'[k] = resultId[k]
                            /\ k \in captured' => k \in captured
  BY DEF Worker, DeadlinePasses, AcquireSlot, Crawl, MarkJobRunning, MarkJobSucceeded,
         MarkJobFailed, CheckDenylist, FindCaptureByLinkHash, InsertCapture,
         PutCaptureObject, UndoPut, WorkerGoes, WorkerEnds, jobVars, storeVars, TypeOK
<1>4. /\ found'[j] \in captured \cup {found[j], j, None}
      /\ resultId'[j] \in {found[j], resultId[j]}
  BY DEF Worker, DeadlinePasses, AcquireSlot, Crawl, MarkJobRunning, MarkJobSucceeded,
         MarkJobFailed, CheckDenylist, FindCaptureByLinkHash, SameCaptures, InsertCapture,
         PutCaptureObject, UndoPut, WorkerEnds, jobVars, TypeOK
<1> QED
  BY <1>1, <1>2, <1>3, <1>4, CaptureJobsAssumption DEF FreshIds, TypeOK

(* A purge only handles ids of captures.                                   *)
LEMMA FreshIdsPurge ==
    ASSUME TypeOK, FreshIds, NEW a \in Purgers,
           Purge(a) \/ \E p \in Prefixes, o \in DbOutcomes : DenyPrefixAndPurge(a, p, o)
    PROVE  FreshIds'
<1>1. UNCHANGED <<status, resultId>>
  BY PurgeFrame
<1>2. \/ UNCHANGED <<wpc, found>>
      \/ wpc' = [j \in Jobs |-> "none"] /\ found' = [j \in Jobs |-> None]
  BY PurgeFrame DEF AbortProcess
<1>3. captured' \subseteq captured
  BY DEF Purge, DenyPrefixAndPurge, PurgeSelect, PurgeObject, PurgeRow, storeVars
<1>4. \A b \in Purgers : pbatch'[b] \subseteq pbatch[b] \cup captured
  <2> USE DEF TypeOK, AbortProcess
  <2>1. ASSUME NEW o, PurgeSelect(a, o)
        PROVE  \A b \in Purgers : pbatch'[b] \subseteq pbatch[b] \cup captured
    <3>1. CapturesUnder(pprefix[a]) \subseteq captured
      BY DEF CapturesUnder
    <3>2. ASSUME NEW batch \in SUBSET CapturesUnder(pprefix[a]),
                 pbatch' = [pbatch EXCEPT ![a] = batch]
          PROVE  \A b \in Purgers : pbatch'[b] \subseteq pbatch[b] \cup captured
      BY <3>1, <3>2
    <3> QED
      BY <2>1, <3>2 DEF PurgeSelect
  <2>2. ASSUME NEW id, NEW o, PurgeObject(a, id, o) \/ PurgeRow(a, o)
        PROVE  \A b \in Purgers : pbatch'[b] \subseteq pbatch[b] \cup captured
    BY <2>2 DEF PurgeObject, PurgeRow
  <2>3. ASSUME NEW p \in Prefixes, NEW o, DenyPrefixAndPurge(a, p, o)
        PROVE  \A b \in Purgers : pbatch'[b] \subseteq pbatch[b] \cup captured
    BY <2>3 DEF DenyPrefixAndPurge
  <2> QED
    BY <2>1, <2>2, <2>3 DEF Purge
<1> QED
  BY <1>1, <1>2, <1>3, <1>4, CaptureJobsAssumption DEF FreshIds, TypeOK

(* Every step keeps FreshIds.                                              *)
LEMMA FreshIdsStep == TypeOK /\ FreshIds /\ [Next]_vars => FreshIds'
<1> SUFFICES ASSUME TypeOK, FreshIds, [Next]_vars PROVE FreshIds'
  OBVIOUS
<1>1. CASE UNCHANGED vars
  BY <1>1 DEF vars, FreshIds
<1>2. ASSUME NEW c \in Clients, \/ \E link \in Links : Submit(c, link)
                                \/ Client(c) \/ RequestFails(c)
      PROVE  FreshIds'
  <2>1. ASSUME NEW j \in Jobs, NEW o, NEW created, InsertCrawlJob(c, j, created, o)
        PROVE  FreshIds'
    BY <2>1 DEF InsertCrawlJob, Applied, FreshIds, TypeOK, storeVars, purgeVars
  <2>2. CASE UNCHANGED <<jobVars, workerVars, storeVars, purgeVars>>
    BY <2>2 DEF FreshIds, jobVars, workerVars, storeVars, purgeVars
  <2> QED
    BY <1>2, <2>1, <2>2 DEF Submit, Client, PolicyRead1, PolicyRead2, BeginTransaction,
       LockLink, SelectLatest, InsertLocked, InsertUnlimited, RequestFails
<1>3. ASSUME NEW j \in Jobs, Worker(j) \/ DeadlinePasses(j) PROVE FreshIds'
  BY <1>3, FreshIdsWorker
<1>4. ASSUME NEW a \in Purgers,
             Purge(a) \/ \E p \in Prefixes, o \in DbOutcomes : DenyPrefixAndPurge(a, p, o)
      PROVE  FreshIds'
  BY <1>4, FreshIdsPurge
<1>5. ASSUME NEW p \in Prefixes, InsertAllowlistPrefix(p) \/ RemoveAllowlistPrefix(p)
      PROVE  FreshIds'
  BY <1>5 DEF InsertAllowlistPrefix, RemoveAllowlistPrefix, FreshIds, jobVars, workerVars,
              storeVars, purgeVars
<1>6. CASE CleanupOldJobs
  BY <1>6 DEF CleanupOldJobs, Visible, FreshIds, TypeOK, workerVars, storeVars, purgeVars
<1>7. CASE Crash
  BY <1>7, CaptureJobsAssumption DEF Crash, AbortProcess, FreshIds, jobVars, storeVars
<1>8. CASE Tick
  BY <1>8 DEF Tick, FreshIds, jobVars, workerVars, storeVars, purgeVars
<1> QED
  BY <1>1, <1>2, <1>3, <1>4, <1>5, <1>6, <1>7, <1>8 DEF Next, Operator

(* An id that GenerateBoostUuid has not drawn yet occurs nowhere.          *)
LEMMA FreshIdsInvariant == Spec => []FreshIds
<1>1. Init => FreshIds
  BY CaptureJobsAssumption DEF Init, NoTasks, FreshIds
<1>2. TypeOK /\ FreshIds /\ [Next]_vars => FreshIds'
  BY FreshIdsStep
<1> QED
  BY <1>1, <1>2, TypeCorrect, PTL DEF Spec

-----------------------------------------------------------------------------
(***************************************************************************)
(* A takedown lasts.                                                       *)
(***************************************************************************)

(* What any step may do to what a takedown rests on: the denylist only     *)
(* grows, the link of a drawn id is final, a worker only passes the check  *)
(* with a link that is not denylisted, and rows are inserted by workers    *)
(* that passed it.                                                         *)
PastCheck == {"find", "put", "insert"}

StepShape ==
    /\ denylist \subseteq denylist'
    /\ \A j \in Jobs : status[j] # "absent" => linkOf'[j] = linkOf[j]
    /\ \A j \in Jobs : wpc'[j] \in PastCheck =>
          /\ status[j] # "absent"
          /\ wpc[j] \in PastCheck \/ ~Denied(linkOf[j])
    /\ \A j \in Jobs : j \in captured' => j \in captured \/ wpc[j] = "insert"

(* The steps of a worker have this shape.                                  *)
LEMMA WorkerShape ==
    ASSUME TypeOK, FreshIds, NEW j \in Jobs, Worker(j) \/ DeadlinePasses(j)
    PROVE  StepShape
<1>1. UNCHANGED <<denylist, linkOf>>
  BY WorkerFrame
<1>2. \A k \in Jobs : k \in captured' => k \in captured \/ wpc[k] = "insert"
  BY DEF Worker, DeadlinePasses, AcquireSlot, Crawl, MarkJobRunning, MarkJobSucceeded,
         MarkJobFailed, CheckDenylist, FindCaptureByLinkHash, InsertCapture,
         PutCaptureObject, UndoPut, storeVars
<1>3. wpc[j] # "none" /\ \A k \in Jobs \ {j} : wpc'[k] = wpc[k]
  BY DEF Worker, DeadlinePasses, AcquireSlot, Crawl, MarkJobRunning, MarkJobSucceeded,
         MarkJobFailed, CheckDenylist, FindCaptureByLinkHash, InsertCapture,
         PutCaptureObject, UndoPut, WorkerGoes, WorkerEnds, SlotHolding, TypeOK
<1>4. wpc'[j] \in PastCheck => wpc[j] \in PastCheck \/ ~Denied(linkOf[j])
  BY DEF Worker, DeadlinePasses, AcquireSlot, Crawl, MarkJobRunning, MarkJobSucceeded,
         MarkJobFailed, CheckDenylist, FindCaptureByLinkHash, InsertCapture,
         PutCaptureObject, UndoPut, WorkerGoes, WorkerEnds, PastCheck, Denied, TypeOK
<1> QED
  BY <1>1, <1>2, <1>3, <1>4 DEF StepShape, FreshIds, PastCheck

(* Every step has this shape.                                              *)
LEMMA EveryStepShape == TypeOK /\ FreshIds /\ [Next]_vars => StepShape
<1> SUFFICES ASSUME TypeOK, FreshIds, [Next]_vars PROVE StepShape
  OBVIOUS
<1> USE DEF PastCheck
<1>1. CASE UNCHANGED <<denylist, linkOf, wpc, captured>>
  BY <1>1 DEF StepShape, FreshIds
<1>2. ASSUME NEW c \in Clients, \/ \E link \in Links : Submit(c, link)
                                \/ Client(c) \/ RequestFails(c)
      PROVE  StepShape
  <2>1. ASSUME NEW j \in Jobs, NEW o, NEW created, InsertCrawlJob(c, j, created, o)
        PROVE  StepShape
    BY <2>1 DEF InsertCrawlJob, StepShape, FreshIds, TypeOK, storeVars, policyVars
  <2> QED
    BY <1>1, <1>2, <2>1 DEF Submit, Client, PolicyRead1, PolicyRead2, BeginTransaction,
       LockLink, SelectLatest, InsertLocked, InsertUnlimited, RequestFails,
       jobVars, workerVars, storeVars, policyVars
<1>3. ASSUME NEW j \in Jobs, Worker(j) \/ DeadlinePasses(j) PROVE StepShape
  BY <1>3, WorkerShape
<1>4. ASSUME NEW a \in Purgers,
             Purge(a) \/ \E p \in Prefixes, o \in DbOutcomes : DenyPrefixAndPurge(a, p, o)
      PROVE  StepShape
  <2>1. denylist \subseteq denylist' /\ captured' \subseteq captured
    BY <1>4 DEF Purge, DenyPrefixAndPurge, PurgeSelect, PurgeObject, PurgeRow, storeVars,
                policyVars
  <2>2. linkOf' = linkOf /\ (wpc' = wpc \/ wpc' = [j \in Jobs |-> "none"])
    BY <1>4, PurgeFrame DEF AbortProcess
  <2> QED
    BY <2>1, <2>2 DEF StepShape, FreshIds
<1>5. ASSUME NEW p \in Prefixes, InsertAllowlistPrefix(p) \/ RemoveAllowlistPrefix(p)
      PROVE  StepShape
  BY <1>1, <1>5 DEF InsertAllowlistPrefix, RemoveAllowlistPrefix, jobVars, workerVars, storeVars
<1>6. CASE CleanupOldJobs \/ Tick
  BY <1>1, <1>6 DEF CleanupOldJobs, Tick, jobVars, workerVars, storeVars, policyVars
<1>7. CASE Crash
  BY <1>7 DEF Crash, AbortProcess, StepShape, FreshIds, jobVars, storeVars, policyVars
<1>8. CASE UNCHANGED vars
  BY <1>1, <1>8 DEF vars
<1> QED
  BY <1>2, <1>3, <1>4, <1>5, <1>6, <1>7, <1>8 DEF Next, Operator

(* Once a denylisted prefix is purged and no worker is between its         *)
(* IsAllowedPrefix check and its insert, no step of any task stores a      *)
(* capture under it again, and this is for ever.                           *)
THEOREM TakedownIsLasting == Spec => TakedownLasts
<1>1. TypeOK /\ FreshIds /\ [Next]_vars
        => [\A p \in Prefixes : TakenDown(p) => TakenDown(p)']_vars
  <2> SUFFICES ASSUME TypeOK, FreshIds, [Next]_vars, NEW p \in Prefixes, TakenDown(p)
               PROVE  TakenDown(p)'
    OBVIOUS
  <2>1. StepShape
    BY EveryStepShape
  <2>2. p \in denylist'
    BY <2>1 DEF TakenDown, StepShape
  <2>3. ASSUME NEW j \in Jobs, linkOf'[j] \in Covered[p]
        PROVE  wpc'[j] \notin PastCheck
    BY <2>1, <2>3 DEF TakenDown, StepShape, InFlight, PastCheck, Denied, IsAllowedPrefix,
                      ListCovers
  <2>4. ASSUME NEW j \in Jobs, linkOf'[j] \in Covered[p]
        PROVE  j \notin captured'
    BY <2>1, <2>4 DEF TakenDown, StepShape, InFlight, CapturesUnder, FreshIds
  <2>5. TypeOK'
    BY TypeStep
  <2> QED
    BY <2>2, <2>3, <2>4, <2>5 DEF TakenDown, InFlight, CapturesUnder, PastCheck, TypeOK
<1> QED
  BY <1>1, TypeCorrect, FreshIdsInvariant, PTL DEF Spec, TakedownLasts

-----------------------------------------------------------------------------
(***************************************************************************)
(* The job table implements the job resource.                              *)
(***************************************************************************)
(* PersistMetadataForContext returns the id it found or its own.           *)
LEMMA FoundStep == TypeOK /\ FoundIsCapture /\ [Next]_vars => FoundIsCapture'
<1> SUFFICES ASSUME TypeOK, FoundIsCapture, [Next]_vars PROVE FoundIsCapture'
  OBVIOUS
<1>1. CASE UNCHANGED <<wpc, found>>
  BY <1>1 DEF FoundIsCapture
<1>2. CASE AbortProcess
  BY <1>2 DEF AbortProcess, FoundIsCapture
<1>3. ASSUME NEW c \in Clients, NEW j \in Jobs, NEW o, NEW created,
             InsertCrawlJob(c, j, created, o)
      PROVE  FoundIsCapture'
  BY <1>3 DEF InsertCrawlJob, FoundIsCapture, TypeOK
<1>4. ASSUME NEW j \in Jobs, Worker(j) \/ DeadlinePasses(j) PROVE FoundIsCapture'
  <2>1. \A k \in Jobs \ {j} : wpc'[k] = wpc[k] /\ found'[k] = found[k]
    BY <1>4 DEF Worker, DeadlinePasses, AcquireSlot, Crawl, MarkJobRunning, MarkJobSucceeded,
         MarkJobFailed, CheckDenylist, FindCaptureByLinkHash, InsertCapture,
         PutCaptureObject, UndoPut, WorkerGoes, WorkerEnds, TypeOK
  <2>2. wpc'[j] = "succeed" => found'[j] \in Jobs
    BY <1>4 DEF Worker, DeadlinePasses, AcquireSlot, Crawl, MarkJobRunning, MarkJobSucceeded,
         MarkJobFailed, CheckDenylist, FindCaptureByLinkHash, SameCaptures, InsertCapture,
         PutCaptureObject, UndoPut, WorkerGoes, WorkerEnds, FoundIsCapture, TypeOK
  <2> QED
    BY <2>1, <2>2 DEF FoundIsCapture
<1>5. ASSUME NEW a \in Purgers,
             Purge(a) \/ \E p \in Prefixes, o \in DbOutcomes : DenyPrefixAndPurge(a, p, o)
      PROVE  FoundIsCapture'
  BY <1>1, <1>2, <1>5, PurgeFrame
<1> QED
  BY <1>1, <1>2, <1>3, <1>4, <1>5
     DEF Next, Operator, vars, Submit, Client, PolicyRead1, PolicyRead2, BeginTransaction,
         LockLink, SelectLatest, InsertLocked, InsertUnlimited, RequestFails,
         InsertAllowlistPrefix, RemoveAllowlistPrefix, CleanupOldJobs, Crash, Tick, workerVars

(* Every step is a step of the job resource, or invisible to it.           *)
LEMMA LifecycleStep ==
    TypeOK /\ FoundIsCapture /\ [Next]_vars => [JL!Next]_(JL!lifecycleVars)
<1> SUFFICES ASSUME TypeOK, FoundIsCapture, [Next]_vars
             PROVE  JL!Next \/ UNCHANGED <<status, resultId>>
  BY DEF JL!lifecycleVars
<1>1. ASSUME NEW c \in Clients, NEW j \in Jobs, NEW o, NEW created,
             InsertCrawlJob(c, j, created, o)
      PROVE  JL!Next \/ UNCHANGED <<status, resultId>>
  BY <1>1 DEF InsertCrawlJob, JL!Next, JL!Accept
<1>2. ASSUME NEW j \in Jobs, NEW o, MarkJobRunning(j, o)
      PROVE  JL!Next \/ UNCHANGED <<status, resultId>>
  BY <1>2 DEF MarkJobRunning, JL!Next, JL!Start
<1>3. ASSUME NEW j \in Jobs, NEW o, MarkJobSucceeded(j, o)
      PROVE  JL!Next \/ UNCHANGED <<status, resultId>>
  BY <1>3 DEF MarkJobSucceeded, FoundIsCapture, JL!Next, JL!Succeed
<1>4. ASSUME NEW j \in Jobs, NEW o, MarkJobFailed(j, o)
      PROVE  JL!Next \/ UNCHANGED <<status, resultId>>
  BY <1>4 DEF MarkJobFailed, JL!Next, JL!Fail
<1>5. CASE CleanupOldJobs
  <2> DEFINE expired == {j \in Jobs : Visible(j) /\ createdAt[j] < now - Retention}
  <2>1. JL!Expire(expired)
    BY <1>5 DEF CleanupOldJobs, Visible, JL!Expire
  <2> QED
    BY <2>1 DEF JL!Next
<1>6. ASSUME NEW a \in Purgers,
             Purge(a) \/ \E p \in Prefixes, o \in DbOutcomes : DenyPrefixAndPurge(a, p, o)
      PROVE  UNCHANGED <<status, resultId>>
  BY <1>6, PurgeFrame
<1>7. ASSUME NEW j \in Jobs, NEW o,
             \/ DeadlinePasses(j) \/ AcquireSlot(j) \/ Crawl(j) \/ CheckDenylist(j, o)
             \/ FindCaptureByLinkHash(j, o) \/ InsertCapture(j, o)
             \/ PutCaptureObject(j, o) \/ UndoPut(j, o)
      PROVE  UNCHANGED <<status, resultId>>
  BY <1>7 DEF DeadlinePasses, AcquireSlot, Crawl, CheckDenylist, FindCaptureByLinkHash,
              InsertCapture, PutCaptureObject, UndoPut, jobVars
<1>8. ASSUME NEW j \in Jobs, Worker(j) \/ DeadlinePasses(j)
      PROVE  JL!Next \/ UNCHANGED <<status, resultId>>
  BY <1>2, <1>3, <1>4, <1>7, <1>8 DEF Worker
<1> QED
  BY <1>1, <1>5, <1>6, <1>8
     DEF Next, Operator, vars, Submit, Client, PolicyRead1, PolicyRead2, BeginTransaction,
         LockLink, SelectLatest, InsertLocked, InsertUnlimited, RequestFails,
         InsertAllowlistPrefix, RemoveAllowlistPrefix, Crash, Tick, jobVars

(* The rows of crawl_job, under the guards of the update statements and    *)
(* whatever fails, implement the lifecycle promised by the job resource.   *)
THEOREM JobsImplementLifecycle == Spec => LifecycleHolds
<1>1. Init => JL!Init
  BY DEF Init, JL!Init
<1>2. Init => FoundIsCapture
  BY DEF Init, NoTasks, FoundIsCapture
<1>3. TypeOK /\ FoundIsCapture /\ [Next]_vars => FoundIsCapture'
  BY FoundStep
<1>4. TypeOK /\ FoundIsCapture /\ [Next]_vars => [JL!Next]_(JL!lifecycleVars)
  BY LifecycleStep
<1> QED
  BY <1>1, <1>2, <1>3, <1>4, TypeCorrect, PTL DEF Spec, LifecycleHolds, JL!Spec

-----------------------------------------------------------------------------
(***************************************************************************)
(* Rows have objects and results are stored, when no statement is applied  *)
(* without the task learning of it.                                        *)
(***************************************************************************)
(* The steps of a worker keep the storage invariant.                       *)
LEMMA StorageWorker ==
    ASSUME "applied" \notin DbFaults, TypeOK, FreshIds, StorageInv,
           NEW j \in Jobs, Worker(j) \/ DeadlinePasses(j)
    PROVE  StorageInv'
<1> USE DEF StorageInv, PurgeUnderDenylist, NoRowYet, UploadedFirst, FoundStored,
            CaptureHasObject, ResultStored, Denied, TypeOK
<1>1. UNCHANGED <<linkOf, denylist, ppc, pprefix, pbatch, pcur>>
  BY WorkerFrame
<1>2. PurgeUnderDenylist'
  BY <1>1
<1>3. CASE DeadlinePasses(j)
  BY <1>1, <1>2, <1>3 DEF DeadlinePasses, jobVars, storeVars
<1>4. CASE AcquireSlot(j) \/ Crawl(j)
  BY <1>1, <1>2, <1>4 DEF AcquireSlot, Crawl, WorkerGoes, jobVars, storeVars
<1>5. ASSUME NEW o, MarkJobRunning(j, o) PROVE StorageInv'
  BY <1>1, <1>2, <1>5 DEF MarkJobRunning, WorkerGoes, WorkerEnds, storeVars
<1>6. ASSUME NEW o, MarkJobFailed(j, o) PROVE StorageInv'
  BY <1>1, <1>2, <1>6 DEF MarkJobFailed, WorkerEnds, storeVars
<1>7. ASSUME NEW o, MarkJobSucceeded(j, o) PROVE StorageInv'
  BY <1>1, <1>2, <1>7 DEF MarkJobSucceeded, WorkerEnds, storeVars
<1>8. ASSUME NEW o, CheckDenylist(j, o) PROVE StorageInv'
  BY <1>1, <1>2, <1>8 DEF CheckDenylist, WorkerGoes, jobVars, storeVars
<1>9. ASSUME NEW o, FindCaptureByLinkHash(j, o) PROVE StorageInv'
  BY <1>1, <1>2, <1>9 DEF FindCaptureByLinkHash, SameCaptures, WorkerGoes, jobVars, storeVars
<1>10. ASSUME NEW o, PutCaptureObject(j, o) PROVE StorageInv'
  BY <1>1, <1>2, <1>10 DEF PutCaptureObject, Applied, WorkerGoes, jobVars
<1>11. ASSUME NEW o \in TaskOutcomes(j, DbFaults), InsertCapture(j, o) PROVE StorageInv'
  <2>1. o # "ok" => ~Applied(o)
    BY CaptureJobsAssumption DEF TaskOutcomes, Applied
  <2> QED
    BY <1>1, <1>2, <1>11, <2>1 DEF InsertCapture, Applied, WorkerGoes, jobVars
<1>12. ASSUME NEW o, UndoPut(j, o) PROVE StorageInv'
  BY <1>1, <1>2, <1>12 DEF UndoPut, WorkerGoes, jobVars
<1> QED
  BY <1>3, <1>4, <1>5, <1>6, <1>7, <1>8, <1>9, <1>10, <1>11, <1>12 DEF Worker

(* A purge only removes what is denylisted.                                *)
LEMMA StoragePurge ==
    ASSUME TypeOK, FreshIds, StorageInv, NEW a \in Purgers,
           Purge(a) \/ \E p \in Prefixes, o \in DbOutcomes : DenyPrefixAndPurge(a, p, o)
    PROVE  StorageInv'
<1>1. UNCHANGED <<status, linkOf, resultId>>
  BY PurgeFrame
<1>2. \/ UNCHANGED <<wpc, found>>
      \/ wpc' = [j \in Jobs |-> "none"]
  BY PurgeFrame DEF AbortProcess
<1>3. /\ denylist \subseteq denylist'
      /\ captured' \subseteq captured /\ objects' \subseteq objects
  BY DEF Purge, DenyPrefixAndPurge, PurgeSelect, PurgeObject, PurgeRow, storeVars, policyVars
<1>4. \A link : Denied(link) => Denied(link)'
  BY <1>3 DEF Denied, IsAllowedPrefix, ListCovers
<1>5. \A k \in (captured \ captured') \cup (objects \ objects') : Denied(linkOf[k])
  <2>1. \A id \in pbatch[a] : Denied(linkOf[id])
    BY DEF StorageInv, PurgeUnderDenylist, Denied, IsAllowedPrefix, ListCovers
  <2> QED
    BY <2>1 DEF Purge, DenyPrefixAndPurge, PurgeSelect, PurgeObject, PurgeRow, storeVars,
                StorageInv, PurgeUnderDenylist
<1>6. PurgeUnderDenylist'
  <2> USE DEF TypeOK, StorageInv, PurgeUnderDenylist
  <2>1. CASE AbortProcess
    BY <2>1 DEF AbortProcess
  <2>2. ASSUME NEW p \in Prefixes, NEW o, DenyPrefixAndPurge(a, p, o) PROVE PurgeUnderDenylist'
    BY <1>1, <2>1, <2>2 DEF DenyPrefixAndPurge, Applied
  <2>3. ASSUME NEW o, PurgeSelect(a, o) PROVE PurgeUnderDenylist'
    <3>1. ASSUME NEW batch \in SUBSET CapturesUnder(pprefix[a]), ppc[a] = "select",
                 pbatch' = [pbatch EXCEPT ![a] = batch],
                 ppc' = [ppc EXCEPT ![a] = "object"], UNCHANGED <<pprefix, pcur, denylist>>
          PROVE  PurgeUnderDenylist'
      BY <1>1, <3>1 DEF CapturesUnder
    <3> QED
      BY <1>1, <2>1, <2>3, <3>1 DEF PurgeSelect, policyVars
  <2>4. ASSUME NEW id \in Jobs, NEW o, PurgeObject(a, id, o) PROVE PurgeUnderDenylist'
    BY <1>1, <1>3, <2>1, <2>4 DEF PurgeObject, policyVars
  <2>5. ASSUME NEW o, PurgeRow(a, o) PROVE PurgeUnderDenylist'
    BY <1>1, <1>3, <2>1, <2>5 DEF PurgeRow, policyVars
  <2> QED
    BY <2>2, <2>3, <2>4, <2>5 DEF Purge
<1>7. NoRowYet' /\ UploadedFirst' /\ FoundStored'
  BY <1>1, <1>2, <1>3, <1>4, <1>5 DEF StorageInv, NoRowYet, UploadedFirst, FoundStored, TypeOK
<1>8. CaptureHasObject' /\ ResultStored'
  BY <1>1, <1>3, <1>4, <1>5 DEF StorageInv, CaptureHasObject, ResultStored, TypeOK
<1> QED
  BY <1>6, <1>7, <1>8 DEF StorageInv

(* Every step keeps the storage invariant.                                 *)
LEMMA StorageStep ==
    ASSUME "applied" \notin DbFaults
    PROVE  TypeOK /\ FreshIds /\ StorageInv /\ [Next]_vars => StorageInv'
<1> SUFFICES ASSUME TypeOK, FreshIds, StorageInv, [Next]_vars PROVE StorageInv'
  OBVIOUS
<1>1. CASE /\ UNCHANGED <<status, linkOf, resultId, wpc, found, captured, objects, denylist>>
           /\ UNCHANGED <<ppc, pprefix, pbatch, pcur>>
  BY <1>1 DEF StorageInv, PurgeUnderDenylist, NoRowYet, UploadedFirst, FoundStored,
              CaptureHasObject, ResultStored, Denied
<1>2. ASSUME NEW c \in Clients, NEW j \in Jobs, NEW o, NEW created,
             InsertCrawlJob(c, j, created, o)
      PROVE  StorageInv'
  <2>1. status[j] = "absent" /\ \A k \in Jobs \ {j} : linkOf'[k] = linkOf[k]
    BY <1>2 DEF InsertCrawlJob, TypeOK
  <2>2. UNCHANGED <<resultId, found, captured, objects, denylist, ppc, pprefix, pbatch, pcur>>
    BY <1>2 DEF InsertCrawlJob, storeVars, policyVars, purgeVars
  <2>3. \A k \in Jobs : status'[k] = "succeeded" => k # j /\ status[k] = "succeeded"
    BY <1>2 DEF InsertCrawlJob, TypeOK
  <2>4. \A k \in Jobs : wpc'[k] = wpc[k] \/ (k = j /\ wpc'[k] = "start")
    BY <1>2 DEF InsertCrawlJob, TypeOK
  <2> USE DEF StorageInv, FreshIds, TypeOK
  <2>5. PurgeUnderDenylist'
    BY <2>1, <2>2 DEF PurgeUnderDenylist
  <2>6. NoRowYet'
    BY <2>1, <2>2, <2>4 DEF NoRowYet
  <2>7. UploadedFirst'
    BY <2>1, <2>2, <2>4 DEF UploadedFirst, Denied
  <2>8. FoundStored'
    BY <2>1, <2>2, <2>4 DEF FoundStored, Denied
  <2>9. CaptureHasObject'
    BY <2>1, <2>2 DEF CaptureHasObject, Denied
  <2>10. ResultStored'
    BY <2>1, <2>2, <2>3 DEF ResultStored, Denied
  <2> QED
    BY <2>5, <2>6, <2>7, <2>8, <2>9, <2>10
<1>3. ASSUME NEW c \in Clients, \/ \E link \in Links : Submit(c, link)
                                \/ Client(c) \/ RequestFails(c)
      PROVE  StorageInv'
  BY <1>1, <1>2, <1>3 DEF Submit, Client, PolicyRead1, PolicyRead2, BeginTransaction,
     LockLink, SelectLatest, InsertLocked, InsertUnlimited, RequestFails,
     jobVars, workerVars, storeVars, policyVars, purgeVars
<1>4. ASSUME NEW j \in Jobs, Worker(j) \/ DeadlinePasses(j) PROVE StorageInv'
  BY <1>4, StorageWorker
<1>5. ASSUME NEW a \in Purgers,
             Purge(a) \/ \E p \in Prefixes, o \in DbOutcomes : DenyPrefixAndPurge(a, p, o)
      PROVE  StorageInv'
  BY <1>5, StoragePurge
<1>6. ASSUME NEW p \in Prefixes, InsertAllowlistPrefix(p) \/ RemoveAllowlistPrefix(p)
      PROVE  StorageInv'
  BY <1>1, <1>6 DEF InsertAllowlistPrefix, RemoveAllowlistPrefix, jobVars, workerVars,
                    storeVars, purgeVars
<1>7. CASE CleanupOldJobs
  BY <1>7 DEF CleanupOldJobs, workerVars, storeVars, policyVars, purgeVars, StorageInv,
     PurgeUnderDenylist, NoRowYet, UploadedFirst, FoundStored, CaptureHasObject,
     ResultStored, Denied
<1>8. CASE Crash
  BY <1>8 DEF Crash, AbortProcess, jobVars, storeVars, policyVars, StorageInv,
     PurgeUnderDenylist, NoRowYet, UploadedFirst, FoundStored, CaptureHasObject,
     ResultStored, Denied
<1>9. CASE Tick \/ UNCHANGED vars
  BY <1>1, <1>9 DEF Tick, vars, jobVars, workerVars, storeVars, policyVars, purgeVars
<1> QED
  BY <1>3, <1>4, <1>5, <1>6, <1>7, <1>8, <1>9 DEF Next, Operator

(* The storage invariant holds when no reply is lost.                      *)
LEMMA StorageInvariant ==
    ASSUME "applied" \notin DbFaults
    PROVE  Spec => []StorageInv
<1>1. Init => StorageInv
  BY DEF Init, NoTasks, StorageInv, PurgeUnderDenylist, NoRowYet, UploadedFirst,
         FoundStored, CaptureHasObject, ResultStored
<1>2. TypeOK /\ FreshIds /\ StorageInv /\ [Next]_vars => StorageInv'
  BY StorageStep
<1> QED
  BY <1>1, <1>2, TypeCorrect, FreshIdsInvariant, PTL DEF Spec

(* As long as no statement is applied whose reply is lost, and whatever    *)
(* else fails, is cancelled or crashes, every capture row of a link that   *)
(* is not denylisted has its archive: PersistMetadataForContext uploads    *)
(* before it inserts, and PurgePrefix takes archives only of what is       *)
(* denylisted.                                                             *)
THEOREM RowsHaveObjects ==
    ASSUME "applied" \notin DbFaults
    PROVE  Spec => []CaptureHasObject
<1>1. StorageInv => CaptureHasObject
  BY DEF StorageInv
<1> QED
  BY <1>1, StorageInvariant, PTL

(* Under the same hypothesis every job reported as succeeded names a       *)
(* stored capture of its link, whether its worker made or found it.        *)
THEOREM StorageIsSafe ==
    ASSUME "applied" \notin DbFaults
    PROVE  Spec => []ResultStored
<1>1. StorageInv => ResultStored
  BY DEF StorageInv
<1> QED
  BY <1>1, StorageInvariant, PTL

-----------------------------------------------------------------------------
(***************************************************************************)
(* No archive without a row, when nothing keeps a task from taking its     *)
(* upload back: the object store answers, no task is cut short and the     *)
(* process does not end.  It ends by itself when a purge meets an error,   *)
(* so statements may fail only where there is no purge.                    *)
(***************************************************************************)
Undisturbed ==
    /\ S3Faults = {} /\ ~Crashes /\ ~Cancels
    /\ Purgers = {} \/ DbFaults = {}

(* A purge only holds captures whose worker is past its insert, and what   *)
(* it is about to drop from the table is gone from the bucket.             *)
PurgeIsLate ==
    \A a \in Purgers :
        /\ \A id \in pbatch[a] : wpc[id] \in {"none", "succeed"}
        /\ ppc[a] = "row" => pcur[a] \in pbatch[a] \ objects

OrphanInv ==
    /\ NoOrphanObject
    /\ PurgeIsLate
    /\ Purgers # {} => NoRowYet
    /\ cancelled = {}

(* The steps of a worker take its archive along.                           *)
LEMMA OrphanWorker ==
    ASSUME Undisturbed, TypeOK, OrphanInv, NEW j \in Jobs, Worker(j) \/ DeadlinePasses(j)
    PROVE  OrphanInv'
<1> USE DEF OrphanInv, NoOrphanObject, PurgeIsLate, NoRowYet, TypeOK
<1>1. UNCHANGED <<ppc, pbatch, pcur>>
  BY WorkerFrame
<1>2. ~DeadlinePasses(j)
  BY DEF DeadlinePasses, Undisturbed
<1>3. TaskOutcomes(j, S3Faults) = {"ok"}
  BY DEF TaskOutcomes, Undisturbed
<1>4. TaskOutcomes(j, DbFaults) = DbOutcomes
  BY DEF TaskOutcomes, DbOutcomes, Undisturbed
<1>5. "cut" \notin DbOutcomes
  BY CaptureJobsAssumption DEF DbOutcomes
<1>6. CASE AcquireSlot(j) \/ Crawl(j)
  BY <1>1, <1>6 DEF AcquireSlot, Crawl, WorkerGoes, storeVars
<1>7. ASSUME NEW o, MarkJobRunning(j, o) \/ MarkJobSucceeded(j, o) \/ MarkJobFailed(j, o)
      PROVE  OrphanInv'
  BY <1>1, <1>7 DEF MarkJobRunning, MarkJobSucceeded, MarkJobFailed, WorkerGoes, WorkerEnds,
                    storeVars
<1>8. ASSUME NEW o \in DbOutcomes, CheckDenylist(j, o) \/ FindCaptureByLinkHash(j, o)
      PROVE  OrphanInv'
  BY <1>1, <1>5, <1>8 DEF CheckDenylist, FindCaptureByLinkHash, WorkerGoes, CutOff, storeVars
<1>9. ASSUME NEW o \in DbOutcomes, InsertCapture(j, o) PROVE OrphanInv'
  <2>1. Purgers # {} => o = "ok"
    BY DEF Undisturbed, DbOutcomes
  <2>2. /\ wpc[j] = "insert" /\ UNCHANGED <<cancelled, objects>>
        /\ captured \subseteq captured' /\ captured' \subseteq captured \cup {j}
        /\ \A k \in Jobs \ {j} : wpc'[k] = wpc[k]
        /\ IF o = "ok" THEN wpc'[j] = "succeed" /\ j \in captured' ELSE wpc'[j] = "undo"
    BY <1>5, <1>9 DEF InsertCapture, Applied, WorkerGoes, CutOff
  <2>3. NoOrphanObject'
    BY <2>2
  <2>4. PurgeIsLate'
    BY <1>1, <2>2
  <2>5. Purgers # {} => NoRowYet'
    BY <2>1, <2>2
  <2> QED
    BY <2>2, <2>3, <2>4, <2>5
<1>10. CASE PutCaptureObject(j, "ok")
  BY <1>1, <1>10 DEF PutCaptureObject, Applied, WorkerGoes, CutOff
<1>11. CASE UndoPut(j, "ok")
  BY <1>1, <1>11 DEF UndoPut, Applied, WorkerGoes, CutOff
<1> QED
  BY <1>2, <1>3, <1>4, <1>6, <1>7, <1>8, <1>9, <1>10, <1>11 DEF Worker

(* PurgePrefix deletes the object of a capture before its row.             *)
LEMMA OrphanPurge ==
    ASSUME Undisturbed, TypeOK, OrphanInv, NEW a \in Purgers,
           Purge(a) \/ \E p \in Prefixes, o \in DbOutcomes : DenyPrefixAndPurge(a, p, o)
    PROVE  OrphanInv'
<1> USE DEF OrphanInv, NoOrphanObject, PurgeIsLate, NoRowYet, TypeOK
<1>1. DbOutcomes = {"ok"} /\ S3Outcomes = {"ok"}
  BY DEF Undisturbed, DbOutcomes, S3Outcomes
<1>2. ASSUME NEW p \in Prefixes, DenyPrefixAndPurge(a, p, "ok") PROVE OrphanInv'
  BY <1>2 DEF DenyPrefixAndPurge, storeVars
<1>3. CASE PurgeSelect(a, "ok")
  <2>1. \A c \in CapturesUnder(pprefix[a]) : wpc[c] \in {"none", "succeed"}
    BY DEF CapturesUnder
  <2>2. UNCHANGED <<wpc, cancelled, captured, objects>>
    BY <1>3 DEF PurgeSelect, storeVars
  <2>3. CASE ppc' = [ppc EXCEPT ![a] = "idle"] /\ UNCHANGED <<pbatch, pcur>>
    BY <2>2, <2>3
  <2>4. ASSUME NEW batch \in SUBSET CapturesUnder(pprefix[a]), UNCHANGED pcur,
               pbatch' = [pbatch EXCEPT ![a] = batch], ppc' = [ppc EXCEPT ![a] = "object"],
               ppc[a] = "select"
        PROVE  OrphanInv'
    BY <2>1, <2>2, <2>4
  <2> QED
    BY <1>3, <2>3, <2>4 DEF PurgeSelect
<1>4. ASSUME NEW id \in Jobs, PurgeObject(a, id, "ok") PROVE OrphanInv'
  BY <1>4 DEF PurgeObject, Applied
<1>5. CASE PurgeRow(a, "ok")
  BY <1>5 DEF PurgeRow, Applied
<1> QED
  BY <1>1, <1>2, <1>3, <1>4, <1>5 DEF Purge

(* Every step keeps archives and rows together.                            *)
LEMMA OrphanStep ==
    ASSUME Undisturbed
    PROVE  TypeOK /\ FreshIds /\ OrphanInv /\ [Next]_vars => OrphanInv'
<1> SUFFICES ASSUME TypeOK, FreshIds, OrphanInv, [Next]_vars PROVE OrphanInv'
  OBVIOUS
<1>1. CASE UNCHANGED <<wpc, cancelled, captured, objects, ppc, pbatch, pcur>>
  BY <1>1 DEF OrphanInv, NoOrphanObject, PurgeIsLate, NoRowYet
<1>2. ASSUME NEW c \in Clients, NEW j \in Jobs, NEW o, NEW created,
             InsertCrawlJob(c, j, created, o)
      PROVE  OrphanInv'
  <2>1. status[j] = "absent"
        /\ UNCHANGED <<cancelled, captured, objects, ppc, pbatch, pcur>>
    BY <1>2 DEF InsertCrawlJob, storeVars, purgeVars
  <2>2. \A k \in Jobs : wpc'[k] = wpc[k] \/ (k = j /\ wpc'[k] = "start")
    BY <1>2 DEF InsertCrawlJob, TypeOK
  <2> QED
    BY <2>1, <2>2 DEF OrphanInv, NoOrphanObject, PurgeIsLate, NoRowYet, FreshIds, TypeOK
<1>3. ASSUME NEW c \in Clients, \/ \E link \in Links : Submit(c, link)
                                \/ Client(c) \/ RequestFails(c)
      PROVE  OrphanInv'
  BY <1>1, <1>2, <1>3 DEF Submit, Client, PolicyRead1, PolicyRead2, BeginTransaction,
     LockLink, SelectLatest, InsertLocked, InsertUnlimited, RequestFails,
     workerVars, storeVars, purgeVars
<1>4. ASSUME NEW j \in Jobs, Worker(j) \/ DeadlinePasses(j) PROVE OrphanInv'
  BY <1>4, OrphanWorker
<1>5. ASSUME NEW a \in Purgers,
             Purge(a) \/ \E p \in Prefixes, o \in DbOutcomes : DenyPrefixAndPurge(a, p, o)
      PROVE  OrphanInv'
  BY <1>5, OrphanPurge
<1>6. ~Crash
  BY DEF Crash, Undisturbed
<1>7. ASSUME \/ \E p \in Prefixes : InsertAllowlistPrefix(p) \/ RemoveAllowlistPrefix(p)
             \/ CleanupOldJobs \/ Tick \/ UNCHANGED vars
      PROVE  OrphanInv'
  BY <1>1, <1>7 DEF InsertAllowlistPrefix, RemoveAllowlistPrefix, CleanupOldJobs, Tick, vars,
                    workerVars, storeVars, purgeVars
<1> QED
  BY <1>3, <1>4, <1>5, <1>6, <1>7 DEF Next, Operator

(* Once the worker that uploaded an archive is done, a row of capture      *)
(* points at it: PersistMetadataForContext deletes the archive of a failed *)
(* insert, and a purge, which deletes the object first, leaves none        *)
(* behind, however many workers and purges race.                           *)
THEOREM NoArchiveIsOrphaned ==
    ASSUME Undisturbed
    PROVE  Spec => []NoOrphanObject
<1>1. Init => OrphanInv
  BY DEF Init, NoTasks, OrphanInv, NoOrphanObject, PurgeIsLate, NoRowYet
<1>2. TypeOK /\ FreshIds /\ OrphanInv /\ [Next]_vars => OrphanInv'
  BY OrphanStep
<1>3. OrphanInv => NoOrphanObject
  BY DEF OrphanInv
<1> QED
  BY <1>1, <1>2, <1>3, TypeCorrect, FreshIdsInvariant, PTL DEF Spec
=============================================================================
