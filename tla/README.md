# Verification of webshot

webshot is a web archiving service. `webshotd` accepts links over HTTP, crawls
each one with a sandboxed Chromium it drives over the DevTools protocol (CDP),
stores the page as a WACZ archive in an S3 bucket with a row in Postgres, and
serves what it has stored. This directory holds TLA+ models of its core, the TLC
runs that check them and the TLAPS proofs of what matters most.

Paths are relative to the repository; `crud.cpp` is `webshotd/src/crud.cpp` and
`runner.cpp` is `webshotd/src/crawler/runner.cpp`. `PROJECT.json` maps every
definition to the lines it models.

## 1. Inventory

### Parts, state and operations

| Part | State | Operations that change it | Code |
|---|---|---|---|
| Capture jobs | table `crawl_job`, one detached task per job, `crawl_slots` | `MakeCaptureJob`, `RunCrawlJob`, `PersistMetadataForContext`, marking, retention cleanup | `crud.cpp`, `shared_state_repo.cpp`, `handler.cpp` |
| Stored captures | table `capture`, objects of the bucket | insert, put, delete | `capture_meta_repo.cpp`, `s3/` |
| Access policy | tables of denied and allowed prefixes | `InsertDenylistPrefix`, `InsertAllowlistPrefix`, `RemoveAllowlistPrefix`; read by `EvaluatePrefix`, `IsAllowedPrefix` | `access_policy.cpp` |
| Deny and purge | one detached task per purge | `DenyPrefixAndPurge`, `PurgePrefix` | `crud.cpp` |
| DevTools client | ids, pending requests, waiters, sessions, fatal error, one reader task | `SendRaw`, `ReaderLoop`, `SetFatalError`, `MakeSession`, `Stop` | `crawler/cdp_client.cpp` |
| Capture session | page session, tracker, event loop task, progress counter, errors | `Capture`, `RunEventLoop`, `WaitForPredicate`, `WaitForIdle`, `StopCdpForError` | `runner.cpp` |
| Page tracker | requests of the page, the main document, errors | `HandleEvent` and its handlers | `runner.cpp` |
| Page session | context, target, session, lifecycle machine | `AttachFreshTarget`, `EnableBaseDomains`, `Stop` | `crawler/browser_session.cpp`, `crawler/browser_page_lifecycle.cpp` |
| Browser session | run directory, proxy, wrapper process, cgroup, DevTools socket | `Make`, `ConnectCdp`, the destructor with `StopProcess` | `crawler/browser_session.cpp`, `browser_sandbox.sh`, `bwrap_status_wrapper.sh` |
| Egress proxy | byte budget, stop flag, first error, accept task, client tasks | `AcceptLoop`, `HandleClient`, `SendBudgeted`, `StopAll` | `crawler/egress_proxy.cpp` |
| Crawler run | attempts with https and http | `RunCrawlerForContext`, `ExecuteRun`, fallback decision | `crud.cpp`, `runner.cpp`, `crawler/fallback.hpp` |
| Browser probe | steps of one probe | `RunProbe` | `browser_probe_handler.cpp` |
| S3 credentials | current STS credentials | refresh task | `crud.cpp`, `s3/` |
| Paging | none on the server; the cursor of a client | `FindCapturesByLinkPage`, `FindCapturesByPrefixPage` | `crud.cpp`, `capture_meta_repo.cpp`, `pagination.cpp`, `prefix_pagination.cpp` |
| Prefixes, links | none (pure functions) | keys, prefix keys, ltree paths | `prefix_utils.cpp`, `link.cpp` |
| Archive writer, UI, read handlers, metrics | none that others read | | `crawler/artifacts.cpp`, `arkhiv/`, `web_ui/`, handlers |
| Supervision, packaging | s6 services, build tooling | | `s6/`, `devenv/`, `packaging/` |

### How they interact

A `POST /v1/capture` evaluates the access policy and creates or reuses a job row
in one transaction. The worker task of a new job marks the row running, waits
for a slot and runs the crawler. The crawler starts a browser behind an egress
proxy, connects a DevTools client and makes one capture session per attempt; in
it the capture task and the event loop task share the tracker and the client,
whose reader task completes both tasks' commands. The worker then checks the
denylist again, looks for an identical capture, uploads, inserts the row and
marks the job. Purges and the retention cleanup work on the same tables at any
time, and the process may die between any two statements.

### What is hard, and what makes each part correct

* **Jobs and storage.** Every step is a statement or a request of its own, and
  nothing rolls back across Postgres and S3. Correct means: no row without an
  archive and no succeeded job without its capture; no archive left over by a
  failed insert; every accepted job ends or expires; a job row only moves
  forward.
* **Rate limit.** It is computed from rows that expire, under an advisory lock,
  with a timestamp older than the lock. Correct means: the distance of two jobs
  of one link has a lower bound.
* **Takedown.** The purge races workers that have passed their check. Correct
  means: once a takedown is complete it lasts.
* **DevTools client.** Timeouts race responses, errors race both. Correct means:
  each waiter is completed once, nobody is left waiting, late responses are
  harmless, stopping ends.
* **Capture session.** Two tasks share state through four locks, and objects are
  destroyed on every early return. Correct means: no wakeup is lost, nothing is
  used after it is gone, no assertion fails, the seed's document is the one
  captured, and every capture ends.
* **Egress proxy.** Any number of relays claim bytes of one budget, give back
  what they could not send, and are cancelled from two places, while the accept
  task goes on. Correct means: the budget adds up, stopping reaches every task
  and returns, and no request reaches an address it may not.
* **Browser session and crawl.** A run directory, a proxy, a process and a
  cgroup are started one after the other; any step may fail or throw and the
  task may be cancelled anywhere. Correct means: nothing is left running, what
  is left on disk has a reason, the second attempt is made for the right reason,
  and the run ends.
* **Paging.** A page is made of several statements over a table that changes,
  and a client holds a cursor to a row that may be gone. Correct means: no
  capture comes twice or out of order, and a walk to the end has seen what was
  there all the time.

Everything of this kind is listed, at its line, under `hazards` in
`PROJECT.json`.

## 2. Modules

| Module | Models | Composition |
|---|---|---|
| `AccessPolicy` | decisions of `AccessPolicyStore` | operators |
| `JobLifecycle` | what a client may see of a job: the abstract specification | |
| `CaptureJobs` | requests, workers, purges, cleanup, crashes | extends `AccessPolicy`, implements `JobLifecycle` |
| `CdpClient` | one DevTools connection | |
| `PageTracker` | handlers of page events | operators on a tracker |
| `PageSession` | page identifiers and lifecycle machine | operators on a page |
| `CaptureSession` | capture task, event loop, browser | extends the two above |
| `ProxyRequest` | parsers of a request head | operators, with the grammar of an authority as reference |
| `ProxyService` | what a session relies on of its proxy: the abstract specification | |
| `EgressProxy` | accept task, relays, `StopAll` | extends `ProxyRequest`, implements `ProxyService` |
| `BrowserSession` | directory, proxy, process, cgroup | instantiates `ProxyService` |
| `CrawlRun` | attempts of a crawl, the probe | extends `BrowserSession` |
| `LinkKeys` | keys, trees and bounds | operators, with reference definitions |
| `Paging` | the two listings and a client | extends `LinkKeys` |
| `CaptureJobsProofs`, `CdpClientProofs`, `CaptureSessionProofs`, `EgressProxyProofs`, `LinkKeysProofs` | theorems about the module of that name | extend it |
| `CrawlRunProofs` | theorems about `CrawlRun` and `BrowserSession` | extends `CrawlRun` |
| `PagingQueryProofs` | lemmas about the queries and pages of `Paging` | extends `Paging`, `LinkKeysProofs` |
| `PagingProofs` | theorems about `Paging` | extends the one above |
| `MC...` | constants for TLC | extend what they instantiate |

**CaptureJobs.** `status`, `linkOf`, `createdAt`, `resultId` are the columns of
`crawl_job`; `captured` and `objects` the rows and the archives; the `...pc`
variables the next statement of each request (`Clients`), worker (`Jobs`) and
purge (`Purgers`). One action is one statement or one S3 request, with an
outcome `o`: "ok", "notApplied" (failed), "applied" (done, but the reply was
lost) or "cut" (the task's deadline passed while it waited). To the task the
last three are the same error. `Crash` drops every task; `AbortProcess` is what
the code does itself when denylisting or purging fails. A capture has the id of
its job, so hash and link need no variable of their own; a job that finds an
identical capture reports that one's id instead of its own, although the comment
on `MakeCaptureJob` in `include/crud.hpp` says the job's UUID is the capture's.
The clock is one for service and database. `MakeCapture`, which no handler
calls, is left out; so are read replicas.

**CdpClient.** The variables are `shared_state_`'s tables, the waiters, the two
calling tasks, the reader, what is left of a `SetFatalError` under way, the
sessions, and the browser with what is on the wire. A step is one critical
section: `SetFatalError` empties the tables under one lock and then tells
waiters and sessions one at a time, and everything else may happen in between.
`WaitExpires` and `GiveUp` are the two halves of a timeout: a response may come
between them. A caller takes the events of its session one at a time
(`WaitEvent`) or all there are (`DrainSessionEvents`).

**CaptureSession.** `phase` follows `Start` and `CaptureAttachedTarget`; `wait`
the statements of `WaitForPredicate` and `WaitForIdle`, each test of the
predicate and each look at the errors a step of its own; `loop` the statements
of `RunEventLoop`. A command is one step that succeeds or fails, which is what
`CdpClient` guarantees; after a fatal error (`broken`) it fails, and a target
that is `gone` fails its session's commands. The progress counter is compared
only with the value read in the same iteration, so `progressed` ("it moved
since") is exact and needs no bound. Adjacent reads are one step where only one
task writes what is read. A failed `Invariant` sets `aborted` and ends
everything, as it does in the program. Browser events are taken by the event
loop in any order the browser's own state `net` allows; requests are held until
their interception is answered. URLs are reduced to whether the request has the
seed's (`seedMatches`), bodies and headers are left out, and so are the redirect
chains. A page is read in three steps (`ReadDomState`, `ReadBody`,
`ReadResources`), between which the event loop goes on. A redirect is the step
`Redirected`, in which a response without a status fails the `Invariant` of
`FinalizeRedirectRequest` (`runner.cpp:1004`) and one before the navigation
that of `HandleRequestWillBeSent` (`runner.cpp:854`).

**ProxyRequest.** A request head is a request line in three parts and a sequence
of header lines, as they arrive; `ParseHeaderBlock`, `FindHeaderValue`,
`ParseBasicAuthUser`, `ParseContentLength`, `ParseAuthority` and `Target` are the
functions of that name or the use the two handlers make of them, and `Refused`
the answers they give before they connect.

**EgressProxy.** `apc`, `pc`, `up`, `snd` and `spc` are the statements the accept
task, each handler, the two copies of a tunnel and `StopAll` have come to;
`counter`, `stopped` and `error` are `down_bytes_`, `stopped` and `error`;
`tasks` is `client_tasks`. `SendBudgeted` is four steps: the test of `stopped`,
the claim or the trip of the limit under the counter's lock, the send, and what
its caller does with the result. `acked` and `leak` record what sends reported
and what failed sends may have delivered. userver's part is taken from how the
code uses it: a blocking call of a cancelled task throws, a task's destructor
cancels and joins it, `Wait` of a child process does not throw. `accept_task` is
an `std::optional` that `StopAll` resets while a relay that trips the limit may
be looking at it; this race is the step `DataRace`, after which the process is
dead. `ServiceHolds` is the refinement: `Service == INSTANCE ProxyService WITH`
maps the tasks to the sets of live and served connections.

**BrowserSession and CrawlRun.** `phase` follows `Start`, `ConnectCdp`, the use of
the session and the destructor. `wrapper` is the process `bwrap_status_wrapper.sh`
with the sandbox under it, which dies with it; `socket` is `cdp.sock`, whose
listener takes one connection. File operations run on another thread and may
throw, because they failed or because the task was cancelled. The proxy is
`ProxyService`, which `egress_proxy` shows `EgressProxy` to implement, without
its `Die`: a race that kills the process leaves nothing to say about a session.
A capture is one step here, ending in every way `CaptureSession` lets it end.
A capture's main document (`Mains`) has been redirected or not and has met a
response with a status, one without (0), or none. What the code keeps of it, the probe of an error
(`CurrentSeedProbe`) or the exchange, decides on the fallback; `heard` is a
history variable that records the response itself, to compare the decision with.

**Paging and LinkKeys.** One action is one query. The client turns pages in both
directions; captures are stored and purged and queries fail at any time. The
order of keys is that of bytes, as the columns are collated "C". `OrderedBy` is
an "order by" whose order leaves no ties, as those of the queries do: by time and
id, or by distinct links. Texts are sequences over a few bytes: dot, slash,
letters, and the largest byte. Splitting, joining and cutting segments into labels
are recursive functions over such texts, written so that the prover can unfold
them; `Links` are the links that `NormalizeUrl` lets through, with the labels of a
valid domain (at most 63 bytes, so each fits a label of the tree).

## 3. Runs

| Run | Question | Result |
|---|---|---|
| `jobs_storage` | three jobs of a link, two slots, a purge, crashes, failing statements: do rows, archives and results agree, and do takedowns last? | `TypeOK`, `CaptureHasObject`, `ResultStored`, `TakedownLasts` hold |
| `jobs_clock` | two requests racing for a link, replies lost, rows expiring | `RateLimitSpacing`, `NoOrphanObject`, `JobSettlesOrExpires`, `LifecycleHolds` hold |
| `jobs_fair` | do jobs end and purges finish when the database answers? | `JobSettles`, `PurgeRemoves` hold |
| `cdp_safety` | two callers, three commands, a session: every interleaving of timeouts, errors and stops | `TypeOK`, `ProtocolErrorIsReal`, `NobodyStranded`, `IgnoredIsOwed`, `CompletedOnce` hold |
| `cdp_stop` | do commands end after an error, and does stopping end, with a reader that may die silently? | `FatalEndsCommands`, `StopEnds` hold |
| `capture_session` | capture task against event loop, any command failing, any browser event; does a capture end? | `AbortsAreKnown`, `TeardownOrder`, `NoLostWakeup`, `CapturesTheSeed`, `MainResponseUnlessError`, `InflightIsExact`, `CaptureEnds` hold |
| `egress_proxy` | two connections, the limit, the deadline and `StopAll`, any call failing | `BudgetIsExact`, `UncountedIsBounded`, `OnlyPublicOrFixture`, `ParserIsExact`, `ServiceHolds`, `StopReturns` hold |
| `crawl_run` | a crawl with two attempts, or a probe; faults, cancellation, a browser that exits | `NothingOutlivesTheSession`, `LitterHasAnExcuse`, `FallbackOnlyUnanswered`, `StoredIsWithinLimits`, `RunEnds` hold |
| `paging` | a client turning pages while the table changes; keys against their references | `TypeOK`, `WalkIsOrdered`, `WalkIsComplete`, `PreviousIsAdjacent`, `KeysAreExact` hold |
| `doc_denylist` | "Captures obey the denylist and allowlist access policies" | violated |
| `doc_result_stored` | a succeeded job has a stored capture, when replies may be lost | violated |
| `doc_exchange` | "missing main response while building exchange" cannot happen | violated |

The three violations:

* `doc_denylist`: a worker that has passed `IsAllowedPrefix` inserts its capture
  after the purge of its prefix has seen an empty batch. Nothing removes the
  capture until the next purge. `TakedownLasts` is what does hold.
* `doc_result_stored`: an insert is applied and its reply is lost;
  `PersistMetadataForContext` deletes the archive it thinks is unreferenced. The
  row stays without its archive, and later jobs with the same content report it
  as their result.
* `doc_exchange`: `WaitForPredicate` tests its predicate, looks at the errors,
  reads the version and tests again (`runner.cpp:1242`). The second test returns
  success without another look at the errors, and `HasMainDocumentOrError` is
  also true when there is an error. An error noted in between, such as the main
  document failing, lets the capture go on to `MakeExchange`, whose assertion
  (`runner.cpp:738`) then aborts the service. The main
  response must still be missing when that wait starts, as when the blank page's
  load event is taken for the seed's, or a seed URL that the browser rewrote was
  not recognised.

What the passing runs show of code that could be expected to do more:

* A send that throws gives its whole claim back although bytes may have gone
  out (`egress_proxy.cpp:619`). `UncountedIsBounded` says how much a connection
  can get uncounted: its CONNECT reply and one chunk.
* The proxy's deadline is the one of the DevTools start
  (`browser_session.cpp:797`). Once it has passed the proxy accepts nothing more
  and its relays end, however long the capture still has. The properties hold,
  and a capture that needs the network later meets a proxy that is not there.
* A page by prefix whose links are all purged between its queries has no items
  and no tokens (`crud.cpp:1450`): to a client it looks like the end. It is the
  exception `WalkIsComplete` names.
* A page by prefix shows at most `per_link_max` captures of a link other than
  the last and goes on with the next link, so a walk by prefix sees every link
  and not every capture.
* `previous` leads to the captures just before a page, which need not be the
  page the client came from: `PreviousIsAdjacent` is what holds, not that it
  undoes `next`.
* A tree label does not tell the end of a segment from a cut in it
  (`prefix_utils.cpp:23`): a prefix with a segment that fills a label also covers
  longer segments that start with it. It never covers too little
  (`TreeIsSegmentwise`).
* The key of a path that ends with two slashes parses to a link with another
  key, since each parse takes one slash (`link.cpp:36`); `KeyIsStable` excludes
  it.
* A redirect response without a status ends the service: the field is optional
  in `schema/cdp.yaml:202` and an `Invariant` demands it (`runner.cpp:1004`).
  `AbortsAreKnown` names this abort next to that of `doc_exchange`, and excludes
  every other of `runner.cpp`'s capture and of the page session.
* A redirect is no answer: it resets the main request (`runner.cpp:1028`), so that
  `CurrentSeedProbe` is `{0, 0}` (`runner.cpp:563`) when its target fails, and http
  is tried although the https server did answer. `FallbackOnlyUnanswered` is
  about the document the redirects lead to.
* A run directory stays when `MakeBrowserPaths` throws half way
  (`browser_session.cpp:791`) and a cgroup when the wrapper is killed in its
  trap; `LitterHasAnExcuse` lists the reasons and excludes every other.

### Bounds

* Two jobs of one link are what the races of deduplication, rate limit and slots
  need; `jobs_storage` has a third, so that one can find the capture of another
  while a purge removes it. One purge task suffices, because two only remove
  what one would. Two links under one host, with the prefixes of the host and of
  one path, give nested and disjoint coverage.
* `MaxTime` leaves one rate limit window and one retention window room to open
  and close. `RateLimit`, `Retention` and `TxTimeout` are small numbers with
  `Retention >= RateLimit`, the constructor's check.
* Two callers are all a DevTools client has (the capture task and its event
  loop); three ids let a command time out, a second fail and a third be under
  way. One event per session shows an event racing the session's end.
* A capture has its seed request and one other, which is a resource, a document
  of the main frame or both in turn, and follows one
  redirect or answers one challenge.
* Two connections of the proxy compete for a budget of two bytes, which a chunk
  of two fills and a chunk and a reply overrun; a third connection would only
  compete the same way. Requests are a tunnel to a name, a request to a fixture
  and one without credentials. Authorities are all texts of up to five
  characters over brackets, colons, blanks, digits and letters.
* A crawl has archives of up to three bytes with a limit of two and a largest
  integer of three, so that the ratio overflows for the larger of two legal
  sizes. The crawl has cgroups, the probe has none. One connection suffices:
  the session never tells two apart.
* The listing has four links under its prefix, one of them with three captures
  of two times, and one link before and one after the range; the prefix ends
  with the largest byte, the case the bound has to carry. Pages hold one or two
  links. Two changes let a row of the cursor go and another come. Keys are
  checked on texts of three bytes, paths of four characters, with labels of two
  bytes.
* Symmetry is used over `Jobs`, `Clients` and `Callers` in the safety runs,
  which treat their members alike.
* `CHECK_DEADLOCK FALSE` is given only for `CdpClient`: when the client is stopped,
  or the ids are used up, the system rests. `CaptureSession` rests only when
  `Terminated`.

### Fairness

userver schedules every runnable task, so each task's steps are weakly fair, and
a database or S3 request, like a CDP command, returns within its timeout. Never
fair are clients, operators, faults, crashes, the deadline of a crawl and the
browser. `TimedSpec` adds that time passes and the periodic cleanup runs, which
only `jobs_clock` needs; `capture_session` assumes that the run's deadline passes,
since every wait of a capture is bounded by it; `cdp_stop` assumes that a
cancelled `Recv` returns. In `egress_proxy` the tasks are fair and an interrupted
call returns; the browser, the servers and the proxy's deadline owe nothing. In
`crawl_run` every wait of the session has a deadline, so its steps are fair, but
a file operation is never bound to fail (`Bound`); the wrapper's scripts run on,
a capture ends (`CaptureEnds`) and a stopping proxy stops (`StopReturns`).

`CaptureEnds` is about a browser whose events are finite in number, as the
bounds make them. A wait reads the clock only when it sleeps: should an event
arrive between every reading of the version and the sleep that follows
(`runner.cpp:1247`), the wait would go on past its deadline.

## 4. Proofs

Every safety invariant and every action property the passing runs check is also
proved, for every value of the constants that satisfies the named assumptions:
any number of jobs, connections, callers, requests, captures and pages turned, any
limits, and texts of any length. A proof has the usual
shape: an inductive invariant, one lemma per conjunct or per part of the next-state
relation that a step preserves it, and the property from it. Each inductive
invariant was checked with TLC on a small instance before it was proved.

| Module | Theorem | States | From |
|---|---|---|---|
| `CaptureJobsProofs` | `TypeCorrect` | `[]TypeOK` | one lemma per kind of task |
| | `RateLimitSpaced` | `[]RateLimitSpacing` | `RateLimitInv` |
| | `TakedownIsLasting` | `TakedownLasts` | `StepShape`, from `FreshIds` |
| | `JobsImplementLifecycle` | `LifecycleHolds` | each step is a step of `JobLifecycle` or a stutter, from `FoundIsCapture` |
| | `RowsHaveObjects`, `StorageIsSafe` | `[]CaptureHasObject`, `[]ResultStored`, if no reply is lost | `StorageInv` |
| | `NoArchiveIsOrphaned` | `[]NoOrphanObject`, if `Undisturbed` | `OrphanInv` |
| `CdpClientProofs` | `CdpTypeCorrect`, `ProtocolErrorsAreReal`, `NobodyIsStranded`, `IgnoredAreOwed` | the invariants of `cdp_safety` | `CdpInv` |
| | `WaitersCompletedOnce` | `CompletedOnce` | `CdpInv` |
| `CaptureSessionProofs` | `CaptureAbortsAreKnown`, `TeardownIsOrdered`, `WakeupsAreNotLost`, `TheSeedIsCaptured`, `MainResponseStays`, `InflightStaysExact` | the invariants of `capture_session` | `CaptureInv` |
| | `CaptureHoldsNothing` | an ended capture holds no task, page or connection | `CaptureInv`, `EndInv` |
| | `ProxyErrorHasNoTracker` | no tracker is left once the exchange is built | `EndInv` |
| | `AbortsOnlyAfterError` | the assertion on the main response fails only after an error was noted | `MainInv`, `EndInv` |
| `EgressProxyProofs` | `BudgetIsAlwaysExact`, `UncountedStaysBounded`, `PrivateOnlyAsFixture` | the invariants of `egress_proxy` about its tasks | `ProxyInv` |
| | `AuthoritiesAreUnambiguous`, `ParserStaysExact` | `ParseAuthority` is its grammar, for texts of every length; `[]ParserIsExact` | `BracketedAgrees`, `UnbracketedAgrees` |
| | `ProxyImplementsService` | `ServiceHolds` | each step is a step of `ProxyService` or a stutter, from `ProxyInv` |
| `CrawlRunProofs` | `SessionsLeaveNothing`, `LitterIsExcused`, `FallbackIsForUnanswered`, `StoredWithinLimits` | the invariants of `crawl_run` | `CrawlInv` |
| `LinkKeysProofs` | `ScanIsExact` | `BoundIsExact`, for texts of every length | `ScanMeaning` |
| | `KeysAreStable` | `KeyIsStable`, for every link | what `Split` and `Join` compute |
| | `TreesAreSegmentwise` | `TreeIsSegmentwise`, for every two links | what `EncodedSegments` computes |
| `PagingProofs` | `PagingIsTyped` | `[]TypeOK`, with the sizes of pages | `SizesInv` |
| | `WalkIsInOrder` | `[]WalkIsOrdered` | `WalkInv` |
| | `WalkMissesNothing` | `[]WalkIsComplete` | `CompleteInv` |
| | `TurningBackIsAdjacent` | `PreviousIsAdjacent` | `BackInv` |
| | `KeysStayExact` | `[]KeysAreExact` | the theorems of `LinkKeysProofs` |

### Inductive invariants, and why they are needed

* **`RateLimitInv`.** `RateLimitSpacing` says nothing of a transaction that has
  read and not yet written. The invariant adds that one transaction at a time
  holds a link's lock (`LockExclusive`), that no row or transaction is younger
  than the clock (`NotInFuture`), and that a transaction about to insert has
  seen the window closed, counting rows that have expired since
  (`WindowClosed`); the last is where `Retention >= RateLimit` is used.
* **`TakedownLasts`** needs that a step stores a capture only for a worker past
  its check and only under an id no earlier job has (`FreshIds`, `StepShape`).
* **`StorageInv`** adds that what a purge has taken half away is denied
  (`PurgeUnderDenylist`), that a worker that has not inserted has no row
  (`NoRowYet`) but has uploaded (`UploadedFirst`), and that a capture found by a
  worker is stored or denied (`FoundStored`).
* **`OrphanInv`** adds that a purge holds only captures whose worker is past its
  insert, and drops from the table only what is gone from the bucket
  (`PurgeIsLate`).
* **`CdpInv`.** `NobodyStranded` speaks of the end of `SetFatalError`. The
  invariant follows each command from its caller's hands (`HandsInv`) into exactly
  one place, a table, the hands of `SetFatalError` or a completed waiter
  (`OnePlace`, `Somewhere`), says what the tables may hold once there is a fatal
  error (`FatalInv`), and which ids the browser owes (`OwedInv`, `HonestInv`).
* **`CaptureInv`.** Its parts say what exists in each `phase` (`PhaseInv`,
  `PageInv`), where the event loop may be while it does (`LoopInv`), what a
  sleeper has seen (`WakeInv`), how the tracker agrees with the browser
  (`NetInv`, `TrackerInv`, `InflightInv`), and why a main response is there
  (`MainInv`). `MainInv` also explains `doc_exchange`: the wait's second test is
  the one place from which it can only conclude "a response or an error".
  `EndInv` follows the end: what is taken away when, and that an assertion that
  failed is `MakeExchange`'s or that of a redirect without a status. With `MainInv` it gives the converse of the finding,
  `AbortsOnlyAfterError`: where no error is noted and redirects have a status, a
  capture does not abort.
* **`ProxyInv`.** The sum of claims is the cardinality of the set of claimed bytes
  (`BytesOf`), of which a step changes one connection's (`BudgetInv`).
  `SendInv` and `LeakInv` say what each send of a connection may still add;
  `TaskInv` where a connection's task is, from the accept loop's hands through
  `client_tasks` to the vector `StopAll` joins, which is what the refinement
  needs; `UpstreamInv` who has passed the check of the address.
* **`CrawlInv`.** For each phase, what may be running or on disk (`ProxyInv`,
  `PhaseInv`, `DirsInv`, `CgroupInv`), and what the attempts so far have returned
  (`ResultInv`, `AnswerInv`, `StoredInv`).
* **`WalkInv`.** What a page shows depends on several queries of several states of
  the table, so the order is stated of the request in progress: its links climb
  and come after what was shown (`LinksInv`), its items are in order and belong
  to the links done (`ItemsInv`), and the cursor of a page is where its log ends
  (`CursorInv`, `OrderInv`).
* **`CompleteInv`** adds that every capture, or link, that was there all the time
  has been shown or lies behind the cursor (`AheadInv`), and the same of a request
  half done (`MakingInv`). **`BackInv`** adds what a request for the previous page
  has left out so far while the table is quiet (`QuietInv`). **`SizesInv`** adds
  how many links and how many rows of each a request has gathered (`SizeInv`).

### Hypotheses

* `"applied" \notin DbFaults` (a statement reported as failed was not applied),
  of `RowsHaveObjects` and `StorageIsSafe`, is necessary: `doc_result_stored` is
  the run without it.
* `Undisturbed`, of `NoArchiveIsOrphaned`: the object store answers, no task is
  cut short and the process does not end; with purges, statements do not fail
  either, since a failing purge ends the process. Each is necessary: the code
  removes an archive in a later request of the same task, and nothing ever looks
  for archives without a row. Any number of workers and purges may race; without
  purges, inserts may also fail and replies may be lost.
* The assumptions on constants say that `None` is not a value of the sets it is
  added to, that sets that are counted are finite, and the relations the
  constructors check; `NoLinkAssumption` and `NoAuthorityAssumption` say that the
  answer "none" of a parser is not a link or an authority. A prefix of `Paging` has a byte below the largest, since
  valid UTF-8 has no 0xFF.

### What the proofs taught about the model

`ExecuteRun` of `CrawlRun` once was a `CASE` with overlapping conditions, whose value
TLA+ leaves open; the proof of `FallbackIsForUnanswered` could not go through and
it became a chain of conditions in the order of the code. `Paging` sorted with an
operator the prover cannot see into; `OrderedBy` says what "order by" guarantees.
That a finite set can be listed in an order without ties needs induction. The
provers cannot apply the library's induction schemes, but `WFMin` with
`NatLessThanWellFounded` gives `LeastNatural`: a nonempty set of naturals has a
least member. `LastExists`, `SortExists` and the order of texts rest on it.

The same fact, stated of sets, is an induction the provers can use (`Induction`: a
set that holds 0 and the successor of each of its members holds every natural).
`StepsExist` uses it once to show that a function defined by steps exists, which
is what a recursive definition needs before it can be unfolded. With the two, what
`Split`, `Join` and `EncodedSegments` compute is proved for every length:
splitting what was joined gives the parts back (`SplitOfJoin`), and a tree starts
with another where the segments do (`TreesStart`) and, but for segments that fill
a label, only there (`TreesTell`). The proof of
`TreesAreSegmentwise` needs that a label of a host is never cut, which is why
`Links` has the labels of valid domains; `AuthorityIsUnambiguous` had left out
texts with blanks and the default port that is still to be filled in, and now has
both.

### Checked by TLC only

* Liveness and its fairness, which the prover does not handle: `JobSettles`,
  `JobSettlesOrExpires`, `PurgeRemoves`, `FatalEndsCommands`, `StopEnds`,
  `CaptureEnds`, `StopReturns`, `RunEnds`. `LifecycleHolds` and `ServiceHolds` are
  safety and are proved.
* That a capture in `CrawlRun` ends in the ways `CaptureSession` lets it end:
  `CaptureHoldsNothing` and `ProxyErrorHasNoTracker` prove what `CrawlRun` relies on
  of the state in which a capture leaves off; that its two outcomes, an exchange
  or an error, are all there are is by reading.

## 5. Not modelled

* The refresh of S3 credentials: one task that replaces one value. Its first
  assignment comes after the task is started (`crud.cpp:588`), so a very early
  refresh could be overwritten by credentials a moment older and still valid.
* URL parsing, which is a library's; `CaptureJobs` takes the ancestry of prefixes
  as a constant, and `LinkKeys` starts from host and path.
* The websocket handshake, tracing, the text of cursors, archive encoding, SigV4
  signing, handlers that only read, metrics, the UI, packaging, and the start
  order of services, which is s6's: data layout or pure I/O.
* The `Invariant`s of the DevTools client on the error payload of a response
  (`cdp_client.cpp:204`), which a malformed one fails; the query of a link in
  `LinkKeys`, which a key carries unchanged and a prefix key drops.
* The arguments of the sandbox and the limits of a cgroup: what the kernel makes
  of them is not in this repository.
* Replica lag and clocks of several hosts: the service is one process, and the
  model one clock.
* An event whose fields have the wrong type, which throws out of the event loop
  and ends it without an error: the capture then ends by its deadline.
* A seed URL the browser rewrites, beyond the fact that it differs
  (`seedMatches`): when its request overtakes the answer to `Page.navigate` the
  document is not recognised (`runner.cpp:868`) and the capture times out.
* Events that arrive before `MakeSession` has registered their session are
  dropped (`cdp_client.cpp:784`), in the code and in the model; the domains whose
  events matter are enabled later.

## 6. Plan

Done, in this order: `CaptureJobs` with `AccessPolicy` and `JobLifecycle`, its
proofs, `CdpClient`, `CaptureSession` with `PageTracker` and `PageSession`,
`EgressProxy` with `ProxyRequest` and `ProxyService`, `BrowserSession` with
`CrawlRun`, `Paging` with `LinkKeys`.

Then proofs: `CdpClientProofs`, `CrawlRunProofs`, `EgressProxyProofs`,
`CaptureSessionProofs`, the rest of `CaptureJobsProofs`, and `PagingProofs` on
`LinkKeysProofs` and `PagingQueryProofs`; last the parsers and the keys for texts of
every length, and how a capture ends.

Left:

1. The safety half of liveness arguments where it says something of its own, such
   as that the steps left to a capture after its deadline decrease.
2. `CaptureSession` as an implementation of an abstract capture that `CrawlRun`
   instantiates, as `EgressProxy` is of `ProxyService`.
3. The parts section 5 lists, of which the refresh of S3 credentials is the only
   one with a task of its own.
