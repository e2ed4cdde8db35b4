# Verification models of atlas-shadow

`atlas_shadow` watches the main branch of a repository, has every commit
ingested into Atlas, grades pull requests against what Atlas answers, and
benchmarks Atlas with fixed questions. This directory holds TLA+ modules
that model the parts of it in which steps of several actors interleave, TLC
runs that check them on small instances, and TLAPS proofs of what holds for
every instance.

## 1. Inventory

| Part (source) | State it keeps | Operations | Interacts with |
|---|---|---|---|
| ingest queue (`queue.py`, `schema.sql`) | table `ingest_queue`: one row per commit, its status and attempt count | `enqueue`, `claim_next`, `mark_terminal`, `recover_running_on_startup` | called by webhook, reconciler, replay (enqueue) and by the worker (the rest) |
| worker (`worker.py`) and ledger (`ledger.py`) | table `ingest_ledger`, one row per attempt; the claim it holds | `drain_once`, `process_one` | queue, ledger, state file, clone cache, SCIP builder, Atlas |
| reconciler (`reconciler.py`) | nothing between ticks | `reconcile_once` | state file, `git ls-remote`, queue |
| receiver (`receiver.py`) | nothing | `POST /webhook` (push, pull_request), `GET /status` | queue, ledger, grading |
| entrypoint (`entrypoint.py`, `Makefile`) | the process and its threads | `serve`, `replay`, `bootstrap`, `status` | all of the above |
| state file (`state_file.py`) | `.daemon-state.json`: `latest_*` and the map of pins | `write_state`, `acquire_pin`, `release_pin` | worker, grading, reconciler, runner |
| pull-request grading (`grader_service.py`, `gh_check.py`, `pr_comment.py`) | commit statuses, one PR comment, artifacts, a temporary file, a pin | `run_pr_grading`, `post_status`, `post_or_update_pr_comment` | receiver, ledger, state file, GitHub, receipt grading |
| receipt grading (`grader_service.py`, `runner.py`, `grader.py`) | the pool's rows, one per receipt | `_grade_one_receipt`, `run_one`, `grade` | resolvers, query cache, ledger, Atlas, the grading model |
| receipt resolvers (`code_snapshot.py`, `command_snapshot.py`, `doc_resolver.py`) | none | snapshot and hash comparison | git, document tables |
| query cache (`atlas_query_cache.py`) | one SQLite table | `get`, `set`, `truncate` | the threads of receipt grading |
| batch grading and reports (`grade_batch.py`, `compare_runs.py`, `counted_misses.py`, `overall_summary.py`, `layered_report.py`) | per run: artifacts, a file per packet, a manifest; the dashboard's two files | grade the packets of a commit, regenerate the dashboard, compare two runs, lay a run over an oracle | receipt grading, the run directories of other batches |
| benchmark runner and org ingest (`cli.py`, `ingest.py`, `runner.py`) | organisations of Atlas, the active one of its workspace, `.ingest-cache.json` | `shadow-run` (`ensure_org_for_commit`), `purge-orphans` | Atlas, state file |
| configuration, visibility bootstrap, analysis scripts | none, one upsert, none | | |

What is hard in each part, and what makes it correct:

* **Queue.** `enqueue` is called by a coroutine, a thread and another process
  at once, each on a connection of its own, and its SELECT is not in the
  transaction of its write. Correct: a running row has an owner; a terminal
  row stays terminal unless it failed and is asked for again; attempts stay
  bounded; a queued row is claimed sooner or later.
* **Worker and ledger.** One success is written to three places (ledger,
  state file, queue row) with a crash or a failing write between any two, and
  the ingest command may outlive the process. Correct: the records agree, none
  is written twice, the state file is never ahead, ingests do not overlap.
* **Reconciler and receiver.** Webhooks are lost and overtake ls-remote
  answers. Correct: the head of main is dealt with for good.
* **State file.** The worker and the grading runs read it, change one key and
  replace all of it, without a lock. Correct: no update is lost or undone.
* **Pull-request grading.** A run is a dozen calls to GitHub, the disk and the
  ledger; runs of different heads of one pull request share a temporary file,
  a pin and a comment. Correct: a pass is earned, a verdict always arrives, one
  comment, which agrees with the status, pins held and released.
* **Receipt grading and query cache.** A pool of threads fills the rows in any
  order and shares a cache; snapshots, resolvers, Atlas and the model are tried
  in a fixed order, and each may fail. Correct: one row per receipt in receipt
  order; a verdict is about its own receipt and revision; Atlas is neither
  blamed for a receipt the repository contradicts nor excused for one it
  confirms; only answers are cached.
* **Batches and reports.** Hours of grading end in files written one after the
  other, and every batch goes over the directories of all others. The same
  fact is counted twice, from memory and from files. Correct: exit 0 means
  graded; totals, misses, comparison and overlay add up; the dashboard shows
  every run once.
* **Org ingest.** The cache is read at the beginning and written back minutes
  later, the organisation just made is found out by asking which one is active,
  and a purge may run beside it. Correct: what the cache says is true; a run
  asks the organisation that holds its commit; no organisation is left empty,
  no commit ingested twice.

`PROJECT.json` lists every part under "components" and every place where one
of these goes wrong under "hazards".

## 2. Modules

| Module | Models | Checked through |
|---|---|---|
| `JobQueue` | the contract of `ingest_queue` in `schema.sql` and `queue.py`: ask, run, finish, cut short | property `ImplementsJobQueue` |
| `IngestQueue` | `queue.py` statement by statement, its callers, crash and restart | `MCIngestQueue` |
| `IngestDaemon` | worker, ledger, reconciler, receiver (push), replay, Atlas around `IngestQueue` | `MCIngestDaemon` |
| `StateStore` | what the state file promises: a map updated one key at a time | property `ImplementsStore` |
| `StateFile` | `state_file.py` and any number of concurrent writers | `MCPrGrading` |
| `PrGrading` | `run_pr_grading` call by call on top of `StateFile`, with GitHub, receiver (pull_request) and worker | `MCPrGrading` |
| `ReceiptSources` | git and document tables; the snapshots of a quoted place, a command's output and a document | `MCReceiptGrading` |
| `ReceiptRouting` | skips before Atlas, lanes, score status, the counters of a summary | `MCReceiptGrading` |
| `QueryCache` | `atlas_query_cache.py` | `MCReceiptGrading` |
| `ReceiptGrading` | the pool of threads, `_grade_one_receipt`, `run_one`, `grade` | `MCReceiptGrading` |
| `RunReports` | manifest totals, counted misses, choice among copies of a run, transitions of a comparison | `MCBatchReports` |
| `LayeredReport` | the overlay of an oracle on a packet, validation and audit | `MCBatchReports` |
| `BatchGrading` | `grade-packet-batch` and the dashboard, file by file | `MCBatchReports` |
| `OrgIngest` | `shadow-run` and `purge-orphans`, command by command | `MCOrgIngest` |
| `IngestQueueProofs`, `IngestDaemonProofs`, `PrGradingProofs`, `PrGradingPassProofs` (the last two with `StateFile`), `ReceiptGradingProofs`, `OrgIngestProofs`, `LayeredReportProofs`, `BatchGradingProofs` (with `RunReports`) | theorems about the modules they are named after | TLAPS |

`IngestDaemon` extends `IngestQueue` and takes its actions as they are;
`UsesQueueAsSpecified` says it never steps outside them. `PrGrading` extends
`StateFile` in the same way. `IngestDaemon` keeps only `latest_*` of the state
file and lets grading threads write old contents back (`PinRead`, `PinWrite`).
`PrGrading` in turn keeps of the daemon only the worker's ledger row and its
`write_state`. `ReceiptGrading` extends `ReceiptRouting` (which extends
`ReceiptSources`) and `QueryCache`: it is the step `GradePacket` of `PrGrading`
and of `BatchGrading` in detail. `BatchGrading` extends `LayeredReport`, and
that `RunReports`.

### How state and actions correspond to the code

* **Granularity.** A step is one SQL statement, one call to GitHub, git, Atlas
  or the model, one read or replacement of a file, one start or end of a child
  process: what another thread or process can come between. Python's `sqlite3`
  with `isolation_level="DEFERRED"` starts a transaction at the first INSERT or
  UPDATE, so a SELECT in front of it is not part of it. `EnqueueSelect` and
  `EnqueueInsert`, `EnqueueRequeue` are therefore separate, and so are
  `ClaimSelect` and `ClaimUpdate`. The state file is replaced by `os.replace`
  in one step; that the read comes before is what `ReadFile` and `Replace`
  split. `write_text` of the grading run's temporary file and of the ingest
  cache is two steps: it empties the file when it opens it and fills it when it
  closes it, and a reader may come in between. What two writers that overlap
  leave of the cache may be a mixture, also after both have closed it.
* **IngestQueue.** `rowId`, `lastId`, `status`, `attempts` are the table;
  `req[e]` is what caller `e` still has to write; `work` is the worker's claim.
  `Crash` takes the resident callers and the worker; `Recover` is
  `recover_running_on_startup`.
* **IngestDaemon.** `job.at` is the place in `process_one`: `StartIngest` and
  `PrepareFails` the snapshot, `IngestSucceeds` and `IngestFails` the ingest
  command, `RecordSuccess`, `WriteState`, `MarkSucceeded` the three outputs of a
  success and `RecordFailure`, `MarkFailed` those of a failure. `tick` is the
  reconciler inside `reconcile_once`, `deliveries` the webhooks on the way.
  `children` are ingest commands, which a crash of the daemon does not end.
* **StateFile.** `file` maps the key `Latest` and the pull requests to
  revisions; `update[w]` is the copy writer `w` has read and will put back.
* **PrGrading.** `run[r].at` names the call run `r` makes next, so that `Raise`
  is one action: the call at that stage raises, after or before it took effect
  on GitHub, and `Handler` says which `except` or `finally` clause the run goes
  on in. `commitStatus[h]` is the latest status of our context at commit `h`.
  GitHub knows `pending`, `success` and `failure`; the model keeps apart the
  successes by what they are for (`passed`, `notPacket`, `notIndexed`, `error`).
  `thread[p]` are the comments; `tmp[p]` is the temporary file, whose text is
  the set of bodies written into it by now, so that two writers may leave
  either's text or a mixture. `Crash` kills the active runs and loses the
  worker's pending write; files, statuses and comments stay.
* **ReceiptGrading.** `plan` is a sequence of runs over one cache, `turn` the
  one that is on. `job[w].at` is where thread `w` is in `_grade_one_receipt`:
  `examine` (snapshots, corrections, skips), `doc` (the document resolver) or
  `pin` (the receipt's own commit), `lookup`, `count`, `ask`, `store`
  (`run_one`), `drift` (the snapshot at the run's commit), `grade`. `Raise` is
  the error row of `_grade_with_fallback`. `finished` are the rows in the order
  the futures end in, `Summarise` sorts them into `summaries`. A text is a short
  sequence of lines and stands for its own hash; a path keeps what the code
  asks of it (code or document, with or without the monorepo prefix).
* **OrgIngest.** `call[r].at` is the command `shadow-run` number `r` executes
  next: `create` (`org-create`), `current` (`org-current`), `ingest` and `chunk`
  (the script's two halves), `rollback`, `save` and `write` (the two halves of
  `write_text`), `ask`. `call[r].seen` is the cache as it was read; `text` says
  whether the file is `json`, `empty` or a `mixed` rest of several writes.
  `purge` is `purge-orphans`: it reads the cache, lists, and deletes one by one
  what is pristine. `Kill` may come anywhere. A script that outlives its run
  writes on as the script of a run that is killed later would, so `Kill` takes
  both at once.
* **BatchGrading.** `batch[b].at` is the file the batch writes or reads next:
  `grade` (the artifact), `packet`, `manifest`, then the dashboard with `load`,
  `misses`, `md`, `json`. `runs[d]` is what is in directory `d`; `Torn` is a file
  left half written by `Stop`, or by grading that fails at its artifact
  (`GradeInVain`). Grading that fails after its artifact (the comment cannot be
  rendered) ends in `GradePacket` with rows and status `error`. `Archive` is an
  operator's copy of a run, between two batches,
  `Layer` the layered report. What a receipt's verdict is comes from `\E`: the
  reports must add up for any.

## 3. Runs

| Run | Instance | Shows |
|---|---|---|
| `QueueRaces` | 2 commits, 3 callers, cap 2, 1 crash, 1 failing write; symmetry | every running row is owned; attempts bounded |
| `QueueOneCaller` | 3 commits, 1 caller, 1 crash, fairness | the claimed row is running; succeeded is final; the queue implements `JobQueue`; a queued row is claimed sooner or later |
| `DaemonRaces` | 2 commits, webhook and reconciler, cap 2, lost webhooks, payloads without a revision, 1 crash, fairness | attempts recorded once and in order; `/status` agrees with the state file and ingests do not overlap until the crash; queue used as specified; the head of main is settled |
| `DaemonFaults` | 2 commits, reconciler and 2 replays, cap 1, 1 crash, 1 failing write, 1 grading thread | types; queue and ledger agree; the state file is backed; parents are in Atlas |
| `GradingTurns` | 1 pull request, 3 heads, 2 packets, 3 runs in turn, a foreign comment, 1 call raises, 1 crash | a pass is earned; one comment; comment and status agree; pins released; the state file is a `StateStore` |
| `GradingEnds` | 1 pull request, 2 heads, 2 overlapping runs, worker, 1 call raises, fairness | only a fault withholds a verdict; no head stays pending |
| `ReceiptGrading` | packets of 1 and 2 receipts out of 19 kinds, 2 threads, live, pinned and two batches over one cache, 1 call fails | rows are in receipt order and about their own receipt and revision; passes count; neither blame nor excuse; only answers are cached, also if a query that fails prints one; cost told |
| `OrgIngest` | 3 runs of 2 commits, 2 at once, 1 purge, 1 fault, with and without a template organisation; symmetry | the cache is true; a run asks its commit; in turns, no empty organisation, no second ingest |
| `BatchReports` | 2 batches of 1 or 2 packets of 1 receipt each into 2 directories, 1 copy of a run, 1 fault, 37 oracles; symmetry | exit 0 means graded; misses, comparison, overlay and audit add up; the dashboard is current |

Three runs find the code doing other than what a text of the repository says
("findings" in `PROJECT.json` quotes the text). Each checks one property:

| Run | What happens |
|---|---|
| `QueueStaleRequeue` | a caller that saw `failed` requeues the row after it has succeeded, and the commit is ingested again |
| `DaemonStateBehind` | an ls-remote answer is enqueued after a newer webhook; the state file names the older commit until the next push |
| `GradingMixup` | overlapping runs of one pull request swap temporary files: a pass that was not earned |

**Known divergences without a run of their own.** They were met while reading
and modelling, and the properties above are stated around them.

Daemon:

* After stop and start, the ingest command of the process before goes on beside
  the new one (`entrypoint.py:154`; `ingest-daemon.md:18` says the worker drains
  the queue serially). `OneIngestAtATime` holds until the first crash only.
* When a ledger INSERT or `mark_terminal` raises, `_worker_loop` goes on and the
  row stays `running` until the daemon is restarted (`worker.py:286`; the
  docstring at 215 says such a row is marked failed). When the
  recovery itself raises (`entrypoint.py:38`), the worker thread is gone while
  the receiver goes on answering.
* `write_state` by the worker, having read the file before a pin was written or
  released, takes the pin away or puts it back (`state_file.py:90`), and so do
  runs of two pull requests with each other's pins. `PinIsReleased` is
  checked with one pull request and no ingest beside it, `ImplementsStore` with
  updates that do not overlap.

Pull-request and receipt grading:

* Two overlapping runs of a pull request that both find no grading comment both
  post one (`pr_comment.py:695`), and so does every run once the comment is not
  on the first page (`pr_comment.py:660`, `PageSize <= MaxOthers`).
* One failing call before the pending status is posted, or in a final post,
  leaves the head without the required status or pending
  (`grader_service.py:1997`; the comment at 1993 says that operational errors do
  not block a merge). `HeldUpOnlyByFaults` says that nothing else does.
* A query that ends in a return code other than 0 but prints an answer is graded
  by that answer (`runner.py:299`), though it is not kept in the cache, so the
  next run asks again. `AskAndKeep`, the mutant of `Ask`, keeps it.
* A receipt without `excerpt_sha256` compares as a mismatch
  (`code_snapshot.py:171`), so that Atlas's failures on it are excluded as
  `receipt_hash_mismatch`; `grader_service.py:1435` speaks of bytes that do not
  match the receipt's own hash. `ConsistentIsMeasured` asks for a hash.
* `_git_show_file` of the document resolver, which snapshots use too, has a
  timeout that nothing below `_grade_with_fallback` catches
  (`doc_resolver.py:361`). The receipt becomes a counted `no_match`, and its row
  says nothing of the query already made (`pr_comment.py:137` gives no status
  to rows that never reached Atlas). `StatusTellsTheCost` and
  `ContradictedIsNotBlamed` leave such rows out.
* A failing document lookup goes on to git; the comment says it is unresolved
  (`doc_resolver.py:466`). `git show` and `git ls-tree` that time out in a
  command's snapshot are taken for a missing source (`command_snapshot.py:389`).
* The parser of a command takes a flag for the pattern, as in `grep -n pat
  path`: such an absence is always verified. The model has parsed commands only.

Org ingest:

* Of two runs that overlap, one's cache entry is lost, and its commit ingested
  again (`ingest.py:41` says that a second invocation returns what is cached).
  A file read while it is written counts for none, and the reader's save then
  drops every entry. What two writers leave may not be JSON for good
  (`ingest.py:151` writes in place): the next run then starts from an empty
  cache.
* Two overlapping `org-create`s may both be told the second organisation by
  `org-current` (`ingest.py:203`); their commits then share it.
* `org-current` is outside the `try` that rolls back (`ingest.py:214`): the
  organisation stays, although the docstring at 500 speaks of all failures of
  the ingest. A purge can delete an organisation between its creation and its
  upload.
* A payload without a revision sends the run to its fresh organisation with the
  revision of the continuous one. `RunAsksItsCommit` says so.

Batches:

* `grade_batch.py:38` says that a second run into the same `--output-dir`
  overwrites that run's artifacts. It adds to them, and the counted misses
  double. `MissesExplainTheScore` is about directories written to once.
* An artifact that cannot be read, as of a disk that was full, leaves the run
  without misses on the dashboard, beside a score (`overall_summary.py:634`).
  `MissesExplainTheScore` is about runs that have misses to show.
* Packets whose directories have the same name (one slug) overwrite each other's
  file (`grade_batch.py:474`); receipts that share a question id fall into one
  row of the comparison. `ComparisonIsSound` excludes both by its premises.
* A batch killed while it rewrites a directory leaves the old manifest with new
  packet files, and one killed while it writes the manifest a torn one, which
  the dashboard drops. Overlapping batches can leave a finished run out of the
  dashboard, or its two files different, until the next batch.
* The exit code is 2 also if every packet failed; `grade_batch.py:1205` says
  that at least one was graded.

**Bounds and why they are enough.** The queue's steps concern one row or two (the
order of ids), so two commits show every race between rows and the third adds
only a row that waits; three callers are all there are. Cap 2 is the least for
which a retry and its refusal both happen. One crash and one fault can hit every
step; what a second adds is counted by the proofs for any number. In grading,
interference needs two runs of one pull request (`GradingEnds`, `GradingMixup`);
three heads are the least with which a packet is added, then removed, while the
pull request is graded. In `GradingTurns` the base has been ingested already, so
that the worker has nothing to write; `GradingEnds` has the worker. `PageSize`
stands for GitHub's 100: what matters is whether our comment is on the page.
In `DaemonRaces` the state file is skipped for want of a revision, in
`DaemonFaults` its write fails as well. Two receipts are enough for two threads
to finish in the other order and to share a cache entry, and two runs over one
cache for an entry of another revision. Three benchmark runs give two that
overlap and one before or after both. Two batches in two directories meet in
the dashboard only, in one in everything.
`MaxOthers`, `MaxFaults`, `MaxCrashes`, `MaxReplays`, `MaxRunning`, `MaxPurges`
bound what is otherwise unlimited and appear in guards only. `Archive` (between
batches) and `Layer` (once, at the end) are bounds, too.

**Overlap.** `Overlap = FALSE` starts a run of a pull request only when the one
before has ended, which is what happens when commits come slower than gradings.
Nothing in the code enforces it. Properties that hold only then are
checked under it; `GradingMixup` and the list above show what is lost without.
In `OrgIngest` and `BatchGrading` runs may always overlap; `overlapped` records
that they did, for the properties that then do not hold.

**Deadlock.** The `Grading*` runs, `OrgIngest` and `BatchReports` say
`CHECK_DEADLOCK FALSE`: each has a fixed number of runs, and when they have
ended, the instance is over. `ReceiptGrading` has an explicit step `Done` for
that. The queue and the daemon never stop.

**Fairness.** Weak fairness of the worker's steps, of the second half of
`enqueue`, of the reconciler's read and enqueue and of a restart: threads that
are not blocked go on, `run_loop` and `_worker_loop` poll for ever, and somebody
starts the daemon again. Strong fairness of a successful `ls-remote`: it may
fail now and then, not always. Weak fairness of a grading run's steps: every
HTTP call has a timeout of 30 seconds and then raises. No fairness is assumed of
pushes, webhooks, faults, crashes or comments.

**Mutants.** Every property of a passing run has a mutant in `PROJECT.json`: a
definition that models code is replaced by a plausibly wrong form of it (marked
MUTANT where it is defined), and the property then fails in that run.

## 4. Proofs

The theorems hold for all values of the constants that the `ASSUME`s allow: any
set of commits, callers, writers, pull requests, runs, threads and receipts, any
cap and any number of crashes and faults, unless a theorem says otherwise.

* `IngestQueueProofs`: `QueueTyped`. `RunningRowsAreOwned` by `OwnerInv`, which
  adds that the worker thread only dies of a fault. `HeldRowIsRunning`,
  `SucceededNeverLeaves` and `QueueImplementsJobQueue` under `SingleCaller` by
  `FreshInv`: what a single caller's SELECT saw stays true until its write; the
  refinement also needs `MaxFaults = 0`. `AttemptsAreBounded` by `CapInv`, which
  counts what is still owed to a row (a queued retry, the callers that hold a
  stale `failed`).
* `IngestDaemonProofs`: `DaemonTyped` with `ControlInv` (the worker is in
  `process_one` exactly while it holds a claim). `DaemonUsesQueue`: each step of
  the daemon is a step of the queue, so the queue's theorems carry over.
  `TerminalRowsAreRecorded` and `AttemptsAreRecordedInOrder` by `ClaimCounted` and
  `LedgerInv`: an attempt is counted before it is recorded and recorded before it
  is marked. `StateFileNeverAhead` and `ParentAlwaysInAtlas` by `BackedInv`, which
  also covers the old contents grading threads are about to write back.
  `OneIngestUntilDeath` and `StatusTellsStateFile` by `SteadyInv`: until a crash
  every ingest command is the one of the worker's job, and between the ledger row
  and the state file the worker still holds that row.
* `PrGradingProofs` begins with the state file: `StateTyped` for any number of
  writers; `SingleWriterIsAtomic` under `OneWriter` by `FreshCopies` (what was
  read is what the file still says).
  `GradingTyped` by `GradingInv`, which adds that a run's head
  was pushed and that it has a packet while it is inside the loop.
  `VerdictArrives`, through any overlap, by `OwedInv`: a pending head has a run
  that still owes it a status or was disturbed, and no undisturbed run is past
  its first post while the head has no status. Each step either posts (`Posts`)
  or is `Calm`.
* `PrGradingPassProofs`, for runs that take turns (`~Overlap`): `TurnsEarnPass` by
  `EarnInv`: a pull request has at most one active run, the temporary file is
  that run's own while it uses it, and what it has graded together with what it
  still has to grade covers the packets of its head. `OneComment` by `ThreadInv`
  and `CommentTellsStatus` by `AgreeInv`, when `MaxOthers < PageSize`: then our
  comment is on the page, so a run that found none is alone in posting one, and
  a status that differs from the comment has a run that will still change one of
  them or was cut short. `LastRunReleasesPin` by `PinsInv`, with a single pull
  request and nothing to ingest: runs follow one another, and only the one under
  way is in the middle of an update of the state file. `TurnsImplementStore`,
  under the same premises, adds `FreshCopies`: what the run has read of the file
  is what it still says, so that each write is an atomic update of one key.
* `ReceiptGradingProofs`: `GradeInv` is about the pool (receipts handed out are
  with one thread or finished once), the jobs, the rows and the summaries;
  `CacheInv` says that what is stored under a key answers that key's query.
  `RowsAreTheReceipts` follows because all places are taken: as many rows as
  receipts, each once, so that sorting by receipt is a bijection onto them; that
  is also why `PassesAreCounted` may compare the sizes of two sets.
  `AnswersAreOwn` and `CacheHoldsAnswers` are `CacheInv` at the row and in the
  cache; `StatusIsTheCost` is in the invariant of the jobs. `JudgeInv` says that
  what a thread knows of its receipt is true (the snapshot at the receipt's commit
  and at the run's, the document binding, the commit asked); from it follow
  `ContradictedIsExcused` and `ConsistentIsNotExcused`, the latter under `OneRoot`
  (a path of the Atlas package is no file when taken from the root of the
  monorepo; the instance of the run satisfies it). `OnlyFailuresCount` by
  `FailuresInv`: a run has had as many failing calls as it has rows whose
  grading raised.
* `OrgIngestProofs`: `CacheCanBeReliedUpon` and `EveryRunAsksItsCommit`, through
  any overlap, by `HoldsInv`: every entry in the cache, in what a run has read
  and in what it is about to write names an organisation with the commit's rows
  whole, and `RowsStay`, since only organisations without rows are deleted.
  `CommitIngestedOnce` and `OrphansAreRolledBack` by `TurnsInv`, while runs take
  turns and nothing fails outside the ingest: the cache is what the one run
  under way has seen, and an empty organisation is the one it has just made.

* `LayeredReportProofs`, about the sums of a layered report for every oracle:
  `EvidenceAddsUp`, because the rows of the oracle fall into disjoint sets;
  `PassesAreEarned`, because with `AsksOnce` a passed row leads to the receipt that
  passed and two rows never to the same; `AuditAddsUp`, criterion by criterion,
  where the audit sums over its rows, `validate_spec` over the subcriteria and the
  report over the criteria. The sums are folds; what they compute is proved by
  induction over finite sets from `SumInsert` and `SumEmpty`.
* `BatchGradingProofs`. `ExitCodeIsEarned` by `BatchesTyped`, which says of each
  stage of a batch how many packets are graded, and that an outcome without rows
  is not `ok`. `LayeredReportAddsUp` and `LostPointsAreExplained` by `LayeredTyped`
  and the theorems of `LayeredReportProofs`.
  `CountedMissesExplainTheScore` and `ComparisonIsSound` rest on `WritersInv`: of a
  directory that one batch has written to, the artifacts, if all can be read,
  are those of the outcomes graded so far, the packet files those written so far (`Draft`), and a
  manifest is the totals of all of them (`Complete`), be the batch still under
  way, ended or broken off, or the directory a copy. `SeenInv` carries that to
  the dashboard: what a batch read of a run, and what it counted of its
  artifacts, is still so when it writes, as a directory with a manifest changes
  only by a second writer. `MissesOfRun` then counts one set of rows, all rows
  of all packets, in two ways. `ComparisonIsSound` matches the places of the
  rows in two runs with the receipts of the packets, which needs that a slug
  names one packet (`PacketsOnce`) and a question id one receipt of it
  (`QuestionsOnce`); without either, rows overwrite one another and the
  comparison has fewer than the manifests.
  `DashboardShowsTheRuns` by `BoardInv`: while batches take turns, nobody writes
  between the moment the last batch reads the runs and the end of its writing, so
  what it shows is `Current`. It needs `OrderInv` (batches begin in order),
  `NamesInv` (in a run directory a manifest has the directory's name and is of a
  batch that has begun) and `LoadChoice` (of the directories whose manifests bear
  one name the loader takes one, and the one that is named so before a copy).

**Assumed of the constants of the batch.** `BatchAssumption`: logs are sequences,
run directories are no copies, and `None` and `Torn` are no data.
`OracleAssumption` (`IsSpec`): an oracle is what `load_spec` returns, with a bucket
that `docs/pilots/layered-grading-generalization-plan.md:112` lists (the loader
takes any other, too, and counts its rows nowhere), and points counted in a unit
small enough to make them whole; the rounding of the code's floats is left out.
`AsksOnce` and `InRange` are premises inside the properties: `validate_spec`
checks neither. `QuestionsOnce` is what `compare_runs.py:220` expects of a packet.
`PacketsOnce` holds when directories of packets differ in name, which the default
glob `**/docs/work/*/02-qna-log.md` does not see to.

The type invariants of queue and grading are proved (`QueueTyped`,
`GradingTyped`) and no longer part of a run. Every invariant and action
property that a passing run checks is stated by a theorem, as are both
refinements. Out of the prover's reach and only model-checked: the three
liveness properties (`QueuedIsDrained`, `HeadIsSettled`, `PendingIsResolved`),
which need fairness and ENABLED. Several theorems have premises that the runs
fulfil by their instance (`SingleCaller`, `~Overlap`, `OneRoot`, `PacketsOnce`);
what happens without them is told in section 3.

## 5. Not modelled

* Text processing: parsing of packets, receipts, commands, question logs and
  configuration, rendering of comments and reports. In `PrGrading`, whether a
  body's receipts pass is the constant `Passing`, and `GradePacket` is one step
  that may let down receipts which would pass, never the other way round;
  `ReceiptGrading` has what is behind it.
* Of batches: how packets are found in the repository, the rollups by evidence
  type, call-outs, the aggregation of benchmark runs: each makes one report out
  of finished files.
* Beyond GitHub's first page of a file list the code sees nothing; `Touched` is
  that page. Without a token or secret the daemon does nothing, and neither
  model starts a run then.
* A second `serve` process: it resets the running row of the first before its
  port turns out to be taken (`entrypoint.py:104`), and what it claims until
  then stays running. No property of the queue holds through that.
* The one-off migration of `init_db`, `bootstrap`, `status`, `grading-verify`,
  the visibility upsert, the analysis scripts: no concurrent state.
* Atlas, the model-graded scoring, git and GitHub are external and modelled by
  how the code uses them.

## 6. Plan

Built in this order, the most important behaviour first: the queue and its
contract, the daemon around it, the state file, pull-request grading, receipt
grading with resolvers and cache, org ingest, batches and their reports; the
proofs of each after its runs. Left, and worth doing next:

1. A second `serve` process in `IngestDaemon`, with a claim that dies with it,
   and what the queue still guarantees then.
2. The roll-ups by evidence type of a manifest, which are summed like its lanes,
   and the sections of the dashboard made from them.
