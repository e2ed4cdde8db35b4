---------------------------- MODULE IngestDaemon ----------------------------
(***************************************************************************)
(* The continuous-ingest daemon around the queue of IngestQueue: the       *)
(* sources of work (the push webhook, the reconciler thread, the replay    *)
(* command), the worker's process_one() with its two outputs, the ledger   *)
(* and the state file, and Atlas as the daemon sees it, a command that     *)
(* takes a commit and prints a revision id.                                *)
(*                                                                         *)
(* Commits are numbered in the order they reach the main branch.           *)
(***************************************************************************)
EXTENDS IngestQueue, Sequences

CONSTANTS
    Webhook, Reconciler, Replay,  \* the callers of enqueue()
    PinWriters,                   \* the threads that grade a pull request
    MaxReplays,                   \* bound: SELECTs of the replay command
    StateWriteMayFail,            \* may write_state() raise?
    RevisionMayBeNull             \* may the payload lack code_revision_id?

ASSUME DaemonAssumption ==
    /\ Commits \subseteq Nat \ {0}
    /\ 1 \in Commits
    /\ NoCommit = 0
    /\ Enqueuers \subseteq {Webhook, Reconciler, Replay}
    /\ Resident = Enqueuers \ {Replay}
    /\ MaxReplays \in Nat
    /\ StateWriteMayFail \in BOOLEAN
    /\ RevisionMayBeNull \in BOOLEAN

VARIABLES
    head,        \* refs/heads/main of the remote
    deliveries,  \* push webhooks GitHub has not delivered yet
    tick,        \* the reconciler thread inside reconcile_once()
    job,         \* the worker thread inside process_one()
    ledger,      \* the table ingest_ledger
    stateFile,   \* latest_* of .daemon-state.json
    atlas,       \* the revisions Atlas holds
    children,    \* ingest processes that are running
    replays,     \* how many SELECTs the replay command has made
    copies       \* copies[g]: what g read of the state file and will write back

dvars == <<head, deliveries, tick, job, ledger, stateFile, atlas, children,
           replays, copies>>
vars == <<qvars, dvars>>

\* A revision is named after the attempt that produced it.
Run(c, n) == [sha |-> c, attempt |-> n]
Runs == [sha : Commits, attempt : Nat \ {0}]
NoRev == [sha |-> NoCommit, attempt |-> 0]

\* A ledger row.  Only a succeeded one may carry a revision.
LedgerRow == [sha : Commits, attempt : Nat \ {0},
              status : {"succeeded", "failed"}, rev : Runs \cup {NoRev}]

\* Where the worker thread is in process_one().
Stages == {"none", "prepare", "ingest", "failedLedger", "failedMark",
           "ledger", "state", "mark"}
Jobs == [at : Stages, parent : Runs \cup {NoRev}, rev : Runs \cup {NoRev}]
NoJob == [at |-> "none", parent |-> NoRev, rev |-> NoRev]

Ticks == [at : {"asleep", "read", "asked"}, local : Commits \cup {NoCommit},
          remote : Commits \cup {NoCommit}]
NoTick == [at |-> "asleep", local |-> NoCommit, remote |-> NoCommit]

NoState == [sha |-> NoCommit, rev |-> NoRev]
States == [sha : Commits, rev : Runs] \cup {NoState}

TypeOK ==
    /\ QueueTypeOK
    /\ head \in Commits
    /\ deliveries \subseteq Commits
    /\ tick \in Ticks
    /\ job \in Jobs
    /\ ledger \in Seq(LedgerRow)
    /\ stateFile \in States
    /\ atlas \subseteq Runs
    /\ children \subseteq Runs
    /\ replays \in 0..MaxReplays
    /\ copies \in [PinWriters -> SUBSET States]

Init ==
    /\ QueueInit
    /\ head = 1
    /\ deliveries = {}
    /\ tick = NoTick
    /\ job = NoJob
    /\ ledger = <<>>
    /\ stateFile = NoState
    /\ atlas = {}
    /\ children = {}
    /\ replays = 0
    /\ copies = [g \in PinWriters |-> {}]
-----------------------------------------------------------------------------
(* GitHub *)

\* A push to main; GitHub posts it to the webhook once.
Push ==
    /\ head + 1 \in Commits
    /\ head' = head + 1
    /\ deliveries' = deliveries \cup {head + 1}
    /\ UNCHANGED <<qvars, tick, job, ledger, stateFile, atlas, children,
                   replays, copies>>

\* The delivery fails: the daemon is down, the tunnel is, GitHub times out.
LoseDelivery(c) ==
    /\ c \in deliveries
    /\ deliveries' = deliveries \ {c}
    /\ UNCHANGED <<qvars, head, tick, job, ledger, stateFile, atlas, children,
                   replays, copies>>
-----------------------------------------------------------------------------
(* The callers of enqueue() *)

\* What every caller does: the SELECT, then nothing or a pending write.
Ask(e, c) == EnqueueSelect(e, c) \/ EnqueueReturn(e, c)

\* The second half of enqueue(), the same for every caller.
FinishEnqueue(e) ==
    /\ EnqueueInsert(e) \/ EnqueueConflict(e) \/ EnqueueRequeue(e)
    /\ UNCHANGED dvars

\* webhook(): an authentic push to main.  The handler is a coroutine that
\* calls enqueue() without awaiting, so one delivery is handled at a time.
WebhookAsk(c) ==
    /\ Webhook \in Enqueuers
    /\ c \in deliveries
    /\ Ask(Webhook, c)
    /\ deliveries' = deliveries \ {c}
    /\ UNCHANGED <<head, tick, job, ledger, stateFile, atlas, children,
                   replays, copies>>

\* reconcile_once(): first the state file ...
TickRead ==
    /\ Reconciler \in Enqueuers
    /\ work.phase # "down"
    /\ tick.at = "asleep"
    /\ req[Reconciler] = NoRequest
    /\ tick' = [NoTick EXCEPT !.at = "read", !.local = stateFile.sha]
    /\ UNCHANGED <<qvars, head, deliveries, job, ledger, stateFile, atlas,
                   children, replays, copies>>

\* MUTANT of TickLsRemote: every answer counts as in-sync.
AlwaysInSync ==
    /\ tick.at = "read"
    /\ tick' = NoTick
    /\ UNCHANGED <<qvars, head, deliveries, job, ledger, stateFile, atlas,
                   children, replays, copies>>

\* ... then git ls-remote; equal SHAs are in-sync and end the tick ...
TickLsRemote ==
    /\ tick.at = "read"
    /\ tick' = IF head = tick.local
               THEN NoTick
               ELSE [tick EXCEPT !.at = "asked", !.remote = head]
    /\ UNCHANGED <<qvars, head, deliveries, job, ledger, stateFile, atlas,
                   children, replays, copies>>

\* ... or git fails or times out, which ends it too ...
TickNoRemote ==
    /\ tick.at = "read"
    /\ tick' = NoTick
    /\ UNCHANGED <<qvars, head, deliveries, job, ledger, stateFile, atlas,
                   children, replays, copies>>

\* ... then enqueue() of the SHA that ls-remote printed.
TickAsk ==
    /\ tick.at = "asked"
    /\ Ask(Reconciler, tick.remote)
    /\ tick' = NoTick
    /\ UNCHANGED <<head, deliveries, job, ledger, stateFile, atlas, children,
                   replays, copies>>

\* cmd_replay(): any commit of main the operator names, or one of the range.
ReplayAsk(c) ==
    /\ Replay \in Enqueuers
    /\ replays < MaxReplays
    /\ c <= head
    /\ Ask(Replay, c)
    /\ replays' = replays + 1
    /\ UNCHANGED <<head, deliveries, tick, job, ledger, stateFile, atlas,
                   children, copies>>
-----------------------------------------------------------------------------
(* The worker thread: drain_once() and process_one() *)

MyRun == Run(work.sha, work.attempt)

\* claim_next() returns and process_one() begins.
SelectJob == ClaimSelect /\ UNCHANGED dvars

ClaimJob ==
    /\ ClaimUpdate
    /\ job' = [NoJob EXCEPT !.at = "prepare"]
    /\ UNCHANGED <<head, deliveries, tick, ledger, stateFile, atlas, children,
                   replays, copies>>

\* MUTANT of PrepareFails: the failure is not recorded in the ledger.
PrepareFailsUnrecorded ==
    /\ job.at = "prepare"
    /\ job' = [job EXCEPT !.at = "failedMark"]
    /\ UNCHANGED <<qvars, head, deliveries, tick, ledger, stateFile, atlas,
                   children, replays, copies>>

\* The clone, the worktree or the SCIP build raises.
PrepareFails ==
    /\ job.at = "prepare"
    /\ job' = [job EXCEPT !.at = "failedLedger"]
    /\ UNCHANGED <<qvars, head, deliveries, tick, ledger, stateFile, atlas,
                   children, replays, copies>>

\* MUTANT of StartIngest: the parent is the latest attempt in the ledger.
StartFromLatestAttempt ==
    /\ job.at = "prepare"
    /\ job' = [job EXCEPT !.at = "ingest",
                          !.parent = IF ledger = <<>> THEN NoRev
                                     ELSE LET row == ledger[Len(ledger)] IN
                                          Run(row.sha, row.attempt)]
    /\ children' = children \cup {MyRun}
    /\ UNCHANGED <<qvars, head, deliveries, tick, ledger, stateFile, atlas,
                   replays, copies>>

\* They succeed; the parent revision is read from the state file and the
\* ingest command starts.
StartIngest ==
    /\ job.at = "prepare"
    /\ job' = [job EXCEPT !.at = "ingest", !.parent = stateFile.rev]
    /\ children' = children \cup {MyRun}
    /\ UNCHANGED <<qvars, head, deliveries, tick, ledger, stateFile, atlas,
                   replays, copies>>

\* MUTANT of IngestSucceeds: output (b) is made without output (a).
IngestSkipsLedger ==
    /\ job.at = "ingest"
    /\ job' = [job EXCEPT !.at = "state", !.rev = MyRun]
    /\ atlas' = atlas \cup {MyRun}
    /\ children' = children \ {MyRun}
    /\ UNCHANGED <<qvars, head, deliveries, tick, ledger, stateFile, replays,
                   copies>>

\* Exit code 0 with a payload.  Atlas minted a revision, or recognised the
\* commit and returned one it has, or the payload names none.  The doc
\* ingest that follows cannot fail the commit.
IngestSucceeds ==
    /\ job.at = "ingest"
    /\ \E r \in {MyRun} \cup {a \in atlas : a.sha = work.sha}
                \cup (IF RevisionMayBeNull THEN {NoRev} ELSE {}) :
          /\ job' = [job EXCEPT !.at = "ledger", !.rev = r]
          /\ atlas' = atlas \cup ({r} \ {NoRev})
    /\ children' = children \ {MyRun}
    /\ UNCHANGED <<qvars, head, deliveries, tick, ledger, stateFile, replays,
                   copies>>

\* MUTANT of IngestFails: a timed-out command is not killed.
IngestTimesOutAlive ==
    /\ job.at = "ingest"
    /\ job' = [job EXCEPT !.at = "failedLedger"]
    /\ UNCHANGED <<qvars, head, deliveries, tick, ledger, stateFile, atlas,
                   children, replays, copies>>

\* A non-zero exit code, an unreadable payload or a timeout, with or without
\* the data in Atlas.
IngestFails ==
    /\ job.at = "ingest"
    /\ job' = [job EXCEPT !.at = "failedLedger"]
    /\ children' = children \ {MyRun}
    /\ atlas' \in {atlas, atlas \cup {MyRun}}
    /\ UNCHANGED <<qvars, head, deliveries, tick, ledger, stateFile, replays,
                   copies>>

\* The except branch: a failed ledger row, then the queue row.
RecordFailure ==
    /\ job.at = "failedLedger"
    /\ ledger' = Append(ledger, [sha |-> work.sha, attempt |-> work.attempt,
                                 status |-> "failed", rev |-> NoRev])
    /\ job' = [job EXCEPT !.at = "failedMark"]
    /\ UNCHANGED <<qvars, head, deliveries, tick, stateFile, atlas, children,
                   replays, copies>>

\* MUTANT of MarkFailed: a failed commit is queued again on the spot.
MarkForRetry ==
    /\ job.at = "failedMark"
    /\ MarkTerminal("queued")
    /\ job' = NoJob
    /\ UNCHANGED <<head, deliveries, tick, ledger, stateFile, atlas, children,
                   replays, copies>>

MarkFailed ==
    /\ job.at = "failedMark"
    /\ MarkTerminal("failed")
    /\ job' = NoJob
    /\ UNCHANGED <<head, deliveries, tick, ledger, stateFile, atlas, children,
                   replays, copies>>

\* MUTANT of RecordSuccess: (b) is made without a revision id too.
RecordThenAlwaysWrite ==
    /\ job.at = "ledger"
    /\ ledger' = Append(ledger, [sha |-> work.sha, attempt |-> work.attempt,
                                 status |-> "succeeded", rev |-> job.rev])
    /\ job' = [job EXCEPT !.at = "state"]
    /\ UNCHANGED <<qvars, head, deliveries, tick, stateFile, atlas, children,
                   replays, copies>>

\* MUTANT of RecordSuccess: (b) is never made.
RecordThenNeverWrite ==
    /\ job.at = "ledger"
    /\ ledger' = Append(ledger, [sha |-> work.sha, attempt |-> work.attempt,
                                 status |-> "succeeded", rev |-> job.rev])
    /\ job' = [job EXCEPT !.at = "mark"]
    /\ UNCHANGED <<qvars, head, deliveries, tick, stateFile, atlas, children,
                   replays, copies>>

\* (a) the ledger row; (b) is skipped without a revision id.
RecordSuccess ==
    /\ job.at = "ledger"
    /\ ledger' = Append(ledger, [sha |-> work.sha, attempt |-> work.attempt,
                                 status |-> "succeeded", rev |-> job.rev])
    /\ job' = [job EXCEPT !.at = IF job.rev = NoRev THEN "mark" ELSE "state"]
    /\ UNCHANGED <<qvars, head, deliveries, tick, stateFile, atlas, children,
                   replays, copies>>

\* (b) the state file.
WriteState ==
    /\ job.at = "state"
    /\ stateFile' = [sha |-> work.sha, rev |-> job.rev]
    /\ job' = [job EXCEPT !.at = "mark"]
    /\ UNCHANGED <<qvars, head, deliveries, tick, ledger, atlas, children,
                   replays, copies>>

\* (b) raises: logged, and the commit counts as ingested all the same.
WriteStateFails ==
    /\ StateWriteMayFail
    /\ job.at = "state"
    /\ job' = [job EXCEPT !.at = "mark"]
    /\ UNCHANGED <<qvars, head, deliveries, tick, ledger, stateFile, atlas,
                   children, replays, copies>>

\* (c) the queue row.
MarkSucceeded ==
    /\ job.at = "mark"
    /\ MarkTerminal("succeeded")
    /\ job' = NoJob
    /\ UNCHANGED <<head, deliveries, tick, ledger, stateFile, atlas, children,
                   replays, copies>>

\* One of the worker's four database writes raises.
DatabaseFault ==
    /\ \/ work.phase = "selected"
       \/ job.at \in {"failedLedger", "failedMark", "ledger", "mark"}
    /\ WorkerFault
    /\ job' = NoJob
    /\ UNCHANGED <<head, deliveries, tick, ledger, stateFile, atlas, children,
                   replays, copies>>
-----------------------------------------------------------------------------
(* Pull-request grading *)

\* acquire_pin() and release_pin() read the state file, change the map of
\* pins (module StateFile) and write everything else back as they read it.
PinRead(g) ==
    /\ work.phase # "down"
    /\ copies[g] = {}
    /\ copies' = [copies EXCEPT ![g] = {stateFile}]
    /\ UNCHANGED <<qvars, head, deliveries, tick, job, ledger, stateFile, atlas,
                   children, replays>>

PinWrite(g) ==
    /\ stateFile' \in copies[g]
    /\ copies' = [copies EXCEPT ![g] = {}]
    /\ UNCHANGED <<qvars, head, deliveries, tick, job, ledger, atlas, children,
                   replays>>
-----------------------------------------------------------------------------
(* The process *)

Boot == (Recover \/ RecoverFault) /\ UNCHANGED dvars

\* The threads are gone.  A running ingest command is a child process and is
\* not told: make ingest-down signals the daemon's pid alone.
Die ==
    /\ Crash
    /\ job' = NoJob
    /\ tick' = NoTick
    /\ copies' = [g \in PinWriters |-> {}]
    /\ UNCHANGED <<head, deliveries, ledger, stateFile, atlas, children,
                   replays>>

\* An orphaned ingest command ends, one way or the other.
OrphanEnds(r) ==
    /\ r \in children
    /\ ~(job.at = "ingest" /\ r = MyRun)
    /\ children' = children \ {r}
    /\ atlas' \in {atlas, atlas \cup {r}}
    /\ UNCHANGED <<qvars, head, deliveries, tick, job, ledger, stateFile,
                   replays, copies>>

Up == Restart /\ UNCHANGED dvars
-----------------------------------------------------------------------------
WorkerAction ==
    \/ SelectJob \/ ClaimJob
    \/ PrepareFails \/ StartIngest
    \/ IngestSucceeds \/ IngestFails
    \/ RecordFailure \/ MarkFailed
    \/ RecordSuccess \/ WriteState \/ WriteStateFails \/ MarkSucceeded

ReconcilerAction ==
    \/ TickRead \/ TickLsRemote \/ TickNoRemote \/ TickAsk

Next ==
    \/ Push
    \/ \E c \in deliveries : LoseDelivery(c) \/ WebhookAsk(c)
    \/ \E c \in Commits : ReplayAsk(c)
    \/ ReconcilerAction
    \/ \E e \in Enqueuers : FinishEnqueue(e)
    \/ WorkerAction
    \/ DatabaseFault
    \/ Boot
    \/ Die
    \/ \E r \in children : OrphanEnds(r)
    \/ \E g \in PinWriters : PinRead(g) \/ PinWrite(g)
    \/ Up

Spec == Init /\ [][Next]_vars

\* The worker loop, the reconciler loop and a started enqueue() go on as long
\* as their process lives, an operator restarts a dead daemon, and git
\* ls-remote succeeds infinitely often if it is asked infinitely often.
\* GitHub need not deliver, nobody need push or replay.
FairSpec ==
    /\ Spec
    /\ WF_vars(Boot) /\ WF_vars(Up) /\ WF_vars(WorkerAction)
    /\ \A e \in Enqueuers : WF_vars(FinishEnqueue(e))
    /\ WF_vars(TickRead) /\ SF_vars(TickLsRemote) /\ WF_vars(TickAsk)
-----------------------------------------------------------------------------
(* Safety *)

\* The queue and the ledger agree: a row closed as succeeded or failed has a
\* ledger row for its last attempt with the same verdict.  "The latest
\* succeeded row is the authoritative record" (schema.sql) relies on it, and
\* so does the grader's find_by_commit_sha().
TerminalRowHasLedgerRow ==
    \A c \in Commits :
        status[c] \in {"succeeded", "failed"} =>
            \E i \in DOMAIN ledger :
                /\ ledger[i].sha = c
                /\ ledger[i].attempt = attempts[c]
                /\ ledger[i].status = status[c]

\* An attempt leaves at most one ledger row, whatever crashes, faults and
\* races come between, and rows of a commit are in order of their attempts.
LedgerAttemptsIncrease ==
    \A i, j \in DOMAIN ledger :
        i < j /\ ledger[i].sha = ledger[j].sha
            => ledger[i].attempt < ledger[j].attempt

\* The state file never runs ahead: it names a commit and a revision that a
\* succeeded ledger row records and that Atlas holds.
StateFileIsBacked ==
    stateFile # NoState =>
        /\ stateFile.rev \in atlas
        /\ \E i \in DOMAIN ledger :
              /\ ledger[i].sha = stateFile.sha
              /\ ledger[i].status = "succeeded"
              /\ ledger[i].rev = stateFile.rev

\* An incremental ingest names a parent revision Atlas holds, of the commit
\* whose files it may carry forward.
ParentIsInAtlas ==
    job.at = "ingest" => job.parent \in atlas \cup {NoRev}

\* The worker drains the queue serially: as long as the daemon has not died,
\* Atlas sees one ingest command at a time.
OneIngestAtATime ==
    crashes = 0 => \A r, s \in children : r = s

\* What a ledger row says of the head of main.
Named(i) == [sha |-> ledger[i].sha, rev |-> ledger[i].rev]

\* Row i is the latest success: latest_succeeded() of ledger.py, for rows that
\* carry a revision.
Success(i) == ledger[i].status = "succeeded" /\ ledger[i].rev # NoRev
IsLastSuccess(i) == Success(i) /\ \A j \in DOMAIN ledger : Success(j) => j <= i

\* /status answers from the ledger, the runner and the reconciler read the
\* state file: between two jobs they name the same commit and revision, the
\* state file being behind only by successes without a revision, as long as
\* the daemon does not die, its writes of the file do not raise and no pull
\* request is graded.
StatusAgreesWithStateFile ==
    /\ crashes = 0 /\ ~StateWriteMayFail /\ PinWriters = {}
    /\ work.phase \in {"idle", "selected"}
    => /\ \A i \in DOMAIN ledger : IsLastSuccess(i) => stateFile = Named(i)
       /\ stateFile = NoState \/ \E i \in DOMAIN ledger : IsLastSuccess(i)

(* Refinement: the daemon uses the queue as IngestQueue says. *)
UsesQueueAsSpecified == QueueSpec

(* Liveness *)

\* The commit is done, has used up its attempts, or the state file has it.
Settled(c) ==
    \/ status[c] = "succeeded"
    \/ status[c] = "failed" /\ attempts[c] >= MaxAttempts
    \/ stateFile.sha = c

\* The daemon does not fall behind: whatever deliveries are lost and however
\* often the process dies, the last commit pushed is dealt with for good.
HeadIsSettled == <>[]Settled(head)

\* The state file catches up: when the head of main has been ingested, the
\* state file says so sooner or later.
StateFileCatchesUp ==
    <>[](status[head] = "succeeded" => stateFile.sha = head)
=============================================================================
