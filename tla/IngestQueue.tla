----------------------------- MODULE IngestQueue -----------------------------
(***************************************************************************)
(* The durable ingest queue of the daemon: the table ingest_queue of       *)
(* schema.sql and the functions of queue.py that read and write it, with   *)
(* the callers the daemon has for them.                                    *)
(*                                                                         *)
(* Every function of queue.py opens its own connection and runs a SELECT   *)
(* and then, perhaps, one INSERT or UPDATE.  The connection is opened with *)
(* isolation_level="DEFERRED": Python's sqlite3 starts a transaction only  *)
(* in front of the INSERT or UPDATE, so the SELECT is not part of it and   *)
(* other connections may commit between the two.  The model therefore      *)
(* gives the SELECT and the write of enqueue() and of claim_next() a step  *)
(* of their own, and a caller remembers what its SELECT returned.          *)
(*                                                                         *)
(* Callers of enqueue(): the webhook handler and the reconciler thread,    *)
(* which live in the daemon process (Resident), and the replay command,    *)
(* a process of its own.  The only caller of the other functions is the    *)
(* daemon's single worker thread.                                          *)
(***************************************************************************)
EXTENDS Naturals, FiniteSets

CONSTANTS
    Commits,      \* the commit SHAs that may be asked for
    Enqueuers,    \* the threads and processes that call enqueue()
    Resident,     \* those of them that die with the daemon process
    MaxAttempts,  \* cfg.max_attempts_per_commit
    MaxCrashes,   \* bound: how often the daemon process dies
    MaxFaults,    \* bound: how often a database write of the worker raises
    NoCommit      \* "no commit", for idle callers

ASSUME QueueAssumption ==
    /\ Resident \subseteq Enqueuers
    /\ IsFiniteSet(Enqueuers)
    /\ MaxAttempts \in Nat \ {0}
    /\ MaxCrashes \in Nat
    /\ MaxFaults \in Nat
    /\ NoCommit \notin Commits

VARIABLES
    rowId,     \* rowId[c]: the row's id, 0 when c has no row
    lastId,    \* the AUTOINCREMENT counter of the table
    status,    \* status[c]: the row's status, "absent" without a row
    attempts,  \* attempts[c]: the row's attempt_count
    req,       \* req[e]: the write that e's SELECT in enqueue() decided on
    work,      \* the worker thread: its phase and its claim
    crashes,   \* how often the process died
    faults     \* how often a database write of the worker raised

table == <<rowId, lastId, status, attempts>>
qvars == <<rowId, lastId, status, attempts, req, work, crashes, faults>>

RowStatus == {"absent", "queued", "running", "succeeded", "failed"}

\* A pending enqueue(): the commit and the status its SELECT returned.
Request   == [sha : Commits, seen : {"absent", "failed"}]
NoRequest == [sha |-> NoCommit, seen |-> "none"]

\* "down": no process.  "boot": the process is up and the worker thread has
\* not yet run the recovery.  "dead": the recovery raised, which ends the
\* worker thread while the process goes on serving.
Unclaimed == {"down", "boot", "dead", "idle"}
Claimed   == {"selected", "running"}
NoClaim(p) == [phase |-> p, sha |-> NoCommit, attempt |-> 0]

QueueTypeOK ==
    /\ rowId \in [Commits -> Nat]
    /\ lastId \in Nat
    /\ status \in [Commits -> RowStatus]
    /\ attempts \in [Commits -> Nat]
    /\ req \in [Enqueuers -> Request \cup {NoRequest}]
    /\ work \in [phase : Unclaimed, sha : {NoCommit}, attempt : {0}]
                \cup [phase : Claimed, sha : Commits, attempt : Nat \ {0}]
    /\ crashes \in 0..MaxCrashes
    /\ faults \in 0..MaxFaults

QueueInit ==
    /\ rowId = [c \in Commits |-> 0]
    /\ lastId = 0
    /\ status = [c \in Commits |-> "absent"]
    /\ attempts = [c \in Commits |-> 0]
    /\ req = [e \in Enqueuers |-> NoRequest]
    /\ work = NoClaim("boot")
    /\ crashes = 0
    /\ faults = 0
-----------------------------------------------------------------------------
(* enqueue() *)

\* A resident caller needs the daemon process.
Alive(e) == e \in Resident => work.phase # "down"

\* MUTANT of CallsForWrite: the retry cap is forgotten.
CallsForWriteUncapped(c) == status[c] \in {"absent", "failed"}

\* What the SELECT of enqueue() returned calls for a write: there is no row,
\* or a failed one below the retry cap.
CallsForWrite(c) ==
    \/ status[c] = "absent"
    \/ status[c] = "failed" /\ attempts[c] < MaxAttempts

\* The SELECT, when it leads to a write.
EnqueueSelect(e, c) ==
    /\ Alive(e)
    /\ req[e] = NoRequest
    /\ CallsForWrite(c)
    /\ req' = [req EXCEPT ![e] = [sha |-> c, seen |-> status[c]]]
    /\ UNCHANGED <<table, work, crashes, faults>>

\* The SELECT, when enqueue() returns at once: dedup-succeeded,
\* already-queued, already-running or max-attempts-exceeded.
EnqueueReturn(e, c) ==
    /\ Alive(e)
    /\ req[e] = NoRequest
    /\ ~CallsForWrite(c)
    /\ UNCHANGED qvars

\* The INSERT.  commit_sha is UNIQUE.
EnqueueInsert(e) ==
    LET c == req[e].sha IN
    /\ req[e].seen = "absent"
    /\ status[c] = "absent"
    /\ lastId' = lastId + 1
    /\ rowId' = [rowId EXCEPT ![c] = lastId + 1]
    /\ status' = [status EXCEPT ![c] = "queued"]
    /\ req' = [req EXCEPT ![e] = NoRequest]
    /\ UNCHANGED <<attempts, work, crashes, faults>>

\* The INSERT, when another caller's row got there first: IntegrityError.
\* The webhook answers 500, the reconciler reports enqueue-error.
EnqueueConflict(e) ==
    /\ req[e].seen = "absent"
    /\ status[req[e].sha] # "absent"
    /\ req' = [req EXCEPT ![e] = NoRequest]
    /\ UNCHANGED <<table, work, crashes, faults>>

\* MUTANT of EnqueueRequeue: the UPDATE is made twice.
RequeueTwice(e) ==
    /\ req[e].seen = "failed"
    /\ status' = [status EXCEPT ![req[e].sha] = "queued"]
    /\ UNCHANGED <<rowId, lastId, attempts, req, work, crashes, faults>>

\* The UPDATE of a failed row: it names the row by id and nothing else, so
\* it takes effect whatever the row's status has become since the SELECT.
EnqueueRequeue(e) ==
    /\ req[e].seen = "failed"
    /\ status' = [status EXCEPT ![req[e].sha] = "queued"]
    /\ req' = [req EXCEPT ![e] = NoRequest]
    /\ UNCHANGED <<rowId, lastId, attempts, work, crashes, faults>>
-----------------------------------------------------------------------------
(* The worker thread *)

Oldest(c) ==
    /\ status[c] = "queued"
    /\ \A d \in Commits : status[d] = "queued" => rowId[c] <= rowId[d]

\* claim_next(), the SELECT of the oldest queued row.
ClaimSelect ==
    /\ work.phase = "idle"
    /\ \E c \in Commits :
          /\ Oldest(c)
          /\ work' = [phase |-> "selected", sha |-> c,
                      attempt |-> attempts[c] + 1]
    /\ UNCHANGED <<table, req, crashes, faults>>

\* MUTANT of ClaimUpdate: attempt_count is not stored.
ClaimUncounted ==
    /\ work.phase = "selected"
    /\ status' = [status EXCEPT ![work.sha] = "running"]
    /\ work' = [work EXCEPT !.phase = "running"]
    /\ UNCHANGED <<rowId, lastId, attempts, req, crashes, faults>>

\* claim_next(), the UPDATE, again by id alone.
ClaimUpdate ==
    /\ work.phase = "selected"
    /\ status' = [status EXCEPT ![work.sha] = "running"]
    /\ attempts' = [attempts EXCEPT ![work.sha] = work.attempt]
    /\ work' = [work EXCEPT !.phase = "running"]
    /\ UNCHANGED <<rowId, lastId, req, crashes, faults>>

\* mark_terminal(): the row is closed whatever its status is by now.
MarkTerminal(outcome) ==
    /\ work.phase = "running"
    /\ status' = [status EXCEPT ![work.sha] = outcome]
    /\ work' = NoClaim("idle")
    /\ UNCHANGED <<rowId, lastId, attempts, req, crashes, faults>>

\* A database write of the worker raises (a locked database, a full disk):
\* the exception escapes process_one() or claim_next(), _worker_loop() logs
\* it and goes on, and the row stays as it is.
WorkerFault ==
    /\ work.phase \in Claimed
    /\ faults < MaxFaults
    /\ faults' = faults + 1
    /\ work' = NoClaim("idle")
    /\ UNCHANGED <<table, req, crashes>>

\* MUTANT of Recover: running rows are left as they are.
RecoverNothing ==
    /\ work.phase = "boot"
    /\ work' = NoClaim("idle")
    /\ UNCHANGED <<table, req, crashes, faults>>

\* MUTANT of Recover: closed rows are queued again too.
RecoverEverything ==
    /\ work.phase = "boot"
    /\ status' = [c \in Commits |->
                    IF status[c] = "absent" THEN "absent" ELSE "queued"]
    /\ work' = NoClaim("idle")
    /\ UNCHANGED <<rowId, lastId, attempts, req, crashes, faults>>

\* recover_running_on_startup(), run by the worker thread before its loop.
Recover ==
    /\ work.phase = "boot"
    /\ status' = [c \in Commits |->
                    IF status[c] = "running" THEN "queued" ELSE status[c]]
    /\ work' = NoClaim("idle")
    /\ UNCHANGED <<rowId, lastId, attempts, req, crashes, faults>>

\* The recovery raises.  Nothing guards it: the worker thread ends.
RecoverFault ==
    /\ work.phase = "boot"
    /\ faults < MaxFaults
    /\ faults' = faults + 1
    /\ work' = NoClaim("dead")
    /\ UNCHANGED <<table, req, crashes>>

\* The daemon process dies, in the middle of whatever its threads do: a kill,
\* or a shutdown whose ten seconds of patience a running ingest outlasts.
Crash ==
    /\ work.phase # "down"
    /\ crashes < MaxCrashes
    /\ crashes' = crashes + 1
    /\ work' = NoClaim("down")
    /\ req' = [e \in Enqueuers |-> IF e \in Resident THEN NoRequest ELSE req[e]]
    /\ UNCHANGED <<table, faults>>

\* The operator starts the daemon again.
Restart ==
    /\ work.phase = "down"
    /\ work' = NoClaim("boot")
    /\ UNCHANGED <<table, req, crashes, faults>>
-----------------------------------------------------------------------------
EnqueueStep(e) ==
    \/ \E c \in Commits : EnqueueSelect(e, c)
    \/ \E c \in Commits : EnqueueReturn(e, c)
    \/ EnqueueInsert(e)
    \/ EnqueueConflict(e)
    \/ EnqueueRequeue(e)

WorkerStep ==
    \/ Recover
    \/ ClaimSelect
    \/ ClaimUpdate
    \/ MarkTerminal("succeeded")
    \/ MarkTerminal("failed")

QueueNext ==
    \/ \E e \in Enqueuers : EnqueueStep(e)
    \/ WorkerStep
    \/ WorkerFault
    \/ RecoverFault
    \/ Crash
    \/ Restart

QueueSpec == QueueInit /\ [][QueueNext]_qvars

\* The worker thread loops for ever and an operator restarts a dead daemon;
\* nothing obliges anybody to enqueue, or the process to crash.
FairQueueSpec == QueueSpec /\ WF_qvars(WorkerStep) /\ WF_qvars(Restart)
-----------------------------------------------------------------------------
(* Safety *)

\* As long as no database write of the worker has failed, a row is "running"
\* only while the worker holds it, or until the recovery of the next start:
\* no row is left running by an idle worker, and never are two running.
RunningIsOwned ==
    faults = 0 =>
      /\ \A c \in Commits :
            status[c] = "running" =>
               \/ work.phase = "running" /\ work.sha = c
               \/ work.phase \in {"down", "boot"}
      /\ \A c, d \in Commits :
            status[c] = "running" /\ status[d] = "running" => c = d

\* The retry cap.  A commit is attempted at most max_attempts_per_commit
\* times, plus once for every crash (the recovery requeues without looking at
\* the cap), plus once for every caller but one that can hold a stale SELECT.
AttemptsBounded ==
    \A c \in Commits :
        attempts[c] + 1 <= MaxAttempts + crashes + Cardinality(Enqueuers)

\* With a single caller of enqueue() the row the worker works on is marked
\* running, and a decided write still finds the status it was decided on.
HeldIsRunning ==
    work.phase = "running" => status[work.sha] = "running"

\* Terminal rows stay for dedup: once a commit has succeeded its row never
\* changes status again, so a commit Atlas has is never ingested again.
SucceededStays ==
    \A c \in Commits : status[c] = "succeeded" => status'[c] = "succeeded"
SucceededIsFinal == [][SucceededStays]_qvars

(***************************************************************************)
(* Refinement: with one caller of enqueue() and no failing database write, *)
(* the two-step reads and writes, the crashes and the recovery implement   *)
(* the contract of JobQueue; the mapping leaves the table as it is.        *)
(***************************************************************************)
Job == INSTANCE JobQueue WITH status <- status, attempts <- attempts
ImplementsJobQueue == Job!Spec

(* Liveness *)

\* No starvation: a queued row is claimed sooner or later, although older
\* rows that fail may be queued again in front of it.
QueuedIsDrained ==
    \A c \in Commits : status[c] = "queued" ~> status[c] # "queued"
=============================================================================
