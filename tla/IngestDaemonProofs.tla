------------------------- MODULE IngestDaemonProofs -------------------------
(***************************************************************************)
(* Theorems about the ingest daemon: it uses the queue as IngestQueue      *)
(* says, so the theorems about the queue hold of it, and its ledger, state *)
(* file and queue stay consistent through crashes, faults and races.       *)
(***************************************************************************)
EXTENDS IngestDaemon, IngestQueueProofs

(***************************************************************************)
(* Control.  The worker is inside process_one() exactly while it holds a   *)
(* claim; it writes the state file only with a revision; the reconciler    *)
(* asks for a commit that was the head of main.                            *)
(***************************************************************************)
ControlInv ==
    /\ (job.at = "none") <=> (work.phase # "running")
    /\ job.at = "state" => job.rev # NoRev
    /\ tick.at # "asleep" => Reconciler \in Enqueuers
    /\ tick.at = "asked" => tick.remote \in Commits

\* Every step of the daemon is a step of the queue or leaves it alone.
LEMMA QueueStep == TypeOK /\ ControlInv /\ [Next]_vars => [QueueNext]_qvars
<1> SUFFICES ASSUME TypeOK, ControlInv, [Next]_vars
             PROVE  QueueNext \/ UNCHANGED qvars
  OBVIOUS
<1>1. ASSUME NEW e \in Enqueuers, NEW c \in Commits, Ask(e, c)
      PROVE  QueueNext
  BY <1>1 DEF Ask, QueueNext, EnqueueStep
<1>2. CASE Push
  BY <1>2 DEF Push
<1>3. ASSUME NEW c \in deliveries, LoseDelivery(c) \/ WebhookAsk(c)
      PROVE  QueueNext \/ UNCHANGED qvars
  BY <1>1, <1>3 DEF LoseDelivery, WebhookAsk, TypeOK
<1>4. ASSUME NEW c \in Commits, ReplayAsk(c)
      PROVE  QueueNext
  BY <1>1, <1>4 DEF ReplayAsk
<1>5. CASE ReconcilerAction
  BY <1>1, <1>5 DEF ReconcilerAction, TickRead, TickLsRemote, TickNoRemote,
                    TickAsk, ControlInv
<1>6. ASSUME NEW e \in Enqueuers, FinishEnqueue(e)
      PROVE  QueueNext
  BY <1>6 DEF FinishEnqueue, QueueNext, EnqueueStep
<1>7. CASE WorkerAction
  BY <1>7 DEF WorkerAction, SelectJob, ClaimJob, PrepareFails, StartIngest,
       IngestSucceeds, IngestFails, RecordFailure, MarkFailed, RecordSuccess,
       WriteState, WriteStateFails, MarkSucceeded, QueueNext, WorkerStep
<1>8. CASE DatabaseFault
  BY <1>8 DEF DatabaseFault, QueueNext
<1>9. CASE Boot
  BY <1>9 DEF Boot, QueueNext, WorkerStep
<1>10. CASE Die
  BY <1>10 DEF Die, QueueNext
<1>11. ASSUME NEW r \in children, OrphanEnds(r)
       PROVE  UNCHANGED qvars
  BY <1>11 DEF OrphanEnds
<1>12. CASE Up
  BY <1>12 DEF Up, QueueNext
<1>13. CASE UNCHANGED vars
  BY <1>13 DEF vars
<1>14. ASSUME NEW g \in PinWriters, PinRead(g) \/ PinWrite(g)
       PROVE  UNCHANGED qvars
  BY <1>14 DEF PinRead, PinWrite
<1>15. QED
  BY <1>2, <1>3, <1>4, <1>5, <1>6, <1>7, <1>8, <1>9, <1>10, <1>11, <1>12,
     <1>13, <1>14 DEF Next

\* The constants of the daemon have their types.
LEMMA Blanks ==
  /\ NoJob \in Jobs /\ NoJob.at = "none"
  /\ NoTick \in Ticks /\ NoTick.at = "asleep"
  /\ NoState \in States /\ NoState.rev = NoRev
  /\ NoRev \notin Runs
BY QueueAssumption DEF NoJob, NoTick, NoState, Jobs, Ticks, States, Stages,
                       Runs, NoRev

LEMMA JobAt ==
  ASSUME NEW j \in Jobs, NEW a \in Stages
  PROVE  /\ [j EXCEPT !.at = a] \in Jobs
         /\ [j EXCEPT !.at = a].at = a
         /\ [j EXCEPT !.at = a].rev = j.rev
BY DEF Jobs

LEMMA JobAtParent ==
  ASSUME NEW j \in Jobs, NEW a \in Stages, NEW r \in Runs \cup {NoRev}
  PROVE  /\ [j EXCEPT !.at = a, !.parent = r] \in Jobs
         /\ [j EXCEPT !.at = a, !.parent = r].at = a
         /\ [j EXCEPT !.at = a, !.parent = r].parent = r
BY DEF Jobs

LEMMA JobAtRev ==
  ASSUME NEW j \in Jobs, NEW a \in Stages, NEW r \in Runs \cup {NoRev}
  PROVE  /\ [j EXCEPT !.at = a, !.rev = r] \in Jobs
         /\ [j EXCEPT !.at = a, !.rev = r].at = a
         /\ [j EXCEPT !.at = a, !.rev = r].rev = r
BY DEF Jobs

LEMMA TickUpdates ==
  ASSUME NEW t \in Ticks, NEW c \in Commits \cup {NoCommit}
  PROVE  /\ [NoTick EXCEPT !.at = "read", !.local = c] \in Ticks
         /\ [NoTick EXCEPT !.at = "read", !.local = c].at = "read"
         /\ [t EXCEPT !.at = "asked", !.remote = c] \in Ticks
         /\ [t EXCEPT !.at = "asked", !.remote = c].remote = c
BY DEF Ticks, NoTick

LEMMA TypeAndControlStep ==
  TypeOK /\ ControlInv /\ [Next]_vars => TypeOK' /\ ControlInv'
<1> SUFFICES ASSUME TypeOK, ControlInv, [Next]_vars
             PROVE  TypeOK' /\ ControlInv'
  OBVIOUS
<1>q. QueueTypeOK'
  BY QueueStep, QueueTypeStep DEF TypeOK
<1> USE DEF ControlInv
<1>t. /\ head \in Commits /\ deliveries \subseteq Commits /\ tick \in Ticks
      /\ job \in Jobs /\ ledger \in Seq(LedgerRow) /\ stateFile \in States
      /\ atlas \subseteq Runs /\ children \subseteq Runs
      /\ replays \in 0..MaxReplays
      /\ copies \in [PinWriters -> SUBSET States]
  BY DEF TypeOK
<1>g. ASSUME head' \in Commits, deliveries' \subseteq Commits, tick' \in Ticks,
             job' \in Jobs, ledger' \in Seq(LedgerRow), stateFile' \in States,
             atlas' \subseteq Runs, children' \subseteq Runs,
             replays' \in 0..MaxReplays,
             copies' \in [PinWriters -> SUBSET States]
      PROVE  TypeOK'
  BY <1>q, <1>g DEF TypeOK
<1>w. work.phase = "running" => /\ MyRun \in Runs
                               /\ work.sha \in Commits
                               /\ work.attempt \in Nat \ {0}
  BY QueueAssumption DEF TypeOK, QueueTypeOK, Claimed, Unclaimed, MyRun, Run,
                         Runs
<1>a. ASSUME NEW e \in Enqueuers, NEW c \in Commits, Ask(e, c)
      PROVE  work' = work
  BY <1>a DEF Ask, EnqueueSelect, EnqueueReturn, qvars
<1>s. /\ stateFile.rev \in Runs \cup {NoRev}
      /\ stateFile.sha \in Commits \cup {NoCommit}
  BY <1>t, Blanks DEF States, NoState
<1>1. CASE Push
  BY <1>1, <1>g, <1>t DEF Push, qvars
<1>2. ASSUME NEW c \in deliveries, LoseDelivery(c) \/ WebhookAsk(c)
      PROVE  TypeOK' /\ ControlInv'
  BY <1>2, <1>a, <1>g, <1>t DEF LoseDelivery, WebhookAsk, qvars
<1>3. ASSUME NEW c \in Commits, ReplayAsk(c)
      PROVE  TypeOK' /\ ControlInv'
  <2>1. replays' \in 0..MaxReplays
    BY <1>3, <1>t, DaemonAssumption DEF ReplayAsk
  <2>2. QED
    BY <1>3, <2>1, <1>a, <1>g, <1>t DEF ReplayAsk
<1>4. CASE TickRead
  <2>1. tick' \in Ticks /\ tick'.at = "read"
    BY <1>4, <1>s, <1>t, TickUpdates DEF TickRead
  <2>2. QED
    BY <1>4, <2>1, <1>g, <1>t DEF TickRead, qvars
<1>5. CASE TickLsRemote \/ TickNoRemote
  <2>1. /\ tick' \in Ticks
        /\ tick'.at # "asleep" => tick'.remote \in Commits
    <3>1. CASE tick' = NoTick
      BY <3>1, Blanks
    <3>2. CASE tick' = [tick EXCEPT !.at = "asked", !.remote = head]
      <4>1. tick \in Ticks /\ head \in Commits
        BY <1>t
      <4>2. QED
        BY <3>2, <4>1 DEF Ticks
    <3>3. QED
      BY <1>5, <3>1, <3>2 DEF TickLsRemote, TickNoRemote
  <2>2. tick.at # "asleep"
    BY <1>5 DEF TickLsRemote, TickNoRemote
  <2>3. QED
    BY <1>5, <2>1, <2>2, <1>g, <1>t DEF TickLsRemote, TickNoRemote, qvars
<1>6. CASE TickAsk
  BY <1>6, <1>a, <1>g, <1>t, Blanks DEF TickAsk
<1>7. ASSUME NEW e \in Enqueuers, FinishEnqueue(e)
      PROVE  TypeOK' /\ ControlInv'
  BY <1>7, <1>g, <1>t DEF FinishEnqueue, EnqueueInsert, EnqueueConflict,
                          EnqueueRequeue, dvars
<1>8. CASE SelectJob
  <2>1. work.phase # "running" /\ work'.phase # "running"
    BY <1>8 DEF SelectJob, ClaimSelect
  <2>2. QED
    BY <1>8, <2>1, <1>g, <1>t DEF SelectJob, dvars
<1>9. CASE ClaimJob
  <2>1. work'.phase = "running"
    BY <1>9, QueueAssumption DEF ClaimJob, ClaimUpdate, TypeOK, QueueTypeOK
  <2>2. job' \in Jobs /\ job'.at = "prepare"
    BY <1>9, Blanks, JobAt DEF ClaimJob, Stages
  <2>3. QED
    BY <1>9, <2>1, <2>2, <1>g, <1>t DEF ClaimJob
<1>10. CASE PrepareFails
  <2>1. job' \in Jobs /\ job'.at = "failedLedger"
    BY <1>10, <1>t, JobAt DEF PrepareFails, Stages
  <2>2. QED
    BY <1>10, <2>1, <1>g, <1>t DEF PrepareFails, qvars
<1>11. CASE StartIngest
  <2>1. job' \in Jobs /\ job'.at = "ingest"
    <3>1. job' = [job EXCEPT !.at = "ingest", !.parent = stateFile.rev]
      BY <1>11 DEF StartIngest
    <3>2. "ingest" \in Stages
      BY DEF Stages
    <3>3. QED
      BY <3>1, <3>2, <1>t, <1>s, JobAtParent
  <2>2. QED
    BY <1>11, <2>1, <1>g, <1>t, <1>w DEF StartIngest, qvars
<1>12. CASE IngestSucceeds
  <2>1. PICK r \in {MyRun} \cup {a \in atlas : a.sha = work.sha}
                   \cup (IF RevisionMayBeNull THEN {NoRev} ELSE {}) :
             /\ job' = [job EXCEPT !.at = "ledger", !.rev = r]
             /\ atlas' = atlas \cup ({r} \ {NoRev})
    BY <1>12 DEF IngestSucceeds
  <2>2. r \in Runs \cup {NoRev}
    BY <1>12, <2>1, <1>t, <1>w DEF IngestSucceeds
  <2>3. job' \in Jobs /\ job'.at = "ledger"
    BY <2>1, <2>2, <1>t, JobAtRev DEF Stages
  <2>4. atlas' \subseteq Runs
    BY <2>1, <2>2, <1>t
  <2>5. QED
    BY <1>12, <2>3, <2>4, <1>g, <1>t DEF IngestSucceeds, qvars
<1>13. CASE IngestFails
  <2>1. job' \in Jobs /\ job'.at = "failedLedger"
    BY <1>13, <1>t, JobAt DEF IngestFails, Stages
  <2>2. QED
    BY <1>13, <2>1, <1>g, <1>t, <1>w DEF IngestFails, qvars
<1>14. CASE RecordFailure
  <2>1. job' \in Jobs /\ job'.at = "failedMark"
    BY <1>14, <1>t, JobAt DEF RecordFailure, Stages
  <2>2. [sha |-> work.sha, attempt |-> work.attempt, status |-> "failed",
         rev |-> NoRev] \in LedgerRow
    BY <1>14, <1>w DEF RecordFailure, LedgerRow
  <2>3. ledger' \in Seq(LedgerRow)
    BY <1>14, <2>2, <1>t DEF RecordFailure
  <2>4. QED
    BY <1>14, <2>1, <2>3, <1>g, <1>t DEF RecordFailure, qvars
<1>15. CASE RecordSuccess
  <2>1. /\ job' \in Jobs
        /\ job'.at = IF job.rev = NoRev THEN "mark" ELSE "state"
        /\ job'.rev = job.rev
    <3>1. /\ "mark" \in Stages /\ "state" \in Stages
          /\ job' = [job EXCEPT !.at = IF job.rev = NoRev THEN "mark"
                                      ELSE "state"]
      BY <1>15 DEF RecordSuccess, Stages
    <3>2. CASE job.rev = NoRev
      <4>1. job' = [job EXCEPT !.at = "mark"]
        BY <3>1, <3>2
      <4>2. QED
        BY <4>1, <3>1, <3>2, <1>t, JobAt
    <3>3. CASE job.rev # NoRev
      <4>1. job' = [job EXCEPT !.at = "state"]
        BY <3>1, <3>3
      <4>2. QED
        BY <4>1, <3>1, <3>3, <1>t, JobAt
    <3>4. QED
      BY <3>2, <3>3
  <2>2. [sha |-> work.sha, attempt |-> work.attempt, status |-> "succeeded",
         rev |-> job.rev] \in LedgerRow
    BY <1>15, <1>w, <1>t DEF RecordSuccess, LedgerRow, Jobs
  <2>3. ledger' \in Seq(LedgerRow)
    BY <1>15, <2>2, <1>t DEF RecordSuccess
  <2>4. QED
    BY <1>15, <2>1, <2>3, <1>g, <1>t DEF RecordSuccess, qvars
<1>16. CASE WriteState
  <2>1. job' \in Jobs /\ job'.at = "mark"
    BY <1>16, <1>t, JobAt DEF WriteState, Stages
  <2>2. job.rev \in Runs
    BY <1>16, <1>t DEF WriteState, Jobs
  <2>3. stateFile' \in States
    BY <1>16, <2>2, <1>w DEF WriteState, States
  <2>4. QED
    BY <1>16, <2>1, <2>3, <1>g, <1>t DEF WriteState, qvars
<1>17. CASE WriteStateFails
  <2>1. job' \in Jobs /\ job'.at = "mark"
    BY <1>17, <1>t, JobAt DEF WriteStateFails, Stages
  <2>2. QED
    BY <1>17, <2>1, <1>g, <1>t DEF WriteStateFails, qvars
<1>18. CASE MarkFailed \/ MarkSucceeded
  <2>1. work'.phase = "idle" /\ job' = NoJob /\ tick' = tick
    BY <1>18 DEF MarkFailed, MarkSucceeded, MarkTerminal, NoClaim
  <2>2. QED
    BY <1>18, <2>1, <1>g, <1>t, Blanks DEF MarkFailed, MarkSucceeded
<1>19. CASE DatabaseFault
  <2>1. work'.phase = "idle"
    BY <1>19 DEF DatabaseFault, WorkerFault, NoClaim
  <2>2. QED
    BY <1>19, <2>1, <1>g, <1>t, Blanks DEF DatabaseFault
<1>20. CASE Boot
  <2>1. work.phase # "running" /\ work'.phase # "running"
    BY <1>20 DEF Boot, Recover, RecoverFault, NoClaim
  <2>2. QED
    BY <1>20, <2>1, <1>g, <1>t DEF Boot, dvars
<1>21. CASE Die
  <2>1. work'.phase # "running"
    BY <1>21 DEF Die, Crash, NoClaim
  <2>2. QED
    BY <1>21, <2>1, <1>g, <1>t, Blanks DEF Die
<1>22. ASSUME NEW r \in children, OrphanEnds(r)
       PROVE  TypeOK' /\ ControlInv'
  BY <1>22, <1>g, <1>t DEF OrphanEnds, qvars
<1>23. CASE Up
  <2>1. work.phase # "running" /\ work'.phase # "running"
    BY <1>23 DEF Up, Restart, NoClaim
  <2>2. QED
    BY <1>23, <2>1, <1>g, <1>t DEF Up, dvars
<1>24. CASE UNCHANGED vars
  BY <1>24, <1>g, <1>t DEF vars, qvars, dvars
<1>25. ASSUME NEW g \in PinWriters, PinRead(g) \/ PinWrite(g)
       PROVE  TypeOK' /\ ControlInv'
  <2>1. /\ copies' \in [PinWriters -> SUBSET States]
        /\ stateFile' \in States
    BY <1>25, <1>t DEF PinRead, PinWrite
  <2>2. QED
    BY <1>25, <2>1, <1>g, <1>t DEF PinRead, PinWrite, qvars
<1>26. QED
  BY <1>1, <1>2, <1>3, <1>4, <1>5, <1>6, <1>7, <1>8, <1>9, <1>10, <1>11,
     <1>12, <1>13, <1>14, <1>15, <1>16, <1>17, <1>18, <1>19, <1>20, <1>21,
     <1>22, <1>23, <1>24, <1>25 DEF Next, WorkerAction, ReconcilerAction

LEMMA TypeAndControl == Spec => [](TypeOK /\ ControlInv)
<1>1. Init => TypeOK /\ ControlInv
  <2> SUFFICES ASSUME Init PROVE TypeOK /\ ControlInv
    OBVIOUS
  <2>1. QueueTypeOK
    BY QueueAssumption DEF Init, QueueInit, QueueTypeOK, RowStatus, Request,
                           NoRequest, Unclaimed, Claimed, NoClaim
  <2>2. QED
    BY <2>1, Blanks, DaemonAssumption
       DEF Init, QueueInit, TypeOK, ControlInv, NoClaim
<1>2. QED
  BY <1>1, TypeAndControlStep, PTL DEF Spec

\* The daemon's variables keep their types.
THEOREM DaemonTyped == Spec => []TypeOK
BY TypeAndControl, PTL

\* Seen through the table, the callers' requests and the worker's claim, the
\* daemon behaves as IngestQueue specifies.
THEOREM DaemonUsesQueue == Spec => UsesQueueAsSpecified
<1>1. Init => QueueInit
  BY DEF Init
<1>2. QED
  BY <1>1, QueueStep, TypeAndControl, PTL DEF Spec, UsesQueueAsSpecified,
     QueueSpec
-----------------------------------------------------------------------------
(***************************************************************************)
(* Most steps are quiet: they add nothing to the ledger, count no attempt, *)
(* close no row, write nothing to the state file but what somebody read    *)
(* there, and either leave the worker thread alone or leave it outside     *)
(* process_one().                                                          *)
(***************************************************************************)
Terminal == {"succeeded", "failed"}

Quiet ==
    /\ ledger' = ledger /\ attempts' = attempts /\ atlas \subseteq atlas'
    /\ \/ stateFile' = stateFile
       \/ \E g \in PinWriters : stateFile' \in copies[g]
    /\ \A g \in PinWriters : copies'[g] \subseteq copies[g] \cup {stateFile}
    /\ \/ job' = job /\ work' = work
       \/ job'.at = "none" /\ work'.phase # "running"
    /\ \A c \in Commits : status'[c] \in Terminal => status'[c] = status[c]

\* The steps that are not quiet.
Progress ==
    \/ ClaimJob \/ PrepareFails \/ StartIngest \/ IngestSucceeds \/ IngestFails
    \/ RecordFailure \/ RecordSuccess \/ WriteState \/ WriteStateFails
    \/ MarkFailed \/ MarkSucceeded

LEMMA StepIsQuietOrProgress ==
  TypeOK /\ ControlInv /\ [Next]_vars => Quiet \/ Progress
<1> SUFFICES ASSUME TypeOK, ControlInv, [Next]_vars
             PROVE  Quiet \/ Progress
  OBVIOUS
<1>1. ASSUME NEW e \in Enqueuers, NEW c \in Commits, Ask(e, c)
      PROVE  /\ work' = work /\ attempts' = attempts /\ status' = status
  BY <1>1 DEF Ask, EnqueueSelect, EnqueueReturn, qvars, table
<1>2. ASSUME UNCHANGED <<work, attempts, status, job, ledger, stateFile, atlas,
                         copies>>
      PROVE  Quiet
  BY <1>2 DEF Quiet
<1>3. CASE Push
  BY <1>2, <1>3 DEF Push, qvars, table
<1>4. ASSUME NEW c \in deliveries, LoseDelivery(c) \/ WebhookAsk(c)
      PROVE  Quiet
  BY <1>1, <1>2, <1>4 DEF LoseDelivery, WebhookAsk, TypeOK, qvars,
                               table
<1>5. ASSUME NEW c \in Commits, ReplayAsk(c)
      PROVE  Quiet
  BY <1>1, <1>2, <1>5 DEF ReplayAsk
<1>6. CASE ReconcilerAction
  <2>1. TickAsk => tick.remote \in Commits /\ Reconciler \in Enqueuers
    BY DEF TickAsk, ControlInv
  <2>2. QED
    BY <1>1, <1>2, <1>6, <2>1 DEF ReconcilerAction, TickRead, TickLsRemote,
                                  TickNoRemote, TickAsk, qvars, table
<1>7. ASSUME NEW e \in Enqueuers, FinishEnqueue(e)
      PROVE  Quiet
  <2>1. UNCHANGED <<work, attempts, job, ledger, stateFile, atlas,
                    copies>>
    BY <1>7 DEF FinishEnqueue, EnqueueInsert, EnqueueConflict, EnqueueRequeue,
                table, dvars
  <2>2. ASSUME NEW c \in Commits, status'[c] \in Terminal
        PROVE  status'[c] = status[c]
    BY <1>7, <2>2 DEF FinishEnqueue, EnqueueInsert, EnqueueConflict,
                      EnqueueRequeue, table, Terminal, TypeOK, QueueTypeOK
  <2>3. QED
    BY <2>1, <2>2 DEF Quiet
<1>8. CASE SelectJob
  <2>1. /\ work.phase # "running" /\ work'.phase # "running"
        /\ UNCHANGED <<status, attempts>>
    BY <1>8 DEF SelectJob, ClaimSelect, table
  <2>2. QED
    BY <1>8, <2>1 DEF SelectJob, dvars, Quiet, ControlInv
<1>9. CASE DatabaseFault
  <2>1. job' = NoJob /\ work'.phase = "idle" /\ UNCHANGED <<status, attempts>>
    BY <1>9 DEF DatabaseFault, WorkerFault, NoClaim, table
  <2>2. QED
    BY <1>9, <2>1, Blanks DEF DatabaseFault, Quiet
<1>10. CASE Boot
  <2>1. UNCHANGED <<attempts, job, ledger, stateFile, atlas, copies>>
    BY <1>10 DEF Boot, Recover, RecoverFault, table, dvars
  <2>2. work.phase # "running" /\ work'.phase # "running"
    BY <1>10 DEF Boot, Recover, RecoverFault, NoClaim
  <2>3. ASSUME NEW c \in Commits, status'[c] \in Terminal
        PROVE  status'[c] = status[c]
    BY <1>10, <2>3 DEF Boot, Recover, RecoverFault, table, Terminal
  <2>4. QED
    BY <2>1, <2>2, <2>3 DEF Quiet, ControlInv
<1>11. CASE Die
  <2>1. job' = NoJob /\ work'.phase = "down" /\ UNCHANGED <<status, attempts>>
    BY <1>11 DEF Die, Crash, NoClaim, table
  <2>2. QED
    BY <1>11, <2>1, Blanks DEF Die, Quiet
<1>12. ASSUME NEW r \in children, OrphanEnds(r)
       PROVE  Quiet
  BY <1>12 DEF OrphanEnds, qvars, table, Quiet
<1>13. CASE Up
  <2>1. /\ work.phase # "running" /\ work'.phase # "running"
        /\ UNCHANGED <<status, attempts>>
    BY <1>13 DEF Up, Restart, NoClaim, table
  <2>2. QED
    BY <1>13, <2>1 DEF Up, dvars, Quiet, ControlInv
<1>14. CASE UNCHANGED vars
  BY <1>2, <1>14 DEF vars, qvars, table, dvars
<1>15. ASSUME NEW g \in PinWriters, PinRead(g) \/ PinWrite(g)
       PROVE  Quiet
  <2>1. /\ copies \in [PinWriters -> SUBSET States]
        /\ UNCHANGED <<work, attempts, status, job, ledger, atlas>>
    BY <1>15 DEF PinRead, PinWrite, TypeOK, qvars, table
  <2>2. QED
    BY <1>15, <2>1 DEF PinRead, PinWrite, Quiet
<1>16. QED
  BY <1>3, <1>4, <1>5, <1>6, <1>7, <1>8, <1>9, <1>10, <1>11, <1>12, <1>13,
     <1>14, <1>15 DEF Next, WorkerAction, Progress
-----------------------------------------------------------------------------
(***************************************************************************)
(* The state file never runs ahead of the ledger and of Atlas.  To be      *)
(* inductive the invariant follows the revision through process_one():     *)
(* Atlas has it when the ingest command returns, the ledger when output    *)
(* (a) is done, and only then is it written to the state file.             *)
(***************************************************************************)
SucceededWith(c, r) ==
    \E i \in DOMAIN ledger :
        /\ ledger[i].sha = c
        /\ ledger[i].status = "succeeded"
        /\ ledger[i].rev = r

Backed(s) == s # NoState => s.rev \in atlas /\ SucceededWith(s.sha, s.rev)

BackedInv ==
    /\ ParentIsInAtlas
    /\ Backed(stateFile)
    /\ \A g \in PinWriters : \A s \in copies[g] : Backed(s)
    /\ job.at \in {"ledger", "state"} => job.rev \in atlas \cup {NoRev}
    /\ job.at = "state" => SucceededWith(work.sha, job.rev)

\* Atlas forgets nothing and the ledger loses no row.
LEMMA RecordsAreKept ==
  ASSUME TypeOK, atlas \subseteq atlas',
         \/ ledger' = ledger
         \/ \E row \in LedgerRow : ledger' = Append(ledger, row)
  PROVE  /\ \A c, r : SucceededWith(c, r) => SucceededWith(c, r)'
         /\ \A s : Backed(s) => Backed(s)'
<1>1. ledger \in Seq(LedgerRow)
  BY DEF TypeOK
<1>2. ASSUME NEW i \in DOMAIN ledger
      PROVE  i \in DOMAIN ledger' /\ ledger'[i] = ledger[i]
  BY <1>1
<1>3. ASSUME NEW c, NEW r, SucceededWith(c, r)
      PROVE  SucceededWith(c, r)'
  BY <1>2, <1>3 DEF SucceededWith
<1>4. QED
  BY <1>3 DEF Backed

\* A step that keeps the records and writes nothing new to the state file or
\* to a copy of it keeps them backed.
LEMMA BackedKept ==
  ASSUME BackedInv, \A s : Backed(s) => Backed(s)',
         stateFile' = stateFile \/ \E g \in PinWriters : stateFile' \in copies[g],
         \A g \in PinWriters : copies'[g] \subseteq copies[g] \cup {stateFile}
  PROVE  /\ Backed(stateFile)'
         /\ (\A g \in PinWriters : \A s \in copies[g] : Backed(s))'
<1>1. PICK s : s = stateFile
  OBVIOUS
<1>2. PICK t : t = stateFile'
  OBVIOUS
<1>3. Backed(s)' /\ Backed(t)'
  BY <1>1, <1>2 DEF BackedInv
<1>4. Backed(stateFile)'
  BY <1>2, <1>3 DEF Backed
<1>5. ASSUME NEW g \in PinWriters, NEW u \in copies'[g]
      PROVE  Backed(u)'
  <2>1. CASE u \in copies[g]
    BY <2>1 DEF BackedInv
  <2>2. CASE u = s
    BY <2>2, <1>3
  <2>3. QED
    BY <2>1, <2>2, <1>1
<1>6. QED
  BY <1>4, <1>5

LEMMA BackedInvStep ==
  TypeOK /\ ControlInv /\ BackedInv /\ [Next]_vars => BackedInv'
<1> SUFFICES ASSUME TypeOK, ControlInv, BackedInv, [Next]_vars
             PROVE  BackedInv'
  OBVIOUS
<1>t. job \in Jobs /\ NoState.rev = NoRev /\ stateFile \in States
      /\ ledger \in Seq(LedgerRow)
  BY Blanks DEF TypeOK
<1>w. work.phase = "running" => /\ work.sha \in Commits
                               /\ work.attempt \in Nat \ {0}
  BY QueueAssumption DEF TypeOK, QueueTypeOK, Claimed, Unclaimed
<1>j. job.at # "none" => work.phase = "running"
  BY DEF ControlInv
<1>k. ASSUME atlas \subseteq atlas',
             \/ ledger' = ledger
             \/ \E row \in LedgerRow : ledger' = Append(ledger, row),
             stateFile' = stateFile, copies' = copies
      PROVE  /\ Backed(stateFile)'
             /\ (\A g \in PinWriters : \A s \in copies[g] : Backed(s))'
  BY <1>k, RecordsAreKept, BackedKept
<1>1. CASE Quiet
  <2>1. \A c, r : SucceededWith(c, r) => SucceededWith(c, r)'
    BY <1>1, RecordsAreKept DEF Quiet
  <2>2. /\ Backed(stateFile)'
        /\ (\A g \in PinWriters : \A s \in copies[g] : Backed(s))'
    BY <1>1, RecordsAreKept, BackedKept DEF Quiet
  <2>3. CASE job' = job /\ work' = work
    BY <1>1, <2>1, <2>2, <2>3 DEF Quiet, BackedInv, ParentIsInAtlas
  <2>4. CASE job'.at = "none"
    BY <2>2, <2>4 DEF BackedInv, ParentIsInAtlas
  <2>5. QED
    BY <1>1, <2>3, <2>4 DEF Quiet
<1>2. ASSUME \/ ClaimJob \/ PrepareFails \/ IngestFails \/ RecordFailure
             \/ WriteStateFails \/ MarkFailed \/ MarkSucceeded
      PROVE  BackedInv'
  <2>1. job'.at \in {"prepare", "failedLedger", "failedMark", "mark", "none"}
    <3>1. ASSUME NEW a \in Stages,
                 job' = [job EXCEPT !.at = a] \/ job' = [NoJob EXCEPT !.at = a]
          PROVE  job'.at = a
      <4>1. job \in Jobs /\ NoJob \in Jobs
        BY <1>t, Blanks
      <4>2. QED
        BY <3>1, <4>1 DEF Jobs
    <3>2. {"prepare", "failedLedger", "failedMark", "mark"} \subseteq Stages
      BY DEF Stages
    <3>3. CASE MarkFailed \/ MarkSucceeded
      BY <3>3, Blanks DEF MarkFailed, MarkSucceeded
    <3>4. CASE ClaimJob
      BY <3>1, <3>2, <3>4 DEF ClaimJob
    <3>5. CASE PrepareFails \/ IngestFails
      BY <3>1, <3>2, <3>5 DEF PrepareFails, IngestFails
    <3>6. CASE RecordFailure \/ WriteStateFails
      BY <3>1, <3>2, <3>6 DEF RecordFailure, WriteStateFails
    <3>7. QED
      BY <1>2, <3>3, <3>4, <3>5, <3>6
  <2>2. /\ stateFile' = stateFile /\ copies' = copies
        /\ atlas \subseteq atlas'
    BY <1>2 DEF ClaimJob, PrepareFails, IngestFails, RecordFailure,
           WriteStateFails, MarkFailed, MarkSucceeded
  <2>3. \/ ledger' = ledger
        \/ \E row \in LedgerRow : ledger' = Append(ledger, row)
    <3>1. RecordFailure =>
            [sha |-> work.sha, attempt |-> work.attempt, status |-> "failed",
             rev |-> NoRev] \in LedgerRow
      BY <1>w, <1>j DEF RecordFailure, LedgerRow
    <3>2. QED
      BY <1>2, <3>1 DEF ClaimJob, PrepareFails, IngestFails, RecordFailure,
           WriteStateFails, MarkFailed, MarkSucceeded
  <2>4. (/\ Backed(stateFile)
         /\ \A g \in PinWriters : \A s \in copies[g] : Backed(s))'
    BY <2>2, <2>3, <1>k
  <2>5. QED
    BY <2>1, <2>4 DEF BackedInv, ParentIsInAtlas
<1>3. CASE StartIngest
  <2>1. job' = [job EXCEPT !.at = "ingest", !.parent = stateFile.rev]
    BY <1>3 DEF StartIngest
  <2>2. job'.at = "ingest" /\ job'.parent = stateFile.rev
    BY <2>1, <1>t DEF Jobs
  <2>3. /\ stateFile' = stateFile /\ atlas' = atlas /\ ledger' = ledger
        /\ copies' = copies
    BY <1>3 DEF StartIngest
  <2>4. stateFile.rev \in atlas \cup {NoRev}
    BY <1>t DEF BackedInv, Backed
  <2>5. (/\ Backed(stateFile)
         /\ \A g \in PinWriters : \A s \in copies[g] : Backed(s))'
    BY <2>3, <1>k
  <2>6. QED
    BY <2>2, <2>3, <2>4, <2>5 DEF BackedInv, ParentIsInAtlas
<1>4. CASE IngestSucceeds
  <2>1. PICK r \in {MyRun} \cup {a \in atlas : a.sha = work.sha}
                   \cup (IF RevisionMayBeNull THEN {NoRev} ELSE {}) :
             /\ job' = [job EXCEPT !.at = "ledger", !.rev = r]
             /\ atlas' = atlas \cup ({r} \ {NoRev})
    BY <1>4 DEF IngestSucceeds
  <2>2. job'.at = "ledger" /\ job'.rev = r
    BY <2>1, <1>t DEF Jobs
  <2>3. stateFile' = stateFile /\ ledger' = ledger /\ copies' = copies
    BY <1>4 DEF IngestSucceeds
  <2>4. r \in atlas' \cup {NoRev} /\ atlas \subseteq atlas'
    BY <2>1
  <2>5. (/\ Backed(stateFile)
         /\ \A g \in PinWriters : \A s \in copies[g] : Backed(s))'
    BY <2>3, <2>4, <1>k
  <2>6. QED
    BY <2>2, <2>4, <2>5 DEF BackedInv, ParentIsInAtlas
<1>5. CASE RecordSuccess
  <2> DEFINE row == [sha |-> work.sha, attempt |-> work.attempt,
                     status |-> "succeeded", rev |-> job.rev]
  <2>1. row \in LedgerRow
    BY <1>5, <1>w, <1>t DEF RecordSuccess, LedgerRow, Jobs, ControlInv
  <2>2. /\ ledger' = Append(ledger, row) /\ stateFile' = stateFile
        /\ atlas' = atlas /\ work' = work /\ copies' = copies
        /\ job' = [job EXCEPT !.at = IF job.rev = NoRev THEN "mark"
                                    ELSE "state"]
    BY <1>5 DEF RecordSuccess, qvars
  <2>3. job'.at \in {"mark", "state"} /\ job'.rev = job.rev
    <3>1. \/ job' = [job EXCEPT !.at = "mark"]
          \/ job' = [job EXCEPT !.at = "state"]
      BY <2>2
    <3>2. QED
      BY <3>1, <1>t DEF Jobs
  <2>4. (/\ Backed(stateFile)
         /\ \A g \in PinWriters : \A s \in copies[g] : Backed(s))'
    BY <2>1, <2>2, <1>k
  <2>5. job.rev \in atlas \cup {NoRev}
    BY <1>5 DEF RecordSuccess, BackedInv
  <2>6. /\ Len(ledger) + 1 \in DOMAIN ledger'
        /\ ledger'[Len(ledger) + 1] = row
    BY <2>1, <2>2, <1>t
  <2>7. SucceededWith(work.sha, job.rev)'
    BY <2>2, <2>3, <2>6 DEF SucceededWith
  <2>8. QED
    BY <2>2, <2>3, <2>4, <2>5, <2>7 DEF BackedInv, ParentIsInAtlas
<1>6. CASE WriteState
  <2>1. /\ job'.at = "mark" /\ ledger' = ledger /\ atlas' = atlas
        /\ copies' = copies
        /\ stateFile' = [sha |-> work.sha, rev |-> job.rev]
    BY <1>6, <1>t, JobAt DEF WriteState, Stages
  <2>2. job.rev \in atlas /\ SucceededWith(work.sha, job.rev)
    BY <1>6 DEF WriteState, BackedInv, ControlInv
  <2>3. (/\ Backed(stateFile)
         /\ \A g \in PinWriters : \A s \in copies[g] : Backed(s))'
    <3>1. Backed(stateFile)'
      BY <2>1, <2>2 DEF Backed, SucceededWith
    <3>2. \A s : Backed(s) => Backed(s)'
      BY <2>1, RecordsAreKept
    <3>3. QED
      BY <3>1, <3>2, <2>1 DEF BackedInv
  <2>4. QED
    BY <2>1, <2>3 DEF BackedInv, ParentIsInAtlas
<1>7. QED
  BY <1>1, <1>2, <1>3, <1>4, <1>5, <1>6, StepIsQuietOrProgress DEF Progress

LEMMA BackedInvariance == Spec => []BackedInv
<1>1. Init => BackedInv
  BY Blanks DEF Init, BackedInv, ParentIsInAtlas, Backed
<1>2. QED
  BY <1>1, BackedInvStep, TypeAndControl, PTL DEF Spec

\* Whatever crashes, faults and races come between process_one()'s outputs,
\* the state file names a commit and a revision that the ledger and Atlas have.
THEOREM StateFileNeverAhead == Spec => []StateFileIsBacked
<1>1. BackedInv => StateFileIsBacked
  BY DEF BackedInv, Backed, SucceededWith, StateFileIsBacked
<1>2. QED
  BY <1>1, BackedInvariance, PTL

\* The parent revision handed to an incremental ingest is one Atlas holds.
THEOREM ParentAlwaysInAtlas == Spec => []ParentIsInAtlas
BY BackedInvariance, PTL DEF BackedInv
-----------------------------------------------------------------------------
(***************************************************************************)
(* The queue and the ledger agree.  claim_next() counts an attempt before  *)
(* process_one() can record it, so a ledger row never is of a later        *)
(* attempt than the row's count, and the attempt at hand has no row until  *)
(* one of the two terminal branches writes it.                             *)
(***************************************************************************)
ClaimCounted ==
    /\ work.phase = "selected" => work.attempt = attempts[work.sha] + 1
    /\ work.phase = "running" => work.attempt = attempts[work.sha]

LEMMA ClaimIsCounted == QueueSpec => []ClaimCounted
<1>1. QueueInit => ClaimCounted
  BY DEF QueueInit, ClaimCounted, NoClaim
<1>2. QueueTypeOK /\ ClaimCounted /\ [QueueNext]_qvars => ClaimCounted'
  <2> SUFFICES ASSUME QueueTypeOK, ClaimCounted, [QueueNext]_qvars
               PROVE  ClaimCounted'
    OBVIOUS
  <2> USE DEF ClaimCounted
  <2>1. ASSUME NEW e \in Enqueuers, EnqueueStep(e)
        PROVE  ClaimCounted'
    <3>1. work' = work /\ attempts' = attempts
      BY <2>1 DEF EnqueueStep, EnqueueSelect, EnqueueReturn, EnqueueInsert,
                  EnqueueConflict, EnqueueRequeue, table, qvars
    <3>2. QED
      BY <3>1
  <2>2. CASE ClaimSelect
    BY <2>2 DEF ClaimSelect, table
  <2>3. CASE ClaimUpdate
    <3>1. /\ work.sha \in Commits /\ attempts \in [Commits -> Nat]
          /\ work \in [phase : Claimed, sha : Commits, attempt : Nat \ {0}]
      BY <2>3, QueueAssumption DEF ClaimUpdate, QueueTypeOK, Claimed, Unclaimed
    <3>2. work'.phase = "running" /\ work'.sha = work.sha
          /\ work'.attempt = work.attempt
      BY <2>3, <3>1 DEF ClaimUpdate
    <3>3. attempts'[work.sha] = work.attempt
      BY <2>3, <3>1 DEF ClaimUpdate
    <3>4. QED
      BY <3>2, <3>3
  <2>4. CASE Recover \/ RecoverFault \/ WorkerFault \/ Crash \/ Restart
             \/ MarkTerminal("succeeded") \/ MarkTerminal("failed")
    <3>1. work'.phase \in {"idle", "dead", "down", "boot"}
      BY <2>4 DEF Recover, RecoverFault, WorkerFault, Crash, Restart,
                  MarkTerminal, NoClaim
    <3>2. QED
      BY <3>1
  <2>5. CASE UNCHANGED qvars
    BY <2>5 DEF qvars, table
  <2>6. QED
    BY <2>1, <2>2, <2>3, <2>4, <2>5 DEF QueueNext, WorkerStep
<1>3. QED
  BY <1>1, <1>2, QueueTyped, PTL DEF QueueSpec

Recorded(c, n, verdict) ==
    \E i \in DOMAIN ledger :
        /\ ledger[i].sha = c
        /\ ledger[i].attempt = n
        /\ ledger[i].status = verdict

\* No ledger row of the commit at hand is of this attempt or a later one.
Unrecorded ==
    \A i \in DOMAIN ledger :
        ledger[i].sha = work.sha => ledger[i].attempt < work.attempt

LedgerInv ==
    /\ LedgerAttemptsIncrease
    /\ \A i \in DOMAIN ledger : ledger[i].attempt <= attempts[ledger[i].sha]
    /\ job.at \in {"prepare", "ingest", "failedLedger", "ledger"} => Unrecorded
    /\ job.at = "failedMark" => Recorded(work.sha, work.attempt, "failed")
    /\ job.at \in {"state", "mark"} =>
          Recorded(work.sha, work.attempt, "succeeded")
    /\ TerminalRowHasLedgerRow

\* What a step that leaves the ledger and the attempt counts alone keeps.
LEMMA LedgerKept ==
  ASSUME LedgerInv, ledger' = ledger, attempts' = attempts,
         \A c \in Commits : status'[c] \in Terminal => status'[c] = status[c]
  PROVE  /\ LedgerAttemptsIncrease'
         /\ \A i \in DOMAIN ledger' :
               ledger'[i].attempt <= attempts'[ledger'[i].sha]
         /\ TerminalRowHasLedgerRow'
<1>1. LedgerAttemptsIncrease'
  BY DEF LedgerInv, LedgerAttemptsIncrease
<1>2. TerminalRowHasLedgerRow'
  BY DEF LedgerInv, TerminalRowHasLedgerRow, Terminal
<1>3. QED
  BY <1>1, <1>2 DEF LedgerInv

\* What recording the attempt at hand keeps and adds.
LEMMA LedgerGrows ==
  ASSUME TypeOK, ControlInv, ClaimCounted, LedgerInv, NEW row \in LedgerRow,
         Unrecorded, work.phase = "running",
         row.sha = work.sha, row.attempt = work.attempt,
         ledger' = Append(ledger, row), UNCHANGED qvars
  PROVE  /\ LedgerAttemptsIncrease'
         /\ \A i \in DOMAIN ledger' :
               ledger'[i].attempt <= attempts'[ledger'[i].sha]
         /\ TerminalRowHasLedgerRow'
         /\ Recorded(work.sha, work.attempt, row.status)'
<1> DEFINE n == Len(ledger) + 1
<1>1. /\ ledger \in Seq(LedgerRow) /\ Len(ledger) \in Nat
      /\ attempts \in [Commits -> Nat]
      /\ work.attempt \in Nat /\ work.sha \in Commits
  BY QueueAssumption DEF TypeOK, QueueTypeOK, Claimed, Unclaimed
<1>2. /\ DOMAIN ledger = 1..Len(ledger)
      /\ DOMAIN ledger' = 1..n
      /\ \A i \in DOMAIN ledger : ledger'[i] = ledger[i] /\ ledger[i] \in LedgerRow
      /\ ledger'[n] = row
  BY <1>1
<1>3. /\ attempts' = attempts /\ work' = work /\ status' = status
  BY DEF qvars
<1>4. \A i \in DOMAIN ledger : ledger[i].attempt \in Nat /\ ledger[i].sha \in Commits
  BY <1>2 DEF LedgerRow
<1>5. LedgerAttemptsIncrease'
  <2> SUFFICES ASSUME NEW i \in DOMAIN ledger', NEW j \in DOMAIN ledger',
                      i < j, ledger'[i].sha = ledger'[j].sha
               PROVE  ledger'[i].attempt < ledger'[j].attempt
    BY DEF LedgerAttemptsIncrease
  <2>1. CASE j = n
    <3>1. i \in DOMAIN ledger
      BY <1>1, <1>2, <2>1
    <3>2. QED
      BY <3>1, <2>1, <1>2 DEF Unrecorded
  <2>2. CASE j # n
    <3>1. i \in DOMAIN ledger /\ j \in DOMAIN ledger
      BY <1>1, <1>2, <2>2
    <3>2. QED
      BY <3>1, <1>2 DEF LedgerInv, LedgerAttemptsIncrease
  <2>3. QED
    BY <2>1, <2>2
<1>6. ASSUME NEW i \in DOMAIN ledger'
      PROVE  ledger'[i].attempt <= attempts'[ledger'[i].sha]
  <2>1. CASE i = n
    BY <2>1, <1>1, <1>2, <1>3 DEF ClaimCounted
  <2>2. CASE i # n
    <3>1. i \in DOMAIN ledger
      BY <1>1, <1>2, <2>2
    <3>2. QED
      BY <3>1, <1>2, <1>3 DEF LedgerInv
  <2>3. QED
    BY <2>1, <2>2
<1>7. ASSUME NEW c \in Commits, status'[c] \in {"succeeded", "failed"}
      PROVE  \E i \in DOMAIN ledger' : /\ ledger'[i].sha = c
                                      /\ ledger'[i].attempt = attempts'[c]
                                      /\ ledger'[i].status = status'[c]
  <2>1. PICK i \in DOMAIN ledger : /\ ledger[i].sha = c
                                  /\ ledger[i].attempt = attempts[c]
                                  /\ ledger[i].status = status[c]
    BY <1>3, <1>7 DEF LedgerInv, TerminalRowHasLedgerRow
  <2>2. i \in DOMAIN ledger' /\ ledger'[i] = ledger[i]
    BY <1>1, <1>2, <2>1
  <2>3. QED
    BY <2>1, <2>2, <1>3
<1>8. Recorded(work.sha, work.attempt, row.status)'
  <2>1. n \in DOMAIN ledger'
    BY <1>1, <1>2
  <2>2. QED
    BY <2>1, <1>2, <1>3 DEF Recorded
<1>9. QED
  BY <1>5, <1>6, <1>7, <1>8 DEF TerminalRowHasLedgerRow

LEMMA LedgerInvStep ==
  /\ TypeOK /\ ControlInv /\ ClaimCounted /\ LedgerInv
  /\ ClaimCounted' /\ [Next]_vars
  => LedgerInv'
<1> SUFFICES ASSUME TypeOK, ControlInv, ClaimCounted, LedgerInv,
                    ClaimCounted', [Next]_vars
             PROVE  LedgerInv'
  OBVIOUS
<1>t. job \in Jobs /\ NoJob \in Jobs /\ NoJob.at = "none"
  BY Blanks DEF TypeOK
<1>w. work.phase = "running" => /\ work.sha \in Commits
                               /\ work.attempt \in Nat \ {0}
  BY QueueAssumption DEF TypeOK, QueueTypeOK, Claimed, Unclaimed
<1>j. job.at # "none" => work.phase = "running"
  BY DEF ControlInv
<1>l. \A i \in DOMAIN ledger : /\ ledger[i].attempt \in Nat
                             /\ ledger[i].sha \in Commits
  <2>1. ledger \in Seq(LedgerRow)
    BY DEF TypeOK
  <2>2. \A i \in DOMAIN ledger : ledger[i] \in LedgerRow
    BY <2>1
  <2>3. QED
    BY <2>2 DEF LedgerRow
<1>1. CASE Quiet
  <2>1. CASE job' = job /\ work' = work
    <3>1. /\ Unrecorded => Unrecorded'
          /\ \A v : Recorded(work.sha, work.attempt, v)
                   => Recorded(work.sha, work.attempt, v)'
      BY <1>1, <2>1 DEF Quiet, Unrecorded, Recorded
    <3>2. QED
      BY <1>1, <2>1, <3>1, LedgerKept DEF Quiet, LedgerInv
  <2>2. CASE job'.at = "none"
    BY <1>1, <2>2, LedgerKept DEF Quiet, LedgerInv
  <2>3. QED
    BY <1>1, <2>1, <2>2 DEF Quiet
<1>2. CASE ClaimJob
  <2>1. /\ work.phase = "selected" /\ ledger' = ledger
        /\ status' = [status EXCEPT ![work.sha] = "running"]
        /\ attempts' = [attempts EXCEPT ![work.sha] = work.attempt]
        /\ work' = [work EXCEPT !.phase = "running"]
        /\ job' = [NoJob EXCEPT !.at = "prepare"]
    BY <1>2 DEF ClaimJob, ClaimUpdate
  <2>2. /\ work.sha \in Commits /\ work.attempt \in Nat
        /\ work \in [phase : Claimed, sha : Commits, attempt : Nat \ {0}]
        /\ attempts \in [Commits -> Nat] /\ status \in [Commits -> RowStatus]
    BY <2>1, QueueAssumption DEF TypeOK, QueueTypeOK, Claimed, Unclaimed
  <2>3. /\ job'.at = "prepare" /\ work'.sha = work.sha
        /\ work'.attempt = work.attempt
    BY <2>1, <2>2, <1>t DEF Jobs
  <2>4. work.attempt = attempts[work.sha] + 1
    BY <2>1 DEF ClaimCounted
  <2>5. \A c \in Commits : attempts[c] <= attempts'[c]
    BY <2>1, <2>2, <2>4
  <2>6. ASSUME NEW i \in DOMAIN ledger'
        PROVE  ledger'[i].attempt <= attempts'[ledger'[i].sha]
    <3>1. /\ ledger[i].attempt <= attempts[ledger[i].sha]
          /\ attempts[ledger[i].sha] <= attempts'[ledger[i].sha]
      BY <2>1, <2>5, <1>l DEF LedgerInv
    <3>2. /\ attempts[ledger[i].sha] \in Nat /\ attempts'[ledger[i].sha] \in Nat
      BY <2>1, <2>2, <1>l
    <3>3. QED
      BY <3>1, <3>2, <2>1, <1>l
  <2>7. Unrecorded'
    BY <2>1, <2>2, <2>3, <2>4, <1>l DEF Unrecorded, LedgerInv
  <2>8. TerminalRowHasLedgerRow'
    BY <2>1, <2>2 DEF LedgerInv, TerminalRowHasLedgerRow
  <2>9. LedgerAttemptsIncrease'
    BY <2>1 DEF LedgerInv, LedgerAttemptsIncrease
  <2>10. QED
    BY <2>3, <2>6, <2>7, <2>8, <2>9 DEF LedgerInv
<1>3. CASE PrepareFails \/ StartIngest \/ IngestSucceeds \/ IngestFails
  <2>1. job.at \in {"prepare", "ingest"} /\ ledger' = ledger /\ UNCHANGED qvars
    BY <1>3 DEF PrepareFails, StartIngest, IngestSucceeds, IngestFails
  <2>2. job'.at \in {"ingest", "ledger", "failedLedger"}
    <3>1. CASE PrepareFails \/ IngestFails
      <4>1. job' = [job EXCEPT !.at = "failedLedger"]
        BY <3>1 DEF PrepareFails, IngestFails
      <4>2. QED
        BY <4>1, <1>t DEF Jobs
    <3>2. CASE StartIngest
      <4>1. job' = [job EXCEPT !.at = "ingest", !.parent = stateFile.rev]
        BY <3>2 DEF StartIngest
      <4>2. QED
        BY <4>1, <1>t DEF Jobs
    <3>3. CASE IngestSucceeds
      <4>1. PICK r : job' = [job EXCEPT !.at = "ledger", !.rev = r]
        BY <3>3 DEF IngestSucceeds
      <4>2. QED
        BY <4>1, <1>t DEF Jobs
    <3>4. QED
      BY <1>3, <3>1, <3>2, <3>3
  <2>3. /\ Unrecorded' /\ attempts' = attempts /\ status' = status
    BY <2>1 DEF LedgerInv, Unrecorded, qvars
  <2>4. QED
    BY <2>1, <2>2, <2>3, LedgerKept DEF LedgerInv
<1>4. CASE RecordFailure
  <2> DEFINE row == [sha |-> work.sha, attempt |-> work.attempt,
                     status |-> "failed", rev |-> NoRev]
  <2>1. /\ job.at = "failedLedger" /\ ledger' = Append(ledger, row)
        /\ UNCHANGED qvars /\ job' = [job EXCEPT !.at = "failedMark"]
    BY <1>4 DEF RecordFailure
  <2>2. row \in LedgerRow /\ row.sha = work.sha /\ row.attempt = work.attempt
        /\ row.status = "failed"
    BY <2>1, <1>w, <1>j DEF LedgerRow
  <2>3. job'.at = "failedMark"
    BY <2>1, <1>t DEF Jobs
  <2>4. /\ LedgerAttemptsIncrease' /\ TerminalRowHasLedgerRow'
        /\ \A i \in DOMAIN ledger' :
              ledger'[i].attempt <= attempts'[ledger'[i].sha]
        /\ Recorded(work.sha, work.attempt, "failed")'
    <3>1. PICK r \in LedgerRow : r = row
      BY <2>2
    <3> HIDE DEF row
    <3>2. QED
      BY <3>1, <2>1, <2>2, <1>j, LedgerGrows DEF LedgerInv
  <2>5. QED
    BY <2>3, <2>4 DEF LedgerInv
<1>5. CASE RecordSuccess
  <2> DEFINE row == [sha |-> work.sha, attempt |-> work.attempt,
                     status |-> "succeeded", rev |-> job.rev]
  <2>1. /\ job.at = "ledger" /\ ledger' = Append(ledger, row)
        /\ UNCHANGED qvars
        /\ \/ job' = [job EXCEPT !.at = "mark"]
           \/ job' = [job EXCEPT !.at = "state"]
    BY <1>5 DEF RecordSuccess
  <2>2. row \in LedgerRow /\ row.sha = work.sha /\ row.attempt = work.attempt
        /\ row.status = "succeeded"
    BY <2>1, <1>t, <1>w, <1>j DEF LedgerRow, Jobs
  <2>3. job'.at \in {"mark", "state"}
    BY <2>1, <1>t DEF Jobs
  <2>4. /\ LedgerAttemptsIncrease' /\ TerminalRowHasLedgerRow'
        /\ \A i \in DOMAIN ledger' :
              ledger'[i].attempt <= attempts'[ledger'[i].sha]
        /\ Recorded(work.sha, work.attempt, "succeeded")'
    <3>1. PICK r \in LedgerRow : r = row
      BY <2>2
    <3> HIDE DEF row
    <3>2. QED
      BY <3>1, <2>1, <2>2, <1>j, LedgerGrows DEF LedgerInv
  <2>5. QED
    BY <2>3, <2>4 DEF LedgerInv
<1>6. CASE WriteState \/ WriteStateFails
  <2>1. /\ job.at = "state" /\ ledger' = ledger /\ UNCHANGED qvars
        /\ job' = [job EXCEPT !.at = "mark"]
    BY <1>6 DEF WriteState, WriteStateFails
  <2>2. job'.at = "mark"
    BY <2>1, <1>t DEF Jobs
  <2>3. /\ Recorded(work.sha, work.attempt, "succeeded")'
        /\ attempts' = attempts /\ status' = status
    BY <2>1 DEF LedgerInv, Recorded, qvars
  <2>4. QED
    BY <2>1, <2>2, <2>3, LedgerKept DEF LedgerInv
<1>7. ASSUME NEW outcome \in {"succeeded", "failed"}, MarkTerminal(outcome),
             Recorded(work.sha, work.attempt, outcome),
             job' = NoJob, ledger' = ledger
      PROVE  LedgerInv'
  <2>1. /\ work.phase = "running" /\ attempts' = attempts
        /\ status' = [status EXCEPT ![work.sha] = outcome]
    BY <1>7 DEF MarkTerminal
  <2>2. TerminalRowHasLedgerRow'
    <3> SUFFICES ASSUME NEW c \in Commits,
                        status'[c] \in {"succeeded", "failed"}
                 PROVE  Recorded(c, attempts[c], status'[c])
      BY <1>7, <2>1 DEF TerminalRowHasLedgerRow, Recorded
    <3>1. CASE c = work.sha
      <4>1. status'[c] = outcome /\ attempts[c] = work.attempt
        BY <2>1, <3>1, <1>w DEF TypeOK, QueueTypeOK, ClaimCounted
      <4>2. QED
        BY <4>1, <3>1, <1>7
    <3>2. CASE c # work.sha
      <4>1. status'[c] = status[c]
        BY <2>1, <3>2 DEF TypeOK, QueueTypeOK
      <4>2. QED
        BY <4>1 DEF LedgerInv, TerminalRowHasLedgerRow, Recorded
    <3>3. QED
      BY <3>1, <3>2
  <2>3. LedgerAttemptsIncrease'
    BY <1>7 DEF LedgerInv, LedgerAttemptsIncrease
  <2>4. QED
    BY <1>7, <1>t, <2>1, <2>2, <2>3 DEF LedgerInv
<1>8. CASE MarkFailed \/ MarkSucceeded
  BY <1>7, <1>8 DEF MarkFailed, MarkSucceeded, LedgerInv
<1>9. QED
  BY <1>1, <1>2, <1>3, <1>4, <1>5, <1>6, <1>8, StepIsQuietOrProgress
     DEF Progress

LEMMA LedgerInvariance == Spec => []LedgerInv
<1>1. Init => LedgerInv
  BY Blanks DEF Init, QueueInit, LedgerInv, LedgerAttemptsIncrease,
                TerminalRowHasLedgerRow
<1>2. Spec => []ClaimCounted
  BY DaemonUsesQueue, ClaimIsCounted, PTL DEF UsesQueueAsSpecified
<1>3. QED
  BY <1>1, <1>2, LedgerInvStep, TypeAndControl, PTL DEF Spec

\* No queue row is ever closed without a ledger row that says the same of the
\* same attempt.
THEOREM TerminalRowsAreRecorded == Spec => []TerminalRowHasLedgerRow
BY LedgerInvariance, PTL DEF LedgerInv

\* No attempt is ever recorded twice, and a commit's rows are in the order of
\* its attempts.
THEOREM AttemptsAreRecordedInOrder == Spec => []LedgerAttemptsIncrease
BY LedgerInvariance, PTL DEF LedgerInv
-----------------------------------------------------------------------------
(***************************************************************************)
(* Until it first dies.  The worker drains the queue serially, and the two *)
(* answers to "what is ingested", the ledger's and the state file's, agree *)
(* whenever no job is under way.                                           *)
(***************************************************************************)

\* An ingest command runs only while the worker waits for it.
ChildInv ==
    crashes = 0 =>
        /\ children \subseteq {MyRun}
        /\ job.at # "ingest" => children = {}

\* The state file names the latest success, if there is one.
Agree ==
    /\ \A i \in DOMAIN ledger : IsLastSuccess(i) => stateFile = Named(i)
    /\ stateFile = NoState \/ \E i \in DOMAIN ledger : IsLastSuccess(i)

\* The latest success is the job's, and the state file is still to be written.
JustRecorded ==
    /\ Len(ledger) > 0
    /\ Success(Len(ledger))
    /\ Named(Len(ledger)) = [sha |-> work.sha, rev |-> job.rev]

Steady == crashes = 0 /\ ~StateWriteMayFail /\ PinWriters = {}

AgreeInv == Steady => IF job.at = "state" THEN JustRecorded ELSE Agree

SteadyInv == ChildInv /\ AgreeInv

\* Steps that leave alone the worker, its job and its outputs.
Aside == UNCHANGED <<work, job, ledger, stateFile, children, crashes>>

LEMMA AsideKept ==
    ASSUME SteadyInv, Aside
    PROVE  SteadyInv'
<1>1. ChildInv'
  BY DEF SteadyInv, ChildInv, Aside, MyRun, Run
<1>2. AgreeInv'
  BY DEF SteadyInv, AgreeInv, Steady, Agree, JustRecorded, IsLastSuccess,
         Success, Named, Aside
<1> QED  BY <1>1, <1>2 DEF SteadyInv

\* A row that is no success changes nothing about the latest one.
LEMMA FailureAgrees ==
    ASSUME ledger \in Seq(LedgerRow), NEW row \in LedgerRow,
           ledger' = Append(ledger, row), stateFile' = stateFile,
           ~(row.status = "succeeded" /\ row.rev # NoRev), Agree
    PROVE  Agree'
<1> DEFINE n == Len(ledger) + 1
<1>1. /\ DOMAIN ledger = 1..Len(ledger) /\ DOMAIN ledger' = 1..n
      /\ Len(ledger) \in Nat /\ ledger'[n] = row
      /\ \A i \in DOMAIN ledger : ledger'[i] = ledger[i]
  OBVIOUS
<1>2. ASSUME NEW i \in DOMAIN ledger'
      PROVE  /\ Success(i)' => i \in DOMAIN ledger
             /\ i \in DOMAIN ledger => /\ Success(i)' <=> Success(i)
                                       /\ Named(i)' = Named(i)
  BY <1>1 DEF Success, Named
<1>3. DOMAIN ledger \subseteq DOMAIN ledger'
  BY <1>1
<1>4. ASSUME NEW i \in DOMAIN ledger
      PROVE  IsLastSuccess(i)' <=> IsLastSuccess(i)
  BY <1>2, <1>3 DEF IsLastSuccess
<1>5. \A i \in DOMAIN ledger' : IsLastSuccess(i)' => i \in DOMAIN ledger
  BY <1>2 DEF IsLastSuccess
<1> QED  BY <1>2, <1>3, <1>4, <1>5 DEF Agree

\* A success is the latest one.
LEMMA SuccessRecorded ==
    ASSUME ledger \in Seq(LedgerRow), NEW row \in LedgerRow,
           ledger' = Append(ledger, row), work' = work,
           row.status = "succeeded", row.rev # NoRev,
           row.sha = work.sha, row.rev = job'.rev
    PROVE  JustRecorded'
<1>1. Len(ledger) \in Nat /\ Len(ledger') = Len(ledger) + 1 /\ ledger'[Len(ledger) + 1] = row
  OBVIOUS
<1> QED  BY <1>1 DEF JustRecorded, Success, Named

LEMMA WrittenAgrees ==
    ASSUME ledger \in Seq(LedgerRow), JustRecorded, ledger' = ledger,
           stateFile' = [sha |-> work.sha, rev |-> job.rev]
    PROVE  Agree'
<1>1. Len(ledger) \in Nat /\ Len(ledger) \in DOMAIN ledger /\ DOMAIN ledger = 1..Len(ledger)
  BY DEF JustRecorded
<1>2. ASSUME NEW i \in DOMAIN ledger
      PROVE  IsLastSuccess(i) <=> i = Len(ledger)
  BY <1>1 DEF IsLastSuccess, JustRecorded
<1> QED  BY <1>1, <1>2 DEF Agree, IsLastSuccess, Success, Named, JustRecorded

LEMMA SteadyStep ==
    TypeOK /\ ControlInv /\ SteadyInv /\ [Next]_vars => SteadyInv'
<1> SUFFICES ASSUME TypeOK, ControlInv, SteadyInv, [Next]_vars
             PROVE  SteadyInv'
  OBVIOUS
<1>t. /\ ledger \in Seq(LedgerRow) /\ job \in Jobs
      /\ NoJob \in Jobs /\ NoJob.at = "none"
      /\ crashes \in Nat
  BY Blanks, QueueAssumption DEF TypeOK, QueueTypeOK
<1>w. work.phase = "running" => work.sha \in Commits /\ work.attempt \in Nat \ {0}
  BY QueueAssumption DEF TypeOK, QueueTypeOK, Claimed, Unclaimed
<1>j. (job.at = "none") <=> (work.phase # "running")
  BY DEF ControlInv
\* Between jobs, or from one stage to the next without an ingest.
<1>m. ASSUME UNCHANGED <<ledger, stateFile, children, crashes>>,
             job.at \notin {"ingest", "state"}, job'.at \notin {"ingest", "state"}
      PROVE  SteadyInv'
  BY <1>m DEF SteadyInv, ChildInv, AgreeInv, Steady, Agree, IsLastSuccess,
              Success, Named
<1>1. CASE Aside
  BY <1>1, AsideKept
<1>2. CASE SelectJob
  BY <1>2, <1>j, <1>m DEF SelectJob, ClaimSelect, dvars
<1>3. CASE ClaimJob
  <2>1. job'.at = "prepare"
    BY <1>3, Blanks, JobAt DEF ClaimJob, Stages
  <2> QED  BY <1>3, <1>j, <1>m, <2>1 DEF ClaimJob, ClaimUpdate
<1>4. CASE PrepareFails
  <2>1. job'.at = "failedLedger"
    BY <1>4, <1>t, JobAt DEF PrepareFails, Stages
  <2> QED  BY <1>4, <1>m, <2>1 DEF PrepareFails, qvars
<1>5. CASE StartIngest
  <2>1. job'.at = "ingest"
    BY <1>5, <1>t DEF StartIngest, Jobs
  <2>2. /\ UNCHANGED <<ledger, stateFile, crashes, work>>
        /\ children' = children \cup {MyRun} /\ job.at = "prepare"
    BY <1>5 DEF StartIngest, qvars
  <2>3. ChildInv'
    BY <2>1, <2>2 DEF SteadyInv, ChildInv, MyRun, Run
  <2>4. AgreeInv'
    BY <2>1, <2>2 DEF SteadyInv, AgreeInv, Steady, Agree, IsLastSuccess,
                      Success, Named
  <2> QED  BY <2>3, <2>4 DEF SteadyInv
<1>6. CASE IngestSucceeds \/ IngestFails
  <2>1. job'.at \in {"ledger", "failedLedger"}
    BY <1>6, <1>t DEF IngestSucceeds, IngestFails, Jobs
  <2>2. /\ UNCHANGED <<ledger, stateFile, crashes, work>>
        /\ children' = children \ {MyRun} /\ job.at = "ingest"
    BY <1>6 DEF IngestSucceeds, IngestFails, qvars
  <2>3. ChildInv'
    BY <2>1, <2>2 DEF SteadyInv, ChildInv, MyRun, Run
  <2>4. AgreeInv'
    BY <2>1, <2>2 DEF SteadyInv, AgreeInv, Steady, Agree, IsLastSuccess,
                      Success, Named
  <2> QED  BY <2>3, <2>4 DEF SteadyInv
<1>7. CASE RecordFailure
  <2>1. job'.at = "failedMark"
    BY <1>7, <1>t, JobAt DEF RecordFailure, Stages
  <2> DEFINE row == [sha |-> work.sha, attempt |-> work.attempt,
                     status |-> "failed", rev |-> NoRev]
  <2>2. /\ UNCHANGED <<stateFile, crashes, children, work>>
        /\ ledger' = Append(ledger, row) /\ job.at = "failedLedger"
    BY <1>7 DEF RecordFailure, qvars
  <2>3. row \in LedgerRow
    BY <1>j, <1>w, <2>2 DEF LedgerRow
  <2>4. Agree => Agree'
    BY <1>t, <2>2, <2>3, FailureAgrees
  <2> HIDE DEF row
  <2> QED  BY <2>1, <2>2, <2>4 DEF SteadyInv, ChildInv, AgreeInv, Steady
<1>8. CASE RecordSuccess
  <2> DEFINE row == [sha |-> work.sha, attempt |-> work.attempt,
                     status |-> "succeeded", rev |-> job.rev]
  <2>1. /\ job'.at = (IF job.rev = NoRev THEN "mark" ELSE "state")
        /\ job'.rev = job.rev
    BY <1>8, <1>t DEF RecordSuccess, Jobs
  <2>2. /\ UNCHANGED <<stateFile, crashes, children, work>>
        /\ ledger' = Append(ledger, row) /\ job.at = "ledger"
    BY <1>8 DEF RecordSuccess, qvars
  <2>3. row \in LedgerRow
    BY <1>j, <1>t, <1>w, <2>2 DEF LedgerRow, Jobs
  <2>4. CASE job.rev = NoRev
    <3>1. Agree => Agree'
      BY <1>t, <2>2, <2>3, <2>4, FailureAgrees
    <3> HIDE DEF row
    <3> QED  BY <2>1, <2>2, <2>4, <3>1 DEF SteadyInv, ChildInv, AgreeInv, Steady
  <2>5. CASE job.rev # NoRev
    <3>1. JustRecorded'
      BY <1>t, <2>1, <2>2, <2>3, <2>5, SuccessRecorded
    <3> HIDE DEF row
    <3> QED  BY <2>1, <2>2, <2>5, <3>1 DEF SteadyInv, ChildInv, AgreeInv, Steady
  <2> QED  BY <2>4, <2>5
<1>9. CASE WriteState
  <2>1. job'.at = "mark"
    BY <1>9, <1>t, JobAt DEF WriteState, Stages
  <2>2. /\ UNCHANGED <<ledger, crashes, children, work>> /\ job.at = "state"
        /\ stateFile' = [sha |-> work.sha, rev |-> job.rev]
    BY <1>9 DEF WriteState, qvars
  <2>3. JustRecorded => Agree'
    BY <1>t, <2>2, WrittenAgrees
  <2> QED  BY <2>1, <2>2, <2>3 DEF SteadyInv, ChildInv, AgreeInv, Steady
<1>10. CASE WriteStateFails
  <2>1. job'.at = "mark"
    BY <1>10, <1>t, JobAt DEF WriteStateFails, Stages
  <2>2. /\ UNCHANGED <<crashes, children, work>> /\ job.at = "state"
        /\ StateWriteMayFail
    BY <1>10 DEF WriteStateFails, qvars
  <2> QED  BY <2>1, <2>2 DEF SteadyInv, ChildInv, AgreeInv, Steady
<1>11. CASE MarkFailed \/ MarkSucceeded
  <2>1. /\ job.at \in {"failedMark", "mark"} /\ job'.at = "none"
        /\ UNCHANGED <<ledger, stateFile, children, crashes>>
    BY <1>11, <1>t DEF MarkFailed, MarkSucceeded, MarkTerminal
  <2> QED  BY <2>1, <1>m
<1>12. CASE DatabaseFault
  <2>1. /\ job.at \notin {"ingest", "state"} /\ job'.at = "none"
        /\ UNCHANGED <<ledger, stateFile, children, crashes>>
    BY <1>12, <1>t, <1>j DEF DatabaseFault, WorkerFault
  <2> QED  BY <2>1, <1>m
<1>13. CASE Boot
  <2>1. /\ job.at = "none" /\ job'.at = "none"
        /\ UNCHANGED <<ledger, stateFile, children, crashes>>
    BY <1>13, <1>j DEF Boot, Recover, RecoverFault, dvars
  <2> QED  BY <2>1, <1>m
<1>14. CASE Up
  <2>1. /\ job.at = "none" /\ job'.at = "none"
        /\ UNCHANGED <<ledger, stateFile, children, crashes>>
    BY <1>14, <1>j DEF Up, Restart, dvars
  <2> QED  BY <2>1, <1>m
<1>15. CASE Die
  <2>1. crashes' # 0
    BY <1>15, <1>t DEF Die, Crash
  <2> QED  BY <2>1 DEF SteadyInv, ChildInv, AgreeInv, Steady
<1>16. ASSUME NEW r \in children, OrphanEnds(r)
       PROVE  SteadyInv'
  <2>1. crashes # 0 /\ crashes' = crashes
    BY <1>16 DEF OrphanEnds, SteadyInv, ChildInv, qvars
  <2> QED  BY <2>1 DEF SteadyInv, ChildInv, AgreeInv, Steady
<1>17. ASSUME NEW g \in PinWriters, PinRead(g) \/ PinWrite(g)
       PROVE  SteadyInv'
  <2>1. ~Steady'
    BY DEF Steady
  <2>2. UNCHANGED <<work, job, children, crashes>>
    BY <1>17 DEF PinRead, PinWrite, qvars
  <2> QED  BY <2>1, <2>2 DEF SteadyInv, ChildInv, AgreeInv, MyRun, Run
\* The callers of enqueue() and GitHub.
<1>18. ASSUME NEW e \in Enqueuers, NEW c \in Commits, Ask(e, c)
       PROVE  UNCHANGED <<work, crashes>>
  BY <1>18 DEF Ask, EnqueueSelect, EnqueueReturn, qvars
<1>19. CASE Push \/ TickRead \/ TickLsRemote \/ TickNoRemote \/ UNCHANGED vars
  BY <1>1, <1>19 DEF Push, TickRead, TickLsRemote, TickNoRemote, vars, qvars,
                     dvars, Aside
<1>20. CASE TickAsk
  BY <1>1, <1>18, <1>20 DEF TickAsk, Aside, ControlInv
<1>21. ASSUME NEW c \in deliveries, LoseDelivery(c) \/ WebhookAsk(c)
       PROVE  Aside
  BY <1>18, <1>21 DEF LoseDelivery, WebhookAsk, qvars, Aside, TypeOK
<1>22. ASSUME NEW c \in Commits, ReplayAsk(c)
       PROVE  Aside
  BY <1>18, <1>22 DEF ReplayAsk, Aside
<1>23. ASSUME NEW e \in Enqueuers, FinishEnqueue(e)
       PROVE  Aside
  BY <1>23 DEF FinishEnqueue, EnqueueInsert, EnqueueConflict, EnqueueRequeue,
               dvars, Aside
<1> QED
  BY <1>1, <1>2, <1>3, <1>4, <1>5, <1>6, <1>7, <1>8, <1>9, <1>10, <1>11, <1>12,
     <1>13, <1>14, <1>15, <1>16, <1>17, <1>19, <1>20, <1>21, <1>22, <1>23
     DEF Next, WorkerAction, ReconcilerAction

LEMMA SteadyInvariance == Spec => []SteadyInv
<1>1. Init => SteadyInv
  BY Blanks DEF Init, QueueInit, SteadyInv, ChildInv, AgreeInv, Agree
<1> QED  BY <1>1, SteadyStep, TypeAndControl, PTL DEF Spec

\* Until the daemon first dies there is one ingest command at a time, however
\* many callers enqueue and whatever fails.
THEOREM OneIngestUntilDeath == Spec => []OneIngestAtATime
<1>1. SteadyInv => OneIngestAtATime
  BY DEF SteadyInv, ChildInv, OneIngestAtATime
<1> QED  BY <1>1, SteadyInvariance, PTL

\* Between jobs, the ledger's latest success and the state file name the same
\* commit and revision, until the daemon dies, if no write of the file raises
\* and no pull request is graded.
THEOREM StatusTellsStateFile == Spec => []StatusAgreesWithStateFile
<1>1. ControlInv /\ SteadyInv => StatusAgreesWithStateFile
  BY DEF ControlInv, SteadyInv, AgreeInv, Agree, Steady, StatusAgreesWithStateFile
<1> QED  BY <1>1, SteadyInvariance, TypeAndControl, PTL
=============================================================================
