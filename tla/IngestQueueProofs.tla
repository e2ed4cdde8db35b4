-------------------------- MODULE IngestQueueProofs --------------------------
(***************************************************************************)
(* Theorems about the ingest queue, for every set of commits and callers,  *)
(* every retry cap and any number of crashes and faults.                   *)
(***************************************************************************)
EXTENDS IngestQueue, FiniteSetTheorems, TLAPS

LEMMA QueueTypeStep == QueueTypeOK /\ [QueueNext]_qvars => QueueTypeOK'
<1> USE QueueAssumption DEF QueueTypeOK, RowStatus, Request, NoRequest,
                            Unclaimed, Claimed, NoClaim
<1> SUFFICES ASSUME QueueTypeOK, [QueueNext]_qvars
             PROVE  QueueTypeOK'
  OBVIOUS
<1>1. ASSUME NEW e \in Enqueuers, NEW c \in Commits, EnqueueSelect(e, c)
      PROVE  QueueTypeOK'
  BY <1>1 DEF EnqueueSelect, CallsForWrite, table
<1>2. ASSUME NEW e \in Enqueuers, NEW c \in Commits, EnqueueReturn(e, c)
      PROVE  QueueTypeOK'
  BY <1>2 DEF EnqueueReturn, qvars
<1>3. ASSUME NEW e \in Enqueuers, EnqueueInsert(e)
      PROVE  QueueTypeOK'
  BY <1>3 DEF EnqueueInsert
<1>4. ASSUME NEW e \in Enqueuers, EnqueueConflict(e)
      PROVE  QueueTypeOK'
  BY <1>4 DEF EnqueueConflict, table
<1>5. ASSUME NEW e \in Enqueuers, EnqueueRequeue(e)
      PROVE  QueueTypeOK'
  BY <1>5 DEF EnqueueRequeue
<1>6. CASE Recover
  BY <1>6 DEF Recover
<1>7. CASE ClaimSelect
  BY <1>7 DEF ClaimSelect, table
<1>8. CASE ClaimUpdate
  BY <1>8 DEF ClaimUpdate
<1>9. ASSUME NEW o \in {"succeeded", "failed"}, MarkTerminal(o)
      PROVE  QueueTypeOK'
  BY <1>9 DEF MarkTerminal
<1>10. CASE WorkerFault
  BY <1>10 DEF WorkerFault, table
<1>11. CASE RecoverFault
  BY <1>11 DEF RecoverFault, table
<1>12. CASE Crash
  BY <1>12 DEF Crash, table
<1>13. CASE Restart
  BY <1>13 DEF Restart, table
<1>14. CASE UNCHANGED qvars
  BY <1>14 DEF qvars
<1>15. QED
  BY <1>1, <1>2, <1>3, <1>4, <1>5, <1>6, <1>7, <1>8, <1>9, <1>10, <1>11,
     <1>12, <1>13, <1>14 DEF QueueNext, EnqueueStep, WorkerStep

\* The table, the callers' pending writes and the worker's claim keep their
\* types under every step of the queue.
THEOREM QueueTyped == QueueSpec => []QueueTypeOK
<1>1. QueueInit => QueueTypeOK
  BY QueueAssumption DEF QueueInit, QueueTypeOK, RowStatus, Request,
                         NoRequest, Unclaimed, Claimed, NoClaim
<1>2. QED
  BY <1>1, QueueTypeStep, PTL DEF QueueSpec
-----------------------------------------------------------------------------
(***************************************************************************)
(* Running rows are owned.  The worker thread is only ever dead after a    *)
(* fault.                                                                  *)
(***************************************************************************)
OwnerInv == RunningIsOwned /\ (work.phase = "dead" => faults > 0)

\* Without failing database writes, a row is running only in the worker's
\* hands or before the recovery, and no two rows are: crashes and races
\* between the callers never strand a commit.
THEOREM RunningRowsAreOwned == QueueSpec => []RunningIsOwned
<1> USE QueueAssumption DEF OwnerInv, RunningIsOwned, QueueTypeOK, RowStatus,
                            Request, NoRequest, Claimed, Unclaimed, NoClaim
<1>1. QueueInit => OwnerInv
  BY DEF QueueInit
<1>2. QueueTypeOK /\ OwnerInv /\ [QueueNext]_qvars => OwnerInv'
  <2> SUFFICES ASSUME QueueTypeOK, OwnerInv, [QueueNext]_qvars
               PROVE  OwnerInv'
    OBVIOUS
  <2>1. ASSUME NEW e \in Enqueuers, NEW c \in Commits, EnqueueSelect(e, c)
        PROVE  OwnerInv'
    BY <2>1 DEF EnqueueSelect, table
  <2>2. ASSUME NEW e \in Enqueuers, NEW c \in Commits, EnqueueReturn(e, c)
        PROVE  OwnerInv'
    BY <2>2 DEF EnqueueReturn, qvars
  <2>3. ASSUME NEW e \in Enqueuers, EnqueueInsert(e)
        PROVE  OwnerInv'
    BY <2>3 DEF EnqueueInsert
  <2>4. ASSUME NEW e \in Enqueuers, EnqueueConflict(e)
        PROVE  OwnerInv'
    BY <2>4 DEF EnqueueConflict, table
  <2>5. ASSUME NEW e \in Enqueuers, EnqueueRequeue(e)
        PROVE  OwnerInv'
    BY <2>5 DEF EnqueueRequeue
  <2>6. CASE Recover
    BY <2>6 DEF Recover
  <2>7. CASE ClaimSelect
    BY <2>7 DEF ClaimSelect, table
  <2>8. CASE ClaimUpdate
    BY <2>8 DEF ClaimUpdate
  <2>9. ASSUME NEW o \in {"succeeded", "failed"}, MarkTerminal(o)
        PROVE  OwnerInv'
    BY <2>9 DEF MarkTerminal
  <2>10. CASE WorkerFault
    BY <2>10 DEF WorkerFault, table
  <2>11. CASE RecoverFault
    BY <2>11 DEF RecoverFault, table
  <2>12. CASE Crash
    BY <2>12 DEF Crash, table
  <2>13. CASE Restart
    BY <2>13 DEF Restart, table
  <2>14. CASE UNCHANGED qvars
    BY <2>14 DEF qvars
  <2>15. QED
    BY <2>1, <2>2, <2>3, <2>4, <2>5, <2>6, <2>7, <2>8, <2>9, <2>10, <2>11,
       <2>12, <2>13, <2>14 DEF QueueNext, EnqueueStep, WorkerStep
<1>3. QED
  BY <1>1, <1>2, QueueTyped, PTL DEF QueueSpec
-----------------------------------------------------------------------------
(***************************************************************************)
(* A single caller of enqueue().  Its SELECT stays true until its write,   *)
(* because only callers of enqueue() take a row out of "absent" or         *)
(* "failed"; and a claimed row stays as the worker left it.                *)
(***************************************************************************)
SingleCaller == \A e, f \in Enqueuers : e = f

FreshInv ==
    /\ HeldIsRunning
    /\ work.phase = "selected" => /\ status[work.sha] = "queued"
                                  /\ work.attempt = attempts[work.sha] + 1
    /\ \A e \in Enqueuers :
          /\ req[e].seen = "absent" => status[req[e].sha] = "absent"
          /\ req[e].seen = "failed" => /\ status[req[e].sha] = "failed"
                                       /\ attempts[req[e].sha] < MaxAttempts

LEMMA FreshInvariance ==
  ASSUME SingleCaller
  PROVE  QueueSpec => []FreshInv
<1> USE QueueAssumption DEF FreshInv, HeldIsRunning, QueueTypeOK, RowStatus,
                            Request, NoRequest, Claimed, Unclaimed, NoClaim
<1>1. QueueInit => FreshInv
  BY DEF QueueInit
<1>2. QueueTypeOK /\ FreshInv /\ [QueueNext]_qvars => FreshInv'
  <2> SUFFICES ASSUME QueueTypeOK, FreshInv, [QueueNext]_qvars
               PROVE  FreshInv'
    OBVIOUS
  <2>1. ASSUME NEW e \in Enqueuers, NEW c \in Commits, EnqueueSelect(e, c)
        PROVE  FreshInv'
    BY <2>1, SingleCaller DEF EnqueueSelect, CallsForWrite, table, SingleCaller
  <2>2. ASSUME NEW e \in Enqueuers, NEW c \in Commits, EnqueueReturn(e, c)
        PROVE  FreshInv'
    BY <2>2 DEF EnqueueReturn, qvars
  <2>3. ASSUME NEW e \in Enqueuers, EnqueueInsert(e)
        PROVE  FreshInv'
    BY <2>3, SingleCaller DEF EnqueueInsert, SingleCaller
  <2>4. ASSUME NEW e \in Enqueuers, EnqueueConflict(e)
        PROVE  FreshInv'
    BY <2>4 DEF EnqueueConflict, table
  <2>5. ASSUME NEW e \in Enqueuers, EnqueueRequeue(e)
        PROVE  FreshInv'
    BY <2>5, SingleCaller DEF EnqueueRequeue, SingleCaller
  <2>6. CASE Recover
    BY <2>6 DEF Recover
  <2>7. CASE ClaimSelect
    BY <2>7 DEF ClaimSelect, Oldest, table
  <2>8. CASE ClaimUpdate
    BY <2>8 DEF ClaimUpdate
  <2>9. ASSUME NEW o \in {"succeeded", "failed"}, MarkTerminal(o)
        PROVE  FreshInv'
    BY <2>9 DEF MarkTerminal
  <2>10. CASE WorkerFault
    BY <2>10 DEF WorkerFault, table
  <2>11. CASE RecoverFault
    BY <2>11 DEF RecoverFault, table
  <2>12. CASE Crash
    BY <2>12 DEF Crash, table
  <2>13. CASE Restart
    BY <2>13 DEF Restart, table
  <2>14. CASE UNCHANGED qvars
    BY <2>14 DEF qvars
  <2>15. QED
    BY <2>1, <2>2, <2>3, <2>4, <2>5, <2>6, <2>7, <2>8, <2>9, <2>10, <2>11,
       <2>12, <2>13, <2>14 DEF QueueNext, EnqueueStep, WorkerStep
<1>3. QED
  BY <1>1, <1>2, QueueTyped, PTL DEF QueueSpec

\* With one caller, the row the worker works on stays marked running, whatever
\* the crashes and failing writes around it.
THEOREM HeldRowIsRunning ==
  ASSUME SingleCaller
  PROVE  QueueSpec => []HeldIsRunning
<1>1. FreshInv => HeldIsRunning
  BY DEF FreshInv
<1>2. QED
  BY <1>1, FreshInvariance, PTL

\* With one caller, a commit that has succeeded keeps its terminal row for
\* good, through crashes, recoveries and failing database writes.
THEOREM SucceededNeverLeaves ==
  ASSUME SingleCaller
  PROVE  QueueSpec => SucceededIsFinal
<1> USE DEF SucceededStays, FreshInv, HeldIsRunning
<1>1. QueueTypeOK /\ FreshInv /\ [QueueNext]_qvars => [SucceededStays]_qvars
  <2> SUFFICES ASSUME QueueTypeOK, FreshInv, QueueNext,
                      NEW c \in Commits, status[c] = "succeeded"
               PROVE  status'[c] = "succeeded"
    OBVIOUS
  <2> USE DEF QueueTypeOK
  <2>1. ASSUME NEW e \in Enqueuers, EnqueueStep(e)
        PROVE  status'[c] = "succeeded"
    BY <2>1 DEF EnqueueStep, EnqueueSelect, EnqueueReturn, EnqueueInsert,
                EnqueueConflict, EnqueueRequeue, table, qvars
  <2>2. CASE WorkerStep
    BY <2>2 DEF WorkerStep, Recover, ClaimSelect, ClaimUpdate, MarkTerminal,
                table
  <2>3. CASE WorkerFault \/ RecoverFault \/ Crash \/ Restart
    BY <2>3 DEF WorkerFault, RecoverFault, Crash, Restart, table
  <2>4. QED
    BY <2>1, <2>2, <2>3 DEF QueueNext
<1>2. QED
  BY <1>1, QueueTyped, FreshInvariance, PTL DEF QueueSpec, SucceededIsFinal

\* With one caller and no failing database write, the table, its two-step
\* updates, the crashes and the recovery implement the contract JobQueue.
THEOREM QueueImplementsJobQueue ==
  ASSUME SingleCaller, MaxFaults = 0
  PROVE  QueueSpec => ImplementsJobQueue
<1> USE QueueAssumption, MaxFaults = 0
<1>1. QueueInit => Job!Init
  BY DEF QueueInit, Job!Init
<1>2. QueueTypeOK /\ FreshInv /\ RunningIsOwned /\ [QueueNext]_qvars
        => [Job!Next]_(Job!jvars)
  <2> SUFFICES ASSUME QueueTypeOK, FreshInv, RunningIsOwned,
                      [QueueNext]_qvars
               PROVE  Job!Next \/ UNCHANGED <<status, attempts>>
    BY DEF Job!jvars
  <2> USE DEF QueueTypeOK, FreshInv, HeldIsRunning, RowStatus, Request,
              NoRequest, Claimed, Unclaimed, NoClaim
  <2>0. faults = 0
    OBVIOUS
  <2>1. ASSUME NEW e \in Enqueuers, EnqueueInsert(e)
        PROVE  Job!Next
    <3>1. req[e].sha \in Commits /\ Job!Ask(req[e].sha)
      BY <2>1 DEF EnqueueInsert, Job!Ask
    <3>2. QED
      BY <3>1 DEF Job!Next
  <2>2. ASSUME NEW e \in Enqueuers, EnqueueRequeue(e)
        PROVE  Job!Next
    <3>1. req[e].sha \in Commits /\ Job!Ask(req[e].sha)
      BY <2>2 DEF EnqueueRequeue, Job!Ask
    <3>2. QED
      BY <3>1 DEF Job!Next
  <2>3. CASE ClaimUpdate
    <3>1. \A d \in Commits : status[d] # "running"
      BY <2>0, <2>3 DEF ClaimUpdate, RunningIsOwned
    <3>2. work.sha \in Commits /\ Job!Run(work.sha)
      BY <2>3, <3>1 DEF ClaimUpdate, Job!Run
    <3>3. QED
      BY <3>2 DEF Job!Next
  <2>4. ASSUME NEW o \in {"succeeded", "failed"}, MarkTerminal(o)
        PROVE  Job!Next
    <3>1. work.sha \in Commits /\ Job!Finish(work.sha, o)
      BY <2>4 DEF MarkTerminal, Job!Finish
    <3>2. QED
      BY <3>1 DEF Job!Next
  <2>5. CASE Recover
    <3>1. CASE \E c \in Commits : status[c] = "running"
      <4>1. PICK c \in Commits : status[c] = "running"
        BY <3>1
      <4>2. \A d \in Commits : status[d] = "running" => d = c
        BY <2>0, <4>1 DEF RunningIsOwned
      <4>3. status' = [status EXCEPT ![c] = "queued"]
        BY <2>5, <4>1, <4>2 DEF Recover
      <4>4. QED
        BY <2>5, <4>1, <4>3 DEF Recover, Job!Next, Job!CutShort
    <3>2. CASE ~ \E c \in Commits : status[c] = "running"
      BY <2>5, <3>2 DEF Recover
    <3>3. QED
      BY <3>1, <3>2
  <2>6. ASSUME NEW e \in Enqueuers, NEW c \in Commits,
               EnqueueSelect(e, c) \/ EnqueueReturn(e, c)
        PROVE  UNCHANGED <<status, attempts>>
    BY <2>6 DEF EnqueueSelect, EnqueueReturn, table, qvars
  <2>7. ASSUME NEW e \in Enqueuers, EnqueueConflict(e)
        PROVE  UNCHANGED <<status, attempts>>
    BY <2>7 DEF EnqueueConflict, table
  <2>8. CASE ClaimSelect \/ WorkerFault \/ RecoverFault \/ Crash \/ Restart
    BY <2>8 DEF ClaimSelect, WorkerFault, RecoverFault, Crash, Restart, table
  <2>9. CASE UNCHANGED qvars
    BY <2>9 DEF qvars
  <2>10. QED
    BY <2>1, <2>2, <2>3, <2>4, <2>5, <2>6, <2>7, <2>8, <2>9
       DEF QueueNext, EnqueueStep, WorkerStep
<1>3. QED
  BY <1>1, <1>2, QueueTyped, FreshInvariance, RunningRowsAreOwned, PTL
     DEF QueueSpec, ImplementsJobQueue, Job!Spec
-----------------------------------------------------------------------------
(***************************************************************************)
(* The retry cap.  Three things can still cost commit c an attempt: its    *)
(* row is queued, or will be by the recovery (Owed); callers hold a SELECT *)
(* that saw it failed (Stale).  Their sum with the attempts made so far    *)
(* only grows by crashes once the cap is reached.                          *)
(***************************************************************************)
Stale(c) == {e \in Enqueuers : req[e].seen = "failed" /\ req[e].sha = c}

Owed(c) ==
    IF \/ status[c] = "queued"
       \/ status[c] = "running" /\ work.phase \in {"down", "boot"}
    THEN 1 ELSE 0

Bound(c) ==
    attempts[c] + Owed(c) + Cardinality(Stale(c)) + 1
        <= MaxAttempts + crashes + Cardinality(Enqueuers)

CapInv ==
    /\ \A c \in Commits :
          /\ Bound(c)
          /\ status[c] = "absent" => attempts[c] = 0 /\ Stale(c) = {}
    /\ work.phase = "selected" => /\ status[work.sha] = "queued"
                                  /\ work.attempt = attempts[work.sha] + 1

\* There are never more stale callers than callers.
LEMMA StaleBounded ==
  ASSUME NEW c \in Commits
  PROVE  /\ IsFiniteSet(Stale(c))
         /\ Cardinality(Stale(c)) \in Nat
         /\ Cardinality(Enqueuers) \in Nat
         /\ Cardinality(Stale(c)) <= Cardinality(Enqueuers)
BY QueueAssumption, FS_Subset, FS_CardinalityType DEF Stale

\* A step that leaves c's pending requeues alone keeps the bound if it does
\* not raise what c has used and is owed beyond the crashes.
LEMMA BoundKept ==
  ASSUME NEW c \in Commits, QueueTypeOK, QueueTypeOK', Bound(c),
         Stale(c)' \subseteq Stale(c),
         attempts'[c] + Owed(c)' + crashes <= attempts[c] + Owed(c) + crashes'
  PROVE  Bound(c)'
<1>1. /\ Cardinality(Stale(c)') \in Nat
      /\ Cardinality(Stale(c)') <= Cardinality(Stale(c))
  BY StaleBounded, FS_Subset, FS_CardinalityType
<1>2. /\ attempts[c] \in Nat /\ attempts'[c] \in Nat
      /\ crashes \in Nat /\ crashes' \in Nat
      /\ Owed(c) \in Nat /\ Owed(c)' \in Nat
  BY QueueAssumption DEF QueueTypeOK, Owed
<1>3. Cardinality(Stale(c))' = Cardinality(Stale(c)')
  OBVIOUS
<1>4. Cardinality(Enqueuers)' = Cardinality(Enqueuers)
  OBVIOUS
<1>5. MaxAttempts \in Nat
  BY QueueAssumption
<1> HIDE DEF Owed, Stale
<1>6. QED
  BY <1>1, <1>2, <1>3, <1>5, StaleBounded DEF Bound

LEMMA CapInvariance == QueueSpec => []CapInv
<1> USE QueueAssumption
<1>1. QueueInit => CapInv
  <2> SUFFICES ASSUME QueueInit PROVE CapInv
    OBVIOUS
  <2>1. \A c \in Commits : Stale(c) = {} /\ Owed(c) = 0
    BY DEF QueueInit, NoRequest, Stale, Owed
  <2>2. Cardinality({}) = 0 /\ Cardinality(Enqueuers) \in Nat
    BY FS_EmptySet, FS_CardinalityType
  <2>3. ASSUME NEW c \in Commits
        PROVE  Bound(c)
    <3>1. attempts[c] = 0 /\ Owed(c) = 0 /\ Cardinality(Stale(c)) = 0
      BY <2>1, <2>2 DEF QueueInit
    <3>2. QED
      BY <2>2, <3>1 DEF Bound, QueueInit
  <2>4. QED
    BY <2>1, <2>3 DEF CapInv, QueueInit, NoClaim
<1>2. QueueTypeOK /\ QueueTypeOK' /\ CapInv /\ [QueueNext]_qvars => CapInv'
  <2> SUFFICES ASSUME QueueTypeOK, QueueTypeOK', CapInv, [QueueNext]_qvars
               PROVE  CapInv'
    OBVIOUS
  <2> USE DEF QueueTypeOK, RowStatus, Request, NoRequest, Claimed, Unclaimed,
              NoClaim
  <2>1. ASSUME NEW e \in Enqueuers, NEW c \in Commits, EnqueueSelect(e, c)
        PROVE  CapInv'
    <3> USE <2>1 DEF EnqueueSelect, CallsForWrite, table
    <3>1. ASSUME NEW d \in Commits, d # c \/ status[c] = "absent"
          PROVE  Stale(d)' = Stale(d)
      BY <3>1 DEF Stale
    <3>2. ASSUME NEW d \in Commits, d # c \/ status[c] = "absent"
          PROVE  Bound(d)'
      BY <3>1, <3>2, BoundKept DEF CapInv, Owed
    <3>3. ASSUME status[c] = "failed"
          PROVE  Bound(c)'
      <4>1. Cardinality(Stale(c)') <= Cardinality(Enqueuers)
        BY FS_Subset DEF Stale
      <4>2. /\ Cardinality(Stale(c)') \in Nat
            /\ Cardinality(Enqueuers) \in Nat
        BY FS_Subset, FS_CardinalityType DEF Stale
      <4>3. Owed(c)' = 0 /\ attempts'[c] < MaxAttempts
        BY <3>3 DEF Owed
      <4> HIDE DEF Stale, Owed
      <4>4. QED
        BY <4>1, <4>2, <4>3 DEF Bound
    <3>4. \A d \in Commits : status'[d] = "absent" => Stale(d)' = {}
      BY <3>1 DEF CapInv
    <3>5. QED
      BY <3>2, <3>3, <3>4 DEF CapInv
  <2>2. ASSUME NEW e \in Enqueuers, EnqueueInsert(e)
        PROVE  CapInv'
    <3> PICK c \in Commits : c = req[e].sha
      BY <2>2 DEF EnqueueInsert
    <3> USE <2>2 DEF EnqueueInsert
    <3>1. status[c] = "absent"
      OBVIOUS
    <3>2. \A d \in Commits : Stale(d)' = Stale(d)
      BY DEF Stale
    <3>3. ASSUME NEW d \in Commits, d # c
          PROVE  Bound(d)'
      BY <3>2, <3>3, BoundKept DEF CapInv, Owed
    <3>4. Bound(c)'
      <4>1. attempts'[c] = 0 /\ Owed(c)' = 1 /\ Stale(c)' = {}
        BY <3>1, <3>2 DEF CapInv, Owed
      <4>2. Cardinality({}) = 0 /\ Cardinality(Enqueuers) \in Nat \ {0}
        BY FS_EmptySet, FS_CardinalityType
      <4> HIDE DEF Stale, Owed
      <4>3. QED
        BY <4>1, <4>2, <3>1 DEF Bound
    <3>5. QED
      BY <3>1, <3>2, <3>3, <3>4 DEF CapInv
  <2>3. ASSUME NEW e \in Enqueuers, EnqueueRequeue(e)
        PROVE  CapInv'
    <3> PICK c \in Commits : c = req[e].sha
      BY <2>3 DEF EnqueueRequeue
    <3> USE <2>3 DEF EnqueueRequeue
    <3>1. e \in Stale(c) /\ status[c] # "absent"
      BY DEF CapInv, Stale
    <3>2. /\ \A d \in Commits : d # c => Stale(d)' = Stale(d)
          /\ Stale(c)' = Stale(c) \ {e}
      BY DEF Stale
    <3>3. ASSUME NEW d \in Commits, d # c
          PROVE  Bound(d)'
      BY <3>2, <3>3, BoundKept DEF CapInv, Owed
    <3>4. Bound(c)'
      <4>1. Cardinality(Stale(c)') = Cardinality(Stale(c)) - 1
        BY <3>1, <3>2, StaleBounded, FS_RemoveElement
      <4>2. Owed(c)' <= Owed(c) + 1 /\ Owed(c) \in Nat /\ Owed(c)' \in Nat
        BY DEF Owed
      <4>3. Cardinality(Stale(c)) \in Nat /\ Cardinality(Enqueuers) \in Nat
        BY <3>1, StaleBounded
      <4>4. Bound(c)
        BY <3>1 DEF CapInv
      <4> HIDE DEF Stale, Owed
      <4>5. QED
        BY <3>1, <4>1, <4>2, <4>3, <4>4 DEF Bound
    <3>5. QED
      BY <3>1, <3>2, <3>3, <3>4 DEF CapInv
  <2>4. CASE ClaimUpdate
    <3> USE <2>4 DEF ClaimUpdate
    <3>1. \A d \in Commits : Stale(d)' = Stale(d)
      BY DEF Stale
    <3>2. ASSUME NEW d \in Commits
          PROVE  attempts'[d] + Owed(d)' = attempts[d] + Owed(d)
      BY DEF CapInv, Owed
    <3>3. ASSUME NEW d \in Commits
          PROVE  Bound(d)'
      <4>1. Bound(d) /\ Stale(d)' \subseteq Stale(d)
        BY <3>1 DEF CapInv
      <4>2. attempts'[d] + Owed(d)' + crashes
              <= attempts[d] + Owed(d) + crashes'
        <5>1. /\ attempts[d] \in Nat /\ Owed(d) \in Nat
              /\ crashes \in Nat /\ crashes' = crashes
          BY DEF Owed
        <5> HIDE DEF Owed
        <5>2. QED
          BY <3>2, <5>1
      <4>3. QED
        BY <4>1, <4>2, BoundKept
    <3>4. QED
      BY <3>1, <3>3 DEF CapInv
  <2>5. ASSUME \/ \E e \in Enqueuers, c \in Commits : EnqueueReturn(e, c)
               \/ \E e \in Enqueuers : EnqueueConflict(e)
               \/ ClaimSelect \/ WorkerFault \/ RecoverFault \/ Restart
               \/ Recover \/ Crash \/ MarkTerminal("succeeded")
               \/ MarkTerminal("failed") \/ UNCHANGED qvars
        PROVE  CapInv'
    <3>1. ASSUME NEW d \in Commits
          PROVE  /\ Stale(d)' \subseteq Stale(d)
                 /\ attempts'[d] = attempts[d]
                 /\ status'[d] = "absent" => status[d] = "absent"
                 /\ Owed(d)' + crashes <= Owed(d) + crashes'
      <4>0. /\ Owed(d) \in Nat
            /\ crashes \in Nat
        BY DEF Owed
      <4>1. ASSUME UNCHANGED <<status, attempts, crashes>>,
                   Stale(d)' \subseteq Stale(d),
                   work'.phase \in {"down", "boot"}
                      => work.phase \in {"down", "boot"}
            PROVE  /\ Stale(d)' \subseteq Stale(d)
                   /\ attempts'[d] = attempts[d]
                   /\ status'[d] = "absent" => status[d] = "absent"
                   /\ Owed(d)' + crashes <= Owed(d) + crashes'
        BY <4>0, <4>1 DEF Owed
      <4>2. CASE \/ \E e \in Enqueuers, c \in Commits : EnqueueReturn(e, c)
                 \/ UNCHANGED qvars
        BY <4>1, <4>2 DEF Stale, EnqueueReturn, qvars
      <4>3. ASSUME NEW e \in Enqueuers, EnqueueConflict(e)
            PROVE  /\ Stale(d)' \subseteq Stale(d)
                   /\ attempts'[d] = attempts[d]
                   /\ status'[d] = "absent" => status[d] = "absent"
                   /\ Owed(d)' + crashes <= Owed(d) + crashes'
        BY <4>1, <4>3 DEF Stale, EnqueueConflict, table
      <4>4. CASE ClaimSelect \/ WorkerFault
        BY <4>1, <4>4 DEF Stale, ClaimSelect, WorkerFault, table
      <4>5. CASE RecoverFault \/ Restart
        BY <4>1, <4>5 DEF Stale, RecoverFault, Restart, table
      <4>6. CASE Recover
        BY <4>6 DEF Stale, Owed, Recover
      <4>7. CASE Crash
        BY <4>7 DEF Stale, Owed, Crash, table
      <4>8. ASSUME NEW o \in {"succeeded", "failed"}, MarkTerminal(o)
            PROVE  /\ Stale(d)' \subseteq Stale(d)
                   /\ attempts'[d] = attempts[d]
                   /\ status'[d] = "absent" => status[d] = "absent"
                   /\ Owed(d)' + crashes <= Owed(d) + crashes'
        BY <4>8 DEF Stale, Owed, MarkTerminal
      <4>9. QED
        BY <2>5, <4>2, <4>3, <4>4, <4>5, <4>6, <4>7, <4>8
    <3>2. ASSUME NEW d \in Commits
          PROVE  Bound(d)'
      <4>1. /\ attempts[d] \in Nat /\ Owed(d) \in Nat /\ Owed(d)' \in Nat
            /\ crashes \in Nat /\ crashes' \in Nat
        BY DEF Owed
      <4>2. Bound(d)
        BY DEF CapInv
      <4> HIDE DEF Owed
      <4>3. attempts'[d] + Owed(d)' + crashes
              <= attempts[d] + Owed(d) + crashes'
        BY <3>1, <4>1
      <4>4. QED
        BY <3>1, <4>2, <4>3, BoundKept
    <3>3. work'.phase = "selected" =>
             /\ status'[work'.sha] = "queued"
             /\ work'.attempt = attempts'[work'.sha] + 1
      BY <2>5 DEF CapInv, Oldest, EnqueueReturn, EnqueueConflict,
           ClaimSelect, WorkerFault, RecoverFault, Restart, Recover, Crash,
           MarkTerminal, table, qvars
    <3>4. QED
      BY <3>1, <3>2, <3>3 DEF CapInv
  <2>6. QED
    BY <2>1, <2>2, <2>3, <2>4, <2>5 DEF QueueNext, EnqueueStep, WorkerStep
<1>3. QED
  BY <1>1, <1>2, QueueTyped, PTL DEF QueueSpec

\* The retry cap holds up to one extra attempt per crash and per caller but
\* one, for any number of commits, callers, crashes and faults.
THEOREM AttemptsAreBounded == QueueSpec => []AttemptsBounded
<1>1. QueueTypeOK /\ CapInv => AttemptsBounded
  <2> SUFFICES ASSUME QueueTypeOK, CapInv, NEW c \in Commits
               PROVE  attempts[c] + 1
                        <= MaxAttempts + crashes + Cardinality(Enqueuers)
    BY DEF AttemptsBounded
  <2>1. /\ attempts[c] \in Nat /\ crashes \in Nat /\ Owed(c) \in Nat
        /\ MaxAttempts \in Nat
    BY QueueAssumption DEF QueueTypeOK, Owed
  <2>2. Bound(c)
    BY DEF CapInv
  <2> HIDE DEF Owed, Stale
  <2>3. QED
    BY <2>1, <2>2, StaleBounded DEF Bound
<1>2. QED
  BY <1>1, CapInvariance, QueueTyped, PTL
=============================================================================
