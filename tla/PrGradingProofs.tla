-------------------------- MODULE PrGradingProofs --------------------------
(***************************************************************************)
(* Proofs about PrGrading: its types, and that only a fault or a death of  *)
(* the daemon leaves a head without a verdict, for any number of pull      *)
(* requests, heads and overlapping runs.                                   *)
(***************************************************************************)
EXTENDS PrGrading, SequenceTheorems, TLAPS

(***************************************************************************)
(* The state file, which pinning a head and releasing it update: its       *)
(* types, and that a single writer makes its read-modify-write updates     *)
(* atomic.                                                                 *)
(***************************************************************************)

\* The steps of an update keep the types, whoever takes them; PrGrading uses
\* the same steps.
LEMMA ReadFileTyped ==
    ASSUME StateTypeOK, NEW w \in Writers, NEW k \in Keys, NEW r \in Values,
           ReadFile(w, k, r)
    PROVE  StateTypeOK'
<1> DEFINE u == [seen |-> file, key |-> k, rev |-> r]
<1>1. u \in Update
  BY DEF StateTypeOK, Update
<1>2. update' = [update EXCEPT ![w] = {u}] /\ file' = file
  BY DEF ReadFile
<1> HIDE DEF u
<1>3. update' \in [Writers -> SUBSET Update]
  BY <1>1, <1>2 DEF StateTypeOK
<1>4. \A v \in Writers : \A a, b \in update'[v] : a = b
  BY <1>2 DEF StateTypeOK
<1> QED  BY <1>2, <1>3, <1>4 DEF StateTypeOK

LEMMA ReplaceTyped ==
    ASSUME StateTypeOK, NEW w \in Writers, Replace(w)
    PROVE  StateTypeOK'
<1>1. PICK u \in update[w] : /\ file' = [u.seen EXCEPT ![u.key] = u.rev]
                             /\ update' = [update EXCEPT ![w] = {}]
  BY DEF Replace
<1>2. u \in Update
  BY DEF StateTypeOK
<1>3. file' \in Files
  BY <1>1, <1>2 DEF Update, Files
<1> QED  BY <1>1, <1>3 DEF StateTypeOK

LEMMA AbandonTyped ==
    ASSUME StateTypeOK, NEW w \in Writers, Abandon(w)
    PROVE  StateTypeOK'
BY DEF StateTypeOK, Abandon

LEMMA StateInitTyped == StateInit => StateTypeOK
BY DEF StateInit, StateTypeOK, Files, Values

\* Every step of StateNext is one of the three.
LEMMA StateSteps ==
    ASSUME StateNext
    PROVE  \E w \in Writers :
              \/ \E k \in Keys, r \in Values : ReadFile(w, k, r)
              \/ Replace(w)
              \/ Abandon(w)
BY DEF StateNext, WriteState, AcquirePin, ReleasePin, Keys, Values

\* The type invariant: the file always maps every key to a revision or to
\* none, and a writer is in the middle of at most one update.
THEOREM StateTyped == StateSpec => []StateTypeOK
<1>1. StateInit => StateTypeOK
  BY StateInitTyped
<1>2. StateTypeOK /\ [StateNext]_svars => StateTypeOK'
  <2> SUFFICES ASSUME StateTypeOK, [StateNext]_svars PROVE StateTypeOK'
    OBVIOUS
  <2>1. CASE UNCHANGED svars
    BY <2>1 DEF svars, StateTypeOK
  <2>2. CASE StateNext
    <3>1. PICK w \in Writers :
             \/ \E k \in Keys, r \in Values : ReadFile(w, k, r)
             \/ Replace(w)
             \/ Abandon(w)
      BY <2>2, StateSteps
    <3> QED  BY <3>1, ReadFileTyped, ReplaceTyped, AbandonTyped
  <2> QED  BY <2>1, <2>2
<1> QED  BY <1>1, <1>2, PTL DEF StateSpec
-----------------------------------------------------------------------------
(* Refinement *)

OneWriter == \A v, w \in Writers : v = w

\* What a writer has read is what the file still says.
FreshCopies == \A w \in Writers : \A u \in update[w] : u.seen = file

LEMMA FreshCopiesStep ==
    ASSUME OneWriter, StateTypeOK, FreshCopies, [StateNext]_svars
    PROVE  FreshCopies'
<1>1. CASE UNCHANGED svars
  BY <1>1 DEF svars, FreshCopies
<1>2. CASE StateNext
  <2>1. PICK w \in Writers :
           \/ \E k \in Keys, r \in Values : ReadFile(w, k, r)
           \/ Replace(w)
           \/ Abandon(w)
    BY <1>2, StateSteps
  <2>2. CASE \E k \in Keys, r \in Values : ReadFile(w, k, r)
    BY <2>2 DEF ReadFile, FreshCopies, StateTypeOK
  <2>3. CASE Replace(w)
    <3>1. update'[w] = {}
      BY <2>3 DEF Replace, StateTypeOK
    <3> QED  BY <3>1 DEF OneWriter, FreshCopies
  <2>4. CASE Abandon(w)
    BY <2>4 DEF Abandon, FreshCopies, StateTypeOK
  <2> QED  BY <2>1, <2>2, <2>3, <2>4
<1> QED  BY <1>1, <1>2

\* With one writer the read-modify-write updates of state_file.py implement
\* atomic updates of single keys: none is lost, and none brings an old value
\* of another key back.
THEOREM SingleWriterIsAtomic ==
    ASSUME OneWriter
    PROVE  StateSpec => ImplementsStore
<1>1. StateInit => Store!Init
  BY DEF StateInit, Store!Init, Files, Keys, Values
<1>2. StateInit => FreshCopies
  BY DEF StateInit, FreshCopies
<1>3. StateTypeOK /\ FreshCopies /\ [StateNext]_svars => FreshCopies'
  BY FreshCopiesStep
<1>4. StateTypeOK /\ FreshCopies /\ [StateNext]_svars => [Store!Next]_file
  <2> SUFFICES ASSUME StateTypeOK, FreshCopies, [StateNext]_svars,
                      file' # file
               PROVE  Store!Next
    OBVIOUS
  <2>1. PICK w \in Writers : Replace(w)
    BY StateSteps DEF svars, ReadFile, Abandon
  <2>2. PICK u \in update[w] : file' = [u.seen EXCEPT ![u.key] = u.rev]
    BY <2>1 DEF Replace
  <2>3. u.seen = file /\ u.key \in Keys /\ u.rev \in Revs \cup {NoRev}
    BY DEF FreshCopies, StateTypeOK, Update, Values
  <2> QED  BY <2>2, <2>3 DEF Store!Next, Store!Put, Keys
<1> QED  BY <1>1, <1>2, <1>3, <1>4, StateTyped, PTL
         DEF StateSpec, ImplementsStore, Store!Spec
-----------------------------------------------------------------------------
(* Types *)

GradingTypes ==
    /\ tip \in [PRs -> Heads \cup {0}]
    /\ commitStatus \in [Heads -> Statuses]
    /\ thread \in [PRs -> Seq(Comment)]
    /\ tmp \in [PRs -> TmpFile]
    /\ indexed \subseteq Revs
    /\ ingested \in Values
    /\ run \in [Runs -> RunState]
    /\ faults \in 0..MaxFaults
    /\ crashes \in 0..MaxCrashes

\* The stages of the loop's body.
InPacket == {"open", "write", "writeGone", "parse", "unlink", "grade"}

\* A run beyond "waiting" has a head that was pushed, and with it a pull
\* request; inside the loop there is a packet.
Begun == \A r \in Runs :
    /\ run[r].at = "waiting" <=> run[r].head = 0
    /\ run[r].at # "waiting" => run[r].head <= tip[Pr(r)]
    /\ run[r].at \in InPacket => run[r].todo # {}

LEMMA PrTyped ==
    ASSUME run \in [Runs -> RunState], Begun, NEW r \in Runs,
           run[r].at # "waiting"
    PROVE  run[r].head \in Heads /\ Pr(r) \in PRs
BY GradingAssumption DEF RunState, Begun, Pr

LEMMA PostingTyped ==
    ASSUME NEW x \in RunState, x.at \in StatusPosts \/ x.at = "final"
    PROVE  Posting(x) \in Statuses \ {"none"}
BY DEF Posting, StatusPosts, Statuses, Verdicts

LEMMA PostTyped ==
    ASSUME GradingTypes, Begun, NEW r \in Runs, PostStatus(r),
           run[r].at \in StatusPosts
    PROVE  commitStatus' \in [Heads -> Statuses]
<1>1. run[r] \in RunState
  BY DEF GradingTypes
<1>2. Posting(run[r]) \in Statuses
  BY <1>1, PostingTyped
<1> QED  BY <1>2 DEF PostStatus, GradingTypes

\* A comment is replaced where it is, or nowhere.
LEMMA ReplacedTyped ==
    ASSUME NEW s \in Seq(Comment), NEW c \in Comment, NEW i \in Nat
    PROVE  [s EXCEPT ![i] = c] \in Seq(Comment)
<1>1. CASE i \in 1..Len(s)
  BY <1>1, ExceptSeq
<1>2. CASE i \notin 1..Len(s)
  <2>1. [s EXCEPT ![i] = c] = [j \in DOMAIN s |-> s[j]]
    BY <1>2
  <2>2. s = [j \in DOMAIN s |-> s[j]]
    OBVIOUS
  <2> QED  BY <2>1, <2>2
<1> QED  BY <1>1, <1>2

LEMMA SendTyped ==
    ASSUME GradingTypes, Begun, NEW r \in Runs, SendComment(r),
           run[r].at \in CommentPosts
    PROVE  thread' \in [PRs -> Seq(Comment)]
<1>1. run[r] \in RunState /\ run[r].head \in Heads /\ Pr(r) \in PRs
  BY PrTyped DEF GradingTypes, CommentPosts
<1> DEFINE c == [by |-> "grader", head |-> run[r].head,
                 says |-> IF run[r].at = "explain" THEN "notIndexed"
                          ELSE Posting([run[r] EXCEPT !.at = "final"])]
<1>2. [run[r] EXCEPT !.at = "final"] \in RunState
  BY <1>1 DEF RunState, Stages
<1>3. c \in Comment
  BY <1>1, <1>2, PostingTyped DEF Comment, Statuses, RunState, Stages
<1>4. thread' = [thread EXCEPT ![Pr(r)] =
                   IF run[r].target = 0 THEN Append(@, c)
                   ELSE [@ EXCEPT ![run[r].target] = c]]
  BY DEF SendComment
<1> HIDE DEF c
<1>5. thread[Pr(r)] \in Seq(Comment)
  BY <1>1 DEF GradingTypes
<1>6. Append(thread[Pr(r)], c) \in Seq(Comment)
  BY <1>3, <1>5
<1>7. [thread[Pr(r)] EXCEPT ![run[r].target] = c] \in Seq(Comment)
  BY <1>1, <1>3, <1>5, ReplacedTyped DEF RunState
<1> QED  BY <1>1, <1>4, <1>6, <1>7 DEF GradingTypes

LEMMA StateUnchanged == StateTypeOK /\ UNCHANGED svars => StateTypeOK'
BY DEF StateTypeOK, svars

\* The invariant the steps are typed by.
GradingInv == StateTypeOK /\ GradingTypes /\ Begun

LEMMA IsTypeOK == GradingInv => TypeOK
BY DEF GradingInv, GradingTypes, TypeOK

\* A step of run r that leaves it a run of the same head.
Onward(r) ==
    /\ run' = [run EXCEPT ![r] = run'[r]]
    /\ run'[r] \in RunState
    /\ run'[r].head = run[r].head
    /\ run[r].at # "waiting" /\ run'[r].at # "waiting"
    /\ run'[r].at \in InPacket => run'[r].todo # {}

LEMMA OnwardTyped ==
    ASSUME run \in [Runs -> RunState], Begun, NEW r \in Runs, Onward(r),
           tip' = tip
    PROVE  run' \in [Runs -> RunState] /\ Begun'
BY DEF Onward, Begun, Pr

LEMMA OnwardTo ==
    ASSUME run \in [Runs -> RunState], NEW r \in Runs, NEW x \in RunState,
           run' = [run EXCEPT ![r] = x], x.head = run[r].head,
           run[r].at # "waiting", x.at # "waiting",
           x.at \in InPacket => x.todo # {}
    PROVE  Onward(r)
BY DEF Onward

LEMMA GotoOnward ==
    ASSUME run \in [Runs -> RunState], NEW r \in Runs,
           NEW s \in Stages \ {"waiting"}, Goto(r, s), run[r].at # "waiting",
           s \in InPacket => run[r].todo # {}
    PROVE  Onward(r)
<1> DEFINE x == [run[r] EXCEPT !.at = s]
<1>1. run[r] \in RunState
  OBVIOUS
<1>2. x \in RunState /\ x.head = run[r].head /\ x.at = s /\ x.todo = run[r].todo
  BY <1>1 DEF RunState
<1>3. run' = [run EXCEPT ![r] = x]
  BY DEF Goto
<1> HIDE DEF x
<1> QED  BY <1>2, <1>3, OnwardTo

\* The steps of a run that change nothing but the run.
LEMMA LocalTyped ==
    ASSUME GradingInv, NEW r \in Runs,
           \/ FetchFiles(r) \/ FindParent(r) \/ FetchBody(r) \/ SkipPacket(r)
           \/ WriteGone(r) \/ ParseTmp(r) \/ ParseNothing(r)
           \/ GradePacket(r) \/ EndPackets(r) \/ ListComments(r)
    PROVE  GradingInv'
<1>1. UNCHANGED <<github, svars, tmp, ledger, bounds>>
  BY DEF FetchFiles, FindParent, FetchBody, SkipPacket, WriteGone, ParseTmp,
         ParseNothing, GradePacket, EndPackets, ListComments
<1>2. StateTypeOK'
  BY <1>1, StateUnchanged DEF GradingInv
<1>3. /\ run \in [Runs -> RunState] /\ Begun
      /\ run[r].at \in InPacket => run[r].todo # {}
  BY DEF GradingInv, GradingTypes, Begun
<1>4. run[r] \in RunState
  BY <1>3
<1>5. Onward(r)
  <2>1. CASE FetchFiles(r)
    <3> DEFINE touched == Touched[tip[Pr(r)]]
    <3> DEFINE x == [run[r] EXCEPT !.at = IF touched = {} THEN "notPacket" ELSE "pending",
                                !.todo = touched]
    <3>0. touched \subseteq Packets
      <4>1. Pr(r) \in PRs /\ run[r].head \in Heads
        BY <1>3, <2>1, PrTyped DEF FetchFiles
      <4>2. tip[Pr(r)] \in Heads
        BY <2>1, <4>1, GradingAssumption
           DEF FetchFiles, GradingInv, GradingTypes, Begun
      <4> QED  BY <4>2, GradingAssumption
    <3>1. x \in RunState
      BY <1>4, <3>0 DEF RunState, Stages
    <3>2. run' = [run EXCEPT ![r] = x]
      BY <1>3, <2>1 DEF FetchFiles
    <3>3. /\ x.head = run[r].head
          /\ run[r].at # "waiting" /\ x.at # "waiting"
          /\ x.at \in InPacket => x.todo # {}
      BY <1>3, <1>4, <2>1 DEF FetchFiles, InPacket, RunState
    <3> HIDE DEF x
    <3> QED  BY <1>3, <3>1, <3>2, <3>3, OnwardTo
  <2>2. CASE FindParent(r)
    <3> DEFINE base == BaseOf[run[r].head]
    <3> DEFINE x == [run[r] EXCEPT !.at = IF base \in indexed THEN "pin" ELSE "notIndexed",
                                !.rev = IF base \in indexed THEN base ELSE NoRev]
    <3>0. base \in Revs
      BY <1>3, <2>2, PrTyped, GradingAssumption DEF FindParent
    <3>1. x \in RunState
      BY <1>4, <3>0 DEF RunState, Stages, Values
    <3>2. run' = [run EXCEPT ![r] = x]
      BY <1>3, <2>2 DEF FindParent
    <3>3. /\ x.head = run[r].head
          /\ run[r].at # "waiting" /\ x.at # "waiting"
          /\ x.at \in InPacket => x.todo # {}
      BY <1>3, <1>4, <2>2 DEF FindParent, InPacket, RunState
    <3> HIDE DEF x
    <3> QED  BY <1>3, <3>1, <3>2, <3>3, OnwardTo
  <2>3. CASE FetchBody(r)
    BY <1>3, <2>3, GotoOnward DEF FetchBody, Stages, InPacket
  <2>4. CASE SkipPacket(r)
    <3> DEFINE x == [run[r] EXCEPT !.todo = @ \ {Current(run[r])}]
    <3>1. x \in RunState
      BY <1>4 DEF RunState, Stages
    <3>2. run' = [run EXCEPT ![r] = x]
      BY <1>3, <2>4 DEF SkipPacket
    <3>3. /\ x.head = run[r].head
          /\ run[r].at # "waiting" /\ x.at # "waiting"
          /\ x.at \in InPacket => x.todo # {}
      BY <1>3, <1>4, <2>4 DEF SkipPacket, InPacket, RunState
    <3> HIDE DEF x
    <3> QED  BY <1>3, <3>1, <3>2, <3>3, OnwardTo
  <2>5. CASE WriteGone(r)
    BY <1>3, <2>5, GotoOnward DEF WriteGone, Stages, InPacket
  <2>6. CASE ParseTmp(r)
    <3> DEFINE x == [run[r] EXCEPT !.at = "unlink",
                                !.text = tmp[Pr(r)].text]
    <3>0. tmp[Pr(r)].text \subseteq Bodies
      BY <1>3, <2>6, PrTyped DEF ParseTmp, TmpFile, GradingInv, GradingTypes
    <3>1. x \in RunState
      BY <1>4, <3>0 DEF RunState, Stages
    <3>2. run' = [run EXCEPT ![r] = x]
      BY <1>3, <2>6 DEF ParseTmp
    <3>3. /\ x.head = run[r].head
          /\ run[r].at # "waiting" /\ x.at # "waiting"
          /\ x.at \in InPacket => x.todo # {}
      BY <1>3, <1>4, <2>6 DEF ParseTmp, InPacket, RunState
    <3> HIDE DEF x
    <3> QED  BY <1>3, <3>1, <3>2, <3>3, OnwardTo
  <2>7. CASE ParseNothing(r)
    <3> DEFINE x == [run[r] EXCEPT !.at = "unlinkLost",
                                !.raised = TRUE]
    <3>1. x \in RunState
      BY <1>4 DEF RunState, Stages
    <3>2. run' = [run EXCEPT ![r] = x]
      BY <1>3, <2>7 DEF ParseNothing
    <3>3. /\ x.head = run[r].head
          /\ run[r].at # "waiting" /\ x.at # "waiting"
          /\ x.at \in InPacket => x.todo # {}
      BY <1>3, <1>4, <2>7 DEF ParseNothing, InPacket, RunState
    <3> HIDE DEF x
    <3> QED  BY <1>3, <3>1, <3>2, <3>3, OnwardTo
  <2>8. CASE GradePacket(r)
    <3>0. Current(run[r]) \in Packets
      BY <1>3, <1>4, <2>8 DEF GradePacket, Current, InPacket, RunState
    <3>b. PICK passed \in BOOLEAN :
             run' = [run EXCEPT
                       ![r].at = "packet",
                       ![r].graded = @ \cup {<<Current(run[r]), passed>>},
                       ![r].todo = @ \ {Current(run[r])}]
      BY <2>8 DEF GradePacket, MayPass
    <3> DEFINE x == [run[r] EXCEPT !.at = "packet",
                                !.graded = @ \cup {<<Current(run[r]), passed>>},
                                !.todo = @ \ {Current(run[r])}]
    <3>1. x \in RunState
      <4>1. run[r].graded \cup {<<Current(run[r]), passed>>}
              \subseteq Packets \X BOOLEAN
        BY <1>4, <3>0 DEF RunState
      <4> QED  BY <1>4, <4>1 DEF RunState, Stages
    <3>2. run' = [run EXCEPT ![r] = x]
      BY <1>3, <2>8, <3>b DEF GradePacket
    <3>3. /\ x.head = run[r].head
          /\ run[r].at # "waiting" /\ x.at # "waiting"
          /\ x.at \in InPacket => x.todo # {}
      BY <1>3, <1>4, <2>8, <3>b DEF GradePacket, InPacket, RunState
    <3> HIDE DEF x
    <3> QED  BY <1>3, <3>1, <3>2, <3>3, OnwardTo
  <2>9. CASE EndPackets(r)
    BY <1>3, <2>9, GotoOnward DEF EndPackets, Stages, InPacket
  <2>10. CASE ListComments(r)
    <3>0. Ours(Pr(r)) \subseteq Nat
      <4>1. Pr(r) \in PRs
        BY <1>3, <2>10, PrTyped DEF ListComments
      <4>2. thread[Pr(r)] \in Seq(Comment)
        BY <4>1 DEF GradingInv, GradingTypes
      <4> QED  BY <4>2 DEF Ours
    <3>b. PICK i \in Nat : run' = [run EXCEPT
                       ![r].at = IF @ = "list" THEN "comment" ELSE "explain",
                       ![r].target = i]
      BY <2>10, <3>0 DEF ListComments
    <3> DEFINE x == [run[r] EXCEPT !.at = IF run[r].at = "list" THEN "comment" ELSE "explain",
                                !.target = i]
    <3>1. x \in RunState
      BY <1>4 DEF RunState, Stages
    <3>2. run' = [run EXCEPT ![r] = x]
      BY <1>3, <2>10, <3>b DEF ListComments
    <3>3. /\ x.head = run[r].head
          /\ run[r].at # "waiting" /\ x.at # "waiting"
          /\ x.at \in InPacket => x.todo # {}
      BY <1>3, <1>4, <2>10, <3>b DEF ListComments, InPacket, RunState
    <3> HIDE DEF x
    <3> QED  BY <1>3, <3>1, <3>2, <3>3, OnwardTo
  <2> QED  BY <2>1, <2>2, <2>3, <2>4, <2>5, <2>6, <2>7, <2>8, <2>9, <2>10
<1>6. run' \in [Runs -> RunState] /\ Begun'
  BY <1>1, <1>3, <1>5, OnwardTyped DEF github
<1> QED  BY <1>1, <1>2, <1>6
         DEF GradingInv, GradingTypes, github, ledger, bounds

LEMMA ExitStage ==
    ASSUME NEW x \in RunState
    PROVE  Exit(x) \in {"unpin", "done"}
BY DEF Exit

\* The steps that post a commit status.
LEMMA StatusTyped ==
    ASSUME GradingInv, NEW r \in Runs,
           \/ PostNotPacket(r) \/ PostPending(r) \/ PostNotIndexed(r)
           \/ PostFinal(r) \/ PostError(r)
    PROVE  GradingInv'
<1>1. UNCHANGED <<tip, thread, svars, tmp, ledger, bounds>>
  BY DEF PostNotPacket, PostPending, PostNotIndexed, PostFinal, PostError
<1>2. StateTypeOK'
  BY <1>1, StateUnchanged DEF GradingInv
<1>3. PostStatus(r) /\ run[r].at \in StatusPosts
  BY DEF PostNotPacket, PostPending, PostNotIndexed, PostFinal, PostError,
         StatusPosts
<1>4. commitStatus' \in [Heads -> Statuses]
  BY <1>3, PostTyped DEF GradingInv
<1>5. run \in [Runs -> RunState] /\ run[r] \in RunState
  BY DEF GradingInv, GradingTypes
<1>6. Onward(r)
  <2>1. CASE PostPending(r)
    <3> DEFINE x == [run[r] EXCEPT !.at = "parent", !.pending = TRUE]
    <3>1. x \in RunState /\ x.head = run[r].head /\ x.at = "parent"
      BY <1>5 DEF RunState, Stages
    <3>2. run' = [run EXCEPT ![r] = x] /\ run[r].at # "waiting"
      BY <1>5, <2>1 DEF PostPending
    <3> HIDE DEF x
    <3> QED  BY <1>5, <3>1, <3>2, OnwardTo DEF InPacket
  <2>2. CASE PostNotIndexed(r)
    BY <1>5, <2>2, GotoOnward DEF PostNotIndexed, Stages, InPacket
  <2>3. CASE PostNotPacket(r) \/ PostFinal(r) \/ PostError(r)
    <3>1. Goto(r, Exit(run[r])) /\ run[r].at # "waiting"
      BY <2>3 DEF PostNotPacket, PostFinal, PostError
    <3> QED  BY <1>5, <3>1, ExitStage, GotoOnward DEF Stages, InPacket
  <2> QED  BY <2>1, <2>2, <2>3
<1>7. run' \in [Runs -> RunState] /\ Begun'
  BY <1>1, <1>5, <1>6, OnwardTyped DEF GradingInv
<1> QED  BY <1>1, <1>2, <1>4, <1>7
         DEF GradingInv, GradingTypes, ledger, bounds

\* The steps that write the comment.
LEMMA CommentTyped ==
    ASSUME GradingInv, NEW r \in Runs, WriteComment(r) \/ WriteExplanation(r)
    PROVE  GradingInv'
<1>1. UNCHANGED <<tip, commitStatus, svars, tmp, ledger, bounds>>
  BY DEF WriteComment, WriteExplanation
<1>2. StateTypeOK'
  BY <1>1, StateUnchanged DEF GradingInv
<1>3. thread' \in [PRs -> Seq(Comment)]
  BY SendTyped DEF WriteComment, WriteExplanation, CommentPosts, GradingInv
<1>4. run \in [Runs -> RunState] /\ run[r] \in RunState
  BY DEF GradingInv, GradingTypes
<1>5. Onward(r)
  <2>1. CASE WriteComment(r)
    BY <1>4, <2>1, GotoOnward DEF WriteComment, Stages, InPacket
  <2>2. CASE WriteExplanation(r)
    BY <1>4, <2>2, ExitStage, GotoOnward
       DEF WriteExplanation, Stages, InPacket
  <2> QED  BY <2>1, <2>2
<1>6. run' \in [Runs -> RunState] /\ Begun'
  BY <1>1, <1>4, <1>5, OnwardTyped DEF GradingInv
<1> QED  BY <1>1, <1>2, <1>3, <1>6
         DEF GradingInv, GradingTypes, ledger, bounds

\* The steps that pin and unpin.
LEMMA PinTyped ==
    ASSUME GradingInv, NEW r \in Runs,
           PinRead(r) \/ PinWrite(r) \/ UnpinRead(r) \/ UnpinWrite(r)
    PROVE  GradingInv'
<1>1. UNCHANGED <<github, tmp, ledger, bounds>>
  BY DEF PinRead, PinWrite, UnpinRead, UnpinWrite
<1>2. run \in [Runs -> RunState] /\ run[r] \in RunState
  BY DEF GradingInv, GradingTypes
<1>3. r \in Writers /\ run[r].at # "waiting" /\ Pr(r) \in PRs
  BY <1>2, PrTyped, GradingAssumption
     DEF PinRead, PinWrite, UnpinRead, UnpinWrite, GradingInv
<1>4. StateTypeOK'
  <2>1. CASE PinRead(r)
    BY <1>2, <1>3, <2>1, ReadFileTyped
       DEF PinRead, AcquirePin, Keys, RunState, GradingInv
  <2>2. CASE UnpinRead(r)
    BY <1>3, <2>2, ReadFileTyped
       DEF UnpinRead, ReleasePin, Keys, Values, GradingInv
  <2>3. CASE PinWrite(r) \/ UnpinWrite(r)
    BY <1>3, <2>3, ReplaceTyped DEF PinWrite, UnpinWrite, GradingInv
  <2> QED  BY <2>1, <2>2, <2>3
<1>5. Onward(r)
  <2>1. CASE PinWrite(r)
    <3> DEFINE x == [run[r] EXCEPT !.at = "packet", !.pinned = TRUE]
    <3>1. x \in RunState /\ x.head = run[r].head /\ x.at = "packet"
      BY <1>2 DEF RunState, Stages
    <3>2. run' = [run EXCEPT ![r] = x]
      BY <1>2, <2>1 DEF PinWrite
    <3> HIDE DEF x
    <3> QED  BY <1>2, <1>3, <3>1, <3>2, OnwardTo DEF InPacket
  <2>2. CASE PinRead(r) \/ UnpinRead(r) \/ UnpinWrite(r)
    BY <1>2, <1>3, <2>2, GotoOnward
       DEF PinRead, UnpinRead, UnpinWrite, Stages, InPacket
  <2> QED  BY <2>1, <2>2
<1>6. run' \in [Runs -> RunState] /\ Begun'
  BY <1>1, <1>2, <1>5, OnwardTyped DEF GradingInv, github
<1> QED  BY <1>1, <1>4, <1>6
         DEF GradingInv, GradingTypes, github, ledger, bounds

\* The steps that change the temporary file.
LEMMA TmpTyped ==
    ASSUME GradingInv, NEW r \in Runs,
           OpenTmp(r) \/ WriteTmp(r) \/ UnlinkTmp(r)
    PROVE  GradingInv'
<1>1. UNCHANGED <<github, svars, ledger, bounds>>
  BY DEF OpenTmp, WriteTmp, UnlinkTmp
<1>2. StateTypeOK'
  BY <1>1, StateUnchanged DEF GradingInv
<1>3. /\ run \in [Runs -> RunState] /\ run[r] \in RunState
      /\ tmp \in [PRs -> TmpFile]
      /\ run[r].at \in InPacket => run[r].todo # {}
  BY DEF GradingInv, GradingTypes, Begun
<1>4. Pr(r) \in PRs /\ run[r].head \in Heads
  BY <1>3, PrTyped DEF OpenTmp, WriteTmp, UnlinkTmp, GradingInv
<1>5. tmp' \in [PRs -> TmpFile]
  <2>1. CASE OpenTmp(r)
    BY <1>3, <2>1 DEF OpenTmp, TmpFile
  <2>2. CASE WriteTmp(r)
    <3>1. Current(run[r]) \in Packets
      BY <1>3, <2>2 DEF WriteTmp, Current, InPacket, RunState
    <3> DEFINE body == <<run[r].head, Current(run[r])>>
    <3>2. body \in Bodies
      BY <1>4, <3>1 DEF Bodies
    <3>3. tmp[Pr(r)] \in TmpFile
      BY <1>3, <1>4
    <3>4. PICK text \in {{body}, tmp[Pr(r)].text \cup {body}} :
             tmp' = [tmp EXCEPT ![Pr(r)].text = text]
      BY <2>2 DEF WriteTmp
    <3> HIDE DEF body
    <3>5. text \subseteq Bodies
      BY <3>2, <3>3, <3>4 DEF TmpFile
    <3>6. [tmp[Pr(r)] EXCEPT !.text = text] \in TmpFile
      BY <3>3, <3>5 DEF TmpFile
    <3> QED  BY <1>3, <1>4, <3>4, <3>6
  <2>3. CASE UnlinkTmp(r)
    BY <1>3, <2>3 DEF UnlinkTmp, TmpFile, NoFile
  <2> QED  BY <2>1, <2>2, <2>3
<1>6. run' \in [Runs -> RunState] /\ Begun'
  <2>1. CASE OpenTmp(r) \/ WriteTmp(r)
    <3>1. Onward(r)
      BY <1>3, <2>1, GotoOnward DEF OpenTmp, WriteTmp, Stages, InPacket
    <3> QED  BY <1>1, <1>3, <3>1, OnwardTyped DEF GradingInv, github
  <2>2. CASE UnlinkTmp(r)
    <3> DEFINE x(q) == IF q = r
                       THEN [run[r] EXCEPT !.at = IF @ = "unlink" THEN "grade"
                                                  ELSE "error"]
                       ELSE IF run[q].at = "write" /\ Pr(q) = Pr(r)
                       THEN [run[q] EXCEPT !.at = "writeGone"]
                       ELSE run[q]
    <3>1. run' = [q \in Runs |-> x(q)]
      BY <2>2 DEF UnlinkTmp
    <3>2. ASSUME NEW q \in Runs
          PROVE  /\ x(q) \in RunState /\ x(q).head = run[q].head
                 /\ x(q).at = "waiting" <=> run[q].at = "waiting"
                 /\ x(q).at \in InPacket => x(q).todo # {}
      <4>1. run[q] \in RunState /\ (run[q].at \in InPacket => run[q].todo # {})
        BY DEF GradingInv, GradingTypes, Begun
      <4> QED  BY <1>3, <2>2, <4>1 DEF UnlinkTmp, RunState, Stages, InPacket
    <3> HIDE DEF x
    <3> QED  BY <1>1, <3>1, <3>2 DEF GradingInv, Begun, Pr, github
  <2> QED  BY <2>1, <2>2
<1> QED  BY <1>1, <1>2, <1>5, <1>6
         DEF GradingInv, GradingTypes, github, ledger, bounds

LEMMA HandlerStage ==
    ASSUME NEW x \in RunState
    PROVE  Handler(x) \in {"unlinkLost", "error", "unpin", "done"}
BY DEF Handler, Exit

\* A call raises.
LEMMA RaiseTyped ==
    ASSUME GradingInv, NEW r \in Runs, Raise(r)
    PROVE  GradingInv'
<1>1. /\ UNCHANGED <<tip, tmp, ledger, crashes>>
      /\ faults < MaxFaults /\ faults' = faults + 1
  BY DEF Raise
<1>2. StateTypeOK'
  BY StateUnchanged, AbandonTyped, GradingAssumption DEF Raise, GradingInv
<1>3. run \in [Runs -> RunState] /\ run[r] \in RunState
  BY DEF GradingInv, GradingTypes
<1>4. /\ commitStatus' \in [Heads -> Statuses]
      /\ thread' \in [PRs -> Seq(Comment)]
  <2>1. CASE UNCHANGED <<commitStatus, thread>>
    BY <2>1 DEF GradingInv, GradingTypes
  <2>2. CASE run[r].at \in StatusPosts /\ PostStatus(r) /\ UNCHANGED thread
    BY <2>2, PostTyped DEF GradingInv, GradingTypes
  <2>3. CASE /\ run[r].at \in CommentPosts /\ SendComment(r)
             /\ UNCHANGED commitStatus
    BY <2>3, SendTyped DEF GradingInv, GradingTypes
  <2> QED  BY <2>1, <2>2, <2>3 DEF Raise
<1>5. Onward(r)
  <2> DEFINE h == Handler(run[r])
  <2> DEFINE x == [run[r] EXCEPT !.at = h, !.raised = TRUE]
  <2>1. h \in {"unlinkLost", "error", "unpin", "done"}
    BY <1>3, HandlerStage
  <2>2. run' = [run EXCEPT ![r] = x] /\ run[r].at # "waiting"
    BY <1>3 DEF Raise, StatusPosts, CommentPosts, OtherCalls
  <2> HIDE DEF h
  <2>3. x \in RunState /\ x.head = run[r].head /\ x.at = h
    BY <1>3, <2>1 DEF RunState, Stages
  <2> HIDE DEF x
  <2> QED  BY <1>3, <2>1, <2>2, <2>3, OnwardTo DEF InPacket
<1>6. run' \in [Runs -> RunState] /\ Begun'
  BY <1>1, <1>3, <1>5, OnwardTyped DEF GradingInv
<1>7. faults' \in 0..MaxFaults
  BY <1>1, GradingAssumption DEF GradingInv, GradingTypes
<1> QED  BY <1>1, <1>2, <1>4, <1>6, <1>7
         DEF GradingInv, GradingTypes, ledger

\* What other people do.
LEMMA PeopleTyped ==
    ASSUME GradingInv,
           (\E h \in Heads : Push(h)) \/ (\E p \in PRs : Talk(p))
    PROVE  GradingInv'
<1>1. CASE \E h \in Heads : Push(h)
  <2>1. PICK h \in Heads : Push(h)
    BY <1>1
  <2>2. PrOf[h] \in PRs /\ h \in Nat /\ tip \in [PRs -> Heads \cup {0}]
    BY GradingAssumption DEF GradingInv, GradingTypes
  <2>3. tip' \in [PRs -> Heads \cup {0}]
    BY <2>1, <2>2 DEF Push
  <2>4. Begun'
    <3> SUFFICES ASSUME NEW q \in Runs, run[q].at # "waiting"
                 PROVE  run[q].head <= tip'[Pr(q)]
      BY <2>1 DEF Push, GradingInv, Begun, Pr
    <3>1. run[q].head \in Heads /\ Pr(q) \in PRs
      BY PrTyped DEF GradingInv, GradingTypes
    <3>2. run[q].head <= tip[Pr(q)] /\ run[q].head \in Nat
      BY <3>1, GradingAssumption DEF GradingInv, Begun
    <3> DEFINE p == Pr(q)
    <3>0. p \in PRs /\ run[q].head <= tip[p]
      BY <3>1, <3>2
    <3> HIDE DEF p
    <3>3. Heads \cup {0} \subseteq Nat
      BY GradingAssumption
    <3>4. tip[p] \in Nat
      BY <2>2, <3>0, <3>3
    <3>5. tip' = [tip EXCEPT ![PrOf[h]] = h] /\ tip[PrOf[h]] < h
      BY <2>1 DEF Push
    <3>6. tip'[p] = tip[p] \/ (tip'[p] = h /\ tip[p] < h)
      BY <2>2, <3>0, <3>5
    <3>7. run[q].head <= tip'[p]
      BY <2>2, <3>0, <3>2, <3>4, <3>6
    <3> QED  BY <3>7 DEF p
  <2> QED  BY <2>1, <2>3, <2>4, StateUnchanged
           DEF Push, GradingInv, GradingTypes, ledger, bounds
<1>2. CASE \E p \in PRs : Talk(p)
  <2>1. PICK p \in PRs : Talk(p)
    BY <1>2
  <2> DEFINE c == [by |-> "other", head |-> 0, says |-> "none"]
  <2>2. c \in Comment
    BY DEF Comment, Statuses
  <2>3. thread' = [thread EXCEPT ![p] = Append(@, c)]
    BY <2>1 DEF Talk
  <2> HIDE DEF c
  <2>4. thread' \in [PRs -> Seq(Comment)]
    BY <2>2, <2>3 DEF GradingInv, GradingTypes
  <2> QED  BY <2>1, <2>4, StateUnchanged
           DEF Talk, GradingInv, GradingTypes, Begun, Pr, ledger, bounds
<1> QED  BY <1>1, <1>2

\* An event arrives.
LEMMA ReceiveTyped ==
    ASSUME GradingInv, NEW r \in Runs, NEW h \in Heads, Receive(r, h)
    PROVE  GradingInv'
<1>1. /\ UNCHANGED <<github, svars, tmp, ledger, bounds>>
      /\ h <= tip[PrOf[h]]
  BY DEF Receive
<1>2. StateTypeOK'
  BY <1>1, StateUnchanged DEF GradingInv
<1>3. run \in [Runs -> RunState] /\ run[r] \in RunState
  BY DEF GradingInv, GradingTypes
<1> DEFINE x == [run[r] EXCEPT !.at = "fetch", !.head = h]
<1>4. x \in RunState /\ x.head = h /\ x.at = "fetch"
  BY <1>3 DEF RunState, Stages
<1>5. run' = [run EXCEPT ![r] = x]
  BY <1>3 DEF Receive
<1> HIDE DEF x
<1>6. run' \in [Runs -> RunState]
  BY <1>3, <1>4, <1>5
<1>7. Begun'
  <2>1. h # 0
    BY GradingAssumption
  <2> QED  BY <1>1, <1>3, <1>4, <1>5, <2>1
           DEF GradingInv, Begun, Pr, github, InPacket
<1> QED  BY <1>1, <1>2, <1>6, <1>7
         DEF GradingInv, GradingTypes, github, ledger, bounds

\* What the rest of the daemon does.
LEMMA DaemonTyped ==
    ASSUME GradingInv,
           \/ \E b \in Revs : WorkerRecords(b)
           \/ WorkerReads \/ WorkerWrites \/ Crash
    PROVE  GradingInv'
<1>1. Worker \in Writers
  BY GradingAssumption
<1>2. CASE \E b \in Revs : WorkerRecords(b)
  BY <1>2, StateUnchanged
     DEF WorkerRecords, GradingInv, GradingTypes, Begun, Pr, github, bounds,
         Values
<1>3. CASE WorkerReads
  <2>1. StateTypeOK'
    BY <1>1, <1>3, ReadFileTyped
       DEF WorkerReads, WriteState, Keys, GradingInv, GradingTypes
  <2> QED  BY <1>3, <2>1
           DEF WorkerReads, GradingInv, GradingTypes, Begun, Pr, github,
               bounds, Values
<1>4. CASE WorkerWrites
  <2>1. StateTypeOK'
    BY <1>1, <1>4, ReplaceTyped DEF WorkerWrites, GradingInv
  <2> QED  BY <1>4, <2>1
           DEF WorkerWrites, GradingInv, GradingTypes, Begun, Pr, github,
               ledger, bounds
<1>5. CASE Crash
  <2>1. StateTypeOK'
    BY <1>5 DEF Crash, GradingInv, StateTypeOK
  <2>2. crashes' \in 0..MaxCrashes
    BY <1>5, GradingAssumption DEF Crash, GradingInv, GradingTypes
  <2>3. ASSUME NEW q \in Runs
        PROVE  /\ run'[q] \in RunState /\ run'[q].head = run[q].head
               /\ run'[q].at = "waiting" <=> run[q].at = "waiting"
               /\ run'[q].at \in InPacket => run'[q].todo # {}
    <3>1. /\ run[q] \in RunState
          /\ run[q].at \in InPacket => run[q].todo # {}
      BY DEF GradingInv, GradingTypes, Begun
    <3>2. run'[q] = IF Active(q) THEN [run[q] EXCEPT !.at = "killed"]
                    ELSE run[q]
      BY <1>5 DEF Crash
    <3> QED  BY <3>1, <3>2 DEF Active, RunState, Stages, InPacket
  <2>4. run' \in [Runs -> RunState] /\ Begun'
    BY <1>5, <2>3 DEF Crash, GradingInv, Begun, Pr, github
  <2> QED  BY <1>5, <2>1, <2>2, <2>4
           DEF Crash, GradingInv, GradingTypes, github, Values
<1> QED  BY <1>2, <1>3, <1>4, <1>5

LEMMA GradingInvInit == Init => GradingInv
<1> SUFFICES ASSUME Init PROVE GradingInv
  OBVIOUS
<1>1. StateTypeOK
  BY StateInitTyped DEF Init
<1>2. NewRun \in RunState
  BY DEF NewRun, RunState, Stages, Values
<1>3. GradingTypes
  BY <1>2, GradingAssumption
     DEF Init, GradingTypes, Statuses, TmpFile, NoFile, Values
<1>4. Begun
  BY DEF Init, Begun, NewRun, InPacket
<1> QED  BY <1>1, <1>3, <1>4 DEF GradingInv

LEMMA GradingInvStep == GradingInv /\ [Next]_vars => GradingInv'
<1> SUFFICES ASSUME GradingInv, [Next]_vars PROVE GradingInv'
  OBVIOUS
<1>1. CASE UNCHANGED vars
  BY <1>1, StateUnchanged
     DEF vars, github, ledger, bounds, GradingInv, GradingTypes, Begun, Pr
<1>2. CASE \E r \in Runs : RunStep(r)
  BY <1>2, LocalTyped, StatusTyped, CommentTyped, PinTyped, TmpTyped
     DEF RunStep
<1>3. CASE \E r \in Runs : Raise(r)
  BY <1>3, RaiseTyped
<1>4. CASE \E r \in Runs, h \in Heads : Receive(r, h)
  BY <1>4, ReceiveTyped
<1> QED  BY <1>1, <1>2, <1>3, <1>4, PeopleTyped, DaemonTyped DEF Next

\* The type invariant of the grading gate, whatever is pushed, however the
\* runs overlap and wherever calls raise or the daemon dies: in particular a
\* run always grades a head that was pushed and a packet that is in its list.
THEOREM GradingTyped == Spec => []TypeOK
BY GradingInvInit, GradingInvStep, IsTypeOK, PTL DEF Spec
-----------------------------------------------------------------------------
(* No head is left without a verdict *)

\* The stages before the first status is posted, those from which a run goes
\* on to post one, and those after the last.
Early == {"fetch", "notPacket", "pending"}
Owing == {"parent", "notIndexed", "pin", "pinning", "packet", "open", "write",
          "writeGone", "parse", "unlink", "unlinkLost", "grade", "list",
          "comment", "final", "error"}
Over  == {"explainList", "explain", "unpin", "unpinning", "done"}

Disturbed(r) == run[r].raised \/ run[r].at = "killed"
Unsettled(r) == run[r].at \in Early \cup Owing \/ Disturbed(r)
Late(r)      == run[r].at \in Owing \cup Over /\ ~Disturbed(r)

\* HeldUpOnlyByFaults, made inductive: a pending head has a run that still
\* owes it a status or was disturbed, and no undisturbed run of a head that
\* has no status is past its first post.
OwedInv ==
    \A h \in Heads :
        /\ commitStatus[h] = "pending" =>
              \E r \in Runs : run[r].head = h /\ Unsettled(r)
        /\ commitStatus[h] = "none" =>
              \A r \in Runs : run[r].head = h => ~Late(r)

\* Steps that post no status ...
Calm ==
    /\ commitStatus' = commitStatus
    /\ \A q \in Runs :
          /\ Late(q)' => Late(q) /\ run'[q].head = run[q].head
          /\ Unsettled(q) /\ run[q].head # 0
                => Unsettled(q)' /\ run'[q].head = run[q].head

LEMMA CalmOwed ==
    ASSUME OwedInv, Calm
    PROVE  OwedInv'
<1> SUFFICES ASSUME NEW h \in Heads
             PROVE  /\ commitStatus'[h] = "pending" =>
                         \E q \in Runs : run'[q].head = h /\ Unsettled(q)'
                    /\ commitStatus'[h] = "none" =>
                         \A q \in Runs : run'[q].head = h => ~Late(q)'
  BY DEF OwedInv
<1>1. h # 0
  BY GradingAssumption
<1> QED  BY <1>1 DEF OwedInv, Calm

\* ... and steps of run r that do.
Posts(r) ==
    /\ run[r].at \in StatusPosts /\ PostStatus(r)
    /\ \A q \in Runs \ {r} : run'[q] = run[q]
    /\ run'[r].head = run[r].head
    /\ run[r].at = "pending" => Unsettled(r)'

LEMMA PostsOwed ==
    ASSUME GradingInv, OwedInv, NEW r \in Runs, Posts(r)
    PROVE  OwedInv'
<1>1. /\ run[r] \in RunState /\ run[r].head \in Heads
      /\ commitStatus \in [Heads -> Statuses]
  BY PrTyped DEF GradingInv, GradingTypes, Posts, StatusPosts
<1>2. /\ Posting(run[r]) # "none"
      /\ Posting(run[r]) = "pending" => run[r].at = "pending"
  BY DEF Posts, Posting, StatusPosts
<1>3. commitStatus' = [commitStatus EXCEPT ![run[r].head] = Posting(run[r])]
  BY DEF Posts, PostStatus
<1>4. ASSUME NEW q \in Runs \ {r}
      PROVE  /\ run'[q].head = run[q].head
             /\ Unsettled(q)' <=> Unsettled(q)
             /\ Late(q)' <=> Late(q)
  BY DEF Posts, Unsettled, Late, Disturbed
<1> SUFFICES ASSUME NEW h \in Heads
             PROVE  /\ commitStatus'[h] = "pending" =>
                         \E q \in Runs : run'[q].head = h /\ Unsettled(q)'
                    /\ commitStatus'[h] = "none" =>
                         \A q \in Runs : run'[q].head = h => ~Late(q)'
  BY DEF OwedInv
<1>5. CASE h = run[r].head
  BY <1>1, <1>2, <1>3, <1>5 DEF Posts
<1>6. CASE h # run[r].head
  BY <1>1, <1>3, <1>4, <1>6 DEF Posts, OwedInv
<1> QED  BY <1>5, <1>6

\* A run goes on without posting, on the same side of its posts as before.
Moves(r) ==
    /\ commitStatus' = commitStatus
    /\ \A q \in Runs \ {r} : run'[q] = run[q]
    /\ run'[r].head = run[r].head
    /\ run[r].raised => run'[r].raised
    /\ \/ run[r].at \in Early /\ run'[r].at \in Early
       \/ run[r].at \in Owing /\ run'[r].at \in Owing
       \/ run[r].at \in Over /\ run'[r].at \in Over
       \/ run'[r].raised

LEMMA MovesCalm ==
    ASSUME NEW r \in Runs, Moves(r)
    PROVE  Calm
<1> SUFFICES ASSUME NEW q \in Runs
             PROVE  /\ Late(q)' => Late(q) /\ run'[q].head = run[q].head
                    /\ Unsettled(q) /\ run[q].head # 0
                          => Unsettled(q)' /\ run'[q].head = run[q].head
  BY DEF Calm, Moves
<1>1. CASE q = r
  BY <1>1 DEF Moves, Late, Unsettled, Disturbed, Early, Owing, Over
<1>2. CASE q # r
  BY <1>2 DEF Moves, Late, Unsettled, Disturbed
<1> QED  BY <1>1, <1>2

\* What Goto does, field by field.
LEMMA GotoFields ==
    ASSUME run \in [Runs -> RunState], NEW r \in Runs, NEW s, Goto(r, s)
    PROVE  /\ \A q \in Runs \ {r} : run'[q] = run[q]
           /\ run'[r] = [run[r] EXCEPT !.at = s]
           /\ run'[r].at = s /\ run'[r].head = run[r].head
           /\ run'[r].raised = run[r].raised
<1>1. run[r] \in RunState
  OBVIOUS
<1>2. run'[r] = [run[r] EXCEPT !.at = s]
  BY DEF Goto
<1> QED  BY <1>1, <1>2 DEF Goto, RunState

LEMMA GotoMoves ==
    ASSUME GradingInv, NEW r \in Runs,
           \/ FetchBody(r) \/ OpenTmp(r) \/ WriteTmp(r) \/ WriteGone(r)
           \/ EndPackets(r) \/ WriteComment(r) \/ WriteExplanation(r)
           \/ PinRead(r) \/ UnpinRead(r) \/ UnpinWrite(r)
    PROVE  Moves(r)
<1>1. run \in [Runs -> RunState] /\ run[r] \in RunState
  BY DEF GradingInv, GradingTypes
<1>2. commitStatus' = commitStatus
  BY DEF FetchBody, OpenTmp, WriteTmp, WriteGone, EndPackets, WriteComment,
         WriteExplanation, PinRead, UnpinRead, UnpinWrite, github
<1>3. \E s \in Stages :
         /\ Goto(r, s)
         /\ \/ run[r].at \in Owing /\ s \in Owing
            \/ run[r].at \in Over /\ s \in Over
  BY <1>1, ExitStage
     DEF FetchBody, OpenTmp, WriteTmp, WriteGone, EndPackets, WriteComment,
         WriteExplanation, PinRead, UnpinRead, UnpinWrite, Owing, Over, Stages
<1> QED  BY <1>1, <1>2, <1>3, GotoFields DEF Moves

LEMMA OtherMoves ==
    ASSUME GradingInv, NEW r \in Runs,
           \/ FetchFiles(r) \/ FindParent(r) \/ PinWrite(r) \/ SkipPacket(r)
           \/ ParseTmp(r) \/ ParseNothing(r) \/ GradePacket(r)
           \/ ListComments(r)
    PROVE  Moves(r)
<1> USE DEF Moves, github, RunState, Early, Owing, Over
<1>1. run \in [Runs -> RunState] /\ run[r] \in RunState
  BY DEF GradingInv, GradingTypes
<1>2. CASE FetchFiles(r)
  BY <1>1, <1>2 DEF FetchFiles
<1>3. CASE FindParent(r)
  BY <1>1, <1>3 DEF FindParent
<1>4. CASE PinWrite(r)
  BY <1>1, <1>4 DEF PinWrite
<1>5. CASE SkipPacket(r)
  BY <1>1, <1>5 DEF SkipPacket
<1>6. CASE ParseTmp(r)
  BY <1>1, <1>6 DEF ParseTmp
<1>7. CASE ParseNothing(r)
  BY <1>1, <1>7 DEF ParseNothing
<1>8. CASE GradePacket(r)
  BY <1>1, <1>8 DEF GradePacket
<1>9. CASE ListComments(r)
  <2>1. PICK i :
           run' = [run EXCEPT
                     ![r].at = IF @ = "list" THEN "comment" ELSE "explain",
                     ![r].target = i]
    BY <1>9 DEF ListComments
  <2>2. run[r].at \in {"list", "explainList"} /\ commitStatus' = commitStatus
    BY <1>9 DEF ListComments
  <2> DEFINE x == [run[r] EXCEPT
                     !.at = IF @ = "list" THEN "comment" ELSE "explain",
                     !.target = i]
  <2>3. run' = [run EXCEPT ![r] = x]
    BY <1>1, <2>1
  <2>4. /\ x.at = IF run[r].at = "list" THEN "comment" ELSE "explain"
        /\ x.head = run[r].head /\ x.raised = run[r].raised
    BY <1>1
  <2> HIDE DEF x
  <2> QED  BY <1>1, <2>2, <2>3, <2>4
<1> QED  BY <1>2, <1>3, <1>4, <1>5, <1>6, <1>7, <1>8, <1>9

\* The steps that end with a status posted.
LEMMA PostsStatus ==
    ASSUME GradingInv, NEW r \in Runs,
           \/ PostNotPacket(r) \/ PostPending(r) \/ PostNotIndexed(r)
           \/ PostFinal(r) \/ PostError(r)
    PROVE  Posts(r)
<1>1. run \in [Runs -> RunState] /\ run[r] \in RunState
  BY DEF GradingInv, GradingTypes
<1>2. PostStatus(r) /\ run[r].at \in StatusPosts
  BY DEF PostNotPacket, PostPending, PostNotIndexed, PostFinal, PostError,
         StatusPosts
<1>3. CASE PostPending(r)
  BY <1>1, <1>2, <1>3
     DEF PostPending, Posts, RunState, Unsettled, Owing
<1>4. CASE PostNotPacket(r) \/ PostNotIndexed(r) \/ PostFinal(r) \/ PostError(r)
  <2>1. PICK s : Goto(r, s) /\ run[r].at # "pending"
    BY <1>4 DEF PostNotPacket, PostNotIndexed, PostFinal, PostError
  <2> QED  BY <1>1, <1>2, <2>1, GotoFields DEF Posts
<1> QED  BY <1>3, <1>4

LEMMA RaiseOwed ==
    ASSUME GradingInv, OwedInv, NEW r \in Runs, Raise(r)
    PROVE  OwedInv'
<1>1. run \in [Runs -> RunState] /\ run[r] \in RunState
  BY DEF GradingInv, GradingTypes
<1> DEFINE x == [run[r] EXCEPT !.at = Handler(run[r]), !.raised = TRUE]
<1>2. run' = [run EXCEPT ![r] = x] /\ x.head = run[r].head /\ x.raised
  BY <1>1 DEF Raise, RunState
<1> HIDE DEF x
<1>3. /\ \A q \in Runs \ {r} : run'[q] = run[q]
      /\ run'[r].head = run[r].head /\ run'[r].raised
  BY <1>1, <1>2
<1>4. CASE commitStatus' = commitStatus
  <2>1. Moves(r)
    BY <1>3, <1>4 DEF Moves
  <2> QED  BY <2>1, MovesCalm, CalmOwed
<1>5. CASE run[r].at \in StatusPosts /\ PostStatus(r)
  <2>1. Posts(r)
    BY <1>3, <1>5 DEF Posts, Unsettled, Disturbed
  <2> QED  BY <2>1, PostsOwed
<1> QED  BY <1>4, <1>5 DEF Raise

\* Steps that change several runs, or begin one.
LEMMA UnlinkCalm ==
    ASSUME GradingInv, NEW r \in Runs, UnlinkTmp(r)
    PROVE  Calm
<1> SUFFICES ASSUME NEW q \in Runs
             PROVE  /\ Late(q)' => Late(q) /\ run'[q].head = run[q].head
                    /\ Unsettled(q) /\ run[q].head # 0
                          => Unsettled(q)' /\ run'[q].head = run[q].head
  BY DEF Calm, UnlinkTmp, github
<1>1. run[q] \in RunState /\ run[r] \in RunState
  BY DEF GradingInv, GradingTypes
<1>2. CASE run'[q] = run[q]
  BY <1>2 DEF Late, Unsettled, Disturbed
<1>3. CASE /\ run[q].at \in Owing /\ run'[q].at \in Owing
           /\ run'[q].head = run[q].head
           /\ run'[q].raised = run[q].raised
  BY <1>3 DEF Late, Unsettled, Disturbed, Owing
<1>4. CASE q = r
  BY <1>1, <1>3, <1>4 DEF UnlinkTmp, Owing, RunState
<1>5. CASE q # r /\ run[q].at = "write" /\ Pr(q) = Pr(r)
  BY <1>1, <1>3, <1>5 DEF UnlinkTmp, Owing, RunState
<1> QED  BY <1>2, <1>4, <1>5 DEF UnlinkTmp

LEMMA CrashCalm ==
    ASSUME GradingInv, Crash
    PROVE  Calm
<1> SUFFICES ASSUME NEW q \in Runs
             PROVE  /\ Late(q)' => Late(q) /\ run'[q].head = run[q].head
                    /\ Unsettled(q) /\ run[q].head # 0
                          => Unsettled(q)' /\ run'[q].head = run[q].head
  BY DEF Calm, Crash, github
<1>1. run[q] \in RunState
  BY DEF GradingInv, GradingTypes
<1>2. run'[q] = IF Active(q) THEN [run[q] EXCEPT !.at = "killed"] ELSE run[q]
  BY DEF Crash
<1> QED  BY <1>1, <1>2 DEF Late, Unsettled, Disturbed, RunState

LEMMA ReceiveCalm ==
    ASSUME GradingInv, NEW r \in Runs, NEW h \in Heads, Receive(r, h)
    PROVE  Calm
<1>1. run \in [Runs -> RunState] /\ run[r] \in RunState
  BY DEF GradingInv, GradingTypes
<1>2. run[r].at = "waiting" /\ run[r].head = 0
  BY DEF Receive, GradingInv, Begun
<1> DEFINE x == [run[r] EXCEPT !.at = "fetch", !.head = h]
<1>3. run' = [run EXCEPT ![r] = x] /\ x.at = "fetch"
  BY <1>1 DEF Receive, RunState
<1> HIDE DEF x
<1>4. commitStatus' = commitStatus
  BY DEF Receive, github
<1> QED  BY <1>1, <1>2, <1>3, <1>4
         DEF Calm, Late, Unsettled, Disturbed, Owing, Over

LEMMA OwedStep == GradingInv /\ OwedInv /\ [Next]_vars => OwedInv'
<1> SUFFICES ASSUME GradingInv, OwedInv, [Next]_vars PROVE OwedInv'
  OBVIOUS
<1>1. CASE UNCHANGED <<commitStatus, run>>
  BY <1>1, CalmOwed DEF Calm, Late, Unsettled, Disturbed
<1>2. CASE \E r \in Runs : RunStep(r)
  <2>1. PICK r \in Runs : RunStep(r)
    BY <1>2
  <2>2. Posts(r) \/ Moves(r) \/ UnlinkTmp(r)
    BY <2>1, PostsStatus, GotoMoves, OtherMoves DEF RunStep
  <2> QED  BY <2>2, PostsOwed, MovesCalm, UnlinkCalm, CalmOwed
<1>3. CASE \E r \in Runs : Raise(r)
  BY <1>3, RaiseOwed
<1>4. CASE \E r \in Runs, h \in Heads : Receive(r, h)
  BY <1>4, ReceiveCalm, CalmOwed
<1>5. CASE Crash
  BY <1>5, CrashCalm, CalmOwed
<1> QED  BY <1>1, <1>2, <1>3, <1>4, <1>5
         DEF Next, vars, github, Push, Talk, WorkerRecords, WorkerReads,
             WorkerWrites

LEMMA OwedInit == Init => OwedInv
BY DEF Init, OwedInv, NewRun, Late, Owing, Over

LEMMA OwedSettles == GradingInv /\ OwedInv => HeldUpOnlyByFaults
BY DEF OwedInv, HeldUpOnlyByFaults, Unsettled, Late, Disturbed, Early, Owing,
       Over

\* When the last run of a head has ended, its status is final, unless a call
\* raised or the daemon died: for any number of pull requests, of heads and
\* of runs, in any overlap.
THEOREM VerdictArrives == Spec => []HeldUpOnlyByFaults
BY GradingInvInit, GradingInvStep, OwedInit, OwedStep, OwedSettles, PTL
   DEF Spec
=============================================================================
