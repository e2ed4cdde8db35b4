------------------------- MODULE PrGradingPassProofs -------------------------
(***************************************************************************)
(* What makes a pass earned: as long as the runs of a pull request take    *)
(* turns, each reads back from the temporary file the very body it wrote,  *)
(* and its verdict covers every packet of the list it started from. (With  *)
(* overlapping runs that is false: run GradingMixup.) What keeps a pull    *)
(* request to one comment, which agrees with the status: each run finds    *)
(* the comment of the run before and nobody else writes it. And when the   *)
(* pin of the last run is gone for good and the state file is written one  *)
(* key at a time.                                                          *)
(***************************************************************************)
EXTENDS PrGradingProofs, FiniteSetTheorems

Earned(h, k) == <<h, k>> \in Passing \/ <<h, k>> \notin Readable

\* k is in every file list a run of h may have been given.
Listed(h, k) ==
    \A g \in Heads :
        PrOf[g] = PrOf[h] /\ h <= g /\ g <= tip[PrOf[h]] => k \in Touched[g]

\* The body the run is about to grade.
Body(r) == <<run[r].head, Current(run[r])>>

Closing == {"list", "comment", "final"}
Grading == {"pending", "parent", "pin", "pinning", "packet", "open", "write",
            "parse", "unlink", "unlinkLost", "grade"} \cup Closing

\* The temporary file and the text read from it are the run's own.
OwnBody(r) ==
    /\ run[r].at = "write" => tmp[Pr(r)].text = {}
    /\ run[r].at = "parse" => tmp[Pr(r)].text = {Body(r)}
    /\ run[r].at \in {"unlink", "grade"} => run[r].text = {Body(r)}
    /\ run[r].at # "writeGone"

\* A packet that is listed is still to do, or earned, or known to have failed.
Covers(r) ==
    /\ run[r].at \in Grading =>
          \A k \in Touched[run[r].head] :
              Listed(run[r].head, k) =>
                  \/ k \in run[r].todo
                  \/ Earned(run[r].head, k)
                  \/ <<k, FALSE>> \in run[r].graded
    /\ run[r].at \in Closing => run[r].todo = {}

TakeTurns ==
    \A q, r \in Runs : Active(q) /\ Active(r) /\ Pr(q) = Pr(r) => q = r

TipsOwn == \A p \in PRs : tip[p] # 0 => PrOf[tip[p]] = p

EarnInv ==
    /\ TipsOwn /\ TakeTurns
    /\ \A r \in Runs : OwnBody(r) /\ Covers(r)
    /\ PassIsEarned

\* The file lists a run may have been given only become more.
LEMMA ListedLater ==
    ASSUME GradingInv, NEW h \in Heads, NEW k, tip' \in [PRs -> Heads \cup {0}],
           tip[PrOf[h]] <= tip'[PrOf[h]], Listed(h, k)'
    PROVE  Listed(h, k)
<1>1. PrOf[h] \in PRs
  BY GradingAssumption
<1>2. Heads \cup {0} \subseteq Nat
  BY GradingAssumption
<1>3. tip[PrOf[h]] \in Heads \cup {0} /\ tip'[PrOf[h]] \in Heads \cup {0}
  BY <1>1 DEF GradingInv, GradingTypes
<1>4. ASSUME NEW g \in Heads, g <= tip[PrOf[h]]
      PROVE  g <= tip'[PrOf[h]]
  <2>1. g \in Nat /\ tip[PrOf[h]] \in Nat /\ tip'[PrOf[h]] \in Nat
    BY <1>2, <1>3
  <2> QED  BY <1>4, <2>1
<1> QED  BY <1>4 DEF Listed

\* What a step leaves alone stays as it was.
LEMMA RunKept ==
    ASSUME GradingInv, NEW r \in Runs, OwnBody(r), Covers(r),
           run'[r] = run[r],
           Active(r) => tmp'[Pr(r)] = tmp[Pr(r)],
           tip' \in [PRs -> Heads \cup {0}],
           \A p \in PRs : tip[p] <= tip'[p]
    PROVE  OwnBody(r)' /\ Covers(r)'
<1>1. Pr(r)' = Pr(r) /\ Body(r)' = Body(r)
  BY DEF Pr, Body
<1>2. OwnBody(r)'
  <2>1. run[r].at \in {"write", "parse"} => Active(r)
    BY DEF Active, Ended
  <2> QED  BY <1>1, <2>1 DEF OwnBody
<1>3. Covers(r)'
  <2> SUFFICES ASSUME run[r].at \in Grading, NEW k \in Touched[run[r].head],
                      Listed(run[r].head, k)'
               PROVE  \/ k \in run[r].todo
                      \/ Earned(run[r].head, k)
                      \/ <<k, FALSE>> \in run[r].graded
    BY DEF Covers, Listed, Earned
  <2>1. run[r].at # "waiting" /\ run \in [Runs -> RunState] /\ Begun
    BY DEF Grading, Closing, GradingInv, GradingTypes
  <2>2. run[r].head \in Heads /\ PrOf[run[r].head] \in PRs
    BY <2>1, PrTyped DEF Pr
  <2>3. Listed(run[r].head, k)
    BY <2>2, ListedLater
  <2> QED  BY <2>3 DEF Covers
<1> QED  BY <1>2, <1>3

LEMMA PassKept ==
    ASSUME GradingInv, PassIsEarned, commitStatus' = commitStatus,
           tip' \in [PRs -> Heads \cup {0}],
           \A p \in PRs : tip[p] <= tip'[p]
    PROVE  PassIsEarned'
<1> SUFFICES ASSUME NEW h \in Heads, commitStatus[h] = "passed",
                    NEW k \in Touched[h], Listed(h, k)'
             PROVE  Earned(h, k)
  BY DEF PassIsEarned, Earned, Listed
<1>1. PrOf[h] \in PRs
  BY GradingAssumption
<1>2. Listed(h, k)
  BY <1>1, ListedLater
<1> QED  BY <1>2 DEF PassIsEarned, Earned, Listed

LEMMA TurnsKept ==
    ASSUME TakeTurns,
           \A q \in Runs : Active(q)' => Active(q) /\ run'[q].head = run[q].head
    PROVE  TakeTurns'
BY DEF TakeTurns, Pr
-----------------------------------------------------------------------------
(* A step of run r; the others, and their temporary files, stay as they are. *)

Alone(r) ==
    /\ Active(r) /\ run[r].head \in Heads /\ run'[r].head = run[r].head
    /\ \A q \in Runs \ {r} : run'[q] = run[q]
    /\ \A p \in PRs \ {Pr(r)} : tmp'[p] = tmp[p]
    /\ tip' = tip

LEMMA AloneKept ==
    ASSUME GradingInv, EarnInv, NEW r \in Runs, Alone(r),
           OwnBody(r)', Covers(r)', PassIsEarned'
    PROVE  EarnInv'
<1>1. TakeTurns'
  <2> SUFFICES ASSUME NEW q \in Runs, Active(q)'
               PROVE  Active(q) /\ run'[q].head = run[q].head
    BY TurnsKept DEF EarnInv
  <2> QED  BY DEF Alone, Active
<1>2. ASSUME NEW q \in Runs, q # r
      PROVE  OwnBody(q)' /\ Covers(q)'
  <2>1. tip' \in [PRs -> Heads \cup {0}] /\ \A p \in PRs : tip[p] <= tip'[p]
    <3>1. tip \in [PRs -> Heads \cup {0}] /\ Heads \cup {0} \subseteq Nat
      BY GradingAssumption DEF GradingInv, GradingTypes
    <3> QED  BY <3>1 DEF Alone
  <2>2. ASSUME Active(q)
        PROVE  tmp'[Pr(q)] = tmp[Pr(q)]
    <3>1. Pr(q) # Pr(r)
      BY <1>2, <2>2 DEF EarnInv, TakeTurns, Alone
    <3>2. Pr(q) \in PRs
      BY <2>2, PrTyped DEF Active, GradingInv, GradingTypes
    <3> QED  BY <3>1, <3>2 DEF Alone
  <2> QED  BY <1>2, <2>1, <2>2, RunKept DEF Alone, EarnInv
<1>3. TipsOwn'
  BY DEF EarnInv, TipsOwn, Alone
<1> QED  BY <1>1, <1>2, <1>3 DEF EarnInv

LEMMA CoversOn ==
    ASSUME NEW r \in Runs, Covers(r), tip' = tip,
           run'[r].head = run[r].head,
           run'[r].at \in Grading => run[r].at \in Grading,
           run[r].graded \subseteq run'[r].graded,
           \A k \in run[r].todo : \/ k \in run'[r].todo
                                  \/ Earned(run[r].head, k)
                                  \/ <<k, FALSE>> \in run'[r].graded,
           run'[r].at \in Closing => run'[r].todo = {}
    PROVE  Covers(r)'
<1> SUFFICES ASSUME run'[r].at \in Grading, NEW k \in Touched[run[r].head],
                    Listed(run[r].head, k)
             PROVE  \/ k \in run'[r].todo
                    \/ Earned(run[r].head, k)
                    \/ <<k, FALSE>> \in run'[r].graded
  BY DEF Covers, Listed, Earned
<1> QED  BY DEF Covers

\* A pass is posted only at the end, when all that was listed is earned.
LEMMA PostEarned ==
    ASSUME GradingInv, EarnInv, NEW r \in Runs, PostStatus(r), tip' = tip,
           run[r].at \in StatusPosts
    PROVE  PassIsEarned'
<1>1. /\ run[r].head \in Heads /\ commitStatus \in [Heads -> Statuses]
  BY PrTyped DEF GradingInv, GradingTypes, StatusPosts
<1> SUFFICES ASSUME NEW h \in Heads, commitStatus'[h] = "passed",
                    NEW k \in Touched[h], Listed(h, k)
             PROVE  Earned(h, k)
  BY DEF PassIsEarned, Earned, Listed
<1>2. CASE h # run[r].head
  <2>1. commitStatus[h] = "passed"
    BY <1>1, <1>2 DEF PostStatus
  <2> QED  BY <2>1 DEF EarnInv, PassIsEarned, Earned, Listed
<1>3. CASE h = run[r].head
  <2>1. Posting(run[r]) = "passed"
    BY <1>1, <1>3 DEF PostStatus
  <2>2. run[r].at = "final" /\ \A g \in run[r].graded : g[2]
    BY <2>1 DEF Posting, StatusPosts
  <2>3. <<k, FALSE>> \notin run[r].graded /\ run[r].todo = {}
    BY <2>2 DEF EarnInv, Covers, Closing
  <2> QED  BY <1>3, <2>2, <2>3 DEF EarnInv, Covers, Grading, Closing
<1> QED  BY <1>2, <1>3
-----------------------------------------------------------------------------
LEMMA SameTip ==
    ASSUME GradingInv, tip' = tip
    PROVE  /\ tip' \in [PRs -> Heads \cup {0}]
           /\ \A p \in PRs : tip[p] <= tip'[p]
<1>1. tip \in [PRs -> Heads \cup {0}] /\ Heads \cup {0} \subseteq Nat
  BY GradingAssumption DEF GradingInv, GradingTypes
<1> QED  BY <1>1

\* Steps that only move the run, outside of the life of the temporary file.
Walks(r, s) ==
    /\ Goto(r, s) /\ UNCHANGED <<tip, tmp>>
    /\ Active(r)
    /\ s \notin {"write", "parse", "unlink", "grade", "writeGone"}
    /\ s \in Grading => run[r].at \in Grading
    /\ s \in Closing => run[r].at \in Closing \/ run[r].todo = {}

LEMMA WalkKept ==
    ASSUME GradingInv, EarnInv, NEW r \in Runs, NEW s, Walks(r, s)
    PROVE  OwnBody(r)' /\ Covers(r)' /\ Alone(r)
<1>1. run \in [Runs -> RunState] /\ run[r] \in RunState /\ Begun
  BY DEF GradingInv, GradingTypes
<1>2. /\ \A q \in Runs \ {r} : run'[q] = run[q]
      /\ run'[r] = [run[r] EXCEPT !.at = s] /\ run'[r].at = s
      /\ run'[r].head = run[r].head
  BY <1>1, GotoFields DEF Walks
<1>3. run'[r].todo = run[r].todo /\ run'[r].graded = run[r].graded
  BY <1>1, <1>2 DEF RunState
<1>4. run[r].head \in Heads
  BY <1>1, PrTyped DEF Walks, Active
<1>5. OwnBody(r)'
  BY <1>2 DEF OwnBody, Walks
<1>6. Covers(r)'
  <2>1. s \in Closing => run[r].todo = {}
    BY DEF Walks, EarnInv, Covers
  <2> QED  BY <1>2, <1>3, <2>1, CoversOn DEF Walks, EarnInv
<1>7. Alone(r)
  BY <1>2, <1>4 DEF Alone, Walks
<1> QED  BY <1>5, <1>6, <1>7

LEMMA GotoWalks ==
    ASSUME GradingInv, EarnInv, NEW r \in Runs,
           \/ PostNotPacket(r) \/ PostNotIndexed(r) \/ PinRead(r)
           \/ FetchBody(r) \/ WriteGone(r) \/ EndPackets(r)
           \/ WriteComment(r) \/ WriteExplanation(r) \/ PostFinal(r)
           \/ PostError(r) \/ UnpinRead(r) \/ UnpinWrite(r)
    PROVE  \E s : Walks(r, s)
<1> USE DEF Active, Ended, Grading, Closing, github
<1>1. CASE PostNotPacket(r) \/ WriteExplanation(r) \/ PostFinal(r) \/ PostError(r)
  <2>1. run[r] \in RunState
    BY DEF GradingInv, GradingTypes
  <2>2. Walks(r, Exit(run[r]))
    BY <1>1, <2>1, ExitStage
       DEF PostNotPacket, WriteExplanation, PostFinal, PostError, Walks
  <2> QED  BY <2>2
<1>2. CASE PostNotIndexed(r)
  BY <1>2 DEF PostNotIndexed, Walks
<1>3. CASE PinRead(r)
  BY <1>3 DEF PinRead, Walks
<1>4. CASE FetchBody(r)
  BY <1>4 DEF FetchBody, Walks
<1>5. CASE WriteGone(r)
  BY <1>5 DEF WriteGone, EarnInv, OwnBody
<1>6. CASE EndPackets(r)
  BY <1>6 DEF EndPackets, Walks
<1>7. CASE WriteComment(r)
  BY <1>7 DEF WriteComment, Walks
<1>8. CASE UnpinRead(r)
  BY <1>8 DEF UnpinRead, Walks
<1>9. CASE UnpinWrite(r)
  BY <1>9 DEF UnpinWrite, Walks
<1> QED  BY <1>1, <1>2, <1>3, <1>4, <1>5, <1>6, <1>7, <1>8, <1>9

\* The run becomes x.
Becomes(r, x) ==
    /\ run' = [run EXCEPT ![r] = x]
    /\ Active(r) /\ tip' = tip
    /\ x.head = run[r].head

\* A change of the run that keeps off the temporary file.
LEMMA BecomesKept ==
    ASSUME GradingInv, EarnInv, NEW r \in Runs, NEW x \in RunState,
           Becomes(r, x), tmp' = tmp,
           x.at \notin {"write", "parse", "unlink", "grade", "writeGone"},
           x.at \in Grading => run[r].at \in Grading,
           run[r].graded \subseteq x.graded,
           \A k \in run[r].todo : \/ k \in x.todo
                                  \/ Earned(run[r].head, k)
                                  \/ <<k, FALSE>> \in x.graded,
           x.at \in Closing => x.todo = {}
    PROVE  OwnBody(r)' /\ Covers(r)' /\ Alone(r)
<1>1. run \in [Runs -> RunState] /\ Begun
  BY DEF GradingInv, GradingTypes
<1>2. run'[r] = x /\ \A q \in Runs \ {r} : run'[q] = run[q]
  BY <1>1 DEF Becomes
<1>3. run[r].head \in Heads
  BY <1>1, PrTyped DEF Becomes, Active
<1>4. Covers(r)'
  BY <1>2, CoversOn DEF Becomes, EarnInv
<1> QED  BY <1>2, <1>3, <1>4 DEF OwnBody, Alone, Becomes

LEMMA ChangeKept ==
    ASSUME GradingInv, EarnInv, NEW r \in Runs,
           \/ PostPending(r) \/ FindParent(r) \/ PinWrite(r) \/ SkipPacket(r)
           \/ ParseNothing(r) \/ ListComments(r)
    PROVE  OwnBody(r)' /\ Covers(r)' /\ Alone(r)
<1>1. run \in [Runs -> RunState] /\ run[r] \in RunState /\ Begun
  BY DEF GradingInv, GradingTypes
<1> USE DEF Active, Ended, Grading, Closing, github, Becomes, RunState, Stages
<1>2. CASE PostPending(r)
  <2> DEFINE x == [run[r] EXCEPT !.at = "parent", !.pending = TRUE]
  <2>1. x \in RunState /\ Becomes(r, x) /\ tmp' = tmp
    BY <1>1, <1>2 DEF PostPending
  <2>2. x.at = "parent" /\ x.todo = run[r].todo /\ x.graded = run[r].graded
    BY <1>1
  <2> HIDE DEF x
  <2> QED  BY <1>2, <2>1, <2>2, BecomesKept DEF PostPending
<1>3. CASE FindParent(r)
  <2> DEFINE base == BaseOf[run[r].head]
  <2> DEFINE x == [run[r] EXCEPT !.at = IF base \in indexed THEN "pin"
                                        ELSE "notIndexed",
                                 !.rev = IF base \in indexed THEN base
                                         ELSE NoRev]
  <2>1. base \in Revs
    BY <1>1, <1>3, PrTyped, GradingAssumption DEF FindParent
  <2>2. x \in RunState /\ Becomes(r, x) /\ tmp' = tmp
    BY <1>1, <1>3, <2>1 DEF FindParent, Values
  <2>3. /\ x.at \in {"pin", "notIndexed"}
        /\ x.todo = run[r].todo /\ x.graded = run[r].graded
    BY <1>1
  <2> HIDE DEF x
  <2> QED  BY <1>3, <2>2, <2>3, BecomesKept DEF FindParent
<1>4. CASE PinWrite(r)
  <2> DEFINE x == [run[r] EXCEPT !.at = "packet", !.pinned = TRUE]
  <2>1. x \in RunState /\ Becomes(r, x) /\ tmp' = tmp
    BY <1>1, <1>4 DEF PinWrite
  <2>2. x.at = "packet" /\ x.todo = run[r].todo /\ x.graded = run[r].graded
    BY <1>1
  <2> HIDE DEF x
  <2> QED  BY <1>4, <2>1, <2>2, BecomesKept DEF PinWrite
<1>5. CASE SkipPacket(r)
  <2> DEFINE x == [run[r] EXCEPT !.todo = @ \ {Current(run[r])}]
  <2>1. x \in RunState /\ Becomes(r, x) /\ tmp' = tmp
    BY <1>1, <1>5 DEF SkipPacket
  <2>2. /\ x.at = "packet" /\ x.todo = run[r].todo \ {Current(run[r])}
        /\ x.graded = run[r].graded
    BY <1>1, <1>5 DEF SkipPacket
  <2>3. Earned(run[r].head, Current(run[r]))
    BY <1>5 DEF SkipPacket, Earned
  <2> HIDE DEF x
  <2> QED  BY <1>5, <2>1, <2>2, <2>3, BecomesKept DEF SkipPacket
<1>6. CASE ParseNothing(r)
  <2> DEFINE x == [run[r] EXCEPT !.at = "unlinkLost", !.raised = TRUE]
  <2>1. x \in RunState /\ Becomes(r, x) /\ tmp' = tmp
    BY <1>1, <1>6 DEF ParseNothing
  <2>2. x.at = "unlinkLost" /\ x.todo = run[r].todo /\ x.graded = run[r].graded
    BY <1>1
  <2> HIDE DEF x
  <2> QED  BY <1>6, <2>1, <2>2, BecomesKept DEF ParseNothing
<1>7. CASE ListComments(r)
  <2>1. PICK i \in DOMAIN thread[Pr(r)] \cup {0} : run' = [run EXCEPT
                     ![r].at = IF @ = "list" THEN "comment" ELSE "explain",
                     ![r].target = i]
    BY <1>7 DEF ListComments, Ours
  <2>2. i \in Nat
    <3>1. thread[Pr(r)] \in Seq(Comment)
      BY <1>1, <1>7, PrTyped DEF ListComments, GradingInv, GradingTypes
    <3> QED  BY <2>1, <3>1
  <2> DEFINE x == [run[r] EXCEPT !.at = IF @ = "list" THEN "comment"
                                        ELSE "explain",
                                 !.target = i]
  <2>3. x \in RunState /\ Becomes(r, x) /\ tmp' = tmp
    BY <1>1, <1>7, <2>1, <2>2 DEF ListComments
  <2>4. /\ x.at = IF run[r].at = "list" THEN "comment" ELSE "explain"
        /\ x.todo = run[r].todo /\ x.graded = run[r].graded
    BY <1>1
  <2>5. Covers(r) /\ run[r].at \in {"list", "explainList"}
    BY <1>7 DEF ListComments, EarnInv
  <2>6. x.at \in Closing => run[r].at \in Closing /\ run[r].todo = {}
    BY <2>4, <2>5 DEF Covers
  <2> HIDE DEF x
  <2> QED  BY <1>7, <2>3, <2>4, <2>5, <2>6, BecomesKept DEF ListComments
<1> QED  BY <1>2, <1>3, <1>4, <1>5, <1>6, <1>7

\* The list of packets: whatever is listed is in it.
LEMMA FetchKept ==
    ASSUME GradingInv, EarnInv, NEW r \in Runs, FetchFiles(r)
    PROVE  OwnBody(r)' /\ Covers(r)' /\ Alone(r)
<1>1. /\ run \in [Runs -> RunState] /\ run[r] \in RunState /\ Begun
      /\ tip \in [PRs -> Heads \cup {0}]
  BY DEF GradingInv, GradingTypes
<1>2. run[r].head \in Heads /\ Pr(r) \in PRs
  BY <1>1, PrTyped DEF FetchFiles
<1> DEFINE touched == Touched[tip[Pr(r)]]
<1> DEFINE x == [run[r] EXCEPT !.at = IF touched = {} THEN "notPacket"
                                      ELSE "pending",
                               !.todo = touched]
<1>3. run' = [run EXCEPT ![r] = x] /\ tip' = tip /\ tmp' = tmp
  BY <1>1 DEF FetchFiles, github
<1>4. /\ x.head = run[r].head /\ x.todo = touched
      /\ x.at = IF touched = {} THEN "notPacket" ELSE "pending"
  BY <1>1 DEF RunState
<1>5. tip[Pr(r)] \in Heads /\ run[r].head <= tip[Pr(r)]
  BY <1>1, <1>2, GradingAssumption DEF FetchFiles, Begun
<1> HIDE DEF x
<1>6. run'[r] = x /\ \A q \in Runs \ {r} : run'[q] = run[q]
  BY <1>1, <1>3
<1>7. Covers(r)'
  <2>1. tip[Pr(r)] <= tip[Pr(r)]
    <3>1. tip[Pr(r)] \in Nat
      BY <1>5, GradingAssumption
    <3> QED  BY <3>1
  <2>2. PrOf[tip[Pr(r)]] = Pr(r)
    <3>1. tip[Pr(r)] # 0
      BY <1>5, GradingAssumption
    <3> QED  BY <1>2, <3>1 DEF EarnInv, TipsOwn
  <2> QED  BY <1>3, <1>4, <1>5, <1>6, <2>1, <2>2 DEF Covers, Listed, Pr, Closing
<1>8. OwnBody(r)'
  BY <1>4, <1>6 DEF OwnBody
<1>9. Alone(r)
  BY <1>2, <1>3, <1>4, <1>6 DEF Alone, FetchFiles, Active, Ended
<1> QED  BY <1>7, <1>8, <1>9
-----------------------------------------------------------------------------
(* The life of the temporary file *)

LEMMA OpenKept ==
    ASSUME GradingInv, EarnInv, NEW r \in Runs, OpenTmp(r)
    PROVE  OwnBody(r)' /\ Covers(r)' /\ Alone(r)
<1>1. /\ run \in [Runs -> RunState] /\ run[r] \in RunState /\ Begun
      /\ tmp \in [PRs -> TmpFile]
  BY DEF GradingInv, GradingTypes
<1>2. /\ \A q \in Runs \ {r} : run'[q] = run[q]
      /\ run'[r] = [run[r] EXCEPT !.at = "write"] /\ run'[r].at = "write"
      /\ run'[r].head = run[r].head
  BY <1>1, GotoFields DEF OpenTmp
<1>3. run'[r].todo = run[r].todo /\ run'[r].graded = run[r].graded
  BY <1>1, <1>2 DEF RunState
<1>4. run[r].head \in Heads /\ Pr(r) \in PRs /\ Pr(r)' = Pr(r)
  BY <1>1, <1>2, PrTyped DEF OpenTmp, Pr
<1>5. /\ tmp'[Pr(r)].text = {} /\ tip' = tip
      /\ \A p \in PRs \ {Pr(r)} : tmp'[p] = tmp[p]
  BY <1>1, <1>4 DEF OpenTmp, github
<1>6. OwnBody(r)'
  BY <1>2, <1>4, <1>5 DEF OwnBody
<1>7. Covers(r)'
  BY <1>2, <1>3, <1>5, CoversOn DEF OpenTmp, EarnInv, Grading, Closing
<1>8. Alone(r)
  BY <1>2, <1>4, <1>5 DEF OpenTmp, Alone, Active, Ended
<1> QED  BY <1>6, <1>7, <1>8

LEMMA WriteKept ==
    ASSUME GradingInv, EarnInv, NEW r \in Runs, WriteTmp(r)
    PROVE  OwnBody(r)' /\ Covers(r)' /\ Alone(r)
<1>1. /\ run \in [Runs -> RunState] /\ run[r] \in RunState /\ Begun
      /\ tmp \in [PRs -> TmpFile]
  BY DEF GradingInv, GradingTypes
<1>2. /\ \A q \in Runs \ {r} : run'[q] = run[q]
      /\ run'[r] = [run[r] EXCEPT !.at = "parse"] /\ run'[r].at = "parse"
      /\ run'[r].head = run[r].head
  BY <1>1, GotoFields DEF WriteTmp
<1>3. run'[r].todo = run[r].todo /\ run'[r].graded = run[r].graded
  BY <1>1, <1>2 DEF RunState
<1>4. run[r].head \in Heads /\ Pr(r) \in PRs /\ Pr(r)' = Pr(r)
  BY <1>1, <1>2, PrTyped DEF WriteTmp, Pr
<1>5. tmp[Pr(r)] \in TmpFile /\ tmp[Pr(r)].text = {}
  BY <1>1, <1>4 DEF WriteTmp, EarnInv, OwnBody
<1>6. PICK text \in {{Body(r)}, tmp[Pr(r)].text \cup {Body(r)}} :
         tmp' = [tmp EXCEPT ![Pr(r)].text = text]
  BY DEF WriteTmp, Body
<1>7. text = {Body(r)}
  BY <1>5, <1>6
<1>8. tmp'[Pr(r)] = [tmp[Pr(r)] EXCEPT !.text = text]
  BY <1>1, <1>4, <1>6
<1>9. tmp'[Pr(r)].text = {Body(r)}
  BY <1>5, <1>7, <1>8 DEF TmpFile
<1>10. tip' = tip /\ \A p \in PRs \ {Pr(r)} : tmp'[p] = tmp[p]
  BY <1>1, <1>6 DEF WriteTmp, github
<1>11. Body(r)' = Body(r)
  BY <1>2, <1>3 DEF Body, Current
<1>12. OwnBody(r)'
  BY <1>2, <1>4, <1>9, <1>11 DEF OwnBody
<1>13. Covers(r)'
  BY <1>2, <1>3, <1>10, CoversOn DEF WriteTmp, EarnInv, Grading, Closing
<1>14. Alone(r)
  BY <1>2, <1>4, <1>10 DEF WriteTmp, Alone, Active, Ended
<1> QED  BY <1>12, <1>13, <1>14

LEMMA ParseKept ==
    ASSUME GradingInv, EarnInv, NEW r \in Runs, ParseTmp(r)
    PROVE  OwnBody(r)' /\ Covers(r)' /\ Alone(r)
<1>1. run \in [Runs -> RunState] /\ run[r] \in RunState /\ Begun
  BY DEF GradingInv, GradingTypes
<1> DEFINE x == [run[r] EXCEPT !.at = "unlink", !.text = tmp[Pr(r)].text]
<1>2. run' = [run EXCEPT ![r] = x] /\ UNCHANGED <<tip, tmp>>
  BY <1>1 DEF ParseTmp, github
<1>3. /\ x.at = "unlink" /\ x.text = tmp[Pr(r)].text /\ x.head = run[r].head
      /\ x.todo = run[r].todo /\ x.graded = run[r].graded
  BY <1>1 DEF RunState
<1> HIDE DEF x
<1>4. run'[r] = x /\ \A q \in Runs \ {r} : run'[q] = run[q]
  BY <1>1, <1>2
<1>5. x.text = {Body(r)} /\ Body(r)' = Body(r)
  <2>1. tmp[Pr(r)].text = {Body(r)}
    BY DEF ParseTmp, EarnInv, OwnBody
  <2>2. Body(r)' = Body(r)
    BY <1>3, <1>4 DEF Body, Current
  <2> QED  BY <1>3, <2>1, <2>2
<1>6. OwnBody(r)'
  BY <1>3, <1>4, <1>5 DEF OwnBody
<1>7. Covers(r)'
  BY <1>2, <1>3, <1>4, CoversOn DEF ParseTmp, EarnInv, Grading, Closing
<1>8. run[r].head \in Heads
  BY <1>1, PrTyped DEF ParseTmp
<1>9. Alone(r)
  BY <1>2, <1>3, <1>4, <1>8 DEF ParseTmp, Alone, Active, Ended
<1> QED  BY <1>6, <1>7, <1>9

\* Nobody else has the file open: the other runs of the pull request are over.
LEMMA UnlinkKept ==
    ASSUME GradingInv, EarnInv, NEW r \in Runs, UnlinkTmp(r)
    PROVE  OwnBody(r)' /\ Covers(r)' /\ Alone(r)
<1>1. /\ run \in [Runs -> RunState] /\ run[r] \in RunState /\ Begun
      /\ tmp \in [PRs -> TmpFile]
  BY DEF GradingInv, GradingTypes
<1>2. Active(r) /\ run[r].head \in Heads
  BY <1>1, PrTyped DEF UnlinkTmp, Active, Ended
<1>3. ASSUME NEW q \in Runs \ {r}
      PROVE  run'[q] = run[q]
  <2>1. ~(run[q].at = "write" /\ Pr(q) = Pr(r))
    BY <1>2 DEF EarnInv, TakeTurns, Active, Ended
  <2> QED  BY <2>1 DEF UnlinkTmp
<1> DEFINE x == [run[r] EXCEPT !.at = IF @ = "unlink" THEN "grade" ELSE "error"]
<1>4. /\ x.at = (IF run[r].at = "unlink" THEN "grade" ELSE "error")
      /\ x.text = run[r].text /\ x.head = run[r].head
      /\ x.todo = run[r].todo /\ x.graded = run[r].graded
  BY <1>1 DEF RunState
<1>5. run'[r] = x
  BY DEF UnlinkTmp
<1> HIDE DEF x
<1>6. tip' = tip /\ \A p \in PRs \ {Pr(r)} : tmp'[p] = tmp[p]
  BY <1>1 DEF UnlinkTmp, github
<1>7. OwnBody(r)'
  <2>1. Body(r)' = Body(r)
    BY <1>4, <1>5 DEF Body, Current
  <2>2. run[r].at = "unlink" => run[r].text = {Body(r)}
    BY DEF EarnInv, OwnBody
  <2> QED  BY <1>4, <1>5, <2>1, <2>2 DEF OwnBody
<1>8. Covers(r)'
  <2>1. Covers(r) /\ run[r].at \in {"unlink", "unlinkLost"}
    BY DEF UnlinkTmp, EarnInv
  <2>2. run'[r].at \in {"grade", "error"}
    BY <1>4, <1>5
  <2> QED  BY <1>4, <1>5, <1>6, <2>1, <2>2, CoversOn DEF Grading, Closing
<1>9. Alone(r)
  BY <1>2, <1>3, <1>4, <1>5, <1>6 DEF Alone
<1> QED  BY <1>7, <1>8, <1>9

\* The text that is graded is the packet's own body, so a pass is earned.
LEMMA GradeKept ==
    ASSUME GradingInv, EarnInv, NEW r \in Runs, GradePacket(r)
    PROVE  OwnBody(r)' /\ Covers(r)' /\ Alone(r)
<1>1. run \in [Runs -> RunState] /\ run[r] \in RunState /\ Begun
  BY DEF GradingInv, GradingTypes
<1>2. PICK passed \in {FALSE, MayPass(run[r].text)} :
         run' = [run EXCEPT ![r].at = "packet",
                            ![r].graded = @ \cup {<<Current(run[r]), passed>>},
                            ![r].todo = @ \ {Current(run[r])}]
  BY DEF GradePacket
<1>3. passed = FALSE \/ Earned(run[r].head, Current(run[r]))
  <2>1. run[r].text = {Body(r)}
    BY DEF GradePacket, EarnInv, OwnBody
  <2>2. MayPass(run[r].text) => Body(r) \in Passing
    BY <2>1 DEF MayPass
  <2> QED  BY <1>2, <2>2 DEF Earned, Body, MayPass
<1> DEFINE x == [run[r] EXCEPT !.at = "packet",
                               !.graded = @ \cup {<<Current(run[r]), passed>>},
                               !.todo = @ \ {Current(run[r])}]
<1>4. Current(run[r]) \in Packets
  BY <1>1 DEF GradePacket, Current, Begun, InPacket, RunState
<1>5. x \in RunState
  <2>1. run[r].graded \cup {<<Current(run[r]), passed>>} \subseteq Packets \X BOOLEAN
    BY <1>1, <1>2, <1>4 DEF RunState, MayPass
  <2> QED  BY <1>1, <2>1 DEF RunState, Stages
<1>6. Becomes(r, x) /\ tmp' = tmp
  BY <1>1, <1>2 DEF GradePacket, Becomes, Active, Ended, github, RunState
<1>7. /\ x.at = "packet" /\ x.todo = run[r].todo \ {Current(run[r])}
      /\ x.graded = run[r].graded \cup {<<Current(run[r]), passed>>}
  BY <1>1 DEF RunState
<1> HIDE DEF x
<1> QED  BY <1>3, <1>5, <1>6, <1>7, BecomesKept DEF GradePacket, Grading, Closing

\* A call that raises ends the grading without a verdict.
LEMMA RaiseKept ==
    ASSUME GradingInv, EarnInv, NEW r \in Runs, Raise(r)
    PROVE  OwnBody(r)' /\ Covers(r)' /\ Alone(r) /\ PassIsEarned'
<1>1. run \in [Runs -> RunState] /\ run[r] \in RunState
  BY DEF GradingInv, GradingTypes
<1> DEFINE x == [run[r] EXCEPT !.at = Handler(run[r]), !.raised = TRUE]
<1>2. Handler(run[r]) \in {"unlinkLost", "error", "unpin", "done"}
  BY <1>1, HandlerStage
<1>3. x \in RunState
  BY <1>1, <1>2 DEF RunState, Stages
<1>4. Becomes(r, x) /\ tmp' = tmp
  BY <1>1 DEF Raise, Becomes, RunState, Active, Ended, StatusPosts,
              CommentPosts, OtherCalls
<1>5. /\ x.at = Handler(run[r])
      /\ x.todo = run[r].todo /\ x.graded = run[r].graded
  BY <1>1 DEF RunState
<1>6. x.at = "unlinkLost" => run[r].at = "parse"
  BY <1>5 DEF Handler, Exit
<1> HIDE DEF x
<1>7. OwnBody(r)' /\ Covers(r)' /\ Alone(r)
  BY <1>2, <1>3, <1>4, <1>5, <1>6, BecomesKept DEF Grading, Closing
<1>8. PassIsEarned'
  BY <1>4, PassKept, SameTip, PostEarned DEF Raise, Becomes, EarnInv
<1> QED  BY <1>7, <1>8
-----------------------------------------------------------------------------
LEMMA RunStepAlone ==
    ASSUME GradingInv, EarnInv, NEW r \in Runs, RunStep(r)
    PROVE  OwnBody(r)' /\ Covers(r)' /\ Alone(r)
BY GotoWalks, WalkKept, ChangeKept, FetchKept, OpenKept, WriteKept, ParseKept,
   UnlinkKept, GradeKept DEF RunStep

LEMMA RunStepKept ==
    ASSUME GradingInv, EarnInv, NEW r \in Runs, RunStep(r)
    PROVE  EarnInv'
<1>1. OwnBody(r)' /\ Covers(r)' /\ Alone(r)
  BY RunStepAlone
<1>2. \/ commitStatus' = commitStatus
      \/ PostStatus(r) /\ run[r].at \in StatusPosts
  BY DEF RunStep, FetchFiles, PostNotPacket, PostPending, FindParent,
         PostNotIndexed, PinRead, PinWrite, FetchBody, SkipPacket, OpenTmp,
         WriteTmp, WriteGone, ParseTmp, ParseNothing, UnlinkTmp, GradePacket,
         EndPackets, ListComments, WriteComment, WriteExplanation, PostFinal,
         PostError, UnpinRead, UnpinWrite, StatusPosts, github
<1>3. PassIsEarned'
  BY <1>1, <1>2, PassKept, SameTip, PostEarned DEF Alone, EarnInv
<1> QED  BY <1>1, <1>3, AloneKept

\* Steps of others.
LEMMA ElsewhereKept ==
    ASSUME GradingInv, EarnInv, run' = run, tmp' = tmp,
           commitStatus' = commitStatus, TipsOwn',
           tip' \in [PRs -> Heads \cup {0}],
           \A p \in PRs : tip[p] <= tip'[p]
    PROVE  EarnInv'
<1>1. PassIsEarned'
  BY PassKept DEF EarnInv
<1>2. ASSUME NEW q \in Runs
      PROVE  OwnBody(q)' /\ Covers(q)'
  BY RunKept DEF EarnInv
<1>3. TakeTurns'
  BY DEF EarnInv, TakeTurns, Active, Pr
<1> QED  BY <1>1, <1>2, <1>3 DEF EarnInv

LEMMA PushKept ==
    ASSUME GradingInv, EarnInv, NEW h \in Heads, Push(h)
    PROVE  EarnInv'
<1>1. tip \in [PRs -> Heads \cup {0}] /\ Heads \cup {0} \subseteq Nat
  BY GradingAssumption DEF GradingInv, GradingTypes
<1>2. PrOf[h] \in PRs /\ tip[PrOf[h]] < h /\ tip' = [tip EXCEPT ![PrOf[h]] = h]
  BY GradingAssumption DEF Push
<1>3. tip' \in [PRs -> Heads \cup {0}]
  BY <1>1, <1>2
<1>4. ASSUME NEW p \in PRs
      PROVE  tip[p] <= tip'[p]
  <2>1. tip[p] \in Nat /\ h \in Nat
    BY <1>1
  <2> QED  BY <1>1, <1>2, <2>1
<1>5. TipsOwn'
  BY <1>1, <1>2 DEF EarnInv, TipsOwn
<1> QED  BY <1>3, <1>4, <1>5, ElsewhereKept DEF Push

LEMMA ReceiveKept ==
    ASSUME GradingInv, EarnInv, ~Overlap, NEW r \in Runs, NEW h \in Heads,
           Receive(r, h)
    PROVE  EarnInv'
<1>1. run \in [Runs -> RunState] /\ run[r] \in RunState /\ Begun
  BY DEF GradingInv, GradingTypes
<1>2. UNCHANGED <<tip, tmp, commitStatus>>
  BY DEF Receive, github
<1> DEFINE x == [run[r] EXCEPT !.at = "fetch", !.head = h]
<1>3. run' = [run EXCEPT ![r] = x] /\ x.at = "fetch" /\ x.head = h
  BY <1>1 DEF Receive, RunState
<1> HIDE DEF x
<1>4. run'[r] = x /\ \A q \in Runs \ {r} : run'[q] = run[q]
  BY <1>1, <1>3
<1>5. ASSUME NEW q \in Runs
      PROVE  OwnBody(q)' /\ Covers(q)'
  <2>1. CASE q = r
    BY <1>3, <1>4, <2>1 DEF OwnBody, Covers, Grading, Closing
  <2>2. CASE q # r
    BY <1>2, <1>4, <2>2, RunKept, SameTip DEF EarnInv
  <2> QED  BY <2>1, <2>2
<1>6. ASSUME NEW q \in Runs \ {r}, Active(q)
      PROVE  Pr(q) # PrOf[h]
  <2>1. run[q].head # 0
    BY <1>1, <1>6, PrTyped, GradingAssumption DEF Active
  <2> QED  BY <1>6, <2>1 DEF Receive, RunsOf, Pr
<1>7. TakeTurns'
  <2> SUFFICES ASSUME NEW q \in Runs, NEW s \in Runs, Active(q)', Active(s)',
                      Pr(q)' = Pr(s)'
               PROVE  q = s
    BY DEF TakeTurns
  <2>1. ASSUME NEW t \in Runs \ {r}, Active(t)'
        PROVE  Active(t) /\ Pr(t)' = Pr(t) /\ Pr(t) # PrOf[h]
    BY <1>4, <1>6, <2>1 DEF Active, Pr
  <2>2. Pr(r)' = PrOf[h]
    BY <1>3, <1>4 DEF Pr
  <2> QED  BY <2>1, <2>2 DEF EarnInv, TakeTurns
<1>8. TipsOwn' /\ PassIsEarned'
  BY <1>2, PassKept, SameTip DEF EarnInv, TipsOwn
<1> QED  BY <1>5, <1>7, <1>8 DEF EarnInv

LEMMA CrashKept ==
    ASSUME GradingInv, EarnInv, Crash
    PROVE  EarnInv'
<1>1. ASSUME NEW q \in Runs
      PROVE  /\ run'[q].at \notin Grading \cup {"writeGone"} /\ ~Active(q)'
             /\ run'[q].at \notin {"unlink", "grade"}
  <2>1. run[q] \in RunState
    BY DEF GradingInv, GradingTypes
  <2>2. run'[q] = IF Active(q) THEN [run[q] EXCEPT !.at = "killed"] ELSE run[q]
    BY DEF Crash
  <2> QED  BY <2>1, <2>2 DEF Active, Ended, Grading, Closing, RunState
<1>2. TipsOwn' /\ PassIsEarned'
  BY PassKept, SameTip DEF Crash, EarnInv, TipsOwn, github
<1> QED  BY <1>1, <1>2 DEF EarnInv, OwnBody, Covers, TakeTurns, Grading, Closing

LEMMA EarnStep == ~Overlap /\ GradingInv /\ EarnInv /\ [Next]_vars => EarnInv'
<1> SUFFICES ASSUME ~Overlap, GradingInv, EarnInv, [Next]_vars PROVE EarnInv'
  OBVIOUS
<1>1. CASE UNCHANGED <<tip, commitStatus, tmp, run>>
  BY <1>1, ElsewhereKept, SameTip DEF EarnInv, TipsOwn
<1>2. CASE \E r \in Runs : RunStep(r)
  BY <1>2, RunStepKept
<1>3. CASE \E r \in Runs : Raise(r)
  BY <1>3, RaiseKept, AloneKept
<1>4. CASE \E r \in Runs, h \in Heads : Receive(r, h)
  BY <1>4, ReceiveKept
<1>5. CASE \E h \in Heads : Push(h)
  BY <1>5, PushKept
<1>6. CASE Crash
  BY <1>6, CrashKept
<1> QED  BY <1>1, <1>2, <1>3, <1>4, <1>5, <1>6
         DEF Next, vars, github, Talk, WorkerRecords, WorkerReads, WorkerWrites

LEMMA EarnInit == Init => EarnInv
<1> SUFFICES ASSUME Init PROVE EarnInv
  OBVIOUS
<1>1. \A r \in Runs : run[r].at = "waiting"
  BY DEF Init, NewRun
<1>2. TipsOwn /\ PassIsEarned
  BY DEF Init, TipsOwn, PassIsEarned
<1> QED  BY <1>1, <1>2 DEF EarnInv, TakeTurns, OwnBody, Covers, Active, Ended,
                           Grading, Closing

\* A head reported as passed carries no packet whose receipts fail, if the
\* runs of a pull request take turns: for any number of pull requests, heads,
\* packets and runs, wherever calls raise and the daemon dies.
THEOREM TurnsEarnPass == Spec => [](~Overlap => PassIsEarned)
<1> DEFINE Inv == ~Overlap => EarnInv
<1>1. Init => Inv
  BY EarnInit
<1>2. GradingInv /\ Inv /\ [Next]_vars => Inv'
  BY EarnStep
<1>3. Inv => (~Overlap => PassIsEarned)
  BY DEF EarnInv
<1> HIDE DEF Inv
<1> QED  BY <1>1, <1>2, <1>3, GradingInvInit, GradingInvStep, PTL DEF Spec
-----------------------------------------------------------------------------
(***************************************************************************)
(* One comment. Runs that take turns find the comment of the run before,   *)
(* as long as it is on the first page of the thread.                       *)
(***************************************************************************)
Sending == {"comment", "explain"}

\* What the run has found in the thread still holds.
TargetFits(r) ==
    IF run[r].target = 0 THEN Ours(Pr(r)) = {}
    ELSE run[r].target \in Ours(Pr(r))

ThreadOK(p) ==
    /\ Cardinality(Others(p)) <= MaxOthers
    /\ \A i, j \in Ours(p) : i = j

ThreadInv ==
    /\ \A p \in PRs : ThreadOK(p)
    /\ \A r \in Runs : run[r].at \in Sending => TargetFits(r)

\* The parts of a thread.
LEMMA ThreadParts ==
    ASSUME GradingInv, NEW p \in PRs
    PROVE  /\ thread[p] \in Seq(Comment) /\ Len(thread[p]) \in Nat
           /\ DOMAIN thread[p] = 1..Len(thread[p])
           /\ Ours(p) \cup Others(p) = 1..Len(thread[p])
           /\ IsFiniteSet(Others(p)) /\ Cardinality(Others(p)) \in Nat
<1>1. thread[p] \in Seq(Comment)
  BY DEF GradingInv, GradingTypes
<1>2. Len(thread[p]) \in Nat /\ DOMAIN thread[p] = 1..Len(thread[p])
  BY <1>1
<1>3. \A i \in 1..Len(thread[p]) : thread[p][i].by \in {"grader", "other"}
  <2>1. \A i \in 1..Len(thread[p]) : thread[p][i] \in Comment
    BY <1>1
  <2> QED  BY <2>1 DEF Comment
<1>4. Ours(p) \cup Others(p) = 1..Len(thread[p])
  BY <1>2, <1>3 DEF Ours, Others
<1>5. IsFiniteSet(1..Len(thread[p])) /\ Others(p) \subseteq 1..Len(thread[p])
  BY <1>2, <1>4, FS_Interval
<1>6. IsFiniteSet(Others(p)) /\ Cardinality(Others(p)) \in Nat
  BY <1>5, FS_Subset, FS_CardinalityType
<1> QED  BY <1>1, <1>2, <1>4, <1>6

\* Our comment is on the page that is listed.
LEMMA OnThePage ==
    ASSUME GradingInv, MaxOthers < PageSize, NEW p \in PRs, ThreadOK(p),
           NEW i \in Ours(p)
    PROVE  i <= PageSize
<1>1. /\ Ours(p) = {i} /\ i \in 1..Len(thread[p])
      /\ 1..Len(thread[p]) = Others(p) \cup {i}
  BY ThreadParts DEF ThreadOK
<1>2. IsFiniteSet(Others(p)) /\ Cardinality(Others(p)) \in Nat
        /\ Cardinality(Others(p)) <= MaxOthers
  BY ThreadParts DEF ThreadOK
<1>3. Cardinality(Others(p) \cup {i}) <= Cardinality(Others(p)) + 1
  <2> DEFINE S == Others(p)
  <2>1. Cardinality(S \cup {i}) = IF i \in S THEN Cardinality(S)
                                  ELSE Cardinality(S) + 1
    BY <1>2, FS_AddElement, Zenon
  <2> HIDE DEF S
  <2>2. Cardinality(S) \in Nat
    BY <1>2 DEF S
  <2>3. Cardinality(S \cup {i}) <= Cardinality(S) + 1
    BY <2>1, <2>2
  <2> QED  BY <2>3 DEF S
<1>4. Len(thread[p]) \in Nat
  BY ThreadParts
<1>5. Cardinality(1..Len(thread[p])) = Len(thread[p])
  BY <1>4, FS_Interval
<1>6. {PageSize, MaxOthers} \subseteq Nat
  BY GradingAssumption
<1>7. Len(thread[p]) <= MaxOthers + 1
  <2>1. Len(thread[p]) = Cardinality(Others(p) \cup {i})
    BY <1>1, <1>5
  <2> QED  BY <1>2, <1>3, <1>4, <1>6, <2>1
<1> QED  BY <1>1, <1>4, <1>6, <1>7

\* Sending a comment where the target fits leaves one of ours.
LEMMA SendKeepsOne ==
    ASSUME GradingInv, NEW r \in Runs, NEW p \in PRs, p = Pr(r), ThreadOK(p),
           TargetFits(r), SendComment(r)
    PROVE  /\ ThreadOK(p)'
           /\ \A o \in PRs \ {p} : thread'[o] = thread[o]
<1> DEFINE n == Len(thread[p])
           t == run[r].target
           says == IF run[r].at = "explain" THEN "notIndexed"
                   ELSE Posting([run[r] EXCEPT !.at = "final"])
           c == [by |-> "grader", head |-> run[r].head, says |-> says]
<1>1. /\ thread \in [PRs -> Seq(Comment)] /\ n \in Nat
      /\ DOMAIN thread[p] = 1..n
      /\ Ours(p) \cup Others(p) = 1..n
  BY ThreadParts DEF GradingInv, GradingTypes
<1>2. thread' = [thread EXCEPT ![p] = IF t = 0 THEN Append(thread[p], c)
                                      ELSE [thread[p] EXCEPT ![t] = c]]
  BY DEF SendComment
<1>3. c.by = "grader"
  OBVIOUS
<1> HIDE DEF c, says
<1>4. thread'[p] = IF t = 0 THEN Append(thread[p], c)
                   ELSE [thread[p] EXCEPT ![t] = c]
  BY <1>1, <1>2
<1>5. CASE t = 0
  <2>1. Ours(p) = {}
    BY <1>5 DEF TargetFits
  <2>2. /\ DOMAIN thread'[p] = 1..(n + 1) /\ thread'[p][n + 1] = c
        /\ \A i \in 1..n : thread'[p][i] = thread[p][i]
    BY <1>1, <1>4, <1>5
  <2>3. Ours(p)' = {n + 1} /\ Others(p)' = Others(p)
    BY <1>1, <1>3, <2>1, <2>2 DEF Ours, Others
  <2> QED  BY <1>2, <2>3 DEF ThreadOK
<1>6. CASE t # 0
  <2>1. t \in Ours(p)
    BY <1>6 DEF TargetFits
  <2>2. /\ DOMAIN thread'[p] = 1..n /\ thread'[p][t] = c
        /\ \A i \in 1..n : i # t => thread'[p][i] = thread[p][i]
    BY <1>1, <1>4, <1>6, <2>1
  <2>3. Ours(p)' = Ours(p) /\ Others(p)' = Others(p)
    BY <1>1, <1>3, <2>1, <2>2 DEF Ours, Others
  <2> QED  BY <1>2, <2>3 DEF ThreadOK
<1> QED  BY <1>5, <1>6

\* A step of run r, which changes at most its own pull request's thread.
LEMMA ThreadKept ==
    ASSUME GradingInv, EarnInv, ThreadInv, NEW r \in Runs, Alone(r),
           ThreadOK(Pr(r))', run'[r].at \in Sending => TargetFits(r)',
           \A o \in PRs \ {Pr(r)} : thread'[o] = thread[o]
    PROVE  ThreadInv'
<1>1. Pr(r)' = Pr(r)
  BY DEF Alone, Pr
<1>2. ASSUME NEW o \in PRs
      PROVE  ThreadOK(o)'
  <2>1. CASE o = Pr(r)
    BY <1>1, <2>1
  <2>2. CASE o # Pr(r)
    <3>1. Ours(o)' = Ours(o) /\ Others(o)' = Others(o)
      BY <2>2 DEF Ours, Others
    <3> QED  BY <3>1 DEF ThreadOK, ThreadInv
  <2> QED  BY <2>1, <2>2
<1>3. ASSUME NEW q \in Runs \ {r}, run'[q].at \in Sending
      PROVE  TargetFits(q)'
  <2>1. run'[q] = run[q] /\ Active(q)
    BY <1>3 DEF Alone, Active, Ended, Sending
  <2>2. Pr(q) # Pr(r) /\ Pr(q) \in PRs
    BY <2>1, PrTyped DEF EarnInv, TakeTurns, Alone, Active, GradingInv,
                         GradingTypes
  <2>3. Pr(q)' = Pr(q) /\ thread'[Pr(q)] = thread[Pr(q)]
    BY <2>1, <2>2 DEF Pr
  <2>4. TargetFits(q)
    BY <1>3, <2>1 DEF ThreadInv
  <2>5. Ours(Pr(q))' = Ours(Pr(q))
    BY <2>3 DEF Ours
  <2> QED  BY <2>1, <2>4, <2>5 DEF TargetFits
<1> QED  BY <1>2, <1>3 DEF ThreadInv

\* A run that lists the comments finds the one that is there.
LEMMA ListFits ==
    ASSUME GradingInv, ThreadInv, MaxOthers < PageSize, NEW r \in Runs,
           ListComments(r)
    PROVE  TargetFits(r)'
<1>1. run \in [Runs -> RunState] /\ run[r] \in RunState /\ Pr(r) \in PRs
  BY PrTyped DEF GradingInv, GradingTypes, ListComments
<1> DEFINE seen == {i \in Ours(Pr(r)) : i <= PageSize}
<1>2. PICK i \in seen \cup {0} :
         /\ i = 0 <=> seen = {}
         /\ run' = [run EXCEPT
                      ![r].at = IF @ = "list" THEN "comment" ELSE "explain",
                      ![r].target = i]
  BY DEF ListComments
<1>3. seen = Ours(Pr(r))
  BY <1>1, OnThePage DEF ThreadInv
<1>4. run'[r].target = i /\ run'[r].head = run[r].head
  BY <1>1, <1>2 DEF RunState
<1>5. Pr(r)' = Pr(r) /\ Ours(Pr(r))' = Ours(Pr(r))
  BY <1>4 DEF ListComments, github, Pr, Ours
<1> QED  BY <1>2, <1>3, <1>4, <1>5 DEF TargetFits

\* What a step of a run has to do with the thread.
Comments(r) ==
    \/ thread' = thread /\ run'[r].at \notin Sending
    \/ ListComments(r)
    \/ SendComment(r) /\ run[r].at \in Sending /\ run'[r].at \notin Sending

LEMMA StepComments ==
    ASSUME GradingInv, NEW r \in Runs, RunStep(r)
    PROVE  Comments(r)
<1>1. run \in [Runs -> RunState] /\ run[r] \in RunState
  BY DEF GradingInv, GradingTypes
<1>2. Exit(run[r]) \notin Sending
  BY <1>1, ExitStage DEF Sending
<1> USE DEF Comments, Sending, github
<1>3. CASE PostNotPacket(r) \/ PostNotIndexed(r) \/ PinRead(r) \/ FetchBody(r)
           \/ OpenTmp(r) \/ WriteTmp(r) \/ WriteGone(r) \/ EndPackets(r)
           \/ PostFinal(r) \/ PostError(r) \/ UnpinRead(r) \/ UnpinWrite(r)
  <2>1. \E s : Goto(r, s) /\ s \notin Sending /\ thread' = thread
    BY <1>2, <1>3 DEF PostNotPacket, PostNotIndexed, PinRead, FetchBody, OpenTmp,
         WriteTmp, WriteGone, EndPackets, PostFinal, PostError, UnpinRead,
         UnpinWrite
  <2> QED  BY <1>1, <2>1, GotoFields
<1>4. CASE WriteComment(r) \/ WriteExplanation(r)
  <2>1. /\ SendComment(r) /\ run[r].at \in Sending
        /\ \E s : Goto(r, s) /\ s \notin Sending
    BY <1>2, <1>4 DEF WriteComment, WriteExplanation
  <2> QED  BY <1>1, <2>1, GotoFields
<1>5. CASE FetchFiles(r) \/ PostPending(r) \/ FindParent(r) \/ PinWrite(r)
           \/ SkipPacket(r) \/ ParseTmp(r) \/ ParseNothing(r) \/ GradePacket(r)
  <2>1. thread' = thread
    BY <1>5 DEF FetchFiles, PostPending, FindParent, PinWrite, SkipPacket,
                ParseTmp, ParseNothing, GradePacket
  <2>2. ASSUME FetchFiles(r) \/ FindParent(r)
        PROVE  run'[r].at \notin Sending
    BY <1>1, <2>2 DEF FetchFiles, FindParent, RunState
  <2>3. ASSUME PostPending(r) \/ PinWrite(r)
        PROVE  run'[r].at \notin Sending
    BY <1>1, <2>3 DEF PostPending, PinWrite, RunState
  <2>4. ASSUME SkipPacket(r) \/ ParseTmp(r) \/ ParseNothing(r)
        PROVE  run'[r].at \notin Sending
    BY <1>1, <2>4 DEF SkipPacket, ParseTmp, ParseNothing, RunState
  <2>5. ASSUME GradePacket(r)
        PROVE  run'[r].at \notin Sending
    BY <1>1, <2>5 DEF GradePacket, RunState
  <2> QED  BY <1>5, <2>1, <2>2, <2>3, <2>4, <2>5
<1>6. CASE UnlinkTmp(r)
  BY <1>1, <1>6 DEF UnlinkTmp, RunState
<1> QED  BY <1>3, <1>4, <1>5, <1>6 DEF RunStep

LEMMA RaiseComments ==
    ASSUME GradingInv, NEW r \in Runs, Raise(r)
    PROVE  Comments(r)
<1>1. run \in [Runs -> RunState] /\ run[r] \in RunState
  BY DEF GradingInv, GradingTypes
<1>2. run'[r].at = Handler(run[r])
  BY <1>1 DEF Raise, RunState
<1>3. Handler(run[r]) \notin Sending
  BY <1>1, HandlerStage DEF Sending
<1> QED  BY <1>2, <1>3 DEF Raise, Comments, CommentPosts, Sending

LEMMA CommentsKeep ==
    ASSUME GradingInv, EarnInv, ThreadInv, MaxOthers < PageSize,
           NEW r \in Runs, Alone(r), Comments(r)
    PROVE  ThreadInv'
<1>1. Pr(r) \in PRs /\ Pr(r)' = Pr(r) /\ ThreadOK(Pr(r))
  BY PrTyped DEF Alone, Active, Pr, GradingInv, GradingTypes, ThreadInv
<1>2. CASE thread' = thread
  <2>1. ThreadOK(Pr(r))'
    BY <1>1, <1>2 DEF ThreadOK, Ours, Others
  <2>2. run'[r].at \in Sending => TargetFits(r)'
    <3>1. CASE ListComments(r)
      BY <3>1, ListFits
    <3>2. CASE SendComment(r) /\ run'[r].at \notin Sending
      BY <3>2
    <3> QED  BY <3>1, <3>2 DEF Comments
  <2> QED  BY <1>2, <2>1, <2>2, ThreadKept
<1>3. CASE ListComments(r)
  BY <1>2, <1>3 DEF ListComments, github
<1>4. CASE SendComment(r) /\ run[r].at \in Sending /\ run'[r].at \notin Sending
  <2>1. TargetFits(r)
    BY <1>4 DEF ThreadInv
  <2>2. /\ ThreadOK(Pr(r))'
        /\ \A o \in PRs \ {Pr(r)} : thread'[o] = thread[o]
    <3>1. ASSUME NEW p \in PRs, p = Pr(r)
          PROVE  /\ ThreadOK(p)'
                 /\ \A o \in PRs \ {p} : thread'[o] = thread[o]
      <4>1. ThreadOK(p)
        BY <1>1, <3>1
      <4> QED  BY <1>4, <2>1, <3>1, <4>1, SendKeepsOne
    <3> QED  BY <1>1, <3>1
  <2> QED  BY <1>4, <2>2, ThreadKept
<1> QED  BY <1>2, <1>3, <1>4 DEF Comments

\* Somebody else's comment leaves ours as they are.
LEMMA TalkOurs ==
    ASSUME GradingInv, NEW p \in PRs, Talk(p), NEW o \in PRs
    PROVE  /\ Ours(o)' = Ours(o)
           /\ \A i \in Ours(o) : thread'[o][i] = thread[o][i]
<1> DEFINE n == Len(thread[p])
           c == [by |-> "other", head |-> 0, says |-> "none"]
<1>1. /\ thread \in [PRs -> Seq(Comment)] /\ n \in Nat
      /\ DOMAIN thread[p] = 1..n
  BY ThreadParts DEF GradingInv, GradingTypes
<1>2. c.by = "other" /\ thread' = [thread EXCEPT ![p] = Append(thread[p], c)]
  BY DEF Talk
<1> HIDE DEF c
<1>3. CASE o = p
  <2>1. /\ DOMAIN thread'[p] = 1..(n + 1) /\ thread'[p][n + 1] = c
        /\ \A i \in 1..n : thread'[p][i] = thread[p][i]
    BY <1>1, <1>2
  <2> QED  BY <1>1, <1>2, <1>3, <2>1 DEF Ours
<1>4. CASE o # p
  BY <1>1, <1>2, <1>4 DEF Ours
<1> QED  BY <1>3, <1>4

LEMMA TalkKeeps ==
    ASSUME GradingInv, ThreadInv, NEW p \in PRs, Talk(p)
    PROVE  ThreadInv'
<1> DEFINE n == Len(thread[p])
           c == [by |-> "other", head |-> 0, says |-> "none"]
<1>1. /\ thread \in [PRs -> Seq(Comment)] /\ n \in Nat
      /\ DOMAIN thread[p] = 1..n
  BY ThreadParts DEF GradingInv, GradingTypes
<1>2. c.by = "other" /\ thread' = [thread EXCEPT ![p] = Append(thread[p], c)]
  BY DEF Talk
<1> HIDE DEF c
<1>3. /\ DOMAIN thread'[p] = 1..(n + 1) /\ thread'[p][n + 1] = c
      /\ \A i \in 1..n : thread'[p][i] = thread[p][i]
  BY <1>1, <1>2
<1>4. Others(p)' = Others(p) \cup {n + 1}
  BY <1>1, <1>2, <1>3 DEF Others
<1>5. ASSUME NEW o \in PRs
      PROVE  Ours(o)' = Ours(o) /\ (o # p => Others(o)' = Others(o))
  BY <1>1, <1>2, TalkOurs DEF Others
<1>6. Cardinality(Others(p)') <= MaxOthers
  <2> DEFINE S == Others(p)
  <2>1. IsFiniteSet(S) /\ Cardinality(S) \in Nat /\ Cardinality(S) < MaxOthers
    BY ThreadParts DEF Talk
  <2>2. n + 1 \notin S
    BY <1>1 DEF Others
  <2> HIDE DEF S
  <2>3. Cardinality(S \cup {n + 1}) = Cardinality(S) + 1
    BY <2>1, <2>2, FS_AddElement, Zenon
  <2>4. Cardinality(S \cup {n + 1}) <= MaxOthers
    BY <2>1, <2>3, GradingAssumption
  <2> QED  BY <1>4, <2>4 DEF S
<1>7. ASSUME NEW o \in PRs
      PROVE  ThreadOK(o)'
  BY <1>5, <1>6 DEF ThreadInv, ThreadOK
<1>8. ASSUME NEW r \in Runs, run'[r].at \in Sending
      PROVE  TargetFits(r)'
  <2>1. run' = run /\ TargetFits(r) /\ Pr(r) \in PRs
    BY <1>8, PrTyped DEF Talk, ThreadInv, Sending, GradingInv, GradingTypes
  <2> QED  BY <1>5, <2>1 DEF TargetFits, Pr
<1> QED  BY <1>7, <1>8 DEF ThreadInv

\* Steps that leave the thread alone and bring no run to a comment.
LEMMA ThreadSame ==
    ASSUME ThreadInv, thread' = thread,
           \A r \in Runs : run'[r] = run[r] \/ run'[r].at \notin Sending
    PROVE  ThreadInv'
<1>1. \A p \in PRs : ThreadOK(p)'
  BY DEF ThreadInv, ThreadOK, Ours, Others
<1>2. ASSUME NEW r \in Runs, run'[r].at \in Sending
      PROVE  TargetFits(r)'
  <2>1. run'[r] = run[r] /\ TargetFits(r)
    BY <1>2 DEF ThreadInv
  <2>2. Ours(Pr(r))' = Ours(Pr(r))
    BY <2>1 DEF Ours, Pr
  <2> QED  BY <2>1, <2>2 DEF TargetFits
<1> QED  BY <1>1, <1>2 DEF ThreadInv

LEMMA ThreadStep ==
    MaxOthers < PageSize =>
        (~Overlap /\ GradingInv /\ EarnInv /\ ThreadInv /\ [Next]_vars
            => ThreadInv')
<1> SUFFICES ASSUME MaxOthers < PageSize, ~Overlap, GradingInv, EarnInv,
                    ThreadInv, [Next]_vars
             PROVE  ThreadInv'
  OBVIOUS
<1>1. CASE UNCHANGED <<thread, run>>
  BY <1>1, ThreadSame
<1>2. CASE \E r \in Runs : RunStep(r)
  <2>1. ASSUME NEW r \in Runs, RunStep(r)
        PROVE  ThreadInv'
    BY <2>1, RunStepAlone, StepComments, CommentsKeep
  <2> QED  BY <1>2, <2>1
<1>3. CASE \E r \in Runs : Raise(r)
  <2>1. ASSUME NEW r \in Runs, Raise(r)
        PROVE  ThreadInv'
    BY <2>1, RaiseKept, RaiseComments, CommentsKeep
  <2> QED  BY <1>3, <2>1
<1>4. CASE \E p \in PRs : Talk(p)
  BY <1>4, TalkKeeps
<1>5. CASE \E r \in Runs, h \in Heads : Receive(r, h)
  <2>1. PICK r \in Runs : /\ thread' = thread
                          /\ \E h \in Heads : run' = [run EXCEPT ![r].at = "fetch",
                                                                 ![r].head = h]
    BY <1>5 DEF Receive, github
  <2>2. run \in [Runs -> RunState]
    BY DEF GradingInv, GradingTypes
  <2>3. \A q \in Runs : run'[q] = run[q] \/ run'[q].at = "fetch"
    BY <2>1, <2>2 DEF RunState
  <2> QED  BY <2>1, <2>3, ThreadSame DEF Sending
<1>6. CASE Crash
  <2>1. run \in [Runs -> RunState]
    BY DEF GradingInv, GradingTypes
  <2>2. \A q \in Runs : run'[q] = run[q] \/ run'[q].at = "killed"
    BY <1>6, <2>1 DEF Crash, RunState
  <2> QED  BY <1>6, <2>2, ThreadSame DEF Crash, github, Sending
<1> QED  BY <1>1, <1>2, <1>3, <1>4, <1>5, <1>6
         DEF Next, vars, github, Push, WorkerRecords, WorkerReads, WorkerWrites

LEMMA ThreadInit == Init => ThreadInv
<1> SUFFICES ASSUME Init PROVE ThreadInv
  OBVIOUS
<1>1. ASSUME NEW p \in PRs
      PROVE  ThreadOK(p)
  <2>1. thread[p] = <<>>
    BY DEF Init
  <2>2. Ours(p) = {} /\ Others(p) = {}
    BY <2>1 DEF Ours, Others
  <2>3. Cardinality(Others(p)) = 0
    BY <2>2, FS_EmptySet, Zenon
  <2> QED  BY <2>2, <2>3, GradingAssumption DEF ThreadOK
<1>2. \A r \in Runs : run[r].at = "waiting"
  BY DEF Init, NewRun
<1> QED  BY <1>1, <1>2 DEF ThreadInv, Sending

LEMMA ThreadMeans == ThreadInv => OneGradingComment
<1> SUFFICES ASSUME ThreadInv, NEW p \in PRs PROVE Cardinality(Ours(p)) <= 1
  BY DEF OneGradingComment
<1> DEFINE S == Ours(p)
<1>1. S = {} \/ \E i : S = {i}
  BY DEF ThreadInv, ThreadOK
<1> HIDE DEF S
<1>2. Cardinality(S) = 0 \/ Cardinality(S) = 1
  <2>1. CASE S = {}
    BY <2>1, FS_EmptySet, Zenon
  <2>2. ASSUME NEW i, S = {i}
        PROVE  Cardinality(S) = 1
    BY <2>2, FS_Singleton, Zenon
  <2> QED  BY <1>1, <2>1, <2>2
<1>3. Cardinality(S) <= 1
  BY <1>2
<1> QED  BY <1>3 DEF S

\* A pull request whose runs take turns has at most one grading comment,
\* however many runs, faults and crashes there are, as long as the comments
\* of others leave room for it on the page post_or_update_pr_comment() lists.
THEOREM OneComment ==
    Spec => [](~Overlap /\ MaxOthers < PageSize => OneGradingComment)
<1> DEFINE Fits == ~Overlap /\ MaxOthers < PageSize
           Inv  == Fits => EarnInv /\ ThreadInv
           Goal == Fits => OneGradingComment
<1>1. Init => Inv
  BY EarnInit, ThreadInit
<1>2. GradingInv /\ Inv /\ [Next]_vars => Inv'
  BY EarnStep, ThreadStep
<1>3. Inv => Goal
  BY ThreadMeans
<1>4. Spec => []Goal
  <2> HIDE DEF Inv, Goal
  <2> QED  BY <1>1, <1>2, <1>3, GradingInvInit, GradingInvStep, PTL DEF Spec
<1> QED  BY <1>4
-----------------------------------------------------------------------------
(***************************************************************************)
(* The comment and the status. A run that takes its turn posts as its      *)
(* final status what it has just said in the comment, and nobody else      *)
(* writes either before it has ended.                                      *)
(***************************************************************************)
Excuse(r) == Active(r) \/ run[r].raised \/ run[r].at = "killed"
                 \/ run[r].graded = {}

Ungraded == {"waiting", "fetch", "notPacket", "pending", "parent", "notIndexed",
             "explainList", "explain", "pin", "pinning"}

\* All comments of ours on p are about head h and say s.
Tells(p, h, s) ==
    \A i \in Ours(p) : thread[p][i].head = h /\ thread[p][i].says = s

Told(r) ==
    /\ run[r].at = "final" /\ run[r].graded # {} =>
          Tells(Pr(r), run[r].head, Posting(run[r]))
    /\ run[r].at \in {"unpin", "unpinning"} /\ ~run[r].raised
          /\ run[r].graded # {} =>
          Tells(Pr(r), run[r].head, commitStatus[run[r].head])
    /\ run[r].at \in Ungraded => run[r].graded = {}
    /\ run[r].at \in {"error", "unlinkLost"} => run[r].raised

OwnHead(p, i) == thread[p][i].head \in Heads /\ PrOf[thread[p][i].head] = p

Agrees(p, i) ==
    \/ commitStatus[thread[p][i].head] = thread[p][i].says
    \/ \E r \in Runs : run[r].head = thread[p][i].head /\ Excuse(r)

AgreeInv ==
    /\ \A p \in PRs : \A i \in Ours(p) : OwnHead(p, i) /\ Agrees(p, i)
    /\ \A r \in Runs : Told(r)

\* What a step of run r may do to a comment and to its head's status.
OwnWork(r) ==
    /\ \A o \in PRs \ {Pr(r)} : thread'[o] = thread[o]
    /\ \A h \in Heads \ {run[r].head} : commitStatus'[h] = commitStatus[h]
    /\ \A i \in Ours(Pr(r))' :
          \/ thread'[Pr(r)][i].head = run[r].head
          \/ i \in Ours(Pr(r)) /\ thread'[Pr(r)][i] = thread[Pr(r)][i]

Settled(r) ==
    \/ Excuse(r)'
    \/ \A i \in Ours(Pr(r))' :
          thread'[Pr(r)][i].head = run[r].head =>
              commitStatus'[run[r].head] = thread'[Pr(r)][i].says

LEMMA AgreeKept ==
    ASSUME GradingInv, EarnInv, AgreeInv, NEW r \in Runs, Alone(r),
           OwnWork(r), Settled(r), Told(r)'
    PROVE  AgreeInv'
<1>1. /\ run[r].head \in Heads /\ PrOf[run[r].head] = Pr(r) /\ Pr(r) \in PRs
      /\ run'[r].head = run[r].head /\ Pr(r)' = Pr(r)
      /\ \A q \in Runs \ {r} : run'[q] = run[q]
  BY PrTyped DEF Alone, Active, Pr, GradingInv, GradingTypes
<1>2. ASSUME NEW p \in PRs, NEW i \in Ours(p),
             thread'[p][i] = thread[p][i], thread[p][i].head # run[r].head
      PROVE  OwnHead(p, i)' /\ Agrees(p, i)'
  <2>1. OwnHead(p, i) /\ Agrees(p, i)
    BY DEF AgreeInv
  <2>2. OwnHead(p, i)'
    BY <1>2, <2>1 DEF OwnHead
  <2>3. CASE commitStatus[thread[p][i].head] = thread[p][i].says
    BY <1>2, <2>1, <2>3 DEF OwnWork, OwnHead, Agrees
  <2>4. ASSUME NEW q \in Runs, run[q].head = thread[p][i].head, Excuse(q)
        PROVE  Agrees(p, i)'
    BY <1>1, <1>2, <2>4 DEF Agrees, Excuse, Active
  <2> QED  BY <2>1, <2>2, <2>3, <2>4 DEF Agrees
<1>3. ASSUME NEW p \in PRs, NEW i \in Ours(p)'
      PROVE  OwnHead(p, i)' /\ Agrees(p, i)'
  <2>1. CASE p # Pr(r)
    <3>1. thread'[p] = thread[p]
      BY <2>1 DEF OwnWork
    <3>2. i \in Ours(p)
      BY <1>3, <3>1 DEF Ours
    <3>3. thread[p][i].head # run[r].head
      BY <1>1, <2>1, <3>2 DEF AgreeInv, OwnHead
    <3> QED  BY <1>2, <3>1, <3>2, <3>3
  <2>2. CASE p = Pr(r) /\ thread'[p][i].head = run[r].head
    <3>1. OwnHead(p, i)'
      BY <1>1, <2>2 DEF OwnHead
    <3>2. i \in Ours(Pr(r))'
      BY <1>1, <1>3, <2>2 DEF Ours
    <3>3. Agrees(p, i)'
      <4>1. CASE Excuse(r)'
        BY <1>1, <2>2, <4>1 DEF Agrees, Excuse, Active
      <4>2. CASE ~Excuse(r)'
        <5>1. commitStatus'[run[r].head] = thread'[p][i].says
          BY <2>2, <3>2, <4>2 DEF Settled
        <5> QED  BY <2>2, <5>1 DEF Agrees
      <4> QED  BY <4>1, <4>2
    <3> QED  BY <3>1, <3>3
  <2>3. CASE p = Pr(r) /\ thread'[p][i].head # run[r].head
    <3>1. i \in Ours(Pr(r))'
      BY <1>1, <1>3, <2>3 DEF Ours
    <3>2. i \in Ours(p) /\ thread'[p][i] = thread[p][i]
      BY <2>3, <3>1 DEF OwnWork
    <3> QED  BY <1>2, <2>3, <3>2
  <2> QED  BY <2>1, <2>2, <2>3
<1>4. ASSUME NEW q \in Runs, q # r
      PROVE  Told(q)'
  <2>1. run'[q] = run[q] /\ Told(q) /\ Pr(q)' = Pr(q)
    BY <1>1, <1>4 DEF AgreeInv, Pr
  <2>2. CASE Active(q)
    <3>1. Pr(q) # Pr(r) /\ Pr(q) \in PRs
      BY <1>4, <2>2, PrTyped DEF EarnInv, TakeTurns, Alone, Active, GradingInv,
                                 GradingTypes
    <3>2. thread'[Pr(q)] = thread[Pr(q)]
      BY <3>1 DEF OwnWork
    <3>3. run[q].head \in Heads /\ run[q].head # run[r].head
      BY <1>1, <2>2, <3>1, PrTyped DEF Active, Pr, GradingInv, GradingTypes
    <3>4. commitStatus'[run[q].head] = commitStatus[run[q].head]
      BY <3>3 DEF OwnWork
    <3>5. Posting(run[q])' = Posting(run[q])
      BY <2>1 DEF Posting
    <3> QED  BY <2>1, <3>2, <3>4, <3>5 DEF Told, Tells, Ours
  <2>3. CASE ~Active(q)
    BY <2>1, <2>3 DEF Told, Active, Ended
  <2> QED  BY <2>2, <2>3
<1> QED  BY <1>3, <1>4 DEF AgreeInv

\* A comment that is sent is the only one, and says what it should.
LEMMA SendTells ==
    ASSUME GradingInv, NEW r \in Runs, NEW p \in PRs, p = Pr(r), ThreadOK(p),
           TargetFits(r), SendComment(r)
    PROVE  \A i \in Ours(p)' :
              thread'[p][i] =
                 [by |-> "grader", head |-> run[r].head,
                  says |-> IF run[r].at = "explain" THEN "notIndexed"
                           ELSE Posting([run[r] EXCEPT !.at = "final"])]
<1> DEFINE says == IF run[r].at = "explain" THEN "notIndexed"
                   ELSE Posting([run[r] EXCEPT !.at = "final"])
           c == [by |-> "grader", head |-> run[r].head, says |-> says]
           t == run[r].target
           n == Len(thread[p])
<1>1. /\ thread \in [PRs -> Seq(Comment)] /\ n \in Nat
      /\ DOMAIN thread[p] = 1..n
      /\ Ours(p) \cup Others(p) = 1..n
  BY ThreadParts DEF GradingInv, GradingTypes
<1>2. thread' = [thread EXCEPT ![p] = IF t = 0 THEN Append(thread[p], c)
                                      ELSE [thread[p] EXCEPT ![t] = c]]
  BY DEF SendComment
<1> HIDE DEF c, says
<1>3. thread'[p] = IF t = 0 THEN Append(thread[p], c)
                   ELSE [thread[p] EXCEPT ![t] = c]
  BY <1>1, <1>2
<1>4. ASSUME t = 0, NEW i \in Ours(p)'
      PROVE  thread'[p][i] = c
  <2>1. /\ DOMAIN thread'[p] = 1..(n + 1) /\ thread'[p][n + 1] = c
        /\ \A j \in 1..n : thread'[p][j] = thread[p][j]
    BY <1>1, <1>3, <1>4
  <2>2. Ours(p) = {}
    BY <1>4 DEF TargetFits
  <2> QED  BY <1>1, <1>4, <2>1, <2>2 DEF Ours
<1>5. ASSUME t # 0, NEW i \in Ours(p)'
      PROVE  thread'[p][i] = c
  <2>1. t \in Ours(p) /\ Ours(p) = {t}
    BY <1>5 DEF TargetFits, ThreadOK
  <2>2. /\ DOMAIN thread'[p] = 1..n /\ thread'[p][t] = c
        /\ \A j \in 1..n : j # t => thread'[p][j] = thread[p][j]
    BY <1>1, <1>3, <1>5, <2>1
  <2> QED  BY <1>1, <1>5, <2>1, <2>2 DEF Ours
<1>6. \A i \in Ours(p)' : thread'[p][i] = c
  BY <1>4, <1>5
<1> QED  BY <1>6 DEF c, says

\* A run that has said nothing it has yet to post, or has an excuse.
Silent(x) ==
    /\ x.at = "final" => x.graded = {}
    /\ x.at \in {"unpin", "unpinning", "done"} => x.raised \/ x.graded = {}
    /\ x.at \in Ungraded => x.graded = {}
    /\ x.at \in {"error", "unlinkLost"} => x.raised

LEMMA SilentTold ==
    ASSUME NEW r \in Runs, Silent(run'[r])
    PROVE  Told(r)' /\ Excuse(r)'
BY DEF Silent, Told, Excuse, Active, Ended, Ungraded

\* A step of a run that leaves the comments alone.
LEMMA QuietKeeps ==
    ASSUME GradingInv, EarnInv, AgreeInv, NEW r \in Runs, Alone(r),
           thread' = thread, commitStatus' = commitStatus \/ PostStatus(r),
           Silent(run'[r])
    PROVE  AgreeInv'
<1>1. OwnWork(r)
  <2>1. Pr(r)' = Pr(r) /\ commitStatus \in [Heads -> Statuses]
    BY DEF Alone, Pr, GradingInv, GradingTypes
  <2>2. Ours(Pr(r))' = Ours(Pr(r))
    BY <2>1 DEF Ours
  <2> QED  BY <2>1, <2>2 DEF OwnWork, PostStatus
<1> QED  BY <1>1, SilentTold, AgreeKept DEF Settled

\* A step of a run that sends its comment.
LEMMA SendKeeps ==
    ASSUME GradingInv, EarnInv, ThreadInv, AgreeInv, NEW r \in Runs, Alone(r),
           run[r].at \in Sending, SendComment(r), commitStatus' = commitStatus,
           Excuse(r)', Told(r)'
    PROVE  AgreeInv'
<1>1. Pr(r) \in PRs /\ Pr(r)' = Pr(r) /\ ThreadOK(Pr(r)) /\ TargetFits(r)
  BY PrTyped DEF Alone, Active, Pr, GradingInv, GradingTypes, ThreadInv
<1>2. ASSUME NEW p \in PRs, p = Pr(r)
      PROVE  /\ \A i \in Ours(p)' : thread'[p][i].head = run[r].head
             /\ \A o \in PRs \ {p} : thread'[o] = thread[o]
  <2>1. ThreadOK(p)
    BY <1>1, <1>2
  <2>2. \A o \in PRs \ {p} : thread'[o] = thread[o]
    BY <1>1, <1>2, <2>1, SendKeepsOne
  <2>3. ASSUME NEW i \in Ours(p)'
        PROVE  thread'[p][i].head = run[r].head
    <3> DEFINE says == IF run[r].at = "explain" THEN "notIndexed"
                       ELSE Posting([run[r] EXCEPT !.at = "final"])
    <3>1. thread'[p][i] = [by |-> "grader", head |-> run[r].head, says |-> says]
      BY <1>1, <1>2, <2>1, <2>3, SendTells
    <3> HIDE DEF says
    <3> QED  BY <3>1
  <2> QED  BY <2>2, <2>3
<1>3. OwnWork(r)
  <2>1. \A i \in Ours(Pr(r))' : thread'[Pr(r)][i].head = run[r].head
    BY <1>1, <1>2 DEF Ours
  <2> QED  BY <1>1, <1>2, <2>1 DEF OwnWork
<1> QED  BY <1>3, AgreeKept DEF Settled

\* The fields of a run that goes to a stage.
LEMMA GotoAll ==
    ASSUME GradingInv, NEW r \in Runs, NEW s, Goto(r, s)
    PROVE  /\ run'[r].at = s /\ run'[r].raised = run[r].raised
           /\ run'[r].graded = run[r].graded
           /\ run'[r] = [run[r] EXCEPT !.at = s]
BY DEF GradingInv, GradingTypes, Goto, RunState

LEMMA QuietSteps ==
    ASSUME GradingInv, NEW r \in Runs, Told(r),
           \/ FetchFiles(r) \/ PostNotPacket(r) \/ PostPending(r)
           \/ FindParent(r) \/ PostNotIndexed(r) \/ PinRead(r) \/ PinWrite(r)
           \/ FetchBody(r) \/ SkipPacket(r) \/ OpenTmp(r) \/ WriteTmp(r)
           \/ WriteGone(r) \/ ParseTmp(r) \/ ParseNothing(r) \/ UnlinkTmp(r)
           \/ GradePacket(r) \/ EndPackets(r) \/ ListComments(r)
           \/ PostError(r)
    PROVE  /\ thread' = thread /\ (commitStatus' = commitStatus \/ PostStatus(r))
           /\ Silent(run'[r])
<1>1. run \in [Runs -> RunState] /\ run[r] \in RunState
  BY DEF GradingInv, GradingTypes
<1>2. Exit(run[r]) \in {"unpin", "done"}
  BY <1>1, ExitStage
<1>3. thread' = thread /\ (commitStatus' = commitStatus \/ PostStatus(r))
  BY DEF FetchFiles, PostNotPacket, PostPending, FindParent, PostNotIndexed,
     PinRead, PinWrite, FetchBody, SkipPacket, OpenTmp, WriteTmp, WriteGone,
     ParseTmp, ParseNothing, UnlinkTmp, GradePacket, EndPackets, ListComments,
     PostError, github
<1>4. CASE PostNotPacket(r) \/ PostNotIndexed(r) \/ PinRead(r) \/ PostError(r)
  <2>1. run[r].raised \/ run[r].graded = {}
    BY <1>4 DEF PostNotPacket, PostNotIndexed, PinRead, PostError, Told, Ungraded
  <2>2. PICK s \in {"explainList", "pinning", "unpin", "done"} :
           Goto(r, s) /\ (s \in Ungraded => run[r].graded = {})
    BY <1>2, <1>4 DEF PostNotPacket, PostNotIndexed, PinRead, PostError, Told,
                      Ungraded
  <2>3. Silent(run'[r])
    BY <2>1, <2>2, GotoAll DEF Silent
  <2> QED  BY <1>3, <2>3
<1>5. CASE FetchBody(r) \/ OpenTmp(r) \/ WriteTmp(r) \/ WriteGone(r) \/ EndPackets(r)
  <2>1. PICK s \in {"open", "write", "parse", "list", "final"} :
           Goto(r, s) /\ (s = "final" => run[r].graded = {})
    BY <1>5 DEF FetchBody, OpenTmp, WriteTmp, WriteGone, EndPackets
  <2>2. Silent(run'[r])
    BY <2>1, GotoAll DEF Silent, Ungraded
  <2> QED  BY <1>3, <2>2
<1>6. CASE FetchFiles(r) \/ PostPending(r) \/ FindParent(r) \/ ListComments(r)
  <2>1. /\ run'[r].graded = run[r].graded
        /\ run'[r].at \in {"notPacket", "pending", "parent", "pin", "notIndexed",
                           "comment", "explain"}
        /\ run[r].at \in Ungraded \/ run'[r].at = "comment"
    <3>1. CASE FetchFiles(r)
      BY <1>1, <3>1 DEF FetchFiles, RunState, Ungraded
    <3>2. CASE PostPending(r)
      BY <1>1, <3>2 DEF PostPending, RunState, Ungraded
    <3>3. CASE FindParent(r)
      BY <1>1, <3>3 DEF FindParent, RunState, Ungraded
    <3>4. CASE ListComments(r)
      <4>1. PICK i :
               run' = [run EXCEPT
                         ![r].at = IF @ = "list" THEN "comment" ELSE "explain",
                         ![r].target = i]
        BY <3>4 DEF ListComments
      <4>2. run[r].at \in {"list", "explainList"}
        BY <3>4 DEF ListComments
      <4> QED  BY <1>1, <4>1, <4>2 DEF RunState, Ungraded
    <3> QED  BY <1>6, <3>1, <3>2, <3>3, <3>4
  <2>2. Silent(run'[r])
    BY <2>1 DEF Silent, Told, Ungraded
  <2> QED  BY <1>3, <2>2
<1>7. CASE PinWrite(r) \/ SkipPacket(r) \/ ParseTmp(r) \/ GradePacket(r)
  <2>1. run'[r].at \in {"packet", "unlink"}
    <3>1. CASE PinWrite(r) \/ ParseTmp(r)
      BY <1>1, <3>1 DEF PinWrite, ParseTmp, RunState
    <3>2. CASE SkipPacket(r)
      BY <1>1, <3>2 DEF SkipPacket, RunState
    <3>3. CASE GradePacket(r)
      BY <1>1, <3>3 DEF GradePacket, RunState
    <3> QED  BY <1>7, <3>1, <3>2, <3>3
  <2> QED  BY <1>3, <2>1 DEF Silent, Ungraded
<1>8. CASE ParseNothing(r) \/ UnlinkTmp(r)
  <2>1. /\ run'[r].at \in {"grade", "unlinkLost", "error"}
        /\ run'[r].at # "grade" => run'[r].raised
    <3>1. CASE ParseNothing(r)
      BY <1>1, <3>1 DEF ParseNothing, RunState
    <3>2. CASE UnlinkTmp(r)
      BY <1>1, <3>2 DEF UnlinkTmp, RunState, Told
    <3> QED  BY <1>8, <3>1, <3>2
  <2> QED  BY <1>3, <2>1 DEF Silent, Ungraded
<1> QED  BY <1>4, <1>5, <1>6, <1>7, <1>8

\* The comment is written: the status it is about is the next to be posted.
LEMMA WriteKeeps ==
    ASSUME GradingInv, EarnInv, ThreadInv, AgreeInv, NEW r \in Runs, Alone(r),
           WriteComment(r) \/ WriteExplanation(r)
    PROVE  AgreeInv'
<1>1. /\ run \in [Runs -> RunState] /\ run[r] \in RunState
      /\ commitStatus' = commitStatus /\ SendComment(r)
      /\ Pr(r) \in PRs /\ Pr(r)' = Pr(r) /\ ThreadOK(Pr(r))
      /\ run[r].at \in Sending => TargetFits(r)
  BY PrTyped DEF GradingInv, GradingTypes, WriteComment, WriteExplanation,
                 Alone, Active, Pr, ThreadInv
<1>2. CASE WriteComment(r)
  <2>1. run'[r] = [run[r] EXCEPT !.at = "final"] /\ run'[r].at = "final"
          /\ run[r].at = "comment"
    BY <1>2, GotoAll DEF WriteComment
  <2>2. ASSUME NEW p \in PRs, p = Pr(r), NEW i \in Ours(p)'
        PROVE  /\ thread'[p][i].head = run[r].head
               /\ thread'[p][i].says = Posting(run'[r])
    <3> DEFINE says == Posting([run[r] EXCEPT !.at = "final"])
    <3>1. ThreadOK(p)
      BY <1>1, <2>2
    <3>2. thread'[p][i] =
             [by |-> "grader", head |-> run[r].head,
              says |-> IF run[r].at = "explain" THEN "notIndexed" ELSE says]
      BY <1>1, <2>1, <2>2, <3>1, SendTells DEF Sending
    <3>3. says = Posting(run'[r])
      BY <2>1
    <3> HIDE DEF says
    <3> QED  BY <2>1, <3>2, <3>3
  <2>3. Tells(Pr(r), run[r].head, Posting(run[r]))'
    <3>1. run'[r].head = run[r].head /\ Posting(run[r])' = Posting(run'[r])
      BY DEF Alone, Posting
    <3>2. \A i \in Ours(Pr(r))' : i \in {j \in DOMAIN thread'[Pr(r)] :
                                          thread'[Pr(r)][j].by = "grader"}
      BY <1>1 DEF Ours
    <3> QED  BY <1>1, <2>2, <3>1, <3>2 DEF Tells, Ours
  <2>4. Told(r)' /\ Excuse(r)'
    BY <2>1, <2>3 DEF Told, Excuse, Active, Ended, Ungraded
  <2> QED  BY <1>1, <2>1, <2>4, SendKeeps DEF Sending
<1>3. CASE WriteExplanation(r)
  <2>1. run[r].at = "explain" /\ run[r].graded = {} /\ Goto(r, Exit(run[r]))
    BY <1>3 DEF WriteExplanation, AgreeInv, Told, Ungraded
  <2>2. Exit(run[r]) \in {"unpin", "done"}
    BY <1>1, ExitStage
  <2>3. Silent(run'[r])
    BY <2>1, <2>2, GotoAll DEF Silent, Ungraded
  <2> QED  BY <1>1, <2>1, <2>3, SilentTold, SendKeeps DEF Sending
<1> QED  BY <1>2, <1>3

\* The final status is posted, and the pin released.
LEMMA EndKeeps ==
    ASSUME GradingInv, EarnInv, AgreeInv, NEW r \in Runs, Alone(r),
           PostFinal(r) \/ UnpinRead(r) \/ UnpinWrite(r)
    PROVE  AgreeInv'
<1>1. /\ run \in [Runs -> RunState] /\ run[r] \in RunState
      /\ thread' = thread /\ (commitStatus' = commitStatus \/ PostStatus(r))
      /\ run[r].head \in Heads /\ run'[r].head = run[r].head /\ Pr(r)' = Pr(r)
      /\ commitStatus \in [Heads -> Statuses]
  BY DEF GradingInv, GradingTypes, PostFinal, UnpinRead, UnpinWrite, Alone, Pr,
         github
<1>2. PICK s \in {"unpin", "unpinning", "done"} : Goto(r, s)
  BY <1>1, ExitStage DEF PostFinal, UnpinRead, UnpinWrite
<1>3. /\ run'[r].at = s /\ run'[r].raised = run[r].raised
      /\ run'[r].graded = run[r].graded
  BY <1>2, GotoAll
<1>4. CASE run[r].raised \/ run[r].graded = {}
  <2>1. Silent(run'[r])
    BY <1>3, <1>4 DEF Silent, Ungraded
  <2> QED  BY <1>1, <2>1, QuietKeeps
<1>5. CASE ~run[r].raised /\ run[r].graded # {}
  <2>1. Tells(Pr(r), run[r].head, commitStatus'[run[r].head])
    <3>1. CASE PostFinal(r)
      BY <1>1, <1>5, <3>1 DEF PostFinal, PostStatus, AgreeInv, Told
    <3>2. CASE UnpinRead(r) \/ UnpinWrite(r)
      BY <1>5, <3>2 DEF UnpinRead, UnpinWrite, AgreeInv, Told, github
    <3> QED  BY <3>1, <3>2
  <2>2. Ours(Pr(r))' = Ours(Pr(r))
    BY <1>1 DEF Ours
  <2>3. Told(r)'
    BY <1>1, <1>3, <2>1, <2>2 DEF Told, Tells, Ungraded
  <2>4. Settled(r)
    BY <1>1, <2>1, <2>2 DEF Settled, Tells
  <2>5. OwnWork(r)
    BY <1>1, <2>2 DEF OwnWork, PostStatus
  <2> QED  BY <2>3, <2>4, <2>5, AgreeKept
<1> QED  BY <1>4, <1>5

LEMMA RaiseKeeps ==
    ASSUME GradingInv, EarnInv, ThreadInv, AgreeInv, NEW r \in Runs, Alone(r),
           Raise(r)
    PROVE  AgreeInv'
<1>1. run \in [Runs -> RunState] /\ run[r] \in RunState
  BY DEF GradingInv, GradingTypes
<1>2. run'[r].at = Handler(run[r]) /\ run'[r].raised
  BY <1>1 DEF Raise, RunState
<1>3. Handler(run[r]) \in {"unlinkLost", "error", "unpin", "done"}
  BY <1>1, HandlerStage
<1>4. Silent(run'[r])
  BY <1>2, <1>3 DEF Silent, Ungraded
<1>5. \/ thread' = thread /\ (commitStatus' = commitStatus \/ PostStatus(r))
      \/ /\ run[r].at \in Sending /\ SendComment(r)
         /\ commitStatus' = commitStatus
  BY DEF Raise, CommentPosts, Sending
<1> QED  BY <1>4, <1>5, QuietKeeps, SendKeeps, SilentTold

\* Steps of others.
LEMMA OthersKeep ==
    ASSUME AgreeInv, commitStatus' = commitStatus,
           \A p \in PRs : /\ Ours(p)' = Ours(p)
                          /\ \A i \in Ours(p) : thread'[p][i] = thread[p][i],
           \A r \in Runs : \/ run'[r] = run[r]
                           \/ run'[r].at = "killed" /\ run'[r].head = run[r].head
                           \/ run[r].head = 0 /\ Silent(run'[r]),
           \A r \in Runs : Pr(r) \in PRs \/ run[r].at = "waiting",
           0 \notin Heads
    PROVE  AgreeInv'
<1>1. ASSUME NEW p \in PRs, NEW i \in Ours(p)'
      PROVE  OwnHead(p, i)' /\ Agrees(p, i)'
  <2>1. i \in Ours(p) /\ thread'[p][i] = thread[p][i]
          /\ OwnHead(p, i) /\ Agrees(p, i)
    BY <1>1 DEF AgreeInv
  <2>2. OwnHead(p, i)'
    BY <2>1 DEF OwnHead
  <2>3. ASSUME NEW q \in Runs, run[q].head = thread[p][i].head, Excuse(q)
        PROVE  run'[q].head = thread'[p][i].head /\ Excuse(q)'
    <3>1. run[q].head # 0
      BY <2>1, <2>3 DEF OwnHead
    <3> QED  BY <2>1, <2>3, <3>1 DEF Excuse, Active
  <2>4. Agrees(p, i)'
    <3>1. CASE commitStatus[thread[p][i].head] = thread[p][i].says
      BY <2>1, <3>1 DEF Agrees
    <3>2. CASE \E q \in Runs : run[q].head = thread[p][i].head /\ Excuse(q)
      BY <2>3, <3>2 DEF Agrees, Excuse, Active
    <3> QED  BY <2>1, <3>1, <3>2 DEF Agrees
  <2> QED  BY <2>2, <2>4
<1>2. ASSUME NEW r \in Runs
      PROVE  Told(r)'
  <2>1. CASE run'[r] = run[r]
    <3>1. Told(r) /\ Pr(r)' = Pr(r) /\ Posting(run[r])' = Posting(run[r])
      BY <2>1 DEF AgreeInv, Pr, Posting
    <3>2. CASE run[r].at = "waiting"
      BY <2>1, <3>1, <3>2 DEF Told
    <3>3. CASE Pr(r) \in PRs
      <4>1. /\ Ours(Pr(r))' = Ours(Pr(r))
            /\ \A i \in Ours(Pr(r)) : thread'[Pr(r)][i] = thread[Pr(r)][i]
        BY <3>1, <3>3 DEF Ours
      <4> QED  BY <2>1, <3>1, <4>1 DEF Told, Tells
    <3> QED  BY <3>2, <3>3
  <2>2. CASE run'[r].at = "killed"
    BY <2>2 DEF Told, Ungraded
  <2>3. CASE Silent(run'[r])
    BY <2>3, SilentTold
  <2> QED  BY <2>1, <2>2, <2>3
<1> QED  BY <1>1, <1>2 DEF AgreeInv

LEMMA AgreeStep ==
    ~Overlap /\ GradingInv /\ EarnInv /\ ThreadInv /\ AgreeInv /\ [Next]_vars
        => AgreeInv'
<1> SUFFICES ASSUME GradingInv, EarnInv, ThreadInv, AgreeInv, [Next]_vars
             PROVE  AgreeInv'
  OBVIOUS
<1>0. /\ run \in [Runs -> RunState] /\ 0 \notin Heads
      /\ \A r \in Runs : Pr(r) \in PRs \/ run[r].at = "waiting"
  BY PrTyped, GradingAssumption DEF GradingInv, GradingTypes
<1>1. CASE UNCHANGED <<thread, run, commitStatus>>
  BY <1>0, <1>1, OthersKeep DEF Ours
<1>2. ASSUME NEW r \in Runs, RunStep(r)
      PROVE  AgreeInv'
  <2>1. Alone(r) /\ Told(r)
    BY <1>2, RunStepAlone DEF AgreeInv
  <2> QED  BY <1>2, <2>1, QuietSteps, QuietKeeps, WriteKeeps, EndKeeps
           DEF RunStep
<1>3. ASSUME NEW r \in Runs, Raise(r)
      PROVE  AgreeInv'
  BY <1>3, RaiseKept, RaiseKeeps
<1>4. ASSUME NEW p \in PRs, Talk(p)
      PROVE  AgreeInv'
  <2>1. run' = run /\ commitStatus' = commitStatus
    BY <1>4 DEF Talk
  <2> QED  BY <1>0, <1>4, <2>1, TalkOurs, OthersKeep
<1>5. ASSUME NEW r \in Runs, NEW h \in Heads, Receive(r, h)
      PROVE  AgreeInv'
  <2>1. thread' = thread /\ commitStatus' = commitStatus
    BY <1>5 DEF Receive, github
  <2>2. run[r].head = 0 /\ run[r].graded = {}
    BY <1>5 DEF Receive, GradingInv, Begun, AgreeInv, Told, Ungraded
  <2>3. /\ run'[r].at = "fetch" /\ run'[r].graded = run[r].graded
        /\ \A q \in Runs \ {r} : run'[q] = run[q]
    BY <1>0, <1>5 DEF Receive, RunState
  <2>4. Silent(run'[r])
    BY <2>2, <2>3 DEF Silent
  <2> QED  BY <1>0, <2>1, <2>2, <2>3, <2>4, OthersKeep DEF Ours
<1>6. CASE Crash
  <2>1. thread' = thread /\ commitStatus' = commitStatus
    BY <1>6 DEF Crash, github
  <2>2. ASSUME NEW q \in Runs
        PROVE  \/ run'[q] = run[q]
               \/ run'[q].at = "killed" /\ run'[q].head = run[q].head
    BY <1>0, <1>6 DEF Crash, RunState
  <2> QED  BY <1>0, <2>1, <2>2, OthersKeep DEF Ours
<1> QED  BY <1>1, <1>2, <1>3, <1>4, <1>5, <1>6
         DEF Next, vars, github, Push, WorkerRecords, WorkerReads, WorkerWrites

LEMMA AgreeInit == Init => AgreeInv
<1> SUFFICES ASSUME Init PROVE AgreeInv
  OBVIOUS
<1>1. ASSUME NEW p \in PRs
      PROVE  Ours(p) = {}
  <2>1. thread[p] = <<>>
    BY DEF Init
  <2> QED  BY <2>1 DEF Ours
<1>2. \A r \in Runs : run[r].at = "waiting" /\ run[r].graded = {}
  BY DEF Init, NewRun
<1> QED  BY <1>1, <1>2 DEF AgreeInv, Told, Ungraded

\* The comment on a pull request whose runs take turns says what the status
\* of its head says, unless a run of that head was cut short, raised or graded
\* nothing, for any number of runs, heads, faults and crashes.
THEOREM CommentTellsStatus ==
    Spec => [](~Overlap /\ MaxOthers < PageSize => CommentAgreesWithStatus)
<1> DEFINE Fits == ~Overlap /\ MaxOthers < PageSize
           Inv  == Fits => EarnInv /\ ThreadInv /\ AgreeInv
           Goal == Fits => CommentAgreesWithStatus
<1>1. Init => Inv
  BY EarnInit, ThreadInit, AgreeInit
<1>2. GradingInv /\ Inv /\ [Next]_vars => Inv'
  BY EarnStep, ThreadStep, AgreeStep
<1>3. Inv => Goal
  BY DEF AgreeInv, Agrees, Excuse, CommentAgreesWithStatus
<1>4. Spec => []Goal
  <2> HIDE DEF Inv, Goal
  <2> QED  BY <1>1, <1>2, <1>3, GradingInvInit, GradingInvStep, PTL DEF Spec
<1> QED  BY <1>4
-----------------------------------------------------------------------------
(***************************************************************************)
(* Pins. Where only the runs of one pull request write the state file, in  *)
(* turn, a run that ends without a fault takes its pin away for good. (An  *)
(* ingest or a run of another pull request in between may put it back.)    *)
(***************************************************************************)
OnePullRequest == \A o, p \in PRs : o = p

NothingToIngest == Revs \subseteq Indexed0

InOrder ==
    \A q, r \in Runs :
        q < r /\ run[r].at # "waiting" => run[q].at # "waiting" /\ ~Active(q)

WorkerIdle == indexed = Revs /\ ingested = NoRev /\ update[Worker] = {}

\* An update of the state file is a pin that is written or removed.
OwnUpdate(r) ==
    /\ update[r] # {} => run[r].at \in {"pinning", "unpinning"}
    /\ run[r].at = "unpinning" =>
          \A u \in update[r] : u.key = Pr(r) /\ u.rev = NoRev

PinsInv ==
    /\ WorkerIdle /\ InOrder
    /\ \A r \in Runs : OwnUpdate(r)
    /\ PinIsReleased

\* Nobody writes the file when the last run has ended, so a step of run r can
\* only matter to r.
LEMMA PinsKept ==
    ASSUME GradingInv, PinsInv, OnePullRequest, NEW r \in Runs, Alone(r),
           indexed' = indexed, ingested' = ingested, run'[r].at # "waiting",
           \A w \in Writers \ {r} : update'[w] = update[w], OwnUpdate(r)',
           run'[r].at = "done" /\ run'[r].pinned /\ ~run'[r].raised
              => file'[Pr(r)] = NoRev
    PROVE  PinsInv'
<1>1. /\ Runs \subseteq Nat /\ Writers = Runs \cup {Worker} /\ Worker \notin Runs
      /\ Active(r) /\ run'[r].head = run[r].head /\ Pr(r)' = Pr(r)
      /\ \A q \in Runs \ {r} : run'[q] = run[q]
      /\ Pr(r) \in PRs
  BY GradingAssumption, PrTyped DEF Alone, Active, Pr, GradingInv, GradingTypes
<1>2. WorkerIdle'
  BY <1>1 DEF PinsInv, WorkerIdle
<1>3. InOrder'
  BY <1>1 DEF PinsInv, InOrder, Active
<1>4. ASSUME NEW q \in Runs
      PROVE  OwnUpdate(q)'
  <2>1. CASE q = r
    BY <2>1
  <2>2. CASE q # r
    BY <1>1, <2>2 DEF PinsInv, OwnUpdate, Pr
  <2> QED  BY <2>1, <2>2
<1>5. PinIsReleased'
  <2> SUFFICES ASSUME NEW s \in Runs, run'[s].at = "done", run'[s].pinned,
                      ~run'[s].raised, \A q \in RunsOf(Pr(s))' : q <= s
               PROVE  file'[Pr(s)'] = NoRev
    BY DEF PinIsReleased
  <2>1. CASE s = r
    BY <1>1, <2>1
  <2>2. CASE s # r
    <3>1. run[s].at = "done" /\ Pr(s)' = Pr(s) /\ Pr(s) \in PRs
      BY <1>1, <2>2, PrTyped DEF Pr, GradingInv, GradingTypes
    <3>2. r \in RunsOf(Pr(s))'
      BY <1>1, <3>1, PrTyped, GradingAssumption
         DEF OnePullRequest, RunsOf, Pr, Alone, GradingInv, GradingTypes
    <3>3. r < s
      BY <1>1, <2>2, <3>2
    <3> QED  BY <1>1, <3>1, <3>3 DEF PinsInv, InOrder
  <2> QED  BY <2>1, <2>2
<1> QED  BY <1>2, <1>3, <1>4, <1>5 DEF PinsInv

\* What the steps of a run do to the state file.
LEMMA PinSteps ==
    ASSUME GradingInv, PinsInv, NEW r \in Runs, RunStep(r)
    PROVE  /\ indexed' = indexed /\ ingested' = ingested
           /\ run'[r].at # "waiting"
           /\ \A w \in Writers \ {r} : update'[w] = update[w]
           /\ run'[r].head = run[r].head => OwnUpdate(r)'
           /\ run'[r].at = "done" /\ run'[r].pinned /\ ~run'[r].raised
                 => file'[Pr(r)] = NoRev
<1>1. /\ run \in [Runs -> RunState] /\ run[r] \in RunState
      /\ r \in Writers /\ update \in [Writers -> SUBSET Update] /\ file \in Files
      /\ OwnUpdate(r)
  BY GradingAssumption DEF GradingInv, GradingTypes, StateTypeOK, PinsInv
<1>2. Exit(run[r]) \in {"unpin", "done"}
        /\ (Exit(run[r]) = "done" => ~run[r].pinned)
  BY <1>1, ExitStage DEF Exit
<1>3. indexed' = indexed /\ ingested' = ingested
  BY DEF RunStep, FetchFiles, PostNotPacket, PostPending, FindParent,
     PostNotIndexed, PinRead, PinWrite, FetchBody, SkipPacket, OpenTmp, WriteTmp,
     WriteGone, ParseTmp, ParseNothing, UnlinkTmp, GradePacket, EndPackets,
     ListComments, WriteComment, WriteExplanation, PostFinal, PostError,
     UnpinRead, UnpinWrite, ledger
<1>4. CASE PinRead(r) \/ UnpinRead(r)
  <2>1. PICK s \in {"pinning", "unpinning"}, v \in Values :
           /\ Goto(r, s) /\ ReadFile(r, Pr(r), v)
           /\ s = "unpinning" => v = NoRev
    BY <1>1, <1>4 DEF PinRead, UnpinRead, AcquirePin, ReleasePin, Values, RunState
  <2>2. run'[r].at = s /\ update'[r] = {[seen |-> file, key |-> Pr(r), rev |-> v]}
          /\ \A w \in Writers \ {r} : update'[w] = update[w]
    BY <1>1, <2>1, GotoAll DEF ReadFile
  <2>3. run'[r].head = run[r].head => OwnUpdate(r)'
    BY <2>1, <2>2 DEF OwnUpdate, Pr
  <2> QED  BY <1>3, <2>2, <2>3
<1>5. CASE PinWrite(r) \/ UnpinWrite(r)
  <2>1. PICK u \in update[r] : /\ file' = [u.seen EXCEPT ![u.key] = u.rev]
                               /\ update' = [update EXCEPT ![r] = {}]
    BY <1>5 DEF PinWrite, UnpinWrite, Replace
  <2>2. update'[r] = {} /\ \A w \in Writers \ {r} : update'[w] = update[w]
    BY <1>1, <2>1
  <2>3. OwnUpdate(r)'
    BY <2>2 DEF OwnUpdate
  <2>4. CASE PinWrite(r)
    <3>1. run'[r].at = "packet"
      BY <1>1, <2>4 DEF PinWrite, RunState
    <3> QED  BY <1>3, <2>2, <2>3, <3>1
  <2>5. CASE UnpinWrite(r)
    <3>1. run'[r].at = "done" /\ u.key = Pr(r) /\ u.rev = NoRev
      BY <1>1, <2>5, GotoAll DEF UnpinWrite, OwnUpdate
    <3>2. u.seen \in Files /\ u.key \in Keys
      BY <1>1 DEF Update
    <3>3. file'[Pr(r)] = NoRev
      BY <2>1, <3>1, <3>2 DEF Files
    <3> QED  BY <1>3, <2>2, <2>3, <3>1, <3>3
  <2> QED  BY <1>5, <2>4, <2>5
<1>6. ASSUME update' = update, run[r].at \notin {"pinning", "unpinning"},
             run'[r].at # "waiting",
             run'[r].at = "done" => ~run'[r].pinned
      PROVE  /\ run'[r].at # "waiting"
             /\ \A w \in Writers \ {r} : update'[w] = update[w]
             /\ OwnUpdate(r)'
             /\ run'[r].at = "done" /\ run'[r].pinned /\ ~run'[r].raised
                   => file'[Pr(r)] = NoRev
  <2>1. update'[r] = {}
    BY <1>1, <1>6 DEF OwnUpdate
  <2> QED  BY <1>6, <2>1 DEF OwnUpdate
<1>7. CASE PostNotPacket(r) \/ PostNotIndexed(r) \/ FetchBody(r) \/ OpenTmp(r)
           \/ WriteTmp(r) \/ WriteGone(r) \/ EndPackets(r) \/ WriteComment(r)
           \/ WriteExplanation(r) \/ PostFinal(r) \/ PostError(r)
  <2>1. /\ update' = update /\ run[r].at \notin {"pinning", "unpinning"}
        /\ \E s : /\ Goto(r, s) /\ s # "waiting"
                  /\ s = "done" => ~run[r].pinned
    BY <1>2, <1>7 DEF PostNotPacket, PostNotIndexed, FetchBody, OpenTmp, WriteTmp,
       WriteGone, EndPackets, WriteComment, WriteExplanation, PostFinal,
       PostError, svars
  <2>2. run'[r].at # "waiting" /\ (run'[r].at = "done" => ~run'[r].pinned)
    BY <1>1, <2>1 DEF Goto, RunState
  <2> QED  BY <1>3, <1>6, <2>1, <2>2
<1>8. CASE FetchFiles(r) \/ PostPending(r) \/ FindParent(r) \/ SkipPacket(r)
           \/ ParseTmp(r) \/ ParseNothing(r) \/ UnlinkTmp(r) \/ GradePacket(r)
           \/ ListComments(r)
  <2>1. update' = update /\ run[r].at \notin {"pinning", "unpinning"}
    BY <1>8 DEF FetchFiles, PostPending, FindParent, SkipPacket, ParseTmp,
       ParseNothing, UnlinkTmp, GradePacket, ListComments, svars
  <2>2. run'[r].at \notin {"waiting", "done"}
    <3>1. CASE FetchFiles(r) \/ PostPending(r) \/ FindParent(r)
      BY <1>1, <3>1 DEF FetchFiles, PostPending, FindParent, RunState
    <3>2. CASE SkipPacket(r) \/ ParseTmp(r) \/ ParseNothing(r)
      BY <1>1, <3>2 DEF SkipPacket, ParseTmp, ParseNothing, RunState
    <3>3. CASE UnlinkTmp(r)
      BY <1>1, <3>3 DEF UnlinkTmp, RunState
    <3>4. CASE GradePacket(r)
      BY <1>1, <3>4 DEF GradePacket, RunState
    <3>5. CASE ListComments(r)
      <4>1. PICK i :
               run' = [run EXCEPT
                         ![r].at = IF @ = "list" THEN "comment" ELSE "explain",
                         ![r].target = i]
        BY <3>5 DEF ListComments
      <4> QED  BY <1>1, <4>1 DEF RunState
    <3> QED  BY <1>8, <3>1, <3>2, <3>3, <3>4, <3>5
  <2> QED  BY <1>3, <1>6, <2>1, <2>2
<1> QED  BY <1>4, <1>5, <1>7, <1>8 DEF RunStep

LEMMA RaisePins ==
    ASSUME GradingInv, EarnInv, PinsInv, OnePullRequest, NEW r \in Runs, Raise(r)
    PROVE  PinsInv'
<1>1. /\ run \in [Runs -> RunState] /\ run[r] \in RunState
      /\ r \in Writers /\ update \in [Writers -> SUBSET Update]
  BY GradingAssumption DEF GradingInv, GradingTypes, StateTypeOK
<1>2. run'[r].at = Handler(run[r]) /\ run'[r].raised
  BY <1>1 DEF Raise, RunState
<1>3. run'[r].at \in {"unlinkLost", "error", "unpin", "done"}
  BY <1>1, <1>2, HandlerStage
<1>4. /\ indexed' = indexed /\ ingested' = ingested
      /\ update'[r] = {} /\ \A w \in Writers \ {r} : update'[w] = update[w]
  BY <1>1 DEF Raise, Abandon, svars, ledger
<1>5. OwnUpdate(r)'
  BY <1>4 DEF OwnUpdate
<1> QED  BY <1>2, <1>3, <1>4, <1>5, RaiseKept, PinsKept

LEMMA ReceivePins ==
    ASSUME GradingInv, PinsInv, OnePullRequest, ~Overlap, NEW r \in Runs,
           NEW h \in Heads, Receive(r, h)
    PROVE  PinsInv'
<1>1. /\ run \in [Runs -> RunState] /\ Begun /\ Runs \subseteq Nat
      /\ PrOf \in [Heads -> PRs] /\ 0 \notin Heads
      /\ UNCHANGED <<svars, ledger>> /\ run[r].at = "waiting"
      /\ \A q \in Runs : q < r => run[q].at # "waiting"
  BY GradingAssumption DEF GradingInv, GradingTypes, Receive
<1>2. /\ \A q \in Runs \ {r} : run'[q] = run[q]
      /\ run'[r].at = "fetch" /\ run'[r].head = h
  BY <1>1 DEF Receive, RunState
<1>3. ASSUME NEW q \in Runs
      PROVE  ~Active(q)
  <2> SUFFICES ASSUME Active(q) PROVE FALSE
    OBVIOUS
  <2>1. run[q].head \in Heads /\ Pr(q) \in PRs /\ PrOf[h] \in PRs
    BY <1>1, PrTyped DEF Active
  <2>2. q \in RunsOf(PrOf[h])
    BY <1>1, <2>1 DEF OnePullRequest, RunsOf, Pr
  <2> QED  BY <2>2 DEF Receive
<1>4. WorkerIdle'
  BY <1>1 DEF PinsInv, WorkerIdle, ledger, svars
<1>5. InOrder'
  <2> SUFFICES ASSUME NEW q \in Runs, NEW s \in Runs, q < s,
                      run'[s].at # "waiting"
               PROVE  run'[q].at # "waiting" /\ ~Active(q)'
    BY DEF InOrder
  <2>1. q # r
    BY <1>1, <1>2 DEF PinsInv, InOrder
  <2>2. run[q].at # "waiting"
    BY <1>1, <1>2 DEF PinsInv, InOrder
  <2> QED  BY <1>2, <1>3, <2>1, <2>2 DEF Active
<1>6. ASSUME NEW q \in Runs
      PROVE  OwnUpdate(q)'
  <2>1. CASE q = r
    BY <1>1, <1>2, <2>1 DEF PinsInv, OwnUpdate, svars
  <2>2. CASE q # r
    BY <1>1, <1>2, <2>2 DEF PinsInv, OwnUpdate, svars, Pr
  <2> QED  BY <2>1, <2>2
<1>7. PinIsReleased'
  <2> SUFFICES ASSUME NEW s \in Runs, run'[s].at = "done", run'[s].pinned,
                      ~run'[s].raised, \A q \in RunsOf(Pr(s))' : q <= s
               PROVE  file'[Pr(s)'] = NoRev
    BY DEF PinIsReleased
  <2>1. s # r /\ run'[s] = run[s] /\ Pr(s)' = Pr(s)
    BY <1>2 DEF Pr
  <2>2. ASSUME NEW q \in RunsOf(Pr(s))
        PROVE  q <= s
    <3>1. q # r
      BY <1>1, <2>2 DEF RunsOf, Begun
    <3>2. q \in RunsOf(Pr(s))'
      BY <1>2, <2>1, <2>2, <3>1 DEF RunsOf
    <3> QED  BY <3>2
  <2> QED  BY <1>1, <2>1, <2>2 DEF PinsInv, PinIsReleased, svars
<1> QED  BY <1>4, <1>5, <1>6, <1>7 DEF PinsInv

\* Steps that leave runs and state file alone.
LEMMA PinsSame ==
    ASSUME PinsInv, UNCHANGED <<svars, run, ledger>>
    PROVE  PinsInv'
<1>1. WorkerIdle' /\ InOrder'
  BY DEF PinsInv, WorkerIdle, InOrder, Active, svars, ledger
<1>2. \A r \in Runs : OwnUpdate(r)'
  BY DEF PinsInv, OwnUpdate, Pr, svars
<1>3. PinIsReleased'
  BY DEF PinsInv, PinIsReleased, RunsOf, Pr, svars
<1> QED  BY <1>1, <1>2, <1>3 DEF PinsInv

LEMMA CrashPins ==
    ASSUME GradingInv, PinsInv, Crash
    PROVE  PinsInv'
<1>1. /\ run \in [Runs -> RunState] /\ Writers = Runs \cup {Worker}
      /\ file' = file /\ indexed' = indexed /\ ingested' = NoRev
      /\ update' = [w \in Writers |-> {}]
  BY GradingAssumption DEF GradingInv, GradingTypes, Crash
<1>2. ASSUME NEW r \in Runs
      PROVE  /\ ~Active(r)' /\ run'[r].head = run[r].head /\ Pr(r)' = Pr(r)
             /\ run'[r].at = "waiting" => run[r].at = "waiting"
             /\ run'[r].at # "waiting" => run[r].at # "waiting"
             /\ run'[r].at = "done" => run'[r] = run[r]
  <2>1. run'[r] = IF Active(r) THEN [run[r] EXCEPT !.at = "killed"] ELSE run[r]
    BY DEF Crash
  <2> QED  BY <1>1, <2>1 DEF Active, Ended, Pr, RunState
<1>3. WorkerIdle' /\ InOrder'
  BY <1>1, <1>2 DEF PinsInv, WorkerIdle, InOrder
<1>4. \A r \in Runs : OwnUpdate(r)'
  BY <1>1 DEF OwnUpdate
<1>5. PinIsReleased'
  <2> SUFFICES ASSUME NEW s \in Runs, run'[s].at = "done", run'[s].pinned,
                      ~run'[s].raised, \A q \in RunsOf(Pr(s))' : q <= s
               PROVE  file'[Pr(s)'] = NoRev
    BY DEF PinIsReleased
  <2>1. \A q \in RunsOf(Pr(s)) : q <= s
    BY <1>2 DEF RunsOf
  <2> QED  BY <1>1, <1>2, <2>1 DEF PinsInv, PinIsReleased
<1> QED  BY <1>3, <1>4, <1>5 DEF PinsInv

LEMMA PinsStep ==
    OnePullRequest /\ ~Overlap /\ GradingInv /\ EarnInv /\ PinsInv
        /\ [Next]_vars => PinsInv'
<1> SUFFICES ASSUME OnePullRequest, ~Overlap, GradingInv, EarnInv, PinsInv,
                    [Next]_vars
             PROVE  PinsInv'
  OBVIOUS
<1>1. CASE UNCHANGED <<svars, run, ledger>>
  BY <1>1, PinsSame
<1>2. ASSUME NEW r \in Runs, RunStep(r)
      PROVE  PinsInv'
  <2>1. Alone(r)
    BY <1>2, RunStepAlone
  <2> QED  BY <1>2, <2>1, PinSteps, PinsKept DEF Alone
<1>3. ASSUME NEW r \in Runs, Raise(r)
      PROVE  PinsInv'
  BY <1>3, RaisePins
<1>4. ASSUME NEW r \in Runs, NEW h \in Heads, Receive(r, h)
      PROVE  PinsInv'
  BY <1>4, ReceivePins
<1>5. CASE Crash
  BY <1>5, CrashPins
<1>6. CASE (\E b \in Revs : WorkerRecords(b)) \/ WorkerReads \/ WorkerWrites
  BY <1>6 DEF PinsInv, WorkerIdle, WorkerRecords, WorkerReads, WorkerWrites,
              Replace
<1> QED  BY <1>1, <1>2, <1>3, <1>4, <1>5, <1>6
         DEF Next, vars, Push, Talk

LEMMA PinsInit == NothingToIngest /\ Init => PinsInv
<1> SUFFICES ASSUME NothingToIngest, Init PROVE PinsInv
  OBVIOUS
<1>1. \A r \in Runs : run[r].at = "waiting"
  BY DEF Init, NewRun
<1>2. \A w \in Writers : update[w] = {}
  BY DEF Init, StateInit
<1>3. WorkerIdle
  BY <1>2, GradingAssumption DEF Init, WorkerIdle, NothingToIngest
<1> QED  BY <1>1, <1>2, <1>3, GradingAssumption
         DEF PinsInv, InOrder, OwnUpdate, PinIsReleased

\* The last run of a pull request leaves no pin behind unless one of its calls
\* raised, whatever runs before it raised or were killed, where nothing but
\* the runs of that pull request writes the state file.
THEOREM LastRunReleasesPin ==
    Spec => [](~Overlap /\ OnePullRequest /\ NothingToIngest => PinIsReleased)
<1> DEFINE Undisturbed == ~Overlap /\ OnePullRequest /\ NothingToIngest
           Inv  == Undisturbed => EarnInv /\ PinsInv
           Goal == Undisturbed => PinIsReleased
<1>1. Init => Inv
  BY EarnInit, PinsInit
<1>2. GradingInv /\ Inv /\ [Next]_vars => Inv'
  BY EarnStep, PinsStep
<1>3. Inv => Goal
  BY DEF PinsInv
<1>4. Spec => []Goal
  <2> HIDE DEF Inv, Goal
  <2> QED  BY <1>1, <1>2, <1>3, GradingInvInit, GradingInvStep, PTL DEF Spec
<1> QED  BY <1>4
-----------------------------------------------------------------------------
(***************************************************************************)
(* The state file, written by the runs of one pull request in turn, is a   *)
(* map that changes one key at a time: nobody else is in the middle of an  *)
(* update when one is made.                                                *)
(***************************************************************************)

\* Two runs that are updating the file are the same run.
LEMMA OneUpdate ==
    ASSUME GradingInv, PinsInv, NEW r \in Runs, update[r] # {},
           NEW w \in Writers, update[w] # {}
    PROVE  w = r
<1>1. Writers = Runs \cup {Worker} /\ Runs \subseteq Nat
  BY GradingAssumption
<1>2. w \in Runs
  BY <1>1 DEF PinsInv, WorkerIdle
<1>3. Active(r) /\ Active(w)
  BY <1>2 DEF PinsInv, OwnUpdate, Active, Ended
<1>4. ~(w < r) /\ ~(r < w)
  BY <1>2, <1>3 DEF PinsInv, InOrder, Active
<1> QED  BY <1>1, <1>2, <1>4

\* Reading, replacing and giving up keep the copies fresh.
LEMMA FreshUpdates ==
    ASSUME GradingInv, PinsInv, FreshCopies, NEW r \in Runs,
           \/ \E k \in Keys, v \in Values : ReadFile(r, k, v)
           \/ Replace(r)
           \/ Abandon(r)
    PROVE  FreshCopies'
<1>1. r \in Writers /\ update \in [Writers -> SUBSET Update]
  BY GradingAssumption DEF GradingInv, GradingTypes, StateTypeOK
<1>2. CASE \E k \in Keys, v \in Values : ReadFile(r, k, v)
  BY <1>1, <1>2 DEF ReadFile, FreshCopies
<1>3. CASE Replace(r)
  <2>1. update[r] # {} /\ update' = [update EXCEPT ![r] = {}]
    BY <1>3 DEF Replace
  <2>2. \A w \in Writers : update'[w] = {}
    BY <1>1, <2>1, OneUpdate
  <2> QED  BY <2>2 DEF FreshCopies
<1>4. CASE Abandon(r)
  BY <1>1, <1>4 DEF Abandon, FreshCopies
<1> QED  BY <1>2, <1>3, <1>4

\* What the steps of grading do to the state file, the ingest worker apart.
LEMMA FileSteps ==
    ASSUME GradingInv, PinsInv, [Next]_vars
    PROVE  \/ UNCHANGED svars
           \/ file' = file /\ \A w \in Writers : update'[w] = {}
           \/ \E r \in Runs :
                 \/ \E k \in Keys, v \in Values : ReadFile(r, k, v)
                 \/ Replace(r)
                 \/ Abandon(r)
<1>1. ASSUME NEW r \in Runs, RunStep(r)
      PROVE  \/ UNCHANGED svars
             \/ \E k \in Keys, v \in Values : ReadFile(r, k, v)
             \/ Replace(r)
  <2>1. CASE PinRead(r) \/ UnpinRead(r)
    <3>1. Active(r)
      BY <2>1 DEF PinRead, UnpinRead, Active, Ended
    <3>2. Pr(r) \in PRs /\ run[r] \in RunState
      BY <3>1, PrTyped DEF Active, GradingInv, GradingTypes
    <3>3. Pr(r) \in Keys /\ run[r].rev \in Values /\ NoRev \in Values
      BY <3>2 DEF Keys, Values, RunState
    <3> QED  BY <2>1, <3>3 DEF PinRead, UnpinRead, AcquirePin, ReleasePin
  <2>2. CASE PinWrite(r) \/ UnpinWrite(r)
    BY <2>2 DEF PinWrite, UnpinWrite
  <2>3. CASE ~(PinRead(r) \/ UnpinRead(r) \/ PinWrite(r) \/ UnpinWrite(r))
    BY <1>1, <2>3
       DEF RunStep, FetchFiles, PostNotPacket, PostPending, FindParent,
           PostNotIndexed, FetchBody, SkipPacket, OpenTmp, WriteTmp, WriteGone,
           ParseTmp, ParseNothing, UnlinkTmp, GradePacket, EndPackets,
           ListComments, WriteComment, WriteExplanation, PostFinal, PostError
  <2> QED  BY <2>1, <2>2, <2>3
<1>2. ASSUME NEW r \in Runs, Raise(r)
      PROVE  UNCHANGED svars \/ Abandon(r)
  BY <1>2 DEF Raise
<1>3. ASSUME NEW r \in Runs, NEW h \in Heads, Receive(r, h)
      PROVE  UNCHANGED svars
  BY <1>3 DEF Receive
<1>4. CASE Crash
  BY <1>4 DEF Crash
<1>5. ~((\E b \in Revs : WorkerRecords(b)) \/ WorkerReads \/ WorkerWrites)
  BY DEF PinsInv, WorkerIdle, WorkerRecords, WorkerReads, WorkerWrites, Replace
<1> QED  BY <1>1, <1>2, <1>3, <1>4, <1>5 DEF Next, vars, Push, Talk

LEMMA FreshStep ==
    ASSUME GradingInv, PinsInv, FreshCopies, [Next]_vars
    PROVE  FreshCopies'
<1>1. CASE UNCHANGED svars
  BY <1>1 DEF svars, FreshCopies
<1>2. CASE file' = file /\ \A w \in Writers : update'[w] = {}
  BY <1>2 DEF FreshCopies
<1> QED  BY <1>1, <1>2, FileSteps, FreshUpdates

LEMMA StoreStep ==
    ASSUME GradingInv, PinsInv, FreshCopies, [Next]_vars
    PROVE  [Store!Next]_file
<1> SUFFICES ASSUME file' # file PROVE Store!Next
  OBVIOUS
<1>1. PICK r \in Runs : Replace(r)
  BY FileSteps DEF svars, ReadFile, Abandon
<1>2. PICK u \in update[r] : file' = [u.seen EXCEPT ![u.key] = u.rev]
  BY <1>1 DEF Replace
<1>3. r \in Writers /\ u \in Update
  BY GradingAssumption DEF GradingInv, GradingTypes, StateTypeOK
<1>4. u.seen = file /\ u.key \in Keys /\ u.rev \in Revs \cup {NoRev}
  BY <1>3 DEF FreshCopies, Update, Values
<1> QED  BY <1>2, <1>4 DEF Store!Next, Store!Put, Keys

\* The runs of one pull request, in turn and with no ingest beside them, write
\* the state file as if every pin were put and taken in one step: acquire_pin()
\* and release_pin() lose nothing of it, whatever call raises or dies.
THEOREM TurnsImplementStore ==
    ASSUME ~Overlap, OnePullRequest, NothingToIngest
    PROVE  Spec => ImplementsStore
<1>1. Init => Store!Init
  BY DEF Init, StateInit, Store!Init, Files, Keys, Values
<1>2. Init => FreshCopies
  BY DEF Init, StateInit, FreshCopies
<1>3. Init => EarnInv /\ PinsInv
  BY EarnInit, PinsInit
<1>4. GradingInv /\ EarnInv /\ PinsInv /\ [Next]_vars => EarnInv' /\ PinsInv'
  BY EarnStep, PinsStep
<1>5. GradingInv /\ PinsInv /\ FreshCopies /\ [Next]_vars => FreshCopies'
  BY FreshStep
<1>6. GradingInv /\ PinsInv /\ FreshCopies /\ [Next]_vars => [Store!Next]_file
  BY StoreStep
<1> QED  BY <1>1, <1>2, <1>3, <1>4, <1>5, <1>6, GradingInvInit, GradingInvStep,
            PTL DEF Spec, ImplementsStore, Store!Spec
=============================================================================
