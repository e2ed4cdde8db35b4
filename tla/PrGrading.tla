----------------------------- MODULE PrGrading -----------------------------
(***************************************************************************)
(* The pre-merge grading gate: run_pr_grading() of grader_service.py, run  *)
(* by the receiver as a background task for every pull_request event, with *)
(* what it shares with other runs and other threads: the commit statuses   *)
(* and the comment thread on GitHub, one temporary file per pull request,  *)
(* the pins in the state file, the ledger.                                 *)
(*                                                                         *)
(* A run is a sequence of calls to GitHub, to the disk and to the ledger;  *)
(* each is a step, since background tasks run in threads of their own.     *)
(* Every call may raise; what GitHub or the file system has done by then   *)
(* stays done.                                                             *)
(*                                                                         *)
(* The commits of pull requests are numbered in the order they are pushed. *)
(* A body is what one packet's 02-qna-log.md says at one commit; whether   *)
(* its receipts reach its threshold is a constant.                         *)
(***************************************************************************)
EXTENDS StateFile, Naturals, Sequences, FiniteSets

CONSTANTS
    Runs,        \* the grading runs, numbered in the order they begin
    Worker,      \* the ingest worker, the other writer of the state file
    Heads,       \* commits of pull requests
    PrOf,        \* PrOf[h]: the pull request h belongs to
    BaseOf,      \* BaseOf[h]: the revision of the event's base.sha
    Packets,     \* paths of 02-qna-log.md files
    Touched,     \* Touched[h]: those on the first page of the pull request's
                 \* file list as of h
    Readable,    \* the bodies the contents API returns: files that are there
                 \* at that commit and not too large
    Passing,     \* those whose receipts reach the threshold
    Indexed0,    \* the revisions in the ledger at the start
    Overlap,     \* may a run begin while one of the same pull request runs?
    PageSize,    \* how many comments list_issue_comments() sees
    MaxOthers,   \* bound: comments by others, on each pull request
    MaxFaults,   \* bound: calls that raise
    MaxCrashes   \* bound: how often the daemon dies

Bodies == Heads \X Packets

ASSUME GradingAssumption ==
    /\ Runs \subseteq Nat \ {0}
    /\ Worker \notin Runs
    /\ Writers = Runs \cup {Worker}
    /\ Heads \subseteq Nat \ {0}
    /\ PrOf \in [Heads -> PRs]
    /\ BaseOf \in [Heads -> Revs]
    /\ Touched \in [Heads -> SUBSET Packets]
    /\ Readable \subseteq Bodies
    /\ Passing \subseteq Readable
    /\ Indexed0 \subseteq Revs
    /\ Overlap \in BOOLEAN
    /\ {PageSize, MaxOthers, MaxFaults, MaxCrashes} \subseteq Nat

VARIABLES
    tip,           \* tip[p]: the head commit of p on GitHub, 0 before p opens
    commitStatus,  \* commitStatus[h]: the latest status of our context
    thread,        \* thread[p]: the comments on p, in order
    tmp,           \* tmp[p]: the temporary file pr-<p>-02-qna-log.md
    indexed,       \* the revisions in the ledger
    ingested,      \* what the worker has recorded and not yet written
    run,           \* run[r]: the local state of a run
    faults,        \* how many calls raised
    crashes        \* how often the daemon died

github == <<tip, commitStatus, thread>>
ledger == <<indexed, ingested>>
bounds == <<faults, crashes>>
vars == <<github, svars, tmp, ledger, run, bounds>>

\* GitHub sees the states pending, failure and, for all the others, success.
Verdicts == {"passed", "failed"}
Statuses == {"none", "pending", "notPacket", "notIndexed", "error"} \cup Verdicts

Comment == [by : {"grader", "other"}, head : Heads \cup {0}, says : Statuses]
TmpFile == [there : BOOLEAN, text : SUBSET Bodies]
NoFile  == [there |-> FALSE, text |-> {}]

\* Where a run is: the call it makes next.
Stages == {"waiting", "fetch", "notPacket", "pending", "parent",
           "notIndexed", "explainList", "explain", "pin", "pinning",
           "packet", "open", "write", "writeGone", "parse", "unlink",
           "unlinkLost", "grade", "list", "comment", "final", "error",
           "unpin", "unpinning", "done", "killed"}
Ended == {"done", "killed"}

RunState == [at : Stages, head : Heads \cup {0}, todo : SUBSET Packets,
             text : SUBSET Bodies, graded : SUBSET (Packets \X BOOLEAN),
             target : Nat, rev : Values, pending : BOOLEAN, pinned : BOOLEAN,
             raised : BOOLEAN]
NewRun == [at |-> "waiting", head |-> 0, todo |-> {}, text |-> {},
           graded |-> {}, target |-> 0, rev |-> NoRev, pending |-> FALSE,
           pinned |-> FALSE, raised |-> FALSE]

TypeOK ==
    /\ StateTypeOK
    /\ tip \in [PRs -> Heads \cup {0}]
    /\ commitStatus \in [Heads -> Statuses]
    /\ thread \in [PRs -> Seq(Comment)]
    /\ tmp \in [PRs -> TmpFile]
    /\ indexed \subseteq Revs
    /\ ingested \in Values
    /\ run \in [Runs -> RunState]
    /\ faults \in 0..MaxFaults
    /\ crashes \in 0..MaxCrashes

Init ==
    /\ StateInit
    /\ \A p \in PRs : file[p] = NoRev
    /\ file[Latest] \in Indexed0 \cup {NoRev}
    /\ tip = [p \in PRs |-> 0]
    /\ commitStatus = [h \in Heads |-> "none"]
    /\ thread = [p \in PRs |-> <<>>]
    /\ tmp = [p \in PRs |-> NoFile]
    /\ indexed = Indexed0
    /\ ingested = NoRev
    /\ run = [r \in Runs |-> NewRun]
    /\ faults = 0
    /\ crashes = 0
-----------------------------------------------------------------------------
(* GitHub and the people who use it *)

\* A pull request is opened, or a commit is pushed to it.
Push(h) ==
    /\ tip[PrOf[h]] < h
    /\ \A g \in Heads : PrOf[g] = PrOf[h] /\ g < h => g <= tip[PrOf[h]]
    /\ tip' = [tip EXCEPT ![PrOf[h]] = h]
    /\ UNCHANGED <<commitStatus, thread, svars, tmp, ledger, run, bounds>>

Others(p) == {i \in DOMAIN thread[p] : thread[p][i].by = "other"}
Ours(p)   == {i \in DOMAIN thread[p] : thread[p][i].by = "grader"}

\* Somebody else comments on a pull request.
Talk(p) ==
    /\ tip[p] # 0
    /\ Cardinality(Others(p)) < MaxOthers
    /\ thread' = [thread EXCEPT ![p] =
                    Append(@, [by |-> "other", head |-> 0, says |-> "none"])]
    /\ UNCHANGED <<tip, commitStatus, svars, tmp, ledger, run, bounds>>
-----------------------------------------------------------------------------
(* The receiver *)

Active(r) == run[r].at \notin {"waiting"} \cup Ended
RunsOf(p) == {r \in Runs : run[r].head # 0 /\ PrOf[run[r].head] = p}

\* webhook() takes a pull_request event (opened, synchronize or reopened) of
\* any commit pushed so far and adds the background task.
Receive(r, h) ==
    /\ run[r].at = "waiting"
    /\ \A q \in Runs : q < r => run[q].at # "waiting"
    /\ h <= tip[PrOf[h]]
    /\ Overlap \/ \A q \in RunsOf(PrOf[h]) : ~Active(q)
    /\ run' = [run EXCEPT ![r].at = "fetch", ![r].head = h]
    /\ UNCHANGED <<github, svars, tmp, ledger, bounds>>
-----------------------------------------------------------------------------
(* run_pr_grading() *)

Pr(r) == PrOf[run[r].head]

\* The run makes its next call at stage s.
Goto(r, s) == run' = [run EXCEPT ![r].at = s]

\* MUTANT of Exit: the finally clause is missing.
ExitPinned(x) == "done"

\* return, by way of the finally clause.
Exit(x) == IF x.pinned THEN "unpin" ELSE "done"

\* MUTANT of Posting: one packet that passes is enough.
PostingAny(x) ==
    IF x.at # "final" THEN x.at
    ELSE IF x.graded = {} \/ \E g \in x.graded : g[2] THEN "passed"
    ELSE "failed"

\* The state the run posts next.
Posting(x) ==
    IF x.at # "final" THEN x.at
    ELSE IF \A g \in x.graded : g[2] THEN "passed" ELSE "failed"

\* What a POST of a commit status does on GitHub.
PostStatus(r) ==
    commitStatus' = [commitStatus EXCEPT ![run[r].head] = Posting(run[r])]

\* _fetch_pr_files() asks for the files of the pull request as it is now.
FetchFiles(r) ==
    /\ run[r].at = "fetch"
    /\ LET touched == Touched[tip[Pr(r)]] IN
       run' = [run EXCEPT ![r].at = IF touched = {} THEN "notPacket"
                                    ELSE "pending",
                          ![r].todo = touched]
    /\ UNCHANGED <<github, svars, tmp, ledger, bounds>>

PostNotPacket(r) ==
    /\ run[r].at = "notPacket"
    /\ PostStatus(r)
    /\ Goto(r, Exit(run[r]))
    /\ UNCHANGED <<tip, thread, svars, tmp, ledger, bounds>>

PostPending(r) ==
    /\ run[r].at = "pending"
    /\ PostStatus(r)
    /\ run' = [run EXCEPT ![r].at = "parent", ![r].pending = TRUE]
    /\ UNCHANGED <<tip, thread, svars, tmp, ledger, bounds>>

\* find_by_commit_sha() of the event's base.sha.
FindParent(r) ==
    /\ run[r].at = "parent"
    /\ LET base == BaseOf[run[r].head] IN
       run' = [run EXCEPT ![r].at = IF base \in indexed THEN "pin"
                                    ELSE "notIndexed",
                          ![r].rev = IF base \in indexed THEN base ELSE NoRev]
    /\ UNCHANGED <<github, svars, tmp, ledger, bounds>>

\* MUTANT of PostNotIndexed: the comment is all there is.
OnlyExplain(r) ==
    /\ run[r].at = "notIndexed"
    /\ Goto(r, "explainList")
    /\ UNCHANGED <<github, svars, tmp, ledger, bounds>>

PostNotIndexed(r) ==
    /\ run[r].at = "notIndexed"
    /\ PostStatus(r)
    /\ Goto(r, "explainList")
    /\ UNCHANGED <<tip, thread, svars, tmp, ledger, bounds>>

\* acquire_pin().
PinRead(r) ==
    /\ run[r].at = "pin"
    /\ AcquirePin(r, Pr(r), run[r].rev)
    /\ Goto(r, "pinning")
    /\ UNCHANGED <<github, tmp, ledger, bounds>>

PinWrite(r) ==
    /\ run[r].at = "pinning"
    /\ Replace(r)
    /\ run' = [run EXCEPT ![r].at = "packet", ![r].pinned = TRUE]
    /\ UNCHANGED <<github, tmp, ledger, bounds>>

\* The packet the loop is at, in the order of GitHub's file list.
Current(x) == CHOOSE k \in x.todo : TRUE

\* _fetch_file_at_ref() returns the body at the event's head.sha ...
FetchBody(r) ==
    /\ run[r].at = "packet"
    /\ run[r].todo # {}
    /\ <<run[r].head, Current(run[r])>> \in Readable
    /\ Goto(r, "open")
    /\ UNCHANGED <<github, svars, tmp, ledger, bounds>>

\* ... or None: that commit has no such file, or one that is not graded.
SkipPacket(r) ==
    /\ run[r].at = "packet"
    /\ run[r].todo # {}
    /\ <<run[r].head, Current(run[r])>> \notin Readable
    /\ run' = [run EXCEPT ![r].todo = @ \ {Current(run[r])}]
    /\ UNCHANGED <<github, svars, tmp, ledger, bounds>>

\* write_text() opens the temporary file, which empties it ...
OpenTmp(r) ==
    /\ run[r].at = "open"
    /\ tmp' = [tmp EXCEPT ![Pr(r)] = [there |-> TRUE, text |-> {}]]
    /\ Goto(r, "write")
    /\ UNCHANGED <<github, svars, ledger, bounds>>

\* ... and writes the body, over another's if one is there by now ...
WriteTmp(r) ==
    /\ run[r].at = "write"
    /\ LET body == <<run[r].head, Current(run[r])>> IN
       \E text \in {{body}, tmp[Pr(r)].text \cup {body}} :
          tmp' = [tmp EXCEPT ![Pr(r)].text = text]
    /\ Goto(r, "parse")
    /\ UNCHANGED <<github, svars, ledger, bounds>>

\* ... or to no effect, if another run has unlinked the file it has open.
WriteGone(r) ==
    /\ run[r].at = "writeGone"
    /\ Goto(r, "parse")
    /\ UNCHANGED <<github, svars, tmp, ledger, bounds>>

\* parse_packet_receipts() reads the file, if it is still there.
ParseTmp(r) ==
    /\ run[r].at = "parse"
    /\ tmp[Pr(r)].there
    /\ run' = [run EXCEPT ![r].at = "unlink", ![r].text = tmp[Pr(r)].text]
    /\ UNCHANGED <<github, svars, tmp, ledger, bounds>>

ParseNothing(r) ==
    /\ run[r].at = "parse"
    /\ ~tmp[Pr(r)].there
    /\ run' = [run EXCEPT ![r].at = "unlinkLost", ![r].raised = TRUE]
    /\ UNCHANGED <<github, svars, tmp, ledger, bounds>>

\* The inner finally clause, after a parse that returned or raised.  A run
\* that has the file open goes on writing to a file that has no name.
UnlinkTmp(r) ==
    /\ run[r].at \in {"unlink", "unlinkLost"}
    /\ tmp' = [tmp EXCEPT ![Pr(r)] = NoFile]
    /\ run' = [q \in Runs |->
                 IF q = r
                 THEN [run[r] EXCEPT !.at = IF @ = "unlink" THEN "grade"
                                            ELSE "error"]
                 ELSE IF run[q].at = "write" /\ Pr(q) = Pr(r)
                 THEN [run[q] EXCEPT !.at = "writeGone"]
                 ELSE run[q]]
    /\ UNCHANGED <<github, svars, ledger, bounds>>

\* A text passes if it is a passing body.  A mixture of several may do
\* either, an empty file has no receipts and fails.
MayPass(text) ==
    \/ text # {} /\ text \subseteq Passing
    \/ \E b, c \in text : b # c

\* The receipts are graded, the artifact is written.  Atlas or the model may
\* let down receipts that another time would pass.
GradePacket(r) ==
    /\ run[r].at = "grade"
    /\ \E passed \in {FALSE, MayPass(run[r].text)} :
          run' = [run EXCEPT
                    ![r].at = "packet",
                    ![r].graded = @ \cup {<<Current(run[r]), passed>>},
                    ![r].todo = @ \ {Current(run[r])}]
    /\ UNCHANGED <<github, svars, tmp, ledger, bounds>>

\* The loop ends.  There is a comment only if a packet was graded.
EndPackets(r) ==
    /\ run[r].at = "packet"
    /\ run[r].todo = {}
    /\ Goto(r, IF run[r].graded = {} THEN "final" ELSE "list")
    /\ UNCHANGED <<github, svars, tmp, ledger, bounds>>

\* post_or_update_pr_comment(): the first comment with our marker ...
ListComments(r) ==
    /\ run[r].at \in {"list", "explainList"}
    /\ LET seen == {i \in Ours(Pr(r)) : i <= PageSize} IN
       \E i \in seen \cup {0} :
          /\ i = 0 <=> seen = {}
          /\ \A j \in seen : i <= j
          /\ run' = [run EXCEPT
                       ![r].at = IF @ = "list" THEN "comment" ELSE "explain",
                       ![r].target = i]
    /\ UNCHANGED <<github, svars, tmp, ledger, bounds>>

\* MUTANT of SendComment: a new comment every time.
SendNewComment(r) ==
    thread' = [thread EXCEPT ![Pr(r)] =
                 Append(@, [by |-> "grader", head |-> run[r].head,
                            says |-> Posting([run[r] EXCEPT !.at = "final"])])]

\* ... is replaced, or a new one is posted.
SendComment(r) ==
    LET x == run[r]
        comment == [by |-> "grader", head |-> x.head,
                    says |-> IF x.at = "explain" THEN "notIndexed"
                             ELSE Posting([x EXCEPT !.at = "final"])]
    IN  thread' = [thread EXCEPT ![Pr(r)] =
                     IF x.target = 0 THEN Append(@, comment)
                     ELSE [@ EXCEPT ![x.target] = comment]]

WriteComment(r) ==
    /\ run[r].at = "comment"
    /\ SendComment(r)
    /\ Goto(r, "final")
    /\ UNCHANGED <<tip, commitStatus, svars, tmp, ledger, bounds>>

WriteExplanation(r) ==
    /\ run[r].at = "explain"
    /\ SendComment(r)
    /\ Goto(r, Exit(run[r]))
    /\ UNCHANGED <<tip, commitStatus, svars, tmp, ledger, bounds>>

\* MUTANT of PostFinal: the status goes to the pull request's head of now.
PostFinalOnTip(r) ==
    /\ run[r].at = "final"
    /\ commitStatus' = [commitStatus EXCEPT ![tip[Pr(r)]] = Posting(run[r])]
    /\ Goto(r, Exit(run[r]))
    /\ UNCHANGED <<tip, thread, svars, tmp, ledger, bounds>>

PostFinal(r) ==
    /\ run[r].at = "final"
    /\ PostStatus(r)
    /\ Goto(r, Exit(run[r]))
    /\ UNCHANGED <<tip, thread, svars, tmp, ledger, bounds>>

\* MUTANT of PostError: the exception is only logged.
LogError(r) ==
    /\ run[r].at = "error"
    /\ Goto(r, Exit(run[r]))
    /\ UNCHANGED <<github, svars, tmp, ledger, bounds>>

\* The except clause: "success", with a description that names the error.
PostError(r) ==
    /\ run[r].at = "error"
    /\ PostStatus(r)
    /\ Goto(r, Exit(run[r]))
    /\ UNCHANGED <<tip, thread, svars, tmp, ledger, bounds>>

\* The finally clause: release_pin().
UnpinRead(r) ==
    /\ run[r].at = "unpin"
    /\ ReleasePin(r, Pr(r))
    /\ Goto(r, "unpinning")
    /\ UNCHANGED <<github, tmp, ledger, bounds>>

UnpinWrite(r) ==
    /\ run[r].at = "unpinning"
    /\ Replace(r)
    /\ Goto(r, "done")
    /\ UNCHANGED <<github, tmp, ledger, bounds>>
-----------------------------------------------------------------------------
(* Calls that raise *)

StatusPosts  == {"notPacket", "pending", "notIndexed", "final", "error"}
CommentPosts == {"comment", "explain"}
OtherCalls   == {"fetch", "parent", "explainList", "pin", "pinning", "packet",
                 "open", "write", "writeGone", "parse", "grade", "list",
                 "unpin", "unpinning"}

\* Where the run goes on: some calls have a handler of their own that only
\* logs; every other exception ends up in the except clause, which posts a
\* status only if the pending one has been posted.
Handler(x) ==
    CASE x.at \in {"unpin", "unpinning"} -> "done"
      [] x.at = "parse" -> "unlinkLost"
      [] x.at \in {"notPacket", "explainList", "explain", "error"} -> Exit(x)
      [] OTHER -> IF x.pending THEN "error" ELSE "done"

\* A POST that raises may have reached GitHub before.
Raise(r) ==
    /\ faults < MaxFaults
    /\ run[r].at \in StatusPosts \cup CommentPosts \cup OtherCalls
    /\ faults' = faults + 1
    /\ run' = [run EXCEPT ![r].at = Handler(run[r]), ![r].raised = TRUE]
    /\ \/ UNCHANGED <<commitStatus, thread>>
       \/ run[r].at \in StatusPosts /\ PostStatus(r) /\ UNCHANGED thread
       \/ run[r].at \in CommentPosts /\ SendComment(r) /\ UNCHANGED commitStatus
    /\ IF update[r] = {} THEN UNCHANGED svars ELSE Abandon(r)
    /\ UNCHANGED <<tip, tmp, ledger, crashes>>
-----------------------------------------------------------------------------
(* The rest of the daemon *)

\* The worker ingests a commit: the ledger row, then write_state().
WorkerRecords(b) ==
    /\ ingested = NoRev /\ update[Worker] = {}
    /\ b \notin indexed
    /\ indexed' = indexed \cup {b}
    /\ ingested' = b
    /\ UNCHANGED <<github, svars, tmp, run, bounds>>

WorkerReads ==
    /\ ingested # NoRev
    /\ WriteState(Worker, ingested)
    /\ ingested' = NoRev
    /\ UNCHANGED <<github, tmp, indexed, run, bounds>>

WorkerWrites ==
    /\ Replace(Worker)
    /\ UNCHANGED <<github, tmp, ledger, run, bounds>>

\* The daemon dies and is started again.  Background tasks are not restarted,
\* and nothing sweeps pins or temporary files.
Crash ==
    /\ crashes < MaxCrashes
    /\ crashes' = crashes + 1
    /\ run' = [r \in Runs |->
                 IF Active(r) THEN [run[r] EXCEPT !.at = "killed"] ELSE run[r]]
    /\ update' = [w \in Writers |-> {}]
    /\ ingested' = NoRev
    /\ UNCHANGED <<github, file, tmp, indexed, faults>>
-----------------------------------------------------------------------------
RunStep(r) ==
    \/ FetchFiles(r) \/ PostNotPacket(r) \/ PostPending(r) \/ FindParent(r)
    \/ PostNotIndexed(r) \/ PinRead(r) \/ PinWrite(r)
    \/ FetchBody(r) \/ SkipPacket(r)
    \/ OpenTmp(r) \/ WriteTmp(r) \/ WriteGone(r)
    \/ ParseTmp(r) \/ ParseNothing(r) \/ UnlinkTmp(r)
    \/ GradePacket(r) \/ EndPackets(r)
    \/ ListComments(r) \/ WriteComment(r) \/ WriteExplanation(r)
    \/ PostFinal(r) \/ PostError(r) \/ UnpinRead(r) \/ UnpinWrite(r)

Next ==
    \/ \E h \in Heads : Push(h)
    \/ \E p \in PRs : Talk(p)
    \/ \E r \in Runs, h \in Heads : Receive(r, h)
    \/ \E r \in Runs : RunStep(r) \/ Raise(r)
    \/ \E b \in Revs : WorkerRecords(b)
    \/ WorkerReads
    \/ WorkerWrites
    \/ Crash

Spec == Init /\ [][Next]_vars

\* A background task has a thread of its own and goes on; a call that hangs
\* times out and raises.
FairSpec == Spec /\ \A r \in Runs : WF_vars(RunStep(r))
-----------------------------------------------------------------------------
(* Safety *)

\* Nobody is working on h: all its runs have ended.
Quiet(h) == \A r \in Runs : run[r].head = h => run[r].at \in Ended

\* The gate is earned: a head reported as passed carries no readable packet
\* whose receipts fail, if every head a run may have seen the file list of
\* lists it.
PassIsEarned ==
    \A h \in Heads :
        commitStatus[h] = "passed" =>
            \A k \in Touched[h] :
                (\A g \in Heads :
                    PrOf[g] = PrOf[h] /\ h <= g /\ g <= tip[PrOf[h]]
                        => k \in Touched[g])
                    => <<h, k>> \in Passing \/ <<h, k>> \notin Readable

\* A merge is only held up by a verdict: when the last run of a head has
\* ended, the required status is there and final, unless a call of one of its
\* runs raised or the daemon died.
HeldUpOnlyByFaults ==
    \A h \in Heads :
        /\ Quiet(h)
        /\ \E r \in Runs : run[r].head = h
        /\ \A r \in Runs : run[r].head = h =>
              run[r].at = "done" /\ ~run[r].raised
        => commitStatus[h] \notin {"none", "pending"}

\* A pull request has one grading comment, however often it is graded.
OneGradingComment ==
    \A p \in PRs : Cardinality(Ours(p)) <= 1

\* The comment and the status of the head it is about say the same, unless
\* a run of that head was cut short in between or found nothing to grade.
CommentAgreesWithStatus ==
    \A p \in PRs : \A i \in Ours(p) :
        LET c == thread[p][i] IN
        \/ commitStatus[c.head] = c.says
        \/ \E r \in Runs :
              /\ run[r].head = c.head
              /\ Active(r) \/ run[r].raised \/ run[r].at = "killed"
                    \/ run[r].graded = {}

\* A run that held a pin and whose calls did not raise leaves none behind,
\* not even that of an earlier run that was killed.
PinIsReleased ==
    \A r \in Runs :
        /\ run[r].at = "done" /\ run[r].pinned /\ ~run[r].raised
        /\ \A q \in RunsOf(Pr(r)) : q <= r
        => file[Pr(r)] = NoRev

(* Liveness *)

\* A head that waits for its verdict gets one, whatever the other runs do to
\* its temporary file, its pin and its comment in the meantime, unless a call
\* fails.
PendingIsResolved ==
    \A h \in Heads :
        commitStatus[h] = "pending" ~> commitStatus[h] # "pending" \/ faults > 0
=============================================================================
