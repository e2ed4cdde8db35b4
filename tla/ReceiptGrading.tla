--------------------------- MODULE ReceiptGrading ---------------------------
(***************************************************************************)
(* The grading of one packet's receipts: the pool of threads in            *)
(* run_pr_grading(), _grade_one_receipt() of grader_service.py, run_one()  *)
(* of runner.py and grade() of grader.py, for the live gate and for        *)
(* batches. Git, the document tables, the cache, Atlas and the grading     *)
(* model are called in turn; each call is a step, and may fail.            *)
(*                                                                         *)
(* A plan is a sequence of runs, one after the other over the same cache;  *)
(* a run grades one packet at one commit, which has been ingested.         *)
(***************************************************************************)
EXTENDS ReceiptRouting, QueryCache

CONSTANTS
    Plans,       \* what may be graded: sequences of runs
    Indexed,     \* Indexed[c]: the Atlas revision of commit c, or None
    Defects,     \* the corrections sidecar: records [id, commit]
    MaxWorkers,  \* the worker count asked for
    Threshold,   \* percentage of the packet
    MaxFaults    \* bound: calls that fail

ASSUME ReceiptAssumption ==
    /\ MaxWorkers \in Int
    /\ {Threshold, MaxFaults} \subseteq Nat
    /\ None \notin {"miss", "disabled", "none"} \cup Skips
    /\ \A p \in Plans :
          /\ p \in Seq({p[t] : t \in DOMAIN p})
          /\ \A t \in DOMAIN p : p[t].packet \in
                Seq({p[t].packet[i] : i \in DOMAIN p[t].packet})

VARIABLES
    plan,      \* the runs asked for
    turn,      \* which of them is on
    queued,    \* the receipt the pool hands out next
    job,       \* job[w]: what a thread of the pool is doing
    finished,  \* the rows, in the order their futures complete
    summaries, \* the summaries of the runs that ended, with their rows
    asked,     \* asked[i]: how often Atlas was asked about receipt i
    faults     \* how many calls failed

vars == <<plan, turn, queued, job, finished, summaries, cache, asked, faults>>

Run    == plan[turn]
Packet == Run.packet

\* effective_max_workers, and worker_count.
AtMost(a, b) == IF a < b THEN a ELSE b
Effective == IF MaxWorkers < 1 THEN 1 ELSE MaxWorkers
Threads == 1..Effective

Stages == {"idle", "examine", "doc", "pin", "lookup", "count", "ask", "store",
           "drift", "grade"}
NoAnswer == [about |-> None, empty |-> TRUE, ok |-> FALSE]
Idle == [at |-> "idle", i |-> 0, rev |-> None, run |-> None, source |-> None,
         binding |-> None, atRun |-> None, answer |-> NoAnswer, cache |-> None]

Init ==
    /\ plan \in Plans
    /\ turn = 1
    /\ queued = 1
    /\ job = [w \in Threads |-> Idle]
    /\ finished = <<>>
    /\ summaries = <<>>
    /\ CacheInit
    /\ asked = <<>>
    /\ faults = 0
-----------------------------------------------------------------------------
(* The pool *)

Receipt(w) == Packet[job[w].i]

\* A thread takes the next receipt.
Take(w) ==
    /\ turn <= Len(plan)
    /\ w <= AtMost(Effective, Len(Packet))
    /\ job[w].at = "idle"
    /\ queued <= Len(Packet)
    /\ job' = [job EXCEPT ![w] = [Idle EXCEPT !.at = "examine", !.i = queued,
                          !.rev = Indexed[Run.commit], !.run = Run.commit]]
    /\ queued' = queued + 1
    /\ asked' = Append(asked, 0)
    /\ UNCHANGED <<plan, turn, finished, summaries, cache, faults>>

\* The future is done, with this row.
Finish(w, row) ==
    /\ finished' = Append(finished, [i |-> job[w].i, row |-> row])
    /\ job' = [job EXCEPT ![w] = Idle]
    /\ UNCHANGED <<plan, turn, queued, summaries, asked>>

\* The thread goes on, knowing x.
Goto(w, x) ==
    /\ job' = [job EXCEPT ![w] = x]
    /\ UNCHANGED <<plan, turn, queued, finished, summaries>>

\* A call works, or is one of those that fail.
Outcome(ok) ==
    /\ ok \/ faults < MaxFaults
    /\ faults' = IF ok THEN faults ELSE faults + 1

\* A call raises, and _grade_with_fallback() makes an error row of it.
Raise(w) ==
    /\ Outcome(FALSE)
    /\ Finish(w, ErrorRow(Receipt(w)))
    /\ UNCHANGED cache
-----------------------------------------------------------------------------
(* _grade_one_receipt() *)

\* LegacyReceiptCorrections.match(), which compares commits by prefix.
Corrected(r) ==
    /\ Run.corrections
    /\ \E d \in Defects :
         /\ d.id = r.id
         /\ d.commit = None \/ (r.commit # None /\ d.commit = r.commit.of)

\* Where a receipt goes that is to be answered.
Route(r) == IF IsDoc(r) THEN "doc"
            ELSE IF Run.pin = "receipt-source" THEN "pin" ELSE "lookup"

\* The two snapshots, the corrections, and the receipts that are not asked.
\* A failing call of the command's snapshot counts for a missing source.
Examine(w) ==
    /\ job[w].at = "examine"
    /\ \E ok \in BOOLEAN :
         LET r      == Receipt(w)
             source == Snapshot(r, r.commit)
             skip   == IF Corrected(r) THEN "skipped_legacy_receipt_defect"
                       ELSE PreAtlasSkip(r, source, CommandSnapshot(r, ok))
         IN /\ ok \/ Parsed(r) # None
            /\ Outcome(ok)
            /\ IF skip # None THEN Finish(w, SkipRow(r, skip))
               ELSE /\ Goto(w, [job[w] EXCEPT !.at = Route(r),
                                              !.source = source])
                    /\ UNCHANGED asked
    /\ UNCHANGED cache

\* A snapshot reads a file of the repository.
Reads(r, c) == Snapshot(r, c) \notin {"not_applicable", "no_line_range"}

\* Git times out on the source snapshot, which nothing catches here.
SnapshotRaises(w) ==
    /\ job[w].at = "examine"
    /\ Reads(Receipt(w), Receipt(w).commit)
    /\ Raise(w)

\* resolve_doc_receipt(): the tables may be down.
AskDocs(w) ==
    /\ job[w].at = "doc"
    /\ \E dbOk \in BOOLEAN :
         LET found == ResolveDoc(Receipt(w), dbOk) IN
         /\ Outcome(dbOk)
         /\ Goto(w, [job[w] EXCEPT !.at = "grade", !.binding = found.binding,
                        !.answer.empty = found.binding = "none"])
    /\ UNCHANGED <<cache, asked>>

\* Git times out on the document.
DocsRaise(w) ==
    /\ job[w].at = "doc"
    /\ Receipt(w).commit # None
    /\ ResolveDoc(Receipt(w), TRUE).binding # "db_commit_scoped"
    /\ Raise(w)

\* What _resolve_commit_for_ledger() makes of the receipt's commit: git
\* completes a short name, and when it fails the ledger does not know it.
LedgerRevision(commit, ok) ==
    IF commit = None \/ (commit.short /\ ~ok) THEN None
    ELSE Indexed[commit.of]

\* receipt-source: the receipt is asked at its own commit, if that is indexed.
PinRevision(w) ==
    /\ job[w].at = "pin"
    /\ \E ok \in BOOLEAN :
         LET r   == Receipt(w)
             rev == LedgerRevision(r.commit, ok)
         IN /\ Outcome(ok)
            /\ IF rev = None
               THEN Finish(w, SkipRow(r, "skipped_revision_not_indexed"))
               ELSE /\ Goto(w, [job[w] EXCEPT !.at = "lookup", !.rev = rev,
                                              !.run = r.commit.of])
                    /\ UNCHANGED asked
    /\ UNCHANGED cache
-----------------------------------------------------------------------------
(* run_one() *)

\* MUTANT of Key: the revision is left out of the fingerprint.
KeyAnyRevision(w) ==
    LET r == Receipt(w) IN
    <<QueryText(r), CodeTool(r), r.path, r.lines, r.commit>>

\* CacheKey; organisation, principal and domain pack are those of the daemon.
Key(w) ==
    LET r == Receipt(w) IN
    <<QueryText(r), CodeTool(r), r.path, r.lines, r.commit, job[w].rev>>

\* What Atlas is asked: build_atlas_query_argv().
Query(w) == [text |-> QueryText(Receipt(w)), tool |-> CodeTool(Receipt(w)),
             rev |-> job[w].rev]

\* MUTANT of Lookup: a hit does not save the query.
LookupInVain(w) ==
    /\ job[w].at = "lookup"
    /\ Goto(w, [job[w] EXCEPT !.at = "ask",
            !.cache = IF ~Run.cached THEN "disabled"
                      ELSE IF Cached(Key(w)) THEN "hit" ELSE "miss"])
    /\ UNCHANGED <<cache, asked, faults>>

\* The SELECT of get(); without a cache, nothing.
Lookup(w) ==
    /\ job[w].at = "lookup"
    /\ Goto(w, IF Run.cached /\ Cached(Key(w))
               THEN [job[w] EXCEPT !.at = "count", !.cache = "hit",
                                   !.answer = cache[Key(w)].answer]
               ELSE [job[w] EXCEPT !.at = "ask",
                        !.cache = IF Run.cached THEN "miss" ELSE "disabled"])
    /\ UNCHANGED <<cache, asked, faults>>

\* The UPDATE of get().
Count(w) ==
    /\ job[w].at = "count"
    /\ CountHit(Key(w))
    /\ Goto(w, [job[w] EXCEPT !.at = "drift"])
    /\ UNCHANGED <<asked, faults>>

\* SQLite gives up waiting, or the Atlas package is not in the clone.
QueryRaises(w) ==
    /\ job[w].at \in {"lookup", "count"}
    /\ Raise(w)

\* MUTANT of Ask: what a failed query printed is kept as well.
AskAndKeep(w) ==
    /\ job[w].at = "ask"
    /\ asked' = [asked EXCEPT ![job[w].i] = @ + 1]
    /\ \E ok, answered, empty \in BOOLEAN :
         /\ ok => answered
         /\ ~answered => empty
         /\ Outcome(ok)
         /\ Goto(w, [job[w] EXCEPT
                !.at = IF Run.cached THEN "store" ELSE "drift",
                !.answer = [about |-> IF answered THEN Query(w) ELSE None,
                            empty |-> empty, ok |-> ok]])
    /\ UNCHANGED cache

\* invoke_atlas_query(): an answer, perhaps an empty one. A query that fails
\* may have printed an answer all the same, which is graded but not kept; one
\* that times out or prints no JSON gives an empty answer.
Ask(w) ==
    /\ job[w].at = "ask"
    /\ asked' = [asked EXCEPT ![job[w].i] = @ + 1]
    /\ \E ok, answered, empty \in BOOLEAN :
         /\ ok => answered
         /\ ~answered => empty
         /\ Outcome(ok)
         /\ Goto(w, [job[w] EXCEPT
                !.at = IF ok /\ Run.cached THEN "store" ELSE "drift",
                !.answer = [about |-> IF answered THEN Query(w) ELSE None,
                            empty |-> empty, ok |-> ok]])
    /\ UNCHANGED cache

\* The answer is kept; a failure to keep it is only reported.
Keep(w) ==
    /\ job[w].at = "store"
    /\ \E ok \in BOOLEAN :
         /\ Outcome(ok)
         /\ IF ok THEN Store(Key(w), job[w].answer) ELSE UNCHANGED cache
    /\ Goto(w, [job[w] EXCEPT !.at = "drift"])
    /\ UNCHANGED asked

\* The operator empties the cache.
TruncateCache ==
    /\ Keys # {}
    /\ Truncate
    /\ UNCHANGED <<plan, turn, queued, job, finished, summaries, asked, faults>>
-----------------------------------------------------------------------------
(* The verdict *)

\* The snapshot at the commit of the run.
SnapshotRun(w) ==
    /\ job[w].at = "drift"
    /\ Goto(w, [job[w] EXCEPT !.at = "grade",
           !.atRun = Snapshot(Receipt(w), [of |-> job[w].run,
                                           short |-> FALSE])])
    /\ UNCHANGED <<cache, asked, faults>>

RunSnapshotRaises(w) ==
    /\ job[w].at = "drift"
    /\ Reads(Receipt(w), [of |-> job[w].run, short |-> FALSE])
    /\ Raise(w)

\* _heuristic_short_circuit(), then the model's verdict on an answer; one
\* that cannot be read is no match.
Verdicts(answer) == IF answer.empty THEN {"atlas_not_found"} ELSE Grades

\* The row of a graded receipt.
GradedRow(w, grade) ==
    LET r == Receipt(w)  x == job[w] IN
    Row(r, grade, Translate(r), Lane(Translate(r), r),
        ScoreStatus(grade, x.source, x.atRun, x.binding), x.cache, x.rev,
        x.answer.about)

Grade(w) ==
    /\ job[w].at = "grade"
    /\ \E grade \in Verdicts(job[w].answer) : Finish(w, GradedRow(w, grade))
    /\ UNCHANGED <<cache, faults>>

\* The grading model cannot be reached: no match, but the row stays whole.
GradeRaises(w) ==
    /\ job[w].at = "grade"
    /\ ~job[w].answer.empty
    /\ Outcome(FALSE)
    /\ Finish(w, GradedRow(w, "no_match"))
    /\ UNCHANGED cache

\* The place of the k-th completed row among the receipts.
Place(k) ==
    Cardinality({j \in DOMAIN finished : finished[j].i <= finished[k].i})

\* MUTANT of OrderedRows: as they come.
CompletedRows == [p \in DOMAIN finished |-> finished[p].row]

\* The rows sorted by receipt.
OrderedRows ==
    [p \in DOMAIN finished |->
        finished[CHOOSE k \in DOMAIN finished : Place(k) = p].row]

\* All futures are done: the packet's rows and summary.
Summarise ==
    /\ turn <= Len(plan)
    /\ queued > Len(Packet)
    /\ \A w \in Threads : job[w].at = "idle"
    /\ summaries' = Append(summaries, [rows |-> OrderedRows, asked |-> asked,
                              faults |-> faults,
                              numbers |-> Summary(OrderedRows, Threshold)])
    /\ turn' = turn + 1
    /\ queued' = 1
    /\ finished' = <<>>
    /\ asked' = <<>>
    /\ UNCHANGED <<plan, job, cache, faults>>

Work(w) ==
    \/ Take(w) \/ Examine(w) \/ SnapshotRaises(w) \/ AskDocs(w) \/ DocsRaise(w)
    \/ PinRevision(w) \/ Lookup(w) \/ Count(w) \/ QueryRaises(w) \/ Ask(w)
    \/ Keep(w) \/ SnapshotRun(w) \/ RunSnapshotRaises(w) \/ Grade(w)
    \/ GradeRaises(w)

Done == turn > Len(plan) /\ UNCHANGED vars

Next == (\E w \in Threads : Work(w)) \/ TruncateCache \/ Summarise \/ Done

Spec == Init /\ [][Next]_vars
-----------------------------------------------------------------------------
(* Properties *)

\* A row of a run that ended, with the receipt it stands for.
Reported(t, i) == summaries[t].rows[i]
Of(t, i)       == plan[t].packet[i]

\* Whatever order the threads finish in, a packet's rows are its receipts',
\* one for one and in their order.
RowsAnswerReceipts ==
    \A t \in DOMAIN summaries :
        /\ Len(summaries[t].rows) = Len(plan[t].packet)
        /\ \A i \in DOMAIN plan[t].packet : Reported(t, i).id = Of(t, i).id

\* A receipt that passes counts, so that the passes are a part of the clean
\* total (clean_pass_pct relies on it).
PassIsCounted ==
    \A t \in DOMAIN summaries :
        /\ \A i \in DOMAIN summaries[t].rows :
              Passes(Reported(t, i)) => Counted(Reported(t, i))
        /\ summaries[t].numbers.pass_count <= summaries[t].numbers.clean_total

\* The text a receipt quotes is at the place it cites, at commit c.
QuoteHolds(r, c) ==
    \E p \in {r.path, LeafPath(r.path)} :
        Show(c, p) # None /\ Slice(Show(c, p), LineRange(r)) = r.expected

\* The receipt quotes a place in the code.
Quotes(r) ==
    /\ r.path # None /\ r.path.kind = "code"
    /\ r.commit # None /\ LineRange(r) # None /\ r.expected # None

\* Atlas is not blamed for a receipt that the repository contradicts: unless
\* its grading raised, no such row counts as a failure.
ContradictedIsNotBlamed ==
    \A t \in DOMAIN summaries : \A i \in DOMAIN plan[t].packet :
        LET r == Of(t, i)  row == Reported(t, i) IN
        Quotes(r) /\ ~QuoteHolds(r, r.commit) =>
            Passes(row) \/ ~Counted(row) \/ row.tool = "error"

\* A failure of Atlas is not excused: a receipt whose quote holds at its own
\* commit and at the commit it is graded at is not excluded for its source.
ConsistentIsMeasured ==
    \A t \in DOMAIN summaries : \A i \in DOMAIN plan[t].packet :
        LET r  == Of(t, i)
            at == IF plan[t].pin = "receipt-source" THEN r.commit
                  ELSE [of |-> plan[t].commit, short |-> FALSE]
        IN Quotes(r) /\ r.command = None /\ QuoteHolds(r, r.commit)
              /\ QuoteHolds(r, at) =>
            Reported(t, i).score \notin {"skipped_receipt_stale",
                "skipped_unavailable_source_ref",
                "skipped_run_commit_line_drift"}

\* The cache status of a row tells whether Atlas was asked, error rows aside:
\* never twice, and neither for a hit nor for a row without a status.
StatusTellsTheCost ==
    \A t \in DOMAIN summaries : \A i \in DOMAIN summaries[t].rows :
        Reported(t, i).tool # "error" =>
            summaries[t].asked[i] =
                IF Reported(t, i).cache \in {"miss", "disabled"} THEN 1 ELSE 0

\* A verdict is about the receipt's own question, asked at the revision its
\* row names, which is the one the mode of the run calls for: no answer of
\* another run, thread or commit gets there through the cache.
AnswerIsOwn ==
    \A t \in DOMAIN summaries : \A i \in DOMAIN plan[t].packet :
        LET about == Reported(t, i).about IN
        about # None =>
            /\ about.text = QueryText(Of(t, i))
            /\ about.rev = Reported(t, i).rev
            /\ about.rev = Indexed[IF plan[t].pin = "receipt-source"
                                   THEN Of(t, i).commit.of ELSE plan[t].commit]

\* What is in the cache is an answer of Atlas, never the trace of a failure,
\* nor what a query printed that failed in the end.
OnlyAnswersAreKept ==
    \A k \in Keys : cache[k].answer.ok /\ cache[k].answer.about # None

\* Evidence outside the repository, or of absence, is no measure of Atlas: it
\* counts only where the grading of a receipt raised.
NonRetrievalIsNotMeasured ==
    \A t \in DOMAIN summaries : \A e \in NonRetrieval :
        summaries[t].numbers.by_evidence[e].clean_total <= summaries[t].faults
=============================================================================
