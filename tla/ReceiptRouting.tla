--------------------------- MODULE ReceiptRouting ---------------------------
(***************************************************************************)
(* How grader_service.py routes one receipt and what its row is worth: the *)
(* tool or resolver that answers it, the receipts that are never asked,    *)
(* the lane and the score status, and the numbers pr_comment.py draws from *)
(* the rows of a packet. Nothing here has state.                           *)
(***************************************************************************)
EXTENDS ReceiptSources, FiniteSets

Failing == {"no_match", "atlas_not_found"}
PassGrades == {"full_match", "partial_match"}
Grades == PassGrades \cup Failing
Tools == {"find_code", "scan_search", "auto"}

NonRepoEvidence == {"external_tool_docs", "user_context"}
NonRetrieval == NonRepoEvidence \cup {"absence_search"}
EvidenceTypes == NonRetrieval \cup {"source_excerpt"}
-----------------------------------------------------------------------------
(* Routing *)

\* _is_doc_path().
IsDoc(r) == r.path # None /\ r.path.kind = "doc"

\* _classify_code_tool(): a valid hint, then the command, then the default.
CodeTool(r) ==
    IF r.hint \in Tools THEN r.hint
    ELSE IF r.command # None /\ r.command.op = "grep" THEN "scan_search"
    ELSE "find_code"

\* translate_receipt_to_query().
Translate(r) == IF IsDoc(r) THEN "doc_resolver" ELSE CodeTool(r)

\* _code_receipt_query_text(): the question and its anchors.
QueryText(r) == <<r.question, r.hint, r.path, r.lines, r.command>>

\* _classify_command_snapshot_outcome(): None where it decides nothing.
CommandOutcome(command) ==
    CASE command \in {"match", "expected_absent"} ->
            "skipped_command_snapshot"
      [] command \in {"mismatch", "found_but_absent"} ->
            "skipped_unavailable_source_ref"
      [] OTHER -> None

\* MUTANT of PreAtlasSkip: what kind of evidence it is comes last.
PreAtlasSkipLate(r, source, command) ==
    IF r.path # None /\ r.path.work THEN "skipped_doc_corpus_excluded"
    ELSE IF CommandOutcome(command) # None THEN CommandOutcome(command)
    ELSE IF ~IsDoc(r) /\ source = "missing"
         THEN "skipped_unavailable_source_ref"
    ELSE None

\* _classify_pre_atlas_skip(): narrower reasons first.
PreAtlasSkip(r, source, command) ==
    IF r.path # None /\ r.path.work THEN "skipped_doc_corpus_excluded"
    ELSE IF CommandOutcome(command) # None THEN CommandOutcome(command)
    ELSE IF r.evidence \in NonRepoEvidence THEN "skipped_non_repo_evidence"
    ELSE IF r.evidence = "absence_search" THEN "skipped_absence_search"
    ELSE IF ~IsDoc(r) /\ source = "missing"
         THEN "skipped_unavailable_source_ref"
    ELSE None

\* _infer_lane().
Lane(tool, r) ==
    IF tool \in {"doc_resolver", "scan_search"} THEN tool
    ELSE IF r.path # None /\ r.lines # None THEN "explicit_source_fast_path"
    ELSE "fuzzy_find_code"

\* MUTANT of ScoreStatus: verdicts that pass are excluded like the others.
ScoreStatusAnyGrade(grade, source, atRun, binding) ==
    IF binding = "none" THEN "skipped_unavailable_source_ref"
    ELSE IF binding = None /\ source \in {"missing", "mismatch"}
         THEN "skipped_receipt_stale"
    ELSE IF source = "match" /\ atRun \in {"missing", "mismatch"}
         THEN "skipped_run_commit_line_drift"
    ELSE "counted"

\* MUTANT of ScoreStatus: a drifted line excludes whatever the receipt says.
ScoreStatusAnyDrift(grade, source, atRun, binding) ==
    IF grade \notin Failing THEN "counted"
    ELSE IF binding = "none" THEN "skipped_unavailable_source_ref"
    ELSE IF atRun \in {"missing", "mismatch"}
         THEN "skipped_run_commit_line_drift"
    ELSE "counted"

\* _derive_score_status(): what a row with this verdict counts for.
ScoreStatus(grade, source, atRun, binding) ==
    IF grade \notin Failing THEN "counted"
    ELSE IF binding = "none" THEN "skipped_unavailable_source_ref"
    ELSE IF binding = None /\ source \in {"missing", "mismatch"}
         THEN "skipped_receipt_stale"
    ELSE IF source = "match" /\ atRun \in {"missing", "mismatch"}
         THEN "skipped_run_commit_line_drift"
    ELSE "counted"
-----------------------------------------------------------------------------
(* Rows and their summary *)

Row(r, grade, tool, lane, score, cache, rev, about) ==
    [id |-> r.id, evidence |-> r.evidence, grade |-> grade,
     tool |-> tool, lane |-> lane, score |-> score, cache |-> cache,
     rev |-> rev, about |-> about]

\* _build_pre_atlas_skip_row().
SkipRow(r, score) ==
    Row(r, "atlas_not_found", "skipped", "non_retrieval", score, None, None,
        None)

\* The row of a receipt whose grading raised.
ErrorRow(r) == Row(r, "no_match", "error", None, "counted", None, None, None)

Passes(row)  == row.grade \in PassGrades
Counted(row) == row.score = "counted"

\* The number of rows with a property.
HowMany(rows, Test(_)) == Cardinality({i \in DOMAIN rows : Test(rows[i])})

\* pass_pct: int(round(100 * part / whole)), halves to the even neighbour.
Percent(part, whole) ==
    IF whole = 0 THEN 0
    ELSE LET twice == 200 * part + whole
             down  == twice \div (2 * whole)
         IN IF twice % (2 * whole) = 0 /\ down % 2 = 1 THEN down - 1 ELSE down

\* by_lane and by_evidence_type: the buckets, and what is held in one.
Lanes == {"explicit_source_fast_path", "fuzzy_find_code", "scan_search",
          "doc_resolver", "non_retrieval"}
LaneOf(row) == IF row.lane \in Lanes THEN row.lane ELSE "other"
EvidenceOf(row) ==
    CASE row.evidence = None -> "source_excerpt"
      [] row.evidence \in EvidenceTypes -> row.evidence
      [] OTHER -> "other"

Bucket(rows, held) ==
    LET excluded == {i \in held : ~Counted(rows[i])}
    IN [receipts    |-> Cardinality(held),
        correct     |-> Cardinality({i \in held : Passes(rows[i])}),
        excluded    |-> Cardinality(excluded),
        clean_total |-> Cardinality(held) - Cardinality(excluded)]

Skips == {"skipped_receipt_stale", "skipped_run_commit_line_drift",
          "skipped_non_repo_evidence", "skipped_absence_search",
          "skipped_unavailable_source_ref", "skipped_doc_corpus_excluded",
          "skipped_command_snapshot", "skipped_revision_not_indexed",
          "skipped_legacy_receipt_defect"}

\* The nine skipped_*_count.
SkipCounts(rows) ==
    [s \in Skips |-> HowMany(rows, LAMBDA row : row.score = s)]

\* The three atlas_cache_*_count.
CacheCounts(rows) ==
    [s \in {"hit", "miss", "disabled"} |->
        HowMany(rows, LAMBDA row : row.cache = s)]

\* GradingSummary, as far as it goes into a packet's summary.
Summary(rows, threshold) ==
    LET passing  == HowMany(rows, Passes)
        counting == HowMany(rows, Counted)
    IN [total       |-> Len(rows),
        pass_count  |-> passing,
        passed      |-> Percent(passing, Len(rows)) >= threshold,
        excluded    |-> Len(rows) - counting,
        clean_total |-> counting,
        skips       |-> SkipCounts(rows),
        cache       |-> CacheCounts(rows),
        by_lane     |-> [l \in Lanes \cup {"other"} |->
              Bucket(rows, {i \in DOMAIN rows : LaneOf(rows[i]) = l})],
        by_evidence |-> [e \in EvidenceTypes \cup {"other"} |->
              Bucket(rows, {i \in DOMAIN rows : EvidenceOf(rows[i]) = e})]]
=============================================================================
