------------------------------ MODULE RunReports ------------------------------
(***************************************************************************)
(* What is computed from the runs of the batch grader on disk: the totals  *)
(* of a manifest (grade_batch.py), the counted misses of a run             *)
(* (counted_misses.py), the rows of the dashboard (overall_summary.py) and *)
(* the comparison of two runs (compare_runs.py).                           *)
(*                                                                         *)
(* A row is what grading made of one receipt: its question, its lane and   *)
(* its verdict. Only a counted row passes (PassIsCounted of                *)
(* ReceiptGrading), so "pass", "miss" and "skipped" are the verdicts.      *)
(* Percentages and rendering are left out.                                 *)
(***************************************************************************)
EXTENDS Integers, FiniteSets, SequencesExt

CONSTANTS
    None,
    Torn   \* a file that is not JSON

LaneBuckets == {"explicit_source_fast_path", "fuzzy_find_code", "scan_search",
                "doc_resolver", "non_retrieval", "other"}
Bucket(lane) == IF lane \in LaneBuckets THEN lane ELSE "other"

Counted(row) == row.verdict # "skipped"
Passes(row)  == row.verdict = "pass"
HowMany(rows, Test(_)) == Cardinality({i \in DOMAIN rows : Test(rows[i])})

\* MUTANT of Tally: a skipped row stays in the denominator.
TallyAll(rows) ==
    [receipts |-> Cardinality(DOMAIN rows), correct |-> HowMany(rows, Passes),
     clean |-> Cardinality(DOMAIN rows)]

\* Receipts, correct ones, and the clean denominator of some rows.
Tally(rows) ==
    [receipts |-> Cardinality(DOMAIN rows), correct |-> HowMany(rows, Passes),
     clean |-> HowMany(rows, Counted)]

\* Row j of outcome i is at <<i, j>>.
AllRows(outcomes) ==
    LET places == UNION {{i} \X DOMAIN outcomes[i].rows : i \in DOMAIN outcomes}
    IN [p \in places |-> outcomes[p[1]].rows[p[2]]]

\* An outcome of a packet has a slug, a status and rows. The totals of a run
\* are sums over its outcomes; per packet, a later outcome of the same slug
\* replaces the earlier one.
Totals(outcomes) ==
    LET all == AllRows(outcomes)
        slugs == {outcomes[i].slug : i \in DOMAIN outcomes}
        LastOf(s) == outcomes[CHOOSE i \in DOMAIN outcomes :
                       /\ outcomes[i].slug = s
                       /\ \A j \in DOMAIN outcomes :
                             outcomes[j].slug = s => j <= i]
    IN [run |-> Tally(all),
        lanes |-> [l \in LaneBuckets |->
                     Tally(RestrictValues(all, LAMBDA r : Bucket(r.lane) = l))],
        packets |-> [s \in slugs |-> [tally |-> Tally(LastOf(s).rows),
                                      status |-> LastOf(s).status]]]
-----------------------------------------------------------------------------
(* Counted misses *)

IsMiss(row) == Counted(row) /\ ~Passes(row)

\* The misses per lane, over every artifact in the run's directory; none if
\* one of them cannot be read.
Misses(artifacts) ==
    IF \E a \in artifacts : a.rows = Torn THEN None
    ELSE LET rows == UNION {{<<a.id, i, a.rows[i]>> : i \in DOMAIN a.rows} :
                              a \in artifacts}
             misses == {x \in rows : IsMiss(x[3])}
         IN [l \in {x[3].lane : x \in misses} |->
                Cardinality({x \in misses : x[3].lane = l})]
-----------------------------------------------------------------------------
(* The dashboard *)

HasManifest(runs, d) == runs[d].manifest \notin {None, Torn}

\* The directories whose manifests name run n.
Named(runs, ds, n) == {d \in ds : runs[d].manifest.name = n}

\* MUTANT of Canonical: the first directory of that name, sorted by age.
CanonicalFirst(runs, ds, n) ==
    CHOOSE d \in Named(runs, ds, n) : \A e \in Named(runs, ds, n) :
        runs[d].manifest.started <= runs[e].manifest.started

\* Of several, the one that has the run's name, or else the latest.
Canonical(runs, ds, n) ==
    IF n \in Named(runs, ds, n) THEN n
    ELSE CHOOSE d \in Named(runs, ds, n) : \A e \in Named(runs, ds, n) :
            runs[e].manifest.started <= runs[d].manifest.started

\* load_run_manifests(): one directory per run name, of those with a manifest
\* that can be read.
LoadManifests(runs, baselines) ==
    LET ds == {d \in baselines : HasManifest(runs, d)}
    IN {Canonical(runs, ds, n) : n \in {runs[d].manifest.name : d \in ds}}
-----------------------------------------------------------------------------
(* The comparison of two runs *)

\* The rows of a packet by question; of two rows, the last.
RowsByQid(rows) ==
    [q \in {rows[i].qid : i \in DOMAIN rows} |->
        rows[CHOOSE i \in DOMAIN rows :
               /\ rows[i].qid = q
               /\ \A j \in DOMAIN rows : rows[j].qid = q => j <= i]]

RowsOf(run, slug) ==
    IF slug \in DOMAIN run.packets /\ run.packets[slug] # Torn
    THEN RowsByQid(run.packets[slug].rows) ELSE <<>>

\* MUTANT of Transition: a miss that was skipped before is newly failing.
TransitionByGrade(b, a) ==
    IF b = None THEN "appeared" ELSE IF a = None THEN "disappeared"
    ELSE CASE ~Counted(b) /\ ~Counted(a) -> "still_skipped"
           [] Counted(b) /\ ~Counted(a) -> "newly_skipped"
           [] Passes(a) -> IF Passes(b) THEN "still_passing" ELSE "newly_passing"
           [] OTHER -> IF IsMiss(b) THEN "still_failing" ELSE "newly_failing"

\* classify_transition(): a row before and after, either of them perhaps none.
Transition(b, a) ==
    IF b = None THEN "appeared" ELSE IF a = None THEN "disappeared"
    ELSE CASE ~Counted(b) /\ ~Counted(a) -> "still_skipped"
           [] Counted(b) /\ ~Counted(a) -> "newly_skipped"
           [] ~Counted(b) /\ Counted(a) ->
                IF Passes(a) THEN "un_skipped_passing" ELSE "un_skipped_failing"
           [] OTHER -> IF Passes(b)
                THEN IF Passes(a) THEN "still_passing" ELSE "newly_failing"
                ELSE IF Passes(a) THEN "newly_passing" ELSE "still_failing"

ComparePacket(slug, old, new) ==
    LET RowIn(rows, q) == IF q \in DOMAIN rows THEN rows[q] ELSE None
    IN {[slug |-> slug, qid |-> q,
         transition |-> Transition(RowIn(old, q), RowIn(new, q))] :
           q \in DOMAIN old \cup DOMAIN new}

\* compare_runs(): the questions of the packets that either manifest lists,
\* by the transition they made.
Compare(before, after) ==
    UNION {ComparePacket(s, RowsOf(before, s), RowsOf(after, s)) :
             s \in DOMAIN before.manifest.packets
                     \cup DOMAIN after.manifest.packets}
=============================================================================
