---------------------------- MODULE MCBatchReports ----------------------------
(* Two batches over two packets of a receipt each, one in a lane that the    *)
(* buckets do not know; a packet that yields none comes of GradeInVain. One  *)
(* copy of a run; oracles that ask more than a packet has, with a right and  *)
(* with a wrong sum.                                                         *)
EXTENDS BatchGrading

CONSTANTS a, b, z

MCLogs == << [slug |-> "x", receipts |-> << [qid |-> 1, lane |-> "unknown"] >>],
             [slug |-> "y", receipts |-> << [qid |-> 2, lane |-> "doc_resolver"] >>] >>
MCBatches == 1..2
MCDirs    == {a, b}
MCCopies  == {z}
Symmetry  == Permutations(MCDirs)

OracleRow(q, in, v, p, s) == [qid |-> q, bucket |-> in, verified |-> v, planner |-> p,
                       supports |-> s]
Sub(n, ps, as) == [points |-> n, status |-> [planner |-> ps, atlas |-> as],
                   class |-> [planner |-> ps = "missed", atlas |-> as = "missed"],
                   point |-> None, qids |-> {1}, context |-> FALSE]
Criterion(n, p, at, subs) == [possible |-> n, given |-> [planner |-> p, atlas |-> at],
                             subs |-> subs]
Oracle(rows, criteria) == [rows |-> rows, points |-> {"p"}, draft |-> FALSE,
                           criteria |-> criteria]

Evidence == << OracleRow(1, "evidence", TRUE, "pass", {"p"}),
               OracleRow(2, "evidence", TRUE, "fail", {}),
               OracleRow(3, "evidence", TRUE, "not_scored", {}),
               OracleRow(1, "context", TRUE, "pass", {}),
               OracleRow(2, "evidence", FALSE, "fail", {"p"}) >>
Legacy == << Criterion(2, 1, 2, <<>>) >>
Status == {"covered", "missed", None}

MCOracles ==
    {Oracle(Evidence, Legacy)} \cup
    {Oracle(SubSeq(Evidence, 3, 5),
            << Criterion(2, p, at, << Sub(1, ps, "covered"), Sub(1, "missed", as) >>),
               Criterion(1, 1, 0, <<>>) >>) :
       p \in 0..1, at \in 1..2, ps \in Status, as \in Status}
=============================================================================
