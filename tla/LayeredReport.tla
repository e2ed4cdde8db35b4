---------------------------- MODULE LayeredReport ----------------------------
(***************************************************************************)
(* layered_report.py: one packet's rows laid over an authored oracle.      *)
(*                                                                         *)
(* An oracle has rows (question, bucket, whether it is verified, what the  *)
(* planner's evidence was found to be, and the required points it          *)
(* supports), required points, and criteria with points for the planner    *)
(* and for Atlas and, perhaps, subcriteria with a status for each of them. *)
(***************************************************************************)
EXTENDS RunReports

Actors  == {"planner", "atlas"}
Buckets == {"evidence", "context", "command"}

\* What load_spec() makes of an oracle's file, with points counted in the
\* least unit used; of the bucket it takes any name, and these are documented.
IsSpec(oracle) ==
    LET rows     == oracle.rows
        criteria == oracle.criteria
    IN
    /\ rows \in Seq({rows[i] : i \in DOMAIN rows})
    /\ \A i \in DOMAIN rows : rows[i].bucket \in Buckets /\ rows[i].verified \in BOOLEAN
    /\ criteria \in Seq({criteria[k] : k \in DOMAIN criteria})
    /\ \A k \in DOMAIN criteria :
          LET c == criteria[k] IN
          /\ c.possible \in Int /\ c.given \in [Actors -> Int]
          /\ c.subs \in Seq({c.subs[j] : j \in DOMAIN c.subs})
          /\ \A j \in DOMAIN c.subs : c.subs[j].points \in Int

Has(oracle, i, bucket) ==
    oracle.rows[i].bucket = bucket /\ oracle.rows[i].verified

Rows(oracle, bucket) ==
    {i \in DOMAIN oracle.rows : Has(oracle, i, bucket)}
-----------------------------------------------------------------------------
(* Evidence *)

\* MUTANT of AtlasResult: a question that was not run is not scored.
AtlasResultIfRun(oracle, i, runtime) ==
    IF ~Has(oracle, i, "evidence") THEN "not_scored"
    ELSE IF oracle.rows[i].qid \notin DOMAIN runtime THEN "not_scored"
    ELSE IF Passes(runtime[oracle.rows[i].qid]) THEN "pass" ELSE "fail"

\* What build_report() makes of row i: a verified evidence row that was
\* skipped, or not run, counts against Atlas.
AtlasResult(oracle, i, runtime) ==
    IF ~Has(oracle, i, "evidence") THEN "not_scored"
    ELSE IF /\ oracle.rows[i].qid \in DOMAIN runtime
            /\ Passes(runtime[oracle.rows[i].qid])
         THEN "pass" ELSE "fail"
-----------------------------------------------------------------------------
(* Synthesis *)

\* A required point with no verified evidence row to support it is warned
\* about; a draft has no required points.
Required(oracle) == IF oracle.draft THEN {} ELSE oracle.points

Warnings(oracle) ==
    {p \in Required(oracle) :
        \A i \in Rows(oracle, "evidence") : p \notin oracle.rows[i].supports}

Subs(criterion) == DOMAIN criterion.subs

\* The points that subcriteria give an actor.
Covered(criterion, actor) ==
    SumFunctionOnSet([j \in Subs(criterion) |-> criterion.subs[j].points],
        {j \in Subs(criterion) : criterion.subs[j].status[actor] = "covered"})

SubPoints(c) == SumFunction([j \in Subs(c) |-> c.subs[j].points])

\* validate_spec(): a criterion's points are those of its subcriteria, which
\* have a class exactly where a point was missed, known questions and a known
\* required point.
ValidSub(oracle, sub) ==
    /\ \A actor \in Actors :
         \/ sub.status[actor] = "covered" /\ ~sub.class[actor]
         \/ sub.status[actor] = "missed" /\ sub.class[actor]
         \/ sub.status[actor] = None
    /\ sub.point \in oracle.points \cup {None}
    /\ sub.context \/ sub.qids \subseteq
         {oracle.rows[i].qid : i \in DOMAIN oracle.rows}

\* MUTANT of Valid: the points of the actors are not compared.
ValidTotals(oracle) ==
    \A k \in DOMAIN oracle.criteria :
        LET c == oracle.criteria[k] IN
        Subs(c) # {} =>
            /\ \A j \in Subs(c) : ValidSub(oracle, c.subs[j])
            /\ c.possible = SubPoints(c)

Valid(oracle) ==
    \A k \in DOMAIN oracle.criteria :
        LET c == oracle.criteria[k] IN
        Subs(c) # {} =>
            /\ \A j \in Subs(c) : ValidSub(oracle, c.subs[j])
            /\ c.possible = SubPoints(c)
            /\ \A actor \in Actors : c.given[actor] = Covered(c, actor)

\* The rows of the synthesis audit for a criterion: its subcriteria that an
\* actor did not cover, or the criterion itself.
AuditRows(c) ==
    IF Subs(c) # {}
    THEN {[sub |-> x[1], actor |-> x[2], lost |-> c.subs[x[1]].points] :
            x \in {y \in Subs(c) \X Actors :
                      /\ c.subs[y[1]].points > 0
                      /\ c.subs[y[1]].status[y[2]] # "covered"}}
    ELSE {[sub |-> 0, actor |-> a, lost |-> c.possible - c.given[a]] :
            a \in {b \in Actors : c.possible > 0 /\ c.given[b] < c.possible}}

\* write_synthesis_audit(): what the audit says an actor lost.
AuditLoss(oracle, actor) ==
    LET Loss(c) == SumFunction([r \in {x \in AuditRows(c) : x.actor = actor} |->
                                  r.lost])
    IN SumFunction([k \in DOMAIN oracle.criteria |-> Loss(oracle.criteria[k])])
-----------------------------------------------------------------------------
\* build_report() and the audit of one packet's rows.
Report(oracle, rows) ==
    LET runtime == RowsByQid(rows)
        Is(result) == Cardinality({i \in DOMAIN oracle.rows :
                                     AtlasResult(oracle, i, runtime) = result})
        Points(a) == SumFunction([k \in DOMAIN oracle.criteria |->
                                    oracle.criteria[k].given[a]])
    IN [verified |-> [b \in Buckets |-> Cardinality(Rows(oracle, b))],
        unresolved |-> Cardinality({i \in DOMAIN oracle.rows :
                                      ~oracle.rows[i].verified}),
        planner |-> Cardinality({i \in Rows(oracle, "evidence") :
                                   oracle.rows[i].planner = "pass"}),
        pass |-> Is("pass"),
        fail |-> Is("fail"),
        supported |-> Cardinality(Required(oracle))
                        - Cardinality(Warnings(oracle)),
        possible |-> SumFunction([k \in DOMAIN oracle.criteria |->
                                    oracle.criteria[k].possible]),
        points |-> [a \in Actors |-> Points(a)],
        lost |-> [a \in Actors |-> AuditLoss(oracle, a)]]
-----------------------------------------------------------------------------
(* What the properties of a report are about. *)

\* An oracle that asks no question twice among its verified evidence.
AsksOnce(oracle) ==
    \A i, j \in Rows(oracle, "evidence") :
        oracle.rows[i].qid = oracle.rows[j].qid => i = j

\* An oracle that takes no points away, and whose criteria without
\* subcriteria give nobody more points than there are. (validate_spec() does
\* not look at either.)
InRange(oracle) ==
    \A k \in DOMAIN oracle.criteria :
        LET c == oracle.criteria[k] IN
        /\ \A j \in Subs(c) : c.subs[j].points >= 0
        /\ Subs(c) = {} => \A a \in Actors : c.given[a] \in 0..c.possible
=============================================================================
