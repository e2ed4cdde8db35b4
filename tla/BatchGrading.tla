----------------------------- MODULE BatchGrading -----------------------------
(***************************************************************************)
(* grade-packet-batch (grade_batch.py): every packet of a commit is graded *)
(* into a run directory, and the dashboard over all runs is written anew   *)
(* (overall_summary.py). Processes share the directories and the           *)
(* dashboard; nothing locks them. What one packet's grading decides is the *)
(* subject of ReceiptGrading: here a receipt passes, misses or is skipped. *)
(***************************************************************************)
EXTENDS LayeredReport

CONSTANTS
    Logs,      \* the packets at the commit: sequence of [slug, receipts]
    Batches,   \* invocations of grade-packet-batch, numbered as they begin
    Dirs,      \* run directories, baseline-*, each named like its run
    Copies,    \* directories baseline-* an operator may copy a run to
    Oracles,   \* layered oracles
    MaxFaults  \* bound: kills, and writes or renderings that fail

Verdicts == {"pass", "miss", "skipped"}
Receipts == UNION {{Logs[k].receipts[i] : i \in DOMAIN Logs[k].receipts} :
                      k \in DOMAIN Logs}
Row      == [qid : {r.qid : r \in Receipts}, lane : {r.lane : r \in Receipts},
             verdict : Verdicts]
Outcome  == [slug : {Logs[k].slug : k \in DOMAIN Logs},
             status : {"ok", "ok_but_no_receipts", "error"}, rows : Seq(Row)]

ASSUME BatchAssumption ==
    /\ Batches \subseteq Nat /\ MaxFaults \in Nat
    /\ Logs \in Seq({Logs[k] : k \in DOMAIN Logs})
    /\ \A k \in DOMAIN Logs :
          LET receipts == Logs[k].receipts
          IN receipts \in Seq({receipts[i] : i \in DOMAIN receipts})
    /\ Dirs \cap Copies = {}
    /\ None \notin {0, 2} \cup Row
    /\ Torn \notin Seq(Row) \cup Outcome

ASSUME OracleAssumption == \A oracle \in Oracles : IsSpec(oracle)

VARIABLES
    runs,       \* runs[d]: what is in directory d
    used,       \* used[d]: how many batches have written there
    batch,      \* batch[b]: an invocation
    md,         \* the rows of overall-summary.md
    json,       \* the rows of overall-summary.json
    layered,    \* the layered report that was rendered last
    faults,
    overlapped  \* have two invocations been under way at once?

vars == <<runs, used, batch, md, json, layered, faults, overlapped>>

NoRun   == [manifest |-> None, packets |-> <<>>, artifacts |-> {}]
Waiting == [at |-> "waiting", dir |-> None, limit |-> 0, done |-> <<>>,
            seen |-> {}, exit |-> None]

Init ==
    /\ runs = [d \in Dirs \cup Copies |-> NoRun]
    /\ used = [d \in Dirs \cup Copies |-> 0]
    /\ batch = [b \in Batches |-> Waiting]
    /\ md = {} /\ json = {}
    /\ layered = None
    /\ faults = 0
    /\ overlapped = FALSE
-----------------------------------------------------------------------------
Running == {b \in Batches : batch[b].at \notin {"waiting", "ended"}}

Goto(b, at) == batch' = [batch EXCEPT ![b].at = at]

\* A batch begins with some of the packets, those the limit allows. (Without a
\* commit, without packets, or as a dry run, it ends here and writes nothing.)
Begin(b, d, limit) ==
    /\ batch[b].at = "waiting" /\ layered = None
    /\ \A c \in Batches : c < b => batch[c].at # "waiting"
    /\ overlapped' = (overlapped \/ Running # {})
    /\ batch' = [batch EXCEPT ![b] = [@ EXCEPT !.at = "grade", !.dir = d,
                                               !.limit = limit]]
    /\ used' = [used EXCEPT ![d] = @ + 1]
    /\ UNCHANGED <<runs, md, json, layered, faults>>

\* MUTANT of StatusOf: only what grading says.
StatusAsGraded(status, rows) == status

\* The status of an outcome: a packet without receipts is not graded.
StatusOf(status, rows) ==
    IF status = "ok" /\ rows = <<>> THEN "ok_but_no_receipts" ELSE status

Log(b) == Logs[Len(batch[b].done) + 1]

Done(b, status, rows) ==
    batch' = [batch EXCEPT ![b].at = "packet", ![b].done =
        Append(@, [slug |-> Log(b).slug, status |-> StatusOf(status, rows),
                   rows |-> rows])]

\* The rows that verdicts on some receipts make.
RowsGraded(receipts, verdicts) ==
    [i \in DOMAIN receipts |->
        [qid |-> receipts[i].qid, lane |-> receipts[i].lane,
         verdict |-> verdicts[i]]]

\* Grading the next packet writes an artifact of its own.
Artifact(b, content) ==
    [runs EXCEPT ![batch[b].dir].artifacts = @ \cup
        {[id |-> <<b, Len(batch[b].done) + 1>>, rows |-> content]}]

Fault == faults < MaxFaults /\ faults' = faults + 1

\* The next packet is graded. If the comment cannot be rendered afterwards,
\* the status is an error, with rows and an artifact all the same.
GradePacket(b) ==
    /\ batch[b].at = "grade" /\ Len(batch[b].done) < batch[b].limit
    /\ \E verdicts \in [DOMAIN Log(b).receipts -> Verdicts] :
         LET rows == RowsGraded(Log(b).receipts, verdicts)
         IN /\ runs' = Artifact(b, rows)
            /\ \/ Done(b, "ok", rows) /\ UNCHANGED faults
               \/ Done(b, "error", rows) /\ Fault
    /\ UNCHANGED <<used, md, json, layered, overlapped>>

\* It cannot be read, its revision is not indexed, or its grading fails, at
\* the latest while the artifact is written.
GradeInVain(b) ==
    /\ batch[b].at = "grade" /\ Len(batch[b].done) < batch[b].limit
    /\ \/ \E status \in {"ok", "error"} : Done(b, status, <<>>)
          /\ UNCHANGED <<runs, faults>>
       \/ Done(b, "error", <<>>) /\ runs' = Artifact(b, Torn) /\ Fault
    /\ UNCHANGED <<used, md, json, layered, overlapped>>

PacketFile(b, content) ==
    LET last == Last(batch[b].done).slug
        old  == runs[batch[b].dir].packets
    IN [runs EXCEPT ![batch[b].dir].packets =
          [s \in DOMAIN old \cup {last} |-> IF s = last THEN content ELSE old[s]]]

\* write_packet_artifact(): packets/<slug>.json has the outcome and its rows.
WritePacket(b) ==
    /\ batch[b].at = "packet"
    /\ runs' = PacketFile(b, Last(batch[b].done))
    /\ Goto(b, IF Len(batch[b].done) = batch[b].limit THEN "manifest" ELSE "grade")
    /\ UNCHANGED <<used, md, json, layered, faults, overlapped>>

WriteManifest(b) ==
    /\ batch[b].at = "manifest"
    /\ LET totals == Totals(batch[b].done)
       IN runs' = [runs EXCEPT ![batch[b].dir].manifest =
                     [name |-> batch[b].dir, started |-> b, run |-> totals.run,
                      lanes |-> totals.lanes, packets |-> totals.packets]]
    /\ Goto(b, "load")
    /\ UNCHANGED <<used, md, json, layered, faults, overlapped>>

\* regenerate() reads the manifests ...
Load(b) ==
    /\ batch[b].at = "load"
    /\ batch' = [batch EXCEPT ![b].at = "misses", ![b].seen =
         {[dir |-> d, manifest |-> runs[d].manifest, misses |-> None] :
             d \in LoadManifests(runs, DOMAIN runs)}]
    /\ UNCHANGED <<runs, used, md, json, layered, faults, overlapped>>

\* ... counts the misses of each run from its artifacts ...
CountMisses(b) ==
    /\ batch[b].at = "misses"
    /\ batch' = [batch EXCEPT ![b].at = "md", ![b].seen =
         {[x EXCEPT !.misses = Misses(runs[x.dir].artifacts)] :
             x \in batch[b].seen}]
    /\ UNCHANGED <<runs, used, md, json, layered, faults, overlapped>>

\* ... and replaces one file of the dashboard, and then the other.
WriteMd(b) ==
    /\ batch[b].at = "md"
    /\ md' = batch[b].seen
    /\ Goto(b, "json")
    /\ UNCHANGED <<runs, used, json, layered, faults, overlapped>>

\* MUTANT of WriteJson: the last run only.
WriteJsonLast(b) ==
    /\ batch[b].at = "json"
    /\ json' = {x \in batch[b].seen : x.dir = batch[b].dir}
    /\ batch' = [batch EXCEPT ![b] = [@ EXCEPT !.at = "ended", !.seen = {},
                                               !.exit = 0]]
    /\ UNCHANGED <<runs, used, md, layered, faults, overlapped>>

\* The exit code is 2 if a packet is not ok.
WriteJson(b) ==
    /\ batch[b].at = "json"
    /\ json' = batch[b].seen
    /\ batch' = [batch EXCEPT ![b] = [@ EXCEPT !.at = "ended", !.seen = {},
         !.exit = IF \A i \in DOMAIN batch[b].done :
                        batch[b].done[i].status = "ok" THEN 0 ELSE 2]]
    /\ UNCHANGED <<runs, used, md, layered, faults, overlapped>>

\* The process is killed or a write fails. A file that is not replaced as a
\* whole may be left half written.
Stop(b) ==
    /\ b \in Running
    /\ Fault
    /\ batch' = [batch EXCEPT ![b] = [@ EXCEPT !.at = "ended", !.done = <<>>,
                                               !.seen = {}]]
    /\ LET d == batch[b].dir IN
       \/ UNCHANGED runs
       \/ batch[b].at = "grade" /\ runs' = Artifact(b, Torn)
       \/ batch[b].at = "packet" /\ runs' = PacketFile(b, Torn)
       \/ batch[b].at = "manifest" /\ runs' = [runs EXCEPT ![d].manifest = Torn]
    /\ UNCHANGED <<used, md, json, layered, overlapped>>

\* An operator copies the directory of a run that has a manifest. Bound:
\* between two batches, where the later one may read the copy.
Archive(d, c) ==
    /\ layered = None /\ Running = {}
    /\ \E b \in Batches : batch[b].at = "waiting"
    /\ HasManifest(runs, d) /\ used[c] = 0
    /\ runs' = [runs EXCEPT ![c] = runs[d]]
    /\ used' = [used EXCEPT ![c] = used[d]]
    /\ UNCHANGED <<batch, md, json, layered, faults, overlapped>>

\* shadow-layered-report renders a packet of a run. Bound: once, at the end,
\* and of the first batch (it reads one packet file, whoever else ran).
Layer(d) ==
    /\ layered = None
    /\ \E b \in Batches : /\ batch[b].at = "ended"
                         /\ \A c \in Batches \ {b} : batch[c].at = "waiting"
    /\ \E slug \in DOMAIN runs[d].packets :
       /\ runs[d].packets[slug] # Torn
       /\ LET rows == runs[d].packets[slug].rows IN
          \E oracle \in Oracles :
             layered' = [oracle |-> oracle, rows |-> rows,
                         report |-> Report(oracle, rows)]
    /\ UNCHANGED <<runs, used, batch, md, json, faults, overlapped>>
-----------------------------------------------------------------------------
BatchStep(b) ==
    \/ \E d \in Dirs : \E limit \in 1..Len(Logs) : Begin(b, d, limit)
    \/ GradePacket(b) \/ GradeInVain(b) \/ WritePacket(b) \/ WriteManifest(b)
    \/ Load(b) \/ CountMisses(b) \/ WriteMd(b) \/ WriteJson(b) \/ Stop(b)

Next ==
    \/ \E b \in Batches : BatchStep(b)
    \/ \E d \in Dirs : \E c \in Copies : Archive(d, c)
    \/ \E d \in Dirs : Layer(d)

Spec == Init /\ [][Next]_vars
-----------------------------------------------------------------------------
(* Properties *)

\* A batch that exits 0 has graded every packet it was to grade, and every
\* one of them has receipts: failures that grading returns, and packets that
\* silently yield nothing, are told.
SuccessGradedAll ==
    \A b \in Batches : batch[b].exit = 0 =>
        /\ Len(batch[b].done) = batch[b].limit
        /\ \A i \in DOMAIN batch[b].done :
              batch[b].done[i].status = "ok" /\ batch[b].done[i].rows # <<>>

\* The dashboard's counted misses, read from the artifacts, are what its
\* score, summed from memory when the run was graded, leaves open, lane by
\* lane: in a directory one batch has written to, whatever runs alongside,
\* and if the artifacts can be read (otherwise no misses are shown).
MissesExplainTheScore ==
    \A x \in json :
      used[x.dir] = 1 /\ x.misses # None =>
        \A l \in LaneBuckets :
            SumFunctionOnSet(x.misses, {m \in DOMAIN x.misses : Bucket(m) = l})
                = x.manifest.lanes[l].clean - x.manifest.lanes[l].correct

\* Once a batch has finished, and as long as batches take turns, both files of
\* the dashboard show the same, and every run that has a manifest just once
\* and as it is, despite copies of it and earlier runs that broke off.
DashboardIsCurrent ==
    LET begun == {b \in Batches : batch[b].at # "waiting"} IN
    \A b \in begun :
        /\ \A c \in begun : c <= b
        /\ batch[b].exit \in {0, 2}
        /\ ~overlapped
        => /\ md = json
           /\ \A d \in Dirs : HasManifest(runs, d) =>
                 Cardinality({x \in json : x.manifest.name = d /\
                     x.manifest.run = runs[d].manifest.run}) = 1
           /\ \A x, y \in json : x.manifest.name = y.manifest.name => x = y

\* Two runs of the same receipts, each in a directory of its own: what the
\* comparison says of single receipts, from the packet files, adds up to the
\* totals of both manifests.
ComparisonAddsUp ==
    \A d, e \in DOMAIN runs :
        HasManifest(runs, d) /\ HasManifest(runs, e)
                /\ used[d] = 1 /\ used[e] = 1 =>
            LET c == Compare(runs[d], runs[e])
                N(T) == Cardinality({x \in c : x.transition \in T})
                before == runs[d].manifest.run
                after  == runs[e].manifest.run
                all    == Cardinality(c)
            IN N({"appeared", "disappeared"}) = 0 =>
                /\ before.receipts = all /\ after.receipts = all
                /\ before.clean = all - N({"still_skipped", "un_skipped_passing",
                                           "un_skipped_failing"})
                /\ after.clean = all - N({"still_skipped", "newly_skipped"})
                /\ after.correct = N({"still_passing", "newly_passing",
                                      "un_skipped_passing"})

\* Every verified evidence row of an oracle is passed or failed by Atlas, also
\* where its receipt was skipped or not run, and passed only by a receipt that
\* passed: the overlay does not flatter the score.
LayeredAddsUp ==
    layered # None =>
        LET r == layered.report IN
        /\ r.pass + r.fail = r.verified["evidence"]
        /\ r.verified["evidence"] + r.verified["context"]
             + r.verified["command"] + r.unresolved = Len(layered.oracle.rows)
        /\ AsksOnce(layered.oracle) =>
             r.pass <= HowMany(layered.rows, Passes)

\* For an oracle that validates, the synthesis audit accounts for exactly the
\* points that each actor did not get.
AuditExplainsTheScore ==
    layered # None /\ Valid(layered.oracle) /\ InRange(layered.oracle) =>
        \A a \in Actors : layered.report.lost[a] =
                            layered.report.possible - layered.report.points[a]
=============================================================================
