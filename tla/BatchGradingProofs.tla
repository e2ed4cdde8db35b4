------------------------- MODULE BatchGradingProofs -------------------------
(***************************************************************************)
(* Proofs about BatchGrading: for any number of batches, directories and   *)
(* packets, what a batch's exit code says, and that the dashboard, the     *)
(* counted misses, the comparison of runs and the layered report agree     *)
(* with the manifests.                                                     *)
(***************************************************************************)
EXTENDS BatchGrading, LayeredReportProofs, SequenceTheorems

(* Types *)

Stages == {"waiting", "grade", "packet", "manifest", "load", "misses", "md",
           "json", "ended"}

\* An outcome of packet k: without rows it is not "ok", and rows there are
\* one for each receipt.
GradedAs(o, k) ==
    /\ o \in Outcome
    /\ o.slug = Logs[k].slug
    /\ o.rows = <<>> => o.status # "ok"
    /\ o.rows # <<>> =>
          /\ DOMAIN o.rows = DOMAIN Logs[k].receipts
          /\ \A i \in DOMAIN o.rows : o.rows[i].qid = Logs[k].receipts[i].qid

Graded(done) ==
    /\ done \in Seq(Outcome) /\ Len(done) <= Len(Logs)
    /\ \A k \in DOMAIN done : GradedAs(done[k], k)

\* How far a batch is, and what its exit code says.
BatchOK(x) ==
    /\ x \in [at : Stages, dir : Dirs \cup {None}, limit : 0..Len(Logs),
              done : Seq(Outcome), seen : {x.seen}, exit : {None, 0, 2}]
    /\ x.at = "waiting" => x.done = <<>> /\ x.exit = None
    /\ x.at # "waiting" => x.dir \in Dirs
    /\ Graded(x.done)
    /\ Len(x.done) <= x.limit
    /\ x.at = "grade" => Len(x.done) < x.limit
    /\ x.at = "packet" => Len(x.done) > 0
    /\ x.at \in {"manifest", "load", "misses", "md", "json"} =>
          Len(x.done) = x.limit
    /\ x.exit # None => x.at = "ended"
    /\ x.exit = 0 => /\ Len(x.done) = x.limit
                     /\ \A k \in DOMAIN x.done : x.done[k].status = "ok"

BatchesTyped ==
    /\ batch = [b \in Batches |-> batch[b]]
    /\ \A b \in Batches : BatchOK(batch[b])

LEMMA BatchRecord ==
    ASSUME BatchesTyped, NEW b \in Batches
    PROVE  /\ batch = [c \in Batches |-> batch[c]]
           /\ batch[b] \in [at : Stages, dir : Dirs \cup {None},
                 limit : 0..Len(Logs), done : Seq(Outcome),
                 seen : {batch[b].seen}, exit : {None, 0, 2}]
BY DEF BatchesTyped, BatchOK

LEMMA LogsTyped ==
    /\ Len(Logs) \in Nat /\ DOMAIN Logs = 1..Len(Logs)
    /\ \A k \in DOMAIN Logs :
          /\ Len(Logs[k].receipts) \in Nat
          /\ DOMAIN Logs[k].receipts = 1..Len(Logs[k].receipts)
<1>1. Logs \in Seq({Logs[k] : k \in DOMAIN Logs})
  BY BatchAssumption
<1>2. ASSUME NEW k \in DOMAIN Logs
      PROVE  LET receipts == Logs[k].receipts
             IN receipts \in Seq({receipts[i] : i \in DOMAIN receipts})
  BY BatchAssumption
<1> QED  BY <1>1, <1>2, SeqDomain

\* Grading a packet, or failing to, adds an outcome of it.
LEMMA DoneGraded ==
    ASSUME BatchesTyped, NEW b \in Batches, batch[b].at = "grade",
           NEW status \in {"ok", "error"}, NEW rows \in Seq(Row),
           rows # <<>> =>
              /\ DOMAIN rows = DOMAIN Log(b).receipts
              /\ \A i \in DOMAIN rows : rows[i].qid = Log(b).receipts[i].qid,
           Done(b, status, rows)
    PROVE  LET n == Len(batch[b].done) + 1 IN
           /\ n \in DOMAIN Logs
           /\ Graded(batch'[b].done)
           /\ Len(batch'[b].done) = n
           /\ batch'[b].done[n].rows = rows
           /\ \A k \in DOMAIN batch[b].done :
                 batch'[b].done[k] = batch[b].done[k]
<1> DEFINE done == batch[b].done
           n == Len(done) + 1
           o == [slug |-> Log(b).slug, status |-> StatusOf(status, rows),
                 rows |-> rows]
<1>1. /\ done \in Seq(Outcome) /\ Len(done) \in Nat /\ n \in DOMAIN Logs
      /\ \A k \in DOMAIN done : GradedAs(done[k], k)
  BY LogsTyped DEF BatchesTyped, BatchOK, Graded
<1>2. GradedAs(o, n)
  BY <1>1 DEF GradedAs, Outcome, StatusOf, Log
<1>3. batch'[b].done = Append(done, o)
  <2>1. /\ batch = [c \in Batches |-> batch[c]]
        /\ batch[b] = [at |-> batch[b].at, dir |-> batch[b].dir,
              limit |-> batch[b].limit, done |-> batch[b].done,
              seen |-> batch[b].seen, exit |-> batch[b].exit]
    BY DEF BatchesTyped, BatchOK
  <2> HIDE DEF o
  <2>2. batch'[b] = [batch[b] EXCEPT !.at = "packet", !.done = Append(@, o)]
    BY <2>1 DEF Done, o
  <2> QED  BY <2>1, <2>2
<1>4. o \in Outcome
  BY <1>2 DEF GradedAs
<1> HIDE DEF o
<1>5. /\ Append(done, o) \in Seq(Outcome) /\ Len(Append(done, o)) = n
      /\ DOMAIN Append(done, o) = 1..n /\ DOMAIN done = 1..Len(done)
      /\ \A k \in DOMAIN done : Append(done, o)[k] = done[k]
      /\ Append(done, o)[n] = o
  BY <1>1, <1>4
<1>6. n <= Len(Logs)
  BY <1>1, LogsTyped
<1>7. Graded(Append(done, o))
  BY <1>1, <1>2, <1>5, <1>6 DEF Graded
<1> QED  BY <1>1, <1>3, <1>5, <1>7 DEF o

\* The rows of a graded packet.
LEMMA RowsTyped ==
    ASSUME NEW k \in DOMAIN Logs,
           NEW verdicts \in [DOMAIN Logs[k].receipts -> Verdicts]
    PROVE  LET rows == RowsGraded(Logs[k].receipts, verdicts) IN
           /\ rows \in Seq(Row)
           /\ DOMAIN rows = DOMAIN Logs[k].receipts
           /\ \A i \in DOMAIN rows : rows[i].qid = Logs[k].receipts[i].qid
<1> DEFINE receipts == Logs[k].receipts
           rows == RowsGraded(receipts, verdicts)
<1>1. Len(receipts) \in Nat /\ DOMAIN receipts = 1..Len(receipts)
  BY LogsTyped
<1>2. \A i \in DOMAIN receipts : receipts[i] \in Receipts
  BY DEF Receipts
<1>3. \A i \in DOMAIN receipts : rows[i] \in Row /\ rows[i].qid = receipts[i].qid
  BY <1>2 DEF Row, RowsGraded
<1>4. rows \in [1..Len(receipts) -> Row]
  BY <1>1, <1>3 DEF RowsGraded
<1> QED  BY <1>1, <1>3, <1>4 DEF RowsGraded

LEMMA OneBatch ==
    ASSUME BatchesTyped, NEW b \in Batches, NEW x, BatchOK(x),
           batch' = [batch EXCEPT ![b] = x]
    PROVE  BatchesTyped'
<1>1. \A c \in Batches : BatchOK(batch[c])
  BY DEF BatchesTyped
<1>2. batch' = [c \in Batches |-> IF c = b THEN x ELSE batch[c]]
  BY DEF BatchesTyped
<1>3. \A c \in Batches : BatchOK(batch'[c])
  BY <1>1, <1>2
<1> QED  BY <1>2, <1>3 DEF BatchesTyped, BatchOK, Graded, GradedAs

\* Grading the next packet, in either way.
LEMMA DoneTyped ==
    ASSUME BatchesTyped, NEW b \in Batches, batch[b].at = "grade",
           NEW status \in {"ok", "error"}, NEW rows \in Seq(Row),
           rows # <<>> =>
              /\ DOMAIN rows = DOMAIN Log(b).receipts
              /\ \A i \in DOMAIN rows : rows[i].qid = Log(b).receipts[i].qid,
           Done(b, status, rows)
    PROVE  BatchesTyped'
<1> DEFINE x == batch'[b]
<1>1. BatchOK(batch[b]) /\ batch = [c \in Batches |-> batch[c]]
  BY DEF BatchesTyped
<1>2. Graded(x.done) /\ Len(x.done) = Len(batch[b].done) + 1
  BY DoneGraded
<1>3. /\ batch' = [batch EXCEPT ![b] = x]
      /\ x = [at |-> "packet", dir |-> batch[b].dir, limit |-> batch[b].limit,
              done |-> x.done, seen |-> batch[b].seen, exit |-> batch[b].exit]
  BY <1>1 DEF Done, BatchOK
<1> HIDE DEF x
<1>4. Len(batch[b].done) \in Nat /\ Len(batch[b].done) < batch[b].limit
  BY <1>1 DEF BatchOK, Graded
<1>5. BatchOK(x)
  BY <1>1, <1>2, <1>3, <1>4 DEF BatchOK, Stages, Graded
<1> QED  BY <1>3, <1>5, OneBatch

LEMMA BatchesStep == BatchesTyped /\ [Next]_vars => BatchesTyped'
<1> SUFFICES ASSUME BatchesTyped, [Next]_vars PROVE BatchesTyped'
  OBVIOUS
<1>1. ASSUME UNCHANGED batch PROVE BatchesTyped'
  BY <1>1 DEF BatchesTyped, BatchOK, Graded, GradedAs
<1> DEFINE Step(b, x) == batch' = [batch EXCEPT ![b] = x]
<1>2. \A b \in Batches :
         /\ BatchOK(batch[b])
         /\ Len(batch[b].done) \in Nat
  BY DEF BatchesTyped, BatchOK, Graded
<1>3. ASSUME NEW b \in Batches, NEW d \in Dirs, NEW limit \in 1..Len(Logs),
             Begin(b, d, limit)
      PROVE  BatchesTyped'
  <2> DEFINE x == [batch[b] EXCEPT !.at = "grade", !.dir = d, !.limit = limit]
  <2>1. BatchOK(batch[b]) /\ batch[b].at = "waiting"
    BY <1>2, <1>3 DEF Begin
  <2>2. Len(batch[b].done) = 0 /\ Len(Logs) \in Nat
    BY <2>1, LogsTyped DEF BatchOK
  <2>3. BatchOK(x)
    <3>1. /\ x.at = "grade" /\ x.done = batch[b].done /\ x.exit = None
          /\ x.dir = d /\ x.limit = limit
          /\ x \in [at : Stages, dir : Dirs \cup {None}, limit : 0..Len(Logs),
                    done : Seq(Outcome), seen : {x.seen}, exit : {None, 0, 2}]
      <4>1. limit \in 0..Len(Logs) /\ "grade" \in Stages
        BY <2>2 DEF Stages
      <4> QED  BY <2>1, <4>1 DEF BatchOK
    <3>2. None # 0
      BY BatchAssumption
    <3> HIDE DEF x
    <3> QED  BY <2>1, <2>2, <3>1, <3>2 DEF BatchOK
  <2> HIDE DEF x
  <2>4. Step(b, x)
    BY <1>3 DEF Begin, x
  <2> QED  BY <2>3, <2>4, OneBatch
<1>4. ASSUME NEW b \in Batches, GradePacket(b)
      PROVE  BatchesTyped'
  <2>1. /\ batch[b].at = "grade" /\ Len(batch[b].done) < batch[b].limit
        /\ \E verdicts \in [DOMAIN Log(b).receipts -> Verdicts] :
              \E status \in {"ok", "error"} :
                 Done(b, status, RowsGraded(Log(b).receipts, verdicts))
    BY <1>4 DEF GradePacket
  <2>2. Len(batch[b].done) \in Nat /\ batch[b].limit \in 0..Len(Logs)
    BY <1>2 DEF BatchOK
  <2>3. Len(batch[b].done) + 1 \in DOMAIN Logs
    BY <2>1, <2>2, LogsTyped
  <2> QED  BY <2>1, <2>3, RowsTyped, DoneTyped DEF Log
<1>5. ASSUME NEW b \in Batches, GradeInVain(b)
      PROVE  BatchesTyped'
  <2>1. <<>> \in Seq(Row)
    OBVIOUS
  <2> QED  BY <1>5, <2>1, DoneTyped DEF GradeInVain
<1>6. ASSUME NEW b \in Batches, NEW at \in Stages \ {"waiting"}, Goto(b, at),
             at = "grade" => Len(batch[b].done) < batch[b].limit,
             at \notin {"packet", "ended"},
             at # "grade" => Len(batch[b].done) = batch[b].limit,
             batch[b].at # "waiting", batch[b].exit = None
      PROVE  BatchesTyped'
  <2> DEFINE x == [batch[b] EXCEPT !.at = at]
  <2>1. BatchOK(batch[b])
    BY <1>2
  <2>2. BatchOK(x)
    BY <1>6, <2>1, BatchAssumption DEF BatchOK
  <2> HIDE DEF x
  <2>3. Step(b, x)
    BY <1>6 DEF Goto, x
  <2> QED  BY <2>2, <2>3, OneBatch
<1>7. ASSUME NEW b \in Batches, WritePacket(b) \/ WriteManifest(b) \/ WriteMd(b)
      PROVE  BatchesTyped'
  <2>1. BatchOK(batch[b]) /\ Len(batch[b].done) \in Nat
    BY <1>2
  <2>2. batch[b].exit = None /\ batch[b].at # "waiting"
    BY <1>7, <2>1 DEF WritePacket, WriteManifest, WriteMd, BatchOK
  <2>3. CASE WritePacket(b)
    <3>1. CASE Len(batch[b].done) = batch[b].limit
      BY <1>6, <2>2, <2>3, <3>1 DEF WritePacket, Stages
    <3>2. CASE Len(batch[b].done) # batch[b].limit
      <4>1. Len(batch[b].done) < batch[b].limit
        BY <2>1, <3>2 DEF BatchOK
      <4> QED  BY <1>6, <2>2, <2>3, <3>2, <4>1 DEF WritePacket, Stages
    <3> QED  BY <3>1, <3>2
  <2>4. CASE WriteManifest(b) \/ WriteMd(b)
    <3>1. Len(batch[b].done) = batch[b].limit
      BY <2>1, <2>4 DEF WriteManifest, WriteMd, BatchOK
    <3> QED  BY <1>6, <2>2, <2>4, <3>1 DEF WriteManifest, WriteMd, Stages
  <2> QED  BY <1>7, <2>3, <2>4
<1>8. ASSUME NEW b \in Batches, NEW at, NEW S, at \in {"misses", "md"},
             batch[b].at \in {"load", "misses"},
             batch' = [batch EXCEPT ![b].at = at, ![b].seen = S]
      PROVE  BatchesTyped'
  <2> DEFINE x == [batch[b] EXCEPT !.at = at, !.seen = S]
  <2>1. BatchOK(batch[b])
    BY <1>2
  <2>2. BatchOK(x)
    BY <1>8, <2>1, BatchAssumption DEF BatchOK, Stages
  <2> HIDE DEF x
  <2>3. Step(b, x)
    BY <1>8 DEF BatchesTyped, x
  <2> QED  BY <2>2, <2>3, OneBatch
<1>9. ASSUME NEW b \in Batches, Load(b) \/ CountMisses(b)
      PROVE  BatchesTyped'
  BY <1>8, <1>9 DEF Load, CountMisses
<1>10. ASSUME NEW b \in Batches, WriteJson(b)
      PROVE  BatchesTyped'
  <2> DEFINE code == IF \A i \in DOMAIN batch[b].done :
                            batch[b].done[i].status = "ok" THEN 0 ELSE 2
             x == [batch[b] EXCEPT !.at = "ended", !.seen = {}, !.exit = code]
  <2>1. BatchOK(batch[b]) /\ batch[b].at = "json"
    BY <1>2, <1>10 DEF WriteJson
  <2>2. BatchOK(x)
    <3>1. /\ x.at = "ended" /\ x.done = batch[b].done /\ x.exit = code
          /\ x.dir = batch[b].dir /\ x.limit = batch[b].limit
          /\ x \in [at : Stages, dir : Dirs \cup {None}, limit : 0..Len(Logs),
                    done : Seq(Outcome), seen : {x.seen}, exit : {None, 0, 2}]
      BY <2>1 DEF BatchOK, Stages
    <3>2. /\ code \in {0, 2}
          /\ code = 0 => \A k \in DOMAIN batch[b].done : batch[b].done[k].status = "ok"
      OBVIOUS
    <3> HIDE DEF code, x
    <3> QED  BY <2>1, <3>1, <3>2 DEF BatchOK, Stages
  <2> HIDE DEF x
  <2>3. Step(b, x)
    BY <1>10 DEF WriteJson, x
  <2> QED  BY <2>2, <2>3, OneBatch
<1>11. ASSUME NEW b \in Batches, Stop(b)
      PROVE  BatchesTyped'
  <2> DEFINE x == [batch[b] EXCEPT !.at = "ended", !.done = <<>>, !.seen = {}]
  <2>1. /\ <<>> \in Seq(Outcome) /\ Len(<<>>) = 0 /\ DOMAIN <<>> = {}
        /\ Len(Logs) \in Nat /\ batch[b].at \notin {"waiting", "ended"}
    BY <1>11, LogsTyped DEF Stop, Running
  <2>2. Graded(<<>>)
    BY <2>1 DEF Graded
  <2>3. BatchOK(batch[b])
    BY <1>2
  <2>4. batch[b].exit = None /\ batch[b].exit # 0
    BY <2>1, <2>3, BatchAssumption DEF BatchOK
  <2>5. BatchOK(x)
    <3>1. /\ x.at = "ended" /\ x.done = <<>> /\ x.exit = None
          /\ x.dir = batch[b].dir /\ x.limit = batch[b].limit
          /\ x \in [at : Stages, dir : Dirs \cup {None}, limit : 0..Len(Logs),
                    done : Seq(Outcome), seen : {x.seen}, exit : {None, 0, 2}]
      BY <2>1, <2>3, <2>4 DEF BatchOK, Stages
    <3>2. None # 0 /\ batch[b].limit \in 0..Len(Logs) /\ batch[b].dir \in Dirs
      BY <2>1, <2>3, <2>4 DEF BatchOK
    <3> HIDE DEF x
    <3> QED  BY <2>1, <2>2, <3>1, <3>2 DEF BatchOK, Stages
  <2> HIDE DEF x
  <2>6. Step(b, x)
    BY <1>11 DEF Stop, x
  <2> QED  BY <2>5, <2>6, OneBatch
<1>12. CASE UNCHANGED vars
  BY <1>1, <1>12 DEF vars
<1>13. ASSUME NEW d \in Dirs,
              (\E c \in Copies : Archive(d, c)) \/ Layer(d)
       PROVE  BatchesTyped'
  BY <1>1, <1>13 DEF Archive, Layer
<1> QED  BY <1>3, <1>4, <1>5, <1>7, <1>9, <1>10, <1>11, <1>12, <1>13
         DEF Next, BatchStep

LEMMA BatchesInit == Init => BatchesTyped
<1> SUFFICES ASSUME Init PROVE BatchesTyped
  OBVIOUS
<1>1. /\ <<>> \in Seq(Outcome) /\ Len(<<>>) = 0 /\ DOMAIN <<>> = {}
      /\ Len(Logs) \in Nat
  BY LogsTyped
<1>2. BatchOK(Waiting)
  BY <1>1, BatchAssumption DEF BatchOK, Waiting, Graded, Stages
<1> QED  BY <1>2 DEF Init, BatchesTyped

LEMMA BatchTypes == Spec => []BatchesTyped
BY BatchesInit, BatchesStep, PTL DEF Spec

\* A batch that exits 0 has graded every packet it was to grade, and every
\* one of them has receipts.
THEOREM ExitCodeIsEarned == Spec => []SuccessGradedAll
<1>1. BatchesTyped => SuccessGradedAll
  BY DEF BatchesTyped, BatchOK, Graded, GradedAs, SuccessGradedAll
<1> QED  BY <1>1, BatchTypes, PTL
-----------------------------------------------------------------------------
(* The directories *)

AllDirs == Dirs \cup Copies

ManifestOf(name, started, done) ==
    [name |-> name, started |-> started, run |-> Totals(done).run,
     lanes |-> Totals(done).lanes, packets |-> Totals(done).packets]

IsManifest(m) ==
    \E name \in Dirs, started \in Batches : \E done :
        Graded(done) /\ m = ManifestOf(name, started, done)

\* What is in a directory.
RunOK(r) ==
    /\ r \in [manifest : {r.manifest}, packets : {r.packets},
              artifacts : {r.artifacts}]
    /\ \A s \in DOMAIN r.packets : r.packets[s] \in Outcome \cup {Torn}
    /\ r.manifest \notin {None, Torn} => IsManifest(r.manifest)

RunsTyped ==
    /\ runs = [d \in AllDirs |-> runs[d]]
    /\ \A d \in AllDirs : RunOK(runs[d])

\* Everywhere but in directory d, nothing changes.
OnlyRun(d) == \A e \in AllDirs : e # d => runs'[e] = runs[e]

OnlyBatch(b) == \A c \in Batches : c # b => batch'[c] = batch[c]

\* Where a batch writes.
LEMMA DirOf ==
    ASSUME BatchesTyped, NEW b \in Batches, batch[b].at # "waiting"
    PROVE  batch[b].dir \in Dirs /\ batch[b].dir \in AllDirs
BY DEF BatchesTyped, BatchOK, AllDirs

LEMMA LastDone ==
    ASSUME BatchesTyped, NEW b \in Batches, batch[b].at = "packet"
    PROVE  LET n == Len(batch[b].done) IN
           /\ n \in DOMAIN batch[b].done /\ n \in Nat
           /\ Last(batch[b].done) = batch[b].done[n]
           /\ Last(batch[b].done) \in Outcome
           /\ Last(batch[b].done).slug = Logs[n].slug
<1>1. /\ batch[b].done \in Seq(Outcome) /\ Len(batch[b].done) > 0
      /\ \A k \in DOMAIN batch[b].done : GradedAs(batch[b].done[k], k)
  BY DEF BatchesTyped, BatchOK, Graded
<1>2. Len(batch[b].done) \in DOMAIN batch[b].done
  BY <1>1
<1> QED  BY <1>1, <1>2 DEF GradedAs, Last

\* The effects of the actions on the directories.
LEMMA ArtifactEffect ==
    ASSUME RunsTyped, NEW d \in AllDirs, NEW a,
           runs' = [runs EXCEPT ![d].artifacts = @ \cup {a}]
    PROVE  /\ OnlyRun(d)
           /\ runs'[d].artifacts = runs[d].artifacts \cup {a}
           /\ runs'[d].manifest = runs[d].manifest
           /\ runs'[d].packets = runs[d].packets
           /\ RunsTyped'
<1>1. runs = [e \in AllDirs |-> runs[e]] /\ \A e \in AllDirs : RunOK(runs[e])
  BY DEF RunsTyped
<1>2. RunOK(runs[d])
  BY <1>1
<1>3. /\ runs'[d].artifacts = runs[d].artifacts \cup {a}
      /\ runs'[d].manifest = runs[d].manifest
      /\ runs'[d].packets = runs[d].packets
      /\ runs'[d] \in [manifest : {runs'[d].manifest}, packets : {runs'[d].packets},
                       artifacts : {runs'[d].artifacts}]
  BY <1>1, <1>2 DEF RunOK
<1>4. RunOK(runs'[d])
  BY <1>2, <1>3 DEF RunOK
<1>5. OnlyRun(d)
  BY <1>1 DEF OnlyRun
<1>6. runs' = [e \in AllDirs |-> runs'[e]]
  BY <1>1
<1>7. RunsTyped'
  BY <1>1, <1>4, <1>5, <1>6 DEF RunsTyped, OnlyRun
<1> QED  BY <1>3, <1>5, <1>7

LEMMA PacketEffect ==
    ASSUME RunsTyped, BatchesTyped, NEW b \in Batches, batch[b].at = "packet",
           NEW content \in Outcome \cup {Torn}, runs' = PacketFile(b, content)
    PROVE  LET d    == batch[b].dir
               last == Last(batch[b].done).slug
               old  == runs[d].packets
           IN
           /\ OnlyRun(d)
           /\ runs'[d].packets = [s \in DOMAIN old \cup {last} |->
                                     IF s = last THEN content ELSE old[s]]
           /\ runs'[d].manifest = runs[d].manifest
           /\ runs'[d].artifacts = runs[d].artifacts
           /\ RunsTyped'
<1> DEFINE d    == batch[b].dir
           last == Last(batch[b].done).slug
           old  == runs[d].packets
           new  == [s \in DOMAIN old \cup {last} |->
                       IF s = last THEN content ELSE old[s]]
<1>1. runs = [e \in AllDirs |-> runs[e]] /\ \A e \in AllDirs : RunOK(runs[e])
  BY DEF RunsTyped
<1>2. d \in AllDirs /\ RunOK(runs[d])
  BY <1>1, DirOf
<1>3. runs' = [runs EXCEPT ![d].packets = new]
  BY DEF PacketFile
<1>4. \A s \in DOMAIN new : new[s] \in Outcome \cup {Torn}
  BY <1>2 DEF RunOK
<1> HIDE DEF new
<1>5. /\ runs'[d].packets = new
      /\ runs'[d].manifest = runs[d].manifest
      /\ runs'[d].artifacts = runs[d].artifacts
      /\ runs'[d] \in [manifest : {runs'[d].manifest}, packets : {runs'[d].packets},
                       artifacts : {runs'[d].artifacts}]
  BY <1>1, <1>2, <1>3 DEF RunOK
<1>6. RunOK(runs'[d])
  BY <1>2, <1>4, <1>5 DEF RunOK
<1>7. OnlyRun(d) /\ runs' = [e \in AllDirs |-> runs'[e]]
  BY <1>1, <1>3 DEF OnlyRun
<1>8. RunsTyped'
  BY <1>1, <1>6, <1>7 DEF RunsTyped, OnlyRun
<1> QED  BY <1>5, <1>7, <1>8 DEF new

LEMMA ManifestEffect ==
    ASSUME RunsTyped, NEW d \in AllDirs, NEW m, m = Torn \/ IsManifest(m),
           runs' = [runs EXCEPT ![d].manifest = m]
    PROVE  /\ OnlyRun(d)
           /\ runs'[d].manifest = m
           /\ runs'[d].packets = runs[d].packets
           /\ runs'[d].artifacts = runs[d].artifacts
           /\ RunsTyped'
<1>1. runs = [e \in AllDirs |-> runs[e]] /\ \A e \in AllDirs : RunOK(runs[e])
  BY DEF RunsTyped
<1>2. RunOK(runs[d])
  BY <1>1
<1>3. /\ runs'[d].manifest = m
      /\ runs'[d].artifacts = runs[d].artifacts
      /\ runs'[d].packets = runs[d].packets
      /\ runs'[d] \in [manifest : {runs'[d].manifest}, packets : {runs'[d].packets},
                       artifacts : {runs'[d].artifacts}]
  BY <1>1, <1>2 DEF RunOK
<1>4. RunOK(runs'[d])
  BY <1>2, <1>3 DEF RunOK
<1>5. OnlyRun(d) /\ runs' = [e \in AllDirs |-> runs'[e]]
  BY <1>1 DEF OnlyRun
<1>6. RunsTyped'
  BY <1>1, <1>4, <1>5 DEF RunsTyped, OnlyRun
<1> QED  BY <1>3, <1>5, <1>6

\* What a batch that is stopped may leave in its directory.
LEMMA StopEffect ==
    ASSUME RunsTyped, BatchesTyped, NEW b \in Batches, Stop(b)
    PROVE  /\ RunsTyped'
           /\ OnlyRun(batch[b].dir)
           /\ runs'[batch[b].dir].manifest \in
                 {runs[batch[b].dir].manifest, Torn}
           /\ batch[b].at \notin {"grade", "packet", "manifest"} => runs' = runs
<1> DEFINE d == batch[b].dir
<1>1. batch[b].at \notin {"waiting", "ended"}
  BY DEF Stop, Running
<1>2. d \in AllDirs
  BY <1>1, DirOf
<1>3. CASE UNCHANGED runs
  BY <1>2, <1>3 DEF RunsTyped, OnlyRun
<1>4. ASSUME NEW a, runs' = [runs EXCEPT ![d].artifacts = @ \cup {a}]
      PROVE  RunsTyped' /\ OnlyRun(d) /\ runs'[d].manifest = runs[d].manifest
  BY <1>2, <1>4, ArtifactEffect
<1>5. CASE batch[b].at = "packet" /\ runs' = PacketFile(b, Torn)
  BY <1>5, PacketEffect
<1>6. CASE batch[b].at = "manifest" /\ runs' = [runs EXCEPT ![d].manifest = Torn]
  BY <1>2, <1>6, ManifestEffect
<1>7. CASE batch[b].at = "grade" /\ runs' = Artifact(b, Torn)
  BY <1>4, <1>7 DEF Artifact
<1> QED  BY <1>3, <1>5, <1>6, <1>7 DEF Stop

LEMMA WriteManifestEffect ==
    ASSUME RunsTyped, BatchesTyped, NEW b \in Batches, WriteManifest(b)
    PROVE  LET d == batch[b].dir IN
           /\ RunsTyped' /\ OnlyRun(d)
           /\ runs'[d].manifest = ManifestOf(d, b, batch[b].done)
           /\ runs'[d].packets = runs[d].packets
           /\ runs'[d].artifacts = runs[d].artifacts
<1> DEFINE d == batch[b].dir
           m == ManifestOf(d, b, batch[b].done)
<1>1. d \in Dirs /\ d \in AllDirs
  BY DirOf DEF WriteManifest
<1>2. IsManifest(m)
  BY <1>1 DEF IsManifest, BatchesTyped, BatchOK
<1>3. runs' = [runs EXCEPT ![d].manifest = m]
  BY DEF WriteManifest, ManifestOf
<1> HIDE DEF m
<1> QED  BY <1>1, <1>2, <1>3, ManifestEffect DEF m

\* Grading in vain may leave a torn artifact.
LEMMA InVainEffect ==
    ASSUME RunsTyped, BatchesTyped, NEW b \in Batches, GradeInVain(b)
    PROVE  LET d == batch[b].dir IN
           /\ RunsTyped' /\ OnlyRun(d)
           /\ runs'[d].manifest = runs[d].manifest
           /\ runs'[d].packets = runs[d].packets
           /\ \/ runs'[d].artifacts = runs[d].artifacts
              \/ \E a \in runs'[d].artifacts : a.rows = Torn
<1> DEFINE d == batch[b].dir
<1>1. d \in AllDirs
  BY DirOf DEF GradeInVain
<1>2. CASE UNCHANGED runs
  BY <1>2 DEF RunsTyped, OnlyRun
<1>3. CASE runs' = Artifact(b, Torn)
  <2> DEFINE a == [id |-> <<b, Len(batch[b].done) + 1>>, rows |-> Torn]
  <2>1. runs' = [runs EXCEPT ![d].artifacts = @ \cup {a}] /\ a.rows = Torn
    BY <1>3 DEF Artifact
  <2> HIDE DEF a
  <2>2. /\ RunsTyped' /\ OnlyRun(d)
        /\ runs'[d].manifest = runs[d].manifest
        /\ runs'[d].packets = runs[d].packets
        /\ a \in runs'[d].artifacts
    BY <1>1, <2>1, ArtifactEffect
  <2> QED  BY <2>1, <2>2
<1> QED  BY <1>2, <1>3 DEF GradeInVain

\* The artifact of the packet that b grades, with some verdicts.
LEMMA GradeEffect ==
    ASSUME RunsTyped, BatchesTyped, NEW b \in Batches, GradePacket(b)
    PROVE  LET d == batch[b].dir
               n == Len(batch[b].done) + 1
           IN
           /\ RunsTyped' /\ OnlyRun(d)
           /\ runs'[d].manifest = runs[d].manifest
           /\ runs'[d].packets = runs[d].packets
           /\ runs'[d].artifacts = runs[d].artifacts \cup
                 {[id |-> <<b, n>>, rows |-> batch'[b].done[n].rows]}
           /\ Graded(batch'[b].done) /\ Len(batch'[b].done) = n
           /\ \A k \in DOMAIN batch[b].done :
                 batch'[b].done[k] = batch[b].done[k]
<1> DEFINE d == batch[b].dir
           n == Len(batch[b].done) + 1
           receipts == Log(b).receipts
<1>1. PICK verdicts \in [DOMAIN receipts -> Verdicts] :
        /\ \E status \in {"ok", "error"} :
              Done(b, status, RowsGraded(receipts, verdicts))
        /\ runs' = [runs EXCEPT ![batch[b].dir].artifacts = @ \cup
              {[id |-> <<b, n>>, rows |-> RowsGraded(receipts, verdicts)]}]
  BY DEF GradePacket, Artifact
<1>2. batch[b].at = "grade" /\ Len(batch[b].done) < batch[b].limit
  BY DEF GradePacket
<1>3. n \in DOMAIN Logs
  <2>1. Len(batch[b].done) \in Nat /\ batch[b].limit \in 0..Len(Logs)
    BY DEF BatchesTyped, BatchOK
  <2> QED  BY <1>2, <2>1, LogsTyped
<1> DEFINE rows == RowsGraded(receipts, verdicts)
<1>4. /\ rows \in Seq(Row)
      /\ DOMAIN rows = DOMAIN receipts
      /\ \A i \in DOMAIN rows : rows[i].qid = receipts[i].qid
  BY <1>1, <1>3, RowsTyped DEF Log
<1> HIDE DEF rows
<1>5. /\ Graded(batch'[b].done) /\ Len(batch'[b].done) = n
      /\ batch'[b].done[n].rows = rows
      /\ \A k \in DOMAIN batch[b].done :
            batch'[b].done[k] = batch[b].done[k]
  <2>1. \E status \in {"ok", "error"} : Done(b, status, rows)
    BY <1>1 DEF rows
  <2> QED  BY <1>2, <1>4, <2>1, DoneGraded
<1>6. d \in AllDirs
  BY <1>2, DirOf
<1>7. /\ RunsTyped' /\ OnlyRun(d)
      /\ runs'[d].manifest = runs[d].manifest
      /\ runs'[d].packets = runs[d].packets
      /\ runs'[d].artifacts = runs[d].artifacts \cup {[id |-> <<b, n>>, rows |-> rows]}
  <2> DEFINE a == [id |-> <<b, n>>, rows |-> rows]
  <2>1. runs' = [runs EXCEPT ![d].artifacts = @ \cup {a}]
    BY <1>1 DEF rows
  <2> HIDE DEF a
  <2>2. /\ RunsTyped' /\ OnlyRun(d)
        /\ runs'[d].manifest = runs[d].manifest
        /\ runs'[d].packets = runs[d].packets
        /\ runs'[d].artifacts = runs[d].artifacts \cup {a}
    BY <1>6, <2>1, ArtifactEffect
  <2> QED  BY <2>2 DEF a
<1> QED  BY <1>5, <1>7

LEMMA ArchiveEffect ==
    ASSUME RunsTyped, NEW d \in Dirs, NEW c \in Copies, Archive(d, c)
    PROVE  RunsTyped' /\ OnlyRun(c) /\ runs'[c] = runs[d]
<1>1. runs = [e \in AllDirs |-> runs[e]] /\ \A e \in AllDirs : RunOK(runs[e])
  BY DEF RunsTyped
<1>2. d \in AllDirs /\ c \in AllDirs /\ runs' = [runs EXCEPT ![c] = runs[d]]
  BY DEF AllDirs, Archive
<1>3. OnlyRun(c) /\ runs'[c] = runs[d] /\ runs' = [e \in AllDirs |-> runs'[e]]
  BY <1>1, <1>2 DEF OnlyRun
<1>4. \A e \in AllDirs : RunOK(runs'[e])
  BY <1>1, <1>2, <1>3 DEF OnlyRun
<1> QED  BY <1>3, <1>4 DEF RunsTyped

LEMMA RunsStep == BatchesTyped /\ RunsTyped /\ [Next]_vars => RunsTyped'
<1> SUFFICES ASSUME BatchesTyped, RunsTyped, [Next]_vars PROVE RunsTyped'
  OBVIOUS
<1>1. ASSUME UNCHANGED runs PROVE RunsTyped'
  BY <1>1 DEF RunsTyped
<1>2. ASSUME NEW b \in Batches, WritePacket(b) PROVE RunsTyped'
  <2>1. /\ batch[b].at = "packet" /\ Last(batch[b].done) \in Outcome
        /\ runs' = PacketFile(b, Last(batch[b].done))
    BY <1>2, LastDone DEF WritePacket
  <2> QED  BY <2>1, PacketEffect
<1>3. ASSUME NEW b \in Batches, BatchStep(b) PROVE RunsTyped'
  BY <1>1, <1>2, <1>3, GradeEffect, InVainEffect, WriteManifestEffect, StopEffect
     DEF BatchStep, Begin, Load, CountMisses, WriteMd, WriteJson
<1>4. ASSUME NEW d \in Dirs, Layer(d) PROVE RunsTyped'
  BY <1>1, <1>4 DEF Layer
<1>5. CASE UNCHANGED vars
  BY <1>1, <1>5 DEF vars
<1> QED  BY <1>3, <1>4, <1>5, ArchiveEffect DEF Next

LEMMA RunTypes == Spec => []RunsTyped
<1>1. Init => RunsTyped
  <2> SUFFICES ASSUME Init PROVE RunsTyped
    OBVIOUS
  <2>1. RunOK(NoRun)
    BY DEF RunOK, NoRun
  <2> QED  BY <2>1 DEF Init, RunsTyped, AllDirs
<1> QED  BY <1>1, RunsStep, BatchTypes, PTL DEF Spec
-----------------------------------------------------------------------------
(* The layered report *)

LayeredTyped ==
    layered # None =>
        /\ layered.oracle \in Oracles
        /\ layered.rows \in Seq(Row)
        /\ layered.report = Report(layered.oracle, layered.rows)

LEMMA LayeredTypes == Spec => []LayeredTyped
<1>1. Init => LayeredTyped
  BY DEF Init, LayeredTyped
<1>2. RunsTyped /\ LayeredTyped /\ [Next]_vars => LayeredTyped'
  <2> SUFFICES ASSUME RunsTyped, LayeredTyped, [Next]_vars PROVE LayeredTyped'
    OBVIOUS
  <2>1. ASSUME NEW d \in Dirs, Layer(d) PROVE LayeredTyped'
    <3>1. PICK slug \in DOMAIN runs[d].packets :
            /\ runs[d].packets[slug] # Torn
            /\ \E oracle \in Oracles :
                  layered' = [oracle |-> oracle,
                              rows |-> runs[d].packets[slug].rows,
                              report |-> Report(oracle, runs[d].packets[slug].rows)]
      BY <2>1 DEF Layer
    <3>2. runs[d].packets[slug] \in Outcome
      BY <3>1 DEF RunsTyped, RunOK, AllDirs
    <3>3. runs[d].packets[slug].rows \in Seq(Row)
      BY <3>2 DEF Outcome
    <3> QED  BY <3>1, <3>3 DEF LayeredTyped
  <2>2. ASSUME UNCHANGED layered PROVE LayeredTyped'
    BY <2>2 DEF LayeredTyped
  <2>3. ASSUME NEW b \in Batches, BatchStep(b) PROVE UNCHANGED layered
    BY <2>3 DEF BatchStep, Begin, GradePacket, GradeInVain, WritePacket,
                WriteManifest, Load, CountMisses, WriteMd, WriteJson, Stop
  <2> QED  BY <2>1, <2>2, <2>3 DEF Next, Archive, vars
<1> QED  BY <1>1, <1>2, RunTypes, PTL DEF Spec

\* Of the layered report of any packet, by any oracle: every verified evidence
\* row is passed or failed by Atlas, and passed only by a receipt that passed.
THEOREM LayeredReportAddsUp == Spec => []LayeredAddsUp
<1>1. LayeredTyped => LayeredAddsUp
  <2> SUFFICES ASSUME LayeredTyped, layered # None PROVE LayeredAddsUp
    BY DEF LayeredAddsUp
  <2>1. IsSpec(layered.oracle)
    BY OracleAssumption DEF LayeredTyped
  <2>2. layered.rows \in Seq(Row)
    BY DEF LayeredTyped
  <2>3. layered.report = Report(layered.oracle, layered.rows)
    BY DEF LayeredTyped
  <2>4. LET r == Report(layered.oracle, layered.rows) IN
        /\ r.pass + r.fail = r.verified["evidence"]
        /\ r.verified["evidence"] + r.verified["context"]
             + r.verified["command"] + r.unresolved = Len(layered.oracle.rows)
    BY <2>1, EvidenceAddsUp
  <2>5. AsksOnce(layered.oracle) =>
          Report(layered.oracle, layered.rows).pass <= HowMany(layered.rows, Passes)
    BY <2>2, PassesAreEarned
  <2> QED  BY <2>3, <2>4, <2>5 DEF LayeredAddsUp
<1> QED  BY <1>1, LayeredTypes, PTL

\* For an oracle that validates, the synthesis audit accounts for exactly the
\* points that each actor did not get.
THEOREM LostPointsAreExplained == Spec => []AuditExplainsTheScore
<1>1. LayeredTyped => AuditExplainsTheScore
  BY OracleAssumption, AuditAddsUp DEF LayeredTyped, AuditExplainsTheScore
<1> QED  BY <1>1, LayeredTypes, PTL
-----------------------------------------------------------------------------
(* The order of the batches *)

Begun(b) == batch[b].at # "waiting"

\* Batches begin in their order; and unless two of them overlapped, a running
\* one is the last that has begun.
OrderInv ==
    /\ \E m \in Nat : \A c \in Batches : Begun(c) => c <= m
    /\ \A b, c \in Batches : c < b /\ Begun(b) => Begun(c)
    /\ ~overlapped =>
          \A b \in Running : \A c \in Batches : Begun(c) => c <= b

LEMMA StepOf ==
    ASSUME BatchesTyped, NEW b \in Batches, BatchStep(b)
    PROVE  /\ OnlyBatch(b)
           /\ Begun(b)'
           /\ batch[b].at = "waiting" =>
                 \E d \in Dirs, limit \in 1..Len(Logs) : Begin(b, d, limit)
           /\ batch[b].at # "waiting" =>
                 /\ b \in Running
                 /\ overlapped' = overlapped /\ used' = used
                 /\ batch'[b].dir = batch[b].dir
                 /\ batch'[b].limit = batch[b].limit
<1> USE DEF OnlyBatch, Begun, Running
<1>1. /\ batch = [c \in Batches |-> batch[c]]
      /\ batch[b] \in [at : Stages, dir : Dirs \cup {None}, limit : 0..Len(Logs),
              done : Seq(Outcome), seen : {batch[b].seen}, exit : {None, 0, 2}]
  BY BatchRecord
<1>2. ASSUME NEW d \in Dirs, NEW limit \in 1..Len(Logs), Begin(b, d, limit)
      PROVE  OnlyBatch(b) /\ batch'[b].at # "waiting" /\ batch[b].at = "waiting"
  BY <1>1, <1>2 DEF Begin
<1>3. ASSUME NEW status, NEW rows, Done(b, status, rows)
      PROVE  /\ OnlyBatch(b) /\ batch'[b].at # "waiting"
             /\ batch'[b].dir = batch[b].dir /\ batch'[b].limit = batch[b].limit
  BY <1>1, <1>3 DEF Done
<1>4. ASSUME NEW at, at # "waiting", Goto(b, at)
      PROVE  /\ OnlyBatch(b) /\ batch'[b].at # "waiting"
             /\ batch'[b].dir = batch[b].dir /\ batch'[b].limit = batch[b].limit
  BY <1>1, <1>4 DEF Goto
<1>5. CASE GradePacket(b) \/ GradeInVain(b)
  BY <1>3, <1>5 DEF GradePacket, GradeInVain
<1>6. CASE WritePacket(b) \/ WriteManifest(b) \/ WriteMd(b)
  BY <1>4, <1>6 DEF WritePacket, WriteManifest, WriteMd
<1>7. CASE Load(b) \/ CountMisses(b)
  BY <1>1, <1>7 DEF Load, CountMisses
<1>8. CASE WriteJson(b)
  BY <1>1, <1>8 DEF WriteJson
<1>9. CASE Stop(b)
  BY <1>1, <1>9 DEF Stop
<1> QED  BY <1>2, <1>5, <1>6, <1>7, <1>8, <1>9 DEF BatchStep

LEMMA OrderStep == BatchesTyped /\ OrderInv /\ [Next]_vars => OrderInv'
<1> SUFFICES ASSUME BatchesTyped, OrderInv, [Next]_vars PROVE OrderInv'
  OBVIOUS
<1>1. ASSUME UNCHANGED <<batch, overlapped>> PROVE OrderInv'
  BY <1>1 DEF OrderInv, Begun, Running
<1>2. ASSUME NEW b \in Batches, BatchStep(b) PROVE OrderInv'
  <2> USE BatchAssumption
  <2>1. /\ OnlyBatch(b) /\ Begun(b)'
        /\ \A c \in Batches : Begun(c) => Begun(c)'
        /\ \A c \in Batches : Begun(c)' => Begun(c) \/ c = b
    BY <1>2, StepOf DEF OnlyBatch, Begun
  <2>2. CASE batch[b].at = "waiting"
    <3>1. /\ \A c \in Batches : c < b => Begun(c)
          /\ overlapped' = (overlapped \/ Running # {})
      BY <1>2, <2>2, StepOf DEF Begin, Begun
    <3>2. \A c \in Batches : Begun(c) => c <= b
      BY <2>2 DEF OrderInv, Begun
    <3>3. b \in Nat /\ \A c \in Batches : Begun(c)' => c <= b
      BY <2>1, <3>2
    <3>4. ~overlapped' => Running' = {b} \/ Running' = {}
      BY <2>1, <3>1 DEF Running, OnlyBatch
    <3> QED  BY <2>1, <3>1, <3>3, <3>4 DEF OrderInv
  <2>3. CASE batch[b].at # "waiting"
    <3>1. \A c \in Batches : Begun(c)' <=> Begun(c)
      BY <2>1, <2>3 DEF Begun
    <3>2. overlapped' = overlapped /\ Running' \subseteq Running
      BY <1>2, <2>1, <2>3, StepOf DEF Running, OnlyBatch
    <3> QED  BY <3>1, <3>2 DEF OrderInv
  <2> QED  BY <2>2, <2>3
<1> QED  BY <1>1, <1>2 DEF Next, Archive, Layer, vars

LEMMA Order == Spec => []OrderInv
<1>1. Init => OrderInv
  BY DEF Init, OrderInv, Begun, Running, Waiting
<1> QED  BY <1>1, OrderStep, BatchTypes, PTL DEF Spec
-----------------------------------------------------------------------------
(* Who writes to a directory *)

\* used[d] counts the batches that write to d, or wrote to what was copied.
UsedInv ==
    /\ used \in [AllDirs -> Nat]
    /\ \A d \in AllDirs : used[d] = 0 => runs[d] = NoRun
    /\ \A b \in Batches : Begun(b) => used[batch[b].dir] >= 1
    /\ \A b, c \in Batches :
          Begun(b) /\ Begun(c) /\ b # c /\ batch[b].dir = batch[c].dir =>
              used[batch[b].dir] >= 2

\* A batch changes nothing but its own directory, and nothing as it begins.
LEMMA OwnDir ==
    ASSUME BatchesTyped, RunsTyped, NEW b \in Batches, BatchStep(b)
    PROVE  /\ Begun(b) => OnlyRun(batch[b].dir)
           /\ ~Begun(b) => runs' = runs
<1>1. CASE UNCHANGED runs
  BY <1>1 DEF OnlyRun
<1>2. CASE WritePacket(b)
  <2>1. Begun(b) /\ OnlyRun(batch[b].dir)
    BY <1>2, PacketEffect, LastDone DEF WritePacket, Begun
  <2> QED  BY <2>1
<1>3. CASE GradePacket(b) \/ GradeInVain(b) \/ WriteManifest(b) \/ Stop(b)
  <2>1. Begun(b)
    BY <1>3 DEF GradePacket, GradeInVain, WriteManifest, Stop, Running, Begun
  <2>2. OnlyRun(batch[b].dir)
    BY <1>3, GradeEffect, InVainEffect, WriteManifestEffect, StopEffect
  <2> QED  BY <2>1, <2>2
<1> QED  BY <1>1, <1>2, <1>3 DEF BatchStep, Begin, Load, CountMisses,
            WriteMd, WriteJson

LEMMA UsedStep == BatchesTyped /\ RunsTyped /\ UsedInv /\ [Next]_vars => UsedInv'
<1> SUFFICES ASSUME BatchesTyped, RunsTyped, UsedInv, [Next]_vars PROVE UsedInv'
  OBVIOUS
<1>1. ASSUME UNCHANGED <<runs, used, batch>> PROVE UsedInv'
  BY <1>1 DEF UsedInv, Begun
<1>2. ASSUME NEW b \in Batches, NEW d \in Dirs, NEW limit \in 1..Len(Logs),
             Begin(b, d, limit)
      PROVE  UsedInv'
  <2>1. /\ used' = [used EXCEPT ![d] = @ + 1] /\ runs' = runs /\ ~Begun(b)
        /\ d \in AllDirs
    BY <1>2 DEF Begin, Begun, AllDirs
  <2>2. /\ used' \in [AllDirs -> Nat] /\ used'[d] = used[d] + 1
        /\ \A e \in AllDirs : e # d => used'[e] = used[e]
        /\ \A e \in AllDirs : used[e] \in Nat
    BY <2>1 DEF UsedInv
  <2>3. /\ batch'[b].dir = d
        /\ \A c \in Batches : c # b => batch'[c] = batch[c]
    <3>1. /\ batch = [c \in Batches |-> batch[c]]
          /\ batch[b] \in [at : Stages, dir : Dirs \cup {None}, limit : 0..Len(Logs),
              done : Seq(Outcome), seen : {batch[b].seen}, exit : {None, 0, 2}]
      BY BatchRecord
    <3> QED  BY <1>2, <3>1 DEF Begin
  <2>4. \A c \in Batches : Begun(c) => /\ batch[c].dir \in AllDirs
                                       /\ used[batch[c].dir] >= 1
    BY DirOf DEF UsedInv, Begun
  <2>5. \A c \in Batches : Begun(c)' /\ c # b => /\ Begun(c)
                                                 /\ batch'[c].dir = batch[c].dir
    BY <2>3 DEF Begun
  <2>6. ASSUME NEW c \in Batches, Begun(c)'
        PROVE  used'[batch'[c].dir] >= 1
    <3>1. CASE c = b
      BY <2>1, <2>2, <2>3, <3>1
    <3>2. CASE c # b
      BY <2>2, <2>4, <2>5, <2>6, <3>2
    <3> QED  BY <3>1, <3>2
  <2>7. ASSUME NEW a \in Batches, NEW c \in Batches, Begun(a)', Begun(c)', a # c,
               batch'[a].dir = batch'[c].dir
        PROVE  used'[batch'[a].dir] >= 2
    <3>1. CASE a = b \/ c = b
      <4>1. \E e \in Batches : Begun(e) /\ batch[e].dir = d
        BY <2>3, <2>5, <2>7, <3>1
      <4>2. used[d] >= 1
        BY <2>4, <4>1
      <4> QED  BY <2>1, <2>2, <2>3, <2>7, <3>1, <4>2
    <3>2. CASE a # b /\ c # b
      <4>1. /\ Begun(a) /\ Begun(c) /\ batch[a].dir = batch[c].dir
            /\ batch'[a].dir = batch[a].dir
        BY <2>5, <2>7, <3>2
      <4>2. used[batch[a].dir] >= 2 /\ batch[a].dir \in AllDirs
        BY <2>4, <2>7, <4>1 DEF UsedInv
      <4> QED  BY <2>2, <4>1, <4>2
    <3> QED  BY <3>1, <3>2
  <2>8. \A e \in AllDirs : used'[e] = 0 => runs'[e] = NoRun
    BY <2>1, <2>2 DEF UsedInv
  <2> QED  BY <2>2, <2>6, <2>7, <2>8 DEF UsedInv
<1>3. ASSUME NEW b \in Batches, BatchStep(b) PROVE UsedInv'
  <2>1. CASE Begun(b)
    <3>1. /\ used' = used /\ OnlyRun(batch[b].dir) /\ OnlyBatch(b)
          /\ batch'[b].dir = batch[b].dir /\ Begun(b)'
      BY <1>3, <2>1, StepOf, OwnDir DEF Begun
    <3>2. \A c \in Batches : /\ Begun(c)' <=> Begun(c)
                             /\ batch'[c].dir = batch[c].dir
      BY <2>1, <3>1 DEF Begun, OnlyBatch
    <3>3. used[batch[b].dir] >= 1
      BY <2>1 DEF UsedInv
    <3>4. \A e \in AllDirs : used[e] = 0 => e # batch[b].dir
      BY <3>3
    <3> QED  BY <3>1, <3>2, <3>4 DEF UsedInv, OnlyRun
  <2>2. CASE ~Begun(b)
    BY <1>2, <1>3, <2>2, StepOf DEF Begun
  <2> QED  BY <2>1, <2>2
<1>4. ASSUME NEW d \in Dirs, NEW c \in Copies, Archive(d, c) PROVE UsedInv'
  <2>1. /\ OnlyRun(c) /\ batch' = batch /\ HasManifest(runs, d)
        /\ used' = [used EXCEPT ![c] = used[d]]
    BY <1>4, ArchiveEffect DEF Archive
  <2>2. c \notin Dirs /\ d \in AllDirs /\ c \in AllDirs
    BY BatchAssumption DEF AllDirs
  <2>3. used[d] \in Nat /\ used[d] # 0
    BY <2>1, <2>2 DEF UsedInv, HasManifest, NoRun
  <2>4. /\ used' \in [AllDirs -> Nat] /\ used'[c] # 0
        /\ \A e \in AllDirs : e # c => used'[e] = used[e] /\ runs'[e] = runs[e]
    BY <2>1, <2>2, <2>3 DEF UsedInv, OnlyRun
  <2>5. \A b \in Batches : Begun(b) => batch[b].dir \in AllDirs /\ batch[b].dir # c
    BY <2>2, DirOf DEF Begun
  <2> QED  BY <2>1, <2>4, <2>5 DEF UsedInv, Begun
<1> QED  BY <1>1, <1>3, <1>4 DEF Next, Layer, vars

LEMMA Used == Spec => []UsedInv
<1>1. Init => UsedInv
  BY DEF Init, UsedInv, AllDirs, Begun, Waiting
<1> QED  BY <1>1, UsedStep, BatchTypes, RunTypes, PTL DEF Spec

\* An artifact cannot be read.
OneTorn(artifacts) == \E a \in artifacts : a.rows = Torn

\* The artifacts of b, if they can all be read: of each packet whose rows it
\* has, and perhaps of others without rows.
ArtifactsHold(artifacts, b, done) ==
    ~OneTorn(artifacts) =>
      \E K \in SUBSET DOMAIN done :
        /\ \A k \in DOMAIN done : done[k].rows # <<>> => k \in K
        /\ artifacts = {[id |-> <<b, k>>, rows |-> done[k].rows] : k \in K}

\* The files of the first n packets.
PacketsHold(packets, done, n) ==
    /\ DOMAIN packets = {done[k].slug : k \in 1..n}
    /\ \A s \in DOMAIN packets :
          \E k \in 1..n : done[k].slug = s /\ packets[s] = done[k]

\* All that b has written on its way to the manifest.
Draft(r, b, done, n) ==
    /\ r.manifest = None
    /\ ArtifactsHold(r.artifacts, b, done)
    /\ PacketsHold(r.packets, done, n)

Complete(r, b, done) ==
    /\ \E name \in Dirs : r.manifest = ManifestOf(name, b, done)
    /\ Graded(done)
    /\ ArtifactsHold(r.artifacts, b, done)
    /\ PacketsHold(r.packets, done, Len(done))

Writing(b) ==
    Draft(runs[batch[b].dir], b, batch[b].done,
          IF batch[b].at = "packet" THEN Len(batch[b].done) - 1
          ELSE Len(batch[b].done))

\* In a directory that one batch alone has written to, there is what that
\* batch has done so far; once there is a manifest, all of it.
WritersInv ==
    /\ \A b \in Batches :
          batch[b].at \in {"grade", "packet", "manifest"}
                  /\ used[batch[b].dir] = 1 => Writing(b)
    /\ \A d \in AllDirs : used[d] = 1 /\ HasManifest(runs, d) =>
          \E b \in Batches : \E done : Complete(runs[d], b, done)

\* Packet n is graded and its artifact written ...
LEMMA DraftGraded ==
    ASSUME NEW r, NEW b, NEW old \in Seq(Outcome), NEW new \in Seq(Outcome),
           NEW n \in Nat, Len(old) = n, Len(new) = n + 1,
           \A k \in DOMAIN old : new[k] = old[k],
           Draft(r, b, old, n), NEW q, q.manifest = r.manifest,
           q.packets = r.packets,
           q.artifacts = r.artifacts \cup {[id |-> <<b, n + 1>>, rows |-> new[n + 1].rows]}
    PROVE  Draft(q, b, new, n)
<1>1. DOMAIN old = 1..n /\ DOMAIN new = 1..(n + 1)
  OBVIOUS
<1>2. ArtifactsHold(q.artifacts, b, new)
  <2> SUFFICES ASSUME ~OneTorn(q.artifacts) PROVE ArtifactsHold(q.artifacts, b, new)
    BY DEF ArtifactsHold
  <2>1. ~OneTorn(r.artifacts)
    BY DEF OneTorn
  <2>2. PICK K \in SUBSET DOMAIN old :
          /\ \A k \in DOMAIN old : old[k].rows # <<>> => k \in K
          /\ r.artifacts = {[id |-> <<b, k>>, rows |-> old[k].rows] : k \in K}
    BY <2>1 DEF Draft, ArtifactsHold
  <2> DEFINE L == K \cup {n + 1}
  <2>3. /\ L \in SUBSET DOMAIN new
        /\ \A k \in DOMAIN new : k \in DOMAIN old \/ k = n + 1
    BY <1>1
  <2>4. \A k \in DOMAIN new : new[k].rows # <<>> => k \in L
    BY <2>2, <2>3
  <2>5. q.artifacts = {[id |-> <<b, k>>, rows |-> new[k].rows] : k \in L}
    BY <1>1, <2>2
  <2> HIDE DEF L
  <2> QED  BY <2>3, <2>4, <2>5 DEF ArtifactsHold
<1>3. \A k \in 1..n : new[k] = old[k]
  BY <1>1
<1>4. PacketsHold(q.packets, new, n)
  <2>1. {new[k].slug : k \in 1..n} = {old[k].slug : k \in 1..n}
    BY <1>3
  <2>2. PacketsHold(q.packets, old, n)
    BY DEF Draft
  <2> QED  BY <1>3, <2>1, <2>2 DEF PacketsHold
<1> QED  BY <1>2, <1>4 DEF Draft

\* ... or it has no rows, and no artifact or a torn one.
LEMMA DraftInVain ==
    ASSUME NEW r, NEW b, NEW old \in Seq(Outcome), NEW new \in Seq(Outcome),
           NEW n \in Nat, Len(old) = n, Len(new) = n + 1,
           \A k \in DOMAIN old : new[k] = old[k],
           new[n + 1].rows = <<>>, Draft(r, b, old, n),
           NEW q, q.manifest = r.manifest, q.packets = r.packets,
           q.artifacts = r.artifacts \/ OneTorn(q.artifacts)
    PROVE  Draft(q, b, new, n)
<1>1. DOMAIN old = 1..n /\ DOMAIN new = 1..(n + 1)
  OBVIOUS
<1>2. ArtifactsHold(q.artifacts, b, new)
  <2> SUFFICES ASSUME ~OneTorn(q.artifacts) PROVE ArtifactsHold(q.artifacts, b, new)
    BY DEF ArtifactsHold
  <2>1. q.artifacts = r.artifacts /\ ~OneTorn(r.artifacts)
    OBVIOUS
  <2>2. PICK K \in SUBSET DOMAIN old :
          /\ \A k \in DOMAIN old : old[k].rows # <<>> => k \in K
          /\ r.artifacts = {[id |-> <<b, k>>, rows |-> old[k].rows] : k \in K}
    BY <2>1 DEF Draft, ArtifactsHold
  <2>3. /\ K \in SUBSET DOMAIN new
        /\ \A k \in DOMAIN new : k \in DOMAIN old \/ k = n + 1
    BY <1>1
  <2>4. \A k \in DOMAIN new : new[k].rows # <<>> => k \in K
    BY <2>2, <2>3
  <2>5. q.artifacts = {[id |-> <<b, k>>, rows |-> new[k].rows] : k \in K}
    BY <1>1, <2>1, <2>2
  <2> QED  BY <2>3, <2>4, <2>5 DEF ArtifactsHold
<1>3. \A k \in 1..n : new[k] = old[k]
  BY <1>1
<1>4. PacketsHold(q.packets, new, n)
  <2>1. {new[k].slug : k \in 1..n} = {old[k].slug : k \in 1..n}
    BY <1>3
  <2>2. PacketsHold(q.packets, old, n)
    BY DEF Draft
  <2> QED  BY <1>3, <2>1, <2>2 DEF PacketsHold
<1> QED  BY <1>2, <1>4 DEF Draft

\* Its file is written.
LEMMA DraftPacket ==
    ASSUME NEW r, NEW b, NEW done \in Seq(Outcome), NEW n \in Nat,
           Len(done) = n + 1, Draft(r, b, done, n),
           NEW q, q.manifest = r.manifest, q.artifacts = r.artifacts,
           q.packets = [s \in DOMAIN r.packets \cup {done[n + 1].slug} |->
                           IF s = done[n + 1].slug THEN done[n + 1]
                           ELSE r.packets[s]]
    PROVE  Draft(q, b, done, n + 1)
<1>1. 1..(n + 1) = 1..n \cup {n + 1}
  OBVIOUS
<1>2. PacketsHold(r.packets, done, n)
  BY DEF Draft
<1>3. DOMAIN q.packets = {done[k].slug : k \in 1..(n + 1)}
  BY <1>1, <1>2 DEF PacketsHold
<1>4. ASSUME NEW s \in DOMAIN q.packets
      PROVE  \E k \in 1..(n + 1) : done[k].slug = s /\ q.packets[s] = done[k]
  <2>1. CASE s = done[n + 1].slug
    BY <1>1, <2>1
  <2>2. CASE s # done[n + 1].slug
    BY <1>1, <1>2, <2>2 DEF PacketsHold
  <2> QED  BY <2>1, <2>2
<1>5. PacketsHold(q.packets, done, n + 1)
  BY <1>3, <1>4 DEF PacketsHold
<1> QED  BY <1>5 DEF Draft

\* A step of b disturbs no other writer, and no other directory.
LEMMA OtherWriters ==
    ASSUME BatchesTyped, RunsTyped, UsedInv, WritersInv, NEW b \in Batches,
           Begun(b), BatchStep(b),
           NEW d \in Dirs, d = batch[b].dir,
           used[d] = 1 /\ batch'[b].at \in {"grade", "packet", "manifest"} =>
               Draft(runs'[d], b, batch'[b].done,
                     IF batch'[b].at = "packet" THEN Len(batch'[b].done) - 1
                     ELSE Len(batch'[b].done)),
           used[d] = 1 /\ runs'[d].manifest \notin {None, Torn} =>
               \E c \in Batches : \E done : Complete(runs'[d], c, done)
    PROVE  WritersInv'
<1>1. /\ used' = used /\ OnlyRun(d) /\ OnlyBatch(b) /\ batch'[b].dir = d
      /\ d \in AllDirs
  BY StepOf, OwnDir, DirOf DEF Begun
<1>2. ASSUME NEW c \in Batches, c # b,
             batch'[c].at \in {"grade", "packet", "manifest"},
             used'[batch'[c].dir] = 1
      PROVE  Writing(c)'
  <2>1. batch'[c] = batch[c]
    BY <1>1, <1>2 DEF OnlyBatch
  <2>2. Begun(c) /\ batch[c].dir \in AllDirs /\ used[batch[c].dir] = 1
    BY <1>1, <1>2, <2>1, DirOf DEF Begun
  <2>3. batch[c].dir # d
    BY <1>2, <2>2 DEF UsedInv
  <2>4. runs'[batch[c].dir] = runs[batch[c].dir]
    BY <1>1, <2>2, <2>3 DEF OnlyRun
  <2>5. Writing(c)
    BY <1>2, <2>1, <2>2 DEF WritersInv
  <2> QED  BY <2>1, <2>4, <2>5 DEF Writing
<1>3. ASSUME batch'[b].at \in {"grade", "packet", "manifest"},
             used'[batch'[b].dir] = 1
      PROVE  Writing(b)'
  BY <1>1, <1>3 DEF Writing
<1>4. ASSUME NEW e \in AllDirs, used'[e] = 1, HasManifest(runs, e)'
      PROVE  \E c \in Batches : \E done : Complete(runs'[e], c, done)
  BY <1>1, <1>4 DEF OnlyRun, WritersInv, HasManifest
<1> QED  BY <1>2, <1>3, <1>4 DEF WritersInv

\* Nothing is written to the directories by what is no writing.
LEMMA NoWriter ==
    ASSUME BatchesTyped, RunsTyped, UsedInv, WritersInv, NEW b \in Batches,
           Begun(b), BatchStep(b), runs' = runs,
           batch'[b].at \notin {"grade", "packet", "manifest"}
    PROVE  WritersInv'
<1>1. PICK d \in Dirs : d = batch[b].dir /\ d \in AllDirs
  BY DirOf DEF Begun
<1>2. used[d] = 1 /\ runs'[d].manifest \notin {None, Torn} =>
          \E c \in Batches : \E done : Complete(runs'[d], c, done)
  BY <1>1 DEF WritersInv, HasManifest
<1> QED  BY <1>1, <1>2, OtherWriters

LEMMA WritersBegin ==
    ASSUME BatchesTyped, RunsTyped, UsedInv, WritersInv, NEW b \in Batches,
           NEW d \in Dirs, NEW limit \in 1..Len(Logs), Begin(b, d, limit)
    PROVE  WritersInv'
<1>1. /\ used' = [used EXCEPT ![d] = @ + 1] /\ runs' = runs /\ ~Begun(b)
      /\ d \in AllDirs
  BY DEF Begin, Begun, AllDirs
<1>2. /\ used'[d] = used[d] + 1 /\ used[d] \in Nat
      /\ \A e \in AllDirs : e # d => used'[e] = used[e]
  BY <1>1 DEF UsedInv
<1>3. /\ batch'[b].dir = d /\ batch'[b].at = "grade"
      /\ batch'[b].done = <<>>
      /\ \A c \in Batches : c # b => batch'[c] = batch[c]
  <2>1. /\ batch = [c \in Batches |-> batch[c]]
        /\ batch[b] \in [at : Stages, dir : Dirs \cup {None}, limit : 0..Len(Logs),
              done : Seq(Outcome), seen : {batch[b].seen}, exit : {None, 0, 2}]
        /\ batch[b].done = <<>>
    BY <1>1 DEF BatchesTyped, BatchOK, Begun
  <2> QED  BY <2>1 DEF Begin
<1>4. ASSUME NEW c \in Batches, c # b,
             batch'[c].at \in {"grade", "packet", "manifest"},
             used'[batch'[c].dir] = 1
      PROVE  Writing(c)'
  <2>1. batch'[c] = batch[c]
    BY <1>3, <1>4
  <2>2. Begun(c) /\ batch[c].dir \in AllDirs /\ used[batch[c].dir] >= 1
    BY <1>4, <2>1, DirOf DEF Begun, UsedInv
  <2>3. batch[c].dir # d
    BY <1>2, <1>4, <2>1, <2>2
  <2>4. Writing(c)
    BY <1>2, <1>4, <2>1, <2>2, <2>3 DEF WritersInv
  <2> QED  BY <1>1, <2>1, <2>4 DEF Writing
<1>5. ASSUME used'[d] = 1 PROVE Writing(b)'
  <2>1. runs'[d] = NoRun
    BY <1>1, <1>2, <1>5 DEF UsedInv
  <2>2. ArtifactsHold({}, b, <<>>)
    <3>1. {} \in SUBSET DOMAIN <<>> /\ DOMAIN <<>> = {}
      OBVIOUS
    <3> QED  BY <3>1 DEF ArtifactsHold
  <2>3. PacketsHold(<<>>, <<>>, 0)
    <3>1. DOMAIN <<>> = {} /\ 1..0 = {}
      OBVIOUS
    <3> QED  BY <3>1 DEF PacketsHold
  <2>4. Draft(NoRun, b, <<>>, 0)
    BY <2>2, <2>3 DEF Draft, NoRun
  <2>5. Len(<<>>) = 0
    OBVIOUS
  <2> QED  BY <1>3, <2>1, <2>4, <2>5 DEF Writing
<1>6. ASSUME NEW e \in AllDirs, used'[e] = 1, HasManifest(runs, e)'
      PROVE  \E c \in Batches : \E done : Complete(runs'[e], c, done)
  <2>1. used[e] # 0
    BY <1>1, <1>6 DEF UsedInv, HasManifest, NoRun
  <2>2. used[e] = 1
    BY <1>2, <1>6, <2>1
  <2> QED  BY <1>1, <1>6, <2>2 DEF WritersInv, HasManifest
<1> QED  BY <1>3, <1>4, <1>5, <1>6 DEF WritersInv

LEMMA WritersGrade ==
    ASSUME BatchesTyped, RunsTyped, UsedInv, WritersInv, NEW b \in Batches,
           GradePacket(b) \/ GradeInVain(b)
    PROVE  WritersInv'
<1>1. /\ batch[b].at = "grade" /\ Begun(b)
  BY DEF GradePacket, GradeInVain, Begun
<1>2. PICK d \in Dirs : d = batch[b].dir /\ d \in AllDirs
  BY <1>1, DirOf
<1>3. BatchStep(b)
  BY DEF BatchStep
<1> DEFINE old == batch[b].done
           n == Len(old)
<1>4. old \in Seq(Outcome) /\ n \in Nat
  BY DEF BatchesTyped, BatchOK
<1>5. batch'[b].at = "packet"
  <2>1. /\ batch = [c \in Batches |-> batch[c]]
        /\ batch[b] \in [at : Stages, dir : Dirs \cup {None}, limit : 0..Len(Logs),
              done : Seq(Outcome), seen : {batch[b].seen}, exit : {None, 0, 2}]
    BY BatchRecord
  <2>2. \E status, rows : Done(b, status, rows)
    BY DEF GradePacket, GradeInVain
  <2> QED  BY <2>1, <2>2 DEF Done
<1>6. used[d] = 1 => Draft(runs[d], b, old, n)
  BY <1>1, <1>2 DEF WritersInv, Writing
<1>7. CASE GradePacket(b)
  <2> DEFINE new == batch'[b].done
  <2>1. /\ runs'[d].manifest = runs[d].manifest
        /\ runs'[d].packets = runs[d].packets
        /\ runs'[d].artifacts = runs[d].artifacts \cup
              {[id |-> <<b, n + 1>>, rows |-> new[n + 1].rows]}
        /\ new \in Seq(Outcome) /\ Len(new) = n + 1
        /\ \A k \in DOMAIN old : new[k] = old[k]
    BY <1>2, <1>7, GradeEffect DEF Graded
  <2>2. used[d] = 1 => Draft(runs'[d], b, new, n)
    BY <1>4, <1>6, <2>1, DraftGraded
  <2>3. Len(new) - 1 = n
    BY <1>4, <2>1
  <2>4. used[d] = 1 => runs'[d].manifest = None
    BY <1>6, <2>1 DEF Draft
  <2> QED  BY <1>1, <1>2, <1>3, <1>5, <2>2, <2>3, <2>4, OtherWriters
<1>8. CASE GradeInVain(b)
  <2> DEFINE new == batch'[b].done
  <2>1. \E status \in {"ok", "error"} : Done(b, status, <<>>)
    BY <1>8 DEF GradeInVain
  <2>2. <<>> \in Seq(Row)
    OBVIOUS
  <2>3. /\ new \in Seq(Outcome) /\ Len(new) = n + 1 /\ new[n + 1].rows = <<>>
        /\ \A k \in DOMAIN old : new[k] = old[k]
    BY <1>1, <2>1, <2>2, DoneGraded DEF Graded
  <2>4. /\ runs'[d].manifest = runs[d].manifest
        /\ runs'[d].packets = runs[d].packets
        /\ runs'[d].artifacts = runs[d].artifacts \/ OneTorn(runs'[d].artifacts)
    BY <1>2, <1>8, InVainEffect DEF OneTorn
  <2>5. used[d] = 1 => Draft(runs'[d], b, new, n)
    BY <1>4, <1>6, <2>3, <2>4, DraftInVain
  <2>6. Len(new) - 1 = n
    BY <1>4, <2>3
  <2>7. used[d] = 1 => runs'[d].manifest = None
    BY <1>6, <2>4 DEF Draft
  <2> QED  BY <1>1, <1>2, <1>3, <1>5, <2>4, <2>5, <2>6, <2>7, OtherWriters
<1> QED  BY <1>7, <1>8

LEMMA WritersPacket ==
    ASSUME BatchesTyped, RunsTyped, UsedInv, WritersInv, NEW b \in Batches,
           WritePacket(b)
    PROVE  WritersInv'
<1>1. batch[b].at = "packet" /\ Begun(b) /\ BatchStep(b)
  BY DEF WritePacket, Begun, BatchStep
<1>2. PICK d \in Dirs : d = batch[b].dir /\ d \in AllDirs
  BY <1>1, DirOf
<1> DEFINE done == batch[b].done
<1>3. PICK n \in Nat : /\ Len(done) = n + 1 /\ done \in Seq(Outcome)
                       /\ Last(done) = done[n + 1]
  <2>1. done \in Seq(Outcome) /\ Len(done) > 0 /\ Last(done) = done[Len(done)]
    BY <1>1, LastDone DEF BatchesTyped, BatchOK
  <2>2. Len(done) - 1 \in Nat /\ Len(done) = (Len(done) - 1) + 1
    BY <2>1
  <2> QED  BY <2>1, <2>2
<1>4. /\ batch'[b].at # "packet" /\ batch'[b].done = done
  <2>1. /\ batch = [c \in Batches |-> batch[c]]
        /\ batch[b] \in [at : Stages, dir : Dirs \cup {None}, limit : 0..Len(Logs),
              done : Seq(Outcome), seen : {batch[b].seen}, exit : {None, 0, 2}]
    BY BatchRecord
  <2> QED  BY <2>1 DEF WritePacket, Goto
<1>5. /\ runs'[d].manifest = runs[d].manifest
      /\ runs'[d].artifacts = runs[d].artifacts
      /\ runs'[d].packets =
            [s \in DOMAIN runs[d].packets \cup {done[n + 1].slug} |->
                IF s = done[n + 1].slug THEN done[n + 1] ELSE runs[d].packets[s]]
  <2>1. Last(done) \in Outcome /\ runs' = PacketFile(b, Last(done))
    BY <1>1, LastDone DEF WritePacket
  <2>2. LET last == Last(done).slug
            old  == runs[d].packets
        IN /\ runs'[d].packets = [s \in DOMAIN old \cup {last} |->
                                     IF s = last THEN Last(done) ELSE old[s]]
           /\ runs'[d].manifest = runs[d].manifest
           /\ runs'[d].artifacts = runs[d].artifacts
    BY <1>1, <1>2, <2>1, PacketEffect
  <2> QED  BY <1>3, <2>2
<1>6. used[d] = 1 => Draft(runs[d], b, done, n)
  <2>1. Len(done) - 1 = n
    BY <1>3
  <2> QED  BY <1>1, <1>2, <2>1 DEF WritersInv, Writing
<1>7. used[d] = 1 => Draft(runs'[d], b, done, n + 1)
  BY <1>3, <1>5, <1>6, DraftPacket
<1>8. used[d] = 1 => runs'[d].manifest = None
  BY <1>5, <1>6 DEF Draft
<1> QED  BY <1>1, <1>2, <1>3, <1>4, <1>7, <1>8, OtherWriters

LEMMA WritersManifest ==
    ASSUME BatchesTyped, RunsTyped, UsedInv, WritersInv, NEW b \in Batches,
           WriteManifest(b)
    PROVE  WritersInv'
<1>1. batch[b].at = "manifest" /\ Begun(b) /\ BatchStep(b)
  BY DEF WriteManifest, Begun, BatchStep
<1>2. PICK d \in Dirs : d = batch[b].dir /\ d \in AllDirs
  BY <1>1, DirOf
<1> DEFINE done == batch[b].done
<1>3. batch'[b].at = "load"
  <2>1. /\ batch = [c \in Batches |-> batch[c]]
        /\ batch[b] \in [at : Stages, dir : Dirs \cup {None}, limit : 0..Len(Logs),
              done : Seq(Outcome), seen : {batch[b].seen}, exit : {None, 0, 2}]
    BY BatchRecord
  <2> QED  BY <2>1 DEF WriteManifest, Goto
<1>4. /\ runs'[d].manifest = ManifestOf(d, b, done)
      /\ runs'[d].packets = runs[d].packets
      /\ runs'[d].artifacts = runs[d].artifacts
  BY <1>2, WriteManifestEffect
<1>5. used[d] = 1 => Draft(runs[d], b, done, Len(done))
  BY <1>1, <1>2 DEF WritersInv, Writing
<1>6. Graded(done)
  BY DEF BatchesTyped, BatchOK
<1>7. used[d] = 1 => Complete(runs'[d], b, done)
  BY <1>4, <1>5, <1>6 DEF Draft, Complete
<1> QED  BY <1>1, <1>2, <1>3, <1>7, OtherWriters

LEMMA WritersStop ==
    ASSUME BatchesTyped, RunsTyped, UsedInv, WritersInv, NEW b \in Batches,
           Stop(b)
    PROVE  WritersInv'
<1>1. batch[b].at # "waiting" /\ Begun(b) /\ BatchStep(b)
  BY DEF Stop, Running, Begun, BatchStep
<1>2. PICK d \in Dirs : d = batch[b].dir /\ d \in AllDirs
  BY <1>1, DirOf
<1>3. batch'[b].at = "ended"
  <2>1. /\ batch = [c \in Batches |-> batch[c]]
        /\ batch[b] \in [at : Stages, dir : Dirs \cup {None}, limit : 0..Len(Logs),
              done : Seq(Outcome), seen : {batch[b].seen}, exit : {None, 0, 2}]
    BY BatchRecord
  <2> QED  BY <2>1 DEF Stop
<1>4. CASE batch[b].at \in {"grade", "packet", "manifest"}
  <2>1. used[d] = 1 => runs[d].manifest = None
    BY <1>2, <1>4 DEF WritersInv, Writing, Draft
  <2>2. runs'[d].manifest \in {runs[d].manifest, Torn}
    BY <1>2, StopEffect
  <2> QED  BY <1>1, <1>2, <1>3, <2>1, <2>2, OtherWriters
<1>5. CASE batch[b].at \notin {"grade", "packet", "manifest"}
  <2>1. runs' = runs
    BY <1>5, StopEffect
  <2> QED  BY <1>1, <1>3, <2>1, NoWriter
<1> QED  BY <1>4, <1>5

LEMMA WritersStep ==
    BatchesTyped /\ RunsTyped /\ UsedInv /\ WritersInv /\ [Next]_vars => WritersInv'
<1> SUFFICES ASSUME BatchesTyped, RunsTyped, UsedInv, WritersInv, [Next]_vars
             PROVE  WritersInv'
  OBVIOUS
<1>1. ASSUME UNCHANGED <<runs, used, batch>> PROVE WritersInv'
  BY <1>1 DEF WritersInv, Writing, HasManifest
<1>2. ASSUME NEW b \in Batches, Load(b) \/ CountMisses(b) \/ WriteMd(b) \/ WriteJson(b)
      PROVE  WritersInv'
  <2>1. Begun(b) /\ BatchStep(b) /\ runs' = runs
    BY <1>2 DEF Load, CountMisses, WriteMd, WriteJson, Begun, BatchStep
  <2>2. batch'[b].at \in {"misses", "md", "json", "ended"}
    <3>1. /\ batch = [c \in Batches |-> batch[c]]
          /\ batch[b] \in [at : Stages, dir : Dirs \cup {None}, limit : 0..Len(Logs),
                done : Seq(Outcome), seen : {batch[b].seen}, exit : {None, 0, 2}]
      BY BatchRecord
    <3>2. CASE Load(b) \/ CountMisses(b)
      BY <3>1, <3>2 DEF Load, CountMisses
    <3>3. CASE WriteMd(b)
      BY <3>1, <3>3 DEF WriteMd, Goto
    <3>4. CASE WriteJson(b)
      BY <3>1, <3>4 DEF WriteJson
    <3> QED  BY <1>2, <3>2, <3>3, <3>4
  <2> QED  BY <2>1, <2>2, NoWriter
<1>3. ASSUME NEW b \in Batches, BatchStep(b) PROVE WritersInv'
  BY <1>2, <1>3, WritersBegin, WritersGrade, WritersPacket, WritersManifest,
     WritersStop DEF BatchStep
<1>4. ASSUME NEW d \in Dirs, NEW c \in Copies, Archive(d, c) PROVE WritersInv'
  <2>1. /\ OnlyRun(c) /\ runs'[c] = runs[d] /\ batch' = batch /\ HasManifest(runs, d)
        /\ used' = [used EXCEPT ![c] = used[d]]
    BY <1>4, ArchiveEffect DEF Archive
  <2>2. c \notin Dirs /\ d \in AllDirs /\ c \in AllDirs
    BY BatchAssumption DEF AllDirs
  <2>3. /\ used'[c] = used[d]
        /\ \A e \in AllDirs : e # c => used'[e] = used[e] /\ runs'[e] = runs[e]
    BY <2>1, <2>2 DEF UsedInv, OnlyRun
  <2>4. ASSUME NEW b \in Batches, batch'[b].at \in {"grade", "packet", "manifest"},
               used'[batch'[b].dir] = 1
        PROVE  Writing(b)'
    <3>1. batch[b].dir \in AllDirs /\ batch[b].dir # c
      BY <2>1, <2>2, <2>4, DirOf
    <3>2. Writing(b)
      BY <2>1, <2>3, <2>4, <3>1 DEF WritersInv
    <3> QED  BY <2>1, <2>3, <3>1, <3>2 DEF Writing
  <2>5. ASSUME NEW e \in AllDirs, used'[e] = 1, HasManifest(runs, e)'
        PROVE  \E b \in Batches : \E done : Complete(runs'[e], b, done)
    <3>1. CASE e = c
      BY <2>1, <2>2, <2>3, <2>5, <3>1 DEF WritersInv
    <3>2. CASE e # c
      BY <2>3, <2>5, <3>2 DEF WritersInv, HasManifest
    <3> QED  BY <3>1, <3>2
  <2> QED  BY <2>4, <2>5 DEF WritersInv
<1> QED  BY <1>1, <1>3, <1>4 DEF Next, Layer, vars

LEMMA Writers == Spec => []WritersInv
<1>1. Init => WritersInv
  BY DEF Init, WritersInv, Waiting, AllDirs
<1> QED  BY <1>1, WritersStep, BatchTypes, RunTypes, Used, PTL DEF Spec
-----------------------------------------------------------------------------
(* The dashboard *)

\* A manifest in a run directory names it, and is of a batch that has begun.
NamesInv ==
    \A d \in AllDirs : HasManifest(runs, d) =>
        /\ d \in Dirs => runs[d].manifest.name = d
        /\ runs[d].manifest.started \in Batches
        /\ Begun(runs[d].manifest.started)

LEMMA NamesStep == BatchesTyped /\ RunsTyped /\ NamesInv /\ [Next]_vars => NamesInv'
<1> SUFFICES ASSUME BatchesTyped, RunsTyped, NamesInv, [Next]_vars PROVE NamesInv'
  OBVIOUS
<1> DEFINE Ok(e) == HasManifest(runs, e) =>
                        /\ e \in Dirs => runs[e].manifest.name = e
                        /\ runs[e].manifest.started \in Batches
                        /\ Begun(runs[e].manifest.started)
<1>1. ASSUME \A c \in Batches : Begun(c) => Begun(c)',
             NEW e \in AllDirs, runs'[e].manifest \in {runs[e].manifest, Torn}
      PROVE  Ok(e)'
  BY <1>1 DEF NamesInv, HasManifest
<1>2. ASSUME NEW b \in Batches, BatchStep(b) PROVE NamesInv'
  <2>1. OnlyBatch(b) /\ Begun(b)' /\ \A c \in Batches : Begun(c) => Begun(c)'
    BY <1>2, StepOf DEF OnlyBatch, Begun
  <2>2. CASE WriteManifest(b)
    <3>1. PICK d \in Dirs : /\ OnlyRun(d)
                           /\ runs'[d].manifest = ManifestOf(d, b, batch[b].done)
      BY <2>2, WriteManifestEffect, DirOf DEF WriteManifest
    <3>2. runs'[d].manifest.name = d /\ runs'[d].manifest.started = b
      BY <3>1 DEF ManifestOf
    <3>3. Ok(d)'
      BY <2>1, <3>1, <3>2 DEF Begun
    <3>4. \A e \in AllDirs : e # d => Ok(e)'
      BY <1>1, <2>1, <3>1 DEF OnlyRun
    <3> QED  BY <3>3, <3>4 DEF NamesInv
  <2>3. CASE ~WriteManifest(b)
    <3>1. ASSUME NEW d \in AllDirs, OnlyRun(d),
                 runs'[d].manifest \in {runs[d].manifest, Torn}
          PROVE  NamesInv'
      BY <1>1, <2>1, <3>1 DEF OnlyRun, NamesInv
    <3>2. ASSUME UNCHANGED runs PROVE NamesInv'
      BY <1>1, <2>1, <3>2 DEF NamesInv
    <3>3. CASE GradePacket(b) \/ GradeInVain(b)
      BY <3>1, <3>3, GradeEffect, InVainEffect, DirOf DEF GradePacket, GradeInVain
    <3>4. CASE WritePacket(b)
      BY <3>1, <3>4, PacketEffect, LastDone, DirOf DEF WritePacket
    <3>5. CASE Stop(b)
      BY <3>1, <3>5, StopEffect, DirOf DEF Stop, Running
    <3> QED  BY <1>2, <2>3, <3>2, <3>3, <3>4, <3>5
             DEF BatchStep, Begin, Load, CountMisses, WriteMd, WriteJson
  <2> QED  BY <2>2, <2>3
<1>3. ASSUME NEW d \in Dirs, NEW c \in Copies, Archive(d, c) PROVE NamesInv'
  <2>1. OnlyRun(c) /\ runs'[c] = runs[d] /\ batch' = batch /\ HasManifest(runs, d)
    BY <1>3, ArchiveEffect DEF Archive
  <2>2. c \notin Dirs /\ d \in AllDirs /\ c \in AllDirs
    BY BatchAssumption DEF AllDirs
  <2>3. Ok(c)'
    BY <2>1, <2>2 DEF NamesInv, Begun, HasManifest
  <2>4. \A e \in AllDirs : e # c => Ok(e)'
    BY <1>1, <2>1 DEF OnlyRun, Begun
  <2> QED  BY <2>3, <2>4 DEF NamesInv
<1>4. ASSUME UNCHANGED <<runs, batch>> PROVE NamesInv'
  BY <1>4 DEF NamesInv, HasManifest, Begun
<1> QED  BY <1>2, <1>3, <1>4 DEF Next, Layer, vars

LEMMA Names == Spec => []NamesInv
<1>1. Init => NamesInv
  BY DEF Init, NamesInv, NoRun, HasManifest, AllDirs
<1> QED  BY <1>1, NamesStep, BatchTypes, RunTypes, PTL DEF Spec

\* Of the directories whose manifests bear one name, the dashboard shows one.
LEMMA LoadChoice ==
    ASSUME RunsTyped, OrderInv, NamesInv
    PROVE  LET L == LoadManifests(runs, DOMAIN runs) IN
           /\ \A e \in L : e \in AllDirs /\ HasManifest(runs, e)
           /\ \A d \in Dirs : HasManifest(runs, d) => d \in L
           /\ \A e, f \in L :
                 runs[e].manifest.name = runs[f].manifest.name => e = f
<1> DEFINE ds == {d \in AllDirs : HasManifest(runs, d)}
           names == {runs[d].manifest.name : d \in ds}
           At(n) == Named(runs, ds, n)
           Pick(n) == Canonical(runs, ds, n)
<1>1. DOMAIN runs = AllDirs
  BY DEF RunsTyped
<1>2. LoadManifests(runs, DOMAIN runs) = {Pick(n) : n \in names}
  BY <1>1 DEF LoadManifests
<1>3. ASSUME NEW n \in names PROVE Pick(n) \in At(n)
  <2>1. CASE n \in At(n)
    BY <2>1 DEF Canonical
  <2>2. CASE n \notin At(n)
    <3> DEFINE T == {runs[d].manifest.started : d \in At(n)}
    <3>1. At(n) # {} /\ \A d \in At(n) : d \in ds
      BY DEF Named
    <3>2. \A d \in At(n) : runs[d].manifest.started \in Batches
                           /\ Begun(runs[d].manifest.started)
      BY <3>1 DEF NamesInv
    <3>3. PICK m \in Nat : \A t \in T : t \in Nat /\ t <= m
      <4>1. PICK m \in Nat : \A c \in Batches : Begun(c) => c <= m
        BY DEF OrderInv
      <4> QED  BY <3>2, <4>1, BatchAssumption
    <3>4. \E t \in T : \A u \in T : u <= t
      <4>1. T # {}
        BY <3>1
      <4> HIDE DEF T
      <4> QED  BY <3>3, <4>1, GreatestNat
    <3>5. \E d \in At(n) : \A e \in At(n) :
              runs[e].manifest.started <= runs[d].manifest.started
      BY <3>4
    <3> QED  BY <2>2, <3>5 DEF Canonical
  <2> QED  BY <2>1, <2>2
<1>4. \A n \in names : Pick(n) \in ds /\ runs[Pick(n)].manifest.name = n
  BY <1>3 DEF Named
<1>5. ASSUME NEW d \in Dirs, HasManifest(runs, d)
      PROVE  d \in {Pick(n) : n \in names}
  <2>1. d \in ds /\ runs[d].manifest.name = d
    BY <1>5 DEF NamesInv, AllDirs
  <2>2. Pick(d) = d /\ d \in names
    BY <2>1 DEF Canonical, Named
  <2> QED  BY <2>2
<1>6. ASSUME NEW n \in names, NEW k \in names,
             runs[Pick(n)].manifest.name = runs[Pick(k)].manifest.name
      PROVE  Pick(n) = Pick(k)
  BY <1>4, <1>6
<1> HIDE DEF Pick, names
<1> QED  BY <1>2, <1>4, <1>5, <1>6

\* What Load and CountMisses make of the entries.
LEMMA LoadEffect ==
    ASSUME BatchesTyped, NEW b \in Batches, Load(b)
    PROVE  /\ batch'[b].at = "misses" /\ batch'[b].exit = batch[b].exit
           /\ batch'[b].seen = {[dir |-> d, manifest |-> runs[d].manifest,
                                 misses |-> None] :
                                   d \in LoadManifests(runs, DOMAIN runs)}
<1> DEFINE S == {[dir |-> d, manifest |-> runs[d].manifest, misses |-> None] :
                    d \in LoadManifests(runs, DOMAIN runs)}
<1>1. batch' = [batch EXCEPT ![b].at = "misses", ![b].seen = S]
  BY DEF Load
<1> HIDE DEF S
<1>2. /\ batch'[b].at = "misses" /\ batch'[b].exit = batch[b].exit
      /\ batch'[b].seen = S
  BY <1>1, BatchRecord
<1> QED  BY <1>2 DEF S

LEMMA CountEffect ==
    ASSUME BatchesTyped, NEW b \in Batches, CountMisses(b)
    PROVE  /\ batch'[b].at = "md" /\ batch'[b].exit = batch[b].exit
           /\ batch'[b].seen = {[x EXCEPT !.misses = Misses(runs[x.dir].artifacts)] :
                                   x \in batch[b].seen}
<1> DEFINE S == {[x EXCEPT !.misses = Misses(runs[x.dir].artifacts)] :
                    x \in batch[b].seen}
<1>1. batch' = [batch EXCEPT ![b].at = "md", ![b].seen = S]
  BY DEF CountMisses
<1> HIDE DEF S
<1>2. /\ batch'[b].at = "md" /\ batch'[b].exit = batch[b].exit
      /\ batch'[b].seen = S
  BY <1>1, BatchRecord
<1> QED  BY <1>2 DEF S

\* The stages of the dashboard, and what they leave alone.
LEMMA BoardEffect ==
    ASSUME BatchesTyped, NEW b \in Batches
    PROVE  /\ WriteMd(b) => /\ batch'[b].at = "json"
                            /\ batch'[b].seen = batch[b].seen
                            /\ batch'[b].exit = batch[b].exit
           /\ WriteJson(b) => batch'[b].at = "ended"
           /\ Stop(b) => batch'[b].at = "ended" /\ batch'[b].exit = batch[b].exit
           /\ GradePacket(b) \/ GradeInVain(b) \/ WritePacket(b) \/ WriteManifest(b) =>
                 /\ batch'[b].at \in {"grade", "packet", "manifest", "load"}
                 /\ batch'[b].exit = batch[b].exit
<1>1. /\ batch = [c \in Batches |-> batch[c]]
      /\ batch[b] \in [at : Stages, dir : Dirs \cup {None}, limit : 0..Len(Logs),
            done : Seq(Outcome), seen : {batch[b].seen}, exit : {None, 0, 2}]
  BY BatchRecord
<1>2. ASSUME NEW at, Goto(b, at)
      PROVE  /\ batch'[b].at = at /\ batch'[b].seen = batch[b].seen
             /\ batch'[b].exit = batch[b].exit
  BY <1>1, <1>2 DEF Goto
<1>3. ASSUME NEW status, NEW rows, Done(b, status, rows)
      PROVE  batch'[b].at = "packet" /\ batch'[b].exit = batch[b].exit
  BY <1>1, <1>3 DEF Done
<1>4. WriteJson(b) => batch'[b].at = "ended"
  <2>1. WriteJson(b) => \E code :
          batch' = [batch EXCEPT ![b] = [@ EXCEPT !.at = "ended", !.seen = {},
                                                  !.exit = code]]
    BY DEF WriteJson
  <2> QED  BY <1>1, <2>1
<1>5. Stop(b) => batch'[b].at = "ended" /\ batch'[b].exit = batch[b].exit
  BY <1>1 DEF Stop
<1>6. WriteMd(b) => Goto(b, "json")
  BY DEF WriteMd
<1>7. WriteManifest(b) => Goto(b, "load")
  BY DEF WriteManifest
<1>8. WritePacket(b) => Goto(b, "manifest") \/ Goto(b, "grade")
  BY DEF WritePacket
<1>9. GradePacket(b) \/ GradeInVain(b) => \E status, rows : Done(b, status, rows)
  BY DEF GradePacket, GradeInVain
<1> QED  BY <1>2, <1>3, <1>4, <1>5, <1>6, <1>7, <1>8, <1>9

\* Once its only batch has written the manifest, a directory stays as it is
\* until a second batch begins there.
LEMMA Settled ==
    ASSUME BatchesTyped, RunsTyped, UsedInv, WritersInv, [Next]_vars,
           NEW e \in AllDirs, used[e] >= 1
    PROVE  /\ used'[e] >= 1
           /\ used'[e] = 1 => used[e] = 1
           /\ used'[e] = 1 /\ HasManifest(runs, e) => runs'[e] = runs[e]
<1>1. used \in [AllDirs -> Nat]
  BY DEF UsedInv
<1>2. ASSUME NEW b \in Batches, BatchStep(b), Begun(b)
      PROVE  used' = used /\ (used[e] = 1 /\ HasManifest(runs, e) => runs'[e] = runs[e])
  <2>1. used' = used /\ OnlyRun(batch[b].dir)
    BY <1>2, StepOf, OwnDir DEF Begun
  <2>2. ASSUME used[e] = 1, HasManifest(runs, e), e = batch[b].dir
        PROVE  runs' = runs
    <3>1. batch[b].at \notin {"grade", "packet", "manifest"}
      BY <2>2 DEF WritersInv, Writing, Draft, HasManifest
    <3>2. CASE Stop(b)
      BY <3>1, <3>2, StopEffect
    <3>3. CASE ~Stop(b)
      BY <1>2, <3>1, <3>3 DEF BatchStep, Begin, Begun, GradePacket, GradeInVain,
         WritePacket, WriteManifest, Load, CountMisses, WriteMd, WriteJson
    <3> QED  BY <3>2, <3>3
  <2> QED  BY <2>1, <2>2 DEF OnlyRun
<1>3. ASSUME NEW b \in Batches, NEW d \in Dirs, NEW limit \in 1..Len(Logs),
             Begin(b, d, limit)
      PROVE  runs' = runs /\ used'[e] \in {used[e], used[e] + 1}
  BY <1>1, <1>3 DEF Begin
<1>4. ASSUME NEW d \in Dirs, NEW c \in Copies, Archive(d, c)
      PROVE  runs'[e] = runs[e] /\ used'[e] = used[e]
  <2>1. OnlyRun(c) /\ used' = [used EXCEPT ![c] = used[d]] /\ used[c] = 0
    BY <1>4, ArchiveEffect DEF Archive
  <2> QED  BY <1>1, <2>1 DEF OnlyRun
<1>5. ASSUME UNCHANGED <<runs, used>>
      PROVE  runs'[e] = runs[e] /\ used'[e] = used[e]
  BY <1>5
<1>6. ASSUME NEW b \in Batches, BatchStep(b)
      PROVE  /\ used'[e] \in {used[e], used[e] + 1}
             /\ used'[e] = 1 /\ HasManifest(runs, e) => runs'[e] = runs[e]
  <2>1. CASE Begun(b)
    BY <1>2, <1>6, <2>1
  <2>2. CASE ~Begun(b)
    BY <1>3, <1>6, <2>2, StepOf DEF Begun
  <2> QED  BY <2>1, <2>2
<1>7. /\ used'[e] \in {used[e], used[e] + 1}
      /\ used'[e] = 1 /\ HasManifest(runs, e) => runs'[e] = runs[e]
  BY <1>4, <1>5, <1>6 DEF Next, Layer, vars
<1> QED  BY <1>1, <1>7

\* An entry of the dashboard.
Entry(x) ==
    /\ x \in [dir : AllDirs, manifest : {x.manifest}, misses : {x.misses}]
    /\ used[x.dir] >= 1
    /\ used[x.dir] = 1 =>
          HasManifest(runs, x.dir) /\ x.manifest = runs[x.dir].manifest

CountedEntry(x) ==
    used[x.dir] = 1 => x.misses = Misses(runs[x.dir].artifacts)

\* Of a directory that one batch alone has written to, the dashboard has the
\* manifest, and the misses that can still be counted there.
SeenInv ==
    /\ \A b \in Batches : batch[b].at \in {"misses", "md", "json"} =>
          \A x \in batch[b].seen :
              Entry(x) /\ (batch[b].at # "misses" => CountedEntry(x))
    /\ \A x \in json : Entry(x) /\ CountedEntry(x)

LEMMA EntryStays ==
    ASSUME BatchesTyped, RunsTyped, UsedInv, WritersInv, [Next]_vars,
           NEW x, Entry(x)
    PROVE  Entry(x)' /\ (CountedEntry(x) => CountedEntry(x)')
<1>1. x.dir \in AllDirs /\ used[x.dir] >= 1
  BY DEF Entry
<1>2. /\ used'[x.dir] >= 1
      /\ used'[x.dir] = 1 => used[x.dir] = 1
      /\ used'[x.dir] = 1 /\ HasManifest(runs, x.dir) =>
             runs'[x.dir] = runs[x.dir]
  BY <1>1, Settled
<1> QED  BY <1>2 DEF Entry, CountedEntry, HasManifest

LEMMA SeenStep ==
    BatchesTyped /\ RunsTyped /\ UsedInv /\ WritersInv /\ OrderInv /\ NamesInv
        /\ SeenInv /\ [Next]_vars => SeenInv'
<1> SUFFICES ASSUME BatchesTyped, RunsTyped, UsedInv, WritersInv, OrderInv,
                    NamesInv, SeenInv, [Next]_vars
             PROVE  SeenInv'
  OBVIOUS
<1> DEFINE Seen(c) == batch[c].at \in {"misses", "md", "json"} =>
                        \A x \in batch[c].seen :
                            Entry(x) /\ (batch[c].at # "misses" => CountedEntry(x))
           Json == \A x \in json : Entry(x) /\ CountedEntry(x)
<1>1. ASSUME NEW c \in Batches, batch'[c] = batch[c] PROVE Seen(c)'
  BY <1>1, EntryStays DEF SeenInv
<1>2. ASSUME json' = json PROVE Json'
  BY <1>2, EntryStays DEF SeenInv
<1>3. ASSUME UNCHANGED <<batch, json>> PROVE SeenInv'
  BY <1>1, <1>2, <1>3 DEF SeenInv
<1>4. ASSUME NEW b \in Batches, BatchStep(b) PROVE SeenInv'
  <2>1. \A c \in Batches : c # b => Seen(c)'
    BY <1>1, <1>4, StepOf DEF OnlyBatch
  <2> SUFFICES Seen(b)' /\ Json'
    BY <2>1 DEF SeenInv
  <2>2. CASE Load(b)
    <3> DEFINE L == LoadManifests(runs, DOMAIN runs)
    <3>1. /\ batch'[b].at = "misses" /\ json' = json /\ runs' = runs
          /\ used' = used
          /\ batch'[b].seen = {[dir |-> d, manifest |-> runs[d].manifest,
                                misses |-> None] : d \in L}
      BY <2>2, LoadEffect DEF Load
    <3>2. \A d \in L : d \in AllDirs /\ HasManifest(runs, d)
      BY LoadChoice
    <3> HIDE DEF L
    <3>3. \A d \in L : used[d] >= 1
      BY <3>2 DEF UsedInv, HasManifest, NoRun
    <3>4. ASSUME NEW x \in batch'[b].seen PROVE Entry(x)'
      BY <3>1, <3>2, <3>3, <3>4 DEF Entry, HasManifest
    <3> QED  BY <1>2, <3>1, <3>4
  <2>3. CASE CountMisses(b)
    <3>1. /\ batch[b].at = "misses" /\ batch'[b].at = "md" /\ json' = json
          /\ runs' = runs /\ used' = used
          /\ batch'[b].seen = {[x EXCEPT !.misses = Misses(runs[x.dir].artifacts)] :
                                  x \in batch[b].seen}
      BY <2>3, CountEffect DEF CountMisses
    <3>2. ASSUME NEW y \in batch'[b].seen PROVE Entry(y)' /\ CountedEntry(y)'
      <4>1. PICK x \in batch[b].seen :
              y = [x EXCEPT !.misses = Misses(runs[x.dir].artifacts)]
        BY <3>1, <3>2
      <4>2. Entry(x)
        BY <3>1 DEF SeenInv
      <4>3. /\ y.dir = x.dir /\ y.manifest = x.manifest
            /\ y.misses = Misses(runs[x.dir].artifacts)
            /\ y \in [dir : AllDirs, manifest : {y.manifest}, misses : {y.misses}]
        BY <4>1, <4>2 DEF Entry
      <4> QED  BY <3>1, <4>2, <4>3 DEF Entry, CountedEntry, HasManifest
    <3> QED  BY <1>2, <3>1, <3>2
  <2>4. CASE WriteMd(b)
    <3>1. /\ batch[b].at = "md" /\ batch'[b].at = "json" /\ json' = json
          /\ batch'[b].seen = batch[b].seen
      BY <2>4, BoardEffect DEF WriteMd
    <3> QED  BY <1>2, <3>1, EntryStays DEF SeenInv
  <2>5. CASE WriteJson(b)
    <3>1. batch[b].at = "json" /\ batch'[b].at = "ended" /\ json' = batch[b].seen
      BY <2>5, BoardEffect DEF WriteJson
    <3> QED  BY <3>1, EntryStays DEF SeenInv
  <2>6. CASE ~(Load(b) \/ CountMisses(b) \/ WriteMd(b) \/ WriteJson(b))
    <3>1. batch'[b].at \notin {"misses", "md", "json"}
      <4>1. ASSUME NEW d \in Dirs, NEW limit \in 1..Len(Logs), Begin(b, d, limit)
            PROVE  batch'[b].at = "grade"
        BY <4>1, BatchRecord DEF Begin
      <4> QED  BY <1>4, <2>6, <4>1, BoardEffect DEF BatchStep
    <3>2. json' = json
      BY <1>4, <2>6 DEF BatchStep, Begin, GradePacket, GradeInVain, WritePacket,
         WriteManifest, Stop
    <3> QED  BY <1>2, <3>1, <3>2
  <2> QED  BY <2>2, <2>3, <2>4, <2>5, <2>6
<1> QED  BY <1>3, <1>4 DEF Next, Archive, Layer, vars

LEMMA Seen == Spec => []SeenInv
<1>1. Init => SeenInv
  BY DEF Init, SeenInv, Waiting
<1> QED  BY <1>1, SeenStep, BatchTypes, RunTypes, Used, Writers, Order, Names,
            PTL DEF Spec

\* Of every run with a manifest, one entry, and as it is.
Current(S) ==
    /\ \A d \in Dirs : HasManifest(runs, d) =>
          \E x \in S : x.manifest = runs[d].manifest
    /\ \A x, y \in S : x.manifest.name = y.manifest.name => x = y

LastBegun(b) == Begun(b) /\ \A c \in Batches : Begun(c) => c <= b

\* As long as batches take turns, the last one regenerates the dashboard from
\* what is there, and it stays current.
Board(b) ==
    /\ batch[b].at \in {"misses", "md", "json"} => Current(batch[b].seen)
    /\ batch[b].at = "json" => md = batch[b].seen
    /\ batch[b].exit \in {0, 2} => md = json /\ Current(json)

BoardInv == ~overlapped => \A b \in Batches : LastBegun(b) => Board(b)

LEMMA BoardOfLast ==
    ASSUME BatchesTyped, RunsTyped, OrderInv, NamesInv, SeenInv,
           NEW b \in Batches, BatchStep(b), Begun(b), Board(b)
    PROVE  Board(b)'
<1>1. batch[b].exit = None /\ None \notin {0, 2}
  BY StepOf, BatchAssumption DEF BatchesTyped, BatchOK, Running, Begun
<1>2. ASSUME NEW S, Current(S), runs' = runs PROVE Current(S)'
  BY <1>2 DEF Current, HasManifest
<1>3. CASE Load(b)
  <2> DEFINE L == LoadManifests(runs, DOMAIN runs)
             E(d) == [dir |-> d, manifest |-> runs[d].manifest, misses |-> None]
             S == {E(d) : d \in L}
  <2>1. /\ batch'[b].at = "misses" /\ batch'[b].exit = None /\ runs' = runs
        /\ batch'[b].seen = S
    BY <1>1, <1>3, LoadEffect DEF Load
  <2>2. /\ \A d \in Dirs : HasManifest(runs, d) => d \in L
        /\ \A e, f \in L : runs[e].manifest.name = runs[f].manifest.name => e = f
    BY LoadChoice
  <2>3. \A d : E(d).manifest = runs[d].manifest
    OBVIOUS
  <2> HIDE DEF L, E
  <2>4. Current(S)
    BY <2>2, <2>3 DEF Current
  <2> HIDE DEF S
  <2>5. Current(batch[b].seen)'
    BY <1>2, <2>1, <2>4 DEF Current
  <2> QED  BY <1>1, <2>1, <2>5 DEF Board
<1>4. CASE CountMisses(b)
  <2> DEFINE N(x) == [x EXCEPT !.misses = Misses(runs[x.dir].artifacts)]
             S == {N(x) : x \in batch[b].seen}
  <2>1. /\ batch[b].at = "misses"
        /\ batch'[b].at = "md" /\ batch'[b].exit = None /\ runs' = runs
        /\ batch'[b].seen = S
    BY <1>1, <1>4, CountEffect DEF CountMisses
  <2>2. \A x \in batch[b].seen : N(x).manifest = x.manifest
    <3>1. \A x \in batch[b].seen : Entry(x)
      BY <2>1 DEF SeenInv
    <3> QED  BY <3>1 DEF Entry
  <2>3. Current(batch[b].seen)
    BY <2>1 DEF Board
  <2> HIDE DEF N
  <2>4. Current(S)
    BY <2>2, <2>3 DEF Current
  <2> HIDE DEF S
  <2>5. Current(batch[b].seen)'
    BY <1>2, <2>1, <2>4 DEF Current
  <2> QED  BY <1>1, <2>1, <2>5 DEF Board
<1>5. CASE WriteMd(b)
  <2>1. /\ batch[b].at = "md" /\ md' = batch[b].seen
        /\ batch'[b].at = "json" /\ batch'[b].exit = None /\ runs' = runs
        /\ batch'[b].seen = batch[b].seen
    BY <1>1, <1>5, BoardEffect DEF WriteMd
  <2>2. Current(batch[b].seen)
    BY <2>1 DEF Board
  <2>3. Current(batch[b].seen)'
    BY <1>2, <2>1, <2>2 DEF Current
  <2> QED  BY <1>1, <2>1, <2>3 DEF Board
<1>6. CASE WriteJson(b)
  <2>1. /\ batch[b].at = "json" /\ json' = batch[b].seen /\ runs' = runs
        /\ batch'[b].at = "ended" /\ md' = md
    BY <1>6, BoardEffect DEF WriteJson
  <2>2. Current(batch[b].seen) /\ md = batch[b].seen
    BY <2>1 DEF Board
  <2>3. Current(json)'
    BY <1>2, <2>1, <2>2 DEF Current
  <2> QED  BY <2>1, <2>2, <2>3 DEF Board
<1>7. CASE ~(Load(b) \/ CountMisses(b) \/ WriteMd(b) \/ WriteJson(b))
  <2>1. /\ batch'[b].at \notin {"misses", "md", "json"}
        /\ batch'[b].exit = None
    <3>1. ASSUME NEW d \in Dirs, NEW limit \in 1..Len(Logs), Begin(b, d, limit)
          PROVE  FALSE
      BY <3>1 DEF Begin, Begun
    <3> QED  BY <1>1, <1>7, <3>1, BoardEffect DEF BatchStep
  <2> QED  BY <1>1, <2>1 DEF Board
<1> QED  BY <1>3, <1>4, <1>5, <1>6, <1>7

LEMMA BoardStep ==
    BatchesTyped /\ RunsTyped /\ OrderInv /\ NamesInv /\ SeenInv /\ BoardInv
        /\ [Next]_vars => BoardInv'
<1> SUFFICES ASSUME BatchesTyped, RunsTyped, OrderInv, NamesInv, SeenInv,
                    BoardInv, [Next]_vars, ~overlapped',
                    NEW c \in Batches, LastBegun(c)'
             PROVE  Board(c)'
  BY DEF BoardInv
<1>1. ASSUME NEW b \in Batches, BatchStep(b) PROVE Board(c)'
  <2>1. OnlyBatch(b) /\ Begun(b)'
    BY <1>1, StepOf
  <2>2. CASE Begun(b)
    <3>1. overlapped' = overlapped /\ b \in Running
      BY <1>1, <2>2, StepOf DEF Begun
    <3>2. LastBegun(b)
      BY <2>2, <3>1 DEF OrderInv, LastBegun
    <3>3. c = b
      <4>1. b <= c /\ Begun(c)
        BY <2>1, <2>2 DEF LastBegun, Begun, OnlyBatch
      <4>2. c <= b
        BY <3>2, <4>1 DEF LastBegun
      <4> QED  BY <4>1, <4>2, BatchAssumption
    <3>4. Board(b)
      BY <3>1, <3>2 DEF BoardInv
    <3> QED  BY <1>1, <2>2, <3>3, <3>4, BoardOfLast
  <2>3. CASE ~Begun(b)
    <3>1. PICK d \in Dirs, limit \in 1..Len(Logs) : Begin(b, d, limit)
      BY <1>1, <2>3, StepOf DEF Begun
    <3>2. \A a \in Batches : Begun(a) => a <= b
      <4>1. \A a \in Batches : a \in Nat
        BY BatchAssumption
      <4>2. \A a \in Batches : b < a /\ Begun(a) => Begun(b)
        BY DEF OrderInv
      <4>3. \A a \in Batches : Begun(a) => ~(b < a)
        BY <2>3, <4>2
      <4> QED  BY <4>1, <4>3
    <3>3. c = b
      <4>1. b <= c /\ (c = b \/ Begun(c))
        BY <2>1 DEF LastBegun, Begun, OnlyBatch
      <4>2. c <= b
        BY <3>2, <4>1, BatchAssumption
      <4> QED  BY <4>1, <4>2, BatchAssumption
    <3>4. batch'[b].at = "grade" /\ batch'[b].exit = batch[b].exit
      BY <3>1, BatchRecord DEF Begin
    <3>5. batch[b].exit = None /\ None \notin {0, 2}
      BY <2>3, BatchAssumption DEF Begun, BatchesTyped, BatchOK
    <3> QED  BY <3>3, <3>4, <3>5 DEF Board
  <2> QED  BY <2>2, <2>3
<1>2. ASSUME UNCHANGED <<batch, md, json, overlapped>>,
             \A d \in Dirs : runs'[d] = runs[d]
      PROVE  Board(c)'
  <2>1. Board(c)
    BY <1>2 DEF BoardInv, LastBegun, Begun
  <2>2. ASSUME NEW S, Current(S) PROVE Current(S)'
    BY <1>2, <2>2 DEF Current, HasManifest
  <2>3. (Current(batch[c].seen) => Current(batch[c].seen)')
        /\ (Current(json) => Current(json)')
    BY <1>2, <2>2 DEF Current
  <2> QED  BY <1>2, <2>1, <2>3 DEF Board
<1>3. ASSUME NEW d \in Dirs, NEW a \in Copies, Archive(d, a) PROVE Board(c)'
  <2>1. OnlyRun(a) /\ \A e \in Dirs : e # a /\ e \in AllDirs
    BY <1>3, ArchiveEffect, BatchAssumption DEF AllDirs
  <2> QED  BY <1>2, <1>3, <2>1 DEF Archive, OnlyRun
<1> QED  BY <1>1, <1>2, <1>3 DEF Next, Layer, vars

\* Once the last batch has finished, and as long as batches take turns, both
\* files of the dashboard show every run that has a manifest once and as it is.
THEOREM DashboardShowsTheRuns == Spec => []DashboardIsCurrent
<1>1. Init => BoardInv
  BY BatchAssumption DEF Init, BoardInv, LastBegun, Begun, Waiting
<1>2. Spec => []BoardInv
  BY <1>1, BoardStep, BatchTypes, RunTypes, Order, Names, Seen, PTL DEF Spec
<1>3. BoardInv /\ NamesInv => DashboardIsCurrent
  <2> SUFFICES ASSUME BoardInv, NamesInv, NEW b \in Batches, LastBegun(b),
                      batch[b].exit \in {0, 2}, ~overlapped
               PROVE  /\ md = json
                      /\ \A d \in Dirs : HasManifest(runs, d) =>
                            Cardinality({x \in json : x.manifest.name = d /\
                                x.manifest.run = runs[d].manifest.run}) = 1
                      /\ \A x, y \in json : x.manifest.name = y.manifest.name => x = y
    BY DEF DashboardIsCurrent, LastBegun, Begun
  <2>1. md = json /\ Current(json)
    BY DEF BoardInv, Board
  <2>2. ASSUME NEW d \in Dirs, HasManifest(runs, d)
        PROVE  Cardinality({x \in json : x.manifest.name = d /\
                                x.manifest.run = runs[d].manifest.run}) = 1
    <3>1. PICK x \in json : x.manifest = runs[d].manifest
      BY <2>1, <2>2 DEF Current
    <3>2. runs[d].manifest.name = d
      BY <2>2 DEF NamesInv, AllDirs
    <3>3. {y \in json : y.manifest.name = d /\
               y.manifest.run = runs[d].manifest.run} = {x}
      BY <2>1, <3>1, <3>2 DEF Current
    <3> QED  BY <3>3, FS_Singleton
  <2> QED  BY <2>1, <2>2 DEF Current
<1> QED  BY <1>2, <1>3, Names, PTL
-----------------------------------------------------------------------------
(* The counted misses *)

\* The rows of a batch, each at its place.
LEMMA Places ==
    ASSUME NEW done, Graded(done)
    PROVE  LET all == AllRows(done) IN
           /\ IsFiniteSet(DOMAIN all)
           /\ \A p : p \in DOMAIN all <=>
                 \E k \in DOMAIN done : \E i \in DOMAIN done[k].rows : p = <<k, i>>
           /\ \A p \in DOMAIN all : all[p] = done[p[1]].rows[p[2]]
           /\ \A k \in DOMAIN done : done[k].rows \in Seq(Row)
<1> DEFINE all == AllRows(done)
           A == [k \in DOMAIN done |-> {k} \X DOMAIN done[k].rows]
<1>1. \A k \in DOMAIN done : done[k].rows \in Seq(Row)
  BY DEF Graded, GradedAs, Outcome
<1>2. IsFiniteSet(DOMAIN done)
  BY SeqDomain DEF Graded
<1>3. \A k \in DOMAIN done : IsFiniteSet(A[k])
  <2>1. ASSUME NEW k \in DOMAIN done PROVE IsFiniteSet({k} \X DOMAIN done[k].rows)
    BY <1>1, SeqDomain, FS_Singleton, FS_Product
  <2> QED  BY <2>1
<1>4. IsFiniteSet(UNION {A[k] : k \in DOMAIN done})
  <2> DEFINE f == [k \in DOMAIN done |-> Cardinality(A[k])]
  <2>1. \A j, k \in DOMAIN done : j # k => A[j] \cap A[k] = {}
    OBVIOUS
  <2>2. \A k \in DOMAIN done : f[k] = Cardinality(A[k])
    OBVIOUS
  <2> DEFINE U == UNION {A[k] : k \in DOMAIN done}
  <2>3. \A u : u \in U <=> \E k \in DOMAIN done : u \in A[k]
    OBVIOUS
  <2> HIDE DEF A, f, U
  <2>4. IsFiniteSet(U)
    BY <1>2, <1>3, <2>1, <2>2, <2>3, SumOfSizes
  <2> QED  BY <2>4 DEF U
<1>5. all = [p \in UNION {A[k] : k \in DOMAIN done} |-> done[p[1]].rows[p[2]]]
  <2>1. {A[k] : k \in DOMAIN done} =
           {{k} \X DOMAIN done[k].rows : k \in DOMAIN done}
    OBVIOUS
  <2> HIDE DEF A
  <2> QED  BY <2>1 DEF AllRows
<1>6. \A p : p \in UNION {A[k] : k \in DOMAIN done} <=>
                 \E k \in DOMAIN done : \E i \in DOMAIN done[k].rows : p = <<k, i>>
  OBVIOUS
<1> HIDE DEF A
<1> QED  BY <1>1, <1>4, <1>5, <1>6

\* What the artifacts of a finished run have missed is what its manifest has
\* counted and not found correct.
LEMMA MissesOfRun ==
    ASSUME NEW r, NEW b, NEW done, Complete(r, b, done), NEW l \in LaneBuckets,
           Misses(r.artifacts) # None
    PROVE  LET misses == Misses(r.artifacts) IN
           SumFunctionOnSet(misses, {m \in DOMAIN misses : Bucket(m) = l}) =
               r.manifest.lanes[l].clean - r.manifest.lanes[l].correct
<1> DEFINE all == AllRows(done)
           In(row) == Bucket(row.lane) = l
           counted == {p \in DOMAIN all : In(all[p]) /\ Counted(all[p])}
           passing == {p \in DOMAIN all : In(all[p]) /\ Passes(all[p])}
           missing == {p \in DOMAIN all : In(all[p]) /\ IsMiss(all[p])}
<1>1. Graded(done)
  BY DEF Complete
<1>2. /\ IsFiniteSet(DOMAIN all)
      /\ \A p : p \in DOMAIN all <=>
            \E k \in DOMAIN done : \E i \in DOMAIN done[k].rows : p = <<k, i>>
      /\ \A p \in DOMAIN all : all[p] = done[p[1]].rows[p[2]]
      /\ \A k \in DOMAIN done : done[k].rows \in Seq(Row)
  BY <1>1, Places
<1>3. /\ r.manifest.lanes[l].clean = Cardinality(counted)
      /\ r.manifest.lanes[l].correct = Cardinality(passing)
  <2> DEFINE rows == RestrictValues(all, LAMBDA row : Bucket(row.lane) = l)
  <2>1. r.manifest.lanes[l] = Tally(rows)
    BY DEF Complete, ManifestOf, Totals
  <2>2. rows = [p \in {q \in DOMAIN all : In(all[q])} |-> all[p]]
    BY DEF RestrictValues, Restrict
  <2>3. /\ {p \in DOMAIN rows : Counted(rows[p])} = counted
        /\ {p \in DOMAIN rows : Passes(rows[p])} = passing
    <3> HIDE DEF all, In
    <3> QED  BY <2>2
  <2> HIDE DEF rows, all, counted, passing
  <2>4. /\ Tally(rows).clean = Cardinality({p \in DOMAIN rows : Counted(rows[p])})
        /\ Tally(rows).correct = Cardinality({p \in DOMAIN rows : Passes(rows[p])})
    BY DEF Tally, HowMany
  <2> QED  BY <2>1, <2>3, <2>4
<1>4. Cardinality(counted) =
          Cardinality(passing) + Cardinality(missing)
  <2>1. \A row : Passes(row) => Counted(row)
    BY DEF Passes, Counted
  <2>2. /\ counted = passing \cup missing
        /\ passing \cap missing = {}
    BY <2>1 DEF IsMiss
  <2>3. IsFiniteSet(counted)
    BY <1>2, FS_Subset
  <2> QED  BY <2>2, <2>3, TwoParts
<1>5. /\ Cardinality(passing) \in Nat
      /\ Cardinality(missing) \in Nat
  BY <1>2, FS_Subset, FS_CardinalityType
<1> DEFINE rows == UNION {{<<a.id, i, a.rows[i]>> : i \in DOMAIN a.rows} :
                             a \in r.artifacts}
           misses == {x \in rows : IsMiss(x[3])}
           lanes == {x[3].lane : x \in misses}
           Of(m) == {x \in misses : x[3].lane = m}
           at == [p \in DOMAIN all |-> <<<<b, p[1]>>, p[2], all[p]>>]
           missed == {p \in DOMAIN all : IsMiss(all[p])}
<1>0. ~OneTorn(r.artifacts)
  BY DEF Misses, OneTorn
<1>6. PICK K \in SUBSET DOMAIN done :
        /\ \A k \in DOMAIN done : done[k].rows # <<>> => k \in K
        /\ r.artifacts = {[id |-> <<b, k>>, rows |-> done[k].rows] : k \in K}
  BY <1>0 DEF Complete, ArtifactsHold
<1>7. Misses(r.artifacts) = [m \in lanes |-> Cardinality(Of(m))]
  BY <1>0 DEF Misses, OneTorn
<1>8. misses = {at[p] : p \in missed}
  <2>1. ASSUME NEW x \in misses PROVE x \in {at[p] : p \in missed}
    <3>0. PICK a \in r.artifacts : \E i \in DOMAIN a.rows : x = <<a.id, i, a.rows[i]>>
      BY <2>1
    <3>1. PICK i \in DOMAIN a.rows : x = <<a.id, i, a.rows[i]>>
      BY <3>0
    <3>2. PICK k \in K : a = [id |-> <<b, k>>, rows |-> done[k].rows]
      BY <1>6, <3>1
    <3>3. <<k, i>> \in DOMAIN all /\ all[<<k, i>>] = done[k].rows[i]
      BY <1>2, <3>1, <3>2
    <3>4. x = at[<<k, i>>] /\ IsMiss(all[<<k, i>>])
      BY <2>1, <3>1, <3>2, <3>3
    <3> QED  BY <3>3, <3>4
  <2>2. ASSUME NEW p \in missed PROVE at[p] \in misses
    <3>0. PICK k \in DOMAIN done : \E i \in DOMAIN done[k].rows : p = <<k, i>>
      BY <1>2, <2>2
    <3>1. PICK i \in DOMAIN done[k].rows : p = <<k, i>>
      BY <3>0
    <3>2. done[k].rows # <<>>
      BY <3>1
    <3>3. [id |-> <<b, k>>, rows |-> done[k].rows] \in r.artifacts
      BY <1>6, <3>2
    <3>4. all[p] = done[k].rows[i]
      BY <1>2, <2>2, <3>1
    <3>5. at[p] = <<<<b, k>>, i, done[k].rows[i]>> /\ IsMiss(done[k].rows[i])
      BY <2>2, <3>1, <3>4
    <3>6. at[p] \in rows
      <4> DEFINE a == [id |-> <<b, k>>, rows |-> done[k].rows]
      <4>1. a \in r.artifacts /\ i \in DOMAIN a.rows
            /\ at[p] = <<a.id, i, a.rows[i]>>
        BY <3>1, <3>3, <3>5
      <4> HIDE DEF a, at
      <4> QED  BY <4>1
    <3> QED  BY <3>5, <3>6
  <2> QED  BY <2>1, <2>2
<1>9. IsFiniteSet(misses)
  <2>1. IsFiniteSet(missed)
    BY <1>2, FS_Subset
  <2>2. \A p, q \in missed : at[p] = at[q] => p = q
    BY <1>2
  <2> HIDE DEF misses, at, missed
  <2> QED  BY <1>8, <2>1, <2>2, SameSize
<1> DEFINE mine == {m \in lanes : Bucket(m) = l}
           A == [m \in mine |-> Of(m)]
           here == {x \in misses : In(x[3])}
<1>10. SumFunctionOnSet(Misses(r.artifacts), mine) = Cardinality(here)
  <2> DEFINE f == Misses(r.artifacts)
  <2>1. IsFiniteSet(mine)
    <3>1. IsFiniteSet(lanes)
      <4> DEFINE laneOf == [x \in misses |-> x[3].lane]
      <4>1. lanes = {laneOf[x] : x \in misses}
        OBVIOUS
      <4> HIDE DEF misses, laneOf, lanes
      <4> QED  BY <1>9, <4>1, ImageFinite
    <3> QED  BY <3>1, FS_Subset
  <2>2. \A m \in mine : IsFiniteSet(A[m]) /\ f[m] = Cardinality(A[m])
    <3>1. \A m \in mine : f[m] = Cardinality(Of(m)) /\ A[m] = Of(m)
      <4> HIDE DEF Of, lanes
      <4> QED  BY <1>7
    <3>2. \A m : Of(m) \in SUBSET misses
      OBVIOUS
    <3> HIDE DEF Of, lanes, misses, A
    <3> QED  BY <1>9, <3>1, <3>2, FS_Subset
  <2>3. \A m, n \in mine : m # n => A[m] \cap A[n] = {}
    OBVIOUS
  <2>4. \A m \in mine : IsFiniteSet(A[m])
    BY <2>2
  <2>5. \A m \in mine : f[m] = Cardinality(A[m])
    BY <2>2
  <2>6. \A x : x \in here <=> \E m \in mine : x \in A[m]
    <3> HIDE DEF misses
    <3>1. ASSUME NEW x \in here
          PROVE  x[3].lane \in mine /\ x \in A[x[3].lane]
      OBVIOUS
    <3>2. ASSUME NEW m \in mine, NEW x \in A[m] PROVE x \in here
      OBVIOUS
    <3> HIDE DEF here, mine, A
    <3> QED  BY <3>1, <3>2
  <2> HIDE DEF mine, A, f, here
  <2>7. SumFunctionOnSet(f, mine) = Cardinality(here)
    BY <2>1, <2>3, <2>4, <2>5, <2>6, SumOfSizes
  <2> QED  BY <2>7 DEF f
<1>11. here = {at[p] : p \in missing}
  <2>1. \A p \in missed : at[p][3] = all[p]
    OBVIOUS
  <2>2. missing = {p \in missed : In(all[p])}
    <3> HIDE DEF all, In
    <3> QED  OBVIOUS
  <2> HIDE DEF misses, at, missed, A, mine, all, In, missing
  <2> QED  BY <1>8, <2>1, <2>2
<1>12. Cardinality({at[p] : p \in missing}) = Cardinality(missing)
  <2>1. IsFiniteSet(missing)
    BY <1>2, FS_Subset
  <2>2. \A p, q \in missing : at[p] = at[q] => p = q
    BY <1>2
  <2> DEFINE S == missing
  <2> HIDE DEF at, S
  <2> QED  BY <2>1, <2>2, SameSize DEF S
<1>13. {m \in DOMAIN Misses(r.artifacts) : Bucket(m) = l} = mine
  <2> HIDE DEF lanes, Of
  <2> QED  BY <1>7
<1> HIDE DEF mine, here, A, at, counted, passing, missing
<1>14. SumFunctionOnSet(Misses(r.artifacts), mine) = Cardinality(missing)
  BY <1>10, <1>11, <1>12
<1>15. Cardinality(missing) =
          r.manifest.lanes[l].clean - r.manifest.lanes[l].correct
  BY <1>3, <1>4, <1>5
<1> QED  BY <1>13, <1>14, <1>15

\* The dashboard's counted misses are what its score leaves open, lane by
\* lane, whatever runs alongside.
THEOREM CountedMissesExplainTheScore == Spec => []MissesExplainTheScore
<1>1. SeenInv /\ WritersInv => MissesExplainTheScore
  <2> SUFFICES ASSUME SeenInv, WritersInv, NEW x \in json, used[x.dir] = 1,
                      x.misses # None, NEW l \in LaneBuckets
               PROVE  SumFunctionOnSet(x.misses,
                                       {m \in DOMAIN x.misses : Bucket(m) = l})
                        = x.manifest.lanes[l].clean - x.manifest.lanes[l].correct
    BY DEF MissesExplainTheScore
  <2>1. /\ x.dir \in AllDirs /\ HasManifest(runs, x.dir)
        /\ x.manifest = runs[x.dir].manifest
        /\ x.misses = Misses(runs[x.dir].artifacts)
    BY DEF SeenInv, Entry, CountedEntry
  <2>2. PICK b \in Batches : \E done : Complete(runs[x.dir], b, done)
    BY <2>1 DEF WritersInv
  <2> QED  BY <2>1, <2>2, MissesOfRun
<1> QED  BY <1>1, Seen, Writers, PTL
-----------------------------------------------------------------------------
(* The comparison of two runs *)

\* The packets of a commit have different directory names, and the questions
\* of a packet different ids.
PacketsOnce ==
    \A j, k \in DOMAIN Logs : Logs[j].slug = Logs[k].slug => j = k
QuestionsOnce ==
    \A k \in DOMAIN Logs : \A i, j \in DOMAIN Logs[k].receipts :
        Logs[k].receipts[i].qid = Logs[k].receipts[j].qid => i = j

\* The questions of a run's packet files, each with its packet, and the row of
\* one.
Asked(r)    == UNION {{s} \X DOMAIN RowsOf(r, s) : s \in DOMAIN r.packets}
RowAt(r, y) == RowsOf(r, y[1])[y[2]]

\* The packet files of a finished run have every row, each under its question.
LEMMA FilesHoldTheRows ==
    ASSUME PacketsOnce, QuestionsOnce, NEW r, NEW b, NEW done,
           Complete(r, b, done), NEW k \in DOMAIN done
    PROVE  /\ done[k].slug \in DOMAIN r.packets
           /\ \A q : q \in DOMAIN RowsOf(r, done[k].slug) <=>
                 \E i \in DOMAIN done[k].rows : q = done[k].rows[i].qid
           /\ \A i \in DOMAIN done[k].rows :
                 RowsOf(r, done[k].slug)[done[k].rows[i].qid] = done[k].rows[i]
<1> DEFINE rows == done[k].rows
           s == done[k].slug
<1>1. /\ Graded(done) /\ done \in Seq(Outcome)
      /\ \A j \in DOMAIN done : GradedAs(done[j], j) /\ j \in DOMAIN Logs
  <2>1. Graded(done)
    BY DEF Complete
  <2>2. DOMAIN done = 1..Len(done) /\ Len(done) \in Nat /\ Len(done) <= Len(Logs)
    BY <2>1 DEF Graded
  <2> QED  BY <2>1, <2>2, LogsTyped DEF Graded
<1>2. s \in DOMAIN r.packets /\ r.packets[s] = done[k]
  <2>1. DOMAIN done = 1..Len(done)
    BY <1>1
  <2>2. s \in DOMAIN r.packets
    BY <2>1 DEF Complete, PacketsHold
  <2>3. PICK j \in DOMAIN done : done[j].slug = s /\ r.packets[s] = done[j]
    BY <2>1, <2>2 DEF Complete, PacketsHold
  <2>4. j = k
    BY <1>1, <2>3 DEF GradedAs, PacketsOnce
  <2> QED  BY <2>2, <2>3, <2>4
<1>3. done[k] \in Outcome /\ rows \in Seq(Row)
  BY <1>1 DEF GradedAs, Outcome
<1>4. RowsOf(r, s) = RowsByQid(rows)
  BY <1>2, <1>3, BatchAssumption DEF RowsOf
<1>5. \A i, j \in DOMAIN rows : rows[i].qid = rows[j].qid => i = j
  <2>1. rows # <<>> => /\ DOMAIN rows = DOMAIN Logs[k].receipts
                       /\ \A i \in DOMAIN rows : rows[i].qid = Logs[k].receipts[i].qid
    BY <1>1 DEF GradedAs
  <2>2. CASE rows = <<>>
    BY <2>2
  <2>3. CASE rows # <<>>
    BY <1>1, <2>1, <2>3 DEF QuestionsOnce
  <2> QED  BY <2>2, <2>3
<1>6. ASSUME NEW i \in DOMAIN rows PROVE RowsByQid(rows)[rows[i].qid] = rows[i]
  BY <1>3, <1>5, LastRow
<1>7. DOMAIN RowsByQid(rows) = {rows[i].qid : i \in DOMAIN rows}
  BY DEF RowsByQid
<1> QED  BY <1>2, <1>4, <1>6, <1>7

\* The totals of its manifest, counted from them.
LEMMA TotalsOfFiles ==
    ASSUME PacketsOnce, QuestionsOnce, NEW r, NEW b, NEW done, Complete(r, b, done)
    PROVE  /\ DOMAIN r.manifest.packets = DOMAIN r.packets
           /\ IsFiniteSet(Asked(r))
           /\ \A y \in Asked(r) : RowAt(r, y) \in Row
           /\ r.manifest.run.receipts = Cardinality(Asked(r))
           /\ r.manifest.run.clean =
                 Cardinality({y \in Asked(r) : Counted(RowAt(r, y))})
           /\ r.manifest.run.correct =
                 Cardinality({y \in Asked(r) : Passes(RowAt(r, y))})
<1> DEFINE all == AllRows(done)
           name == [p \in DOMAIN all |-> <<done[p[1]].slug, all[p].qid>>]
<1>0. ASSUME NEW k \in DOMAIN done
      PROVE  /\ done[k].slug \in DOMAIN r.packets
             /\ \A q : q \in DOMAIN RowsOf(r, done[k].slug) <=>
                   \E i \in DOMAIN done[k].rows : q = done[k].rows[i].qid
             /\ \A i \in DOMAIN done[k].rows :
                   RowsOf(r, done[k].slug)[done[k].rows[i].qid] = done[k].rows[i]
  BY FilesHoldTheRows
<1>1. Graded(done) /\ done \in Seq(Outcome) /\ DOMAIN done = 1..Len(done)
  BY DEF Complete, Graded
<1>2. /\ IsFiniteSet(DOMAIN all)
      /\ \A p : p \in DOMAIN all <=>
            \E k \in DOMAIN done : \E i \in DOMAIN done[k].rows : p = <<k, i>>
      /\ \A p \in DOMAIN all : all[p] = done[p[1]].rows[p[2]]
      /\ \A k \in DOMAIN done : done[k].rows \in Seq(Row)
  BY <1>1, Places
<1>3. \A p \in DOMAIN all :
         /\ p = <<p[1], p[2]>>
         /\ p[1] \in DOMAIN done /\ p[2] \in DOMAIN done[p[1]].rows
         /\ all[p] \in Row
  BY <1>2
<1> HIDE DEF all
<1>4. ASSUME NEW p \in DOMAIN all
      PROVE  name[p] \in Asked(r) /\ RowAt(r, name[p]) = all[p]
  <2>0. PICK k \in DOMAIN done : \E i \in DOMAIN done[k].rows : p = <<k, i>>
    BY <1>2
  <2>1. PICK n \in DOMAIN done[k].rows : p = <<k, n>> /\ all[p] = done[k].rows[n]
    BY <1>2, <2>0
  <2> DEFINE s == done[k].slug
             q == done[k].rows[n].qid
  <2>2. s \in DOMAIN r.packets /\ q \in DOMAIN RowsOf(r, s)
        /\ RowsOf(r, s)[q] = all[p]
    <3> QED  BY <1>0, <2>1
  <2>3. name[p] = <<s, q>>
    BY <2>1
  <2> HIDE DEF s, q, name
  <2>4. <<s, q>> \in Asked(r)
    BY <2>2 DEF Asked
  <2> QED  BY <2>2, <2>3, <2>4 DEF RowAt
<1>5. ASSUME NEW y \in Asked(r) PROVE \E p \in DOMAIN all : y = name[p]
  <2>1. PICK s \in DOMAIN r.packets : y \in {s} \X DOMAIN RowsOf(r, s)
    BY DEF Asked
  <2>2. PICK k \in DOMAIN done : done[k].slug = s
    BY <1>1 DEF Complete, PacketsHold
  <2>3. PICK i \in DOMAIN done[k].rows : y = <<s, done[k].rows[i].qid>>
    BY <1>0, <2>1, <2>2
  <2>4. <<k, i>> \in DOMAIN all /\ all[<<k, i>>] = done[k].rows[i]
    BY <1>2
  <2> QED  BY <2>2, <2>3, <2>4
<1>6. ASSUME NEW p \in DOMAIN all, NEW q \in DOMAIN all, name[p] = name[q]
      PROVE  p = q
  <2>1. done[p[1]].slug = done[q[1]].slug /\ all[p].qid = all[q].qid
    BY <1>6
  <2>2. p[1] = q[1]
    <3>1. \A k \in DOMAIN done : done[k].slug = Logs[k].slug /\ k \in DOMAIN Logs
      BY <1>1, LogsTyped DEF Graded, GradedAs
    <3> QED  BY <1>3, <2>1, <3>1 DEF PacketsOnce
  <2>3. p[2] = q[2]
    <3> DEFINE k == p[1]
    <3>1. k \in DOMAIN done /\ p[2] \in DOMAIN done[k].rows /\ q[2] \in DOMAIN done[k].rows
      BY <1>3, <2>2
    <3>2. done[k].rows[p[2]].qid = done[k].rows[q[2]].qid
      BY <1>2, <2>1, <2>2
    <3>3. /\ GradedAs(done[k], k) /\ k \in DOMAIN Logs /\ done[k].rows # <<>>
      BY <1>1, <3>1, LogsTyped DEF Graded
    <3> HIDE DEF k
    <3> QED  BY <3>1, <3>2, <3>3 DEF GradedAs, QuestionsOnce
  <2> QED  BY <1>3, <2>2, <2>3
<1> HIDE DEF name
<1>7. ASSUME NEW W
      PROVE  Cardinality({y \in Asked(r) : RowAt(r, y) \in W}) =
                 Cardinality({p \in DOMAIN all : all[p] \in W})
  <2> DEFINE S == {p \in DOMAIN all : all[p] \in W}
  <2>1. IsFiniteSet(S)
    BY <1>2, FS_Subset
  <2>2. {y \in Asked(r) : RowAt(r, y) \in W} = {name[p] : p \in S}
    BY <1>4, <1>5
  <2>3. \A p, q \in S : name[p] = name[q] => p = q
    BY <1>6
  <2> HIDE DEF S
  <2>4. Cardinality({name[p] : p \in S}) = Cardinality(S)
    BY <2>1, <2>3, SameSize
  <2> QED  BY <2>2, <2>4 DEF S
<1>8. /\ IsFiniteSet(Asked(r)) /\ Cardinality(Asked(r)) = Cardinality(DOMAIN all)
  <2>1. Asked(r) = {name[p] : p \in DOMAIN all}
    BY <1>4, <1>5
  <2>2. \A p, q \in DOMAIN all : name[p] = name[q] => p = q
    BY <1>6
  <2> QED  BY <1>2, <2>1, <2>2, SameSize
<1>9. \A y \in Asked(r) : RowAt(r, y) \in Row
  BY <1>3, <1>4, <1>5
<1>10. /\ r.manifest.run = Tally(all)
       /\ DOMAIN r.manifest.packets = {done[k].slug : k \in DOMAIN done}
  BY DEF Complete, ManifestOf, Totals, all
<1>11. DOMAIN r.packets = {done[k].slug : k \in DOMAIN done}
  BY <1>1 DEF Complete, PacketsHold
<1>12. /\ Tally(all).receipts = Cardinality(DOMAIN all)
       /\ Tally(all).clean = Cardinality({p \in DOMAIN all : Counted(all[p])})
       /\ Tally(all).correct = Cardinality({p \in DOMAIN all : Passes(all[p])})
  BY DEF Tally, HowMany
<1>13. Cardinality({y \in Asked(r) : Counted(RowAt(r, y))}) =
           Cardinality({p \in DOMAIN all : Counted(all[p])})
  <2> DEFINE W == {row \in Row : Counted(row)}
  <2>1. /\ {y \in Asked(r) : RowAt(r, y) \in W} = {y \in Asked(r) : Counted(RowAt(r, y))}
        /\ {p \in DOMAIN all : all[p] \in W} = {p \in DOMAIN all : Counted(all[p])}
    BY <1>3, <1>9
  <2> HIDE DEF W
  <2> QED  BY <1>7, <2>1
<1>14. Cardinality({y \in Asked(r) : Passes(RowAt(r, y))}) =
           Cardinality({p \in DOMAIN all : Passes(all[p])})
  <2> DEFINE W == {row \in Row : Passes(row)}
  <2>1. /\ {y \in Asked(r) : RowAt(r, y) \in W} = {y \in Asked(r) : Passes(RowAt(r, y))}
        /\ {p \in DOMAIN all : all[p] \in W} = {p \in DOMAIN all : Passes(all[p])}
    BY <1>3, <1>9
  <2> HIDE DEF W
  <2> QED  BY <1>7, <2>1
<1> QED  BY <1>8, <1>9, <1>10, <1>11, <1>12, <1>13, <1>14

\* The comparison of two finished runs has one entry for each question that
\* either of them asks.
RowIn(rows, q) == IF q \in DOMAIN rows THEN rows[q] ELSE None
Became(r, s, y) == Transition(RowIn(RowsOf(r, y[1]), y[2]),
                              RowIn(RowsOf(s, y[1]), y[2]))
EntryOf(r, s) == [y \in Asked(r) \cup Asked(s) |->
                    [slug |-> y[1], qid |-> y[2], transition |-> Became(r, s, y)]]

Entries(r, s, T)   == {x \in Compare(r, s) : x.transition \in T}
Questions(r, s, T) == {y \in Asked(r) \cup Asked(s) : Became(r, s, y) \in T}

LEMMA ComparedOnce ==
    ASSUME NEW r, NEW s,
           DOMAIN r.manifest.packets = DOMAIN r.packets,
           DOMAIN s.manifest.packets = DOMAIN s.packets,
           IsFiniteSet(Asked(r)), IsFiniteSet(Asked(s)),
           NEW T
    PROVE  /\ IsFiniteSet(Asked(r) \cup Asked(s))
           /\ Cardinality(Compare(r, s)) = Cardinality(Asked(r) \cup Asked(s))
           /\ Cardinality(Entries(r, s, T)) = Cardinality(Questions(r, s, T))
<1> DEFINE all == Asked(r) \cup Asked(s)
           c == Compare(r, s)
           entry == EntryOf(r, s)
           slugs == DOMAIN r.packets \cup DOMAIN s.packets
           Packet(p) == ComparePacket(p, RowsOf(r, p), RowsOf(s, p))
<1>1. IsFiniteSet(all)
  BY FS_Union
<1>2. \A y : y \in all <=>
         \E p \in slugs : \E q \in DOMAIN RowsOf(r, p) \cup DOMAIN RowsOf(s, p) :
            y = <<p, q>>
  <2>1. \A p : /\ p \notin DOMAIN r.packets => DOMAIN RowsOf(r, p) = {}
               /\ p \notin DOMAIN s.packets => DOMAIN RowsOf(s, p) = {}
    <3>1. DOMAIN <<>> = {}
      OBVIOUS
    <3> QED  BY <3>1 DEF RowsOf
  <2>2. ASSUME NEW y
        PROVE  /\ y \in Asked(r) <=> \E p \in DOMAIN r.packets :
                     \E q \in DOMAIN RowsOf(r, p) : y = <<p, q>>
               /\ y \in Asked(s) <=> \E p \in DOMAIN s.packets :
                     \E q \in DOMAIN RowsOf(s, p) : y = <<p, q>>
    BY DEF Asked
  <2> QED  BY <2>1, <2>2
<1>3. \A y \in all : y = <<y[1], y[2]>>
  BY <1>2
<1>4. c = UNION {Packet(p) : p \in slugs}
  BY DEF Compare
<1>5. \A p, q : <<p, q>> \in all =>
         entry[<<p, q>>] = [slug |-> p, qid |-> q,
            transition |-> Transition(RowIn(RowsOf(r, p), q), RowIn(RowsOf(s, p), q))]
  BY DEF EntryOf, Became
<1>6. ASSUME NEW p
      PROVE  Packet(p) =
        {[slug |-> p, qid |-> q,
          transition |-> Transition(RowIn(RowsOf(r, p), q), RowIn(RowsOf(s, p), q))] :
            q \in DOMAIN RowsOf(r, p) \cup DOMAIN RowsOf(s, p)}
  BY DEF ComparePacket, RowIn
<1>7. c = {entry[y] : y \in all}
  <2>1. ASSUME NEW x \in c PROVE \E y \in all : x = entry[y]
    <3>1. PICK p \in slugs : x \in Packet(p)
      BY <1>4
    <3>2. PICK q \in DOMAIN RowsOf(r, p) \cup DOMAIN RowsOf(s, p) :
            x = [slug |-> p, qid |-> q, transition |->
                   Transition(RowIn(RowsOf(r, p), q), RowIn(RowsOf(s, p), q))]
      BY <1>6, <3>1
    <3>3. <<p, q>> \in all
      BY <1>2, <3>2
    <3> HIDE DEF all, entry
    <3> QED  BY <1>5, <3>2, <3>3
  <2>2. ASSUME NEW y \in all PROVE entry[y] \in c
    <3>1. PICK p \in slugs : \E q \in DOMAIN RowsOf(r, p) \cup DOMAIN RowsOf(s, p) :
            y = <<p, q>>
      BY <1>2
    <3>2. PICK q \in DOMAIN RowsOf(r, p) \cup DOMAIN RowsOf(s, p) : y = <<p, q>>
      BY <3>1
    <3>3. entry[y] \in Packet(p)
      <4> HIDE DEF all, entry, Packet
      <4> QED  BY <1>5, <1>6, <3>2
    <3> HIDE DEF Packet, c, entry
    <3> QED  BY <1>4, <3>3
  <2> HIDE DEF all, entry, c
  <2> QED  BY <2>1, <2>2
<1>8. \A y \in all : /\ entry[y].slug = y[1] /\ entry[y].qid = y[2]
                     /\ entry[y].transition = Became(r, s, y)
  BY DEF EntryOf
<1> HIDE DEF all, entry, c
<1>9. \A y, z \in all : entry[y] = entry[z] => y = z
  <2> SUFFICES ASSUME NEW y \in all, NEW z \in all, entry[y] = entry[z] PROVE y = z
    OBVIOUS
  <2>1. y[1] = z[1] /\ y[2] = z[2]
    BY <1>8
  <2> QED  BY <1>3, <2>1
<1>10. IsFiniteSet(c) /\ Cardinality(c) = Cardinality(all)
  BY <1>1, <1>7, <1>9, SameSize
<1> DEFINE X == Entries(r, s, T)
           Y == Questions(r, s, T)
<1>11. X = {x \in c : x.transition \in T}
  BY DEF c, Entries
<1>12. Y = {y \in all : Became(r, s, y) \in T}
  BY DEF all, Questions
<1> HIDE DEF X, Y
<1>13. IsFiniteSet(Y)
  BY <1>1, <1>12, FS_Subset
<1>14. Cardinality(X) = Cardinality(Y)
  <2>1. X = {entry[y] : y \in Y}
    BY <1>7, <1>8, <1>11, <1>12
  <2>2. \A y, z \in Y : entry[y] = entry[z] => y = z
    BY <1>9, <1>12
  <2>3. Cardinality({entry[y] : y \in Y}) = Cardinality(Y)
    BY <1>13, <2>2, SameSize
  <2> QED  BY <2>1, <2>3
<1> QED  BY <1>1, <1>10, <1>14 DEF all, c, X, Y

LEMMA ComparisonOfRuns ==
    ASSUME PacketsOnce, QuestionsOnce,
           NEW r, NEW b, NEW done, Complete(r, b, done),
           NEW s, NEW e, NEW other, Complete(s, e, other),
           Cardinality({x \in Compare(r, s) :
               x.transition \in {"appeared", "disappeared"}}) = 0
    PROVE  LET c == Compare(r, s)
               N(T) == Cardinality({x \in c : x.transition \in T})
               before == r.manifest.run
               after  == s.manifest.run
               all    == Cardinality(c)
           IN /\ before.receipts = all /\ after.receipts = all
              /\ before.clean = all - N({"still_skipped", "un_skipped_passing",
                                         "un_skipped_failing"})
              /\ after.clean = all - N({"still_skipped", "newly_skipped"})
              /\ after.correct = N({"still_passing", "newly_passing",
                                    "un_skipped_passing"})
<1> DEFINE c == Compare(r, s)
           all == Asked(r) \cup Asked(s)
           N(T) == Cardinality({x \in c : x.transition \in T})
           Y(T) == {y \in all : Became(r, s, y) \in T}
<1>1. /\ DOMAIN r.manifest.packets = DOMAIN r.packets
      /\ IsFiniteSet(Asked(r))
      /\ \A y \in Asked(r) : RowAt(r, y) \in Row
      /\ r.manifest.run.receipts = Cardinality(Asked(r))
      /\ r.manifest.run.clean =
            Cardinality({y \in Asked(r) : Counted(RowAt(r, y))})
  BY TotalsOfFiles
<1>2. /\ DOMAIN s.manifest.packets = DOMAIN s.packets
      /\ IsFiniteSet(Asked(s))
      /\ \A y \in Asked(s) : RowAt(s, y) \in Row
      /\ s.manifest.run.receipts = Cardinality(Asked(s))
      /\ s.manifest.run.clean =
            Cardinality({y \in Asked(s) : Counted(RowAt(s, y))})
      /\ s.manifest.run.correct =
            Cardinality({y \in Asked(s) : Passes(RowAt(s, y))})
  BY TotalsOfFiles
<1>3. ASSUME NEW T
      PROVE  /\ IsFiniteSet(all) /\ Cardinality(c) = Cardinality(all)
             /\ N(T) = Cardinality(Y(T))
  <2>1. /\ IsFiniteSet(all) /\ Cardinality(c) = Cardinality(all)
        /\ Cardinality(Entries(r, s, T)) = Cardinality(Questions(r, s, T))
    BY <1>1, <1>2, ComparedOnce
  <2> QED  BY <2>1 DEF Entries, Questions
<1>4. \A T : N(T) = Cardinality(Y(T))
  <2> HIDE DEF N, Y
  <2> QED  BY <1>3
<1>5. Y({"appeared", "disappeared"}) = {}
  <2>1. Cardinality(Y({"appeared", "disappeared"})) = 0
    BY <1>4
  <2>2. IsFiniteSet(Y({"appeared", "disappeared"}))
    BY <1>3, FS_Subset
  <2> HIDE DEF Y
  <2> QED  BY <2>1, <2>2, FS_EmptySet
<1> DEFINE Old(y) == RowAt(r, y)
           New(y) == RowAt(s, y)
<1>6. ASSUME NEW y \in all
      PROVE  /\ y \in Asked(r) /\ y \in Asked(s)
             /\ Became(r, s, y) = Transition(Old(y), New(y))
             /\ Old(y) # None /\ New(y) # None
  <2>1. Became(r, s, y) \notin {"appeared", "disappeared"}
    BY <1>5
  <2>2. /\ y \in Asked(r) => y[2] \in DOMAIN RowsOf(r, y[1])
        /\ y \in Asked(s) => y[2] \in DOMAIN RowsOf(s, y[1])
    BY DEF Asked
  <2>3. y[2] \in DOMAIN RowsOf(r, y[1]) /\ y[2] \in DOMAIN RowsOf(s, y[1])
    BY <2>1 DEF Became, RowIn, Transition
  <2>4. y = <<y[1], y[2]>>
    BY DEF Asked
  <2>5. /\ \A p : p \notin DOMAIN r.packets => DOMAIN RowsOf(r, p) = {}
        /\ \A p : p \notin DOMAIN s.packets => DOMAIN RowsOf(s, p) = {}
    <3>1. DOMAIN <<>> = {}
      OBVIOUS
    <3> QED  BY <3>1 DEF RowsOf
  <2>6. y \in Asked(r) /\ y \in Asked(s)
    BY <2>3, <2>4, <2>5 DEF Asked
  <2>7. Old(y) # None /\ New(y) # None
    BY <1>1, <1>2, <2>6, BatchAssumption
  <2> QED  BY <2>3, <2>6, <2>7 DEF Became, RowIn, RowAt
<1>7. all = Asked(r) /\ all = Asked(s)
  BY <1>6
<1>8. ASSUME NEW y \in all
      PROVE  /\ Became(r, s, y) \in {"still_skipped", "un_skipped_passing",
                                     "un_skipped_failing"} <=> ~Counted(Old(y))
             /\ Became(r, s, y) \in {"still_skipped", "newly_skipped"} <=>
                   ~Counted(New(y))
             /\ Became(r, s, y) \in {"still_passing", "newly_passing",
                                     "un_skipped_passing"} <=> Passes(New(y))
  <2>1. Became(r, s, y) = Transition(Old(y), New(y)) /\ Old(y) # None /\ New(y) # None
    BY <1>6
  <2>2. \A row : Passes(row) => Counted(row)
    BY DEF Passes, Counted
  <2> HIDE DEF Old, New, all
  <2> QED  BY <2>1, <2>2 DEF Transition
<1> DEFINE A1 == {"still_skipped", "un_skipped_passing", "un_skipped_failing"}
           A2 == {"still_skipped", "newly_skipped"}
           A3 == {"still_passing", "newly_passing", "un_skipped_passing"}
<1>9. r.manifest.run.receipts = Cardinality(c) /\ s.manifest.run.receipts = Cardinality(c)
  BY <1>1, <1>2, <1>3, <1>7
<1>10. r.manifest.run.clean = Cardinality(c) - N(A1)
  <2> DEFINE C == {y \in all : Counted(Old(y))}
  <2>1. all = C \cup Y(A1) /\ C \cap Y(A1) = {}
    BY <1>8
  <2>2. r.manifest.run.clean = Cardinality(C)
    BY <1>1, <1>7
  <2> HIDE DEF C, Y, all, N, A1
  <2>3. Cardinality(C) = Cardinality(all) - Cardinality(Y(A1))
    BY <1>3, <2>1, TheRest
  <2> QED  BY <1>3, <1>4, <2>2, <2>3
<1>11. s.manifest.run.clean = Cardinality(c) - N(A2)
  <2> DEFINE C == {y \in all : Counted(New(y))}
  <2>1. all = C \cup Y(A2) /\ C \cap Y(A2) = {}
    BY <1>8
  <2>2. s.manifest.run.clean = Cardinality(C)
    BY <1>2, <1>7
  <2> HIDE DEF C, Y, all, N, A2
  <2>3. Cardinality(C) = Cardinality(all) - Cardinality(Y(A2))
    BY <1>3, <2>1, TheRest
  <2> QED  BY <1>3, <1>4, <2>2, <2>3
<1>12. s.manifest.run.correct = N(A3)
  <2>1. {y \in all : Passes(New(y))} = Y(A3)
    BY <1>8
  <2>2. s.manifest.run.correct = Cardinality(Y(A3))
    BY <1>2, <1>7, <2>1
  <2> QED  BY <1>4, <2>2
<1> QED  BY <1>9, <1>10, <1>11, <1>12

\* What the comparison of two finished runs says of single receipts adds up to
\* the totals of both manifests, if no two packets share a directory name (and
\* so a packet file) and no two questions of a packet an id.
THEOREM ComparisonIsSound ==
    ASSUME PacketsOnce, QuestionsOnce
    PROVE  Spec => []ComparisonAddsUp
<1>1. WritersInv /\ RunsTyped => ComparisonAddsUp
  <2> SUFFICES ASSUME WritersInv, RunsTyped, NEW d \in DOMAIN runs, NEW e \in DOMAIN runs,
                      HasManifest(runs, d), HasManifest(runs, e),
                      used[d] = 1, used[e] = 1
               PROVE  LET c == Compare(runs[d], runs[e])
                          N(T) == Cardinality({x \in c : x.transition \in T})
                          before == runs[d].manifest.run
                          after  == runs[e].manifest.run
                          all    == Cardinality(c)
                      IN N({"appeared", "disappeared"}) = 0 =>
                /\ before.receipts = all /\ after.receipts = all
                /\ before.clean = all - N({"still_skipped", "un_skipped_passing",
                                           "un_skipped_failing"})
                /\ after.clean = all - N({"still_skipped", "newly_skipped"})
                /\ after.correct = N({"still_passing", "newly_passing",
                                      "un_skipped_passing"})
    BY DEF ComparisonAddsUp
  <2>1. d \in AllDirs /\ e \in AllDirs
    BY DEF RunsTyped
  <2>2. PICK b, done : Complete(runs[d], b, done)
    BY <2>1 DEF WritersInv
  <2>3. PICK f, other : Complete(runs[e], f, other)
    BY <2>1 DEF WritersInv
  <2> QED  BY <2>2, <2>3, ComparisonOfRuns
<1> QED  BY <1>1, Writers, RunTypes, PTL
=============================================================================
