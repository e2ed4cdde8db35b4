------------------------ MODULE ReceiptGradingProofs ------------------------
(***************************************************************************)
(* Whatever order the threads of the pool finish in, whatever the cache    *)
(* holds and whichever calls fail: the rows of a packet are those of its   *)
(* receipts, one for one; a row's verdict is about the answer to its own   *)
(* receipt; what passes counts; and the cache status tells what was asked. *)
(* Atlas is not blamed where the repository contradicts the receipt, and   *)
(* not excused where it agrees; what is no measure of retrieval counts     *)
(* only where grading raised.                                              *)
(***************************************************************************)
EXTENDS ReceiptGrading, FiniteSetTheorems, SequenceTheorems, TLAPS

Fields == {"at", "i", "rev", "run", "source", "binding", "atRun", "answer",
           "cache"}
Busy(w) == job[w].at # "idle"

\* The revision that the mode of a run calls for.
Wanted(run, r) == Indexed[IF run.pin = "receipt-source" THEN r.commit.of
                          ELSE run.commit]

\* What a row or a thread has is an answer to receipt r, asked as wanted.
Own(run, r, about, rev) ==
    about # None => /\ about.text = QueryText(r)
                    /\ about.rev = rev
                    /\ rev = Wanted(run, r)

\* What a query for receipt r at revision rev looks like.
QueryFor(r, rev) == [text |-> QueryText(r), tool |-> CodeTool(r), rev |-> rev]

Cost(status) == IF status \in {"miss", "disabled"} THEN 1 ELSE 0

\* What a thread is doing fits run and its receipt, of which Atlas has been
\* asked n times.
JobFits(run, x, n) ==
    /\ DOMAIN x.answer = {"about", "empty", "ok"}
    /\ Own(run, run.packet[x.i], x.answer.about, x.rev)
    /\ n = IF x.at = "ask" THEN 0 ELSE Cost(x.cache)
    /\ x.at \in {"examine", "pin"} => x.rev = Indexed[run.commit]
    /\ x.at \in {"examine", "doc", "pin", "lookup", "ask"} =>
          x.answer.about = None
    /\ x.at \in {"examine", "doc", "pin", "lookup"} => x.cache = None
    /\ x.at = "pin" => run.pin = "receipt-source"
    /\ x.at \in {"lookup", "ask", "store"} =>
          x.rev = Wanted(run, run.packet[x.i])
    /\ x.at = "ask" => x.cache \in {"miss", "disabled"}
    /\ x.at = "store" =>
          x.answer.ok /\ x.answer.about = QueryFor(run.packet[x.i], x.rev)

\* A row of run fits receipt i.
RowFits(run, i, row, n) ==
    /\ row.id = run.packet[i].id
    /\ Passes(row) => Counted(row)
    /\ row.tool # "error" => n = Cost(row.cache)
    /\ Own(run, run.packet[i], row.about, row.rev)

PoolInv ==
    /\ plan \in Plans
    /\ turn \in 1..(Len(plan) + 1)
    /\ queued \in Nat \ {0}
    /\ turn <= Len(plan) => queued <= Len(Packet) + 1
    /\ turn > Len(plan) => queued = 1
    /\ asked \in Seq(Nat) /\ Len(asked) = queued - 1

JobsInv ==
    /\ job = [w \in Threads |-> job[w]]
    /\ \A w \in Threads : DOMAIN job[w] = Fields
    /\ \A w \in Threads : Busy(w) =>
          /\ job[w].i \in 1..(queued - 1)
          /\ JobFits(Run, job[w], asked[job[w].i])
    /\ \A v, w \in Threads :
          Busy(v) /\ Busy(w) /\ job[v].i = job[w].i => v = w

RowsInv ==
    /\ \E S : finished \in Seq(S)
    /\ \A k \in DOMAIN finished :
          /\ finished[k].i \in 1..(queued - 1)
          /\ RowFits(Run, finished[k].i, finished[k].row,
                     asked[finished[k].i])
          /\ \A w \in Threads : Busy(w) => job[w].i # finished[k].i
    /\ \A j, k \in DOMAIN finished : finished[j].i = finished[k].i => j = k
    /\ \A i \in 1..(queued - 1) :
          \/ \E k \in DOMAIN finished : finished[k].i = i
          \/ \E w \in Threads : Busy(w) /\ job[w].i = i

\* What a run that ended has left, s, fits it.
SummaryFits(run, s) ==
    /\ s.rows \in Seq({s.rows[i] : i \in DOMAIN s.rows})
    /\ Len(s.rows) = Len(run.packet)
    /\ \A i \in DOMAIN run.packet : RowFits(run, i, s.rows[i], s.asked[i])
    /\ s.numbers = Summary(s.rows, Threshold)

SummariesInv ==
    /\ \E S : summaries \in Seq(S)
    /\ Len(summaries) = turn - 1
    /\ \A t \in DOMAIN summaries : SummaryFits(plan[t], summaries[t])

CacheInv ==
    \A k \in Keys :
        /\ DOMAIN cache[k] = {"answer", "hits"}
        /\ DOMAIN cache[k].answer = {"about", "empty", "ok"}
        /\ cache[k].answer.about = [text |-> k[1], tool |-> k[2], rev |-> k[6]]
        /\ cache[k].answer.ok

GradeInv == PoolInv /\ JobsInv /\ RowsInv /\ SummariesInv
-----------------------------------------------------------------------------
\* The plan is a sequence of runs, and the packet of each a sequence.
LEMMA PlanShape ==
  ASSUME PoolInv
  PROVE  /\ Len(plan) \in Nat /\ DOMAIN plan = 1..Len(plan)
         /\ \A t \in DOMAIN plan :
               /\ Len(plan[t].packet) \in Nat
               /\ DOMAIN plan[t].packet = 1..Len(plan[t].packet)
BY ReceiptAssumption DEF PoolInv

\* A busy thread belongs to the run that is on.
LEMMA BusyRuns ==
  ASSUME PoolInv, JobsInv, NEW w \in Threads, Busy(w)
  PROVE  /\ turn \in DOMAIN plan
         /\ job[w].i \in DOMAIN Packet /\ job[w].i \in DOMAIN asked
         /\ JobFits(Run, job[w], asked[job[w].i])
BY PlanShape DEF PoolInv, JobsInv, Packet, Run

\* A thread that goes on, having asked Atlas or not.
LEMMA GoingOnFits ==
  ASSUME GradeInv, NEW w \in Threads, Busy(w), NEW x, NEW n \in Nat,
         job' = [job EXCEPT ![w] = x], x.i = job[w].i, DOMAIN x = Fields,
         x.at # "idle", JobFits(Run, x, n),
         asked' = [asked EXCEPT ![x.i] = n],
         UNCHANGED <<plan, turn, queued, finished, summaries>>
  PROVE  GradeInv'
<1>1. job[w].i \in DOMAIN asked /\ Run' = Run /\ Packet' = Packet
  BY BusyRuns DEF GradeInv, Run, Packet
<1>2. asked' \in Seq(Nat) /\ Len(asked') = Len(asked)
        /\ asked'[x.i] = n
        /\ \A i \in DOMAIN asked : i # x.i => asked'[i] = asked[i]
  BY <1>1 DEF GradeInv, PoolInv
<1>3. \A v \in Threads : job'[v] = IF v = w THEN x ELSE job[v]
  BY DEF GradeInv, JobsInv
<1>4. PoolInv'
  BY <1>1, <1>2 DEF GradeInv, PoolInv
<1>5. DOMAIN asked = 1..(queued - 1)
  BY DEF GradeInv, PoolInv
<1>6. JobsInv'
  BY <1>1, <1>2, <1>3, <1>5 DEF GradeInv, JobsInv, Busy
<1>7. RowsInv'
  <2>1. ASSUME NEW k \in DOMAIN finished
        PROVE  /\ finished[k].i \in 1..(queued - 1)
               /\ RowFits(Run, finished[k].i, finished[k].row,
                          asked'[finished[k].i])
               /\ \A v \in Threads : Busy(v)' => job'[v].i # finished[k].i
    BY <1>2, <1>3, <1>5, <2>1 DEF GradeInv, RowsInv, Busy
  <2>2. \A i \in 1..(queued - 1) :
          \/ \E k \in DOMAIN finished : finished[k].i = i
          \/ \E v \in Threads : Busy(v)' /\ job'[v].i = i
    BY <1>3 DEF GradeInv, RowsInv, Busy
  <2>3. /\ \E S : finished' \in Seq(S)
        /\ \A j, k \in DOMAIN finished : finished[j].i = finished[k].i => j = k
    BY DEF GradeInv, RowsInv
  <2>4. QED
    BY <1>1, <2>1, <2>2, <2>3 DEF RowsInv
<1>8. SummariesInv'
  BY DEF GradeInv, SummariesInv
<1>9. QED
  BY <1>4, <1>6, <1>7, <1>8 DEF GradeInv

\* One more element at the end of a sequence.
LEMMA AppendFacts ==
  ASSUME NEW S, NEW s \in Seq(S), NEW e
  PROVE  /\ Append(s, e) \in Seq(S \cup {e})
         /\ Len(s) \in Nat /\ Len(Append(s, e)) = Len(s) + 1
         /\ DOMAIN s = 1..Len(s)
         /\ DOMAIN Append(s, e) = 1..(Len(s) + 1)
         /\ \A k \in 1..Len(s) : Append(s, e)[k] = s[k]
         /\ Append(s, e)[Len(s) + 1] = e
<1>1. s \in Seq(S \cup {e})
  OBVIOUS
<1>2. Append(s, e) \in Seq(S \cup {e})
  BY <1>1
<1>3. QED
  BY <1>1, <1>2

\* A thread whose receipt has its row.
LEMMA FinishFits ==
  ASSUME GradeInv, NEW w \in Threads, Busy(w), NEW row, Finish(w, row),
         RowFits(Run, job[w].i, row, asked[job[w].i])
  PROVE  GradeInv'
<1> DEFINE done == [i |-> job[w].i, row |-> row]
           last == Len(finished) + 1
<1>1. /\ finished' = Append(finished, done)
      /\ UNCHANGED <<plan, turn, queued, summaries, asked>>
      /\ Run' = Run /\ Packet' = Packet
  BY DEF Finish, Run, Packet
<1>2. \A v \in Threads : job'[v] = IF v = w THEN Idle ELSE job[v]
  BY DEF Finish, GradeInv, JobsInv
<1>3. Idle.at = "idle" /\ DOMAIN Idle = Fields
  BY DEF Idle, Fields
<1>4. /\ \E S : finished' \in Seq(S)
      /\ Len(finished) \in Nat /\ DOMAIN finished = 1..Len(finished)
      /\ DOMAIN finished' = 1..last
      /\ \A k \in 1..Len(finished) : finished'[k] = finished[k]
      /\ finished'[last] = done
  <2>1. PICK S : finished \in Seq(S)
    BY DEF GradeInv, RowsInv
  <2> HIDE DEF done
  <2>2. finished' \in Seq(S \cup {done})
    BY <1>1, <2>1, AppendFacts
  <2>3. Len(finished) \in Nat /\ DOMAIN finished = 1..Len(finished)
    BY <2>1, AppendFacts
  <2>4. DOMAIN finished' = 1..(Len(finished) + 1)
    BY <1>1, <2>1, AppendFacts
  <2>5. \A k \in 1..Len(finished) : finished'[k] = finished[k]
    BY <1>1, <2>1, AppendFacts
  <2>6. finished'[Len(finished) + 1] = done
    BY <1>1, <2>1, AppendFacts
  <2>7. QED
    BY <2>2, <2>3, <2>4, <2>5, <2>6
<1>5. PoolInv'
  BY <1>1 DEF GradeInv, PoolInv
<1>6. JobsInv'
  <2>1. job' = [v \in Threads |-> job'[v]]
    BY DEF Finish, GradeInv, JobsInv
  <2>2. QED
    BY <1>1, <1>2, <1>3, <2>1 DEF GradeInv, JobsInv, Busy
<1>7. RowsInv'
  <2>1. job[w].i \in 1..(queued - 1)
    BY DEF GradeInv, JobsInv
  <2>2. \A k \in DOMAIN finished : finished[k].i # job[w].i
    BY DEF GradeInv, RowsInv
  <2>3. ASSUME NEW k \in DOMAIN finished'
        PROVE  /\ finished'[k].i \in 1..(queued - 1)
               /\ RowFits(Run, finished'[k].i, finished'[k].row,
                          asked[finished'[k].i])
               /\ \A v \in Threads : Busy(v)' => job'[v].i # finished'[k].i
    <3>1. CASE k = last
      BY <1>2, <1>3, <1>4, <2>1, <3>1 DEF GradeInv, JobsInv, Busy
    <3>2. CASE k \in DOMAIN finished
      BY <1>2, <1>3, <1>4, <3>2 DEF GradeInv, RowsInv, Busy
    <3>3. QED
      BY <1>4, <3>1, <3>2
  <2>4. \A j, k \in DOMAIN finished' : finished'[j].i = finished'[k].i => j = k
    <3>1. \A j, k \in DOMAIN finished : finished[j].i = finished[k].i => j = k
      BY DEF GradeInv, RowsInv
    <3>2. QED
      BY <1>4, <2>2, <3>1
  <2>5. ASSUME NEW i \in 1..(queued - 1)
        PROVE  \/ \E k \in DOMAIN finished' : finished'[k].i = i
               \/ \E v \in Threads : Busy(v)' /\ job'[v].i = i
    <3>1. CASE i = job[w].i
      BY <1>4, <3>1
    <3>2. CASE i # job[w].i
      BY <1>2, <1>4, <3>2 DEF GradeInv, RowsInv, Busy
    <3>3. QED
      BY <3>1, <3>2
  <2>6. QED
    BY <1>1, <1>4, <2>3, <2>4, <2>5 DEF RowsInv
<1>8. SummariesInv'
  BY <1>1 DEF GradeInv, SummariesInv
<1>9. QED
  BY <1>5, <1>6, <1>7, <1>8 DEF GradeInv

LEMMA TakeFits ==
  ASSUME GradeInv, NEW w \in Threads, Take(w)
  PROVE  GradeInv'
<1> DEFINE x == [Idle EXCEPT !.at = "examine", !.i = queued,
                             !.rev = Indexed[Run.commit], !.run = Run.commit]
<1>1. /\ queued <= Len(Packet) /\ turn <= Len(plan) /\ ~Busy(w)
      /\ job' = [job EXCEPT ![w] = x]
      /\ queued' = queued + 1
      /\ asked' = Append(asked, 0)
      /\ UNCHANGED <<plan, turn, finished, summaries>>
      /\ Run' = Run /\ Packet' = Packet
  BY DEF Take, Run, Packet, Busy
<1>2. /\ DOMAIN x = Fields /\ x.at = "examine" /\ x.i = queued
      /\ x.rev = Indexed[Run.commit] /\ x.answer.about = None
      /\ DOMAIN x.answer = {"about", "empty", "ok"} /\ x.cache = None
  BY DEF Idle, NoAnswer, Fields
<1> HIDE DEF x
<1>3. job' = [v \in Threads |-> job'[v]]
        /\ \A v \in Threads : job'[v] = IF v = w THEN x ELSE job[v]
  BY <1>1 DEF GradeInv, JobsInv
<1>4. /\ asked' \in Seq(Nat) /\ Len(asked') = queued
      /\ asked'[queued] = 0
      /\ \A i \in 1..(queued - 1) : asked'[i] = asked[i]
  BY <1>1 DEF GradeInv, PoolInv
<1>5. JobFits(Run, x, 0)
  BY <1>2, ReceiptAssumption DEF JobFits, Own, Cost
<1>6. queued \in Nat \ {0}
  BY DEF GradeInv, PoolInv
<1>7. PoolInv'
  BY <1>1, <1>4, PlanShape DEF GradeInv, PoolInv
<1>8. JobsInv'
  BY <1>1, <1>2, <1>3, <1>4, <1>5, <1>6 DEF GradeInv, JobsInv, Busy
<1>9. RowsInv'
  <2>1. ASSUME NEW k \in DOMAIN finished
        PROVE  /\ finished[k].i \in 1..queued
               /\ RowFits(Run, finished[k].i, finished[k].row,
                          asked'[finished[k].i])
               /\ \A v \in Threads : Busy(v)' => job'[v].i # finished[k].i
    <3>1. finished[k].i \in 1..(queued - 1)
      BY <2>1 DEF GradeInv, RowsInv
    <3>2. finished[k].i \in 1..queued /\ finished[k].i # queued
      BY <1>6, <3>1
    <3>3. asked'[finished[k].i] = asked[finished[k].i]
      BY <1>4, <3>1
    <3>4. RowFits(Run, finished[k].i, finished[k].row, asked'[finished[k].i])
      BY <2>1, <3>3 DEF GradeInv, RowsInv
    <3>5. \A v \in Threads : Busy(v)' => job'[v].i # finished[k].i
      BY <1>2, <1>3, <2>1, <3>2 DEF GradeInv, RowsInv, Busy
    <3>6. QED
      BY <3>2, <3>4, <3>5
  <2>2. ASSUME NEW i \in 1..queued
        PROVE  \/ \E k \in DOMAIN finished : finished[k].i = i
               \/ \E v \in Threads : Busy(v)' /\ job'[v].i = i
    <3>1. CASE i = queued
      BY <1>2, <1>3, <3>1 DEF Busy
    <3>2. CASE i \in 1..(queued - 1)
      BY <1>1, <1>3, <3>2 DEF GradeInv, RowsInv, Busy
    <3>3. QED
      BY <1>6, <3>1, <3>2
  <2>3. /\ \E S : finished' \in Seq(S)
        /\ \A j, k \in DOMAIN finished : finished[j].i = finished[k].i => j = k
    BY <1>1 DEF GradeInv, RowsInv
  <2>4. queued' - 1 = queued /\ finished' = finished /\ Run' = Run
    BY <1>1, <1>6
  <2>5. QED
    BY <2>1, <2>2, <2>3, <2>4 DEF RowsInv
<1>10. SummariesInv'
  BY <1>1 DEF GradeInv, SummariesInv
<1>11. QED
  BY <1>7, <1>8, <1>9, <1>10 DEF GradeInv
-----------------------------------------------------------------------------
(* The rows a thread may finish with *)

LEMMA ErrorFits ==
  ASSUME GradeInv, NEW w \in Threads, Busy(w), Finish(w, ErrorRow(Receipt(w)))
  PROVE  GradeInv'
<1>1. RowFits(Run, job[w].i, ErrorRow(Receipt(w)), asked[job[w].i])
  BY DEF RowFits, ErrorRow, Row, Receipt, Packet, Passes, PassGrades, Own
<1>2. QED
  BY <1>1, FinishFits

LEMMA SkipFits ==
  ASSUME GradeInv, NEW w \in Threads, job[w].at \in {"examine", "pin"},
         NEW score, Finish(w, SkipRow(Receipt(w), score))
  PROVE  GradeInv'
<1>1. Busy(w)
  BY DEF Busy
<1>2. asked[job[w].i] = Cost(job[w].cache) /\ job[w].cache = None
  BY <1>1, BusyRuns DEF GradeInv, JobFits
<1>3. RowFits(Run, job[w].i, SkipRow(Receipt(w), score), asked[job[w].i])
  BY <1>2 DEF RowFits, SkipRow, Row, Receipt, Packet, Passes, PassGrades, Own
<1>4. QED
  BY <1>1, <1>3, FinishFits

\* A verdict that passes counts, and the verdict is about the receipt.
LEMMA VerdictFits ==
  ASSUME GradeInv, NEW w \in Threads, job[w].at = "grade",
         NEW grade, Finish(w, GradedRow(w, grade))
  PROVE  GradeInv'
<1> DEFINE r == Receipt(w)
           tool == Translate(r)
           lane == Lane(tool, r)
           score == ScoreStatus(grade, job[w].source, job[w].atRun,
                                job[w].binding)
           row == Row(r, grade, tool, lane, score, job[w].cache, job[w].rev,
                      job[w].answer.about)
<1>1. Busy(w) /\ GradedRow(w, grade) = row
  BY DEF Busy, GradedRow
<1>2. asked[job[w].i] = Cost(job[w].cache)
        /\ Own(Run, r, job[w].answer.about, job[w].rev)
  BY <1>1, BusyRuns DEF GradeInv, JobFits, Receipt, Packet
<1>3. grade \in PassGrades => score = "counted"
  BY DEF ScoreStatus, Failing, PassGrades
<1>4. r.id = Run.packet[job[w].i].id /\ r = Run.packet[job[w].i]
  BY DEF Receipt, Packet
<1> HIDE DEF r, tool, lane, score
<1>5. RowFits(Run, job[w].i, row, asked[job[w].i])
  BY <1>2, <1>3, <1>4 DEF RowFits, Row, Passes, Counted
<1>6. QED
  BY <1>1, <1>5, FinishFits
-----------------------------------------------------------------------------
(* The steps of a thread *)

\* A thread that goes on without having asked Atlas.
LEMMA GotoFits ==
  ASSUME GradeInv, NEW w \in Threads, Busy(w), NEW x, Goto(w, x),
         x.i = job[w].i, DOMAIN x = Fields, x.at # "idle",
         JobFits(Run, x, asked[x.i]), asked' = asked
  PROVE  GradeInv'
<1>1. x.i \in DOMAIN asked /\ asked \in Seq(Nat)
  BY BusyRuns DEF GradeInv, PoolInv
<1>2. asked[x.i] \in Nat /\ asked = [asked EXCEPT ![x.i] = asked[x.i]]
  BY <1>1
<1>3. QED
  BY <1>2, GoingOnFits DEF Goto

LEMMA ExamineFits ==
  ASSUME GradeInv, NEW w \in Threads, Examine(w)
  PROVE  GradeInv'
<1>1. Busy(w) /\ job[w].at = "examine"
  BY DEF Examine, Busy
<1>2. PICK skip, source :
        IF skip # None THEN Finish(w, SkipRow(Receipt(w), skip))
        ELSE /\ Goto(w, [job[w] EXCEPT !.at = Route(Receipt(w)),
                                       !.source = source])
             /\ asked' = asked
  BY DEF Examine
<1>3. CASE skip # None
  BY <1>1, <1>2, <1>3, SkipFits
<1>4. CASE skip = None
  <2> DEFINE x == [job[w] EXCEPT !.at = Route(Receipt(w)), !.source = source]
  <2>1. Goto(w, x) /\ asked' = asked
    BY <1>2, <1>4
  <2>2. DOMAIN x = Fields /\ x.at = Route(Receipt(w)) /\ x.i = job[w].i
          /\ x.rev = job[w].rev /\ x.answer = job[w].answer
          /\ x.cache = job[w].cache
    BY DEF GradeInv, JobsInv, Fields
  <2> HIDE DEF x
  <2>3. JobFits(Run, job[w], asked[x.i])
    BY <1>1, <2>2, BusyRuns DEF GradeInv
  <2>4. x.at \in {"doc", "pin", "lookup"}
          /\ (x.at = "pin" => Run.pin = "receipt-source")
          /\ (x.at = "lookup" => Run.pin # "receipt-source")
    BY <2>2 DEF Route
  <2>5. JobFits(Run, x, asked[x.i])
    BY <1>1, <2>2, <2>3, <2>4 DEF JobFits, Own, Wanted
  <2>6. QED
    BY <1>1, <2>1, <2>2, <2>4, <2>5, GotoFits
<1>5. QED
  BY <1>3, <1>4

LEMMA AskDocsFits ==
  ASSUME GradeInv, NEW w \in Threads, AskDocs(w)
  PROVE  GradeInv'
<1>1. Busy(w) /\ job[w].at = "doc"
  BY DEF AskDocs, Busy
<1>2. PICK binding, empty :
        /\ Goto(w, [job[w] EXCEPT !.at = "grade", !.binding = binding,
                                  !.answer.empty = empty])
        /\ asked' = asked
  BY DEF AskDocs
<1> DEFINE x == [job[w] EXCEPT !.at = "grade", !.binding = binding,
                               !.answer.empty = empty]
<1>3. DOMAIN job[w] = Fields /\ JobFits(Run, job[w], asked[job[w].i])
  BY <1>1, BusyRuns DEF GradeInv, JobsInv
<1>4. DOMAIN x = Fields /\ x.at = "grade" /\ x.i = job[w].i
        /\ x.rev = job[w].rev /\ x.answer.about = job[w].answer.about
        /\ DOMAIN x.answer = {"about", "empty", "ok"} /\ x.cache = job[w].cache
  BY <1>3 DEF JobFits, Fields
<1>5. Goto(w, x)
  BY <1>2
<1> HIDE DEF x
<1>6. JobFits(Run, x, asked[x.i])
  BY <1>1, <1>3, <1>4 DEF JobFits, Own
<1>7. QED
  BY <1>1, <1>2, <1>4, <1>5, <1>6, GotoFits

LEMMA PinRevisionFits ==
  ASSUME GradeInv, NEW w \in Threads, PinRevision(w)
  PROVE  GradeInv'
<1>1. Busy(w) /\ job[w].at = "pin"
  BY DEF PinRevision, Busy
<1>2. PICK ok \in BOOLEAN :
        LET r == Receipt(w)
            rev == LedgerRevision(r.commit, ok)
        IN IF rev = None
           THEN Finish(w, SkipRow(r, "skipped_revision_not_indexed"))
           ELSE /\ Goto(w, [job[w] EXCEPT !.at = "lookup", !.rev = rev,
                                          !.run = r.commit.of])
                /\ asked' = asked
  BY DEF PinRevision
<1> DEFINE r == Receipt(w)
           rev == LedgerRevision(r.commit, ok)
<1>3. CASE rev = None
  BY <1>1, <1>2, <1>3, SkipFits
<1>4. CASE rev # None
  <2> DEFINE x == [job[w] EXCEPT !.at = "lookup", !.rev = rev,
                                 !.run = r.commit.of]
  <2>1. Goto(w, x) /\ asked' = asked
    BY <1>2, <1>4
  <2>2. rev = Indexed[r.commit.of]
    BY <1>4 DEF LedgerRevision
  <2>3. r = Run.packet[job[w].i]
    BY DEF Receipt, Packet
  <2> HIDE DEF r, rev
  <2>4. DOMAIN x = Fields /\ x.at = "lookup" /\ x.i = job[w].i
          /\ x.rev = rev /\ x.answer = job[w].answer
          /\ x.cache = job[w].cache
    BY DEF GradeInv, JobsInv, Fields
  <2> HIDE DEF x
  <2>5. JobFits(Run, job[w], asked[x.i])
    BY <1>1, <2>4, BusyRuns DEF GradeInv
  <2>6. JobFits(Run, x, asked[x.i])
    BY <1>1, <2>2, <2>3, <2>4, <2>5 DEF JobFits, Own, Wanted
  <2>7. QED
    BY <1>1, <2>1, <2>4, <2>6, GotoFits
<1>5. QED
  BY <1>3, <1>4

\* A hit has the answer to the very query that this receipt calls for.
LEMMA LookupFits ==
  ASSUME GradeInv, CacheInv, NEW w \in Threads, Lookup(w)
  PROVE  GradeInv'
<1>1. Busy(w) /\ job[w].at = "lookup" /\ asked' = asked
  BY DEF Lookup, Busy
<1>2. /\ DOMAIN job[w] = Fields
      /\ JobFits(Run, job[w], asked[job[w].i])
  BY <1>1, BusyRuns DEF GradeInv, JobsInv
<1>3. CASE Run.cached /\ Cached(Key(w))
  <2> DEFINE answer == cache[Key(w)].answer
             x == [job[w] EXCEPT !.at = "count", !.cache = "hit",
                                 !.answer = answer]
  <2>1. Goto(w, x)
    BY <1>3 DEF Lookup
  <2>2. DOMAIN answer = {"about", "empty", "ok"}
          /\ answer.about.text = QueryText(Receipt(w))
          /\ answer.about.rev = job[w].rev
    <3>1. Key(w)[1] = QueryText(Receipt(w)) /\ Key(w)[6] = job[w].rev
      BY DEF Key
    <3> DEFINE k == Key(w)
    <3> HIDE DEF k
    <3>2. DOMAIN cache[k].answer = {"about", "empty", "ok"}
            /\ cache[k].answer.about = [text |-> k[1], tool |-> k[2],
                                        rev |-> k[6]]
      BY <1>3 DEF CacheInv, Cached, k
    <3>3. cache[k].answer.about.text = k[1] /\ cache[k].answer.about.rev = k[6]
      BY <3>2
    <3>4. QED
      BY <3>1, <3>2, <3>3 DEF k
  <2> HIDE DEF answer
  <2>3. DOMAIN x = Fields /\ x.at = "count" /\ x.i = job[w].i
          /\ x.rev = job[w].rev /\ x.answer = answer /\ x.cache = "hit"
    BY <1>2 DEF Fields
  <2> HIDE DEF x
  <2>4. JobFits(Run, x, asked[x.i])
    BY <1>1, <1>2, <2>2, <2>3, ReceiptAssumption
       DEF JobFits, Own, Cost, Receipt, Packet
  <2>5. QED
    BY <1>1, <2>1, <2>3, <2>4, GotoFits
<1>4. CASE ~(Run.cached /\ Cached(Key(w)))
  <2> DEFINE status == IF Run.cached THEN "miss" ELSE "disabled"
             x == [job[w] EXCEPT !.at = "ask", !.cache = status]
  <2>1. Goto(w, x)
    BY <1>4 DEF Lookup
  <2>2. DOMAIN x = Fields /\ x.at = "ask" /\ x.i = job[w].i
          /\ x.rev = job[w].rev /\ x.answer = job[w].answer
          /\ x.cache \in {"miss", "disabled"}
    BY <1>2 DEF Fields
  <2> HIDE DEF x
  <2>3. asked[job[w].i] = 0
    BY <1>1, <1>2, ReceiptAssumption DEF JobFits, Cost
  <2>4. JobFits(Run, x, asked[x.i])
    BY <1>1, <1>2, <2>2, <2>3 DEF JobFits, Own
  <2>5. QED
    BY <1>1, <2>1, <2>2, <2>4, GotoFits
<1>5. QED
  BY <1>3, <1>4

\* Atlas is asked once, and the answer is about this receipt.
LEMMA AskFits ==
  ASSUME GradeInv, NEW w \in Threads, Ask(w)
  PROVE  GradeInv'
<1>1. Busy(w) /\ job[w].at = "ask"
  BY DEF Ask, Busy
<1>2. /\ DOMAIN job[w] = Fields /\ job[w].i \in DOMAIN asked
      /\ JobFits(Run, job[w], asked[job[w].i])
  BY <1>1, BusyRuns DEF GradeInv, JobsInv
<1>3. PICK ok \in BOOLEAN, answered \in BOOLEAN, empty \in BOOLEAN :
        /\ ok => answered
        /\ Goto(w, [job[w] EXCEPT
              !.at = IF ok /\ Run.cached THEN "store" ELSE "drift",
              !.answer = [about |-> IF answered THEN Query(w) ELSE None,
                          empty |-> empty, ok |-> ok]])
  BY DEF Ask
<1> DEFINE about == IF answered THEN Query(w) ELSE None
           x == [job[w] EXCEPT !.at = IF ok /\ Run.cached THEN "store"
                                      ELSE "drift",
                               !.answer = [about |-> about, empty |-> empty,
                                           ok |-> ok]]
<1>4. /\ job' = [job EXCEPT ![w] = x]
      /\ UNCHANGED <<plan, turn, queued, finished, summaries>>
  BY <1>3 DEF Goto
<1>5. DOMAIN x = Fields /\ x.i = job[w].i /\ x.at \in {"store", "drift"}
        /\ (x.at = "store" => ok /\ answered) /\ x.answer.ok = ok
        /\ x.rev = job[w].rev /\ x.answer.about = about
        /\ DOMAIN x.answer = {"about", "empty", "ok"} /\ x.cache = job[w].cache
  BY <1>2, <1>3 DEF Fields
<1>6. about = IF answered THEN QueryFor(Run.packet[job[w].i], job[w].rev) ELSE None
  BY DEF Query, QueryFor, Receipt, Packet
<1> HIDE DEF x, about
<1>7. JobFits(Run, x, 1)
  BY <1>1, <1>2, <1>5, <1>6 DEF JobFits, Own, Cost, QueryFor
<1>8. asked[job[w].i] = 0
  BY <1>1, <1>2 DEF JobFits
<1>9. asked' = [asked EXCEPT ![x.i] = 1]
  BY <1>5, <1>8 DEF Ask
<1>10. QED
  BY <1>1, <1>4, <1>5, <1>7, <1>9, GoingOnFits

\* The steps that change neither the answer nor what was asked.
LEMMA LaterStepsFit ==
  ASSUME GradeInv, NEW w \in Threads,
         Count(w) \/ Keep(w) \/ SnapshotRun(w)
  PROVE  GradeInv'
<1>1. Busy(w) /\ job[w].at \in {"count", "store", "drift"} /\ asked' = asked
  BY DEF Busy, Count, Keep, SnapshotRun
<1>2. /\ DOMAIN job[w] = Fields
      /\ JobFits(Run, job[w], asked[job[w].i])
  BY <1>1, BusyRuns DEF GradeInv, JobsInv
<1>3. PICK x : /\ Goto(w, x)
               /\ DOMAIN x = Fields /\ x.i = job[w].i
               /\ x.at \in {"drift", "grade"}
               /\ x.rev = job[w].rev /\ x.answer = job[w].answer
               /\ x.cache = job[w].cache
  <2>1. CASE Count(w) \/ Keep(w)
    <3> DEFINE x == [job[w] EXCEPT !.at = "drift"]
    <3>1. Goto(w, x)
      BY <2>1 DEF Count, Keep
    <3>2. DOMAIN x = Fields /\ x.i = job[w].i /\ x.at = "drift"
            /\ x.rev = job[w].rev /\ x.answer = job[w].answer
            /\ x.cache = job[w].cache
      BY <1>2 DEF Fields
    <3> HIDE DEF x
    <3>3. QED
      BY <3>1, <3>2
  <2>2. CASE SnapshotRun(w)
    <3> DEFINE atRun == Snapshot(Receipt(w), [of |-> job[w].run,
                                              short |-> FALSE])
               x == [job[w] EXCEPT !.at = "grade", !.atRun = atRun]
    <3>1. Goto(w, x)
      BY <2>2 DEF SnapshotRun
    <3> HIDE DEF atRun
    <3>2. DOMAIN x = Fields /\ x.i = job[w].i /\ x.at = "grade"
            /\ x.rev = job[w].rev /\ x.answer = job[w].answer
            /\ x.cache = job[w].cache
      BY <1>2 DEF Fields
    <3> HIDE DEF x
    <3>3. QED
      BY <3>1, <3>2
  <2>3. QED
    BY <2>1, <2>2
<1>4. JobFits(Run, x, asked[x.i])
  BY <1>1, <1>2, <1>3 DEF JobFits, Own
<1>5. QED
  BY <1>1, <1>3, <1>4, GotoFits

\* A step of the pool preserves the invariant.
LEMMA WorkFits ==
  ASSUME GradeInv, CacheInv, NEW w \in Threads, Work(w)
  PROVE  GradeInv'
<1>1. ASSUME job[w].at # "idle", Raise(w) PROVE GradeInv'
  BY <1>1, ErrorFits DEF Raise, Busy
<1>2. CASE \/ SnapshotRaises(w) \/ DocsRaise(w) \/ QueryRaises(w)
           \/ RunSnapshotRaises(w)
  BY <1>1, <1>2 DEF SnapshotRaises, DocsRaise, QueryRaises, RunSnapshotRaises
<1>3. CASE Grade(w) \/ GradeRaises(w)
  BY <1>3, VerdictFits DEF Grade, GradeRaises
<1>4. QED
  BY <1>2, <1>3, TakeFits, ExamineFits, AskDocsFits, PinRevisionFits,
     LookupFits, AskFits, LaterStepsFit DEF Work
-----------------------------------------------------------------------------
(* The cache *)

\* What is kept under a key is the answer to the query the key tells.
LEMMA CacheKept ==
  ASSUME GradeInv, CacheInv, Next
  PROVE  CacheInv'
<1>1. ASSUME NEW w \in Threads, Count(w) PROVE CacheInv'
  BY <1>1 DEF Count, CountHit, CacheInv, Keys, Cached
<1>2. ASSUME NEW w \in Threads, Keep(w) PROVE CacheInv'
  <2>1. Busy(w) /\ job[w].at = "store"
    BY <1>2 DEF Keep, Busy
  <2>2. JobFits(Run, job[w], asked[job[w].i])
    BY <2>1, BusyRuns DEF GradeInv
  <2> DEFINE key == Key(w)
             answer == job[w].answer
  <2>3. DOMAIN answer = {"about", "empty", "ok"}
          /\ answer.about = [text |-> key[1], tool |-> key[2], rev |-> key[6]]
          /\ answer.ok
    BY <2>1, <2>2 DEF JobFits, QueryFor, Key, Receipt, Packet
  <2>4. cache' = cache \/ Store(key, answer)
    BY <1>2 DEF Keep
  <2> HIDE DEF key, answer
  <2>5. CASE cache' = cache
    BY <2>5 DEF CacheInv, Keys
  <2>6. CASE Store(key, answer)
    <3>1. /\ DOMAIN cache' = DOMAIN cache \cup {key}
          /\ \A k \in DOMAIN cache \cup {key} :
                cache'[k] = IF k = key THEN [answer |-> answer, hits |-> 0]
                            ELSE cache[k]
      BY <2>6 DEF Store, Entry, Keys
    <3>2. ASSUME NEW k \in DOMAIN cache'
          PROVE  /\ DOMAIN cache'[k] = {"answer", "hits"}
                 /\ DOMAIN cache'[k].answer = {"about", "empty", "ok"}
                 /\ cache'[k].answer.about = [text |-> k[1], tool |-> k[2],
                                              rev |-> k[6]]
                 /\ cache'[k].answer.ok
      <4>1. CASE k = key
        <5>1. cache'[k] = [answer |-> answer, hits |-> 0]
          BY <3>1, <4>1
        <5>2. cache'[k].answer = answer /\ DOMAIN cache'[k] = {"answer", "hits"}
          BY <5>1
        <5>3. QED
          BY <2>3, <4>1, <5>2
      <4>2. CASE k # key
        BY <3>1, <4>2 DEF CacheInv, Keys
      <4>3. QED
        BY <4>1, <4>2
    <3>3. QED
      BY <3>2 DEF CacheInv, Keys
  <2>7. QED
    BY <2>4, <2>5, <2>6
<1>3. CASE TruncateCache
  <2>1. DOMAIN cache' = {}
    BY <1>3 DEF TruncateCache, Truncate
  <2>2. QED
    BY <2>1 DEF CacheInv, Keys
<1>4. ASSUME NEW w \in Threads, Work(w), ~Count(w), ~Keep(w)
      PROVE  cache' = cache
  BY <1>4 DEF Work, Take, Examine, SnapshotRaises, AskDocs, DocsRaise,
     PinRevision, Lookup, QueryRaises, Ask, SnapshotRun, RunSnapshotRaises,
     Grade, GradeRaises, Raise
<1>5. CASE Summarise \/ Done
  BY <1>5 DEF Summarise, Done, vars, CacheInv, Keys
<1>6. QED
  BY <1>1, <1>2, <1>3, <1>4, <1>5 DEF Next, CacheInv, Keys
-----------------------------------------------------------------------------
(* The end of a run *)

\* Numbers that are all different and all there can be told by counting.
LEMMA PlaceByCounting ==
  ASSUME NEW n \in Nat, NEW m \in Nat, NEW f \in Bijection(1..n, 1..m)
  PROVE  /\ n = m
         /\ \A k \in 1..n : Cardinality({j \in 1..n : f[j] <= f[k]}) = f[k]
<1>1. /\ f \in [1..n -> 1..m]
      /\ \A j, k \in 1..n : f[j] = f[k] => j = k
      /\ \A i \in 1..m : \E k \in 1..n : f[k] = i
  BY DEF Bijection, Injection, Surjection, IsInjective
<1>2. /\ IsFiniteSet(1..n) /\ Cardinality(1..n) = n
      /\ Cardinality(1..m) = m
  BY FS_Interval
<1>3. n = m
  BY <1>2, FS_Bijection DEF ExistsBijection
<1>4. ASSUME NEW k \in 1..n
      PROVE  Cardinality({j \in 1..n : f[j] <= f[k]}) = f[k]
  <2> DEFINE S == {j \in 1..n : f[j] <= f[k]}
             g == [j \in S |-> f[j]]
  <2>1. f[k] \in 1..m
    BY <1>1
  <2>2. g \in [S -> 1..f[k]]
    BY <1>1, <2>1
  <2>3. g \in Bijection(S, 1..f[k])
    BY <1>1, <2>1, <2>2 DEF Bijection, Injection, Surjection, IsInjective
  <2>4. IsFiniteSet(S)
    BY <1>2, FS_Subset
  <2>5. Cardinality(1..f[k]) = f[k]
    BY <2>1, FS_Interval
  <2> HIDE DEF S, g
  <2>6. Cardinality(1..f[k]) = Cardinality(S)
    BY <2>3, <2>4, FS_Bijection DEF ExistsBijection
  <2>7. QED
    BY <2>5, <2>6 DEF S
<1>5. QED
  BY <1>3, <1>4

\* When all futures are done, the rows are those of the receipts.
LEMMA SortedRows ==
  ASSUME GradeInv, turn <= Len(plan), queued > Len(Packet),
         \A w \in Threads : ~Busy(w)
  PROVE  /\ OrderedRows \in Seq({OrderedRows[i] : i \in DOMAIN OrderedRows})
         /\ Len(OrderedRows) = Len(Packet)
         /\ \A i \in DOMAIN Packet :
               /\ RowFits(Run, i, OrderedRows[i], asked[i])
               /\ \E k \in DOMAIN finished :
                     finished[k].i = i /\ OrderedRows[i] = finished[k].row
<1> DEFINE n == Len(finished)
           m == Len(Packet)
           f == [k \in 1..n |-> finished[k].i]
<1>1. n \in Nat /\ DOMAIN finished = 1..n
  <2>1. PICK S : finished \in Seq(S)
    BY DEF GradeInv, RowsInv
  <2>2. QED
    BY <2>1
<1>2. m \in Nat /\ DOMAIN Packet = 1..m /\ queued - 1 = m
  BY PlanShape DEF GradeInv, PoolInv, Packet, Run
<1>3. \A k \in 1..n : finished[k].i \in 1..m
  BY <1>1, <1>2 DEF GradeInv, RowsInv
<1>4. \A j, k \in 1..n : finished[j].i = finished[k].i => j = k
  BY <1>1 DEF GradeInv, RowsInv
<1>5. \A i \in 1..m : \E k \in 1..n : finished[k].i = i
  BY <1>1, <1>2 DEF GradeInv, RowsInv
<1>6. \A k \in 1..n :
         RowFits(Run, finished[k].i, finished[k].row, asked[finished[k].i])
  BY <1>1 DEF GradeInv, RowsInv
<1> HIDE DEF m, n
<1>7. f \in [1..n -> 1..m] /\ \A k \in 1..n : f[k] = finished[k].i
  BY <1>3
<1>8. n = m
        /\ \A k \in 1..n : Cardinality({j \in 1..n : f[j] <= f[k]}) = f[k]
  <2>1. \A j, k \in 1..n : f[j] = f[k] => j = k
    BY <1>4, <1>7
  <2>2. \A i \in 1..m : \E k \in 1..n : f[k] = i
    BY <1>5, <1>7
  <2>3. f \in [1..n -> 1..m]
    BY <1>7
  <2> HIDE DEF f
  <2>4. f \in Bijection(1..n, 1..m)
    BY <2>1, <2>2, <2>3 DEF Bijection, Injection, Surjection, IsInjective
  <2>5. QED
    BY <1>1, <1>2, <2>4, PlaceByCounting
<1>9. \A k \in 1..n : Place(k) = finished[k].i
  <2> SUFFICES ASSUME NEW k \in 1..n PROVE Place(k) = finished[k].i
    OBVIOUS
  <2>1. {j \in DOMAIN finished : finished[j].i <= finished[k].i}
          = {j \in 1..n : f[j] <= f[k]}
    BY <1>1, <1>7
  <2>2. QED
    BY <1>7, <1>8, <2>1 DEF Place
<1>10. OrderedRows = [p \in 1..m |->
          finished[CHOOSE j \in 1..n : Place(j) = p].row]
  BY <1>1, <1>8 DEF OrderedRows
<1>11. ASSUME NEW i \in 1..m
       PROVE  /\ RowFits(Run, i, OrderedRows[i], asked[i])
              /\ \E k \in 1..n :
                    finished[k].i = i /\ OrderedRows[i] = finished[k].row
  <2> DEFINE k == CHOOSE j \in 1..n : Place(j) = i
  <2>1. \E j \in 1..n : Place(j) = i
    BY <1>5, <1>9
  <2>2. k \in 1..n /\ Place(k) = i
    BY <2>1
  <2>3. OrderedRows[i] = finished[k].row
    BY <1>10
  <2> HIDE DEF k
  <2>4. QED
    BY <1>6, <1>9, <2>2, <2>3
<1>12. /\ OrderedRows \in Seq({OrderedRows[i] : i \in DOMAIN OrderedRows})
       /\ Len(OrderedRows) = m
  <2>1. OrderedRows = [p \in 1..m |-> OrderedRows[p]]
    BY <1>10
  <2>2. OrderedRows \in [1..m -> {OrderedRows[i] : i \in DOMAIN OrderedRows}]
    BY <2>1
  <2>3. QED
    BY <1>2, <2>2
<1>13. QED
  BY <1>1, <1>2, <1>11, <1>12 DEF m

LEMMA SummariseFits ==
  ASSUME GradeInv, Summarise
  PROVE  GradeInv'
<1> DEFINE s == [rows |-> OrderedRows, asked |-> asked, faults |-> faults,
                 numbers |-> Summary(OrderedRows, Threshold)]
<1>1. /\ turn <= Len(plan) /\ queued > Len(Packet)
      /\ \A w \in Threads : ~Busy(w)
      /\ summaries' = Append(summaries, s)
      /\ turn' = turn + 1 /\ queued' = 1
      /\ finished' = <<>> /\ asked' = <<>>
      /\ UNCHANGED <<plan, job>>
  BY DEF Summarise, Busy
<1>2. SummaryFits(Run, s)
  BY <1>1, SortedRows DEF SummaryFits, Packet
<1> HIDE DEF s
<1>3. Len(plan) \in Nat /\ turn \in 1..Len(plan)
  BY <1>1, PlanShape DEF GradeInv, PoolInv
<1>4. <<>> \in Seq(Nat) /\ Len(<<>>) = 0 /\ DOMAIN <<>> = {}
        /\ <<>> \in Seq({})
  OBVIOUS
<1>5. PoolInv'
  <2>1. turn' <= Len(plan') => queued' <= Len(Packet') + 1
    BY <1>1, <1>3, PlanShape DEF GradeInv, PoolInv, Packet, Run
  <2>2. QED
    BY <1>1, <1>3, <1>4, <2>1 DEF GradeInv, PoolInv
<1>6. JobsInv'
  BY <1>1 DEF GradeInv, JobsInv, Busy
<1>7. RowsInv'
  BY <1>1, <1>4 DEF RowsInv
<1>8. SummariesInv'
  <2>1. PICK S : summaries \in Seq(S)
    BY DEF GradeInv, SummariesInv
  <2>2. summaries' \in Seq(S \cup {s})
    BY <1>1, <2>1, AppendFacts
  <2>3. Len(summaries) = turn - 1 /\ DOMAIN summaries = 1..(turn - 1)
    BY <2>1, AppendFacts DEF GradeInv, SummariesInv
  <2>4. Len(summaries') = turn /\ DOMAIN summaries' = 1..turn
    BY <1>1, <1>3, <2>1, <2>3, AppendFacts
  <2>5. \A t \in 1..(turn - 1) : summaries'[t] = summaries[t]
    BY <1>1, <2>1, <2>3, AppendFacts
  <2>6. summaries'[turn] = s
    BY <1>1, <1>3, <2>1, <2>3, AppendFacts
  <2>7. ASSUME NEW t \in 1..turn PROVE SummaryFits(plan[t], summaries'[t])
    <3>1. CASE t = turn
      BY <1>2, <2>6, <3>1 DEF Run
    <3>2. CASE t # turn
      <4>1. t \in 1..(turn - 1)
        BY <1>3, <3>2
      <4>2. QED
        BY <2>3, <2>5, <4>1 DEF GradeInv, SummariesInv
    <3>3. QED
      BY <3>1, <3>2
  <2>8. QED
    BY <1>1, <1>3, <2>2, <2>4, <2>7 DEF SummariesInv
<1>9. QED
  BY <1>5, <1>6, <1>7, <1>8 DEF GradeInv
-----------------------------------------------------------------------------
(* The theorems *)

LEMMA GradeInvariance == Spec => [](GradeInv /\ CacheInv)
<1>1. Init => GradeInv /\ CacheInv
  <2> SUFFICES ASSUME Init PROVE GradeInv /\ CacheInv
    OBVIOUS
  <2>1. <<>> \in Seq(Nat) /\ Len(<<>>) = 0 /\ DOMAIN <<>> = {}
          /\ <<>> \in Seq({})
    OBVIOUS
  <2>2. plan \in Seq({plan[t] : t \in DOMAIN plan})
    BY ReceiptAssumption DEF Init
  <2>3. Len(plan) \in Nat /\ DOMAIN plan = 1..Len(plan)
    BY <2>2
  <2>4. turn <= Len(plan) => Len(Packet) \in Nat
    <3>1. CASE turn <= Len(plan)
      <4>1. turn \in DOMAIN plan
        BY <2>3, <3>1 DEF Init
      <4>2. Packet \in Seq({Packet[i] : i \in DOMAIN Packet})
        BY <4>1, ReceiptAssumption DEF Init, Packet, Run
      <4>3. QED
        BY <4>2
    <3>2. QED
      BY <3>1
  <2>5. PoolInv
    BY <2>1, <2>3, <2>4 DEF Init, PoolInv
  <2>6. Idle.at = "idle" /\ DOMAIN Idle = Fields
    BY DEF Idle, Fields
  <2>7. JobsInv
    BY <2>6 DEF Init, JobsInv, Busy
  <2>8. RowsInv /\ SummariesInv
    BY <2>1, <2>3 DEF Init, RowsInv, SummariesInv
  <2>9. CacheInv
    BY <2>1 DEF Init, CacheInit, CacheInv, Keys
  <2>10. QED
    BY <2>5, <2>7, <2>8, <2>9 DEF GradeInv
<1>2. GradeInv /\ CacheInv /\ [Next]_vars => GradeInv' /\ CacheInv'
  <2> SUFFICES ASSUME GradeInv, CacheInv, [Next]_vars
               PROVE  GradeInv' /\ CacheInv'
    OBVIOUS
  <2>1. CASE Next
    <3>1. CacheInv'
      BY <2>1, CacheKept
    <3>2. ASSUME NEW w \in Threads, Work(w) PROVE GradeInv'
      BY <3>2, WorkFits
    <3>3. CASE TruncateCache \/ Done
      <4>1. UNCHANGED <<plan, turn, queued, job, finished, summaries, asked>>
        BY <3>3 DEF TruncateCache, Done, vars
      <4>2. QED
        BY <3>1, <4>1 DEF GradeInv, PoolInv, JobsInv, RowsInv, SummariesInv,
                          Busy, Run, Packet
    <3>4. CASE Summarise
      BY <3>1, <3>4, SummariseFits
    <3>5. QED
      BY <2>1, <3>1, <3>2, <3>3, <3>4 DEF Next
  <2>2. CASE UNCHANGED vars
    BY <2>2 DEF vars, GradeInv, PoolInv, JobsInv, RowsInv, SummariesInv, Busy,
                Run, Packet, CacheInv, Keys
  <2>3. QED
    BY <2>1, <2>2
<1>3. QED
  BY <1>1, <1>2, PTL DEF Spec

\* What a run that ended has left.
LEMMA EndedRun ==
  ASSUME GradeInv, NEW t \in DOMAIN summaries
  PROVE  /\ Len(summaries[t].rows) = Len(plan[t].packet)
         /\ DOMAIN summaries[t].rows = DOMAIN plan[t].packet
         /\ IsFiniteSet(DOMAIN summaries[t].rows)
         /\ \A i \in DOMAIN plan[t].packet :
               RowFits(plan[t], i, summaries[t].rows[i], summaries[t].asked[i])
         /\ summaries[t].numbers = Summary(summaries[t].rows, Threshold)
<1>1. SummaryFits(plan[t], summaries[t])
  BY DEF GradeInv, SummariesInv
<1>2. t \in DOMAIN plan
  <2>1. PICK S : summaries \in Seq(S)
    BY DEF GradeInv, SummariesInv
  <2>2. t \in 1..(turn - 1)
    BY <2>1 DEF GradeInv, SummariesInv
  <2>3. QED
    BY <2>2, PlanShape DEF GradeInv, PoolInv
<1>3. /\ DOMAIN summaries[t].rows = 1..Len(summaries[t].rows)
      /\ Len(summaries[t].rows) \in Nat
  BY <1>1 DEF SummaryFits
<1>4. IsFiniteSet(DOMAIN summaries[t].rows)
  BY <1>3, FS_Interval
<1>5. QED
  BY <1>1, <1>2, <1>3, <1>4, PlanShape DEF GradeInv, SummaryFits

\* Whatever order any number of threads finish in, the rows of a packet are
\* those of its receipts, one for one and in their order.
THEOREM RowsAreTheReceipts == Spec => []RowsAnswerReceipts
<1>1. GradeInv => RowsAnswerReceipts
  BY EndedRun DEF RowsAnswerReceipts, Reported, Of, RowFits
<1>2. QED
  BY <1>1, GradeInvariance, PTL

\* A verdict is about the receipt's own question, asked at the revision its
\* row names and the mode of the run calls for: the cache never mixes up runs,
\* receipts, commits or threads.
THEOREM AnswersAreOwn == Spec => []AnswerIsOwn
<1>1. GradeInv => AnswerIsOwn
  BY EndedRun DEF AnswerIsOwn, Reported, Of, RowFits, Own, Wanted
<1>2. QED
  BY <1>1, GradeInvariance, PTL

\* The cache status of a row tells how often Atlas was asked for it.
THEOREM StatusIsTheCost == Spec => []StatusTellsTheCost
<1>1. GradeInv => StatusTellsTheCost
  BY EndedRun DEF StatusTellsTheCost, Reported, RowFits, Cost
<1>2. QED
  BY <1>1, GradeInvariance, PTL

\* No receipt passes without being counted, so that the passes of a packet
\* are never more than its clean total.
THEOREM PassesAreCounted == Spec => []PassIsCounted
<1>1. GradeInv => PassIsCounted
  <2> SUFFICES ASSUME GradeInv, NEW t \in DOMAIN summaries
               PROVE  /\ \A i \in DOMAIN summaries[t].rows :
                           Passes(Reported(t, i)) => Counted(Reported(t, i))
                      /\ summaries[t].numbers.pass_count
                           <= summaries[t].numbers.clean_total
    BY DEF PassIsCounted
  <2> DEFINE rows == summaries[t].rows
             passing == {i \in DOMAIN rows : Passes(rows[i])}
             counting == {i \in DOMAIN rows : Counted(rows[i])}
  <2>1. \A i \in DOMAIN rows : Passes(rows[i]) => Counted(rows[i])
    BY EndedRun DEF RowFits
  <2>2. IsFiniteSet(DOMAIN rows) /\ summaries[t].numbers = Summary(rows, Threshold)
    BY EndedRun
  <2>3. summaries[t].numbers.pass_count = Cardinality(passing)
          /\ summaries[t].numbers.clean_total = Cardinality(counting)
    BY <2>2 DEF Summary, HowMany
  <2>4. passing \subseteq counting /\ IsFiniteSet(counting)
    BY <2>1, <2>2, FS_Subset
  <2>5. Cardinality(passing) <= Cardinality(counting)
    BY <2>4, FS_Subset
  <2>6. QED
    BY <2>1, <2>3, <2>5 DEF Reported
<1>2. QED
  BY <1>1, GradeInvariance, PTL

\* Only answers are kept in the cache: no entry stems from a failed query.
THEOREM CacheHoldsAnswers ==
  ASSUME \A text, tool, rev : None # [text |-> text, tool |-> tool, rev |-> rev]
  PROVE  Spec => []OnlyAnswersAreKept
<1>1. ASSUME CacheInv PROVE OnlyAnswersAreKept
  <2>1. ASSUME NEW k \in Keys PROVE cache[k].answer.ok
    BY <1>1, <2>1, Zenon DEF CacheInv
  <2>2. ASSUME NEW k \in Keys PROVE cache[k].answer.about # None
    <3>1. cache[k].answer.about = [text |-> k[1], tool |-> k[2], rev |-> k[6]]
      BY <1>1, <2>2, Zenon DEF CacheInv
    <3>2. None # [text |-> k[1], tool |-> k[2], rev |-> k[6]]
      OBVIOUS
    <3>3. QED
      BY <3>1, <3>2, Zenon
  <2>3. QED
    BY <2>1, <2>2, Zenon DEF OnlyAnswersAreKept
<1>2. QED
  BY <1>1, GradeInvariance, PTL
-----------------------------------------------------------------------------
(* What a verdict counts for *)

Full(c) == [of |-> c, short |-> FALSE]

\* The commit a run asks about receipt r at.
AskedAt(run, r) == IF run.pin = "receipt-source" THEN r.commit.of
                   ELSE run.commit

Contradicted(r) == Quotes(r) /\ ~QuoteHolds(r, r.commit)

Consistent(run, r) ==
    /\ Quotes(r) /\ r.command = None
    /\ QuoteHolds(r, r.commit)
    /\ QuoteHolds(r, IF run.pin = "receipt-source" THEN r.commit
                     ELSE Full(run.commit))

Excuses == {"skipped_receipt_stale", "skipped_unavailable_source_ref",
            "skipped_run_commit_line_drift"}

\* No file is where a path of the Atlas package leads, taken from the root of
\* the monorepo.
OneRoot ==
    \A c \in DOMAIN Files : \A p \in DOMAIN Files[c] :
        p # None /\ (LeafPath(p) \in {None, p} \/ Files[c][p] = None)

\* What a thread of run knows of its receipt is true.
JobJudged(run, x) ==
    LET r == run.packet[x.i] IN
    /\ x.at # "examine" =>
          x.source = Snapshot(r, r.commit) /\ r.evidence \notin NonRetrieval
    /\ x.at = "doc" => IsDoc(r)
    /\ ~IsDoc(r) => x.binding = None
    /\ ~IsDoc(r) /\ x.at = "grade" =>
          x.atRun = Snapshot(r, Full(AskedAt(run, r)))
    /\ x.at \in {"examine", "pin"} => x.run = run.commit
    /\ x.at \in {"lookup", "count", "ask", "store", "drift"} =>
          x.run = AskedAt(run, r)

\* A row does justice to receipt i of run.
RowJudged(run, i, row) ==
    LET r == run.packet[i] IN
    /\ row.evidence = r.evidence
    /\ Contradicted(r) => Passes(row) \/ ~Counted(row) \/ row.tool = "error"
    /\ OneRoot /\ Consistent(run, r) => row.score \notin Excuses
    /\ r.evidence \in NonRetrieval => ~Counted(row) \/ row.tool = "error"

JudgeInv ==
    /\ \A w \in Threads : Busy(w) => JobJudged(Run, job[w])
    /\ \A k \in DOMAIN finished :
          RowJudged(Run, finished[k].i, finished[k].row)
    /\ \A t \in DOMAIN summaries : \A i \in DOMAIN plan[t].packet :
          RowJudged(plan[t], i, summaries[t].rows[i])

\* Snapshots tell whether a quote holds.
LEMMA ContradictedSnapshot ==
  ASSUME NEW r, Contradicted(r)
  PROVE  Snapshot(r, r.commit) \in {"missing", "mismatch"} /\ ~IsDoc(r)
<1>1. /\ r.path # None /\ r.commit # None /\ LineRange(r) # None /\ ~IsDoc(r)
      /\ \A p \in {r.path, LeafPath(r.path)} :
            Show(r.commit, p) # None =>
                Slice(Show(r.commit, p), LineRange(r)) # r.expected
  BY DEF Contradicted, Quotes, QuoteHolds, IsDoc
<1>2. CandidatePath(r.commit, r.path) \in {r.path, LeafPath(r.path)}
  BY DEF CandidatePath
<1>3. QED
  BY <1>1, <1>2 DEF Snapshot

LEMMA HoldingSnapshot ==
  ASSUME OneRoot, NEW r, Quotes(r), NEW c, QuoteHolds(r, c)
  PROVE  Snapshot(r, c) = "match" /\ c # None
<1>1. PICK p \in {r.path, LeafPath(r.path)} :
         Show(c, p) # None /\ Slice(Show(c, p), LineRange(r)) = r.expected
  BY DEF QuoteHolds
<1>2. c # None
  BY <1>1 DEF Show
<1>3. p = CandidatePath(c, r.path)
  BY <1>1 DEF OneRoot, Show, CandidatePath
<1>4. QED
  BY <1>1, <1>2, <1>3 DEF Snapshot, Quotes

\* The short name of a commit and its full one show the same.
LEMMA FullSnapshot ==
  ASSUME OneRoot, NEW r, Quotes(r), QuoteHolds(r, r.commit)
  PROVE  Snapshot(r, Full(r.commit.of)) \in {"match", "not_applicable"}
<1>1. CASE Full(r.commit.of) = None
  BY <1>1 DEF Snapshot
<1>2. CASE Full(r.commit.of) # None
  <2>1. r.commit # None
    BY HoldingSnapshot
  <2>2. \A p : Show(Full(r.commit.of), p) = Show(r.commit, p)
    BY <1>2, <2>1 DEF Show, Full
  <2>3. QuoteHolds(r, Full(r.commit.of))
    BY <2>2 DEF QuoteHolds
  <2>4. QED
    BY <2>3, HoldingSnapshot
<1>3. QED
  BY <1>1, <1>2

\* What is not asked is told apart before Atlas.
LEMMA SkipIsJust ==
  ASSUME NEW r, NEW ok, NEW skip,
         skip = PreAtlasSkip(r, Snapshot(r, r.commit), CommandSnapshot(r, ok))
  PROVE  /\ skip # None => skip # "counted"
         /\ r.evidence \in NonRetrieval => skip # None
         /\ OneRoot /\ Quotes(r) /\ r.command = None
              /\ QuoteHolds(r, r.commit) => skip = None \/ skip \notin Excuses
<1> DEFINE source == Snapshot(r, r.commit)
           command == CommandSnapshot(r, ok)
<1>1. CommandOutcome(command) \in {None, "skipped_command_snapshot",
                                   "skipped_unavailable_source_ref"}
  BY DEF CommandOutcome
<1>2. OneRoot /\ Quotes(r) /\ QuoteHolds(r, r.commit) => source = "match"
  BY HoldingSnapshot
<1>3. Quotes(r) /\ r.command = None => command = "unsupported"
  BY DEF Quotes, CommandSnapshot, Parsed, Recognised
<1>4. CommandOutcome("unsupported") = None
  BY DEF CommandOutcome
<1>5. skip = PreAtlasSkip(r, source, command)
  OBVIOUS
<1> HIDE DEF source, command
<1>6. skip # None => skip # "counted"
  BY <1>1, <1>5 DEF PreAtlasSkip
<1>7. r.evidence \in NonRetrieval => skip # None
  BY <1>1, <1>5, ReceiptAssumption
     DEF PreAtlasSkip, NonRetrieval, NonRepoEvidence, Skips
<1>8. OneRoot /\ Quotes(r) /\ r.command = None
        /\ QuoteHolds(r, r.commit) => skip = None \/ skip \notin Excuses
  BY <1>2, <1>3, <1>4, <1>5 DEF PreAtlasSkip, Excuses
<1>9. QED
  BY <1>6, <1>7, <1>8

LEMMA JudgedGoesOn ==
  ASSUME GradeInv, JudgeInv, NEW w \in Threads, NEW x, Goto(w, x),
         JobJudged(Run, x)
  PROVE  JudgeInv'
<1>1. /\ Run' = Run /\ UNCHANGED <<plan, finished, summaries>>
      /\ \A v \in Threads : job'[v] = IF v = w THEN x ELSE job[v]
  BY DEF Goto, Run, GradeInv, JobsInv
<1>2. QED
  BY <1>1 DEF JudgeInv, Busy

LEMMA JudgedFinishes ==
  ASSUME GradeInv, JudgeInv, NEW w \in Threads, NEW row, Finish(w, row),
         RowJudged(Run, job[w].i, row)
  PROVE  JudgeInv'
<1> DEFINE done == [i |-> job[w].i, row |-> row]
<1>1. /\ Run' = Run /\ UNCHANGED <<plan, summaries>>
      /\ finished' = Append(finished, done)
      /\ \A v \in Threads : job'[v] = IF v = w THEN Idle ELSE job[v]
      /\ Idle.at = "idle"
  BY DEF Finish, Run, GradeInv, JobsInv, Idle
<1>2. done.i = job[w].i /\ done.row = row
  OBVIOUS
<1> HIDE DEF done
<1>3. PICK S : finished \in Seq(S)
  BY DEF GradeInv, RowsInv
<1>4. \A k \in DOMAIN finished' :
         \/ finished'[k] = done
         \/ k \in DOMAIN finished /\ finished'[k] = finished[k]
  BY <1>1, <1>3, AppendFacts
<1>5. \A k \in DOMAIN finished' :
         RowJudged(Run, finished'[k].i, finished'[k].row)
  BY <1>2, <1>4 DEF JudgeInv
<1>6. QED
  BY <1>1, <1>5 DEF JudgeInv, Busy

LEMMA ErrorJudged ==
  ASSUME GradeInv, JudgeInv, NEW w \in Threads, Raise(w)
  PROVE  JudgeInv'
<1>1. RowJudged(Run, job[w].i, ErrorRow(Receipt(w)))
  BY DEF RowJudged, ErrorRow, Row, Receipt, Packet, Excuses
<1>2. QED
  BY <1>1, JudgedFinishes DEF Raise

LEMMA TakeJudged ==
  ASSUME GradeInv, JudgeInv, NEW w \in Threads, Take(w)
  PROVE  JudgeInv'
<1> DEFINE x == [Idle EXCEPT !.at = "examine", !.i = queued,
                             !.rev = Indexed[Run.commit], !.run = Run.commit]
<1>1. /\ Run' = Run /\ UNCHANGED <<plan, finished, summaries>>
      /\ \A v \in Threads : job'[v] = IF v = w THEN x ELSE job[v]
  BY DEF Take, Run, GradeInv, JobsInv
<1>2. x.at = "examine" /\ x.binding = None /\ x.run = Run.commit
  BY DEF Idle
<1> HIDE DEF x
<1>3. JobJudged(Run, x)
  BY <1>2 DEF JobJudged
<1>4. QED
  BY <1>1, <1>3 DEF JudgeInv, Busy

LEMMA ExamineJudged ==
  ASSUME GradeInv, JudgeInv, NEW w \in Threads, Examine(w)
  PROVE  JudgeInv'
<1> DEFINE r == Receipt(w)
           source == Snapshot(r, r.commit)
<1>1. r = Run.packet[job[w].i] /\ job[w].at = "examine" /\ Busy(w)
        /\ JobJudged(Run, job[w]) /\ DOMAIN job[w] = Fields
  BY DEF Receipt, Packet, Examine, Busy, JudgeInv, GradeInv, JobsInv
<1>2. PICK ok, skip :
        /\ ok \in BOOLEAN
        /\ \/ skip = "skipped_legacy_receipt_defect" /\ Corrected(r)
           \/ skip = PreAtlasSkip(r, source, CommandSnapshot(r, ok))
        /\ IF skip # None THEN Finish(w, SkipRow(r, skip))
           ELSE Goto(w, [job[w] EXCEPT !.at = Route(r), !.source = source])
  BY DEF Examine
<1>3. /\ skip # None => skip # "counted"
      /\ r.evidence \in NonRetrieval => skip # None
      /\ OneRoot /\ Quotes(r) /\ r.command = None
           /\ QuoteHolds(r, r.commit) => skip = None \/ skip \notin Excuses
  BY <1>2, SkipIsJust, ReceiptAssumption DEF Excuses, Skips
<1>4. CASE skip # None
  <2>1. SkipRow(r, skip).score = skip /\ SkipRow(r, skip).evidence = r.evidence
    BY DEF SkipRow, Row
  <2>2. RowJudged(Run, job[w].i, SkipRow(r, skip))
    BY <1>1, <1>3, <1>4, <2>1 DEF RowJudged, Consistent, Counted
  <2>3. QED
    BY <1>2, <1>4, <2>2, JudgedFinishes
<1>5. CASE skip = None
  <2> DEFINE x == [job[w] EXCEPT !.at = Route(r), !.source = source]
  <2>1. Goto(w, x)
    BY <1>2, <1>5
  <2>2. x.at = Route(r) /\ x.i = job[w].i /\ x.source = source
          /\ x.binding = job[w].binding /\ x.run = job[w].run
    BY <1>1 DEF Fields
  <2> HIDE DEF x
  <2>3. x.at \in {"doc", "pin", "lookup"} /\ (x.at = "doc" => IsDoc(r))
          /\ (x.at = "lookup" => Run.pin # "receipt-source")
    BY <2>2 DEF Route
  <2>4. JobJudged(Run, x)
    BY <1>1, <1>3, <1>5, <2>2, <2>3 DEF JobJudged, AskedAt
  <2>5. QED
    BY <2>1, <2>4, JudgedGoesOn
<1>6. QED
  BY <1>4, <1>5

LEMMA AskDocsJudged ==
  ASSUME GradeInv, JudgeInv, NEW w \in Threads, AskDocs(w)
  PROVE  JudgeInv'
<1>1. job[w].at = "doc" /\ JobJudged(Run, job[w]) /\ DOMAIN job[w] = Fields
  BY DEF AskDocs, Busy, JudgeInv, GradeInv, JobsInv
<1>2. PICK binding, empty :
        Goto(w, [job[w] EXCEPT !.at = "grade", !.binding = binding,
                               !.answer.empty = empty])
  BY DEF AskDocs
<1> DEFINE x == [job[w] EXCEPT !.at = "grade", !.binding = binding,
                               !.answer.empty = empty]
<1>3. x.at = "grade" /\ x.i = job[w].i /\ x.source = job[w].source
  BY <1>1 DEF Fields
<1>4. Goto(w, x)
  BY <1>2
<1> HIDE DEF x
<1>5. JobJudged(Run, x)
  BY <1>1, <1>3 DEF JobJudged
<1>6. QED
  BY <1>4, <1>5, JudgedGoesOn

LEMMA PinRevisionJudged ==
  ASSUME GradeInv, JudgeInv, NEW w \in Threads, PinRevision(w)
  PROVE  JudgeInv'
<1> DEFINE r == Receipt(w)
           row == SkipRow(r, "skipped_revision_not_indexed")
<1>1. r = Run.packet[job[w].i] /\ job[w].at = "pin" /\ Busy(w)
        /\ JobJudged(Run, job[w]) /\ DOMAIN job[w] = Fields
        /\ Run.pin = "receipt-source"
  BY BusyRuns
     DEF Receipt, Packet, PinRevision, Busy, JudgeInv, GradeInv, JobsInv, JobFits
<1>2. PICK rev :
        \/ Finish(w, row)
        \/ Goto(w, [job[w] EXCEPT !.at = "lookup", !.rev = rev,
                                  !.run = r.commit.of])
  BY DEF PinRevision
<1>3. CASE Finish(w, row)
  <2>1. row.score = "skipped_revision_not_indexed" /\ row.evidence = r.evidence
    BY DEF SkipRow, Row
  <2> HIDE DEF row
  <2>2. RowJudged(Run, job[w].i, row)
    BY <1>1, <2>1 DEF RowJudged, Counted, Excuses
  <2>3. QED
    BY <1>3, <2>2, JudgedFinishes
<1>4. CASE Goto(w, [job[w] EXCEPT !.at = "lookup", !.rev = rev,
                                  !.run = r.commit.of])
  <2> DEFINE x == [job[w] EXCEPT !.at = "lookup", !.rev = rev,
                                 !.run = r.commit.of]
  <2>1. x.at = "lookup" /\ x.i = job[w].i /\ x.source = job[w].source
          /\ x.binding = job[w].binding /\ x.run = r.commit.of
    BY <1>1 DEF Fields
  <2> HIDE DEF x
  <2>2. JobJudged(Run, x)
    BY <1>1, <2>1 DEF JobJudged, AskedAt
  <2>3. QED
    BY <1>4, <2>2, JudgedGoesOn DEF x
<1>5. QED
  BY <1>2, <1>3, <1>4

\* The steps from the lookup of an answer to the line before its verdict.
LEMMA QueryJudged ==
  ASSUME GradeInv, JudgeInv, NEW w \in Threads,
         Lookup(w) \/ Count(w) \/ Ask(w) \/ Keep(w)
  PROVE  JudgeInv'
<1>1. job[w].at \in {"lookup", "count", "ask", "store"}
        /\ JobJudged(Run, job[w]) /\ DOMAIN job[w] = Fields
  BY DEF Lookup, Count, Ask, Keep, Busy, JudgeInv, GradeInv, JobsInv
<1>2. PICK x : /\ Goto(w, x)
               /\ x.at \in {"count", "ask", "store", "drift"}
               /\ x.i = job[w].i /\ x.source = job[w].source
               /\ x.binding = job[w].binding /\ x.run = job[w].run
  <2>1. CASE Lookup(w) /\ Run.cached /\ Cached(Key(w))
    <3> DEFINE at == "count"
               x == [job[w] EXCEPT !.at = at, !.cache = "hit",
                                   !.answer = cache[Key(w)].answer]
    <3>1. Goto(w, x)
      BY <2>1 DEF Lookup
    <3>2. x.at = at /\ x.i = job[w].i /\ x.source = job[w].source
            /\ x.binding = job[w].binding /\ x.run = job[w].run
      BY <1>1 DEF Fields
    <3> HIDE DEF x
    <3>3. QED
      BY <3>1, <3>2
  <2>2. CASE Lookup(w) /\ ~(Run.cached /\ Cached(Key(w)))
    <3> DEFINE at == "ask"
               x == [job[w] EXCEPT !.at = at,
                        !.cache = IF Run.cached THEN "miss" ELSE "disabled"]
    <3>1. Goto(w, x)
      BY <2>2 DEF Lookup
    <3>2. x.at = at /\ x.i = job[w].i /\ x.source = job[w].source
            /\ x.binding = job[w].binding /\ x.run = job[w].run
      BY <1>1 DEF Fields
    <3> HIDE DEF x
    <3>3. QED
      BY <3>1, <3>2
  <2>3. CASE Ask(w)
    <3>1. PICK ok \in BOOLEAN, answered \in BOOLEAN, empty \in BOOLEAN :
            Goto(w, [job[w] EXCEPT
              !.at = IF ok /\ Run.cached THEN "store" ELSE "drift",
              !.answer = [about |-> IF answered THEN Query(w) ELSE None,
                          empty |-> empty, ok |-> ok]])
      BY <2>3 DEF Ask
    <3> DEFINE x == [job[w] EXCEPT
                       !.at = IF ok /\ Run.cached THEN "store" ELSE "drift",
                       !.answer = [about |-> IF answered THEN Query(w) ELSE None,
                                   empty |-> empty, ok |-> ok]]
    <3>2. /\ x.at \in {"store", "drift"}
          /\ x.i = job[w].i /\ x.source = job[w].source
          /\ x.binding = job[w].binding /\ x.run = job[w].run
      BY <1>1 DEF Fields
    <3>3. Goto(w, x)
      BY <3>1
    <3> HIDE DEF x
    <3>4. QED
      BY <3>2, <3>3
  <2>4. CASE Count(w) \/ Keep(w)
    <3> DEFINE x == [job[w] EXCEPT !.at = "drift"]
    <3>1. Goto(w, x)
      BY <2>4 DEF Count, Keep
    <3>2. x.at = "drift" /\ x.i = job[w].i /\ x.source = job[w].source
            /\ x.binding = job[w].binding /\ x.run = job[w].run
      BY <1>1 DEF Fields
    <3> HIDE DEF x
    <3>3. QED
      BY <3>1, <3>2
  <2>5. QED
    BY <1>1, <2>1, <2>2, <2>3, <2>4
<1>3. JobJudged(Run, x)
  BY <1>1, <1>2 DEF JobJudged
<1>4. QED
  BY <1>2, <1>3, JudgedGoesOn

LEMMA SnapshotRunJudged ==
  ASSUME GradeInv, JudgeInv, NEW w \in Threads, SnapshotRun(w)
  PROVE  JudgeInv'
<1> DEFINE r == Receipt(w)
           x == [job[w] EXCEPT !.at = "grade",
                               !.atRun = Snapshot(r, Full(job[w].run))]
<1>1. job[w].at = "drift" /\ JobJudged(Run, job[w]) /\ DOMAIN job[w] = Fields
        /\ r = Run.packet[job[w].i] /\ Goto(w, x)
  BY DEF SnapshotRun, Busy, JudgeInv, GradeInv, JobsInv, Receipt, Packet, Full
<1>2. x.at = "grade" /\ x.i = job[w].i /\ x.source = job[w].source
        /\ x.binding = job[w].binding
        /\ x.atRun = Snapshot(r, Full(job[w].run))
  BY <1>1 DEF Fields
<1> HIDE DEF x
<1>3. JobJudged(Run, x)
  BY <1>1, <1>2 DEF JobJudged
<1>4. QED
  BY <1>1, <1>3, JudgedGoesOn

\* A verdict that fails excuses Atlas for what the repository contradicts, and
\* for nothing that it confirms.
LEMMA VerdictJudged ==
  ASSUME GradeInv, JudgeInv, NEW w \in Threads, job[w].at = "grade",
         NEW grade \in Grades, Finish(w, GradedRow(w, grade))
  PROVE  JudgeInv'
<1> DEFINE r == Receipt(w)
           x == job[w]
           score == ScoreStatus(grade, x.source, x.atRun, x.binding)
           row == GradedRow(w, grade)
<1>1. r = Run.packet[x.i] /\ x.at = "grade" /\ JobJudged(Run, x)
  BY DEF Receipt, Packet, Busy, JudgeInv
<1>2. row.score = score /\ row.grade = grade /\ row.evidence = r.evidence
  BY DEF GradedRow, Row
<1>3. grade \in Failing \/ Passes(row)
  BY <1>2 DEF Grades, Passes
<1>4. r.evidence \notin NonRetrieval /\ x.source = Snapshot(r, r.commit)
  BY <1>1 DEF JobJudged
<1>5. Contradicted(r) => Passes(row) \/ ~Counted(row)
  <2> SUFFICES ASSUME Contradicted(r), grade \in Failing
               PROVE  score # "counted"
    BY <1>2, <1>3 DEF Counted
  <2>1. x.source \in {"missing", "mismatch"} /\ x.binding = None
    BY <1>1, <1>4, ContradictedSnapshot DEF JobJudged
  <2>2. QED
    BY <2>1 DEF ScoreStatus
<1>6. OneRoot /\ Consistent(Run, r) => score \notin Excuses
  <2> SUFFICES ASSUME OneRoot, Consistent(Run, r)
               PROVE  score \notin Excuses
    OBVIOUS
  <2>1. ~IsDoc(r) /\ Quotes(r) /\ QuoteHolds(r, r.commit)
    BY DEF Consistent, Quotes, IsDoc
  <2>2. x.source = "match"
    BY <1>4, <2>1, HoldingSnapshot
  <2>3. x.binding = None /\ None # "none"
          /\ x.atRun = Snapshot(r, Full(AskedAt(Run, r)))
    BY <1>1, <2>1, ReceiptAssumption DEF JobJudged
  <2>4. x.atRun \in {"match", "not_applicable"}
    <3>1. CASE Run.pin = "receipt-source"
      BY <2>1, <2>3, <3>1, FullSnapshot DEF AskedAt
    <3>2. CASE Run.pin # "receipt-source"
      <4>1. QuoteHolds(r, Full(Run.commit))
        BY <3>2 DEF Consistent
      <4>2. QED
        BY <2>1, <2>3, <3>2, <4>1, HoldingSnapshot DEF AskedAt
    <3>3. QED
      BY <3>1, <3>2
  <2>5. QED
    BY <2>2, <2>3, <2>4 DEF ScoreStatus, Excuses
<1> HIDE DEF r, score, row, x
<1>7. RowJudged(Run, job[w].i, row)
  BY <1>1, <1>2, <1>4, <1>5, <1>6 DEF RowJudged, x
<1>8. QED
  BY <1>7, JudgedFinishes DEF row

LEMMA SummariseJudged ==
  ASSUME GradeInv, JudgeInv, Summarise
  PROVE  JudgeInv'
<1> DEFINE s == [rows |-> OrderedRows, asked |-> asked, faults |-> faults,
                 numbers |-> Summary(OrderedRows, Threshold)]
<1>1. /\ turn <= Len(plan) /\ queued > Len(Packet)
      /\ \A w \in Threads : ~Busy(w)
      /\ summaries' = Append(summaries, s)
      /\ finished' = <<>>
      /\ UNCHANGED <<plan, job>>
  BY DEF Summarise, Busy
<1>2. s.rows = OrderedRows
  OBVIOUS
<1> HIDE DEF s
<1>3. \A i \in DOMAIN Packet : RowJudged(Run, i, OrderedRows[i])
  BY <1>1, SortedRows DEF JudgeInv
<1>4. PICK S : summaries \in Seq(S)
  BY DEF GradeInv, SummariesInv
<1>5. Len(summaries) = turn - 1 /\ turn \in Nat
  BY <1>1, PlanShape DEF GradeInv, SummariesInv, PoolInv
<1>6. \A t \in DOMAIN summaries' :
         \/ t = turn /\ summaries'[t] = s
         \/ t \in DOMAIN summaries /\ summaries'[t] = summaries[t]
  BY <1>1, <1>4, <1>5, AppendFacts
<1>7. \A t \in DOMAIN summaries' : \A i \in DOMAIN plan[t].packet :
         RowJudged(plan[t], i, summaries'[t].rows[i])
  BY <1>2, <1>3, <1>6 DEF JudgeInv, Run, Packet
<1>8. DOMAIN <<>> = {}
  OBVIOUS
<1>9. QED
  BY <1>1, <1>7, <1>8 DEF JudgeInv, Busy

LEMMA JudgeInvariance == Spec => []JudgeInv
<1>1. Init => JudgeInv
  <2>1. Idle.at = "idle" /\ DOMAIN <<>> = {}
    BY DEF Idle
  <2>2. QED
    BY <2>1 DEF Init, JudgeInv, Busy
<1>2. GradeInv /\ JudgeInv /\ [Next]_vars => JudgeInv'
  <2> SUFFICES ASSUME GradeInv, JudgeInv, [Next]_vars
               PROVE  JudgeInv'
    OBVIOUS
  <2>1. ASSUME NEW w \in Threads, Grade(w) \/ GradeRaises(w) PROVE JudgeInv'
    BY <2>1, VerdictJudged
       DEF Grade, GradeRaises, Verdicts, Grades, Failing
  <2>2. ASSUME NEW w \in Threads,
               \/ SnapshotRaises(w) \/ DocsRaise(w) \/ QueryRaises(w)
               \/ RunSnapshotRaises(w)
        PROVE  JudgeInv'
    BY <2>2, ErrorJudged
       DEF SnapshotRaises, DocsRaise, QueryRaises, RunSnapshotRaises
  <2>3. ASSUME NEW w \in Threads, Work(w) PROVE JudgeInv'
    BY <2>1, <2>2, <2>3, TakeJudged, ExamineJudged, AskDocsJudged,
       PinRevisionJudged, QueryJudged, SnapshotRunJudged DEF Work
  <2>4. CASE TruncateCache \/ Done \/ UNCHANGED vars
    <3>1. UNCHANGED <<plan, turn, job, finished, summaries>>
      BY <2>4 DEF TruncateCache, Done, vars
    <3>2. QED
      BY <3>1 DEF JudgeInv, Busy, Run
  <2>5. CASE Summarise
    BY <2>5, SummariseJudged
  <2>6. QED
    BY <2>3, <2>4, <2>5 DEF Next
<1>3. QED
  BY <1>1, <1>2, GradeInvariance, PTL DEF Spec

\* Atlas is not blamed for a receipt that the repository contradicts.
THEOREM ContradictedIsExcused == Spec => []ContradictedIsNotBlamed
<1>1. GradeInv /\ JudgeInv => ContradictedIsNotBlamed
  BY DEF JudgeInv, RowJudged, Contradicted, ContradictedIsNotBlamed, Of,
         Reported
<1>2. QED
  BY <1>1, GradeInvariance, JudgeInvariance, PTL

\* A failure of Atlas is not excused where the quote holds, in a repository in
\* which no path is two files, from the root and from the Atlas package.
THEOREM ConsistentIsNotExcused ==
  ASSUME OneRoot
  PROVE  Spec => []ConsistentIsMeasured
<1>1. GradeInv /\ JudgeInv => ConsistentIsMeasured
  BY DEF JudgeInv, RowJudged, Consistent, Full, Excuses,
         ConsistentIsMeasured, Of, Reported
<1>2. QED
  BY <1>1, GradeInvariance, JudgeInvariance, PTL
-----------------------------------------------------------------------------
(* Failures are counted *)

\* The receipts whose grading raised.
Failed == {finished[k].i : k \in {j \in DOMAIN finished :
                                     finished[j].row.tool = "error"}}

\* Evidence that is no measure of Atlas, in the rows of a summary.
Misplaced(s, e) == s.numbers.by_evidence[e].clean_total

FailuresInv ==
    /\ faults \in Nat
    /\ IsFiniteSet(Failed) /\ Cardinality(Failed) <= faults
    /\ \A t \in DOMAIN summaries : \A e \in NonRetrieval :
          Misplaced(summaries[t], e) <= summaries[t].faults

LEMMA FaultsGrow ==
  ASSUME faults \in Nat, [Next]_vars
  PROVE  faults' \in Nat /\ faults <= faults'
<1>1. ASSUME NEW ok \in BOOLEAN, Outcome(ok)
      PROVE  faults' \in Nat /\ faults <= faults'
  BY <1>1 DEF Outcome
<1>2. ASSUME NEW w \in Threads, Raise(w)
      PROVE  faults' \in Nat /\ faults <= faults'
  BY <1>1, <1>2 DEF Raise
<1>3. ASSUME NEW w \in Threads, Work(w)
      PROVE  faults' \in Nat /\ faults <= faults'
  <2>1. CASE Examine(w)
    BY <1>1, <2>1 DEF Examine
  <2>2. CASE AskDocs(w) \/ PinRevision(w) \/ Ask(w) \/ Keep(w)
    BY <1>1, <2>2 DEF AskDocs, PinRevision, Ask, Keep
  <2>3. CASE \/ SnapshotRaises(w) \/ DocsRaise(w) \/ QueryRaises(w)
             \/ RunSnapshotRaises(w)
    BY <1>2, <2>3 DEF SnapshotRaises, DocsRaise, QueryRaises, RunSnapshotRaises
  <2>4. CASE GradeRaises(w)
    BY <1>1, <2>4 DEF GradeRaises
  <2>5. CASE Take(w) \/ Lookup(w) \/ Count(w) \/ SnapshotRun(w) \/ Grade(w)
    BY <2>5 DEF Take, Lookup, Count, SnapshotRun, Grade
  <2>6. QED
    BY <1>3, <2>1, <2>2, <2>3, <2>4, <2>5 DEF Work
<1>4. CASE TruncateCache \/ Summarise \/ Done \/ UNCHANGED vars
  BY <1>4 DEF TruncateCache, Summarise, Done, vars
<1>5. QED
  BY <1>3, <1>4 DEF Next

\* A row more is a failure more only when the grading raised.
LEMMA FailedGrows ==
  ASSUME GradeInv, NEW w \in Threads, NEW row, Finish(w, row)
  PROVE  /\ row.tool # "error" => Failed' = Failed
         /\ Failed' \subseteq Failed \cup {job[w].i}
<1> DEFINE done == [i |-> job[w].i, row |-> row]
<1>1. finished' = Append(finished, done) /\ done.i = job[w].i /\ done.row = row
  BY DEF Finish
<1> HIDE DEF done
<1>2. PICK S : finished \in Seq(S)
  BY DEF GradeInv, RowsInv
<1>3. /\ DOMAIN finished' = DOMAIN finished \cup {Len(finished) + 1}
      /\ finished'[Len(finished) + 1] = done
      /\ \A k \in DOMAIN finished :
            finished'[k] = finished[k] /\ k # Len(finished) + 1
  BY <1>1, <1>2, AppendFacts
<1>4. Failed' \subseteq Failed \cup {job[w].i}
  BY <1>1, <1>3 DEF Failed
<1>5. row.tool # "error" => Failed' = Failed
  BY <1>1, <1>3 DEF Failed
<1>6. QED
  BY <1>4, <1>5

\* The rows that thread w may finish with other than by raising.
LEMMA OtherRows ==
  ASSUME NEW w \in Threads, Work(w)
  PROVE  \/ Raise(w)
         \/ UNCHANGED finished
         \/ \E row : Finish(w, row) /\ row.tool # "error"
<1>1. \A score : SkipRow(Receipt(w), score).tool # "error"
  BY DEF SkipRow, Row
<1>2. \A grade : GradedRow(w, grade).tool # "error"
  <2>1. Translate(Receipt(w)) # "error"
    BY DEF Translate, CodeTool, Tools
  <2>2. QED
    BY <2>1 DEF GradedRow, Row
<1>3. CASE Examine(w)
  BY <1>1, <1>3 DEF Examine, Goto
<1>4. CASE PinRevision(w)
  BY <1>1, <1>4 DEF PinRevision, Goto
<1>5. CASE Grade(w) \/ GradeRaises(w)
  BY <1>2, <1>5 DEF Grade, GradeRaises
<1>6. CASE \/ SnapshotRaises(w) \/ DocsRaise(w) \/ QueryRaises(w)
           \/ RunSnapshotRaises(w)
  BY <1>6 DEF SnapshotRaises, DocsRaise, QueryRaises, RunSnapshotRaises
<1>7. CASE \/ Take(w) \/ AskDocs(w) \/ Lookup(w) \/ Count(w) \/ Ask(w)
           \/ Keep(w) \/ SnapshotRun(w)
  BY <1>7 DEF Take, AskDocs, Lookup, Count, Ask, Keep, SnapshotRun, Goto
<1>8. QED
  BY <1>3, <1>4, <1>5, <1>6, <1>7 DEF Work

LEMMA WorkFailures ==
  ASSUME GradeInv, FailuresInv, NEW w \in Threads, Work(w)
  PROVE  FailuresInv'
<1>1. faults' \in Nat /\ faults <= faults'
  BY FaultsGrow DEF FailuresInv, Next
<1>2. UNCHANGED summaries
  BY DEF Work, Take, Examine, SnapshotRaises, AskDocs, DocsRaise,
     PinRevision, Lookup, Count, QueryRaises, Ask, Keep, SnapshotRun,
     RunSnapshotRaises, Grade, GradeRaises, Raise, Goto, Finish
<1>3. IsFiniteSet(Failed') /\ Cardinality(Failed') <= faults'
  <2>1. CASE Raise(w)
    <3>1. faults' = faults + 1 /\ Failed' \subseteq Failed \cup {job[w].i}
      BY <2>1, FailedGrows DEF Raise, Outcome
    <3>2. /\ IsFiniteSet(Failed \cup {job[w].i})
          /\ Cardinality(Failed \cup {job[w].i}) <= Cardinality(Failed) + 1
          /\ Cardinality(Failed) \in Nat
      <4>1. IsFiniteSet(Failed) /\ Cardinality(Failed) \in Nat
        BY FS_CardinalityType DEF FailuresInv
      <4> DEFINE i == job[w].i
                 S == Failed
      <4> HIDE DEF i, S
      <4>2. /\ IsFiniteSet(S \cup {i})
            /\ \/ Cardinality(S \cup {i}) = Cardinality(S)
               \/ Cardinality(S \cup {i}) = Cardinality(S) + 1
        BY <4>1, FS_AddElement DEF S
      <4>3. QED
        BY <4>1, <4>2 DEF i, S
    <3>3. /\ IsFiniteSet(Failed')
          /\ Cardinality(Failed') <= Cardinality(Failed \cup {job[w].i})
          /\ Cardinality(Failed') \in Nat
          /\ Cardinality(Failed \cup {job[w].i}) \in Nat
      BY <3>1, <3>2, FS_Subset, FS_CardinalityType
    <3>4. QED
      BY <3>1, <3>2, <3>3 DEF FailuresInv
  <2>2. CASE Failed' = Failed
    BY <1>1, <2>2, FS_CardinalityType DEF FailuresInv
  <2>3. CASE UNCHANGED finished
    BY <2>2, <2>3 DEF Failed
  <2>4. CASE \E row : Finish(w, row) /\ row.tool # "error"
    BY <2>2, <2>4, FailedGrows
  <2>5. QED
    BY <2>1, <2>3, <2>4, OtherRows
<1>4. QED
  BY <1>1, <1>2, <1>3 DEF FailuresInv, Misplaced

\* In a packet whose rows are complete, only what raised can be misplaced.
LEMMA OnlyFailuresMisplaced ==
  ASSUME GradeInv, JudgeInv, FailuresInv, turn <= Len(plan),
         queued > Len(Packet), \A w \in Threads : ~Busy(w),
         NEW e \in NonRetrieval
  PROVE  Summary(OrderedRows, Threshold).by_evidence[e].clean_total <= faults
<1> DEFINE rows == OrderedRows
           held == {i \in DOMAIN rows : EvidenceOf(rows[i]) = e}
           excluded == {i \in held : ~Counted(rows[i])}
<1>1. /\ DOMAIN rows = DOMAIN Packet /\ IsFiniteSet(DOMAIN rows)
      /\ \A i \in DOMAIN Packet : \E k \in DOMAIN finished :
            finished[k].i = i /\ rows[i] = finished[k].row
  <2>1. rows \in Seq({rows[i] : i \in DOMAIN rows}) /\ Len(rows) = Len(Packet)
    BY SortedRows
  <2>2. DOMAIN Packet = 1..Len(Packet) /\ Len(Packet) \in Nat
    BY PlanShape DEF GradeInv, PoolInv, Packet, Run
  <2>3. DOMAIN rows = DOMAIN Packet
    BY <2>1, <2>2
  <2>4. QED
    BY <2>2, <2>3, FS_Interval, SortedRows
<1>2. Summary(rows, Threshold).by_evidence[e].clean_total
         = Cardinality(held) - Cardinality(excluded)
  BY DEF Summary, Bucket, NonRetrieval, EvidenceTypes
<1> HIDE DEF rows
<1>3. /\ IsFiniteSet(held) /\ IsFiniteSet(excluded) /\ excluded \subseteq held
      /\ IsFiniteSet(held \ excluded)
      /\ Cardinality(held \ excluded) = Cardinality(held) - Cardinality(excluded)
  <2>1. IsFiniteSet(held)
    BY <1>1, FS_Subset
  <2>2. excluded \subseteq held
    OBVIOUS
  <2> HIDE DEF held, excluded
  <2>3. IsFiniteSet(excluded) /\ held \cap excluded = excluded
    BY <2>1, <2>2, FS_Subset
  <2>4. QED
    BY <2>1, <2>2, <2>3, FS_Difference
<1>4. held \ excluded \subseteq Failed
  <2> SUFFICES ASSUME NEW i \in DOMAIN rows, EvidenceOf(rows[i]) = e,
                      Counted(rows[i])
               PROVE  i \in Failed
    OBVIOUS
  <2>1. PICK k \in DOMAIN finished :
           finished[k].i = i /\ rows[i] = finished[k].row
    BY <1>1
  <2>2. rows[i].evidence = e
    BY DEF EvidenceOf, NonRetrieval, NonRepoEvidence, EvidenceTypes
  <2>3. rows[i].tool = "error"
    BY <2>1, <2>2 DEF JudgeInv, RowJudged
  <2>4. QED
    BY <2>1, <2>3 DEF Failed
<1>5. Cardinality(held \ excluded) <= Cardinality(Failed)
        /\ Cardinality(held \ excluded) \in Nat /\ Cardinality(Failed) \in Nat
  BY <1>3, <1>4, FS_Subset, FS_CardinalityType DEF FailuresInv
<1>6. QED
  BY <1>2, <1>3, <1>5 DEF FailuresInv, rows

LEMMA SummariseFailures ==
  ASSUME GradeInv, JudgeInv, FailuresInv, Summarise
  PROVE  FailuresInv'
<1> DEFINE s == [rows |-> OrderedRows, asked |-> asked, faults |-> faults,
                 numbers |-> Summary(OrderedRows, Threshold)]
<1>1. /\ turn <= Len(plan) /\ queued > Len(Packet)
      /\ \A w \in Threads : ~Busy(w)
      /\ summaries' = Append(summaries, s)
      /\ finished' = <<>> /\ faults' = faults
  BY DEF Summarise, Busy
<1>2. \A e \in NonRetrieval : Misplaced(s, e) <= s.faults
  BY <1>1, OnlyFailuresMisplaced DEF Misplaced
<1> HIDE DEF s
<1>3. PICK S : summaries \in Seq(S)
  BY DEF GradeInv, SummariesInv
<1>4. \A t \in DOMAIN summaries' :
         \/ summaries'[t] = s
         \/ t \in DOMAIN summaries /\ summaries'[t] = summaries[t]
  BY <1>1, <1>3, AppendFacts
<1>5. Failed' = {}
  BY <1>1 DEF Failed
<1>6. IsFiniteSet(Failed') /\ Cardinality(Failed') = 0
  BY <1>5, FS_EmptySet
<1>7. QED
  BY <1>1, <1>2, <1>4, <1>6 DEF FailuresInv

\* Evidence outside the repository, or of absence, counts only where the
\* grading of its receipt raised, so that there is a failed call for each.
THEOREM OnlyFailuresCount == Spec => []NonRetrievalIsNotMeasured
<1>1. Init => FailuresInv
  <2>1. Init => Failed = {} /\ DOMAIN summaries = {}
    BY DEF Init, Failed
  <2>2. QED
    BY <2>1, FS_EmptySet DEF Init, FailuresInv
<1>2. GradeInv /\ JudgeInv /\ FailuresInv /\ [Next]_vars => FailuresInv'
  <2> SUFFICES ASSUME GradeInv, JudgeInv, FailuresInv, [Next]_vars
               PROVE  FailuresInv'
    OBVIOUS
  <2>1. CASE TruncateCache \/ Done \/ UNCHANGED vars
    BY <2>1 DEF TruncateCache, Done, vars, FailuresInv, Failed, Misplaced
  <2>2. QED
    BY <2>1, WorkFailures, SummariseFailures DEF Next
<1>3. GradeInv /\ FailuresInv => NonRetrievalIsNotMeasured
  BY DEF FailuresInv, Misplaced, NonRetrievalIsNotMeasured
<1>4. QED
  BY <1>1, <1>2, <1>3, GradeInvariance, JudgeInvariance, PTL DEF Spec
=============================================================================
