--------------------------- MODULE MCReceiptGrading ---------------------------
(* Receipts of every kind the grader tells apart, in packets of one and two. *)
EXTENDS ReceiptGrading, TLC

Path(name, form, kind, work) ==
    [name |-> name, form |-> form, kind |-> kind, work |-> work]
Code    == Path("code", "mono", "code", FALSE)
Leaf    == Path("code", "leaf", "code", FALSE)
Gone    == Path("gone", "leaf", "code", FALSE)
Doc     == Path("doc", "mono", "doc", FALSE)
WorkDoc == Path("log", "mono", "doc", TRUE)
Dir     == Path("dir", "mono", "dir", FALSE)
Paths   == {Code, Leaf, Gone, Doc, WorkDoc, Dir}

\* Line 2 of the code changes between the commits, its line 1 does not.
Old == (Code :> <<1, 2>>) @@ (Doc :> <<4>>) @@ (WorkDoc :> <<5>>)
         @@ (Dir :> <<7>>)
New == (Code :> <<1, 3>>) @@ (Doc :> <<4>>) @@ (WorkDoc :> <<5>>)
         @@ (Dir :> <<7>>)
At(texts) == [p \in Paths |-> IF p \in DOMAIN texts THEN texts[p] ELSE None]
MCFiles   == ("old" :> At(Old)) @@ ("new" :> At(New))
MCDocRows == ("old" :> At(Doc :> <<<<8>>, <<4>>>>))
MCIndexed == ("old" :> "revOld") @@ ("new" :> "revNew") @@ ("lost" :> None)
MCDefects == {[id |-> 2, commit |-> "lost"]}

Ref(c) == [of |-> c, short |-> FALSE]
Lines(a, b) == [lo |-> a, hi |-> b]
Plain == [id |-> 0, question |-> "how", path |-> None, lines |-> None,
          commit |-> Ref("old"), expected |-> None, excerpt |-> <<>>,
          evidence |-> "source_excerpt", hint |-> None, command |-> None]
Quote(p, l, text) == [Plain EXCEPT !.path = p, !.lines = Lines(l, l),
                                   !.expected = text, !.excerpt = text]
Cmd(op, p) == [op |-> op, meta |-> FALSE, commit |-> None, path |-> p,
               range |-> None, pattern |-> None, flags |-> {}]
Sed(p, a, b) == [Cmd("sed-range", p) EXCEPT !.range = Lines(a, b)]
Grep(p, line) == [Cmd("grep", p) EXCEPT !.pattern = line]
Absence(cmd) == [Plain EXCEPT !.evidence = "absence_search", !.command = cmd]

Receipts == {
    Quote(Leaf, 1, <<1>>),                          \* holds at both commits
    Quote(Code, 2, <<2>>),                          \* drifts
    Quote(Code, 2, <<3>>),                          \* contradicted
    [Quote(Leaf, 1, <<1>>) EXCEPT !.commit.short = TRUE],
    [Quote(Code, 1, None) EXCEPT !.hint = "scan_search"],
    [Quote(Code, 1, <<1>>) EXCEPT !.commit.of = "lost"],
    [Plain EXCEPT !.commit = None],
    Quote(Doc, 1, <<4>>),
    [Quote(Doc, 1, <<4>>) EXCEPT !.commit.of = "new"],
    [Quote(Doc, 1, <<9>>) EXCEPT !.commit.short = TRUE],
    Quote(WorkDoc, 1, <<5>>),
    [Quote(Leaf, 1, <<1>>) EXCEPT !.evidence = "user_context"],
    Absence(Grep(Code, 9)),
    Absence([Grep(Code, 9) EXCEPT !.meta = TRUE]),
    [Absence(Cmd("find", Gone)) EXCEPT !.path = Gone],
    [Plain EXCEPT !.path = Dir],
    [Quote(Code, 2, <<2>>) EXCEPT !.command = Sed(Leaf, 2, 2)],
    [Quote(Code, 2, <<3>>) EXCEPT !.command = Sed(Leaf, 2, 2)],
    [Plain EXCEPT !.command = [Cmd("wc", Code) EXCEPT !.flags = {"-l"}],
                  !.expected = <<2>>]}

Two(a, b) == <<[a EXCEPT !.id = 1], [b EXCEPT !.id = 2]>>
Live(packet, c) == [packet |-> packet, commit |-> c, pin |-> "event-base",
                    cached |-> FALSE, corrections |-> FALSE]
Batch(packet, c, mode) == [packet |-> packet, commit |-> c, pin |-> mode,
                           cached |-> TRUE, corrections |-> TRUE]
MCPlans ==
    {<<Live(Two(a, b), "new")>> : a, b \in Receipts}
    \cup {<<Batch(Two(a, b), "new", "receipt-source")>> : a, b \in Receipts}
    \cup {<<Batch(<<[a EXCEPT !.id = 1]>>, "old", "event-base"),
            Batch(<<[a EXCEPT !.id = 1]>>, "new", "event-base")>> :
            a \in Receipts}
=============================================================================
