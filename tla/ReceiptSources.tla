--------------------------- MODULE ReceiptSources ---------------------------
(***************************************************************************)
(* What the clone of the repository and the document tables say about one  *)
(* receipt: command_snapshot.py, code_snapshot.py and doc_resolver.py.     *)
(*                                                                         *)
(* A line of a file is a number and a text is a sequence of lines; equal   *)
(* texts are texts with the same canonical sha256. A path has a form: how  *)
(* it is rooted. The same file may be cited from the root of the monorepo  *)
(* ("mono"), from the Atlas package with or without "Atlas/" ("alias",     *)
(* "leaf"), and every other path is "other". A commit is cited in full or  *)
(* shortened. `ok' is FALSE where a call of git or of the database fails.  *)
(***************************************************************************)
EXTENDS Integers, Sequences

CONSTANTS
    None,     \* Python's None, and the empty string where the code tests it so
    Files,    \* Files[c][p]: the text of path p at commit c, None if absent;
              \* of a directory, the paths below it
    DocRows   \* DocRows[c][p]: the chunks the document tables hold, or None

-----------------------------------------------------------------------------
(* Paths, commits and line ranges *)

\* _atlas_leaf_path().
LeafPath(p) == IF p.form = "other" THEN None ELSE [p EXCEPT !.form = "mono"]

\* _resolve_command_path(): the source path wins when one of the two is a
\* suffix of the other, with or without the package's prefixes.
ResolvePath(r, p) ==
    IF r.path # None /\ r.path.name = p.name THEN r.path ELSE p

\* git show <commit>:<path>.
Show(c, p) ==
    IF c # None /\ c.of \in DOMAIN Files /\ p \in DOMAIN Files[c.of]
    THEN Files[c.of][p] ELSE None

\* _slice_lines(): a start below 1 counts from the end, as Python does.
Slice(text, range) ==
    LET n    == Len(text)
        from == IF range.lo >= 1 THEN range.lo
                ELSE IF n + range.lo >= 1 THEN n + range.lo ELSE 1
    IN SubSeq(text, from, IF range.hi < n THEN range.hi ELSE n)

\* _parse_line_range().
LineRange(r) ==
    IF r.lines # None /\ r.lines.lo >= 1 /\ r.lines.hi >= r.lines.lo
    THEN r.lines ELSE None
-----------------------------------------------------------------------------
(* code_snapshot *)

\* MUTANT of Snapshot: only the path as it is cited is tried.
SnapshotAsCited(r, c) ==
    IF r.path = None \/ c = None THEN "not_applicable"
    ELSE IF LineRange(r) = None THEN "no_line_range"
    ELSE IF Show(c, r.path) = None THEN "missing"
    ELSE IF Slice(Show(c, r.path), LineRange(r)) = r.expected THEN "match"
    ELSE "mismatch"

\* The first of _candidate_paths() that is there, or else the last of them.
CandidatePath(c, p) ==
    IF Show(c, p) # None \/ LeafPath(p) = None THEN p ELSE LeafPath(p)

\* _resolve_at_commit(), for the receipt's own commit and for the commit of
\* the grading run.
Snapshot(r, c) ==
    IF r.path = None \/ c = None THEN "not_applicable"
    ELSE IF LineRange(r) = None THEN "no_line_range"
    ELSE LET text == Show(c, CandidatePath(c, r.path)) IN
         IF text = None THEN "missing"
         ELSE IF Slice(text, LineRange(r)) = r.expected THEN "match"
         ELSE "mismatch"
-----------------------------------------------------------------------------
(* command_snapshot *)

\* parse_command_text(): a command is on the whitelist.
Recognised(cmd) ==
    /\ cmd # None
    /\ ~cmd.meta
    /\ \/ cmd.op = "show-range" /\ cmd.commit # None /\ cmd.range # None
       \/ cmd.op = "sed-range" /\ cmd.range # None
       \/ cmd.op = "grep" /\ cmd.pattern # None
       \/ cmd.op \in {"ls", "find"} /\ cmd.flags = {}
       \/ cmd.op = "wc" /\ cmd.flags = {"-l"}

ListCommand(p) == [op |-> "ls", meta |-> FALSE, commit |-> None, path |-> p,
                   range |-> None, pattern |-> None, flags |-> {}]

\* synthesize_command(): a directory is listed.
Parsed(r) ==
    IF Recognised(r.command) THEN r.command
    ELSE IF r.path # None /\ r.path.kind = "dir" /\ r.lines = None
         THEN ListCommand(r.path)
    ELSE None

\* git grep. A flag is taken for the pattern by the parser and for a flag by
\* git, which then looks for the commit's name.
GrepOutput(c, cmd, p) ==
    IF cmd.flags # {} \/ Show(c, p) = None THEN <<>>
    ELSE SelectSeq(Show(c, p), LAMBDA line : line = cmd.pattern)

\* git ls-tree -r --name-only: of a file, its one path.
ListOutput(c, p) ==
    IF Show(c, p) = None THEN <<>>
    ELSE IF p.kind = "dir" THEN Show(c, p) ELSE <<1>>

\* _hash_compare_lines(), and the end of _handle_wc_l().
Compare(expected, text) ==
    IF expected \in {None, text} THEN "match" ELSE "mismatch"

\* _classify_listing_output().
Listing(r, text) ==
    IF r.evidence = "absence_search"
    THEN IF text = <<>> THEN "expected_absent" ELSE "found_but_absent"
    ELSE IF r.expected = None /\ text = <<>> THEN "source_missing"
    ELSE Compare(r.expected, text)

\* _handle_show_range(), _handle_sed_range() and _handle_wc_l(): what the
\* command prints, wc -l being the number of lines.
FileOutput(cmd, text) ==
    IF cmd.op = "wc" THEN <<Len(text)>> ELSE Slice(text, cmd.range)

\* resolve_command_snapshot() with its handlers.
CommandSnapshot(r, ok) ==
    LET cmd  == Parsed(r)
        at   == IF cmd.op = "show-range" THEN cmd.commit ELSE r.commit
        path == ResolvePath(r, cmd.path)
    IN IF cmd = None THEN "unsupported"
       ELSE IF at = None THEN "unsupported"
       ELSE IF ~ok THEN IF cmd.op = "grep" THEN "error" ELSE "source_missing"
       ELSE IF cmd.op = "grep" THEN Listing(r, GrepOutput(at, cmd, path))
       ELSE IF cmd.op \in {"ls", "find"} THEN Listing(r, ListOutput(at, path))
       ELSE IF Show(at, path) = None THEN "source_missing"
       ELSE Compare(r.expected, FileOutput(cmd, Show(at, path)))
-----------------------------------------------------------------------------
(* doc_resolver *)

\* _primary_lookup_db(): documents are recorded under full names of commits.
DbRow(r) ==
    IF r.commit.short \/ r.commit.of \notin DOMAIN DocRows THEN None
    ELSE DocRows[r.commit.of][r.path]

\* _pick_chunk_for_lines(): the first chunk with the start of the excerpt in
\* it, or else the first chunk.
PickChunk(chunks, excerpt) ==
    LET holds(chunk) == \E i \in DOMAIN chunk : chunk[i] = Head(excerpt)
        hits == IF excerpt = <<>> THEN <<>> ELSE SelectSeq(chunks, holds)
    IN IF chunks = <<>> THEN <<>>
       ELSE IF hits # <<>> THEN Head(hits) ELSE Head(chunks)

\* What resolve_doc_receipt() returns: how the document was found, and the
\* text handed to the grader below the line that names the document.
Resolution(binding, text) == [binding |-> binding, text |-> text]

\* The tables are asked first; a failure there, or no such row, leads to git.
ResolveDoc(r, dbOk) ==
    LET whole == Show(r.commit, r.path)
        cited == IF LineRange(r) = None THEN whole
                 ELSE Slice(whole, LineRange(r))
    IN IF r.path = None \/ r.commit = None THEN Resolution("none", <<>>)
       ELSE IF dbOk /\ DbRow(r) # None
            THEN Resolution("db_commit_scoped",
                            PickChunk(DbRow(r), r.excerpt))
       ELSE IF whole = None THEN Resolution("none", <<>>)
       ELSE IF r.expected \notin {None, cited} THEN Resolution("none", <<>>)
       ELSE Resolution("git_receipt_snapshot", cited)
=============================================================================
