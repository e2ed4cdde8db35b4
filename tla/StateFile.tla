----------------------------- MODULE StateFile -----------------------------
(***************************************************************************)
(* The file .daemon-state.json as state_file.py reads and writes it.  All  *)
(* of write_state(), acquire_pin() and release_pin() read the file, change *)
(* their own key in the copy and put the whole copy in the file's place.   *)
(* The replacement is atomic (a temporary file, fsync, rename); the read   *)
(* and the replacement together are not, and nothing is locked.            *)
(***************************************************************************)
CONSTANTS
    PRs,      \* pull requests
    Revs,     \* code revisions
    NoRev,    \* "no revision"
    Latest,   \* the key of latest_code_revision_id
    Writers   \* the threads that write the file

ASSUME StateFileAssumption ==
    /\ NoRev \notin Revs
    /\ Latest \notin PRs

VARIABLES
    file,    \* the revision of every key, NoRev for one that is missing
    update   \* update[w]: the update w is in the middle of, if any

svars == <<file, update>>

Keys   == {Latest} \cup PRs
Values == Revs \cup {NoRev}
Files  == [Keys -> Values]

Update == [seen : Files, key : Keys, rev : Values]

StateTypeOK ==
    /\ file \in Files
    /\ update \in [Writers -> SUBSET Update]
    /\ \A w \in Writers : \A u, v \in update[w] : u = v

\* The file is as an earlier process has left it.
StateInit ==
    /\ file \in Files
    /\ update = [w \in Writers |-> {}]

\* read_state(), at the start of an update that gives key k the revision r.
ReadFile(w, k, r) ==
    /\ update[w] = {}
    /\ update' = [update EXCEPT ![w] = {[seen |-> file, key |-> k, rev |-> r]}]
    /\ UNCHANGED file

WriteState(w, r)    == ReadFile(w, Latest, r)
AcquirePin(w, p, r) == ReadFile(w, p, r)
ReleasePin(w, p)    == ReadFile(w, p, NoRev)

\* MUTANT of Replace: the other keys are not carried over.
ReplaceOneKey(w) ==
    \E u \in update[w] :
        /\ file' = [k \in Keys |-> IF k = u.key THEN u.rev ELSE NoRev]
        /\ update' = [update EXCEPT ![w] = {}]

\* os.replace(), at the end of it.
Replace(w) ==
    \E u \in update[w] :
        /\ file' = [u.seen EXCEPT ![u.key] = u.rev]
        /\ update' = [update EXCEPT ![w] = {}]

\* The update raises or its thread dies: whatever became of the temporary
\* file, the state file is as it was.
Abandon(w) ==
    /\ update[w] # {}
    /\ update' = [update EXCEPT ![w] = {}]
    /\ UNCHANGED file

StateNext ==
    \E w \in Writers :
        \/ \E r \in Revs : WriteState(w, r)
        \/ \E p \in PRs, r \in Revs : AcquirePin(w, p, r)
        \/ \E p \in PRs : ReleasePin(w, p)
        \/ Replace(w)
        \/ Abandon(w)

StateSpec == StateInit /\ [][StateNext]_svars
-----------------------------------------------------------------------------
(***************************************************************************)
(* Refinement: with a single writer ("the daemon is the only writer") an   *)
(* update changes its own key and no other, crashes included.              *)
(***************************************************************************)
Store == INSTANCE StateStore WITH Keys <- {Latest} \cup PRs
ImplementsStore == Store!Spec
=============================================================================
