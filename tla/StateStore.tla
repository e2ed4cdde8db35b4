----------------------------- MODULE StateStore -----------------------------
(***************************************************************************)
(* What the state file promises: a map from keys to revisions of which an  *)
(* update changes one key and leaves the others alone.  One key is the     *)
(* latest revision, the others are the pull requests that hold a pin; a    *)
(* key without a revision is not there.                                    *)
(***************************************************************************)
CONSTANTS Keys, Revs, NoRev

VARIABLE file

Init == file \in [Keys -> Revs \cup {NoRev}]

Put(k, r) == file' = [file EXCEPT ![k] = r]

Next == \E k \in Keys, r \in Revs \cup {NoRev} : Put(k, r)

Spec == Init /\ [][Next]_file
=============================================================================
