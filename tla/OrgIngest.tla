------------------------------ MODULE OrgIngest ------------------------------
(***************************************************************************)
(* Benchmark runs: shadow-run and purge-orphans of cli.py, with ingest.py, *)
(* which ingests a commit into an organisation of its own and remembers it *)
(* in .ingest-cache.json, and resolve_code_revision_id() of runner.py.     *)
(*                                                                         *)
(* Every invocation is a process. What they share: the organisations of    *)
(* Atlas, the one that is active in the Atlas workspace, and the cache,    *)
(* which is read whole and written whole, by Path.write_text().            *)
(***************************************************************************)
EXTENDS Naturals, FiniteSets

CONSTANTS
    None,
    Commits,     \* commits a run may name
    Calls,       \* the invocations of shadow-run, numbered as they begin
    Templates,   \* one_off_template_org_id: organisations, or None
    Continuous,  \* continuous_shadow_org_id
    Pinned,      \* continuous_shadow_code_revision_id, or None
    Latest,      \* what the daemon's state file may name: revisions, or None
    MaxRunning,  \* bound: invocations of shadow-run under way at once
    MaxPurges,   \* bound: invocations of purge-orphans
    MaxFaults    \* bound: calls that fail outside the ingest, and kills

ASSUME OrgAssumption ==
    /\ Calls \subseteq Nat
    /\ {MaxRunning, MaxPurges, MaxFaults} \subseteq Nat
    /\ None \notin Commits /\ None # Continuous

VARIABLES
    template,  \* the organisation every ingest is to go to, or None
    orgs,      \* orgs[o]: the ingests whose rows organisation o holds
    names,     \* how many organisations org-create has made
    active,    \* the active organisation of the workspace
    cache,     \* cache[c]: what the cache file records of commit c
    text,      \* the cache file: "json", "empty", or "mixed", not JSON
    latest,    \* latest_code_revision_id of the state file, None if unreadable
    call,      \* call[r]: an invocation of shadow-run
    purge,     \* the invocation of purge-orphans
    purges,    \* how often purge-orphans was invoked
    faults,    \* how many calls failed and processes were killed
    overlapped \* have two invocations been under way at once?

atlas == <<orgs, names, active>>
files == <<cache, text>>
given == <<template, latest>>
vars == <<given, atlas, files, call, purge, purges, faults, overlapped>>

Revision(o, c) == [org |-> o, commit |-> c]
Entry(o, rev)  == [org |-> o, rev |-> rev]
Ingest(r, whole) == [by |-> r, commit |-> call[r].commit, whole |-> whole]

Waiting == [at |-> "waiting", commit |-> None, seen |-> <<>>, org |-> None,
            fresh |-> FALSE, found |-> None, rev |-> None, recorded |-> FALSE]
NoPurge == [at |-> "idle", spare |-> {}, todo |-> {}]

\* load_cache(): a file that cannot be parsed counts as none.
LoadCache == IF text = "json" THEN cache ELSE <<>>

Init ==
    /\ template \in Templates
    /\ orgs = [o \in (Templates \ {None}) \cup {Continuous} |-> {}]
    /\ names = 0
    /\ active = Continuous
    /\ cache = <<>>
    /\ text = "json"
    /\ latest \in Latest
    /\ call = [r \in Calls |-> Waiting]
    /\ purge = NoPurge
    /\ purges = 0
    /\ faults = 0
    /\ overlapped = FALSE
-----------------------------------------------------------------------------
(* shadow-run *)

Running == {r \in Calls : call[r].at \notin {"waiting", "ended"}}

Goto(r, at) == call' = [call EXCEPT ![r].at = at]

\* The process is gone; what it recorded is not.
End(r) == call' = [call EXCEPT ![r] =
             [Waiting EXCEPT !.at = "ended", !.commit = call[r].commit,
                             !.recorded = call[r].recorded]]

\* A call that should not have failed, or a kill.
Fault == faults < MaxFaults /\ faults' = faults + 1

\* resolve_code_revision_id(): the state file, then the configuration.
Resolve == IF latest # None THEN latest ELSE Pinned

\* MUTANT of Asked: the revision of the continuous organisation comes first.
AskedLatest(found) == IF Resolve # None THEN Resolve ELSE found

\* The revision a run asks for, given the one its commit was ingested as.
Asked(found) == IF found # None THEN found ELSE Resolve

Starts(r) ==
    /\ call[r].at = "waiting"
    /\ \A q \in Calls : q < r => call[q].at # "waiting"
    /\ Cardinality(Running) < MaxRunning
    /\ overlapped' = (overlapped \/ Running # {} \/ purge # NoPurge)

\* Without --commit the continuous organisation is asked.
RunDefault(r) ==
    /\ Starts(r)
    /\ call' = [call EXCEPT ![r] = [@ EXCEPT !.at = "ask", !.org = Continuous,
                                             !.rev = Resolve]]
    /\ UNCHANGED <<given, atlas, files, purge, purges, faults>>

\* ensure_org_for_commit() begins: a commit the cache has is not ingested.
RunAt(r, c) ==
    /\ Starts(r)
    /\ LET seen == LoadCache
           x == [Waiting EXCEPT !.commit = c, !.seen = seen]
       IN call' = [call EXCEPT ![r] =
            IF c \in DOMAIN seen
            THEN [x EXCEPT !.at = "ask", !.org = seen[c].org,
                           !.found = seen[c].rev, !.rev = Asked(seen[c].rev)]
            ELSE IF template # None
            THEN [x EXCEPT !.at = "ingest", !.org = template]
            ELSE [x EXCEPT !.at = "create", !.fresh = TRUE]]
    /\ UNCHANGED <<given, atlas, files, purge, purges, faults>>

\* create_org(): workspace run org-create makes and activates the
\* organisation; its name is new.
CreateOrg(r) ==
    /\ call[r].at = "create"
    /\ Goto(r, "current")
    /\ names' = names + 1
    /\ orgs' = [p \in DOMAIN orgs \cup {names + 1} |->
                  IF p \in DOMAIN orgs THEN orgs[p] ELSE {}]
    /\ active' = names + 1
    /\ UNCHANGED <<given, files, purge, purges, faults, overlapped>>

CreateFails(r) ==
    /\ call[r].at = "create"
    /\ End(r)
    /\ UNCHANGED <<given, atlas, files, purge, purges, faults, overlapped>>

\* workspace run org-current tells which organisation is active by now.
ReadCurrent(r) ==
    /\ call[r].at = "current"
    /\ call' = [call EXCEPT ![r].at = "ingest", ![r].org = active]
    /\ UNCHANGED <<given, atlas, files, purge, purges, faults, overlapped>>

\* It fails, where no rollback is under way yet.
CurrentFails(r) ==
    /\ call[r].at = "current"
    /\ Fault
    /\ End(r)
    /\ UNCHANGED <<given, atlas, files, purge, purges, overlapped>>

\* The ingest script uploads, then makes the chunks, and prints a payload,
\* which may lack the revision.
Upload(r) ==
    /\ call[r].at = "ingest"
    /\ call[r].org \in DOMAIN orgs
    /\ orgs' = [orgs EXCEPT ![call[r].org] = @ \cup {Ingest(r, FALSE)}]
    /\ Goto(r, "chunk")
    /\ UNCHANGED <<given, names, active, files, purge, purges, faults,
                   overlapped>>

Chunked(r) == [orgs EXCEPT ![call[r].org] =
                  (@ \ {Ingest(r, FALSE)}) \cup {Ingest(r, TRUE)}]

Chunk(r) ==
    /\ call[r].at = "chunk"
    /\ orgs' = Chunked(r)
    /\ \E rev \in {Revision(call[r].org, call[r].commit), None} :
          call' = [call EXCEPT ![r].at = "save", ![r].found = rev]
    /\ UNCHANGED <<given, names, active, files, purge, purges, faults,
                   overlapped>>

\* MUTANT of IngestFails: nothing is rolled back.
IngestFailsForGood(r) ==
    /\ call[r].at \in {"ingest", "chunk"}
    /\ orgs' \in {orgs} \cup (IF call[r].at = "chunk" THEN {Chunked(r)} ELSE {})
    /\ End(r)
    /\ UNCHANGED <<given, names, active, files, purge, purges, faults,
                   overlapped>>

\* The script fails, or what it prints cannot be read, with none, some or all
\* of the rows written.
IngestFails(r) ==
    /\ call[r].at \in {"ingest", "chunk"}
    /\ orgs' \in {orgs} \cup (IF call[r].at = "chunk" THEN {Chunked(r)} ELSE {})
    /\ IF call[r].fresh THEN Goto(r, "rollback") ELSE End(r)
    /\ UNCHANGED <<given, names, active, files, purge, purges, faults,
                   overlapped>>

\* MUTANT of Deleted: without the pristine check.
DeletedAnyway(o) == [p \in DOMAIN orgs \ {o} |-> orgs[p]]

\* delete_org(): an organisation is deleted unless it has rows.
Deleted(o) ==
    IF o \in DOMAIN orgs /\ orgs[o] # {} THEN orgs
    ELSE [p \in DOMAIN orgs \ {o} |-> orgs[p]]

Rollback(r) ==
    /\ call[r].at = "rollback"
    /\ orgs' = Deleted(call[r].org)
    /\ End(r)
    /\ UNCHANGED <<given, names, active, files, purge, purges, faults,
                   overlapped>>

RollbackFails(r) ==
    /\ call[r].at = "rollback"
    /\ Fault
    /\ End(r)
    /\ UNCHANGED <<given, atlas, files, purge, purges, overlapped>>

\* save_cache() opens the file, which empties it ...
OpenCache(r) ==
    /\ call[r].at = "save"
    /\ text' = "empty"
    /\ Goto(r, "write")
    /\ UNCHANGED <<given, atlas, cache, purge, purges, faults, overlapped>>

\* The run goes on with what its commit was ingested as.
Recorded(r) == call' = [call EXCEPT ![r].at = "ask", ![r].recorded = TRUE,
                                    ![r].rev = Asked(call[r].found)]

\* MUTANT of WriteCache: the file has the new entry only.
WriteOwnEntry(r) ==
    /\ call[r].at = "write"
    /\ cache' = [c \in {call[r].commit} |-> Entry(call[r].org, call[r].found)]
    /\ text' = "json"
    /\ Recorded(r)
    /\ UNCHANGED <<given, atlas, purge, purges, faults, overlapped>>

\* ... and writes what was read at the beginning, with the new entry. If
\* another has written since it was last emptied, or is writing, the longer
\* text shows behind the shorter: the file is mixed until it is emptied again.
WriteCache(r) ==
    /\ call[r].at = "write"
    /\ LET seen == call[r].seen IN
       cache' = [c \in DOMAIN seen \cup {call[r].commit} |->
                    IF c = call[r].commit
                    THEN Entry(call[r].org, call[r].found) ELSE seen[c]]
    /\ \/ text' = "json"
       \/ /\ text # "empty" \/ \E q \in Calls \ {r} : call[q].at = "write"
          /\ text' = "mixed"
    /\ Recorded(r)
    /\ UNCHANGED <<given, atlas, purge, purges, faults, overlapped>>

\* run_batch() asks the questions, and the run is over.
Ask(r) ==
    /\ call[r].at = "ask"
    /\ End(r)
    /\ UNCHANGED <<given, atlas, files, purge, purges, faults, overlapped>>

\* The process is killed or the save fails, perhaps with half of it written.
\* An ingest script that outlives its process writes what it would have
\* written: all that is shared is as if the kill had come after the script.
Kill(r) ==
    /\ r \in Running
    /\ Fault
    /\ End(r)
    /\ \/ UNCHANGED text
       \/ call[r].at = "write" /\ text' = "mixed"
    /\ UNCHANGED <<given, atlas, cache, purge, purges, overlapped>>
-----------------------------------------------------------------------------
(* purge-orphans *)

\* The cache is read; with --include-cached it spares nobody.
PurgeBegin(includeCached) ==
    /\ purge.at = "idle"
    /\ purges < MaxPurges
    /\ purges' = purges + 1
    /\ purge' = [NoPurge EXCEPT !.at = "list",
                    !.spare = IF includeCached THEN {}
                        ELSE {LoadCache[c].org : c \in DOMAIN LoadCache}]
    /\ overlapped' = (overlapped \/ Running # {})
    /\ UNCHANGED <<given, atlas, files, call, faults>>

\* The organisations that atlas-shadow has made.
Shadow == DOMAIN orgs \ ({Continuous} \cup Templates)

\* list_shadow_orgs(); with --dry-run the list is all.
PurgeList ==
    /\ purge.at = "list"
    /\ purge' \in {NoPurge, [purge EXCEPT !.at = "delete",
                                         !.todo = Shadow \ purge.spare]}
    /\ UNCHANGED <<given, atlas, files, call, purges, faults, overlapped>>

\* One candidate is deleted, or kept, or an error is counted.
PurgeDelete(o) ==
    /\ purge.at = "delete"
    /\ o \in purge.todo
    /\ \/ orgs' = Deleted(o) /\ UNCHANGED faults
       \/ Fault /\ UNCHANGED orgs
    /\ purge' = [purge EXCEPT !.todo = @ \ {o}]
    /\ UNCHANGED <<given, names, active, files, call, purges, overlapped>>

PurgeEnd ==
    /\ purge.at = "delete" /\ purge.todo = {}
    /\ purge' = NoPurge
    /\ UNCHANGED <<given, atlas, files, call, purges, faults, overlapped>>
-----------------------------------------------------------------------------
RunStep(r) ==
    \/ RunDefault(r)
    \/ \E c \in Commits : RunAt(r, c)
    \/ CreateOrg(r) \/ CreateFails(r) \/ ReadCurrent(r) \/ CurrentFails(r)
    \/ Upload(r) \/ Chunk(r) \/ IngestFails(r) \/ Rollback(r)
    \/ RollbackFails(r) \/ OpenCache(r) \/ WriteCache(r) \/ Ask(r) \/ Kill(r)

Next ==
    \/ \E r \in Calls : RunStep(r)
    \/ \E includeCached \in BOOLEAN : PurgeBegin(includeCached)
    \/ PurgeList
    \/ \E o \in purge.todo : PurgeDelete(o)
    \/ PurgeEnd

Spec == Init /\ [][Next]_vars
-----------------------------------------------------------------------------
(* Properties *)

\* Organisation o holds all of commit c.
Holds(o, c) == o \in DOMAIN orgs
                 /\ \E i \in orgs[o] : i.commit = c /\ i.whole

\* A cache hit can be relied upon: whatever overlaps, fails, is killed, rolled
\* back or purged, an entry names an organisation that holds its commit.
CachedOrgHoldsData == \A c \in DOMAIN cache : Holds(cache[c].org, c)

\* A run at a commit asks an organisation that holds it, for the revision it
\* was ingested as if the ingest named one, however many runs overlap.
RunAsksItsCommit ==
    \A r \in Calls :
        call[r].at = "ask" /\ call[r].commit # None =>
            /\ Holds(call[r].org, call[r].commit)
            /\ call[r].found # None =>
                  call[r].rev = Revision(call[r].org, call[r].commit)

\* No organisation is left empty: runs that take turns roll back what they
\* created, unless one is killed, org-current fails or the rollback does.
NoEmptyOrphan ==
    ~overlapped /\ faults = 0 /\ Running = {} =>
        \A o \in Shadow : orgs[o] # {}

\* A commit is ingested and recorded once, as long as runs take turns and
\* none is killed, whatever other commits are ingested in between.
IngestedOnce ==
    ~overlapped /\ faults = 0 =>
        \A q, r \in Calls :
            call[q].recorded /\ call[r].recorded
                /\ call[q].commit = call[r].commit => q = r
=============================================================================
