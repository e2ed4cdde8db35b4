--------------------------- MODULE OrgIngestProofs ---------------------------
(***************************************************************************)
(* The ingest cache can be relied upon: whatever runs overlap, fail, are   *)
(* killed, rolled back or purged, an entry names an organisation that      *)
(* holds all of its commit. It rests on delete_org() sparing every         *)
(* organisation with rows, and on the order of upload, chunks and save.    *)
(* And runs that take turns ingest a commit once and leave no empty        *)
(* organisation behind.                                                    *)
(***************************************************************************)
EXTENDS OrgIngest, TLAPS

\* An entry for commit c that a run may rely on.
Good(e, c) == Holds(e.org, c) /\ e.rev \in {None, Revision(e.org, c)}

\* The rows an ingest has uploaded are where it put them.
Placed(r) ==
    /\ call[r].org \in DOMAIN orgs
    /\ Ingest(r, FALSE) \in orgs[call[r].org]

Fields == {"at", "commit", "seen", "org", "fresh", "found", "rev", "recorded"}
Shaped(x) == DOMAIN x = Fields

CallOK(r) ==
    /\ Shaped(call[r])
    /\ call[r].at = "waiting" => call[r].commit = None
    /\ call[r].at = "chunk" => Placed(r)
    /\ \A c \in DOMAIN call[r].seen : Good(call[r].seen[c], c)
    /\ call[r].at \in {"save", "write"} =>
          Good(Entry(call[r].org, call[r].found), call[r].commit)
    /\ call[r].at = "ask" /\ call[r].commit # None =>
          /\ Good(Entry(call[r].org, call[r].found), call[r].commit)
          /\ call[r].found # None => call[r].rev = call[r].found

CallsOK == call = [r \in Calls |-> call[r]] /\ \A r \in Calls : CallOK(r)

CacheOK == \A c \in DOMAIN cache : Good(cache[c], c)

HoldsInv == CallsOK /\ CacheOK

\* No organisation loses a commit that it holds, nor rows just uploaded.
RowsStay ==
    /\ \A o, c : Holds(o, c) => Holds(o, c)'
    /\ \A q \in Calls : call[q].at = "chunk" /\ call'[q] = call[q] =>
          Placed(q)'
-----------------------------------------------------------------------------
LEMMA UnchangedRows ==
  ASSUME CallsOK, orgs' = orgs
  PROVE  RowsStay
BY DEF CallsOK, CallOK, RowsStay, Holds, Placed, Ingest

\* Deleting spares organisations with rows.
LEMMA DeletionKeepsRows ==
  ASSUME CallsOK, NEW o, orgs' = Deleted(o)
  PROVE  RowsStay
BY DEF CallsOK, CallOK, RowsStay, Holds, Placed, Ingest, Deleted

\* Making the chunks replaces a run's rows by the same rows, whole.
LEMMA ChunkingKeepsRows ==
  ASSUME CallsOK, NEW r \in Calls, orgs' = Chunked(r), call'[r] # call[r]
  PROVE  RowsStay
BY DEF CallsOK, CallOK, RowsStay, Holds, Placed, Ingest, Chunked

LEMMA StepKeepsRows ==
  ASSUME CallsOK, Next
  PROVE  RowsStay
<1>1. ASSUME NEW r \in Calls, RunStep(r) PROVE RowsStay
  <2>1. CASE CreateOrg(r)
    BY <2>1 DEF CreateOrg, CallsOK, CallOK, RowsStay, Holds, Placed, Ingest
  <2>2. CASE Upload(r)
    BY <2>2 DEF Upload, CallsOK, CallOK, RowsStay, Holds, Placed, Ingest
  <2>3. CASE Chunk(r)
    <3>1. orgs' = Chunked(r) /\ call'[r] # call[r]
      BY <2>3 DEF Chunk, CallsOK, CallOK, Shaped, Fields
    <3>2. QED
      BY <3>1, ChunkingKeepsRows
  <2>4. CASE IngestFails(r)
    <3>1. call'[r] # call[r]
      <4>1. CASE Goto(r, "rollback")
        BY <2>4, <4>1 DEF IngestFails, Goto, CallsOK, CallOK, Shaped,
                        Fields
      <4>2. CASE End(r)
        BY <2>4, <4>2 DEF IngestFails, End, Waiting, CallsOK
      <4>3. QED
        BY <2>4, <4>1, <4>2 DEF IngestFails
    <3>2. CASE orgs' = orgs
      BY <3>2, UnchangedRows
    <3>3. CASE orgs' = Chunked(r)
      BY <3>1, <3>3, ChunkingKeepsRows
    <3>4. QED
      BY <2>4, <3>2, <3>3 DEF IngestFails
  <2>5. CASE Rollback(r)
    BY <2>5, DeletionKeepsRows DEF Rollback
  <2>6. CASE \/ RunDefault(r) \/ \E c \in Commits : RunAt(r, c)
             \/ CreateFails(r) \/ ReadCurrent(r) \/ CurrentFails(r)
             \/ RollbackFails(r) \/ OpenCache(r) \/ WriteCache(r)
             \/ Ask(r) \/ Kill(r)
    BY <2>6, UnchangedRows DEF RunDefault, RunAt, CreateFails, ReadCurrent,
       CurrentFails, RollbackFails, OpenCache, WriteCache, Ask, Kill, atlas
  <2>7. QED
    BY <1>1, <2>1, <2>2, <2>3, <2>4, <2>5, <2>6 DEF RunStep
<1>2. ASSUME NEW o, PurgeDelete(o) PROVE RowsStay
  BY <1>2, DeletionKeepsRows, UnchangedRows DEF PurgeDelete
<1>3. CASE \/ \E includeCached \in BOOLEAN : PurgeBegin(includeCached)
           \/ PurgeList \/ PurgeEnd
  BY <1>3, UnchangedRows DEF PurgeBegin, PurgeList, PurgeEnd, atlas
<1>4. QED
  BY <1>1, <1>2, <1>3 DEF Next
-----------------------------------------------------------------------------
\* What may be relied upon may be relied upon for good.
LEMMA StaysGood ==
  ASSUME RowsStay
  PROVE  \A e, c : Good(e, c) => Good(e, c)'
BY DEF RowsStay, Good, Revision

\* A run that does not move stays as it should be.
LEMMA OthersStay ==
  ASSUME HoldsInv, RowsStay, NEW q \in Calls, call'[q] = call[q]
  PROVE  CallOK(q)'
BY DEF HoldsInv, CallsOK, CallOK, RowsStay, Good, Entry, Revision, Shaped

LEMMA CacheStays ==
  ASSUME HoldsInv, RowsStay, cache' = cache
  PROVE  CacheOK'
BY DEF HoldsInv, CacheOK, RowsStay, Good, Revision

\* What run r has become, x, is as it should be after the step.
LEMMA OneMoves ==
  ASSUME HoldsInv, RowsStay, NEW r \in Calls, NEW x,
         call' = [call EXCEPT ![r] = x], CallOK(r)'
  PROVE  CallsOK'
<1>1. \A q \in Calls : q # r => call'[q] = call[q]
  BY DEF HoldsInv, CallsOK
<1>2. QED
  BY <1>1, OthersStay DEF HoldsInv, CallsOK

\* The process is gone.
LEMMA EndingIsOK ==
  ASSUME HoldsInv, RowsStay, NEW r \in Calls, End(r)
  PROVE  CallsOK'
<1> DEFINE x == [Waiting EXCEPT !.at = "ended", !.commit = call[r].commit,
                                !.recorded = call[r].recorded]
<1>1. call' = [call EXCEPT ![r] = x]
  BY DEF End
<1>2. /\ DOMAIN x = Fields
      /\ x.at = "ended" /\ x.seen = <<>>
  BY DEF Waiting, Fields
<1> HIDE DEF x
<1>3. call'[r] = x
  BY <1>1 DEF HoldsInv, CallsOK
<1>4. DOMAIN <<>> = {}
  OBVIOUS
<1>5. CallOK(r)'
  BY <1>2, <1>3, <1>4 DEF CallOK, Shaped
<1>6. QED
  BY <1>1, <1>5, OneMoves

\* A run that goes on keeps what it has read; the rest depends on where it is.
LEMMA GoingOnIsOK ==
  ASSUME HoldsInv, RowsStay, NEW r \in Calls, NEW x,
         call' = [call EXCEPT ![r] = x],
         DOMAIN x = Fields, x.seen = call[r].seen, x.at # "waiting",
         x.at = "chunk" => Placed(r)',
         x.at \in {"save", "write"} \/ (x.at = "ask" /\ x.commit # None) =>
            Good(Entry(x.org, x.found), x.commit)',
         x.at = "ask" /\ x.found # None => x.rev = x.found \/ x.commit = None
  PROVE  CallsOK'
<1>1. call'[r] = x
  BY DEF HoldsInv, CallsOK
<1>2. \A e, c : c \in DOMAIN x.seen /\ e = x.seen[c] => Good(e, c)'
  BY StaysGood DEF HoldsInv, CallsOK, CallOK
<1>3. \A c \in DOMAIN x.seen : Good(x.seen[c], c)'
  BY <1>2
<1>4. CallOK(r)'
  <2>1. \A c \in DOMAIN call'[r].seen : Good(call[r].seen[c], c)'
    BY <1>1, <1>3 DEF Good, Holds, Revision
  <2>2. call'[r].at \in {"save", "write"} =>
          Good(Entry(call[r].org, call[r].found), call[r].commit)'
    BY <1>1 DEF Good, Entry, Holds, Revision
  <2>3. call'[r].at = "ask" /\ call'[r].commit # None =>
          /\ Good(Entry(call[r].org, call[r].found), call[r].commit)'
          /\ call'[r].found # None => call'[r].rev = call'[r].found
    BY <1>1 DEF Good, Entry, Holds, Revision
  <2>4. Shaped(call[r])' /\ call'[r].at # "waiting"
          /\ (call'[r].at = "chunk" => Placed(r)')
    BY <1>1 DEF Shaped
  <2>5. QED
    BY <2>1, <2>2, <2>3, <2>4 DEF CallOK
<1>5. QED
  BY <1>1, <1>4, OneMoves

\* The run moves on, to a place that asks nothing of it.
LEMMA MovingIsOK ==
  ASSUME HoldsInv, RowsStay, NEW r \in Calls,
         NEW at \in {"current", "rollback"}, Goto(r, at)
  PROVE  CallsOK'
<1> DEFINE x == [call[r] EXCEPT !.at = at]
<1>1. call' = [call EXCEPT ![r] = x]
  BY DEF Goto
<1>2. DOMAIN x = Fields /\ x.at = at /\ x.seen = call[r].seen
  BY DEF HoldsInv, CallsOK, CallOK, Shaped, Fields
<1> HIDE DEF x
<1>3. QED
  BY <1>1, <1>2, GoingOnIsOK

LEMMA RunAtIsOK ==
  ASSUME HoldsInv, RowsStay, NEW r \in Calls, NEW c \in Commits, RunAt(r, c)
  PROVE  HoldsInv'
<1> DEFINE seen == LoadCache
           x == [Waiting EXCEPT !.commit = c, !.seen = seen]
           y == IF c \in DOMAIN seen
                THEN [x EXCEPT !.at = "ask", !.org = seen[c].org,
                               !.found = seen[c].rev, !.rev = Asked(seen[c].rev)]
                ELSE IF template # None
                THEN [x EXCEPT !.at = "ingest", !.org = template]
                ELSE [x EXCEPT !.at = "create", !.fresh = TRUE]
<1>1. call' = [call EXCEPT ![r] = y] /\ call'[r] = y
  BY DEF RunAt, HoldsInv, CallsOK
<1>2. cache' = cache
  BY DEF RunAt, files
<1> HIDE DEF seen
<1>3. DOMAIN x = Fields /\ x.commit = c /\ x.seen = seen
  BY DEF Waiting, Fields
<1> HIDE DEF x
<1>4. DOMAIN y = Fields /\ y.commit = c /\ y.seen = seen
  BY <1>3 DEF Fields
<1>5. ASSUME c \in DOMAIN seen
      PROVE  y.at = "ask" /\ y.org = seen[c].org /\ y.found = seen[c].rev
             /\ y.rev = Asked(seen[c].rev)
  BY <1>3, <1>5 DEF Fields
<1>6. ASSUME c \notin DOMAIN seen PROVE y.at \in {"ingest", "create"}
  BY <1>3, <1>6 DEF Fields
<1> HIDE DEF y
<1>7. \A e, d : d \in DOMAIN seen /\ e = seen[d] => Good(e, d)'
  <2>1. DOMAIN <<>> = {}
    OBVIOUS
  <2>2. \A d \in DOMAIN seen : Good(seen[d], d)
    BY <2>1 DEF seen, LoadCache, HoldsInv, CacheOK
  <2>3. QED
    BY <2>2, StaysGood
<1>8. CallOK(r)'
  <2>1. CASE c \in DOMAIN seen
    <3>1. y.found # None => y.rev = y.found
      BY <1>5, <2>1 DEF Asked
    <3>2. QED
      BY <1>1, <1>4, <1>5, <1>7, <2>1, <3>1
         DEF CallOK, Shaped, Good, Holds, Revision, Entry
  <2>2. CASE c \notin DOMAIN seen
    BY <1>1, <1>4, <1>6, <1>7, <2>2
       DEF CallOK, Shaped, Good, Holds, Revision
  <2>3. QED
    BY <2>1, <2>2
<1>9. QED
  BY <1>1, <1>2, <1>8, OneMoves, CacheStays DEF HoldsInv

LEMMA OrgStepIsOK ==
  ASSUME HoldsInv, RowsStay, NEW r \in Calls,
         \/ RunDefault(r) \/ CreateOrg(r) \/ CreateFails(r) \/ ReadCurrent(r)
         \/ CurrentFails(r) \/ Rollback(r) \/ RollbackFails(r) \/ Ask(r)
         \/ Kill(r)
  PROVE  HoldsInv'
<1>1. CASE RunDefault(r)
  <2> DEFINE x == [call[r] EXCEPT !.at = "ask", !.org = Continuous,
                                  !.rev = Resolve]
  <2>1. call' = [call EXCEPT ![r] = x] /\ cache' = cache
    BY <1>1 DEF RunDefault, files
  <2>2. DOMAIN x = Fields /\ x.at = "ask" /\ x.seen = call[r].seen
          /\ x.commit = None
    BY <1>1 DEF RunDefault, Starts, HoldsInv, CallsOK, CallOK, Shaped, Fields
  <2> HIDE DEF x
  <2>3. QED
    BY <2>1, <2>2, GoingOnIsOK, CacheStays DEF HoldsInv
<1>2. CASE CreateOrg(r)
  BY <1>2, MovingIsOK, CacheStays DEF CreateOrg, files, HoldsInv
<1>3. CASE ReadCurrent(r)
  <2> DEFINE x == [call[r] EXCEPT !.at = "ingest", !.org = active]
  <2>1. call' = [call EXCEPT ![r] = x] /\ cache' = cache
    BY <1>3 DEF ReadCurrent, files
  <2>2. DOMAIN x = Fields /\ x.at = "ingest" /\ x.seen = call[r].seen
    BY DEF HoldsInv, CallsOK, CallOK, Shaped, Fields
  <2> HIDE DEF x
  <2>3. QED
    BY <2>1, <2>2, GoingOnIsOK, CacheStays DEF HoldsInv
<1>4. CASE \/ CreateFails(r) \/ CurrentFails(r) \/ Rollback(r)
           \/ RollbackFails(r) \/ Ask(r) \/ Kill(r)
  <2>1. End(r) /\ cache' = cache
    BY <1>4 DEF CreateFails, CurrentFails, Rollback, RollbackFails, Ask, Kill,
                files
  <2>2. QED
    BY <2>1, EndingIsOK, CacheStays DEF HoldsInv
<1>5. QED
  BY <1>1, <1>2, <1>3, <1>4

LEMMA IngestStepIsOK ==
  ASSUME HoldsInv, RowsStay, NEW r \in Calls,
         Upload(r) \/ Chunk(r) \/ IngestFails(r)
  PROVE  HoldsInv'
<1>1. CASE Upload(r)
  <2> DEFINE x == [call[r] EXCEPT !.at = "chunk"]
  <2>1. call' = [call EXCEPT ![r] = x] /\ call'[r] = x /\ cache' = cache
    BY <1>1 DEF Upload, Goto, files, HoldsInv, CallsOK
  <2>2. DOMAIN x = Fields /\ x.at = "chunk" /\ x.seen = call[r].seen
          /\ x.org = call[r].org /\ x.commit = call[r].commit
    BY DEF HoldsInv, CallsOK, CallOK, Shaped, Fields
  <2> HIDE DEF x
  <2>3. Placed(r)'
    BY <1>1, <2>1, <2>2 DEF Upload, Placed, Ingest
  <2>4. QED
    BY <2>1, <2>2, <2>3, GoingOnIsOK, CacheStays DEF HoldsInv
<1>2. CASE Chunk(r)
  <2>1. PICK rev \in {Revision(call[r].org, call[r].commit), None} :
          call' = [call EXCEPT ![r].at = "save", ![r].found = rev]
    BY <1>2 DEF Chunk
  <2> DEFINE x == [call[r] EXCEPT !.at = "save", !.found = rev]
  <2>2. call' = [call EXCEPT ![r] = x] /\ cache' = cache
    BY <1>2, <2>1 DEF Chunk, files
  <2>3. DOMAIN x = Fields /\ x.at = "save" /\ x.seen = call[r].seen
          /\ x.org = call[r].org /\ x.commit = call[r].commit /\ x.found = rev
    BY DEF HoldsInv, CallsOK, CallOK, Shaped, Fields
  <2> HIDE DEF x
  <2>4. \A e, c : e = Entry(x.org, x.found) /\ c = x.commit => Good(e, c)'
    <3>1. x.org \in DOMAIN orgs
      BY <1>2, <2>3 DEF Chunk, HoldsInv, CallsOK, CallOK, Placed
    <3>2. Ingest(r, TRUE) \in orgs'[x.org] /\ x.org \in DOMAIN orgs'
      BY <1>2, <2>3, <3>1 DEF Chunk, Chunked
    <3>3. \A o, c : o = x.org /\ c = x.commit => Holds(o, c)'
      BY <2>3, <3>2 DEF Holds, Ingest
    <3>4. QED
      BY <2>3, <3>3 DEF Good, Entry, Revision
  <2>5. QED
    BY <2>2, <2>3, <2>4, GoingOnIsOK, CacheStays DEF HoldsInv
<1>3. CASE IngestFails(r)
  <2>1. cache' = cache /\ (Goto(r, "rollback") \/ End(r))
    BY <1>3 DEF IngestFails, files
  <2>2. QED
    BY <2>1, MovingIsOK, EndingIsOK, CacheStays DEF HoldsInv
<1>4. QED
  BY <1>1, <1>2, <1>3

LEMMA SaveStepIsOK ==
  ASSUME HoldsInv, RowsStay, NEW r \in Calls, OpenCache(r) \/ WriteCache(r)
  PROVE  HoldsInv'
<1>1. CASE OpenCache(r)
  <2> DEFINE x == [call[r] EXCEPT !.at = "write"]
  <2>1. call' = [call EXCEPT ![r] = x] /\ cache' = cache
    BY <1>1 DEF OpenCache, Goto, files
  <2>2. DOMAIN x = Fields /\ x.at = "write" /\ x.seen = call[r].seen
          /\ x.org = call[r].org /\ x.commit = call[r].commit
          /\ x.found = call[r].found
    BY DEF HoldsInv, CallsOK, CallOK, Shaped, Fields
  <2> HIDE DEF x
  <2>3. Good(Entry(x.org, x.found), x.commit)
    BY <1>1, <2>2 DEF OpenCache, HoldsInv, CallsOK, CallOK
  <2>4. QED
    BY <2>1, <2>2, <2>3, StaysGood, GoingOnIsOK, CacheStays DEF HoldsInv
<1>2. CASE WriteCache(r)
  <2> DEFINE x == [call[r] EXCEPT !.at = "ask", !.recorded = TRUE,
                                  !.rev = Asked(call[r].found)]
             own == Entry(call[r].org, call[r].found)
  <2>1. call' = [call EXCEPT ![r] = x]
    BY <1>2 DEF WriteCache, Recorded
  <2>2. DOMAIN x = Fields /\ x.at = "ask" /\ x.seen = call[r].seen
          /\ x.org = call[r].org /\ x.commit = call[r].commit
          /\ x.found = call[r].found /\ x.rev = Asked(call[r].found)
    BY DEF HoldsInv, CallsOK, CallOK, Shaped, Fields
  <2> HIDE DEF x
  <2>3. Good(own, call[r].commit)
    BY <1>2 DEF WriteCache, HoldsInv, CallsOK, CallOK
  <2>4. CallsOK'
    BY <2>1, <2>2, <2>3, StaysGood, GoingOnIsOK DEF Asked
  <2>5. \A d \in DOMAIN cache' :
          \/ d = call[r].commit /\ cache'[d] = own
          \/ d \in DOMAIN call[r].seen /\ cache'[d] = call[r].seen[d]
    <3>1. cache' = [d \in DOMAIN call[r].seen \cup {call[r].commit} |->
              IF d = call[r].commit THEN own ELSE call[r].seen[d]]
      BY <1>2 DEF WriteCache
    <3> HIDE DEF own
    <3>2. DOMAIN cache' = DOMAIN call[r].seen \cup {call[r].commit}
      BY <3>1
    <3>3. ASSUME NEW d \in DOMAIN cache'
          PROVE  cache'[d] = IF d = call[r].commit THEN own
                             ELSE call[r].seen[d]
      BY <3>1, <3>2
    <3>4. QED
      BY <3>2, <3>3
  <2>6. \A d \in DOMAIN cache' : Good(cache'[d], d)
    BY <2>3, <2>5 DEF HoldsInv, CallsOK, CallOK
  <2>7. CacheOK'
    BY <2>6, StaysGood DEF CacheOK, Good, Holds, Revision
  <2>8. QED
    BY <2>4, <2>7 DEF HoldsInv
<1>3. QED
  BY <1>1, <1>2
-----------------------------------------------------------------------------
LEMMA HoldsInvariance == Spec => []HoldsInv
<1>1. Init => HoldsInv
  <2>1. DOMAIN <<>> = {}
    OBVIOUS
  <2>2. QED
    BY <2>1 DEF Init, HoldsInv, CallsOK, CallOK, CacheOK, Shaped, Fields,
                Waiting
<1>2. HoldsInv /\ [Next]_vars => HoldsInv'
  <2> SUFFICES ASSUME HoldsInv, [Next]_vars PROVE HoldsInv'
    OBVIOUS
  <2>1. CASE UNCHANGED vars
    BY <2>1 DEF vars, atlas, files, HoldsInv, CallsOK, CallOK, CacheOK, Good,
                Entry, Holds, Placed, Ingest, Revision
  <2>2. CASE Next
    <3>1. RowsStay
      BY <2>2, StepKeepsRows DEF HoldsInv
    <3>2. ASSUME NEW r \in Calls, RunStep(r) PROVE HoldsInv'
      BY <3>1, <3>2, RunAtIsOK, OrgStepIsOK, IngestStepIsOK, SaveStepIsOK
         DEF RunStep
    <3>3. CASE \/ \E includeCached \in BOOLEAN : PurgeBegin(includeCached)
               \/ PurgeList \/ \E o \in purge.todo : PurgeDelete(o)
               \/ PurgeEnd
      <4>1. call' = call /\ cache' = cache
        BY <3>3 DEF PurgeBegin, PurgeList, PurgeDelete, PurgeEnd, files
      <4>2. QED
        BY <3>1, <4>1, OthersStay, CacheStays DEF HoldsInv, CallsOK
    <3>4. QED
      BY <2>2, <3>2, <3>3 DEF Next
  <2>3. QED
    BY <2>1, <2>2
<1>3. QED
  BY <1>1, <1>2, PTL DEF Spec

\* Whatever overlaps, fails, is killed, rolled back or purged, and however
\* many runs and commits there are: an entry of the cache names an
\* organisation that holds its commit.
THEOREM CacheCanBeReliedUpon == Spec => []CachedOrgHoldsData
<1>1. HoldsInv => CachedOrgHoldsData
  BY DEF HoldsInv, CacheOK, Good, CachedOrgHoldsData
<1>2. QED
  BY <1>1, HoldsInvariance, PTL

\* A run at a commit asks an organisation that holds the commit, for the
\* revision it was ingested as.
THEOREM EveryRunAsksItsCommit == Spec => []RunAsksItsCommit
<1>1. HoldsInv => RunAsksItsCommit
  BY DEF HoldsInv, CallsOK, CallOK, Good, Entry, RunAsksItsCommit
<1>2. QED
  BY <1>1, HoldsInvariance, PTL
-----------------------------------------------------------------------------
(***************************************************************************)
(* Runs that take turns. A run alone finds the cache as it was written     *)
(* last, and the one empty organisation there is, is the one it made.      *)
(***************************************************************************)
InTurns == ~overlapped /\ faults = 0

\* At most one invocation is under way.
OneRuns == \A q, r \in Running : q = r

\* Between a miss and the save, what was read is what the file says.
Missed == {"create", "current", "ingest", "chunk", "rollback", "save", "write"}
ReadIsCurrent ==
    \A r \in Calls : call[r].at \in Missed =>
        call[r].seen = cache /\ call[r].commit \notin DOMAIN cache

\* The file is JSON, but for a writer that has emptied it.
TextIsWriters ==
    /\ text # "json" => \E r \in Calls : call[r].at = "write"
    /\ \A r \in Calls : call[r].at = "write" => text = "empty"

RecordedIsCached ==
    \A r \in Calls : call[r].recorded => call[r].commit \in DOMAIN cache

RecordedOnce ==
    \A q, r \in Calls :
        call[q].recorded /\ call[r].recorded
            /\ call[q].commit = call[r].commit => q = r

\* An organisation without rows has a run that will fill it or delete it.
Made(r, o) ==
    \/ call[r].at = "current" /\ active = o
    \/ call[r].at \in {"ingest", "rollback"} /\ call[r].fresh /\ call[r].org = o

MakersAreFresh ==
    \A r \in Calls : call[r].at \in {"create", "current"} => call[r].fresh

EmptyIsMade ==
    \A o \in Shadow : orgs[o] = {} => \E r \in Calls : Made(r, o)

TurnsInv ==
    /\ faults \in Nat
    /\ InTurns => /\ OneRuns /\ ReadIsCurrent /\ TextIsWriters
                  /\ RecordedIsCached /\ RecordedOnce
                  /\ MakersAreFresh /\ EmptyIsMade

\* Turns taken so far were taken all along.
LEMMA TurnsWereTaken ==
  ASSUME TurnsInv, Next
  PROVE  faults' \in Nat /\ (InTurns' => InTurns /\ faults' = faults)
<1>1. faults' = faults \/ faults' = faults + 1
  BY DEF Next, RunStep, RunDefault, RunAt, CreateOrg, CreateFails, ReadCurrent,
         CurrentFails, Upload, Chunk, IngestFails, Rollback, RollbackFails,
         OpenCache, WriteCache, Ask, Kill, Fault, PurgeBegin, PurgeList,
         PurgeDelete, PurgeEnd
<1>2. overlapped => overlapped'
  BY DEF Next, RunStep, RunDefault, RunAt, Starts, CreateOrg, CreateFails,
         ReadCurrent, CurrentFails, Upload, Chunk, IngestFails, Rollback,
         RollbackFails, OpenCache, WriteCache, Ask, Kill, PurgeBegin, PurgeList,
         PurgeDelete, PurgeEnd
<1>3. faults \in Nat
  BY DEF TurnsInv
<1>4. faults' = 0 => faults = 0
  BY <1>1, <1>3
<1>5. QED
  BY <1>1, <1>2, <1>3, <1>4 DEF InTurns

\* What the run at r has become, seen from the cache.
LEMMA RunMovesOn ==
  ASSUME OneRuns, ReadIsCurrent, TextIsWriters, RecordedIsCached, RecordedOnce,
         NEW r \in Calls, r \in Running,
         \A q \in Calls : q # r => call'[q] = call[q],
         cache' = cache, call[r].at # "write",
         call'[r].at = "write" => text' = "empty",
         call'[r].at # "write" => text' = text,
         call'[r].commit = call[r].commit, call'[r].recorded = call[r].recorded,
         call'[r].at \notin {"waiting"},
         call'[r].at \in Missed =>
            call[r].at \in Missed /\ call'[r].seen = call[r].seen
  PROVE  /\ OneRuns' /\ ReadIsCurrent' /\ TextIsWriters'
         /\ RecordedIsCached' /\ RecordedOnce'
<1>1. OneRuns'
  BY DEF OneRuns, Running
<1>2. ReadIsCurrent'
  BY DEF ReadIsCurrent
<1>3. RecordedIsCached' /\ RecordedOnce'
  BY DEF RecordedIsCached, RecordedOnce
<1>4. TextIsWriters'
  <2>1. \A q \in Calls : call[q].at # "write"
    BY DEF OneRuns, Running
  <2>2. text = "json"
    BY <2>1 DEF TextIsWriters
  <2>3. QED
    BY <2>1, <2>2 DEF TextIsWriters
<1>5. QED
  BY <1>1, <1>2, <1>3, <1>4

CachePart ==
    /\ OneRuns /\ ReadIsCurrent /\ TextIsWriters
    /\ RecordedIsCached /\ RecordedOnce

\* What End and Goto make of a run.
LEMMA EndFields ==
  ASSUME HoldsInv, NEW r \in Calls, End(r)
  PROVE  /\ \A q \in Calls : q # r => call'[q] = call[q]
         /\ call'[r].at = "ended"
         /\ call'[r].commit = call[r].commit
         /\ call'[r].recorded = call[r].recorded
BY DEF End, Waiting, HoldsInv, CallsOK

LEMMA GotoFields ==
  ASSUME HoldsInv, NEW r \in Calls, NEW at, Goto(r, at)
  PROVE  /\ \A q \in Calls : q # r => call'[q] = call[q]
         /\ call'[r] = [call[r] EXCEPT !.at = at]
         /\ call'[r].at = at /\ call'[r].commit = call[r].commit
         /\ call'[r].recorded = call[r].recorded /\ call'[r].seen = call[r].seen
         /\ call'[r].org = call[r].org /\ call'[r].fresh = call[r].fresh
BY DEF Goto, HoldsInv, CallsOK, CallOK, Shaped, Fields

\* A run begins, with nobody else under way.
LEMMA BeginInTurns ==
  ASSUME HoldsInv, CachePart, InTurns', NEW r \in Calls,
         RunDefault(r) \/ \E c \in Commits : RunAt(r, c)
  PROVE  CachePart'
<1>1. Running = {} /\ cache' = cache /\ text' = text
  BY DEF RunDefault, RunAt, Starts, InTurns, files
<1>2. text = "json"
  BY <1>1 DEF CachePart, TextIsWriters, Running
<1>3. \A q \in Calls : q # r => call'[q] = call[q]
  BY DEF RunDefault, RunAt, HoldsInv, CallsOK
<1>4. /\ call'[r].at \in Missed => /\ call'[r].seen = LoadCache
                                   /\ call'[r].commit \notin DOMAIN LoadCache
      /\ call'[r].recorded => call[r].recorded /\ call'[r].commit = call[r].commit
  <2>1. CASE RunDefault(r)
    BY <2>1 DEF RunDefault, HoldsInv, CallsOK, CallOK, Shaped, Fields, Missed
  <2>2. ASSUME NEW c \in Commits, RunAt(r, c)
        PROVE  /\ call'[r].commit = c /\ call'[r].seen = LoadCache
               /\ ~call'[r].recorded
               /\ c \in DOMAIN LoadCache => call'[r].at = "ask"
    BY <2>2 DEF RunAt, Waiting, HoldsInv, CallsOK
  <2>3. QED
    BY <2>1, <2>2 DEF Missed
<1>5. LoadCache = cache
  BY <1>2 DEF LoadCache
<1>6. OneRuns'
  BY <1>1, <1>3 DEF OneRuns, Running
<1>7. ReadIsCurrent'
  BY <1>1, <1>3, <1>4, <1>5 DEF CachePart, ReadIsCurrent, Missed, Running
<1>8. TextIsWriters'
  <2>1. CASE RunDefault(r)
    <3>1. call'[r].at # "write"
      BY <2>1 DEF RunDefault, HoldsInv, CallsOK, CallOK, Shaped, Fields
    <3>2. QED
      BY <1>1, <1>2, <1>3, <3>1 DEF TextIsWriters, Running
  <2>2. ASSUME NEW c \in Commits, RunAt(r, c) PROVE TextIsWriters'
    <3>1. call'[r].at \in {"ask", "ingest", "create"}
      BY <2>2 DEF RunAt, Waiting, HoldsInv, CallsOK
    <3>2. QED
      BY <1>1, <1>2, <1>3, <3>1 DEF TextIsWriters, Running
  <2>3. QED
    BY <2>1, <2>2
<1>9. RecordedIsCached' /\ RecordedOnce'
  BY <1>1, <1>3, <1>4 DEF CachePart, RecordedIsCached, RecordedOnce
<1>10. QED
  BY <1>6, <1>7, <1>8, <1>9 DEF CachePart

\* A run under way takes a step short of the save.
LEMMA MoveInTurns ==
  ASSUME HoldsInv, CachePart, NEW r \in Calls,
         \/ CreateOrg(r) \/ CreateFails(r) \/ ReadCurrent(r) \/ Upload(r)
         \/ Chunk(r) \/ IngestFails(r) \/ Rollback(r) \/ OpenCache(r) \/ Ask(r)
  PROVE  CachePart'
<1>1. /\ r \in Running /\ call[r].at # "write" /\ cache' = cache
      /\ OpenCache(r) \/ text' = text
      /\ OpenCache(r) => text' = "empty" /\ call'[r].at = "write"
  BY GotoFields DEF CreateOrg, CreateFails, ReadCurrent, Upload, Chunk,
     IngestFails, Rollback, OpenCache, Ask, Running, files
<1>2. CASE CreateFails(r) \/ Rollback(r) \/ Ask(r) \/ (IngestFails(r) /\ End(r))
  <2>1. End(r)
    BY <1>2 DEF CreateFails, Rollback, Ask
  <2>2. QED
    BY <1>1, <1>2, <2>1, EndFields, RunMovesOn DEF CachePart, Missed, OpenCache,
       CreateFails, Rollback, Ask, IngestFails
<1>3. ASSUME NEW at \in Missed, Goto(r, at), call[r].at \in Missed,
             at # "write" \/ OpenCache(r)
      PROVE  CachePart'
  BY <1>1, <1>3, GotoFields, RunMovesOn DEF CachePart, Missed
<1>4. CASE CreateOrg(r) \/ Upload(r) \/ OpenCache(r) \/ IngestFails(r)
  BY <1>2, <1>3, <1>4 DEF CreateOrg, Upload, OpenCache, IngestFails, Missed
<1>5. CASE ReadCurrent(r) \/ Chunk(r)
  <2>1. /\ \A q \in Calls : q # r => call'[q] = call[q]
        /\ call'[r].at \in Missed \ {"write"} /\ call[r].at \in Missed
        /\ call'[r].commit = call[r].commit
        /\ call'[r].recorded = call[r].recorded /\ call'[r].seen = call[r].seen
    BY <1>5 DEF ReadCurrent, Chunk, HoldsInv, CallsOK, CallOK, Shaped, Fields,
                Missed
  <2>2. QED
    BY <1>1, <1>5, <2>1, RunMovesOn DEF CachePart, Missed
<1>6. QED
  BY <1>2, <1>4, <1>5

\* The save: the commit was not in the cache, and no other entry is lost.
LEMMA SaveInTurns ==
  ASSUME HoldsInv, CachePart, NEW r \in Calls, WriteCache(r)
  PROVE  CachePart'
<1>1. /\ r \in Running /\ call[r].at = "write"
      /\ call[r].seen = cache /\ call[r].commit \notin DOMAIN cache
  BY DEF WriteCache, Running, CachePart, ReadIsCurrent, Missed
<1>2. \A q \in Calls : q # r => call[q].at \in {"waiting", "ended"}
  BY <1>1 DEF CachePart, OneRuns, Running
<1>3. text' = "json"
  BY <1>1, <1>2 DEF WriteCache, CachePart, TextIsWriters
<1>4. DOMAIN cache' = DOMAIN cache \cup {call[r].commit}
  BY <1>1 DEF WriteCache
<1>5. /\ \A q \in Calls : q # r => call'[q] = call[q]
      /\ call'[r].at = "ask" /\ call'[r].commit = call[r].commit
  BY DEF WriteCache, Recorded, HoldsInv, CallsOK, CallOK, Shaped, Fields
<1>6. OneRuns' /\ ReadIsCurrent' /\ TextIsWriters'
  BY <1>1, <1>2, <1>3, <1>5 DEF OneRuns, Running, ReadIsCurrent, TextIsWriters,
                                Missed
<1>7. RecordedIsCached'
  BY <1>4, <1>5 DEF CachePart, RecordedIsCached
<1>8. RecordedOnce'
  BY <1>1, <1>5 DEF CachePart, RecordedIsCached, RecordedOnce
<1>9. QED
  BY <1>6, <1>7, <1>8 DEF CachePart

LEMMA CacheInTurns ==
  ASSUME HoldsInv, CachePart, InTurns, InTurns', faults' = faults, [Next]_vars
  PROVE  CachePart'
<1>1. ASSUME call' = call, cache' = cache, text' = text
      PROVE  CachePart'
  BY <1>1 DEF CachePart, OneRuns, Running, ReadIsCurrent, TextIsWriters,
              RecordedIsCached, RecordedOnce
<1>2. ASSUME NEW r \in Calls, RunStep(r)
      PROVE  CachePart'
  <2>1. ~CurrentFails(r) /\ ~RollbackFails(r) /\ ~Kill(r)
    BY DEF CurrentFails, RollbackFails, Kill, Fault, InTurns
  <2>2. QED
    BY <1>2, <2>1, BeginInTurns, MoveInTurns, SaveInTurns DEF RunStep
<1>3. CASE UNCHANGED vars
  BY <1>1, <1>3 DEF vars, files
<1>4. CASE \/ \E includeCached \in BOOLEAN : PurgeBegin(includeCached)
           \/ PurgeList \/ (\E o \in purge.todo : PurgeDelete(o)) \/ PurgeEnd
  BY <1>1, <1>4 DEF PurgeBegin, PurgeList, PurgeDelete, PurgeEnd, files
<1>5. QED
  BY <1>2, <1>3, <1>4 DEF Next

-----------------------------------------------------------------------------
\* A step that leaves empty only what was empty, and its maker where it was.
LEMMA EmptyStays ==
  ASSUME EmptyIsMade,
         DOMAIN orgs' \subseteq DOMAIN orgs,
         \A o \in DOMAIN orgs' : orgs'[o] = {} => orgs[o] = {},
         \A r \in Calls, o \in DOMAIN orgs' :
            Made(r, o) /\ orgs'[o] = {} => Made(r, o)'
  PROVE  EmptyIsMade'
BY DEF EmptyIsMade, Shadow

\* A run begins: it makes nothing yet, and nothing is empty.
LEMMA EmptyBegins ==
  ASSUME HoldsInv, MakersAreFresh, EmptyIsMade, InTurns', NEW r \in Calls,
         RunDefault(r) \/ \E c \in Commits : RunAt(r, c)
  PROVE  MakersAreFresh' /\ EmptyIsMade'
<1>1. Running = {} /\ orgs' = orgs /\ template' = template
  BY DEF RunDefault, RunAt, Starts, InTurns, atlas, given
<1>2. \A q \in Calls : q # r => call'[q] = call[q]
  BY DEF RunDefault, RunAt, HoldsInv, CallsOK
<1>3. call'[r].at \in {"create", "current"} => call'[r].fresh
  <2>1. CASE RunDefault(r)
    BY <2>1 DEF RunDefault, HoldsInv, CallsOK, CallOK, Shaped, Fields
  <2>2. CASE \E c \in Commits : RunAt(r, c)
    BY <2>2 DEF RunAt, Waiting, HoldsInv, CallsOK
  <2>3. QED
    BY <2>1, <2>2
<1>4. \A q \in Calls : \A o : ~Made(q, o)
  BY <1>1 DEF Made, Running
<1>5. QED
  BY <1>1, <1>2, <1>3, <1>4 DEF MakersAreFresh, EmptyIsMade, Shadow

\* The one run under way moves on; if it has made an organisation, it still
\* has it or has filled or deleted it.
LEMMA EmptyMoves ==
  ASSUME HoldsInv, OneRuns, MakersAreFresh, EmptyIsMade,
         NEW r \in Calls,
         \/ CreateOrg(r) \/ CreateFails(r) \/ ReadCurrent(r) \/ Upload(r)
         \/ Chunk(r) \/ IngestFails(r) \/ Rollback(r) \/ OpenCache(r)
         \/ WriteCache(r) \/ Ask(r)
  PROVE  MakersAreFresh' /\ EmptyIsMade'
<1>1. \A q \in Calls : \A o : Made(q, o) => q = r
  BY DEF Made, OneRuns, Running, CreateOrg, CreateFails, ReadCurrent, Upload,
         Chunk, IngestFails, Rollback, OpenCache, WriteCache, Ask
<1>2. CASE CreateOrg(r)
  <2>1. \A o \in Shadow : orgs[o] # {}
    BY <1>1, <1>2 DEF EmptyIsMade, Made, CreateOrg
  <2>2. /\ DOMAIN orgs' = DOMAIN orgs \cup {names + 1}
        /\ \A o \in DOMAIN orgs : orgs'[o] = orgs[o]
        /\ active' = names + 1
    BY <1>2 DEF CreateOrg
  <2>3. call'[r].at = "current" /\ call'[r].fresh
          /\ \A q \in Calls : q # r => call'[q] = call[q]
    BY <1>2, GotoFields DEF CreateOrg, MakersAreFresh
  <2>4. QED
    BY <2>1, <2>2, <2>3 DEF EmptyIsMade, Shadow, Made, MakersAreFresh
<1>3. CASE ReadCurrent(r)
  <2>1. orgs' = orgs /\ active' = active /\ call[r].at = "current"
          /\ call[r].fresh
    BY <1>3 DEF ReadCurrent, atlas, MakersAreFresh
  <2>2. call'[r].at = "ingest" /\ call'[r].org = active
          /\ call'[r].fresh = call[r].fresh
          /\ \A q \in Calls : q # r => call'[q] = call[q]
    BY <1>3 DEF ReadCurrent, HoldsInv, CallsOK, CallOK, Shaped, Fields
  <2>3. \A o : Made(r, o) => Made(r, o)'
    BY <2>1, <2>2 DEF Made
  <2>4. QED
    BY <1>1, <2>1, <2>2, <2>3, EmptyStays DEF MakersAreFresh
<1>4. ASSUME \A q \in Calls : q # r => call'[q] = call[q],
             call'[r].at \notin {"create", "current"}
      PROVE  MakersAreFresh'
  BY <1>4 DEF MakersAreFresh
<1>5. CASE Upload(r) \/ Chunk(r)
  <2>1. /\ DOMAIN orgs' = DOMAIN orgs
        /\ \A o \in DOMAIN orgs : orgs'[o] = {} =>
              orgs[o] = {} /\ o # call[r].org
    BY <1>5 DEF Upload, Chunk, Chunked
  <2>2. /\ \A q \in Calls : q # r => call'[q] = call[q]
        /\ call[r].at \notin {"current", "rollback"}
        /\ call'[r].at \notin {"create", "current"}
    BY <1>5 DEF Upload, Chunk, Goto, HoldsInv, CallsOK, CallOK, Shaped, Fields
  <2>3. QED
    BY <1>1, <1>4, <2>1, <2>2, EmptyStays DEF Made
<1>6. CASE IngestFails(r)
  <2>1. /\ DOMAIN orgs' = DOMAIN orgs
        /\ \A o \in DOMAIN orgs : orgs'[o] = {} => orgs[o] = {}
    BY <1>6 DEF IngestFails, Chunked
  <2>2. /\ call[r].at \in {"ingest", "chunk"}
        /\ \A q \in Calls : q # r => call'[q] = call[q]
        /\ call'[r].at \in {"rollback", "ended"}
        /\ call[r].fresh => /\ call'[r].at = "rollback" /\ call'[r].fresh
                            /\ call'[r].org = call[r].org
    BY <1>6, GotoFields, EndFields DEF IngestFails
  <2>3. \A o : Made(r, o) => Made(r, o)'
    BY <2>2 DEF Made
  <2>4. QED
    BY <1>1, <1>4, <2>1, <2>2, <2>3, EmptyStays
<1>7. CASE Rollback(r)
  <2>1. /\ call[r].at = "rollback"
        /\ \A q \in Calls : q # r => call'[q] = call[q]
        /\ call'[r].at = "ended"
    BY <1>7, EndFields DEF Rollback
  <2>2. /\ DOMAIN orgs' \subseteq DOMAIN orgs
        /\ \A o \in DOMAIN orgs' : orgs'[o] = orgs[o]
        /\ \A o \in DOMAIN orgs' : orgs'[o] = {} => o # call[r].org
    BY <1>7 DEF Rollback, Deleted
  <2>3. QED
    BY <1>1, <1>4, <2>1, <2>2, EmptyStays DEF Made
<1>8. CASE CreateFails(r) \/ OpenCache(r) \/ WriteCache(r) \/ Ask(r)
  <2>1. /\ orgs' = orgs
        /\ call[r].at \notin {"current", "ingest", "rollback"}
    BY <1>8 DEF CreateFails, OpenCache, WriteCache, Ask, atlas
  <2>2. /\ \A q \in Calls : q # r => call'[q] = call[q]
        /\ call'[r].at \notin {"create", "current"}
    <3>1. CASE CreateFails(r) \/ Ask(r)
      BY <3>1, EndFields DEF CreateFails, Ask
    <3>2. CASE OpenCache(r)
      BY <3>2, GotoFields DEF OpenCache
    <3>3. CASE WriteCache(r)
      BY <3>3 DEF WriteCache, Recorded, HoldsInv, CallsOK, CallOK, Shaped,
                  Fields
    <3>4. QED
      BY <1>8, <3>1, <3>2, <3>3
  <2>3. QED
    BY <1>1, <1>4, <2>1, <2>2, EmptyStays DEF Made
<1>9. QED
  BY <1>2, <1>3, <1>5, <1>6, <1>7, <1>8

\* A purge deletes organisations without rows and makes none.
LEMMA EmptyPurged ==
  ASSUME MakersAreFresh, EmptyIsMade, call' = call, active' = active,
         orgs' = orgs \/ \E o : orgs' = Deleted(o)
  PROVE  MakersAreFresh' /\ EmptyIsMade'
<1>1. DOMAIN orgs' \subseteq DOMAIN orgs
        /\ \A o \in DOMAIN orgs' : orgs'[o] = orgs[o]
  BY DEF Deleted
<1>2. QED
  BY <1>1, EmptyStays DEF MakersAreFresh, Made

LEMMA EmptyInTurns ==
  ASSUME HoldsInv, OneRuns, MakersAreFresh, EmptyIsMade, InTurns', InTurns,
         faults' = faults, [Next]_vars
  PROVE  MakersAreFresh' /\ EmptyIsMade'
<1>1. ASSUME NEW r \in Calls, RunStep(r)
      PROVE  MakersAreFresh' /\ EmptyIsMade'
  <2>1. ~CurrentFails(r) /\ ~RollbackFails(r) /\ ~Kill(r)
    BY DEF CurrentFails, RollbackFails, Kill, Fault, InTurns
  <2>2. QED
    BY <1>1, <2>1, EmptyBegins, EmptyMoves DEF RunStep
<1>2. CASE UNCHANGED vars
  BY <1>2, EmptyPurged DEF vars, atlas
<1>3. CASE \/ \E includeCached \in BOOLEAN : PurgeBegin(includeCached)
           \/ PurgeList \/ (\E o \in purge.todo : PurgeDelete(o)) \/ PurgeEnd
  BY <1>3, EmptyPurged DEF PurgeBegin, PurgeList, PurgeDelete, PurgeEnd, atlas
<1>4. QED
  BY <1>1, <1>2, <1>3 DEF Next
-----------------------------------------------------------------------------
LEMMA TurnsInvariance == Spec => [](HoldsInv /\ TurnsInv)
<1>1. Init => TurnsInv
  <2> SUFFICES ASSUME Init PROVE TurnsInv
    OBVIOUS
  <2>1. \A r \in Calls : call[r].at = "waiting" /\ ~call[r].recorded
    BY DEF Init, Waiting
  <2>2. Shadow = {} /\ text = "json" /\ faults = 0
    BY DEF Init, Shadow
  <2>3. QED
    BY <2>1, <2>2 DEF TurnsInv, OneRuns, Running, ReadIsCurrent, Missed,
       TextIsWriters, RecordedIsCached, RecordedOnce, MakersAreFresh, EmptyIsMade
<1>2. HoldsInv /\ TurnsInv /\ [Next]_vars => TurnsInv'
  <2> SUFFICES ASSUME HoldsInv, TurnsInv, [Next]_vars PROVE TurnsInv'
    OBVIOUS
  <2>1. faults' \in Nat /\ (InTurns' => InTurns /\ faults' = faults)
    BY TurnsWereTaken DEF vars, InTurns, TurnsInv
  <2>2. QED
    BY <2>1, CacheInTurns, EmptyInTurns DEF TurnsInv, CachePart
<1>3. QED
  BY <1>1, <1>2, HoldsInvariance, PTL DEF Spec

\* Runs that take turns and are not killed ingest and record a commit once,
\* however many commits and runs there are and whichever ingests fail.
THEOREM CommitIngestedOnce == Spec => []IngestedOnce
<1>1. TurnsInv => IngestedOnce
  BY DEF TurnsInv, InTurns, RecordedOnce, IngestedOnce
<1>2. QED
  BY <1>1, TurnsInvariance, PTL

\* Runs that take turns leave no empty organisation behind, however many
\* ingests fail and are rolled back.
THEOREM OrphansAreRolledBack == Spec => []NoEmptyOrphan
<1>1. TurnsInv => NoEmptyOrphan
  BY DEF TurnsInv, InTurns, EmptyIsMade, Made, Running, NoEmptyOrphan
<1>2. QED
  BY <1>1, TurnsInvariance, PTL
=============================================================================
