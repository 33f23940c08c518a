-------------------------- MODULE EventStore_proofs --------------------------
(***************************************************************************)
(* Proofs about EventStore for every timeline, page size and bound.  The   *)
(* inductive invariant adds to the types that no cursor is saved and, while*)
(* a run saves, an event it read is intact on disk or still to be saved.   *)
(***************************************************************************)
EXTENDS EventStore, IntervalFacts, TLAPS

\* Each run stamps its start cursor on its events and starts from the cursor an
\* earlier run stamped, so that all of them are nil.
NoCursorSaved ==
    /\ start = NoCursor
    /\ meta.latest = NoCursor
    /\ \A i \in meta.pending : i[2] = NoCursor

Saving == pc \in {"save", "write", "writeMeta"}

\* What a run that saves has already saved is as it read it.
SavedAsRead ==
    /\ Saving => \A e \in Events \ Nameless :
                    raw[e] # "absent" => e \in toSave \/ file[e] = raw[e]
    /\ pc = "writeMeta" => toSave = {}

IInv == TypeOK /\ NoCursorSaved /\ SavedAsRead

---------------------------------------------------------------------------
(* The shape of cursors and of what a run begins with                      *)

\* A cursor the server follows a page with is a cursor.
LEMMA FollowType ==
    ASSUME NEW p \in SUBSET Events, NEW way \in Directions
    PROVE  Follow(p, way) \subseteq Cursors
  BY DEF Follow, After, Before, Cursors, Directions

\* A page holds events of the timeline.
LEMMA PageType == \A c : Page(c) \subseteq Events
  BY DEF Page, Beyond, Timeline

\* A run that begins without a cursor keeps the invariant.
LEMMA BeginKeeps ==
    ASSUME IInv, NEW way \in Directions, Begin(way, NoCursor),
           file' \in [Events -> Contents], meta' = meta
    PROVE  IInv'
  <1>1. TypeOK'
    BY DEF IInv, Begin, TypeOK, Metadata, None, Cursors, Events
  <1>2. NoCursorSaved'
    BY DEF IInv, Begin, NoCursorSaved
  <1>3. SavedAsRead'
    BY DEF Begin, SavedAsRead, Saving
  <1> QED BY <1>1, <1>2, <1>3 DEF IInv

---------------------------------------------------------------------------
(* One lemma per group of actions                                          *)

LEMMA InitOK == Init => IInv
  BY DEF Init, IInv, TypeOK, NoCursorSaved, SavedAsRead, Saving, None, NoMeta, Metadata,
         Contents, Statuses, Cursors, Directions

LEMMA TimelineKeeps ==
    ASSUME IInv, Arrive \/ \E e \in Events : Settle(e)
    PROVE  IInv'
  <1>1. status' \in [Events -> Statuses \cup {"absent"}]
    BY DEF IInv, TypeOK, Arrive, Settle, Statuses
  <1>2. UNCHANGED <<file, meta, csv, exported, pc, runVars, lastRun>>
    BY DEF Arrive, Settle
  <1> QED BY <1>1, <1>2 DEF IInv, TypeOK, NoCursorSaved, SavedAsRead, Saving, runVars

LEMMA StartKeeps ==
    ASSUME IInv, StartFull \/ StartIncremental
    PROVE  IInv'
  <1>1. CASE StartFull
    BY <1>1, BeginKeeps DEF StartFull, Directions, IInv, TypeOK
  <1>2. CASE StartIncremental
    <2>1. Begin("before", NoCursor)
      BY <1>2 DEF StartIncremental, OldestPending, IInv, NoCursorSaved
    <2> QED BY <2>1, <1>2, BeginKeeps DEF StartIncremental, Directions, IInv, TypeOK
  <1> QED BY <1>1, <1>2

LEMMA ResetKeeps ==
    ASSUME IInv, Reset
    PROVE  IInv'
  <1>1. CASE ResetBegins
    BY <1>1 DEF ResetBegins, IInv, TypeOK, NoCursorSaved, SavedAsRead, Saving, None
  <1>2. CASE RemoveMeta
    BY <1>2 DEF RemoveMeta, runVars, IInv, TypeOK, NoCursorSaved, SavedAsRead, Saving,
                NoMeta, Metadata
  <1>3. CASE ResetEnds
    BY <1>3, BeginKeeps DEF ResetEnds, Directions, IInv, TypeOK
  <1>4. ASSUME NEW e \in Events, RemoveFile(e) PROVE IInv'
    BY <1>4 DEF RemoveFile, runVars, IInv, TypeOK, NoCursorSaved, SavedAsRead, Saving, Contents
  <1> QED BY <1>1, <1>2, <1>3, <1>4 DEF Reset

LEMMA PageKeeps ==
    ASSUME IInv, FetchPage
    PROVE  IInv'
  <1> DEFINE p    == Page(cursor)
             read == [e \in Events |-> IF e \in p THEN status[e] ELSE raw[e]]
  <1>1. read \in [Events -> Statuses \cup {"absent"}]
    BY DEF IInv, TypeOK
  <1>2. Follow(p, direction) \subseteq Cursors
    BY PageType, FollowType DEF IInv, TypeOK
  <1> HIDE DEF p, read
  <1>3. CASE /\ cursor' \in Follow(p, direction)
             /\ raw' = read
             /\ UNCHANGED <<toSave, pc, direction, start, lastRun>>
    BY <1>1, <1>2, <1>3 DEF FetchPage, IInv, TypeOK, NoCursorSaved, SavedAsRead, Saving
  <1>4. CASE /\ toSave' = {e \in Events : read[e] # "absent"} \ Nameless
             /\ raw' = read
             /\ pc' = "save"
             /\ UNCHANGED <<cursor, direction, start, lastRun>>
    BY <1>1, <1>4 DEF FetchPage, IInv, TypeOK, NoCursorSaved, SavedAsRead, Saving
  <1>5. CASE lastRun' = direction /\ Exit
    BY <1>5 DEF FetchPage, Exit, None, IInv, TypeOK, NoCursorSaved, SavedAsRead, Saving,
                Directions, Cursors
  <1> QED BY <1>3, <1>4, <1>5 DEF FetchPage, p, read

LEMMA SaveKeeps ==
    ASSUME IInv, OpenMeta \/ FillMeta \/ \E e \in Events : OpenFile(e) \/ FillFile(e)
    PROVE  IInv'
  <1>1. ASSUME NEW e \in Events, OpenFile(e) PROVE IInv'
    BY <1>1 DEF OpenFile, NextFile, runVars, IInv, TypeOK, NoCursorSaved, SavedAsRead, Saving,
                Contents
  <1>2. ASSUME NEW e \in Events, FillFile(e) PROVE IInv'
    BY <1>2 DEF FillFile, IInv, TypeOK, NoCursorSaved, SavedAsRead, Saving, Contents
  <1>3. CASE OpenMeta
    BY <1>3 DEF OpenMeta, AllSaved, TornMeta, NoMeta, Metadata, runVars, IInv, TypeOK,
                NoCursorSaved, SavedAsRead, Saving
  <1>4. CASE FillMeta
    <2> DEFINE items == {<<e, start>> : e \in PendingEvents}
    <2>1. meta' = [is |-> "intact", latest |-> start, pending |-> items]
      BY <1>4 DEF FillMeta, SavedCursor
    <2>2. items \subseteq PendingItems /\ \A i \in items : i[2] = NoCursor
      BY DEF PendingEvents, Fetched, PendingItems, IInv, TypeOK, NoCursorSaved
    <2> HIDE DEF items
    <2>3. meta' \in Metadata /\ meta'.latest = NoCursor /\ \A i \in meta'.pending : i[2] = NoCursor
      BY <2>1, <2>2 DEF Metadata, IInv, TypeOK, NoCursorSaved
    <2> QED BY <1>4, <2>3 DEF FillMeta, Exit, None, IInv, TypeOK, NoCursorSaved, SavedAsRead,
                              Saving, Directions, Cursors
  <1> QED BY <1>1, <1>2, <1>3, <1>4

LEMMA OtherKeeps ==
    ASSUME IInv, Abort \/ Export
    PROVE  IInv'
  <1>1. CASE Abort
    BY <1>1 DEF Abort, Exit, None, IInv, TypeOK, NoCursorSaved, SavedAsRead, Saving,
                Directions, Cursors
  <1>2. CASE Export
    BY <1>2 DEF Export, Shown, Readable, runVars, IInv, TypeOK, NoCursorSaved, SavedAsRead, Saving
  <1> QED BY <1>1, <1>2

LEMMA StutterKeeps == IInv /\ UNCHANGED vars => IInv'
  BY DEF vars, runVars, IInv, TypeOK, NoCursorSaved, SavedAsRead, Saving

---------------------------------------------------------------------------
(* Theorems                                                                *)

\* The inductive invariant holds in every state of the events directory.
THEOREM StoreInvariant == Spec => []IInv
  <1>1. IInv /\ [Next]_vars => IInv'
    BY TimelineKeeps, StartKeeps, ResetKeeps, PageKeeps, SaveKeeps, OtherKeeps, StutterKeeps
       DEF Next, Fetch
  <1> QED BY InitOK, <1>1, PTL DEF Spec

\* Every file, the metadata and the run's memory stay of their types.
THEOREM StoreTypeCorrect == Spec => []TypeOK
  BY StoreInvariant, PTL DEF IInv

\* Why an incremental run cannot resume: no cursor but nil ever reaches the
\* metadata, so that it always starts at the top of the timeline
\* (convertMapsToRawEventFiles).  README.md promises cursors there.
THEOREM ResumptionIsNil == Spec => []NoCursorSaved
  BY StoreInvariant, PTL DEF IInv

\* Metadata is written only when every event of the run is intact on disk.
THEOREM MetadataComesLast == Spec => MetadataIsLast
  <1>1. IInv /\ [Next]_vars =>
            [meta'.is = "intact" /\ meta' # meta =>
                \A e \in Events \ Nameless : raw[e] # "absent" => file[e] = raw[e]]_vars
    <2> SUFFICES ASSUME IInv, Next, meta'.is = "intact", meta' # meta
                 PROVE  \A e \in Events \ Nameless : raw[e] # "absent" => file[e] = raw[e]
      OBVIOUS
    <2>1. FillMeta
      BY DEF Next, Fetch, Reset, Begin, StartFull, StartIncremental, FetchPage, OpenMeta, Abort,
             OpenFile, FillFile, ResetBegins, RemoveMeta, ResetEnds, RemoveFile, Export, Arrive,
             Settle, TornMeta, NoMeta
    <2> QED BY <2>1 DEF FillMeta, IInv, SavedAsRead, Saving
  <1> QED BY <1>1, StoreInvariant, PTL DEF Spec, MetadataIsLast

---------------------------------------------------------------------------
(* What a full run covers                                                  *)

\* Time only moves the timeline on: what the run began with, what it read and what
\* is on disk is at most as recent as the timeline, in that order.
Evolved == \A e \in Events :
    /\ asOf[e] # "absent" => AsRecent(status[e], asOf[e])
    /\ raw[e] # "absent" => AsRecent(status[e], raw[e])
    /\ raw[e] # "absent" /\ asOf[e] # "absent" => AsRecent(raw[e], asOf[e])
    /\ file[e] \in Statuses => AsRecent(status[e], file[e])
    /\ file[e] # "absent" => status[e] # "absent" /\ e \notin Nameless
    /\ e \in toSave => raw[e] # "absent" /\ e \notin Nameless

\* What a full run has not read yet lies beyond its cursor, and nothing does once
\* it saves; no event on disk is one it does not get to.
FullRun ==
    direction = "after" /\ (pc = "page" \/ Saving) =>
        /\ cursor.way # "before"
        /\ \A e \in Events :
            /\ file[e] # "absent" => asOf[e] # "absent" \/ raw[e] # "absent"
            /\ asOf[e] # "absent" /\ raw[e] = "absent" => pc = "page" /\ e \in Beyond(cursor)

Ended == pc # "idle" => lastRun = "none" /\ exported = "no"

Covers == Evolved /\ FullRun /\ Ended
Promises == FullRunRepairs /\ PendingListed /\ ExportIsComplete

---------------------------------------------------------------------------
(* The pages of a full run                                                 *)

\* A cursor that leads somewhere serves a page.
LEMMA PageServed ==
    ASSUME NEW c, c.way # "before", Beyond(c) # {}
    PROVE  Page(c) # {}
  <1>1. Beyond(c) \in SUBSET Events
    BY DEF Beyond, Timeline
  <1>2. PICK x \in Beyond(c) : \A y \in Beyond(c) : y <= x
    BY <1>1, GreatestExists, StoreAssumption DEF Events
  <1>3. Nearer(c, x) = {}
    BY <1>1, <1>2 DEF Nearer, Events
  <1>4. Cardinality(Nearer(c, x)) < PageSize
    BY <1>3, FS_EmptySet, StoreAssumption
  <1> QED BY <1>4 DEF Page

\* What the cursor leads to and the page leaves out is older than all of the page.
LEMMA PageIsNewest ==
    ASSUME NEW c, c.way # "before",
           NEW e \in Beyond(c) \ Page(c), NEW m \in Page(c)
    PROVE  e < m
  <1>1. Beyond(c) \subseteq Events /\ m \in Beyond(c)
    BY DEF Page, Beyond, Timeline
  <1>2. SUFFICES ASSUME m < e PROVE FALSE
    BY <1>1 DEF Events
  <1>3. Nearer(c, e) \subseteq Nearer(c, m)
    BY <1>1, <1>2 DEF Nearer, Events
  <1>4. IsFiniteSet(Nearer(c, m)) /\ IsFiniteSet(Nearer(c, e))
    <2>1. IsFiniteSet(Events)
      BY FS_Interval, StoreAssumption DEF Events
    <2>2. Nearer(c, m) \subseteq Events /\ Nearer(c, e) \subseteq Events
      BY <1>1 DEF Nearer
    <2> QED BY <2>1, <2>2, FS_Subset
  <1>5. Cardinality(Nearer(c, e)) <= Cardinality(Nearer(c, m))
    BY <1>3, <1>4, FS_Subset
  <1>6. Cardinality(Nearer(c, m)) \in Nat /\ Cardinality(Nearer(c, e)) \in Nat
    BY <1>4, FS_CardinalityType
  <1>7. Cardinality(Nearer(c, m)) < PageSize /\ ~ (Cardinality(Nearer(c, e)) < PageSize)
    BY DEF Page
  <1> QED BY <1>5, <1>6, <1>7, StoreAssumption

\* The next page's cursor leads to everything the page leaves out.
LEMMA NextPageGoesOn ==
    ASSUME NEW c, c.way # "before",
           NEW d \in After(Page(c)), NEW e \in Beyond(c) \ Page(c)
    PROVE  d.way = "after" /\ e \in Beyond(d)
  <1>1. PICK m \in Page(c) : d = [way |-> "after", key |-> m]
    BY DEF After
  <1>2. e < m
    BY PageIsNewest
  <1> QED BY <1>1, <1>2 DEF Beyond

\* The last page is the one that leaves nothing out.
LEMMA LastPageReadsAll ==
    ASSUME NEW c, c.way # "before", Follow(Page(c), "after") = {}
    PROVE  Beyond(c) \subseteq Page(c)
  <1> SUFFICES ASSUME NEW e \in Beyond(c) \ Page(c) PROVE FALSE
    OBVIOUS
  <1>1. Page(c) \in SUBSET Events /\ Page(c) # {}
    BY PageServed, PageType
  <1>2. PICK m \in Page(c) : \A y \in Page(c) : m <= y
    BY <1>1, LeastExists, StoreAssumption DEF Events
  <1> DEFINE d == [way |-> "after", key |-> m]
  <1>3. d \in After(Page(c))
    BY <1>2 DEF After
  <1>4. e \in Beyond(d)
    <2> HIDE DEF d
    <2> QED BY <1>3, NextPageGoesOn
  <1>5. d \in Follow(Page(c), "after")
    <2> HIDE DEF d
    <2> QED BY <1>3, <1>4 DEF Follow
  <1> QED BY <1>5

---------------------------------------------------------------------------
(* Every step keeps what a full run covers, and with it the promises       *)

Known == IInv /\ Covers /\ Promises

LEMMA InitKnown == Init => Covers /\ Promises
  BY DEF Init, None, NoMeta, NoCursor, Covers, Evolved, FullRun, Ended, Promises, Saving,
         FullRunRepairs, PendingListed, ExportIsComplete, Statuses, AsRecent

\* The timeline moves on under the run: an event settles once, and none goes away.
LEMMA TimelineKnown ==
    ASSUME Known, Arrive \/ \E e \in Events : Settle(e)
    PROVE  Covers' /\ Promises'
  <1>1. \A e \in Events : \/ status'[e] = status[e]
                          \/ status[e] \in {"absent", "pending"} /\ status'[e] \in Statuses
    BY DEF Arrive, Settle, Known, IInv, TypeOK, Timeline, Statuses
  <1>2. UNCHANGED <<file, meta, csv, exported, pc, runVars, lastRun>>
    BY DEF Arrive, Settle
  <1>3. ASSUME NEW e \in Events, NEW k, AsRecent(status[e], k)
        PROVE  AsRecent(status'[e], k)
    BY <1>1, <1>3 DEF AsRecent, Statuses
  <1>4. Beyond(cursor) \subseteq Beyond(cursor)'
    BY <1>1, <1>2 DEF Beyond, Timeline, runVars, Statuses
  <1>5. Evolved'
    BY <1>1, <1>2, <1>3 DEF Known, Covers, Evolved, runVars, Statuses, AsRecent
  <1>6. FullRun'
    BY <1>2, <1>4 DEF Known, Covers, FullRun, Saving, runVars
  <1>7. Ended'
    BY <1>2 DEF Known, Covers, Ended
  <1>8. FullRunRepairs' /\ PendingListed'
    BY <1>2 DEF Known, Promises, FullRunRepairs, PendingListed, runVars, AsRecent
  <1>9. ExportIsComplete'
    BY <1>1, <1>2 DEF Known, Promises, ExportIsComplete, runVars
  <1> QED BY <1>5, <1>6, <1>7, <1>8, <1>9 DEF Covers, Promises

\* A run that begins has all of the timeline before it.
LEMMA BeginKnown ==
    ASSUME Known, NEW way \in Directions, Begin(way, NoCursor), UNCHANGED file
    PROVE  Covers' /\ Promises'
  <1>1. \A e \in Events : status[e] # "absent" => AsRecent(status[e], status[e])
    BY DEF Known, IInv, TypeOK, AsRecent
  <1>2. Evolved'
    BY <1>1 DEF Known, Covers, Evolved, Begin, None, AsRecent
  <1>3. FullRun'
    BY DEF Known, Covers, Evolved, FullRun, Begin, None, Beyond, Timeline, NoCursor, Saving
  <1> QED BY <1>2, <1>3 DEF Begin, Covers, Ended, Promises, FullRunRepairs, PendingListed,
                            ExportIsComplete

LEMMA StartKnown ==
    ASSUME Known, StartFull \/ StartIncremental
    PROVE  Covers' /\ Promises'
  <1>1. CASE StartFull
    BY <1>1, BeginKnown DEF StartFull, Directions
  <1>2. CASE StartIncremental
    <2>1. Begin("before", NoCursor)
      BY <1>2 DEF StartIncremental, OldestPending, Known, IInv, NoCursorSaved
    <2> QED BY <2>1, <1>2, BeginKnown DEF StartIncremental, Directions
  <1> QED BY <1>1, <1>2

LEMMA ResetKnown ==
    ASSUME Known, Reset
    PROVE  Covers' /\ Promises'
  <1>1. CASE ResetEnds
    BY <1>1, BeginKnown DEF ResetEnds, Directions
  <1>2. ASSUME pc' = "reset", UNCHANGED <<status, direction, raw, toSave>>,
               lastRun' = "none", exported' = "no",
               asOf' \in {asOf, None},
               \A e \in Events : file'[e] \in {file[e], "absent"}
        PROVE  Covers' /\ Promises'
    <2>1. Evolved'
      BY <1>2 DEF Known, Covers, Evolved, None, AsRecent, Statuses
    <2>2. FullRun'
      BY <1>2 DEF FullRun, Saving
    <2> QED BY <1>2, <2>1, <2>2 DEF Covers, Ended, Promises, FullRunRepairs, PendingListed,
                                    ExportIsComplete
  <1>3. CASE ResetBegins
    BY <1>2, <1>3 DEF ResetBegins
  <1>4. CASE RemoveMeta
    BY <1>2, <1>4 DEF RemoveMeta, runVars, Known, Covers, Ended
  <1>5. ASSUME NEW e \in Events, RemoveFile(e) PROVE Covers' /\ Promises'
    <2>1. \A f \in Events : file'[f] \in {file[f], "absent"}
      BY <1>5 DEF RemoveFile, Known, IInv, TypeOK
    <2> QED BY <1>2, <1>5, <2>1 DEF RemoveFile, runVars, Known, Covers, Ended
  <1> QED BY <1>1, <1>3, <1>4, <1>5 DEF Reset

\* Once the process is gone the run's memory says nothing any more.
LEMMA ExitKnown ==
    ASSUME Known, Exit, UNCHANGED <<status, file>>, asOf' \in {asOf, None}
    PROVE  Evolved' /\ FullRun' /\ Ended'
  BY DEF Known, Covers, Evolved, FullRun, Ended, Exit, None, Saving, AsRecent

LEMMA PageKnown ==
    ASSUME Known, FetchPage
    PROVE  Covers' /\ Promises'
  <1> DEFINE p    == Page(cursor)
             read == [e \in Events |-> IF e \in p THEN status[e] ELSE raw[e]]
  <1>0. /\ pc = "page" /\ lastRun = "none" /\ exported = "no"
        /\ UNCHANGED <<status, file, meta, csv, exported, asOf, listed>>
    BY DEF FetchPage, Known, Covers, Ended
  <1>1. /\ \A e \in p : e \in Events /\ read[e] = status[e] /\ status[e] \in Statuses
        /\ \A e \in Events \ p : read[e] = raw[e]
    BY DEF Page, Beyond, Timeline, Known, IInv, TypeOK
  <1>2. p \subseteq Beyond(cursor)
    BY DEF Page
  <1>3. ASSUME direction = "after" PROVE cursor.way # "before"
    BY <1>0, <1>3 DEF Known, Covers, FullRun
  <1>4. ASSUME direction = "after", LastPage(p) PROVE Beyond(cursor) \subseteq p
    BY <1>3, <1>4, LastPageReadsAll DEF LastPage
  <1>5. ASSUME direction = "after", NEW d \in Follow(p, direction), NEW e \in Beyond(cursor) \ p
        PROVE  d.way = "after" /\ e \in Beyond(d)
    BY <1>3, <1>5, NextPageGoesOn DEF Follow
  <1>6. ASSUME direction = "after", NEW d \in Follow(p, direction) PROVE d.way = "after"
    BY <1>6 DEF Follow, After
  <1>7. \A e \in Events : read[e] # "absent" =>
            /\ AsRecent(status[e], read[e])
            /\ asOf[e] # "absent" => AsRecent(read[e], asOf[e])
    <2> HIDE DEF p, read
    <2> QED BY <1>1 DEF Known, Covers, Evolved, AsRecent
  <1> HIDE DEF p, read
  <1>8. CASE /\ ~LastPage(p)
             /\ cursor' \in Follow(p, direction)
             /\ raw' = read
             /\ UNCHANGED <<toSave, pc, direction, start, lastRun>>
    <2>1. Evolved'
      <3>1. \A e \in toSave : e \in Events => raw'[e] # "absent"
        BY <1>1, <1>8 DEF Known, Covers, Evolved, Statuses
      <3> QED BY <1>0, <1>7, <1>8, <3>1 DEF Known, Covers, Evolved, AsRecent
    <2>2. ASSUME direction = "after" PROVE FullRun'
      <3>1. cursor'.way = "after"
        BY <1>6, <1>8, <2>2
      <3>2. ASSUME NEW e \in Events, asOf[e] # "absent", read[e] = "absent"
            PROVE  e \in Beyond(cursor')
        <4>1. e \notin p /\ raw[e] = "absent"
          BY <1>1, <3>2 DEF Statuses
        <4>2. e \in Beyond(cursor)
          BY <1>0, <2>2, <3>2, <4>1 DEF Known, Covers, FullRun
        <4> QED BY <1>5, <1>8, <2>2, <4>1, <4>2
      <3>3. \A e \in Events : e \in Beyond(cursor') => e \in Beyond(cursor)'
        BY <1>0 DEF Beyond, Timeline
      <3>4. \A e \in Events : raw[e] # "absent" => read[e] # "absent"
        BY <1>1 DEF Statuses
      <3> QED BY <1>0, <1>8, <2>2, <3>1, <3>2, <3>3, <3>4 DEF Known, Covers, FullRun, Saving
    <2>3. FullRun'
      BY <1>8, <2>2 DEF FullRun
    <2> QED BY <1>0, <1>8, <2>1, <2>3 DEF Covers, Ended, Promises, FullRunRepairs, PendingListed,
                                          ExportIsComplete
  <1>9. ASSUME direction = "after", LastPage(p), NEW e \in Events,
               asOf[e] # "absent" \/ file[e] # "absent"
        PROVE  read[e] # "absent"
    <2>1. CASE raw[e] # "absent"
      BY <1>1, <2>1 DEF Statuses
    <2>2. CASE raw[e] = "absent"
      <3>1. e \in Beyond(cursor)
        BY <1>0, <1>9, <2>2 DEF Known, Covers, FullRun
      <3> QED BY <1>1, <1>4, <1>9, <3>1 DEF Statuses
    <2> QED BY <2>1, <2>2
  <1>10. CASE /\ LastPage(p)
              /\ toSave' = {e \in Events : read[e] # "absent"} \ Nameless
              /\ raw' = read
              /\ pc' = "save"
              /\ UNCHANGED <<cursor, direction, start, lastRun>>
    <2>1. Evolved'
      BY <1>0, <1>7, <1>10 DEF Known, Covers, Evolved, AsRecent
    <2>2. FullRun'
      BY <1>0, <1>3, <1>9, <1>10 DEF FullRun, Saving
    <2> QED BY <1>0, <1>10, <2>1, <2>2 DEF Covers, Ended, Promises, FullRunRepairs, PendingListed,
                                           ExportIsComplete
  <1>11. CASE LastPage(p) /\ read = None /\ lastRun' = direction /\ Exit
    <2>1. Evolved' /\ FullRun' /\ Ended'
      BY <1>0, <1>11, ExitKnown
    <2>2. ASSUME direction = "after", NEW e \in Events
          PROVE  asOf[e] = "absent" /\ file[e] = "absent"
      BY <1>9, <1>11, <2>2 DEF None
    <2> QED BY <1>0, <1>11, <2>1, <2>2 DEF Covers, Promises, FullRunRepairs, PendingListed,
                                           ExportIsComplete
  <1> QED BY <1>8, <1>10, <1>11 DEF FetchPage, p, read

\* The metadata of a full run lists what is pending on disk, and everything the
\* run had before it is there.
LEMMA SaveKnown ==
    ASSUME Known, OpenMeta \/ FillMeta \/ \E e \in Events : OpenFile(e) \/ FillFile(e)
    PROVE  Covers' /\ Promises'
  <1>1. pc # "idle" /\ lastRun = "none" /\ exported = "no"
    BY DEF OpenMeta, FillMeta, OpenFile, FillFile, Known, Covers, Ended
  <1>2. ASSUME pc' # "idle", UNCHANGED <<lastRun, exported>> PROVE Ended' /\ Promises'
    BY <1>1, <1>2 DEF Ended, Promises, FullRunRepairs, PendingListed, ExportIsComplete
  <1>3. ASSUME NEW e \in Events, OpenFile(e) PROVE Covers' /\ Promises'
    <2>1. e \in toSave /\ raw[e] # "absent" /\ status[e] # "absent" /\ e \notin Nameless
      BY <1>3 DEF OpenFile, NextFile, Known, Covers, Evolved, AsRecent, Statuses
    <2>2. /\ file'[e] = "torn" /\ "torn" \notin Statuses
          /\ \A f \in Events \ {e} : file'[f] = file[f]
      BY <1>3 DEF OpenFile, Known, IInv, TypeOK, Statuses
    <2>3. Evolved'
      BY <1>3, <2>1, <2>2 DEF OpenFile, runVars, Known, Covers, Evolved, AsRecent
    <2>4. FullRun'
      BY <1>3, <2>1, <2>2 DEF OpenFile, runVars, Known, Covers, FullRun, Saving
    <2> QED BY <1>2, <1>3, <2>3, <2>4 DEF OpenFile, Covers
  <1>4. ASSUME NEW e \in Events, FillFile(e) PROVE Covers' /\ Promises'
    <2>1. e \in toSave /\ raw[e] # "absent" /\ AsRecent(status[e], raw[e]) /\ e \notin Nameless
      BY <1>4 DEF FillFile, NextFile, Known, Covers, Evolved
    <2>2. file'[e] = raw[e] /\ \A f \in Events \ {e} : file'[f] = file[f]
      BY <1>4 DEF FillFile, Known, IInv, TypeOK
    <2>3. Evolved'
      BY <1>4, <2>1, <2>2 DEF FillFile, Known, Covers, Evolved, AsRecent, Statuses
    <2>4. FullRun'
      BY <1>4, <2>1, <2>2 DEF FillFile, Known, Covers, FullRun, Saving
    <2> QED BY <1>2, <1>4, <2>3, <2>4 DEF FillFile, Covers
  <1>5. CASE OpenMeta
    <2>1. Evolved' /\ FullRun'
      BY <1>5 DEF OpenMeta, runVars, Known, Covers, Evolved, FullRun, Saving, AsRecent
    <2> QED BY <1>2, <1>5, <2>1 DEF OpenMeta, Covers
  <1>6. CASE FillMeta
    <2>1. Evolved' /\ FullRun' /\ Ended'
      BY <1>6, ExitKnown DEF FillMeta
    <2>2. ASSUME direction = "after", NEW e \in Events \ Nameless, asOf[e] # "absent"
          PROVE  AsRecent(file[e], asOf[e])
      <3>1. raw[e] # "absent"
        BY <1>6, <2>2 DEF FillMeta, Known, Covers, FullRun, Saving
      <3>2. file[e] = raw[e]
        BY <1>6, <3>1 DEF FillMeta, Known, IInv, SavedAsRead, Saving
      <3> QED BY <2>2, <3>1, <3>2 DEF Known, Covers, Evolved
    <2>3. ASSUME direction = "after", NEW e \in Events, file[e] = "pending"
          PROVE  \E i \in meta'.pending : i[1] = e
      <3>1. e \notin Nameless /\ raw[e] # "absent"
        BY <1>6, <2>3 DEF FillMeta, Known, Covers, FullRun, Evolved, Saving
      <3>2. file[e] = raw[e]
        BY <1>6, <3>1 DEF FillMeta, Known, IInv, SavedAsRead, Saving
      <3>3. e \in PendingEvents
        BY <2>3, <3>2 DEF PendingEvents, Fetched
      <3>4. meta'.pending = {<<f, SavedCursor(f)>> : f \in PendingEvents}
        BY <1>6 DEF FillMeta
      <3>5. <<e, SavedCursor(e)>> \in meta'.pending
        BY <3>3, <3>4
      <3> QED BY <3>5
    <2>4. FullRunRepairs' /\ PendingListed' /\ ExportIsComplete'
      BY <1>1, <1>6, <2>2, <2>3 DEF FillMeta, FullRunRepairs, PendingListed, ExportIsComplete,
                                    AsRecent
    <2> QED BY <2>1, <2>4 DEF Covers, Promises
  <1> QED BY <1>3, <1>4, <1>5, <1>6

LEMMA AbortKnown ==
    ASSUME Known, Abort
    PROVE  Covers' /\ Promises'
  <1>1. Evolved' /\ FullRun' /\ Ended'
    BY ExitKnown DEF Abort
  <1>2. lastRun' = "none"
    BY DEF Abort, Known, Covers, Ended
  <1> QED BY <1>1, <1>2 DEF Covers, Promises, FullRunRepairs, PendingListed, ExportIsComplete

\* An export reads files that a full run left as recent as its beginning.
LEMMA ExportKnown ==
    ASSUME Known, Export
    PROVE  Covers' /\ Promises'
  <1>1. pc = "idle" /\ UNCHANGED <<status, file, meta, pc, runVars, lastRun>>
    BY DEF Export
  <1>2. Covers'
    BY <1>1 DEF Known, Covers, Evolved, FullRun, Ended, Saving, runVars, AsRecent, Beyond, Timeline
  <1>3. FullRunRepairs' /\ PendingListed'
    BY <1>1 DEF Known, Promises, FullRunRepairs, PendingListed, runVars, AsRecent
  <1>4. ASSUME exported' = "ok", lastRun = "after", NEW e \in Events \ Nameless,
               asOf[e] # "absent"
        PROVE  e \in csv' \/ status[e] = "canceled"
    <2>1. csv' = Shown
      BY <1>4 DEF Export
    <2>2. file[e] \in Statuses
      BY <1>1, <1>4 DEF Known, Promises, FullRunRepairs, AsRecent
    <2>3. file[e] = "canceled" => status[e] = "canceled"
      BY <2>2 DEF Known, Covers, Evolved, AsRecent
    <2> QED BY <2>1, <2>2, <2>3 DEF Shown, Readable
  <1>5. ExportIsComplete'
    BY <1>1, <1>4 DEF ExportIsComplete, runVars
  <1> QED BY <1>2, <1>3, <1>5 DEF Promises

LEMMA StutterKnown == Known /\ UNCHANGED vars => Covers' /\ Promises'
  BY DEF vars, runVars, Known, Covers, Evolved, FullRun, Ended, Promises, FullRunRepairs,
         PendingListed, ExportIsComplete, Saving, AsRecent, Beyond, Timeline

---------------------------------------------------------------------------
(* Theorems about full runs                                                *)

\* In every state what a full run has not read lies before it, and it keeps its promises.
THEOREM FullRunInvariant == Spec => []Known
  <1>1. Init => Known
    BY InitOK, InitKnown DEF Known
  <1>2. Known /\ [Next]_vars => Known'
    <2>1. IInv /\ [Next]_vars => IInv'
      BY TimelineKeeps, StartKeeps, ResetKeeps, PageKeeps, SaveKeeps, OtherKeeps, StutterKeeps
         DEF Next, Fetch
    <2>2. Known /\ [Next]_vars => Covers' /\ Promises'
      BY TimelineKnown, StartKnown, ResetKnown, PageKnown, SaveKnown, AbortKnown, ExportKnown,
         StutterKnown DEF Next, Fetch
    <2> QED BY <2>1, <2>2 DEF Known
  <1> QED BY <1>1, <1>2, PTL DEF Spec

\* Whatever was torn, removed or out of date, and however the timeline moves between
\* two pages, a full run that succeeds leaves every event it began with on disk, as
\* recent as that (runFetch, saveRawEvents).
THEOREM FullRunsRepair == Spec => []FullRunRepairs
  BY FullRunInvariant, PTL DEF Known, Promises

\* After a full run every event pending on disk is listed in the metadata, events of
\* earlier runs included (saveMetadata keeps nothing of what it replaces).
THEOREM PendingStaysListed == Spec => []PendingListed
  BY FullRunInvariant, PTL DEF Known, Promises

\* An export after a full run shows every event the run began with, unless it was
\* canceled (runExport skips canceled events and what it cannot decode).
THEOREM ExportsAreComplete == Spec => []ExportIsComplete
  BY FullRunInvariant, PTL DEF Known, Promises

=============================================================================
