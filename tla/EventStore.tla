----------------------------- MODULE EventStore -----------------------------
(***************************************************************************)
(* fetch.go, fetch_storage.go and export.go: the events directory that     *)
(* "clitr fetch" fills and "clitr export" reads.  One process runs at a    *)
(* time; it may stop between any two calls, a file write included: that is *)
(* a truncation, then the content.                                         *)
(*                                                                         *)
(* Events are numbered in the order of their timestamps.  The timeline at  *)
(* Trade Republic is external: it grows, its pending events settle, and it *)
(* serves pages by keyset cursor.  FetchAllEvents is taken page by page,   *)
(* as PagedFetch promises it.                                              *)
(***************************************************************************)
EXTENDS Integers, FiniteSets

CONSTANTS
    MaxEvents,   \* bound: events on the timeline
    PageSize,    \* events on a page of the server
    Nameless,    \* the events without an id
    Unparsable   \* the events ParseEvent returns an error for: their type is unknown

ASSUME StoreAssumption ==
    /\ MaxEvents \in Nat /\ PageSize \in Nat \ {0}
    /\ Nameless \subseteq 1 .. MaxEvents /\ Unparsable \subseteq 1 .. MaxEvents

Events   == 1 .. MaxEvents
Statuses == {"pending", "executed", "canceled"}
Contents == Statuses \cup {"absent", "torn"}

Directions == {"after", "before"}
NoCursor   == [way |-> "none", key |-> 0]
Cursors    == {NoCursor} \cup [way : Directions, key : Events]

PendingItems == Events \X Cursors
NoMeta       == [is |-> "absent", latest |-> NoCursor, pending |-> {}]
TornMeta     == [NoMeta EXCEPT !.is = "torn"]
Metadata     == [is : {"absent", "torn", "intact"}, latest : Cursors,
                 pending : SUBSET PendingItems]

VARIABLES
    status,      \* the timeline: "absent" for an event that is yet to come
    file,        \* the event files
    meta,        \* metadata.json
    csv,         \* the events in the exported file
    exported,    \* what the last export returned since the last fetch: "no", "ok", "error"
    pc,          \* where the fetch process is; "idle" when there is none
    direction, start, cursor,   \* start cursor of the run, and cursor of the next page
    raw,         \* rawEvents: what the run read of each event
    toSave,      \* the events of raw whose file is yet to be written
    asOf,        \* the timeline when the run, or the last one that succeeded, began
    listed,      \* the pending items it began with
    lastRun      \* the direction of the last run, once it has succeeded

runVars == <<direction, start, cursor, raw, toSave, asOf, listed>>

vars    == <<status, file, meta, csv, exported, pc, runVars, lastRun>>

None == [e \in Events |-> "absent"]

TypeOK ==
    /\ status \in [Events -> Statuses \cup {"absent"}]
    /\ file \in [Events -> Contents]
    /\ meta \in Metadata
    /\ csv \subseteq Events
    /\ exported \in {"no", "ok", "error"}
    /\ pc \in {"idle", "reset", "page", "save", "write", "writeMeta"}
    /\ direction \in Directions
    /\ start \in Cursors /\ cursor \in Cursors
    /\ raw \in [Events -> Statuses \cup {"absent"}]
    /\ toSave \subseteq Events
    /\ asOf \in [Events -> Statuses \cup {"absent"}]
    /\ listed \subseteq PendingItems
    /\ lastRun \in Directions \cup {"none"}

Init ==
    /\ status = None /\ file = None /\ meta = NoMeta
    /\ csv = {} /\ exported = "no"
    /\ pc = "idle"
    /\ direction = "after" /\ start = NoCursor /\ cursor = NoCursor
    /\ raw = None /\ toSave = {} /\ asOf = None /\ listed = {}
    /\ lastRun = "none"

---------------------------------------------------------------------------
(* The timeline, external.                                                 *)

Timeline == {e \in Events : status[e] # "absent"}

\* A new event, the newest of all.
Arrive ==
    \E e \in Events \ Timeline :
        /\ \A f \in Events : f < e => f \in Timeline
        /\ \E s \in {"pending", "executed"} : status' = [status EXCEPT ![e] = s]
        /\ UNCHANGED <<file, meta, csv, exported, pc, runVars, lastRun>>

Settle(e) ==
    /\ status[e] = "pending"
    /\ \E s \in {"executed", "canceled"} : status' = [status EXCEPT ![e] = s]
    /\ UNCHANGED <<file, meta, csv, exported, pc, runVars, lastRun>>

\* The events a cursor leads to; a nil cursor is the top of the timeline.
Beyond(c) ==
    {e \in Timeline : \/ c = NoCursor
                      \/ c.way = "after" /\ e < c.key
                      \/ c.way = "before" /\ e > c.key}

Nearer(c, e) == {f \in Beyond(c) : IF c.way = "before" THEN f < e ELSE f > e}

Page(c) == {e \in Beyond(c) : Cardinality(Nearer(c, e)) < PageSize}

\* cursors.after and cursors.before of a page: missing where nothing follows.
After(p)  == {[way |-> "after",  key |-> e] : e \in {x \in p : \A y \in p : x <= y}}
Before(p) == {[way |-> "before", key |-> e] : e \in {x \in p : \A y \in p : x >= y}}
Follow(p, way) ==
    {c \in IF way = "after" THEN After(p) ELSE Before(p) : Beyond(c) # {}}

---------------------------------------------------------------------------
(* runFetch                                                                *)

\* The process is gone, and what it held in memory with it.
Exit ==
    /\ pc' = "idle"
    /\ direction' = "after" /\ start' = NoCursor /\ cursor' = NoCursor
    /\ raw' = None /\ toSave' = {}

Begin(way, from) ==
    /\ pc' = "page"
    /\ direction' = way
    /\ start' = from /\ cursor' = from
    /\ raw' = None /\ toSave' = {}
    /\ asOf' = status
    /\ listed' = IF way = "before" THEN meta.pending ELSE {}
    /\ lastRun' = "none" /\ exported' = "no"
    /\ UNCHANGED <<status, csv>>

\* A full run, or an incremental one that finds no metadata.
StartFull ==
    /\ pc = "idle"
    /\ Begin("after", NoCursor)
    /\ UNCHANGED <<file, meta>>

\* oldestPendingCursor: ties are won by the item found first.
OldestPending(items) == {i \in items : \A j \in items : i[1] <= j[1]}

\* incrementalFetchStart with metadata: the latest page, or the page of the
\* oldest pending event.  With torn metadata the run fails before it reads.
StartIncremental ==
    /\ pc = "idle" /\ meta.is = "intact"
    /\ \/ meta.pending = {} /\ Begin("before", meta.latest)
       \/ \E i \in OldestPending(meta.pending) : Begin("before", i[2])
    /\ UNCHANGED <<file, meta>>

\* handleResetData: RemoveAll takes one entry after the other.
ResetBegins ==
    /\ pc = "idle"
    /\ pc' = "reset"
    /\ asOf' = None /\ listed' = {}
    /\ lastRun' = "none" /\ exported' = "no"
    /\ UNCHANGED <<status, file, meta, csv, direction, start, cursor, raw, toSave>>

RemoveFile(e) ==
    /\ pc = "reset" /\ file[e] # "absent"
    /\ file' = [file EXCEPT ![e] = "absent"]
    /\ UNCHANGED <<status, meta, csv, exported, pc, runVars, lastRun>>

RemoveMeta ==
    /\ pc = "reset" /\ meta.is # "absent"
    /\ meta' = NoMeta
    /\ UNCHANGED <<status, file, csv, exported, pc, runVars, lastRun>>

\* With the directory gone the run is a full one, incremental or not.
ResetEnds ==
    /\ pc = "reset" /\ file = None /\ meta = NoMeta
    /\ Begin("after", NoCursor)
    /\ UNCHANGED <<file, meta>>

\* Mutant: one page is enough.
LastPageFirst(p) == TRUE

\* nextCursor == nil || len(rawItems) == 0
LastPage(p) == Follow(p, direction) = {}

\* One page of FetchAllEvents.  A run that reads nothing saves nothing.
FetchPage ==
    /\ pc = "page"
    /\ LET p    == Page(cursor)
           read == [e \in Events |-> IF e \in p THEN status[e] ELSE raw[e]]
       IN  \/ /\ ~LastPage(p)
              /\ cursor' \in Follow(p, direction)
              /\ raw' = read
              /\ UNCHANGED <<toSave, pc, direction, start, lastRun>>
           \/ /\ LastPage(p) /\ read # None
              /\ toSave' = {e \in Events : read[e] # "absent"} \ Nameless
              /\ raw' = read
              /\ pc' = "save"
              /\ UNCHANGED <<cursor, direction, start, lastRun>>
           \/ /\ LastPage(p) /\ read = None
              /\ lastRun' = direction
              /\ Exit
    /\ UNCHANGED <<status, file, meta, csv, exported, asOf, listed>>

---------------------------------------------------------------------------
(* saveRawEvents: every file, newest event first, then the metadata.       *)

NextFile == {e \in toSave : \A f \in toSave : f <= e}

OpenFile(e) ==
    /\ pc = "save" /\ e \in NextFile
    /\ file' = [file EXCEPT ![e] = "torn"]
    /\ pc' = "write"
    /\ UNCHANGED <<status, meta, csv, exported, runVars, lastRun>>

FillFile(e) ==
    /\ pc = "write" /\ e \in NextFile
    /\ file' = [file EXCEPT ![e] = raw[e]]
    /\ toSave' = toSave \ {e}
    /\ pc' = "save"
    /\ UNCHANGED <<status, meta, csv, exported, direction, start, cursor, raw, asOf, listed,
                   lastRun>>

\* Mutant: the metadata may be written while files are still to come.
AnySaved == TRUE

AllSaved == toSave = {}

OpenMeta ==
    /\ pc = "save" /\ AllSaved
    /\ meta' = TornMeta
    /\ pc' = "writeMeta"
    /\ UNCHANGED <<status, file, csv, exported, runVars, lastRun>>

Fetched == {e \in Events : raw[e] # "absent"}

\* Mutants: a cursor that has lost its direction; of the pending events only the
\* latest.
SavedCursorUndirected(e) == [way |-> "none", key |-> e]

PendingAtTop == {e \in Fetched : raw[e] = "pending" /\ \A f \in Fetched : f <= e}

\* convertMapsToRawEventFiles gives every event of the run the cursor it began with.
SavedCursor(e) == start

\* Events that are neither executed nor canceled.
PendingEvents == {e \in Fetched : raw[e] = "pending"}

\* saveMetadata: this run's events replace whatever the metadata said before.
FillMeta ==
    /\ pc = "writeMeta"
    /\ meta' = [is      |-> "intact",
                latest  |-> SavedCursor(CHOOSE e \in Fetched : \A f \in Fetched : f <= e),
                pending |-> {<<e, SavedCursor(e)>> : e \in PendingEvents}]
    /\ lastRun' = direction
    /\ Exit
    /\ UNCHANGED <<status, file, csv, exported, asOf, listed>>

\* A page fails, the disk is full, or the process is killed.
Abort ==
    /\ pc # "idle"
    /\ Exit
    /\ asOf' = None /\ listed' = {}
    /\ UNCHANGED <<status, file, meta, csv, exported, lastRun>>

---------------------------------------------------------------------------
(* runExport                                                               *)

\* Files that cannot be decoded are skipped with a warning.
Readable == {e \in Events : file[e] \in Statuses}

\* Mutant: what is not executed is left out.
ShownIfExecuted == {e \in Readable : file[e] = "executed"}

Shown == {e \in Readable : file[e] # "canceled"}

\* One event that does not parse fails the export, and so does an empty directory.
Export ==
    /\ pc = "idle"
    /\ \/ /\ Readable # {} /\ Shown \cap Unparsable = {}
          /\ csv' = Shown /\ exported' = "ok"
       \/ /\ Readable = {} \/ Shown \cap Unparsable # {}
          /\ exported' = "error" /\ UNCHANGED csv
    /\ UNCHANGED <<status, file, meta, pc, runVars, lastRun>>

---------------------------------------------------------------------------

Fetch == StartFull \/ StartIncremental \/ FetchPage \/ OpenMeta \/ FillMeta \/ Abort
         \/ \E e \in Events : OpenFile(e) \/ FillFile(e)

Reset == ResetBegins \/ RemoveMeta \/ ResetEnds \/ \E e \in Events : RemoveFile(e)

Next == Fetch \/ Reset \/ Export \/ Arrive \/ \E e \in Events : Settle(e)

Spec == Init /\ [][Next]_vars

---------------------------------------------------------------------------
(* Properties                                                              *)

\* A file that is at least as recent as what was known of its event.
AsRecent(content, known) ==
    content \in Statuses /\ (known # "pending" => content = known)

\* Whatever was torn, removed or out of date before, a full run that succeeds
\* leaves every event that existed when it began on disk, as recent as that,
\* although the timeline moves between two pages (runFetch, saveRawEvents).
FullRunRepairs ==
    pc = "idle" /\ lastRun = "after" =>
        \A e \in Events \ Nameless : asOf[e] # "absent" => AsRecent(file[e], asOf[e])

\* After a full run the metadata lists every event on disk that is still
\* pending, so that an incremental run can know of it, earlier runs' files
\* included (saveMetadata keeps nothing of the metadata it replaces).
PendingListed ==
    pc = "idle" /\ lastRun = "after" =>
        \A e \in Events :
            file[e] = "pending" => \E i \in meta.pending : i[1] = e

\* Metadata is only ever written over events that are all intact on disk, as
\* this run read them: a run cut short never advances it (fetch_storage.go:25-52).
MetadataIsLast ==
    [][meta'.is = "intact" /\ meta' # meta =>
        \A e \in Events \ Nameless : raw[e] # "absent" => file[e] = raw[e]]_vars

\* An export after a full run shows each event that was on the timeline when the
\* run began, unless it was canceled by the time the run read it.
ExportIsComplete ==
    exported = "ok" /\ lastRun = "after" =>
        \A e \in Events \ Nameless :
            asOf[e] # "absent" => e \in csv \/ status[e] = "canceled"

\* fetch --incremental: "Fetch only new transactions and update pending ones".
\* An incremental run that succeeds has every event that existed when it began,
\* and every pending event it started from is as recent as that.
IncrementalCatchesUp ==
    pc = "idle" /\ lastRun = "before" =>
        \A e \in Events \ Nameless :
            /\ asOf[e] # "absent" => file[e] # "absent"
            /\ (\E i \in listed : i[1] = e) => AsRecent(file[e], asOf[e])

=============================================================================
