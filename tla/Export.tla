-------------------------------- MODULE Export --------------------------------
(***************************************************************************)
(* "clitr export" (export.go): the event files a fetch saved become the    *)
(* rows of one CSV file.  Everything is read and parsed before the CSV     *)
(* file is created; from then on the process may stop between any two      *)
(* writes.  A later fetch saves the same event again, and may then have    *)
(* got its details or lost them.                                           *)
(***************************************************************************)
EXTENDS EventParser, FiniteSetsExt

CONSTANTS
    Events,  \* bound: what the event files may hold, an event and its sections
    Files,   \* bound: event files 1 .. Files, in the order of their names
    Failing, \* bound: the files the disk may fail on
    NoFile   \* where none has been saved

ASSUME ExportAssumption == Files \in Nat /\ Failing \subseteq 1 .. Files

IsList(s) == s \in Seq(Range(s))

\* An event has at most one amount, and sections and items are in lists.
ASSUME EventsAssumption ==
    \A e \in Events :
        /\ e.amount \in Seq(Int) /\ Len(e.amount) <= 1
        /\ IsList(e.sections)
        /\ \A i \in DOMAIN e.sections : IsList(Items(e.sections[i]))

Dir == 1 .. Files

VARIABLES
    file,      \* the event in each file, and whether its details are null
    unread,    \* the files that os.ReadFile fails on
    csv,       \* the output file: "none", "torn" or "whole", and its rows
    pc, todo,  \* runExport: where it is, and the parsed events to write
    sorted,    \* --sort, TRUE between two runs
    result,    \* how the last run ended: "ok", "refused" with nothing written, else "none"
    before     \* history: csv before the run

vars == <<file, unread, csv, pc, todo, sorted, result, before>>

IsRow(row) ==
    /\ row.type \in RowTypes
    /\ \A field \in {"value", "shares", "fees", "taxes"} : row[field] \in Seq(Int) /\ Len(row[field]) <= 1

TypeOK ==
    /\ file \in [Dir -> [event : Events, lost : BOOLEAN] \cup {NoFile}]
    /\ unread \subseteq Dir
    /\ csv.state \in {"none", "torn", "whole"} /\ \A i \in DOMAIN csv.rows : IsRow(csv.rows[i])
    /\ pc \in {"idle", "create", "write"}
    /\ \A i \in DOMAIN todo : todo[i].type \in ParsedTypes
    /\ sorted \in BOOLEAN /\ result \in {"none", "ok", "refused"}

Init ==
    /\ file = [d \in Dir |-> NoFile] /\ unread = {}
    /\ csv = [state |-> "none", rows |-> <<>>] /\ before = csv
    /\ pc = "idle" /\ todo = <<>> /\ sorted = TRUE /\ result = "none"

\* Nothing of a run is left but its CSV file.
Rest(how) == result' = how /\ sorted' = TRUE /\ before' = csv

\* saveRawEvents of a fetch: details that did not come are null.
Fetch(d) ==
    /\ pc = "idle"
    /\ \E e \in (IF file[d] = NoFile THEN Events ELSE {file[d].event}), lost \in BOOLEAN :
           file' = [file EXCEPT ![d] = [event |-> e, lost |-> lost]]
    /\ Rest("none")
    /\ UNCHANGED <<unread, csv, pc, todo>>

\* The disk, or the modes of the files, between two runs.
Disk ==
    /\ pc = "idle"
    /\ \E U \in SUBSET {d \in Failing : file[d] # NoFile} : unread' = U
    /\ Rest("none")
    /\ UNCHANGED <<file, csv, pc, todo>>

\* Null details decode to none.
SectionsOf(f) == IF f.lost THEN <<>> ELSE f.event.sections

\* loadRawEventsFromDirectory: what cannot be read or decoded is left out, with a
\* warning in the log.
Readable == {d \in Dir \ unread : file[d] # NoFile /\ Decodes(SectionsOf(file[d]))}

FailsIn(d)   == Fails(file[d].event, SectionsOf(file[d]))
SkippedIn(d) == Skipped(file[d].event, SectionsOf(file[d]))

\* ParseEvent returns an event, neither nil nor an error.
Listed == {d \in Readable : ~SkippedIn(d) /\ ~FailsIn(d)}

\* No file, or one that does not parse.
Refuse ==
    /\ pc = "idle"
    /\ Readable = {} \/ \E d \in Readable : FailsIn(d)
    /\ Rest("refused")
    /\ UNCHANGED <<file, unread, csv, pc, todo>>

DateOf(d) == file[d].event.timestamp

\* sort.Slice is not stable.
Orders(byDate) ==
    {s \in SetToSeqs(Listed) : \A i, j \in DOMAIN s :
        i < j => IF byDate THEN DateOf(s[i]) <= DateOf(s[j]) ELSE s[i] < s[j]}

Load ==
    /\ pc = "idle"
    /\ Readable # {} /\ \A d \in Readable : ~FailsIn(d)
    /\ \E byDate \in BOOLEAN : \E order \in Orders(byDate) :
        /\ sorted' = byDate
        /\ todo' = [i \in DOMAIN order |-> ParsedEvent(file[order[i]].event, SectionsOf(file[order[i]]))]
    /\ pc' = "create" /\ result' = "none" /\ before' = csv
    /\ UNCHANGED <<file, unread, csv>>

\* Mutant: the rows of the last run stay.
Reopened == csv.rows

\* os.Create truncates.
Created == <<>>

Create ==
    /\ pc = "create"
    /\ csv' = [state |-> "torn", rows |-> Created] /\ pc' = "write"
    /\ UNCHANGED <<file, unread, todo, sorted, result, before>>

CreateFails ==
    /\ pc = "create"
    /\ pc' = "idle" /\ todo' = <<>> /\ result' = "refused"
    /\ UNCHANGED <<file, unread, csv, sorted, before>>

WriteRows ==
    /\ pc = "write" /\ todo # <<>>
    /\ csv' = [csv EXCEPT !.rows = @ \o EventToRows(Head(todo))] /\ todo' = Tail(todo)
    /\ UNCHANGED <<file, unread, pc, sorted, result, before>>

\* Flush and Close.
Finish ==
    /\ pc = "write" /\ todo = <<>>
    /\ csv' = [csv EXCEPT !.state = "whole"]
    /\ pc' = "idle" /\ result' = "ok"
    /\ before' = csv'
    /\ UNCHANGED <<file, unread, todo, sorted>>

\* The process is killed, or a write fails and the run ends with an error: what
\* is left of the CSV file is torn.
Cut ==
    /\ pc # "idle"
    /\ pc' = "idle" /\ todo' = <<>> /\ Rest("none")
    /\ UNCHANGED <<file, unread, csv>>

Next == Disk \/ Refuse \/ Load \/ Create \/ CreateFails \/ WriteRows \/ Finish \/ Cut
        \/ \E d \in Dir : Fetch(d)

Spec == Init /\ [][Next]_vars

---------------------------------------------------------------------------
(* What the rows of an event should be                                     *)

NumberIn(item, titles) ==
    IF ToLower(item.title) \in titles THEN parseFloatFromText(Text(item)) ELSE <<>>

PrefixNumber(item) ==
    IF ToLower(item.title) = "transaction" /\ Prefix(item) # <<>>
    THEN parseFloatFromText(Prefix(item)[1]) ELSE <<>>

FeeNumber(item) ==
    IF ToLower(item.title) = "fee" /\ Text(item) = "free" THEN <<0>> ELSE NumberIn(item, {"fee"})

Numbers(items, titles) == FlattenSeq([i \in DOMAIN items |-> NumberIn(items[i], titles)])
PrefixNumbers(items) == FlattenSeq([i \in DOMAIN items |-> PrefixNumber(items[i])])
FeeNumbers(items) == FlattenSeq([i \in DOMAIN items |-> FeeNumber(items[i])])

LastOf(numbers)  == IF numbers = <<>> THEN <<>> ELSE <<Last(numbers)>>
FirstAny(numbers) == IF numbers = <<>> THEN <<>> ELSE <<Head(numbers)>>

\* A cell without its sign.
Size(cell) == IF cell # <<>> /\ cell[1] < 0 THEN NegateFloat(cell) ELSE cell

\* The number of shares that is given as such comes before one in a prefix,
\* whichever of the two items is first; of several fees or taxes the last counts,
\* and its sign is left open.
Wanted(f) ==
    LET te == f.event
        items == TradeItems(SectionsOf(f))
        type == InferEventType(te, SectionsOf(f))
        trade == type \in {"TRADE_INVOICE", "DIVIDEND", "SAVEBACK"}
        paid == ValueOf(te) # <<>> /\ ValueOf(te)[1] < 0
        row == [date   |-> te.timestamp,
                type   |-> CASE type = "SAVEBACK" -> "BUY"
                             [] type = "TRADE_INVOICE" -> IF paid THEN "BUY" ELSE "SELL"
                             [] OTHER -> type,
                value  |-> FormatFloat(ValueOf(te)),
                shares |-> IF ~trade THEN <<>>
                           ELSE FormatFloat(Else(LastOf(Numbers(items, {"shares"})),
                                                 FirstAny(PrefixNumbers(items)))),
                fees   |-> IF ~trade THEN <<>>
                           ELSE Size(FormatFloat(LastOf(FeeNumbers(items)))),
                taxes  |-> IF ~trade /\ type # "INTEREST" THEN <<>>
                           ELSE Size(FormatFloat(LastOf(Numbers(items, {"tax", "taxes"}))))]
    IN  IF type # "SAVEBACK" THEN <<row>>
        ELSE <<row, [row EXCEPT !.type = "DEPOSIT", !.value = NegateFloat(@), !.shares = <<>>,
                                !.fees = <<>>, !.taxes = <<>>]>>

Shown(row) == [date |-> row.date, type |-> row.type, value |-> row.value, shares |-> row.shares,
               fees |-> Size(row.fees), taxes |-> Size(row.taxes)]

\* Neither the list of types in the README nor the check for card verifications
\* says what becomes of an event that only its type says is one.
OfKnownType(d) == InferEventType(file[d].event, SectionsOf(file[d])) # "CARD_VERIFICATION"

---------------------------------------------------------------------------
(* Properties                                                              *)

\* An export that has nothing to read, cannot parse an event or cannot create the
\* CSV file leaves that of the last one alone.
RefusalKeepsCsv == result = "refused" => csv = before

\* One that succeeds has the rows of every event file that can be read and parsed
\* and is neither canceled nor a card verification, those of one event together, in
\* the order asked for, whatever a run that was cut off had left there.
SuccessIsExact ==
    result = "ok" /\ (\A d \in Listed : OfKnownType(d)) =>
        /\ csv.state = "whole"
        /\ \E order \in Orders(sorted) :
               [i \in DOMAIN csv.rows |-> Shown(csv.rows[i])]
                   = FlattenSeq([i \in DOMAIN order |-> Wanted(file[order[i]])])

\* The CSV file is the old one, or exactly the new one (runExport, applyTradeDetail,
\* eventToRows).
CsvIsOldOrExact == RefusalKeepsCsv /\ SuccessIsExact

\* A fetch that lost the details of an event, also of one it had, makes the next
\* export fail, or leaves the event's date, type and value in the CSV as they would
\* be (inferEventType); details only tell whether to leave out a card verification.
LostDetailKeepsType ==
    result = "ok" =>
        \A d \in Listed : LET event == file[d].event IN
            file[d].lost => InferEventType(event, event.sections) = InferEventType(event, <<>>)

Number(cell) == IF cell = <<>> THEN 0 ELSE cell[1]

CashIn(rows) == FoldLeft(LAMBDA sum, row : sum + Number(row.value), 0, rows)

\* A saveback is paid and invested.
CashOf(d) == IF InferEventType(file[d].event, SectionsOf(file[d])) = "SAVEBACK" THEN 0
             ELSE Number(FormatFloat(ValueOf(file[d].event)))

\* The values of the CSV add up to the amounts of the events, each of them listed
\* once, and a saveback to nothing (eventToRows, formatFloat).
CashBalances == result = "ok" => CashIn(csv.rows) = MapThenSumSet(CashOf, Listed)

=============================================================================
