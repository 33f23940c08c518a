--------------------------- MODULE TimelineFetch ---------------------------
(***************************************************************************)
(* internal/fetch on top of WSClient: every caller runs FetchAllEvents     *)
(* once, page by page (fetchTimelinePage), and for each page fetches the   *)
(* details of its items (fetchDetailsForItems).  All callers read the      *)
(* client's one recvChan: two progress streams of one browser session, or  *)
(* a stream opened after an earlier one was cut.                           *)
(*                                                                         *)
(* The timeline is a constant: Pages[p] is the sequence of items of page p.*)
(* A cursor is a page number, Null after the last page.                    *)
(***************************************************************************)
EXTENDS WSClient

CONSTANTS
    Pages,     \* the timeline, newest page first
    Items,     \* the event ids of the timeline
    NoId       \* the item without an "id"

ASSUME PagesAssumption ==
    /\ Pages \in Seq(Seq(Items \cup {NoId})) /\ Pages # <<>>
    /\ NoId \notin Items
    /\ Bodies = Items \cup DOMAIN Pages
    /\ Items \cap DOMAIN Pages = {}
    \* the server ends the timeline with a missing cursor, not with an empty page
    /\ \A p \in DOMAIN Pages : p < Len(Pages) => Pages[p] # <<>>

VARIABLES
    ctxDone,     \* the callers whose context has ended
    pc,          \* where each caller is
    cursor,      \* the cursor of the page being fetched
    pageSub,     \* subID of fetchTimelinePage
    got,         \* the page fetchTimelinePage returned
    todo,        \* index of the next item to subscribe in fetchDetailsForItems
    detailSubs,  \* detailSubIDs: subscription id -> item
    received,    \* detailsReceived
    details,     \* item -> detail payload
    out,         \* allRawMaps, <<timelineEvent, details>> pairs
    pageNo,      \* the pages reported to progressFn
    timedOut     \* some 30 s timer has fired

fetchVars == <<ctxDone, pc, cursor, pageSub, got, todo, detailSubs, received,
               details, out, pageNo, timedOut>>
vars == <<clientVars, fetchVars>>

PCs == {"idle", "pageConnect", "pageSend", "pageWait", "detailConnect",
        "detailSend", "detailWait", "assemble", "ok", "error"}

Running(c) == pc[c] \notin {"idle", "ok", "error"}

AllItems == Items \cup {NoId}
Event    == [item : AllItems, detail : Payload]

FetchTypeOK ==
    /\ ctxDone \subseteq Callers
    /\ pc \in [Callers -> PCs]
    /\ cursor \in [Callers -> DOMAIN Pages]
    /\ pageSub \in [Callers -> SubIds]
    /\ got \in [Callers -> DOMAIN Pages \cup {Null}]
    /\ todo \in [Callers -> Nat]
    /\ detailSubs \in [Callers -> [SubIds -> Items \cup {Null}]]
    /\ received \in [Callers -> Nat]
    /\ details \in [Callers -> [Items -> Payload]]
    /\ out \in [Callers -> Seq(Event)]
    /\ pageNo \in [Callers -> Nat]
    /\ timedOut \in BOOLEAN

TypeOK == ClientTypeOK /\ FetchTypeOK

NoSubs    == [s \in SubIds |-> Null]
NoDetails == [i \in Items |-> Null]

Init ==
    /\ ClientInit
    /\ ctxDone = {}
    /\ pc = [c \in Callers |-> "idle"]
    /\ cursor = [c \in Callers |-> 1]
    /\ pageSub = [c \in Callers |-> 0]
    /\ got = [c \in Callers |-> Null]
    /\ todo = [c \in Callers |-> 1]
    /\ detailSubs = [c \in Callers |-> NoSubs]
    /\ received = [c \in Callers |-> 0]
    /\ details = [c \in Callers |-> NoDetails]
    /\ out = [c \in Callers |-> <<>>]
    /\ pageNo = [c \in Callers |-> 0]
    /\ timedOut = FALSE

Goto(c, label) == pc' = [pc EXCEPT ![c] = label]

\* FetchAllEvents returns nil and the error.
Fail(c) == Goto(c, "error") /\ out' = [out EXCEPT ![c] = <<>>]

Start(c) ==
    /\ pc[c] = "idle"
    /\ Goto(c, "pageConnect")
    /\ UNCHANGED <<clientVars, ctxDone, cursor, pageSub, got, todo, detailSubs, received,
                   details, out, pageNo, timedOut>>

\* connectWS returns nil, or the error of the dial or the handshake.
Connects(c) == AlreadyConnected \/ Dial(c, c \in ctxDone)

ConnectFails(c) == DialFails(c, c \in ctxDone) \/ HandshakeFails(c, c \in ctxDone)

---------------------------------------------------------------------------
(* fetchTimelinePage                                                       *)

\* TimelineTransactions -> Subscribe -> connectWS
PageConnect(c) ==
    /\ pc[c] = "pageConnect"
    /\ \/ BeginDial(c, c \in ctxDone) /\ UNCHANGED <<pc, out>>
       \/ Connects(c) /\ Goto(c, "pageSend") /\ UNCHANGED out
       \/ ConnectFails(c) /\ Fail(c)
    /\ UNCHANGED <<tableVars, chanVars, panicked, updates, ctxDone, cursor, pageSub, got, todo,
                   detailSubs, received, details, pageNo, timedOut>>

\* Subscribe registers and writes.
PageSend(c) ==
    /\ pc[c] = "pageSend" /\ ~NilConn
    /\ Register(cursor[c])
    /\ pageSub' = [pageSub EXCEPT ![c] = counter]
    /\ \/ CanWrite /\ Goto(c, "pageWait") /\ UNCHANGED out
       \/ ~CanWrite /\ Fail(c)
    /\ UNCHANGED <<dialing, ws, wsCtx, owner, conn, loop, wire, faults, chanVars, panicked, updates,
                   ctxDone, cursor, got, todo, detailSubs, received, details, pageNo, timedOut>>

Received == recvChan # <<>> /\ recvChan' = Tail(recvChan) /\ UNCHANGED chanClosed

IsPageReply(c, m) == ~m.error /\ m.sub = pageSub[c]

\* The reply for this page's subscription: unsubscribe, and on to the details
\* unless the "unsub" could not be written.
RecvPage(c) ==
    /\ pc[c] = "pageWait" /\ Received
    /\ IsPageReply(c, Head(recvChan)) /\ ~NilConn
    /\ Unsubscribe(pageSub[c])
    /\ got' = [got EXCEPT ![c] = Head(recvChan).body]
    /\ todo' = [todo EXCEPT ![c] = 1]
    /\ \/ CanWrite /\ Goto(c, "detailConnect") /\ UNCHANGED out
       \/ ~CanWrite /\ Fail(c)
    /\ UNCHANGED <<dialing, ws, wsCtx, owner, conn, loop, wire, faults, panicked, updates, ctxDone,
                   cursor, pageSub, detailSubs, received, details, pageNo, timedOut>>

\* A message for another subscription is logged and dropped.
RecvOther(c) ==
    /\ pc[c] = "pageWait" /\ Received
    /\ ~Head(recvChan).error /\ ~IsPageReply(c, Head(recvChan))
    /\ UNCHANGED <<connVars, tableVars, panicked, updates, fetchVars>>

\* Any error message, whatever its subscription, fails the page.
RecvPageError(c) ==
    /\ pc[c] = "pageWait" /\ Received
    /\ Head(recvChan).error
    /\ Fail(c)
    /\ UNCHANGED <<connVars, tableVars, panicked, updates, ctxDone, cursor, pageSub, got, todo,
                   detailSubs, received, details, pageNo, timedOut>>

\* The channel is closed and drained, or the context is done.
PageBroken(c) ==
    /\ pc[c] = "pageWait"
    /\ (chanClosed /\ recvChan = <<>>) \/ c \in ctxDone
    /\ Fail(c)
    /\ UNCHANGED <<clientVars, ctxDone, cursor, pageSub, got, todo, detailSubs, received, details,
                   pageNo, timedOut>>

\* Mutant: no timer.
PageTimeoutNever(c) == FALSE

\* 30 s passed.
PageTimeout(c) ==
    /\ pc[c] = "pageWait"
    /\ Fail(c)
    /\ timedOut' = TRUE
    /\ UNCHANGED <<clientVars, ctxDone, cursor, pageSub, got, todo, detailSubs, received, details,
                   pageNo>>

---------------------------------------------------------------------------
(* fetchDetailsForItems                                                    *)

\* A nil payload has neither items nor cursors.
RawItems(c) == IF got[c] = Null THEN <<>> ELSE Pages[got[c]]

Total(c) == Cardinality({s \in SubIds : detailSubs[c][s] # Null})

NextItem(c) == todo' = [todo EXCEPT ![c] = @ + 1]

SkipItem(c) ==
    /\ pc[c] = "detailConnect" /\ todo[c] <= Len(RawItems(c))
    /\ RawItems(c)[todo[c]] = NoId
    /\ NextItem(c)
    /\ UNCHANGED <<clientVars, ctxDone, pc, cursor, pageSub, got, detailSubs, received, details,
                   out, pageNo, timedOut>>

\* TimelineDetailV2 -> Subscribe -> connectWS; an error skips the item.
DetailConnect(c) ==
    /\ pc[c] = "detailConnect" /\ todo[c] <= Len(RawItems(c))
    /\ RawItems(c)[todo[c]] # NoId
    /\ \/ BeginDial(c, c \in ctxDone) /\ UNCHANGED <<pc, todo>>
       \/ Connects(c) /\ Goto(c, "detailSend") /\ UNCHANGED todo
       \/ ConnectFails(c) /\ NextItem(c) /\ UNCHANGED pc
    /\ UNCHANGED <<tableVars, chanVars, panicked, updates, ctxDone, cursor, pageSub, got,
                   detailSubs, received, details, out, pageNo, timedOut>>

\* Mutant: the counter is read once more, after Subscribe advanced it.
RememberDetailLate(c) ==
    detailSubs' = IF CanWrite
                  THEN [detailSubs EXCEPT ![c][counter + 1] = RawItems(c)[todo[c]]]
                  ELSE detailSubs

RememberDetail(c) ==
    detailSubs' = IF CanWrite
                  THEN [detailSubs EXCEPT ![c][counter] = RawItems(c)[todo[c]]]
                  ELSE detailSubs

DetailSend(c) ==
    /\ pc[c] = "detailSend" /\ ~NilConn
    /\ Register(RawItems(c)[todo[c]])
    /\ RememberDetail(c)
    /\ NextItem(c)
    /\ Goto(c, "detailConnect")
    /\ UNCHANGED <<dialing, ws, wsCtx, owner, conn, loop, wire, faults, chanVars, panicked, updates,
                   ctxDone, cursor, pageSub, got, received, details, out, pageNo, timedOut>>

StartDetailLoop(c) ==
    /\ pc[c] = "detailConnect" /\ todo[c] > Len(RawItems(c))
    /\ Goto(c, IF Total(c) = 0 THEN "assemble" ELSE "detailWait")
    /\ UNCHANGED <<clientVars, ctxDone, cursor, pageSub, got, todo, detailSubs, received, details,
                   out, pageNo, timedOut>>

IsDetailReply(c, m) == m.sub \in SubIds /\ detailSubs[c][m.sub] # Null

\* Every message of a detail subscription counts, an error or a repeat too.
Count(c) == received' = [received EXCEPT ![c] = @ + 1]

\* Mutant: the loop ends one detail early.
AfterCountEarly(c) == IF received[c] + 2 < Total(c) THEN "detailWait" ELSE "assemble"

AfterCount(c) == IF received[c] + 1 < Total(c) THEN "detailWait" ELSE "assemble"

\* Mutant: details are taken to come in the order of the items.
StoreDetailInOrder(c, m) ==
    details' = [details EXCEPT ![c][RawItems(c)[1 + (received[c] % Len(RawItems(c)))]] = m.body]

StoreDetail(c, m) ==
    details' = [details EXCEPT ![c][detailSubs[c][m.sub]] = m.body]

\* A detail: count it, store it, unsubscribe; a failed "unsub" fails the fetch.
RecvDetail(c) ==
    LET m == Head(recvChan) IN
    /\ pc[c] = "detailWait" /\ Received
    /\ IsDetailReply(c, m) /\ ~m.error /\ ~NilConn
    /\ Count(c)
    /\ StoreDetail(c, m)
    /\ Unsubscribe(m.sub)
    /\ \/ CanWrite /\ Goto(c, AfterCount(c)) /\ UNCHANGED out
       \/ ~CanWrite /\ Fail(c)
    /\ UNCHANGED <<dialing, ws, wsCtx, owner, conn, loop, wire, faults, panicked, updates, ctxDone,
                   cursor, pageSub, got, todo, detailSubs, pageNo, timedOut>>

\* A detail error: counted, nothing stored.
RecvDetailError(c) ==
    /\ pc[c] = "detailWait" /\ Received
    /\ IsDetailReply(c, Head(recvChan)) /\ Head(recvChan).error
    /\ Count(c)
    /\ Goto(c, AfterCount(c))
    /\ UNCHANGED <<connVars, tableVars, panicked, updates, ctxDone, cursor, pageSub, got, todo,
                   detailSubs, details, out, pageNo, timedOut>>

\* Anything else is taken from the channel and dropped.
RecvForeign(c) ==
    /\ pc[c] = "detailWait" /\ Received
    /\ ~IsDetailReply(c, Head(recvChan))
    /\ UNCHANGED <<connVars, tableVars, panicked, updates, fetchVars>>

\* The loop ends early, without an error, with the details it has.
DetailBroken(c) ==
    /\ pc[c] = "detailWait"
    /\ (chanClosed /\ recvChan = <<>>) \/ c \in ctxDone
    /\ Goto(c, "assemble")
    /\ UNCHANGED <<clientVars, ctxDone, cursor, pageSub, got, todo, detailSubs, received, details,
                   out, pageNo, timedOut>>

DetailTimeout(c) ==
    /\ pc[c] = "detailWait"
    /\ Goto(c, "assemble")
    /\ timedOut' = TRUE
    /\ UNCHANGED <<clientVars, ctxDone, cursor, pageSub, got, todo, detailSubs, received, details,
                   out, pageNo>>

---------------------------------------------------------------------------
(* The end of a page in FetchAllEvents                                     *)

\* Mutants: the last page has a next cursor; the cursor does not move.
NextCursorPastEnd(c) == IF got[c] = Null THEN Null ELSE got[c] + 1

NextCursorStuck(c) == IF got[c] = Null \/ got[c] = Len(Pages) THEN Null ELSE got[c]

NextCursor(c) == IF got[c] = Null \/ got[c] = Len(Pages) THEN Null ELSE got[c] + 1

LastPage(c) == NextCursor(c) = Null \/ RawItems(c) = <<>>

DetailOf(c, item) == IF item = NoId THEN Null ELSE details[c][item]

\* assembleCombinedMaps
Assembled(c) ==
    [k \in DOMAIN RawItems(c) |->
        [item |-> RawItems(c)[k], detail |-> DetailOf(c, RawItems(c)[k])]]

\* Assemble, append, report progress; then the next page or the end.
FinishPage(c) ==
    /\ pc[c] = "assemble"
    /\ out' = [out EXCEPT ![c] = @ \o Assembled(c)]
    /\ pageNo' = [pageNo EXCEPT ![c] = @ + 1]
    /\ \/ LastPage(c) /\ Goto(c, "ok") /\ UNCHANGED cursor
       \/ /\ ~LastPage(c)
          /\ Goto(c, "pageConnect")
          /\ cursor' = [cursor EXCEPT ![c] = NextCursor(c)]
    /\ got' = [got EXCEPT ![c] = Null]
    /\ todo' = [todo EXCEPT ![c] = 1]
    /\ detailSubs' = [detailSubs EXCEPT ![c] = NoSubs]
    /\ received' = [received EXCEPT ![c] = 0]
    /\ details' = [details EXCEPT ![c] = NoDetails]
    /\ UNCHANGED <<clientVars, ctxDone, pageSub, timedOut>>

\* Subscribe and Unsubscribe write on c.ws without checking it for nil.
CallerPanic(c) ==
    /\ NilConn
    /\ \/ pc[c] \in {"pageSend", "detailSend"}
       \/ pc[c] = "pageWait" /\ recvChan # <<>> /\ IsPageReply(c, Head(recvChan))
       \/ /\ pc[c] = "detailWait" /\ recvChan # <<>>
          /\ IsDetailReply(c, Head(recvChan)) /\ ~Head(recvChan).error
    /\ Crash
    /\ UNCHANGED <<connVars, updates, chanVars, tableVars, fetchVars>>

---------------------------------------------------------------------------

\* The caller goes away: the browser closes the stream, or its handler returns.
Cancel(c) ==
    /\ c \notin ctxDone /\ pc[c] # "idle"
    /\ ContextEnds(c)
    /\ ctxDone' = ctxDone \cup {c}
    /\ UNCHANGED <<pc, cursor, pageSub, got, todo, detailSubs, received, details, out, pageNo,
                   timedOut>>

PageStep(c) == PageConnect(c) \/ PageSend(c) \/ RecvPage(c) \/ RecvOther(c)
               \/ RecvPageError(c) \/ PageBroken(c) \/ PageTimeout(c)

DetailStep(c) == SkipItem(c) \/ DetailConnect(c) \/ DetailSend(c) \/ StartDetailLoop(c)
                 \/ RecvDetail(c) \/ RecvDetailError(c) \/ RecvForeign(c)
                 \/ DetailBroken(c) \/ DetailTimeout(c)

CallerStep(c) == PageStep(c) \/ DetailStep(c) \/ FinishPage(c) \/ CallerPanic(c)

ServerStep(s) == ServerAnswer(s) \/ ServerUpdate(s) \/ ServerComplete(s) \/ ServerError(s)

Next ==
    /\ ~panicked
    /\ \/ \E c \in Callers : Start(c) \/ CallerStep(c) \/ Cancel(c)
       \/ \E l \in LoopIds : LoopStep(l) /\ UNCHANGED fetchVars
       \/ \E s \in SubIds : ServerStep(s) /\ UNCHANGED fetchVars
       \/ (Drop \/ Close) /\ UNCHANGED fetchVars

Spec == Init /\ [][Next]_vars

\* c's next step is its own, not the answer of the server it dials; a dial returns when its
\* context ends.
OnItsOwn(c) == c \in dialing => c \in ctxDone

\* Goroutines that can run do run and 30 s timers fire.  Nothing is assumed of
\* the server, the network or the user: a dial or a handshake may never be answered.
FairSpec ==
    /\ Spec
    /\ \A c \in Callers : WF_vars(~panicked /\ OnItsOwn(c) /\ CallerStep(c))
    /\ \A l \in LoopIds : WF_vars(~panicked /\ LoopStep(l) /\ UNCHANGED fetchVars)

---------------------------------------------------------------------------
(* Properties                                                              *)

\* A detail is only ever filed under the item it was requested for, whatever
\* is dropped, repeated, late, or read by another caller of the same client
\* (detailSubIDs against recvChan, details.go:47-63).
DetailsAttributed ==
    \A c \in Callers :
        /\ \A i \in Items : details[c][i] \in {i, Null}
        /\ \A k \in DOMAIN out[c] : out[c][k].detail \in {out[c][k].item, Null}

\* No goroutine panics: recvChan is closed once and never sent on afterwards,
\* and no write or read finds a nil connection (client_ws.go:206, 219, 181).
NoPanic == ~panicked

\* Callers that share a client, whoever connects first, meet no panic until a connection is cut,
\* a context ends or the client is closed: one connection, one receive loop (client_ws.go:39-67).
NoPanicUntilFault == faults = 0 => NoPanic

AllDetailsIn(c) ==
    \A k \in DOMAIN out[c] : out[c][k].item # NoId => out[c][k].detail # Null

\* fetchDetailsForItems "fetches detail information for each timeline item":
\* a fetch that met no failure and no timeout has the detail of every item.
EveryDetailFetched ==
    \A c \in Callers : pc[c] = "ok" /\ faults = 0 /\ ~timedOut => AllDetailsIn(c)

\* That holds as long as the server sends nothing unasked.
CleanFetchComplete == updates = 0 => EveryDetailFetched

\* The subscriptions a successful fetch leaves behind in the client are those
\* of items whose detail it does not have; every other one was unsubscribed.
LeftoversAreMissing ==
    \A c \in Callers : \A s \in subs :
        pc[c] = "ok" => \E k \in DOMAIN out[c] :
            out[c][k].item = req[s] /\ out[c][k].detail = Null

Mine(c, s) == detailSubs[c][s] # Null

RepliesIn(c) ==
    LET inWire == {k \in DOMAIN wire : wire[k].code # "C" /\ Mine(c, wire[k].sub)}
        inLoop == {l \in LoopIds : \/ /\ loop[l].pc = "parse" /\ loop[l].frame.code # "C"
                                      /\ Mine(c, loop[l].frame.sub)
                                   \/ loop[l].pc = "send" /\ Mine(c, loop[l].msg.sub)}
        inChan == {k \in DOMAIN recvChan : recvChan[k].sub # NoSub /\ Mine(c, recvChan[k].sub)}
        unsent == {s \in SubIds : Mine(c, s) /\ srv[s] = "asked"}
    IN  Cardinality(inWire) + Cardinality(inLoop) + Cardinality(inChan) + Cardinality(unsent)

\* While a sole caller waits on a sound connection that sends no updates, the
\* details still to be counted are exactly those on their way: none is lost
\* between the socket, the receive loop and the channel.
RepliesConserved ==
    \A c \in Callers :
        pc[c] = "detailWait" /\ Callers = {c} /\ faults = 0 /\ updates = 0 =>
            received[c] + RepliesIn(c) = Total(c)

FetchEnds == \A c \in Callers : Running(c) ~> (~Running(c) \/ panicked)

\* Every fetch ends, unless a dial or handshake is never answered: then connectWS holds c.mu for
\* ever (client_ws.go:39, 50, 133).  The 30 s timers cut off a server that is silent
\* later, and no caller waits for ever on a full channel or a dead connection.
FetchEndsUnlessStalled == <>[](~MuFree) \/ FetchEnds

\* Once its context is canceled and nobody dials again, a receive loop ends,
\* unless it is stuck in its send on a full channel nobody reads any more.
CanceledLoopEnds ==
    \A l \in LoopIds :
        (loop[l].pc # "none" /\ wsCtx = "canceled") ~>
            \/ loop[l].pc = "gone" \/ Len(recvChan) = ChanCap
            \/ wsCtx = "live" \/ ~MuFree \/ panicked

\* What FetchAllEvents promises: see PagedFetch.
Status(c) == IF pc[c] \in {"idle", "ok", "error"} THEN pc[c] ELSE "running"

Paged == INSTANCE PagedFetch WITH
    taken     <- pageNo,
    delivered <- [c \in Callers |-> [k \in DOMAIN out[c] |-> out[c][k].item]],
    status    <- [c \in Callers |-> Status(c)]

ImplementsPagedFetch == Paged!Spec

=============================================================================
