------------------------------ MODULE WSClient ------------------------------
(***************************************************************************)
(* The WebSocket half of internal/client: one Client shared by Callers     *)
(* (goroutines that each hold a context), its subscription table, the      *)
(* receiveLoop goroutines and recvChan, the buffered channel they feed.    *)
(*                                                                         *)
(* A frame or a message carries a body: what was asked for (a page number  *)
(* or an item), or Null when the payload decodes to nil.  The Trade        *)
(* Republic server is external: it answers a subscription with one A frame,*)
(* may send D updates, C (complete) and E (error) frames, and keeps the    *)
(* frames of one connection in order.                                      *)
(***************************************************************************)
EXTENDS Integers, Sequences, FiniteSets

CONSTANTS
    Callers,     \* the goroutines that use the client, each with its context
    Bodies,      \* what can be asked for
    Null,        \* a nil payload
    MaxSubs,     \* bound: subscription ids 0 .. MaxSubs - 1
    MaxConns,    \* bound: successful dials of one client
    ChanCap,     \* capacity of recvChan (100 in the code)
    AllowClose,  \* whether Client.Close may be called while the client is in use
    MaxUpdates,  \* bound: D and unasked-for C frames of the server
    MaxFaults,   \* bound: drops, failed dials, server errors, cancels, closes
    MaxMishaps   \* bound: both together

ASSUME ClientAssumption ==
    /\ MaxSubs \in Nat \ {0} /\ MaxConns \in Nat \ {0} /\ ChanCap \in Nat \ {0}
    /\ MaxUpdates \in Nat /\ MaxFaults \in Nat /\ MaxMishaps \in Nat
    /\ AllowClose \in BOOLEAN
    /\ Null \notin Bodies

SubIds  == 0 .. MaxSubs - 1
LoopIds == 1 .. MaxConns
NoSub   == -1            \* the empty SubscriptionID of a fatal message
Payload == Bodies \cup {Null}

Frame   == [sub : SubIds, code : {"A", "D", "C", "E"}, body : Payload]
Message == [sub : SubIds \cup {NoSub}, error : BOOLEAN, body : Payload]

VARIABLES
    dialing,     \* the caller that holds c.mu in the dial or handshake of connectWS, as a set
    ws,          \* c.ws: "nil", "open", or "dead" (closed or failed)
    wsCtx,       \* c.wsContext: "none", "live" or "canceled"
    owner,       \* the callers whose context wsContext was derived from
    conn,        \* number of the current connection (dials so far)
    subs,        \* keys of c.subscriptions
    prev,        \* keys of c.previousResponses
    counter,     \* c.subscriptionIDCounter
    req,         \* what each subscription id asked for
    loop,        \* the receiveLoop goroutine of each connection
    recvChan, chanClosed,
    panicked,    \* a goroutine panicked: the process is gone
    wire,        \* frames on the way from the server, in order
    srv,         \* the server's view of each subscription
    updates, faults

clientVars == <<dialing, ws, wsCtx, owner, conn, subs, prev, counter, req, loop,
                recvChan, chanClosed, panicked, wire, srv, updates, faults>>

connVars   == <<dialing, ws, wsCtx, owner, conn, loop, wire, srv, faults>>
tableVars  == <<subs, prev, counter, req>>
chanVars   == <<recvChan, chanClosed>>

NoFrame == [sub |-> 0, code |-> "C", body |-> Null]
Fatal   == [sub |-> NoSub, error |-> TRUE, body |-> Null]

NotStarted == [pc |-> "none", on |-> 0, frame |-> NoFrame, known |-> FALSE, msg |-> Fatal]

Loop == [pc : {"none", "read", "parse", "send", "sendFatal", "exit", "gone"},
         on : 0 .. MaxConns, frame : Frame, known : BOOLEAN, msg : Message]

\* c.mu has one holder at most.
Holders == {{}} \cup {{c} : c \in Callers}

ClientTypeOK ==
    /\ dialing \in Holders
    /\ ws \in {"nil", "open", "dead"}
    /\ wsCtx \in {"none", "live", "canceled"}
    /\ owner \subseteq Callers
    /\ conn \in 0 .. MaxConns
    /\ subs \subseteq SubIds
    /\ prev \subseteq SubIds
    /\ counter \in 0 .. MaxSubs
    /\ req \in [SubIds -> Payload]
    /\ loop \in [LoopIds -> Loop]
    /\ recvChan \in Seq(Message)
    /\ chanClosed \in BOOLEAN
    /\ panicked \in BOOLEAN
    /\ wire \in Seq(Frame)
    /\ srv \in [SubIds -> {"none", "asked", "answered", "leaving"}]
    /\ updates \in 0 .. MaxUpdates
    /\ faults \in 0 .. MaxFaults

ClientInit ==
    /\ dialing = {} /\ ws = "nil" /\ wsCtx = "none" /\ owner = {} /\ conn = 0
    /\ subs = {} /\ prev = {} /\ counter = 0
    /\ req = [s \in SubIds |-> Null]
    /\ loop = [l \in LoopIds |-> NotStarted]
    /\ recvChan = <<>> /\ chanClosed = FALSE
    /\ panicked = FALSE
    /\ wire = <<>>
    /\ srv = [s \in SubIds |-> "none"]
    /\ updates = 0 /\ faults = 0

MishapLeft == updates + faults < MaxMishaps

Fault  == faults < MaxFaults /\ MishapLeft /\ faults' = faults + 1

Update == updates < MaxUpdates /\ MishapLeft /\ updates' = updates + 1

---------------------------------------------------------------------------
(* connectWS: under c.mu, a no-op on a live connection, else dial, then    *)
(* handshake, then start a receiveLoop on the client's one recvChan.  Dial *)
(* and handshake have no timeout, and c.mu is held until they return.      *)

\* Mutant: connectWS and the others do without c.mu.
NoMutex == TRUE

MuFree == dialing = {}

\* Mutant: a connection whose read failed is dialled anew.
ConnectedIfOpen == ws = "open" /\ wsCtx = "live"

Connected == ws # "nil" /\ wsCtx = "live"

AlreadyConnected == MuFree /\ Connected /\ UNCHANGED connVars

\* c is on its way to the server and keeps c.mu.
BeginDial(c, ctxIsDone) ==
    /\ MuFree /\ ~Connected /\ ~ctxIsDone
    /\ conn < MaxConns
    /\ dialing' = dialing \cup {c}
    /\ UNCHANGED <<ws, wsCtx, owner, conn, loop, wire, srv, faults>>

EndDial(c) == c \in dialing /\ dialing' = dialing \ {c}

\* Dial and handshake are answered.  The new context is a child of the dialling caller's, which
\* must be live; frames of the old connection are gone and the new server session knows no
\* subscription.
Dial(c, ctxIsDone) ==
    /\ EndDial(c) /\ ~ctxIsDone
    /\ conn < MaxConns
    /\ ws' = "open" /\ wsCtx' = "live" /\ owner' = {c} /\ conn' = conn + 1
    /\ loop' = [loop EXCEPT ![conn + 1] = [NotStarted EXCEPT !.pc = "read", !.on = conn + 1]]
    /\ wire' = <<>>
    /\ srv' = [s \in SubIds |-> "none"]
    /\ UNCHANGED faults

\* A dial fails at once for a context that is done, later when the context ends or for a fault
\* of the network.  At the bound of connections the network counts as down.
DialFails(c, ctxIsDone) ==
    /\ \/ MuFree /\ ~Connected /\ (ctxIsDone \/ conn = MaxConns) /\ UNCHANGED <<dialing, faults>>
       \/ EndDial(c) /\ ctxIsDone /\ UNCHANGED faults
       \/ EndDial(c) /\ Fault
    /\ UNCHANGED <<ws, wsCtx, owner, conn, loop, wire, srv>>

\* The handshake fails after a dial that succeeded: the server's doing, or the context ended.
HandshakeFails(c, ctxIsDone) ==
    /\ EndDial(c)
    /\ ws' = "nil" /\ wsCtx' = "canceled"
    /\ \/ ctxIsDone /\ UNCHANGED faults
       \/ Fault
    /\ UNCHANGED <<owner, conn, loop, wire, srv>>

---------------------------------------------------------------------------
(* Subscribe after connectWS: register under c.mu, then write outside it.  *)
(* A failed write leaves the registration behind.                          *)

CanWrite == ws = "open" /\ wsCtx = "live"

Register(body) ==
    /\ MuFree /\ counter < MaxSubs
    /\ subs' = subs \cup {counter}
    /\ req' = [req EXCEPT ![counter] = body]
    /\ counter' = counter + 1
    /\ srv' = IF CanWrite THEN [srv EXCEPT ![counter] = "asked"] ELSE srv
    /\ UNCHANGED prev

\* Mutant: the registration stays.
ForgetDeltaOnly(s) == prev' = prev \ {s} /\ UNCHANGED subs

Forget(s) == subs' = subs \ {s} /\ prev' = prev \ {s}

\* Unsubscribe(s): write "unsub s", then forget s whatever the write returned.
\* The server acts on it later; an id it no longer serves is ignored.
Unsubscribe(s) ==
    /\ MuFree /\ Forget(s)
    /\ srv' = IF CanWrite /\ srv[s] = "answered"
              THEN [srv EXCEPT ![s] = "leaving"] ELSE srv
    /\ UNCHANGED <<counter, req>>

\* Both use c.ws without a nil check.
NilConn == ws = "nil"

---------------------------------------------------------------------------
(* receiveLoop.  c.ws and c.wsContext are read afresh on every iteration.  *)

\* on = 0: the loop goes back to Read with c.ws nil.
ToRead(l) == [loop EXCEPT ![l] = [NotStarted EXCEPT !.pc = "read",
                                                    !.on = IF ws = "nil" THEN 0 ELSE conn]]

\* c.ws.Read returns a frame; parseMessage looks its subscription up and
\* lets go of the lock.
ReadFrame(l) ==
    /\ MuFree /\ loop[l].pc = "read" /\ loop[l].on = conn
    /\ wsCtx = "live" /\ wire # <<>>
    /\ wire' = Tail(wire)
    /\ loop' = [loop EXCEPT ![l].pc = "parse", ![l].frame = Head(wire),
                            ![l].known = (Head(wire).sub \in subs)]
    /\ UNCHANGED <<dialing, ws, wsCtx, owner, conn, srv, faults, panicked, updates, tableVars, chanVars>>

\* Mutant: a canceled loop keeps reading.
ReadErrorUnlessCanceled(l) ==
    /\ loop[l].pc = "read" /\ loop[l].on # 0
    /\ wsCtx = "live" /\ (loop[l].on # conn \/ ws # "open")
    /\ loop' = [loop EXCEPT ![l].pc = "sendFatal", ![l].msg = Fatal]
    /\ UNCHANGED <<dialing, ws, wsCtx, owner, conn, wire, srv, faults, panicked, updates, tableVars, chanVars>>

\* c.ws.Read fails: the loop reports it unless the context it sees now is
\* canceled.
ReadError(l) ==
    /\ loop[l].pc = "read" /\ loop[l].on # 0
    /\ loop[l].on # conn \/ wsCtx # "live" \/ ws # "open"
    /\ loop' = [loop EXCEPT ![l].pc = IF wsCtx = "canceled" THEN "exit" ELSE "sendFatal",
                            ![l].msg = Fatal]
    /\ UNCHANGED <<dialing, ws, wsCtx, owner, conn, wire, srv, faults, panicked, updates, tableVars, chanVars>>

ToSend(l, m) == [loop EXCEPT ![l] = [NotStarted EXCEPT !.pc = "send", !.on = loop[l].on, !.msg = m]]

ToFatal(l) == [loop EXCEPT ![l] = [NotStarted EXCEPT !.pc = "sendFatal", !.on = loop[l].on]]

\* A frame other than C for an id that is not registered ends the loop.
ParseUnknown(l) ==
    /\ ~loop[l].known /\ loop[l].frame.code # "C"
    /\ loop' = ToFatal(l)
    /\ UNCHANGED <<subs, prev>>

Data(fr, body) == [sub |-> fr.sub, error |-> FALSE, body |-> body]

\* A: a whole payload.  D: a delta against the previous response.
ParseData(l) ==
    LET fr == loop[l].frame IN
    /\ MuFree /\ loop[l].known
    /\ fr.code = "A" \/ (fr.code = "D" /\ fr.sub \in prev)
    /\ prev' = prev \cup {fr.sub}
    /\ loop' = ToSend(l, Data(fr, fr.body))
    /\ UNCHANGED subs

\* D whose previous response Unsubscribe deleted after the lookup: the delta
\* rebuilds from "", to an empty payload (nil) or to text that is no JSON.
ParseBaselessDelta(l) ==
    LET fr == loop[l].frame IN
    /\ MuFree /\ loop[l].known /\ fr.code = "D" /\ fr.sub \notin prev
    /\ prev' = prev \cup {fr.sub}
    /\ loop' \in {ToSend(l, Data(fr, Null)), ToFatal(l)}
    /\ UNCHANGED subs

\* C: no message.
ParseComplete(l) ==
    /\ MuFree /\ loop[l].frame.code = "C"
    /\ Forget(loop[l].frame.sub)
    /\ loop' = ToRead(l)

\* E: a message with the error, unless the payload is not JSON.
ParseError(l) ==
    LET fr == loop[l].frame IN
    /\ MuFree /\ loop[l].known /\ fr.code = "E"
    /\ Forget(fr.sub)
    /\ loop' \in {ToSend(l, [sub |-> fr.sub, error |-> TRUE, body |-> Null]), ToFatal(l)}

ParseFrame(l) ==
    /\ loop[l].pc = "parse"
    /\ \/ ParseUnknown(l) \/ ParseData(l) \/ ParseBaselessDelta(l)
       \/ ParseComplete(l) \/ ParseError(l)
    /\ UNCHANGED <<dialing, ws, wsCtx, owner, conn, wire, srv, faults, panicked, updates, counter, req, chanVars>>

\* Mutant: a full channel drops the message.
SendMsgOrDrop(l) ==
    /\ loop[l].pc = "send" /\ ~chanClosed
    /\ recvChan' = IF Len(recvChan) < ChanCap THEN Append(recvChan, loop[l].msg) ELSE recvChan
    /\ loop' = ToRead(l)
    /\ UNCHANGED <<dialing, ws, wsCtx, owner, conn, wire, srv, faults, panicked, updates, chanClosed, tableVars>>

\* c.recvChan <- msg blocks while the channel is full; no select leaves it.
SendMsg(l) ==
    /\ loop[l].pc = "send" /\ ~chanClosed
    /\ Len(recvChan) < ChanCap
    /\ recvChan' = Append(recvChan, loop[l].msg)
    /\ loop' = ToRead(l)
    /\ UNCHANGED <<dialing, ws, wsCtx, owner, conn, wire, srv, faults, panicked, updates, chanClosed, tableVars>>

SendFatal(l) ==
    /\ loop[l].pc = "sendFatal" /\ ~chanClosed
    /\ Len(recvChan) < ChanCap
    /\ recvChan' = Append(recvChan, loop[l].msg)
    /\ loop' = [loop EXCEPT ![l].pc = "exit"]
    /\ UNCHANGED <<dialing, ws, wsCtx, owner, conn, wire, srv, faults, panicked, updates, chanClosed, tableVars>>

\* defer close(c.recvChan)
ExitLoop(l) ==
    /\ loop[l].pc = "exit" /\ ~chanClosed
    /\ chanClosed' = TRUE
    /\ loop' = [loop EXCEPT ![l] = [NotStarted EXCEPT !.pc = "gone"]]
    /\ UNCHANGED <<dialing, ws, wsCtx, owner, conn, wire, srv, faults, panicked, updates, recvChan, tableVars>>

Crash == panicked' = TRUE

\* Go panics on a send on, or a close of, a closed channel, and on a read
\* from a nil connection.
LoopPanic(l) ==
    /\ \/ loop[l].pc \in {"send", "sendFatal", "exit"} /\ chanClosed
       \/ loop[l].pc = "read" /\ loop[l].on = 0
    /\ Crash
    /\ UNCHANGED <<connVars, updates, chanVars, tableVars>>

LoopStep(l) == ReadFrame(l) \/ ReadError(l) \/ ParseFrame(l)
               \/ SendMsg(l) \/ SendFatal(l) \/ ExitLoop(l) \/ LoopPanic(l)

---------------------------------------------------------------------------
(* The server and the network, external.                                   *)

Emit(s, code, next) ==
    /\ CanWrite
    /\ wire' = Append(wire, [sub |-> s, code |-> code, body |-> req[s]])
    /\ srv' = [srv EXCEPT ![s] = next]
    /\ UNCHANGED <<dialing, ws, wsCtx, owner, conn, loop, panicked, chanVars, tableVars>>

ServerAnswer(s) ==
    /\ srv[s] = "asked" /\ Emit(s, "A", "answered")
    /\ UNCHANGED <<updates, faults>>

\* An update may be under way when "unsub" arrives.
ServerUpdate(s) ==
    /\ srv[s] \in {"answered", "leaving"} /\ Update
    /\ Emit(s, "D", srv[s])
    /\ UNCHANGED faults

\* C answers "unsub"; the server may also complete a subscription itself.
ServerComplete(s) ==
    /\ \/ srv[s] = "leaving" /\ UNCHANGED updates
       \/ srv[s] = "answered" /\ Update
    /\ Emit(s, "C", "none")
    /\ UNCHANGED faults

ServerError(s) ==
    /\ srv[s] \in {"asked", "answered"} /\ Emit(s, "E", "none")
    /\ Fault
    /\ UNCHANGED updates

\* The connection fails; frames already received may still be read.
Drop ==
    /\ ws = "open" /\ Fault
    /\ ws' = "dead"
    /\ UNCHANGED <<dialing, wsCtx, owner, conn, loop, wire, srv, panicked, updates, chanVars, tableVars>>

\* Client.Close: cancel wsContext, then close the connection.
Close ==
    /\ AllowClose /\ MuFree /\ ws # "nil" /\ wsCtx = "live" /\ Fault
    /\ wsCtx' = "canceled" /\ ws' = "dead"
    /\ UNCHANGED <<dialing, owner, conn, loop, wire, srv, panicked, updates, chanVars, tableVars>>

\* The context of caller c ends: wsContext, if derived from it, ends too.
ContextEnds(c) ==
    /\ wsCtx' = IF c \in owner /\ wsCtx = "live" THEN "canceled" ELSE wsCtx
    /\ Fault
    /\ UNCHANGED <<dialing, ws, owner, conn, loop, wire, srv, panicked, updates, chanVars, tableVars>>

=============================================================================
