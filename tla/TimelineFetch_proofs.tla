------------------------ MODULE TimelineFetch_proofs ------------------------
(***************************************************************************)
(* Proofs about TimelineFetch, for any callers, timeline, channel capacity *)
(* and bounds.                                                             *)
(*                                                                         *)
(* TypeOK is not inductive: that a page reply is a page, and a detail the  *)
(* detail of the item it is filed under, depends on every frame and every  *)
(* message being labelled with an id that was given out once, for the      *)
(* request the body answers.  Labels states that along the whole path of a *)
(* reply: server, wire, receive loop, recvChan, caller.                    *)
(*                                                                         *)
(* On top of it, in this order: no panic while there is one connection;    *)
(* pages that come whole; exact replies from a server that sends nothing   *)
(* unasked; the refinement of PagedFetch; what a fetch leaves registered;  *)
(* and, on an untroubled connection, complete details and replies that are *)
(* neither lost nor doubled.                                               *)
(***************************************************************************)
EXTENDS TimelineFetch, SequenceTheorems, FiniteSetTheorems, TLAPS

Given(s) == s \in SubIds /\ s < counter

\* A reply with this id and body answers what the id was given out for.
Answers(s, body) == Given(s) /\ body \in {req[s], Null}

SrvLabels  == \A s \in SubIds : srv[s] # "none" => s < counter
WireLabels == \A k \in 1 .. Len(wire) : Answers(wire[k].sub, wire[k].body)
LoopLabels == \A l \in LoopIds :
    /\ loop[l].pc = "parse" => Answers(loop[l].frame.sub, loop[l].frame.body)
    /\ loop[l].msg.sub # NoSub => Answers(loop[l].msg.sub, loop[l].msg.body)
    /\ loop[l].msg.sub = NoSub => loop[l].msg.error
ChanLabels == \A k \in 1 .. Len(recvChan) :
    /\ recvChan[k].sub # NoSub => Answers(recvChan[k].sub, recvChan[k].body)
    /\ recvChan[k].sub = NoSub => recvChan[k].error
CallerLabels == \A c \in Callers :
    /\ pc[c] = "pageWait" => Given(pageSub[c]) /\ req[pageSub[c]] = cursor[c]
    /\ \A s \in SubIds : detailSubs[c][s] # Null => s < counter /\ req[s] = detailSubs[c][s]

ClientLabels == SrvLabels /\ WireLabels /\ LoopLabels /\ ChanLabels

\* What the caller is about to subscribe is an item with an id.
Positions == \A c \in Callers :
    /\ todo[c] # 0
    /\ pc[c] = "detailSend" => todo[c] <= Len(RawItems(c)) /\ RawItems(c)[todo[c]] # NoId

ClientInv == ClientTypeOK /\ ClientLabels
CallerInv == FetchTypeOK /\ CallerLabels /\ Positions

IInv == ClientInv /\ CallerInv

\* Ids that were given out keep their request.
Growth == /\ counter <= counter'
          /\ \A s \in SubIds : s < counter => req'[s] = req[s]

USE ClientAssumption

LEMMA PagesFacts ==
    /\ DOMAIN Pages = 1 .. Len(Pages) /\ Len(Pages) \in Nat /\ 1 \in DOMAIN Pages
    /\ \A p \in DOMAIN Pages : Pages[p] \in Seq(AllItems)
    /\ Bodies = Items \cup DOMAIN Pages
    /\ NoId \notin Items /\ Null \notin Items /\ Null \notin DOMAIN Pages
<1>1. Pages \in Seq(Seq(AllItems)) /\ Pages # <<>>
  BY PagesAssumption DEF AllItems
<1>2. DOMAIN Pages = 1 .. Len(Pages) /\ Len(Pages) \in Nat /\ Len(Pages) # 0
  BY <1>1, EmptySeq
<1>3. QED
  BY <1>1, <1>2, PagesAssumption
LEMMA InitIInv == Init => IInv
<1> SUFFICES ASSUME Init PROVE IInv
  OBVIOUS
<1> USE DEF Init, ClientInit
<1>1. TypeOK
  <2>1. 0 \in SubIds /\ NoFrame \in Frame /\ Fatal \in Message
    BY DEF SubIds, NoFrame, Fatal, Frame, Message, NoSub, Payload
  <2>2. NotStarted \in Loop
    BY <2>1 DEF NotStarted, Loop
  <2>3. wire \in Seq(Frame) /\ recvChan \in Seq(Message)
    BY EmptySeq
  <2>4. ClientTypeOK
    <3>1. counter \in 0 .. MaxSubs /\ conn \in 0 .. MaxConns
          /\ updates \in 0 .. MaxUpdates /\ faults \in 0 .. MaxFaults
      OBVIOUS
    <3>2. req \in [SubIds -> Payload] /\ loop \in [LoopIds -> Loop]
      BY <2>2 DEF Payload
    <3>3. QED
      BY <2>3, <3>1, <3>2 DEF ClientTypeOK, Holders
  <2>5. out \in [Callers -> Seq(Event)]
    BY EmptySeq
  <2>6. 1 \in DOMAIN Pages
    BY PagesFacts
  <2>7. QED
    BY <2>1, <2>4, <2>5, <2>6 DEF TypeOK, FetchTypeOK, PCs, NoSubs, NoDetails, Payload
<1>2. ClientLabels /\ CallerLabels
  BY DEF ClientLabels, SrvLabels, WireLabels, LoopLabels, ChanLabels, CallerLabels, Answers, Given,
         NotStarted, NoFrame, Fatal, NoSub, NoSubs, SubIds
<1>3. Positions
  BY DEF Positions
<1>4. QED
  BY <1>1, <1>2, <1>3 DEF IInv, ClientInv, CallerInv, TypeOK

---------------------------------------------------------------------------
(* Steps of the receive loop, the server and the network                   *)

\* The labels of one client variable survive a step that leaves it alone.
LEMMA LabelsKept ==
  ASSUME ClientLabels, UNCHANGED <<counter, req>>
  PROVE  /\ UNCHANGED srv => SrvLabels'
         /\ UNCHANGED wire => WireLabels'
         /\ UNCHANGED loop => LoopLabels'
         /\ UNCHANGED recvChan => ChanLabels'
  BY DEF ClientLabels, SrvLabels, WireLabels, LoopLabels, ChanLabels, Answers, Given

LEMMA CallerInvKept ==
  ASSUME CallerInv, UNCHANGED <<counter, req, fetchVars>>
  PROVE  CallerInv'
  BY DEF CallerInv, FetchTypeOK, CallerLabels, Positions, Given, RawItems, fetchVars

\* A receive loop goes to another state with a labelled message or frame.
LEMMA LoopMoves ==
  ASSUME ClientInv, NEW l \in LoopIds, NEW r \in Loop,
         loop' = [loop EXCEPT ![l] = r], UNCHANGED <<counter, req>>,
         r.pc = "parse" => Answers(r.frame.sub, r.frame.body),
         r.msg.sub # NoSub => Answers(r.msg.sub, r.msg.body),
         r.msg.sub = NoSub => r.msg.error
  PROVE  loop' \in [LoopIds -> Loop] /\ LoopLabels'
<1>1. loop' \in [LoopIds -> Loop]
  BY DEF ClientInv, ClientTypeOK
<1>2. LoopLabels'
  BY DEF ClientInv, ClientTypeOK, ClientLabels, LoopLabels, Answers, Given
<1>3. QED
  BY <1>1, <1>2

\* The same for a state that holds no frame and no message of a subscription.
LEMMA LoopEmpties ==
  ASSUME ClientInv, NEW l \in LoopIds, NEW r \in Loop,
         loop' = [loop EXCEPT ![l] = r], UNCHANGED <<counter, req>>,
         r.pc # "parse", r.msg = Fatal
  PROVE  loop' \in [LoopIds -> Loop] /\ LoopLabels'
<1>1. r.msg.sub = NoSub /\ r.msg.error
  BY DEF Fatal
<1>2. QED
  BY <1>1, LoopMoves

LEMMA Records ==
  /\ NoFrame \in Frame /\ Fatal \in Message
  /\ NotStarted \in Loop
  /\ \A on \in 0 .. MaxConns : [NotStarted EXCEPT !.pc = "read", !.on = on] \in Loop
  /\ \A on \in 0 .. MaxConns : [NotStarted EXCEPT !.pc = "sendFatal", !.on = on] \in Loop
  /\ \A on \in 0 .. MaxConns, m \in Message :
        [NotStarted EXCEPT !.pc = "send", !.on = on, !.msg = m] \in Loop
<1>1. 0 \in SubIds /\ NoFrame \in Frame /\ Fatal \in Message
  BY DEF SubIds, NoFrame, Fatal, Frame, Message, NoSub, Payload
<1>2. 0 \in 0 .. MaxConns
  OBVIOUS
<1>3. NotStarted \in Loop
  BY <1>1, <1>2 DEF NotStarted, Loop
<1>4. QED
  BY <1>1, <1>3 DEF Loop

LEMMA ReadFrameInv ==
  ASSUME ClientInv, NEW l \in LoopIds, ReadFrame(l)
  PROVE  ClientInv'
<1> USE DEF ReadFrame, tableVars, chanVars
<1> DEFINE r == [loop[l] EXCEPT !.pc = "parse", !.frame = Head(wire),
                                !.known = (Head(wire).sub \in subs)]
<1>1. wire \in Seq(Frame) /\ wire # <<>> /\ loop[l] \in Loop
  BY DEF ClientInv, ClientTypeOK
<1>2. Head(wire) = wire[1] /\ Head(wire) \in Frame /\ Tail(wire) \in Seq(Frame)
  BY <1>1, HeadTailProperties
<1>3. Answers(Head(wire).sub, Head(wire).body)
  <2> HIDE DEF ReadFrame
  <2>1. 1 \in 1 .. Len(wire)
    BY <1>1
  <2>2. \A k \in 1 .. Len(wire) : Answers(wire[k].sub, wire[k].body)
    BY DEF ClientInv, ClientLabels, WireLabels
  <2>3. QED
    BY <1>2, <2>1, <2>2
<1>4. WireLabels'
  <2>1. wire' = Tail(wire) /\ UNCHANGED <<counter, req>>
    OBVIOUS
  <2>2. \A k \in 1 .. Len(wire) - 1 : Tail(wire)[k] = wire[k + 1]
    BY <1>1, HeadTailProperties
  <2>3. Len(Tail(wire)) = Len(wire) - 1 /\ Len(wire) \in Nat
    BY <1>1, HeadTailProperties, LenProperties
  <2>4. \A k \in 1 .. Len(wire) - 1 : k + 1 \in 1 .. Len(wire)
    BY <2>3
  <2>5. DOMAIN wire = 1 .. Len(wire) /\ DOMAIN wire' = 1 .. Len(wire) - 1
    BY <1>1, <1>2, <2>1, <2>3, LenProperties
  <2>6. QED
    BY <2>1, <2>2, <2>4, <2>5 DEF ClientInv, ClientLabels, WireLabels, Answers, Given
<1>5. r \in Loop /\ loop' = [loop EXCEPT ![l] = r]
  <2>1. \A fr \in Frame, b \in BOOLEAN :
            [loop[l] EXCEPT !.pc = "parse", !.frame = fr, !.known = b] \in Loop
    BY <1>1 DEF Loop
  <2>2. loop' = [loop EXCEPT ![l] = r]
    BY DEF ClientInv, ClientTypeOK
  <2>3. (Head(wire).sub \in subs) \in BOOLEAN
    OBVIOUS
  <2>4. QED
    BY <1>2, <2>1, <2>2, <2>3
<1>6. loop' \in [LoopIds -> Loop] /\ LoopLabels'
  <2>1. r.msg = loop[l].msg /\ r.frame = Head(wire)
    BY <1>1 DEF Loop
  <2>2. r.msg.sub # NoSub => Answers(r.msg.sub, r.msg.body)
    BY <2>1 DEF ClientInv, ClientLabels, LoopLabels
  <2>3. r.msg.sub = NoSub => r.msg.error
    BY <2>1 DEF ClientInv, ClientLabels, LoopLabels
  <2>4. QED
    BY <1>3, <1>5, <2>1, <2>2, <2>3, LoopMoves
<1>7. SrvLabels' /\ ChanLabels'
  BY LabelsKept DEF ClientInv
<1>8. QED
  BY <1>2, <1>4, <1>6, <1>7 DEF ClientInv, ClientTypeOK, ClientLabels

LEMMA ReadErrorInv ==
  ASSUME ClientInv, NEW l \in LoopIds, ReadError(l)
  PROVE  ClientInv'
<1> USE DEF ReadError, tableVars, chanVars
<1> DEFINE next == IF wsCtx = "canceled" THEN "exit" ELSE "sendFatal"
<1> DEFINE r == [loop[l] EXCEPT !.pc = next, !.msg = Fatal]
<1>1. loop[l] \in Loop
  BY DEF ClientInv, ClientTypeOK
<1>2. r \in Loop
  BY <1>1, Records DEF Loop
<1>3. loop' = [loop EXCEPT ![l] = r]
  BY DEF ClientInv, ClientTypeOK
<1>4. r.pc # "parse" /\ r.msg = Fatal
  BY <1>1 DEF Loop
<1>5. loop' \in [LoopIds -> Loop] /\ LoopLabels'
  <2> HIDE DEF r
  <2> QED
    BY <1>2, <1>3, <1>4, LoopEmpties
<1>6. SrvLabels' /\ ChanLabels' /\ WireLabels'
  BY LabelsKept DEF ClientInv
<1>7. QED
  BY <1>5, <1>6 DEF ClientInv, ClientTypeOK, ClientLabels

\* The states a loop goes to while it parses a frame.
LEMMA SendTargets ==
  ASSUME ClientInv, NEW l \in LoopIds, loop[l].pc = "parse", NEW m \in Message,
         m.sub = loop[l].frame.sub, m.body \in {loop[l].frame.body, Null},
         UNCHANGED <<counter, req>>
  PROVE  loop' = ToSend(l, m) => loop' \in [LoopIds -> Loop] /\ LoopLabels'
<1> DEFINE r == [NotStarted EXCEPT !.pc = "send", !.on = loop[l].on, !.msg = m]
<1>1. loop[l] \in Loop
  BY DEF ClientInv, ClientTypeOK
<1>2. r \in Loop /\ r.pc = "send" /\ r.msg = m
  BY <1>1, Records DEF Loop, NotStarted
<1>3. Answers(m.sub, m.body) /\ m.sub # NoSub
  BY DEF ClientInv, ClientLabels, LoopLabels, Answers, Given, NoSub, SubIds
<1>4. QED
  BY <1>2, <1>3, LoopMoves DEF ToSend

LEMMA FatalTarget ==
  ASSUME ClientInv, NEW l \in LoopIds, UNCHANGED <<counter, req>>
  PROVE  loop' = ToFatal(l) => loop' \in [LoopIds -> Loop] /\ LoopLabels'
<1> DEFINE r == [NotStarted EXCEPT !.pc = "sendFatal", !.on = loop[l].on]
<1>1. loop[l] \in Loop
  BY DEF ClientInv, ClientTypeOK
<1>2. r \in Loop /\ r.pc = "sendFatal" /\ r.msg = Fatal
  BY <1>1, Records DEF Loop, NotStarted
<1>3. loop' = ToFatal(l) => loop' = [loop EXCEPT ![l] = r]
  BY DEF ToFatal
<1>4. QED
  <2> HIDE DEF r
  <2> QED
    BY <1>2, <1>3, LoopEmpties

LEMMA ReadTarget ==
  ASSUME ClientInv, NEW l \in LoopIds, UNCHANGED <<counter, req>>
  PROVE  loop' = ToRead(l) => loop' \in [LoopIds -> Loop] /\ LoopLabels'
<1> DEFINE on == IF ws = "nil" THEN 0 ELSE conn
<1> DEFINE r == [NotStarted EXCEPT !.pc = "read", !.on = on]
<1>1. on \in 0 .. MaxConns
  BY DEF ClientInv, ClientTypeOK
<1>2. r \in Loop /\ r.pc = "read" /\ r.msg = Fatal
  BY <1>1, Records DEF Loop, NotStarted
<1>3. loop' = ToRead(l) => loop' = [loop EXCEPT ![l] = r]
  BY DEF ToRead
<1>4. QED
  <2> HIDE DEF r
  <2> QED
    BY <1>2, <1>3, LoopEmpties

LEMMA ParseFrameInv ==
  ASSUME ClientInv, NEW l \in LoopIds, ParseFrame(l)
  PROVE  ClientInv'
<1> USE DEF ParseFrame, chanVars
<1> DEFINE fr == loop[l].frame
<1>1. loop[l] \in Loop /\ fr \in Frame /\ fr.sub \in SubIds /\ fr.body \in Payload
  BY DEF ClientInv, ClientTypeOK, Loop, Frame
<1>2. \A body \in {fr.body, Null} : Data(fr, body) \in Message
        /\ Data(fr, body).sub = fr.sub /\ Data(fr, body).body = body
  BY <1>1 DEF Data, Message, Payload
<1>3. /\ loop' \in [LoopIds -> Loop] /\ LoopLabels'
      /\ subs' \subseteq SubIds /\ prev' \subseteq SubIds
  <2>1. CASE ParseUnknown(l)
    BY <2>1, FatalTarget DEF ParseUnknown, ClientInv, ClientTypeOK
  <2>2. CASE ParseData(l)
    BY <2>2, <1>1, <1>2, SendTargets DEF ParseData, ClientInv, ClientTypeOK
  <2>3. CASE ParseBaselessDelta(l)
    <3>1. CASE loop' = ToSend(l, Data(fr, Null))
      BY <3>1, <2>3, <1>1, <1>2, SendTargets DEF ParseBaselessDelta, ClientInv, ClientTypeOK
    <3>2. CASE loop' = ToFatal(l)
      BY <3>2, <2>3, <1>1, FatalTarget DEF ParseBaselessDelta, ClientInv, ClientTypeOK
    <3>3. QED
      BY <2>3, <3>1, <3>2 DEF ParseBaselessDelta
  <2>4. CASE ParseComplete(l)
    BY <2>4, ReadTarget DEF ParseComplete, Forget, ClientInv, ClientTypeOK
  <2>5. CASE ParseError(l)
    <3> DEFINE m == [sub |-> fr.sub, error |-> TRUE, body |-> Null]
    <3>1. m \in Message
      BY <1>1 DEF Message, Payload
    <3>2. m.sub = fr.sub /\ m.body = Null
      OBVIOUS
    <3>3. loop' = ToSend(l, m) \/ loop' = ToFatal(l)
      BY <2>5 DEF ParseError
    <3>4. loop' \in [LoopIds -> Loop] /\ LoopLabels'
      <4> HIDE DEF m
      <4> QED
        BY <3>1, <3>2, <3>3, SendTargets, FatalTarget
    <3>5. QED
      BY <2>5, <3>4 DEF ParseError, Forget, ClientInv, ClientTypeOK
  <2>6. QED
    BY <2>1, <2>2, <2>3, <2>4, <2>5
<1>4. SrvLabels' /\ ChanLabels' /\ WireLabels'
  BY LabelsKept DEF ClientInv
<1>5. QED
  BY <1>3, <1>4 DEF ClientInv, ClientTypeOK, ClientLabels

\* A labelled message goes into the channel.
LEMMA ChanAppend ==
  ASSUME ClientInv, NEW m \in Message, recvChan' = Append(recvChan, m),
         UNCHANGED <<counter, req>>,
         m.sub # NoSub => Answers(m.sub, m.body), m.sub = NoSub => m.error
  PROVE  recvChan' \in Seq(Message) /\ ChanLabels'
  BY AppendProperties DEF ClientInv, ClientTypeOK, ClientLabels, ChanLabels, Answers, Given

LEMMA SendInv ==
  ASSUME ClientInv, NEW l \in LoopIds, SendMsg(l) \/ SendFatal(l)
  PROVE  ClientInv'
<1> USE DEF SendMsg, SendFatal, tableVars
<1>1. loop[l] \in Loop /\ loop[l].msg \in Message
  BY DEF ClientInv, ClientTypeOK, Loop
<1>2. recvChan' \in Seq(Message) /\ ChanLabels'
  BY <1>1, ChanAppend DEF ClientInv, ClientLabels, LoopLabels
<1>3. loop' \in [LoopIds -> Loop] /\ LoopLabels'
  <2>1. CASE SendMsg(l)
    BY <2>1, ReadTarget
  <2>2. CASE SendFatal(l)
    <3> DEFINE r == [loop[l] EXCEPT !.pc = "exit"]
    <3>1. r \in Loop /\ r.pc = "exit" /\ r.msg = loop[l].msg
      BY <1>1 DEF Loop
    <3>2. loop' = [loop EXCEPT ![l] = r]
      BY <2>2 DEF ClientInv, ClientTypeOK
    <3>3. /\ r.msg.sub # NoSub => Answers(r.msg.sub, r.msg.body)
          /\ r.msg.sub = NoSub => r.msg.error
      BY <3>1 DEF ClientInv, ClientLabels, LoopLabels
    <3>4. QED
      <4> HIDE DEF r
      <4> QED
        BY <2>2, <3>1, <3>2, <3>3, LoopMoves
  <2>3. QED
    BY <2>1, <2>2
<1>4. SrvLabels' /\ WireLabels'
  BY LabelsKept DEF ClientInv
<1>5. QED
  BY <1>2, <1>3, <1>4 DEF ClientInv, ClientTypeOK, ClientLabels

LEMMA ExitInv ==
  ASSUME ClientInv, NEW l \in LoopIds, ExitLoop(l) \/ LoopPanic(l)
  PROVE  ClientInv'
<1> USE DEF ExitLoop, LoopPanic, Crash, tableVars, connVars, chanVars
<1>1. SrvLabels' /\ WireLabels' /\ ChanLabels'
  BY LabelsKept DEF ClientInv
<1>2. loop' \in [LoopIds -> Loop] /\ LoopLabels'
  <2>1. CASE ExitLoop(l)
    <3> DEFINE r == [NotStarted EXCEPT !.pc = "gone"]
    <3>1. r \in Loop /\ r.pc = "gone" /\ r.msg = Fatal
      BY Records DEF Loop, NotStarted
    <3>2. loop' = [loop EXCEPT ![l] = r]
      BY <2>1
    <3>3. QED
      <4> HIDE DEF r
      <4> QED
        BY <2>1, <3>1, <3>2, LoopEmpties
  <2>2. CASE LoopPanic(l)
    BY <2>2, LabelsKept DEF ClientInv, ClientTypeOK
  <2>3. QED
    BY <2>1, <2>2
<1>3. QED
  BY <1>1, <1>2 DEF ClientInv, ClientTypeOK, ClientLabels

LEMMA LoopStepInv ==
  ASSUME IInv, NEW l \in LoopIds, LoopStep(l), UNCHANGED fetchVars
  PROVE  IInv'
<1>1. ClientInv'
  BY ReadFrameInv, ReadErrorInv, ParseFrameInv, SendInv, ExitInv DEF IInv, LoopStep
<1>2. UNCHANGED <<counter, req>>
  BY DEF LoopStep, ReadFrame, ReadError, ParseFrame, SendMsg, SendFatal, ExitLoop, LoopPanic,
         tableVars
<1>3. QED
  BY <1>1, <1>2, CallerInvKept DEF IInv

LEMMA EmitInv ==
  ASSUME ClientInv, NEW s \in SubIds, srv[s] # "none",
         NEW code \in {"A", "D", "C", "E"},
         NEW next \in {"none", "answered", "leaving"}, Emit(s, code, next)
  PROVE  /\ wire' \in Seq(Frame) /\ WireLabels'
         /\ srv' \in [SubIds -> {"none", "asked", "answered", "leaving"}] /\ SrvLabels'
         /\ LoopLabels' /\ ChanLabels'
<1> USE DEF Emit, tableVars, chanVars
<1> DEFINE fr == [sub |-> s, code |-> code, body |-> req[s]]
<1>1. fr \in Frame /\ fr.sub = s /\ fr.body = req[s]
  BY DEF ClientInv, ClientTypeOK, Frame
<1>2. Answers(s, req[s])
  BY DEF ClientInv, ClientLabels, SrvLabels, Answers, Given
<1>3. wire' \in Seq(Frame) /\ WireLabels'
  <2>1. wire' = Append(wire, fr)
    OBVIOUS
  <2>2. wire \in Seq(Frame) /\ WireLabels
    BY DEF ClientInv, ClientTypeOK, ClientLabels
  <2> HIDE DEF fr
  <2>3. QED
    BY <1>1, <1>2, <2>1, <2>2, AppendProperties DEF WireLabels, Answers, Given
<1>4. srv' \in [SubIds -> {"none", "asked", "answered", "leaving"}] /\ SrvLabels'
  BY DEF ClientInv, ClientTypeOK, ClientLabels, SrvLabels
<1>5. LoopLabels' /\ ChanLabels'
  BY LabelsKept DEF ClientInv
<1>6. QED
  BY <1>3, <1>4, <1>5

LEMMA ServerStepInv ==
  ASSUME IInv, NEW s \in SubIds, ServerStep(s), UNCHANGED fetchVars
  PROVE  IInv'
<1> USE DEF IInv
<1>1. /\ UNCHANGED <<dialing, ws, wsCtx, owner, conn, loop, panicked, chanVars, tableVars>>
      /\ updates' \in 0 .. MaxUpdates /\ faults' \in 0 .. MaxFaults
  BY DEF ServerStep, ServerAnswer, ServerUpdate, ServerComplete, ServerError, Emit, Fault, Update,
         ClientInv, ClientTypeOK
<1>2. /\ wire' \in Seq(Frame) /\ WireLabels'
      /\ srv' \in [SubIds -> {"none", "asked", "answered", "leaving"}] /\ SrvLabels'
      /\ LoopLabels' /\ ChanLabels'
  <2>1. CASE ServerAnswer(s)
    BY <2>1, EmitInv DEF ServerAnswer
  <2>2. CASE ServerUpdate(s)
    BY <2>2, EmitInv DEF ServerUpdate
  <2>3. CASE ServerComplete(s)
    BY <2>3, EmitInv DEF ServerComplete
  <2>4. CASE ServerError(s)
    BY <2>4, EmitInv DEF ServerError
  <2>5. QED
    BY <2>1, <2>2, <2>3, <2>4 DEF ServerStep
<1>3. ClientInv'
  BY <1>1, <1>2 DEF ClientInv, ClientTypeOK, ClientLabels, chanVars, tableVars
<1>4. QED
  BY <1>1, <1>3, CallerInvKept DEF tableVars

\* Steps that touch neither the reply path nor the subscription table.
LEMMA ConnectionStateInv ==
  ASSUME ClientInv,
         UNCHANGED <<conn, loop, wire, srv, updates, chanVars, tableVars>>,
         dialing' \in Holders, ws' \in {"nil", "open", "dead"}, wsCtx' \in {"none", "live", "canceled"},
         owner' \subseteq Callers, faults' \in 0 .. MaxFaults, panicked' \in BOOLEAN
  PROVE  ClientInv'
<1>1. ClientLabels'
  BY LabelsKept DEF ClientInv, ClientLabels, chanVars, tableVars
<1>2. QED
  BY <1>1 DEF ClientInv, ClientTypeOK, chanVars, tableVars

LEMMA FaultsTyped == ASSUME ClientInv, Fault PROVE faults' \in 0 .. MaxFaults
  BY DEF Fault, ClientInv, ClientTypeOK

LEMMA DropCloseInv ==
  ASSUME IInv, Drop \/ Close, UNCHANGED fetchVars
  PROVE  IInv'
<1>1. ClientInv'
  BY ConnectionStateInv, FaultsTyped DEF IInv, ClientInv, ClientTypeOK, Drop, Close
<1>2. UNCHANGED <<counter, req>>
  BY DEF Drop, Close, tableVars
<1>3. QED
  BY <1>1, <1>2, CallerInvKept DEF IInv

LEMMA CancelInv ==
  ASSUME IInv, NEW c \in Callers, Cancel(c)
  PROVE  IInv'
<1> USE DEF Cancel, ContextEnds
<1>1. ClientInv'
  BY ConnectionStateInv, FaultsTyped DEF IInv, ClientInv, ClientTypeOK
<1>2. CallerInv'
  BY DEF IInv, CallerInv, FetchTypeOK, CallerLabels, Positions, Given, RawItems, tableVars
<1>3. QED
  BY <1>1, <1>2 DEF IInv

\* The holder of c.mu lets go of it, and then nobody holds it.
LEMMA HolderLeaves ==
  ASSUME ClientInv, NEW c \in Callers, EndDial(c)
  PROVE  dialing' = {} /\ dialing' \in Holders
  BY DEF EndDial, Holders, ClientInv, ClientTypeOK

LEMMA DialInv ==
  ASSUME ClientInv, NEW c \in Callers, NEW done, Dial(c, done),
         UNCHANGED <<tableVars, chanVars, panicked, updates>>
  PROVE  ClientInv'
<1> USE DEF Dial, tableVars, chanVars
<1>1. conn + 1 \in LoopIds /\ conn + 1 \in 0 .. MaxConns
  BY DEF ClientInv, ClientTypeOK, LoopIds
<1>0. dialing' \in Holders
  BY HolderLeaves
<1> DEFINE r == [NotStarted EXCEPT !.pc = "read", !.on = conn + 1]
<1>2. r \in Loop /\ r.pc = "read" /\ r.msg = Fatal
  BY <1>1, Records DEF NotStarted
<1>3. loop' \in [LoopIds -> Loop] /\ LoopLabels'
  <2> HIDE DEF r
  <2>1. loop' = [loop EXCEPT ![conn + 1] = r]
    BY DEF r
  <2>2. QED
    BY <1>1, <1>2, <2>1, LoopEmpties
<1>4. wire' \in Seq(Frame) /\ WireLabels'
  BY EmptySeq DEF WireLabels
<1>5. SrvLabels' /\ ChanLabels'
  BY LabelsKept DEF ClientInv, SrvLabels
<1>6. QED
  BY <1>0, <1>1, <1>3, <1>4, <1>5 DEF ClientInv, ClientTypeOK, ClientLabels

LEMMA ConnectInv ==
  ASSUME ClientInv, NEW c \in Callers, NEW done,
         \/ BeginDial(c, done) \/ AlreadyConnected \/ Dial(c, done)
         \/ DialFails(c, done) \/ HandshakeFails(c, done),
         UNCHANGED <<tableVars, chanVars, panicked, updates>>
  PROVE  ClientInv'
<1>1. CASE AlreadyConnected
  BY <1>1, ConnectionStateInv DEF AlreadyConnected, connVars, ClientInv, ClientTypeOK
<1>2. CASE Dial(c, done)
  BY <1>2, DialInv
<1>3. CASE DialFails(c, done)
  <2>1. dialing' \in Holders
    BY <1>3, HolderLeaves DEF DialFails, ClientInv, ClientTypeOK
  <2>2. QED
    BY <1>3, <2>1, ConnectionStateInv, FaultsTyped DEF DialFails, ClientInv, ClientTypeOK
<1>4. CASE HandshakeFails(c, done)
  <2>1. dialing' \in Holders
    BY <1>4, HolderLeaves DEF HandshakeFails
  <2>2. QED
    BY <1>4, <2>1, ConnectionStateInv, FaultsTyped DEF HandshakeFails, ClientInv, ClientTypeOK
<1>5. CASE BeginDial(c, done)
  <2>1. dialing' \in Holders
    BY <1>5 DEF BeginDial, MuFree, Holders
  <2>2. QED
    BY <1>5, <2>1, ConnectionStateInv DEF BeginDial, ClientInv, ClientTypeOK
<1>6. QED
  BY <1>1, <1>2, <1>3, <1>4, <1>5

LEMMA RegisterInv ==
  ASSUME ClientInv, NEW body \in Payload, Register(body),
         UNCHANGED <<dialing, ws, wsCtx, owner, conn, loop, wire, faults, chanVars, panicked, updates>>
  PROVE  ClientInv' /\ Growth /\ counter \in SubIds /\ counter < counter' /\ req'[counter] = body
<1> USE DEF Register, chanVars
<1>1. counter \in SubIds /\ counter' = counter + 1 /\ counter \in Nat
  BY DEF ClientInv, ClientTypeOK, SubIds
<1>2. Growth /\ counter \in SubIds /\ counter < counter' /\ req'[counter] = body
  BY <1>1 DEF Growth, Given, ClientInv, ClientTypeOK, SubIds
<1>3. \A s, b : Answers(s, b) => Answers(s, b)'
  BY <1>1, <1>2 DEF Answers, Given, Growth, SubIds
<1>4. WireLabels' /\ LoopLabels' /\ ChanLabels'
  BY <1>3 DEF ClientInv, ClientLabels, WireLabels, LoopLabels, ChanLabels
<1>5. SrvLabels'
  BY <1>1 DEF ClientInv, ClientTypeOK, ClientLabels, SrvLabels, SubIds
<1>6. ClientTypeOK'
  BY <1>1 DEF ClientInv, ClientTypeOK
<1>7. QED
  BY <1>2, <1>4, <1>5, <1>6 DEF ClientInv, ClientLabels

\* A message leaves the channel.
LEMMA ReceivedInv ==
  ASSUME ClientInv, Received, UNCHANGED <<counter, req>>
  PROVE  /\ recvChan' \in Seq(Message) /\ chanClosed' = chanClosed /\ ChanLabels'
         /\ Head(recvChan) \in Message
         /\ Head(recvChan).sub # NoSub => Answers(Head(recvChan).sub, Head(recvChan).body)
         /\ Head(recvChan).sub = NoSub => Head(recvChan).error
<1> USE DEF Received
<1>1. recvChan \in Seq(Message) /\ recvChan # <<>> /\ ChanLabels
  BY DEF ClientInv, ClientTypeOK, ClientLabels
<1>2. Head(recvChan) = recvChan[1] /\ 1 \in 1 .. Len(recvChan)
  BY <1>1
<1>3. ChanLabels'
  BY <1>1, HeadTailProperties DEF ChanLabels, Answers, Given
<1>4. QED
  BY <1>1, <1>2, <1>3, HeadTailProperties DEF ChanLabels

LEMMA UnsubscribeInv ==
  ASSUME ClientInv, Received, NEW s \in SubIds, Unsubscribe(s),
         UNCHANGED <<dialing, ws, wsCtx, owner, conn, loop, wire, faults, panicked, updates>>
  PROVE  ClientInv'
<1> USE DEF Unsubscribe, Forget
<1>1. recvChan' \in Seq(Message) /\ chanClosed' = chanClosed /\ ChanLabels'
  BY ReceivedInv
<1>2. WireLabels' /\ LoopLabels'
  BY LabelsKept DEF ClientInv
<1>3. SrvLabels' /\ srv' \in [SubIds -> {"none", "asked", "answered", "leaving"}]
  BY DEF ClientInv, ClientTypeOK, ClientLabels, SrvLabels
<1>4. QED
  BY <1>1, <1>2, <1>3 DEF ClientInv, ClientTypeOK, ClientLabels

LEMMA ReceiveOnlyInv ==
  ASSUME ClientInv, Received, UNCHANGED <<connVars, tableVars, panicked, updates>>
  PROVE  ClientInv'
<1> USE DEF connVars, tableVars
<1>1. recvChan' \in Seq(Message) /\ chanClosed' = chanClosed /\ ChanLabels'
  BY ReceivedInv
<1>2. WireLabels' /\ LoopLabels' /\ SrvLabels'
  BY LabelsKept DEF ClientInv
<1>3. QED
  BY <1>1, <1>2 DEF ClientInv, ClientTypeOK, ClientLabels

---------------------------------------------------------------------------
(* Steps of a caller                                                       *)

\* Only caller c moves, and not to detailSend.
LEMMA PositionsKept ==
  ASSUME Positions, NEW c \in Callers, pc'[c] # "detailSend", todo'[c] # 0,
         \A d \in Callers \ {c} : pc'[d] = pc[d] /\ todo'[d] = todo[d] /\ got'[d] = got[d]
  PROVE  Positions'
<1> SUFFICES ASSUME NEW d \in Callers
             PROVE  /\ todo'[d] # 0
                    /\ pc'[d] = "detailSend" => todo'[d] <= Len(RawItems(d)')
                                                /\ RawItems(d)'[todo'[d]] # NoId
  BY DEF Positions
<1>1. CASE d = c
  BY <1>1
<1>2. CASE d # c
  <2>1. RawItems(d)' = RawItems(d)
    BY <1>2 DEF RawItems
  <2>2. QED
    BY <1>2, <2>1 DEF Positions
<1>3. QED
  BY <1>1, <1>2

\* Either way a step that may fail ends, the caller's variables are typed.
LEMMA MoveTyped ==
  ASSUME CallerInv, NEW c \in Callers, NEW label \in PCs,
         (Goto(c, label) /\ UNCHANGED out) \/ Fail(c)
  PROVE  /\ out' \in [Callers -> Seq(Event)] /\ pc' \in [Callers -> PCs]
         /\ \A d \in Callers \ {c} : pc'[d] = pc[d]
         /\ pc'[c] \in {label, "error"}
<1>1. CASE Goto(c, label) /\ UNCHANGED out
  BY <1>1 DEF Goto, CallerInv, FetchTypeOK
<1>2. CASE Fail(c)
  <2>1. out' \in [Callers -> Seq(Event)]
    BY <1>2, EmptySeq DEF Fail, CallerInv, FetchTypeOK
  <2>2. QED
    BY <1>2, <2>1 DEF Fail, Goto, CallerInv, FetchTypeOK, PCs
<1>3. QED
  BY <1>1, <1>2

LEMMA StartInv ==
  ASSUME IInv, NEW c \in Callers, Start(c)
  PROVE  IInv'
<1> USE DEF Start, Goto
<1>1. ClientInv'
  BY DEF IInv, ClientInv, ClientTypeOK, ClientLabels, SrvLabels, WireLabels, LoopLabels,
         ChanLabels, Answers, Given, clientVars
<1>2. CallerInv'
  BY DEF IInv, CallerInv, FetchTypeOK, PCs, CallerLabels, Positions, Given, RawItems, clientVars
<1>3. QED
  BY <1>1, <1>2 DEF IInv

\* A caller changes pc, and perhaps drops what it gathered, without entering a
\* state that relies on a label.
LEMMA GotoInv ==
  ASSUME CallerInv, NEW c \in Callers, NEW label \in PCs, Goto(c, label),
         label \notin {"pageWait", "detailSend"},
         UNCHANGED <<counter, req, ctxDone, cursor, pageSub, got, detailSubs, pageNo>>,
         todo' \in [Callers -> Nat \ {0}], \A d \in Callers \ {c} : todo'[d] = todo[d],
         out' \in [Callers -> Seq(Event)], received' \in [Callers -> Nat],
         details' \in [Callers -> [Items -> Payload]], timedOut' \in BOOLEAN
  PROVE  CallerInv'
<1>1. FetchTypeOK'
  BY DEF CallerInv, FetchTypeOK, Goto
<1>2. CallerLabels'
  BY DEF CallerInv, FetchTypeOK, CallerLabels, Goto, Given
<1>3. Positions'
  BY DEF CallerInv, FetchTypeOK, Positions, Goto, RawItems
<1>4. QED
  BY <1>1, <1>2, <1>3 DEF CallerInv

LEMMA TodoTyped ==
  ASSUME CallerInv PROVE todo \in [Callers -> Nat \ {0}]
  BY DEF CallerInv, FetchTypeOK, Positions

LEMMA FailTyped ==
  ASSUME CallerInv, NEW c \in Callers, Fail(c)
  PROVE  Goto(c, "error") /\ out' \in [Callers -> Seq(Event)]
  BY EmptySeq DEF CallerInv, FetchTypeOK, Fail

LEMMA PageConnectInv ==
  ASSUME IInv, NEW c \in Callers, PageConnect(c)
  PROVE  IInv'
<1> USE DEF PageConnect, Connects, ConnectFails
<1>1. ClientInv'
  BY ConnectInv DEF IInv
<1>2. UNCHANGED <<counter, req>>
  BY DEF tableVars
<1>3. CallerInv'
  <2>1. CASE Goto(c, "pageSend") /\ UNCHANGED out
    BY <2>1, <1>2, GotoInv, TodoTyped DEF IInv, CallerInv, FetchTypeOK, PCs
  <2>2. CASE Fail(c)
    BY <2>2, <1>2, FailTyped, GotoInv, TodoTyped DEF IInv, CallerInv, FetchTypeOK, PCs
  <2>3. CASE UNCHANGED <<pc, out>>
    BY <2>3, <1>2, CallerInvKept DEF IInv, fetchVars
  <2>4. QED
    BY <2>1, <2>2, <2>3
<1>4. QED
  BY <1>1, <1>3 DEF IInv

LEMMA PageSendInv ==
  ASSUME IInv, NEW c \in Callers, PageSend(c)
  PROVE  IInv'
<1> USE DEF PageSend
<1>1. cursor[c] \in Payload /\ cursor[c] \in DOMAIN Pages
  BY PagesFacts DEF IInv, CallerInv, FetchTypeOK, Payload
<1>2. /\ ClientInv' /\ Growth /\ counter \in SubIds /\ counter < counter'
      /\ req'[counter] = cursor[c]
  BY <1>1, RegisterInv DEF IInv
<1>3. /\ out' \in [Callers -> Seq(Event)] /\ pc' \in [Callers -> PCs]
      /\ \A d \in Callers \ {c} : pc'[d] = pc[d]
      /\ pc'[c] \in {"pageWait", "error"}
  BY MoveTyped DEF IInv, PCs
<1>4. FetchTypeOK'
  BY <1>2, <1>3 DEF IInv, CallerInv, FetchTypeOK
<1>5. CallerLabels'
  <2>1. CallerLabels /\ counter \in Nat /\ counter' \in Nat
    BY DEF IInv, CallerInv, ClientInv, ClientTypeOK, Register
  <2>2. \A d \in Callers : pc'[d] = "pageWait" =>
            /\ pageSub'[d] \in SubIds /\ pageSub'[d] < counter'
            /\ req'[pageSub'[d]] = cursor'[d]
    <3> SUFFICES ASSUME NEW d \in Callers, pc'[d] = "pageWait"
                 PROVE  /\ pageSub'[d] \in SubIds /\ pageSub'[d] < counter'
                        /\ req'[pageSub'[d]] = cursor'[d]
      OBVIOUS
    <3>1. CASE d = c
      BY <3>1, <1>2 DEF IInv, CallerInv, FetchTypeOK
    <3>2. CASE d # c
      <4>1. pc[d] = "pageWait" /\ pageSub'[d] = pageSub[d] /\ cursor'[d] = cursor[d]
        BY <3>2, <1>3 DEF IInv, CallerInv, FetchTypeOK
      <4>2. pageSub[d] \in SubIds /\ pageSub[d] < counter /\ req[pageSub[d]] = cursor[d]
        BY <4>1, <2>1 DEF CallerLabels, Given
      <4>3. QED
        BY <4>1, <4>2, <1>2, <2>1 DEF Growth, SubIds
    <3>3. QED
      BY <3>1, <3>2
  <2>3. \A d \in Callers, s \in SubIds : detailSubs[d][s] # Null =>
            s < counter' /\ req'[s] = detailSubs[d][s]
    BY <1>2, <2>1 DEF CallerLabels, Growth, SubIds
  <2>4. QED
    BY <2>2, <2>3 DEF CallerLabels, Given
<1>6. Positions'
  <2>1. pc'[c] # "detailSend" /\ todo'[c] # 0 /\ Positions
    <3>1. todo' = todo /\ todo[c] # 0
      BY DEF IInv, CallerInv, Positions
    <3>2. pc'[c] # "detailSend"
      BY <1>3
    <3>3. Positions
      BY DEF IInv, CallerInv
    <3>4. QED
      BY <3>1, <3>2, <3>3
  <2>2. \A d \in Callers \ {c} : pc'[d] = pc[d] /\ todo'[d] = todo[d] /\ got'[d] = got[d]
    BY <1>3
  <2>3. QED
    BY <2>1, <2>2, PositionsKept
<1>7. QED
  BY <1>2, <1>4, <1>5, <1>6 DEF IInv, CallerInv

\* The reply taken for a page is the page the cursor asked for, or nil.
LEMMA PageReply ==
  ASSUME IInv, NEW c \in Callers, pc[c] = "pageWait", Received,
         UNCHANGED <<counter, req>>, IsPageReply(c, Head(recvChan))
  PROVE  /\ Head(recvChan).body \in {cursor[c], Null}
         /\ pageSub[c] \in SubIds
  BY ReceivedInv DEF IInv, CallerInv, FetchTypeOK, CallerLabels, IsPageReply, Answers, Given

LEMMA RecvPageInv ==
  ASSUME IInv, NEW c \in Callers, RecvPage(c)
  PROVE  IInv'
<1> USE DEF RecvPage
<1>1. UNCHANGED <<counter, req>>
  BY DEF Unsubscribe
<1>2. Head(recvChan).body \in DOMAIN Pages \cup {Null} /\ pageSub[c] \in SubIds
  BY <1>1, PageReply DEF IInv, CallerInv, FetchTypeOK
<1>3. ClientInv'
  BY <1>2, UnsubscribeInv DEF IInv
<1>4. /\ out' \in [Callers -> Seq(Event)] /\ pc' \in [Callers -> PCs]
      /\ \A d \in Callers \ {c} : pc'[d] = pc[d]
      /\ pc'[c] \in {"detailConnect", "error"}
  BY MoveTyped DEF IInv, PCs
<1>5. FetchTypeOK'
  BY <1>2, <1>4 DEF IInv, CallerInv, FetchTypeOK
<1>6. CallerLabels'
  BY <1>1, <1>4 DEF IInv, CallerInv, FetchTypeOK, CallerLabels, Given
<1>7. Positions'
  <2>1. pc'[c] # "detailSend" /\ todo'[c] # 0 /\ Positions
    <3>1. todo'[c] = 1
      BY DEF IInv, CallerInv, FetchTypeOK
    <3>2. pc'[c] # "detailSend"
      BY <1>4
    <3>3. Positions
      BY DEF IInv, CallerInv
    <3>4. QED
      BY <3>1, <3>2, <3>3
  <2>2. \A d \in Callers \ {c} : pc'[d] = pc[d] /\ todo'[d] = todo[d] /\ got'[d] = got[d]
    BY <1>4 DEF IInv, CallerInv, FetchTypeOK
  <2>3. QED
    BY <2>1, <2>2, PositionsKept
<1>8. QED
  BY <1>3, <1>5, <1>6, <1>7 DEF IInv, CallerInv

LEMMA RecvOtherInv ==
  ASSUME IInv, NEW c \in Callers, RecvOther(c) \/ RecvForeign(c)
  PROVE  IInv'
<1> USE DEF RecvOther, RecvForeign
<1>1. ClientInv'
  BY ReceiveOnlyInv DEF IInv
<1>2. CallerInv'
  BY CallerInvKept DEF IInv, tableVars
<1>3. QED
  BY <1>1, <1>2 DEF IInv

LEMMA PageFailsInv ==
  ASSUME IInv, NEW c \in Callers, RecvPageError(c) \/ PageBroken(c) \/ PageTimeout(c)
  PROVE  IInv'
<1> USE DEF RecvPageError, PageBroken, PageTimeout
<1>1. ClientInv' /\ UNCHANGED <<counter, req>>
  <2>1. CASE RecvPageError(c)
    BY <2>1, ReceiveOnlyInv DEF IInv, tableVars
  <2>2. CASE UNCHANGED clientVars
    BY <2>2 DEF IInv, ClientInv, ClientTypeOK, ClientLabels, SrvLabels, WireLabels, LoopLabels,
                ChanLabels, Answers, Given, clientVars
  <2>3. QED
    BY <2>1, <2>2
<1>2. CallerInv'
  BY <1>1, FailTyped, GotoInv, TodoTyped DEF IInv, CallerInv, FetchTypeOK, PCs
<1>3. QED
  BY <1>1, <1>2 DEF IInv

\* The next item to subscribe, and one index further.
LEMMA TodoFacts ==
  ASSUME IInv, NEW c \in Callers, todo[c] <= Len(RawItems(c))
  PROVE  /\ RawItems(c)[todo[c]] \in AllItems
         /\ [todo EXCEPT ![c] = @ + 1] \in [Callers -> Nat \ {0}]
         /\ \A d \in Callers \ {c} : [todo EXCEPT ![c] = @ + 1][d] = todo[d]
<1>1. todo \in [Callers -> Nat \ {0}] /\ got[c] \in DOMAIN Pages \cup {Null}
  BY TodoTyped DEF IInv, CallerInv, FetchTypeOK
<1>2. RawItems(c) \in Seq(AllItems)
  BY <1>1, PagesFacts, EmptySeq DEF RawItems
<1>3. todo[c] \in 1 .. Len(RawItems(c))
  BY <1>1, <1>2
<1>4. RawItems(c)[todo[c]] \in AllItems
  BY <1>2, <1>3, ElementOfSeq
<1>5. QED
  BY <1>1, <1>4

LEMMA SkipItemInv ==
  ASSUME IInv, NEW c \in Callers, SkipItem(c)
  PROVE  IInv'
<1> USE DEF SkipItem, NextItem
<1>1. ClientInv'
  BY DEF IInv, ClientInv, ClientTypeOK, ClientLabels, SrvLabels, WireLabels, LoopLabels,
         ChanLabels, Answers, Given, clientVars
<1>2. todo' \in [Callers -> Nat \ {0}] /\ \A d \in Callers \ {c} : todo'[d] = todo[d]
  BY TodoFacts
<1>3. FetchTypeOK' /\ CallerLabels'
  BY <1>2 DEF IInv, CallerInv, FetchTypeOK, CallerLabels, Given, clientVars
<1>4. Positions'
  <2>1. pc'[c] # "detailSend" /\ todo'[c] # 0 /\ Positions
    BY <1>2 DEF IInv, CallerInv
  <2>2. QED
    BY <1>2, <2>1, PositionsKept
<1>5. QED
  BY <1>1, <1>3, <1>4 DEF IInv, CallerInv

LEMMA DetailConnectInv ==
  ASSUME IInv, NEW c \in Callers, DetailConnect(c)
  PROVE  IInv'
<1> USE DEF DetailConnect, Connects, ConnectFails
<1>1. ClientInv' /\ UNCHANGED <<counter, req>>
  BY ConnectInv DEF IInv, tableVars
<1>2. CASE Goto(c, "detailSend") /\ UNCHANGED todo
  <2>1. FetchTypeOK' /\ CallerLabels'
    BY <1>1, <1>2 DEF IInv, CallerInv, FetchTypeOK, PCs, Goto, CallerLabels, Given
  <2>2. ASSUME NEW d \in Callers
        PROVE  /\ todo'[d] # 0
               /\ pc'[d] = "detailSend" => todo'[d] <= Len(RawItems(d)')
                                           /\ RawItems(d)'[todo'[d]] # NoId
    <3>1. RawItems(d)' = RawItems(d)
      BY DEF RawItems
    <3>2. todo'[d] # 0
      BY <1>2 DEF IInv, CallerInv, Positions
    <3>3. CASE d = c
      BY <1>2, <3>1, <3>2, <3>3
    <3>4. CASE d # c
      <4>1. pc'[d] = pc[d]
        BY <1>2, <3>4 DEF Goto, IInv, CallerInv, FetchTypeOK
      <4>2. QED
        BY <1>2, <3>1, <3>2, <4>1 DEF IInv, CallerInv, Positions
    <3>5. QED
      BY <3>3, <3>4
  <2>3. QED
    BY <1>1, <2>1, <2>2 DEF IInv, CallerInv, Positions
<1>3. CASE NextItem(c) /\ UNCHANGED pc
  <2>1. todo' \in [Callers -> Nat \ {0}] /\ \A d \in Callers \ {c} : todo'[d] = todo[d]
    BY <1>3, TodoFacts DEF NextItem
  <2>2. FetchTypeOK' /\ CallerLabels'
    BY <1>1, <1>3, <2>1 DEF IInv, CallerInv, FetchTypeOK, CallerLabels, Given
  <2>3. Positions'
    <3>1. pc'[c] # "detailSend" /\ todo'[c] # 0 /\ Positions
      BY <1>3, <2>1 DEF IInv, CallerInv
    <3>2. QED
      BY <1>3, <2>1, <3>1, PositionsKept
  <2>4. QED
    BY <1>1, <2>2, <2>3 DEF IInv, CallerInv
<1>4. CASE UNCHANGED <<pc, todo>>
  <2>1. CallerInv'
    BY <1>1, <1>4, CallerInvKept DEF IInv, fetchVars
  <2>2. QED
    BY <1>1, <2>1 DEF IInv
<1>5. QED
  BY <1>2, <1>3, <1>4

LEMMA DetailSendInv ==
  ASSUME IInv, NEW c \in Callers, DetailSend(c)
  PROVE  IInv'
<1> USE DEF DetailSend, RememberDetail
<1> DEFINE item == RawItems(c)[todo[c]]
<1>1. item \in Items /\ todo[c] <= Len(RawItems(c))
  BY TodoFacts DEF IInv, CallerInv, Positions, AllItems
<1>2. item \in Payload
  BY <1>1, PagesFacts DEF Payload
<1>3. /\ ClientInv' /\ Growth /\ counter \in SubIds /\ counter < counter'
      /\ req'[counter] = item
  <2> HIDE DEF item
  <2>1. Register(item)
    BY DEF item
  <2>2. QED
    BY <1>2, <2>1, RegisterInv DEF IInv
<1>4. /\ todo' \in [Callers -> Nat \ {0}]
      /\ \A d \in Callers \ {c} : todo'[d] = todo[d]
  BY <1>1, TodoFacts DEF NextItem
<1>5. /\ pc' \in [Callers -> PCs] /\ pc'[c] = "detailConnect"
      /\ \A d \in Callers \ {c} : pc'[d] = pc[d]
  BY DEF IInv, CallerInv, FetchTypeOK, PCs, Goto
<1>6. /\ detailSubs' \in [Callers -> [SubIds -> Items \cup {Null}]]
      /\ \A d \in Callers, s \in SubIds :
            detailSubs'[d][s] # Null => \/ detailSubs'[d][s] = detailSubs[d][s]
                                        \/ s = counter /\ detailSubs'[d][s] = item
  <2> HIDE DEF item
  <2>1. CASE detailSubs' = [detailSubs EXCEPT ![c][counter] = item]
    BY <1>1, <1>3, <2>1 DEF IInv, CallerInv, FetchTypeOK
  <2>2. CASE UNCHANGED detailSubs
    BY <2>2 DEF IInv, CallerInv, FetchTypeOK
  <2>3. QED
    BY <2>1, <2>2 DEF item
<1>7. FetchTypeOK'
  BY <1>4, <1>5, <1>6 DEF IInv, CallerInv, FetchTypeOK
<1>8. CallerLabels'
  <2> HIDE DEF item
  <2>1. CallerLabels /\ counter \in Nat /\ counter' \in Nat
    BY DEF IInv, CallerInv, ClientInv, ClientTypeOK, Register
  <2>2. ASSUME NEW d \in Callers, pc'[d] = "pageWait"
        PROVE  pageSub[d] \in SubIds /\ pageSub[d] < counter' /\ req'[pageSub[d]] = cursor[d]
    <3>1. pc[d] = "pageWait"
      BY <1>5, <2>2
    <3>2. pageSub[d] \in SubIds /\ pageSub[d] < counter /\ req[pageSub[d]] = cursor[d]
      BY <2>1, <3>1 DEF CallerLabels, Given
    <3>3. QED
      BY <1>3, <2>1, <3>2 DEF Growth, SubIds
  <2>3. ASSUME NEW d \in Callers, NEW s \in SubIds, detailSubs'[d][s] # Null
        PROVE  s < counter' /\ req'[s] = detailSubs'[d][s]
    <3>1. CASE s = counter /\ detailSubs'[d][s] = item
      BY <1>3, <3>1
    <3>2. CASE detailSubs'[d][s] = detailSubs[d][s]
      BY <1>3, <2>1, <2>3, <3>2 DEF CallerLabels, Growth, SubIds
    <3>3. QED
      BY <1>6, <2>3, <3>1, <3>2
  <2>4. QED
    BY <2>2, <2>3 DEF CallerLabels, Given
<1>9. Positions'
  <2>1. pc'[c] # "detailSend" /\ todo'[c] # 0 /\ Positions
    BY <1>4, <1>5 DEF IInv, CallerInv
  <2>2. QED
    BY <1>4, <1>5, <2>1, PositionsKept
<1>10. QED
  BY <1>3, <1>7, <1>8, <1>9 DEF IInv, CallerInv

LEMMA ClientUnchanged ==
  ASSUME ClientInv, UNCHANGED clientVars
  PROVE  ClientInv' /\ UNCHANGED <<counter, req>>
  BY DEF ClientInv, ClientTypeOK, ClientLabels, SrvLabels, WireLabels, LoopLabels, ChanLabels,
         Answers, Given, clientVars

LEMMA DetailLoopInv ==
  ASSUME IInv, NEW c \in Callers, StartDetailLoop(c) \/ DetailBroken(c) \/ DetailTimeout(c)
  PROVE  IInv'
<1> USE DEF StartDetailLoop, DetailBroken, DetailTimeout
<1>1. ClientInv' /\ UNCHANGED <<counter, req>>
  BY ClientUnchanged DEF IInv
<1>2. \E label \in {"assemble", "detailWait"} : Goto(c, label)
  BY DEF Goto
<1>3. CallerInv'
  BY <1>1, <1>2, GotoInv, TodoTyped DEF IInv, CallerInv, FetchTypeOK, PCs
<1>4. QED
  BY <1>1, <1>3 DEF IInv

\* The message taken for a detail is the detail asked for, or nil.
LEMMA DetailReply ==
  ASSUME IInv, NEW c \in Callers, Received, UNCHANGED <<counter, req>>,
         IsDetailReply(c, Head(recvChan))
  PROVE  LET m == Head(recvChan) IN
         /\ m.sub \in SubIds /\ m.body \in {detailSubs[c][m.sub], Null}
         /\ detailSubs[c][m.sub] \in Items /\ m.body \in Payload
<1> DEFINE m == Head(recvChan)
<1>1. m.sub \in SubIds /\ detailSubs[c][m.sub] # Null
  BY DEF IsDetailReply
<1>2. detailSubs[c][m.sub] \in Items /\ req[m.sub] = detailSubs[c][m.sub]
  BY <1>1 DEF IInv, CallerInv, FetchTypeOK, CallerLabels
<1>3. m \in Message /\ (m.sub # NoSub => Answers(m.sub, m.body))
  BY ReceivedInv DEF IInv
<1>4. m.sub # NoSub
  BY <1>1 DEF SubIds, NoSub
<1>5. QED
  BY <1>1, <1>2, <1>3, <1>4 DEF Answers, Message

LEMMA RecvDetailInv ==
  ASSUME IInv, NEW c \in Callers, RecvDetail(c)
  PROVE  IInv'
<1> USE DEF RecvDetail
<1> DEFINE m == Head(recvChan)
<1>1. UNCHANGED <<counter, req>>
  BY DEF Unsubscribe
<1>2. m.sub \in SubIds /\ detailSubs[c][m.sub] \in Items /\ m.body \in Payload
  BY <1>1, DetailReply
<1>3. ClientInv'
  BY <1>2, UnsubscribeInv DEF IInv
<1>4. details' \in [Callers -> [Items -> Payload]] /\ received' \in [Callers -> Nat]
  BY <1>2 DEF IInv, CallerInv, FetchTypeOK, StoreDetail, Count
<1>5. AfterCount(c) \in {"detailWait", "assemble"}
  BY DEF AfterCount
<1>6. CallerInv'
  <2>1. CASE Goto(c, AfterCount(c)) /\ UNCHANGED out
    BY <2>1, <1>1, <1>4, <1>5, GotoInv, TodoTyped DEF IInv, CallerInv, FetchTypeOK, PCs
  <2>2. CASE Fail(c)
    BY <2>2, <1>1, <1>4, FailTyped, GotoInv, TodoTyped DEF IInv, CallerInv, FetchTypeOK, PCs
  <2>3. QED
    BY <2>1, <2>2
<1>7. QED
  BY <1>3, <1>6 DEF IInv

LEMMA RecvDetailErrorInv ==
  ASSUME IInv, NEW c \in Callers, RecvDetailError(c)
  PROVE  IInv'
<1> USE DEF RecvDetailError
<1>1. ClientInv' /\ UNCHANGED <<counter, req>>
  BY ReceiveOnlyInv DEF IInv, tableVars
<1>2. received' \in [Callers -> Nat] /\ AfterCount(c) \in {"detailWait", "assemble"}
  BY DEF IInv, CallerInv, FetchTypeOK, Count, AfterCount
<1>3. CallerInv'
  BY <1>1, <1>2, GotoInv, TodoTyped DEF IInv, CallerInv, FetchTypeOK, PCs
<1>4. QED
  BY <1>1, <1>3 DEF IInv

\* assembleCombinedMaps makes events of the page's items.
LEMMA AssembledTyped ==
  ASSUME CallerInv, NEW c \in Callers
  PROVE  Assembled(c) \in Seq(Event)
<1>1. got[c] \in DOMAIN Pages \cup {Null}
  BY DEF CallerInv, FetchTypeOK
<1>2. RawItems(c) \in Seq(AllItems)
  BY <1>1, PagesFacts, EmptySeq DEF RawItems
<1>3. \A k \in DOMAIN RawItems(c) : RawItems(c)[k] \in AllItems
  BY <1>2
<1>4. \A item \in AllItems : DetailOf(c, item) \in Payload
  BY DEF DetailOf, AllItems, CallerInv, FetchTypeOK, Payload
<1>5. \A k \in 1 .. Len(RawItems(c)) :
          [item |-> RawItems(c)[k], detail |-> DetailOf(c, RawItems(c)[k])] \in Event
  BY <1>2, <1>3, <1>4 DEF Event
<1>6. DOMAIN RawItems(c) = 1 .. Len(RawItems(c)) /\ Len(RawItems(c)) \in Nat
  BY <1>2
<1>7. QED
  BY <1>5, <1>6, IsASeq DEF Assembled

LEMMA FinishPageInv ==
  ASSUME IInv, NEW c \in Callers, FinishPage(c)
  PROVE  IInv'
<1> USE DEF FinishPage
<1>1. ClientInv' /\ UNCHANGED <<counter, req>>
  BY ClientUnchanged DEF IInv
<1>2. out' \in [Callers -> Seq(Event)]
  <2> DEFINE longer == out[c] \o Assembled(c)
  <2>1. longer \in Seq(Event)
    <3>1. out[c] \in Seq(Event) /\ Assembled(c) \in Seq(Event)
      BY AssembledTyped DEF IInv, CallerInv, FetchTypeOK
    <3>2. QED
      BY <3>1, ConcatProperties
  <2>2. out' = [out EXCEPT ![c] = longer]
    OBVIOUS
  <2> HIDE DEF longer
  <2>3. QED
    BY <2>1, <2>2 DEF IInv, CallerInv, FetchTypeOK
<1>3. cursor' \in [Callers -> DOMAIN Pages] /\ \A d \in Callers \ {c} : cursor'[d] = cursor[d]
  <2>1. ~LastPage(c) => NextCursor(c) \in DOMAIN Pages
    BY PagesFacts DEF LastPage, NextCursor, IInv, CallerInv, FetchTypeOK
  <2>2. cursor \in [Callers -> DOMAIN Pages]
    BY DEF IInv, CallerInv, FetchTypeOK
  <2>3. CASE LastPage(c) /\ UNCHANGED cursor
    BY <2>2, <2>3
  <2>4. CASE ~LastPage(c) /\ cursor' = [cursor EXCEPT ![c] = NextCursor(c)]
    <3> DEFINE next == NextCursor(c)
    <3>1. next \in DOMAIN Pages
      BY <2>1, <2>4
    <3>2. cursor' = [cursor EXCEPT ![c] = next]
      BY <2>4
    <3> HIDE DEF next
    <3>3. QED
      BY <2>2, <3>1, <3>2
  <2>5. QED
    BY <2>3, <2>4
<1>4. /\ pc' \in [Callers -> PCs] /\ pc'[c] \in {"ok", "pageConnect"}
      /\ \A d \in Callers \ {c} : pc'[d] = pc[d]
  BY DEF IInv, CallerInv, FetchTypeOK, Goto, PCs
<1>5. /\ detailSubs' \in [Callers -> [SubIds -> Items \cup {Null}]]
      /\ detailSubs'[c] = NoSubs
      /\ \A d \in Callers \ {c} : detailSubs'[d] = detailSubs[d]
  BY DEF IInv, CallerInv, FetchTypeOK, NoSubs
<1>6. /\ got' \in [Callers -> DOMAIN Pages \cup {Null}]
      /\ todo' \in [Callers -> Nat] /\ todo'[c] = 1
      /\ received' \in [Callers -> Nat] /\ pageNo' \in [Callers -> Nat]
      /\ details' \in [Callers -> [Items -> Payload]]
      /\ \A d \in Callers \ {c} : todo'[d] = todo[d] /\ got'[d] = got[d]
  BY DEF IInv, CallerInv, FetchTypeOK, NoDetails, Payload
<1>7. FetchTypeOK'
  BY <1>2, <1>3, <1>4, <1>5, <1>6 DEF IInv, CallerInv, FetchTypeOK
<1>8. CallerLabels'
  <2>1. ASSUME NEW d \in Callers, pc'[d] = "pageWait"
        PROVE  Given(pageSub[d]) /\ req[pageSub[d]] = cursor'[d]
    BY <1>3, <1>4, <2>1 DEF IInv, CallerInv, CallerLabels
  <2>2. ASSUME NEW d \in Callers, NEW s \in SubIds, detailSubs'[d][s] # Null
        PROVE  s < counter /\ req[s] = detailSubs'[d][s]
    BY <1>5, <2>2 DEF IInv, CallerInv, CallerLabels, NoSubs
  <2>3. QED
    BY <1>1, <2>1, <2>2 DEF CallerLabels, Given
<1>9. Positions'
  <2>1. pc'[c] # "detailSend" /\ todo'[c] # 0 /\ Positions
    BY <1>4, <1>6 DEF IInv, CallerInv
  <2>2. QED
    BY <1>4, <1>6, <2>1, PositionsKept
<1>10. QED
  BY <1>1, <1>7, <1>8, <1>9 DEF IInv, CallerInv

LEMMA CallerPanicInv ==
  ASSUME IInv, NEW c \in Callers, CallerPanic(c)
  PROVE  IInv'
<1>1. ClientInv'
  BY ConnectionStateInv DEF CallerPanic, Crash, connVars, IInv, ClientInv, ClientTypeOK
<1>2. CallerInv'
  BY CallerInvKept DEF CallerPanic, IInv, tableVars
<1>3. QED
  BY <1>1, <1>2 DEF IInv

---------------------------------------------------------------------------
(* Theorems                                                                *)

LEMMA NextIInv == IInv /\ [Next]_vars => IInv'
<1> SUFFICES ASSUME IInv, [Next]_vars PROVE IInv'
  OBVIOUS
<1>1. ASSUME NEW c \in Callers, Start(c) \/ CallerStep(c) \/ Cancel(c) PROVE IInv'
  <2>1. CASE Start(c) \/ Cancel(c)
    BY <2>1, StartInv, CancelInv
  <2>2. CASE PageStep(c)
    BY <2>2, PageConnectInv, PageSendInv, RecvPageInv, RecvOtherInv, PageFailsInv DEF PageStep
  <2>3. CASE DetailStep(c)
    BY <2>3, SkipItemInv, DetailConnectInv, DetailSendInv, DetailLoopInv, RecvDetailInv,
       RecvDetailErrorInv, RecvOtherInv DEF DetailStep
  <2>4. CASE FinishPage(c) \/ CallerPanic(c)
    BY <2>4, FinishPageInv, CallerPanicInv
  <2>5. QED
    BY <1>1, <2>1, <2>2, <2>3, <2>4 DEF CallerStep
<1>2. ASSUME NEW l \in LoopIds, LoopStep(l) /\ UNCHANGED fetchVars PROVE IInv'
  BY <1>2, LoopStepInv
<1>3. ASSUME NEW s \in SubIds, ServerStep(s) /\ UNCHANGED fetchVars PROVE IInv'
  BY <1>3, ServerStepInv
<1>4. CASE (Drop \/ Close) /\ UNCHANGED fetchVars
  BY <1>4, DropCloseInv
<1>5. CASE UNCHANGED vars
  BY <1>5, ClientUnchanged, CallerInvKept DEF vars, IInv
<1>6. QED
  BY <1>1, <1>2, <1>3, <1>4, <1>5 DEF Next

\* Every reply on its way to a caller answers the request its id was given out
\* for, at every point of its path, under any interleaving.
THEOREM LabelsInvariant == Spec => []IInv
BY InitIInv, NextIInv, PTL DEF Spec

\* The types hold; in particular what fetchTimelinePage takes for a page is one.
THEOREM TypeCorrect == Spec => []TypeOK
<1>1. IInv => TypeOK
  BY DEF IInv, ClientInv, CallerInv, TypeOK
<1>2. QED
  BY <1>1, LabelsInvariant, PTL

\* A step does not file a detail under another item.
LEMMA NextAttributed ==
  IInv /\ DetailsAttributed /\ [Next]_vars => DetailsAttributed'
<1> SUFFICES ASSUME IInv, DetailsAttributed, [Next]_vars
             PROVE  DetailsAttributed'
  OBVIOUS
<1> DEFINE DetailsOK(d) == \A i \in Items : d[i] \in {i, Null}
<1> DEFINE OutOK(o) == \A k \in DOMAIN o : o[k].detail \in {o[k].item, Null}
<1> SUFFICES ASSUME NEW d \in Callers
             PROVE  DetailsOK(details'[d]) /\ OutOK(out'[d])
  BY DEF DetailsAttributed
<1>1. DetailsOK(details[d]) /\ OutOK(out[d])
  BY DEF DetailsAttributed
<1>2. OutOK(<<>>)
  OBVIOUS
<1>3. CASE UNCHANGED <<details, out>>
  BY <1>1, <1>3
<1>4. ASSUME NEW c \in Callers, Fail(c), UNCHANGED details
      PROVE  DetailsOK(details'[d]) /\ OutOK(out'[d])
  BY <1>1, <1>2, <1>4 DEF Fail, IInv, CallerInv, FetchTypeOK
<1>5. ASSUME NEW c \in Callers, RecvDetail(c)
      PROVE  DetailsOK(details'[d]) /\ OutOK(out'[d])
  <2> DEFINE m == Head(recvChan)
  <2>1. /\ m.sub \in SubIds /\ m.body \in {detailSubs[c][m.sub], Null}
        /\ detailSubs[c][m.sub] \in Items
    BY <1>5, DetailReply DEF RecvDetail, Unsubscribe
  <2>2. details' = [details EXCEPT ![c][detailSubs[c][m.sub]] = m.body]
    BY <1>5 DEF RecvDetail, StoreDetail
  <2>3. DetailsOK(details'[d])
    <3> HIDE DEF m
    <3> QED
      BY <1>1, <2>1, <2>2 DEF IInv, CallerInv, FetchTypeOK
  <2>4. OutOK(out'[d])
    BY <1>1, <1>2, <1>5 DEF RecvDetail, Fail, IInv, CallerInv, FetchTypeOK
  <2>5. QED
    BY <2>3, <2>4
<1>6. ASSUME NEW c \in Callers, FinishPage(c)
      PROVE  DetailsOK(details'[d]) /\ OutOK(out'[d])
  <2>1. DetailsOK(details'[d])
    BY <1>1, <1>6 DEF FinishPage, NoDetails, IInv, CallerInv, FetchTypeOK
  <2>2. \A i \in Items : details[c][i] \in {i, Null}
    BY DEF DetailsAttributed
  <2>3. Assembled(c) \in Seq(Event) /\ out[c] \in Seq(Event)
    BY AssembledTyped DEF IInv, CallerInv, FetchTypeOK
  <2>4. OutOK(Assembled(c))
    <3>1. got[c] \in DOMAIN Pages \cup {Null}
      BY DEF IInv, CallerInv, FetchTypeOK
    <3>2. RawItems(c) \in Seq(AllItems)
      BY <3>1, PagesFacts, EmptySeq DEF RawItems
    <3>3. \A k \in DOMAIN RawItems(c) : RawItems(c)[k] \in Items \cup {NoId}
      BY <3>2 DEF AllItems
    <3>4. QED
      BY <2>2, <3>3 DEF Assembled, DetailOf
  <2>5. OutOK(out[c])
    BY DEF DetailsAttributed
  <2>6. OutOK(out[c] \o Assembled(c))
    BY <2>3, <2>4, <2>5, ConcatProperties
  <2>7. out'[d] = IF d = c THEN out[c] \o Assembled(c) ELSE out[d]
    BY <1>6 DEF FinishPage, IInv, CallerInv, FetchTypeOK
  <2>0. QED
    <3> HIDE DEF OutOK, DetailsOK
    <3> QED
      BY <1>1, <2>1, <2>6, <2>7
<1>7. ASSUME NEW c \in Callers, Start(c) \/ CallerStep(c) \/ Cancel(c)
      PROVE  DetailsOK(details'[d]) /\ OutOK(out'[d])
  <2> HIDE DEF OutOK, DetailsOK
  <2>1. CASE Start(c) \/ Cancel(c) \/ CallerPanic(c)
    BY <2>1, <1>3 DEF Start, Cancel, CallerPanic, fetchVars
  <2>2. CASE PageStep(c)
    BY <2>2, <1>3, <1>4 DEF PageStep, PageConnect, PageSend, RecvPage, RecvOther, RecvPageError,
       PageBroken, PageTimeout, fetchVars
  <2>3. CASE DetailStep(c)
    BY <2>3, <1>3, <1>5 DEF DetailStep, SkipItem, DetailConnect, DetailSend, StartDetailLoop,
       RecvDetailError, RecvForeign, DetailBroken, DetailTimeout, fetchVars
  <2>4. QED
    BY <1>6, <1>7, <2>1, <2>2, <2>3 DEF CallerStep
<1>8. QED
  <2> HIDE DEF OutOK, DetailsOK
  <2> QED
    BY <1>3, <1>7 DEF Next, vars, fetchVars

\* For every number of callers that share a client, every timeline, every
\* capacity of recvChan and every fault: no event gets the detail of another.
THEOREM Attribution == Spec => []DetailsAttributed
<1>1. Init => DetailsAttributed
  BY DEF Init, NoDetails, DetailsAttributed
<1>2. QED
  BY <1>1, NextAttributed, LabelsInvariant, PTL DEF Spec

---------------------------------------------------------------------------
(* No panic                                                                *)

\* The client is one caller's, who does not call Close while it fetches.
SoleCaller == ~AllowClose /\ \E c \in Callers : Callers = {c}

\* The client dials once: nothing ended the connection of a caller whose
\* context is still live.  With two callers a canceled dialler leaves the other
\* to dial again, and then two receive loops share recvChan.
OneConnection == faults = 0 \/ SoleCaller

\* Faults and updates are counted, never taken back.
LEMMA MishapsGrow ==
  ASSUME IInv, [Next]_vars
  PROVE  faults <= faults' /\ updates <= updates'
<1>1. faults \in Nat /\ updates \in Nat
  BY DEF IInv, ClientInv, ClientTypeOK
<1>2. Fault => faults <= faults'
  BY <1>1 DEF Fault
<1>3. Update => updates <= updates'
  BY <1>1 DEF Update
<1>4. ASSUME NEW c \in Callers, Start(c) \/ CallerStep(c) \/ Cancel(c)
      PROVE  faults <= faults' /\ updates <= updates'
  <2>1. CASE PageConnect(c) \/ DetailConnect(c)
    BY <1>1, <1>2, <2>1 DEF PageConnect, DetailConnect, Connects, ConnectFails, BeginDial,
       AlreadyConnected, Dial, DialFails, HandshakeFails, connVars
  <2>2. CASE Cancel(c)
    BY <1>1, <1>2, <2>2 DEF Cancel, ContextEnds
  <2>3. CASE Start(c) \/ (PageStep(c) /\ ~PageConnect(c))
    BY <1>1, <2>3 DEF Start, PageStep, PageSend, RecvPage, RecvOther, RecvPageError, PageBroken,
       PageTimeout, clientVars, connVars
  <2>4. CASE DetailStep(c) /\ ~DetailConnect(c)
    BY <1>1, <2>4 DEF DetailStep, SkipItem, DetailSend, StartDetailLoop, RecvDetail,
       RecvDetailError, RecvForeign, DetailBroken, DetailTimeout, clientVars, connVars
  <2>5. CASE FinishPage(c) \/ CallerPanic(c)
    BY <1>1, <2>5 DEF FinishPage, CallerPanic, clientVars, connVars
  <2>6. QED
    BY <1>4, <2>1, <2>2, <2>3, <2>4, <2>5 DEF CallerStep, PageStep, DetailStep
<1>5. ASSUME NEW l \in LoopIds, LoopStep(l)
      PROVE  faults <= faults' /\ updates <= updates'
  BY <1>1, <1>5 DEF LoopStep, ReadFrame, ReadError, ParseFrame, SendMsg, SendFatal, ExitLoop,
     LoopPanic, connVars
<1>6. ASSUME NEW s \in SubIds, ServerStep(s)
      PROVE  faults <= faults' /\ updates <= updates'
  BY <1>1, <1>2, <1>3, <1>6 DEF ServerStep, ServerAnswer, ServerUpdate, ServerComplete, ServerError
<1>7. CASE Drop \/ Close
  BY <1>1, <1>2, <1>7 DEF Drop, Close
<1>8. CASE UNCHANGED vars
  BY <1>1, <1>8 DEF vars, clientVars
<1>9. QED
  BY <1>4, <1>5, <1>6, <1>7, <1>8 DEF Next

LEMMA OneConnectionBefore ==
  ASSUME IInv, [Next]_vars, OneConnection'
  PROVE  OneConnection
<1>1. faults \in Nat /\ faults' \in Nat
  BY NextIInv DEF IInv, ClientInv, ClientTypeOK
<1>2. faults' = 0 => faults = 0
  BY <1>1, MishapsGrow
<1>3. QED
  BY <1>2 DEF OneConnection

\* A fault is possible only for a sole caller.
LEMMA FaultOfSole ==
  ASSUME IInv, OneConnection', Fault
  PROVE  SoleCaller
  BY DEF OneConnection, Fault, IInv, ClientInv, ClientTypeOK

\* A connection, once there, is kept, unless every caller's context is done.
ConnStates ==
    /\ conn = 0 => ws = "nil" /\ wsCtx # "live" /\ ~chanClosed
    /\ conn # 0 => conn = 1 /\ ws # "nil"
    /\ conn # 0 /\ wsCtx # "live" => Callers \subseteq ctxDone
    /\ dialing # {} => conn = 0

\* There is one receive loop, on that connection, and it alone closes recvChan.
LoopStates ==
    \A l \in LoopIds :
        /\ l > conn => loop[l].pc = "none"
        /\ loop[l].pc \notin {"none", "gone"} => loop[l].on = 1 /\ ~chanClosed
        /\ loop[l].pc # "none" => l = 1

\* A caller that is past connectWS has a connection.
CallerStates ==
    \A c \in Callers :
        pc[c] \in {"pageSend", "pageWait", "detailConnect", "detailSend", "detailWait"} => conn # 0

SafeInv == ConnStates /\ LoopStates /\ CallerStates /\ NoPanic

LEMMA InitSafe == Init => SafeInv
BY DEF Init, ClientInit, SafeInv, ConnStates, LoopStates, CallerStates, NoPanic, NotStarted, LoopIds

\* A receive loop moves: what it may become.
LEMMA SafeLoopMoves ==
  ASSUME IInv, SafeInv, NEW l \in LoopIds, NEW r, loop' = [loop EXCEPT ![l] = r],
         loop[l].pc # "none", conn' = conn,
         r.pc \notin {"none", "gone"} => r.on = 1 /\ ~chanClosed',
         \/ chanClosed' = chanClosed
         \/ r.pc = "gone"
  PROVE  LoopStates'
<1>1. loop \in [LoopIds -> Loop] /\ LoopStates
  BY DEF IInv, ClientInv, ClientTypeOK, SafeInv
<1>2. l = 1 /\ ~(l > conn)
  BY <1>1 DEF LoopStates
<1>3. \A k \in LoopIds : k # l => loop[k].pc = "none" /\ loop'[k] = loop[k]
  BY <1>1, <1>2 DEF LoopStates
<1>4. loop'[l] = r
  BY <1>1
<1>5. QED
  BY <1>1, <1>2, <1>3, <1>4 DEF LoopStates

LEMMA SafeLoopStep ==
  ASSUME IInv, SafeInv, NEW l \in LoopIds, LoopStep(l), UNCHANGED fetchVars
  PROVE  SafeInv'
<1>1. loop[l] \in Loop /\ conn \in 0 .. MaxConns
  BY DEF IInv, ClientInv, ClientTypeOK
<1>2. loop[l].pc # "none" /\ loop[l].pc # "gone"
  BY DEF LoopStep, ReadFrame, ReadError, ParseFrame, SendMsg, SendFatal, ExitLoop, LoopPanic
<1>3. /\ conn = 1 /\ ws # "nil" /\ loop[l].on = 1 /\ ~chanClosed
  <2>1. loop[l].on = 1 /\ ~chanClosed /\ ~(l > conn) /\ l = 1
    BY <1>2 DEF SafeInv, LoopStates
  <2>2. conn # 0
    BY <2>1
  <2>3. QED
    BY <2>1, <2>2 DEF SafeInv, ConnStates
<1>4. ~LoopPanic(l)
  BY <1>3 DEF LoopPanic
<1>5. UNCHANGED <<dialing, ws, wsCtx, conn, ctxDone, pc, panicked>>
  BY <1>4 DEF LoopStep, ReadFrame, ReadError, ParseFrame, SendMsg, SendFatal, ExitLoop, fetchVars
<1>6. ConnStates' /\ CallerStates' /\ NoPanic'
  BY <1>3, <1>5 DEF SafeInv, ConnStates, CallerStates, NoPanic
<1>7. ASSUME NEW r, r.on = 1, loop' = [loop EXCEPT ![l] = r], UNCHANGED chanClosed
      PROVE  LoopStates'
  BY <1>2, <1>3, <1>5, <1>7, SafeLoopMoves
<1>8. LoopStates'
  <2>0. loop' = ToRead(l) /\ UNCHANGED chanClosed => LoopStates'
    <3> DEFINE r == [NotStarted EXCEPT !.pc = "read", !.on = 1]
    <3>1. r.on = 1 /\ ToRead(l) = [loop EXCEPT ![l] = r]
      BY <1>3 DEF ToRead, NotStarted
    <3> HIDE DEF r
    <3>2. QED
      BY <1>7, <3>1
  <2>1. CASE ReadFrame(l)
    <3> DEFINE r == [loop[l] EXCEPT !.pc = "parse", !.frame = Head(wire),
                                    !.known = (Head(wire).sub \in subs)]
    <3>1. loop' = [loop EXCEPT ![l] = r] /\ UNCHANGED chanClosed
      BY <2>1 DEF ReadFrame, chanVars, IInv, ClientInv, ClientTypeOK
    <3>2. r.on = 1
      BY <1>1, <1>3 DEF Loop
    <3> HIDE DEF r
    <3>3. QED
      BY <1>7, <3>1, <3>2
  <2>2. CASE ReadError(l)
    <3> DEFINE next == IF wsCtx = "canceled" THEN "exit" ELSE "sendFatal"
    <3> DEFINE r == [loop[l] EXCEPT !.pc = next, !.msg = Fatal]
    <3>1. loop' = [loop EXCEPT ![l] = r] /\ UNCHANGED chanClosed
      BY <2>2 DEF ReadError, chanVars, IInv, ClientInv, ClientTypeOK
    <3>2. r.on = 1
      BY <1>1, <1>3 DEF Loop
    <3> HIDE DEF r
    <3>3. QED
      BY <1>7, <3>1, <3>2
  <2>3. CASE ParseFrame(l)
    <3>1. ASSUME NEW m, loop' = ToSend(l, m) PROVE LoopStates'
      <4> DEFINE r == [NotStarted EXCEPT !.pc = "send", !.on = loop[l].on, !.msg = m]
      <4>1. r.on = 1 /\ loop' = [loop EXCEPT ![l] = r]
        BY <1>3, <3>1 DEF ToSend, NotStarted
      <4> HIDE DEF r
      <4>2. QED
        BY <1>7, <2>3, <4>1 DEF ParseFrame, chanVars
    <3>2. ASSUME loop' = ToFatal(l) PROVE LoopStates'
      <4> DEFINE r == [NotStarted EXCEPT !.pc = "sendFatal", !.on = loop[l].on]
      <4>1. r.on = 1 /\ loop' = [loop EXCEPT ![l] = r]
        BY <1>3, <3>2 DEF ToFatal, NotStarted
      <4> HIDE DEF r
      <4>2. QED
        BY <1>7, <2>3, <4>1 DEF ParseFrame, chanVars
    <3>3. loop' = ToRead(l) => LoopStates'
      BY <2>3, <2>0 DEF ParseFrame, chanVars
    <3>4. QED
      BY <2>3, <3>1, <3>2, <3>3 DEF ParseFrame, ParseUnknown, ParseData, ParseBaselessDelta,
                                    ParseComplete, ParseError
  <2>4. CASE SendMsg(l)
    BY <2>4, <2>0 DEF SendMsg
  <2>5. CASE SendFatal(l)
    <3> DEFINE r == [loop[l] EXCEPT !.pc = "exit"]
    <3>1. loop' = [loop EXCEPT ![l] = r] /\ UNCHANGED chanClosed
      BY <2>5 DEF SendFatal, IInv, ClientInv, ClientTypeOK
    <3>2. r.on = 1
      BY <1>1, <1>3 DEF Loop
    <3> HIDE DEF r
    <3>3. QED
      BY <1>7, <3>1, <3>2
  <2>6. CASE ExitLoop(l)
    <3> DEFINE r == [NotStarted EXCEPT !.pc = "gone"]
    <3>1. loop' = [loop EXCEPT ![l] = r] /\ r.pc = "gone"
      BY <2>6 DEF ExitLoop, NotStarted
    <3> HIDE DEF r
    <3>2. QED
      BY <1>2, <1>5, <3>1, SafeLoopMoves
  <2>7. QED
    BY <1>4, <2>1, <2>2, <2>3, <2>4, <2>5, <2>6 DEF LoopStep
<1>9. QED
  BY <1>6, <1>8 DEF SafeInv

\* connectWS, of a caller that may go on only if it succeeded.
LEMMA SafeConnect ==
  ASSUME IInv, SafeInv, NEW c \in Callers,
         BeginDial(c, c \in ctxDone) \/ Connects(c) \/ ConnectFails(c),
         UNCHANGED <<chanVars, panicked, ctxDone>>
  PROVE  /\ ConnStates' /\ LoopStates' /\ NoPanic'
         /\ conn # 0 => conn' # 0
         /\ Connects(c) => conn' # 0
<1>1. conn \in 0 .. MaxConns /\ loop \in [LoopIds -> Loop]
  BY DEF IInv, ClientInv, ClientTypeOK
<1>2. NoPanic'
  BY DEF SafeInv, NoPanic
<1>3. CASE AlreadyConnected
  <2>1. conn # 0
    BY <1>3 DEF AlreadyConnected, Connected, SafeInv, ConnStates
  <2>2. QED
    BY <1>1, <1>2, <1>3, <2>1 DEF AlreadyConnected, connVars, chanVars, SafeInv, ConnStates,
                                  LoopStates
<1>4. CASE BeginDial(c, c \in ctxDone)
  <2>1. UNCHANGED <<ws, wsCtx, conn, loop>> /\ ~Connected /\ dialing = {} /\ dialing' # {}
    BY <1>4 DEF BeginDial, MuFree
  <2>2. conn = 0
    BY <1>4, <2>1 DEF BeginDial, Connected, SafeInv, ConnStates
  <2>3. ConnStates' /\ LoopStates'
    BY <2>1, <2>2 DEF SafeInv, ConnStates, LoopStates, chanVars
  <2>4. ~Connects(c)
    BY <2>1 DEF Connects, AlreadyConnected, Dial, EndDial
  <2>5. QED
    BY <1>2, <2>1, <2>2, <2>3, <2>4
<1>5. CASE Dial(c, c \in ctxDone)
  <2>1. conn = 0
    BY <1>1, <1>5 DEF Dial, EndDial, SafeInv, ConnStates
  <2>2. conn' = 1 /\ ws' = "open" /\ wsCtx' = "live" /\ dialing' = {}
    BY <1>5, <2>1, HolderLeaves DEF Dial, IInv
  <2> DEFINE r == [NotStarted EXCEPT !.pc = "read", !.on = 1]
  <2>3. loop' = [loop EXCEPT ![1] = r] /\ r.pc = "read" /\ r.on = 1
    BY <1>5, <2>1 DEF Dial, NotStarted
  <2>4. \A l \in LoopIds : loop[l].pc = "none"
    BY <2>1 DEF SafeInv, LoopStates, LoopIds
  <2>5. 1 \in LoopIds /\ \A l \in LoopIds : l \in Nat /\ l >= 1
    BY DEF LoopIds
  <2>6. ~chanClosed'
    BY <2>1 DEF SafeInv, ConnStates, chanVars
  <2> HIDE DEF r
  <2>7. LoopStates'
    BY <1>1, <2>2, <2>3, <2>4, <2>5, <2>6 DEF LoopStates
  <2>8. QED
    BY <1>2, <2>1, <2>2, <2>7 DEF ConnStates
<1>6. CASE ConnectFails(c)
  <2>1. /\ UNCHANGED <<conn, loop>>
        /\ \/ UNCHANGED <<ws, wsCtx, dialing>>
           \/ UNCHANGED <<ws, wsCtx>> /\ EndDial(c)
           \/ ws' = "nil" /\ wsCtx' = "canceled" /\ EndDial(c)
    BY <1>6 DEF ConnectFails, DialFails, HandshakeFails
  <2>2. EndDial(c) => conn = 0 /\ dialing' = {}
    BY HolderLeaves DEF EndDial, SafeInv, ConnStates, IInv
  <2>3. ConnStates' /\ LoopStates'
    BY <2>1, <2>2 DEF SafeInv, ConnStates, LoopStates, chanVars
  <2>4. ~AlreadyConnected /\ (Dial(c, c \in ctxDone) => conn' # conn)
    BY <1>1, <1>6 DEF AlreadyConnected, MuFree, Dial, ConnectFails, DialFails, HandshakeFails, EndDial
  <2>5. QED
    BY <1>1, <1>2, <2>1, <2>3, <2>4 DEF Connects
<1>7. QED
  BY <1>3, <1>4, <1>5, <1>6 DEF Connects

\* A step that leaves the connection, the loops and the channel's state alone.
LEMMA SafeKept ==
  ASSUME SafeInv, UNCHANGED <<dialing, ws, wsCtx, conn, loop, chanClosed, ctxDone, panicked>>
  PROVE  ConnStates' /\ LoopStates' /\ NoPanic'
  BY DEF SafeInv, ConnStates, LoopStates, NoPanic

LEMMA SafeServerStep ==
  ASSUME SafeInv, NEW s \in SubIds, ServerStep(s), UNCHANGED fetchVars
  PROVE  SafeInv'
<1>1. UNCHANGED <<dialing, ws, wsCtx, conn, loop, chanClosed, ctxDone, panicked, pc>>
  BY DEF ServerStep, ServerAnswer, ServerUpdate, ServerComplete, ServerError, Emit, chanVars,
         fetchVars
<1>2. CallerStates'
  BY <1>1 DEF SafeInv, CallerStates
<1>3. QED
  BY <1>1, <1>2, SafeKept DEF SafeInv

LEMMA SafeDropClose ==
  ASSUME IInv, SafeInv, OneConnection', Drop \/ Close, UNCHANGED fetchVars
  PROVE  SafeInv'
<1>1. ~Close
  BY FaultOfSole DEF Close, SoleCaller
<1>2. /\ ws = "open" /\ ws' = "dead"
      /\ UNCHANGED <<dialing, wsCtx, conn, loop, chanClosed, ctxDone, panicked, pc>>
  BY <1>1 DEF Drop, chanVars, fetchVars
<1>3. QED
  BY <1>2 DEF SafeInv, ConnStates, LoopStates, CallerStates, NoPanic

LEMMA SafeCancel ==
  ASSUME IInv, SafeInv, OneConnection', NEW c \in Callers, Cancel(c)
  PROVE  SafeInv'
<1>1. /\ UNCHANGED <<dialing, ws, conn, loop, chanClosed, panicked, pc>>
      /\ wsCtx' = "live" <=> wsCtx = "live" /\ wsCtx' # "canceled"
      /\ ctxDone' = ctxDone \cup {c} /\ Fault
  BY DEF Cancel, ContextEnds, chanVars, IInv, ClientInv, ClientTypeOK
<1>2. Callers = {c}
  BY <1>1, FaultOfSole DEF SoleCaller
<1>3. Callers \subseteq ctxDone'
  BY <1>1, <1>2
<1>4. ConnStates'
  BY <1>1, <1>3 DEF SafeInv, ConnStates
<1>5. QED
  BY <1>1, <1>4 DEF SafeInv, LoopStates, CallerStates, NoPanic

\* Caller c goes to a state that needs no connection it does not have.
LEMMA SafeGoes ==
  ASSUME IInv, CallerStates, NEW c \in Callers, NEW label, Goto(c, label),
         conn # 0 => conn' # 0, conn' # 0 \/ label \in {"assemble", "pageConnect", "ok", "error"}
  PROVE  CallerStates'
  BY DEF CallerStates, Goto, IInv, CallerInv, FetchTypeOK

LEMMA SafeCallerStep ==
  ASSUME IInv, SafeInv, NEW c \in Callers, Start(c) \/ CallerStep(c)
  PROVE  SafeInv'
<1> USE DEF Fail
<1>1. pc \in [Callers -> PCs] /\ conn \in 0 .. MaxConns /\ CallerStates
  BY DEF IInv, ClientInv, CallerInv, ClientTypeOK, FetchTypeOK, SafeInv
<1>2. CASE PageConnect(c)
  <2>1. /\ ConnStates' /\ LoopStates' /\ NoPanic' /\ (conn # 0 => conn' # 0)
        /\ Connects(c) => conn' # 0
    BY <1>2, SafeConnect DEF PageConnect
  <2>2. CallerStates'
    <3>1. CASE UNCHANGED pc
      BY <1>1, <2>1, <3>1 DEF CallerStates
    <3>2. CASE ~UNCHANGED pc
      BY <1>1, <1>2, <2>1, <3>2, SafeGoes DEF PageConnect
    <3>3. QED
      BY <3>1, <3>2
  <2>3. QED
    BY <2>1, <2>2 DEF SafeInv
<1>3. CASE DetailConnect(c)
  <2>1. /\ ConnStates' /\ LoopStates' /\ NoPanic' /\ (conn # 0 => conn' # 0)
        /\ Connects(c) => conn' # 0
    BY <1>3, SafeConnect DEF DetailConnect
  <2>2. CallerStates'
    <3>1. CASE Goto(c, "detailSend")
      BY <1>1, <1>3, <2>1, <3>1, SafeGoes DEF DetailConnect, CallerStates
    <3>2. CASE UNCHANGED pc
      BY <1>1, <2>1, <3>2 DEF CallerStates
    <3>3. QED
      BY <1>3, <3>1, <3>2 DEF DetailConnect
  <2>3. QED
    BY <2>1, <2>2 DEF SafeInv
<1>4. ~CallerPanic(c)
  BY DEF CallerPanic, NilConn, SafeInv, CallerStates, ConnStates
<1>5. ASSUME Start(c) \/ CallerStep(c), ~PageConnect(c), ~DetailConnect(c)
      PROVE  /\ UNCHANGED <<dialing, ws, wsCtx, conn, loop, chanClosed, ctxDone, panicked>>
             /\ \/ UNCHANGED pc
                \/ pc[c] \in {"pageSend", "pageWait", "detailConnect", "detailSend", "detailWait"}
                   /\ \E label : Goto(c, label)
                \/ \E label \in {"assemble", "pageConnect", "ok", "error"} : Goto(c, label)
  <2>1. CASE Start(c)
    BY <2>1 DEF Start, clientVars
  <2>2. CASE PageStep(c)
    <3>1. UNCHANGED <<dialing, ws, wsCtx, conn, loop, chanClosed, ctxDone, panicked>>
      BY <1>5, <2>2 DEF PageStep, PageSend, RecvPage, RecvOther, RecvPageError, PageBroken,
         PageTimeout, Received, clientVars, connVars, chanVars, fetchVars
    <3>2. QED
      BY <1>5, <2>2, <3>1 DEF PageStep, PageSend, RecvPage, RecvOther, RecvPageError, PageBroken,
         PageTimeout, fetchVars
  <2>3. CASE DetailStep(c)
    <3>1. UNCHANGED <<dialing, ws, wsCtx, conn, loop, chanClosed, ctxDone, panicked>>
      BY <1>5, <2>3 DEF DetailStep, SkipItem, DetailSend, StartDetailLoop, RecvDetail,
         RecvDetailError, RecvForeign, DetailBroken, DetailTimeout, Received, clientVars, connVars,
         chanVars, fetchVars
    <3>2. QED
      BY <1>5, <2>3, <3>1 DEF DetailStep, SkipItem, DetailSend, StartDetailLoop, RecvDetail,
         RecvDetailError, RecvForeign, DetailBroken, DetailTimeout, fetchVars
  <2>4. CASE FinishPage(c)
    BY <2>4 DEF FinishPage, clientVars
  <2>5. QED
    BY <1>4, <1>5, <2>1, <2>2, <2>3, <2>4 DEF CallerStep
<1>6. ASSUME ~PageConnect(c), ~DetailConnect(c) PROVE SafeInv'
  <2>1. ConnStates' /\ LoopStates' /\ NoPanic'
    BY <1>5, <1>6, SafeKept
  <2>2. CallerStates'
    <3>1. CASE UNCHANGED pc
      BY <1>1, <1>5, <1>6, <3>1 DEF CallerStates
    <3>2. ASSUME NEW label, Goto(c, label), conn # 0 PROVE CallerStates'
      BY <1>1, <1>5, <1>6, <3>2, SafeGoes
    <3>3. ASSUME NEW label \in {"assemble", "pageConnect", "ok", "error"}, Goto(c, label)
          PROVE  CallerStates'
      BY <1>1, <1>5, <1>6, <3>3, SafeGoes
    <3>4. pc[c] \in {"pageSend", "pageWait", "detailConnect", "detailSend", "detailWait"}
          => conn # 0
      BY <1>1 DEF CallerStates
    <3>5. QED
      BY <1>5, <1>6, <3>1, <3>2, <3>3, <3>4
  <2>3. QED
    BY <2>1, <2>2 DEF SafeInv
<1>7. QED
  BY <1>2, <1>3, <1>6

LEMMA NextSafe ==
  ASSUME IInv, SafeInv, [Next]_vars, OneConnection'
  PROVE  SafeInv'
<1>1. CASE UNCHANGED vars
  BY <1>1 DEF vars, clientVars, fetchVars, SafeInv, ConnStates, LoopStates, CallerStates, NoPanic
<1>2. ASSUME NEW c \in Callers, Start(c) \/ CallerStep(c) \/ Cancel(c) PROVE SafeInv'
  BY <1>2, SafeCallerStep, SafeCancel
<1>3. ASSUME NEW l \in LoopIds, LoopStep(l) /\ UNCHANGED fetchVars PROVE SafeInv'
  BY <1>3, SafeLoopStep
<1>4. ASSUME NEW s \in SubIds, ServerStep(s) /\ UNCHANGED fetchVars PROVE SafeInv'
  BY <1>4, SafeServerStep
<1>5. QED
  BY <1>1, <1>2, <1>3, <1>4, SafeDropClose DEF Next

\* A client that dials once has one receive loop, which closes recvChan after
\* its last send, and a connection for every write.
THEOREM OneConnectionInvariant == Spec => [](OneConnection => SafeInv)
<1>1. IInv /\ (OneConnection => SafeInv) /\ [Next]_vars => (OneConnection => SafeInv)'
  BY NextSafe, OneConnectionBefore
<1>2. QED
  BY <1>1, InitSafe, LabelsInvariant, PTL DEF Spec

\* No goroutine of a client panics while it is one caller's, whatever fails and
\* whoever cancels (fetch_second_stream shows the panic with two callers).
THEOREM SoleCallerNoPanic ==
  ASSUME SoleCaller
  PROVE  Spec => []NoPanic
<1>1. (OneConnection => SafeInv) => NoPanic
  BY DEF OneConnection, SafeInv
<1>2. QED
  BY <1>1, OneConnectionInvariant, PTL

\* Nor of a client that many callers share, up to the first fault.
THEOREM FaultlessNoPanic == Spec => []NoPanicUntilFault
<1>1. (OneConnection => SafeInv) => NoPanicUntilFault
  BY DEF OneConnection, SafeInv, NoPanicUntilFault
<1>2. QED
  BY <1>1, OneConnectionInvariant, PTL

---------------------------------------------------------------------------
(* Pages come whole                                                        *)

\* Some caller waits for the page of subscription s.
Awaited(s) == \E c \in Callers : pc[c] = "pageWait" /\ pageSub[c] = s

Parsing(l, s) == loop[l].pc = "parse" /\ loop[l].frame.sub = s

\* The server has said its last about s.
Silent(s) == srv[s] = "none" /\ \A k \in 1 .. Len(wire) : wire[k].sub # s

\* Nothing of a subscription follows its C or E frame.
ClosingLast ==
    /\ \A j, k \in 1 .. Len(wire) :
          wire[j].code \in {"C", "E"} =>
              srv[wire[j].sub] = "none" /\ (k > j => wire[k].sub # wire[j].sub)
    /\ \A l \in LoopIds, s \in SubIds :
          Parsing(l, s) /\ loop[l].frame.code \in {"C", "E"} => Silent(s)

\* When the frame at place n of the wire is parsed there will be a previous
\* response of s.
HasBase(s, n) ==
    \/ s \in prev
    \/ \E l \in LoopIds : Parsing(l, s) /\ loop[l].frame.code = "A"
    \/ \E j \in 1 .. Len(wire) : j < n /\ wire[j].sub = s /\ wire[j].code = "A"

\* What is on its way for an awaited page: s is registered until C or E, every
\* delta has a base, and no body is nil.
Registered(s)    == s \in subs \/ Silent(s)
WireBased(s)     == \A k \in 1 .. Len(wire) : wire[k].sub = s =>
                        wire[k].body # Null /\ (wire[k].code = "D" => HasBase(s, k))
ServerBased(s)   == srv[s] \in {"answered", "leaving"} => HasBase(s, Len(wire) + 1)
ParsedBased(s)   == \A l \in LoopIds : Parsing(l, s) =>
                        /\ loop[l].known /\ loop[l].frame.body # Null
                        /\ loop[l].frame.code = "D" => s \in prev
MessageBased(s)  == \A l \in LoopIds :
                        loop[l].msg.sub = s /\ ~loop[l].msg.error => loop[l].msg.body # Null

Based(s) == Registered(s) /\ WireBased(s) /\ ServerBased(s) /\ ParsedBased(s) /\ MessageBased(s)

BasesKept == \A s \in SubIds : Awaited(s) => Based(s)

\* The reply a caller will take for its page has a body.
PagesWhole ==
    \A c \in Callers, k \in 1 .. Len(recvChan) :
        pc[c] = "pageWait" /\ IsPageReply(c, recvChan[k]) => recvChan[k].body # Null

PathInv == ClosingLast /\ BasesKept /\ PagesWhole

LEMMA InitPath == Init => PathInv
BY DEF Init, ClientInit, PathInv, ClosingLast, BasesKept, PagesWhole, Awaited, Parsing, NotStarted

\* The places of the frames when the first one is read and when one is added.
LEMMA WireTail ==
  ASSUME IInv, wire # <<>>, wire' = Tail(wire)
  PROVE  /\ Head(wire) = wire[1] /\ 1 \in 1 .. Len(wire)
         /\ Len(wire) \in Nat /\ Len(wire') \in Nat /\ Len(wire) = Len(wire') + 1
         /\ \A k \in 1 .. Len(wire') : k + 1 \in 1 .. Len(wire) /\ wire'[k] = wire[k + 1]
         /\ \A k \in 1 .. Len(wire) :
               k # 1 => k - 1 \in 1 .. Len(wire') /\ wire'[k - 1] = wire[k]
<1>1. wire \in Seq(Frame)
  BY DEF IInv, ClientInv, ClientTypeOK
<1>2. /\ Len(wire) \in Nat /\ Len(wire) # 0 /\ Head(wire) = wire[1]
      /\ Len(Tail(wire)) = Len(wire) - 1
      /\ \A k \in 1 .. Len(wire) - 1 : Tail(wire)[k] = wire[k + 1]
  BY <1>1, HeadTailProperties, LenProperties, EmptySeq
<1>3. \A k \in 1 .. Len(wire) : k # 1 => k - 1 \in 1 .. Len(wire) - 1 /\ (k - 1) + 1 = k
  BY <1>2
<1>4. QED
  BY <1>2, <1>3

LEMMA WireAppend ==
  ASSUME IInv, NEW fr \in Frame, wire' = Append(wire, fr)
  PROVE  /\ Len(wire) \in Nat /\ Len(wire') = Len(wire) + 1
         /\ wire'[Len(wire) + 1] = fr
         /\ \A k \in 1 .. Len(wire) : k \in 1 .. Len(wire') /\ wire'[k] = wire[k]
  BY AppendProperties, LenProperties DEF IInv, ClientInv, ClientTypeOK

\* At most one loop runs.
LEMMA OneLoop ==
  ASSUME SafeInv, NEW l \in LoopIds, loop[l].pc # "none"
  PROVE  \A k \in LoopIds : loop[k].pc # "none" => k = l
  BY DEF SafeInv, LoopStates

LEMMA PathReadFrame ==
  ASSUME IInv, SafeInv, PathInv, NEW l \in LoopIds, ReadFrame(l), UNCHANGED fetchVars
  PROVE  PathInv'
<1> DEFINE fr == wire[1]
<1>1. /\ loop[l].pc = "read" /\ wire # <<>> /\ wire' = Tail(wire)
      /\ UNCHANGED <<srv, prev, subs, recvChan, pc, pageSub>>
  BY DEF ReadFrame, tableVars, chanVars, fetchVars
<1>2. /\ Head(wire) = fr /\ 1 \in 1 .. Len(wire)
      /\ Len(wire) \in Nat /\ Len(wire') \in Nat /\ Len(wire) = Len(wire') + 1
      /\ \A k \in 1 .. Len(wire') : k + 1 \in 1 .. Len(wire) /\ wire'[k] = wire[k + 1]
      /\ \A k \in 1 .. Len(wire) : k # 1 => k - 1 \in 1 .. Len(wire') /\ wire'[k - 1] = wire[k]
  BY <1>1, WireTail
<1>3. /\ loop'[l].pc = "parse" /\ loop'[l].frame = fr /\ loop'[l].known = (fr.sub \in subs)
      /\ loop'[l].msg = loop[l].msg
      /\ \A k \in LoopIds : k # l => loop'[k] = loop[k] /\ loop[k].pc = "none"
  <2>1. \A k \in LoopIds : k # l => loop[k].pc = "none"
    BY <1>1, OneLoop
  <2>2. loop \in [LoopIds -> Loop] /\ loop[l] \in Loop
    BY DEF IInv, ClientInv, ClientTypeOK
  <2>3. QED
    BY <1>2, <2>1, <2>2 DEF ReadFrame, Loop
<1>4. /\ \A k \in LoopIds, s \in SubIds : ~Parsing(k, s)
      /\ \A k \in LoopIds, s \in SubIds : Parsing(k, s)' <=> k = l /\ fr.sub = s
  BY <1>1, <1>3 DEF Parsing
<1>5. \A s \in SubIds : Silent(s) => Silent(s)' /\ fr.sub # s
  BY <1>1, <1>2 DEF Silent
<1>6. ClosingLast'
  <2>1. ASSUME NEW j \in 1 .. Len(wire'), NEW k \in 1 .. Len(wire'), wire'[j].code \in {"C", "E"}
        PROVE  srv'[wire'[j].sub] = "none" /\ (k > j => wire'[k].sub # wire'[j].sub)
    BY <1>1, <1>2, <2>1 DEF PathInv, ClosingLast
  <2>2. ASSUME NEW s \in SubIds, fr.sub = s, fr.code \in {"C", "E"} PROVE Silent(s)'
    <3>1. srv[s] = "none" /\ \A k \in 1 .. Len(wire) : k > 1 => wire[k].sub # s
      BY <1>2, <2>2 DEF PathInv, ClosingLast
    <3>2. \A k \in 1 .. Len(wire') : wire'[k].sub # s
      BY <1>2, <3>1
    <3>3. QED
      BY <1>1, <3>1, <3>2 DEF Silent
  <2>3. QED
    BY <1>3, <1>4, <2>1, <2>2 DEF ClosingLast
<1>7. ASSUME NEW s \in SubIds, Awaited(s)' PROVE Based(s)'
  <2>1. Based(s)
    BY <1>1, <1>7 DEF PathInv, BasesKept, Awaited
  <2>2. Registered(s)'
    BY <1>1, <1>5, <2>1 DEF Based, Registered
  <2>3. ASSUME NEW n \in Nat, HasBase(s, n + 1) PROVE HasBase(s, n)'
    <3>1. CASE s \in prev
      BY <1>1, <3>1 DEF HasBase
    <3>2. ASSUME NEW j \in 1 .. Len(wire), j < n + 1, wire[j].sub = s, wire[j].code = "A"
          PROVE  HasBase(s, n)'
      <4>1. CASE j = 1
        BY <1>3, <1>4, <3>2, <4>1 DEF HasBase
      <4>2. CASE j # 1
        <5>1. j - 1 \in 1 .. Len(wire') /\ j - 1 < n /\ wire'[j - 1] = wire[j]
          BY <1>2, <3>2, <4>2
        <5>2. QED
          BY <3>2, <5>1 DEF HasBase
      <4>3. QED
        BY <4>1, <4>2
    <3>3. QED
      BY <1>4, <2>3, <3>1, <3>2 DEF HasBase
  <2>4. WireBased(s)'
    <3>1. \A k \in 1 .. Len(wire') : wire'[k].sub = s =>
              wire'[k].body # Null /\ (wire'[k].code = "D" => HasBase(s, k + 1))
      BY <1>2, <2>1 DEF Based, WireBased
    <3>2. \A k \in 1 .. Len(wire') : k \in Nat
      OBVIOUS
    <3>3. QED
      BY <2>3, <3>1, <3>2 DEF WireBased
  <2>5. ServerBased(s)'
    <3>1. Len(wire') + 1 \in Nat /\ Len(wire) + 1 = (Len(wire') + 1) + 1
      BY <1>2
    <3>2. QED
      BY <1>1, <2>1, <2>3, <3>1 DEF Based, ServerBased
  <2>6. ParsedBased(s)'
    <3>1. ASSUME fr.sub = s
          PROVE  s \in subs /\ fr.body # Null /\ (fr.code = "D" => s \in prev)
      <4>1. s \in subs
        BY <1>5, <2>1, <3>1 DEF Based, Registered
      <4>2. fr.body # Null /\ (fr.code = "D" => HasBase(s, 1))
        BY <1>2, <2>1, <3>1 DEF Based, WireBased
      <4>3. HasBase(s, 1) => s \in prev
        BY <1>2, <1>4 DEF HasBase
      <4>4. QED
        BY <4>1, <4>2, <4>3
    <3>2. QED
      BY <1>1, <1>3, <1>4, <3>1 DEF ParsedBased
  <2>7. MessageBased(s)'
    BY <1>3, <2>1 DEF Based, MessageBased
  <2>8. QED
    BY <2>2, <2>4, <2>5, <2>6, <2>7 DEF Based
<1>8. PagesWhole'
  BY <1>1 DEF PathInv, PagesWhole, IsPageReply
<1>9. QED
  BY <1>6, <1>7, <1>8 DEF PathInv, BasesKept

\* What is left in recvChan after a receive was there before.
LEMMA ChanTail ==
  ASSUME IInv, UNCHANGED recvChan \/ Received
  PROVE  \A k \in 1 .. Len(recvChan') : \E j \in 1 .. Len(recvChan) : recvChan'[k] = recvChan[j]
<1>1. CASE Received
  <2>1. recvChan \in Seq(Message) /\ recvChan # <<>> /\ recvChan' = Tail(recvChan)
    BY <1>1 DEF Received, IInv, ClientInv, ClientTypeOK
  <2>2. /\ Len(recvChan) \in Nat /\ Len(recvChan') = Len(recvChan) - 1
        /\ \A k \in 1 .. Len(recvChan) - 1 : recvChan'[k] = recvChan[k + 1]
    BY <2>1, HeadTailProperties, LenProperties
  <2>3. \A k \in 1 .. Len(recvChan) - 1 : k + 1 \in 1 .. Len(recvChan)
    BY <2>2
  <2>4. QED
    BY <2>2, <2>3
<1>2. QED
  BY <1>1

\* A step off the path of the replies, after which no further page is awaited.
LEMMA PathKept ==
  ASSUME IInv, PathInv, UNCHANGED <<loop, wire, srv, prev, subs, pageSub>>,
         \A c \in Callers : pc'[c] = "pageWait" => pc[c] = "pageWait",
         UNCHANGED recvChan \/ Received
  PROVE  PathInv'
<1>1. ClosingLast'
  BY DEF PathInv, ClosingLast, Parsing, Silent
<1>2. ASSUME NEW s \in SubIds, Awaited(s)' PROVE Based(s)'
  <2>1. Based(s)
    BY <1>2 DEF Awaited, PathInv, BasesKept
  <2>2. \A n : HasBase(s, n)' <=> HasBase(s, n)
    BY DEF HasBase, Parsing
  <2>3. QED
    BY <2>1, <2>2 DEF Based, Registered, Silent, WireBased, ServerBased, ParsedBased, Parsing,
                      MessageBased
<1>3. \A k \in 1 .. Len(recvChan') : \E j \in 1 .. Len(recvChan) : recvChan'[k] = recvChan[j]
  BY ChanTail
<1>4. PagesWhole'
  <2> SUFFICES ASSUME NEW c \in Callers, NEW k \in 1 .. Len(recvChan'), pc'[c] = "pageWait",
                      ~recvChan'[k].error, recvChan'[k].sub = pageSub'[c]
               PROVE  recvChan'[k].body # Null
    BY DEF PagesWhole, IsPageReply
  <2>1. PICK j \in 1 .. Len(recvChan) : recvChan'[k] = recvChan[j]
    BY <1>3
  <2>2. pc[c] = "pageWait" /\ IsPageReply(c, recvChan[j])
    BY <2>1 DEF IsPageReply
  <2>3. QED
    BY <2>1, <2>2 DEF PathInv, PagesWhole
<1>5. QED
  BY <1>1, <1>2, <1>4 DEF PathInv, BasesKept

\* A loop moves from and to states that hold no frame.
LEMMA PathLoopMoves ==
  ASSUME IInv, SafeInv, PathInv, NEW l \in LoopIds, NEW r, loop' = [loop EXCEPT ![l] = r],
         loop[l].pc \notin {"none", "parse"}, r.pc # "parse", r.msg \in {loop[l].msg, Fatal},
         UNCHANGED <<wire, srv, prev, subs, pc, pageSub>>
  PROVE  ClosingLast' /\ BasesKept'
<1>1. /\ loop'[l] = r
      /\ \A k \in LoopIds : k # l => loop'[k] = loop[k] /\ loop[k].pc = "none"
  BY OneLoop DEF IInv, ClientInv, ClientTypeOK
<1>2. \A k \in LoopIds, s \in SubIds : ~Parsing(k, s) /\ ~Parsing(k, s)'
  BY <1>1 DEF Parsing
<1>3. ClosingLast'
  BY <1>2 DEF PathInv, ClosingLast
<1>4. ASSUME NEW s \in SubIds, Awaited(s)' PROVE Based(s)'
  <2>1. Based(s)
    BY <1>4 DEF PathInv, BasesKept, Awaited
  <2>2. \A n : HasBase(s, n)' <=> HasBase(s, n)
    BY <1>2 DEF HasBase
  <2>3. MessageBased(s)'
    BY <1>1, <2>1 DEF Based, MessageBased, Fatal
  <2>4. QED
    BY <1>2, <2>1, <2>2, <2>3 DEF Based, Registered, Silent, WireBased, ServerBased, ParsedBased
<1>5. QED
  BY <1>3, <1>4 DEF BasesKept

LEMMA PathParseFrame ==
  ASSUME IInv, SafeInv, PathInv, NEW l \in LoopIds, ParseFrame(l), UNCHANGED fetchVars
  PROVE  PathInv'
<1> DEFINE fr == loop[l].frame
<1>1. /\ loop[l].pc = "parse" /\ fr.sub \in SubIds /\ fr.code \in {"A", "D", "C", "E"}
      /\ UNCHANGED <<wire, srv, recvChan, pc, pageSub>>
  BY DEF ParseFrame, chanVars, fetchVars, IInv, ClientInv, ClientTypeOK, Loop, Frame
<1>2. \A k \in LoopIds : k # l => loop[k].pc = "none" /\ loop'[k] = loop[k]
  <2>1. \A k \in LoopIds : k # l => loop[k].pc = "none"
    BY <1>1, OneLoop
  <2>2. loop \in [LoopIds -> Loop]
    BY DEF IInv, ClientInv, ClientTypeOK
  <2>3. QED
    BY <2>1, <2>2 DEF ParseFrame, ParseUnknown, ParseData, ParseBaselessDelta, ParseComplete,
                      ParseError, ToSend, ToFatal, ToRead
<1>3. /\ loop'[l].pc # "parse"
      /\ \/ loop'[l].msg = Fatal
         \/ loop'[l].msg.error
         \/ loop'[l].msg = Data(fr, fr.body)
         \/ fr.code = "D" /\ fr.sub \notin prev /\ loop'[l].msg = Data(fr, Null)
  <2>1. loop \in [LoopIds -> Loop]
    BY DEF IInv, ClientInv, ClientTypeOK
  <2>2. CASE ParseUnknown(l) \/ ParseComplete(l)
    BY <2>1, <2>2 DEF ParseUnknown, ParseComplete, ToFatal, ToRead, NotStarted
  <2>3. CASE ParseData(l)
    BY <2>1, <2>3 DEF ParseData, ToSend, NotStarted
  <2>4. CASE ParseBaselessDelta(l)
    BY <2>1, <2>4 DEF ParseBaselessDelta, ToSend, ToFatal, NotStarted
  <2>5. CASE ParseError(l)
    <3>1. loop' = ToSend(l, [sub |-> fr.sub, error |-> TRUE, body |-> Null]) \/ loop' = ToFatal(l)
      BY <2>5 DEF ParseError
    <3>2. CASE loop' = ToSend(l, [sub |-> fr.sub, error |-> TRUE, body |-> Null])
      BY <2>1, <3>2 DEF ToSend, NotStarted
    <3>3. CASE loop' = ToFatal(l)
      BY <2>1, <3>3 DEF ToFatal, NotStarted
    <3>4. QED
      BY <3>1, <3>2, <3>3
  <2>6. QED
    BY <2>2, <2>3, <2>4, <2>5 DEF ParseFrame
<1>4. /\ \A k \in LoopIds, s \in SubIds : ~Parsing(k, s)'
      /\ \A k \in LoopIds, s \in SubIds : Parsing(k, s) <=> k = l /\ fr.sub = s
  BY <1>1, <1>2, <1>3 DEF Parsing
<1>5. \A s \in SubIds : s \in subs => s \in subs' \/ (s = fr.sub /\ fr.code \in {"C", "E"})
  BY <1>1 DEF ParseFrame, ParseUnknown, ParseData, ParseBaselessDelta, ParseComplete, ParseError,
              Forget
<1>6. \A s \in SubIds : s \in prev => s \in prev' \/ (s = fr.sub /\ fr.code \in {"C", "E"})
  BY <1>1 DEF ParseFrame, ParseUnknown, ParseData, ParseBaselessDelta, ParseComplete, ParseError,
              Forget
<1>7. loop[l].known /\ fr.code = "A" => fr.sub \in prev'
  BY DEF ParseFrame, ParseUnknown, ParseData, ParseBaselessDelta, ParseComplete, ParseError
<1>8. ClosingLast'
  BY <1>1, <1>4 DEF PathInv, ClosingLast
<1>9. ASSUME NEW s \in SubIds, Awaited(s)' PROVE Based(s)'
  <2>1. Based(s) /\ (Silent(s)' <=> Silent(s))
    BY <1>1, <1>9 DEF PathInv, BasesKept, Awaited, Silent
  <2>2. s = fr.sub /\ fr.code \in {"C", "E"} => Silent(s)
    BY <1>4 DEF PathInv, ClosingLast
  <2>3. Registered(s)'
    BY <1>5, <2>1, <2>2 DEF Based, Registered
  <2>4. \A n : HasBase(s, n) /\ ~Silent(s) => HasBase(s, n)'
    <3> SUFFICES ASSUME NEW n, HasBase(s, n), ~Silent(s) PROVE HasBase(s, n)'
      OBVIOUS
    <3>1. CASE s \in prev
      BY <1>6, <2>2, <3>1 DEF HasBase
    <3>2. CASE fr.sub = s /\ fr.code = "A"
      <4>1. loop[l].known
        BY <1>4, <2>1, <3>2 DEF Based, ParsedBased
      <4>2. QED
        BY <1>7, <3>2, <4>1 DEF HasBase
    <3>3. CASE \E j \in 1 .. Len(wire) : j < n /\ wire[j].sub = s /\ wire[j].code = "A"
      BY <1>1, <3>3 DEF HasBase
    <3>4. QED
      BY <1>4, <3>1, <3>2, <3>3 DEF HasBase
  <2>5. WireBased(s)'
    BY <1>1, <2>1, <2>4 DEF Based, WireBased, Silent
  <2>6. ServerBased(s)'
    BY <1>1, <2>1, <2>4 DEF Based, ServerBased, Silent
  <2>7. ParsedBased(s)'
    BY <1>4 DEF ParsedBased
  <2>8. MessageBased(s)'
    <3>1. fr.sub = s => fr.body # Null /\ (fr.code = "D" => s \in prev)
      BY <1>4, <2>1 DEF Based, ParsedBased
    <3>2. loop'[l].msg.sub = s /\ ~loop'[l].msg.error => loop'[l].msg.body # Null
      BY <1>3, <3>1 DEF Data, Fatal
    <3>3. QED
      BY <1>2, <2>1, <3>2 DEF Based, MessageBased
  <2>9. QED
    BY <2>3, <2>5, <2>6, <2>7, <2>8 DEF Based
<1>10. PagesWhole'
  BY <1>1 DEF PathInv, PagesWhole, IsPageReply
<1>11. QED
  BY <1>8, <1>9, <1>10 DEF PathInv, BasesKept

LEMMA PathSend ==
  ASSUME IInv, SafeInv, PathInv, NEW l \in LoopIds, SendMsg(l) \/ SendFatal(l),
         UNCHANGED fetchVars
  PROVE  PathInv'
<1>1. /\ loop[l].pc \notin {"none", "parse"} /\ recvChan' = Append(recvChan, loop[l].msg)
      /\ UNCHANGED <<wire, srv, prev, subs, pc, pageSub>>
  BY DEF SendMsg, SendFatal, tableVars, fetchVars
<1>2. loop \in [LoopIds -> Loop] /\ loop[l] \in Loop /\ recvChan \in Seq(Message)
  BY DEF IInv, ClientInv, ClientTypeOK
<1>3. ClosingLast' /\ BasesKept'
  <2>1. CASE SendMsg(l)
    <3> DEFINE r == [NotStarted EXCEPT !.pc = "read", !.on = IF ws = "nil" THEN 0 ELSE conn]
    <3>1. loop' = [loop EXCEPT ![l] = r] /\ r.pc = "read" /\ r.msg = Fatal
      BY <2>1 DEF SendMsg, ToRead, NotStarted
    <3> HIDE DEF r
    <3>2. QED
      BY <1>1, <3>1, PathLoopMoves
  <2>2. CASE SendFatal(l)
    <3> DEFINE r == [loop[l] EXCEPT !.pc = "exit"]
    <3>1. loop' = [loop EXCEPT ![l] = r] /\ r.pc = "exit" /\ r.msg = loop[l].msg
      BY <1>2, <2>2 DEF SendFatal, Loop
    <3> HIDE DEF r
    <3>2. QED
      BY <1>1, <3>1, PathLoopMoves
  <2>3. QED
    BY <2>1, <2>2
<1>4. PagesWhole'
  <2> DEFINE n == Len(recvChan)
  <2>1. /\ n \in Nat /\ Len(recvChan') = n + 1 /\ recvChan'[n + 1] = loop[l].msg
        /\ \A k \in 1 .. n : recvChan'[k] = recvChan[k]
    BY <1>1, <1>2, AppendProperties DEF Loop
  <2>2. \A k \in 1 .. n + 1 : k \in 1 .. n \/ k = n + 1
    BY <2>1
  <2>3. ASSUME NEW c \in Callers, pc[c] = "pageWait", IsPageReply(c, loop[l].msg)
        PROVE  loop[l].msg.body # Null
    <3>1. pageSub[c] \in SubIds /\ Awaited(pageSub[c])
      BY <2>3 DEF Awaited, IInv, CallerInv, FetchTypeOK
    <3>2. MessageBased(pageSub[c])
      BY <3>1 DEF PathInv, BasesKept, Based
    <3>3. QED
      BY <2>3, <3>2 DEF MessageBased, IsPageReply
  <2>4. ASSUME NEW c \in Callers, NEW k \in 1 .. Len(recvChan'),
               pc'[c] = "pageWait", ~recvChan'[k].error, recvChan'[k].sub = pageSub'[c]
        PROVE  recvChan'[k].body # Null
    <3>1. pc[c] = "pageWait" /\ IsPageReply(c, recvChan'[k])
      BY <1>1, <2>4 DEF IsPageReply
    <3>2. CASE k = n + 1
      BY <2>1, <2>3, <3>1, <3>2
    <3>3. CASE k \in 1 .. n
      BY <2>1, <3>1, <3>3 DEF PathInv, PagesWhole
    <3>4. QED
      BY <2>1, <2>2, <3>2, <3>3
  <2>5. QED
    BY <2>4 DEF PagesWhole, IsPageReply
<1>5. QED
  BY <1>3, <1>4 DEF PathInv

LEMMA PathLoopStep ==
  ASSUME IInv, SafeInv, PathInv, NEW l \in LoopIds, LoopStep(l), UNCHANGED fetchVars
  PROVE  PathInv'
<1>1. loop \in [LoopIds -> Loop] /\ loop[l] \in Loop
  BY DEF IInv, ClientInv, ClientTypeOK
<1>2. CASE ReadError(l)
  <2> DEFINE next == IF wsCtx = "canceled" THEN "exit" ELSE "sendFatal"
  <2> DEFINE r == [loop[l] EXCEPT !.pc = next, !.msg = Fatal]
  <2>1. /\ loop' = [loop EXCEPT ![l] = r] /\ r.pc # "parse" /\ r.msg = Fatal
        /\ loop[l].pc = "read" /\ UNCHANGED <<wire, srv, prev, subs, recvChan, pc, pageSub>>
    BY <1>1, <1>2 DEF ReadError, Loop, tableVars, chanVars, fetchVars
  <2> HIDE DEF r
  <2>2. ClosingLast' /\ BasesKept'
    BY <2>1, PathLoopMoves
  <2>3. QED
    BY <2>1, <2>2 DEF PathInv, PagesWhole, IsPageReply
<1>3. CASE ExitLoop(l)
  <2> DEFINE r == [NotStarted EXCEPT !.pc = "gone"]
  <2>1. /\ loop' = [loop EXCEPT ![l] = r] /\ r.pc = "gone" /\ r.msg = Fatal
        /\ loop[l].pc = "exit" /\ UNCHANGED <<wire, srv, prev, subs, recvChan, pc, pageSub>>
    BY <1>3 DEF ExitLoop, NotStarted, tableVars, fetchVars
  <2> HIDE DEF r
  <2>2. ClosingLast' /\ BasesKept'
    BY <2>1, PathLoopMoves
  <2>3. QED
    BY <2>1, <2>2 DEF PathInv, PagesWhole, IsPageReply
<1>4. CASE LoopPanic(l)
  <2>1. UNCHANGED <<loop, wire, srv, prev, subs, recvChan, pc, pageSub>>
    BY <1>4 DEF LoopPanic, connVars, chanVars, tableVars, fetchVars
  <2>2. QED
    BY <2>1, PathKept
<1>5. QED
  BY <1>2, <1>3, <1>4, PathReadFrame, PathParseFrame, PathSend DEF LoopStep

\* The request of an awaited subscription is a page.
LEMMA AwaitedAsked ==
  ASSUME IInv, NEW s \in SubIds, Awaited(s)
  PROVE  s < counter /\ req[s] # Null /\ req[s] \in DOMAIN Pages
  BY PagesFacts DEF Awaited, IInv, CallerInv, FetchTypeOK, CallerLabels, Given

LEMMA PathServerStep ==
  ASSUME IInv, PathInv, NEW t \in SubIds, ServerStep(t), UNCHANGED fetchVars
  PROVE  PathInv'
<1> DEFINE n == Len(wire)
<1>1. /\ UNCHANGED <<loop, prev, subs, recvChan, pc, pageSub>>
      /\ \A s \in SubIds : s # t => srv'[s] = srv[s]
      /\ srv[t] # "none"
  BY DEF ServerStep, ServerAnswer, ServerUpdate, ServerComplete, ServerError, Emit, tableVars,
         chanVars, fetchVars, IInv, ClientInv, ClientTypeOK
<1>2. PICK code \in {"A", "D", "C", "E"} :
        /\ wire' = Append(wire, [sub |-> t, code |-> code, body |-> req[t]])
        /\ code \in {"C", "E"} => srv'[t] = "none"
        /\ code = "D" => srv[t] \in {"answered", "leaving"}
        /\ srv'[t] \in {"answered", "leaving"} /\ code # "A" => srv[t] \in {"answered", "leaving"}
  BY DEF ServerStep, ServerAnswer, ServerUpdate, ServerComplete, ServerError, Emit, IInv, ClientInv,
         ClientTypeOK
<1> DEFINE fr == [sub |-> t, code |-> code, body |-> req[t]]
<1>3. fr \in Frame /\ fr.sub = t /\ fr.code = code /\ fr.body = req[t]
  BY DEF Frame, IInv, ClientInv, ClientTypeOK
<1>4. wire' = Append(wire, fr)
  BY <1>2
<1> HIDE DEF fr
<1>5. /\ n \in Nat /\ Len(wire') = n + 1 /\ wire'[n + 1] = fr
      /\ \A k \in 1 .. n : k \in 1 .. Len(wire') /\ wire'[k] = wire[k]
  BY <1>3, <1>4, WireAppend
<1>6. \A k \in 1 .. Len(wire') : k \in 1 .. n \/ k = n + 1
  BY <1>5
<1>7. \A s \in SubIds : Silent(s) => s # t /\ Silent(s)'
  BY <1>1, <1>3, <1>5, <1>6 DEF Silent
<1>8. ClosingLast'
  <2>1. ASSUME NEW j \in 1 .. Len(wire'), NEW k \in 1 .. Len(wire'), wire'[j].code \in {"C", "E"}
        PROVE  srv'[wire'[j].sub] = "none" /\ (k > j => wire'[k].sub # wire'[j].sub)
    <3>1. CASE j \in 1 .. n
      <4>1. srv[wire[j].sub] = "none" /\ wire'[j] = wire[j]
        BY <1>5, <2>1, <3>1 DEF PathInv, ClosingLast
      <4>2. wire[j].sub \in SubIds
        BY <3>1 DEF IInv, ClientInv, ClientLabels, WireLabels, Answers, Given
      <4>3. wire[j].sub # t /\ srv'[wire[j].sub] = "none"
        BY <1>1, <4>1, <4>2
      <4>4. CASE k \in 1 .. n
        BY <1>5, <2>1, <3>1, <4>1, <4>3, <4>4 DEF PathInv, ClosingLast
      <4>5. CASE k = n + 1
        BY <1>3, <1>5, <4>1, <4>3, <4>5
      <4>6. QED
        BY <1>6, <4>4, <4>5
    <3>2. CASE j = n + 1
      BY <1>2, <1>3, <1>5, <2>1, <3>2
    <3>3. QED
      BY <1>6, <3>1, <3>2
  <2>2. ASSUME NEW l \in LoopIds, NEW s \in SubIds, Parsing(l, s)', loop'[l].frame.code \in {"C", "E"}
        PROVE  Silent(s)'
    BY <1>1, <1>7, <2>2 DEF PathInv, ClosingLast, Parsing
  <2>3. QED
    BY <2>1, <2>2 DEF ClosingLast
<1>9. ASSUME NEW s \in SubIds, Awaited(s)' PROVE Based(s)'
  <2>1. Based(s) /\ Awaited(s)
    BY <1>1, <1>9 DEF PathInv, BasesKept, Awaited
  <2>2. req[s] # Null
    BY <2>1, AwaitedAsked
  <2>3. \A m : HasBase(s, m) => HasBase(s, m)'
    BY <1>1, <1>5 DEF HasBase, Parsing
  <2>4. Registered(s)'
    BY <1>1, <1>7, <2>1 DEF Based, Registered
  <2>5. WireBased(s)'
    <3> SUFFICES ASSUME NEW k \in 1 .. Len(wire'), wire'[k].sub = s
                 PROVE  wire'[k].body # Null /\ (wire'[k].code = "D" => HasBase(s, k)')
      BY DEF WireBased
    <3>1. CASE k \in 1 .. n
      BY <1>5, <2>1, <2>3, <3>1 DEF Based, WireBased
    <3>2. CASE k = n + 1
      BY <1>2, <1>3, <1>5, <2>1, <2>2, <2>3, <3>2 DEF Based, ServerBased
    <3>3. QED
      BY <1>6, <3>1, <3>2
  <2>6. ServerBased(s)'
    <3>1. ASSUME NEW m \in Nat, m = n + 2, HasBase(s, n + 1) PROVE HasBase(s, m)'
      <4>1. \A j \in 1 .. n : j < n + 1 => j < m
        BY <1>5, <3>1
      <4>2. HasBase(s, m)
        BY <1>5, <3>1, <4>1 DEF HasBase
      <4>3. QED
        BY <2>3, <4>2
    <3>2. ASSUME NEW m \in Nat, m = n + 2, s = t, code = "A" PROVE HasBase(s, m)'
      <4>1. n + 1 \in 1 .. Len(wire') /\ n + 1 < m
        BY <1>5, <3>2
      <4>2. QED
        BY <1>3, <1>5, <3>2, <4>1 DEF HasBase
    <3>3. Len(wire') + 1 = n + 2 /\ n + 2 \in Nat
      BY <1>5
    <3>4. QED
      BY <1>1, <1>2, <2>1, <3>1, <3>2, <3>3 DEF Based, ServerBased
  <2>7. ParsedBased(s)' /\ MessageBased(s)'
    BY <1>1, <2>1 DEF Based, ParsedBased, MessageBased, Parsing
  <2>8. QED
    BY <2>4, <2>5, <2>6, <2>7 DEF Based
<1>10. PagesWhole'
  BY <1>1 DEF PathInv, PagesWhole, IsPageReply
<1>11. QED
  BY <1>8, <1>9, <1>10 DEF PathInv, BasesKept

\* A subscription is dropped that no caller waits for any more.
LEMMA PathUnsubscribe ==
  ASSUME IInv, PathInv, Received, NEW t \in SubIds, Unsubscribe(t),
         UNCHANGED <<loop, wire, pageSub>>, ~Awaited(t)',
         \A c \in Callers : pc'[c] = "pageWait" => pc[c] = "pageWait"
  PROVE  PathInv'
<1>1. /\ \A s \in SubIds : s # t => (s \in prev' <=> s \in prev) /\ (s \in subs' <=> s \in subs)
      /\ \A s \in SubIds : s # t => srv'[s] = srv[s]
      /\ \A s \in SubIds : srv'[s] = "none" <=> srv[s] = "none"
  BY DEF Unsubscribe, Forget, IInv, ClientInv, ClientTypeOK
<1>2. \A s \in SubIds : Silent(s)' <=> Silent(s)
  BY <1>1 DEF Silent
<1>3. ClosingLast'
  <2>1. \A j \in 1 .. Len(wire) : wire[j].sub \in SubIds
    BY DEF IInv, ClientInv, ClientLabels, WireLabels, Answers, Given
  <2>2. QED
    BY <1>1, <1>2, <2>1 DEF PathInv, ClosingLast, Parsing
<1>4. ASSUME NEW s \in SubIds, Awaited(s)' PROVE Based(s)'
  <2>1. Based(s) /\ s # t
    BY <1>4 DEF Awaited, PathInv, BasesKept
  <2>2. \A m : HasBase(s, m)' <=> HasBase(s, m)
    BY <1>1, <2>1 DEF HasBase, Parsing
  <2>3. QED
    BY <1>1, <1>2, <2>1, <2>2 DEF Based, Registered, WireBased, ServerBased, ParsedBased, Parsing,
                                  MessageBased
<1>5. \A k \in 1 .. Len(recvChan') : \E j \in 1 .. Len(recvChan) : recvChan'[k] = recvChan[j]
  BY ChanTail
<1>6. PagesWhole'
  BY <1>5 DEF PathInv, PagesWhole, IsPageReply
<1>7. QED
  BY <1>3, <1>4, <1>6 DEF PathInv, BasesKept

\* A new subscription: nothing is on its way for it yet.
LEMMA PathRegister ==
  ASSUME IInv, PathInv, NEW body, Register(body), UNCHANGED <<loop, wire, recvChan>>,
         \A c \in Callers : pc'[c] = "pageWait" =>
             \/ pc[c] = "pageWait" /\ pageSub'[c] = pageSub[c]
             \/ pageSub'[c] = counter
  PROVE  PathInv'
<1>1. /\ counter \in SubIds /\ counter \in Nat /\ UNCHANGED prev /\ subs' = subs \cup {counter}
      /\ \A s \in SubIds : s # counter => srv'[s] = srv[s]
      /\ srv'[counter] \in {"none", "asked"}
  <2>1. counter \in SubIds /\ counter \in Nat
    BY DEF Register, IInv, ClientInv, ClientTypeOK, SubIds
  <2>2. srv[counter] = "none"
    BY <2>1 DEF IInv, ClientInv, ClientLabels, SrvLabels
  <2>3. srv \in [SubIds -> {"none", "asked", "answered", "leaving"}]
    BY DEF IInv, ClientInv, ClientTypeOK
  <2>4. QED
    BY <2>1, <2>2, <2>3 DEF Register
<1>2. /\ \A k \in 1 .. Len(wire) : wire[k].sub \in SubIds /\ wire[k].sub # counter
      /\ \A l \in LoopIds : ~Parsing(l, counter) /\ loop[l].msg.sub # counter
      /\ \A k \in 1 .. Len(recvChan) : recvChan[k].sub # counter
  <2>1. ~Given(counter) /\ counter # NoSub
    BY <1>1 DEF Given, NoSub
  <2>2. QED
    BY <2>1 DEF Parsing, IInv, ClientInv, ClientLabels, WireLabels, LoopLabels, ChanLabels, Answers,
                Given
<1>3. \A s \in SubIds : s # counter => (Silent(s)' <=> Silent(s))
  BY <1>1 DEF Silent
<1>4. ClosingLast'
  BY <1>1, <1>2, <1>3 DEF PathInv, ClosingLast, Parsing
<1>5. ASSUME NEW s \in SubIds, Awaited(s)' PROVE Based(s)'
  <2>1. \A m : HasBase(s, m)' <=> HasBase(s, m)
    BY <1>1 DEF HasBase, Parsing
  <2>2. CASE s = counter
    BY <1>1, <1>2, <2>2 DEF Based, Registered, WireBased, ServerBased, ParsedBased, Parsing,
                            MessageBased
  <2>3. CASE s # counter
    <3>1. Based(s)
      BY <1>5, <2>3 DEF Awaited, PathInv, BasesKept
    <3>2. QED
      BY <1>1, <1>3, <2>1, <2>3, <3>1 DEF Based, Registered, WireBased, ServerBased, ParsedBased,
                                          Parsing, MessageBased
  <2>4. QED
    BY <2>2, <2>3
<1>6. PagesWhole'
  BY <1>2 DEF PathInv, PagesWhole, IsPageReply
<1>7. QED
  BY <1>4, <1>5, <1>6 DEF PathInv, BasesKept

\* A new connection: no page is awaited on it.
LEMMA PathDial ==
  ASSUME IInv, SafeInv, PathInv, NEW c \in Callers, Dial(c, c \in ctxDone),
         UNCHANGED <<chanVars, panicked, ctxDone>>,
         \A d \in Callers : pc'[d] = "pageWait" => pc[d] = "pageWait"
  PROVE  PathInv'
<1>1. conn = 0
  BY DEF Dial, EndDial, SafeInv, ConnStates
<1>2. \A d \in Callers : pc'[d] # "pageWait"
  BY <1>1 DEF SafeInv, CallerStates
<1>3. \A l \in LoopIds, s \in SubIds : ~Parsing(l, s)'
  <2>1. \A l \in LoopIds : loop[l].pc = "none"
    BY <1>1 DEF SafeInv, LoopStates, LoopIds
  <2> DEFINE r == [NotStarted EXCEPT !.pc = "read", !.on = conn + 1]
  <2>2. loop' = [loop EXCEPT ![conn + 1] = r] /\ r.pc = "read"
    BY DEF Dial, NotStarted
  <2> HIDE DEF r
  <2>3. QED
    BY <2>1, <2>2 DEF Parsing, IInv, ClientInv, ClientTypeOK
<1>4. wire' = <<>>
  BY DEF Dial
<1>5. QED
  BY <1>2, <1>3, <1>4 DEF PathInv, ClosingLast, BasesKept, Awaited, PagesWhole

\* No two callers wait for the page of one subscription.
OwnPageSub ==
    \A c, d \in Callers :
        pc[c] = "pageWait" /\ pc[d] = "pageWait" /\ pageSub[c] = pageSub[d] => c = d

LEMMA NotWaiting ==
  ASSUME IInv, NEW c \in Callers, NEW label \in PCs, label # "pageWait", Goto(c, label)
  PROVE  \A d \in Callers : pc'[d] = "pageWait" => pc[d] = "pageWait" /\ d # c
  BY DEF Goto, IInv, CallerInv, FetchTypeOK

\* Which steps leave the path alone, and for whom a page is awaited after them.
LEMMA QuietStep ==
  ASSUME IInv, NEW c \in Callers,
         \/ Start(c) \/ RecvOther(c) \/ RecvPageError(c) \/ PageBroken(c) \/ PageTimeout(c)
         \/ SkipItem(c) \/ StartDetailLoop(c) \/ RecvDetailError(c) \/ RecvForeign(c)
         \/ DetailBroken(c) \/ DetailTimeout(c) \/ FinishPage(c) \/ CallerPanic(c) \/ Cancel(c)
  PROVE  /\ UNCHANGED <<loop, wire, srv, prev, subs, counter, req, pageSub>>
         /\ UNCHANGED recvChan \/ Received
         /\ \A d \in Callers : pc'[d] = "pageWait" => pc[d] = "pageWait"
<1>1. UNCHANGED pc \/ \E label \in PCs : label # "pageWait" /\ Goto(c, label)
  <2>1. CASE RecvDetailError(c)
    BY <2>1 DEF RecvDetailError, AfterCount, PCs
  <2>2. CASE \/ Start(c) \/ RecvOther(c) \/ RecvPageError(c) \/ PageBroken(c) \/ PageTimeout(c)
             \/ SkipItem(c) \/ StartDetailLoop(c) \/ RecvForeign(c) \/ DetailBroken(c)
             \/ DetailTimeout(c)
    BY <2>2 DEF Start, RecvOther, RecvPageError, PageBroken, PageTimeout, SkipItem,
                StartDetailLoop, RecvForeign, DetailBroken, DetailTimeout, Fail, PCs, fetchVars
  <2>3. CASE FinishPage(c) \/ CallerPanic(c) \/ Cancel(c)
    BY <2>3 DEF FinishPage, CallerPanic, Cancel, PCs, fetchVars
  <2>4. QED
    BY <2>1, <2>2, <2>3
<1>2. \A d \in Callers : pc'[d] = "pageWait" => pc[d] = "pageWait"
  BY <1>1, NotWaiting
<1>3. /\ UNCHANGED <<loop, wire, srv, prev, subs, counter, req, pageSub>>
      /\ UNCHANGED recvChan \/ Received
  <2>1. CASE \/ Start(c) \/ RecvOther(c) \/ RecvPageError(c) \/ PageBroken(c) \/ PageTimeout(c)
    BY <2>1 DEF Start, RecvOther, RecvPageError, PageBroken, PageTimeout, clientVars, connVars,
                tableVars, fetchVars
  <2>2. CASE \/ SkipItem(c) \/ StartDetailLoop(c) \/ RecvDetailError(c) \/ RecvForeign(c)
             \/ DetailBroken(c) \/ DetailTimeout(c)
    BY <2>2 DEF SkipItem, StartDetailLoop, RecvDetailError, RecvForeign, DetailBroken,
                DetailTimeout, clientVars, connVars, tableVars, fetchVars
  <2>3. CASE FinishPage(c) \/ CallerPanic(c) \/ Cancel(c)
    BY <2>3 DEF FinishPage, CallerPanic, Cancel, ContextEnds, clientVars, connVars, chanVars,
                tableVars, fetchVars
  <2>4. QED
    BY <2>1, <2>2, <2>3
<1>4. QED
  BY <1>2, <1>3

LEMMA PathConnect ==
  ASSUME IInv, SafeInv, PathInv, OwnPageSub, NEW c \in Callers,
         PageConnect(c) \/ DetailConnect(c)
  PROVE  PathInv' /\ OwnPageSub'
<1>1. /\ BeginDial(c, c \in ctxDone) \/ Connects(c) \/ ConnectFails(c)
      /\ UNCHANGED <<tableVars, chanVars, panicked, ctxDone, pageSub>>
  BY DEF PageConnect, DetailConnect
<1>2. UNCHANGED pc \/ \E label \in PCs : label # "pageWait" /\ Goto(c, label)
  BY DEF PageConnect, DetailConnect, Fail, PCs
<1>3. \A d \in Callers : pc'[d] = "pageWait" => pc[d] = "pageWait"
  BY <1>2, NotWaiting
<1>4. PathInv'
  <2>1. CASE Dial(c, c \in ctxDone)
    BY <1>1, <1>3, <2>1, PathDial
  <2>2. CASE BeginDial(c, c \in ctxDone) \/ AlreadyConnected \/ ConnectFails(c)
    <3>1. UNCHANGED <<loop, wire, srv, prev, subs, pageSub, recvChan>>
      BY <1>1, <2>2 DEF BeginDial, AlreadyConnected, ConnectFails, DialFails, HandshakeFails,
                        connVars, tableVars, chanVars
    <3>2. QED
      BY <1>3, <3>1, PathKept
  <2>3. QED
    BY <1>1, <2>1, <2>2 DEF Connects
<1>5. OwnPageSub'
  BY <1>1, <1>3 DEF OwnPageSub
<1>6. QED
  BY <1>4, <1>5

LEMMA PathPageSend ==
  ASSUME IInv, PathInv, OwnPageSub, NEW c \in Callers, PageSend(c)
  PROVE  PathInv' /\ OwnPageSub'
<1>1. /\ Register(cursor[c]) /\ UNCHANGED <<loop, wire, recvChan>>
      /\ pageSub' = [pageSub EXCEPT ![c] = counter]
      /\ \E label \in PCs : Goto(c, label)
  BY DEF PageSend, chanVars, Fail, PCs
<1>2. \A d \in Callers : d # c => pc'[d] = pc[d] /\ pageSub'[d] = pageSub[d]
  BY <1>1 DEF Goto, IInv, CallerInv, FetchTypeOK
<1>3. pageSub'[c] = counter
  BY <1>1 DEF IInv, CallerInv, FetchTypeOK
<1>4. PathInv'
  <2>1. \A d \in Callers : pc'[d] = "pageWait" => \/ pc[d] = "pageWait" /\ pageSub'[d] = pageSub[d]
                                                  \/ pageSub'[d] = counter
    BY <1>2, <1>3
  <2>2. QED
    BY <1>1, <2>1, PathRegister
<1>5. OwnPageSub'
  <2>1. counter \in Nat
    BY DEF IInv, ClientInv, ClientTypeOK
  <2>2. \A d \in Callers : pc[d] = "pageWait" => pageSub[d] # counter
    BY <2>1 DEF IInv, CallerInv, CallerLabels, Given, SubIds
  <2>3. QED
    BY <1>2, <1>3, <2>2 DEF OwnPageSub
<1>6. QED
  BY <1>4, <1>5

LEMMA PathRecv ==
  ASSUME IInv, PathInv, OwnPageSub, NEW c \in Callers, RecvPage(c) \/ RecvDetail(c)
  PROVE  PathInv' /\ OwnPageSub'
<1>1. \E label \in PCs : label # "pageWait" /\ Goto(c, label)
  BY DEF RecvPage, RecvDetail, AfterCount, Fail, PCs
<1>2. \A d \in Callers : pc'[d] = "pageWait" => pc[d] = "pageWait" /\ d # c
  BY <1>1, NotWaiting
<1>3. UNCHANGED <<loop, wire, pageSub>> /\ Received
  BY DEF RecvPage, RecvDetail
<1>4. CASE RecvPage(c)
  <2>1. pc[c] = "pageWait" /\ Unsubscribe(pageSub[c])
    BY <1>4 DEF RecvPage
  <2>2. pageSub[c] \in SubIds
    BY DEF IInv, CallerInv, FetchTypeOK
  <2>3. ~Awaited(pageSub[c])'
    <3> SUFFICES ASSUME NEW d \in Callers, pc'[d] = "pageWait", pageSub'[d] = pageSub[c]
                 PROVE  FALSE
      BY <1>3 DEF Awaited
    <3>1. QED
      BY <1>2, <1>3, <2>1 DEF OwnPageSub
  <2>4. \A s : s = pageSub[c] => ~Awaited(s)'
    BY <1>3, <2>3 DEF Awaited
  <2>5. QED
    BY <1>2, <1>3, <2>1, <2>2, <2>4, PathUnsubscribe DEF OwnPageSub
<1>5. CASE RecvDetail(c)
  <2> DEFINE s == Head(recvChan).sub
  <2>1. s \in SubIds /\ detailSubs[c][s] # Null /\ Unsubscribe(s)
    BY <1>5 DEF RecvDetail, IsDetailReply
  <2>2. req[s] \in Items
    BY <2>1 DEF IInv, CallerInv, CallerLabels, FetchTypeOK
  <2>3. ~Awaited(s)
    BY <2>1, <2>2, AwaitedAsked, PagesAssumption
  <2>4. \A u : u = s => ~Awaited(u)'
    <3> HIDE DEF s
    <3> QED
      BY <1>2, <1>3, <2>3 DEF Awaited
  <2> HIDE DEF s
  <2>5. QED
    BY <1>2, <1>3, <2>1, <2>4, PathUnsubscribe DEF OwnPageSub
<1>6. QED
  BY <1>4, <1>5

LEMMA PathDetailSend ==
  ASSUME IInv, PathInv, OwnPageSub, NEW c \in Callers, DetailSend(c)
  PROVE  PathInv' /\ OwnPageSub'
<1> DEFINE item == RawItems(c)[todo[c]]
<1>1. Register(item) /\ UNCHANGED <<loop, wire, recvChan, pageSub>> /\ Goto(c, "detailConnect")
  BY DEF DetailSend, chanVars
<1>2. \A d \in Callers : pc'[d] = "pageWait" => pc[d] = "pageWait"
  BY <1>1, NotWaiting DEF PCs
<1> HIDE DEF item
<1>3. PathInv'
  BY <1>1, <1>2, PathRegister
<1>4. QED
  BY <1>1, <1>2, <1>3 DEF OwnPageSub

LEMMA NextPath ==
  ASSUME IInv, SafeInv, PathInv, OwnPageSub, [Next]_vars
  PROVE  PathInv' /\ OwnPageSub'
<1>1. ASSUME UNCHANGED <<loop, wire, srv, prev, subs, pageSub>>,
             \A c \in Callers : pc'[c] = "pageWait" => pc[c] = "pageWait",
             UNCHANGED recvChan \/ Received
      PROVE  PathInv' /\ OwnPageSub'
  BY <1>1, PathKept DEF OwnPageSub
<1>2. CASE UNCHANGED vars
  BY <1>1, <1>2 DEF vars, clientVars, fetchVars
<1>3. ASSUME NEW c \in Callers, Start(c) \/ CallerStep(c) \/ Cancel(c)
      PROVE  PathInv' /\ OwnPageSub'
  <2>1. CASE PageStep(c)
    BY <1>1, <2>1, QuietStep, PathConnect, PathPageSend, PathRecv DEF PageStep
  <2>2. CASE DetailStep(c)
    BY <1>1, <2>2, QuietStep, PathConnect, PathDetailSend, PathRecv DEF DetailStep
  <2>3. CASE Start(c) \/ FinishPage(c) \/ CallerPanic(c) \/ Cancel(c)
    BY <1>1, <2>3, QuietStep
  <2>4. QED
    BY <1>3, <2>1, <2>2, <2>3 DEF CallerStep
<1>4. ASSUME UNCHANGED fetchVars PROVE OwnPageSub'
  BY <1>4 DEF OwnPageSub, fetchVars
<1>5. ASSUME NEW l \in LoopIds, LoopStep(l) /\ UNCHANGED fetchVars
      PROVE  PathInv' /\ OwnPageSub'
  BY <1>4, <1>5, PathLoopStep
<1>6. ASSUME NEW s \in SubIds, ServerStep(s) /\ UNCHANGED fetchVars
      PROVE  PathInv' /\ OwnPageSub'
  BY <1>4, <1>6, PathServerStep
<1>7. CASE (Drop \/ Close) /\ UNCHANGED fetchVars
  BY <1>1, <1>7 DEF Drop, Close, tableVars, chanVars, fetchVars
<1>8. QED
  BY <1>2, <1>3, <1>5, <1>6, <1>7 DEF Next

\* On one connection the reply a caller takes for its page has a body, whatever
\* updates, errors and lost frames surround it.
LEMMA OneConnectionWhole == Spec => [](OneConnection => PagesWhole)
<1> DEFINE J == OneConnection => PathInv /\ OwnPageSub
<1>1. Init => J
  BY InitPath DEF Init, OwnPageSub
<1>2. IInv /\ (OneConnection => SafeInv) /\ J /\ [Next]_vars => J'
  BY NextPath, OneConnectionBefore
<1>3. J => (OneConnection => PagesWhole)
  BY DEF PathInv
<1>4. QED
  <2> HIDE DEF J
  <2> QED
    BY <1>1, <1>2, <1>3, OneConnectionInvariant, LabelsInvariant, PTL DEF Spec

---------------------------------------------------------------------------
(* A server that sends nothing unasked                                     *)

\* Without updates every reply carries what its subscription asked for, and no
\* body is rebuilt from a delta.
WireExact == \A k \in 1 .. Len(wire) :
    wire[k].code # "D" /\ wire[k].body = req[wire[k].sub]
LoopExact == \A l \in LoopIds :
    /\ loop[l].pc = "parse" =>
          loop[l].frame.code # "D" /\ loop[l].frame.body = req[loop[l].frame.sub]
    /\ ~loop[l].msg.error => loop[l].msg.body = req[loop[l].msg.sub]
ChanExact == \A k \in 1 .. Len(recvChan) :
    ~recvChan[k].error => recvChan[k].body = req[recvChan[k].sub]

Exact == WireExact /\ LoopExact /\ ChanExact

LEMMA InitExact == Init => Exact
BY DEF Init, ClientInit, Exact, WireExact, LoopExact, ChanExact, NotStarted, Fatal

LEMMA RegisterKeeps ==
  ASSUME IInv, NEW body, Register(body)
  PROVE  \A s : Given(s) => req'[s] = req[s]
  BY DEF Register, Given, SubIds, IInv, ClientInv, ClientTypeOK

LEMMA ExactKept ==
  ASSUME IInv, Exact, \A s : Given(s) => req'[s] = req[s]
  PROVE  /\ UNCHANGED wire => WireExact'
         /\ UNCHANGED loop => LoopExact'
         /\ UNCHANGED recvChan \/ Received => ChanExact'
<1>1. UNCHANGED wire => WireExact'
  BY DEF Exact, WireExact, IInv, ClientInv, ClientLabels, WireLabels, Answers
<1>2. UNCHANGED loop => LoopExact'
  BY DEF Exact, LoopExact, IInv, ClientInv, ClientLabels, LoopLabels, Answers
<1>3. ASSUME UNCHANGED recvChan \/ Received PROVE ChanExact'
  <2> SUFFICES ASSUME NEW k \in 1 .. Len(recvChan'), ~recvChan'[k].error
               PROVE  recvChan'[k].body = req'[recvChan'[k].sub]
    BY DEF ChanExact
  <2>1. PICK j \in 1 .. Len(recvChan) : recvChan'[k] = recvChan[j]
    BY <1>3, ChanTail
  <2>2. Given(recvChan[j].sub)
    BY <2>1 DEF IInv, ClientInv, ClientLabels, ChanLabels, Answers
  <2>3. QED
    BY <2>1, <2>2 DEF Exact, ChanExact
<1>4. QED
  BY <1>1, <1>2, <1>3

LEMMA ExactLoopStep ==
  ASSUME IInv, Exact, NEW l \in LoopIds, LoopStep(l)
  PROVE  Exact'
<1> DEFINE fr == loop[l].frame
<1>1. loop \in [LoopIds -> Loop] /\ loop[l] \in Loop /\ recvChan \in Seq(Message)
  BY DEF IInv, ClientInv, ClientTypeOK
<1>2. UNCHANGED req
  BY DEF LoopStep, ReadFrame, ReadError, ParseFrame, SendMsg, SendFatal, ExitLoop, LoopPanic,
         tableVars
<1>3. /\ UNCHANGED wire => WireExact'
      /\ UNCHANGED loop => LoopExact'
      /\ UNCHANGED recvChan => ChanExact'
  BY <1>2, ExactKept
<1>4. ASSUME NEW r, loop' = [loop EXCEPT ![l] = r],
             r.pc = "parse" => r.frame.code # "D" /\ r.frame.body = req[r.frame.sub],
             ~r.msg.error => r.msg.body = req[r.msg.sub]
      PROVE  LoopExact'
  BY <1>1, <1>2, <1>4 DEF Exact, LoopExact
<1>5. CASE ReadFrame(l)
  <2>1. /\ wire # <<>> /\ wire' = Tail(wire) /\ UNCHANGED recvChan
    BY <1>5 DEF ReadFrame, chanVars
  <2>2. /\ Head(wire) = wire[1] /\ 1 \in 1 .. Len(wire)
        /\ \A k \in 1 .. Len(wire') : k + 1 \in 1 .. Len(wire) /\ wire'[k] = wire[k + 1]
    BY <2>1, WireTail
  <2>3. WireExact'
    BY <1>2, <2>2 DEF Exact, WireExact
  <2> DEFINE r == [loop[l] EXCEPT !.pc = "parse", !.frame = Head(wire),
                                  !.known = (Head(wire).sub \in subs)]
  <2>4. /\ loop' = [loop EXCEPT ![l] = r] /\ r.frame = wire[1] /\ r.msg = loop[l].msg
    BY <1>1, <1>5, <2>2 DEF ReadFrame, Loop
  <2>5. wire[1].code # "D" /\ wire[1].body = req[wire[1].sub]
    BY <2>2 DEF Exact, WireExact
  <2>6. ~loop[l].msg.error => loop[l].msg.body = req[loop[l].msg.sub]
    BY DEF Exact, LoopExact
  <2> HIDE DEF r
  <2>7. LoopExact'
    BY <1>4, <2>4, <2>5, <2>6
  <2>8. QED
    BY <1>3, <2>1, <2>3, <2>7 DEF Exact
<1>6. CASE ParseFrame(l)
  <2>1. /\ loop[l].pc = "parse" /\ UNCHANGED <<wire, recvChan>>
    BY <1>6 DEF ParseFrame, chanVars
  <2>2. fr.code # "D" /\ fr.body = req[fr.sub]
    BY <2>1 DEF Exact, LoopExact
  <2>3. /\ loop'[l].pc # "parse"
        /\ loop'[l].msg.error \/ loop'[l].msg = Data(fr, fr.body)
        /\ \A k \in LoopIds : k # l => loop'[k] = loop[k]
    <3>1. CASE ParseUnknown(l) \/ ParseComplete(l)
      <4>1. /\ loop'[l].pc # "parse" /\ loop'[l].msg = Fatal
            /\ \A k \in LoopIds : k # l => loop'[k] = loop[k]
        BY <1>1, <3>1 DEF ParseUnknown, ParseComplete, ToFatal, ToRead, NotStarted
      <4>2. QED
        BY <4>1 DEF Fatal
    <3>2. CASE ParseData(l)
      BY <1>1, <3>2 DEF ParseData, ToSend, NotStarted
    <3>3. CASE ParseError(l)
      <4>1. \/ loop' = ToSend(l, [sub |-> fr.sub, error |-> TRUE, body |-> Null])
            \/ loop' = ToFatal(l)
        BY <3>3 DEF ParseError
      <4>2. CASE loop' = ToSend(l, [sub |-> fr.sub, error |-> TRUE, body |-> Null])
        BY <1>1, <4>2 DEF ToSend, NotStarted
      <4>3. CASE loop' = ToFatal(l)
        <5>1. /\ loop'[l].pc = "sendFatal" /\ loop'[l].msg = Fatal
              /\ \A k \in LoopIds : k # l => loop'[k] = loop[k]
          BY <1>1, <4>3 DEF ToFatal, NotStarted
        <5>2. QED
          BY <5>1 DEF Fatal
      <4>4. QED
        BY <4>1, <4>2, <4>3
    <3>4. ~ParseBaselessDelta(l)
      BY <2>2 DEF ParseBaselessDelta
    <3>5. QED
      BY <1>6, <3>1, <3>2, <3>3, <3>4 DEF ParseFrame
  <2>4. LoopExact'
    BY <1>2, <2>2, <2>3 DEF Exact, LoopExact, Data
  <2>5. QED
    BY <1>3, <2>1, <2>4 DEF Exact
<1>7. CASE SendMsg(l) \/ SendFatal(l)
  <2>1. UNCHANGED wire /\ recvChan' = Append(recvChan, loop[l].msg)
    BY <1>7 DEF SendMsg, SendFatal
  <2>2. ~loop[l].msg.error => loop[l].msg.body = req[loop[l].msg.sub]
    BY DEF Exact, LoopExact
  <2>3. /\ Len(recvChan) \in Nat /\ Len(recvChan') = Len(recvChan) + 1
        /\ recvChan'[Len(recvChan) + 1] = loop[l].msg
        /\ \A k \in 1 .. Len(recvChan) : recvChan'[k] = recvChan[k]
    BY <1>1, <2>1, AppendProperties DEF Loop
  <2>4. \A k \in 1 .. Len(recvChan') : k \in 1 .. Len(recvChan) \/ k = Len(recvChan) + 1
    BY <2>3
  <2>5. ChanExact'
    BY <1>2, <2>2, <2>3, <2>4 DEF Exact, ChanExact
  <2>6. CASE SendMsg(l)
    <3> DEFINE r == [NotStarted EXCEPT !.pc = "read", !.on = IF ws = "nil" THEN 0 ELSE conn]
    <3>1. loop' = [loop EXCEPT ![l] = r] /\ r.pc = "read" /\ r.msg.error
      BY <2>6 DEF SendMsg, ToRead, NotStarted, Fatal
    <3> HIDE DEF r
    <3>2. QED
      BY <1>3, <1>4, <2>1, <2>5, <3>1 DEF Exact
  <2>7. CASE SendFatal(l)
    <3> DEFINE r == [loop[l] EXCEPT !.pc = "exit"]
    <3>1. loop' = [loop EXCEPT ![l] = r] /\ r.pc = "exit" /\ r.msg = loop[l].msg
      BY <1>1, <2>7 DEF SendFatal, Loop
    <3> HIDE DEF r
    <3>2. QED
      BY <1>3, <1>4, <2>1, <2>2, <2>5, <3>1 DEF Exact
  <2>8. QED
    BY <1>7, <2>6, <2>7
<1>8. CASE ReadError(l)
  <2> DEFINE next == IF wsCtx = "canceled" THEN "exit" ELSE "sendFatal"
  <2> DEFINE r == [loop[l] EXCEPT !.pc = next, !.msg = Fatal]
  <2>1. /\ loop' = [loop EXCEPT ![l] = r] /\ r.pc # "parse" /\ r.msg.error
        /\ UNCHANGED <<wire, recvChan>>
    BY <1>1, <1>8 DEF ReadError, Loop, Fatal, chanVars
  <2> HIDE DEF r
  <2>2. QED
    BY <1>3, <1>4, <2>1 DEF Exact
<1>9. CASE ExitLoop(l)
  <2> DEFINE r == [NotStarted EXCEPT !.pc = "gone"]
  <2>1. /\ loop' = [loop EXCEPT ![l] = r] /\ r.pc # "parse" /\ r.msg.error
        /\ UNCHANGED <<wire, recvChan>>
    BY <1>9 DEF ExitLoop, NotStarted, Fatal
  <2> HIDE DEF r
  <2>2. QED
    BY <1>3, <1>4, <2>1 DEF Exact
<1>10. CASE LoopPanic(l)
  BY <1>3, <1>10 DEF LoopPanic, connVars, chanVars, Exact
<1>11. QED
  BY <1>5, <1>6, <1>7, <1>8, <1>9, <1>10 DEF LoopStep

LEMMA ExactServerStep ==
  ASSUME IInv, Exact, NEW s \in SubIds, ServerStep(s), updates' = 0
  PROVE  Exact'
<1>1. ~ServerUpdate(s)
  BY DEF ServerUpdate, Update, IInv, ClientInv, ClientTypeOK
<1>2. PICK code \in {"A", "C", "E"} : wire' = Append(wire, [sub |-> s, code |-> code, body |-> req[s]])
  BY <1>1 DEF ServerStep, ServerAnswer, ServerComplete, ServerError, Emit
<1>3. UNCHANGED <<loop, recvChan, req>>
  BY DEF ServerStep, ServerAnswer, ServerUpdate, ServerComplete, ServerError, Emit, chanVars,
         tableVars
<1> DEFINE fr == [sub |-> s, code |-> code, body |-> req[s]]
<1>4. fr \in Frame /\ fr.code # "D" /\ fr.body = req[fr.sub] /\ wire' = Append(wire, fr)
  BY <1>2 DEF Frame, IInv, ClientInv, ClientTypeOK
<1> HIDE DEF fr
<1>5. /\ Len(wire) \in Nat /\ Len(wire') = Len(wire) + 1 /\ wire'[Len(wire) + 1] = fr
      /\ \A k \in 1 .. Len(wire) : wire'[k] = wire[k]
  BY <1>4, WireAppend
<1>6. \A k \in 1 .. Len(wire') : k \in 1 .. Len(wire) \/ k = Len(wire) + 1
  BY <1>5
<1>7. WireExact'
  BY <1>3, <1>4, <1>5, <1>6 DEF Exact, WireExact
<1>8. QED
  BY <1>3, <1>7, ExactKept DEF Exact

LEMMA ExactConnect ==
  ASSUME IInv, Exact, NEW c \in Callers, PageConnect(c) \/ DetailConnect(c)
  PROVE  Exact'
<1>1. /\ BeginDial(c, c \in ctxDone) \/ Connects(c) \/ ConnectFails(c)
      /\ UNCHANGED <<req, recvChan>>
  BY DEF PageConnect, DetailConnect, tableVars, chanVars
<1>2. /\ UNCHANGED wire => WireExact'
      /\ UNCHANGED loop => LoopExact'
      /\ ChanExact'
  BY <1>1, ExactKept
<1>3. CASE Dial(c, c \in ctxDone)
  <2> DEFINE r == [NotStarted EXCEPT !.pc = "read", !.on = conn + 1]
  <2>1. /\ loop' = [loop EXCEPT ![conn + 1] = r] /\ r.pc = "read" /\ r.msg.error
        /\ wire' = <<>>
    BY <1>3 DEF Dial, NotStarted, Fatal
  <2> HIDE DEF r
  <2>2. WireExact'
    BY <2>1 DEF WireExact
  <2>3. LoopExact'
    BY <1>1, <2>1 DEF Exact, LoopExact, IInv, ClientInv, ClientTypeOK
  <2>4. QED
    BY <1>2, <2>2, <2>3 DEF Exact
<1>4. CASE BeginDial(c, c \in ctxDone) \/ AlreadyConnected \/ ConnectFails(c)
  BY <1>2, <1>4 DEF BeginDial, AlreadyConnected, ConnectFails, DialFails, HandshakeFails, connVars,
                    Exact
<1>5. QED
  BY <1>1, <1>3, <1>4 DEF Connects

LEMMA NextExact ==
  ASSUME IInv, Exact, [Next]_vars, updates' = 0
  PROVE  Exact'
<1>1. ASSUME UNCHANGED <<loop, wire, req>>, UNCHANGED recvChan \/ Received PROVE Exact'
  BY <1>1, ExactKept DEF Exact
<1>2. ASSUME NEW c \in Callers, Start(c) \/ CallerStep(c) \/ Cancel(c) PROVE Exact'
  <2>1. CASE PageConnect(c) \/ DetailConnect(c)
    BY <2>1, ExactConnect
  <2>2. CASE PageSend(c) \/ DetailSend(c)
    <3>1. UNCHANGED <<loop, wire, recvChan>> /\ \E body : Register(body)
      BY <2>2 DEF PageSend, DetailSend, chanVars
    <3>2. \A s : Given(s) => req'[s] = req[s]
      BY <3>1, RegisterKeeps
    <3>3. QED
      BY <3>1, <3>2, ExactKept DEF Exact
  <2>3. CASE RecvPage(c) \/ RecvDetail(c)
    BY <1>1, <2>3 DEF RecvPage, RecvDetail, Unsubscribe
  <2>4. CASE Start(c) \/ FinishPage(c) \/ CallerPanic(c) \/ Cancel(c)
    BY <1>1, <2>4, QuietStep
  <2>5. CASE PageStep(c)
    BY <1>1, <2>1, <2>2, <2>3, <2>5, QuietStep DEF PageStep
  <2>6. CASE DetailStep(c)
    BY <1>1, <2>1, <2>2, <2>3, <2>6, QuietStep DEF DetailStep
  <2>7. QED
    BY <1>2, <2>4, <2>5, <2>6 DEF CallerStep
<1>3. ASSUME NEW l \in LoopIds, LoopStep(l) PROVE Exact'
  BY <1>3, ExactLoopStep
<1>4. ASSUME NEW s \in SubIds, ServerStep(s) PROVE Exact'
  BY <1>4, ExactServerStep
<1>5. CASE Drop \/ Close
  BY <1>1, <1>5 DEF Drop, Close, chanVars, tableVars
<1>6. CASE UNCHANGED vars
  BY <1>1, <1>6 DEF vars, clientVars
<1>7. QED
  BY <1>2, <1>3, <1>4, <1>5, <1>6 DEF Next

\* Until the server sends something unasked, every reply is the whole answer,
\* for any number of callers and connections.
THEOREM ExactReplies == Spec => [](updates = 0 => Exact)
<1>1. IInv /\ [Next]_vars /\ updates' = 0 => updates = 0
  <2> SUFFICES ASSUME IInv, [Next]_vars, updates' = 0 PROVE updates = 0
    OBVIOUS
  <2>1. updates \in Nat /\ updates <= updates'
    BY MishapsGrow DEF IInv, ClientInv, ClientTypeOK
  <2>2. QED
    BY <2>1
<1>2. IInv /\ (updates = 0 => Exact) /\ [Next]_vars => (updates = 0 => Exact)'
  BY <1>1, NextExact
<1>3. QED
  BY <1>2, InitExact, LabelsInvariant, PTL DEF Spec

---------------------------------------------------------------------------
(* The refinement of PagedFetch                                            *)

\* A page reply has a body on one connection, and on any while the server sends
\* no updates.  With updates and a second receive loop a delta may lose its
\* base and a page come out nil.
LEMMA PagesComeWhole == Spec => [](OneConnection \/ updates = 0 => PagesWhole)
<1>1. IInv /\ Exact => PagesWhole
  <2> SUFFICES ASSUME IInv, Exact, NEW c \in Callers, NEW k \in 1 .. Len(recvChan),
                      pc[c] = "pageWait", IsPageReply(c, recvChan[k])
               PROVE  recvChan[k].body # Null
    BY DEF PagesWhole
  <2>1. recvChan[k].body = req[pageSub[c]]
    BY DEF Exact, ChanExact, IsPageReply
  <2>2. req[pageSub[c]] \in DOMAIN Pages
    BY DEF IInv, CallerInv, CallerLabels, FetchTypeOK
  <2>3. QED
    BY <2>1, <2>2, PagesFacts
<1>2. QED
  BY <1>1, OneConnectionWhole, ExactReplies, LabelsInvariant, PTL

\* A caller is at the page its count of reported pages says, and holds that page
\* from its reply until it is reported.
Progress == \A c \in Callers :
    /\ pc[c] \notin {"ok", "error"} => pageNo[c] + 1 = cursor[c]
    /\ pc[c] \in {"detailConnect", "detailSend", "detailWait", "assemble"} => got[c] = cursor[c]

LEMMA InitProgress == Init => Progress
BY DEF Init, Progress

\* The ways a caller's program counter, pages and result change.
Moves(c, label) == Running(c) /\ Goto(c, label) /\ UNCHANGED <<out, pageNo, cursor>>
GivesUp(c)      == Running(c) /\ Fail(c) /\ UNCHANGED <<pageNo, cursor>>

LEMMA CallerShape ==
  ASSUME IInv, NEW c \in Callers, CallerStep(c)
  PROVE  \/ UNCHANGED <<pc, out, pageNo, cursor, got>>
         \/ UNCHANGED got /\ \E label \in {"pageSend", "pageWait"} : Moves(c, label)
         \/ RecvPage(c) /\ Moves(c, "detailConnect")
         \/ /\ UNCHANGED got /\ pc[c] \in {"detailConnect", "detailSend", "detailWait"}
            /\ \E label \in {"detailConnect", "detailSend", "detailWait", "assemble"} :
                  Moves(c, label)
         \/ GivesUp(c) /\ (UNCHANGED got \/ RecvPage(c))
         \/ FinishPage(c)
<1> USE DEF Moves, GivesUp, Running
<1>1. CASE PageConnect(c) \/ PageSend(c)
  BY <1>1 DEF PageConnect, PageSend
<1>2. CASE RecvPage(c)
  BY <1>2 DEF RecvPage
<1>3. CASE RecvOther(c) \/ RecvPageError(c) \/ PageBroken(c) \/ PageTimeout(c)
  BY <1>3 DEF RecvOther, RecvPageError, PageBroken, PageTimeout, fetchVars
<1>4. CASE SkipItem(c) \/ DetailConnect(c) \/ DetailSend(c)
  BY <1>4 DEF SkipItem, DetailConnect, DetailSend
<1>5. CASE StartDetailLoop(c) \/ DetailBroken(c) \/ DetailTimeout(c)
  BY <1>5 DEF StartDetailLoop, DetailBroken, DetailTimeout
<1>6. CASE RecvDetail(c) \/ RecvDetailError(c)
  BY <1>6 DEF RecvDetail, RecvDetailError, AfterCount
<1>7. CASE RecvForeign(c) \/ CallerPanic(c)
  BY <1>7 DEF RecvForeign, CallerPanic, fetchVars
<1>8. QED
  BY <1>1, <1>2, <1>3, <1>4, <1>5, <1>6, <1>7 DEF CallerStep, PageStep, DetailStep

\* What a step that is no caller's leaves alone.
LEMMA OtherShape ==
  ASSUME [Next]_vars, ~\E c \in Callers : Start(c) \/ CallerStep(c)
  PROVE  UNCHANGED <<pc, out, pageNo, cursor, got>>
  BY DEF Next, Cancel, vars, fetchVars

\* The page a caller takes is the one its cursor asked for.
LEMMA WholePage ==
  ASSUME IInv, PagesWhole, NEW c \in Callers, RecvPage(c)
  PROVE  Head(recvChan).body = cursor[c]
<1>1. UNCHANGED <<counter, req>> /\ pc[c] = "pageWait" /\ Received /\ IsPageReply(c, Head(recvChan))
  BY DEF RecvPage, Unsubscribe
<1>2. Head(recvChan).body \in {cursor[c], Null}
  BY <1>1, PageReply
<1>3. Head(recvChan) = recvChan[1] /\ 1 \in 1 .. Len(recvChan)
  BY <1>1 DEF Received, IInv, ClientInv, ClientTypeOK
<1>4. QED
  BY <1>1, <1>2, <1>3 DEF PagesWhole

\* At the end of a page: what is appended, and whether it is the last.
LEMMA PageEnd ==
  ASSUME IInv, Progress, NEW c \in Callers, pc[c] = "assemble"
  PROVE  /\ cursor[c] = pageNo[c] + 1 /\ cursor[c] \in 1 .. Len(Pages)
         /\ RawItems(c) = Pages[cursor[c]]
         /\ LastPage(c) <=> cursor[c] = Len(Pages)
         /\ ~LastPage(c) => NextCursor(c) = cursor[c] + 1
<1>1. cursor[c] = pageNo[c] + 1 /\ got[c] = cursor[c] /\ cursor[c] \in DOMAIN Pages
  BY DEF Progress, IInv, CallerInv, FetchTypeOK
<1>2. cursor[c] \in 1 .. Len(Pages) /\ cursor[c] # Null /\ cursor[c] + 1 \in Nat
  BY <1>1, PagesFacts
<1>3. RawItems(c) = Pages[cursor[c]]
  BY <1>1, <1>2 DEF RawItems
<1>4. cursor[c] # Len(Pages) => Pages[cursor[c]] # <<>> /\ cursor[c] + 1 \in DOMAIN Pages
  <2>1. \A p \in DOMAIN Pages : p < Len(Pages) => Pages[p] # <<>>
    BY PagesAssumption
  <2>2. cursor[c] # Len(Pages) => cursor[c] < Len(Pages) /\ cursor[c] + 1 \in DOMAIN Pages
    BY <1>2, PagesFacts
  <2>3. QED
    BY <1>1, <2>1, <2>2
<1>5. NextCursor(c) = IF cursor[c] = Len(Pages) THEN Null ELSE cursor[c] + 1
  BY <1>1, <1>2 DEF NextCursor
<1>6. cursor[c] # Len(Pages) => cursor[c] + 1 # Null
  BY <1>4, PagesFacts
<1>7. QED
  BY <1>1, <1>2, <1>3, <1>4, <1>5, <1>6 DEF LastPage

LEMMA NextProgress ==
  ASSUME IInv, PagesWhole, Progress, [Next]_vars
  PROVE  Progress'
<1>1. /\ pc \in [Callers -> PCs] /\ got \in [Callers -> DOMAIN Pages \cup {Null}]
      /\ cursor \in [Callers -> DOMAIN Pages] /\ pageNo \in [Callers -> Nat]
  BY DEF IInv, CallerInv, FetchTypeOK
<1>2. CASE UNCHANGED <<pc, out, pageNo, cursor, got>>
  BY <1>2 DEF Progress
<1>3. ASSUME NEW c \in Callers, Start(c) PROVE Progress'
  BY <1>1, <1>3 DEF Start, Goto, Progress
<1>4. ASSUME NEW c \in Callers, GivesUp(c), UNCHANGED got \/ RecvPage(c) PROVE Progress'
  BY <1>1, <1>4 DEF GivesUp, Fail, Goto, RecvPage, Progress
<1>5. ASSUME NEW c \in Callers, RecvPage(c), Moves(c, "detailConnect") PROVE Progress'
  <2>1. got' = [got EXCEPT ![c] = cursor[c]]
    BY <1>5, WholePage DEF RecvPage
  <2>2. QED
    BY <1>1, <1>5, <2>1 DEF Moves, Running, Goto, Progress
<1>6. ASSUME NEW c \in Callers, FinishPage(c) PROVE Progress'
  <2>1. /\ cursor[c] = pageNo[c] + 1 /\ pc[c] = "assemble"
        /\ ~LastPage(c) => NextCursor(c) = cursor[c] + 1
    BY <1>6, PageEnd DEF FinishPage
  <2>2. pageNo' = [pageNo EXCEPT ![c] = @ + 1] /\ got' = [got EXCEPT ![c] = Null]
    BY <1>6 DEF FinishPage
  <2>3. CASE Goto(c, "ok") /\ UNCHANGED cursor
    BY <1>1, <2>2, <2>3 DEF Goto, Progress
  <2>4. CASE Goto(c, "pageConnect") /\ cursor' = [cursor EXCEPT ![c] = cursor[c] + 1]
    BY <1>1, <2>1, <2>2, <2>4 DEF Goto, Progress
  <2>5. QED
    BY <1>6, <2>1, <2>3, <2>4 DEF FinishPage
<1>7. ASSUME NEW c \in Callers, CallerStep(c) PROVE Progress'
  <2>1. ASSUME NEW label \in {"pageSend", "pageWait"}, Moves(c, label), UNCHANGED got
        PROVE  Progress'
    BY <1>1, <2>1 DEF Moves, Running, Goto, Progress
  <2>2. ASSUME NEW label \in {"detailConnect", "detailSend", "detailWait", "assemble"},
               Moves(c, label), UNCHANGED got,
               pc[c] \in {"detailConnect", "detailSend", "detailWait"}
        PROVE  Progress'
    BY <1>1, <2>2 DEF Moves, Running, Goto, Progress
  <2>3. QED
    BY <1>2, <1>4, <1>5, <1>6, <1>7, <2>1, <2>2, CallerShape
<1>8. QED
  BY <1>2, <1>3, <1>7, OtherShape

\* The timeline events of a result.
ItemsOf(o) == [k \in DOMAIN o |-> o[k].item]

\* A concatenation as a function.
LEMMA ConcatAsFunction ==
  ASSUME NEW S, NEW x \in Seq(S), NEW p \in Seq(S)
  PROVE  /\ Len(x) \in Nat /\ Len(p) \in Nat
         /\ x \o p = [k \in 1 .. Len(x) + Len(p) |->
                         IF k <= Len(x) THEN x[k] ELSE p[k - Len(x)]]
<1>1. /\ x \o p \in Seq(S) /\ Len(x \o p) = Len(x) + Len(p)
      /\ \A k \in 1 .. Len(x) + Len(p) :
            (x \o p)[k] = IF k <= Len(x) THEN x[k] ELSE p[k - Len(x)]
  BY ConcatProperties
<1>2. x \o p \in [1 .. Len(x) + Len(p) -> S] /\ Len(x) \in Nat /\ Len(p) \in Nat
  BY <1>1, LenProperties
<1>3. x \o p = [k \in 1 .. Len(x) + Len(p) |-> (x \o p)[k]]
  BY <1>2
<1>4. QED
  BY <1>1, <1>2, <1>3

LEMMA ItemsOfConcat ==
  ASSUME NEW o \in Seq(Event), NEW a \in Seq(Event), NEW p \in Seq(AllItems), Len(a) = Len(p),
         \A k \in 1 .. Len(p) : a[k].item = p[k]
  PROVE  ItemsOf(o \o a) = ItemsOf(o) \o p
<1>1. /\ DOMAIN o = 1 .. Len(o) /\ DOMAIN a = 1 .. Len(a) /\ Len(o) \in Nat /\ Len(a) \in Nat
      /\ o \o a \in Seq(Event) /\ Len(o \o a) = Len(o) + Len(a)
      /\ \A k \in 1 .. Len(o) + Len(a) :
            (o \o a)[k] = IF k <= Len(o) THEN o[k] ELSE a[k - Len(o)]
  BY ConcatProperties, LenProperties
<1>2. ItemsOf(o) \in Seq(AllItems) /\ Len(ItemsOf(o)) = Len(o)
      /\ \A k \in 1 .. Len(o) : ItemsOf(o)[k] = o[k].item
  <2> DEFINE x == ItemsOf(o)
  <2>1. \A k \in 1 .. Len(o) : o[k] \in Event
    BY <1>1
  <2>2. \A k \in 1 .. Len(o) : o[k].item \in AllItems
    BY <2>1 DEF Event
  <2>3. ItemsOf(o) = [k \in 1 .. Len(o) |-> o[k].item]
    BY <1>1 DEF ItemsOf
  <2>4. [k \in 1 .. Len(o) |-> o[k].item] \in Seq(AllItems)
    BY <1>1, <2>2
  <2>5. x \in Seq(AllItems) /\ DOMAIN x = 1 .. Len(o)
    BY <2>3, <2>4
  <2>6. \A k \in 1 .. Len(o) : x[k] = o[k].item
    BY <2>3
  <2> HIDE DEF x
  <2>7. Len(x) = Len(o)
    BY <1>1, <2>5
  <2>8. x \in Seq(AllItems) /\ Len(x) = Len(o) /\ \A k \in 1 .. Len(o) : x[k] = o[k].item
    BY <2>5, <2>6, <2>7
  <2>9. QED
    BY <2>8 DEF x
<1>3. ItemsOf(o) \o p =
          [k \in 1 .. Len(o) + Len(a) |-> IF k <= Len(o) THEN o[k].item ELSE p[k - Len(o)]]
  <2>1. PICK x \in Seq(AllItems) : x = ItemsOf(o)
    BY <1>2
  <2>2. x \o p = [k \in 1 .. Len(x) + Len(p) |-> IF k <= Len(x) THEN x[k] ELSE p[k - Len(x)]]
    BY ConcatAsFunction
  <2>3. \A k \in 1 .. Len(o) + Len(p) : k <= Len(o) => k \in 1 .. Len(o)
    BY <1>1
  <2>4. Len(x) = Len(o) /\ \A k \in 1 .. Len(o) : x[k] = o[k].item
    BY <1>2, <2>1
  <2>5. x \o p =
          [k \in 1 .. Len(o) + Len(a) |-> IF k <= Len(o) THEN o[k].item ELSE p[k - Len(o)]]
    BY <2>2, <2>3, <2>4
  <2>6. QED
    BY <2>1, <2>5
<1>4. DOMAIN ItemsOf(o \o a) = 1 .. Len(o) + Len(a)
  BY <1>1, LenProperties DEF ItemsOf
<1>5. ItemsOf(o \o a) =
          [k \in 1 .. Len(o) + Len(a) |-> IF k <= Len(o) THEN o[k].item ELSE p[k - Len(o)]]
  <2>1. ASSUME NEW k \in 1 .. Len(o) + Len(a)
        PROVE  (o \o a)[k].item = IF k <= Len(o) THEN o[k].item ELSE p[k - Len(o)]
    <3>1. CASE k <= Len(o)
      BY <1>1, <3>1
    <3>2. CASE ~(k <= Len(o))
      <4>1. k - Len(o) \in 1 .. Len(p)
        BY <1>1, <3>2
      <4>2. QED
        BY <1>1, <3>2, <4>1
    <3>3. QED
      BY <3>1, <3>2
  <2>2. QED
    BY <1>4, <2>1 DEF ItemsOf
<1>6. QED
  BY <1>3, <1>5

LEMMA NextPaged ==
  ASSUME IInv, Progress, [Next]_vars
  PROVE  [Paged!Next]_(Paged!vars)
<1> DEFINE taken == pageNo
<1> DEFINE delivered == [c \in Callers |-> ItemsOf(out[c])]
<1> DEFINE status == [c \in Callers |-> Status(c)]
<1>1. /\ pc \in [Callers -> PCs] /\ out \in [Callers -> Seq(Event)]
      /\ cursor \in [Callers -> DOMAIN Pages] /\ pageNo \in [Callers -> Nat]
  BY DEF IInv, CallerInv, FetchTypeOK
<1>2. taken' = taken /\ delivered' = delivered /\ status' = status => UNCHANGED Paged!vars
  BY DEF Paged!vars, ItemsOf
<1>3. ASSUME UNCHANGED <<pc, out, pageNo, cursor, got>> PROVE UNCHANGED Paged!vars
  <2>1. \A d \in Callers : Status(d)' = Status(d)
    BY <1>3 DEF Status
  <2>2. taken' = taken /\ delivered' = delivered /\ status' = status
    BY <1>3, <2>1
  <2>3. QED
    BY <1>2, <2>2
<1>4. ASSUME NEW c \in Callers, NEW label \in PCs \ {"idle", "ok", "error"}, Moves(c, label)
      PROVE  UNCHANGED Paged!vars
  <2>1. \A d \in Callers : Status(d)' = Status(d)
    BY <1>1, <1>4 DEF Moves, Running, Goto, Status
  <2>2. taken' = taken /\ delivered' = delivered /\ status' = status
    BY <1>4, <2>1 DEF Moves
  <2>3. QED
    BY <1>2, <2>2
<1>5. ASSUME NEW c \in Callers, Start(c) PROVE Paged!Begin(c)
  <2>1. status' = [status EXCEPT ![c] = "running"] /\ status[c] = "idle"
    BY <1>1, <1>5 DEF Start, Goto, Status
  <2>2. UNCHANGED <<taken, delivered>>
    BY <1>5 DEF Start
  <2>3. QED
    BY <2>1, <2>2 DEF Paged!Begin, ItemsOf
<1>6. ASSUME NEW c \in Callers, GivesUp(c) PROVE Paged!GiveUp(c)
  <2>1. status' = [status EXCEPT ![c] = "error"] /\ status[c] = "running"
    BY <1>1, <1>6 DEF GivesUp, Running, Fail, Goto, Status
  <2>2. ItemsOf(<<>>) = <<>>
    BY DEF ItemsOf
  <2>3. delivered' = [delivered EXCEPT ![c] = <<>>]
    BY <1>1, <1>6, <2>2 DEF GivesUp, Fail
  <2>4. UNCHANGED taken
    BY <1>6 DEF GivesUp
  <2>5. QED
    BY <2>1, <2>3, <2>4 DEF Paged!GiveUp, ItemsOf
<1>7. ASSUME NEW c \in Callers, FinishPage(c) PROVE Paged!TakePage(c)
  <2>1. /\ pc[c] = "assemble" /\ pageNo' = [pageNo EXCEPT ![c] = @ + 1]
        /\ out' = [out EXCEPT ![c] = @ \o Assembled(c)]
        /\ IF LastPage(c) THEN Goto(c, "ok") ELSE Goto(c, "pageConnect")
    BY <1>7 DEF FinishPage
  <2>2. /\ cursor[c] = pageNo[c] + 1 /\ cursor[c] \in 1 .. Len(Pages)
        /\ RawItems(c) = Pages[cursor[c]]
        /\ LastPage(c) <=> cursor[c] = Len(Pages)
    BY <2>1, PageEnd
  <2>3. taken[c] < Len(Pages)
    BY <1>1, <2>2, PagesFacts
  <2>4. status[c] = "running"
    BY <2>1 DEF Status
  <2>5. status' = IF taken[c] + 1 = Len(Pages) THEN [status EXCEPT ![c] = "ok"] ELSE status
    <3>1. CASE LastPage(c)
      BY <1>1, <2>1, <2>2, <3>1 DEF Goto, Status
    <3>2. CASE ~LastPage(c)
      <4>1. \A d \in Callers : Status(d)' = Status(d)
        BY <1>1, <2>1, <3>2 DEF Goto, Status
      <4>2. QED
        BY <2>2, <3>2, <4>1
    <3>3. QED
      BY <3>1, <3>2
  <2>6. ItemsOf(out[c] \o Assembled(c)) = ItemsOf(out[c]) \o Pages[taken[c] + 1]
    <3>1. out[c] \in Seq(Event) /\ Assembled(c) \in Seq(Event)
      BY <1>1, AssembledTyped DEF IInv
    <3>2. Pages[cursor[c]] \in Seq(AllItems)
      BY <1>1, PagesFacts
    <3>3. /\ Len(Assembled(c)) = Len(Pages[cursor[c]])
          /\ \A k \in 1 .. Len(Pages[cursor[c]]) : Assembled(c)[k].item = Pages[cursor[c]][k]
      <4> DEFINE page == Pages[cursor[c]]
      <4> DEFINE made == Assembled(c)
      <4>1. DOMAIN made = DOMAIN page /\ \A k \in DOMAIN page : made[k].item = page[k]
        BY <2>2 DEF Assembled
      <4>2. made \in Seq(Event) /\ page \in Seq(AllItems)
        BY <3>1, <3>2
      <4> HIDE DEF made, page
      <4>3. DOMAIN page = 1 .. Len(page) /\ DOMAIN made = 1 .. Len(made)
            /\ Len(page) \in Nat /\ Len(made) \in Nat
        BY <4>2, LenProperties
      <4>4. Len(made) = Len(page)
        BY <4>1, <4>3
      <4>5. QED
        BY <4>1, <4>3, <4>4 DEF made, page
    <3>4. PICK o \in Seq(Event), a \in Seq(Event), p \in Seq(AllItems) :
              o = out[c] /\ a = Assembled(c) /\ p = Pages[cursor[c]]
      BY <3>1, <3>2
    <3>5. Len(a) = Len(p) /\ \A k \in 1 .. Len(p) : a[k].item = p[k]
      BY <3>3, <3>4
    <3>6. ItemsOf(o \o a) = ItemsOf(o) \o p
      BY <3>5, ItemsOfConcat
    <3>7. taken[c] + 1 = cursor[c]
      BY <2>2
    <3>8. QED
      BY <3>4, <3>6, <3>7
  <2>7. delivered' = [delivered EXCEPT ![c] = @ \o Pages[taken[c] + 1]]
    BY <1>1, <2>1, <2>6
  <2>8. QED
    BY <2>1, <2>3, <2>4, <2>5, <2>7 DEF Paged!TakePage, ItemsOf
<1>8. ASSUME NEW c \in Callers, CallerStep(c) PROVE [Paged!Next]_(Paged!vars)
  <2>1. CASE UNCHANGED <<pc, out, pageNo, cursor, got>>
    BY <1>3, <2>1
  <2>2. ASSUME NEW label \in {"pageSend", "pageWait", "detailConnect", "detailSend", "detailWait",
                              "assemble"}, Moves(c, label)
        PROVE  UNCHANGED Paged!vars
    BY <1>4, <2>2 DEF PCs
  <2>3. QED
    BY <1>6, <1>7, <1>8, <2>1, <2>2, CallerShape DEF Paged!Next
<1>9. QED
  BY <1>3, <1>5, <1>8, OtherShape DEF Paged!Next

\* FetchAllEvents implements PagedFetch: a caller gets the pages in order, each
\* whole and once, succeeds only at the last one, and gets nothing from a fetch
\* that failed.  This holds for a sole caller whatever fails, for any callers
\* that meet no fault, and for any callers of a server that sends no updates.
THEOREM FetchIsPaged ==
  ASSUME SoleCaller \/ MaxFaults = 0 \/ MaxUpdates = 0
  PROVE  Spec => ImplementsPagedFetch
<1>1. IInv /\ (OneConnection \/ updates = 0 => PagesWhole) => PagesWhole
  BY DEF OneConnection, IInv, ClientInv, ClientTypeOK
<1>2. Init => Paged!Init
  BY DEF Init, Paged!Init, Status
<1>3. IInv /\ PagesWhole /\ Progress /\ [Next]_vars => Progress'
  BY NextProgress
<1>4. IInv /\ Progress /\ [Next]_vars => [Paged!Next]_(Paged!vars)
  BY NextPaged
<1>5. QED
  BY <1>1, <1>2, <1>3, <1>4, InitProgress, PagesComeWhole, LabelsInvariant, PTL
  DEF Spec, ImplementsPagedFetch, Paged!Spec

---------------------------------------------------------------------------
(* What a fetch leaves behind                                              *)

\* No item is twice on a page.
DistinctItems ==
    \A p \in DOMAIN Pages : \A j, k \in DOMAIN Pages[p] :
        Pages[p][j] = Pages[p][k] /\ Pages[p][j] # NoId => j = k

InDetails(c) == pc[c] \in {"detailConnect", "detailSend", "detailWait", "assemble"}

\* The item of s was returned without its detail.
Reported(c, s) ==
    \E k \in DOMAIN out[c] : out[c][k].item = req[s] /\ out[c][k].detail = Null

\* The item of s is on this page, was requested, and has no detail so far.
Missing(c, s) ==
    /\ InDetails(c) /\ req[s] \in Items /\ details[c][req[s]] = Null
    /\ \E k \in DOMAIN RawItems(c) : k < todo[c] /\ RawItems(c)[k] = req[s]

Leftovers(c) ==
    \A s \in subs : \/ pc[c] = "error" \/ (pc[c] = "pageWait" /\ s = pageSub[c])
                    \/ Reported(c, s) \/ Missing(c, s)

\* The details asked for are those of this page, each of them once.
Requested(c) ==
    \A s \in SubIds : Mine(c, s) /\ pc[c] # "error" =>
        /\ InDetails(c)
        /\ \E k \in DOMAIN RawItems(c) : k < todo[c] /\ RawItems(c)[k] = detailSubs[c][s]
        /\ \A t \in subs : req[t] = req[s] => t = s \/ Reported(c, t)

NothingYet(c) == pc[c] \notin {"detailWait", "assemble", "error"} => details[c] = NoDetails

LeftInv(c) == Leftovers(c) /\ Requested(c) /\ NothingYet(c)

\* A failed fetch has returned nothing, and what it left behind is its own affair.
LEMMA LeftOfError ==
  ASSUME NEW c \in Callers, pc'[c] = "error"
  PROVE  LeftInv(c)'
  BY DEF LeftInv, Leftovers, Requested, NothingYet

\* Subscriptions only go away, and the caller stays where it is.
LEMMA LeftKept ==
  ASSUME NEW c \in Callers, LeftInv(c), subs' \subseteq subs, UNCHANGED <<req, pc, pageSub>>,
         UNCHANGED <<got, todo, detailSubs, details, out>>
  PROVE  LeftInv(c)'
<1>1. \A s : Reported(c, s)' = Reported(c, s) /\ Missing(c, s)' = Missing(c, s)
  BY DEF Reported, Missing, InDetails, RawItems
<1>2. Leftovers(c)'
  BY <1>1 DEF LeftInv, Leftovers
<1>3. Requested(c)'
  BY <1>1 DEF LeftInv, Requested, InDetails, RawItems, Mine
<1>4. NothingYet(c)'
  BY DEF LeftInv, NothingYet
<1>5. QED
  BY <1>2, <1>3, <1>4 DEF LeftInv

\* Within the detail states the caller moves on, perhaps past an item.
LEMMA LeftMoves ==
  ASSUME IInv, NEW c \in Callers, LeftInv(c), subs' \subseteq subs, UNCHANGED <<req, got, out>>,
         InDetails(c), InDetails(c)', todo'[c] \in {todo[c], todo[c] + 1},
         UNCHANGED <<detailSubs, details>>,
         pc'[c] \in {"detailConnect", "detailSend"} => pc[c] \in {"detailConnect", "detailSend"}
  PROVE  LeftInv(c)'
<1>1. \A k \in Nat : k < todo[c] => k < todo'[c]
  BY DEF IInv, CallerInv, FetchTypeOK
<1>2. DOMAIN RawItems(c) \subseteq Nat /\ RawItems(c)' = RawItems(c)
  <2>1. RawItems(c) \in Seq(AllItems)
    BY PagesFacts, EmptySeq DEF RawItems, IInv, CallerInv, FetchTypeOK
  <2>2. QED
    BY <2>1, LenProperties DEF RawItems
<1>3. \A s : Reported(c, s)' = Reported(c, s) /\ (Missing(c, s) => Missing(c, s)')
  BY <1>1, <1>2 DEF Reported, Missing
<1>4. Leftovers(c)'
  BY <1>3 DEF LeftInv, Leftovers, InDetails
<1>5. Requested(c)'
  BY <1>1, <1>2, <1>3 DEF LeftInv, Requested, InDetails, Mine
<1>6. NothingYet(c)'
  BY DEF LeftInv, NothingYet, InDetails
<1>7. QED
  BY <1>4, <1>5, <1>6 DEF LeftInv

\* On a page of distinct items, and before any detail of it is there, one more
\* is requested: the request may fail, and is then not remembered.
LEMMA LeftDetailSend ==
  ASSUME DistinctItems, IInv, NEW c \in Callers, LeftInv(c), DetailSend(c)
  PROVE  LeftInv(c)'
<1> DEFINE item == RawItems(c)[todo[c]]
<1>1. /\ pc[c] = "detailSend" /\ pc' = [pc EXCEPT ![c] = "detailConnect"]
      /\ todo' = [todo EXCEPT ![c] = @ + 1] /\ UNCHANGED <<got, out, details, pageSub>>
      /\ counter \in SubIds /\ subs' = subs \cup {counter} /\ req' = [req EXCEPT ![counter] = item]
  BY DEF DetailSend, Register, Goto, NextItem, SubIds, IInv, ClientInv, ClientTypeOK
<1>2. /\ pc'[c] = "detailConnect" /\ todo'[c] = todo[c] + 1 /\ todo[c] \in Nat
      /\ req'[counter] = item /\ \A s \in SubIds : s # counter => req'[s] = req[s]
      /\ subs \subseteq SubIds
  BY <1>1 DEF IInv, ClientInv, ClientTypeOK, CallerInv, FetchTypeOK
<1>3. /\ item \in Items /\ todo[c] \in DOMAIN RawItems(c) /\ DOMAIN RawItems(c) \subseteq Nat
      /\ RawItems(c)' = RawItems(c)
  <2>1. todo[c] <= Len(RawItems(c)) /\ item # NoId /\ todo[c] # 0
    BY <1>1 DEF IInv, CallerInv, Positions
  <2>2. RawItems(c) \in Seq(AllItems)
    BY PagesFacts, EmptySeq DEF RawItems, IInv, CallerInv, FetchTypeOK
  <2>3. RawItems(c)' = RawItems(c)
    BY <1>1 DEF RawItems
  <2>4. item \in AllItems
    BY <2>1, TodoFacts
  <2>5. DOMAIN RawItems(c) = 1 .. Len(RawItems(c)) /\ Len(RawItems(c)) \in Nat
    BY <2>2, LenProperties
  <2>6. item \in Items
    BY <2>1, <2>4 DEF AllItems
  <2> HIDE DEF item
  <2>7. QED
    BY <1>2, <2>1, <2>3, <2>5, <2>6
<1>4. \A j \in DOMAIN RawItems(c) : RawItems(c)[j] = item => j = todo[c]
  <2>1. got[c] \in DOMAIN Pages \cup {Null} /\ item # NoId
    BY <1>3, PagesFacts DEF IInv, CallerInv, FetchTypeOK
  <2>2. CASE got[c] = Null
    BY <2>2 DEF RawItems
  <2>3. CASE got[c] # Null
    BY <1>3, <2>1, <2>3 DEF RawItems, DistinctItems
  <2>4. QED
    BY <2>2, <2>3
<1>5. details'[c] = NoDetails
  BY <1>1 DEF LeftInv, NothingYet
<1>6. \A s \in SubIds : detailSubs'[c][s] # Null =>
          \/ detailSubs'[c][s] = detailSubs[c][s]
          \/ s = counter /\ detailSubs'[c][s] = item
  <2> HIDE DEF item
  <2>1. detailSubs' \in {[detailSubs EXCEPT ![c][counter] = item], detailSubs}
    BY DEF DetailSend, RememberDetail, item
  <2>2. QED
    BY <1>1, <2>1 DEF IInv, CallerInv, FetchTypeOK
<1>7. \A s \in SubIds : Mine(c, s) => s # counter /\ req[s] = detailSubs[c][s]
  BY DEF Mine, IInv, CallerInv, CallerLabels, ClientInv, ClientTypeOK, SubIds
<1>8. \A s \in subs : s # counter => (Reported(c, s) <=> Reported(c, s)')
  BY <1>1, <1>2 DEF Reported
<1> HIDE DEF item
<1>9. Leftovers(c)'
  <2> SUFFICES ASSUME NEW s \in subs' PROVE Reported(c, s)' \/ Missing(c, s)'
    BY DEF Leftovers
  <2>1. CASE s = counter
    <3>1. details'[c][req'[s]] = Null
      BY <1>2, <1>3, <1>5, <2>1 DEF NoDetails
    <3>2. todo[c] < todo'[c] /\ RawItems(c)[todo[c]] = req'[s]
      BY <1>2, <2>1 DEF item
    <3>3. QED
      BY <1>2, <1>3, <2>1, <3>1, <3>2 DEF Missing, InDetails
  <2>2. CASE s # counter
    <3>1. s \in subs /\ req'[s] = req[s] /\ (Reported(c, s) \/ Missing(c, s))
      BY <1>1, <1>2, <2>2 DEF LeftInv, Leftovers
    <3>2. ASSUME NEW k \in DOMAIN RawItems(c), k < todo[c] PROVE k < todo'[c]
      BY <1>2, <1>3, <3>2
    <3>3. Missing(c, s) => Missing(c, s)'
      BY <1>1, <1>2, <1>3, <3>1, <3>2 DEF Missing, InDetails
    <3>4. QED
      BY <1>8, <2>2, <3>1, <3>3
  <2>3. QED
    BY <2>1, <2>2
<1>10. Requested(c)'
  <2> SUFFICES ASSUME NEW s \in SubIds, detailSubs'[c][s] # Null
               PROVE  /\ \E k \in DOMAIN RawItems(c) :
                            k < todo'[c] /\ RawItems(c)[k] = detailSubs'[c][s]
                      /\ \A t \in subs' : req'[t] = req'[s] => t = s \/ Reported(c, t)'
    BY <1>2, <1>3 DEF Requested, InDetails, Mine
  <2>1. ASSUME NEW t \in subs, t # counter, req[t] = item PROVE Reported(c, t)
    <3>1. Reported(c, t) \/ Missing(c, t)
      BY <1>1, <2>1 DEF LeftInv, Leftovers
    <3>2. ASSUME NEW k \in DOMAIN RawItems(c), k < todo[c] PROVE RawItems(c)[k] # item
      BY <1>2, <1>4, <3>2
    <3>3. QED
      BY <2>1, <3>1, <3>2 DEF Missing
  <2>2. CASE s = counter /\ detailSubs'[c][s] = item
    <3>1. todo[c] < todo'[c] /\ RawItems(c)[todo[c]] = detailSubs'[c][s]
      BY <1>2, <2>2 DEF item
    <3>2. QED
      BY <1>1, <1>2, <1>3, <1>8, <2>1, <2>2, <3>1
  <2>3. CASE detailSubs'[c][s] = detailSubs[c][s]
    <3>1. Mine(c, s) /\ s # counter /\ req[s] = detailSubs[c][s]
      BY <1>7, <2>3 DEF Mine
    <3>2. PICK k \in DOMAIN RawItems(c) : k < todo[c] /\ RawItems(c)[k] = detailSubs[c][s]
      BY <1>1, <3>1 DEF LeftInv, Requested
    <3>3. k < todo'[c] /\ req[s] # item
      BY <1>2, <1>3, <1>4, <3>1, <3>2
    <3>4. \A t \in subs : req[t] = req[s] => t = s \/ Reported(c, t)
      BY <1>1, <3>1 DEF LeftInv, Requested
    <3>5. ASSUME NEW t \in subs', req'[t] = req'[s] PROVE t = s \/ Reported(c, t)'
      <4>1. t # counter /\ t \in subs
        BY <1>1, <1>2, <3>1, <3>3, <3>5
      <4>2. req[t] = req[s]
        BY <1>2, <3>1, <3>5, <4>1
      <4>3. QED
        BY <1>8, <3>4, <4>1, <4>2
    <3>6. QED
      BY <2>3, <3>2, <3>3, <3>5
  <2>4. QED
    BY <1>6, <2>2, <2>3
<1>11. NothingYet(c)'
  BY <1>5 DEF NothingYet
<1>12. QED
  BY <1>9, <1>10, <1>11 DEF LeftInv

\* A detail comes: its subscription goes, and no other was for the same item.
LEMMA LeftRecvDetail ==
  ASSUME IInv, NEW c \in Callers, LeftInv(c), RecvDetail(c)
  PROVE  LeftInv(c)'
<1> DEFINE m == Head(recvChan)
<1> DEFINE item == detailSubs[c][m.sub]
<1>1. /\ pc[c] = "detailWait" /\ IsDetailReply(c, m) /\ Received /\ UNCHANGED <<counter, req>>
      /\ details' = [details EXCEPT ![c][item] = m.body] /\ subs' = subs \ {m.sub}
      /\ UNCHANGED <<got, todo, detailSubs>>
  BY DEF RecvDetail, StoreDetail, Unsubscribe, Forget
<1>2. CASE CanWrite /\ Goto(c, AfterCount(c)) /\ UNCHANGED out
  <2>1. m.sub \in SubIds /\ item \in Items /\ Mine(c, m.sub) /\ req[m.sub] = item
    BY <1>1, DetailReply DEF IsDetailReply, Mine, IInv, CallerInv, CallerLabels
  <2>2. pc'[c] \in {"detailWait", "assemble"}
    BY <1>2 DEF Goto, AfterCount, IInv, CallerInv, FetchTypeOK
  <2> HIDE DEF item, m
  <2>3. \A i \in Items : i # item => details'[c][i] = details[c][i]
    BY <1>1, <2>1 DEF IInv, CallerInv, FetchTypeOK
  <2>4. \A s : Reported(c, s)' = Reported(c, s)
    BY <1>1, <1>2 DEF Reported
  <2>5. RawItems(c)' = RawItems(c)
    BY <1>1 DEF RawItems
  <2>6. ASSUME NEW s \in subs' PROVE Reported(c, s)' \/ Missing(c, s)'
    <3>1. s \in subs /\ s # m.sub /\ (Reported(c, s) \/ Missing(c, s))
      BY <1>1, <2>6 DEF LeftInv, Leftovers
    <3>2. req[s] = item => Reported(c, s)
      BY <1>1, <2>1, <3>1 DEF LeftInv, Requested
    <3>3. Missing(c, s) /\ req[s] # item => Missing(c, s)'
      BY <1>1, <2>2, <2>3, <2>5 DEF Missing, InDetails
    <3>4. QED
      BY <2>4, <3>1, <3>2, <3>3
  <2>7. Leftovers(c)'
    BY <2>6 DEF Leftovers
  <2>8. Requested(c)'
    BY <1>1, <2>2, <2>4, <2>5 DEF LeftInv, Requested, InDetails, Mine
  <2>9. NothingYet(c)'
    BY <2>2 DEF NothingYet
  <2>10. QED
    BY <2>7, <2>8, <2>9 DEF LeftInv
<1>3. CASE Fail(c)
  <2>1. pc'[c] = "error"
    BY <1>3 DEF Fail, Goto, IInv, CallerInv, FetchTypeOK
  <2>2. QED
    BY <2>1, LeftOfError
<1>4. QED
  BY <1>2, <1>3 DEF RecvDetail


\* The page is reported: what is missing on it is reported missing.
LEMMA LeftFinishPage ==
  ASSUME IInv, NEW c \in Callers, LeftInv(c), FinishPage(c)
  PROVE  LeftInv(c)'
<1>1. /\ pc[c] = "assemble" /\ pc'[c] \in {"ok", "pageConnect"}
      /\ detailSubs'[c] = NoSubs /\ details'[c] = NoDetails /\ UNCHANGED <<subs, req>>
      /\ out'[c] = out[c] \o Assembled(c)
  BY DEF FinishPage, Goto, clientVars, IInv, CallerInv, FetchTypeOK
<1>2. out[c] \in Seq(Event) /\ Assembled(c) \in Seq(Event)
  BY AssembledTyped DEF IInv, CallerInv, FetchTypeOK
<1>3. PICK o \in Seq(Event), a \in Seq(Event) : o = out[c] /\ a = Assembled(c)
  BY <1>2
<1>4. /\ Len(o) \in Nat /\ DOMAIN o = 1 .. Len(o) /\ DOMAIN a = 1 .. Len(a) /\ Len(a) \in Nat
      /\ DOMAIN (o \o a) = 1 .. Len(o) + Len(a)
      /\ \A k \in 1 .. Len(o) : (o \o a)[k] = o[k]
      /\ \A k \in 1 .. Len(a) : Len(o) + k \in 1 .. Len(o) + Len(a) /\ (o \o a)[Len(o) + k] = a[k]
  BY ConcatProperties, LenProperties
<1>5. ASSUME NEW s \in subs, Reported(c, s) PROVE Reported(c, s)'
  <2>1. PICK k \in DOMAIN o : o[k].item = req[s] /\ o[k].detail = Null
    BY <1>3, <1>5 DEF Reported
  <2>2. k \in DOMAIN (o \o a) /\ (o \o a)[k] = o[k]
    BY <1>4, <2>1
  <2>3. QED
    BY <1>1, <1>3, <2>1, <2>2 DEF Reported
<1>6. ASSUME NEW s \in subs, Missing(c, s) PROVE Reported(c, s)'
  <2>1. PICK k \in DOMAIN RawItems(c) : RawItems(c)[k] = req[s]
    BY <1>6 DEF Missing
  <2>2. req[s] \in Items /\ details[c][req[s]] = Null /\ req[s] # NoId
    BY <1>6, PagesFacts DEF Missing
  <2>3. k \in DOMAIN a /\ a[k].item = req[s] /\ a[k].detail = Null
    BY <1>3, <2>1, <2>2 DEF Assembled, DetailOf
  <2>4. Len(o) + k \in DOMAIN (o \o a) /\ (o \o a)[Len(o) + k] = a[k]
    BY <1>4, <2>3
  <2>5. QED
    BY <1>1, <1>3, <2>3, <2>4 DEF Reported
<1>7. Leftovers(c)'
  BY <1>1, <1>5, <1>6 DEF LeftInv, Leftovers
<1>8. Requested(c)' /\ NothingYet(c)'
  BY <1>1 DEF Requested, NothingYet, Mine, NoSubs
<1>9. QED
  BY <1>7, <1>8 DEF LeftInv

\* The page's subscription is registered; its reply unsubscribes it.
LEMMA LeftPage ==
  ASSUME IInv, NEW c \in Callers, LeftInv(c), PageSend(c) \/ RecvPage(c)
  PROVE  LeftInv(c)'
<1>1. CASE pc'[c] = "error"
  BY <1>1, LeftOfError
<1>2. CASE pc'[c] # "error" /\ PageSend(c)
  <2>1. /\ pc[c] = "pageSend" /\ pc'[c] = "pageWait" /\ UNCHANGED <<out, detailSubs, details>>
        /\ counter \in SubIds /\ subs' = subs \cup {counter} /\ pageSub'[c] = counter
        /\ \A s \in SubIds : s # counter => req'[s] = req[s]
    BY <1>2 DEF PageSend, Register, Goto, Fail, SubIds, IInv, ClientInv, ClientTypeOK, CallerInv,
       FetchTypeOK
  <2>2. \A s \in subs : s # counter => Reported(c, s)'
    BY <2>1 DEF LeftInv, Leftovers, Reported, Missing, InDetails, IInv, ClientInv, ClientTypeOK
  <2>3. Leftovers(c)'
    BY <2>1, <2>2 DEF Leftovers
  <2>4. \A s \in SubIds : ~Mine(c, s)
    BY <2>1 DEF LeftInv, Requested, InDetails
  <2>5. Requested(c)' /\ NothingYet(c)'
    BY <2>1, <2>4 DEF LeftInv, Requested, NothingYet, Mine
  <2>6. QED
    BY <2>3, <2>5 DEF LeftInv
<1>3. CASE pc'[c] # "error" /\ RecvPage(c)
  <2>1. /\ pc[c] = "pageWait" /\ pc'[c] = "detailConnect" /\ UNCHANGED <<req, out, detailSubs, details>>
        /\ subs' = subs \ {pageSub[c]}
    BY <1>3 DEF RecvPage, Unsubscribe, Forget, Goto, Fail, IInv, CallerInv, FetchTypeOK
  <2>2. \A s \in subs' : Reported(c, s)'
    BY <2>1 DEF LeftInv, Leftovers, Reported, Missing, InDetails
  <2>3. \A s \in SubIds : ~Mine(c, s)
    BY <2>1 DEF LeftInv, Requested, InDetails
  <2>4. QED
    BY <2>1, <2>2, <2>3 DEF LeftInv, Leftovers, Requested, NothingYet, Mine
<1>4. QED
  BY <1>1, <1>2, <1>3

\* Where a caller goes that neither subscribes nor takes what it asked for.
LEMMA LeftOfMoves ==
  ASSUME IInv, NEW c \in Callers, LeftInv(c),
         \/ Start(c) \/ PageConnect(c) \/ RecvOther(c) \/ RecvPageError(c) \/ PageBroken(c)
         \/ PageTimeout(c) \/ SkipItem(c) \/ DetailConnect(c) \/ StartDetailLoop(c)
         \/ RecvDetailError(c) \/ RecvForeign(c) \/ DetailBroken(c) \/ DetailTimeout(c)
         \/ CallerPanic(c) \/ Cancel(c)
  PROVE  LeftInv(c)'
<1>1. pc \in [Callers -> PCs] /\ todo \in [Callers -> Nat]
  BY DEF IInv, CallerInv, FetchTypeOK
<1>2. UNCHANGED <<subs, req, got, pageSub, detailSubs, details>>
  BY DEF Start, PageConnect, RecvOther, RecvPageError, PageBroken, PageTimeout, SkipItem,
     DetailConnect, StartDetailLoop, RecvDetailError, RecvForeign, DetailBroken, DetailTimeout,
     CallerPanic, Cancel, ContextEnds, clientVars, tableVars, fetchVars
<1>3. CASE Start(c) \/ PageConnect(c)
  <2>1. CASE pc'[c] = "error"
    BY <2>1, LeftOfError
  <2>2. CASE pc'[c] # "error"
    <3>1. /\ pc[c] \in {"idle", "pageConnect"} /\ pc'[c] \in {"pageConnect", "pageSend"}
          /\ UNCHANGED out
      BY <1>1, <1>3, <2>2 DEF Start, PageConnect, Goto, Fail
    <3>2. QED
      BY <1>2, <3>1 DEF LeftInv, Leftovers, Requested, NothingYet, Reported, Missing, InDetails, Mine
  <2>3. QED
    BY <2>1, <2>2
<1>4. CASE RecvPageError(c) \/ PageBroken(c) \/ PageTimeout(c)
  <2>1. pc'[c] = "error"
    BY <1>1, <1>4 DEF RecvPageError, PageBroken, PageTimeout, Goto, Fail
  <2>2. QED
    BY <2>1, LeftOfError
<1>5. CASE RecvOther(c) \/ RecvForeign(c) \/ CallerPanic(c) \/ Cancel(c)
  <2>1. UNCHANGED <<pc, todo, out>>
    BY <1>5 DEF RecvOther, RecvForeign, CallerPanic, Cancel, fetchVars
  <2>2. QED
    BY <1>2, <2>1, LeftKept
<1>6. CASE SkipItem(c) \/ DetailConnect(c) \/ StartDetailLoop(c)
  <2>1. /\ pc[c] = "detailConnect" /\ UNCHANGED out
        /\ pc'[c] \in {"detailConnect", "detailSend", "detailWait", "assemble"}
        /\ todo'[c] \in {todo[c], todo[c] + 1}
    BY <1>1, <1>6 DEF SkipItem, DetailConnect, StartDetailLoop, Goto, NextItem
  <2>2. QED
    BY <1>2, <2>1, LeftMoves DEF InDetails
<1>7. CASE RecvDetailError(c) \/ DetailBroken(c) \/ DetailTimeout(c)
  <2>1. /\ pc[c] = "detailWait" /\ UNCHANGED <<out, todo>> /\ pc'[c] \in {"detailWait", "assemble"}
    BY <1>1, <1>7 DEF RecvDetailError, DetailBroken, DetailTimeout, Goto, AfterCount
  <2>2. QED
    BY <1>2, <2>1, LeftMoves DEF InDetails
<1>8. QED
  BY <1>3, <1>4, <1>5, <1>6, <1>7

LEMMA NextLeft ==
  ASSUME DistinctItems, NEW c \in Callers, Callers = {c}, IInv, LeftInv(c), [Next]_vars
  PROVE  LeftInv(c)'
<1>1. CASE Start(c) \/ CallerStep(c) \/ Cancel(c)
  BY <1>1, LeftDetailSend, LeftRecvDetail, LeftFinishPage, LeftPage, LeftOfMoves
  DEF CallerStep, PageStep, DetailStep
<1>2. ASSUME NEW l \in LoopIds, LoopStep(l), UNCHANGED fetchVars PROVE LeftInv(c)'
  <2>1. subs' \subseteq subs /\ UNCHANGED req
    BY <1>2 DEF LoopStep, ReadFrame, ReadError, ParseFrame, ParseUnknown, ParseData,
       ParseBaselessDelta, ParseComplete, ParseError, Forget, SendMsg, SendFatal, ExitLoop,
       LoopPanic, tableVars
  <2>2. QED
    BY <1>2, <2>1, LeftKept DEF fetchVars
<1>3. ASSUME NEW s \in SubIds, ServerStep(s), UNCHANGED fetchVars PROVE LeftInv(c)'
  <2>1. UNCHANGED <<subs, req>>
    BY <1>3 DEF ServerStep, ServerAnswer, ServerUpdate, ServerComplete, ServerError, Emit, tableVars
  <2>2. QED
    BY <1>3, <2>1, LeftKept DEF fetchVars
<1>4. CASE (Drop \/ Close) /\ UNCHANGED fetchVars
  BY <1>4, LeftKept DEF Drop, Close, tableVars, fetchVars
<1>5. CASE UNCHANGED vars
  BY <1>5, LeftKept DEF vars, clientVars, fetchVars
<1>6. QED
  BY <1>1, <1>2, <1>3, <1>4, <1>5 DEF Next

\* A sole caller's successful fetch of a timeline without repeated items leaves
\* in the client only the subscriptions of items whose detail it lacks: every
\* timeline subscription and every answered detail was unsubscribed, whatever
\* failed, was dropped or came late.
THEOREM LeftoversExplained ==
  ASSUME DistinctItems, NEW c, Callers = {c}
  PROVE  Spec => []LeftoversAreMissing
<1>1. Init => LeftInv(c)
  BY DEF Init, ClientInit, LeftInv, Leftovers, Requested, NothingYet, Mine, NoSubs
<1>2. IInv /\ LeftInv(c) /\ [Next]_vars => LeftInv(c)'
  BY NextLeft
<1>3. IInv /\ LeftInv(c) => LeftoversAreMissing
  BY DEF LeftInv, Leftovers, Reported, Missing, InDetails, LeftoversAreMissing
<1>4. QED
  BY <1>1, <1>2, <1>3, LabelsInvariant, PTL DEF Spec


---------------------------------------------------------------------------
(* A connection that is sound and sends nothing unasked                    *)

Untroubled == updates = 0 /\ faults = 0

\* Where the reply of subscription s is.
Asked(s)    == srv[s] = "asked"
OnWire(s)   == \E k \in 1 .. Len(wire) : wire[k].code # "C" /\ wire[k].sub = s
Holds(l, s) == \/ loop[l].pc = "parse" /\ loop[l].frame.code # "C" /\ loop[l].frame.sub = s
               \/ loop[l].pc = "send" /\ loop[l].msg.sub = s
InLoop(s)   == \E l \in LoopIds : Holds(l, s)
InChan(s)   == \E k \in 1 .. Len(recvChan) : recvChan[k].sub = s

Pending(s) == Asked(s) \/ OnWire(s) \/ InLoop(s) \/ InChan(s)

\* The server ends s, which it does when it was told to.
Ends(l, s) == loop[l].pc = "parse" /\ loop[l].frame.code = "C" /\ loop[l].frame.sub = s
Closing(s) == \/ srv[s] = "leaving"
              \/ \E k \in 1 .. Len(wire) : wire[k].code = "C" /\ wire[k].sub = s
              \/ \E l \in LoopIds : Ends(l, s)

\* A reply is at one place at most, while its subscription is registered.
OnePlace(s) ==
    /\ Asked(s) => ~OnWire(s) /\ ~InLoop(s) /\ ~InChan(s)
    /\ OnWire(s) => ~InLoop(s) /\ ~InChan(s)
    /\ InLoop(s) => ~InChan(s)
    /\ Pending(s) => s \in subs
    /\ Closing(s) => s \notin subs

WireOnce == \A j, k \in 1 .. Len(wire) :
    wire[j].code # "C" /\ wire[k].code # "C" /\ wire[j].sub = wire[k].sub => j = k
ChanOnce == \A j, k \in 1 .. Len(recvChan) : recvChan[j].sub = recvChan[k].sub => j = k

Once == WireOnce /\ ChanOnce /\ \A s \in SubIds : OnePlace(s)

\* Nothing is wrong with the connection, and no message says so.
HealthyConn == /\ ctxDone = {} /\ ~chanClosed
               /\ conn = 0 => counter = 0
               /\ conn # 0 => CanWrite
               /\ \A s \in subs : s < counter
HealthyWire == \A k \in 1 .. Len(wire) : wire[k].code \in {"A", "C"}
HealthyLoop == \A l \in LoopIds :
    /\ loop[l].pc \in {"none", "read", "parse", "send"}
    /\ loop[l].pc = "parse" => \/ loop[l].frame.code = "C"
                               \/ loop[l].frame.code = "A" /\ loop[l].known
    /\ loop[l].pc = "send" => ~loop[l].msg.error
HealthyChan == \A k \in 1 .. Len(recvChan) : ~recvChan[k].error

Healthy == HealthyConn /\ HealthyWire /\ HealthyLoop /\ HealthyChan

CleanPath == Healthy /\ Once

LEMMA InitClean == Init => CleanPath
BY DEF Init, ClientInit, CleanPath, Healthy, HealthyConn, HealthyWire, HealthyLoop, HealthyChan,
       Once, WireOnce, ChanOnce, OnePlace, Pending, Asked, OnWire, Holds, InLoop, InChan, Ends,
       Closing, NotStarted

\* The one loop that runs moves: what it then holds.
LEMMA LoopHolds ==
  ASSUME IInv, SafeInv, NEW l \in LoopIds, loop[l].pc # "none", NEW r,
         loop' = [loop EXCEPT ![l] = r]
  PROVE  /\ \A s : InLoop(s) <=> Holds(l, s)
         /\ \A s : InLoop(s)' <=> \/ r.pc = "parse" /\ r.frame.code # "C" /\ r.frame.sub = s
                                  \/ r.pc = "send" /\ r.msg.sub = s
         /\ \A s : (\E k \in LoopIds : Ends(k, s)) <=> Ends(l, s)
         /\ \A s : (\E k \in LoopIds : Ends(k, s)') <=>
                       r.pc = "parse" /\ r.frame.code = "C" /\ r.frame.sub = s
         /\ \A k \in LoopIds : k # l => loop'[k].pc = "none"
         /\ loop'[l] = r
<1>1. /\ loop'[l] = r
      /\ \A k \in LoopIds : k # l => loop'[k] = loop[k] /\ loop[k].pc = "none"
  BY OneLoop DEF IInv, ClientInv, ClientTypeOK
<1>2. \A k \in LoopIds : \A s : k # l => ~Holds(k, s) /\ ~Holds(k, s)' /\ ~Ends(k, s) /\ ~Ends(k, s)'
  BY <1>1 DEF Holds, Ends
<1>3. \A s : Holds(l, s)' <=> \/ r.pc = "parse" /\ r.frame.code # "C" /\ r.frame.sub = s
                              \/ r.pc = "send" /\ r.msg.sub = s
  BY <1>1 DEF Holds
<1>4. \A s : Ends(l, s)' <=> r.pc = "parse" /\ r.frame.code = "C" /\ r.frame.sub = s
  BY <1>1 DEF Ends
<1>5. QED
  BY <1>1, <1>2, <1>3, <1>4 DEF InLoop

LEMMA CleanReadFrame ==
  ASSUME IInv, Exact, SafeInv, CleanPath, NEW l \in LoopIds, ReadFrame(l), UNCHANGED fetchVars
  PROVE  CleanPath' /\ \A s \in SubIds : Pending(s)' <=> Pending(s)
<1> DEFINE fr == wire[1]
<1> DEFINE r == [loop[l] EXCEPT !.pc = "parse", !.frame = Head(wire),
                                !.known = (Head(wire).sub \in subs)]
<1>1. /\ loop[l].pc = "read" /\ wire # <<>> /\ wire' = Tail(wire)
      /\ UNCHANGED <<ws, wsCtx, conn, srv, subs, recvChan, chanClosed, counter, ctxDone>>
  BY DEF ReadFrame, tableVars, chanVars, fetchVars
<1>2. /\ Head(wire) = fr /\ 1 \in 1 .. Len(wire) /\ Len(wire) \in Nat /\ Len(wire') \in Nat
      /\ \A k \in 1 .. Len(wire') : k + 1 \in 1 .. Len(wire) /\ wire'[k] = wire[k + 1]
      /\ \A k \in 1 .. Len(wire) : k # 1 => k - 1 \in 1 .. Len(wire') /\ wire'[k - 1] = wire[k]
  BY <1>1, WireTail
<1>3. fr \in Frame /\ fr.code \in {"A", "C"} /\ fr.sub \in SubIds
  <2>1. fr \in Frame
    BY <1>2, ElementOfSeq DEF IInv, ClientInv, ClientTypeOK
  <2>2. fr.code \in {"A", "C"}
    BY <1>2 DEF CleanPath, Healthy, HealthyWire
  <2> HIDE DEF fr
  <2>3. QED
    BY <2>1, <2>2 DEF Frame
<1>4. /\ loop' = [loop EXCEPT ![l] = r] /\ r.pc = "parse" /\ r.frame = fr
      /\ r.known = (fr.sub \in subs)
  BY <1>1, <1>2 DEF ReadFrame, Loop, IInv, ClientInv, ClientTypeOK
<1> HIDE DEF fr, r
<1>5. /\ \A s : ~InLoop(s) /\ \A k \in LoopIds : ~Ends(k, s)
      /\ \A s : InLoop(s)' <=> fr.code # "C" /\ fr.sub = s
      /\ \A s : (\E k \in LoopIds : Ends(k, s)') <=> fr.code = "C" /\ fr.sub = s
      /\ \A k \in LoopIds : k # l => loop'[k].pc = "none"
      /\ loop'[l] = r
  <2>1. /\ \A s : InLoop(s) <=> Holds(l, s)
        /\ \A s : InLoop(s)' <=> \/ r.pc = "parse" /\ r.frame.code # "C" /\ r.frame.sub = s
                                 \/ r.pc = "send" /\ r.msg.sub = s
        /\ \A s : (\E k \in LoopIds : Ends(k, s)) <=> Ends(l, s)
        /\ \A s : (\E k \in LoopIds : Ends(k, s)') <=>
                      r.pc = "parse" /\ r.frame.code = "C" /\ r.frame.sub = s
        /\ \A k \in LoopIds : k # l => loop'[k].pc = "none"
        /\ loop'[l] = r
    BY <1>1, <1>4, LoopHolds
  <2>2. \A s : ~Holds(l, s) /\ ~Ends(l, s)
    BY <1>1 DEF Holds, Ends
  <2>3. QED
    BY <1>4, <2>1, <2>2
<1>6. \A s : OnWire(s) <=> OnWire(s)' \/ (fr.code # "C" /\ fr.sub = s)
  <2>1. ASSUME NEW s, OnWire(s) PROVE OnWire(s)' \/ (fr.code # "C" /\ fr.sub = s)
    <3>1. PICK k \in 1 .. Len(wire) : wire[k].code # "C" /\ wire[k].sub = s
      BY <2>1 DEF OnWire
    <3>2. CASE k = 1
      BY <3>1, <3>2 DEF fr
    <3>3. CASE k # 1
      BY <1>2, <3>1, <3>3 DEF OnWire
    <3>4. QED
      BY <3>2, <3>3
  <2>2. ASSUME NEW s, OnWire(s)' PROVE OnWire(s)
    BY <1>2, <2>2 DEF OnWire
  <2>3. ASSUME NEW s, fr.code # "C" /\ fr.sub = s PROVE OnWire(s)
    BY <1>2, <2>3 DEF OnWire, fr
  <2>4. QED
    BY <2>1, <2>2, <2>3
<1>7. \A s : ~(OnWire(s)' /\ fr.code # "C" /\ fr.sub = s)
  <2> SUFFICES ASSUME NEW k \in 1 .. Len(wire'), wire'[k].code # "C", fr.code # "C",
                      wire'[k].sub = fr.sub
               PROVE  FALSE
    BY DEF OnWire
  <2>1. k + 1 \in 1 .. Len(wire) /\ wire[k + 1] = wire'[k] /\ k + 1 # 1
    BY <1>2
  <2>2. QED
    BY <1>2, <2>1 DEF CleanPath, Once, WireOnce, fr
<1>8. WireOnce'
  <2> SUFFICES ASSUME NEW j \in 1 .. Len(wire'), NEW k \in 1 .. Len(wire'), wire'[j].code # "C",
                      wire'[k].code # "C", wire'[j].sub = wire'[k].sub
               PROVE  j = k
    BY DEF WireOnce
  <2>1. j + 1 = k + 1
    BY <1>2 DEF CleanPath, Once, WireOnce
  <2>2. QED
    BY <2>1
<1>9. ChanOnce' /\ HealthyChan' /\ HealthyConn'
  BY <1>1 DEF CleanPath, Once, ChanOnce, Healthy, HealthyChan, HealthyConn, CanWrite
<1>10. HealthyWire'
  BY <1>2 DEF CleanPath, Healthy, HealthyWire
<1>11. ASSUME NEW s \in SubIds PROVE OnePlace(s)' /\ (Pending(s)' <=> Pending(s))
  <2>1. /\ Asked(s)' = Asked(s) /\ InChan(s)' = InChan(s) /\ subs' = subs
        /\ (srv'[s] = "leaving") = (srv[s] = "leaving")
    BY <1>1 DEF Asked, InChan
  <2>2. Closing(s)' => Closing(s)
    <3>1. \A k \in 1 .. Len(wire') : wire'[k].code = "C" /\ wire'[k].sub = s => Closing(s)
      BY <1>2 DEF Closing
    <3>2. fr.code = "C" /\ fr.sub = s => Closing(s)
      BY <1>2 DEF Closing, fr
    <3>3. QED
      BY <1>5, <2>1, <3>1, <3>2 DEF Closing
  <2>3. OnePlace(s)
    BY DEF CleanPath, Once
  <2>4. QED
    BY <1>5, <1>6, <1>7, <2>1, <2>2, <2>3 DEF OnePlace, Pending
<1>12. fr.code = "A" => fr.sub \in subs
  <2>1. fr.code = "A" => OnWire(fr.sub)
    BY <1>6
  <2>2. QED
    BY <1>3, <2>1 DEF CleanPath, Once, OnePlace, Pending
<1>13. HealthyLoop'
  BY <1>3, <1>4, <1>5, <1>12 DEF HealthyLoop
<1>14. QED
  BY <1>8, <1>9, <1>10, <1>11, <1>13 DEF CleanPath, Healthy, Once


LEMMA CleanParse ==
  ASSUME IInv, SafeInv, CleanPath, NEW l \in LoopIds, ParseFrame(l), UNCHANGED fetchVars
  PROVE  CleanPath' /\ subs' = subs /\ \A s \in SubIds : Pending(s)' <=> Pending(s)
<1> DEFINE fr == loop[l].frame
<1>1. /\ loop[l].pc = "parse"
      /\ UNCHANGED <<ws, wsCtx, conn, wire, srv, recvChan, chanClosed, counter, ctxDone>>
  BY DEF ParseFrame, chanVars, fetchVars
<1>2. fr.code = "C" \/ (fr.code = "A" /\ loop[l].known)
  BY <1>1 DEF CleanPath, Healthy, HealthyLoop
<1>3. fr.sub \in SubIds
  BY <1>1 DEF IInv, ClientInv, ClientLabels, LoopLabels, Answers, Given
<1>4. Ends(l, fr.sub) <=> fr.code = "C"
  BY <1>1 DEF Ends
<1>5. fr.code = "C" => fr.sub \notin subs
  BY <1>3, <1>4 DEF CleanPath, Once, OnePlace, Closing
<1>6. /\ subs' = subs
      /\ \/ fr.code = "A" /\ loop' = ToSend(l, Data(fr, fr.body))
         \/ fr.code = "C" /\ loop' = ToRead(l)
  BY <1>2, <1>5 DEF ParseFrame, ParseUnknown, ParseData, ParseBaselessDelta, ParseComplete,
     ParseError, Forget
<1> HIDE DEF fr
<1>7. PICK r : /\ loop' = [loop EXCEPT ![l] = r]
               /\ \/ fr.code = "A" /\ r.pc = "send" /\ r.msg.sub = fr.sub /\ ~r.msg.error
                  \/ fr.code = "C" /\ r.pc = "read"
  <2>1. CASE fr.code = "A" /\ loop' = ToSend(l, Data(fr, fr.body))
    <3> DEFINE r == [NotStarted EXCEPT !.pc = "send", !.on = loop[l].on, !.msg = Data(fr, fr.body)]
    <3>1. /\ loop' = [loop EXCEPT ![l] = r] /\ r.pc = "send" /\ r.msg.sub = fr.sub
          /\ ~r.msg.error
      BY <2>1 DEF ToSend, Data, NotStarted
    <3>2. QED
      BY <2>1, <3>1
  <2>2. CASE fr.code = "C" /\ loop' = ToRead(l)
    <3> DEFINE r == [NotStarted EXCEPT !.pc = "read", !.on = IF ws = "nil" THEN 0 ELSE conn]
    <3>1. loop' = [loop EXCEPT ![l] = r] /\ r.pc = "read"
      BY <2>2 DEF ToRead, NotStarted
    <3>2. QED
      BY <2>2, <3>1
  <2>3. QED
    BY <1>6, <2>1, <2>2
<1>8. /\ \A s : InLoop(s) <=> Holds(l, s)
      /\ \A s : InLoop(s)' <=> \/ r.pc = "parse" /\ r.frame.code # "C" /\ r.frame.sub = s
                               \/ r.pc = "send" /\ r.msg.sub = s
      /\ \A s : (\E k \in LoopIds : Ends(k, s)) <=> Ends(l, s)
      /\ \A s : (\E k \in LoopIds : Ends(k, s)') <=>
                    r.pc = "parse" /\ r.frame.code = "C" /\ r.frame.sub = s
      /\ \A k \in LoopIds : k # l => loop'[k].pc = "none"
      /\ loop'[l] = r
  BY <1>1, <1>7, LoopHolds
<1>9. \A s : Holds(l, s) <=> fr.code # "C" /\ fr.sub = s
  BY <1>1 DEF Holds, fr
<1>10. ASSUME NEW s \in SubIds PROVE OnePlace(s)' /\ (Pending(s)' <=> Pending(s))
  <2>1. InLoop(s)' <=> InLoop(s)
    BY <1>7, <1>8, <1>9
  <2>2. Asked(s)' = Asked(s) /\ OnWire(s)' = OnWire(s) /\ InChan(s)' = InChan(s)
    BY <1>1 DEF Asked, OnWire, InChan
  <2>3. Closing(s)' => Closing(s)
    BY <1>1, <1>7, <1>8 DEF Closing
  <2>4. OnePlace(s)
    BY DEF CleanPath, Once
  <2>5. QED
    BY <1>6, <2>1, <2>2, <2>3, <2>4 DEF OnePlace, Pending
<1>11. HealthyLoop'
  BY <1>7, <1>8 DEF HealthyLoop
<1>12. QED
  BY <1>1, <1>6, <1>10, <1>11 DEF CleanPath, Healthy, HealthyConn, CanWrite, HealthyWire,
     HealthyChan, Once, WireOnce, ChanOnce

LEMMA CleanSend ==
  ASSUME IInv, SafeInv, CleanPath, NEW l \in LoopIds, SendMsg(l), UNCHANGED fetchVars
  PROVE  CleanPath' /\ subs' = subs /\ \A s \in SubIds : Pending(s)' <=> Pending(s)
<1> DEFINE m == loop[l].msg
<1>1. /\ loop[l].pc = "send" /\ recvChan' = Append(recvChan, m)
      /\ UNCHANGED <<ws, wsCtx, conn, wire, srv, chanClosed, counter, ctxDone, subs>>
  BY DEF SendMsg, tableVars, fetchVars
<1>2. m \in Message /\ ~m.error
  BY <1>1 DEF CleanPath, Healthy, HealthyLoop, IInv, ClientInv, ClientTypeOK, Loop
<1>3. m.sub \in SubIds
  BY <1>2 DEF Message, IInv, ClientInv, ClientLabels, LoopLabels
<1>4. /\ Len(recvChan) \in Nat /\ Len(recvChan') = Len(recvChan) + 1
      /\ recvChan'[Len(recvChan) + 1] = m
      /\ \A k \in 1 .. Len(recvChan) : recvChan'[k] = recvChan[k]
  BY <1>1, <1>2, AppendProperties DEF IInv, ClientInv, ClientTypeOK
<1> DEFINE r == [NotStarted EXCEPT !.pc = "read", !.on = IF ws = "nil" THEN 0 ELSE conn]
<1>5. loop' = [loop EXCEPT ![l] = r] /\ r.pc = "read"
  BY DEF SendMsg, ToRead, NotStarted
<1> HIDE DEF r
<1>6. /\ \A s : InLoop(s) <=> Holds(l, s)
      /\ \A s : ~InLoop(s)'
      /\ \A s : ~\E k \in LoopIds : Ends(k, s)'
      /\ \A k \in LoopIds : k # l => loop'[k].pc = "none"
      /\ loop'[l] = r
  <2>1. /\ \A s : InLoop(s) <=> Holds(l, s)
        /\ \A s : InLoop(s)' <=> \/ r.pc = "parse" /\ r.frame.code # "C" /\ r.frame.sub = s
                                 \/ r.pc = "send" /\ r.msg.sub = s
        /\ \A s : (\E k \in LoopIds : Ends(k, s)') <=>
                      r.pc = "parse" /\ r.frame.code = "C" /\ r.frame.sub = s
        /\ \A k \in LoopIds : k # l => loop'[k].pc = "none"
        /\ loop'[l] = r
    BY <1>1, <1>5, LoopHolds
  <2>2. QED
    BY <1>5, <2>1
<1>7. \A s : Holds(l, s) <=> m.sub = s
  BY <1>1 DEF Holds
<1> HIDE DEF m
<1>8. \A k \in 1 .. Len(recvChan') : k \in 1 .. Len(recvChan) \/ k = Len(recvChan) + 1
  BY <1>4
<1>9. \A s : InChan(s)' <=> InChan(s) \/ m.sub = s
  <2>1. \A s : InChan(s)' => InChan(s) \/ m.sub = s
    BY <1>4, <1>8 DEF InChan
  <2>2. \A k \in 1 .. Len(recvChan) : k \in 1 .. Len(recvChan')
    BY <1>4
  <2>3. Len(recvChan) + 1 \in 1 .. Len(recvChan')
    BY <1>4
  <2>4. \A s : InChan(s) \/ m.sub = s => InChan(s)'
    BY <1>4, <2>2, <2>3 DEF InChan
  <2>5. QED
    BY <2>1, <2>4
<1>10. ~InChan(m.sub)
  BY <1>3, <1>6, <1>7 DEF CleanPath, Once, OnePlace
<1>11. ChanOnce'
  BY <1>4, <1>8, <1>10 DEF CleanPath, Once, ChanOnce, InChan
<1>12. ASSUME NEW s \in SubIds PROVE OnePlace(s)' /\ (Pending(s)' <=> Pending(s))
  <2>1. Asked(s)' = Asked(s) /\ OnWire(s)' = OnWire(s)
    BY <1>1 DEF Asked, OnWire
  <2>2. Closing(s)' => Closing(s)
    BY <1>1, <1>6 DEF Closing
  <2>3. OnePlace(s)
    BY DEF CleanPath, Once
  <2>4. QED
    BY <1>1, <1>6, <1>7, <1>9, <2>1, <2>2, <2>3 DEF OnePlace, Pending
<1>13. HealthyChan'
  BY <1>2, <1>4, <1>8 DEF CleanPath, Healthy, HealthyChan
<1>14. HealthyLoop'
  BY <1>5, <1>6 DEF HealthyLoop
<1>15. QED
  BY <1>1, <1>11, <1>12, <1>13, <1>14 DEF CleanPath, Healthy, HealthyConn, CanWrite, HealthyWire,
     Once, WireOnce

\* A receive loop moves replies on, and does nothing else.
LEMMA CleanLoopStep ==
  ASSUME IInv, Exact, SafeInv, CleanPath, NEW l \in LoopIds, LoopStep(l), UNCHANGED fetchVars
  PROVE  CleanPath' /\ subs' = subs /\ \A s \in SubIds : Pending(s)' <=> Pending(s)
<1>1. loop[l].pc \in {"none", "read", "parse", "send"} /\ ~chanClosed
  BY DEF CleanPath, Healthy, HealthyLoop, HealthyConn
<1>2. loop[l].pc # "none" => loop[l].on = 1 /\ conn = 1 /\ CanWrite
  <2>1. l > 0 /\ conn \in Nat
    BY DEF LoopIds, IInv, ClientInv, ClientTypeOK
  <2>2. loop[l].pc # "none" => l <= conn
    BY <2>1 DEF SafeInv, LoopStates, LoopIds
  <2>3. QED
    BY <1>1, <2>1, <2>2 DEF SafeInv, LoopStates, ConnStates, CleanPath, Healthy, HealthyConn
<1>3. ~ReadError(l) /\ ~SendFatal(l) /\ ~ExitLoop(l) /\ ~LoopPanic(l)
  BY <1>1, <1>2 DEF ReadError, SendFatal, ExitLoop, LoopPanic, CanWrite
<1>4. ReadFrame(l) => subs' = subs
  BY DEF ReadFrame, tableVars
<1>5. QED
  BY <1>3, <1>4, CleanReadFrame, CleanParse, CleanSend DEF LoopStep


LEMMA NoMishap ==
  ASSUME IInv, [Next]_vars, Untroubled'
  PROVE  Untroubled /\ ~Fault /\ ~Update
<1>1. faults \in Nat /\ updates \in Nat /\ faults' = 0 /\ updates' = 0
  BY DEF IInv, ClientInv, ClientTypeOK, Untroubled
<1>2. faults = 0 /\ updates = 0
  BY <1>1, MishapsGrow
<1>3. QED
  BY <1>1, <1>2 DEF Untroubled, Fault, Update

\* The server answers what it was asked and ends what it was told to end.
LEMMA CleanServerStep ==
  ASSUME IInv, CleanPath, NEW s \in SubIds, ServerStep(s), UNCHANGED fetchVars, ~Fault, ~Update
  PROVE  CleanPath' /\ subs' = subs /\ \A t \in SubIds : Pending(t)' <=> Pending(t)
<1>1. PICK code \in {"A", "C"} :
          /\ \/ code = "A" /\ srv[s] = "asked" /\ srv' = [srv EXCEPT ![s] = "answered"]
             \/ code = "C" /\ srv[s] = "leaving" /\ srv' = [srv EXCEPT ![s] = "none"]
          /\ wire' = Append(wire, [sub |-> s, code |-> code, body |-> req[s]])
          /\ UNCHANGED <<ws, wsCtx, conn, loop, recvChan, chanClosed, counter, ctxDone, subs>>
  BY DEF ServerStep, ServerAnswer, ServerUpdate, ServerComplete, ServerError, Emit, chanVars,
     tableVars, fetchVars
<1> DEFINE fr == [sub |-> s, code |-> code, body |-> req[s]]
<1>2. fr \in Frame /\ fr.code = code /\ fr.sub = s /\ wire' = Append(wire, fr)
  BY <1>1 DEF Frame, IInv, ClientInv, ClientTypeOK
<1> HIDE DEF fr
<1>3. /\ Len(wire) \in Nat /\ Len(wire') = Len(wire) + 1 /\ wire'[Len(wire) + 1] = fr
      /\ \A k \in 1 .. Len(wire) : k \in 1 .. Len(wire') /\ wire'[k] = wire[k]
  BY <1>2, WireAppend
<1>4. \A k \in 1 .. Len(wire') : k \in 1 .. Len(wire) \/ k = Len(wire) + 1
  BY <1>3
<1>5. Len(wire) + 1 \in 1 .. Len(wire')
  BY <1>3
<1>6. \A t : OnWire(t)' <=> OnWire(t) \/ (code # "C" /\ t = s)
  <2>1. \A t : OnWire(t)' => OnWire(t) \/ (code # "C" /\ t = s)
    BY <1>2, <1>3, <1>4 DEF OnWire
  <2>2. \A t : OnWire(t) \/ (code # "C" /\ t = s) => OnWire(t)'
    BY <1>2, <1>3, <1>5 DEF OnWire
  <2>3. QED
    BY <2>1, <2>2
<1>7. /\ srv \in [SubIds -> {"none", "asked", "answered", "leaving"}]
      /\ \A t \in SubIds : t # s => srv'[t] = srv[t]
      /\ code = "A" => srv'[s] = "answered"
      /\ code = "C" => srv'[s] = "none"
  BY <1>1 DEF IInv, ClientInv, ClientTypeOK
<1>8. code = "C" => Closing(s)
  BY <1>1 DEF Closing
<1>9. ASSUME NEW t \in SubIds, Closing(t)' PROVE Closing(t)
  <2>1. srv'[t] = "leaving" => srv[t] = "leaving"
    BY <1>1, <1>7
  <2>2. ASSUME NEW k \in 1 .. Len(wire'), wire'[k].code = "C", wire'[k].sub = t PROVE Closing(t)
    <3>1. CASE k \in 1 .. Len(wire)
      BY <1>3, <2>2, <3>1 DEF Closing
    <3>2. CASE k = Len(wire) + 1
      BY <1>2, <1>3, <1>8, <2>2, <3>2
    <3>3. QED
      BY <1>4, <3>1, <3>2
  <2>3. ASSUME NEW l \in LoopIds, Ends(l, t)' PROVE Closing(t)
    BY <1>1, <2>3 DEF Ends, Closing
  <2>4. QED
    BY <1>9, <2>1, <2>2, <2>3 DEF Closing
<1>10. ASSUME NEW t \in SubIds PROVE OnePlace(t)' /\ (Pending(t)' <=> Pending(t))
  <2>1. InLoop(t)' = InLoop(t) /\ InChan(t)' = InChan(t)
    BY <1>1 DEF InLoop, Holds, InChan
  <2>2. Asked(t)' <=> Asked(t) /\ ~(code = "A" /\ t = s)
    BY <1>1, <1>7 DEF Asked
  <2>3. code = "A" => Asked(s)
    BY <1>1 DEF Asked
  <2>4. OnePlace(t)
    BY DEF CleanPath, Once
  <2>5. QED
    BY <1>1, <1>6, <1>9, <2>1, <2>2, <2>3, <2>4 DEF OnePlace, Pending
<1>11. WireOnce'
  <2> SUFFICES ASSUME NEW j \in 1 .. Len(wire'), NEW k \in 1 .. Len(wire'), wire'[j].code # "C",
                      wire'[k].code # "C", wire'[j].sub = wire'[k].sub
               PROVE  j = k
    BY DEF WireOnce
  <2>1. ASSUME NEW n \in 1 .. Len(wire), wire[n].code # "C", wire[n].sub = s PROVE code = "C"
    <3>1. OnWire(s)
      BY <2>1 DEF OnWire
    <3>2. ~Asked(s)
      BY <3>1 DEF CleanPath, Once, OnePlace
    <3>3. QED
      BY <1>1, <3>2 DEF Asked
  <2>2. CASE j \in 1 .. Len(wire) /\ k \in 1 .. Len(wire)
    BY <1>3, <2>2 DEF CleanPath, Once, WireOnce
  <2>3. CASE j = Len(wire) + 1 /\ k \in 1 .. Len(wire)
    BY <1>2, <1>3, <2>1, <2>3
  <2>4. CASE k = Len(wire) + 1 /\ j \in 1 .. Len(wire)
    BY <1>2, <1>3, <2>1, <2>4
  <2>5. QED
    BY <1>4, <2>2, <2>3, <2>4
<1>12. HealthyWire'
  BY <1>2, <1>3, <1>4 DEF CleanPath, Healthy, HealthyWire
<1>13. QED
  BY <1>1, <1>10, <1>11, <1>12 DEF CleanPath, Healthy, HealthyConn, CanWrite, HealthyLoop,
     HealthyChan, Once, ChanOnce

\* Before the first connection nothing was asked.
LEMMA NothingAsked ==
  ASSUME IInv, SafeInv, CleanPath, conn = 0
  PROVE  /\ \A l \in LoopIds : loop[l].pc = "none"
         /\ \A s \in SubIds : ~InChan(s) /\ ~Pending(s)
<1>1. counter = 0 /\ \A s : ~Given(s)
  BY DEF CleanPath, Healthy, HealthyConn, Given, SubIds
<1>2. \A l \in LoopIds : loop[l].pc = "none"
  BY DEF SafeInv, LoopStates, LoopIds
<1>3. \A s \in SubIds : ~InChan(s)
  BY <1>1 DEF InChan, NoSub, SubIds, IInv, ClientInv, ClientLabels, ChanLabels, Answers
<1>4. \A s \in SubIds : ~OnWire(s)
  BY <1>1 DEF OnWire, IInv, ClientInv, ClientLabels, WireLabels, Answers
<1>5. \A s \in SubIds : ~Asked(s)
  BY <1>1 DEF Asked, Given, IInv, ClientInv, ClientLabels, SrvLabels
<1>6. QED
  BY <1>2, <1>3, <1>4, <1>5 DEF Pending, InLoop, Holds

\* connectWS dials once and never fails.
LEMMA CleanConnect ==
  ASSUME IInv, SafeInv, CleanPath, NEW c \in Callers, ~Fault,
         BeginDial(c, c \in ctxDone) \/ Connects(c) \/ ConnectFails(c),
         UNCHANGED <<tableVars, chanVars, ctxDone>>
  PROVE  /\ CleanPath' /\ subs' = subs /\ \A s \in SubIds : Pending(s)' <=> Pending(s)
         /\ ~ConnectFails(c)
<1>1. c \notin ctxDone /\ (conn # 0 => Connected) /\ conn \in Nat /\ MaxConns # 0
  BY DEF CleanPath, Healthy, HealthyConn, CanWrite, Connected, IInv, ClientInv, ClientTypeOK
<1>2. ~ConnectFails(c)
  BY <1>1 DEF ConnectFails, DialFails, HandshakeFails
<1>3. CASE AlreadyConnected \/ BeginDial(c, c \in ctxDone)
  <2>1. UNCHANGED <<ws, wsCtx, conn, loop, wire, srv, subs, counter, recvChan, chanClosed, ctxDone>>
    BY <1>3 DEF AlreadyConnected, BeginDial, connVars, tableVars, chanVars
  <2>2. \A s : /\ Asked(s)' = Asked(s) /\ OnWire(s)' = OnWire(s) /\ InLoop(s)' = InLoop(s)
               /\ InChan(s)' = InChan(s) /\ Closing(s)' = Closing(s)
    BY <2>1 DEF Asked, OnWire, InLoop, Holds, InChan, Closing, Ends
  <2>3. QED
    BY <1>2, <2>1, <2>2 DEF CleanPath, Healthy, HealthyConn, CanWrite, HealthyWire, HealthyLoop,
       HealthyChan, Once, WireOnce, ChanOnce, OnePlace, Pending
<1>4. CASE Dial(c, c \in ctxDone)
  <2>1. /\ conn = 0 /\ ws' = "open" /\ wsCtx' = "live" /\ conn' = 1 /\ wire' = <<>>
        /\ srv' = [s \in SubIds |-> "none"]
        /\ UNCHANGED <<subs, counter, recvChan, chanClosed, ctxDone>>
    <3>1. conn = 0
      BY <1>4 DEF Dial, EndDial, SafeInv, ConnStates
    <3>2. QED
      BY <1>4, <3>1 DEF Dial, tableVars, chanVars
  <2> DEFINE r == [NotStarted EXCEPT !.pc = "read", !.on = conn + 1]
  <2>2. loop' = [loop EXCEPT ![conn + 1] = r] /\ r.pc = "read"
    BY <1>4 DEF Dial, NotStarted
  <2> HIDE DEF r
  <2>3. \A l \in LoopIds : loop'[l].pc \in {"none", "read"}
    BY <2>1, <2>2, NothingAsked DEF IInv, ClientInv, ClientTypeOK
  <2>4. \A s \in SubIds : ~Pending(s) /\ ~Pending(s)' /\ ~Closing(s)'
    <3>1. \A s \in SubIds : ~Asked(s)' /\ ~OnWire(s)' /\ ~InLoop(s)' /\ ~Closing(s)'
      BY <2>1, <2>3 DEF Asked, OnWire, InLoop, Holds, Closing, Ends
    <3>2. \A s \in SubIds : ~InChan(s)'
      BY <2>1, NothingAsked DEF InChan
    <3>3. QED
      BY <2>1, <3>1, <3>2, NothingAsked DEF Pending
  <2>5. Once'
    BY <2>1, <2>4 DEF Once, WireOnce, OnePlace, Pending, CleanPath, ChanOnce
  <2>6. Healthy'
    BY <2>1, <2>3 DEF Healthy, HealthyConn, HealthyWire, HealthyLoop, HealthyChan, CanWrite, CleanPath
  <2>7. QED
    BY <1>2, <2>1, <2>4, <2>5, <2>6 DEF CleanPath
<1>5. QED
  BY <1>2, <1>3, <1>4 DEF Connects

\* A request is written, and is not yet answered.
LEMMA CleanRegister ==
  ASSUME IInv, SafeInv, CleanPath, NEW body, Register(body), ~NilConn,
         UNCHANGED <<ws, wsCtx, conn, loop, wire, chanVars, ctxDone>>
  PROVE  /\ CleanPath' /\ CanWrite /\ counter \in SubIds /\ subs' = subs \cup {counter}
         /\ counter \notin subs
         /\ \A s \in SubIds : Pending(s)' <=> Pending(s) \/ s = counter
<1>1. conn # 0 /\ CanWrite
  BY DEF SafeInv, ConnStates, NilConn, CleanPath, Healthy, HealthyConn
<1>2. /\ counter \in SubIds /\ subs' = subs \cup {counter} /\ ~Given(counter)
      /\ srv' = [srv EXCEPT ![counter] = "asked"] /\ srv[counter] = "none"
      /\ UNCHANGED <<recvChan, chanClosed>>
  BY <1>1 DEF Register, SubIds, Given, chanVars, IInv, ClientInv, ClientTypeOK, ClientLabels, SrvLabels
<1>3. ~OnWire(counter) /\ ~InLoop(counter) /\ ~InChan(counter)
  <2>1. ~OnWire(counter) /\ ~InChan(counter)
    BY <1>2 DEF OnWire, InChan, IInv, ClientInv, ClientLabels, WireLabels, ChanLabels, Answers,
       NoSub, SubIds
  <2>2. ASSUME NEW l \in LoopIds, Holds(l, counter) PROVE FALSE
    BY <1>2, <2>2 DEF Holds, IInv, ClientInv, ClientLabels, LoopLabels, Answers, NoSub, SubIds
  <2>3. QED
    BY <2>1, <2>2 DEF InLoop
<1>4. ~Closing(counter)
  <2>1. \A k \in 1 .. Len(wire) : wire[k].sub # counter
    BY <1>2 DEF IInv, ClientInv, ClientLabels, WireLabels, Answers
  <2>2. \A l \in LoopIds : ~Ends(l, counter)
    BY <1>2 DEF Ends, IInv, ClientInv, ClientLabels, LoopLabels, Answers
  <2>3. QED
    BY <1>2, <2>1, <2>2 DEF Closing
<1>5. srv \in [SubIds -> {"none", "asked", "answered", "leaving"}]
  BY DEF IInv, ClientInv, ClientTypeOK
<1>6. ASSUME NEW s \in SubIds PROVE OnePlace(s)' /\ (Pending(s)' <=> Pending(s) \/ s = counter)
  <2>1. OnWire(s)' = OnWire(s) /\ InLoop(s)' = InLoop(s) /\ InChan(s)' = InChan(s)
    BY <1>2 DEF OnWire, InLoop, Holds, InChan
  <2>2. Asked(s)' <=> Asked(s) \/ s = counter
    BY <1>2, <1>5 DEF Asked
  <2>3. Closing(s)' => Closing(s)
    BY <1>2, <1>5 DEF Closing, Ends
  <2>4. OnePlace(s)
    BY DEF CleanPath, Once
  <2>5. CASE s = counter
    BY <1>2, <1>3, <1>4, <2>1, <2>2, <2>3, <2>5 DEF OnePlace, Pending
  <2>6. CASE s # counter
    BY <1>2, <2>1, <2>2, <2>3, <2>4, <2>6 DEF OnePlace, Pending
  <2>7. QED
    BY <2>5, <2>6
<1>7. counter \notin subs /\ \A s \in subs' : s < counter'
  <2>1. counter \in Nat /\ subs \subseteq Nat /\ counter' = counter + 1
        /\ \A s \in subs : s < counter
    BY DEF Register, CleanPath, Healthy, HealthyConn, IInv, ClientInv, ClientTypeOK, SubIds
  <2>2. QED
    BY <1>2, <2>1
<1>8. CleanPath'
  BY <1>1, <1>2, <1>6, <1>7 DEF CleanPath, Healthy, HealthyConn, CanWrite, HealthyWire, HealthyLoop,
     HealthyChan, Once, WireOnce, ChanOnce
<1>9. QED
  BY <1>1, <1>2, <1>6, <1>7, <1>8


\* A caller takes a message from the channel.
LEMMA ChanHead ==
  ASSUME IInv, CleanPath, Received
  PROVE  LET m == Head(recvChan) IN
         /\ m.sub \in SubIds /\ m.sub \in subs /\ ~m.error /\ InChan(m.sub)
         /\ \A s : InChan(s)' <=> InChan(s) /\ s # m.sub
         /\ ChanOnce' /\ HealthyChan'
<1> DEFINE m == Head(recvChan)
<1>1. recvChan \in Seq(Message) /\ recvChan # <<>> /\ recvChan' = Tail(recvChan)
  BY DEF Received, IInv, ClientInv, ClientTypeOK
<1>2. /\ m = recvChan[1] /\ 1 \in 1 .. Len(recvChan)
      /\ Len(recvChan) \in Nat /\ Len(recvChan) # 0 /\ Len(recvChan') = Len(recvChan) - 1
      /\ \A k \in 1 .. Len(recvChan) - 1 : recvChan'[k] = recvChan[k + 1]
  BY <1>1, HeadTailProperties, LenProperties, EmptySeq
<1>3. /\ \A k \in 1 .. Len(recvChan') : k + 1 \in 1 .. Len(recvChan) /\ k + 1 # 1
                                        /\ recvChan'[k] = recvChan[k + 1]
      /\ \A k \in 1 .. Len(recvChan) : k # 1 =>
             k - 1 \in 1 .. Len(recvChan') /\ recvChan'[k - 1] = recvChan[k]
  <2>1. \A k \in 1 .. Len(recvChan) : k # 1 =>
             k - 1 \in 1 .. Len(recvChan) - 1 /\ (k - 1) + 1 = k
    BY <1>2
  <2>2. QED
    BY <1>2, <2>1
<1>4. ~m.error /\ InChan(m.sub)
  BY <1>2 DEF InChan, CleanPath, Healthy, HealthyChan
<1>5. m.sub \in SubIds
  BY <1>2, <1>4 DEF IInv, ClientInv, ClientLabels, ChanLabels, Answers, Given
<1>6. m.sub \in subs
  BY <1>4, <1>5 DEF CleanPath, Once, OnePlace, Pending
<1>7. \A s : InChan(s)' => InChan(s) /\ s # m.sub
  <2> SUFFICES ASSUME NEW k \in 1 .. Len(recvChan')
               PROVE  InChan(recvChan'[k].sub) /\ recvChan'[k].sub # m.sub
    BY DEF InChan
  <2>1. k + 1 \in 1 .. Len(recvChan) /\ k + 1 # 1 /\ recvChan'[k] = recvChan[k + 1]
    BY <1>3
  <2>2. recvChan[k + 1].sub # recvChan[1].sub
    BY <1>2, <2>1 DEF CleanPath, Once, ChanOnce
  <2>3. QED
    BY <1>2, <2>1, <2>2 DEF InChan
<1>8. \A s : InChan(s) /\ s # m.sub => InChan(s)'
  <2> SUFFICES ASSUME NEW s, s # m.sub, NEW k \in 1 .. Len(recvChan), recvChan[k].sub = s
               PROVE  \E j \in 1 .. Len(recvChan') : recvChan'[j].sub = s
    BY DEF InChan
  <2>1. k # 1
    BY <1>2
  <2>2. k - 1 \in 1 .. Len(recvChan') /\ recvChan'[k - 1] = recvChan[k]
    BY <1>3, <2>1
  <2>3. QED
    BY <2>2
<1>9. ChanOnce'
  <2> SUFFICES ASSUME NEW j \in 1 .. Len(recvChan'), NEW k \in 1 .. Len(recvChan'),
                      recvChan'[j].sub = recvChan'[k].sub
               PROVE  j = k
    BY DEF ChanOnce
  <2>1. /\ j + 1 \in 1 .. Len(recvChan) /\ recvChan'[j] = recvChan[j + 1]
        /\ k + 1 \in 1 .. Len(recvChan) /\ recvChan'[k] = recvChan[k + 1]
    BY <1>3
  <2>2. j + 1 = k + 1
    BY <2>1 DEF CleanPath, Once, ChanOnce
  <2>3. QED
    BY <2>2
<1>10. HealthyChan'
  BY <1>3 DEF CleanPath, Healthy, HealthyChan
<1>11. QED
  BY <1>4, <1>5, <1>6, <1>7, <1>8, <1>9, <1>10

\* A message dropped leaves its subscription registered.
LEMMA CleanDrop ==
  ASSUME IInv, CleanPath, Received,
         UNCHANGED <<ws, wsCtx, conn, loop, wire, srv, subs, counter, ctxDone>>
  PROVE  CleanPath'
<1>1. ChanOnce' /\ HealthyChan' /\ \A s : InChan(s)' => InChan(s)
  BY ChanHead
<1>2. chanClosed' = chanClosed
  BY DEF Received
<1>3. \A s : Asked(s)' = Asked(s) /\ OnWire(s)' = OnWire(s) /\ InLoop(s)' = InLoop(s)
             /\ Closing(s)' = Closing(s)
  BY DEF Asked, OnWire, InLoop, Holds, Closing, Ends
<1>4. \A s \in SubIds : OnePlace(s)'
  BY <1>1, <1>3 DEF CleanPath, Once, OnePlace, Pending
<1>5. QED
  BY <1>1, <1>2, <1>4 DEF CleanPath, Healthy, HealthyConn, CanWrite, HealthyWire, HealthyLoop,
     Once, WireOnce

\* A reply is taken and its subscription ended.
LEMMA CleanTake ==
  ASSUME IInv, CleanPath, Received, Unsubscribe(Head(recvChan).sub),
         UNCHANGED <<ws, wsCtx, conn, loop, wire, ctxDone>>
  PROVE  /\ CleanPath' /\ subs' = subs \ {Head(recvChan).sub}
         /\ \A s \in SubIds : s # Head(recvChan).sub => (Pending(s)' <=> Pending(s))
<1> DEFINE m == Head(recvChan)
<1>1. /\ m.sub \in SubIds /\ InChan(m.sub)
      /\ ChanOnce' /\ HealthyChan' /\ \A s : InChan(s)' <=> InChan(s) /\ s # m.sub
  BY ChanHead
<1>2. /\ chanClosed' = chanClosed /\ counter' = counter /\ subs' = subs \ {m.sub}
      /\ srv' = IF CanWrite /\ srv[m.sub] = "answered"
                THEN [srv EXCEPT ![m.sub] = "leaving"] ELSE srv
  BY DEF Received, Unsubscribe, Forget
<1> HIDE DEF m
<1>3. srv \in [SubIds -> {"none", "asked", "answered", "leaving"}]
  BY DEF IInv, ClientInv, ClientTypeOK
<1>4. ASSUME NEW s \in SubIds
      PROVE  OnePlace(s)' /\ (s # m.sub => (Pending(s)' <=> Pending(s)))
  <2>1. OnWire(s)' = OnWire(s) /\ InLoop(s)' = InLoop(s)
    BY DEF OnWire, InLoop, Holds
  <2>2. Asked(s)' <=> Asked(s)
    BY <1>1, <1>2, <1>3 DEF Asked
  <2>3. s # m.sub => (Closing(s)' => Closing(s))
    BY <1>1, <1>2, <1>3 DEF Closing, Ends
  <2>4. OnePlace(s)
    BY DEF CleanPath, Once
  <2>5. CASE s = m.sub
    BY <1>1, <1>2, <2>1, <2>2, <2>4, <2>5 DEF OnePlace, Pending
  <2>6. CASE s # m.sub
    BY <1>1, <1>2, <2>1, <2>2, <2>3, <2>4, <2>6 DEF OnePlace, Pending
  <2>7. QED
    BY <2>5, <2>6
<1>5. CleanPath'
  BY <1>1, <1>2, <1>4 DEF CleanPath, Healthy, HealthyConn, CanWrite, HealthyWire, HealthyLoop,
     Once, WireOnce
<1>6. QED
  BY <1>2, <1>4, <1>5 DEF m

\* A step off the path.
LEMMA CleanKept ==
  ASSUME CleanPath,
         UNCHANGED <<ws, wsCtx, conn, loop, wire, srv, subs, counter, recvChan, chanClosed, ctxDone>>
  PROVE  CleanPath' /\ \A s : Pending(s)' <=> Pending(s)
<1>1. \A s : /\ Asked(s)' = Asked(s) /\ OnWire(s)' = OnWire(s) /\ InLoop(s)' = InLoop(s)
             /\ InChan(s)' = InChan(s) /\ Closing(s)' = Closing(s)
  BY DEF Asked, OnWire, InLoop, Holds, InChan, Closing, Ends
<1>2. QED
  BY <1>1 DEF CleanPath, Healthy, HealthyConn, CanWrite, HealthyWire, HealthyLoop,
     HealthyChan, Once, WireOnce, ChanOnce, OnePlace, Pending


LEMMA CleanCallerStep ==
  ASSUME IInv, SafeInv, CleanPath, NEW c \in Callers, Start(c) \/ CallerStep(c), ~Fault
  PROVE  CleanPath'
<1>1. CASE PageConnect(c) \/ DetailConnect(c)
  BY <1>1, CleanConnect DEF PageConnect, DetailConnect
<1>2. CASE PageSend(c) \/ DetailSend(c)
  <2>1. PICK body : Register(body)
    BY <1>2 DEF PageSend, DetailSend
  <2>2. ~NilConn /\ UNCHANGED <<ws, wsCtx, conn, loop, wire, chanVars, ctxDone>>
    BY <1>2 DEF PageSend, DetailSend
  <2>3. QED
    BY <2>1, <2>2, CleanRegister
<1>3. CASE RecvPage(c) \/ RecvDetail(c)
  <2>1. Received /\ Unsubscribe(Head(recvChan).sub)
    BY <1>3 DEF RecvPage, RecvDetail, IsPageReply
  <2>2. UNCHANGED <<ws, wsCtx, conn, loop, wire, ctxDone>>
    BY <1>3 DEF RecvPage, RecvDetail
  <2>3. QED
    BY <2>1, <2>2, CleanTake
<1>4. CASE RecvOther(c) \/ RecvPageError(c) \/ RecvForeign(c) \/ RecvDetailError(c)
  <2>1. Received /\ UNCHANGED <<ws, wsCtx, conn, loop, wire, srv, subs, counter, ctxDone>>
    BY <1>4 DEF RecvOther, RecvPageError, RecvForeign, RecvDetailError, connVars, tableVars, fetchVars
  <2>2. QED
    BY <2>1, CleanDrop
<1>5. CASE \/ Start(c) \/ PageBroken(c) \/ PageTimeout(c) \/ SkipItem(c) \/ StartDetailLoop(c)
           \/ DetailBroken(c) \/ DetailTimeout(c) \/ FinishPage(c) \/ CallerPanic(c)
  <2>1. UNCHANGED <<ws, wsCtx, conn, loop, wire, srv, subs, counter, recvChan, chanClosed, ctxDone>>
    BY <1>5 DEF Start, PageBroken, PageTimeout, SkipItem, StartDetailLoop, DetailBroken,
       DetailTimeout, FinishPage, CallerPanic, clientVars, connVars, chanVars, tableVars, fetchVars
  <2>2. QED
    BY <2>1, CleanKept
<1>6. QED
  BY <1>1, <1>2, <1>3, <1>4, <1>5 DEF CallerStep, PageStep, DetailStep

\* Without a fault nobody cancels, closes or drops the connection.
LEMMA CalmNext ==
  ASSUME [Next]_vars, ~Fault
  PROVE  \/ \E c \in Callers : Start(c) \/ CallerStep(c)
         \/ \E l \in LoopIds : LoopStep(l) /\ UNCHANGED fetchVars
         \/ \E s \in SubIds : ServerStep(s) /\ UNCHANGED fetchVars
         \/ UNCHANGED vars
<1>1. ~Drop /\ ~Close /\ \A c \in Callers : ~Cancel(c)
  BY DEF Drop, Close, Cancel, ContextEnds
<1>2. QED
  BY <1>1 DEF Next

LEMMA NextClean ==
  ASSUME IInv, Exact, SafeInv, CleanPath, [Next]_vars, ~Fault, ~Update
  PROVE  CleanPath'
<1>1. CASE UNCHANGED vars
  BY <1>1, CleanKept DEF vars, clientVars, fetchVars
<1>2. QED
  BY <1>1, CalmNext, CleanCallerStep, CleanLoopStep, CleanServerStep

---------------------------------------------------------------------------
(* What the callers have heard of on such a connection                     *)

AskedFor(c) == {s \in SubIds : Mine(c, s)}
Heard(c)    == {s \in AskedFor(c) : s \notin subs}

\* No two callers asked for details with one subscription.
Owned == \A c, d \in Callers : \A s \in SubIds : Mine(c, s) /\ Mine(d, s) => c = d

\* Every item so far was asked for.
Covered(c) ==
    InDetails(c) => \A k \in DOMAIN RawItems(c) :
        /\ pc[c] \in {"detailConnect", "detailSend"} => k < todo[c]
        /\ RawItems(c)[k] # NoId
        => \E s \in SubIds : detailSubs[c][s] = RawItems(c)[k]

\* The count is that of the details that came, and each of them is there.
Tally(c) ==
    /\ received[c] = Cardinality(Heard(c))
    /\ \A s \in Heard(c) : details[c][detailSubs[c][s]] # Null
    /\ Covered(c)
    /\ pc[c] = "assemble" /\ ~timedOut => Heard(c) = AskedFor(c)
    /\ ~timedOut => AllDetailsIn(c)

LEMMA SetsFinite ==
  ASSUME NEW c \in Callers
  PROVE  /\ IsFiniteSet(SubIds) /\ IsFiniteSet(AskedFor(c)) /\ IsFiniteSet(Heard(c))
         /\ Total(c) = Cardinality(AskedFor(c))
<1>1. IsFiniteSet(SubIds)
  <2>1. MaxSubs - 1 \in Int
    OBVIOUS
  <2>2. QED
    BY <2>1, FS_Interval DEF SubIds
<1>2. AskedFor(c) \in SUBSET SubIds /\ Heard(c) \in SUBSET SubIds
  BY DEF AskedFor, Heard
<1>3. Total(c) = Cardinality(AskedFor(c))
  BY DEF Total, AskedFor, Mine
<1>4. QED
  BY <1>1, <1>2, <1>3, FS_Subset

\* The details a caller asked for carry ids given out for items.
LEMMA MineGiven ==
  ASSUME IInv, NEW c \in Callers, NEW s \in SubIds, Mine(c, s)
  PROVE  s # counter /\ req[s] = detailSubs[c][s] /\ detailSubs[c][s] \in Items
  BY DEF Mine, IInv, CallerInv, CallerLabels, FetchTypeOK, ClientInv, ClientTypeOK, SubIds

\* A step that changes neither what c asked for, nor what it heard, nor where it is.
LEMMA TallyKept ==
  ASSUME NEW c \in Callers, Tally(c), timedOut \in BOOLEAN,
         \A s \in SubIds : Mine(c, s) => (s \in subs' <=> s \in subs),
         detailSubs'[c] = detailSubs[c], received'[c] = received[c], details'[c] = details[c],
         out'[c] = out[c], got'[c] = got[c], todo'[c] = todo[c], pc'[c] = pc[c],
         timedOut => timedOut'
  PROVE  Tally(c)'
<1>1. AskedFor(c)' = AskedFor(c) /\ Heard(c)' = Heard(c)
  BY DEF AskedFor, Heard, Mine
<1>2. Covered(c)' = Covered(c)
  BY DEF Covered, InDetails, RawItems
<1>3. AllDetailsIn(c)' = AllDetailsIn(c)
  BY DEF AllDetailsIn
<1>4. QED
  BY <1>1, <1>2, <1>3 DEF Tally

\* The same for a step of c to somewhere else.
LEMMA TallyMoves ==
  ASSUME NEW c \in Callers, Tally(c),
         \A s \in SubIds : Mine(c, s) => (s \in subs' <=> s \in subs),
         detailSubs'[c] = detailSubs[c], received'[c] = received[c], details'[c] = details[c],
         out'[c] \in {out[c], <<>>}, Covered(c)',
         pc'[c] = "assemble" => timedOut' \/ AskedFor(c) = {}, timedOut' \/ ~timedOut
  PROVE  Tally(c)'
<1>1. AskedFor(c)' = AskedFor(c) /\ Heard(c)' = Heard(c)
  BY DEF AskedFor, Heard, Mine
<1>2. ~timedOut' => AllDetailsIn(c)'
  BY DEF AllDetailsIn, Tally
<1>3. AskedFor(c) = {} => Heard(c) = AskedFor(c)
  BY DEF Heard
<1>4. QED
  BY <1>1, <1>2, <1>3 DEF Tally


\* Where c goes that subscribes nothing and takes nothing it asked for.
LEMMA TallyOfMoves ==
  ASSUME IInv, SafeInv, CleanPath, NEW c \in Callers, Tally(c), ~Fault,
         \/ Start(c) \/ PageConnect(c) \/ RecvPageError(c) \/ PageBroken(c) \/ PageTimeout(c)
         \/ SkipItem(c) \/ DetailConnect(c) \/ StartDetailLoop(c) \/ DetailTimeout(c)
         \/ RecvOther(c) \/ RecvForeign(c) \/ CallerPanic(c)
  PROVE  Tally(c)'
<1>1. pc \in [Callers -> PCs] /\ todo \in [Callers -> Nat] /\ timedOut \in BOOLEAN
      /\ out \in [Callers -> Seq(Event)]
  BY DEF IInv, CallerInv, FetchTypeOK
<1>2. UNCHANGED <<subs, got, detailSubs, received, details>>
  BY DEF Start, PageConnect, RecvOther, RecvPageError, PageBroken, PageTimeout, SkipItem,
     DetailConnect, StartDetailLoop, RecvForeign, DetailTimeout, CallerPanic, clientVars,
     tableVars, fetchVars
<1>3. CASE RecvOther(c) \/ RecvForeign(c) \/ CallerPanic(c)
  <2>1. UNCHANGED <<out, todo, pc, timedOut>>
    BY <1>3 DEF RecvOther, RecvForeign, CallerPanic, fetchVars
  <2>2. QED
    BY <1>1, <1>2, <2>1, TallyKept
<1>4. CASE \/ Start(c) \/ PageConnect(c) \/ RecvPageError(c) \/ PageBroken(c) \/ PageTimeout(c)
  <2>1. /\ pc'[c] \in {"pageConnect", "pageSend", "error"} /\ out'[c] \in {out[c], <<>>}
        /\ timedOut' \/ timedOut' = timedOut
    BY <1>1, <1>4 DEF Start, PageConnect, RecvPageError, PageBroken, PageTimeout, Goto, Fail
  <2>2. Covered(c)'
    BY <2>1 DEF Covered, InDetails
  <2>3. QED
    BY <1>1, <1>2, <2>1, <2>2, TallyMoves
<1>5. CASE SkipItem(c)
  <2>1. /\ pc[c] = "detailConnect" /\ pc' = pc /\ todo'[c] = todo[c] + 1 /\ UNCHANGED <<out, timedOut>>
        /\ RawItems(c)[todo[c]] = NoId
    BY <1>1, <1>5 DEF SkipItem, NextItem
  <2>2. DOMAIN RawItems(c) \subseteq Nat /\ RawItems(c)' = RawItems(c)
    <3>1. RawItems(c) \in Seq(AllItems)
      BY PagesFacts, EmptySeq DEF RawItems, IInv, CallerInv, FetchTypeOK
    <3>2. QED
      BY <1>2, <3>1, LenProperties DEF RawItems
  <2>3. \A k \in DOMAIN RawItems(c) : k < todo'[c] => k < todo[c] \/ k = todo[c]
    BY <1>1, <2>1, <2>2
  <2>4. Covered(c)'
    BY <1>2, <2>1, <2>2, <2>3 DEF Tally, Covered, InDetails
  <2>5. QED
    BY <1>1, <1>2, <2>1, <2>4, TallyMoves
<1>6. CASE DetailConnect(c)
  <2>1. conn # 0
    BY <1>6 DEF DetailConnect, SafeInv, CallerStates
  <2>2. Connected /\ c \notin ctxDone /\ CanWrite
    BY <2>1 DEF CleanPath, Healthy, HealthyConn, CanWrite, Connected
  <2>3. ~BeginDial(c, c \in ctxDone) /\ ~ConnectFails(c)
    <3>1. dialing = {}
      BY <2>1 DEF SafeInv, ConnStates
    <3>2. QED
      BY <2>2, <3>1 DEF BeginDial, ConnectFails, DialFails, HandshakeFails, EndDial
  <2>4. pc[c] = "detailConnect" /\ pc'[c] = "detailSend" /\ UNCHANGED <<todo, out, timedOut>>
    BY <1>1, <1>6, <2>3 DEF DetailConnect, Goto
  <2>5. Covered(c)'
    BY <1>2, <2>4 DEF Tally, Covered, InDetails, RawItems
  <2>6. QED
    BY <1>1, <1>2, <2>4, <2>5, TallyMoves
<1>7. CASE StartDetailLoop(c)
  <2>1. /\ pc[c] = "detailConnect" /\ todo[c] > Len(RawItems(c)) /\ UNCHANGED <<todo, out, timedOut>>
        /\ pc'[c] = IF Total(c) = 0 THEN "assemble" ELSE "detailWait"
    BY <1>1, <1>7 DEF StartDetailLoop, Goto
  <2>2. \A k \in DOMAIN RawItems(c) : k < todo[c]
    <3>1. RawItems(c) \in Seq(AllItems)
      BY PagesFacts, EmptySeq DEF RawItems, IInv, CallerInv, FetchTypeOK
    <3>2. DOMAIN RawItems(c) = 1 .. Len(RawItems(c)) /\ Len(RawItems(c)) \in Nat
      BY <3>1, LenProperties
    <3>3. QED
      BY <1>1, <2>1, <3>2
  <2>3. Covered(c)'
    BY <1>2, <2>1, <2>2 DEF Tally, Covered, InDetails, RawItems
  <2>4. Total(c) = 0 => AskedFor(c) = {}
    BY SetsFinite, FS_EmptySet
  <2>5. QED
    BY <1>1, <1>2, <2>1, <2>3, <2>4, TallyMoves
<1>8. CASE DetailTimeout(c)
  <2>1. pc[c] = "detailWait" /\ pc'[c] = "assemble" /\ UNCHANGED <<todo, out>> /\ timedOut'
    BY <1>1, <1>8 DEF DetailTimeout, Goto
  <2>2. Covered(c)'
    BY <1>2, <2>1 DEF Tally, Covered, InDetails, RawItems
  <2>3. QED
    BY <1>2, <2>1, <2>2, TallyMoves
<1>9. QED
  BY <1>3, <1>4, <1>5, <1>6, <1>7, <1>8

\* No error reaches a caller, and recvChan stays open.
LEMMA NoErrors ==
  ASSUME IInv, CleanPath, NEW c \in Callers
  PROVE  ~RecvDetailError(c) /\ ~DetailBroken(c)
<1>1. ~DetailBroken(c)
  BY DEF DetailBroken, CleanPath, Healthy, HealthyConn
<1>2. ~RecvDetailError(c)
  BY ChanHead DEF RecvDetailError
<1>3. QED
  BY <1>1, <1>2

LEMMA TallyPage ==
  ASSUME IInv, SafeInv, CleanPath, NEW c \in Callers, Tally(c), PageSend(c) \/ RecvPage(c)
  PROVE  Tally(c)'
<1>1. /\ UNCHANGED <<detailSubs, received, details, timedOut>> /\ timedOut \in BOOLEAN
      /\ pc'[c] \in {"pageWait", "detailConnect", "error"} /\ out'[c] \in {out[c], <<>>}
      /\ pc'[c] = "detailConnect" => todo'[c] = 1
  BY DEF PageSend, RecvPage, Goto, Fail, IInv, CallerInv, FetchTypeOK
<1>2. \A s \in SubIds : Mine(c, s) => (s \in subs' <=> s \in subs)
  <2>1. CASE PageSend(c)
    BY <2>1, MineGiven DEF PageSend, Register
  <2>2. CASE RecvPage(c)
    <3>1. subs' = subs \ {pageSub[c]} /\ req[pageSub[c]] = cursor[c] /\ cursor[c] \in DOMAIN Pages
      BY <2>2 DEF RecvPage, Unsubscribe, Forget, IInv, CallerInv, CallerLabels, FetchTypeOK
    <3>2. req[pageSub[c]] \notin Items
      BY <3>1, PagesAssumption
    <3>3. QED
      BY <3>1, <3>2, MineGiven
  <2>3. QED
    BY <2>1, <2>2
<1>3. Covered(c)'
  <2>1. CASE pc'[c] = "detailConnect"
    <3>1. RawItems(c)' \in Seq(AllItems)
      <4>1. IInv'
        BY PageSendInv, RecvPageInv
      <4>2. got'[c] \in DOMAIN Pages \cup {Null}
        BY <4>1 DEF IInv, CallerInv, FetchTypeOK
      <4>3. QED
        BY <4>2, PagesFacts, EmptySeq DEF RawItems
    <3>2. \A k \in DOMAIN RawItems(c)' : ~(k < todo'[c])
      BY <1>1, <2>1, <3>1, LenProperties
    <3>3. QED
      BY <2>1, <3>2 DEF Covered
  <2>2. CASE pc'[c] # "detailConnect"
    BY <1>1, <2>2 DEF Covered, InDetails
  <2>3. QED
    BY <2>1, <2>2
<1>4. QED
  BY <1>1, <1>2, <1>3, TallyMoves

\* One more detail is asked for.
LEMMA TallyDetailSend ==
  ASSUME IInv, SafeInv, CleanPath, NEW c \in Callers, Tally(c), DetailSend(c)
  PROVE  Tally(c)'
<1> DEFINE item == RawItems(c)[todo[c]]
<1>1. /\ CanWrite /\ counter \in SubIds /\ subs' = subs \cup {counter} /\ counter \notin subs
  <2>1. Register(item) /\ ~NilConn /\ UNCHANGED <<ws, wsCtx, conn, loop, wire, chanVars, ctxDone>>
    BY DEF DetailSend
  <2>2. QED
    BY <2>1, CleanRegister
<1>2. /\ pc[c] = "detailSend" /\ pc'[c] = "detailConnect" /\ todo'[c] = todo[c] + 1
      /\ UNCHANGED <<got, out, received, details, timedOut>>
      /\ todo[c] \in Nat /\ todo[c] # 0 /\ todo[c] <= Len(RawItems(c)) /\ item # NoId
  BY DEF DetailSend, Goto, NextItem, IInv, CallerInv, FetchTypeOK, Positions
<1>3. RawItems(c) \in Seq(AllItems) /\ RawItems(c)' = RawItems(c)
  BY <1>2, PagesFacts, EmptySeq DEF RawItems, IInv, CallerInv, FetchTypeOK
<1>4. item \in Items
  BY <1>2, TodoFacts DEF AllItems
<1>5. detailSubs' = [detailSubs EXCEPT ![c][counter] = item]
  BY <1>1 DEF DetailSend, RememberDetail
<1> HIDE DEF item
<1>6. /\ \A s \in SubIds : s # counter => detailSubs'[c][s] = detailSubs[c][s]
      /\ detailSubs'[c][counter] = item
  BY <1>1, <1>5 DEF IInv, CallerInv, FetchTypeOK
<1>7. ~Mine(c, counter)
  BY <1>1, MineGiven
<1>8. Heard(c)' = Heard(c) /\ \A s \in Heard(c) : s # counter
  BY <1>1, <1>6, <1>7 DEF Heard, AskedFor, Mine
<1>9. Covered(c)'
  <2> SUFFICES ASSUME NEW k \in DOMAIN RawItems(c), k < todo'[c], RawItems(c)[k] # NoId
               PROVE  \E s \in SubIds : detailSubs'[c][s] = RawItems(c)[k]
    BY <1>2, <1>3 DEF Covered
  <2>1. CASE k = todo[c]
    BY <1>1, <1>6, <2>1 DEF item
  <2>2. CASE k # todo[c]
    <3>1. k < todo[c]
      BY <1>2, <1>3, <2>2, LenProperties
    <3>2. PICK s \in SubIds : detailSubs[c][s] = RawItems(c)[k]
      BY <1>2, <3>1 DEF Tally, Covered, InDetails
    <3>3. detailSubs[c][s] # Null
      BY <1>3, <3>2, PagesFacts DEF AllItems
    <3>4. s # counter
      BY <1>7, <3>3 DEF Mine
    <3>5. QED
      BY <1>6, <3>2, <3>4
  <2>3. QED
    BY <2>1, <2>2
<1>10. \A s \in Heard(c) : s \in SubIds
  BY DEF Heard, AskedFor
<1>11. AllDetailsIn(c)' = AllDetailsIn(c)
  BY <1>2 DEF AllDetailsIn
<1>12. QED
  BY <1>2, <1>6, <1>8, <1>9, <1>10, <1>11 DEF Tally


\* A detail comes, and the loop goes on while one is missing.
LEMMA TallyRecvDetail ==
  ASSUME IInv, Exact, SafeInv, CleanPath, NEW c \in Callers, Tally(c), RecvDetail(c)
  PROVE  Tally(c)'
<1> DEFINE m == Head(recvChan)
<1> DEFINE item == detailSubs[c][m.sub]
<1>1. /\ pc[c] = "detailWait" /\ IsDetailReply(c, m) /\ Received
      /\ UNCHANGED <<counter, req, got, todo, detailSubs, timedOut>>
      /\ details' = [details EXCEPT ![c][item] = m.body]
      /\ received'[c] = received[c] + 1
      /\ subs' = subs \ {m.sub}
  BY DEF RecvDetail, StoreDetail, Count, Unsubscribe, Forget, IInv, CallerInv, FetchTypeOK
<1>2. m.sub \in SubIds /\ m.sub \in subs /\ ~m.error
  BY <1>1, ChanHead
<1>3. Mine(c, m.sub) /\ item \in Items /\ req[m.sub] = item
  BY <1>1, <1>2, MineGiven DEF IsDetailReply, Mine
<1>4. m.body # Null
  <2>1. recvChan \in Seq(Message) /\ recvChan # <<>>
    BY <1>1 DEF Received, IInv, ClientInv, ClientTypeOK
  <2>2. m = recvChan[1] /\ 1 \in 1 .. Len(recvChan)
    BY <2>1
  <2>3. m.body = req[m.sub]
    BY <1>2, <2>2 DEF Exact, ChanExact
  <2>4. QED
    BY <1>3, <2>3, PagesFacts
<1>5. CanWrite
  <2>1. conn # 0
    BY <1>1 DEF SafeInv, CallerStates
  <2>2. QED
    BY <2>1 DEF CleanPath, Healthy, HealthyConn
<1>6. pc'[c] = AfterCount(c) /\ UNCHANGED out
  BY <1>5 DEF RecvDetail, Goto, IInv, CallerInv, FetchTypeOK
<1> HIDE DEF item, m
<1>7. details'[c][item] # Null /\ \A i \in Items : i # item => details'[c][i] = details[c][i]
  BY <1>1, <1>3, <1>4 DEF IInv, CallerInv, FetchTypeOK
<1>8. AskedFor(c)' = AskedFor(c) /\ Heard(c)' = Heard(c) \cup {m.sub} /\ m.sub \notin Heard(c)
  BY <1>1, <1>2, <1>3 DEF AskedFor, Heard, Mine
<1>9. received'[c] = Cardinality(Heard(c)')
  BY <1>1, <1>8, SetsFinite, FS_AddElement DEF Tally
<1>10. \A s \in Heard(c)' : details'[c][detailSubs'[c][s]] # Null
  <2> SUFFICES ASSUME NEW s \in Heard(c)' PROVE details'[c][detailSubs[c][s]] # Null
    BY <1>1
  <2>1. s \in SubIds /\ Mine(c, s) /\ (s \in Heard(c) \/ s = m.sub)
    BY <1>8 DEF AskedFor, Heard
  <2>2. detailSubs[c][s] \in Items
    BY <2>1, MineGiven
  <2>3. s = m.sub => detailSubs[c][s] = item
    BY DEF item
  <2>4. s \in Heard(c) => details[c][detailSubs[c][s]] # Null
    BY DEF Tally
  <2>5. QED
    BY <1>7, <2>1, <2>2, <2>3, <2>4
<1>11. pc'[c] = "assemble" => Heard(c)' = AskedFor(c)'
  <2>1. ASSUME pc'[c] = "assemble" PROVE Heard(c)' = AskedFor(c)
    <3>1. received[c] \in Nat /\ ~(received[c] + 1 < Total(c))
      BY <1>6, <2>1 DEF AfterCount, IInv, CallerInv, FetchTypeOK
    <3>2. Heard(c)' \in SUBSET AskedFor(c)
      BY <1>8 DEF Heard
    <3>3. /\ IsFiniteSet(AskedFor(c)) /\ Total(c) = Cardinality(AskedFor(c))
          /\ Cardinality(AskedFor(c)) \in Nat
      BY SetsFinite, FS_CardinalityType
    <3>4. /\ Cardinality(Heard(c)') <= Cardinality(AskedFor(c))
          /\ Cardinality(AskedFor(c)) = Cardinality(Heard(c)') => AskedFor(c) = Heard(c)'
      BY <3>2, <3>3, FS_Subset
    <3>5. Cardinality(Heard(c)') = received[c] + 1
      BY <1>1, <1>9
    <3>6. Cardinality(AskedFor(c)) = Cardinality(Heard(c)')
      BY <3>1, <3>3, <3>4, <3>5
    <3>7. QED
      BY <3>4, <3>6
  <2>2. QED
    BY <1>8, <2>1
<1>12. Covered(c)'
  <2>1. RawItems(c)' = RawItems(c) /\ pc'[c] \in {"detailWait", "assemble"}
    BY <1>1, <1>6 DEF RawItems, AfterCount
  <2>2. QED
    BY <1>1, <2>1 DEF Tally, Covered, InDetails
<1>13. AllDetailsIn(c)' = AllDetailsIn(c)
  BY <1>6 DEF AllDetailsIn
<1>14. QED
  BY <1>1, <1>9, <1>10, <1>11, <1>12, <1>13 DEF Tally

\* A page whose details were all heard of is reported with all of them.
LEMMA TallyFinishPage ==
  ASSUME IInv, NEW c \in Callers, Tally(c), FinishPage(c)
  PROVE  Tally(c)'
<1>1. /\ pc[c] = "assemble" /\ pc'[c] \in {"ok", "pageConnect"} /\ timedOut' = timedOut
      /\ detailSubs'[c] = NoSubs /\ received'[c] = 0
      /\ out'[c] = out[c] \o Assembled(c)
  BY DEF FinishPage, Goto, IInv, CallerInv, FetchTypeOK
<1>2. Heard(c)' = {} /\ Cardinality({}) = 0
  BY <1>1, FS_EmptySet DEF Heard, AskedFor, Mine, NoSubs
<1>3. Covered(c)'
  BY <1>1 DEF Covered, InDetails
<1>4. ASSUME ~timedOut, NEW k \in DOMAIN Assembled(c), Assembled(c)[k].item # NoId
      PROVE  Assembled(c)[k].detail # Null
  <2>1. /\ k \in DOMAIN RawItems(c) /\ Assembled(c)[k].item = RawItems(c)[k]
        /\ Assembled(c)[k].detail = DetailOf(c, RawItems(c)[k])
    BY DEF Assembled
  <2>2. Assembled(c)[k].detail = details[c][RawItems(c)[k]]
    BY <1>4, <2>1 DEF DetailOf
  <2>3. PICK s \in SubIds : detailSubs[c][s] = RawItems(c)[k]
    BY <1>1, <1>4, <2>1 DEF Tally, Covered, InDetails
  <2>4. RawItems(c) \in Seq(AllItems)
    BY PagesFacts, EmptySeq DEF RawItems, IInv, CallerInv, FetchTypeOK
  <2>5. RawItems(c)[k] \in AllItems
    BY <2>1, <2>4
  <2>6. RawItems(c)[k] # Null
    BY <1>4, <2>1, <2>5, PagesFacts DEF AllItems
  <2>7. s \in Heard(c)
    BY <1>1, <1>4, <2>3, <2>6 DEF Tally, AskedFor, Mine
  <2>8. QED
    BY <2>2, <2>3, <2>7 DEF Tally
<1>5. ~timedOut => AllDetailsIn(c)'
  <2> SUFFICES ASSUME ~timedOut PROVE AllDetailsIn(c)'
    OBVIOUS
  <2>1. out[c] \in Seq(Event) /\ Assembled(c) \in Seq(Event)
    BY AssembledTyped DEF IInv, CallerInv, FetchTypeOK
  <2>2. PICK o \in Seq(Event), a \in Seq(Event) : o = out[c] /\ a = Assembled(c)
    BY <2>1
  <2>3. /\ Len(o) \in Nat /\ Len(a) \in Nat /\ DOMAIN o = 1 .. Len(o) /\ DOMAIN a = 1 .. Len(a)
        /\ DOMAIN (o \o a) = 1 .. Len(o) + Len(a)
        /\ \A k \in 1 .. Len(o) + Len(a) :
              (o \o a)[k] = IF k <= Len(o) THEN o[k] ELSE a[k - Len(o)]
    BY ConcatProperties, LenProperties
  <2>4. ASSUME NEW k \in DOMAIN (o \o a), (o \o a)[k].item # NoId
        PROVE  (o \o a)[k].detail # Null
    <3>1. CASE k <= Len(o)
      <4>1. k \in DOMAIN o /\ (o \o a)[k] = o[k]
        BY <2>3, <3>1
      <4>2. QED
        BY <2>2, <2>4, <4>1 DEF Tally, AllDetailsIn
    <3>2. CASE ~(k <= Len(o))
      <4>1. k - Len(o) \in DOMAIN a /\ (o \o a)[k] = a[k - Len(o)]
        BY <2>3, <3>2
      <4>2. QED
        BY <1>4, <2>2, <2>4, <4>1
    <3>3. QED
      BY <3>1, <3>2
  <2>5. QED
    BY <1>1, <2>2, <2>4 DEF AllDetailsIn
<1>6. QED
  BY <1>1, <1>2, <1>3, <1>5 DEF Tally

\* What a step of c is to another caller.
LEMMA TallyOfOthers ==
  ASSUME IInv, CleanPath, Owned, NEW c \in Callers, NEW d \in Callers, c # d, Tally(d),
         Start(c) \/ CallerStep(c)
  PROVE  Tally(d)'
<1>1. /\ detailSubs'[d] = detailSubs[d] /\ received'[d] = received[d] /\ details'[d] = details[d]
      /\ out'[d] = out[d] /\ got'[d] = got[d] /\ todo'[d] = todo[d] /\ pc'[d] = pc[d]
      /\ timedOut' \/ timedOut' = timedOut
  <2> USE DEF Goto, Fail, IInv, CallerInv, FetchTypeOK
  <2>1. CASE Start(c) \/ FinishPage(c) \/ CallerPanic(c)
    BY <2>1 DEF Start, FinishPage, CallerPanic, fetchVars
  <2>2. CASE PageStep(c)
    BY <2>2 DEF PageStep, PageConnect, PageSend, RecvPage, RecvOther, RecvPageError, PageBroken,
       PageTimeout, fetchVars
  <2>3. CASE \/ SkipItem(c) \/ DetailConnect(c) \/ StartDetailLoop(c) \/ RecvForeign(c)
             \/ DetailBroken(c) \/ DetailTimeout(c)
    BY <2>3 DEF SkipItem, DetailConnect, StartDetailLoop, RecvForeign, DetailBroken,
       DetailTimeout, NextItem, fetchVars
  <2>4. CASE DetailSend(c)
    BY <2>4 DEF DetailSend, RememberDetail, NextItem
  <2>5. CASE RecvDetail(c) \/ RecvDetailError(c)
    BY <2>5 DEF RecvDetail, RecvDetailError, Count, StoreDetail
  <2>6. QED
    BY <2>1, <2>2, <2>3, <2>4, <2>5 DEF CallerStep, DetailStep
<1>2. \A s \in SubIds : Mine(d, s) => (s \in subs' <=> s \in subs)
  <2>1. CASE PageSend(c) \/ DetailSend(c)
    BY <2>1, MineGiven DEF PageSend, DetailSend, Register
  <2>2. CASE RecvPage(c)
    <3>1. subs' = subs \ {pageSub[c]} /\ req[pageSub[c]] = cursor[c] /\ cursor[c] \in DOMAIN Pages
      BY <2>2 DEF RecvPage, Unsubscribe, Forget, IInv, CallerInv, CallerLabels, FetchTypeOK
    <3>2. req[pageSub[c]] \notin Items
      BY <3>1, PagesAssumption
    <3>3. QED
      BY <3>1, <3>2, MineGiven
  <2>3. CASE RecvDetail(c)
    <3>1. /\ subs' = subs \ {Head(recvChan).sub} /\ Head(recvChan).sub \in SubIds
          /\ Mine(c, Head(recvChan).sub)
      BY <2>3 DEF RecvDetail, Unsubscribe, Forget, IsDetailReply, Mine
    <3>2. QED
      BY <3>1 DEF Owned
  <2>4. CASE \/ Start(c) \/ PageConnect(c) \/ RecvOther(c) \/ RecvPageError(c) \/ PageBroken(c)
             \/ PageTimeout(c) \/ SkipItem(c) \/ DetailConnect(c) \/ StartDetailLoop(c)
             \/ RecvDetailError(c) \/ RecvForeign(c) \/ DetailBroken(c) \/ DetailTimeout(c)
             \/ FinishPage(c) \/ CallerPanic(c)
    BY <2>4 DEF Start, PageConnect, RecvOther, RecvPageError, PageBroken, PageTimeout, SkipItem,
       DetailConnect, StartDetailLoop, RecvDetailError, RecvForeign, DetailBroken, DetailTimeout,
       FinishPage, CallerPanic, clientVars, tableVars
  <2>5. QED
    BY <2>1, <2>2, <2>3, <2>4 DEF CallerStep, PageStep, DetailStep
<1>3. timedOut \in BOOLEAN
  BY DEF IInv, CallerInv, FetchTypeOK
<1>4. QED
  BY <1>1, <1>2, <1>3, TallyKept

\* A subscription id goes to one caller.
LEMMA OwnedStep ==
  ASSUME IInv, SafeInv, CleanPath, Owned, NEW c \in Callers, Start(c) \/ CallerStep(c)
  PROVE  Owned'
<1>1. CASE DetailSend(c)
  <2> DEFINE item == RawItems(c)[todo[c]]
  <2>1. Register(item) /\ ~NilConn /\ UNCHANGED <<ws, wsCtx, conn, loop, wire, chanVars, ctxDone>>
    BY <1>1 DEF DetailSend
  <2>2. CanWrite /\ counter \in SubIds
    BY <2>1, CleanRegister
  <2>3. detailSubs' = [detailSubs EXCEPT ![c][counter] = item]
    BY <1>1, <2>2 DEF DetailSend, RememberDetail
  <2> HIDE DEF item
  <2>4. \A d \in Callers : \A s \in SubIds : Mine(d, s)' => Mine(d, s) \/ (d = c /\ s = counter)
    BY <2>2, <2>3 DEF Mine, IInv, CallerInv, FetchTypeOK
  <2>5. \A d \in Callers : ~Mine(d, counter)
    BY <2>2, MineGiven
  <2>6. QED
    BY <2>4, <2>5 DEF Owned
<1>2. CASE FinishPage(c)
  <2>1. \A d \in Callers : \A s \in SubIds : Mine(d, s)' => Mine(d, s)
    BY <1>2 DEF FinishPage, Mine, NoSubs, IInv, CallerInv, FetchTypeOK
  <2>2. QED
    BY <2>1 DEF Owned
<1>3. CASE \/ Start(c) \/ PageStep(c) \/ SkipItem(c) \/ DetailConnect(c) \/ StartDetailLoop(c)
           \/ RecvDetail(c) \/ RecvDetailError(c) \/ RecvForeign(c) \/ DetailBroken(c)
           \/ DetailTimeout(c) \/ CallerPanic(c)
  <2>1. detailSubs' = detailSubs
    BY <1>3 DEF Start, PageStep, PageConnect, PageSend, RecvPage, RecvOther, RecvPageError,
       PageBroken, PageTimeout, SkipItem, DetailConnect, StartDetailLoop, RecvDetail,
       RecvDetailError, RecvForeign, DetailBroken, DetailTimeout, CallerPanic, fetchVars
  <2>2. QED
    BY <2>1 DEF Owned, Mine
<1>4. QED
  BY <1>1, <1>2, <1>3 DEF CallerStep, DetailStep

LEMMA TallyOfOwn ==
  ASSUME IInv, Exact, SafeInv, CleanPath, NEW c \in Callers, Tally(c), ~Fault,
         Start(c) \/ CallerStep(c)
  PROVE  Tally(c)'
<1>1. ~RecvDetailError(c) /\ ~DetailBroken(c)
  BY NoErrors
<1>2. CASE \/ Start(c) \/ PageConnect(c) \/ RecvPageError(c) \/ PageBroken(c) \/ PageTimeout(c)
           \/ SkipItem(c) \/ DetailConnect(c) \/ StartDetailLoop(c) \/ DetailTimeout(c)
           \/ RecvOther(c) \/ RecvForeign(c) \/ CallerPanic(c)
  BY <1>2, TallyOfMoves
<1>3. QED
  BY <1>1, <1>2, TallyPage, TallyDetailSend, TallyRecvDetail, TallyFinishPage
     DEF CallerStep, PageStep, DetailStep

Tallies == Owned /\ \A c \in Callers : Tally(c)

LEMMA InitTallies == Init => Tallies
<1> SUFFICES ASSUME Init, NEW c \in Callers PROVE Tally(c) /\ Owned
  BY DEF Init, Tallies, Owned, Mine, NoSubs
<1>1. AskedFor(c) = {} /\ Owned
  BY DEF Init, AskedFor, Mine, NoSubs, Owned
<1>2. Heard(c) = {} /\ Cardinality({}) = 0
  BY <1>1, FS_EmptySet DEF Heard
<1>3. AllDetailsIn(c)
  BY DEF Init, AllDetailsIn
<1>4. Covered(c)
  BY DEF Init, Covered, InDetails
<1>5. QED
  BY <1>1, <1>2, <1>3, <1>4 DEF Tally, Init

LEMMA NextTallies ==
  ASSUME IInv, Exact, SafeInv, CleanPath, Tallies, [Next]_vars, ~Fault, ~Update
  PROVE  Tallies'
<1>1. CASE UNCHANGED fetchVars /\ subs' = subs
  <2>1. Owned'
    BY <1>1 DEF Tallies, Owned, Mine, fetchVars
  <2>2. ASSUME NEW c \in Callers PROVE Tally(c)'
    <3>1. timedOut \in BOOLEAN
      BY DEF IInv, CallerInv, FetchTypeOK
    <3>2. QED
      BY <1>1, <3>1, TallyKept DEF Tallies, fetchVars
  <2>3. QED
    BY <2>1, <2>2 DEF Tallies
<1>2. ASSUME NEW c \in Callers, Start(c) \/ CallerStep(c) PROVE Tallies'
  <2>1. ASSUME NEW d \in Callers PROVE Tally(d)'
    BY <1>2, <2>1, TallyOfOwn, TallyOfOthers DEF Tallies
  <2>2. Owned'
    BY <1>2, OwnedStep DEF Tallies
  <2>3. QED
    BY <2>1, <2>2 DEF Tallies
<1>3. ASSUME NEW l \in LoopIds, LoopStep(l) /\ UNCHANGED fetchVars PROVE subs' = subs
  BY <1>3, CleanLoopStep
<1>4. ASSUME NEW s \in SubIds, ServerStep(s) /\ UNCHANGED fetchVars PROVE subs' = subs
  BY <1>4, CleanServerStep
<1>5. UNCHANGED vars => UNCHANGED fetchVars /\ subs' = subs
  BY DEF vars, clientVars, tableVars
<1>6. QED
  BY <1>1, <1>2, <1>3, <1>4, <1>5, CalmNext

\* On a connection that is sound and sends nothing unasked every reply is at
\* one place of its path, and every caller has the details it counted.
THEOREM UntroubledInvariant == Spec => [](Untroubled => CleanPath /\ Tallies)
<1> DEFINE J == Untroubled => CleanPath /\ Tallies
<1>1. Init => J
  BY InitClean, InitTallies
<1>2. IInv /\ (OneConnection => SafeInv) /\ (updates = 0 => Exact) /\ J /\ [Next]_vars => J'
  <2> SUFFICES ASSUME IInv, OneConnection => SafeInv, updates = 0 => Exact, J, [Next]_vars,
                      Untroubled'
               PROVE  CleanPath' /\ Tallies'
    OBVIOUS
  <2>1. Untroubled /\ ~Fault /\ ~Update
    BY NoMishap
  <2>2. SafeInv /\ Exact /\ CleanPath /\ Tallies
    BY <2>1 DEF Untroubled, OneConnection
  <2>3. QED
    BY <2>1, <2>2, NextClean, NextTallies
<1>3. QED
  BY <1>1, <1>2, LabelsInvariant, OneConnectionInvariant, ExactReplies, PTL DEF Spec

\* A fetch that met no failure, no timeout and no update has the detail of
\* every item, for any number of callers that share the client.
THEOREM CleanFetchesComplete == Spec => []CleanFetchComplete
<1>1. (Untroubled => CleanPath /\ Tallies) => CleanFetchComplete
  BY DEF Untroubled, Tallies, Tally, CleanFetchComplete, EveryDetailFetched
<1>2. QED
  BY <1>1, UntroubledInvariant, PTL

---------------------------------------------------------------------------
(* No reply is lost on such a connection                                   *)

\* Of the details c asked for on this page, those still registered are on their way.
Underway(c) ==
    pc[c] # "error" =>
        /\ ~InDetails(c) => AskedFor(c) = {}
        /\ \A s \in AskedFor(c) : s \in subs => Pending(s)

\* A step after which everything of c that is registered was so before, and is
\* as much under way as it was.
LEMMA UnderwayKept ==
  ASSUME NEW c \in Callers, Underway(c), detailSubs'[c] = detailSubs[c],
         \A s \in AskedFor(c) : s \in subs' => s \in subs /\ (Pending(s) => Pending(s)'),
         pc'[c] = "error" \/ (pc[c] # "error" /\ (InDetails(c) => InDetails(c)'))
  PROVE  Underway(c)'
<1>1. AskedFor(c)' = AskedFor(c)
  BY DEF AskedFor, Mine
<1>2. QED
  BY <1>1 DEF Underway

\* A caller that subscribes nothing of its own and takes nothing from the channel.
LEMMA UnderwayOfMoves ==
  ASSUME IInv, SafeInv, CleanPath, NEW c \in Callers, Underway(c), ~Fault,
         \/ Start(c) \/ PageConnect(c) \/ PageSend(c) \/ PageBroken(c) \/ PageTimeout(c)
         \/ SkipItem(c) \/ DetailConnect(c) \/ StartDetailLoop(c) \/ DetailTimeout(c)
         \/ CallerPanic(c)
  PROVE  Underway(c)'
<1>1. pc \in [Callers -> PCs]
  BY DEF IInv, CallerInv, FetchTypeOK
<1>2. detailSubs' = detailSubs
  BY DEF Start, PageConnect, PageSend, PageBroken, PageTimeout, SkipItem, DetailConnect,
     StartDetailLoop, DetailTimeout, CallerPanic, fetchVars
<1>3. pc[c] # "error" \/ pc'[c] = "error"
  BY DEF Start, PageConnect, PageSend, PageBroken, PageTimeout, SkipItem, DetailConnect,
     StartDetailLoop, DetailTimeout, CallerPanic, fetchVars
<1>4. InDetails(c) => InDetails(c)'
  BY <1>1 DEF InDetails, Start, PageConnect, PageSend, PageBroken, PageTimeout, SkipItem,
     DetailConnect, StartDetailLoop, DetailTimeout, CallerPanic, Goto, fetchVars
<1>5. CASE \/ Start(c) \/ PageBroken(c) \/ PageTimeout(c) \/ SkipItem(c) \/ StartDetailLoop(c)
           \/ DetailTimeout(c) \/ CallerPanic(c)
  <2>1. UNCHANGED <<ws, wsCtx, conn, loop, wire, srv, subs, counter, recvChan, chanClosed, ctxDone>>
    BY <1>5 DEF Start, PageBroken, PageTimeout, SkipItem, StartDetailLoop, DetailTimeout,
       CallerPanic, clientVars, connVars, chanVars, tableVars, fetchVars
  <2>2. \A s : Pending(s)' <=> Pending(s)
    BY <2>1, CleanKept
  <2>3. QED
    BY <1>2, <1>3, <1>4, <2>1, <2>2, UnderwayKept
<1>6. CASE PageConnect(c) \/ DetailConnect(c)
  <2>1. subs' = subs /\ \A s \in SubIds : Pending(s)' <=> Pending(s)
    BY <1>6, CleanConnect DEF PageConnect, DetailConnect
  <2>2. QED
    BY <1>2, <1>3, <1>4, <2>1, UnderwayKept DEF AskedFor
<1>7. CASE PageSend(c)
  <2>1. Register(cursor[c]) /\ ~NilConn /\ UNCHANGED <<ws, wsCtx, conn, loop, wire, chanVars, ctxDone>>
    BY <1>7 DEF PageSend
  <2>2. subs' = subs \cup {counter} /\ \A s \in SubIds : Pending(s)' <=> Pending(s) \/ s = counter
    BY <2>1, CleanRegister
  <2>3. \A s \in AskedFor(c) : s # counter /\ s \in SubIds
    BY MineGiven DEF AskedFor
  <2>4. QED
    BY <1>2, <1>3, <1>4, <2>2, <2>3, UnderwayKept
<1>8. QED
  BY <1>5, <1>6, <1>7

\* A caller that drops a message drops none of its own.
LEMMA UnderwayDrop ==
  ASSUME IInv, CleanPath, NEW c \in Callers, Underway(c), RecvOther(c) \/ RecvForeign(c)
  PROVE  Underway(c)'
<1> DEFINE m == Head(recvChan)
<1>1. Received /\ UNCHANGED <<loop, wire, srv, subs, fetchVars>>
  BY DEF RecvOther, RecvForeign, connVars, tableVars
<1>2. m.sub \in SubIds /\ \A s : InChan(s)' <=> InChan(s) /\ s # m.sub
  BY <1>1, ChanHead
<1>3. \A s : Asked(s)' = Asked(s) /\ OnWire(s)' = OnWire(s) /\ InLoop(s)' = InLoop(s)
  BY <1>1 DEF Asked, OnWire, InLoop, Holds
<1>4. pc[c] # "error"
  BY DEF RecvOther, RecvForeign
<1>5. m.sub \notin AskedFor(c)
  <2>1. CASE RecvOther(c)
    <3>1. AskedFor(c) = {}
      BY <1>4, <2>1 DEF RecvOther, InDetails, Underway
    <3>2. QED
      BY <3>1
  <2>2. CASE RecvForeign(c)
    BY <1>2, <2>2 DEF RecvForeign, IsDetailReply, AskedFor, Mine
  <2>3. QED
    BY <2>1, <2>2
<1>6. \A s \in AskedFor(c) : s # m.sub
  BY <1>5
<1> HIDE DEF m
<1>7. \A s \in AskedFor(c) : Pending(s) => Pending(s)'
  BY <1>2, <1>3, <1>6 DEF Pending
<1>8. QED
  BY <1>1, <1>4, <1>7, UnderwayKept DEF fetchVars, InDetails

\* A caller that takes a reply of its own ends that subscription.
LEMMA UnderwayTake ==
  ASSUME IInv, CleanPath, NEW c \in Callers, Underway(c), RecvPage(c) \/ RecvDetail(c)
  PROVE  Underway(c)'
<1> DEFINE m == Head(recvChan)
<1>1. /\ Received /\ Unsubscribe(m.sub)
      /\ UNCHANGED <<ws, wsCtx, conn, loop, wire, ctxDone, detailSubs>>
  BY DEF RecvPage, RecvDetail, IsPageReply
<1>2. subs' = subs \ {m.sub} /\ \A s \in SubIds : s # m.sub => (Pending(s)' <=> Pending(s))
  BY <1>1, CleanTake
<1> HIDE DEF m
<1>3. pc[c] # "error" /\ (pc'[c] = "error" \/ (InDetails(c) => InDetails(c)'))
  BY DEF RecvPage, RecvDetail, Goto, Fail, AfterCount, InDetails, IInv, CallerInv, FetchTypeOK
<1>4. \A s \in AskedFor(c) : s \in SubIds
  BY DEF AskedFor
<1>5. QED
  BY <1>1, <1>2, <1>3, <1>4, UnderwayKept

\* A detail that is asked for is under way.
LEMMA UnderwaySend ==
  ASSUME IInv, SafeInv, CleanPath, NEW c \in Callers, Underway(c), DetailSend(c)
  PROVE  Underway(c)'
<1> DEFINE item == RawItems(c)[todo[c]]
<1>1. Register(item) /\ ~NilConn /\ UNCHANGED <<ws, wsCtx, conn, loop, wire, chanVars, ctxDone>>
  BY DEF DetailSend
<1>2. /\ CanWrite /\ counter \in SubIds /\ subs' = subs \cup {counter}
      /\ \A s \in SubIds : Pending(s)' <=> Pending(s) \/ s = counter
  BY <1>1, CleanRegister
<1>3. pc[c] = "detailSend" /\ pc'[c] = "detailConnect"
  BY DEF DetailSend, Goto, IInv, CallerInv, FetchTypeOK
<1>4. detailSubs' = [detailSubs EXCEPT ![c][counter] = item]
  BY <1>2 DEF DetailSend, RememberDetail
<1> HIDE DEF item
<1>5. \A s \in SubIds : s # counter => detailSubs'[c][s] = detailSubs[c][s]
  BY <1>4 DEF IInv, CallerInv, FetchTypeOK
<1>6. ASSUME NEW s \in AskedFor(c)', s \in subs' PROVE Pending(s)'
  <2>1. s \in SubIds
    BY DEF AskedFor
  <2>2. CASE s = counter
    BY <1>2, <2>1, <2>2
  <2>3. CASE s # counter
    <3>1. s \in AskedFor(c) /\ s \in subs
      BY <1>2, <1>5, <1>6, <2>1, <2>3 DEF AskedFor, Mine
    <3>2. QED
      BY <1>2, <1>3, <2>1, <3>1 DEF Underway
  <2>4. QED
    BY <2>2, <2>3
<1>7. QED
  BY <1>3, <1>6 DEF Underway, InDetails

LEMMA UnderwayOfCaller ==
  ASSUME IInv, SafeInv, CleanPath, NEW c \in Callers, Underway(c), ~Fault,
         Start(c) \/ CallerStep(c)
  PROVE  Underway(c)'
<1>1. ~RecvDetailError(c) /\ ~DetailBroken(c)
  BY NoErrors
<1>2. RecvPageError(c) => Underway(c)'
  BY DEF RecvPageError, Fail, Goto, Underway, IInv, CallerInv, FetchTypeOK
<1>3. FinishPage(c) => Underway(c)'
  <2> SUFFICES ASSUME FinishPage(c) PROVE AskedFor(c)' = {}
    BY DEF Underway
  <2>1. QED
    BY DEF FinishPage, AskedFor, Mine, NoSubs, IInv, CallerInv, FetchTypeOK
<1>4. QED
  BY <1>1, <1>2, <1>3, UnderwayOfMoves, UnderwayDrop, UnderwayTake, UnderwaySend
     DEF CallerStep, PageStep, DetailStep

LEMMA NextUnderway ==
  ASSUME IInv, Exact, SafeInv, CleanPath, NEW c, Callers = {c}, Underway(c), [Next]_vars,
         ~Fault, ~Update
  PROVE  Underway(c)'
<1>1. ASSUME UNCHANGED fetchVars, subs' = subs, \A s \in SubIds : Pending(s)' <=> Pending(s)
      PROVE  Underway(c)'
  BY <1>1 DEF Underway, InDetails, AskedFor, Mine, fetchVars
<1>2. CASE Start(c) \/ CallerStep(c)
  BY <1>2, UnderwayOfCaller
<1>3. ASSUME NEW l \in LoopIds, LoopStep(l) /\ UNCHANGED fetchVars PROVE Underway(c)'
  BY <1>1, <1>3, CleanLoopStep
<1>4. ASSUME NEW s \in SubIds, ServerStep(s) /\ UNCHANGED fetchVars PROVE Underway(c)'
  BY <1>1, <1>4, CleanServerStep
<1>5. CASE UNCHANGED vars
  BY <1>1, <1>5, CleanKept DEF vars, clientVars, connVars, tableVars, chanVars, fetchVars
<1>6. QED
  BY <1>2, <1>3, <1>4, <1>5, CalmNext

\* Names that are given once count what they name.
LEMMA CountedOnce ==
  ASSUME NEW I, NEW T, IsFiniteSet(T), NEW f \in [I -> T],
         \A i, j \in I : f[i] = f[j] => i = j, \A t \in T : \E i \in I : f[i] = t
  PROVE  Cardinality(I) = Cardinality(T)
<1>1. f \in Injection(I, T)
  BY DEF Injection, IsInjective
<1>2. f \in Surjection(I, T)
  BY DEF Surjection
<1>3. QED
  BY <1>1, <1>2, FS_Injection

LEMMA FourParts ==
  ASSUME NEW S, IsFiniteSet(S), NEW A \in SUBSET S, NEW B \in SUBSET S, NEW C \in SUBSET S,
         NEW D \in SUBSET S, S = A \cup B \cup C \cup D,
         A \cap B = {}, (A \cup B) \cap C = {}, (A \cup B \cup C) \cap D = {}
  PROVE  Cardinality(S) = Cardinality(A) + Cardinality(B) + Cardinality(C) + Cardinality(D)
<1>1. IsFiniteSet(A) /\ IsFiniteSet(B) /\ IsFiniteSet(C) /\ IsFiniteSet(D)
  BY FS_Subset
<1>2. /\ IsFiniteSet(A \cup B)
      /\ Cardinality(A \cup B) = Cardinality(A) + Cardinality(B) - Cardinality(A \cap B)
  BY <1>1, FS_Union
<1>3. /\ IsFiniteSet(A \cup B \cup C)
      /\ Cardinality(A \cup B \cup C)
             = Cardinality(A \cup B) + Cardinality(C) - Cardinality((A \cup B) \cap C)
  BY <1>1, <1>2, FS_Union
<1>4. Cardinality(S) = Cardinality(A \cup B \cup C) + Cardinality(D)
                         - Cardinality((A \cup B \cup C) \cap D)
  BY <1>1, <1>3, FS_Union
<1>5. /\ Cardinality(A) \in Nat /\ Cardinality(B) \in Nat /\ Cardinality(C) \in Nat
      /\ Cardinality(D) \in Nat /\ Cardinality({}) = 0
  BY <1>1, FS_CardinalityType, FS_EmptySet
<1>6. /\ Cardinality(A \cap B) = 0 /\ Cardinality((A \cup B) \cap C) = 0
      /\ Cardinality((A \cup B \cup C) \cap D) = 0
  BY <1>5
<1>7. Cardinality(A \cup B) = Cardinality(A) + Cardinality(B)
  BY <1>2, <1>5, <1>6
<1>8. Cardinality(A \cup B \cup C) = Cardinality(A) + Cardinality(B) + Cardinality(C)
  BY <1>3, <1>5, <1>6, <1>7
<1>9. QED
  BY <1>4, <1>5, <1>6, <1>8

\* On a clean path the replies to come of a caller, by where they are.
LEMMA RepliesCounted ==
  ASSUME IInv, SafeInv, CleanPath, NEW c \in Callers
  PROVE  RepliesIn(c) = Cardinality({s \in AskedFor(c) : Pending(s)})
<1> DEFINE
      inWire == {k \in DOMAIN wire : wire[k].code # "C" /\ Mine(c, wire[k].sub)}
      inLoop == {l \in LoopIds : \/ /\ loop[l].pc = "parse" /\ loop[l].frame.code # "C"
                                    /\ Mine(c, loop[l].frame.sub)
                                 \/ loop[l].pc = "send" /\ Mine(c, loop[l].msg.sub)}
      inChan == {k \in DOMAIN recvChan : recvChan[k].sub # NoSub /\ Mine(c, recvChan[k].sub)}
      unsent == {s \in SubIds : Mine(c, s) /\ srv[s] = "asked"}
      SubIn(l) == IF loop[l].pc = "parse" THEN loop[l].frame.sub ELSE loop[l].msg.sub
<1> DEFINE A == {s \in AskedFor(c) : Asked(s)}
           W == {s \in AskedFor(c) : OnWire(s)}
           L == {s \in AskedFor(c) : InLoop(s)}
           R == {s \in AskedFor(c) : InChan(s)}
           P == {s \in AskedFor(c) : Pending(s)}
<1>1. RepliesIn(c) = Cardinality(inWire) + Cardinality(inLoop) + Cardinality(inChan)
                       + Cardinality(unsent)
  BY DEF RepliesIn
<1>2. /\ IsFiniteSet(P) /\ IsFiniteSet(A) /\ IsFiniteSet(W) /\ IsFiniteSet(L) /\ IsFiniteSet(R)
  <2>1. /\ P \in SUBSET AskedFor(c) /\ A \in SUBSET AskedFor(c) /\ W \in SUBSET AskedFor(c)
        /\ L \in SUBSET AskedFor(c) /\ R \in SUBSET AskedFor(c)
    OBVIOUS
  <2>2. IsFiniteSet(AskedFor(c))
    BY SetsFinite
  <2> HIDE DEF A, W, L, R, P
  <2>3. QED
    BY <2>1, <2>2, FS_Subset
<1>3. unsent = A
  BY DEF AskedFor, Asked
<1>4. Cardinality(inWire) = Cardinality(W)
  <2> DEFINE f == [k \in inWire |-> wire[k].sub]
  <2>1. DOMAIN wire = 1 .. Len(wire) /\ \A k \in 1 .. Len(wire) : wire[k].sub \in SubIds
    BY LenProperties DEF IInv, ClientInv, ClientTypeOK, ClientLabels, WireLabels, Answers, Given
  <2>2. f \in [inWire -> W]
    BY <2>1 DEF OnWire, AskedFor
  <2>3. \A i, j \in inWire : f[i] = f[j] => i = j
    BY <2>1 DEF CleanPath, Once, WireOnce
  <2>4. \A t \in W : \E i \in inWire : f[i] = t
    BY <2>1 DEF OnWire, AskedFor
  <2> HIDE DEF f, inWire, W
  <2>5. QED
    BY <1>2, <2>2, <2>3, <2>4, CountedOnce
<1>5. Cardinality(inChan) = Cardinality(R)
  <2> DEFINE f == [k \in inChan |-> recvChan[k].sub]
  <2>1. DOMAIN recvChan = 1 .. Len(recvChan)
    BY LenProperties DEF IInv, ClientInv, ClientTypeOK
  <2>2. \A k \in 1 .. Len(recvChan) : recvChan[k].sub # NoSub => recvChan[k].sub \in SubIds
    BY DEF IInv, ClientInv, ClientLabels, ChanLabels, Answers, Given
  <2>3. NoSub \notin SubIds
    BY DEF NoSub, SubIds
  <2>4. f \in [inChan -> R]
    BY <2>1, <2>2 DEF InChan, AskedFor
  <2>5. \A i, j \in inChan : f[i] = f[j] => i = j
    BY <2>1 DEF CleanPath, Once, ChanOnce
  <2>6. \A t \in R : \E i \in inChan : f[i] = t
    BY <2>1, <2>3 DEF InChan, AskedFor
  <2> HIDE DEF f, inChan, R
  <2>7. QED
    BY <1>2, <2>4, <2>5, <2>6, CountedOnce
<1>6. Cardinality(inLoop) = Cardinality(L)
  <2> DEFINE f == [l \in inLoop |-> SubIn(l)]
  <2>1. \A l \in inLoop : l \in LoopIds /\ Holds(l, SubIn(l)) /\ Mine(c, SubIn(l))
    BY DEF Holds
  <2>2. \A l \in LoopIds : \A s : Holds(l, s) => s = SubIn(l)
    BY DEF Holds
  <2>3. \A l \in LoopIds : Holds(l, SubIn(l)) => SubIn(l) \in SubIds
    <3>1. SUFFICES ASSUME NEW l \in LoopIds, Holds(l, SubIn(l)) PROVE SubIn(l) \in SubIds
      OBVIOUS
    <3>2. CASE loop[l].pc = "parse"
      BY <3>2 DEF IInv, ClientInv, ClientLabels, LoopLabels, Answers, Given
    <3>3. CASE loop[l].pc = "send"
      <4>1. ~loop[l].msg.error
        BY <3>3 DEF CleanPath, Healthy, HealthyLoop
      <4>2. QED
        BY <3>3, <4>1 DEF IInv, ClientInv, ClientLabels, LoopLabels, Answers, Given
    <3>4. QED
      BY <3>1, <3>2, <3>3 DEF Holds
  <2>4. f \in [inLoop -> L]
    <3> SUFFICES ASSUME NEW l \in inLoop PROVE SubIn(l) \in L
      OBVIOUS
    <3> HIDE DEF SubIn
    <3>1. QED
      BY <2>1, <2>3 DEF InLoop, AskedFor
  <2>5. \A i, j \in inLoop : i = j
    <3>1. \A l \in inLoop : l \in LoopIds /\ loop[l].pc # "none"
      OBVIOUS
    <3>2. QED
      BY <3>1 DEF SafeInv, LoopStates
  <2>6. \A t \in L : \E i \in inLoop : f[i] = t
    <3> SUFFICES ASSUME NEW t \in L PROVE \E i \in inLoop : f[i] = t
      OBVIOUS
    <3>1. PICK l \in LoopIds : Holds(l, t)
      BY DEF InLoop
    <3>2. t = SubIn(l) /\ Mine(c, t)
      BY <2>2, <3>1 DEF AskedFor
    <3>3. l \in inLoop
      BY <3>1, <3>2 DEF Holds
    <3>4. QED
      BY <3>2, <3>3
  <2> HIDE DEF f, inLoop, L
  <2>7. QED
    BY <1>2, <2>4, <2>5, <2>6, CountedOnce
<1>7. Cardinality(P) = Cardinality(A) + Cardinality(W) + Cardinality(L) + Cardinality(R)
  <2>1. P = A \cup W \cup L \cup R
    BY DEF Pending
  <2>2. \A s \in AskedFor(c) : OnePlace(s)
    BY DEF AskedFor, CleanPath, Once
  <2>3. A \cap W = {} /\ (A \cup W) \cap L = {} /\ (A \cup W \cup L) \cap R = {}
    BY <2>2 DEF OnePlace
  <2> HIDE DEF A, W, L, R, P
  <2>4. QED
    BY <1>2, <2>1, <2>3, FourParts
<1>8. /\ Cardinality(A) \in Nat /\ Cardinality(W) \in Nat /\ Cardinality(L) \in Nat
      /\ Cardinality(R) \in Nat
  <2> HIDE DEF A, W, L, R, P
  <2>1. QED
    BY <1>2, FS_CardinalityType
<1>9. QED
  <2> HIDE DEF A, W, L, R, P, inWire, inLoop, inChan, unsent
  <2>1. RepliesIn(c) = Cardinality(P)
    BY <1>1, <1>3, <1>4, <1>5, <1>6, <1>7, <1>8
  <2>2. QED
    BY <2>1 DEF P

NoneLost(c) == Untroubled => Underway(c)

\* What is heard of and what is still to come make up what was asked for.
LEMMA CountsAddUp ==
  ASSUME IInv, SafeInv, CleanPath, NEW c \in Callers, Tally(c), Underway(c), pc[c] # "error"
  PROVE  received[c] + RepliesIn(c) = Total(c)
<1> DEFINE P == {s \in AskedFor(c) : Pending(s)}
<1>1. \A s \in AskedFor(c) : OnePlace(s)
  BY DEF AskedFor, CleanPath, Once
<1>2. AskedFor(c) = Heard(c) \cup P /\ Heard(c) \cap P = {}
  BY <1>1 DEF Heard, OnePlace, Underway
<1>3. RepliesIn(c) = Cardinality(P)
  BY RepliesCounted
<1>4. P \in SUBSET AskedFor(c)
  OBVIOUS
<1> HIDE DEF P
<1>5. IsFiniteSet(Heard(c)) /\ IsFiniteSet(P) /\ Total(c) = Cardinality(AskedFor(c))
  BY <1>4, SetsFinite, FS_Subset
<1>6. Cardinality(Heard(c) \cup P)
          = Cardinality(Heard(c)) + Cardinality(P) - Cardinality(Heard(c) \cap P)
  BY <1>5, FS_Union
<1>7. Cardinality(Heard(c)) \in Nat /\ Cardinality(P) \in Nat /\ Cardinality({}) = 0
  BY <1>5, FS_CardinalityType, FS_EmptySet
<1>8. received[c] = Cardinality(Heard(c))
  BY DEF Tally
<1>9. Cardinality(Heard(c) \cap P) = 0
  BY <1>2, <1>7
<1>10. Cardinality(AskedFor(c)) = Cardinality(Heard(c)) + Cardinality(P)
  BY <1>2, <1>6, <1>7, <1>9
<1>11. QED
  BY <1>3, <1>5, <1>8, <1>10

\* While a sole caller waits for details on such a connection, those it has
\* still to count are those on their way: no reply is lost or doubled between
\* the server, the wire, the receive loop and recvChan.
THEOREM NoReplyLost == Spec => []RepliesConserved
<1>1. CASE ~\E c \in Callers : Callers = {c}
  <2>1. RepliesConserved
    BY <1>1 DEF RepliesConserved
  <2>2. QED
    BY <2>1, PTL
<1>2. ASSUME NEW c \in Callers, Callers = {c} PROVE Spec => []RepliesConserved
  <2>1. Init => NoneLost(c)
    BY DEF NoneLost, Init, ClientInit, Underway, AskedFor, Mine, NoSubs
  <2>2. /\ IInv /\ (OneConnection => SafeInv) /\ (updates = 0 => Exact)
        /\ (Untroubled => CleanPath /\ Tallies) /\ NoneLost(c) /\ [Next]_vars
        => NoneLost(c)'
    <3> SUFFICES ASSUME IInv, OneConnection => SafeInv, updates = 0 => Exact,
                        Untroubled => CleanPath /\ Tallies, NoneLost(c), [Next]_vars,
                        Untroubled'
                 PROVE  Underway(c)'
      BY DEF NoneLost
    <3>1. Untroubled /\ ~Fault /\ ~Update
      BY NoMishap
    <3>2. SafeInv /\ Exact /\ CleanPath /\ Underway(c)
      BY <3>1 DEF NoneLost, Untroubled, OneConnection
    <3>3. QED
      BY <1>2, <3>1, <3>2, NextUnderway
  <2>3. /\ IInv /\ (OneConnection => SafeInv) /\ (Untroubled => CleanPath /\ Tallies) /\ NoneLost(c)
        => RepliesConserved
    <3> SUFFICES ASSUME IInv, OneConnection => SafeInv, Untroubled => CleanPath /\ Tallies, NoneLost(c),
                        Untroubled, pc[c] = "detailWait"
                 PROVE  received[c] + RepliesIn(c) = Total(c)
      BY <1>2 DEF RepliesConserved, Untroubled
    <3>1. SafeInv /\ CleanPath /\ Tally(c) /\ Underway(c)
      BY DEF NoneLost, Untroubled, OneConnection, Tallies
    <3>2. QED
      BY <3>1, CountsAddUp
  <2>4. QED
    BY <2>1, <2>2, <2>3, LabelsInvariant, OneConnectionInvariant, ExactReplies,
       UntroubledInvariant, PTL DEF Spec
<1>3. QED
  BY <1>1, <1>2

=============================================================================
