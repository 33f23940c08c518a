--------------------------- MODULE WebFlow_proofs ---------------------------
(***************************************************************************)
(* Proofs about WebFlow: for every number of concurrent requests, sessions *)
(* and logins, the unlocked writes of the handlers leave no stored session *)
(* without what its state promises.                                        *)
(***************************************************************************)
EXTENDS WebFlow, TLAPS

\* The store on its own: ids in use come first, no two structs share a client,
\* the client a removal is closing is nobody else's, a stored session's client
\* is open, and its state has what it needs.
StoreOK ==
    /\ StoreTypeOK
    /\ \A s \in SessionIds : session[s].client \in 0 .. clients
    /\ \A s \in SessionIds : s > made => session[s] = NewSession
    /\ \A s, t \in SessionIds :
          s # t /\ session[s].client = session[t].client => session[s].client = NoClient
    /\ victim \notin sweep
    /\ \A s \in SessionIds \ {victim} : session[s].client = closing => closing = NoClient
    /\ \A s \in stored : session[s].client \notin closed
    /\ \A s \in stored : session[s].state # "login" => session[s].client # NoClient
    /\ DoneHasResult

\* Handlers that have seen, or given, a client to the session they hold.
Past == {"putTwoFA", "complete", "rotate", "stream", "dial", "putDone", "touch"}

\* What a request at p knows of its session a: while the session is stored,
\* nobody takes its client or its data away.
Knows(p, a) ==
    /\ a \in 0 .. made
    /\ p \notin {"idle", "csrf", "get", "create"} => a # NoSession
    /\ p \in Past /\ a \in stored => session[a].client # NoClient
    /\ p = "putDone" /\ a \in stored => session[a].csv

IInv ==
    /\ TypeOK
    /\ StoreOK
    /\ cookie \in 0 .. made
    /\ \A r \in Requests : Knows(pc[r], at[r])

\* What a step of one request leaves to the others.
Keeps ==
    \A p \in PCs, a \in SessionIds \cup {NoSession} : Knows(p, a) => Knows(p, a)'

---------------------------------------------------------------------------
(* The operations of the store                                             *)

LEMMA StoreSame ==
  ASSUME StoreOK, UNCHANGED storeVars
  PROVE  StoreOK' /\ Keeps /\ made' = made
BY DEF StoreOK, StoreTypeOK, DoneHasResult, Keeps, Knows, storeVars, muVars, NewSession

\* Going to the next session of S with the session and the client of a state
\* where S is stored.
LEMMA VisitOK ==
  ASSUME StoreOK, NEW S \in SUBSET stored, Visit(S)
  PROVE  /\ sweep' \subseteq S /\ victim' \in S \cup {NoSession} /\ victim' \notin sweep'
         /\ closing' \in 0 .. clients
         /\ \A s \in SessionIds \ {victim'} : session[s].client = closing' => closing' = NoClient
<1>1. clients \in Nat /\ stored \subseteq SessionIds /\ NoSession \notin stored
  BY StoreAssumption DEF StoreOK, StoreTypeOK, SessionIds, NoSession
<1>2. CASE S = {}
  BY <1>1, <1>2 DEF Visit, NoClient
<1>3. CASE S # {}
  <2>1. PICK s \in S : sweep' = S \ {s} /\ victim' = s /\ closing' = session[s].client
    BY <1>3 DEF Visit
  <2>2. s \in SessionIds /\ session[s].client \in 0 .. clients
    BY <1>1 DEF StoreOK
  <2>3. \A t \in SessionIds \ {s} : session[t].client = session[s].client => session[s].client = NoClient
    BY <2>2 DEF StoreOK
  <2>4. QED
    BY <2>1, <2>2, <2>3
<1>4. QED
  BY <1>2, <1>3

LEMMA RemoveOK ==
  ASSUME StoreOK, NEW S \in SUBSET stored, Remove(S)
  PROVE  StoreOK' /\ Keeps /\ made' = made
<1>1. UNCHANGED <<made, stored, session, expired, clients, closed>> /\ Visit(S)
  BY DEF Remove
<1>2. /\ sweep' \subseteq S /\ victim' \in S \cup {NoSession} /\ victim' \notin sweep'
      /\ closing' \in 0 .. clients
      /\ \A s \in SessionIds \ {victim'} : session[s].client = closing' => closing' = NoClient
  BY <1>1, VisitOK
<1>3. StoreTypeOK'
  BY <1>1, <1>2 DEF StoreOK, StoreTypeOK
<1>4. StoreOK'
  BY <1>1, <1>2, <1>3 DEF StoreOK, DoneHasResult
<1>5. Keeps
  BY <1>1 DEF Keeps, Knows
<1>6. QED
  BY <1>1, <1>4, <1>5

LEMMA DropOK ==
  ASSUME StoreOK, NEW taken, DropVictim(taken)
  PROVE  StoreOK' /\ Keeps /\ made' = made
<1> DEFINE v == victim
<1>1. made \in Nat /\ clients \in Nat /\ 1 .. made \subseteq SessionIds /\ v \in stored /\ v \in 1 .. made
      /\ v \in SessionIds
  BY StoreAssumption DEF DropVictim, StoreOK, StoreTypeOK, SessionIds
<1>2. /\ closed' = closed \cup ({closing} \ {NoClient}) /\ stored' = stored \ {v}
      /\ session' = [session EXCEPT ![v] = Zeroed(v)] /\ expired' = expired \ {v}
      /\ UNCHANGED <<made, clients>> /\ Visit(sweep)
      /\ closing \in 0 .. clients /\ sweep \subseteq stored
  BY DEF DropVictim, Closes, StoreOK, StoreTypeOK
<1>3. v \notin sweep
  BY DEF StoreOK
<1>12. /\ sweep' \subseteq sweep /\ victim' \in sweep \cup {NoSession} /\ victim' \notin sweep'
       /\ closing' \in 0 .. clients
       /\ \A s \in SessionIds \ {victim'} : session[s].client = closing' => closing' = NoClient
  BY <1>2, VisitOK
<1> HIDE DEF v
<1>4. session[v] \in Session /\ Zeroed(v) \in Session /\ Zeroed(v).client = NoClient
  BY <1>1 DEF StoreOK, StoreTypeOK, Zeroed, Session
<1>5. /\ session' \in [SessionIds -> Session]
      /\ session'[v].client = NoClient
      /\ \A s \in SessionIds \ {v} : session'[s] = session[s]
  BY <1>1, <1>2, <1>4 DEF StoreOK, StoreTypeOK
<1>6. StoreTypeOK'
  <2>1. closed' \subseteq 1 .. clients
    BY <1>1, <1>2 DEF StoreOK, StoreTypeOK, NoClient
  <2>2. sweep' \subseteq stored' /\ victim' \in stored' \cup {NoSession}
    BY <1>2, <1>3, <1>12
  <2>3. QED
    BY <1>2, <1>5, <1>12, <2>1, <2>2 DEF StoreOK, StoreTypeOK
<1>7. \A s \in SessionIds : session'[s].client \in {session[s].client, NoClient}
  BY <1>5
<1>8. \A s \in stored' : session'[s] = session[s] /\ session[s].client \notin closed'
  <2> SUFFICES ASSUME NEW s \in stored'
               PROVE  session'[s] = session[s] /\ session[s].client \notin closed'
    OBVIOUS
  <2>1. s \in SessionIds \ {v} /\ s \in stored
    BY <1>1, <1>2 DEF StoreOK, StoreTypeOK
  <2>2. session[s].client = closing => closing = NoClient
    BY <2>1 DEF StoreOK, v
  <2>3. QED
    BY <2>1, <2>2, <1>2, <1>5 DEF StoreOK
<1>9. StoreOK'
  <2>1. \A s \in SessionIds : session'[s].client \in 0 .. clients'
    BY <1>1, <1>2, <1>7 DEF StoreOK, NoClient
  <2>2. \A s \in SessionIds : s > made' => session'[s] = NewSession
    BY <1>1, <1>2, <1>5 DEF StoreOK
  <2>3. \A s, t \in SessionIds :
           s # t /\ session'[s].client = session'[t].client => session'[s].client = NoClient
    BY <1>7 DEF StoreOK
  <2>4. \A s \in stored' : /\ session'[s].client \notin closed'
                           /\ session'[s].state # "login" => session'[s].client # NoClient
                           /\ session'[s].state = "done" => session'[s].csv
    BY <1>2, <1>8 DEF StoreOK, DoneHasResult
  <2>5. \A s \in SessionIds \ {victim'} : session'[s].client = closing' => closing' = NoClient
    BY <1>7, <1>12
  <2>6. QED
    BY <1>6, <1>12, <2>1, <2>2, <2>3, <2>4, <2>5 DEF StoreOK, DoneHasResult
<1>10. Keeps
  <2> SUFFICES ASSUME NEW p \in PCs, NEW a \in SessionIds \cup {NoSession}, Knows(p, a)
               PROVE  Knows(p, a)'
    BY DEF Keeps
  <2>1. a \in stored' => a \in stored /\ session'[a] = session[a]
    BY <1>2, <1>8
  <2>2. QED
    BY <2>1, <1>2 DEF Knows
<1>11. QED
  BY <1>2, <1>9, <1>10

LEMMA CreateOK ==
  ASSUME StoreOK, Create
  PROVE  StoreOK' /\ Keeps /\ made' \in Nat /\ made' > made
<1> USE DEF Create, muVars
<1>1. /\ made \in Nat /\ made + 1 \in SessionIds /\ made + 1 \in 0 .. MaxSessions
      /\ 1 .. (made + 1) = (1 .. made) \cup {made + 1}
  BY StoreAssumption DEF StoreOK, StoreTypeOK, SessionIds
<1>2. session[made + 1] = NewSession
  BY <1>1 DEF StoreOK
<1>3. closed \subseteq 1 .. clients /\ clients \in Nat
  BY StoreAssumption DEF StoreOK, StoreTypeOK
<1>4. StoreOK'
  <2>1. StoreTypeOK'
    BY <1>1, <1>3 DEF StoreOK, StoreTypeOK
  <2>2. \A s \in SessionIds : s > made' => session'[s] = NewSession
    BY <1>1 DEF StoreOK, SessionIds
  <2>3. \A s \in stored' : /\ session'[s].client \notin closed'
                           /\ session'[s].state # "login" => session'[s].client # NoClient
                           /\ session'[s].state = "done" => session'[s].csv
    <3> SUFFICES ASSUME NEW s \in stored'
                 PROVE  /\ session[s].client \notin closed
                        /\ session[s].state # "login" => session[s].client # NoClient
                        /\ session[s].state = "done" => session[s].csv
      OBVIOUS
    <3>1. CASE s = made + 1
      BY <3>1, <1>2, <1>3 DEF NewSession, NoClient
    <3>2. CASE s \in stored
      BY <3>2 DEF StoreOK, DoneHasResult
    <3>3. QED
      BY <3>1, <3>2
  <2>4. /\ \A s \in SessionIds : session'[s].client \in 0 .. clients'
        /\ \A s, t \in SessionIds :
              s # t /\ session'[s].client = session'[t].client => session'[s].client = NoClient
        /\ \A s \in SessionIds \ {victim'} : session'[s].client = closing' => closing' = NoClient
        /\ victim' \notin sweep'
    BY DEF StoreOK
  <2>5. /\ \A s \in stored' : session'[s].client \notin closed'
        /\ \A s \in stored' : session'[s].state # "login" => session'[s].client # NoClient
        /\ \A s \in stored' : session'[s].state = "done" => session'[s].csv
    <3> HIDE DEF Create
    <3> QED
      BY <2>3
  <2> HIDE DEF Create
  <2>6. QED
    BY <2>1, <2>2, <2>4, <2>5, Zenon DEF StoreOK, DoneHasResult
<1>5. Keeps
  <2> SUFFICES ASSUME NEW p \in PCs, NEW a \in SessionIds \cup {NoSession}, Knows(p, a)
               PROVE  Knows(p, a)'
    BY DEF Keeps
  <2>1. a \in 0 .. made' /\ a # made + 1
    BY <1>1 DEF Knows
  <2>2. QED
    BY <2>1 DEF Knows
<1>6. QED
  BY <1>1, <1>4, <1>5

LEMMA TouchOK ==
  ASSUME StoreOK, NEW s, Touch(s) \/ Expire(s)
  PROVE  StoreOK' /\ Keeps /\ made' = made
<1>1. /\ UNCHANGED <<made, stored, session, clients, closed, sweep, victim, closing>>
      /\ expired' = expired \ {s} \/ (s \in stored /\ expired' = expired \cup {s})
  BY DEF Touch, Expire, muVars
<1>2. StoreTypeOK'
  BY <1>1 DEF StoreOK, StoreTypeOK
<1>3. StoreOK'
  BY <1>1, <1>2 DEF StoreOK, DoneHasResult
<1>4. Keeps
  BY <1>1 DEF Keeps, Knows
<1>5. QED
  BY <1>1, <1>3, <1>4

LEMMA RotateOK ==
  ASSUME StoreOK, NEW s \in stored, Rotate(s)
  PROVE  StoreOK' /\ Keeps /\ made' \in Nat /\ made' > made
<1> USE DEF Rotate
<1> DEFINE n == made + 1
<1>0. made < MaxSessions
  OBVIOUS
<1>1. /\ made \in Nat /\ n \in SessionIds /\ n \in 0 .. MaxSessions /\ n > made
      /\ 1 .. n = (1 .. made) \cup {n} /\ s \in 1 .. made /\ 1 .. made \subseteq SessionIds
      /\ s # n /\ n \notin stored
  <2> HIDE DEF Rotate
  <2>1. made \in Nat /\ MaxSessions \in Nat /\ stored \subseteq 1 .. made
    BY StoreAssumption DEF StoreOK, StoreTypeOK
  <2>2. QED
    BY <1>0, <2>1 DEF SessionIds
<1>2. session[n] = NewSession /\ session \in [SessionIds -> Session]
  BY <1>1 DEF StoreOK, StoreTypeOK
<1>3. closed \subseteq 1 .. clients /\ clients \in Nat
  BY StoreAssumption DEF StoreOK, StoreTypeOK
<1>4. /\ session' \in [SessionIds -> Session]
      /\ session'[n] = session[s]
      /\ session'[s].client = NoClient
      /\ \A t \in SessionIds \ {s, n} : session'[t] = session[t]
  BY <1>1, <1>2 DEF Zeroed, Session
<1>5. made' = n /\ stored' = (stored \ {s}) \cup {n} /\ UNCHANGED <<clients, closed>>
      /\ expired' = expired \ {s}
      /\ sweep = {} /\ victim = NoSession /\ UNCHANGED <<sweep, victim, closing>>
  BY DEF MuFree, muVars
<1> HIDE DEF n
<1>6. StoreTypeOK'
  BY <1>1, <1>4, <1>5 DEF StoreOK, StoreTypeOK
<1>7. \A t \in SessionIds : session'[t].client \in 0 .. clients'
  BY <1>1, <1>3, <1>4, <1>5 DEF StoreOK, NoClient
<1>8. \A t \in SessionIds : t > made' => session'[t] = NewSession
  <2> SUFFICES ASSUME NEW t \in SessionIds, t > n PROVE session'[t] = NewSession
    BY <1>5
  <2>1. t > made /\ t # s /\ t # n
    BY <1>1 DEF SessionIds
  <2>2. QED
    BY <2>1, <1>4 DEF StoreOK
<1>9. \A t, u \in SessionIds :
         t # u /\ session'[t].client = session'[u].client => session'[t].client = NoClient
  BY <1>1, <1>4 DEF StoreOK
<1>10. \A t \in stored' : /\ session'[t].client \notin closed'
                          /\ session'[t].state # "login" => session'[t].client # NoClient
                          /\ session'[t].state = "done" => session'[t].csv
  <2> SUFFICES ASSUME NEW t \in stored'
               PROVE  /\ session'[t].client \notin closed
                      /\ session'[t].state # "login" => session'[t].client # NoClient
                      /\ session'[t].state = "done" => session'[t].csv
    BY <1>5
  <2>1. CASE t = n
    BY <2>1, <1>4 DEF StoreOK, DoneHasResult
  <2>2. CASE t # n
    <3>1. t \in stored /\ session'[t] = session[t]
      BY <2>2, <1>1, <1>4, <1>5 DEF StoreOK, StoreTypeOK
    <3>2. QED
      BY <3>1 DEF StoreOK, DoneHasResult
  <2>3. QED
    BY <2>1, <2>2
<1>11. StoreOK'
  <2>1. \A t \in SessionIds \ {victim'} : session'[t].client = closing' => closing' = NoClient
    <3>1. \A t \in SessionIds : t # NoSession
      BY DEF SessionIds, NoSession
    <3>2. \A t \in SessionIds : session[t].client = closing => closing = NoClient
      BY <3>1, <1>5 DEF StoreOK
    <3>3. \A t \in SessionIds : session'[t].client \in {session[t].client, session[s].client, NoClient}
      BY <1>4
    <3>4. s \in SessionIds
      BY <1>1
    <3>5. QED
      BY <3>2, <3>3, <3>4, <1>5
  <2>2. victim' \notin sweep'
    BY <1>5
  <2>3. QED
    BY <1>6, <1>7, <1>8, <1>9, <1>10, <2>1, <2>2 DEF StoreOK, DoneHasResult
<1>12. Keeps
  <2> SUFFICES ASSUME NEW p \in PCs, NEW a \in SessionIds \cup {NoSession}, Knows(p, a)
               PROVE  Knows(p, a)'
    BY DEF Keeps
  <2>1. a \in 0 .. made' /\ a # n
    BY <1>1, <1>5 DEF Knows
  <2>2. a \in stored' => a \in stored /\ session'[a] = session[a]
    BY <2>1, <1>1, <1>4, <1>5 DEF StoreOK, StoreTypeOK
  <2>3. QED
    BY <2>1, <2>2 DEF Knows
<1>13. QED
  BY <1>1, <1>5, <1>11, <1>12

\* An unlocked write of a state or of the data, to a session stored or not.
LEMMA PutOK ==
  ASSUME StoreOK, NEW b \in 1 .. made, NEW new \in Session,
         session' = [session EXCEPT ![b] = new],
         UNCHANGED <<made, stored, expired, clients, closed, sweep, victim, closing>>,
         new.client = session[b].client,
         session[b].csv => new.csv,
         b \in stored /\ new.state # "login" => new.client # NoClient,
         b \in stored /\ new.state = "done" => new.csv
  PROVE  StoreOK' /\ Keeps
<1>1. made \in Nat /\ b \in SessionIds /\ ~(b > made)
  BY StoreAssumption DEF StoreOK, StoreTypeOK, SessionIds
<1>2. /\ session' \in [SessionIds -> Session]
      /\ session'[b] = new
      /\ \A t \in SessionIds \ {b} : session'[t] = session[t]
      /\ \A t \in SessionIds : session'[t].client = session[t].client
  BY <1>1 DEF StoreOK, StoreTypeOK
<1>3. stored \subseteq SessionIds
  BY StoreAssumption DEF StoreOK, StoreTypeOK, SessionIds
<1>4. StoreOK'
  <2>1. StoreTypeOK'
    BY <1>2 DEF StoreOK, StoreTypeOK
  <2>2. \A s \in SessionIds : /\ session'[s].client \in 0 .. clients'
                               /\ s > made' => session'[s] = NewSession
    BY <1>1, <1>2 DEF StoreOK
  <2>3. \A s, t \in SessionIds :
           s # t /\ session'[s].client = session'[t].client => session'[s].client = NoClient
    BY <1>2 DEF StoreOK
  <2>6. /\ \A s \in SessionIds \ {victim'} : session'[s].client = closing' => closing' = NoClient
        /\ victim' \notin sweep'
    BY <1>2 DEF StoreOK
  <2>4. \A s \in stored' : /\ session'[s].client \notin closed'
                           /\ session'[s].state # "login" => session'[s].client # NoClient
                           /\ session'[s].state = "done" => session'[s].csv
    <3> SUFFICES ASSUME NEW s \in stored
                 PROVE  /\ session'[s].client \notin closed
                        /\ session'[s].state # "login" => session'[s].client # NoClient
                        /\ session'[s].state = "done" => session'[s].csv
      OBVIOUS
    <3>1. s \in SessionIds
      BY <1>3
    <3>2. CASE s = b
      BY <3>2, <1>2, <3>1 DEF StoreOK
    <3>3. CASE s # b
      BY <3>3, <3>1, <1>2 DEF StoreOK, DoneHasResult
    <3>4. QED
      BY <3>2, <3>3
  <2>5. QED
    BY <2>1, <2>2, <2>3, <2>4, <2>6 DEF StoreOK, DoneHasResult
<1>5. Keeps
  BY <1>1, <1>2, <1>3 DEF Keeps, Knows
<1>6. QED
  BY <1>4, <1>5

---------------------------------------------------------------------------
(* A step of one request                                                   *)

\* Request r moves to p with the session a and the client h; the store may
\* have changed in a way that keeps what the other requests know.
LEMMA StepOK ==
  ASSUME IInv, NEW r \in Requests, StoreOK', Keeps,
         NEW k \in Kinds, NEW p \in PCs, NEW a \in SessionIds \cup {NoSession},
         NEW h \in Clients \cup {NoClient},
         kind' = [kind EXCEPT ![r] = k], pc' = [pc EXCEPT ![r] = p],
         at' = [at EXCEPT ![r] = a], held' = [held EXCEPT ![r] = h],
         Knows(p, a)',
         cookie' \in 0 .. made',
         doomed' \subseteq SessionIds,
         phase' \in {"up", "down"}
  PROVE  IInv'
<1>1. cookie' \in SessionIds \cup {NoSession}
  BY StoreAssumption DEF StoreOK, StoreTypeOK, SessionIds, NoSession
<1>2. TypeOK'
  BY <1>1 DEF IInv, TypeOK, StoreOK
<1>3. \A q \in Requests : Knows(pc[q], at[q])'
  <2> SUFFICES ASSUME NEW q \in Requests PROVE Knows(pc[q], at[q])'
    OBVIOUS
  <2>1. CASE q = r
    <3>1. pc'[q] = p /\ at'[q] = a /\ held'[q] = h
      BY <2>1 DEF IInv, TypeOK
    <3>2. QED
      BY <3>1 DEF Knows
  <2>2. CASE q # r
    <3>1. pc'[q] = pc[q] /\ at'[q] = at[q] /\ held'[q] = held[q]
      BY <2>2 DEF IInv, TypeOK
    <3>2. pc[q] \in PCs /\ at[q] \in SessionIds \cup {NoSession}
      BY DEF IInv, TypeOK
    <3>3. Knows(pc[q], at[q])
      BY DEF IInv
    <3>4. \A u \in PCs, v \in SessionIds \cup {NoSession} : Knows(u, v) => Knows(u, v)'
      BY DEF Keeps
    <3>5. QED
      BY <3>1, <3>2, <3>3, <3>4 DEF Knows
  <2>3. QED
    BY <2>1, <2>2
<1>4. QED
  BY <1>2, <1>3 DEF IInv

LEMMA MoveOK ==
  ASSUME IInv, NEW r \in Requests, StoreOK', Keeps, NEW p \in PCs, Move(r, p),
         NEW a, a = at[r], Knows(p, a)',
         made' = made, UNCHANGED <<cookie, doomed, phase>>
  PROVE  IInv'
<1> DEFINE k == kind[r]  h == held[r]
<1>1. k \in Kinds /\ a \in SessionIds \cup {NoSession} /\ h \in Clients \cup {NoClient}
  BY DEF IInv, TypeOK
<1>2. /\ kind' = [kind EXCEPT ![r] = k] /\ pc' = [pc EXCEPT ![r] = p]
      /\ at' = [at EXCEPT ![r] = a] /\ held' = [held EXCEPT ![r] = h]
  BY DEF Move, Goto, IInv, TypeOK
<1>3. /\ cookie' \in 0 .. made' /\ doomed' \subseteq SessionIds
      /\ phase' \in {"up", "down"}
  BY DEF IInv, TypeOK
<1> HIDE DEF k, h
<1>4. QED
  BY <1>1, <1>2, <1>3, StepOK

LEMMA FinishOK ==
  ASSUME IInv, NEW r \in Requests, StoreOK', Keeps, Finish(r),
         made' \in Nat, cookie' \in 0 .. made',
         doomed' \subseteq SessionIds,
         phase' = phase
  PROVE  IInv'
<1>1. /\ "login" \in Kinds /\ "idle" \in PCs /\ NoSession \in SessionIds \cup {NoSession}
      /\ NoClient \in Clients \cup {NoClient}
  BY DEF Kinds, PCs
<1>2. Knows("idle", NoSession)'
  BY DEF Knows, Past, NoSession
<1>3. phase' \in {"up", "down"}
  BY DEF IInv, TypeOK
<1>4. QED
  BY <1>1, <1>2, <1>3, StepOK DEF Finish

LEMMA PutStepOK ==
  ASSUME IInv, NEW r \in Requests, NEW here \in PCs, NEW then \in PCs, NEW new \in Session,
         Put(r, here, new, then), here \notin {"idle", "csrf", "get", "create"},
         new.client = session[at[r]].client,
         session[at[r]].csv => new.csv,
         at[r] \in stored /\ new.state # "login" => new.client # NoClient,
         at[r] \in stored /\ new.state = "done" => new.csv,
         then \in Past => here \in Past,
         then = "putDone" => new.csv
  PROVE  IInv'
<1> PICK a : a = at[r]
  OBVIOUS
<1>1. Knows(here, a) /\ pc[r] = here
  BY DEF IInv, Put
<1>2. a \in 1 .. made /\ made \in Nat
  BY <1>1, StoreAssumption DEF Knows, NoSession, IInv, StoreOK, StoreTypeOK
<1>3. /\ session' = [session EXCEPT ![a] = new] /\ Move(r, then)
      /\ UNCHANGED <<made, stored, expired, clients, closed, sweep, victim, closing, cookie, doomed, phase>>
  BY DEF Put, muVars
<1>4. StoreOK' /\ Keeps
  BY <1>2, <1>3, PutOK DEF IInv
<1>5. session'[a] = new
  <2>1. a \in SessionIds
    BY <1>2, StoreAssumption DEF IInv, StoreOK, StoreTypeOK, SessionIds
  <2>2. QED
    BY <2>1, <1>3 DEF IInv, StoreOK, StoreTypeOK
<1>6. Knows(then, a)'
  <2>1. then \in Past /\ a \in stored => session[a].client # NoClient
    BY <1>1 DEF Knows
  <2>2. QED
    BY <1>1, <1>2, <1>3, <1>5, <2>1 DEF Knows, NoSession
<1>7. QED
  BY <1>3, <1>4, <1>6, MoveOK

\* A request that moves on without touching the store.
LEMMA QuietOK ==
  ASSUME IInv, NEW r \in Requests, NEW p \in PCs, Move(r, p),
         UNCHANGED <<storeVars, cookie, doomed, phase>>,
         NEW a, a = at[r], Knows(p, a)
  PROVE  IInv'
<1>1. StoreOK' /\ Keeps /\ made' = made
  BY StoreSame DEF IInv
<1>2. a \in SessionIds \cup {NoSession}
  BY DEF IInv, TypeOK
<1>3. Knows(p, a)'
  BY <1>1, <1>2 DEF Keeps
<1>4. QED
  BY <1>1, <1>3, MoveOK

LEMMA RefuseInv ==
  ASSUME IInv, NEW r \in Requests, Refuse(r)
  PROVE  IInv'
<1>1. StoreOK' /\ Keeps /\ made' = made
  BY StoreSame DEF IInv, Refuse
<1>2. made' \in Nat /\ cookie' \in 0 .. made' /\ doomed' \subseteq SessionIds
      /\ phase' = phase /\ Finish(r)
  BY <1>1, StoreAssumption DEF IInv, TypeOK, StoreOK, StoreTypeOK, Refuse
<1>3. QED
  BY <1>1, <1>2, FinishOK

LEMMA TouchInv ==
  ASSUME IInv, NEW r \in Requests, Touch(at[r]), Finish(r), UNCHANGED <<cookie, doomed, phase>>
  PROVE  IInv'
<1>1. StoreOK' /\ Keeps /\ made' = made
  BY TouchOK DEF IInv
<1>2. made' \in Nat /\ cookie' \in 0 .. made' /\ doomed' \subseteq SessionIds
  BY <1>1, StoreAssumption DEF IInv, TypeOK, StoreOK, StoreTypeOK
<1>3. QED
  BY <1>1, <1>2, FinishOK

---------------------------------------------------------------------------
(* The actions                                                             *)

LEMMA MissInv ==
  ASSUME IInv, NEW r \in Requests, pc[r] \in {"csrf", "get", "evicted"}, Miss(r), StoreOK', Keeps,
         made' = made, UNCHANGED <<cookie, doomed, phase>>
  PROVE  IInv'
<1> PICK a : a = at[r]
  OBVIOUS
<1>1. Knows("create", a)'
  BY DEF IInv, Knows, Past
<1>2. made' \in Nat /\ cookie' \in 0 .. made' /\ doomed' \subseteq SessionIds
  BY StoreAssumption DEF IInv, TypeOK, StoreOK, StoreTypeOK
<1>3. CASE kind[r] = "login"
  <2>1. Move(r, "create") /\ "create" \in PCs
    BY <1>3 DEF Miss, PCs
  <2>2. QED
    BY <1>1, <2>1, MoveOK
<1>4. CASE kind[r] # "login"
  BY <1>2, <1>4, FinishOK DEF Miss
<1>5. QED
  BY <1>3, <1>4

LEMMA LookupInv ==
  ASSUME IInv, NEW r \in Requests, Lookup(r)
  PROVE  IInv'
<1> PICK a : a = at[r]
  OBVIOUS
<1>1. StoreOK' /\ Keeps /\ made' = made /\ UNCHANGED <<storeVars, cookie, doomed, phase>>
  BY StoreSame DEF IInv, Lookup
<1>2. a \in 0 .. made
  BY DEF IInv, Knows
<1>3. CASE at[r] \notin stored
  BY <1>1, <1>3, MissInv DEF Lookup
<1>4. CASE at[r] \in stored
  <2>1. a # NoSession
    BY <1>4 DEF IInv, StoreOK, StoreTypeOK, NoSession
  <2>2. PICK p \in {"evict", "get", "handle"} : Move(r, p)
    BY <1>4 DEF Lookup
  <2>3. p \in PCs /\ Knows(p, a)
    BY <1>2, <2>1 DEF PCs, Knows, Past
  <2>4. QED
    BY <1>1, <2>2, <2>3, QuietOK
<1>5. QED
  BY <1>3, <1>4

LEMMA EvictInv ==
  ASSUME IInv, NEW r \in Requests, Evict(r)
  PROVE  IInv'
<1> PICK a : a = at[r]
  OBVIOUS
<1>1. StoreOK' /\ Keeps /\ made' = made
  BY RemoveOK DEF Evict, Delete, IInv
<1>2. Move(r, "evicted") /\ "evicted" \in PCs
  BY DEF Evict, PCs
<1>3. Knows("evicted", a)
  BY DEF Evict, IInv, Knows, Past
<1>4. a \in SessionIds \cup {NoSession}
  BY DEF IInv, TypeOK
<1>5. Knows("evicted", a)'
  BY <1>1, <1>2, <1>3, <1>4 DEF Keeps
<1>6. QED
  BY <1>1, <1>2, <1>5, MoveOK DEF Evict

LEMMA EvictedInv ==
  ASSUME IInv, NEW r \in Requests, Evicted(r)
  PROVE  IInv'
<1>1. StoreOK' /\ Keeps /\ made' = made
  BY StoreSame DEF IInv, Evicted
<1>2. QED
  BY <1>1, MissInv DEF Evicted

LEMMA CreateSessionInv ==
  ASSUME IInv, NEW r \in Requests, CreateSession(r)
  PROVE  IInv'
<1>1. StoreOK' /\ Keeps /\ made' \in Nat /\ made' > made
  BY CreateOK DEF CreateSession, IInv
<1>2. cookie' \in 0 .. made'
  BY <1>1, StoreAssumption DEF CreateSession, Create, IInv, StoreOK, StoreTypeOK
<1>3. QED
  BY <1>1, <1>2, FinishOK DEF CreateSession, IInv, TypeOK

LEMMA PageStepInv ==
  ASSUME IInv, NEW r \in Requests, PageStep(r)
  PROVE  IInv'
<1>1. CASE ShowLogin(r) \/ WrongState(r)
  BY <1>1, RefuseInv DEF ShowLogin, WrongState
<1>2. CASE ShowPage(r)
  BY <1>2, TouchInv DEF ShowPage
<1>3. CASE ShowResult(r)
  <2>1. StoreOK' /\ Keeps /\ made' = made
    BY <1>3, StoreSame DEF IInv, ShowResult
  <2>2. pc[r] = "handle" /\ pc[r] \notin {"idle", "csrf", "get", "create"}
    BY <1>3 DEF ShowResult, Handles
  <2>3. at[r] \in SessionIds
    BY <2>2 DEF IInv, Knows, TypeOK
  <2>4. doomed' \subseteq SessionIds /\ phase' = phase /\ cookie' = cookie /\ Finish(r)
    BY <1>3, <2>3 DEF IInv, TypeOK, ShowResult
  <2>5. made' \in Nat /\ cookie' \in 0 .. made'
    BY <2>1, <2>4, StoreAssumption DEF IInv, StoreOK, StoreTypeOK
  <2>6. QED
    BY <2>1, <2>4, <2>5, FinishOK
<1>4. QED
  BY <1>1, <1>2, <1>3 DEF PageStep

\* The one write that changes a client: the new one is in no other hands.
LEMMA PutClientInv ==
  ASSUME IInv, NEW r \in Requests, PutClient(r)
  PROVE  IInv'
<1> PICK a : a = at[r]
  OBVIOUS
<1> DEFINE c == clients + 1
<1> DEFINE new == [session[a] EXCEPT !.client = c]
<1>1. /\ pc[r] = "handle" /\ session' = [session EXCEPT ![a] = new]
      /\ Move(r, "putTwoFA") /\ clients' = c
      /\ UNCHANGED <<made, stored, expired, closed, sweep, victim, closing, cookie, doomed, phase>>
  BY DEF PutClient, Handles, muVars
<1>2. Knows("handle", a)
  BY <1>1 DEF IInv
<1>3. made \in Nat /\ a \in 1 .. made /\ a \in SessionIds /\ ~(a > made)
  BY <1>2, StoreAssumption DEF IInv, StoreOK, StoreTypeOK, Knows, SessionIds, NoSession
<1>4. /\ clients \in Nat /\ clients < MaxClients /\ closed \subseteq 1 .. clients /\ closing \in 0 .. clients
      /\ \A s \in SessionIds : session[s].client \in 0 .. clients
  BY StoreAssumption DEF PutClient, IInv, StoreOK, StoreTypeOK
<1>5. /\ c \in Clients /\ c \in 0 .. MaxClients /\ c # NoClient /\ c \notin 0 .. clients /\ c \in 0 .. c
      /\ 0 .. clients \subseteq 0 .. c /\ 1 .. clients \subseteq 1 .. c
      /\ c \notin closed /\ c # closing
      /\ \A s \in SessionIds : session[s].client # c
  BY <1>4, StoreAssumption DEF Clients, NoClient
<1> HIDE DEF c
<1>6. /\ session[a] \in Session /\ new \in Session /\ new.client = c
      /\ new.state = session[a].state /\ new.csv = session[a].csv
  BY <1>3, <1>5 DEF IInv, StoreOK, StoreTypeOK, Session
<1> HIDE DEF new
<1>7. /\ session' \in [SessionIds -> Session] /\ session'[a] = new
      /\ \A s \in SessionIds \ {a} : session'[s] = session[s]
  BY <1>1, <1>3, <1>6 DEF IInv, StoreOK, StoreTypeOK
<1>8. StoreOK'
  <2>1. StoreTypeOK'
    <3>1. closed' \subseteq 1 .. clients' /\ closing' \in 0 .. clients' /\ clients' \in 0 .. MaxClients
      BY <1>1, <1>4, <1>5
    <3>2. QED
      BY <3>1, <1>1, <1>7 DEF IInv, StoreOK, StoreTypeOK
  <2>2. \A s \in SessionIds : session'[s].client \in 0 .. clients'
    BY <1>1, <1>4, <1>5, <1>6, <1>7
  <2>3. \A s \in SessionIds : s > made' => session'[s] = NewSession
    BY <1>1, <1>3, <1>7 DEF IInv, StoreOK
  <2>4. \A s, t \in SessionIds :
           s # t /\ session'[s].client = session'[t].client => session'[s].client = NoClient
    BY <1>5, <1>6, <1>7 DEF IInv, StoreOK
  <2>5. \A s \in stored' : /\ session'[s].client \notin closed'
                           /\ session'[s].state # "login" => session'[s].client # NoClient
                           /\ session'[s].state = "done" => session'[s].csv
    <3> SUFFICES ASSUME NEW s \in stored
                 PROVE  /\ session'[s].client \notin closed
                        /\ session'[s].state # "login" => session'[s].client # NoClient
                        /\ session'[s].state = "done" => session'[s].csv
      BY <1>1
    <3>1. s \in SessionIds
      BY StoreAssumption DEF IInv, StoreOK, StoreTypeOK, SessionIds
    <3>2. CASE s = a
      BY <3>2, <1>5, <1>6, <1>7 DEF IInv, StoreOK, DoneHasResult
    <3>3. CASE s # a
      BY <3>1, <3>3, <1>7 DEF IInv, StoreOK, DoneHasResult
    <3>4. QED
      BY <3>2, <3>3
  <2>6. /\ \A s \in SessionIds \ {victim'} : session'[s].client = closing' => closing' = NoClient
        /\ victim' \notin sweep'
    BY <1>1, <1>5, <1>6, <1>7 DEF IInv, StoreOK
  <2>7. QED
    BY <2>1, <2>2, <2>3, <2>4, <2>5, <2>6, Zenon DEF StoreOK, DoneHasResult
<1>9. TypeOK'
  BY <1>1, <1>8 DEF IInv, TypeOK, StoreOK, Move, Goto, PCs
<1>10. \A q \in Requests : Knows(pc[q], at[q])'
  <2> SUFFICES ASSUME NEW q \in Requests PROVE Knows(pc[q], at[q])'
    OBVIOUS
  <2>1. Knows(pc[q], at[q])
    BY DEF IInv
  <2>2. at'[q] = at[q] /\ pc'[q] = IF q = r THEN "putTwoFA" ELSE pc[q]
    BY <1>1 DEF Move, Goto, IInv, TypeOK
  <2>3. at[q] = a => session'[at[q]].client # NoClient /\ session'[at[q]].csv = session[at[q]].csv
    BY <1>5, <1>6, <1>7
  <2>4. at[q] \in stored /\ at[q] # a => session'[at[q]] = session[at[q]]
    <3>1. stored \subseteq SessionIds
      BY StoreAssumption DEF IInv, StoreOK, StoreTypeOK, SessionIds
    <3>2. QED
      BY <3>1, <1>7
  <2>5. q = r => at[q] = a /\ a # NoSession
    BY <1>3 DEF NoSession
  <2>6. QED
    BY <2>1, <2>2, <2>3, <2>4, <2>5, <1>1 DEF Knows
<1>11. cookie' \in 0 .. made'
  BY <1>1 DEF IInv
<1>12. QED
  BY <1>8, <1>9, <1>10, <1>11 DEF IInv

LEMMA LoginStepInv ==
  ASSUME IInv, NEW r \in Requests, LoginStep(r)
  PROVE  IInv'
<1>1. CASE LoginFails(r)
  BY <1>1, RefuseInv DEF LoginFails
<1>2. CASE PutClient(r)
  BY <1>2, PutClientInv
<1>3. CASE PutTwoFA(r)
  <2> DEFINE new == [session[at[r]] EXCEPT !.state = "twofa"]
  <2>1. pc[r] = "putTwoFA"
    BY <1>3 DEF PutTwoFA, Put
  <2>2. at[r] \in SessionIds /\ (at[r] \in stored => session[at[r]].client # NoClient)
    BY <2>1 DEF IInv, Knows, TypeOK, Past
  <2>3. session[at[r]] \in Session
    BY <2>2 DEF IInv, StoreOK, StoreTypeOK
  <2>4. /\ new \in Session /\ new.client = session[at[r]].client
        /\ new.csv = session[at[r]].csv /\ new.state = "twofa"
    BY <2>3 DEF Session, States
  <2>5. Put(r, "putTwoFA", new, "touch")
    BY <1>3 DEF PutTwoFA, With
  <2>6. "putTwoFA" \in PCs /\ "touch" \in PCs /\ "putTwoFA" \in Past
    BY DEF PCs, Past
  <2> HIDE DEF new
  <2>7. QED
    BY <2>2, <2>4, <2>5, <2>6, PutStepOK
<1>4. QED
  BY <1>1, <1>2, <1>3 DEF LoginStep

LEMMA TwoFAStepInv ==
  ASSUME IInv, NEW r \in Requests, TwoFAStep(r)
  PROVE  IInv'
<1> PICK a : a = at[r]
  OBVIOUS
<1>1. CASE TwoFARefused(r) \/ TwoFAFails(r) \/ RotateMisses(r)
  BY <1>1, RefuseInv DEF TwoFARefused, TwoFAFails, RotateMisses
<1>2. CASE TwoFABegins(r)
  <2>1. "complete" \in PCs /\ Knows("complete", a) /\ Move(r, "complete")
    BY <1>2 DEF PCs, TwoFABegins, Handles, HasClient, IInv, Knows
  <2>2. QED
    BY <1>2, <2>1, QuietOK DEF TwoFABegins
<1>3. CASE PutFetching(r)
  <2> DEFINE new == [session[at[r]] EXCEPT !.state = "fetching"]
  <2>1. pc[r] = "complete"
    BY <1>3 DEF PutFetching, Put
  <2>2. at[r] \in SessionIds /\ (at[r] \in stored => session[at[r]].client # NoClient)
    BY <2>1 DEF IInv, Knows, TypeOK, Past
  <2>3. session[at[r]] \in Session
    BY <2>2 DEF IInv, StoreOK, StoreTypeOK
  <2>4. /\ new \in Session /\ new.client = session[at[r]].client
        /\ new.csv = session[at[r]].csv /\ new.state = "fetching"
    BY <2>3 DEF Session, States
  <2>5. Put(r, "complete", new, "rotate")
    BY <1>3 DEF PutFetching, With
  <2>6. "complete" \in PCs /\ "rotate" \in PCs /\ "complete" \in Past
    BY DEF PCs, Past
  <2> HIDE DEF new
  <2>7. QED
    BY <2>2, <2>4, <2>5, <2>6, PutStepOK
<1>4. CASE RotateSession(r)
  <2>1. StoreOK' /\ Keeps /\ made' \in Nat /\ made' > made
    BY <1>4, RotateOK DEF RotateSession, IInv
  <2>2. cookie' \in 0 .. made'
    BY <1>4, <2>1, StoreAssumption DEF RotateSession, Rotate, IInv, StoreOK, StoreTypeOK
  <2>3. QED
    BY <1>4, <2>1, <2>2, FinishOK DEF RotateSession, IInv, TypeOK
<1>5. QED
  BY <1>1, <1>2, <1>3, <1>4 DEF TwoFAStep

\* A stream takes the client of the session it was given.
LEMMA StreamBeginsInv ==
  ASSUME IInv, NEW r \in Requests, StreamBegins(r)
  PROVE  IInv'
<1> PICK a : a = at[r]
  OBVIOUS
<1> PICK c : c = session[a].client
  OBVIOUS
<1> PICK k : k = kind[r]
  OBVIOUS
<1>1. StoreOK' /\ Keeps /\ made' = made /\ UNCHANGED <<storeVars, cookie, doomed, phase>>
  BY StoreSame DEF StreamBegins, IInv
<1>2. Knows("handle", a)
  BY DEF StreamBegins, Handles, IInv
<1>3. a \in SessionIds /\ c # NoClient
  BY <1>2 DEF StreamBegins, HasClient, Knows, IInv, TypeOK
<1>4. c \in Clients \cup {NoClient}
  BY <1>3 DEF IInv, StoreOK, StoreTypeOK, Session
<1>5. /\ k \in Kinds /\ kind' = [kind EXCEPT ![r] = k] /\ pc' = [pc EXCEPT ![r] = "stream"]
      /\ at' = [at EXCEPT ![r] = a] /\ held' = [held EXCEPT ![r] = c]
  BY DEF StreamBegins, Goto, IInv, TypeOK
<1>6. Knows("stream", a)
  BY <1>2, <1>3 DEF Knows
<1>7. Knows("stream", a)'
  BY <1>1, <1>3, <1>4, <1>6 DEF Keeps, PCs
<1>8. cookie' \in 0 .. made' /\ doomed' \subseteq SessionIds /\ phase' \in {"up", "down"}
  BY <1>1 DEF IInv, TypeOK
<1>9. "stream" \in PCs /\ a \in SessionIds \cup {NoSession}
  BY <1>3 DEF PCs
<1>10. QED
  BY <1>1, <1>4, <1>5, <1>7, <1>8, <1>9, StepOK

LEMMA StreamStepInv ==
  ASSUME IInv, NEW r \in Requests, StreamStep(r)
  PROVE  IInv'
<1> PICK a : a = at[r]
  OBVIOUS
<1>1. CASE StreamRefused(r) \/ StreamFails(r)
  BY <1>1, RefuseInv DEF StreamRefused, StreamFails
<1>2. CASE StreamBegins(r)
  BY <1>2, StreamBeginsInv
<1>9. CASE StreamDials(r)
  <2>1. "dial" \in PCs /\ Knows("dial", a) /\ Move(r, "dial")
    BY <1>9 DEF PCs, StreamDials, IInv, Knows, Past
  <2>2. QED
    BY <1>9, <2>1, QuietOK DEF StreamDials
<1>10. CASE StreamConnects(r)
  <2>1. "stream" \in PCs /\ Knows("stream", a) /\ Move(r, "stream")
    BY <1>10 DEF PCs, StreamConnects, IInv, Knows, Past
  <2>2. QED
    BY <1>10, <2>1, QuietOK DEF StreamConnects
<1>3. CASE StreamPage(r)
  <2>1. StoreOK' /\ Keeps /\ made' = made
    BY <1>3, TouchOK DEF StreamPage, IInv
  <2>2. Knows(pc[r], a) /\ pc[r] = "stream" /\ Move(r, "stream")
    BY <1>3 DEF IInv, StreamPage, Move, Goto, TypeOK, reqVars
  <2>3. Knows("stream", a)'
    BY <2>1, <2>2 DEF Keeps, IInv, TypeOK
  <2>4. QED
    BY <1>3, <2>1, <2>2, <2>3, MoveOK DEF StreamPage, PCs
<1>5. ASSUME pc[r] \in {"stream", "putDone"}
      PROVE  /\ at[r] \in SessionIds /\ session[at[r]] \in Session
             /\ at[r] \in stored => session[at[r]].client # NoClient
             /\ pc[r] = "putDone" /\ at[r] \in stored => session[at[r]].csv
  BY <1>5 DEF IInv, Knows, TypeOK, Past, StoreOK, StoreTypeOK
<1>6. CASE PutCSV(r)
  <2> DEFINE new == [session[at[r]] EXCEPT !.csv = TRUE]
  <2>1. pc[r] = "stream"
    BY <1>6 DEF PutCSV, Put
  <2>2. /\ new \in Session /\ new.client = session[at[r]].client
        /\ new.csv = TRUE
    BY <2>1, <1>5 DEF Session
  <2>3. Put(r, "stream", new, "putDone")
    BY <1>6 DEF PutCSV, With
  <2>4. "stream" \in PCs /\ "putDone" \in PCs /\ "stream" \in Past
    BY DEF PCs, Past
  <2> HIDE DEF new
  <2>5. QED
    BY <2>1, <1>5, <2>2, <2>3, <2>4, PutStepOK
<1>7. CASE PutDone(r)
  <2> DEFINE new == [session[at[r]] EXCEPT !.state = "done"]
  <2>1. pc[r] = "putDone"
    BY <1>7 DEF PutDone, Put
  <2>2. /\ new \in Session /\ new.client = session[at[r]].client
        /\ new.csv = session[at[r]].csv
    BY <2>1, <1>5 DEF Session, States
  <2>3. Put(r, "putDone", new, "touch")
    BY <1>7 DEF PutDone, With
  <2>4. "putDone" \in PCs /\ "touch" \in PCs /\ "putDone" \in Past
    BY DEF PCs, Past
  <2> HIDE DEF new
  <2>5. QED
    BY <2>1, <1>5, <2>2, <2>3, <2>4, PutStepOK
<1>8. QED
  BY <1>1, <1>2, <1>3, <1>6, <1>7, <1>9, <1>10 DEF StreamStep

LEMMA BeginInv ==
  ASSUME IInv, NEW r \in Requests, NEW k \in Kinds, Begin(r, k)
  PROVE  IInv'
<1>1. StoreOK' /\ Keeps /\ made' = made
  BY StoreSame DEF Begin, IInv
<1> PICK a : a = cookie
  OBVIOUS
<1> PICK h : h = held[r]
  OBVIOUS
<1>2. PICK p \in {"csrf", "get"} : pc' = [pc EXCEPT ![r] = p]
  BY DEF Begin, Goto
<1>3. /\ kind' = [kind EXCEPT ![r] = k] /\ at' = [at EXCEPT ![r] = a]
      /\ held' = [held EXCEPT ![r] = h] /\ h \in Clients \cup {NoClient}
      /\ a \in SessionIds \cup {NoSession}
  BY DEF Begin, IInv, TypeOK
<1>4. p \in PCs /\ Knows(p, a)
  BY DEF PCs, Knows, Past, IInv
<1>5. Knows(p, a)'
  BY <1>1, <1>3, <1>4 DEF Keeps
<1>6. cookie' \in 0 .. made' /\ doomed' \subseteq SessionIds /\ phase' \in {"up", "down"}
  BY <1>1 DEF Begin, IInv, TypeOK
<1>7. QED
  BY <1>1, <1>2, <1>3, <1>4, <1>5, <1>6, StepOK

LEMMA HandleInv ==
  ASSUME IInv, NEW r \in Requests, Handle(r)
  PROVE  IInv'
BY LookupInv, EvictInv, EvictedInv, CreateSessionInv, PageStepInv, LoginStepInv, TwoFAStepInv, StreamStepInv,
   TouchInv, RefuseInv DEF Handle, Forbidden, TouchAndFinish

\* What time, the timers and the server do to the store alone.
LEMMA BackgroundInv ==
  ASSUME IInv, UNCHANGED <<reqVars, cookie>>, StoreOK', Keeps, made' = made,
         doomed' \subseteq doomed, phase' \in {"up", "down"}
  PROVE  IInv'
<1>1. UNCHANGED <<kind, pc, at, held, cookie>>
  BY DEF reqVars
<1>2. TypeOK'
  BY <1>1 DEF IInv, TypeOK, StoreOK
<1>3. \A r \in Requests : Knows(pc[r], at[r])'
  <2> SUFFICES ASSUME NEW r \in Requests PROVE Knows(pc[r], at[r])'
    OBVIOUS
  <2>1. PICK p, a : p = pc[r] /\ a = at[r]
    OBVIOUS
  <2>2. p \in PCs /\ a \in SessionIds \cup {NoSession} /\ Knows(p, a)
    BY <2>1 DEF IInv, TypeOK
  <2>3. Knows(p, a)'
    BY <2>2 DEF Keeps
  <2>4. QED
    BY <1>1, <2>1, <2>3 DEF Knows
<1>4. cookie' \in 0 .. made'
  BY <1>1 DEF IInv
<1>5. QED
  BY <1>2, <1>3, <1>4 DEF IInv

---------------------------------------------------------------------------
(* The theorems                                                            *)

\* The invariant of every reachable state.
THEOREM FlowInvariant == Spec => []IInv
<1>1. Init => IInv
  <2> SUFFICES ASSUME Init PROVE IInv
    OBVIOUS
  <2>1. StoreOK
    BY StoreAssumption
       DEF Init, StoreInit, StoreOK, StoreTypeOK, DoneHasResult, NewSession, Session, States, NoClient, NoSession
  <2>2. TypeOK
    BY <2>1 DEF Init, TypeOK, StoreOK, Kinds, PCs, NoSession, NoClient
  <2>3. \A r \in Requests : Knows(pc[r], at[r])
    BY DEF Init, StoreInit, Knows, Past, NoSession
  <2>4. QED
    BY <2>1, <2>2, <2>3 DEF Init, StoreInit, IInv, NoSession
<1>2. IInv /\ [Next]_vars => IInv'
  <2> SUFFICES ASSUME IInv, [Next]_vars PROVE IInv'
    OBVIOUS
  <2>1. ASSUME NEW r \in Requests, Handle(r) PROVE IInv'
    BY <2>1, HandleInv
  <2>2. ASSUME NEW r \in Requests, NEW k \in Kinds, Begin(r, k) PROVE IInv'
    BY <2>2, BeginInv
  <2>3. ASSUME NEW s \in SessionIds, DelayedDelete(s) PROVE IInv'
    <3>1. StoreOK' /\ Keeps /\ made' = made
      BY <2>3, RemoveOK DEF DelayedDelete, Delete, IInv
    <3>2. QED
      BY <2>3, <3>1, BackgroundInv DEF DelayedDelete, IInv, TypeOK
  <2>4. ASSUME NEW s \in SessionIds, Expire(s), UNCHANGED <<reqVars, cookie, doomed, phase>>
        PROVE  IInv'
    <3>1. StoreOK' /\ Keeps /\ made' = made
      BY <2>4, TouchOK DEF IInv
    <3>2. QED
      BY <2>4, <3>1, BackgroundInv DEF IInv, TypeOK
  <2>5. CASE CleanupTick \/ Shutdown
    <3>1. StoreOK' /\ Keeps /\ made' = made
      BY <2>5, RemoveOK DEF CleanupTick, Shutdown, Cleanup, IInv
    <3>2. UNCHANGED <<reqVars, cookie, doomed>> /\ phase' \in {"up", "down"}
      BY <2>5 DEF CleanupTick, Shutdown, IInv, TypeOK
    <3>3. QED
      BY <3>1, <3>2, BackgroundInv
  <2>6. CASE UNCHANGED vars
    <3>1. UNCHANGED <<storeVars, reqVars, cookie, doomed>> /\ phase' \in {"up", "down"}
      BY <2>6 DEF IInv, TypeOK, vars
    <3>2. StoreOK' /\ Keeps /\ made' = made
      BY <3>1, StoreSame DEF IInv
    <3>3. QED
      BY <3>1, <3>2, BackgroundInv
  <2>7. CASE Drop
    <3>1. StoreOK' /\ Keeps /\ made' = made
      BY <2>7, DropOK DEF Drop, IInv
    <3>2. QED
      BY <2>7, <3>1, BackgroundInv DEF Drop, IInv, TypeOK
  <2>8. QED
    BY <2>1, <2>2, <2>3, <2>4, <2>5, <2>6, <2>7 DEF Next
<1>3. QED
  BY <1>1, <1>2, PTL DEF Spec

\* Every variable keeps its type.
THEOREM FlowTypeCorrect == Spec => []TypeOK
<1>1. IInv => TypeOK
  BY DEF IInv
<1>2. QED
  BY <1>1, FlowInvariant, PTL

\* For every number of concurrent requests: a session that is served past the
\* login page has an open client that is its own.
THEOREM ServedSessionHasClient == Spec => []StageHasClient
<1>1. IInv => StageHasClient
  <2> SUFFICES ASSUME IInv, NEW s \in stored
               PROVE  /\ session[s].state # "login" => session[s].client \notin closed \cup {NoClient}
                      /\ \A t \in stored \ {s} :
                            session[s].client = session[t].client => session[s].client = NoClient
    BY DEF StageHasClient
  <2>1. stored \subseteq SessionIds
    BY StoreAssumption DEF IInv, StoreOK, StoreTypeOK, SessionIds
  <2>2. session[s].state # "login" => session[s].client \notin closed \cup {NoClient}
    BY DEF IInv, StoreOK
  <2>3. \A t \in stored \ {s} :
           session[s].client = session[t].client => session[s].client = NoClient
    BY <2>1 DEF IInv, StoreOK
  <2>4. QED
    BY <2>2, <2>3
<1>2. QED
  BY <1>1, FlowInvariant, PTL

\* A stored session that is done has its CSV, however the stream that wrote it
\* interleaves with rotations, deletes and other streams.
THEOREM ResultIsThere == Spec => []DoneHasResult
<1>1. IInv => DoneHasResult
  BY DEF IInv, StoreOK
<1>2. QED
  BY <1>1, FlowInvariant, PTL

=============================================================================
