---------------------------- MODULE SessionStore ----------------------------
(***************************************************************************)
(* internal/web/session.go: the map of sessions, and the Session structs   *)
(* that request handlers keep pointers to.  A struct outlives its removal  *)
(* from the map.  Session ids and clients are numbered as they are made.   *)
(*                                                                         *)
(* Delete and Cleanup close clients while they hold s.mu, and a Close      *)
(* waits for its client's own lock: a removal takes several steps, and     *)
(* every other operation of the store waits for its end (MuFree).  The     *)
(* others hold s.mu for one step.                                          *)
(*                                                                         *)
(* ExpiresAt is abstracted to whether it has passed: any stored session    *)
(* may expire at any time, and Touch un-expires it.                        *)
(***************************************************************************)
EXTENDS Naturals, FiniteSets

CONSTANTS
    MaxSessions,   \* bound: session ids handed out
    MaxClients     \* bound: logins Trade Republic accepted

ASSUME StoreAssumption == MaxSessions \in Nat /\ MaxClients \in Nat

SessionIds == 1 .. MaxSessions
Clients    == 1 .. MaxClients
NoSession  == 0
NoClient   == 0

States  == {"login", "twofa", "fetching", "done"}
Session == [state : States, client : Clients \cup {NoClient}, csv : BOOLEAN]

VARIABLES
    made,      \* session ids handed out so far
    stored,    \* keys of s.sessions
    session,   \* the Session struct of each id
    expired,   \* the stored sessions whose ExpiresAt has passed
    clients,   \* clients made so far
    closed,    \* the clients that were closed
    sweep,     \* sessions the removal that holds s.mu has not come to yet
    victim,    \* the session it is at
    closing    \* the client of it whose Close it has called

muVars    == <<sweep, victim, closing>>
storeVars == <<made, stored, session, expired, clients, closed, muVars>>

NewSession == [state |-> "login", client |-> NoClient, csv |-> FALSE]

StoreTypeOK ==
    /\ made \in 0 .. MaxSessions
    /\ stored \subseteq 1 .. made
    /\ session \in [SessionIds -> Session]
    /\ expired \subseteq stored
    /\ clients \in 0 .. MaxClients
    /\ closed \subseteq 1 .. clients
    /\ sweep \subseteq stored
    /\ victim \in stored \cup {NoSession}
    /\ closing \in 0 .. clients

StoreInit ==
    /\ made = 0 /\ stored = {}
    /\ session = [s \in SessionIds |-> NewSession]
    /\ expired = {}
    /\ clients = 0 /\ closed = {}
    /\ sweep = {} /\ victim = NoSession /\ closing = NoClient

\* The struct after Delete, Cleanup or Rotate: no client, no data.
Zeroed(s) == [session[s] EXCEPT !.client = NoClient, !.csv = FALSE]

\* No removal holds s.mu.
MuFree == sweep = {} /\ victim = NoSession

Create ==
    /\ MuFree
    /\ made < MaxSessions
    /\ made' = made + 1
    /\ stored' = stored \cup {made + 1}
    /\ UNCHANGED <<session, expired, clients, closed, muVars>>

\* Mutant: a session without a client is closed too.
ClosesAny(c) == closed' = closed \cup {c}

Closes(c) == closed' = closed \cup ({c} \ {NoClient})

\* Come to a next session of S, in any order, and call the Close of its client;
\* when there is none, let go of s.mu.
Visit(S) ==
    IF S = {} THEN sweep' = {} /\ victim' = NoSession /\ closing' = NoClient
    ELSE \E s \in S : sweep' = S \ {s} /\ victim' = s /\ closing' = session[s].client

\* Take s.mu to remove S.
Remove(S) ==
    /\ MuFree
    /\ Visit(S)
    /\ UNCHANGED <<made, stored, session, expired, clients, closed>>

\* The Close returns, which it cannot while the client's lock is taken: zero
\* the session's data, take it out of the map and go on.  A client that another
\* request has put there meanwhile is dropped unclosed.
DropVictim(taken) ==
    /\ victim # NoSession /\ closing \notin taken
    /\ Closes(closing)
    /\ stored' = stored \ {victim}
    /\ session' = [session EXCEPT ![victim] = Zeroed(victim)]
    /\ expired' = expired \ {victim}
    /\ Visit(sweep)
    /\ UNCHANGED <<made, clients>>

Delete(s) == Remove({s} \cap stored)

\* Mutant: the removal sits under "if session.Client != nil".
CleanupClients == Remove({s \in stored \cap expired : session[s].client # NoClient})

Cleanup == Remove(stored \cap expired)

Touch(s) ==
    /\ MuFree
    /\ expired' = expired \ {s}
    /\ UNCHANGED <<made, stored, session, clients, closed, muVars>>

\* Mutant: the old session stays in the map.
RotateKeepsOld(s) ==
    /\ MuFree
    /\ made < MaxSessions
    /\ made' = made + 1
    /\ stored' = stored \cup {made + 1}
    /\ session' = [session EXCEPT ![made + 1] = session[s]]
    /\ UNCHANGED <<expired, clients, closed, muVars>>

\* Move a stored session to a new id; its client moves with it.
Rotate(s) ==
    /\ MuFree
    /\ made < MaxSessions
    /\ made' = made + 1
    /\ stored' = (stored \ {s}) \cup {made + 1}
    /\ session' = [session EXCEPT ![made + 1] = session[s], ![s] = Zeroed(s)]
    /\ expired' = expired \ {s}
    /\ UNCHANGED <<clients, closed, muVars>>

\* The session TTL runs out (external: time).
Expire(s) ==
    /\ s \in stored \ expired
    /\ expired' = expired \cup {s}
    /\ UNCHANGED <<made, stored, session, clients, closed, muVars>>

=============================================================================
