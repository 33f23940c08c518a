------------------------------ MODULE WebFlow ------------------------------
(***************************************************************************)
(* internal/web: the handlers of one browser's requests on top of          *)
(* SessionStore, with the background cleanup, the delayed deletes and      *)
(* Server.Shutdown.  Requests are goroutines: each keeps the *Session that *)
(* Get returned and reads and writes its fields without the store's lock.  *)
(* A step ends where the handler next reads or writes what others share.   *)
(* Different browsers share no session, so one cookie is enough.           *)
(*                                                                         *)
(* A stream's fetch dials its client under the client's c.mu, and nothing  *)
(* is assumed of the server that is dialled: it may never answer.          *)
(***************************************************************************)
EXTENDS SessionStore

CONSTANT Requests      \* the requests that may be in progress at once

ASSUME RequestsAssumption == IsFiniteSet(Requests)

Posts == {"postLogin", "postTwoFA"}
Kinds == Posts \cup {"login", "twofa", "progress", "events", "result"}

PCs == {"idle", "csrf", "get", "evict", "evicted", "create", "handle", "putTwoFA", "complete", "rotate",
        "stream", "dial", "putDone", "touch"}

VARIABLES
    kind,      \* method and path of each request
    pc,        \* where its handler is
    at,        \* the session id of its cookie, and the *Session it holds
    held,      \* the client a stream has read from its session
    cookie,    \* the session id in the browser
    doomed,    \* stored sessions with a delayed Delete pending: of a gone one it does nothing
    phase      \* of the server

reqVars == <<kind, pc, at, held>>
vars == <<storeVars, reqVars, cookie, doomed, phase>>

TypeOK ==
    /\ StoreTypeOK
    /\ kind \in [Requests -> Kinds]
    /\ pc \in [Requests -> PCs]
    /\ at \in [Requests -> SessionIds \cup {NoSession}]
    /\ held \in [Requests -> Clients \cup {NoClient}]
    /\ cookie \in SessionIds \cup {NoSession}
    /\ doomed \subseteq SessionIds
    /\ phase \in {"up", "down"}

Init ==
    /\ StoreInit
    /\ kind = [r \in Requests |-> "login"]
    /\ pc = [r \in Requests |-> "idle"]
    /\ at = [r \in Requests |-> NoSession]
    /\ held = [r \in Requests |-> NoClient]
    /\ cookie = NoSession /\ doomed = {} /\ phase = "up"

Goto(r, label) == pc' = [pc EXCEPT ![r] = label]

\* A finished request lets go of its pointers.
Finish(r) ==
    /\ pc' = [pc EXCEPT ![r] = "idle"]
    /\ kind' = [kind EXCEPT ![r] = "login"]
    /\ at' = [at EXCEPT ![r] = NoSession]
    /\ held' = [held EXCEPT ![r] = NoClient]

Move(r, label) == Goto(r, label) /\ UNCHANGED <<kind, at, held>>

---------------------------------------------------------------------------
(* Every request: the CSRF middleware for a POST, then getSession.         *)

\* Without a cookie every request but GET /login ends where it starts.
Begin(r, k) ==
    /\ phase = "up" /\ pc[r] = "idle"
    /\ cookie # NoSession \/ k = "login"
    /\ kind' = [kind EXCEPT ![r] = k]
    /\ at' = [at EXCEPT ![r] = cookie]
    /\ Goto(r, IF k \in Posts THEN "csrf" ELSE "get")
    /\ UNCHANGED <<storeVars, held, cookie, doomed, phase>>

\* No session: GET /login makes one, the others redirect or refuse.
Miss(r) ==
    IF kind[r] = "login" THEN Move(r, "create") ELSE Finish(r)

\* Get, up to its unlocked read of ExpiresAt.
Lookup(r) ==
    /\ pc[r] \in {"csrf", "get"} /\ MuFree
    /\ IF at[r] \notin stored THEN Miss(r)
       ELSE IF at[r] \in expired THEN Move(r, "evict")
       ELSE Move(r, IF pc[r] = "csrf" THEN "get" ELSE "handle")
    /\ UNCHANGED <<storeVars, cookie, doomed, phase>>

\* Get deletes what it saw expired, and returns when that is done.
Evict(r) ==
    /\ pc[r] = "evict"
    /\ Delete(at[r]) /\ Move(r, "evicted")
    /\ UNCHANGED <<cookie, doomed, phase>>

Evicted(r) ==
    /\ pc[r] = "evicted" /\ at[r] \notin sweep \cup {victim}
    /\ Miss(r)
    /\ UNCHANGED <<storeVars, cookie, doomed, phase>>

\* getOrCreateSession
CreateSession(r) ==
    /\ pc[r] = "create"
    /\ Create /\ Finish(r)
    /\ cookie' = made + 1
    /\ UNCHANGED <<doomed, phase>>

\* The handler redirects, or renders a form again with an error.
Refuse(r) == Finish(r) /\ UNCHANGED <<storeVars, cookie, doomed, phase>>

\* The form carries another token, or Rotate or Delete has just zeroed the
\* session's.
Forbidden(r) == pc[r] = "csrf" /\ Refuse(r)

Handles(r, k) == pc[r] = "handle" /\ kind[r] = k

State(r) == session[at[r]].state

---------------------------------------------------------------------------
(* Pages                                                                   *)

ShowLogin(r) == Handles(r, "login") /\ Refuse(r)

\* GET /twofa and GET /progress keep the session alive.
ShowPage(r) ==
    /\ \/ Handles(r, "twofa") /\ State(r) = "twofa"
       \/ Handles(r, "progress") /\ State(r) = "fetching"
    /\ Touch(at[r]) /\ Finish(r)
    /\ UNCHANGED <<cookie, doomed, phase>>

\* GET /result shows the CSV and schedules the session's Delete.
ShowResult(r) ==
    /\ Handles(r, "result") /\ State(r) = "done"
    /\ doomed' = doomed \cup ({at[r]} \cap stored)
    /\ Finish(r)
    /\ UNCHANGED <<storeVars, cookie, phase>>

WrongState(r) ==
    /\ \/ Handles(r, "twofa") /\ State(r) # "twofa"
       \/ Handles(r, "progress") /\ State(r) # "fetching"
       \/ Handles(r, "result") /\ State(r) # "done"
    /\ Refuse(r)

DelayedDelete(s) ==
    /\ s \in doomed
    /\ doomed' = doomed \ {s}
    /\ Delete(s)
    /\ UNCHANGED <<reqVars, cookie, phase>>

---------------------------------------------------------------------------
(* POST /login                                                             *)

\* The form is wrong, no client can be made, or Trade Republic refuses: then
\* beginLogin closes the client nobody else has seen.
LoginFails(r) == Handles(r, "postLogin") /\ Refuse(r)

\* One unlocked write of a field of the *Session, stored or not.
Put(r, here, new, then) ==
    /\ pc[r] = here
    /\ session' = [session EXCEPT ![at[r]] = new]
    /\ Move(r, then)
    /\ UNCHANGED <<made, stored, expired, clients, closed, muVars, cookie, doomed, phase>>

With(r) == session[at[r]]

\* Trade Republic has started the login of a client nobody else has seen.
PutClient(r) ==
    /\ Handles(r, "postLogin")
    /\ clients < MaxClients
    /\ clients' = clients + 1
    /\ session' = [session EXCEPT ![at[r]].client = clients + 1]
    /\ Move(r, "putTwoFA")
    /\ UNCHANGED <<made, stored, expired, closed, muVars, cookie, doomed, phase>>

PutTwoFA(r) == Put(r, "putTwoFA", [With(r) EXCEPT !.state = "twofa"], "touch")

TouchAndFinish(r) ==
    /\ pc[r] = "touch"
    /\ Touch(at[r]) /\ Finish(r)
    /\ UNCHANGED <<cookie, doomed, phase>>

---------------------------------------------------------------------------
(* POST /twofa                                                             *)

HasClient(r) == session[at[r]].client # NoClient

\* The session is not at 2FA, has lost its client, or the code is malformed.
TwoFARefused(r) == Handles(r, "postTwoFA") /\ Refuse(r)

TwoFABegins(r) ==
    /\ Handles(r, "postTwoFA")
    /\ State(r) = "twofa" /\ HasClient(r)
    /\ Move(r, "complete")
    /\ UNCHANGED <<storeVars, cookie, doomed, phase>>

\* CompleteWebLoginV2 on the client in hand.
TwoFAFails(r) == pc[r] = "complete" /\ Refuse(r)

\* It has succeeded.
PutFetching(r) == Put(r, "complete", [With(r) EXCEPT !.state = "fetching"], "rotate")

RotateSession(r) ==
    /\ pc[r] = "rotate" /\ at[r] \in stored
    /\ Rotate(at[r]) /\ Finish(r)
    /\ cookie' = made + 1
    /\ doomed' = doomed \ {at[r]}
    /\ UNCHANGED phase

\* Rotate returns nil: the session is gone.
RotateMisses(r) == pc[r] = "rotate" /\ MuFree /\ at[r] \notin stored /\ Refuse(r)

---------------------------------------------------------------------------
(* GET /progress/events                                                    *)

StreamRefused(r) ==
    /\ Handles(r, "events")
    /\ State(r) # "fetching" \/ ~HasClient(r)
    /\ Refuse(r)

StreamBegins(r) ==
    /\ Handles(r, "events")
    /\ State(r) = "fetching" /\ HasClient(r)
    /\ Goto(r, "stream")
    /\ held' = [held EXCEPT ![r] = session[at[r]].client]
    /\ UNCHANGED <<storeVars, kind, at, cookie, doomed, phase>>

\* The clients whose c.mu is taken by connectWS.
Dialled == {held[r] : r \in {q \in Requests : pc[q] = "dial"}}

\* A Subscribe of the fetch finds no open connection: the first one, or one
\* after the connection was closed.
StreamDials(r) ==
    /\ pc[r] = "stream" /\ held[r] \notin Dialled
    /\ Move(r, "dial")
    /\ UNCHANGED <<storeVars, cookie, doomed, phase>>

\* Trade Republic answers "connected" (external).
StreamConnects(r) ==
    /\ pc[r] = "dial"
    /\ Move(r, "stream")
    /\ UNCHANGED <<storeVars, cookie, doomed, phase>>

\* The progress callback of FetchAllEvents, after each page.
StreamPage(r) ==
    /\ pc[r] = "stream"
    /\ Touch(at[r])
    /\ UNCHANGED <<reqVars, cookie, doomed, phase>>

\* The dial, the fetch, the parsing or the export fails, or the browser is
\* gone: the state stays.
StreamFails(r) == pc[r] \in {"stream", "dial"} /\ Refuse(r)

\* Mutant: done is announced before the data is there.
PutCSVLate(r) == Put(r, "stream", [With(r) EXCEPT !.state = "done"], "putDone")

\* The export is there: completeProgressFetch.
PutCSV(r) == Put(r, "stream", [With(r) EXCEPT !.csv = TRUE], "putDone")

PutDone(r) == Put(r, "putDone", [With(r) EXCEPT !.state = "done"], "touch")

---------------------------------------------------------------------------
(* The server                                                              *)

CleanupTick ==
    /\ phase = "up"
    /\ stored \cap expired # {}
    /\ Cleanup
    /\ UNCHANGED <<reqVars, cookie, doomed, phase>>

Drained == \A r \in Requests : pc[r] = "idle"

\* Shutdown stops the cleanup ticker, lets nobody in and waits for the requests, then cleans up.
\* Until they have ended they do what they would do anyway, so the step is the end of the wait.
\* When it has waited for 30 s the process just exits.
Shutdown ==
    /\ phase = "up" /\ Drained
    /\ Cleanup
    /\ phase' = "down"
    /\ UNCHANGED <<reqVars, cookie, doomed>>

\* The removal that holds s.mu goes on.
Drop ==
    /\ DropVictim(Dialled)
    /\ doomed' = doomed \ {victim}
    /\ UNCHANGED <<reqVars, cookie, phase>>

LoginStep(r) == LoginFails(r) \/ PutClient(r) \/ PutTwoFA(r)

TwoFAStep(r) == TwoFARefused(r) \/ TwoFABegins(r) \/ TwoFAFails(r) \/ PutFetching(r)
                \/ RotateSession(r) \/ RotateMisses(r)

StreamStep(r) == StreamRefused(r) \/ StreamBegins(r) \/ StreamDials(r) \/ StreamConnects(r)
                 \/ StreamPage(r) \/ StreamFails(r) \/ PutCSV(r) \/ PutDone(r)

PageStep(r) == ShowLogin(r) \/ ShowPage(r) \/ ShowResult(r) \/ WrongState(r)

Handle(r) == Lookup(r) \/ Evict(r) \/ Evicted(r) \/ Forbidden(r) \/ CreateSession(r) \/ PageStep(r)
             \/ LoginStep(r) \/ TwoFAStep(r) \/ StreamStep(r) \/ TouchAndFinish(r)

Next ==
    \/ /\ phase # "down"
       /\ \/ \E r \in Requests : Handle(r) \/ \E k \in Kinds : Begin(r, k)
          \/ \E s \in SessionIds :
                \/ DelayedDelete(s)
                \/ Expire(s) /\ UNCHANGED <<reqVars, cookie, doomed, phase>>
          \/ CleanupTick \/ Shutdown
    \/ Drop

Spec == Init /\ [][Next]_vars

\* The cleanup ticker fires again and again, and a removal goes on: a Go mutex
\* starves nobody, so that Close gets the client's lock when it is released
\* again and again.  Nothing is assumed of the requests.
FairSpec ==
    /\ Spec
    /\ WF_vars(CleanupTick) /\ SF_vars(Drop)

---------------------------------------------------------------------------
(* Properties                                                              *)

\* A stored session past the login page holds an open client, and no other
\* stored session holds the same one: the unlocked writes of the handlers,
\* Rotate moving the client and the three ways to delete a session never leave
\* a session that is served with a client that is nil, closed or shared.
StageHasClient ==
    \A s \in stored :
        /\ session[s].state # "login" => session[s].client \notin closed \cup {NoClient}
        /\ \A t \in stored \ {s} :
              session[s].client = session[t].client => session[s].client = NoClient

\* GET /result of a stored session that is done has a CSV to show, although
\* completeProgressFetch writes the data and the state with no lock while
\* another request may rotate, delete or reuse the session.
DoneHasResult == \A s \in stored : session[s].state = "done" => session[s].csv

\* Cleanup "removes all expired sessions": while the server is up no session
\* stays expired for ever, neither removed nor used again, whatever its state
\* and with or without requests that hold it.
ExpiredRemoved == \A s \in SessionIds : []<>(s \notin stored \cap expired \/ phase # "up")

\* The only thing that can keep Cleanup from it is a dial that is never
\* answered, whose client it waits to close with the store locked.
ExpiredRemovedUnlessStalled ==
    (\E r \in Requests : <>[](pc[r] = "dial")) \/ ExpiredRemoved

=============================================================================
