-------------------------------- MODULE Login --------------------------------
(***************************************************************************)
(* internal/client: the life of one Client up to an authenticated session: *)
(* NewClient with its saved cookies (client_cookies.go), resumption        *)
(* (auth.go, client_session.go) and the v2 login (auth_v2.go).  The CLI    *)
(* runs one completion of a login; in the web server two POST /twofa of    *)
(* one browser session may run CompleteWebLoginV2 on one client at once.   *)
(*                                                                         *)
(* Cookies are abstracted to the web session they stand for, numbered by   *)
(* the Trade Republic server, which is external.  The keyring and the      *)
(* legacy cookie file outlive the process, which may end at any step.      *)
(***************************************************************************)
EXTENDS Naturals

CONSTANTS
    Completers,    \* the requests that may complete one login
    MaxSessions,   \* bound: web sessions the server issues
    MaxFaults      \* bound: failures of the keyring, the file system or the network

ASSUME LoginAssumption ==
    /\ MaxSessions \in Nat \ {0} /\ MaxFaults \in Nat

Sessions == 1 .. MaxSessions
None     == 0                    \* no cookies
Garbage  == MaxSessions + 1      \* stored text that is no cookie list
Empty    == MaxSessions + 2      \* a cookie list none of which still applies
Keys     == {"phone", ""}        \* "" when --phone is not given

VARIABLES
    keyring,     \* the system keyring
    legacy,      \* the cookie file of older versions
    issued, live,    \* sessions of the server so far, and those it still accepts
    prog,        \* where the program is; "idle" when there is none
    web,         \* whether it is the web server's client
    phone, saves,    \* c.phoneNo and c.saveCookies
    jar,         \* the cookies in c.httpClient.Jar
    processID,   \* whether c.processID is set
    authenticator,   \* c.v2RequiresAuthenticator
    process,     \* the login process at the server
    late,        \* c.v2Deadline has passed
    comp,        \* where each CompleteWebLoginV2 is
    faults, misreads   \* failures so far, and keyring reads among them

storeVars  == <<keyring, legacy>>
serverVars == <<issued, live, process>>
clientVars == <<web, phone, saves, jar, processID, authenticator, late>>
vars == <<storeVars, serverVars, prog, clientVars, comp, faults, misreads>>

Progs == {"idle", "wipe", "wipeAll", "reset", "load", "migrate", "remove", "auth", "login", "complete", "done"}
Approved == {"CONFIRMED", "COMPLETED", "APPROVED"}
CompPCs == {"idle", "poll", "wait", "submit", "save", "clear", "ok", "failed"}

TypeOK ==
    /\ keyring \in [Keys -> Sessions \cup {None}]
    /\ legacy \in Sessions \cup {None, Garbage, Empty}
    /\ issued \in Sessions /\ live \subseteq 1 .. issued
    /\ prog \in Progs
    /\ web \in BOOLEAN /\ phone \in Keys /\ saves \in BOOLEAN
    /\ jar \in Sessions \cup {None}
    /\ processID \in BOOLEAN /\ authenticator \in BOOLEAN /\ late \in BOOLEAN
    /\ process \in {"none", "PENDING", "REJECTED"} \cup Approved
    /\ comp \in [Completers -> CompPCs]
    /\ faults \in 0 .. MaxFaults /\ misreads \in 0 .. faults

\* The user comes with a cookie file of an older version, of use or not.
Init ==
    /\ keyring = [k \in Keys |-> None]
    /\ legacy \in {None, Garbage, Empty, 1}
    /\ issued = 1 /\ live = {1}
    /\ prog = "idle" /\ web = FALSE /\ phone = "phone" /\ saves = FALSE
    /\ jar = None /\ processID = FALSE /\ authenticator = FALSE /\ late = FALSE
    /\ process = "none"
    /\ comp = [c \in Completers |-> "idle"]
    /\ faults = 0 /\ misreads = 0

Fault == faults < MaxFaults /\ faults' = faults + 1

---------------------------------------------------------------------------
(* NewClient                                                               *)

\* clitr fetch, with or without --phone and --save-credentials.  It begins at
\* "wipe" with --reset-data, at "reset" with --reset-credentials, and with
\* --reset or both it does both.
StartCLI(key, save, begins) ==
    /\ prog = "idle"
    /\ prog' = begins
    /\ phone' = key /\ saves' = save
    /\ UNCHANGED <<storeVars, serverVars, web, jar, processID, authenticator, late, comp, faults,
                   misreads>>

\* beginLogin: the web server's clients save nothing.
StartWeb ==
    /\ prog = "idle"
    /\ prog' = "login" /\ web' = TRUE
    /\ UNCHANGED <<storeVars, serverVars, phone, saves, jar, processID, authenticator, late, comp,
                   faults, misreads>>

\* handleResetData removes the data directory, which is where the legacy file
\* is too; when it fails, before or after it came to that file, the program ends.
Wipe ==
    /\ prog \in {"wipe", "wipeAll"}
    /\ legacy' = None
    /\ prog' = IF prog = "wipe" THEN "load" ELSE "reset"
    /\ UNCHANGED <<keyring, serverVars, clientVars, comp, faults, misreads>>

\* ResetCookies: nothing to delete is no error.
Deleted == keyring' = [keyring EXCEPT ![phone] = None]

\* handleResetCredentials; when it fails the program ends.
Reset ==
    /\ prog = "reset"
    /\ Deleted
    /\ prog' = "load"
    /\ UNCHANGED <<legacy, serverVars, clientVars, comp, faults, misreads>>

To(p) == prog' = p /\ UNCHANGED <<storeVars, serverVars, web, phone, saves, processID,
                                  authenticator, late, comp>>

\* Without --save-credentials, nothing is loaded.
LoadNothing ==
    /\ prog = "load" /\ ~saves
    /\ To("auth") /\ UNCHANGED <<jar, faults, misreads>>

\* SaveCookies wrote the entry, so that it can be read.
LoadKeyring ==
    /\ prog = "load" /\ saves /\ keyring[phone] \in Sessions
    /\ jar' = keyring[phone]
    /\ To("auth") /\ UNCHANGED <<faults, misreads>>

\* The keyring has nothing, or cannot be read: fall back to the legacy file of
\* this phone number, if there is one.  Garbage fails NewClient.
LoadLegacy ==
    /\ prog = "load" /\ saves
    /\ \/ keyring[phone] = None /\ UNCHANGED <<faults, misreads>>
       \/ Fault /\ misreads' = misreads + 1
    /\ \/ /\ legacy = None \/ phone = ""
          /\ To("auth") /\ UNCHANGED jar
       \/ /\ phone # "" /\ legacy \in Sessions \cup {Empty}
          /\ jar' = IF legacy = Empty THEN None ELSE legacy
          /\ To("migrate")

---------------------------------------------------------------------------
(* Saved cookies                                                           *)

\* Mutant: the flag is not looked at.
SavedAlways == keyring' = IF jar = None THEN keyring ELSE [keyring EXCEPT ![phone] = jar]

\* Mutant: an empty jar is saved as well.
SavedEmpty ==
    keyring' = IF saves THEN [keyring EXCEPT ![phone] = IF jar = None THEN Empty ELSE jar]
               ELSE keyring

\* SaveCookies without a failure.
Saved == keyring' = IF ~saves \/ jar = None THEN keyring ELSE [keyring EXCEPT ![phone] = jar]

\* Mutant: the file is removed whether or not the cookies were saved.
MigrateFailsRemoves ==
    /\ prog = "migrate" /\ jar # None
    /\ Fault
    /\ prog' = "remove"
    /\ UNCHANGED <<storeVars, serverVars, clientVars, comp, misreads>>

\* The cookies cannot be saved: the file is kept.
MigrateFails ==
    /\ prog = "migrate" /\ jar # None
    /\ Fault
    /\ prog' = "auth"
    /\ UNCHANGED <<storeVars, serverVars, clientVars, comp, misreads>>

Migrate ==
    /\ prog = "migrate"
    /\ Saved
    /\ prog' = "remove"
    /\ UNCHANGED <<legacy, serverVars, clientVars, comp, faults, misreads>>

RemoveLegacy ==
    /\ prog = "remove"
    /\ prog' = "auth"
    /\ \/ legacy' = None /\ UNCHANGED faults
       \/ Fault /\ UNCHANGED legacy
    /\ UNCHANGED <<keyring, serverVars, clientVars, comp, misreads>>

---------------------------------------------------------------------------
(* AuthenticateClient                                                      *)

\* resumeWebSession: the server accepts the cookies.
Resume ==
    /\ prog = "auth" /\ saves /\ jar \in live
    /\ To("done") /\ UNCHANGED <<jar, faults, misreads>>

\* AUTHENTICATION_ERROR: the keyring is cleared (or cannot be), the jar is not.
ResumeRejected ==
    /\ prog = "auth" /\ saves /\ jar \in Sessions \ live
    /\ \/ Deleted /\ UNCHANGED faults
       \/ Fault /\ UNCHANGED keyring
    /\ prog' = "login"
    /\ UNCHANGED <<legacy, serverVars, clientVars, comp, misreads>>

\* Nothing to resume, or the request fails.
ResumeFails ==
    /\ prog = "auth"
    /\ \/ (~saves \/ jar = None) /\ UNCHANGED faults
       \/ saves /\ jar # None /\ Fault
    /\ To("login") /\ UNCHANGED <<jar, misreads>>

\* InitiateWebLoginV2; the phone number was asked for if it was not given.  When
\* it fails the CLI ends and the web server closes the client.
Initiate ==
    /\ prog = "login"
    /\ prog' = "complete"
    /\ phone' = "phone"
    /\ processID' = TRUE /\ process' = "PENDING" /\ late' = FALSE
    /\ authenticator' \in BOOLEAN
    /\ UNCHANGED <<storeVars, issued, live, web, saves, jar, comp, faults, misreads>>

---------------------------------------------------------------------------
(* CompleteWebLoginV2                                                      *)

Goto(c, label) == comp' = [comp EXCEPT ![c] = label]

Step(c, label) == Goto(c, label) /\ UNCHANGED <<storeVars, serverVars, prog, web, phone, saves,
                                               processID, authenticator, late, misreads>>

\* One completion at a time for the CLI, and no second try.
MayComplete(c) ==
    /\ prog = "complete"
    /\ IF web THEN comp[c] \in {"idle", "failed"} ELSE \A d \in Completers : comp[d] = "idle"

\* validateV2Completion, then the deadline starts to count.  Both callers pass a
\* code only to a login that wants one; the CLI's may be empty.
Complete(c) ==
    /\ MayComplete(c)
    /\ \/ (~processID \/ (authenticator /\ ~web)) /\ Step(c, "failed")
       \/ processID /\ Step(c, IF authenticator THEN "submit" ELSE "poll")
    /\ UNCHANGED <<jar, faults>>

\* getV2LoginProcess reads c.processID anew; without one, past the deadline or
\* cut off it is an error.
RequestFails(c) ==
    /\ comp[c] \in {"poll", "submit"}
    /\ \/ (~processID \/ late) /\ UNCHANGED faults
       \/ processID /\ ~late /\ Fault
    /\ Step(c, "failed") /\ UNCHANGED jar

\* Mutant: any status but PENDING will do.
IsCompleteUnlessPending(status) == status # "PENDING"

\* Mutant: only one of the final statuses is known.
IsCompleted(status) == status = "COMPLETED"

IsComplete(status) == status \in Approved

\* The poll finds the login complete and brings its session's cookies.
PollComplete(c) ==
    /\ comp[c] = "poll" /\ processID /\ ~late
    /\ IsComplete(process)
    /\ jar' = issued
    /\ Step(c, "save") /\ UNCHANGED faults

PollPending(c) ==
    /\ comp[c] = "poll" /\ processID /\ ~late
    /\ process = "PENDING"
    /\ Step(c, "wait") /\ UNCHANGED <<jar, faults>>

PollRejected(c) ==
    /\ comp[c] = "poll" /\ processID /\ ~late
    /\ ~IsComplete(process) /\ process # "PENDING"
    /\ Step(c, "failed") /\ UNCHANGED <<jar, faults>>

\* Mutant: the wait does not look at the context.
WaitedNoDeadline(c) ==
    /\ comp[c] = "wait" /\ ~late
    /\ Step(c, "poll")
    /\ UNCHANGED <<jar, faults>>

\* The timer, the deadline or the end of the browser's request; when more than
\* one is due, either.
Waited(c) ==
    /\ comp[c] = "wait"
    /\ \/ Step(c, "poll") /\ UNCHANGED faults
       \/ late /\ Step(c, "failed") /\ UNCHANGED faults
       \/ web /\ Fault /\ Step(c, "failed")
    /\ UNCHANGED jar

\* The code is wrong, or was right once already.
SubmitWrong(c) ==
    /\ comp[c] = "submit" /\ processID /\ ~late
    /\ Step(c, "failed") /\ UNCHANGED <<jar, faults>>

\* The server accepts the code and issues a session.
SubmitRight(c) ==
    /\ comp[c] = "submit" /\ processID /\ ~late
    /\ process = "PENDING" /\ issued < MaxSessions
    /\ issued' = issued + 1 /\ live' = live \cup {issued'}
    /\ process' = "COMPLETED" /\ jar' = issued'
    /\ Goto(c, "save")
    /\ UNCHANGED <<storeVars, prog, web, phone, saves, processID, authenticator, late, faults,
                   misreads>>

\* A failure to save is only logged.
Save(c) ==
    /\ comp[c] = "save"
    /\ \/ Saved /\ UNCHANGED faults
       \/ saves /\ Fault /\ UNCHANGED keyring
    /\ Goto(c, "clear")
    /\ UNCHANGED <<legacy, serverVars, prog, clientVars, misreads>>

\* The CLI goes on to fetch.
Clear(c) ==
    /\ comp[c] = "clear"
    /\ processID' = FALSE
    /\ Goto(c, "ok")
    /\ prog' = IF web THEN prog ELSE "done"
    /\ UNCHANGED <<storeVars, serverVars, web, phone, saves, jar, authenticator, late, faults,
                   misreads>>

---------------------------------------------------------------------------
(* The process, the user and the server                                    *)

\* The program returns, fails or is killed.
End ==
    /\ prog # "idle"
    /\ prog' = "idle" /\ web' = FALSE /\ phone' = "phone" /\ saves' = FALSE
    /\ jar' = None /\ processID' = FALSE /\ authenticator' = FALSE /\ late' = FALSE
    /\ process' = "none" /\ comp' = [c \in Completers |-> "idle"]
    /\ UNCHANGED <<storeVars, issued, live, faults, misreads>>

\* The login window or the expiry the server gave is over.
Deadline ==
    /\ prog = "complete" /\ ~late
    /\ late' = TRUE
    /\ UNCHANGED <<storeVars, serverVars, prog, web, phone, saves, jar, processID, authenticator,
                   comp, faults, misreads>>

\* The user decides in the app, in time or not.
Approve(status) ==
    /\ process = "PENDING" /\ ~authenticator /\ issued < MaxSessions
    /\ issued' = issued + 1 /\ live' = live \cup {issued'}
    /\ process' = status
    /\ UNCHANGED <<storeVars, prog, clientVars, comp, faults, misreads>>

Reject ==
    /\ process = "PENDING"
    /\ process' = "REJECTED"
    /\ UNCHANGED <<storeVars, issued, live, prog, clientVars, comp, faults, misreads>>

\* A session ends at the server.
Revoke(s) ==
    /\ s \in live
    /\ live' = live \ {s}
    /\ UNCHANGED <<storeVars, issued, process, prog, clientVars, comp, faults, misreads>>

NewClient == LoadNothing \/ LoadKeyring \/ LoadLegacy \/ MigrateFails \/ Migrate \/ RemoveLegacy

AuthenticateClient == Resume \/ ResumeRejected \/ ResumeFails \/ Initiate

CompleteWebLoginV2(c) ==
    \/ RequestFails(c) \/ PollComplete(c) \/ PollPending(c) \/ PollRejected(c) \/ Waited(c)
    \/ SubmitWrong(c) \/ SubmitRight(c) \/ Save(c) \/ Clear(c)

Next ==
    \/ \E key \in Keys, save \in BOOLEAN, begins \in {"wipe", "wipeAll", "reset", "load"} :
          StartCLI(key, save, begins)
    \/ StartWeb \/ Wipe \/ Reset \/ NewClient \/ AuthenticateClient
    \/ \E c \in Completers : Complete(c) \/ CompleteWebLoginV2(c)
    \/ End \/ Deadline \/ Reject
    \/ \E status \in Approved : Approve(status)
    \/ \E s \in Sessions : Revoke(s)

Spec == Init /\ [][Next]_vars

\* A goroutine that can move does, and the time of the login window passes.
FairSpec ==
    /\ Spec
    /\ WF_vars(Deadline)
    /\ \A c \in Completers : WF_vars(CompleteWebLoginV2(c))

---------------------------------------------------------------------------
(* Properties                                                              *)

Won(c) == comp[c] \in {"save", "clear", "ok"}

\* A completion succeeds only for a login the server approved, and then the
\* client holds the session of that login and not a resumed one that was left
\* in the jar (checkV2Approval; sessionRefreshError does not empty the jar).
OkMeansApproved ==
    \A c \in Completers : Won(c) => process \in Approved /\ jar = issued

\* A completion of a login that was approved fails only past the deadline, after
\* some failure, or because another completion of it succeeded first.
ApprovedNotRefused ==
    \A c \in Completers :
        comp[c] = "failed" /\ process \in Approved =>
            late \/ faults > 0 \/ \E d \in Completers : Won(d)

\* The sessions a later run could resume.
Stored == {keyring[k] : k \in Keys} \cup {legacy}

\* As long as the keyring is read when it is asked, a session that still works
\* leaves the disk only by one of the three reset flags or for a newer one:
\* whatever step of the migration from the legacy file fails, one copy is left.
LosesNoSession ==
    [][misreads = 0 =>
        \A s \in (Stored \cap live) \ Stored' :
            \/ prog \in {"wipe", "wipeAll", "reset"}
            \/ \E t \in Stored' : t \in Sessions /\ t > s]_vars

\* Without --save-credentials a run leaves nothing in the keyring that was not
\* there (README.md, "Credentials are kept in memory only").
UnsavedByDefault ==
    [][~saves => \A k \in Keys : keyring'[k] \in {keyring[k], None}]_vars

\* Every completion ends: neither an approval that never comes nor another
\* completion that takes the process away leaves it polling.
CompletionEnds ==
    \A c \in Completers :
        comp[c] \in {"poll", "wait", "submit", "save", "clear"} ~> comp[c] \in {"idle", "ok", "failed"}

=============================================================================
