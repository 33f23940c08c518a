----------------------------- MODULE Login_proofs -----------------------------
(***************************************************************************)
(* Proofs about Login for any number of completions, sessions and faults.  *)
(* The inductive invariant adds to the types and OkMeansApproved that no   *)
(* completion runs before a login began, and what is known of the stored   *)
(* copies of the jar while the cookies are migrated and tried.             *)
(***************************************************************************)
EXTENDS Login, TLAPS

NoneRuns == \A c \in Completers : comp[c] = "idle"

IdleBefore == prog \notin {"complete", "done"} => NoneRuns

\* As long as no keyring read failed: the keyring entry is absent before the
\* migration and is the jar's or absent after it, and the legacy file, while it
\* is to be removed, holds nothing the keyring does not.
Migrating ==
    misreads = 0 =>
        /\ prog = "migrate" => keyring[phone] = None /\ legacy \in {jar, Empty}
        /\ prog = "migrate" /\ legacy = Empty => jar = None
        /\ prog \in {"migrate", "remove"} => saves
        /\ prog = "remove" => /\ legacy \in {keyring[phone], Empty}
                              /\ keyring[phone] \in {None, jar}
        /\ prog = "auth" /\ saves => keyring[phone] \in {None, jar}

IInv == TypeOK /\ OkMeansApproved /\ IdleBefore /\ Migrating

USE LoginAssumption

---------------------------------------------------------------------------
(* Types                                                                   *)

LEMMA SessionFacts ==
    /\ Sessions = 1 .. MaxSessions
    /\ None \notin Sessions /\ Empty \notin Sessions /\ Garbage \notin Sessions
    /\ None # Empty /\ None # Garbage
  BY DEF Sessions, None, Empty, Garbage

LEMMA InitOK == Init => IInv
  <1> SUFFICES ASSUME Init PROVE IInv
    OBVIOUS
  <1>1. TypeOK
    <2>1. /\ 1 \in Sessions /\ {1} \subseteq 1 .. 1
          /\ 0 \in 0 .. MaxFaults /\ 0 \in 0 .. 0
      BY DEF Sessions
    <2>2. /\ [k \in Keys |-> None] \in [Keys -> Sessions \cup {None}]
          /\ [c \in Completers |-> "idle"] \in [Completers -> CompPCs]
          /\ "phone" \in Keys
      BY DEF Keys, CompPCs
    <2> QED BY <2>1, <2>2 DEF Init, TypeOK, Progs
  <1> QED
    BY <1>1 DEF Init, IInv, OkMeansApproved, IdleBefore, Migrating, Won, NoneRuns

\* Saving puts the jar, or nothing, under the client's phone number.
LEMMA SavedType ==
    ASSUME TypeOK, Saved
    PROVE  /\ keyring' \in [Keys -> Sessions \cup {None}]
           /\ keyring'[phone] \in {keyring[phone], jar}
           /\ \A k \in Keys \ {phone} : keyring'[k] = keyring[k]
           /\ ~saves => keyring' = keyring
           /\ saves /\ jar # None => keyring'[phone] = jar
           /\ jar = None => keyring' = keyring
  BY DEF TypeOK, Saved

\* Deleting leaves nothing under the client's phone number.
LEMMA DeletedType ==
    ASSUME TypeOK, Deleted
    PROVE  /\ keyring' \in [Keys -> Sessions \cup {None}]
           /\ keyring'[phone] = None
           /\ \A k \in Keys \ {phone} : keyring'[k] = keyring[k]
  BY DEF TypeOK, Deleted

LEMMA FaultType ==
    ASSUME TypeOK, Fault
    PROVE  faults' \in 0 .. MaxFaults
  BY DEF TypeOK, Fault

---------------------------------------------------------------------------
(* NewClient and AuthenticateClient                                        *)

LEMMA StartKeeps ==
    ASSUME IInv,
           \/ StartWeb \/ Wipe \/ Reset
           \/ \E key \in Keys, save \in BOOLEAN, begins \in {"wipe", "wipeAll", "reset", "load"} :
                 StartCLI(key, save, begins)
    PROVE  IInv'
  <1>1. CASE StartWeb
    BY <1>1 DEF StartWeb, IInv, TypeOK, OkMeansApproved, IdleBefore, Migrating, Won, NoneRuns,
                storeVars, serverVars, clientVars, Progs
  <1>2. CASE Reset
    <2>1. keyring' \in [Keys -> Sessions \cup {None}] /\ keyring'[phone] = None
      BY <1>2, DeletedType DEF Reset, IInv
    <2> QED BY <1>2, <2>1 DEF Reset, IInv, TypeOK, OkMeansApproved, IdleBefore, Migrating, Won,
                NoneRuns, storeVars, serverVars, clientVars, Progs
  <1>4. CASE Wipe
    BY <1>4 DEF Wipe, IInv, TypeOK, OkMeansApproved, IdleBefore, Migrating, Won, NoneRuns,
                serverVars, clientVars, Progs
  <1>3. CASE \E key \in Keys, save \in BOOLEAN, begins \in {"wipe", "wipeAll", "reset", "load"} :
                StartCLI(key, save, begins)
    BY <1>3 DEF StartCLI, IInv, TypeOK, OkMeansApproved, IdleBefore, Migrating, Won, NoneRuns,
                storeVars, serverVars, clientVars, Progs
  <1> QED BY <1>1, <1>2, <1>3, <1>4

LEMMA LoadKeeps ==
    ASSUME IInv, LoadNothing \/ LoadKeyring \/ LoadLegacy
    PROVE  IInv'
  <1>1. /\ prog = "load" /\ prog' \in {"auth", "migrate"}
        /\ UNCHANGED <<storeVars, serverVars, web, phone, saves, processID, authenticator, late, comp>>
    BY DEF LoadNothing, LoadKeyring, LoadLegacy, To
  <1>2. jar' \in Sessions \cup {None}
    BY DEF IInv, TypeOK, LoadNothing, LoadKeyring, LoadLegacy
  <1>2a. (UNCHANGED <<faults, misreads>>) \/ (Fault /\ misreads' = misreads + 1)
    BY DEF LoadNothing, LoadKeyring, LoadLegacy
  <1>3. /\ faults' \in 0 .. MaxFaults /\ misreads' \in 0 .. faults'
        /\ misreads' = 0 => misreads = 0
        /\ misreads' = misreads + 1 => misreads' # 0
    <2>1. faults \in 0 .. MaxFaults /\ misreads \in 0 .. faults
      BY DEF IInv, TypeOK
    <2> QED BY <1>2a, <2>1 DEF Fault
  <1>4. TypeOK'
    BY <1>1, <1>2, <1>3 DEF IInv, TypeOK, storeVars, serverVars, Progs
  <1>5. OkMeansApproved' /\ IdleBefore'
    BY <1>1 DEF IInv, OkMeansApproved, IdleBefore, NoneRuns, Won
  <1>6. Migrating'
    <2>1. CASE LoadNothing
      BY <1>1, <2>1 DEF LoadNothing, To, Migrating
    <2>2. CASE LoadKeyring
      BY <1>1, <2>2 DEF LoadKeyring, To, Migrating, storeVars
    <2>3. CASE LoadLegacy
      <3> SUFFICES ASSUME misreads' = 0 PROVE Migrating'
        BY DEF Migrating
      <3>1. keyring[phone] = None /\ keyring'[phone'] = None
        BY <1>1, <1>3, <2>3 DEF storeVars, LoadLegacy
      <3>2. CASE prog' = "auth"
        BY <3>1, <3>2 DEF Migrating
      <3>3. CASE prog' = "migrate"
        <4>1. saves' /\ legacy' = legacy /\ jar' = (IF legacy = Empty THEN None ELSE legacy)
          BY <1>1, <2>3, <3>3 DEF LoadLegacy, To, storeVars
        <4> QED BY <3>1, <3>3, <4>1 DEF Migrating
      <3> QED BY <1>1, <3>2, <3>3
    <2> QED BY <2>1, <2>2, <2>3
  <1> QED BY <1>4, <1>5, <1>6 DEF IInv

LEMMA MigrateKeeps ==
    ASSUME IInv, MigrateFails \/ Migrate \/ RemoveLegacy
    PROVE  IInv'
  <1>1. /\ prog \in {"migrate", "remove"} /\ prog' \in {"remove", "auth"}
        /\ UNCHANGED <<serverVars, clientVars, comp, misreads>>
    BY DEF MigrateFails, Migrate, RemoveLegacy
  <1>2. faults' \in 0 .. MaxFaults /\ faults' >= faults
    BY FaultType DEF IInv, TypeOK, MigrateFails, Migrate, RemoveLegacy, Fault
  <1>3. keyring' \in [Keys -> Sessions \cup {None}] /\ legacy' \in {legacy, None}
    BY SavedType DEF IInv, TypeOK, MigrateFails, Migrate, RemoveLegacy, storeVars
  <1>4. TypeOK'
    BY <1>1, <1>2, <1>3 DEF IInv, TypeOK, serverVars, clientVars, Progs
  <1>5. OkMeansApproved' /\ IdleBefore'
    BY <1>1 DEF IInv, OkMeansApproved, IdleBefore, NoneRuns, Won, serverVars, clientVars
  <1>6. Migrating'
    <2> SUFFICES ASSUME misreads = 0 PROVE Migrating'
      BY <1>1 DEF Migrating
    <2>1. CASE MigrateFails
      BY <1>1, <2>1 DEF MigrateFails, Migrating, IInv, storeVars, clientVars
    <2>2. CASE Migrate
      <3>1. /\ keyring[phone] = None /\ saves /\ legacy \in {jar, Empty}
            /\ legacy = Empty => jar = None
        BY <2>2 DEF Migrate, Migrating, IInv
      <3>2. keyring'[phone] = jar
        BY <2>2, <3>1, SavedType DEF Migrate, IInv
      <3> QED BY <1>1, <2>2, <3>1, <3>2 DEF Migrate, Migrating, clientVars
    <2>3. CASE RemoveLegacy
      BY <1>1, <2>3 DEF RemoveLegacy, Migrating, IInv, storeVars, clientVars
    <2> QED BY <2>1, <2>2, <2>3
  <1> QED BY <1>4, <1>5, <1>6 DEF IInv

LEMMA AuthenticateKeeps ==
    ASSUME IInv, AuthenticateClient
    PROVE  IInv'
  <1>1. CASE Resume
    BY <1>1 DEF Resume, To, IInv, TypeOK, OkMeansApproved, IdleBefore, Migrating, Won, NoneRuns,
                storeVars, serverVars, Progs
  <1>2. CASE ResumeRejected
    <2>1. keyring' \in [Keys -> Sessions \cup {None}]
      BY <1>2, DeletedType DEF ResumeRejected, IInv, TypeOK
    <2>2. faults' \in 0 .. MaxFaults /\ faults' >= faults
      BY <1>2, FaultType DEF ResumeRejected, IInv, TypeOK, Fault
    <2> QED BY <1>2, <2>1, <2>2 DEF ResumeRejected, IInv, TypeOK, OkMeansApproved, IdleBefore,
                Migrating, Won, NoneRuns, serverVars, clientVars, Progs
  <1>3. CASE ResumeFails
    <2>1. faults' \in 0 .. MaxFaults /\ faults' >= faults
      BY <1>3, FaultType DEF ResumeFails, IInv, TypeOK, Fault
    <2> QED BY <1>3, <2>1 DEF ResumeFails, To, IInv, TypeOK, OkMeansApproved, IdleBefore,
                Migrating, Won, NoneRuns, storeVars, serverVars, Progs
  <1>4. CASE Initiate
    BY <1>4 DEF Initiate, IInv, TypeOK, OkMeansApproved, IdleBefore, Migrating, Won, NoneRuns,
                storeVars, Progs, Keys
  <1> QED BY <1>1, <1>2, <1>3, <1>4 DEF AuthenticateClient

---------------------------------------------------------------------------
(* CompleteWebLoginV2                                                      *)

\* What a step of one completion leaves alone is enough for the types and for
\* the migration; OkMeansApproved needs a look at the step.
LEMMA CompletionKeeps ==
    ASSUME IInv, NEW c \in Completers, Complete(c) \/ CompleteWebLoginV2(c)
    PROVE  IInv'
  <1>1. prog \in {"complete", "done"}
    BY DEF IInv, IdleBefore, NoneRuns, Complete, MayComplete, CompleteWebLoginV2, RequestFails,
           PollComplete, PollPending, PollRejected, Waited, SubmitWrong, SubmitRight, Save, Clear
  <1>2. CASE Complete(c) \/ RequestFails(c) \/ PollPending(c) \/ PollRejected(c) \/ Waited(c)
             \/ SubmitWrong(c)
    <2>1. /\ \E label \in CompPCs \ {"save", "clear", "ok"} : Step(c, label)
          /\ jar' = jar
      BY <1>2 DEF Complete, RequestFails, PollPending, PollRejected, Waited, SubmitWrong, CompPCs
    <2>2. faults' \in 0 .. MaxFaults /\ faults' >= faults
      BY <1>2, FaultType DEF Complete, RequestFails, PollPending, PollRejected, Waited, SubmitWrong,
                             Fault, IInv, TypeOK
    <2>3. TypeOK'
      BY <2>1, <2>2 DEF Step, Goto, IInv, TypeOK, storeVars, serverVars
    <2> QED
      BY <1>1, <2>1, <2>3 DEF Step, Goto, IInv, TypeOK, OkMeansApproved, IdleBefore, Migrating, Won,
                              NoneRuns, storeVars, serverVars
  <1>3. CASE PollComplete(c)
    <2>1. process \in Approved /\ issued \in Sessions
      BY <1>3 DEF PollComplete, IsComplete, IInv, TypeOK, Approved, Sessions
    <2> QED
      BY <1>1, <1>3, <2>1 DEF PollComplete, Step, Goto, IInv, TypeOK, OkMeansApproved, IdleBefore,
                         Migrating, Won, NoneRuns, storeVars, serverVars, CompPCs
  <1>4. CASE SubmitRight(c)
    <2>1. issued' \in Sessions /\ live' \subseteq 1 .. issued'
      BY <1>4 DEF SubmitRight, IInv, TypeOK, Sessions
    <2>2. \A d \in Completers : ~Won(d)
      BY <1>4 DEF SubmitRight, IInv, OkMeansApproved, Approved
    <2> QED
      BY <1>1, <1>4, <2>1, <2>2 DEF SubmitRight, Goto, IInv, TypeOK, OkMeansApproved, IdleBefore,
                         Migrating, Won, NoneRuns, storeVars, CompPCs, Approved
  <1>5. CASE Save(c)
    <2>1. keyring' \in [Keys -> Sessions \cup {None}]
      BY <1>5, SavedType DEF Save, IInv, TypeOK
    <2>2. faults' \in 0 .. MaxFaults /\ faults' >= faults
      BY <1>5, FaultType DEF Save, IInv, TypeOK, Fault
    <2> QED
      BY <1>1, <1>5, <2>1, <2>2 DEF Save, Goto, IInv, TypeOK, OkMeansApproved, IdleBefore, Migrating,
                         Won, NoneRuns, serverVars, clientVars, CompPCs
  <1>6. CASE Clear(c)
    BY <1>1, <1>6 DEF Clear, Goto, IInv, TypeOK, OkMeansApproved, IdleBefore, Migrating, Won,
                      NoneRuns, storeVars, serverVars, CompPCs, Progs
  <1> QED BY <1>2, <1>3, <1>4, <1>5, <1>6 DEF CompleteWebLoginV2

LEMMA WorldKeeps ==
    ASSUME IInv,
           End \/ Deadline \/ Reject \/ (\E status \in Approved : Approve(status))
           \/ \E s \in Sessions : Revoke(s)
    PROVE  IInv'
  <1>1. CASE End
    BY <1>1 DEF End, IInv, TypeOK, OkMeansApproved, IdleBefore, Migrating, Won, NoneRuns,
                storeVars, Progs, Keys, CompPCs
  <1>2. CASE Deadline
    BY <1>2 DEF Deadline, IInv, TypeOK, OkMeansApproved, IdleBefore, Migrating, Won, NoneRuns,
                storeVars, serverVars
  <1>3. CASE Reject
    BY <1>3 DEF Reject, IInv, TypeOK, OkMeansApproved, IdleBefore, Migrating, Won, NoneRuns,
                storeVars, clientVars, Approved
  <1>4. CASE \E status \in Approved : Approve(status)
    <2>1. PICK status \in Approved : Approve(status)
      BY <1>4
    <2>2. issued' \in Sessions /\ live' \subseteq 1 .. issued'
      BY <2>1 DEF Approve, IInv, TypeOK, Sessions
    <2>3. \A d \in Completers : ~Won(d)
      BY <2>1 DEF Approve, IInv, OkMeansApproved, Approved
    <2> QED
      BY <2>1, <2>2, <2>3 DEF Approve, IInv, TypeOK, OkMeansApproved, IdleBefore, Migrating, Won,
                              NoneRuns, storeVars, clientVars
  <1>5. CASE \E s \in Sessions : Revoke(s)
    BY <1>5 DEF Revoke, IInv, TypeOK, OkMeansApproved, IdleBefore, Migrating, Won, NoneRuns,
                storeVars, clientVars
  <1> QED BY <1>1, <1>2, <1>3, <1>4, <1>5

---------------------------------------------------------------------------
(* Theorems                                                                *)

LEMMA StepOK == IInv /\ [Next]_vars => IInv'
  <1> SUFFICES ASSUME IInv, [Next]_vars PROVE IInv'
    OBVIOUS
  <1>1. CASE Next
    BY <1>1, StartKeeps, LoadKeeps, MigrateKeeps, AuthenticateKeeps, CompletionKeeps, WorldKeeps
       DEF Next, NewClient
  <1>2. CASE UNCHANGED vars
    BY <1>2 DEF vars, IInv, TypeOK, OkMeansApproved, IdleBefore, Migrating, Won, NoneRuns,
                storeVars, serverVars, clientVars
  <1> QED BY <1>1, <1>2

\* The inductive invariant holds always, whatever fails and whoever interleaves.
THEOREM LoginInvariant == Spec => []IInv
  <1> QED BY InitOK, StepOK, PTL DEF Spec

\* The keyring never holds anything but sessions, in particular no empty list
\* (SaveCookies), and every variable keeps its type.
THEOREM LoginTypeCorrect == Spec => []TypeOK
  <1>1. IInv => TypeOK
    BY DEF IInv
  <1> QED BY <1>1, LoginInvariant, PTL

\* However many requests complete one login, one succeeds only when the server
\* approved it, and the jar then holds that login's session
\* (CompleteWebLoginV2, checkV2Approval).
THEOREM OnlyApprovedLogins == Spec => []OkMeansApproved
  <1>1. IInv => OkMeansApproved
    BY DEF IInv
  <1> QED BY <1>1, LoginInvariant, PTL

\* Only four steps write the keyring, and only two the legacy file.
LEMMA WhoWrites ==
    ASSUME Next
    PROVE  \/ UNCHANGED storeVars
           \/ prog = "reset" /\ Deleted
           \/ Wipe
           \/ ResumeRejected /\ Deleted
           \/ Migrate
           \/ RemoveLegacy
           \/ \E c \in Completers : Save(c) /\ Saved
  <1>1. CASE \/ \E key \in Keys, save \in BOOLEAN, begins \in {"wipe", "wipeAll", "reset", "load"} :
                   StartCLI(key, save, begins)
             \/ StartWeb \/ Wipe \/ Reset
    BY <1>1 DEF StartCLI, StartWeb, Wipe, Reset
  <1>2. CASE NewClient
    BY <1>2 DEF NewClient, LoadNothing, LoadKeyring, LoadLegacy, To, MigrateFails
  <1>3. CASE AuthenticateClient
    BY <1>3 DEF AuthenticateClient, Resume, ResumeRejected, ResumeFails, To, Initiate, storeVars
  <1>4. CASE \E c \in Completers : Complete(c) \/ CompleteWebLoginV2(c)
    <2>1. PICK c \in Completers : Complete(c) \/ CompleteWebLoginV2(c)
      BY <1>4
    <2> QED
      BY <2>1 DEF Complete, CompleteWebLoginV2, RequestFails, PollComplete, PollPending,
                  PollRejected, Waited, SubmitWrong, SubmitRight, Save, Clear, Step, storeVars
  <1>5. CASE \/ End \/ Deadline \/ Reject \/ (\E status \in Approved : Approve(status))
             \/ \E s \in Sessions : Revoke(s)
    BY <1>5 DEF End, Deadline, Reject, Approve, Revoke
  <1> QED BY <1>1, <1>2, <1>3, <1>4, <1>5 DEF Next

\* Without --save-credentials no run adds to the keyring (SaveCookies,
\* migrateLegacyCookies).
THEOREM NothingSavedUnasked == Spec => UnsavedByDefault
  <1>1. ASSUME IInv, [Next]_vars, ~saves, NEW k \in Keys
        PROVE  keyring'[k] \in {keyring[k], None}
    <2>1. CASE UNCHANGED storeVars
      BY <2>1 DEF storeVars
    <2>2. CASE Deleted
      BY <1>1, <2>2, DeletedType DEF IInv
    <2>3. CASE Saved
      BY <1>1, <2>3, SavedType DEF IInv
    <2>4. CASE RemoveLegacy \/ Wipe
      BY <2>4 DEF RemoveLegacy, Wipe
    <2> QED
      BY <1>1, <2>1, <2>2, <2>3, <2>4, WhoWrites DEF vars, Migrate
  <1>2. IInv /\ [Next]_vars => [~saves => \A k \in Keys : keyring'[k] \in {keyring[k], None}]_vars
    BY <1>1
  <1> QED BY <1>2, LoginInvariant, PTL DEF Spec, UnsavedByDefault

\* Without a reset flag, no failure between saving the migrated cookies and
\* removing their file, no rejected resumption and no new login drops the last
\* copy of a session that still works, as long as the keyring could be read
\* (migrateLegacyCookies, sessionRefreshError).
THEOREM MigrationIsSafe == Spec => LosesNoSession
  <1>1. ASSUME IInv, [Next]_vars, misreads = 0, NEW s \in (Stored \cap live) \ Stored'
        PROVE  \/ prog \in {"wipe", "wipeAll", "reset"}
               \/ \E t \in Stored' : t \in Sessions /\ t > s
    <2> phone \in Keys /\ issued \in Sessions /\ s \in 1 .. issued
      BY <1>1 DEF IInv, TypeOK
    <2> s \in Sessions /\ s <= issued
      BY DEF Sessions
    <2>1. ASSUME UNCHANGED storeVars PROVE FALSE
      BY <1>1, <2>1 DEF Stored, storeVars
    <2>2. ASSUME ResumeRejected, Deleted PROVE FALSE
      <3>1. keyring[phone] \in {None, jar} /\ jar \notin live
        BY <1>1, <2>2 DEF ResumeRejected, IInv, Migrating
      <3>2. s # keyring[phone]
        BY <1>1, <3>1, SessionFacts
      <3> QED
        BY <1>1, <2>2, <3>2, DeletedType DEF Stored, ResumeRejected, IInv
    <2>3. ASSUME Migrate PROVE FALSE
      <3>1. keyring[phone] = None /\ s # None
        BY <1>1, <2>3, SessionFacts DEF Migrate, IInv, Migrating
      <3> QED
        BY <1>1, <2>3, <3>1, SavedType DEF Stored, Migrate, IInv
    <2>4. ASSUME RemoveLegacy PROVE FALSE
      <3>1. legacy \in {keyring[phone], Empty} /\ s # Empty /\ keyring' = keyring
        BY <1>1, <2>4, SessionFacts DEF RemoveLegacy, IInv, Migrating
      <3> QED
        BY <1>1, <3>1 DEF Stored
    <2>5. ASSUME NEW c \in Completers, Save(c), Saved
          PROVE  \E t \in Stored' : t \in Sessions /\ t > s
      <3>1. jar = issued
        BY <1>1, <2>5 DEF Save, IInv, OkMeansApproved, Won
      <3>2. saves /\ jar # None /\ keyring'[phone] = jar
        BY <1>1, <2>5, <3>1, SavedType, SessionFacts DEF Save, Stored, IInv
      <3>3. jar \in Stored' /\ s # jar
        BY <1>1, <3>2 DEF Stored
      <3> QED
        BY <3>1, <3>3 DEF Sessions
    <2> QED
      BY <1>1, <2>1, <2>2, <2>3, <2>4, <2>5, WhoWrites DEF vars, Wipe
  <1>2. IInv /\ [Next]_vars =>
          [misreads = 0 =>
             \A s \in (Stored \cap live) \ Stored' :
                \/ prog \in {"wipe", "wipeAll", "reset"}
                \/ \E t \in Stored' : t \in Sessions /\ t > s]_vars
    BY <1>1
  <1> QED BY <1>2, LoginInvariant, PTL DEF Spec, LosesNoSession

---------------------------------------------------------------------------
(* Nobody who was approved is refused                                      *)

SomeoneWon == \E c \in Completers : Won(c)

\* Why a completion may have failed: the deadline, a failure, another completion
\* that came first, the user, or a wrong code, which is not the end of the login.
Excused ==
    \/ late \/ faults > 0 \/ SomeoneWon
    \/ process = "REJECTED"
    \/ authenticator /\ process = "PENDING"

\* Only a code approves a login with an authenticator, so whoever sent it won; and
\* a login process is only taken from the client by a completion that won.
Refusals ==
    /\ \A c \in Completers : comp[c] = "failed" => Excused
    /\ \A c \in Completers : comp[c] = "submit" => authenticator
    /\ authenticator /\ process \in Approved => SomeoneWon
    /\ prog = "complete" /\ ~processID => SomeoneWon
    /\ prog = "done" /\ ~processID => SomeoneWon \/ NoneRuns
    /\ process = "none" => NoneRuns /\ prog # "complete"

LEMMA BeforeLoginRefusals ==
    ASSUME IInv, Refusals, UNCHANGED <<comp, process, authenticator, late>>, faults' >= faults,
           prog \notin {"complete", "done"}, prog' # "complete"
    PROVE  Refusals'
  <1>1. NoneRuns /\ NoneRuns'
    BY DEF IInv, IdleBefore, NoneRuns
  <1>2. SomeoneWon' <=> SomeoneWon
    BY DEF SomeoneWon, Won
  <1>3. ASSUME NEW c \in Completers PROVE comp'[c] \notin {"failed", "submit"}
    BY <1>1 DEF NoneRuns
  <1> QED BY <1>1, <1>2, <1>3 DEF Refusals

\* A step of completion c that takes no session and no process from anyone.
LEMMA StepRefusals ==
    ASSUME IInv, Refusals, NEW c \in Completers, NEW label, Step(c, label), jar' = jar,
           ~Won(c), prog = "complete" \/ comp[c] # "idle", faults' \in 0 .. MaxFaults,
           faults' >= faults,
           label \in {"poll", "wait", "submit", "failed"},
           label = "submit" => authenticator, label = "failed" => Excused'
    PROVE  Refusals'
  <1>1. /\ UNCHANGED <<process, prog, authenticator, processID, late>>
        /\ comp' = [comp EXCEPT ![c] = label]
    BY DEF Step, Goto, serverVars
  <1>2. comp \in [Completers -> CompPCs]
    BY DEF IInv, TypeOK
  <1>3. SomeoneWon' <=> SomeoneWon
    BY <1>1, <1>2 DEF SomeoneWon, Won
  <1>4. faults \in Nat /\ faults' \in Nat
    BY DEF IInv, TypeOK
  <1>5. Excused => Excused'
    BY <1>1, <1>3, <1>4 DEF Excused
  <1>6. \A d \in Completers : /\ comp'[d] = "failed" => Excused'
                              /\ comp'[d] = "submit" => authenticator
    BY <1>1, <1>2, <1>5 DEF Refusals
  <1>7. process # "none" /\ (prog = "done" => ~NoneRuns)
    BY DEF Refusals, NoneRuns
  <1> QED BY <1>1, <1>3, <1>6, <1>7 DEF Refusals

LEMMA CompletionRefusals ==
    ASSUME IInv, Refusals, NEW c \in Completers, Complete(c) \/ CompleteWebLoginV2(c)
    PROVE  Refusals'
  <1> comp \in [Completers -> CompPCs] /\ faults \in 0 .. MaxFaults
    BY DEF IInv, TypeOK
  <1>1. CASE Complete(c)
    <2>1. ~processID => SomeoneWon /\ SomeoneWon'
      BY <1>1 DEF Complete, MayComplete, Step, Goto, Refusals, SomeoneWon, Won
    <2>2. UNCHANGED <<jar, faults, process, authenticator>> /\ ~Won(c) /\ prog = "complete"
      BY <1>1 DEF Complete, MayComplete, Won, Step, serverVars
    <2>3. SomeoneWon => SomeoneWon'
      BY <1>1, <2>2 DEF Complete, Step, Goto, SomeoneWon, Won
    <2>4. authenticator => Excused'
      BY <2>2, <2>3 DEF Refusals, Excused, IInv, TypeOK, NoneRuns
    <2>5. PICK label \in {"poll", "submit", "failed"} :
             /\ Step(c, label)
             /\ label = "submit" => authenticator
             /\ label = "failed" => ~processID \/ authenticator
      BY <1>1 DEF Complete
    <2>6. label = "failed" => Excused'
      BY <2>1, <2>4, <2>5 DEF Excused
    <2> QED
      BY <2>2, <2>5, <2>6, StepRefusals
  <1>2. CASE RequestFails(c)
    <2>1. prog \in {"complete", "done"} /\ ~NoneRuns
      BY <1>2 DEF RequestFails, IInv, IdleBefore, NoneRuns
    <2>2. ~processID => SomeoneWon'
      BY <1>2, <2>1 DEF RequestFails, Step, Goto, Refusals, SomeoneWon, Won
    <2>3. Excused' /\ faults' \in 0 .. MaxFaults /\ faults' >= faults
      BY <1>2, <2>2 DEF RequestFails, Step, Fault, Excused
    <2> QED
      BY <1>2, <2>3, StepRefusals DEF RequestFails, Won
  <1>3. CASE PollPending(c) \/ PollRejected(c)
    <2>1. process # "none"
      BY <1>3 DEF PollPending, PollRejected, Refusals, NoneRuns
    <2>2. PollRejected(c) => Excused'
      BY <1>3, <2>1 DEF PollRejected, IsComplete, IInv, TypeOK, Excused, Step, serverVars
    <2> QED
      BY <1>3, <2>2, StepRefusals DEF PollPending, PollRejected, Won
  <1>4. CASE Waited(c)
    <2>1. faults' \in 0 .. MaxFaults /\ faults' >= faults
      BY <1>4 DEF Waited, Fault
    <2>2. late \/ faults' > 0 => Excused'
      BY <1>4 DEF Waited, Step, Excused
    <2> QED
      BY <1>4, <2>1, <2>2, StepRefusals DEF Waited, Won, Fault
  <1>5. CASE SubmitWrong(c)
    <2>1. authenticator /\ process # "none"
      BY <1>5 DEF SubmitWrong, Refusals, NoneRuns
    <2>2. SomeoneWon => SomeoneWon'
      BY <1>5 DEF SubmitWrong, Step, Goto, SomeoneWon, Won
    <2>3. Excused'
      BY <1>5, <2>1, <2>2 DEF SubmitWrong, Refusals, Excused, IInv, TypeOK, Step, serverVars
    <2> QED
      BY <1>5, <2>3, StepRefusals DEF SubmitWrong, Won
  <1>6. CASE PollComplete(c) \/ SubmitRight(c) \/ Save(c) \/ Clear(c)
    <2>1. \E label \in {"save", "clear", "ok"} : comp' = [comp EXCEPT ![c] = label]
      BY <1>6 DEF PollComplete, Step, SubmitRight, Save, Clear, Goto
    <2>2. SomeoneWon' /\ ~NoneRuns
      BY <1>6, <2>1 DEF SomeoneWon, Won, NoneRuns, PollComplete, SubmitRight, Save, Clear
    <2>3. UNCHANGED authenticator /\ process' # "none"
      BY <1>6, <2>2 DEF PollComplete, Step, SubmitRight, Save, Clear, clientVars, serverVars, Refusals
    <2> QED
      BY <2>1, <2>2, <2>3 DEF Refusals, Excused
  <1> QED BY <1>1, <1>2, <1>3, <1>4, <1>5, <1>6 DEF CompleteWebLoginV2

LEMMA NextRefusals ==
    ASSUME IInv, Refusals, [Next]_vars
    PROVE  Refusals'
  <1>1. CASE \/ \E key \in Keys, save \in BOOLEAN, begins \in {"wipe", "wipeAll", "reset", "load"} :
                   StartCLI(key, save, begins)
             \/ StartWeb \/ Wipe \/ Reset \/ NewClient \/ Resume \/ ResumeRejected \/ ResumeFails
    <2>1. UNCHANGED faults \/ Fault
      BY <1>1 DEF StartCLI, StartWeb, Wipe, Reset, NewClient, LoadNothing, LoadKeyring, LoadLegacy, To,
                  MigrateFails, Migrate, RemoveLegacy, Resume, ResumeRejected, ResumeFails
    <2>3. faults' >= faults
      BY <2>1 DEF Fault, IInv, TypeOK
    <2>2. /\ prog \notin {"complete", "done"} /\ prog' # "complete"
          /\ UNCHANGED <<comp, process, authenticator, late>>
      BY <1>1 DEF StartCLI, StartWeb, Wipe, Reset, NewClient, LoadNothing, LoadKeyring, LoadLegacy,
                  MigrateFails, Migrate, RemoveLegacy, Resume, ResumeRejected, ResumeFails, To,
                  clientVars, serverVars
    <2> QED BY <2>2, <2>3, BeforeLoginRefusals
  <1>2. CASE Initiate \/ End
    <2>1. NoneRuns' /\ process' \notin Approved
      BY <1>2 DEF Initiate, End, IInv, IdleBefore, NoneRuns, Approved
    <2> QED BY <1>2, <2>1 DEF Initiate, End, Refusals, NoneRuns
  <1>3. ASSUME NEW c \in Completers, Complete(c) \/ CompleteWebLoginV2(c)
        PROVE  Refusals'
    BY <1>3, CompletionRefusals
  <1>4. CASE \/ Deadline \/ Reject \/ (\E status \in Approved : Approve(status))
             \/ \E s \in Sessions : Revoke(s)
    <2>1. /\ UNCHANGED <<comp, prog, processID, authenticator, faults>>
          /\ late => late'
          /\ \/ UNCHANGED process \/ process' = "REJECTED"
             \/ process' \in Approved /\ ~authenticator /\ process = "PENDING"
      BY <1>4 DEF Deadline, Reject, Approve, Revoke, serverVars, clientVars
    <2> QED BY <2>1 DEF Refusals, Excused, SomeoneWon, Won, NoneRuns, Approved
  <1>5. CASE UNCHANGED vars
    BY <1>5 DEF vars, serverVars, clientVars, Refusals, Excused, SomeoneWon, Won, NoneRuns
  <1> QED BY <1>1, <1>2, <1>3, <1>4, <1>5 DEF Next, AuthenticateClient

\* Neither another completion, nor a wrong code sent before the right one, nor the
\* process that a winner takes away makes a completion of an approved login fail
\* without cause (CompleteWebLoginV2).
THEOREM ApprovedAreLetIn == Spec => []ApprovedNotRefused
  <1>1. Init => Refusals
    BY DEF Init, Refusals, NoneRuns, Approved
  <1>2. IInv /\ Refusals /\ [Next]_vars => (IInv /\ Refusals)'
    BY StepOK, NextRefusals
  <1>3. IInv /\ Refusals => ApprovedNotRefused
    BY DEF Refusals, Excused, SomeoneWon, ApprovedNotRefused, Approved
  <1> QED BY InitOK, <1>1, <1>2, <1>3, PTL DEF Spec

=============================================================================
