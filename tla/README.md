# clitr in TLA+

clitr downloads the transactions of a Trade Republic account ("clitr fetch"),
turns them into a CSV file ("clitr export"), and offers both through a small web
server ("clitr serve"). This directory models the parts of it in which order,
failure and concurrency decide whether it is right, checks them with TLC on
small instances, and proves the main safety properties with TLAPS for every
value of the constants.

Contents: 1 the system, 2 the modules, 3 the runs, 4 fairness, 5 the proofs,
6 the divergences found, 7 what is not modelled, 8 the plan.

Run from this directory:

    tlc -workers 2 -config fetch_single.cfg MCTimelineFetch
    tlc -workers 2 -config login.cfg Login
    tlc -workers 2 -config patch.cfg MCPatch
    tlapm WebFlow_proofs.tla

## 1. The system

    browser --> web handlers --> session store --> one Client per login
                  |   ^rate limiter in front of POSTs     |
                  v                                       v
               timeline fetch  <---- recvChan ----  receive loop <-- WebSocket -- Trade Republic
                  ^                                       ^
    CLI fetch ----+--> event files + metadata --> export --> CSV
                  |          |                            |
                  |          +--> patch --> Go sources    |
                  +---- login, saved cookies -------------+

**WebSocket client** (`src/internal/client/client_ws.go`, `client_messages.go`).
State: the connection and its context, the next subscription id, the tables
`subscriptions` and `previousResponses` under `c.mu`, and `recvChan`, one
buffered channel for the whole life of the client. Operations: connect and
handshake, subscribe, unsubscribe, close; one `receiveLoop` goroutine per
connection parses frames A/D/C/E and feeds `recvChan`. Hard: the loops of
successive connections share one channel that each of them closes; the
connection's context is a child of the dialling caller's; the lookup of a
subscription and of its previous response are two critical sections; a send on
a full channel has no way out; `c.ws` is read without the lock; dial and handshake
hold the lock and have no timeout. Correct means:
no goroutine panics, no reply is lost or changes its subscription, loops end.

**Timeline fetch** (`src/internal/fetch`). State: local to one `FetchAllEvents`
(cursor, page, detail subscriptions, details received, events gathered).
Operations: fetch a page, subscribe the details of its items, collect them under
a 30 s timer, assemble, follow the cursor. It interacts with the client by calls
and by reading `recvChan`, which all callers of one client share. Hard: replies
in any order, for another caller, late or repeated; errors and timeouts that end
the detail wait without an error. Correct means: pages in order and once each,
details with their own item, an end in every case, nothing missing when nothing
failed.

**Login and saved cookies** (`auth.go`, `auth_v2.go`, `auth_cli.go`,
`client_session.go`, `client_cookies.go`). State: cookie jar, `processID`,
`v2RequiresAuthenticator`, the deadline; beyond the process, the keyring and the
legacy cookie file. Operations: load, migrate, save and reset cookies, resume a
session, initiate and complete a v2 login; `--reset-data`, `--reset-credentials` and
`--reset` before all that. Hard: two completions on one client, approval against
deadline, failures between saving and removing, kills. Correct
means: success only for an approved login, no working session lost by the
migration, nothing saved unless asked for, every completion ends.

**Session store** (`src/internal/web/session.go`). State: a map of sessions under
a lock; the structs themselves are shared with handlers and written without it.
Operations: Create, Get, Delete, Touch, Rotate, Cleanup. Hard: Delete and Cleanup
close clients, and so wait for a client's lock, while they hold the store's.

**Web handlers and server** (`handlers.go`, `progress_sse.go`, `middleware.go`,
`csrf.go`, `server.go`). No state of their own but the goroutines: each holds a
session pointer across network calls. Operations: the seven routes, the CSRF
check, the cleanup ticker, the delete five minutes after the result was shown,
Shutdown. Hard: every unlocked field write against Delete, Rotate and Cleanup.
Correct means: a session that is served has what its state promises, a client
belongs to one session, abandoned sessions go away.

**Rate limiter** (`ratelimit.go`). State: time stamps per address. Operations:
Allow, Cleanup. Correct means: no window over the limit, no refusal below it.

**Event store and incremental fetch** (`src/fetch.go`, `src/fetch_storage.go`).
State: one JSON file per event and `metadata.json`. Operations: full and
incremental runs, `--reset-data`. Hard: a run may die at any write while the
timeline moves. Correct means: metadata never runs ahead of the files, a full
run repairs whatever was left, an incremental run updates what it lists.

**Export** (`src/export.go`, `src/internal/export`) and **event types**
(`src/internal/types`). State: the CSV file. Operation: read and decode all event
files, parse each into an event (its type from tables of words with a precedence;
shares, fees, taxes, names from the items of its details), write its row or two.
Hard: details come in several shapes and orders, or were lost by a later fetch; a file
that cannot be read is left out, one bad event fails the run; the CSV file is truncated
before it is written. Correct means: the CSV is the old one or exactly what the files say, and its values add up.

**Patch command** (`src/patch.go`, `src/internal/patch`). State: the Go sources of
the event structs, and the binary built from them. Operations: scan the event files
along a type tree written by hand, add a field for each unknown key to each Go file
concerned, add assignments in a second pass over the file. Hard: the tree and the
structs are two descriptions of the same files; the binary may be older than the
sources; a run may stop between any two writes; the first value seen decides a type.
Correct means: right struct, once, one round is enough, and the sources still build
and still decode what they decoded.

**WAF token** (`src/internal/waf`), **command line** (`src/main.go`, `src/serve.go`),
**support code** (logging, paths, JSON, templates): see section 7.

The hazards of each part, with the line where each bites and the properties that
watch it, are listed in `PROJECT.json`.

## 2. The modules

    PagedFetch        what a fetch promises                (abstract)
      ^ refinement
    TimelineFetch --EXTENDS--> WSClient
      ^ MCTimelineFetch, TimelineFetch_proofs
    WebFlow --EXTENDS--> SessionStore
      ^ WebFlow_proofs
    Export --EXTENDS--> EventParser
      ^ MCExport, Export_proofs
    MCPatch --EXTENDS--> Patch, TypeTree
                           ^ Patch_proofs
    Login, RateLimiter, EventStore, each with its _proofs module
    IntervalFacts     lemmas that EventStore_proofs, Patch_proofs and Export_proofs use

**WSClient** is one `Client` used by `Callers`. `ws`, `wsCtx`, `subs`, `prev`,
`counter`, `recvChan` are the fields of the struct; `owner` records whose context
`wsContext` was derived from; `loop[l]` is the goroutine of the l-th connection,
with a program counter where the code takes or gives up the lock or may block:
Read, the lookup in `parseMessage`, the second lookup for deltas, the send on
`recvChan`, the deferred close. `wire` and `srv` are the external server. A frame
carries only what it is about: the subscription, the code, and a body that names
the page or item asked for (or Null for a payload that decodes to nil). `dialing` is who
holds `c.mu` in `connectWS`: `BeginDial` takes it, and it is given back when the server
answers (`Dial`), refuses, or the caller's context ends (`DialFails`, `HandshakeFails`),
which may be never; all that takes the lock waits meanwhile (`MuFree`). Dial and
handshake are one such wait: who reads `c.ws` without the lock sees it as it was until
the handshake has ended. A handshake fails
only after a dial that succeeded, so never for a context that was done before. The text
of a delta is abstracted to the one thing that matters: with its base it yields
the payload; without it, nil or an error. A panic is a state, `panicked`, after
which nothing moves.

**TimelineFetch** adds the callers: `pc[c]` walks through `FetchAllEvents`,
`fetchTimelinePage` and `fetchDetailsForItems`. Subscribe is two steps, as
`connectWS` releases the lock before the registration; Unsubscribe is one step
with the receipt of the message (the write and the deletion of the table entry
commute with everything but a drop of the connection, which may come before).
The timeline is the constant `Pages`. **PagedFetch** is the abstract
specification: page after page, whole and in order, then success, or an error
that returns nothing.

**SessionStore** has one operator per method. **WebFlow** makes them steps of
requests: `at[r]` is the `*Session` a handler holds, `held[r]` the client a stream
has read from it. A step ends where the handler next reads or writes what other
goroutines see: what it does in between, the calls to Trade Republic included, is part
of the step that follows. `Get` is split at its unlocked read of `ExpiresAt`
(`Lookup`, `Evict`), and each unlocked write of a field is one action
(`PutClient`, `PutTwoFA`, `PutFetching`, `PutCSV`, `PutDone`). Delete and Cleanup hold
the store's lock over several steps (`Visit`, `DropVictim`): `sweep` are the sessions they have still to come
to, `victim` and `closing` the one they are at and the client whose `Close` they wait
for, as long as that client's stream is in a dial (`StreamDials` to `StreamConnects`).
All else that takes the lock waits (`MuFree`). `ExpiresAt` is
abstracted to whether it has passed. `Shutdown` is the end of its wait: what it
forbids before that, new requests and the ticker, need not happen anyway. A delayed
Delete (`doomed`) of a session that is gone would do nothing and is forgotten. One cookie is enough: different browsers
share no session. The rate limiter stands in front of the POST routes and keeps
no state with them: a POST it refuses is one that never begins.

**RateLimiter** keeps `entries[ip]` as a set of <<number, time>> stamps, and
`granted`, a history of all allowed requests that only the properties read.

**EventStore** numbers events by time stamp. A file write is two steps, truncate
(`OpenFile`) and fill (`FillFile`), because `os.WriteFile` truncates first; the
same for the metadata. `Abort` stops the process anywhere. The server's timeline
grows and settles between pages. Pages follow PagedFetch's promise and are taken
as one step each. `asOf` and `listed` remember, for the properties, what the
timeline and the metadata were when the run began.

**Login** abstracts cookies to the number of the web session they stand for.
`prog` walks through NewClient, migration, resumption and initiation; `comp[c]`
through `CompleteWebLoginV2`, several of which may run on one client when it is
the web server's. Keyring and legacy file outlive `End`, which may come anywhere.
A run with `--reset-data` begins with `Wipe`, which removes the legacy file with the
data directory, one with `--reset-credentials` with `Reset`, one with `--reset` with
both. What is saved is the session: path, domain and expiry of a cookie, which the
file does not keep, make no difference to the requests the client sends.

**EventParser** is the pure part of an export: one operator per function of
`event_infer.go`, `event_details.go`, `event_parse.go` and `csv.go`, and the decoding
of sections and items by their shape (list, object, string, absent, null). Texts are
TLA+ strings compared as wholes: what lower-casing, prefix tests, the ISIN pattern
and the number parser make of them are tables (`Lowered`, `StartsWith`, `ISINs`,
`FloatOf`), so that the precedence and the folds are those of the code and the
theorems hold for any tables. Amounts are thousandths and cells hundredths;
`RoundsUp` says which ties are printed as the larger number, which in the code
depends on the nearest double. **Export** is the command around it: `Refuse` when
nothing decodes or an event does not parse, `Load`, `Create`, row after row,
`Finish`; `Cut` anywhere; `Fetch`, which saves a file again with or without its
details; and `Disk`, which decides between runs which of the files in `Failing` cannot
be read. `Wanted` is the reference: the row an event should have, said without folds,
its fees and taxes without their sign, about which code and README disagree
(section 6), and for events that are not taken for card verifications, which should
have none.

**TypeTree** holds two tables transcribed from the code: `GoFields`, the fields of
the Go structs that hold structs, and `Tree`, the children `buildTypeTree` gives them;
`AllPlaces` pairs every place a struct can be decoded at with where the walk is then.
**Patch** is the command over any such tables: `Scan`, then per Go file `Truncate`,
`Write`, `TruncateAgain`, `WriteAgain`, or `Unmodified`, or `ParseFails`; `Cut`
anywhere; `Fetch` and `Build` around it. `decl`, `raw`, `assigned`, `imports` and
`torn` are the sources; `binary` is `decl` when it was built, which is what the walk
compares with. **MCPatch** puts the repository's tables in. None of today's methods
declares `var raw struct`; two are given one, as in
`TestApplyPatches_AddFieldToInnerRawStruct`, for the second pass to have work. What
the theorems need of the tables has names, in `Patch`: `WalksRight` (where the walk
gets, it takes an object for the struct it decodes into), `OwnReceivers` (no two
methods of a file share a receiver), `StraysUseJSON` (a Go file named by mistake imports
`encoding/json` anyway).

## 3. The runs

| run | instance | what it checks |
|---|---|---|
| `fetch_single` | one caller, two pages (two items; one item without id), one mishap: a fault, or an update or completion nobody asked for | `NoPanic`, `CleanFetchComplete`, `LeftoversAreMissing`, `RepliesConserved`, `DetailsAttributed`, `FetchEndsUnlessStalled`, `CanceledLoopEnds`, refinement of `PagedFetch` |
| `fetch_shared` | two callers of one client that connect at once, one page of two items, Close, one mishap | `DetailsAttributed`, `NoPanicUntilFault` |
| `web_flow` | two requests, two session ids, two clients | `StageHasClient`, `DoneHasResult`, `ExpiredRemovedUnlessStalled` |
| `rate_limiter` | two addresses, limit 2, window 3, times 0..6, 5 grants | `NeverOverLimit`, `DeniedOnlyAtLimit` |
| `event_store` | three events, pages of one, one nameless, one unparsable | `FullRunRepairs`, `PendingListed`, `ExportIsComplete`, `MetadataIsLast` |
| `login` | two completions, three server sessions, two faults | `OkMeansApproved`, `ApprovedNotRefused`, `LosesNoSession`, `UnsavedByDefault`, `CompletionEnds` |
| `export` | two event files, 19 events of every type and shape, one file the disk may fail on, any number of runs and refetches | `CsvIsOldOrExact`, `LostDetailKeepsType`, `CashBalances` |
| `patch` | the repository's 33 structs and type tree, two event files, two keys, any number of runs and builds | `DeclaredOnce`, `BlamesTheRightStruct`, `Settled`, `DeclaredIsAssigned`, `BuildsAfterwards`, `StaysReadable` |

Four more runs are expected to end in a violation; section 6 says what they
show. The type invariant of each state machine is checked in one of its runs.

### Bounds, and why they are enough

- `MaxSubs = 4` lets one fetch register both pages and both details;
  `MaxSubs = 3` lets two fetches of one page each meet in every state up to the
  detail wait, and one of them wait for two details while the other connects, cancels
  or closes. At the bound a caller that would subscribe stays where it is until
  a timer, a fault or its context ends something; no property depends on its
  going on. For any number of ids and callers there is the theorem `Attribution`.
- `MaxConns = 2`: the second connection is the first that shares `recvChan` with
  an older loop. Beyond the bound a dial fails, as it may at any time.
- `ChanCap = 1` makes the channel full as soon as one message waits, so that
  blocking sends happen; the 100 of the code only make them rarer. The theorem
  `Attribution` does not depend on it.
- `MaxFaults = 1` in the fetch runs: one drop, failed dial, server error,
  cancellation or Close, at any point. `MaxUpdates = 1` bounds the frames the server
  sends unasked, and `MaxMishaps = 1` the two together: either happens at every
  point, not both in one behaviour.
- Two items on a page are what it takes for replies to be out of order, for a detail
  to go to the wrong item, and for one item's surplus message to end the wait for the
  other's. The second page and its item without an id are for the cursor and for
  `SkipItem`.
- `web_flow`: two requests overlap in every pair of routes; a second session id
  is what Rotate needs; a second client is the login that replaces the first.
- `rate_limiter`: the clock runs past two windows, so that stamps expire, are
  pruned and cleaned up while later ones are in force.
- `event_store`: with pages of one event, a run of three events takes three page
  steps between which the timeline may move; three also leave room for an older
  pending, a newer settled and a still newer event. Nothing bounds the number of
  runs, crashes and resets.
- `login`: three sessions are one saved by an older version, one of a first login
  and one of a login after it; two faults let a failure of the keyring coincide
  with one of the file system.

- `export`: `Failing = {1}` lets one file come and go while the other stays; the second
  file is what order, a bad event among good ones and sums need;
  `MCExport` lists the events: every source of a type, every item that is read in more
  than one order, every shape of details, and those that are left out or refused. A
  third file adds permutations of the same rows.
- `patch`: the first event file has one new key at any of the places the structs
  reach, or two keys or kinds in a struct of each Go file and way of decoding; the
  second the latter only. Two files and two kinds are what the first-seen rule needs,
  two keys what a clash of Go names and a second field in one struct need.
  `Rounds = 14` is checked to be deep enough by `AllPlacesFound`.

`CHECK_DEADLOCK FALSE` is set where the system really stops: when all fetches
have ended, when the server is down, when the clock is at its bound.

### What the runs show, beyond the names

- `RepliesConserved` counts the replies on the wire, in the receive loop and in
  the channel: while a sole caller waits on a sound connection, what it has
  counted plus what is under way is what it subscribed.
- `CleanFetchComplete`: a fetch that succeeds has every detail if the server sent
  only what it was asked for; `fetch_lost_detail` checks `EveryDetailFetched`, the same
  without the condition, and shows that it fails with one frame more.
- `NoPanic` holds in `fetch_single`, for one fetch and one failure;
  `fetch_second_stream` shows that it fails for a second fetch on the client.
  `NoPanicUntilFault`, in between, is what the lock over check, dial and start of the
  receive loop is for: without it two callers start two loops.
- `FetchEndsUnlessStalled` and `ExpiredRemovedUnlessStalled` have the excuse that a dial
  or a handshake is never answered. It is needed: TLC refutes `FetchEnds` and
  `ExpiredRemoved`, the same without it (section 6).
- `LosesNoSession` is conditional on no failed keyring read and excuses the runs with
  a reset flag, also `--reset-data`, which by its help should not be one (section 6).
  Without the condition it is false: a transient read error is treated as an absent entry,
  the old legacy file is loaded, and its migration replaces a newer session.
- `ApprovedNotRefused` names the excuses the code has for failing an approved
  login: the deadline, a failure, another completion that won.

- `LostDetailKeepsType`: date, type and value of a row never depend on the details
  once an export succeeds without them. Shares, fees, taxes and ISIN do.
- `BlamesTheRightStruct` compares the two tables: wherever the walk gets it is right.
  It does not get everywhere (section 6): a chat action's payload, a nested action's
  payload, a nested section's data object and the sections of a section action's payload
  have no children in the tree (`nestedActionChildren` is built and thrown away), so
  that keys below them are never reported. The export reads there too, the prefix of an
  item's displayValue, which may itself lie below such a payload.
- `DeclaredIsAssigned` excludes runs that were cut off: one that stops between its two
  passes leaves a field without its assignment, and `hasJSONTag` keeps every later run
  from adding it. `BuildsAfterwards` excludes a binary older than the sources, for
  which `ensureImport` may add an import nothing uses.

## 4. Fairness

- Fetch: weak fairness of every caller's steps and of every receive loop's. They
  are goroutines, which the Go runtime runs when they can; the 30 s timers of
  page and detail waits are among the caller's steps and fire because time
  passes. Nothing is assumed of the server, the network or the user.
  A caller in a dial is not among them until its context ends: the dial may never be
  answered.
- WebFlow: weak fairness of the cleanup ticker, which `StartCleanup` runs until
  Shutdown, and of a removal's next session; strong fairness of the return of
  `Client.Close`, which waits for a mutex other goroutines take again and again: a Go
  mutex hands itself to a waiter that has starved for a millisecond. Nothing is assumed
  of the requests, which may stall for ever, nor of the server. That net/http ends a
  request's context when the browser goes is outside the repository and not assumed.
- Login: weak fairness of each completion (a goroutine with a 2 s poll timer) and
  of `Deadline`, the timeout of its context. Approval is never assumed.

Where a step is continuously enabled, weak fairness suffices. `CanceledLoopEnds`
excuses a full channel, as the send in `receiveLoop` really waits there for ever
when all readers have gone.

## 5. The proofs

TLAPS proves these for all values of the constants, from the named ASSUMEs of the
modules only: bounds are natural numbers, `Pages` is a timeline that does not end
in the middle with an empty page, `Requests` is finite, the tables of `Patch` have
their types, `FloatOf` maps texts to integers, an event has at most one amount, and
its sections and their items are lists. No module declares a RECURSIVE operator.

| module | theorem | property |
|---|---|---|
| `TimelineFetch_proofs` | `TypeCorrect`, `Attribution`, `LeftoversExplained`, `CleanFetchesComplete`, `NoReplyLost` | `TypeOK`, `DetailsAttributed`, `LeftoversAreMissing`, `CleanFetchComplete`, `RepliesConserved` |
| | `SoleCallerNoPanic`, `FaultlessNoPanic`, `ExactReplies` | `NoPanic`; `NoPanicUntilFault`; every reply is the whole answer |
| | `FetchIsPaged` | `ImplementsPagedFetch` (refinement) |
| `WebFlow_proofs` | `FlowTypeCorrect`, `ServedSessionHasClient`, `ResultIsThere` | `TypeOK`, `StageHasClient`, `DoneHasResult` |
| `RateLimiter_proofs` | `LimiterTypeCorrect`, `LimitHolds`, `RefusalsJustified` | `TypeOK`, `NeverOverLimit`, `DeniedOnlyAtLimit` |
| `EventStore_proofs` | `StoreTypeCorrect`, `MetadataComesLast`, `ResumptionIsNil` | `TypeOK`, `MetadataIsLast`; no cursor but nil is saved (`NoCursorSaved`, which only the proof states) |
| | `FullRunsRepair`, `PendingStaysListed`, `ExportsAreComplete` | `FullRunRepairs`, `PendingListed`, `ExportIsComplete` |
| `Login_proofs` | `LoginTypeCorrect`, `OnlyApprovedLogins`, `ApprovedAreLetIn`, `NothingSavedUnasked`, `MigrationIsSafe` | `TypeOK`, `OkMeansApproved`, `ApprovedNotRefused`, `UnsavedByDefault`, `LosesNoSession` |
| `Patch_proofs` | `PatchTypeOK`, `PatchDeclaresOnce`, `PatchKeepsReadable`, `PatchSettles` | `TypeOK`, `DeclaredOnce`, `StaysReadable`, `Settled` |
| | `PatchAssigns`, `PatchBuilds` | `DeclaredIsAssigned`, `BuildsAfterwards` |
| `Export_proofs` | `ExportTypeCorrect`, `ExportIsOldOrExact`, `ExportBalances`, `LostDetailIsHarmless` | `TypeOK`, `CsvIsOldOrExact`, `CashBalances`, `LostDetailKeepsType` |
| | `RefusedExportKeepsCsv`, `SavebackCancels` | the first part of `CsvIsOldOrExact`; about `EventToRows` |

Some have a hypothesis about the constants, because the property is false without it:

- `SoleCallerNoPanic`: one caller, who does not call Close (`SoleCaller`). A second
  caller dials again when the first is canceled, and then two receive loops share
  `recvChan`: `fetch_second_stream` is the counterexample.
- `FetchIsPaged`: a sole caller, or no fault, or no update. With two callers, a fault and
  an update a second receive loop may end a subscription while the first still parses
  its delta; the delta has lost its base, the page comes out nil, and the fetch ends
  early with success. TLC finds that for two callers, one fault and one update.
- `LeftoversExplained`: a sole caller, and no item twice on a page (`DistinctItems`). An
  item that was asked for twice and answered once has its detail and leaves a
  subscription behind.
- `CleanFetchesComplete`, `NoReplyLost`, `ExactReplies` and `FaultlessNoPanic` have none:
  what they need (no update, no fault, a sole caller) is part of the property.
- `PatchKeepsReadable`: `WalksRight`; `PatchAssigns`: `OwnReceivers`; `PatchBuilds`: that
  and `StraysUseJSON`. `MCPatch` has TLC evaluate the last two on the repository's tables
  (`SourcesAssumption`). What the first says of the walk over the tree is
  `BlamesTheRightStruct`, which the run `patch` checks state by state on those tables,
  with a new key at every place.

The arguments:

- *Attribution.* That a detail lands under its item depends on every id, wherever
  it is, having been given out once for the request its body answers. The
  invariant states this along the whole path: the server's table, each frame on
  the wire, each frame or message in a receive loop, each message in the channel,
  the caller's tables (`SrvLabels`, `WireLabels`, `LoopLabels`, `ChanLabels`,
  `CallerLabels`). Ids only grow (`Growth`), so labels given once stay true
  whatever the other callers do. Even the type invariant needs it: a page reply is
  a page only because of its label.
- *SoleCallerNoPanic, FaultlessNoPanic.* `OneConnection`: there was no fault, or the
  caller is the only one. While that is so the client dials once (`ConnStates`), has
  one receive loop, which alone closes `recvChan` (`LoopStates`), and no caller past
  `connectWS` is without a connection (`CallerStates`).
- *FetchIsPaged.* A page step of the fetch is a page step of `PagedFetch` because the
  caller is at the page its count says and holds it till it is reported (`Progress`), and
  because a page reply has a body (`PagesComeWhole`). That in turn has two reasons: on
  one connection no delta loses its base before the unsubscription of the page it is
  about (`ClosingLast` and the invariant built on it); from a server that sends nothing
  unasked there are no deltas (`Exact`). The concatenation of pages to the events
  delivered is proved as a function, index by index.
- *LeftoversExplained.* `Leftovers` says of every registered subscription that its item
  was reported without a detail, or is on this page, asked for and missing;
  `Requested`, that the subscriptions of this page are one per item.
- *CleanFetchesComplete, NoReplyLost.* On an untroubled connection (`Untroubled`: no fault
  and no update) a reply is at one place at most, the server, the wire, the receive loop
  or the channel, and only while its subscription is registered (`OnePlace`); no place
  has it twice (`WireOnce`, `ChanOnce`); nothing says there is an error (`Healthy`). A step
  of the server or of the loop moves a reply on and leaves what is pending as it was. The
  callers' part is `Tally`: what a caller has counted is the number of its
  subscriptions that are no longer registered, each of those has its detail, and every
  item so far has a subscription. `Owned` keeps the callers of one client apart, so
  completeness holds for any number of them. With `Underway`, what is registered is
  pending, the count and the replies at their four places add up.
- *ServedSessionHasClient, ResultIsThere.* `StageHasClient` is not inductive: a
  handler between two unlocked writes may hold a session that was removed, or
  rotated away. `Knows` states what a request at each program point still knows of
  the session it holds as long as that is stored; `Keeps` is the lemma that no step
  of another request takes that knowledge away. The ownership clauses of `StoreOK` give
  that the client of a session, and the one a removal is closing, is nobody else's.
- *LimitHolds.* `Remembers`: the entries hold allowed requests only, and all of
  those still in the window. Then pruning, refusing and cleaning up forget
  nothing that counts, a grant at the limit is impossible, and windows that end
  earlier or later are subsets of one that was counted.
- *MetadataComesLast.* `SavedAsRead`: while a run saves, each event it read is
  intact on disk as read, or still to be saved. *ResumptionIsNil* is inductive
  with the types: a nil start stamps nil cursors, which make the next start nil.
- *FullRunsRepair, PendingStaysListed, ExportsAreComplete.* `Known`: what a full run has
  not read yet lies before the oldest event it has read, wherever new events have come
  on top meanwhile, and what it has read is as recent as when it began. Pages are
  intervals of the timeline, so the lemmas about the newest and the oldest event of a
  set (`IntervalFacts`) give that the next page continues where the last one ended.
- *OnlyApprovedLogins, MigrationIsSafe.* `IdleBefore`: no completion runs before a
  login began. `Migrating` says how jar, keyring and legacy file are related at
  each step of the migration if no keyring read failed: the file is removed only
  when the keyring has what it held.
- *ApprovedAreLetIn.* `Refusals`: a completion of an approved login that is about to
  fail, or has failed, has one of the causes the property names, and causes stay.
- *PatchKeepsReadable.* `AllAsked`: every type in the sources, in the
  binary and in what a scan found was asked for by an event file that has such a value
  at such a struct.
- *PatchSettles.* `ScanKnows` and `DoneFiles`: after its scan a run knows of every
  unknown field, and a Go file that is not to come any more has those the tree wants in
  it; `SourcesGrow`: no step takes a field away, so the next binary has them.
- *PatchAssigns, PatchBuilds.* `Lines`: a field has its assignment unless its Go file is
  the one in hand or torn, or a run was cut off there. `Imports`: what the sources use of
  `encoding/json` is imported, by the run that knows them.
- *ExportTypeCorrect, ExportIsOldOrExact, ExportBalances.* `Going`: a run under way is
  `k` events into an order of the listed files; what it has written are the rows
  `Wanted` says of the first `k`, and their cash is what these `k` events come to
  (`Written`). That the parser, which folds over items and events, yields what `Wanted`
  says without folds is one lemma per fold (`TradeParsed`, `TaxParsed`,
  `TransferParsed`), joined in `EventParsed` and `RowsAreWanted`. Each names the value
  after every step of its walk and shows that the next step leads from one to the
  next; that `FoldLeft`, `FlattenSeq` and `MapThenSumSet`, which the community modules
  define by a CHOOSE over functions on index sets, end where such a walk does is proved
  in `IntervalFacts` (`Climb`, `FoldEnds`, `FlattenJoins`, `SumsAreOne`), from a set of
  indices having a least member. `OrdersAreLines`: an order has each listed file once,
  so the sum over the order is the sum over the set.
- *LostDetailIsHarmless.* `AllParsed`: from `Load` to the end of a run that succeeded, no
  file fails to parse. A type inferred without sections comes from the timeline
  event, which is asked before any details. *RefusedExportKeepsCsv*: `Underway`.
- *SavebackCancels* is about every amount and every choice of rounded ties.

Model-checked only:

- `FetchEndsUnlessStalled`, `CanceledLoopEnds`, `ExpiredRemovedUnlessStalled`,
  `CompletionEnds`: liveness under fairness is beyond the prover.
- `BlamesTheRightStruct`, and that the repository's tables meet the hypotheses of the `Patch` theorems; `TypeTree`
  is a recursive walk over concrete tables, which TLC evaluates.

## 6. Divergences between the code and its documentation

Each is a run with the one property that fails.

1. `fetch_second_stream`: `receiveLoop` closes the client's only `recvChan`, and a
   later dial starts another loop on the same channel; the process panics on a send
   or a second close. The web page asks the user for just this second fetch:
   "Please try again."
2. `fetch_lost_detail`: a surplus message of one item counts as the detail of
   another, or a late delta overwrites a detail with nil; the fetch succeeds
   without it. "fetches detail information for each timeline item" is not so.
3. `store_incremental`: all saved cursors are nil (proved: `ResumptionIsNil`), so an
   incremental run asks for the newest page and walks towards newer ones; older
   pending events are not updated, contrary to the flag's help.
4. `patch_applied`: the type tree names `raw.go` for structs that are declared in
   `raw_detail.go` and `raw_nested.go`; their fields are reported, nothing is
   declared, and the run says "Patches applied successfully."

These have no run of their own. The models have the code's behaviour, and where a
property is near, it is stated so that it asks for neither side:

- Dial and handshake of a connection have no timeout and hold the client's lock, for
  which `Cleanup` waits with the store's (`session.go:177`, `client_ws.go:24, 39, 50, 133`).
  While the server accepts a connection and does not answer, no expired session is
  removed ("Cleanup removes all expired sessions", `session.go:167`), no request gets its
  session, and the fetch does not end. `server.go:20` speaks of "per-handler ctx timeouts";
  the handler of the stream sets none.
- `--reset-data`, "Delete transaction data from disk" (`fetch.go:69`), removes the whole
  data directory before the client is made that would migrate the cookie file of an
  older version, and the last stored session with it (`Login.Wipe`).
- A key below an object the tree gives no children, such as the payload of a nested
  action, is not reported, and the run says "No unknown fields detected. All JSON files
  match current struct definitions." (`patch.go:53`).
- "Fees and taxes are shown as positive values", says the README (line 204); the code
  negates them (`csv.go:99`), and a fee of one euro is printed as `-1.00`.
  `CsvIsOldOrExact` compares them by size.
- `isCardVerification` compares the event's own title and subtitle without
  lower-casing (`event_infer.go:11`). An event titled "Card verification" is therefore
  exported, with a type the README does not list, where it would be left out if a section
  had that title. `CsvIsOldOrExact` says nothing of an export with such an event.
- One event that does not parse fails the export (`parse.go:21`); the comment above it
  says that such events are skipped. `CsvIsOldOrExact` is content with either.
- "# Fetch state and cursors", says the README of `metadata.json` (line 232); no cursor
  but nil is ever in it.
- Shutdown's last Cleanup (`server.go:146`) removes expired sessions only; the comment
  before it says "Clean up all remaining sessions".
- "free" is compared without lower-casing, so a fee given as "Free" is no fee.
- `--reset-credentials` without `--phone` deletes the entry of the empty phone number.
- A client that a second login replaces in its session is never closed.

## 7. What is not modelled

- The text of frames, deltas, JSON and cookies; HTTP headers; device information;
  templates, security headers, request logging and the body limit. None holds
  state or decides a step.
- `ChangeCursor` and `FormatCursorForDirection`, which only tests call; the 290 s
  refresh of a session, which has no caller after resumption.
- That `completeWebSocketHandshake` puts the new connection into `c.ws` before it is
  answered: an unlocked reader of another goroutine sees the old one until then.
- An error of the CSV file's Close, which is logged only (`export.go:113`): `Finish`
  leaves a whole file.
- Path, domain and expiry of cookies, which saving them drops.
- In `WebFlow`, whether the client of a session is the one that was approved; the
  composition with `Login` is planned.
- `ClientIP`: an address is a model value.
- The WAF token: drives a headless browser and nothing calls it. The command line:
  declares flags and wires commands; its inputs are those of `Login`, `EventStore`,
  `Export` and `Patch`. Logging, paths, JSON: no state.
- Of the event structs, the scalar fields that no row shows, and `MarshalJSON`, which
  writes what `UnmarshalJSON` read. Of a patch, how a key becomes a Go name (only which
  names clash), gofmt and where in a file a line goes.
- Details of events in `EventStore`: there a file holds what the timeline said. That a
  later fetch may overwrite a file with one that lost its detail is in `Export`.

## 8. The plan

The order was: fetch and client first (the core of both programs, and where the
concurrency is), then web sessions, login, event store, limiter; then export and
patch. The safety properties of all passing runs are proved but
`BlamesTheRightStruct`. What is left composes the parts further:

1. `WebLogin`: `WebFlow` with the completion steps of `Login`, for a session whose
   client was replaced while a completion was under way.
2. The page steps of `EventStore` as steps of `PagedFetch`, so that what is proved of
   a fetch is used by name where its pages are taken as one step each.
