---------------------------- MODULE RateLimiter ----------------------------
(***************************************************************************)
(* internal/web/ratelimit.go: the sliding-window limiter of POST requests. *)
(* Allow and Cleanup run under rl.mu, so each is one step.  entries[ip] is *)
(* the slice of the code as a set of stamps <<grant number, time>>: two    *)
(* requests of one instant count twice.  granted remembers, for the        *)
(* properties only, every request that was ever allowed.                   *)
(***************************************************************************)
EXTENDS Integers, FiniteSets

CONSTANTS
    IPs,         \* client addresses
    Limit,       \* rl.limit (5 in the server)
    Window,      \* rl.window (a minute)
    MaxTime,     \* bound: the clock
    MaxGrants    \* bound: requests allowed in all

ASSUME LimiterAssumption ==
    /\ Limit \in Nat \ {0} /\ Window \in Nat \ {0}
    /\ MaxTime \in Nat /\ MaxGrants \in Nat

Times  == 0 .. MaxTime
Stamps == (1 .. MaxGrants) \X Times

VARIABLES
    now,       \* time.Now()
    entries,   \* rl.entries; an absent key is the empty set
    grants,    \* number of requests allowed so far
    granted    \* every allowed request of each address

vars == <<now, entries, grants, granted>>

TypeOK ==
    /\ now \in Times
    /\ entries \in [IPs -> SUBSET Stamps]
    /\ grants \in 0 .. MaxGrants
    /\ granted \in [IPs -> SUBSET ((1 .. grants) \X (0 .. now))]

Init ==
    /\ now = 0
    /\ entries = [ip \in IPs |-> {}]
    /\ grants = 0
    /\ granted = [ip \in IPs |-> {}]

\* Time passes.
Tick == now < MaxTime /\ now' = now + 1 /\ UNCHANGED <<entries, grants, granted>>

\* Mutant: a stamp lives half a window.
AfterHalf(stamp, cutoff) == 2 * stamp[2] > 2 * cutoff + Window

\* ts.After(cutoff)
After(stamp, cutoff) == stamp[2] > cutoff

Pruned(ip) == {stamp \in entries[ip] : After(stamp, now - Window)}

\* Mutant: the stamp is when the request leaves the window.
StampOfExpiry == <<grants + 1, now + Window>>

NewStamp == <<grants + 1, now>>

\* Allow returns true: the request is within the limit and is recorded.
Allow(ip) ==
    /\ grants < MaxGrants
    /\ Cardinality(Pruned(ip)) < Limit
    /\ grants' = grants + 1
    /\ entries' = [entries EXCEPT ![ip] = Pruned(ip) \cup {NewStamp}]
    /\ granted' = [granted EXCEPT ![ip] = @ \cup {NewStamp}]
    /\ UNCHANGED now

\* Mutant: a refused request is recorded too, with the number of no grant.
DenyRecords(ip) ==
    /\ Cardinality(Pruned(ip)) >= Limit
    /\ entries' = [entries EXCEPT ![ip] = Pruned(ip) \cup {<<grants, now>>}]
    /\ UNCHANGED <<now, grants, granted>>

\* Allow returns false: 429, and the pruned slice is kept.
Deny(ip) ==
    /\ Cardinality(Pruned(ip)) >= Limit
    /\ entries' = [entries EXCEPT ![ip] = Pruned(ip)]
    /\ UNCHANGED <<now, grants, granted>>

\* Cleanup drops the addresses none of whose stamps is in the window.
Cleanup ==
    /\ entries' = [ip \in IPs |-> IF Pruned(ip) = {} THEN {} ELSE entries[ip]]
    /\ UNCHANGED <<now, grants, granted>>

Next == Tick \/ Cleanup \/ \E ip \in IPs : Allow(ip) \/ Deny(ip)

Spec == Init /\ [][Next]_vars

---------------------------------------------------------------------------
(* Properties                                                              *)

\* The requests of ip that were allowed in the window ending at t.
InWindow(ip, t) == {stamp \in granted[ip] : t - Window < stamp[2] /\ stamp[2] <= t}

\* "Each IP address is allowed a maximum number of requests within a time
\* window": whatever is pruned, refused or cleaned up, no window of that length,
\* wherever it lies, holds more than Limit allowed requests of an address.
NeverOverLimit ==
    \A ip \in IPs : \A t \in Times : Cardinality(InWindow(ip, t)) <= Limit

\* Nobody is refused for longer than the window demands: a request that would
\* be refused now comes after exactly Limit allowed ones in the last window, so
\* refused requests and stale stamps do not count.
DeniedOnlyAtLimit ==
    \A ip \in IPs :
        Cardinality(Pruned(ip)) >= Limit => Cardinality(InWindow(ip, now)) = Limit

=============================================================================
