------------------------- MODULE RateLimiter_proofs -------------------------
(***************************************************************************)
(* Proofs about RateLimiter: for every limit, window, set of addresses and *)
(* bound, no window holds more than Limit allowed requests of an address,  *)
(* and nobody is refused sooner.                                           *)
(***************************************************************************)
EXTENDS RateLimiter, FiniteSetTheorems, TLAPS

\* What Allow and Cleanup may forget of the past: entries holds allowed
\* requests only, and all of those that are still in the window.
Remembers ==
    \A ip \in IPs :
        /\ entries[ip] \subseteq granted[ip]
        /\ \A stamp \in granted[ip] : stamp[2] > now - Window => stamp \in entries[ip]

IInv == TypeOK /\ Remembers /\ NeverOverLimit

LEMMA WindowFinite ==
  ASSUME TypeOK, NEW ip \in IPs
  PROVE  IsFiniteSet(granted[ip])
<1>1. grants \in Nat /\ now \in Nat
  BY LimiterAssumption DEF TypeOK, Times
<1>2. IsFiniteSet((1 .. grants) \X (0 .. now))
  <2>1. IsFiniteSet(1 .. grants) /\ IsFiniteSet(0 .. now)
    BY <1>1, FS_Interval
  <2>2. QED
    BY <2>1, FS_Product
<1>3. granted[ip] \subseteq (1 .. grants) \X (0 .. now)
  BY DEF TypeOK
<1>4. QED
  BY <1>2, <1>3, FS_Subset

\* What Allow counts is what was allowed in the window that ends now.
LEMMA PrunedIsWindow ==
  ASSUME TypeOK, Remembers, NEW ip \in IPs
  PROVE  Pruned(ip) = InWindow(ip, now)
<1>1. \A stamp \in granted[ip] : stamp[2] \in 0 .. now
  BY DEF TypeOK
<1>2. now \in Nat
  BY LimiterAssumption DEF TypeOK, Times
<1>3. \A stamp \in granted[ip] : stamp[2] <= now
  BY <1>1, <1>2
<1>4. \A stamp \in Pruned(ip) : stamp \in InWindow(ip, now)
  BY <1>3 DEF Remembers, Pruned, InWindow, After
<1>5. \A stamp \in InWindow(ip, now) : stamp \in Pruned(ip)
  BY <1>1, <1>2, LimiterAssumption DEF Remembers, Pruned, InWindow, After
<1>6. QED
  BY <1>4, <1>5

LEMMA AllowInv ==
  ASSUME IInv, NEW ip \in IPs, Allow(ip)
  PROVE  IInv'
<1> USE DEF Allow, IInv
<1> DEFINE new == <<grants + 1, now>>
<1>1. grants \in Nat /\ now \in Nat /\ now <= MaxTime /\ grants + 1 <= MaxGrants
  BY LimiterAssumption DEF TypeOK, Times
<1>2. /\ granted' = [granted EXCEPT ![ip] = @ \cup {new}]
      /\ entries' = [entries EXCEPT ![ip] = Pruned(ip) \cup {new}]
      /\ grants' = grants + 1 /\ now' = now
  BY DEF NewStamp
<1>3. new \in (1 .. grants') \X (0 .. now') /\ new \in Stamps
  BY <1>1, <1>2 DEF Stamps, Times
<1>4. (1 .. grants) \X (0 .. now) \subseteq (1 .. grants') \X (0 .. now')
  BY <1>1, <1>2
<1> HIDE DEF new
<1>5. TypeOK'
  <2>1. now' \in Times /\ grants' \in 0 .. MaxGrants
    BY <1>1, <1>2, LimiterAssumption DEF Times
  <2>2. Pruned(ip) \subseteq Stamps
    BY DEF TypeOK, Pruned
  <2>3. entries' \in [IPs -> SUBSET Stamps]
    BY <1>2, <1>3, <2>2 DEF TypeOK
  <2>4. granted' \in [IPs -> SUBSET ((1 .. grants') \X (0 .. now'))]
    BY <1>2, <1>3, <1>4 DEF TypeOK
  <2>5. QED
    BY <2>1, <2>3, <2>4 DEF TypeOK
<1>6. Remembers'
  <2> SUFFICES ASSUME NEW a \in IPs
               PROVE  /\ entries'[a] \subseteq granted'[a]
                      /\ \A stamp \in granted'[a] :
                            stamp[2] > now' - Window => stamp \in entries'[a]
    BY DEF Remembers
  <2>1. CASE a = ip
    BY <1>2, <2>1 DEF Remembers, TypeOK, Pruned, After
  <2>2. CASE a # ip
    BY <1>2, <2>2 DEF Remembers, TypeOK
  <2>3. QED
    BY <2>1, <2>2
<1>7. NeverOverLimit'
  <2> SUFFICES ASSUME NEW a \in IPs, NEW t \in Times
               PROVE  Cardinality(InWindow(a, t)') <= Limit
    BY DEF NeverOverLimit, Times
  <2> DEFINE Old == InWindow(a, t)
             New == InWindow(a, t)'
  <2>1. CASE a # ip \/ ~(t - Window < now /\ now <= t)
    <3>1. New = Old
      BY <1>2, <2>1 DEF InWindow, TypeOK, new
    <3>2. QED
      BY <3>1 DEF NeverOverLimit
  <2>2. CASE a = ip /\ t - Window < now /\ now <= t
    <3>1. New \subseteq Pruned(ip) \cup {new}
      <4> SUFFICES ASSUME NEW stamp \in granted[ip], t - Window < stamp[2]
                   PROVE  stamp \in Pruned(ip)
        BY <1>2, <2>2 DEF InWindow, TypeOK
      <4>1. stamp[2] \in Int /\ t \in Int /\ Window \in Int
        BY LimiterAssumption DEF TypeOK, Times
      <4>2. stamp[2] > now - Window
        BY <4>1, <1>1, <2>2
      <4>3. QED
        BY <4>2 DEF Remembers, Pruned, After
    <3>2. IsFiniteSet(Pruned(ip))
      BY WindowFinite, FS_Subset DEF Pruned, Remembers
    <3>3. /\ IsFiniteSet(Pruned(ip) \cup {new})
          /\ Cardinality(Pruned(ip) \cup {new}) <= Cardinality(Pruned(ip)) + 1
      <4> DEFINE P == Pruned(ip)
      <4> HIDE DEF P
      <4>1. IsFiniteSet(P) /\ Cardinality(P) \in Nat
        BY <3>2, FS_CardinalityType DEF P
      <4>2. /\ IsFiniteSet(P \cup {new})
            /\ \/ Cardinality(P \cup {new}) = Cardinality(P)
               \/ Cardinality(P \cup {new}) = Cardinality(P) + 1
        BY <4>1, FS_AddElement
      <4>3. QED
        BY <4>1, <4>2 DEF P
    <3>4. /\ Cardinality(New) <= Cardinality(Pruned(ip) \cup {new})
          /\ IsFiniteSet(New)
      BY <3>1, <3>3, FS_Subset
    <3>5. /\ Cardinality(Pruned(ip)) \in Nat /\ Cardinality(New) \in Nat
          /\ Cardinality(Pruned(ip) \cup {new}) \in Nat
      BY <3>2, <3>3, <3>4, FS_CardinalityType
    <3>6. QED
      BY <3>3, <3>4, <3>5, LimiterAssumption
  <2>3. QED
    BY <2>1, <2>2
<1>8. QED
  BY <1>5, <1>6, <1>7

\* Deny and Cleanup only drop stamps that have left the window.
LEMMA PruneInv ==
  ASSUME IInv, UNCHANGED <<now, grants, granted>>,
         entries' \in [IPs -> SUBSET Stamps],
         \A ip \in IPs : Pruned(ip) \subseteq entries'[ip] /\ entries'[ip] \subseteq entries[ip]
  PROVE  IInv'
<1> USE DEF IInv
<1>1. TypeOK'
  BY DEF TypeOK
<1>2. Remembers'
  BY DEF Remembers, Pruned, After
<1>3. NeverOverLimit'
  BY DEF NeverOverLimit, InWindow
<1>4. QED
  BY <1>1, <1>2, <1>3

LEMMA TickInv ==
  ASSUME IInv, Tick
  PROVE  IInv'
<1> USE DEF IInv, Tick
<1>1. now \in Nat /\ grants \in Nat /\ now' = now + 1 /\ now' \in Times
  BY LimiterAssumption DEF TypeOK, Times
<1>2. TypeOK'
  <2>1. (1 .. grants) \X (0 .. now) \subseteq (1 .. grants) \X (0 .. now')
    BY <1>1
  <2>2. granted' \in [IPs -> SUBSET ((1 .. grants') \X (0 .. now'))]
    BY <2>1 DEF TypeOK
  <2>3. QED
    BY <1>1, <2>2 DEF TypeOK
<1>3. Remembers'
  <2> SUFFICES ASSUME NEW ip \in IPs, NEW stamp \in granted[ip], stamp[2] > now' - Window
               PROVE  stamp \in entries[ip]
    BY DEF Remembers
  <2>1. stamp[2] \in Int /\ Window \in Int
    BY LimiterAssumption DEF TypeOK
  <2>2. stamp[2] > now - Window
    BY <1>1, <2>1
  <2>3. QED
    BY <2>2 DEF Remembers
<1>4. NeverOverLimit'
  BY DEF NeverOverLimit, InWindow
<1>5. QED
  BY <1>2, <1>3, <1>4

\* The invariant of every reachable state.
THEOREM Inductive == Spec => []IInv
<1>1. Init => IInv
  <2> SUFFICES ASSUME Init PROVE IInv
    OBVIOUS
  <2>1. TypeOK
    BY LimiterAssumption DEF Init, TypeOK, Times
  <2>2. Remembers
    BY DEF Init, Remembers
  <2>3. NeverOverLimit
    <3> SUFFICES ASSUME NEW ip \in IPs, NEW t \in Times
                 PROVE  Cardinality(InWindow(ip, t)) <= Limit
      BY DEF NeverOverLimit
    <3>1. InWindow(ip, t) = {}
      BY DEF Init, InWindow
    <3>2. QED
      BY <3>1, FS_EmptySet, LimiterAssumption
  <2>4. QED
    BY <2>1, <2>2, <2>3 DEF IInv
<1>2. IInv /\ [Next]_vars => IInv'
  <2> SUFFICES ASSUME IInv, [Next]_vars PROVE IInv'
    OBVIOUS
  <2>1. CASE Tick
    BY <2>1, TickInv
  <2>2. CASE Cleanup
    <3>1. /\ UNCHANGED <<now, grants, granted>>
          /\ entries' \in [IPs -> SUBSET Stamps]
          /\ \A ip \in IPs : Pruned(ip) \subseteq entries'[ip] /\ entries'[ip] \subseteq entries[ip]
      BY <2>2 DEF Cleanup, IInv, TypeOK, Pruned
    <3>2. QED
      BY <3>1, PruneInv
  <2>3. CASE \E ip \in IPs : Allow(ip)
    BY <2>3, AllowInv
  <2>4. ASSUME NEW a \in IPs, Deny(a) PROVE IInv'
    <3>1. /\ UNCHANGED <<now, grants, granted>>
          /\ entries' \in [IPs -> SUBSET Stamps]
          /\ \A ip \in IPs : Pruned(ip) \subseteq entries'[ip] /\ entries'[ip] \subseteq entries[ip]
      BY <2>4 DEF Deny, IInv, TypeOK, Pruned
    <3>2. QED
      BY <3>1, PruneInv
  <2>5. CASE UNCHANGED vars
    BY <2>5 DEF vars, IInv, TypeOK, Remembers, NeverOverLimit, InWindow
  <2>6. QED
    BY <2>1, <2>2, <2>3, <2>4, <2>5 DEF Next
<1>3. QED
  BY <1>1, <1>2, PTL DEF Spec

\* Every stamp the limiter keeps, and every request it allowed, has a number that
\* was given out and a time that has come.
THEOREM LimiterTypeCorrect == Spec => []TypeOK
<1>1. IInv => TypeOK
  BY DEF IInv
<1>2. QED
  BY <1>1, Inductive, PTL

\* The limit holds of every window, for every limit, window and set of
\* addresses (Allow, ratelimit.go:34-57, with Cleanup interleaved at will).
THEOREM LimitHolds == Spec => []NeverOverLimit
<1>1. IInv => NeverOverLimit
  BY DEF IInv
<1>2. QED
  BY <1>1, Inductive, PTL

\* A request is refused only when the window that ends now is full.
THEOREM RefusalsJustified == Spec => []DeniedOnlyAtLimit
<1>1. IInv => DeniedOnlyAtLimit
  <2> SUFFICES ASSUME IInv, NEW ip \in IPs, Cardinality(Pruned(ip)) >= Limit
               PROVE  Cardinality(InWindow(ip, now)) = Limit
    BY DEF DeniedOnlyAtLimit
  <2>1. Cardinality(InWindow(ip, now)) >= Limit
    BY PrunedIsWindow DEF IInv
  <2>2. Cardinality(InWindow(ip, now)) <= Limit
    BY DEF IInv, NeverOverLimit, TypeOK
  <2>3. IsFiniteSet(InWindow(ip, now))
    BY WindowFinite, FS_Subset DEF IInv, InWindow
  <2>4. Cardinality(InWindow(ip, now)) \in Nat
    BY <2>3, FS_CardinalityType
  <2>5. QED
    BY <2>1, <2>2, <2>4, LimiterAssumption
<1>2. QED
  BY <1>1, Inductive, PTL

=============================================================================
