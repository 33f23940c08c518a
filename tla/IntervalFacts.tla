----------------------------- MODULE IntervalFacts -----------------------------
(***************************************************************************)
(* What the proofs need of the numbers up to a bound: that a set of them   *)
(* has a least and a greatest member ("the first", "newest", "oldest"),    *)
(* and what one gets to by going from one to the next: what FoldLeft and   *)
(* FlattenSeq make of a sequence, and sums over a set.                     *)
(***************************************************************************)
EXTENDS Integers, FiniteSets, Sequences, SequencesExt, FiniteSetTheorems, TLAPS

\* Among the sets of members less than a given one, the least by inclusion is that
\* of the least member.
LEMMA LeastExists ==
    ASSUME NEW n \in Nat, NEW S \in SUBSET (1 .. n), S # {}
    PROVE  \E x \in S : \A y \in S : x <= y
  <1> DEFINE less(x) == {y \in S : y < x}
             T == {less(x) : x \in S}
             R == StrictSubsetOrdering(1 .. n)
  <1>1. IsFiniteSet(1 .. n)
    BY FS_Interval
  <1>2. IsWellFoundedOn(R, SUBSET (1 .. n))
    BY <1>1, FS_FiniteSubsetsOfFinite, FS_StrictSubsetOrderingWellFounded
  <1>3. T \subseteq SUBSET (1 .. n) /\ T # {}
    OBVIOUS
  <1>4. PICK m \in T : \A t \in T : <<t, m>> \notin R
    <2> HIDE DEF T, R
    <2> QED BY <1>2, <1>3, WFMin
  <1>5. PICK x \in S : m = less(x)
    BY <1>4
  <1>6. ASSUME NEW y \in S, y < x PROVE FALSE
    <2>1. y \in less(x) /\ y \notin less(y)
      BY <1>6
    <2>2. \A z \in less(y) : z \in less(x)
      BY <1>6
    <2>3. <<less(y), less(x)>> \in R
      <3> HIDE DEF less
      <3>1. less(y) \in SUBSET (1 .. n) /\ less(x) \in SUBSET (1 .. n)
        BY DEF less
      <3>2. less(y) # less(x) /\ less(y) \subseteq less(x)
        BY <2>1, <2>2
      <3> QED BY <3>1, <3>2 DEF StrictSubsetOrdering
    <2> QED BY <1>4, <1>5, <2>3
  <1> QED BY <1>6

\* The greatest member is the least one seen from the bound.
LEMMA GreatestExists ==
    ASSUME NEW n \in Nat, NEW S \in SUBSET (1 .. n), S # {}
    PROVE  \E x \in S : \A y \in S : y <= x
  <1> DEFINE M == {n + 1 - x : x \in S}
  <1>1. M \in SUBSET (1 .. n) /\ M # {}
    <2>1. \A x \in S : n + 1 - x \in 1 .. n
      OBVIOUS
    <2> QED BY <2>1
  <1>2. PICK m \in M : \A k \in M : m <= k
    <2> HIDE DEF M
    <2> QED BY <1>1, LeastExists
  <1>3. PICK x \in S : m = n + 1 - x
    OBVIOUS
  <1>4. ASSUME NEW y \in S PROVE y <= x
    <2>1. n + 1 - x <= n + 1 - y
      BY <1>2, <1>3
    <2> QED BY <2>1
  <1> QED BY <1>4

---------------------------------------------------------------------------
(* Step by step                                                            *)

\* What holds at 0 and goes on to hold, holds up to the bound.
LEMMA Climb ==
    ASSUME NEW n \in Nat, NEW S, 0 \in S, \A k \in 1 .. n : k - 1 \in S => k \in S
    PROVE  \A k \in 0 .. n : k \in S
  <1> DEFINE Bad == {k \in 1 .. n : k \notin S}
  <1>1. ASSUME Bad # {} PROVE FALSE
    <2>1. PICK x \in Bad : \A y \in Bad : x <= y
      BY <1>1, LeastExists
    <2>2. x - 1 \in 0 .. n /\ x \in 1 .. n /\ ~(x <= x - 1)
      BY <2>1
    <2>3. x - 1 \in S
      BY <2>1, <2>2
    <2> QED BY <2>1, <2>2, <2>3
  <1> QED BY <1>1

\* Steps that start at base and do not leave A.
Walk(n, A, base, step) == base \in A /\ step \in [(1 .. n) \X A -> A]

\* The values one gets to from base by n steps.
Steps(p, n, A, base, step) ==
    /\ p \in [0 .. n -> A]
    /\ p[0] = base /\ \A k \in 1 .. n : p[k] = step[<<k, p[k - 1]>>]

LEMMA PathExists ==
    ASSUME NEW n \in Nat, NEW A, NEW base, NEW step, Walk(n, A, base, step)
    PROVE  \E p : Steps(p, n, A, base, step)
  <1> USE DEF Walk, Steps
  <1> DEFINE Goes(p, m) == Steps(p, m, A, base, step)
             S == {m \in 0 .. n : \E p : Goes(p, m)}
  <1>1. 0 \in S
    <2> DEFINE q == [i \in 0 .. 0 |-> base]
    <2>1. 0 \in 0 .. n /\ 0 \in 0 .. 0 /\ \A k \in 1 .. 0 : FALSE
      OBVIOUS
    <2>2. q \in [0 .. 0 -> A] /\ q[0] = base
      BY <2>1
    <2> HIDE DEF q
    <2>3. Goes(q, 0)
      BY <2>1, <2>2
    <2> QED BY <2>1, <2>3
  <1>2. ASSUME NEW m \in 1 .. n, m - 1 \in S PROVE m \in S
    <2>1. PICK p : Goes(p, m - 1)
      BY <1>2
    <2> DEFINE q == [i \in 0 .. m |-> IF i = m THEN step[<<m, p[m - 1]>>] ELSE p[i]]
    <2>2. p[m - 1] \in A
      BY <2>1
    <2>3. q \in [0 .. m -> A]
      <3>1. step[<<m, p[m - 1]>>] \in A
        BY <2>2
      <3>2. \A i \in 0 .. m : i # m => p[i] \in A
        BY <2>1
      <3> QED BY <3>1, <3>2
    <2>4. q[0] = base
      BY <2>1
    <2>5. \A k \in 1 .. m : q[k] = step[<<k, q[k - 1]>>]
      <3> SUFFICES ASSUME NEW k \in 1 .. m PROVE q[k] = step[<<k, q[k - 1]>>]
        OBVIOUS
      <3>1. q[k - 1] = p[k - 1]
        OBVIOUS
      <3>2. CASE k = m
        <4>1. q[m] = step[<<m, p[m - 1]>>]
          OBVIOUS
        <4> HIDE DEF q
        <4> QED BY <3>1, <3>2, <4>1
      <3>3. CASE k # m
        <4>1. k \in 1 .. m - 1
          BY <3>3
        <4>2. q[k] = p[k]
          BY <3>3
        <4> QED BY <2>1, <3>1, <4>1, <4>2
      <3> QED BY <3>2, <3>3
    <2> HIDE DEF q
    <2>6. Goes(q, m)
      BY <2>3, <2>4, <2>5
    <2> QED BY <2>6
  <1>3. n \in S
    <2> HIDE DEF S
    <2> QED BY <1>1, <1>2, Climb
  <1> QED BY <1>3

Folds(g, n, A, base, step) ==
    /\ g \in [SUBSET (1 .. n) -> A]
    /\ \A U \in SUBSET (1 .. n) :
           /\ U = {} => g[U] = base
           /\ U # {} => Max(U) \in U /\ g[U] = step[<<Max(U), g[U \ {Max(U)}]>>]

\* FoldLeft takes the last element off the set of indexes again and again: what it
\* does so is defined, if no step leaves A.
LEMMA FoldExists ==
    ASSUME NEW n \in Nat, NEW A, NEW base, NEW step, Walk(n, A, base, step)
    PROVE  \E g : Folds(g, n, A, base, step)
  <1> USE DEF Walk
  <1> DEFINE Right(g, m) ==
                 /\ g \in [SUBSET (1 .. m) -> A]
                 /\ \A U \in SUBSET (1 .. m) :
                        /\ U = {} => g[U] = base
                        /\ U # {} => g[U] = step[<<Max(U), g[U \ {Max(U)}]>>]
             S == {m \in 0 .. n : \E g : Right(g, m)}
  <1>1. ASSUME NEW U \in SUBSET (1 .. n), U # {} PROVE Max(U) \in U /\ \A y \in U : Max(U) >= y
    <2>1. \E x \in U : \A y \in U : y <= x
      BY <1>1, GreatestExists
    <2>2. \A x \in U : x \in Int
      OBVIOUS
    <2>3. \E x \in U : \A y \in U : x >= y
      BY <2>1, <2>2
    <2> QED BY <2>3 DEF Max
  <1>2. 0 \in S
    <2> DEFINE g == [U \in SUBSET (1 .. 0) |-> base]
    <2>1. 0 \in 0 .. n /\ \A U \in SUBSET (1 .. 0) : U = {}
      OBVIOUS
    <2>2. g \in [SUBSET (1 .. 0) -> A] /\ \A U \in SUBSET (1 .. 0) : g[U] = base
      OBVIOUS
    <2> HIDE DEF g
    <2>3. Right(g, 0)
      BY <2>1, <2>2
    <2> QED BY <2>1, <2>3
  <1>3. ASSUME NEW m \in 1 .. n, m - 1 \in S PROVE m \in S
    <2>1. PICK g : Right(g, m - 1)
      BY <1>3
    <2> DEFINE h == [U \in SUBSET (1 .. m) |->
                        IF m \in U THEN step[<<m, g[U \ {m}]>>] ELSE g[U]]
    <2>2. ASSUME NEW U \in SUBSET (1 .. m), m \in U
          PROVE  /\ Max(U) = m /\ U \ {m} \in SUBSET (1 .. m - 1) /\ U \ {m} \in SUBSET (1 .. m)
                 /\ m \notin U \ {m}
      <3>1. Max(U) \in U /\ \A y \in U : Max(U) >= y
        <4>1. U \in SUBSET (1 .. n) /\ U # {}
          BY <2>2
        <4> QED BY <4>1, <1>1
      <3>2. Max(U) \in 1 .. m /\ Max(U) >= m
        BY <2>2, <3>1
      <3>3. Max(U) = m
        BY <3>2
      <3>4. \A y \in U \ {m} : y \in 1 .. m - 1
        OBVIOUS
      <3> QED BY <3>3, <3>4
    <2>3. ASSUME NEW U \in SUBSET (1 .. m), m \notin U
          PROVE  /\ U \in SUBSET (1 .. m - 1)
                 /\ U # {} => /\ Max(U) \in U /\ U \ {Max(U)} \in SUBSET (1 .. m - 1)
                              /\ U \ {Max(U)} \in SUBSET (1 .. m) /\ m \notin U \ {Max(U)}
      <3>1. \A y \in U : y \in 1 .. m - 1
        BY <2>3
      <3>2. U # {} => Max(U) \in U
        <4>1. U \in SUBSET (1 .. n)
          OBVIOUS
        <4> QED BY <4>1, <1>1
      <3> QED BY <3>1, <3>2, <2>3
    <2>4. h \in [SUBSET (1 .. m) -> A]
      <3>1. ASSUME NEW U \in SUBSET (1 .. m) PROVE h[U] \in A
        <4>1. CASE m \in U
          <5>1. g[U \ {m}] \in A
            BY <2>1, <2>2, <4>1
          <5>2. step[<<m, g[U \ {m}]>>] \in A
            BY <5>1
          <5> QED BY <4>1, <5>2
        <4>2. CASE m \notin U
          <5>1. g[U] \in A
            BY <2>1, <2>3, <4>2
          <5> QED BY <4>2, <5>1
        <4> QED BY <4>1, <4>2
      <3> QED BY <3>1
    <2>5. ASSUME NEW U \in SUBSET (1 .. m)
          PROVE  /\ m \in U => h[U] = step[<<m, g[U \ {m}]>>]
                 /\ m \notin U => h[U] = g[U]
      OBVIOUS
    <2> HIDE DEF h
    <2>6. ASSUME NEW U \in SUBSET (1 .. m), U = {} PROVE h[U] = base
      BY <2>1, <2>3, <2>5, <2>6
    <2>7. ASSUME NEW U \in SUBSET (1 .. m), U # {} PROVE h[U] = step[<<Max(U), h[U \ {Max(U)}]>>]
      <3>1. CASE m \in U
        <4>1. h[U \ {m}] = g[U \ {m}]
          BY <2>2, <2>5, <3>1
        <4> QED BY <2>2, <2>5, <3>1, <4>1
      <3>2. CASE m \notin U
        <4>1. h[U \ {Max(U)}] = g[U \ {Max(U)}]
          BY <2>3, <2>5, <2>7, <3>2
        <4>2. g[U] = step[<<Max(U), g[U \ {Max(U)}]>>]
          BY <2>1, <2>3, <2>7, <3>2
        <4> QED BY <2>5, <3>2, <4>1, <4>2
      <3> QED BY <3>1, <3>2
    <2>8. Right(h, m)
      BY <2>4, <2>6, <2>7
    <2> HIDE DEF Right
    <2>9. m \in 0 .. n /\ \E f : Right(f, m)
      BY <2>8
    <2> QED BY <2>9
  <1>4. n \in S
    <2> HIDE DEF S
    <2> QED BY <1>2, <1>3, Climb
  <1>5. PICK g : Right(g, n)
    BY <1>4
  <1> QED BY <1>1, <1>5 DEF Folds

TakesLast(g, n, A, base, step) ==
    \A U \in SUBSET (1 .. n) :
        /\ U = {} => g[U] = base
        /\ U # {} /\ Max(U) \in 1 .. n /\ g[U \ {Max(U)}] \in A
               => g[U] = step[<<Max(U), g[U \ {Max(U)}]>>]

\* However that is defined, it ends where the steps in the order of the elements do.
LEMMA FoldEnds ==
    ASSUME NEW n \in Nat, NEW A, NEW base, NEW step, Walk(n, A, base, step),
           NEW p, Steps(p, n, A, base, step), NEW g, TakesLast(g, n, A, base, step)
    PROVE  g[1 .. n] = p[n]
  <1> USE DEF Steps, TakesLast
  <1> DEFINE S == {k \in 0 .. n : g[1 .. k] = p[k]}
  <1>1. 0 \in S
    <2>1. 1 .. 0 \in SUBSET (1 .. n) /\ 1 .. 0 = {}
      OBVIOUS
    <2>2. g[1 .. 0] = base
      BY <2>1
    <2> QED BY <2>2
  <1>2. ASSUME NEW k \in 1 .. n, k - 1 \in S PROVE k \in S
    <2>1. k \in 1 .. k /\ \A y \in 1 .. k : k >= y
      OBVIOUS
    <2>2. \A x \in 1 .. k : (\A y \in 1 .. k : x >= y) => x = k
      OBVIOUS
    <2>3. Max(1 .. k) = k
      BY <2>1, <2>2 DEF Max
    <2>4. 1 .. k \in SUBSET (1 .. n) /\ 1 .. k # {} /\ (1 .. k) \ {k} = 1 .. (k - 1)
      OBVIOUS
    <2>5. g[1 .. (k - 1)] = p[k - 1] /\ p[k - 1] \in A /\ p[k] = step[<<k, p[k - 1]>>]
      BY <1>2
    <2>6. g[1 .. k] = step[<<k, g[1 .. (k - 1)]>>]
      BY <2>3, <2>4, <2>5
    <2> QED BY <2>5, <2>6
  <1>3. \A k \in 0 .. n : k \in S
    <2> HIDE DEF S
    <2> QED BY <1>1, <1>2, Climb
  <1> QED BY <1>3

Lists(W, n, X) == W \in [1 .. n -> Seq(X)]

\* p has the first lists of W, one after the other.
Joins(p, W, n, X) ==
    /\ p \in [0 .. n -> Seq(X)]
    /\ p[0] = <<>> /\ \A k \in 1 .. n : p[k] = p[k - 1] \o W[k]
    /\ \A k \in 0 .. n : FlattenSeq([i \in 1 .. k |-> W[i]]) = p[k]
    /\ FlattenSeq(W) = p[n]

\* FlattenSeq puts one sequence after the other.
LEMMA FlattenJoins ==
    ASSUME NEW X, NEW n \in Nat, NEW W, Lists(W, n, X)
    PROVE  \E p : Joins(p, W, n, X)
  <1> USE DEF Lists
  <1> DEFINE step == [x \in (1 .. n) \X Seq(X) |-> x[2] \o W[x[1]]]
  <1>1. step \in [(1 .. n) \X Seq(X) -> Seq(X)]
    <2>1. ASSUME NEW k \in 1 .. n, NEW s \in Seq(X) PROVE s \o W[k] \in Seq(X)
      BY <2>1
    <2> QED BY <2>1
  <1>2. <<>> \in Seq(X)
    OBVIOUS
  <1>3. \A k \in 1 .. n : \A s \in Seq(X) : step[<<k, s>>] = s \o W[k]
    OBVIOUS
  <1> HIDE DEF step
  <1>4. PICK p \in [0 .. n -> Seq(X)] : p[0] = <<>> /\ \A k \in 1 .. n : p[k] = step[<<k, p[k - 1]>>]
    <2>1. Walk(n, Seq(X), <<>>, step)
      BY <1>1, <1>2 DEF Walk
    <2> QED BY <2>1, PathExists DEF Steps
  <1>5. \A k \in 1 .. n : p[k] = p[k - 1] \o W[k]
    <2>1. \A k \in 1 .. n : p[k - 1] \in Seq(X)
      OBVIOUS
    <2> QED BY <1>3, <1>4, <2>1
  <1>6. ASSUME NEW k \in 0 .. n PROVE FlattenSeq([i \in 1 .. k |-> W[i]]) = p[k]
    <2> DEFINE seqs == [i \in 1 .. k |-> W[i]]
    <2>1. Len(seqs) = k /\ seqs \in Seq(Seq(X))
      OBVIOUS
    <2>2. CASE k = 0
      <3>1. seqs = <<>>
        BY <2>2
      <3> HIDE DEF seqs
      <3> QED BY <1>4, <2>1, <2>2, <3>1 DEF FlattenSeq
    <2>3. CASE k # 0
      <3> DEFINE Eqn(f) == f = [i \in 1 .. Len(seqs) |-> IF i = 1 THEN seqs[i] ELSE f[i - 1] \o seqs[i]]
                 flat == CHOOSE f : Eqn(f)
                 q == [i \in 1 .. k |-> p[i]]
      <3>0. ASSUME NEW i \in 1 .. k
            PROVE  q[i] = p[i] /\ seqs[i] = W[i] /\ p[i] = p[i - 1] \o W[i] /\ W[i] \in Seq(X)
        <4>1. i \in 1 .. n
          OBVIOUS
        <4>2. q[i] = p[i] /\ seqs[i] = W[i]
          OBVIOUS
        <4> HIDE DEF q, seqs
        <4> QED BY <1>5, <4>1, <4>2
      <3>1. FlattenSeq(seqs) = flat[k]
        <4> HIDE DEF seqs
        <4> QED BY <2>1, <2>3 DEF FlattenSeq
      <3>2. Eqn(q)
        <4>1. ASSUME NEW i \in 1 .. k PROVE q[i] = IF i = 1 THEN seqs[i] ELSE q[i - 1] \o seqs[i]
          <5>1. q[i] = p[i] /\ seqs[i] = W[i] /\ p[i] = p[i - 1] \o W[i]
            BY <3>0
          <5>2. CASE i = 1
            <6>1. p[i - 1] = <<>> /\ W[i] \in Seq(X)
              BY <1>4, <5>2, <3>0
            <6> HIDE DEF q, seqs
            <6> QED BY <5>1, <5>2, <6>1
          <5>3. CASE i # 1
            <6>1. q[i - 1] = p[i - 1]
              BY <5>3
            <6> HIDE DEF q, seqs
            <6> QED BY <5>1, <5>3, <6>1
          <5> QED BY <5>2, <5>3
        <4>2. q = [i \in 1 .. k |-> q[i]]
          OBVIOUS
        <4> HIDE DEF q, seqs
        <4> QED BY <2>1, <4>1, <4>2
      <3>3. Eqn(flat)
        <4> HIDE DEF q, Eqn
        <4> QED BY <3>2
      <3> HIDE DEF flat
      <3>4. \A i \in 1 .. k : flat[i] = IF i = 1 THEN seqs[i] ELSE flat[i - 1] \o seqs[i]
        <4> HIDE DEF seqs
        <4> QED BY <2>1, <3>3
      <3> DEFINE S == {i \in 0 .. k : i = 0 \/ flat[i] = p[i]}
      <3>5. ASSUME NEW i \in 1 .. k, i - 1 \in S PROVE i \in S
        <4>1. seqs[i] = W[i] /\ p[i] = p[i - 1] \o W[i] /\ W[i] \in Seq(X)
          BY <3>0
        <4>2. CASE i = 1
          <5>1. p[i] = W[i]
            <6>1. p[i - 1] = <<>>
              BY <1>4, <4>2
            <6> QED BY <4>1, <6>1
          <5>2. flat[i] = p[i]
            <6> HIDE DEF seqs, S
            <6> QED BY <3>4, <4>1, <4>2, <5>1
          <5> QED BY <5>2
        <4>3. CASE i # 1
          <5>1. flat[i - 1] = p[i - 1]
            BY <3>5, <4>3
          <5>2. flat[i] = p[i]
            <6> HIDE DEF seqs, S
            <6> QED BY <3>4, <4>1, <4>3, <5>1
          <5> QED BY <5>2
        <4> QED BY <4>2, <4>3
      <3>6. k \in S
        <4>1. k \in Nat /\ 0 \in S
          OBVIOUS
        <4> HIDE DEF S, seqs
        <4>2. \A i \in 1 .. k : i - 1 \in S => i \in S
          BY <3>5
        <4>3. \A i \in 0 .. k : i \in S
          BY <4>1, <4>2, Climb
        <4> QED BY <4>1, <4>3
      <3>7. flat[k] = p[k]
        BY <2>3, <3>6
      <3> HIDE DEF S
      <3> QED BY <3>1, <3>7
    <2> QED BY <2>2, <2>3
  <1>7. FlattenSeq(W) = p[n]
    <2>1. W = [i \in 1 .. n |-> W[i]]
      OBVIOUS
    <2> QED BY <1>6, <2>1
  <1> QED BY <1>4, <1>5, <1>6, <1>7 DEF Joins

---------------------------------------------------------------------------
(* Sums                                                                    *)

\* g has the sum of the numbers w of every subset of 1 .. n.
Totals(g, n, w) ==
    /\ g \in [SUBSET (1 .. n) -> Int]
    /\ g[{}] = 0
    /\ \A U \in SUBSET (1 .. n) : \A x \in (1 .. n) \ U : g[U \cup {x}] = w[x] + g[U]

LEMMA SumsExist ==
    ASSUME NEW n \in Nat, NEW w \in [1 .. n -> Int]
    PROVE  \E g : Totals(g, n, w)
  <1> DEFINE Adds(g, m) == Totals(g, m, w)
             S == {m \in 0 .. n : \E g : Adds(g, m)}
  <1>1. 0 \in S
    <2> DEFINE g == [U \in SUBSET (1 .. 0) |-> 0]
    <2>1. 0 \in 0 .. n /\ 1 .. 0 = {}
      OBVIOUS
    <2>2. g \in [SUBSET (1 .. 0) -> Int] /\ g[{}] = 0
      OBVIOUS
    <2> HIDE DEF g
    <2>3. Adds(g, 0)
      BY <2>1, <2>2 DEF Totals
    <2> HIDE DEF Adds
    <2> QED BY <2>1, <2>3
  <1>2. ASSUME NEW m \in 1 .. n, m - 1 \in S PROVE m \in S
    <2>1. PICK g : Adds(g, m - 1)
      BY <1>2
    <2> DEFINE h == [U \in SUBSET (1 .. m) |-> IF m \in U THEN w[m] + g[U \ {m}] ELSE g[U]]
    <2>2. ASSUME NEW U \in SUBSET (1 .. m) PROVE U \ {m} \in SUBSET (1 .. m - 1)
      OBVIOUS
    <2>3. ASSUME NEW U \in SUBSET (1 .. m)
          PROVE  /\ m \in U => h[U] = w[m] + g[U \ {m}]
                 /\ m \notin U => h[U] = g[U]
      OBVIOUS
    <2>4. w[m] \in Int /\ \A U \in SUBSET (1 .. m - 1) : g[U] \in Int
      BY <2>1 DEF Totals
    <2>5. h \in [SUBSET (1 .. m) -> Int]
      <3>1. ASSUME NEW U \in SUBSET (1 .. m) PROVE h[U] \in Int
        <4>1. g[U \ {m}] \in Int
          BY <2>2, <2>4
        <4>2. m \notin U => g[U] \in Int
          <5>1. m \notin U => U \ {m} = U
            OBVIOUS
          <5> QED BY <4>1, <5>1
        <4>3. w[m] + g[U \ {m}] \in Int
          BY <2>4, <4>1
        <4> HIDE DEF h
        <4> QED BY <2>3, <4>2, <4>3
      <3> QED BY <3>1
    <2> HIDE DEF h
    <2>6. h[{}] = 0
      BY <2>1, <2>3 DEF Totals
    <2>7. ASSUME NEW U \in SUBSET (1 .. m), NEW x \in (1 .. m) \ U
          PROVE  h[U \cup {x}] = w[x] + h[U]
      <3>1. U \cup {x} \in SUBSET (1 .. m)
        OBVIOUS
      <3>2. CASE x = m
        <4>1. (U \cup {x}) \ {m} = U /\ m \in U \cup {x} /\ m \notin U
          BY <3>2
        <4> QED BY <2>3, <3>1, <3>2, <4>1
      <3>3. CASE x # m /\ m \in U
        <4>1. (U \cup {x}) \ {m} = (U \ {m}) \cup {x} /\ x \in (1 .. m - 1) \ (U \ {m})
          BY <3>3
        <4>2. g[(U \cup {x}) \ {m}] = w[x] + g[U \ {m}]
          BY <2>1, <2>2, <4>1 DEF Totals
        <4>3. h[U \cup {x}] = w[m] + g[(U \cup {x}) \ {m}] /\ h[U] = w[m] + g[U \ {m}]
          BY <2>3, <3>1, <3>3
        <4>4. w[x] \in Int /\ w[m] \in Int /\ g[U \ {m}] \in Int
          BY <2>2, <2>4
        <4> QED BY <4>2, <4>3, <4>4
      <3>4. CASE x # m /\ m \notin U
        <4>1. U \in SUBSET (1 .. m - 1) /\ x \in (1 .. m - 1) \ U /\ m \notin U \cup {x}
          BY <2>2, <3>4
        <4>2. g[U \cup {x}] = w[x] + g[U]
          BY <2>1, <4>1 DEF Totals
        <4> QED BY <2>3, <3>1, <3>4, <4>1, <4>2
      <3> QED BY <3>2, <3>3, <3>4
    <2>8. Adds(h, m)
      BY <2>5, <2>6, <2>7 DEF Totals
    <2> HIDE DEF Adds
    <2>9. m \in 0 .. n /\ \E f : Adds(f, m)
      BY <2>8
    <2> QED BY <2>9
  <1>3. n \in S
    <2> HIDE DEF S, Adds
    <2>1. \A k \in 1 .. n : k - 1 \in S => k \in S
      BY <1>2
    <2>2. \A k \in 0 .. n : k \in S
      BY <1>1, <2>1, Climb
    <2> QED BY <2>2
  <1> QED BY <1>3

\* However a sum is taken, one member after the other, it is that sum.
Counts(h, S, w) ==
    h[{}] = 0 /\ \A U \in SUBSET S : U # {} => \E x \in U : h[U] = w[x] + h[U \ {x}]

LEMMA SumsAreOne ==
    ASSUME NEW n \in Nat, NEW w, NEW g, Totals(g, n, w),
           NEW S \in SUBSET (1 .. n), NEW h, Counts(h, S, w)
    PROVE  h[S] = g[S]
  <1> DEFINE Bad == {U \in SUBSET S : h[U] # g[U]}
             R == StrictSubsetOrdering(S)
  <1>1. ASSUME Bad # {} PROVE FALSE
    <2>1. IsFiniteSet(S)
      <3>1. IsFiniteSet(1 .. n)
        BY FS_Interval
      <3> QED BY <3>1, FS_Subset
    <2>2. IsWellFoundedOn(R, SUBSET S)
      BY <2>1, FS_FiniteSubsetsOfFinite, FS_StrictSubsetOrderingWellFounded
    <2>3. PICK m \in Bad : \A t \in Bad : <<t, m>> \notin R
      <3>1. Bad \subseteq SUBSET S
        OBVIOUS
      <3> HIDE DEF Bad, R
      <3> QED BY <1>1, <2>2, <3>1, WFMin
    <2>4. m # {}
      BY DEF Totals, Counts
    <2>5. PICK x \in m : h[m] = w[x] + h[m \ {x}]
      BY <2>4 DEF Counts
    <2>6. <<m \ {x}, m>> \in R
      BY DEF StrictSubsetOrdering
    <2>7. h[m \ {x}] = g[m \ {x}]
      BY <2>3, <2>6
    <2>8. g[m] = w[x] + g[m \ {x}]
      <3>1. m \ {x} \in SUBSET (1 .. n) /\ x \in (1 .. n) \ (m \ {x}) /\ (m \ {x}) \cup {x} = m
        OBVIOUS
      <3> QED BY <3>1 DEF Totals
    <2> QED BY <2>5, <2>7, <2>8
  <1> QED BY <1>1
=============================================================================
