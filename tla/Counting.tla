------------------------------- MODULE Counting -------------------------------
(* Induction over the numbers up to N, by counting, and what follows from it: a *)
(* recursive function on them exists, whether a value depends on the one before *)
(* or on the later ones.                                                        *)
EXTENDS Integers, FiniteSetTheorems, TLAPS

\* What holds at 0 and is handed on up to N holds at N: the numbers up to N
\* without it would each have their predecessor among themselves.
LEMMA UpToN ==
  ASSUME NEW N \in Nat, NEW S, 0 \in S, \A n \in 0..(N - 1) : n \in S => n + 1 \in S
  PROVE  N \in S
<1> DEFINE T == {n \in 0..N : n \notin S}
           D == {n - 1 : n \in T}
           f == [n \in T |-> n - 1]
<1>1. SUFFICES ASSUME N \notin S PROVE FALSE
  OBVIOUS
<1>2. IsFiniteSet(T)
  <2>1. IsFiniteSet(0..N)
    BY FS_Interval
  <2>2. T \subseteq 0..N
    OBVIOUS
  <2> HIDE DEF T
  <2> QED
    BY <2>1, <2>2, FS_Subset
<1>3. f \in Bijection(T, D)
  BY DEF Bijection, Injection, Surjection, IsInjective
<1>4. IsFiniteSet(D) /\ Cardinality(D) = Cardinality(T)
  <2> HIDE DEF T, D, f
  <2> QED
    BY <1>2, <1>3, FS_Bijection DEF ExistsBijection
<1>5. D \subseteq T \ {N}
  <2>1. SUFFICES ASSUME NEW n \in T PROVE n - 1 \in T \ {N}
    OBVIOUS
  <2>2. n - 1 \in 0..(N - 1)
    OBVIOUS
  <2>3. n - 1 \notin S
    BY <2>2
  <2> QED
    BY <2>2, <2>3
<1>6. N \in T
  BY <1>1
<1> HIDE DEF T, D, f
<1>7. IsFiniteSet(T \ {N}) /\ Cardinality(T \ {N}) = Cardinality(T) - 1
  BY <1>2, <1>6, FS_RemoveElement
<1>8. Cardinality(D) <= Cardinality(T \ {N})
  BY <1>5, <1>7, FS_Subset
<1> QED
  BY <1>2, <1>4, <1>7, <1>8, FS_CardinalityType

Follows(f, start, step, N) ==
  f[0] = start /\ \A n \in 1..N : f[n] = step[<<f[n - 1], n>>]

\* A value and a step give every later value.
LEMMA Iterates ==
  ASSUME NEW S, NEW N \in Nat, NEW start \in S, NEW step \in [S \X (1..N) -> S]
  PROVE  \E f \in [0..N -> S] : Follows(f, start, step, N)
<1> DEFINE Reached == {m \in 0..N : \E f \in [0..m -> S] : Follows(f, start, step, m)}
<1>1. 0 \in Reached
  <2> DEFINE f == [n \in 0..0 |-> start]
  <2>1. f \in [0..0 -> S] /\ f[0] = start /\ 1..0 = {}
    OBVIOUS
  <2> HIDE DEF f
  <2>2. Follows(f, start, step, 0)
    BY <2>1 DEF Follows
  <2> QED
    BY <2>1, <2>2
<1>2. ASSUME NEW m \in 0..(N - 1), m \in Reached PROVE m + 1 \in Reached
  <2>1. PICK f \in [0..m -> S] : Follows(f, start, step, m)
    BY <1>2
  <2> DEFINE g == [n \in 0..(m + 1) |-> IF n = m + 1 THEN step[<<f[m], m + 1>>] ELSE f[n]]
  <2>2. step[<<f[m], m + 1>>] \in S
    OBVIOUS
  <2>3. g \in [0..(m + 1) -> S]
    BY <2>2
  <2>4. g[0] = start
    BY <2>1 DEF Follows
  <2>5. ASSUME NEW n \in 1..(m + 1) PROVE g[n] = step[<<g[n - 1], n>>]
    <3>1. CASE n = m + 1
      <4>1. n - 1 = m /\ m \in 0..(m + 1) /\ m # m + 1 /\ n \in 0..(m + 1)
        BY <3>1
      <4>2. g[m] = f[m] /\ g[n] = step[<<f[m], m + 1>>]
        BY <3>1, <4>1
      <4> HIDE DEF g
      <4> QED
        BY <3>1, <4>1, <4>2
    <3>2. CASE n # m + 1
      <4>1. n \in 1..m /\ n - 1 \in 0..m
        BY <3>2
      <4>2. g[n] = f[n] /\ g[n - 1] = f[n - 1]
        BY <4>1
      <4> QED
        BY <2>1, <4>1, <4>2 DEF Follows
    <3> QED
      BY <3>1, <3>2
  <2> HIDE DEF g
  <2> QED
    BY <2>3, <2>4, <2>5 DEF Follows
<1>3. N \in Reached
  <2> HIDE DEF Reached
  <2> QED
    BY <1>1, <1>2, UpToN
<1> QED
  BY <1>3

\* A set of numbers has a least one.
LEMMA LeastOf ==
  ASSUME NEW S, S \subseteq Nat, NEW N \in S
  PROVE  \E p \in S : \A q \in S : p <= q
<1> DEFINE U == {n \in Nat : \A m \in 0..n : m \notin S}
<1>1. SUFFICES ASSUME \A p \in S : \E q \in S : q < p PROVE FALSE
  OBVIOUS
<1>2. 0 \in U
  BY <1>1
<1>3. ASSUME NEW n \in 0..(N - 1), n \in U PROVE n + 1 \in U
  <2>1. n \in Nat /\ n + 1 \in Nat
    OBVIOUS
  <2>2. ASSUME n + 1 \in S PROVE FALSE
    <3>1. PICK q \in S : q < n + 1
      BY <1>1, <2>2
    <3>2. q \in 0..n
      BY <2>1, <3>1
    <3> QED
      BY <1>3, <3>2
  <2>3. ASSUME NEW m \in 0..(n + 1) PROVE m \notin S
    <3>1. m \in 0..n \/ m = n + 1
      BY <2>1
    <3> QED
      BY <1>3, <2>2, <3>1
  <2> QED
    BY <2>1, <2>3
<1>4. N \in Nat
  OBVIOUS
<1>5. N \in U
  <2> HIDE DEF U
  <2> QED
    BY <1>2, <1>3, <1>4, UpToN
<1> QED
  BY <1>5

\* What holds of every offset that it holds of the later ones for, holds of all.
LEMMA BackFromN ==
  ASSUME NEW N \in Nat, NEW G, \A o \in 0..N : (\A p \in (o + 1)..N : p \in G) => o \in G
  PROVE  \A o \in 0..N : o \in G
<1> DEFINE U == {k \in Nat : \A o \in 0..N : o >= N - k => o \in G}
<1>1. 0 \in U
  <2>1. N \in 0..N /\ (N + 1)..N = {}
    OBVIOUS
  <2>2. N \in G
    BY <2>1
  <2> QED
    BY <2>2
<1>2. ASSUME NEW k \in 0..(N - 1), k \in U PROVE k + 1 \in U
  <2>1. ASSUME NEW o \in 0..N, o >= N - (k + 1) PROVE o \in G
    <3>1. CASE o >= N - k
      BY <1>2, <3>1
    <3>2. CASE ~ (o >= N - k)
      <4>1. ASSUME NEW p \in (o + 1)..N PROVE p \in G
        <5>1. p \in 0..N /\ p >= N - k
          BY <2>1, <3>2
        <5> QED
          BY <1>2, <5>1
      <4> QED
        BY <4>1
    <3> QED
      BY <3>1, <3>2
  <2> QED
    BY <2>1
<1>3. N \in U
  <2> HIDE DEF U
  <2> QED
    BY <1>1, <1>2, UpToN
<1> QED
  BY <1>3

\* A recursive function whose value at an offset depends on the later ones.
LooksAhead(step, N, V) ==
  /\ step \in [(0..N) \X [0..N -> V] -> V]
  /\ \A o \in 0..N : \A g, h \in [0..N -> V] :
    (\A p \in (o + 1)..N : g[p] = h[p]) => step[<<o, g>>] = step[<<o, h>>]

Computed(f, step, N) == \A o \in 0..N : f[o] = step[<<o, f>>]

\* A function defined through its values at later arguments exists.
LEMMA ComputedFromN ==
  ASSUME NEW N \in Nat, NEW V, V # {}, NEW step, LooksAhead(step, N, V)
  PROVE  \E f \in [0..N -> V] : Computed(f, step, N)
<1> DEFINE Right(h, k) == \A o \in 0..N : o > N - k => h[o] = step[<<o, h>>]
           U == {k \in Nat : \E h \in [0..N -> V] : Right(h, k)}
<1>1. 0 \in U
  <2> PICK v \in V : TRUE
    OBVIOUS
  <2> DEFINE h == [o \in 0..N |-> v]
  <2>1. h \in [0..N -> V] /\ Right(h, 0)
    OBVIOUS
  <2> QED
    BY <2>1
<1>2. ASSUME NEW k \in 0..N, k \in U PROVE k + 1 \in U
  <2>1. PICK h \in [0..N -> V] : Right(h, k)
    BY <1>2
  <2> DEFINE here == N - k
             g == [o \in 0..N |-> IF o = here THEN step[<<here, h>>] ELSE h[o]]
  <2>2. here \in 0..N /\ <<here, h>> \in (0..N) \X [0..N -> V]
    OBVIOUS
  <2>3. step[<<here, h>>] \in V
    BY <2>2 DEF LooksAhead
  <2>4. g \in [0..N -> V]
    BY <2>3
  <2>5. ASSUME NEW o \in 0..N, o > N - (k + 1) PROVE g[o] = step[<<o, g>>]
    <3>1. \A p \in (o + 1)..N : g[p] = h[p]
      BY <2>5
    <3>2. step[<<o, g>>] = step[<<o, h>>]
      <4> HIDE DEF g
      <4> QED
        BY <2>4, <3>1 DEF LooksAhead
    <3>3. CASE o = here
      BY <3>2, <3>3
    <3>4. CASE o # here
      <4>1. o > N - k
        <5>1. N \in Nat /\ k \in Int /\ o \in Int
          OBVIOUS
        <5>2. o > N - (k + 1) /\ o # N - k
          BY <2>5, <3>4
        <5> QED
          BY ONLY <5>1, <5>2
      <4>2. h[o] = step[<<o, h>>] /\ g[o] = h[o]
        BY <2>1, <3>4, <4>1
      <4> HIDE DEF g
      <4> QED
        BY <3>2, <4>2
    <3> QED
      BY <3>3, <3>4
  <2>6. Right(g, k + 1)
    BY <2>5
  <2> HIDE DEF g, Right
  <2>7. k + 1 \in Nat
    OBVIOUS
  <2> QED
    BY <2>4, <2>6, <2>7
<1>3. N + 1 \in U
  <2>1. N + 1 \in Nat /\ \A n \in 0..((N + 1) - 1) : n \in 0..N
    OBVIOUS
  <2> HIDE DEF U
  <2> QED
    BY <1>1, <1>2, <2>1, UpToN
<1>4. PICK f \in [0..N -> V] : Right(f, N + 1)
  BY <1>3
<1> QED
  BY <1>4 DEF Computed
=============================================================================
