---------------------- MODULE MemoryClassification_proofs ----------------------
(* The classification of every registry: what the descent computes, with and    *)
(* without a cache, is what the types mean by reachability. Reachability is the  *)
(* least closed set (ReachLeast, ReachClosed); what is said of the descent is    *)
(* said of all sets of types under analysis, from the larger to the smaller.     *)
EXTENDS MemoryClassification, Counting, SequenceTheorems

-----------------------------------------------------------------------------
(* Types and what they contain                                                 *)

Registered == registry \in [Types -> Shapes]
Kinds == {"text", "ref", "mutref", "record", "box"}
Direct == {"record"}
Owning == {"record", "box"}

LEMMA TypesFinite == IsFiniteSet(Types) /\ Cardinality(Types) \in Nat
BY TypesAssumption, FS_CardinalityType

LEMMA ShapeOf ==
  ASSUME Registered, NEW t \in Types
  PROVE  /\ registry[t].kind \in Kinds
         /\ registry[t].contents \in Seq(Types)
         /\ registry[t].kind \in Leaves => registry[t].contents = <<>>
         /\ registry[t].kind = "box" => \E c \in Types : registry[t].contents = <<c>>
<1>1. registry[t] \in Shapes
  BY DEF Registered
<1>2. CASE registry[t] \in [kind : Leaves, contents : {<<>>}]
  <2>1. registry[t].kind \in Leaves /\ registry[t].contents = <<>>
    BY <1>2
  <2> QED
    BY <2>1 DEF Leaves, Kinds
<1>3. CASE registry[t] \in [kind : {"record"}, contents : Seq(Types)]
  <2>1. registry[t].kind = "record" /\ registry[t].contents \in Seq(Types)
    BY <1>3
  <2> QED
    BY <2>1 DEF Leaves, Kinds
<1>4. CASE registry[t] \in [kind : {"box"}, contents : {<<c>> : c \in Types}]
  <2>1. registry[t].kind = "box" /\ registry[t].contents \in {<<c>> : c \in Types}
    BY <1>4
  <2>2. \A c \in Types : <<c>> \in Seq(Types)
    OBVIOUS
  <2>3. PICK c \in Types : registry[t].contents = <<c>>
    BY <2>1
  <2> QED
    BY <2>1, <2>2, <2>3 DEF Leaves, Kinds
<1> QED
  BY <1>1, <1>2, <1>3, <1>4 DEF Shapes

LEMMA ContentsOf ==
  ASSUME Registered, NEW t \in Types
  PROVE  /\ Contents(t) \subseteq Types
         /\ registry[t].kind \notin Owning => Contents(t) = {}
         /\ registry[t].kind = "box" =>
              registry[t].contents[1] \in Types /\ Contents(t) = {registry[t].contents[1]}
<1>1. registry[t].contents \in Seq(Types)
  BY ShapeOf
<1>2. Contents(t) \subseteq Types
  BY <1>1, ElementOfSeq DEF Contents
<1>3. ASSUME registry[t].kind \notin Owning PROVE Contents(t) = {}
  <2>1. registry[t].contents = <<>>
    BY <1>3, ShapeOf DEF Owning, Leaves, Kinds
  <2> QED
    BY <2>1 DEF Contents
<1>4. ASSUME registry[t].kind = "box"
      PROVE  registry[t].contents[1] \in Types /\ Contents(t) = {registry[t].contents[1]}
  <2>1. PICK c \in Types : registry[t].contents = <<c>>
    BY <1>4, ShapeOf
  <2>2. DOMAIN <<c>> = {1}
    OBVIOUS
  <2> QED
    BY <2>1, <2>2 DEF Contents
<1> QED
  BY <1>2, <1>3, <1>4

-----------------------------------------------------------------------------
(* Reachability: the least set of types that holds the given ones and, with a  *)
(* type of one of the kinds, its contents                                      *)

Closed(S, kinds) == \A t \in S : registry[t].kind \in kinds => Contents(t) \subseteq S

LEMMA GrownIn ==
  ASSUME Registered, NEW S \in SUBSET Types, NEW kinds
  PROVE  /\ Grown(S, kinds) \in SUBSET Types
         /\ S \subseteq Grown(S, kinds)
         /\ Closed(S, kinds) <=> Grown(S, kinds) = S
<1>1. \A t \in S : Contents(t) \subseteq Types
  BY ContentsOf
<1> QED
  BY <1>1 DEF Grown, Closed

\* The sets of the definition, one after the other.
Stages(after, S, kinds) ==
  /\ after \in [0..Cardinality(Types) -> SUBSET Types]
  /\ after[0] = S
  /\ \A n \in 1..Cardinality(Types) : after[n] = Grown(after[n - 1], kinds)

LEMMA ReachStages ==
  ASSUME Registered, NEW S \in SUBSET Types, NEW kinds
  PROVE  \E after : Stages(after, S, kinds) /\ Reach(S, kinds) = after[Cardinality(Types)]
<1> DEFINE N == Cardinality(Types)
           F(h) == [n \in 0..N |-> IF n = 0 THEN S ELSE Grown(h[n - 1], kinds)]
           step == [x \in (SUBSET Types) \X (1..N) |-> Grown(x[1], kinds)]
           g == CHOOSE h : h = F(h)
<1>1. N \in Nat
  BY TypesFinite
<1>2. step \in [(SUBSET Types) \X (1..N) -> SUBSET Types]
  BY GrownIn
<1>3. PICK f \in [0..N -> SUBSET Types] : Follows(f, S, step, N)
  <2> HIDE DEF step, N
  <2> QED
    BY <1>1, <1>2, Iterates
<1>4. f = F(f)
  <2>1. ASSUME NEW n \in 1..N PROVE f[n] = Grown(f[n - 1], kinds)
    <3>1. n - 1 \in 0..N
      BY <1>1
    <3>2. f[n - 1] \in SUBSET Types
      BY <3>1
    <3> QED
      BY <1>3, <3>2 DEF Follows
  <2>2. \A n \in 0..N : f[n] = IF n = 0 THEN S ELSE Grown(f[n - 1], kinds)
    <3>1. \A n \in 0..N : n # 0 => n \in 1..N
      BY <1>1
    <3> HIDE DEF N
    <3> QED
      BY <1>3, <2>1, <3>1 DEF Follows
  <2> HIDE DEF N
  <2> QED
    BY <2>2
<1>5. g = F(g)
  <2> HIDE DEF F
  <2> QED
    BY <1>4
<1>6. Reach(S, kinds) = g[N]
  BY DEF Reach
<1>7. Stages(g, S, kinds)
  <2>1. ASSUME NEW n \in 0..N PROVE g[n] = IF n = 0 THEN S ELSE Grown(g[n - 1], kinds)
    <3> HIDE DEF g, N
    <3> QED
      BY <1>5
  <2>2. \A n \in 1..N : n \in 0..N /\ n # 0
    BY <1>1
  <2>3. DOMAIN g = 0..N
    <3> HIDE DEF g, N
    <3> QED
      BY <1>5
  <2>4. g = [n \in 0..N |-> g[n]]
    <3> HIDE DEF g, N
    <3> QED
      BY <1>5
  <2>5. 0 \in 0..N
    BY <1>1
  <2> DEFINE U == {n \in 0..N : g[n] \in SUBSET Types}
  <2> HIDE DEF g, F
  <2>6. 0 \in U
    BY <2>1, <2>5
  <2>7. ASSUME NEW n \in 0..(N - 1), n \in U PROVE n + 1 \in U
    <3>1. n + 1 \in 0..N /\ n + 1 # 0 /\ (n + 1) - 1 = n
      BY <1>1
    <3>2. g[n + 1] = Grown(g[n], kinds)
      BY <2>1, <3>1
    <3> QED
      BY <2>7, <3>1, <3>2, GrownIn
  <2>8. ASSUME NEW n \in 0..N PROVE g[n] \in SUBSET Types
    <3>1. n \in Nat /\ \A m \in 0..(n - 1) : m \in 0..(N - 1)
      BY <1>1
    <3>2. n \in U
      <4> HIDE DEF U
      <4> QED
        BY <2>6, <2>7, <3>1, UpToN
    <3> QED
      BY <3>2
  <2> QED
    BY <2>1, <2>2, <2>4, <2>5, <2>8 DEF Stages
<1> HIDE DEF g
<1> QED
  BY <1>6, <1>7

LEMMA ReachContains ==
  ASSUME Registered, NEW S \in SUBSET Types, NEW kinds
  PROVE  S \subseteq Reach(S, kinds) /\ Reach(S, kinds) \subseteq Types
<1> DEFINE N == Cardinality(Types)
<1>1. PICK after : Stages(after, S, kinds) /\ Reach(S, kinds) = after[N]
  BY ReachStages
<1> DEFINE U == {n \in 0..N : S \subseteq after[n]}
<1>2. N \in Nat
  BY TypesFinite
<1>3. 0 \in U
  BY <1>1, <1>2 DEF Stages
<1>4. ASSUME NEW n \in 0..(N - 1), n \in U PROVE n + 1 \in U
  <2>1. n + 1 \in 1..N /\ n + 1 \in 0..N /\ (n + 1) - 1 = n /\ n \in 0..N
    BY <1>2
  <2>2. after[n + 1] = Grown(after[n], kinds) /\ after[n] \in SUBSET Types
    BY <1>1, <2>1 DEF Stages
  <2> QED
    BY <1>4, <2>1, <2>2, GrownIn
<1>5. N \in U
  <2> HIDE DEF U
  <2> QED
    BY <1>2, <1>3, <1>4, UpToN
<1>6. after[N] \in SUBSET Types
  <2>1. N \in 0..N
    BY <1>2
  <2> HIDE DEF N
  <2> QED
    BY <1>1, <2>1 DEF Stages, N
<1> QED
  BY <1>1, <1>5, <1>6

\* No other closed set around S is smaller.
LEMMA ReachLeast ==
  ASSUME Registered, NEW S \in SUBSET Types, NEW kinds,
         NEW T, S \subseteq T, Closed(T, kinds)
  PROVE  Reach(S, kinds) \subseteq T
<1> DEFINE N == Cardinality(Types)
<1>1. PICK after : Stages(after, S, kinds) /\ Reach(S, kinds) = after[N]
  BY ReachStages
<1> DEFINE U == {n \in 0..N : after[n] \subseteq T}
<1>2. N \in Nat
  BY TypesFinite
<1>3. 0 \in U
  BY <1>1, <1>2 DEF Stages
<1>4. ASSUME NEW n \in 0..(N - 1), n \in U PROVE n + 1 \in U
  <2>1. n + 1 \in 1..N /\ n + 1 \in 0..N /\ (n + 1) - 1 = n
    BY <1>2
  <2>2. after[n + 1] = Grown(after[n], kinds)
    BY <1>1, <2>1 DEF Stages
  <2>3. Grown(after[n], kinds) \subseteq T
    BY <1>4 DEF Grown, Closed
  <2> QED
    BY <2>1, <2>2, <2>3
<1>5. N \in U
  <2> HIDE DEF U
  <2> QED
    BY <1>2, <1>3, <1>4, UpToN
<1> QED
  BY <1>1, <1>5

\* Each stage that is not closed adds a type, and there are no more than N.
LEMMA ReachClosed ==
  ASSUME Registered, NEW S \in SUBSET Types, NEW kinds
  PROVE  Closed(Reach(S, kinds), kinds)
<1> DEFINE N == Cardinality(Types)
<1>1. PICK after : Stages(after, S, kinds) /\ Reach(S, kinds) = after[N]
  BY ReachStages
<1> DEFINE U == {n \in 0..N : Closed(after[n], kinds) \/ Cardinality(after[n]) >= n}
<1>2. N \in Nat
  BY TypesFinite
<1>3. ASSUME NEW n \in 0..N
      PROVE  after[n] \in SUBSET Types /\ IsFiniteSet(after[n]) /\ Cardinality(after[n]) \in Nat
  <2>1. after[n] \in SUBSET Types
    BY <1>1 DEF Stages
  <2> QED
    BY <2>1, TypesFinite, FS_Subset, FS_CardinalityType
<1>4. 0 \in U
  <2>1. 0 \in 0..N
    BY <1>2
  <2>2. Cardinality(after[0]) >= 0
    BY <1>3, <2>1
  <2> QED
    BY <2>1, <2>2
<1>5. ASSUME NEW n \in 0..(N - 1), n \in U PROVE n + 1 \in U
  <2>1. n + 1 \in 1..N /\ n + 1 \in 0..N /\ (n + 1) - 1 = n /\ n \in 0..N /\ n \in Nat
    BY <1>2
  <2>2. after[n + 1] = Grown(after[n], kinds)
    BY <1>1, <2>1 DEF Stages
  <2>3. CASE Closed(after[n], kinds)
    <3>1. after[n + 1] = after[n]
      BY <1>3, <2>1, <2>2, <2>3, GrownIn
    <3> QED
      BY <2>1, <2>3, <3>1
  <2>4. CASE ~ Closed(after[n], kinds)
    <3>1. Cardinality(after[n]) >= n
      BY <1>5, <2>4
    <3>2. after[n] \subseteq after[n + 1] /\ after[n] # after[n + 1]
      BY <1>3, <2>1, <2>2, <2>4, GrownIn
    <3>3. Cardinality(after[n]) < Cardinality(after[n + 1])
      <4>1. /\ Cardinality(after[n]) <= Cardinality(after[n + 1])
            /\ Cardinality(after[n]) = Cardinality(after[n + 1]) => after[n] = after[n + 1]
        BY <1>3, <2>1, <3>2, FS_Subset
      <4> HIDE DEF U, N
      <4> QED
        BY <1>3, <2>1, <3>2, <4>1
    <3>4. Cardinality(after[n + 1]) >= n + 1
      BY <1>3, <2>1, <3>1, <3>3
    <3> QED
      BY <2>1, <3>4
  <2> QED
    BY <2>3, <2>4
<1>6. N \in U
  <2> HIDE DEF U
  <2> QED
    BY <1>2, <1>4, <1>5, UpToN
<1>7. N \in 0..N
  BY <1>2
<1>8. CASE Cardinality(after[N]) >= N
  <2>1. after[N] \in SUBSET Types /\ Cardinality(after[N]) \in Nat
    BY <1>3, <1>7
  <2>2. Cardinality(after[N]) <= N /\ (Cardinality(after[N]) = N => after[N] = Types)
    BY <2>1, TypesFinite, FS_Subset
  <2>3. after[N] = Types
    BY <1>2, <1>8, <2>1, <2>2
  <2>4. Closed(Types, kinds)
    BY ContentsOf DEF Closed
  <2> QED
    BY <1>1, <2>3, <2>4
<1> QED
  BY <1>1, <1>6, <1>8

LEMMA ReachItself ==
  ASSUME Registered, NEW t \in Types, NEW kinds
  PROVE  t \in Reach({t}, kinds) /\ Reach({t}, kinds) \in SUBSET Types
<1>1. {t} \in SUBSET Types
  OBVIOUS
<1> QED
  BY <1>1, ReachContains

LEMMA ReachThrough ==
  ASSUME Registered, NEW kinds, NEW S \in SUBSET Types, NEW u \in Reach(S, kinds)
  PROVE  u \in Types /\ Reach({u}, kinds) \subseteq Reach(S, kinds)
<1>1. u \in Types /\ {u} \in SUBSET Types /\ {u} \subseteq Reach(S, kinds)
  BY ReachContains
<1>2. Closed(Reach(S, kinds), kinds)
  BY ReachClosed
<1> QED
  BY <1>1, <1>2, ReachLeast

\* What contents reach is what each of them reaches.
LEMMA ReachOfContents ==
  ASSUME Registered, NEW kinds, NEW t \in Types
  PROVE  Reach(Contents(t), kinds) = UNION {Reach({c}, kinds) : c \in Contents(t)}
<1> DEFINE T == UNION {Reach({c}, kinds) : c \in Contents(t)}
<1>1. Contents(t) \in SUBSET Types
  BY ContentsOf
<1>2. Contents(t) \subseteq T
  BY <1>1, ReachItself
<1>3. Closed(T, kinds)
  <2>1. SUFFICES ASSUME NEW c \in Contents(t), NEW u \in Reach({c}, kinds), registry[u].kind \in kinds
                 PROVE  Contents(u) \subseteq Reach({c}, kinds)
    BY DEF Closed
  <2>2. {c} \in SUBSET Types
    BY <1>1
  <2>3. Closed(Reach({c}, kinds), kinds)
    BY <2>2, ReachClosed
  <2> QED
    BY <2>1, <2>3 DEF Closed
<1>4. Reach(Contents(t), kinds) \subseteq T
  <2> HIDE DEF T
  <2> QED
    BY <1>1, <1>2, <1>3, ReachLeast
<1>5. ASSUME NEW c \in Contents(t) PROVE Reach({c}, kinds) \subseteq Reach(Contents(t), kinds)
  <2>1. c \in Reach(Contents(t), kinds)
    BY <1>1, ReachContains
  <2> QED
    BY <1>1, <2>1, ReachThrough
<1> QED
  BY <1>4, <1>5

LEMMA ReachOpened ==
  ASSUME Registered, NEW kinds, NEW t \in Types
  PROVE  /\ registry[t].kind \in kinds =>
              Reach({t}, kinds) = {t} \cup UNION {Reach({c}, kinds) : c \in Contents(t)}
         /\ registry[t].kind \notin kinds => Reach({t}, kinds) = {t}
<1>1. {t} \in SUBSET Types /\ Contents(t) \in SUBSET Types
  BY ContentsOf
<1>2. {t} \subseteq Reach({t}, kinds) /\ Closed(Reach({t}, kinds), kinds)
  BY <1>1, ReachContains, ReachClosed
<1>3. ASSUME registry[t].kind \notin kinds PROVE Reach({t}, kinds) = {t}
  <2>1. Closed({t}, kinds)
    BY <1>3 DEF Closed
  <2>2. Reach({t}, kinds) \subseteq {t}
    BY <1>1, <2>1, ReachLeast
  <2> QED
    BY <1>2, <2>2
<1>4. ASSUME registry[t].kind \in kinds
      PROVE  Reach({t}, kinds) = {t} \cup UNION {Reach({c}, kinds) : c \in Contents(t)}
  <2> DEFINE T == {t} \cup Reach(Contents(t), kinds)
  <2>1. Contents(t) \subseteq Reach(Contents(t), kinds) /\ Closed(Reach(Contents(t), kinds), kinds)
    BY <1>1, ReachContains, ReachClosed
  <2>2. Closed(T, kinds)
    BY <2>1 DEF Closed
  <2>3. Reach({t}, kinds) \subseteq T
    <3>1. {t} \subseteq T
      OBVIOUS
    <3> HIDE DEF T
    <3> QED
      BY <1>1, <2>2, <3>1, ReachLeast
  <2>4. Contents(t) \subseteq Reach({t}, kinds)
    BY <1>2, <1>4 DEF Closed
  <2>5. Reach(Contents(t), kinds) \subseteq Reach({t}, kinds)
    BY <1>1, <1>2, <2>4, ReachLeast
  <2>6. Reach({t}, kinds) = T
    BY <1>2, <2>3, <2>5
  <2> QED
    BY <2>6, ReachOfContents
<1> QED
  BY <1>3, <1>4

LEMMA DirectReach ==
  ASSUME Registered, NEW t \in Types
  PROVE  Reach({t}, Direct) \subseteq Reach({t}, Owning)
<1>1. {t} \in SUBSET Types
  OBVIOUS
<1>2. {t} \subseteq Reach({t}, Owning) /\ Closed(Reach({t}, Owning), Owning)
  BY <1>1, ReachContains, ReachClosed
<1>3. Closed(Reach({t}, Owning), Direct)
  BY <1>2 DEF Closed, Direct, Owning
<1> QED
  BY <1>1, <1>2, <1>3, ReachLeast

LEMMA OnCycleBy ==
  ASSUME Registered, NEW kinds, NEW t \in Types
  PROVE  OnCycle(t, kinds) <=>
           registry[t].kind \in kinds /\ \E c \in Contents(t) : t \in Reach({c}, kinds)
<1>1. Reach(Contents(t), kinds) = UNION {Reach({c}, kinds) : c \in Contents(t)}
  BY ReachOfContents
<1>2. t \in Reach(Contents(t), kinds) <=> \E c \in Contents(t) : t \in Reach({c}, kinds)
  BY <1>1
<1> QED
  BY <1>2 DEF OnCycle

-----------------------------------------------------------------------------
(* The meaning of a type from the meaning of its contents                      *)

Clean(t) == ~ReachesCycle(t)
Meant(t) == [owned |-> Owns(t), views |-> Views(t), exclusive |-> Excludes(t)]

LEMMA CleanContents ==
  ASSUME Registered, NEW t \in Types, Clean(t), NEW c \in Contents(t)
  PROVE  c \in Types /\ Clean(c) /\ t \notin Reach({c}, Owning)
<1>1. c \in Types /\ registry[t].kind \in Owning
  BY ContentsOf
<1>2. Reach({c}, Owning) \subseteq Reach({t}, Owning) /\ t \in Reach({t}, Owning)
  <2>1. Reach({t}, Owning) = {t} \cup UNION {Reach({d}, Owning) : d \in Contents(t)}
    BY <1>1, ReachOpened
  <2> QED
    BY <2>1
<1>3. \A u \in Reach({t}, Owning) : ~OnCycle(u, Owning)
  BY DEF Clean, ReachesCycle, Owning
<1>4. Clean(c)
  BY <1>2, <1>3 DEF Clean, ReachesCycle, Owning
<1>5. ~OnCycle(t, Owning)
  BY <1>2, <1>3
<1> QED
  BY <1>1, <1>4, <1>5, OnCycleBy

LEMMA CleanFrom ==
  ASSUME Registered, NEW t \in Types,
         \A c \in Contents(t) : Clean(c) /\ t \notin Reach({c}, Owning)
  PROVE  Clean(t)
<1>1. ~OnCycle(t, Owning)
  BY OnCycleBy
<1>2. ASSUME NEW u \in Reach({t}, Owning) PROVE ~OnCycle(u, Owning)
  <2>1. u = t \/ \E c \in Contents(t) : u \in Reach({c}, Owning)
    <3>1. CASE registry[t].kind \in Owning
      <4>1. Reach({t}, Owning) = {t} \cup UNION {Reach({d}, Owning) : d \in Contents(t)}
        BY <3>1, ReachOpened
      <4> QED
        BY <1>2, <4>1
    <3>2. CASE registry[t].kind \notin Owning
      BY <1>2, <3>2, ReachOpened
    <3> QED
      BY <3>1, <3>2
  <2> QED
    BY <1>1, <2>1 DEF Clean, ReachesCycle, Owning
<1> QED
  BY <1>2 DEF Clean, ReachesCycle, Owning

LEMMA MeantOfLeaf ==
  ASSUME Registered, NEW t \in Types
  PROVE  /\ registry[t].kind = "text" => Meant(t) = OwnedWith(Ordinary)
         /\ registry[t].kind \in {"ref", "mutref"} =>
              Meant(t) = Reference(registry[t].kind = "mutref")
<1>1. ASSUME registry[t].kind \in Leaves
      PROVE  Reach({t}, Direct) = {t} /\ Reach({t}, Owning) = {t}
  <2>1. registry[t].kind \notin Direct /\ registry[t].kind \notin Owning
    BY <1>1 DEF Leaves, Direct, Owning
  <2> QED
    BY <2>1, ReachOpened
<1>2. ASSUME registry[t].kind \in Leaves
      PROVE  /\ Owns(t) <=> registry[t].kind = "text"
             /\ Views(t) <=> registry[t].kind # "text"
             /\ Excludes(t) <=> registry[t].kind = "mutref"
  BY <1>1, <1>2 DEF Leaves, Direct, Owning, Owns, Views, Excludes
<1>3. ASSUME registry[t].kind = "text" PROVE Meant(t) = OwnedWith(Ordinary)
  <2>1. Owns(t) = TRUE /\ Views(t) = FALSE /\ Excludes(t) = FALSE
    BY <1>2, <1>3 DEF Leaves, Owns, Views, Excludes
  <2>2. OwnedWith(Ordinary) = [owned |-> TRUE, views |-> FALSE, exclusive |-> FALSE]
    BY DEF OwnedWith, Ordinary
  <2> QED
    BY <2>1, <2>2 DEF Meant
<1>4. ASSUME registry[t].kind \in {"ref", "mutref"}
      PROVE  Meant(t) = Reference(registry[t].kind = "mutref")
  <2>1. ~Owns(t) /\ Views(t) /\ (Excludes(t) <=> registry[t].kind = "mutref")
    BY <1>2, <1>4 DEF Leaves
  <2>2. Owns(t) = FALSE /\ Views(t) = TRUE /\ Excludes(t) = (registry[t].kind = "mutref")
    BY <2>1 DEF Owns, Views, Excludes
  <2> QED
    BY <2>2 DEF Meant, Reference
<1> QED
  BY <1>3, <1>4

LEMMA MeantOfRecord ==
  ASSUME Registered, NEW t \in Types, registry[t].kind = "record"
  PROVE  /\ Owns(t) <=> \E c \in Contents(t) : Owns(c)
         /\ Views(t) <=> \E c \in Contents(t) : Views(c)
         /\ Excludes(t) <=> \E c \in Contents(t) : Excludes(c)
<1>1. /\ Reach({t}, Direct) = {t} \cup UNION {Reach({c}, Direct) : c \in Contents(t)}
      /\ Reach({t}, Owning) = {t} \cup UNION {Reach({c}, Owning) : c \in Contents(t)}
  BY ReachOpened DEF Direct, Owning
<1>2. \A u : u \in Reach({t}, Direct) <=> (u = t \/ \E c \in Contents(t) : u \in Reach({c}, Direct))
  BY <1>1
<1>3. \A u : u \in Reach({t}, Owning) <=> (u = t \/ \E c \in Contents(t) : u \in Reach({c}, Owning))
  BY <1>1
<1>4. Owns(t) <=> \E c \in Contents(t) : Owns(c)
  BY <1>2 DEF Owns, Direct
<1>5. Views(t) <=> \E c \in Contents(t) : Views(c)
  BY <1>3 DEF Views, Owning
<1>6. Excludes(t) <=> \E c \in Contents(t) : Excludes(c)
  BY <1>3 DEF Excludes, Owning
<1> QED
  BY <1>4, <1>5, <1>6

LEMMA MeantOfBox ==
  ASSUME Registered, NEW t \in Types, registry[t].kind = "box"
  PROVE  /\ Owns(t)
         /\ Views(t) <=> Views(registry[t].contents[1])
         /\ Excludes(t) <=> Excludes(registry[t].contents[1])
<1> DEFINE c == registry[t].contents[1]
<1>1. c \in Types /\ Contents(t) = {c}
  BY ContentsOf
<1>2. t \in Reach({t}, Direct)
  BY ReachItself
<1>3. Owns(t)
  BY <1>2 DEF Owns, Direct
<1>4. Reach({t}, Owning) = {t} \cup UNION {Reach({d}, Owning) : d \in Contents(t)}
  BY ReachOpened DEF Owning
<1>5. \A u : u \in Reach({t}, Owning) <=> (u = t \/ u \in Reach({c}, Owning))
  BY <1>1, <1>4
<1>6. Views(t) <=> Views(c)
  BY <1>5 DEF Views, Owning
<1>7. Excludes(t) <=> Excludes(c)
  BY <1>5 DEF Excludes, Owning
<1> QED
  BY <1>3, <1>6, <1>7

-----------------------------------------------------------------------------
(* Outcomes                                                                    *)

Facts == [owned : BOOLEAN, views : BOOLEAN, exclusive : BOOLEAN]
Outcomes == [ok : BOOLEAN, facts : Facts, caught : BOOLEAN]

LEMMA OutcomeTypes ==
  /\ Ordinary \in Facts
  /\ \A exclusive \in BOOLEAN : Reference(exclusive) \in Facts
  /\ \A facts \in Facts : OwnedWith(facts) \in Facts
  /\ \A facts \in Facts, caught \in BOOLEAN :
       Success(facts, caught) \in Outcomes /\ OwnershipCycle(caught) \in Outcomes
  /\ \A payload \in Outcomes : Indirect(payload) \in Outcomes
  /\ \A sofar, child \in Outcomes : Include(sofar, child) \in Outcomes
<1>1. Ordinary \in Facts /\ \A exclusive \in BOOLEAN : Reference(exclusive) \in Facts
  BY DEF Ordinary, Reference, Facts
<1>2. \A facts \in Facts : OwnedWith(facts) \in Facts
  BY DEF OwnedWith, Facts
<1>3. \A facts \in Facts, caught \in BOOLEAN :
        Success(facts, caught) \in Outcomes /\ OwnershipCycle(caught) \in Outcomes
  BY <1>1 DEF Success, OwnershipCycle, Outcomes
<1>4. \A sofar, child \in Facts : MergeContents(sofar, child) \in Facts
  BY DEF MergeContents, Facts
<1>5. \A outcome \in Outcomes : outcome.facts \in Facts /\ outcome.ok \in BOOLEAN /\ outcome.caught \in BOOLEAN
  BY DEF Outcomes
<1>6. \A payload \in Outcomes : Indirect(payload) \in Outcomes
  BY <1>1, <1>2, <1>3, <1>5 DEF Indirect
<1>7. ASSUME NEW sofar \in Outcomes, NEW child \in Outcomes PROVE Include(sofar, child) \in Outcomes
  <2>1. MergeContents(sofar.facts, child.facts) \in Facts
    BY <1>4, <1>5
  <2>2. (sofar.caught \/ child.caught) \in BOOLEAN
    BY <1>5
  <2> QED
    BY <1>3, <1>1, <2>1, <2>2 DEF Include
<1> QED
  BY <1>1, <1>2, <1>3, <1>6, <1>7

\* The outcomes of the contents, included one after the other.
Inclusion(sofar, contents, outcomes) ==
  /\ sofar \in [0..Len(contents) -> Outcomes]
  /\ sofar[0] = Success(Ordinary, FALSE)
  /\ \A n \in 1..Len(contents) : sofar[n] = Include(sofar[n - 1], outcomes[contents[n]])

LEMMA IncludedStages ==
  ASSUME NEW contents \in Seq(Types), NEW outcomes \in [Types -> Outcomes]
  PROVE  \E sofar : /\ Inclusion(sofar, contents, outcomes)
                    /\ Included(contents, outcomes) = sofar[Len(contents)]
<1> DEFINE N == Len(contents)
           none == Success(Ordinary, FALSE)
           F(h) == [n \in 0..N |-> IF n = 0 THEN none ELSE Include(h[n - 1], outcomes[contents[n]])]
           step == [x \in Outcomes \X (1..N) |-> Include(x[1], outcomes[contents[x[2]]])]
           g == CHOOSE h : h = F(h)
<1>1. N \in Nat
  OBVIOUS
<1>2. \A n \in 1..N : contents[n] \in Types
  BY ElementOfSeq
<1>3. none \in Outcomes
  BY OutcomeTypes
<1>4. step \in [Outcomes \X (1..N) -> Outcomes]
  <2>1. ASSUME NEW x \in Outcomes \X (1..N) PROVE step[x] \in Outcomes
    <3>1. x[1] \in Outcomes /\ outcomes[contents[x[2]]] \in Outcomes
      BY <1>2
    <3>2. Include(x[1], outcomes[contents[x[2]]]) \in Outcomes
      BY <3>1, OutcomeTypes
    <3> QED
      BY <3>2
  <2> QED
    BY <2>1
<1>5. PICK f \in [0..N -> Outcomes] : Follows(f, none, step, N)
  <2> HIDE DEF step, N, none
  <2> QED
    BY <1>1, <1>3, <1>4, Iterates
<1>6. f = F(f)
  <2>1. ASSUME NEW n \in 1..N PROVE f[n] = Include(f[n - 1], outcomes[contents[n]])
    <3>1. n - 1 \in 0..N
      BY <1>1
    <3>2. <<f[n - 1], n>> \in Outcomes \X (1..N)
      BY <3>1
    <3>3. f[n] = step[<<f[n - 1], n>>]
      BY <1>5 DEF Follows
    <3> QED
      BY <3>2, <3>3
  <2>2. \A n \in 0..N : f[n] = IF n = 0 THEN none ELSE Include(f[n - 1], outcomes[contents[n]])
    <3>1. \A n \in 0..N : n # 0 => n \in 1..N
      BY <1>1
    <3> HIDE DEF N, none
    <3> QED
      BY <1>5, <2>1, <3>1 DEF Follows
  <2> HIDE DEF N, none
  <2> QED
    BY <2>2
<1>7. g = F(g)
  <2> HIDE DEF F
  <2> QED
    BY <1>6
<1>8. Included(contents, outcomes) = g[N]
  BY DEF Included
<1>9. Inclusion(g, contents, outcomes)
  <2>1. ASSUME NEW n \in 0..N
        PROVE  g[n] = IF n = 0 THEN none ELSE Include(g[n - 1], outcomes[contents[n]])
    <3> HIDE DEF g, N, none
    <3> QED
      BY <1>7
  <2>2. \A n \in 1..N : n \in 0..N /\ n # 0
    BY <1>1
  <2>3. g = [n \in 0..N |-> g[n]]
    <3> HIDE DEF g, N, none
    <3> QED
      BY <1>7
  <2>4. 0 \in 0..N
    BY <1>1
  <2> DEFINE U == {n \in 0..N : g[n] \in Outcomes}
  <2> HIDE DEF g, F, none
  <2>5. 0 \in U
    BY <1>3, <2>1, <2>4
  <2>6. ASSUME NEW n \in 0..(N - 1), n \in U PROVE n + 1 \in U
    <3>1. n + 1 \in 0..N /\ n + 1 # 0 /\ (n + 1) - 1 = n /\ n + 1 \in 1..N
      BY <1>1
    <3>2. g[n + 1] = Include(g[n], outcomes[contents[n + 1]])
      BY <2>1, <3>1
    <3>3. g[n] \in Outcomes /\ outcomes[contents[n + 1]] \in Outcomes
      BY <1>2, <2>6, <3>1
    <3>4. g[n + 1] \in Outcomes
      BY <3>2, <3>3, OutcomeTypes
    <3> QED
      BY <3>1, <3>4
  <2>7. ASSUME NEW n \in 0..N PROVE g[n] \in Outcomes
    <3>1. n \in Nat /\ \A m \in 0..(n - 1) : m \in 0..(N - 1)
      BY <1>1
    <3>2. n \in U
      <4> HIDE DEF U
      <4> QED
        BY <2>5, <2>6, <3>1, UpToN
    <3> QED
      BY <3>2
  <2>8. g \in [0..N -> Outcomes]
    BY <2>3, <2>7
  <2>9. g[0] = none
    BY <2>1, <2>4
  <2>10. \A n \in 1..N : g[n] = Include(g[n - 1], outcomes[contents[n]])
    BY <2>1, <2>2
  <2> QED
    BY <2>8, <2>9, <2>10 DEF Inclusion, none
<1> HIDE DEF g
<1> QED
  BY <1>8, <1>9

\* What n of the contents add up to.
Sums(outcome, contents, outcomes, n) ==
  /\ outcome.ok <=> \A i \in 1..n : outcomes[contents[i]].ok
  /\ outcome.ok =>
       /\ outcome.facts.owned <=> \E i \in 1..n : outcomes[contents[i]].facts.owned
       /\ outcome.facts.views <=> \E i \in 1..n : outcomes[contents[i]].facts.views
       /\ outcome.facts.exclusive <=> \E i \in 1..n : outcomes[contents[i]].facts.exclusive
       /\ outcome.caught <=> \E i \in 1..n : outcomes[contents[i]].caught

LEMMA OneMore ==
  ASSUME NEW contents \in Seq(Types), NEW outcomes \in [Types -> Outcomes],
         NEW n \in Nat, n + 1 \in DOMAIN contents,
         NEW sofar \in Outcomes, Sums(sofar, contents, outcomes, n)
  PROVE  Sums(Include(sofar, outcomes[contents[n + 1]]), contents, outcomes, n + 1)
<1> DEFINE child == outcomes[contents[n + 1]]
<1>1. \A i : i \in 1..(n + 1) <=> (i \in 1..n \/ i = n + 1)
  OBVIOUS
<1>2. CASE ~sofar.ok
  <2>1. Include(sofar, child) = sofar
    BY <1>2 DEF Include
  <2> QED
    BY <1>1, <1>2, <2>1 DEF Sums
<1>3. CASE sofar.ok /\ ~child.ok
  <2>1. Include(sofar, child).ok = FALSE
    BY <1>3 DEF Include, OwnershipCycle
  <2> QED
    BY <1>1, <1>3, <2>1 DEF Sums
<1>4. CASE sofar.ok /\ child.ok
  <2> DEFINE new == Include(sofar, child)
  <2>1. /\ new.ok
        /\ new.facts.owned <=> (sofar.facts.owned \/ child.facts.owned)
        /\ new.facts.views <=> (sofar.facts.views \/ child.facts.views)
        /\ new.facts.exclusive <=> (sofar.facts.exclusive \/ child.facts.exclusive)
        /\ new.caught <=> (sofar.caught \/ child.caught)
    BY <1>4 DEF Include, Success, MergeContents
  <2> HIDE DEF new
  <2>2. new.ok <=> \A i \in 1..(n + 1) : outcomes[contents[i]].ok
    BY <1>1, <1>4, <2>1 DEF Sums
  <2>3. new.facts.owned <=> \E i \in 1..(n + 1) : outcomes[contents[i]].facts.owned
    BY <1>1, <1>4, <2>1 DEF Sums
  <2>4. new.facts.views <=> \E i \in 1..(n + 1) : outcomes[contents[i]].facts.views
    BY <1>1, <1>4, <2>1 DEF Sums
  <2>5. new.facts.exclusive <=> \E i \in 1..(n + 1) : outcomes[contents[i]].facts.exclusive
    BY <1>1, <1>4, <2>1 DEF Sums
  <2>6. new.caught <=> \E i \in 1..(n + 1) : outcomes[contents[i]].caught
    BY <1>1, <1>4, <2>1 DEF Sums
  <2>7. Sums(new, contents, outcomes, n + 1)
    BY <2>2, <2>3, <2>4, <2>5, <2>6 DEF Sums
  <2> QED
    BY <2>7 DEF new
<1> QED
  BY <1>2, <1>3, <1>4

LEMMA IncludedSums ==
  ASSUME NEW contents \in Seq(Types), NEW outcomes \in [Types -> Outcomes]
  PROVE  /\ Included(contents, outcomes) \in Outcomes
         /\ Sums(Included(contents, outcomes), contents, outcomes, Len(contents))
<1>1. PICK sofar : /\ Inclusion(sofar, contents, outcomes)
                   /\ Included(contents, outcomes) = sofar[Len(contents)]
  BY IncludedStages
<1> DEFINE N == Len(contents)
           U == {n \in 0..N : Sums(sofar[n], contents, outcomes, n)}
<1>2. N \in Nat /\ DOMAIN contents = 1..N
  OBVIOUS
<1>3. 0 \in U
  <2>1. sofar[0] = Success(Ordinary, FALSE) /\ 1..0 = {} /\ 0 \in 0..N
    BY <1>1, <1>2 DEF Inclusion
  <2>2. Sums(Success(Ordinary, FALSE), contents, outcomes, 0)
    BY <2>1 DEF Sums, Success, Ordinary
  <2> QED
    BY <2>1, <2>2
<1>4. ASSUME NEW n \in 0..(N - 1), n \in U PROVE n + 1 \in U
  <2>1. n + 1 \in 1..N /\ n + 1 \in 0..N /\ (n + 1) - 1 = n /\ n \in 0..N /\ n \in Nat
    BY <1>2
  <2>2. sofar[n + 1] = Include(sofar[n], outcomes[contents[n + 1]]) /\ sofar[n] \in Outcomes
    BY <1>1, <2>1 DEF Inclusion
  <2>3. n + 1 \in DOMAIN contents /\ Sums(sofar[n], contents, outcomes, n)
    BY <1>2, <1>4, <2>1
  <2>4. Sums(sofar[n + 1], contents, outcomes, n + 1)
    BY <2>1, <2>2, <2>3, OneMore
  <2> QED
    BY <2>1, <2>4
<1>5. N \in U
  <2> HIDE DEF U
  <2> QED
    BY <1>2, <1>3, <1>4, UpToN
<1>6. sofar[N] \in Outcomes
  <2>1. N \in 0..N
    BY <1>2
  <2> QED
    BY <1>1, <2>1 DEF Inclusion
<1> QED
  BY <1>1, <1>5, <1>6

LEMMA IncludedSame ==
  ASSUME NEW contents \in Seq(Types), NEW a \in [Types -> Outcomes], NEW b \in [Types -> Outcomes],
         \A i \in DOMAIN contents : a[contents[i]] = b[contents[i]]
  PROVE  Included(contents, a) = Included(contents, b)
<1> DEFINE N == Len(contents)
<1>1. PICK f : Inclusion(f, contents, a) /\ Included(contents, a) = f[N]
  BY IncludedStages
<1>2. PICK g : Inclusion(g, contents, b) /\ Included(contents, b) = g[N]
  BY IncludedStages
<1> DEFINE U == {n \in 0..N : f[n] = g[n]}
<1>3. N \in Nat /\ DOMAIN contents = 1..N
  OBVIOUS
<1>4. 0 \in U
  <2>1. 0 \in 0..N
    BY <1>3
  <2>2. f[0] = g[0]
    BY <1>1, <1>2 DEF Inclusion
  <2> QED
    BY <2>1, <2>2
<1>5. ASSUME NEW n \in 0..(N - 1), n \in U PROVE n + 1 \in U
  <2>1. n + 1 \in 1..N /\ n + 1 \in 0..N /\ (n + 1) - 1 = n
    BY <1>3
  <2>2. /\ f[n + 1] = Include(f[n], a[contents[n + 1]])
        /\ g[n + 1] = Include(g[n], b[contents[n + 1]])
    BY <1>1, <1>2, <2>1 DEF Inclusion
  <2> QED
    BY <1>3, <1>5, <2>1, <2>2
<1>6. N \in U
  <2> HIDE DEF U
  <2> QED
    BY <1>3, <1>4, <1>5, UpToN
<1> QED
  BY <1>1, <1>2, <1>6

-----------------------------------------------------------------------------
(* The outcome of one type from the outcomes of its contents                   *)

KnownFacts(known) == \A t \in Types : t \in DOMAIN known => known[t] \in Facts

LEMMA OutcomeByKind ==
  ASSUME Registered, NEW t \in Types, NEW outcomes, NEW known
  PROVE  /\ t \in DOMAIN known => OutcomeOf(t, outcomes, known) = Success(known[t], FALSE)
         /\ t \notin DOMAIN known =>
              /\ registry[t].kind = "text" =>
                   OutcomeOf(t, outcomes, known) = Success(OwnedWith(Ordinary), FALSE)
              /\ registry[t].kind \in {"ref", "mutref"} =>
                   OutcomeOf(t, outcomes, known) = Success(Reference(registry[t].kind = "mutref"), FALSE)
              /\ registry[t].kind = "box" =>
                   OutcomeOf(t, outcomes, known) = Indirect(outcomes[registry[t].contents[1]])
              /\ registry[t].kind = "record" =>
                   OutcomeOf(t, outcomes, known) = Included(registry[t].contents, outcomes)
BY DEF OutcomeOf

LEMMA OutcomeOfIn ==
  ASSUME Registered, NEW t \in Types, NEW outcomes \in [Types -> Outcomes],
         NEW known, KnownFacts(known)
  PROVE  OutcomeOf(t, outcomes, known) \in Outcomes
<1>1. CASE t \in DOMAIN known
  <2>1. known[t] \in Facts
    BY <1>1 DEF KnownFacts
  <2>2. OutcomeOf(t, outcomes, known) = Success(known[t], FALSE)
    BY <1>1, OutcomeByKind
  <2> QED
    BY <2>1, <2>2, OutcomeTypes
<1>2. CASE t \notin DOMAIN known
  <2>1. CASE registry[t].kind = "text"
    <3>1. OutcomeOf(t, outcomes, known) = Success(OwnedWith(Ordinary), FALSE)
      BY <1>2, <2>1, OutcomeByKind
    <3> QED
      BY <3>1, OutcomeTypes
  <2>2. CASE registry[t].kind \in {"ref", "mutref"}
    <3>1. OutcomeOf(t, outcomes, known) = Success(Reference(registry[t].kind = "mutref"), FALSE)
      BY <1>2, <2>2 DEF OutcomeOf
    <3>2. (registry[t].kind = "mutref") \in BOOLEAN
      OBVIOUS
    <3> QED
      BY <3>1, <3>2, OutcomeTypes
  <2>3. CASE registry[t].kind = "box"
    <3>1. OutcomeOf(t, outcomes, known) = Indirect(outcomes[registry[t].contents[1]])
      BY <1>2, <2>3, OutcomeByKind
    <3>2. registry[t].contents[1] \in Types
      BY <2>3, ContentsOf
    <3> QED
      BY <3>1, <3>2, OutcomeTypes
  <2>4. CASE registry[t].kind = "record"
    <3>1. OutcomeOf(t, outcomes, known) = Included(registry[t].contents, outcomes)
      BY <1>2, <2>4, OutcomeByKind
    <3>2. registry[t].contents \in Seq(Types)
      BY ShapeOf
    <3> QED
      BY <3>1, <3>2, IncludedSums
  <2> QED
    BY <2>1, <2>2, <2>3, <2>4, ShapeOf DEF Kinds
<1> QED
  BY <1>1, <1>2

\* Types whose contents have the same outcomes have the same outcome, unless one
\* is known.
LEMMA OutcomeOfSame ==
  ASSUME Registered, NEW t \in Types,
         NEW a \in [Types -> Outcomes], NEW b \in [Types -> Outcomes],
         \A c \in Contents(t) : a[c] = b[c],
         NEW known, t \notin DOMAIN known
  PROVE  OutcomeOf(t, a, known) = OutcomeOf(t, b, Empty)
<1>1. DOMAIN Empty = {}
  BY DEF Empty
<1>2. CASE registry[t].kind \in Leaves
  BY <1>1, <1>2 DEF OutcomeOf, Leaves
<1>3. CASE registry[t].kind = "box"
  <2>1. registry[t].contents[1] \in Contents(t)
    BY <1>3, ContentsOf
  <2> QED
    BY <1>1, <1>3, <2>1 DEF OutcomeOf
<1>4. CASE registry[t].kind = "record"
  <2>1. registry[t].contents \in Seq(Types)
    BY ShapeOf
  <2>2. \A i \in DOMAIN registry[t].contents : a[registry[t].contents[i]] = b[registry[t].contents[i]]
    BY DEF Contents
  <2>3. Included(registry[t].contents, a) = Included(registry[t].contents, b)
    BY <2>1, <2>2, IncludedSame
  <2> QED
    BY <1>1, <1>4, <2>3 DEF OutcomeOf
<1> QED
  BY <1>2, <1>3, <1>4, ShapeOf DEF Kinds, Leaves

LEMMA RecordOutcome ==
  ASSUME Registered, NEW t \in Types, registry[t].kind = "record",
         NEW outcomes \in [Types -> Outcomes], NEW known, t \notin DOMAIN known,
         NEW r, r = OutcomeOf(t, outcomes, known)
  PROVE  /\ r \in Outcomes
         /\ r.ok <=> \A c \in Contents(t) : outcomes[c].ok
         /\ r.ok =>
              /\ r.facts.owned <=> \E c \in Contents(t) : outcomes[c].facts.owned
              /\ r.facts.views <=> \E c \in Contents(t) : outcomes[c].facts.views
              /\ r.facts.exclusive <=> \E c \in Contents(t) : outcomes[c].facts.exclusive
              /\ r.caught <=> \E c \in Contents(t) : outcomes[c].caught
<1> DEFINE contents == registry[t].contents
<1>1. contents \in Seq(Types)
  BY ShapeOf
<1>2. r = Included(contents, outcomes)
  BY OutcomeByKind
<1>3. DOMAIN contents = 1..Len(contents)
  BY <1>1
<1>4. r \in Outcomes /\ Sums(r, contents, outcomes, Len(contents))
  BY <1>1, <1>2, IncludedSums
<1>5. \A c : c \in Contents(t) <=> \E i \in 1..Len(contents) : c = contents[i]
  BY <1>3 DEF Contents
<1> HIDE DEF contents
<1>6. r.ok <=> \A c \in Contents(t) : outcomes[c].ok
  BY <1>4, <1>5 DEF Sums
<1>7. ASSUME r.ok PROVE r.facts.owned <=> \E c \in Contents(t) : outcomes[c].facts.owned
  BY <1>4, <1>5, <1>7 DEF Sums
<1>8. ASSUME r.ok PROVE r.facts.views <=> \E c \in Contents(t) : outcomes[c].facts.views
  BY <1>4, <1>5, <1>8 DEF Sums
<1>9. ASSUME r.ok PROVE r.facts.exclusive <=> \E c \in Contents(t) : outcomes[c].facts.exclusive
  BY <1>4, <1>5, <1>9 DEF Sums
<1>10. ASSUME r.ok PROVE r.caught <=> \E c \in Contents(t) : outcomes[c].caught
  BY <1>4, <1>5, <1>10 DEF Sums
<1> QED
  BY <1>4, <1>6, <1>7, <1>8, <1>9, <1>10

-----------------------------------------------------------------------------
(* The descent, from larger to smaller sets of types under analysis            *)

LEMMA Smaller ==
  ASSUME NEW A \in SUBSET Types
  PROVE  /\ Cardinality(A) \in 0..Cardinality(Types)
         /\ Cardinality(A) = Cardinality(Types) => A = Types
         /\ \A t \in Types \ A : /\ A \cup {t} \in SUBSET Types
                                 /\ Cardinality(A \cup {t}) = Cardinality(A) + 1
                                 /\ Cardinality(A) + 1 \in 0..Cardinality(Types)
<1>1. ASSUME NEW B \in SUBSET Types
      PROVE  /\ IsFiniteSet(B)
             /\ Cardinality(B) \in 0..Cardinality(Types)
             /\ Cardinality(B) = Cardinality(Types) => B = Types
  <2>1. /\ IsFiniteSet(B)
        /\ Cardinality(B) <= Cardinality(Types)
        /\ Cardinality(B) = Cardinality(Types) => B = Types
    BY TypesFinite, FS_Subset
  <2>2. Cardinality(B) \in Nat
    BY <2>1, FS_CardinalityType
  <2> QED
    BY <2>1, <2>2, TypesFinite
<1>2. ASSUME NEW t \in Types \ A
      PROVE  /\ A \cup {t} \in SUBSET Types
             /\ Cardinality(A \cup {t}) = Cardinality(A) + 1
  BY <1>1, FS_AddElement
<1>3. ASSUME NEW t \in Types \ A PROVE Cardinality(A) + 1 \in 0..Cardinality(Types)
  <2>1. Cardinality(A \cup {t}) \in 0..Cardinality(Types)
    BY <1>1, <1>2
  <2> QED
    BY <1>2, <2>1
<1> QED
  BY <1>1, <1>2, <1>3

\* What holds of a set of types that it holds of the larger ones for, holds of all.
LEMMA BackFromTypes ==
  ASSUME NEW G, \A A \in SUBSET Types : (\A t \in Types \ A : A \cup {t} \in G) => A \in G
  PROVE  \A A \in SUBSET Types : A \in G
<1> DEFINE N == Cardinality(Types)
           H == {o \in 0..N : \A A \in SUBSET Types : Cardinality(A) = o => A \in G}
<1>1. N \in Nat
  BY TypesFinite
<1>2. ASSUME NEW o \in 0..N, \A p \in (o + 1)..N : p \in H PROVE o \in H
  <2>1. ASSUME NEW A \in SUBSET Types, Cardinality(A) = o PROVE A \in G
    <3>1. ASSUME NEW t \in Types \ A PROVE A \cup {t} \in G
      <4>1. /\ A \cup {t} \in SUBSET Types
            /\ Cardinality(A \cup {t}) = o + 1
            /\ o + 1 \in 0..N
        BY <2>1, Smaller
      <4>2. o + 1 \in H
        <5>1. o + 1 \in (o + 1)..N
          BY <4>1
        <5> QED
          BY <1>2, <5>1
      <4> QED
        BY <4>1, <4>2
    <3> QED
      BY <3>1
  <2> QED
    BY <2>1
<1>3. \A o \in 0..N : o \in H
  <2> HIDE DEF H, N
  <2> QED
    BY <1>1, <1>2, BackFromN
<1> QED
  <2>1. SUFFICES ASSUME NEW A \in SUBSET Types PROVE A \in G
    OBVIOUS
  <2>2. Cardinality(A) \in 0..N
    BY Smaller
  <2>3. Cardinality(A) \in H
    BY <1>3, <2>2
  <2> QED
    BY <2>3

Level(active, within, known) ==
  [t \in Types |-> IF t \in active THEN OwnershipCycle(FALSE)
                   ELSE OutcomeOf(t, within[active \cup {t}], known)]

Bottom == [t \in Types |-> OwnershipCycle(FALSE)]

LEMMA LevelIn ==
  ASSUME Registered, NEW known, KnownFacts(known),
         NEW active \in SUBSET Types, NEW within,
         \A t \in Types \ active : within[active \cup {t}] \in [Types -> Outcomes]
  PROVE  Level(active, within, known) \in [Types -> Outcomes]
<1>1. ASSUME NEW t \in Types
      PROVE  (IF t \in active THEN OwnershipCycle(FALSE)
              ELSE OutcomeOf(t, within[active \cup {t}], known)) \in Outcomes
  <2>1. CASE t \in active
    BY <2>1, OutcomeTypes
  <2>2. CASE t \notin active
    <3>1. within[active \cup {t}] \in [Types -> Outcomes]
      BY <2>2
    <3> QED
      BY <2>2, <3>1, OutcomeOfIn
  <2> QED
    BY <2>1, <2>2
<1> QED
  BY <1>1 DEF Level

LEMMA LevelSame ==
  ASSUME NEW known, NEW active \in SUBSET Types, NEW a, NEW b,
         \A t \in Types \ active : a[active \cup {t}] = b[active \cup {t}]
  PROVE  Level(active, a, known) = Level(active, b, known)
BY DEF Level

\* The recursive function exists ...
LEMMA DescentExists ==
  ASSUME Registered, NEW known, KnownFacts(known)
  PROVE  \E within \in [SUBSET Types -> [Types -> Outcomes]] :
           \A active \in SUBSET Types : within[active] = Level(active, within, known)
<1> DEFINE N == Cardinality(Types)
           O == [Types -> Outcomes]
           V == [SUBSET Types -> O]
           Part(o, g) == [active \in SUBSET Types |->
                            IF Cardinality(active) = o /\ o < N
                            THEN Level(active, g[o + 1], known) ELSE Bottom]
           step == [x \in (0..N) \X [0..N -> V] |-> Part(x[1], x[2])]
<1>1. N \in Nat
  BY TypesFinite
<1>2. Bottom \in O
  BY OutcomeTypes DEF Bottom
<1>3. V # {}
  <2>1. [active \in SUBSET Types |-> Bottom] \in V
    BY <1>2
  <2> QED
    BY <2>1
<1>4. ASSUME NEW o \in 0..N, NEW g \in [0..N -> V] PROVE Part(o, g) \in V
  <2>1. ASSUME NEW active \in SUBSET Types, o < N PROVE Level(active, g[o + 1], known) \in O
    <3>1. g[o + 1] \in V
      <4>1. o + 1 \in 0..N
        BY <1>1, <2>1
      <4> HIDE DEF N, V
      <4> QED
        BY <4>1
    <3>2. \A t \in Types \ active : g[o + 1][active \cup {t}] \in O
      BY <3>1
    <3> QED
      BY <3>2, LevelIn
  <2> HIDE DEF O
  <2> QED
    BY <1>2, <2>1
<1>5. ASSUME NEW o \in 0..N, NEW g \in [0..N -> V], NEW h \in [0..N -> V],
             \A p \in (o + 1)..N : g[p] = h[p]
      PROVE  Part(o, g) = Part(o, h)
  <2>1. ASSUME o < N PROVE g[o + 1] = h[o + 1]
    BY <1>1, <1>5, <2>1
  <2> QED
    BY <2>1
<1> HIDE DEF Part, O, V, N
<1>6. LooksAhead(step, N, V)
  <2>1. step \in [(0..N) \X [0..N -> V] -> V]
    BY <1>4
  <2>2. ASSUME NEW o \in 0..N, NEW g \in [0..N -> V], NEW h \in [0..N -> V],
               \A p \in (o + 1)..N : g[p] = h[p]
        PROVE  step[<<o, g>>] = step[<<o, h>>]
    <3>1. step[<<o, g>>] = Part(o, g) /\ step[<<o, h>>] = Part(o, h)
      OBVIOUS
    <3> QED
      BY <1>5, <2>2, <3>1
  <2> HIDE DEF step
  <2> QED
    BY <2>1, <2>2 DEF LooksAhead
<1>7. PICK h \in [0..N -> V] : \A o \in 0..N : h[o] = Part(o, h)
  <2>1. PICK h \in [0..N -> V] : Computed(h, step, N)
    <3> HIDE DEF step
    <3> QED
      BY <1>1, <1>3, <1>6, ComputedFromN
  <2>2. ASSUME NEW o \in 0..N PROVE h[o] = Part(o, h)
    <3>1. h[o] = step[<<o, h>>]
      BY <2>1 DEF Computed
    <3> QED
      BY <3>1
  <2> QED
    BY <2>2
<1> DEFINE f == [active \in SUBSET Types |-> h[Cardinality(active)][active]]
<1>8. f \in [SUBSET Types -> O]
  <2>1. ASSUME NEW A \in SUBSET Types PROVE h[Cardinality(A)][A] \in O
    <3>1. Cardinality(A) \in 0..N
      BY Smaller DEF N
    <3> QED
      BY <1>7, <3>1 DEF V
  <2> QED
    BY <2>1
<1>9. ASSUME NEW A \in SUBSET Types PROVE f[A] = Level(A, f, known)
  <2>1. Cardinality(A) \in 0..N
    BY Smaller DEF N
  <2>2. f[A] = Part(Cardinality(A), h)[A]
    BY <1>7, <2>1
  <2>3. CASE Cardinality(A) < N
    <3>1. f[A] = Level(A, h[Cardinality(A) + 1], known)
      BY <2>1, <2>2, <2>3 DEF Part
    <3>2. \A t \in Types \ A : f[A \cup {t}] = h[Cardinality(A) + 1][A \cup {t}]
      BY Smaller
    <3> HIDE DEF f
    <3>3. Level(A, h[Cardinality(A) + 1], known) = Level(A, f, known)
      BY <3>2, LevelSame
    <3> QED
      BY <3>1, <3>3
  <2>4. CASE ~ (Cardinality(A) < N)
    <3>1. f[A] = Bottom
      BY <2>1, <2>2, <2>4 DEF Part
    <3>2. A = Types
      <4>1. Cardinality(A) = N
        BY <1>1, <2>1, <2>4
      <4> QED
        BY <4>1, Smaller DEF N
    <3>3. Level(A, f, known) = Bottom
      BY <3>2 DEF Level, Bottom
    <3> QED
      BY <3>1, <3>3
  <2> QED
    BY <2>3, <2>4
<1> HIDE DEF f
<1> QED
  BY <1>8, <1>9 DEF O

\* ... and the descent is it.
Descended(within, known) ==
  /\ within \in [SUBSET Types -> [Types -> Outcomes]]
  /\ \A active \in SUBSET Types, t \in Types :
       within[active][t] = IF t \in active THEN OwnershipCycle(FALSE)
                           ELSE OutcomeOf(t, within[active \cup {t}], known)

LEMMA DescentSteps ==
  ASSUME Registered, NEW known, KnownFacts(known)
  PROVE  Descended(Descent(known), known)
<1> DEFINE F(h) == [active \in SUBSET Types |->
                      [t \in Types |-> IF t \in active THEN OwnershipCycle(FALSE)
                                       ELSE OutcomeOf(t, h[active \cup {t}], known)]]
           g == CHOOSE h : h = F(h)
<1>1. \A h : F(h) = [active \in SUBSET Types |-> Level(active, h, known)]
  BY DEF Level
<1>2. Descent(known) = g
  BY DEF Descent
<1>3. PICK f \in [SUBSET Types -> [Types -> Outcomes]] :
        \A active \in SUBSET Types : f[active] = Level(active, f, known)
  BY DescentExists
<1> HIDE DEF F
<1>4. f = F(f)
  <2>1. f = [active \in SUBSET Types |-> Level(active, f, known)]
    BY <1>3
  <2> QED
    BY <1>1, <2>1
<1>5. g = F(g)
  BY <1>4
<1> HIDE DEF g
<1>6. g = [active \in SUBSET Types |-> Level(active, g, known)]
  BY <1>1, <1>5
<1>7. \A active \in SUBSET Types : g[active] = Level(active, g, known)
  BY <1>6
<1> DEFINE G == {A \in SUBSET Types : g[A] \in [Types -> Outcomes]}
<1>8. ASSUME NEW A \in SUBSET Types, \A t \in Types \ A : A \cup {t} \in G PROVE A \in G
  <2>1. \A t \in Types \ A : g[A \cup {t}] \in [Types -> Outcomes]
    BY <1>8
  <2>2. Level(A, g, known) \in [Types -> Outcomes]
    BY <2>1, LevelIn
  <2> QED
    BY <1>7, <2>2
<1>9. \A A \in SUBSET Types : A \in G
  <2> HIDE DEF G
  <2> QED
    BY <1>8, BackFromTypes
<1>10. g \in [SUBSET Types -> [Types -> Outcomes]]
  BY <1>6, <1>9
<1>11. ASSUME NEW active \in SUBSET Types, NEW t \in Types
       PROVE  g[active][t] = IF t \in active THEN OwnershipCycle(FALSE)
                             ELSE OutcomeOf(t, g[active \cup {t}], known)
  BY <1>7 DEF Level
<1> QED
  BY <1>2, <1>10, <1>11 DEF Descended

-----------------------------------------------------------------------------
(* What the descent computes                                                   *)

\* What the cache holds: the facts that the types mean, of types that reach no cycle.
Good(known) == \A t \in Types : t \in DOMAIN known => Clean(t) /\ known[t] = Meant(t)

LEMMA MeantIn == \A t : Meant(t) \in Facts
<1>1. ASSUME NEW t PROVE Owns(t) \in BOOLEAN /\ Views(t) \in BOOLEAN /\ Excludes(t) \in BOOLEAN
  BY DEF Owns, Views, Excludes
<1> QED
  BY <1>1 DEF Meant, Facts

LEMMA GoodFacts == \A known : Good(known) => KnownFacts(known)
BY MeantIn DEF Good, KnownFacts

LEMMA EmptyGood == Good(Empty)
<1>1. DOMAIN Empty = {}
  BY DEF Empty
<1> QED
  BY <1>1 DEF Good

\* The outcome that says what a type means.
LEMMA OutcomeIs ==
  ASSUME NEW t, NEW r \in Outcomes, r.ok, ~r.caught,
         r.facts.owned <=> Owns(t), r.facts.views <=> Views(t), r.facts.exclusive <=> Excludes(t)
  PROVE  r = Success(Meant(t), FALSE)
<1>1. Owns(t) \in BOOLEAN /\ Views(t) \in BOOLEAN /\ Excludes(t) \in BOOLEAN
  BY DEF Owns, Views, Excludes
<1>2. r.facts \in Facts /\ r.ok \in BOOLEAN /\ r.caught \in BOOLEAN
  BY DEF Outcomes
<1>3. /\ r.facts.owned \in BOOLEAN /\ r.facts.views \in BOOLEAN /\ r.facts.exclusive \in BOOLEAN
      /\ r.facts = [owned |-> r.facts.owned, views |-> r.facts.views, exclusive |-> r.facts.exclusive]
  BY <1>2 DEF Facts
<1>4. r.facts.owned = Owns(t) /\ r.facts.views = Views(t) /\ r.facts.exclusive = Excludes(t)
  BY <1>1, <1>3
<1>5. r.facts = Meant(t)
  BY <1>3, <1>4 DEF Meant
<1>6. r = [ok |-> r.ok, facts |-> r.facts, caught |-> r.caught]
  BY DEF Outcomes
<1>7. r.ok = TRUE /\ r.caught = FALSE
  BY <1>2
<1> QED
  BY <1>5, <1>6, <1>7 DEF Success

LEMMA SuccessOf ==
  ASSUME NEW t
  PROVE  LET r == Success(Meant(t), FALSE)
         IN  /\ r.ok
             /\ ~r.caught
             /\ r.facts.owned <=> Owns(t)
             /\ r.facts.views <=> Views(t)
             /\ r.facts.exclusive <=> Excludes(t)
BY DEF Success, Meant

LEMMA IndirectOf ==
  ASSUME NEW payload \in Outcomes
  PROVE  LET r == Indirect(payload)
         IN  /\ r \in Outcomes
             /\ r.ok
             /\ r.facts.owned
             /\ payload.ok => /\ r.caught <=> payload.caught
                              /\ r.facts.views <=> payload.facts.views
                              /\ r.facts.exclusive <=> payload.facts.exclusive
             /\ ~payload.ok => r.caught /\ ~r.facts.views /\ ~r.facts.exclusive
<1>1. Indirect(payload) \in Outcomes
  BY OutcomeTypes
<1>2. CASE payload.ok
  BY <1>1, <1>2 DEF Indirect, Success, OwnedWith
<1>3. CASE ~payload.ok
  BY <1>1, <1>3 DEF Indirect, Success, OwnedWith, Ordinary
<1> QED
  BY <1>2, <1>3

\* The outcome r of a type from those of its contents.
RecordFrom(r, t, outcomes) ==
  /\ r.ok <=> \A c \in Contents(t) : outcomes[c].ok
  /\ r.ok =>
       /\ r.facts.owned <=> \E c \in Contents(t) : outcomes[c].facts.owned
       /\ r.facts.views <=> \E c \in Contents(t) : outcomes[c].facts.views
       /\ r.facts.exclusive <=> \E c \in Contents(t) : outcomes[c].facts.exclusive
       /\ r.caught <=> \E c \in Contents(t) : outcomes[c].caught

BoxFrom(r, payload) ==
  /\ r.ok
  /\ r.facts.owned
  /\ payload.ok => /\ r.caught <=> payload.caught
                   /\ r.facts.views <=> payload.facts.views
                   /\ r.facts.exclusive <=> payload.facts.exclusive
  /\ ~payload.ok => r.caught /\ ~r.facts.views /\ ~r.facts.exclusive

From(r, t, outcomes) ==
  /\ registry[t].kind \in Leaves => r = Success(Meant(t), FALSE)
  /\ registry[t].kind = "box" => BoxFrom(r, outcomes[registry[t].contents[1]])
  /\ registry[t].kind = "record" => RecordFrom(r, t, outcomes)

LEMMA DescentFrom ==
  ASSUME Registered, NEW known, Good(known), NEW A \in SUBSET Types, NEW t \in Types
  PROVE  /\ Descent(known)[A][t] \in Outcomes
         /\ t \in A => ~Descent(known)[A][t].ok
         /\ t \notin A /\ t \in DOMAIN known => Descent(known)[A][t] = Success(Meant(t), FALSE)
         /\ t \notin A /\ t \notin DOMAIN known =>
              From(Descent(known)[A][t], t, Descent(known)[A \cup {t}])
<1> DEFINE D == Descent(known)
           r == D[A][t]
           outcomes == D[A \cup {t}]
<1>1. Descended(D, known)
  BY GoodFacts, DescentSteps
<1>2. A \cup {t} \in SUBSET Types
  OBVIOUS
<1> HIDE DEF D
<1>3. r \in Outcomes /\ outcomes \in [Types -> Outcomes]
  BY <1>1, <1>2 DEF Descended
<1>4. r = IF t \in A THEN OwnershipCycle(FALSE) ELSE OutcomeOf(t, outcomes, known)
  BY <1>1 DEF Descended
<1>5. ASSUME t \in A PROVE ~r.ok
  BY <1>4, <1>5 DEF OwnershipCycle
<1>6. ASSUME t \notin A, t \in DOMAIN known PROVE r = Success(Meant(t), FALSE)
  <2>1. r = Success(known[t], FALSE)
    BY <1>4, <1>6, OutcomeByKind
  <2> QED
    BY <1>6, <2>1 DEF Good
<1>7. ASSUME t \notin A, t \notin DOMAIN known PROVE From(r, t, outcomes)
  <2>1. r = OutcomeOf(t, outcomes, known)
    BY <1>4, <1>7
  <2> HIDE DEF r, outcomes
  <2>2. ASSUME registry[t].kind \in Leaves PROVE r = Success(Meant(t), FALSE)
    <3>1. CASE registry[t].kind = "text"
      BY <1>7, <2>1, <3>1, OutcomeByKind, MeantOfLeaf
    <3>2. CASE registry[t].kind \in {"ref", "mutref"}
      <4>1. r = Success(Reference(registry[t].kind = "mutref"), FALSE)
        BY <1>7, <2>1, <3>2 DEF OutcomeOf
      <4> QED
        BY <3>2, <4>1, MeantOfLeaf
    <3> QED
      BY <2>2, <3>1, <3>2 DEF Leaves
  <2>3. ASSUME registry[t].kind = "box" PROVE BoxFrom(r, outcomes[registry[t].contents[1]])
    <3>1. outcomes[registry[t].contents[1]] \in Outcomes
      BY <1>3, <2>3, ContentsOf
    <3>2. r = Indirect(outcomes[registry[t].contents[1]])
      BY <1>7, <2>1, <2>3, OutcomeByKind
    <3> QED
      BY <3>1, <3>2, IndirectOf DEF BoxFrom
  <2>4. ASSUME registry[t].kind = "record" PROVE RecordFrom(r, t, outcomes)
    BY <1>3, <1>7, <2>1, <2>4, RecordOutcome DEF RecordFrom
  <2> QED
    BY <2>2, <2>3, <2>4 DEF From
<1> QED
  BY <1>3, <1>5, <1>6, <1>7 DEF D

\* A type that reaches no cycle and none of the types under analysis has the facts
\* that it means, whatever is cached.
LEMMA DescentOfClean ==
  ASSUME Registered, NEW known, Good(known), NEW A \in SUBSET Types, NEW t \in Types,
         Clean(t), A \cap Reach({t}, Owning) = {}
  PROVE  Descent(known)[A][t] = Success(Meant(t), FALSE)
<1> DEFINE D == Descent(known)
           G == {B \in SUBSET Types :
                   \A u \in Types : Clean(u) /\ B \cap Reach({u}, Owning) = {}
                                      => D[B][u] = Success(Meant(u), FALSE)}
<1>1. ASSUME NEW B \in SUBSET Types, \A s \in Types \ B : B \cup {s} \in G PROVE B \in G
  <2>1. SUFFICES ASSUME NEW u \in Types, Clean(u), B \cap Reach({u}, Owning) = {}
                 PROVE  D[B][u] = Success(Meant(u), FALSE)
    OBVIOUS
  <2>2. u \notin B
    BY <2>1, ReachItself
  <2>3. CASE u \in DOMAIN known
    BY <2>2, <2>3, DescentFrom
  <2>4. CASE u \notin DOMAIN known
    <3> DEFINE r == D[B][u]
               outcomes == D[B \cup {u}]
    <3>1. r \in Outcomes /\ From(r, u, outcomes)
      BY <2>2, <2>4, DescentFrom
    <3>2. ASSUME NEW c \in Contents(u)
          PROVE  c \in Types /\ outcomes[c] = Success(Meant(c), FALSE)
      <4>1. c \in Types /\ Clean(c) /\ u \notin Reach({c}, Owning)
        BY <2>1, CleanContents
      <4>2. registry[u].kind \in Owning
        BY ContentsOf
      <4>3. Reach({u}, Owning) = {u} \cup UNION {Reach({d}, Owning) : d \in Contents(u)}
        BY <4>2, ReachOpened
      <4>4. (B \cup {u}) \cap Reach({c}, Owning) = {}
        BY <2>1, <4>1, <4>3
      <4>5. B \cup {u} \in G
        BY <1>1, <2>2
      <4> QED
        BY <4>1, <4>4, <4>5
    <3> HIDE DEF r, outcomes, D
    <3>3. CASE registry[u].kind \in Leaves
      BY <3>1, <3>3 DEF From, r
    <3>4. CASE registry[u].kind = "box"
      <4> DEFINE c == registry[u].contents[1]
      <4>1. c \in Contents(u)
        BY <3>4, ContentsOf
      <4>2. BoxFrom(r, outcomes[c])
        BY <3>1, <3>4 DEF From
      <4>3. outcomes[c] = Success(Meant(c), FALSE)
        BY <3>2, <4>1
      <4> HIDE DEF c
      <4>4. /\ r.ok /\ ~r.caught /\ r.facts.owned
            /\ r.facts.views <=> Views(c)
            /\ r.facts.exclusive <=> Excludes(c)
        BY <4>2, <4>3, SuccessOf DEF BoxFrom
      <4>5. Owns(u) /\ (Views(u) <=> Views(c)) /\ (Excludes(u) <=> Excludes(c))
        BY <3>4, MeantOfBox DEF c
      <4>6. r = Success(Meant(u), FALSE)
        BY <3>1, <4>4, <4>5, OutcomeIs
      <4> QED
        BY <4>6 DEF r
    <3>5. CASE registry[u].kind = "record"
      <4>1. RecordFrom(r, u, outcomes)
        BY <3>1, <3>5 DEF From
      <4>2. \A c \in Contents(u) : /\ outcomes[c].ok /\ ~outcomes[c].caught
                                   /\ outcomes[c].facts.owned <=> Owns(c)
                                   /\ outcomes[c].facts.views <=> Views(c)
                                   /\ outcomes[c].facts.exclusive <=> Excludes(c)
        BY <3>2, SuccessOf
      <4>3. /\ r.ok /\ ~r.caught
            /\ r.facts.owned <=> \E c \in Contents(u) : Owns(c)
            /\ r.facts.views <=> \E c \in Contents(u) : Views(c)
            /\ r.facts.exclusive <=> \E c \in Contents(u) : Excludes(c)
        BY <4>1, <4>2 DEF RecordFrom
      <4>4. /\ r.facts.owned <=> Owns(u)
            /\ r.facts.views <=> Views(u)
            /\ r.facts.exclusive <=> Excludes(u)
        BY <3>5, <4>3, MeantOfRecord
      <4>5. r = Success(Meant(u), FALSE)
        BY <3>1, <4>3, <4>4, OutcomeIs
      <4> QED
        BY <4>5 DEF r
    <3> QED
      BY <3>3, <3>4, <3>5, ShapeOf DEF Kinds, Leaves
  <2> QED
    BY <2>3, <2>4
<1>2. A \in G
  <2> HIDE DEF G
  <2> QED
    BY <1>1, BackFromTypes
<1> QED
  BY <1>2

\* The cache changes no outcome: where it answers, the type reaches no cycle, so
\* none of the types that led to it can be met again below it.
LEMMA DescentSame ==
  ASSUME Registered, NEW known, Good(known), NEW A \in SUBSET Types, NEW t \in Types,
         \A a \in A : t \in Reach({a}, Owning)
  PROVE  Descent(known)[A][t] = Descent(Empty)[A][t]
<1> DEFINE D == Descent(known)
           E == Descent(Empty)
           G == {B \in SUBSET Types :
                   \A u \in Types : (\A a \in B : u \in Reach({a}, Owning)) => D[B][u] = E[B][u]}
<1>1. Descended(D, known) /\ Descended(E, Empty)
  BY GoodFacts, EmptyGood, DescentSteps
<1>2. ASSUME NEW B \in SUBSET Types, \A s \in Types \ B : B \cup {s} \in G PROVE B \in G
  <2>1. SUFFICES ASSUME NEW u \in Types, \A a \in B : u \in Reach({a}, Owning)
                 PROVE  D[B][u] = E[B][u]
    OBVIOUS
  <2>2. CASE u \in B
    <3> HIDE DEF D, E
    <3> QED
      BY <1>1, <2>2 DEF Descended
  <2>3. CASE u \notin B /\ u \in DOMAIN known
    <3>1. Clean(u) /\ D[B][u] = Success(Meant(u), FALSE)
      BY <2>3, DescentFrom DEF Good
    <3>2. ASSUME NEW a \in B, a \in Reach({u}, Owning) PROVE FALSE
      <4>1. a # u /\ u \in Reach({a}, Owning)
        BY <2>1, <2>3
      <4>2. registry[u].kind \in Owning
        <5>1. registry[u].kind \notin Owning => Reach({u}, Owning) = {u}
          BY ReachOpened
        <5> QED
          BY <3>2, <4>1, <5>1
      <4>3. Reach({u}, Owning) = {u} \cup UNION {Reach({c}, Owning) : c \in Contents(u)}
        BY <4>2, ReachOpened
      <4>4. PICK c \in Contents(u) : a \in Reach({c}, Owning)
        BY <3>2, <4>1, <4>3
      <4>5. c \in Types /\ u \notin Reach({c}, Owning)
        BY <3>1, CleanContents
      <4>6. {c} \in SUBSET Types
        BY <4>5
      <4>7. Reach({a}, Owning) \subseteq Reach({c}, Owning)
        BY <4>4, <4>6, ReachThrough
      <4> QED
        BY <4>1, <4>5, <4>7
    <3>3. B \cap Reach({u}, Owning) = {}
      BY <3>2
    <3>4. E[B][u] = Success(Meant(u), FALSE)
      BY <3>1, <3>3, EmptyGood, DescentOfClean
    <3> QED
      BY <3>1, <3>4
  <2>4. CASE u \notin B /\ u \notin DOMAIN known
    <3>1. B \cup {u} \in SUBSET Types /\ B \cup {u} \in G
      BY <1>2, <2>4
    <3>2. ASSUME NEW c \in Contents(u) PROVE D[B \cup {u}][c] = E[B \cup {u}][c]
      <4>1. c \in Types /\ registry[u].kind \in Owning
        BY ContentsOf
      <4>2. Reach({u}, Owning) = {u} \cup UNION {Reach({d}, Owning) : d \in Contents(u)}
        BY <4>1, ReachOpened
      <4>3. c \in Reach({u}, Owning)
        BY <4>1, <4>2, ReachItself
      <4>4. ASSUME NEW a \in B \cup {u} PROVE c \in Reach({a}, Owning)
        <5>1. CASE a = u
          BY <4>3, <5>1
        <5>2. CASE a \in B
          <6>1. {a} \in SUBSET Types /\ u \in Reach({a}, Owning)
            BY <2>1, <5>2
          <6>2. Reach({u}, Owning) \subseteq Reach({a}, Owning)
            BY <6>1, ReachThrough
          <6> QED
            BY <4>3, <6>2
        <5> QED
          BY <5>1, <5>2
      <4> QED
        BY <3>1, <4>1, <4>4
    <3> HIDE DEF D, E
    <3>3. /\ D[B][u] = OutcomeOf(u, D[B \cup {u}], known)
          /\ E[B][u] = OutcomeOf(u, E[B \cup {u}], Empty)
      BY <1>1, <2>4 DEF Descended
    <3>4. D[B \cup {u}] \in [Types -> Outcomes] /\ E[B \cup {u}] \in [Types -> Outcomes]
      BY <1>1, <3>1 DEF Descended
    <3>5. OutcomeOf(u, D[B \cup {u}], known) = OutcomeOf(u, E[B \cup {u}], Empty)
      BY <2>4, <3>2, <3>4, OutcomeOfSame
    <3> QED
      BY <3>3, <3>5
  <2> QED
    BY <2>2, <2>3, <2>4
<1>3. A \in G
  <2> HIDE DEF G
  <2> QED
    BY <1>2, BackFromTypes
<1> QED
  BY <1>3

\* From scratch, a success tells the truth: its ownership is exact, its views are
\* real, and it was met by no direct containment of a type under analysis.
Truthful(r, t, A) ==
  r.ok => /\ r.facts.owned <=> Owns(t)
          /\ r.facts.views => Views(t)
          /\ r.facts.exclusive => Excludes(t)
          /\ Reach({t}, Direct) \cap A = {}
          /\ ~OnCycle(t, Direct)

\* A failure has its reason: a type that directly contains itself, or one under
\* analysis that is directly contained.
Justified(r, t, A) ==
  ~r.ok => \/ \E u \in Types : OnCycle(u, Direct)
           \/ Reach({t}, Direct) \cap A # {}

\* A success that absorbed no cycle: there was none to meet.
Quiet(r, t, A) ==
  r.ok /\ ~r.caught => Reach({t}, Owning) \cap A = {} /\ Clean(t)

Right(r, t, A) == Truthful(r, t, A) /\ Justified(r, t, A) /\ Quiet(r, t, A)

LEMMA RightLeaf ==
  ASSUME Registered, NEW t \in Types, registry[t].kind \in Leaves, NEW A \in SUBSET Types, t \notin A
  PROVE  Right(Success(Meant(t), FALSE), t, A)
<1>1. registry[t].kind \notin Direct /\ registry[t].kind \notin Owning
  BY DEF Leaves, Direct, Owning
<1>2. Reach({t}, Direct) = {t} /\ Reach({t}, Owning) = {t}
  BY <1>1, ReachOpened
<1>3. ~OnCycle(t, Direct) /\ Clean(t)
  <2>1. ~OnCycle(t, Direct) /\ ~OnCycle(t, Owning)
    BY <1>1 DEF OnCycle
  <2> QED
    BY <1>2, <2>1 DEF Clean, ReachesCycle, Owning
<1> DEFINE r == Success(Meant(t), FALSE)
<1>4. /\ r.ok /\ ~r.caught
      /\ r.facts.owned <=> Owns(t)
      /\ r.facts.views <=> Views(t)
      /\ r.facts.exclusive <=> Excludes(t)
  BY SuccessOf
<1> HIDE DEF r
<1>5. Right(r, t, A)
  BY <1>2, <1>3, <1>4 DEF Right, Truthful, Justified, Quiet
<1> QED
  BY <1>5 DEF r

LEMMA RightBox ==
  ASSUME Registered, NEW t \in Types, registry[t].kind = "box",
         NEW A \in SUBSET Types, t \notin A,
         NEW r, NEW payload, BoxFrom(r, payload),
         Right(payload, registry[t].contents[1], A \cup {t})
  PROVE  Right(r, t, A)
<1> DEFINE c == registry[t].contents[1]
<1>1. c \in Types /\ Contents(t) = {c}
  BY ContentsOf
<1>2. registry[t].kind \notin Direct /\ registry[t].kind \in Owning
  BY DEF Direct, Owning
<1>3. Reach({t}, Direct) = {t}
  BY <1>2, ReachOpened
<1>4. Reach({t}, Owning) = {t} \cup Reach({c}, Owning)
  <2>1. Reach({t}, Owning) = {t} \cup UNION {Reach({d}, Owning) : d \in Contents(t)}
    BY <1>2, ReachOpened
  <2> QED
    BY <1>1, <2>1
<1>5. Owns(t) /\ (Views(t) <=> Views(c)) /\ (Excludes(t) <=> Excludes(c))
  BY MeantOfBox
<1>6. ~OnCycle(t, Direct)
  BY <1>2 DEF OnCycle
<1>7. Right(payload, c, A \cup {t})
  OBVIOUS
<1> HIDE DEF c
<1>8. Truthful(r, t, A)
  <2>1. r.facts.views => Views(t)
    BY <1>5, <1>7 DEF Right, Truthful, BoxFrom
  <2>2. r.facts.exclusive => Excludes(t)
    BY <1>5, <1>7 DEF Right, Truthful, BoxFrom
  <2>3. r.facts.owned
    BY DEF BoxFrom
  <2> QED
    BY <1>3, <1>5, <1>6, <2>1, <2>2, <2>3 DEF Truthful
<1>9. Justified(r, t, A)
  BY DEF Justified, BoxFrom
<1>10. Quiet(r, t, A)
  <2>1. SUFFICES ASSUME ~r.caught PROVE Reach({t}, Owning) \cap A = {} /\ Clean(t)
    BY DEF Quiet
  <2>2. payload.ok /\ ~payload.caught
    BY <2>1 DEF BoxFrom
  <2>3. Reach({c}, Owning) \cap (A \cup {t}) = {} /\ Clean(c)
    BY <1>7, <2>2 DEF Right, Quiet
  <2>4. Clean(t)
    BY <1>1, <2>3, CleanFrom
  <2> QED
    BY <1>4, <2>3, <2>4
<1> QED
  BY <1>8, <1>9, <1>10 DEF Right

LEMMA RightRecord ==
  ASSUME Registered, NEW t \in Types, registry[t].kind = "record",
         NEW A \in SUBSET Types, t \notin A,
         NEW r, NEW outcomes, RecordFrom(r, t, outcomes),
         \A c \in Contents(t) : Right(outcomes[c], c, A \cup {t})
  PROVE  Right(r, t, A)
<1>1. Contents(t) \subseteq Types
  BY ContentsOf
<1>2. /\ Reach({t}, Direct) = {t} \cup UNION {Reach({c}, Direct) : c \in Contents(t)}
      /\ Reach({t}, Owning) = {t} \cup UNION {Reach({c}, Owning) : c \in Contents(t)}
  BY ReachOpened DEF Direct, Owning
<1>3. /\ Owns(t) <=> \E c \in Contents(t) : Owns(c)
      /\ Views(t) <=> \E c \in Contents(t) : Views(c)
      /\ Excludes(t) <=> \E c \in Contents(t) : Excludes(c)
  BY MeantOfRecord
<1>4. OnCycle(t, Direct) <=> \E c \in Contents(t) : t \in Reach({c}, Direct)
  BY OnCycleBy DEF Direct
<1>5. \A c \in Contents(t) : /\ Truthful(outcomes[c], c, A \cup {t})
                             /\ Justified(outcomes[c], c, A \cup {t})
                             /\ Quiet(outcomes[c], c, A \cup {t})
  BY DEF Right
<1>6. Truthful(r, t, A)
  <2>1. SUFFICES ASSUME r.ok
                 PROVE  /\ r.facts.owned <=> Owns(t)
                        /\ r.facts.views => Views(t)
                        /\ r.facts.exclusive => Excludes(t)
                        /\ Reach({t}, Direct) \cap A = {}
                        /\ ~OnCycle(t, Direct)
    BY DEF Truthful
  <2>2. ASSUME NEW c \in Contents(t)
        PROVE  /\ outcomes[c].facts.owned <=> Owns(c)
               /\ outcomes[c].facts.views => Views(c)
               /\ outcomes[c].facts.exclusive => Excludes(c)
               /\ Reach({c}, Direct) \cap (A \cup {t}) = {}
    BY <1>5, <2>1 DEF RecordFrom, Truthful
  <2>3. r.facts.owned <=> Owns(t)
    BY <1>3, <2>1, <2>2 DEF RecordFrom
  <2>4. r.facts.views => Views(t)
    BY <1>3, <2>1, <2>2 DEF RecordFrom
  <2>5. r.facts.exclusive => Excludes(t)
    BY <1>3, <2>1, <2>2 DEF RecordFrom
  <2>6. \A c \in Contents(t) : t \notin Reach({c}, Direct) /\ Reach({c}, Direct) \cap A = {}
    BY <2>2
  <2>7. ~OnCycle(t, Direct)
    BY <1>4, <2>6
  <2>8. Reach({t}, Direct) \cap A = {}
    BY <1>2, <2>6
  <2> QED
    BY <2>3, <2>4, <2>5, <2>7, <2>8
<1>7. Justified(r, t, A)
  <2>1. SUFFICES ASSUME ~r.ok, ~(\E u \in Types : OnCycle(u, Direct))
                 PROVE  Reach({t}, Direct) \cap A # {}
    BY DEF Justified
  <2>2. PICK c \in Contents(t) : ~outcomes[c].ok
    BY <2>1 DEF RecordFrom
  <2>3. PICK a \in A \cup {t} : a \in Reach({c}, Direct)
    BY <1>5, <2>1, <2>2 DEF Justified
  <2>4. a # t
    BY <1>4, <2>1, <2>3
  <2> QED
    BY <1>2, <2>3, <2>4
<1>8. Quiet(r, t, A)
  <2>1. SUFFICES ASSUME r.ok, ~r.caught PROVE Reach({t}, Owning) \cap A = {} /\ Clean(t)
    BY DEF Quiet
  <2>2. ASSUME NEW c \in Contents(t) PROVE Reach({c}, Owning) \cap (A \cup {t}) = {} /\ Clean(c)
    BY <1>5, <2>1 DEF RecordFrom, Quiet
  <2>3. \A c \in Contents(t) : Clean(c) /\ t \notin Reach({c}, Owning) /\ Reach({c}, Owning) \cap A = {}
    BY <2>2
  <2>4. Clean(t)
    BY <2>3, CleanFrom
  <2> QED
    BY <1>2, <2>3, <2>4
<1> QED
  BY <1>6, <1>7, <1>8 DEF Right

LEMMA DescentRight ==
  ASSUME Registered, NEW A \in SUBSET Types, NEW t \in Types
  PROVE  Right(Descent(Empty)[A][t], t, A)
<1> DEFINE E == Descent(Empty)
           G == {B \in SUBSET Types : \A u \in Types : Right(E[B][u], u, B)}
<1>1. DOMAIN Empty = {}
  BY DEF Empty
<1>2. ASSUME NEW B \in SUBSET Types, \A s \in Types \ B : B \cup {s} \in G PROVE B \in G
  <2>1. SUFFICES ASSUME NEW u \in Types PROVE Right(E[B][u], u, B)
    OBVIOUS
  <2>2. CASE u \in B
    <3>1. ~E[B][u].ok
      BY <2>2, EmptyGood, DescentFrom
    <3>2. u \in Reach({u}, Direct)
      BY ReachItself
    <3>3. Reach({u}, Direct) \cap B # {}
      BY <2>2, <3>2
    <3> HIDE DEF E
    <3> QED
      BY <3>1, <3>3 DEF Right, Truthful, Justified, Quiet
  <2>3. CASE u \notin B
    <3>1. From(E[B][u], u, E[B \cup {u}])
      BY <1>1, <2>3, EmptyGood, DescentFrom
    <3>2. ASSUME NEW c \in Contents(u) PROVE Right(E[B \cup {u}][c], c, B \cup {u})
      <4>1. c \in Types
        BY ContentsOf
      <4>2. B \cup {u} \in G
        BY <1>2, <2>3
      <4> QED
        BY <4>1, <4>2
    <3> HIDE DEF E
    <3>3. CASE registry[u].kind \in Leaves
      BY <2>3, <3>1, <3>3, RightLeaf DEF From
    <3>4. CASE registry[u].kind = "box"
      <4>1. registry[u].contents[1] \in Contents(u)
        BY <3>4, ContentsOf
      <4>2. BoxFrom(E[B][u], E[B \cup {u}][registry[u].contents[1]])
        BY <3>1, <3>4 DEF From
      <4> QED
        BY <2>3, <3>2, <3>4, <4>1, <4>2, RightBox
    <3>5. CASE registry[u].kind = "record"
      <4>1. RecordFrom(E[B][u], u, E[B \cup {u}])
        BY <3>1, <3>5 DEF From
      <4> QED
        BY <2>3, <3>2, <3>5, <4>1, RightRecord
    <3> QED
      BY <3>3, <3>4, <3>5, ShapeOf DEF Kinds, Leaves
  <2> QED
    BY <2>2, <2>3
<1>3. A \in G
  <2> HIDE DEF G
  <2> QED
    BY <1>2, BackFromTypes
<1> QED
  BY <1>3

-----------------------------------------------------------------------------
(* The walk                                                                    *)

\* What the walk maintains: the cache holds only what types mean, and the table
\* the facts of every type before the current one, as found from scratch.
WalkInv ==
  /\ registry \in Registries
  /\ at \in Nat
  /\ Good(cache)
  /\ DOMAIN table = {t \in Types : t < at}
  /\ \A t \in DOMAIN table : Analyse(t, Empty).ok /\ table[t] = Analyse(t, Empty).facts
  /\ verdict = "complete" => at \notin Types
  /\ verdict = "rejected" => \E u \in Types : OnCycle(u, Direct)

LEMMA RegisteredIn == registry \in Registries => Registered
BY TypesAssumption DEF Registered

LEMMA AnalyseRight ==
  ASSUME Registered, NEW t \in Types, NEW known, Good(known)
  PROVE  /\ Analyse(t, known) = Analyse(t, Empty)
         /\ Analyse(t, known) \in Outcomes
         /\ Right(Analyse(t, known), t, {})
         /\ Clean(t) => Analyse(t, known) = Success(Meant(t), FALSE)
<1>1. {} \in SUBSET Types
  OBVIOUS
<1>2. Descent(known)[{}][t] = Descent(Empty)[{}][t]
  BY <1>1, DescentSame
<1>3. Descent(known)[{}][t] \in Outcomes
  BY <1>1, DescentFrom
<1>4. Right(Descent(Empty)[{}][t], t, {})
  BY <1>1, DescentRight
<1>5. ASSUME Clean(t) PROVE Descent(known)[{}][t] = Success(Meant(t), FALSE)
  BY <1>1, <1>5, DescentOfClean
<1> QED
  BY <1>2, <1>3, <1>4, <1>5 DEF Analyse

LEMMA WalkStarts == Init => WalkInv
<1>1. SUFFICES ASSUME Init PROVE WalkInv
  OBVIOUS
<1>2. DOMAIN Empty = {}
  BY DEF Empty
<1>3. {t \in Types : t < 0} = {}
  BY TypesAssumption, TypesFinite
<1>4. Good(cache)
  BY <1>1, EmptyGood DEF Init
<1> QED
  BY <1>1, <1>2, <1>3, <1>4 DEF Init, WalkInv

\* The registry stays, and with it everything said of it.
LEMMA SameRegistry ==
  ASSUME registry' = registry, NEW t
  PROVE  /\ Analyse(t, Empty)' = Analyse(t, Empty)
         /\ Clean(t)' = Clean(t)
         /\ Meant(t)' = Meant(t)
         /\ OnCycle(t, Direct)' = OnCycle(t, Direct)
<1>1. Analyse(t, Empty)' = Analyse(t, Empty)
  BY DEF Analyse, Descent, OutcomeOf, Empty
<1>2. \A S, kinds : Reach(S, kinds)' = Reach(S, kinds)
  BY DEF Reach, Grown, Contents
<1> QED
  BY <1>1, <1>2 DEF Clean, ReachesCycle, Meant, Owns, Views, Excludes, OnCycle, Contents, Direct

LEMMA WalkSteps == WalkInv /\ [Next]_vars => WalkInv'
<1>1. SUFFICES ASSUME WalkInv, [Next]_vars PROVE WalkInv'
  OBVIOUS
<1>2. Registered
  BY <1>1, RegisteredIn DEF WalkInv
<1>3. registry' = registry
  BY <1>1 DEF Next, Classify, Complete, vars
<1>4. Types \subseteq Nat
  BY TypesAssumption, TypesFinite
<1>5. \A u \in Types : OnCycle(u, Direct)' = OnCycle(u, Direct)
  BY <1>3, SameRegistry
<1>6. CASE UNCHANGED <<at, cache, table>>
  <2>1. Good(cache)'
    <3>1. ASSUME NEW t \in Types, t \in DOMAIN cache'
          PROVE  Clean(t)' /\ cache'[t] = Meant(t)'
      <4>1. Clean(t) /\ cache[t] = Meant(t)
        BY <1>1, <1>6, <3>1 DEF WalkInv, Good
      <4> QED
        BY <1>3, <1>6, <4>1, SameRegistry
    <3> QED
      BY <3>1 DEF Good
  <2>2. \A t \in DOMAIN table' : Analyse(t, Empty)'.ok /\ table'[t] = Analyse(t, Empty)'.facts
    <3>1. SUFFICES ASSUME NEW t \in DOMAIN table
                   PROVE  Analyse(t, Empty)'.ok /\ table[t] = Analyse(t, Empty)'.facts
      BY <1>6
    <3>2. Analyse(t, Empty)' = Analyse(t, Empty)
      BY <1>3, SameRegistry
    <3>3. Analyse(t, Empty).ok /\ table[t] = Analyse(t, Empty).facts
      BY <1>1 DEF WalkInv
    <3> QED
      BY <3>2, <3>3
  <2>3. verdict' = "complete" => at \notin Types
    BY <1>1 DEF WalkInv, Next, Classify, Complete, vars
  <2>4. verdict' = "rejected" => \E u \in Types : OnCycle(u, Direct)
    <3>1. CASE Classify
      <4>1. SUFFICES ASSUME verdict' = "rejected" PROVE \E u \in Types : OnCycle(u, Direct)
        OBVIOUS
      <4>2. at \in Types /\ at \in Nat /\ Good(cache)
        BY <1>1, <3>1 DEF Classify, WalkInv
      <4>3. ~Analyse(at, cache).ok
        BY <1>6, <3>1, <4>2 DEF Classify
      <4>4. Justified(Analyse(at, cache), at, {})
        BY <1>2, <4>2, AnalyseRight DEF Right
      <4> QED
        BY <4>3, <4>4 DEF Justified
    <3>2. CASE Complete \/ UNCHANGED vars
      BY <1>1, <3>2 DEF Complete, vars, WalkInv
    <3> QED
      BY <1>1, <3>1, <3>2 DEF Next
  <2> QED
    BY <1>1, <1>3, <1>5, <1>6, <2>1, <2>2, <2>3, <2>4 DEF WalkInv
<1>7. CASE Classify /\ ~ UNCHANGED <<at, cache, table>>
  <2> DEFINE outcome == Analyse(at, cache)
             fresh == Analyse(at, Empty)
  <2>1. at \in Types /\ at \in Nat /\ Good(cache) /\ verdict = "open"
    BY <1>1, <1>7 DEF Classify, WalkInv
  <2>2. /\ outcome.ok
        /\ table' = Put(table, at, outcome.facts)
        /\ cache' = IF Cacheable(outcome) THEN Put(cache, at, outcome.facts) ELSE cache
        /\ at' = at + 1
        /\ verdict' = verdict
    BY <1>7 DEF Classify
  <2>3. outcome = fresh /\ outcome \in Outcomes /\ Right(outcome, at, {})
    BY <1>2, <2>1, AnalyseRight
  <2>4. Clean(at) => outcome = Success(Meant(at), FALSE)
    BY <1>2, <2>1, AnalyseRight
  <2> HIDE DEF outcome, fresh
  <2>5. Good(cache)'
    <3>1. ASSUME NEW t \in Types, t \in DOMAIN cache' PROVE Clean(t) /\ cache'[t] = Meant(t)
      <4>1. CASE ~Cacheable(outcome)
        BY <2>1, <2>2, <3>1, <4>1 DEF Good
      <4>2. CASE Cacheable(outcome)
        <5>1. cache' = Put(cache, at, outcome.facts)
          BY <2>2, <4>2
        <5>2. CASE t # at
          BY <2>1, <3>1, <5>1, <5>2 DEF Good, Put
        <5>3. CASE t = at
          <6>1. ~outcome.caught
            BY <4>2 DEF Cacheable
          <6>2. Clean(at)
            BY <2>2, <2>3, <6>1 DEF Right, Quiet
          <6>3. outcome.facts = Meant(at)
            BY <2>4, <6>2 DEF Success
          <6> QED
            BY <5>1, <5>3, <6>2, <6>3 DEF Put
        <5> QED
          BY <5>2, <5>3
      <4> QED
        BY <4>1, <4>2
    <3>2. ASSUME NEW t \in Types, t \in DOMAIN cache' PROVE Clean(t)' /\ cache'[t] = Meant(t)'
      BY <1>3, <3>1, <3>2, SameRegistry
    <3> QED
      BY <3>2 DEF Good
  <2>6. DOMAIN table' = {t \in Types : t < at'}
    <3>1. DOMAIN table' = {t \in Types : t < at} \cup {at}
      BY <1>1, <2>2 DEF WalkInv, Put
    <3>2. \A t \in Types : t < at + 1 <=> (t < at \/ t = at)
      BY <1>4, <2>1
    <3> QED
      BY <2>1, <2>2, <3>1, <3>2
  <2>7. ASSUME NEW t \in DOMAIN table'
        PROVE  Analyse(t, Empty)'.ok /\ table'[t] = Analyse(t, Empty)'.facts
    <3>1. Analyse(t, Empty)' = Analyse(t, Empty)
      BY <1>3, SameRegistry
    <3>2. CASE t = at
      BY <2>2, <2>3, <3>1, <3>2 DEF Put, fresh
    <3>3. CASE t # at
      <4>1. t \in DOMAIN table /\ table'[t] = table[t]
        BY <2>2, <3>3 DEF Put
      <4> QED
        BY <1>1, <3>1, <4>1 DEF WalkInv
    <3> QED
      BY <3>2, <3>3
  <2>8. at' \in Nat /\ verdict' = "open"
    BY <2>1, <2>2
  <2> QED
    BY <1>1, <1>3, <2>5, <2>6, <2>7, <2>8 DEF WalkInv
<1>8. CASE Complete \/ UNCHANGED vars
  BY <1>6, <1>8 DEF Complete, vars
<1> QED
  BY <1>1, <1>6, <1>7, <1>8 DEF Next

LEMMA WalkInvariant == Spec => []WalkInv
BY WalkStarts, WalkSteps, PTL DEF Spec

\* A type that was classified was analysed from scratch as it says.
LEMMA Classified ==
  ASSUME WalkInv, NEW t \in DOMAIN table
  PROVE  /\ t \in Types /\ Registered
         /\ Right(Analyse(t, Empty), t, {}) /\ Analyse(t, Empty).ok
         /\ table[t] = Analyse(t, Empty).facts
         /\ Clean(t) => table[t] = Meant(t)
<1>1. t \in Types /\ Registered
  BY RegisteredIn DEF WalkInv
<1>2. Analyse(t, Empty).ok /\ table[t] = Analyse(t, Empty).facts
  BY DEF WalkInv
<1>3. Right(Analyse(t, Empty), t, {})
  BY <1>1, EmptyGood, AnalyseRight
<1>4. ASSUME Clean(t) PROVE table[t] = Meant(t)
  <2>1. Analyse(t, Empty) = Success(Meant(t), FALSE)
    BY <1>1, <1>4, EmptyGood, AnalyseRight
  <2> QED
    BY <1>2, <2>1 DEF Success
<1> QED
  BY <1>1, <1>2, <1>3, <1>4

\* A unit is rejected exactly when one of its types directly contains itself,
\* whatever types it has and in whatever order the walk meets them.
THEOREM InfiniteTypesRejected == Spec => []RejectsInfiniteTypes
<1>1. ASSUME WalkInv PROVE RejectsInfiniteTypes
  <2>1. ASSUME verdict = "complete", NEW t \in Types PROVE ~OnCycle(t, Direct)
    <3>1. t < at
      <4>1. at \in Nat /\ at \notin Types /\ Types = 0..(Cardinality(Types) - 1) /\ Cardinality(Types) \in Nat
        BY <1>1, <2>1, TypesAssumption, TypesFinite DEF WalkInv
      <4> QED
        BY <4>1
    <3>2. t \in DOMAIN table
      BY <1>1, <3>1 DEF WalkInv
    <3> QED
      BY <1>1, <3>2, Classified DEF Right, Truthful
  <2> QED
    BY <1>1, <2>1 DEF RejectsInfiniteTypes, WalkInv, Direct
<1> QED
  BY <1>1, WalkInvariant, PTL

\* The facts of a type are those of a descent from scratch: the cache, and with
\* it the order of the walk, changes none.
THEOREM ClassificationOrderIndependent == Spec => []OrderIndependent
<1>1. WalkInv => OrderIndependent
  BY DEF WalkInv, OrderIndependent
<1> QED
  BY <1>1, WalkInvariant, PTL

\* A type is owned exactly when it directly contains a string or an indirection.
THEOREM OwnershipIsExact == Spec => []OwnershipExact
<1>1. ASSUME WalkInv PROVE OwnershipExact
  BY <1>1, Classified DEF OwnershipExact, Right, Truthful
<1> QED
  BY <1>1, WalkInvariant, PTL

\* The view facts are never invented, and exact for a type that reaches no cycle.
THEOREM ViewsAreExactOffCycles == Spec => []ViewsExactOffCycles
<1>1. ASSUME WalkInv PROVE ViewsExactOffCycles
  <2>1. SUFFICES ASSUME NEW t \in DOMAIN table
                 PROVE  /\ table[t].views => Views(t)
                        /\ table[t].exclusive => Excludes(t)
                        /\ Clean(t) => /\ Views(t) => table[t].views
                                       /\ Excludes(t) => table[t].exclusive
    BY DEF ViewsExactOffCycles, Clean
  <2>2. (table[t].views => Views(t)) /\ (table[t].exclusive => Excludes(t))
    BY <1>1, Classified DEF Right, Truthful
  <2>3. ASSUME Clean(t) PROVE table[t].views = Views(t) /\ table[t].exclusive = Excludes(t)
    BY <1>1, <2>3, Classified DEF Meant
  <2> QED
    BY <2>2, <2>3
<1> QED
  BY <1>1, WalkInvariant, PTL
=============================================================================
