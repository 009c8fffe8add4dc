--------------------------- MODULE SeedFrontEnd_proofs ---------------------------
(* The front end of the seed compiler. Imports stay in their root, for every file *)
(* system, every project root, "/" included, every importer and every spelling:   *)
(* the depth count of Source_Path_Escapes tells the spellings that climb out of   *)
(* the root from the others. Tokens cover their text, for every sequence of       *)
(* bytes, and carry the lines and columns of their offsets. Lookups answer what   *)
(* the scope rules say and accepted aliases lead somewhere, for every program and *)
(* set of builtins.                                                               *)
EXTENDS ImportResolution, SourceText, ModuleNames, Counting, SequenceTheorems

-----------------------------------------------------------------------------
(* What a spelling reaches                                                     *)

Names == Seq(PathNames)

LEMMA AppendedOf ==
  ASSUME NEW S, NEW p \in Seq(S), NEW x \in S
  PROVE  /\ Append(p, x) \in Seq(S)
         /\ Len(Append(p, x)) = Len(p) + 1
         /\ \A k \in 1..Len(p) : Append(p, x)[k] = p[k]
         /\ Append(p, x)[Len(p) + 1] = x
BY AppendProperties

LEMMA ShortSequences ==
  ASSUME NEW S, NEW x \in S, NEW y \in S
  PROVE  <<x>> \in Seq(S) /\ <<x, y>> \in Seq(S)
OBVIOUS

LEMMA FrontOf ==
  ASSUME NEW p \in Names, p # <<>>
  PROVE  /\ Front(p) \in Names
         /\ Len(Front(p)) = Len(p) - 1
         /\ \A k \in 1..(Len(p) - 1) : Front(p)[k] = p[k]
<1>1. Len(p) \in Nat /\ Len(p) >= 1 /\ \A k \in 1..Len(p) : p[k] \in PathNames
  BY EmptySeq, LenProperties, ElementOfSeq DEF Names
<1>2. \A k \in 1..(Len(p) - 1) : p[k] \in PathNames
  BY <1>1
<1> DEFINE q == SubSeq(p, 1, Len(p) - 1)
<1>3. /\ q \in Seq(PathNames)
      /\ Len(q) = IF 1 <= Len(p) - 1 THEN Len(p) - 1 - 1 + 1 ELSE 0
      /\ \A k \in 1 .. Len(p) - 1 - 1 + 1 : q[k] = p[1 + k - 1]
  BY <1>1, <1>2, SubSeqProperties
<1>4. Front(p) = q
  BY DEF Front
<1> HIDE DEF q
<1> QED
  BY <1>1, <1>3, <1>4 DEF Names

LEMMA ApplyType ==
  ASSUME NEW p \in Names, NEW name \in PathNames
  PROVE  Apply(p, name) \in Names
<1>1. CASE p = <<>>
  BY <1>1, AppendProperties DEF Apply, Names
<1>2. CASE p # <<>>
  <2>1. Front(p) \in Names
    BY <1>2, FrontOf
  <2> QED
    BY <2>1, AppendProperties DEF Apply, Names
<1> QED
  BY <1>1, <1>2

\* The values of the recursive definition of Reduced.
ReducedBy(f, path) ==
  /\ f \in [0..Len(path) -> Names]
  /\ f[0] = <<>>
  /\ \A n \in 1..Len(path) : f[n] = Apply(f[n - 1], path[n])
  /\ Reduced(path) = f[Len(path)]

LEMMA ReducedSteps ==
  ASSUME NEW path \in Names
  PROVE  \E f : ReducedBy(f, path)
<1> DEFINE N == Len(path)
           step == [sn \in Names \X (1..N) |-> Apply(sn[1], path[sn[2]])]
           F(h) == [n \in 0..N |-> IF n = 0 THEN <<>> ELSE Apply(h[n - 1], path[n])]
           g == CHOOSE h : h = F(h)
<1>1. N \in Nat /\ \A n \in 1..N : path[n] \in PathNames
  BY LenProperties, ElementOfSeq DEF Names
<1>2. step \in [Names \X (1..N) -> Names]
  BY <1>1, ApplyType
<1>3. <<>> \in Names
  BY DEF Names
<1>4. PICK f \in [0..N -> Names] : Follows(f, <<>>, step, N)
  <2> HIDE DEF step, N
  <2> QED
    BY <1>1, <1>2, <1>3, Iterates
<1>5. f = F(f)
  <2>1. ASSUME NEW n \in 1..N PROVE f[n] = Apply(f[n - 1], path[n])
    <3>1. n - 1 \in 0..N /\ f[n - 1] \in Names
      BY <1>1
    <3>2. <<f[n - 1], n>> \in Names \X (1..N)
      BY <3>1
    <3>3. step[<<f[n - 1], n>>] = Apply(f[n - 1], path[n])
      BY <3>2
    <3> QED
      BY <1>4, <3>3 DEF Follows
  <2>2. f[0] = <<>>
    BY <1>4 DEF Follows
  <2>3. \A n \in 0..N : n # 0 => n \in 1..N
    BY <1>1
  <2>4. \A n \in 0..N : f[n] = IF n = 0 THEN <<>> ELSE Apply(f[n - 1], path[n])
    BY <2>1, <2>2, <2>3
  <2> HIDE DEF step, N
  <2> QED
    BY <1>4, <2>4
<1>6. g = F(g)
  BY <1>5
<1>7. Reduced(path) = g[N]
  BY DEF Reduced
<1>8. /\ DOMAIN g = 0..N
      /\ g[0] = <<>>
      /\ \A n \in 1..N : g[n] = Apply(g[n - 1], path[n])
  <2> HIDE DEF g, N
  <2> QED
    BY <1>1, <1>6
<1>9. g \in [0..N -> Names]
  <2> DEFINE Typed == {n \in 0..N : g[n] \in Names}
  <2>1. 0 \in Typed
    BY <1>1, <1>3, <1>8
  <2>2. ASSUME NEW k \in 0..N PROVE k \in Typed
    <3>1. ASSUME NEW m \in 0..(k - 1), m \in Typed PROVE m + 1 \in Typed
      <4>1. m + 1 \in 1..N /\ (m + 1) - 1 = m /\ m + 1 \in 0..N
        BY <1>1
      <4>2. g[m + 1] = Apply(g[m], path[m + 1])
        BY <1>8, <4>1
      <4>3. path[m + 1] \in PathNames /\ g[m] \in Names
        BY <1>1, <3>1, <4>1
      <4> HIDE DEF g, N
      <4> QED
        BY <4>1, <4>2, <4>3, ApplyType
    <3>2. k \in Nat
      OBVIOUS
    <3> HIDE DEF Typed, N
    <3> QED
      BY <2>1, <3>1, <3>2, UpToN
  <2>3. \A n \in 0..N : g[n] \in Names
    BY <2>2
  <2>4. DOMAIN g = 0..N /\ g = [n \in DOMAIN g |-> g[n]]
    BY <1>6, <1>8
  <2> HIDE DEF g, N
  <2> QED
    BY <2>3, <2>4
<1> QED
  BY <1>7, <1>8, <1>9 DEF ReducedBy

\* One more component is one more step.
LEMMA ReducedAppend ==
  ASSUME NEW path \in Names, NEW name \in PathNames
  PROVE  /\ Reduced(path) \in Names
         /\ Reduced(Append(path, name)) = Apply(Reduced(path), name)
<1> DEFINE N == Len(path)
           longer == Append(path, name)
<1>1. N \in Nat
  BY LenProperties DEF Names
<1>2. /\ longer \in Names /\ Len(longer) = N + 1
      /\ \A n \in 1..N : longer[n] = path[n]
      /\ longer[N + 1] = name
  <2>1. path \in Seq(PathNames)
    BY DEF Names
  <2>2. /\ Append(path, name) \in Seq(PathNames)
        /\ Len(Append(path, name)) = Len(path) + 1
        /\ \A n \in 1..Len(path) : Append(path, name)[n] = path[n]
        /\ Append(path, name)[Len(path) + 1] = name
    BY <2>1, AppendedOf
  <2> QED
    BY <2>2 DEF Names
<1>3. PICK f : ReducedBy(f, path)
  BY ReducedSteps
<1>4. PICK g : ReducedBy(g, longer)
  BY <1>2, ReducedSteps
<1> HIDE DEF longer, N
<1>5. \A n \in 0..N : f[n] = g[n]
  <2> DEFINE Same == {n \in 0..N : f[n] = g[n]}
  <2>1. 0 \in Same
    BY <1>1, <1>3, <1>4 DEF ReducedBy
  <2>2. ASSUME NEW n \in 0..N PROVE n \in Same
    <3>1. ASSUME NEW m \in 0..(n - 1), m \in Same PROVE m + 1 \in Same
      <4>1. m + 1 \in 1..N /\ m + 1 \in 1..(N + 1) /\ (m + 1) - 1 = m
        BY <1>1
      <4>2. f[m + 1] = Apply(f[m], path[m + 1])
        BY <1>3, <4>1 DEF ReducedBy, N
      <4>3. g[m + 1] = Apply(g[m], longer[m + 1])
        BY <1>2, <1>4, <4>1 DEF ReducedBy
      <4>4. f[m] = g[m] /\ path[m + 1] = longer[m + 1]
        BY <1>2, <3>1, <4>1
      <4>5. f[m + 1] = g[m + 1]
        BY <4>2, <4>3, <4>4
      <4> QED
        BY <1>1, <4>1, <4>5
    <3>2. n \in Nat
      BY <1>1
    <3> HIDE DEF Same
    <3> QED
      BY <2>1, <3>1, <3>2, UpToN
  <2> QED
    BY <2>2
<1>6. g[N] = Reduced(path) /\ Reduced(path) \in Names
  BY <1>1, <1>3, <1>5 DEF ReducedBy, N
<1>7. Reduced(longer) = g[N + 1]
  BY <1>2, <1>4 DEF ReducedBy
<1>8. N + 1 \in 1..(N + 1) /\ (N + 1) - 1 = N
  BY <1>1
<1>9. g[N + 1] = Apply(g[N], longer[N + 1])
  BY <1>2, <1>4, <1>8 DEF ReducedBy
<1> QED
  BY <1>2, <1>6, <1>7, <1>9 DEF longer

LEMMA ReducedType ==
  ASSUME NEW path \in Names
  PROVE  Reduced(path) \in Names
<1>1. PICK f : ReducedBy(f, path)
  BY ReducedSteps
<1>2. Len(path) \in 0..Len(path)
  BY LenProperties DEF Names
<1> QED
  BY <1>1, <1>2 DEF ReducedBy

Plain(path) == ~ \E k \in DOMAIN path : path[k] \in {".", ".."}

\* The first n components, and one more of them.
LEMMA OneMore ==
  ASSUME NEW path \in Names, NEW n \in 1..Len(path)
  PROVE  /\ SubSeq(path, 1, n - 1) \in Names
         /\ SubSeq(path, 1, n) = Append(SubSeq(path, 1, n - 1), path[n])
         /\ path[n] \in PathNames
<1>1. Len(path) \in Nat /\ \A k \in 1..Len(path) : path[k] \in PathNames
  BY LenProperties, ElementOfSeq DEF Names
<1> DEFINE p == SubSeq(path, 1, n - 1)
           q == SubSeq(path, 1, n)
<1>2. /\ p \in Names /\ Len(p) = n - 1
      /\ \A k \in 1..(n - 1) : p[k] = path[k]
  <2>1. /\ p \in Seq(PathNames)
        /\ Len(p) = IF 1 <= n - 1 THEN (n - 1) - 1 + 1 ELSE 0
        /\ \A k \in 1..((n - 1) - 1 + 1) : p[k] = path[1 + k - 1]
    BY <1>1, SubSeqProperties
  <2> HIDE DEF p
  <2> QED
    BY <1>1, <2>1 DEF Names
<1>3. /\ q \in Names /\ Len(q) = n
      /\ \A k \in 1..n : q[k] = path[k]
  <2>1. /\ q \in Seq(PathNames)
        /\ Len(q) = IF 1 <= n THEN n - 1 + 1 ELSE 0
        /\ \A k \in 1..(n - 1 + 1) : q[k] = path[1 + k - 1]
    BY <1>1, SubSeqProperties
  <2> HIDE DEF q
  <2> QED
    BY <1>1, <2>1 DEF Names
<1> HIDE DEF p, q
<1>4. /\ Append(p, path[n]) \in Names /\ Len(Append(p, path[n])) = n
      /\ \A k \in 1..(n - 1) : Append(p, path[n])[k] = p[k]
      /\ Append(p, path[n])[n] = path[n]
  <2>1. /\ Append(p, path[n]) \in Seq(PathNames)
        /\ Len(Append(p, path[n])) = Len(p) + 1
        /\ \A k \in 1..Len(p) : Append(p, path[n])[k] = p[k]
        /\ Append(p, path[n])[Len(p) + 1] = path[n]
    BY <1>1, <1>2, AppendProperties DEF Names
  <2> QED
    BY <1>1, <1>2, <2>1 DEF Names
<1>5. \A k \in 1..n : q[k] = Append(p, path[n])[k]
  <2>1. \A k \in 1..n : k \in 1..(n - 1) \/ k = n
    BY <1>1
  <2> QED
    BY <1>2, <1>3, <1>4, <2>1
<1>6. q = Append(p, path[n])
  BY <1>3, <1>4, <1>5, SeqEqual DEF Names
<1> QED
  BY <1>1, <1>2, <1>6 DEF p, q

\* A path without "." and ".." is what it reaches.
LEMMA PlainReduced ==
  ASSUME NEW path \in Names, Plain(path)
  PROVE  Reduced(path) = path
<1> DEFINE N == Len(path)
           Done == {n \in 0..N : Reduced(SubSeq(path, 1, n)) = SubSeq(path, 1, n)}
<1>1. N \in Nat /\ DOMAIN path = 1..N
  BY LenProperties DEF Names
<1>2. 0 \in Done
  <2>1. SubSeq(path, 1, 0) = <<>>
    BY SubSeqEmpty
  <2>2. Reduced(<<>>) = <<>>
    <3>1. <<>> \in Names /\ Len(<<>>) = 0
      BY EmptySeq DEF Names
    <3>2. PICK f : ReducedBy(f, <<>>)
      BY <3>1, ReducedSteps
    <3> QED
      BY <3>1, <3>2 DEF ReducedBy
  <2>3. 0 \in 0..N
    BY <1>1
  <2>4. Reduced(SubSeq(path, 1, 0)) = SubSeq(path, 1, 0)
    BY ONLY <2>1, <2>2, Zenon
  <2> QED
    BY <2>3, <2>4
<1>3. ASSUME NEW m \in 0..(N - 1), m \in Done PROVE m + 1 \in Done
  <2>1. m + 1 \in 1..N /\ m + 1 \in 0..N /\ (m + 1) - 1 = m
    BY <1>1
  <2> DEFINE p == SubSeq(path, 1, m)
  <2>2. /\ p \in Names
        /\ SubSeq(path, 1, m + 1) = Append(p, path[m + 1])
        /\ path[m + 1] \in PathNames
    <3>1. /\ SubSeq(path, 1, (m + 1) - 1) \in Names
          /\ SubSeq(path, 1, m + 1) = Append(SubSeq(path, 1, (m + 1) - 1), path[m + 1])
          /\ path[m + 1] \in PathNames
      BY <2>1, OneMore
    <3> QED
      BY <2>1, <3>1
  <2>3. Reduced(p) = p
    BY <1>3
  <2> HIDE DEF p
  <2>4. Reduced(Append(p, path[m + 1])) = Apply(p, path[m + 1])
    BY <2>2, <2>3, ReducedAppend
  <2>5. path[m + 1] # "." /\ path[m + 1] # ".."
    BY <1>1, <2>1 DEF Plain
  <2>6. Apply(p, path[m + 1]) = Append(p, path[m + 1])
    BY <2>5 DEF Apply
  <2> QED
    BY <2>1, <2>2, <2>4, <2>6
<1>4. N \in Done
  <2> HIDE DEF Done, N
  <2> QED
    BY <1>1, <1>2, <1>3, UpToN
<1>5. SubSeq(path, 1, N) = path
  BY SubSeqFull DEF Names
<1> QED
  BY <1>4, <1>5

-----------------------------------------------------------------------------
(* Paths under a root                                                          *)

LEMMA UnderByComponent ==
  ASSUME NEW p \in Names, NEW root \in Names
  PROVE  IsUnder(p, root) <=> Len(root) <= Len(p) /\ \A k \in 1..Len(root) : p[k] = root[k]
<1> DEFINE N == Len(root)
           q == SubSeq(p, 1, N)
<1>1. /\ N \in Nat /\ Len(p) \in Nat
      /\ \A k \in 1..N : root[k] \in PathNames
      /\ \A k \in 1..Len(p) : p[k] \in PathNames
  BY LenProperties, ElementOfSeq DEF Names
<1>2. SubSeq(root, 1, N) = root
  BY SubSeqFull DEF Names
<1>3. IsUnder(p, root) <=> N <= Len(p) /\ root = q
  BY <1>2 DEF IsUnder, IsPrefix
<1>4. ASSUME N <= Len(p)
      PROVE  root = q <=> \A k \in 1..N : p[k] = root[k]
  <2>1. \A k \in 1..N : p[k] \in PathNames
    BY <1>1, <1>4
  <2>2. /\ q \in Seq(PathNames)
        /\ Len(q) = IF 1 <= N THEN N - 1 + 1 ELSE 0
        /\ \A k \in 1..(N - 1 + 1) : q[k] = p[1 + k - 1]
    <3> HIDE DEF N
    <3> QED
      BY <1>1, <2>1, SubSeqProperties
  <2> HIDE DEF q
  <2>3. Len(q) = N /\ \A k \in 1..N : q[k] = p[k]
    BY <1>1, <2>2
  <2>4. (\A k \in 1..N : root[k] = q[k]) => root = q
    BY <2>2, <2>3, SeqEqual DEF Names
  <2> QED
    BY <2>3, <2>4
<1> QED
  BY <1>3, <1>4

LEMMA UnderStrictly ==
  ASSUME NEW p \in Names, NEW root \in Names, IsUnder(p, root)
  PROVE  IsStrictPrefix(root, p) <=> Len(p) # Len(root)
<1>1. Len(p) \in Nat /\ Len(root) \in Nat
  BY LenProperties DEF Names
<1>2. Len(root) <= Len(p) /\ \A k \in 1..Len(root) : p[k] = root[k]
  BY UnderByComponent
<1>3. Len(p) = Len(root) => root = p
  BY <1>1, <1>2, SeqEqual DEF Names
<1> QED
  BY <1>3 DEF IsStrictPrefix, IsUnder

LEMMA UnderLonger ==
  ASSUME NEW p \in Names, NEW root \in Names, NEW name \in PathNames, IsUnder(p, root)
  PROVE  /\ IsUnder(Append(p, name), root)
         /\ Len(Append(p, name)) = Len(p) + 1
<1> DEFINE q == Append(p, name)
<1>1. Len(p) \in Nat /\ Len(root) \in Nat
  BY LenProperties DEF Names
<1>2. /\ q \in Names /\ Len(q) = Len(p) + 1
      /\ \A k \in 1..Len(p) : q[k] = p[k]
  <2>1. p \in Seq(PathNames)
    BY DEF Names
  <2>2. /\ Append(p, name) \in Seq(PathNames)
        /\ Len(Append(p, name)) = Len(p) + 1
        /\ \A k \in 1..Len(p) : Append(p, name)[k] = p[k]
        /\ Append(p, name)[Len(p) + 1] = name
    BY <2>1, AppendedOf
  <2> QED
    BY <2>2 DEF Names
<1> HIDE DEF q
<1>3. Len(root) <= Len(p) /\ \A k \in 1..Len(root) : p[k] = root[k]
  BY UnderByComponent
<1>4. \A k \in 1..Len(root) : k \in 1..Len(p)
  BY <1>1, <1>3
<1>5. Len(root) <= Len(q) /\ \A k \in 1..Len(root) : q[k] = root[k]
  BY <1>1, <1>2, <1>3, <1>4
<1> QED
  BY <1>2, <1>5, UnderByComponent DEF q

LEMMA UnderShorter ==
  ASSUME NEW p \in Names, NEW root \in Names, IsUnder(p, root), Len(p) # Len(root)
  PROVE  /\ p # <<>>
         /\ IsUnder(Front(p), root)
         /\ Len(Front(p)) = Len(p) - 1
<1>1. Len(p) \in Nat /\ Len(root) \in Nat
  BY LenProperties DEF Names
<1>2. Len(root) <= Len(p) /\ \A k \in 1..Len(root) : p[k] = root[k]
  BY UnderByComponent
<1>3. p # <<>>
  BY <1>1, <1>2, EmptySeq
<1>4. /\ Front(p) \in Names /\ Len(Front(p)) = Len(p) - 1
      /\ \A k \in 1..(Len(p) - 1) : Front(p)[k] = p[k]
  BY <1>3, FrontOf
<1>5. \A k \in 1..Len(root) : k \in 1..(Len(p) - 1)
  BY <1>1, <1>2
<1>6. Len(root) <= Len(Front(p)) /\ \A k \in 1..Len(root) : Front(p)[k] = root[k]
  BY <1>1, <1>2, <1>4, <1>5
<1> QED
  BY <1>3, <1>4, <1>6, UnderByComponent

-----------------------------------------------------------------------------
(* The depth count                                                             *)

\* The values of the recursive definition of SpellingEscapes.
CountedBy(f, importer, root, import) ==
  /\ f[0] = DepthBelow(Directory(importer), root)
  /\ \A n \in 1..Len(import) : f[n] = Descend(f[n - 1], import[n])
  /\ SpellingEscapes(importer, root, import) <=> f[Len(import)] = NotBelow

LEMMA DescendType ==
  ASSUME NEW d \in Int, NEW name
  PROVE  Descend(d, name) \in Int
BY DEF Descend, NotBelow

LEMMA DepthSteps ==
  ASSUME NEW importer, NEW root \in Names, NEW import \in Names, Directory(importer) \in Names
  PROVE  \E f : CountedBy(f, importer, root, import)
<1> DEFINE N == Len(import)
           start == DepthBelow(Directory(importer), root)
           step == [sn \in Int \X (1..N) |-> Descend(sn[1], import[sn[2]])]
           F(h) == [n \in 0..N |-> IF n = 0 THEN start ELSE Descend(h[n - 1], import[n])]
           g == CHOOSE h : h = F(h)
<1>1. N \in Nat
  BY LenProperties DEF Names
<1>2. step \in [Int \X (1..N) -> Int]
  BY DescendType
<1>3. start \in Int
  BY LenProperties DEF Names, DepthBelow, NotBelow
<1>4. PICK f \in [0..N -> Int] : Follows(f, start, step, N)
  <2> HIDE DEF step, N, start
  <2> QED
    BY <1>1, <1>2, <1>3, Iterates
<1>5. f = F(f)
  <2>1. ASSUME NEW n \in 1..N PROVE f[n] = Descend(f[n - 1], import[n])
    <3>1. n - 1 \in 0..N /\ f[n - 1] \in Int
      BY <1>1
    <3>2. <<f[n - 1], n>> \in Int \X (1..N)
      BY <3>1
    <3>3. step[<<f[n - 1], n>>] = Descend(f[n - 1], import[n])
      BY <3>2
    <3> QED
      BY <1>4, <3>3 DEF Follows
  <2>2. f[0] = start
    BY <1>4 DEF Follows
  <2>3. \A n \in 0..N : n # 0 => n \in 1..N
    BY <1>1
  <2>4. \A n \in 0..N : f[n] = IF n = 0 THEN start ELSE Descend(f[n - 1], import[n])
    BY <2>1, <2>2, <2>3
  <2> HIDE DEF step, N, start
  <2> QED
    BY <1>4, <2>4
<1>6. g = F(g)
  BY <1>5
<1>7. SpellingEscapes(importer, root, import) <=> g[N] = NotBelow
  BY DEF SpellingEscapes
<1>8. g[0] = start /\ \A n \in 1..N : g[n] = Descend(g[n - 1], import[n])
  <2> HIDE DEF g, N, start
  <2> QED
    BY <1>1, <1>6
<1> QED
  BY <1>7, <1>8 DEF CountedBy

\* What the first n components of a spelling reach.
At(from, import, n) == Reduced(from \o SubSeq(import, 1, n))

LEMMA AtStart ==
  ASSUME NEW from \in Names, NEW import \in Names, Plain(from)
  PROVE  At(from, import, 0) = from
<1>1. SubSeq(import, 1, 0) = <<>>
  BY SubSeqEmpty
<1>2. from \o <<>> = from
  BY ConcatEmptySeq DEF Names
<1>3. Reduced(from) = from
  BY PlainReduced
<1>4. At(from, import, 0) = Reduced(from \o SubSeq(import, 1, 0))
  BY DEF At
<1> QED
  BY ONLY <1>1, <1>2, <1>3, <1>4, Zenon

LEMMA AtStep ==
  ASSUME NEW from \in Names, NEW import \in Names, NEW n \in 1..Len(import)
  PROVE  /\ At(from, import, n - 1) \in Names
         /\ At(from, import, n) = Apply(At(from, import, n - 1), import[n])
<1> DEFINE p == SubSeq(import, 1, n - 1)
           name == import[n]
<1>1. p \in Names /\ SubSeq(import, 1, n) = Append(p, name) /\ name \in PathNames
  BY OneMore
<1> HIDE DEF p, name
<1>2. from \o p \in Names
  BY <1>1, ConcatProperties DEF Names
<1>3. from \o Append(p, name) = Append(from \o p, name)
  <2>1. <<name>> \in Seq(PathNames)
    BY <1>1, ShortSequences
  <2>2. Append(p, name) = p \o <<name>>
    BY <1>1, AppendIsConcat DEF Names
  <2>3. Append(from \o p, name) = (from \o p) \o <<name>>
    BY <1>1, <1>2, AppendIsConcat DEF Names
  <2>4. (from \o p) \o <<name>> = from \o (p \o <<name>>)
    <3>1. from \in Seq(PathNames) /\ p \in Seq(PathNames)
      BY <1>1 DEF Names
    <3> QED
      BY <2>1, <3>1, ConcatAssociative
  <2> QED
    BY <2>2, <2>3, <2>4
<1>4. /\ Reduced(from \o p) \in Names
      /\ Reduced(Append(from \o p, name)) = Apply(Reduced(from \o p), name)
  BY <1>1, <1>2, ReducedAppend
<1>5. At(from, import, n) = Reduced(from \o SubSeq(import, 1, n)) /\ At(from, import, n - 1) = Reduced(from \o p)
  BY DEF At, p
<1> QED
  BY ONLY <1>1, <1>3, <1>4, <1>5, Zenon DEF name

\* While the count has not given up, it is the depth of what is reached, and it
\* gives up exactly where the spelling climbs out.
Tracks(f, from, root, import, n) ==
  /\ f[n] = NotBelow <=> ~ IsUnder(from, root) \/ \E m \in 1..n : ClimbsOut(from, root, import, m)
  /\ f[n] # NotBelow =>
       /\ IsUnder(At(from, import, n), root)
       /\ f[n] = Len(At(from, import, n)) - Len(root)

LEMMA TracksStart ==
  ASSUME NEW f, NEW importer, NEW root \in Names, NEW import \in Names,
         Directory(importer) \in Names, Plain(Directory(importer)),
         CountedBy(f, importer, root, import)
  PROVE  Tracks(f, Directory(importer), root, import, 0)
<1> DEFINE from == Directory(importer)
<1>1. At(from, import, 0) = from
  BY AtStart
<1>2. f[0] = DepthBelow(from, root)
  BY DEF CountedBy
<1>3. Len(from) \in Nat /\ Len(root) \in Nat
  BY LenProperties DEF Names
<1>4. IsUnder(from, root) => Len(root) <= Len(from)
  BY UnderByComponent
<1>5. 1..0 = {}
  OBVIOUS
<1> HIDE DEF from
<1> QED
  BY <1>1, <1>2, <1>3, <1>4, <1>5 DEF Tracks, DepthBelow, NotBelow, from

LEMMA TracksStep ==
  ASSUME NEW f, NEW importer, NEW root \in Names, NEW import \in Names, NEW from \in Names,
         CountedBy(f, importer, root, import),
         NEW n \in 1..Len(import), Tracks(f, from, root, import, n - 1)
  PROVE  Tracks(f, from, root, import, n)
<1> DEFINE before == At(from, import, n - 1)
           name == import[n]
<1>1. before \in Names /\ At(from, import, n) = Apply(before, name) /\ name \in PathNames
  BY AtStep, OneMore
<1>2. f[n] = Descend(f[n - 1], name)
  BY DEF CountedBy
<1>3. ClimbsOut(from, root, import, n) <=> name = ".." /\ ~ IsStrictPrefix(root, before)
  BY DEF ClimbsOut, At
<1>4. n \in Nat /\ \A m \in 1..n : m \in 1..(n - 1) \/ m = n
  BY LenProperties DEF Names
<1>5. \A m \in 1..(n - 1) : m \in 1..n
  BY <1>4
<1>6. Len(before) \in Nat /\ Len(root) \in Nat
  BY <1>1, LenProperties DEF Names
<1> HIDE DEF before, name
<1>7. CASE f[n - 1] = NotBelow
  <2>1. f[n] = NotBelow
    BY <1>2, <1>7 DEF Descend
  <2>2. ~ IsUnder(from, root) \/ \E m \in 1..(n - 1) : ClimbsOut(from, root, import, m)
    BY <1>7 DEF Tracks
  <2> QED
    BY <1>5, <2>1, <2>2 DEF Tracks
<1>8. CASE f[n - 1] # NotBelow
  <2>1. IsUnder(before, root) /\ f[n - 1] = Len(before) - Len(root)
    BY <1>8 DEF Tracks, before
  <2>2. IsUnder(from, root) /\ ~ \E m \in 1..(n - 1) : ClimbsOut(from, root, import, m)
    BY <1>8 DEF Tracks
  <2>3. (~ IsUnder(from, root) \/ \E m \in 1..n : ClimbsOut(from, root, import, m))
          <=> ClimbsOut(from, root, import, n)
    BY <1>4, <2>2
  <2>4. IsStrictPrefix(root, before) <=> Len(before) # Len(root)
    BY <1>1, <2>1, UnderStrictly
  <2>5. Len(root) <= Len(before)
    BY <1>1, <2>1, UnderByComponent
  <2>6. CASE name = "."
    <3>1. f[n] = f[n - 1] /\ Apply(before, name) = before
      BY <1>2, <1>8, <2>6 DEF Descend, Apply
    <3>2. ~ ClimbsOut(from, root, import, n)
      BY <1>3, <2>6
    <3> QED
      BY <1>1, <1>8, <2>1, <2>3, <3>1, <3>2 DEF Tracks
  <2>7. CASE name = ".." /\ Len(before) = Len(root)
    <3>1. f[n - 1] = 0
      BY <1>6, <2>1, <2>7
    <3>2. f[n] = NotBelow
      BY <1>2, <2>7, <3>1 DEF Descend, NotBelow
    <3>3. ClimbsOut(from, root, import, n)
      BY <1>3, <2>4, <2>7
    <3> QED
      BY <2>3, <3>2, <3>3 DEF Tracks
  <2>8. CASE name = ".." /\ Len(before) # Len(root)
    <3>1. before # <<>> /\ IsUnder(Front(before), root) /\ Len(Front(before)) = Len(before) - 1
      BY <1>1, <2>1, <2>8, UnderShorter
    <3>2. Apply(before, name) = Front(before)
      BY <2>8, <3>1 DEF Apply
    <3>3. f[n] = f[n - 1] - 1 /\ f[n] # NotBelow
      BY <1>2, <1>6, <1>8, <2>1, <2>5, <2>8 DEF Descend, NotBelow
    <3>4. ~ ClimbsOut(from, root, import, n)
      BY <1>3, <2>4, <2>8
    <3> QED
      BY <1>1, <1>6, <2>1, <2>3, <3>1, <3>2, <3>3, <3>4 DEF Tracks
  <2>9. CASE name # "." /\ name # ".."
    <3>1. IsUnder(Append(before, name), root) /\ Len(Append(before, name)) = Len(before) + 1
      BY <1>1, <2>1, UnderLonger
    <3>2. Apply(before, name) = Append(before, name)
      BY <2>9 DEF Apply
    <3>3. f[n] = f[n - 1] + 1 /\ f[n] # NotBelow
      BY <1>2, <1>6, <1>8, <2>1, <2>5, <2>9 DEF Descend, NotBelow
    <3>4. ~ ClimbsOut(from, root, import, n)
      BY <1>3, <2>9
    <3> QED
      BY <1>1, <1>6, <2>1, <2>3, <3>1, <3>2, <3>3, <3>4 DEF Tracks
  <2> QED
    BY <2>6, <2>7, <2>8, <2>9
<1> QED
  BY <1>7, <1>8

\* The depth count gives up on exactly the spellings that climb out.
LEMMA SpellingEscapesExactly ==
  ASSUME NEW importer, NEW root \in Names, NEW import \in Names,
         Directory(importer) \in Names, Plain(Directory(importer))
  PROVE  SpellingEscapes(importer, root, import) <=>
           \/ ~ IsUnder(Directory(importer), root)
           \/ \E n \in 1..Len(import) : ClimbsOut(Directory(importer), root, import, n)
<1> DEFINE N == Len(import)
           from == Directory(importer)
<1>1. N \in Nat
  BY LenProperties DEF Names
<1>2. PICK f : CountedBy(f, importer, root, import)
  BY DepthSteps
<1> DEFINE Done == {n \in 0..N : Tracks(f, from, root, import, n)}
<1>3. 0 \in Done
  BY <1>1, <1>2, TracksStart
<1>4. ASSUME NEW m \in 0..(N - 1), m \in Done PROVE m + 1 \in Done
  <2>1. m + 1 \in 1..N /\ (m + 1) - 1 = m /\ m + 1 \in 0..N
    BY <1>1
  <2>2. Tracks(f, from, root, import, (m + 1) - 1)
    BY <1>4, <2>1
  <2>3. Tracks(f, from, root, import, m + 1)
    BY <1>2, <2>1, <2>2, TracksStep
  <2> QED
    BY <2>1, <2>3
<1>5. N \in Done
  <2> HIDE DEF Done, N
  <2> QED
    BY <1>1, <1>3, <1>4, UpToN
<1> QED
  BY <1>2, <1>5 DEF Tracks, CountedBy

-----------------------------------------------------------------------------
(* The links                                                                   *)

Walks == [at : Names, found : BOOLEAN]

LEMMA WalkIntoType ==
  ASSUME NEW w \in Walks, NEW name \in PathNames
  PROVE  WalkInto(w, name) \in Walks
<1>1. w.at \in Names
  BY DEF Walks
<1>2. <<>> \in Names
  BY DEF Names
<1>3. w.at # <<>> => Front(w.at) \in Names
  BY <1>1, FrontOf
<1>4. Append(w.at, name) \in Names
  BY <1>1, AppendedOf DEF Names
<1>5. Append(w.at, name) \in DOMAIN Links => Links[Append(w.at, name)] \in Names
  BY PathsAssumption DEF Names
<1> DEFINE next == Append(w.at, name)
<1>6. (IF next \in DOMAIN Links THEN Links[next] ELSE next) \in Names
  BY <1>4, <1>5
<1>7. (IF w.at = <<>> THEN <<>> ELSE Front(w.at)) \in Names
  BY <1>2, <1>3
<1> HIDE DEF next
<1>8. Nowhere \in Walks
  BY <1>2 DEF Nowhere, Walks
<1> QED
  BY <1>6, <1>7, <1>8 DEF WalkInto, Walks, next

LEMMA CanonicalType ==
  ASSUME NEW path \in Names
  PROVE  Canonical(path) \in Names
<1> DEFINE N == Len(path)
           start == [at |-> <<>>, found |-> TRUE]
           step == [sn \in Walks \X (1..N) |-> WalkInto(sn[1], path[sn[2]])]
           F(h) == [n \in 0..N |-> IF n = 0 THEN start ELSE WalkInto(h[n - 1], path[n])]
           g == CHOOSE h : h = F(h)
<1>1. N \in Nat /\ \A n \in 1..N : path[n] \in PathNames
  BY LenProperties, ElementOfSeq DEF Names
<1>2. step \in [Walks \X (1..N) -> Walks]
  BY <1>1, WalkIntoType
<1>3. start \in Walks
  BY DEF Walks, Names
<1>4. PICK f \in [0..N -> Walks] : Follows(f, start, step, N)
  <2> HIDE DEF step, N, start
  <2> QED
    BY <1>1, <1>2, <1>3, Iterates
<1>5. f = F(f)
  <2>1. ASSUME NEW n \in 1..N PROVE f[n] = WalkInto(f[n - 1], path[n])
    <3>1. n - 1 \in 0..N /\ f[n - 1] \in Walks
      BY <1>1
    <3>2. <<f[n - 1], n>> \in Walks \X (1..N)
      BY <3>1
    <3>3. step[<<f[n - 1], n>>] = WalkInto(f[n - 1], path[n])
      BY <3>2
    <3> QED
      BY <1>4, <3>3 DEF Follows
  <2>2. f[0] = start
    BY <1>4 DEF Follows
  <2>3. \A n \in 0..N : n # 0 => n \in 1..N
    BY <1>1
  <2>4. \A n \in 0..N : f[n] = IF n = 0 THEN start ELSE WalkInto(f[n - 1], path[n])
    BY <2>1, <2>2, <2>3
  <2> HIDE DEF step, N, start
  <2> QED
    BY <1>4, <2>4
<1>6. g = F(g)
  BY <1>5
<1>7. Walk(path) = g[N]
  BY DEF Walk
<1>8. g[0] = start /\ \A n \in 1..N : g[n] = WalkInto(g[n - 1], path[n])
  <2> HIDE DEF g, N, start
  <2> QED
    BY <1>1, <1>6
<1> DEFINE Typed == {n \in 0..N : g[n] \in Walks}
<1>9. 0 \in Typed
  BY <1>1, <1>3, <1>8
<1>10. ASSUME NEW m \in 0..(N - 1), m \in Typed PROVE m + 1 \in Typed
  <2>1. m + 1 \in 1..N /\ (m + 1) - 1 = m /\ m + 1 \in 0..N
    BY <1>1
  <2>2. g[m + 1] = WalkInto(g[m], path[m + 1])
    BY <1>8, <2>1
  <2>3. path[m + 1] \in PathNames /\ g[m] \in Walks
    BY <1>1, <1>10, <2>1
  <2> HIDE DEF g, N
  <2> QED
    BY <2>1, <2>2, <2>3, WalkIntoType
<1>11. N \in Typed
  <2> HIDE DEF Typed, N
  <2> QED
    BY <1>1, <1>9, <1>10, UpToN
<1>12. Walk(path).at \in Names
  BY <1>7, <1>11 DEF Walks
<1> QED
  BY <1>12 DEF Canonical

-----------------------------------------------------------------------------
(* One import                                                                  *)

LEMMA RelativeRootType == ASSUME NEW importer PROVE RelativeRoot(importer) \in Names
<1>1. ProjectRoot \in Names
  BY PathsAssumption DEF Names
<1>2. StdRoot \in Names
  <2>1. "library" \in PathNames /\ "std" \in PathNames
    BY PathsAssumption
  <2>2. <<"library", "std">> \in Seq(PathNames)
    BY <2>1, ShortSequences
  <2> QED
    BY <1>1, <2>2, ConcatProperties DEF StdRoot, Names
<1> QED
  BY <1>1, <1>2, CanonicalType DEF RelativeRoot

LEMMA DirectoryPlain ==
  ASSUME NEW importer \in Names, importer # <<>>, Plain(importer)
  PROVE  Directory(importer) \in Names /\ Plain(Directory(importer))
<1>1. Len(importer) \in Nat /\ DOMAIN importer = 1..Len(importer)
  BY LenProperties DEF Names
<1>2. /\ Front(importer) \in Names
      /\ Len(Front(importer)) = Len(importer) - 1
      /\ \A k \in 1..(Len(importer) - 1) : Front(importer)[k] = importer[k]
  BY FrontOf
<1>3. DOMAIN Front(importer) = 1..(Len(importer) - 1)
  BY <1>2, LenProperties DEF Names
<1> QED
  BY <1>1, <1>2, <1>3 DEF Directory, Plain

\* Resolve refuses as escapes exactly those that are.
LEMMA ResolvedStays ==
  ASSUME NEW i \in Importings, i.request.kind = "relative"
  PROVE  /\ Resolve(i.importer, i.request) = "escapes" <=> EscapesByDefinition(i.importer, i.request)
         /\ Resolve(i.importer, i.request) = "found" =>
              IsUnder(Resolved(i.importer, i.request), RelativeRoot(i.importer))
<1> DEFINE importer == i.importer
           request == i.request
           root == RelativeRoot(importer)
           from == Directory(importer)
           file == from \o request.path
<1>1. importer \in Names /\ importer # <<>> /\ Plain(importer) /\ request.path \in Names
  BY ImportingsAssumption DEF Names, Plain
<1>2. root \in Names
  BY RelativeRootType
<1>3. from \in Names /\ Plain(from)
  BY <1>1, DirectoryPlain
<1>4. request.kind = "relative"
  OBVIOUS
<1> HIDE DEF importer, request
<1>5. Candidate(importer, request) = file
  BY <1>4 DEF Candidate
<1>6. SpellingEscapes(importer, root, request.path) <=>
        ~ IsUnder(from, root) \/ \E n \in 1..Len(request.path) : ClimbsOut(from, root, request.path, n)
  BY <1>1, <1>2, <1>3, SpellingEscapesExactly
<1>7. EscapesByDefinition(importer, request) <=>
        SpellingEscapes(importer, root, request.path) \/ (Exists(file) /\ ~ IsUnder(Canonical(file), root))
  BY <1>6 DEF EscapesByDefinition
<1>8. LeavesRoot(importer, request) <=> ~ IsUnder(Canonical(file), root)
  BY <1>4, <1>5 DEF LeavesRoot
<1> HIDE DEF root, file
<1>9. CASE SpellingEscapes(importer, root, request.path)
  <2>1. Resolve(importer, request) = "escapes"
    BY <1>4, <1>9 DEF Resolve, root
  <2> QED
    BY <1>7, <1>9, <2>1 DEF importer, request
<1>10. CASE ~ SpellingEscapes(importer, root, request.path) /\ ~ Exists(file)
  <2>1. Resolve(importer, request) = "missing"
    BY <1>4, <1>5, <1>10 DEF Resolve, root
  <2> QED
    BY <1>7, <1>10, <2>1 DEF importer, request
<1>11. CASE ~ SpellingEscapes(importer, root, request.path) /\ Exists(file)
  <2>1. Resolve(importer, request) = IF LeavesRoot(importer, request) THEN "escapes"
          ELSE IF Last(file) \notin SourceNames THEN "foreign" ELSE "found"
    BY <1>4, <1>5, <1>11 DEF Resolve, root
  <2>2. Resolved(importer, request) = Canonical(file)
    BY <1>5 DEF Resolved
  <2>3. Resolve(importer, request) = "escapes" <=> LeavesRoot(importer, request)
    BY <2>1
  <2>4. Resolve(importer, request) = "found" => ~ LeavesRoot(importer, request)
    BY <2>1
  <2> QED
    BY <1>7, <1>8, <1>11, <2>2, <2>3, <2>4 DEF importer, request, root
<1> QED
  BY <1>9, <1>10, <1>11

ResolutionInvariant ==
  /\ importing \in Importings
  /\ answered \in {"pending", Resolve(importing.importer, importing.request)}

LEMMA ResolutionKept == ResolutionSpec => []ResolutionInvariant
<1>1. ResolutionInit => ResolutionInvariant
  BY DEF ResolutionInit, ResolutionInvariant
<1>2. ResolutionInvariant /\ [ResolveImport]_resolutionVars => ResolutionInvariant'
  BY DEF ResolutionInvariant, ResolveImport, resolutionVars
<1> QED
  BY <1>1, <1>2, PTL DEF ResolutionSpec

\* A relative import is refused as an escape exactly when its importer lies
\* outside the root, its spelling climbs out of the root, or a link leads out of
\* it; and the file loaded for any other lies under the root.
THEOREM ImportsNeverLeave == ResolutionSpec => []ImportsStayInTheirRoot
<1>1. ResolutionInvariant => ImportsStayInTheirRoot
  <2> SUFFICES ASSUME ResolutionInvariant, answered # "pending", importing.request.kind = "relative"
               PROVE  /\ (answered = "escapes") =
                           EscapesByDefinition(importing.importer, importing.request)
                      /\ answered = "found" =>
                           IsUnder(Resolved(importing.importer, importing.request),
                                   RelativeRoot(importing.importer))
    BY DEF ImportsStayInTheirRoot
  <2>1. importing \in Importings /\ answered = Resolve(importing.importer, importing.request)
    BY DEF ResolutionInvariant
  <2>2. answered = "escapes" <=> EscapesByDefinition(importing.importer, importing.request)
    BY <2>1, ResolvedStays
  <2>3. EscapesByDefinition(importing.importer, importing.request) \in BOOLEAN
    BY DEF EscapesByDefinition
  <2> QED
    BY <2>1, <2>2, <2>3, ResolvedStays
<1> QED
  BY <1>1, ResolutionKept, PTL

-----------------------------------------------------------------------------
(* Runs of bytes                                                               *)

\* A source is a sequence of bytes.
LEMMA SourceType ==
  ASSUME source \in Sources
  PROVE  source \in Seq(Bytes) /\ Size \in Nat /\ \A k \in 1..Size : source[k] \in Bytes
BY TextAssumption, LenProperties, ElementOfSeq DEF Size

\* A run of bytes ends at the first one outside the set, or with the text.
LEMMA RunEnds ==
  ASSUME source \in Sources, NEW o \in 0..Size, NEW S
  PROVE  /\ RunEnd(o, S) \in o..Size
         /\ RunEnd(o, S) = Size \/ source[RunEnd(o, S) + 1] \notin S
         /\ \A q \in o..RunEnd(o, S) - 1 : source[q + 1] \in S
<1> DEFINE Stops == {p \in o..Size : p = Size \/ source[p + 1] \notin S}
<1>1. Size \in Nat
  BY SourceType
<1> HIDE DEF Size
<1>2. Stops \subseteq Nat /\ Size \in Stops
  BY <1>1
<1>3. PICK p \in Stops : \A q \in Stops : p <= q
  <2> HIDE DEF Stops
  <2> QED
    BY <1>2, LeastOf
<1>4. \A q \in o..p - 1 : source[q + 1] \in S
  <2>1. SUFFICES ASSUME NEW q \in o..p - 1, source[q + 1] \notin S PROVE FALSE
    OBVIOUS
  <2>2. q \in Stops
    BY <1>1, <2>1
  <2> QED
    BY <1>1, <1>3, <2>2
<1>5. \E r \in o..Size : /\ r = Size \/ source[r + 1] \notin S
                         /\ \A q \in o..r - 1 : source[q + 1] \in S
  BY <1>3, <1>4
<1> QED
  BY <1>5 DEF RunEnd

\* Where a run begins with one of its bytes, it is not empty.
LEMMA RunGoesOn ==
  ASSUME source \in Sources, NEW o \in 0..Size, o < Size, NEW S, source[o + 1] \in S
  PROVE  RunEnd(o, S) \in (o + 1)..Size
<1>1. Size \in Nat
  BY SourceType
<1>2. RunEnd(o, S) \in o..Size /\ (RunEnd(o, S) = Size \/ source[RunEnd(o, S) + 1] \notin S)
  BY RunEnds
<1> HIDE DEF Size
<1> QED
  BY <1>1, <1>2

-----------------------------------------------------------------------------
(* Blanks and comments                                                         *)

\* A spelling that is matched lies in the text.
LEMMA MatchedBytes ==
  ASSUME source \in Sources, NEW o \in 0..Size, NEW s \in Seq(Bytes), s # <<>>, MatchesAt(o, s)
  PROVE  o + Len(s) \in (o + 1)..Size /\ source[o + 1] = s[1] /\ o < Size
<1>1. Size \in Nat /\ source \in Seq(Bytes) /\ Size = Len(source) /\ \A k \in 1..Size : source[k] \in Bytes
  BY SourceType DEF Size
<1>2. Len(s) \in Nat /\ Len(s) >= 1
  BY EmptySeq, LenProperties
<1>3. o + Len(s) <= Size /\ SubSeq(source, o + 1, o + Len(s)) = s
  BY DEF MatchesAt
<1> HIDE DEF Size
<1>4. \A k \in (o + 1)..(o + Len(s)) : source[k] \in Bytes
  BY <1>1, <1>2, <1>3
<1>5. \A k \in 1..(o + Len(s) - (o + 1) + 1) : SubSeq(source, o + 1, o + Len(s))[k] = source[o + 1 + k - 1]
  <2>1. o + 1 \in Int /\ o + Len(s) \in Int
    BY <1>2
  <2> QED
    BY <1>1, <1>2, <1>4, <2>1, SubSeqProperties
<1>6. 1 \in 1..(o + Len(s) - (o + 1) + 1) /\ o + 1 + 1 - 1 = o + 1
  BY <1>1, <1>2
<1>7. s[1] = source[o + 1]
  BY <1>3, <1>5, <1>6
<1> QED
  BY <1>1, <1>2, <1>3, <1>7

\* Two gaps in a row are a gap.
LEMMA GapsJoin ==
  ASSUME NEW a \in Nat, NEW b \in Nat, NEW c \in Nat, a <= b, b <= c, IsGap(a, b), IsGap(b, c)
  PROVE  IsGap(a, c)
<1>1. SUFFICES ASSUME NEW o \in a..c - 1
      PROVE  \/ source[o + 1] \in Blank
             \/ \E p \in a..o : MatchesAt(p, <<Slash, Slash>>) /\ \A q \in p..o : source[q + 1] # Newline
  BY DEF IsGap
<1>2. CASE o < b
  <2>1. o \in a..b - 1
    BY <1>2
  <2> QED
    BY <2>1 DEF IsGap
<1>3. CASE ~ (o < b)
  <2>1. o \in b..c - 1 /\ b..o \subseteq a..o
    BY <1>3
  <2> QED
    BY <2>1 DEF IsGap
<1> QED
  BY <1>2, <1>3

\* Skipping blanks passes over a gap.
LEMMA BlanksAreGap ==
  ASSUME source \in Sources, NEW o \in 0..Size
  PROVE  RunEnd(o, Blank) \in o..Size /\ IsGap(o, RunEnd(o, Blank))
<1>1. RunEnd(o, Blank) \in o..Size /\ \A q \in o..RunEnd(o, Blank) - 1 : source[q + 1] \in Blank
  BY RunEnds
<1> QED
  BY <1>1 DEF IsGap

CommentEnd(p) == RunEnd(p, Bytes \ {Newline})

\* Skipping a comment passes over a gap, and over a byte at least.
LEMMA CommentIsGap ==
  ASSUME source \in Sources, NEW p \in 0..Size, MatchesAt(p, <<Slash, Slash>>)
  PROVE  CommentEnd(p) \in (p + 1)..Size /\ IsGap(p, CommentEnd(p))
<1>1. <<Slash, Slash>> \in Seq(Bytes) /\ <<Slash, Slash>> # <<>> /\ <<Slash, Slash>>[1] = Slash
  BY DEF Slash, Bytes
<1>2. p < Size /\ source[p + 1] = Slash
  BY <1>1, MatchedBytes
<1>3. Slash \in Bytes \ {Newline}
  BY DEF Slash, Bytes, Newline
<1>4. CommentEnd(p) \in (p + 1)..Size
  BY <1>2, <1>3, RunGoesOn DEF CommentEnd
<1>5. \A q \in p..CommentEnd(p) - 1 : source[q + 1] # Newline
  BY RunEnds DEF CommentEnd
<1>6. ASSUME NEW o \in p..CommentEnd(p) - 1
      PROVE  \E r \in p..o : MatchesAt(r, <<Slash, Slash>>) /\ \A q \in r..o : source[q + 1] # Newline
  <2>1. p \in p..o /\ p..o \subseteq p..CommentEnd(p) - 1
    BY <1>4, SourceType
  <2> QED
    BY <1>5, <2>1
<1> QED
  BY <1>4, <1>6 DEF IsGap

\* The value of TokenStart at an offset, from its values at later ones.
StartFrom(o, h) ==
  LET p == RunEnd(o, Blank) IN IF MatchesAt(p, <<Slash, Slash>>) THEN h[CommentEnd(p)] ELSE p

\* TokenStart exists: each comment it skips brings it nearer to the end.
LEMMA TokenStartComputes ==
  ASSUME source \in Sources
  PROVE  \A o \in 0..Size : TokenStart[o] = StartFrom(o, TokenStart)
<1> DEFINE N == Size
           V == 0..N
           step == [oh \in (0..N) \X [0..N -> V] |-> StartFrom(oh[1], oh[2])]
           F(h) == [o \in 0..N |-> StartFrom(o, h)]
<1>1. N \in Nat /\ 0 \in V
  BY SourceType
<1>2. ASSUME NEW o \in 0..N PROVE RunEnd(o, Blank) \in o..N
  BY BlanksAreGap
<1>3. ASSUME NEW o \in 0..N, MatchesAt(RunEnd(o, Blank), <<Slash, Slash>>)
      PROVE  CommentEnd(RunEnd(o, Blank)) \in (o + 1)..N
  <2>1. RunEnd(o, Blank) \in o..N
    BY <1>2
  <2>2. RunEnd(o, Blank) \in 0..Size
    BY <2>1
  <2>3. CommentEnd(RunEnd(o, Blank)) \in (RunEnd(o, Blank) + 1)..Size
    BY <1>3, <2>2, CommentIsGap
  <2> HIDE DEF N
  <2> QED
    BY <1>1, <2>1, <2>3 DEF N
<1> HIDE DEF N
<1>4. ASSUME NEW o \in 0..N, NEW h \in [0..N -> V] PROVE StartFrom(o, h) \in V
  <2>1. RunEnd(o, Blank) \in V
    BY <1>1, <1>2
  <2>2. MatchesAt(RunEnd(o, Blank), <<Slash, Slash>>) => CommentEnd(RunEnd(o, Blank)) \in 0..N
    BY <1>1, <1>3
  <2> HIDE DEF V
  <2> QED
    BY <2>1, <2>2 DEF StartFrom
<1>5. step \in [(0..N) \X [0..N -> V] -> V]
  <2> HIDE DEF V
  <2> QED
    BY <1>4
<1>6. LooksAhead(step, N, V)
  <2> HIDE DEF V
  <2>1. SUFFICES ASSUME NEW o \in 0..N, NEW g \in [0..N -> V], NEW h \in [0..N -> V],
                        \A p \in (o + 1)..N : g[p] = h[p]
                 PROVE  step[<<o, g>>] = step[<<o, h>>]
    BY <1>5 DEF LooksAhead
  <2>2. StartFrom(o, g) = StartFrom(o, h)
    BY <1>3, <2>1 DEF StartFrom
  <2> QED
    BY <2>2
<1>7. PICK f \in [0..N -> V] : Computed(f, step, N)
  <2>1. N \in Nat /\ V # {}
    BY <1>1
  <2> HIDE DEF step, V
  <2> QED
    BY <2>1, <1>6, ComputedFromN
<1>8. f = F(f)
  <2> HIDE DEF V
  <2>1. \A o \in 0..N : f[o] = StartFrom(o, f)
    BY <1>7 DEF Computed
  <2> QED
    BY <1>7, <2>1
<1>9. TokenStart = CHOOSE h : h = F(h)
  BY DEF TokenStart, StartFrom, CommentEnd, N
<1>10. TokenStart = F(TokenStart)
  BY <1>8, <1>9
<1> QED
  BY <1>10 DEF N

\* What is skipped before a token is a gap.
LEMMA TokenStarts ==
  ASSUME source \in Sources, NEW o \in 0..Size
  PROVE  TokenStart[o] \in o..Size /\ IsGap(o, TokenStart[o])
<1> DEFINE G == {a \in 0..Size : TokenStart[a] \in a..Size /\ IsGap(a, TokenStart[a])}
<1>1. Size \in Nat
  BY SourceType
<1>2. ASSUME NEW a \in 0..Size, \A p \in (a + 1)..Size : p \in G PROVE a \in G
  <2> DEFINE p == RunEnd(a, Blank)
  <2>1. p \in a..Size /\ IsGap(a, p)
    BY BlanksAreGap
  <2>2. TokenStart[a] = IF MatchesAt(p, <<Slash, Slash>>) THEN TokenStart[CommentEnd(p)] ELSE p
    BY TokenStartComputes DEF StartFrom
  <2>3. p \in 0..Size
    BY <1>1, <2>1
  <2> HIDE DEF p, Size
  <2>4. CASE ~ MatchesAt(p, <<Slash, Slash>>)
    BY <2>1, <2>2, <2>4
  <2>5. CASE MatchesAt(p, <<Slash, Slash>>)
    <3> DEFINE c == CommentEnd(p)
    <3>1. c \in (p + 1)..Size /\ IsGap(p, c)
      BY <2>3, <2>5, CommentIsGap
    <3> HIDE DEF c
    <3>2. c \in (a + 1)..Size
      BY <1>1, <2>1, <3>1
    <3>3. TokenStart[c] \in c..Size /\ IsGap(c, TokenStart[c])
      BY <1>2, <3>2
    <3>4. IsGap(a, c)
      BY <1>1, <2>1, <2>3, <3>1, GapsJoin
    <3>5. IsGap(a, TokenStart[c])
      BY <1>1, <3>2, <3>3, <3>4, GapsJoin
    <3>6. TokenStart[a] = TokenStart[c]
      BY <2>2, <2>5 DEF c
    <3>7. TokenStart[c] \in a..Size
      BY <1>1, <3>2, <3>3
    <3> QED
      BY <3>5, <3>6, <3>7
  <2> QED
    BY <2>4, <2>5
<1> HIDE DEF G
<1>3. o \in G
  BY <1>1, <1>2, BackFromN
<1> QED
  BY <1>3 DEF G

-----------------------------------------------------------------------------
(* Positions                                                                   *)

Cursors == [offset : Nat, line : Nat, column : Nat]

LinesTo(n) == {o \in 0..n - 1 : source[o + 1] = Newline}
HeadsTo(n) == {o \in 0..n - 1 : (\A l \in LinesTo(n) : o > l) /\ source[o + 1] \notin 128..191}

\* A position by the counts of line ends and of heads of characters.
LEMMA PositionByCount ==
  ASSUME NEW c
  PROVE  IsPosition(c) <=> c.line = 1 + Cardinality(LinesTo(c.offset)) /\ c.column = Cardinality(HeadsTo(c.offset))
BY DEF IsPosition, LinesTo, HeadsTo

\* Both counts are numbers.
LEMMA CountsFinite ==
  ASSUME NEW n \in Nat
  PROVE  /\ IsFiniteSet(LinesTo(n)) /\ IsFiniteSet(HeadsTo(n))
         /\ Cardinality(LinesTo(n)) \in Nat /\ Cardinality(HeadsTo(n)) \in Nat
<1>1. IsFiniteSet(0..n - 1)
  BY FS_Interval
<1>2. LinesTo(n) \subseteq 0..n - 1 /\ HeadsTo(n) \subseteq 0..n - 1
  BY DEF LinesTo, HeadsTo
<1>3. IsFiniteSet(LinesTo(n)) /\ IsFiniteSet(HeadsTo(n))
  BY <1>1, <1>2, FS_Subset
<1> QED
  BY <1>3, FS_CardinalityType

\* One byte more adds a line when it ends one.
LEMMA LinesGrow ==
  ASSUME NEW n \in Nat
  PROVE  Cardinality(LinesTo(n + 1)) =
           Cardinality(LinesTo(n)) + (IF source[n + 1] = Newline THEN 1 ELSE 0)
<1>1. \A o : o \in 0..(n + 1) - 1 <=> o \in 0..n - 1 \/ o = n
  OBVIOUS
<1>2. n \notin LinesTo(n)
  BY DEF LinesTo
<1>3. CASE source[n + 1] = Newline
  <2>1. LinesTo(n + 1) = LinesTo(n) \cup {n}
    BY <1>1, <1>3 DEF LinesTo
  <2>2. Cardinality(LinesTo(n) \cup {n}) = Cardinality(LinesTo(n)) + 1
    BY <1>2, CountsFinite, FS_AddElement
  <2> QED
    BY <1>3, <2>1, <2>2
<1>4. CASE source[n + 1] # Newline
  <2>1. LinesTo(n + 1) = LinesTo(n)
    BY <1>1, <1>4 DEF LinesTo
  <2> QED
    BY <1>4, <2>1, CountsFinite
<1> QED
  BY <1>3, <1>4

\* One byte more changes the column as the cursor does.
LEMMA HeadsGrow ==
  ASSUME NEW n \in Nat
  PROVE  Cardinality(HeadsTo(n + 1)) = Column(Cardinality(HeadsTo(n)), source[n + 1])
<1>1. \A o : o \in 0..(n + 1) - 1 <=> o \in 0..n - 1 \/ o = n
  OBVIOUS
<1>2. n \notin HeadsTo(n)
  BY DEF HeadsTo
<1>3. CASE source[n + 1] = Newline
  <2>1. n \in LinesTo(n + 1)
    BY <1>1, <1>3 DEF LinesTo
  <2>2. HeadsTo(n + 1) = {}
    <3>1. ASSUME NEW o \in HeadsTo(n + 1) PROVE FALSE
      <4>1. o \in 0..(n + 1) - 1 /\ o > n
        BY <2>1 DEF HeadsTo
      <4> QED
        BY <4>1
    <3> QED
      BY <3>1
  <2> QED
    BY <1>3, <2>2, FS_EmptySet DEF Column
<1>4. CASE source[n + 1] # Newline
  <2>1. LinesTo(n + 1) = LinesTo(n)
    BY <1>1, <1>4 DEF LinesTo
  <2>2. \A l \in LinesTo(n) : n > l
    BY DEF LinesTo
  <2>3. CASE source[n + 1] \in 128..191
    <3>1. HeadsTo(n + 1) = HeadsTo(n)
      BY <1>1, <2>1, <2>3 DEF HeadsTo
    <3> QED
      BY <1>4, <2>3, <3>1 DEF Column, IsContinuation
  <2>4. CASE source[n + 1] \notin 128..191
    <3>1. HeadsTo(n + 1) = HeadsTo(n) \cup {n}
      BY <1>1, <2>1, <2>2, <2>4 DEF HeadsTo
    <3>2. Cardinality(HeadsTo(n) \cup {n}) = Cardinality(HeadsTo(n)) + 1
      BY <1>2, CountsFinite, FS_AddElement
    <3> QED
      BY <1>4, <2>4, <3>1, <3>2 DEF Column, IsContinuation
  <2> QED
    BY <2>3, <2>4
<1> QED
  BY <1>3, <1>4

\* A cursor that stands right stands right after one more byte.
LEMMA PastPosition ==
  ASSUME NEW c \in Cursors, IsPosition(c)
  PROVE  LET d == Past(c, source[c.offset + 1])
         IN  d \in Cursors /\ d.offset = c.offset + 1 /\ IsPosition(d)
<1> DEFINE b == source[c.offset + 1]
           d == Past(c, b)
<1>1. c.offset \in Nat /\ c.line \in Nat /\ c.column \in Nat
  BY DEF Cursors
<1>2. /\ d.offset = c.offset + 1
      /\ d.line = c.line + (IF b = Newline THEN 1 ELSE 0)
      /\ d.column = Column(c.column, b)
  BY DEF Past
<1>3. Column(c.column, b) \in Nat
  BY <1>1 DEF Column
<1>4. d \in Cursors
  BY <1>1, <1>3 DEF Past, Cursors
<1>5. c.line = 1 + Cardinality(LinesTo(c.offset)) /\ c.column = Cardinality(HeadsTo(c.offset))
  BY PositionByCount
<1>6. /\ Cardinality(LinesTo(c.offset + 1)) = Cardinality(LinesTo(c.offset)) + (IF b = Newline THEN 1 ELSE 0)
      /\ Cardinality(HeadsTo(c.offset + 1)) = Column(Cardinality(HeadsTo(c.offset)), b)
  BY <1>1, LinesGrow, HeadsGrow
<1>7. Cardinality(LinesTo(c.offset)) \in Nat
  BY <1>1, CountsFinite
<1> HIDE DEF d, b
<1>8. d.line = 1 + Cardinality(LinesTo(d.offset))
  BY <1>2, <1>5, <1>6, <1>7
<1>9. d.column = Cardinality(HeadsTo(d.offset))
  BY <1>2, <1>5, <1>6
<1>10. IsPosition(d)
  BY <1>8, <1>9, PositionByCount
<1> QED
  BY <1>2, <1>4, <1>10 DEF d, b

\* The cursor carries the position of its offset wherever it is advanced to.
LEMMA AdvancedPosition ==
  ASSUME source \in Sources, NEW c \in Cursors, IsPosition(c), NEW to \in c.offset..Size
  PROVE  Advanced(c, to) \in Cursors /\ Advanced(c, to).offset = to /\ IsPosition(Advanced(c, to))
<1> DEFINE M == to - c.offset
           step == [cn \in Cursors \X (1..M) |-> Past(cn[1], source[c.offset + cn[2]])]
           F(h) == [n \in 0..M |-> IF n = 0 THEN c ELSE Past(h[n - 1], source[c.offset + n])]
           g == CHOOSE h : h = F(h)
<1>1. M \in Nat /\ c.offset \in Nat /\ c.offset + M = to /\ to \in Nat
  BY SourceType DEF Cursors
<1> HIDE DEF M
<1>2. step \in [Cursors \X (1..M) -> Cursors]
  <2>1. ASSUME NEW d \in Cursors, NEW b PROVE Past(d, b) \in Cursors
    BY DEF Past, Cursors, Column
  <2> QED
    BY <2>1
<1>3. PICK f \in [0..M -> Cursors] : Follows(f, c, step, M)
  <2> HIDE DEF step
  <2> QED
    BY <1>1, <1>2, Iterates
<1>4. f = F(f)
  <2>1. ASSUME NEW n \in 1..M PROVE f[n] = Past(f[n - 1], source[c.offset + n])
    <3>1. n - 1 \in 0..M
      BY <1>1
    <3>2. <<f[n - 1], n>> \in Cursors \X (1..M)
      BY <3>1
    <3>3. step[<<f[n - 1], n>>] = Past(f[n - 1], source[c.offset + n])
      BY <3>2
    <3> QED
      BY <1>3, <3>3 DEF Follows
  <2>2. f[0] = c
    BY <1>3 DEF Follows
  <2>3. \A n \in 0..M : n # 0 => n \in 1..M
    BY <1>1
  <2>4. \A n \in 0..M : f[n] = IF n = 0 THEN c ELSE Past(f[n - 1], source[c.offset + n])
    BY <2>1, <2>2, <2>3
  <2> HIDE DEF step
  <2> QED
    BY <1>3, <2>4
<1>5. g = F(g)
  BY <1>4
<1>6. Advanced(c, to) = g[M]
  BY DEF Advanced, M
<1>7. /\ g[0] = c
      /\ \A n \in 1..M : g[n] = Past(g[n - 1], source[c.offset + n])
  <2> HIDE DEF g
  <2> QED
    BY <1>1, <1>5
<1> HIDE DEF g
<1> DEFINE G == {n \in 0..M : g[n] \in Cursors /\ g[n].offset = c.offset + n /\ IsPosition(g[n])}
<1>8. 0 \in G
  BY <1>1, <1>7
<1>9. ASSUME NEW n \in 0..(M - 1), n \in G PROVE n + 1 \in G
  <2>1. n + 1 \in 1..M /\ (n + 1) - 1 = n /\ n \in Nat
    BY <1>1
  <2>2. g[n] \in Cursors /\ g[n].offset = c.offset + n /\ IsPosition(g[n])
    BY <1>9
  <2>3. g[n + 1] = Past(g[n], source[c.offset + (n + 1)])
    BY <1>7, <2>1
  <2>4. g[n].offset + 1 = c.offset + (n + 1)
    BY <1>1, <2>1, <2>2
  <2>5. g[n + 1] = Past(g[n], source[g[n].offset + 1])
    BY <2>3, <2>4
  <2>6. g[n + 1] \in Cursors /\ g[n + 1].offset = g[n].offset + 1 /\ IsPosition(g[n + 1])
    BY <2>2, <2>5, PastPosition
  <2> QED
    BY <2>1, <2>4, <2>6
<1>10. M \in G
  <2> HIDE DEF G
  <2> QED
    BY <1>1, <1>8, <1>9, UpToN
<1> QED
  BY <1>1, <1>6, <1>10

-----------------------------------------------------------------------------
(* Where tokens end                                                            *)

\* Behind the end stands a zero, which no token begins with.
LEMMA PeekType ==
  ASSUME source \in Sources, NEW o \in Nat
  PROVE  Peek(o) \in Bytes /\ (Peek(o) # 0 => o < Size /\ Peek(o) = source[o + 1])
BY SourceType DEF Peek, Bytes

\* A decoded character lies in the text.
LEMMA DecodedWidth ==
  ASSUME source \in Sources, NEW o \in Nat
  PROVE  DecodeAt(o).width = 0 \/ (DecodeAt(o).width \in 1..4 /\ o + DecodeAt(o).width <= Size)
<1> DEFINE width == WidthOf(Peek(o))
<1>1. width \in 0..4
  <2>1. Peek(o) \in 0..255
    BY PeekType DEF Bytes
  <2> QED
    BY <2>1 DEF WidthOf
<1>2. \/ DecodeAt(o) = NotDecoded
      \/ ~ (o >= Size \/ width = 0 \/ o + width > Size) /\ DecodeAt(o).width = width
  BY DEF DecodeAt
<1>3. Size \in Nat
  BY SourceType
<1> HIDE DEF width, Size
<1> QED
  BY <1>1, <1>2, <1>3 DEF NotDecoded

\* What comes after a decoded character.
LEMMA AfterDecoded ==
  ASSUME source \in Sources, NEW o \in 0..Size, DecodeAt(o).width # 0
  PROVE  o + DecodeAt(o).width \in (o + 1)..Size /\ o < Size
<1>1. Size \in Nat /\ o \in Nat
  BY SourceType
<1>2. DecodeAt(o).width \in 1..4 /\ o + DecodeAt(o).width <= Size
  BY <1>1, DecodedWidth
<1> DEFINE w == DecodeAt(o).width
<1> HIDE DEF w, Size
<1> QED
  BY <1>1, <1>2 DEF w

NameFrom(o, h) ==
  LET d == DecodeAt(o)
  IN  IF o = Size THEN [to |-> o, valid |-> TRUE]
      ELSE IF d.width = 0 THEN [to |-> o, valid |-> FALSE]
      ELSE IF ~ IsIdRest(d.code) THEN [to |-> o, valid |-> TRUE]
      ELSE h[o + d.width]

\* NameEnd exists: each character of a name brings it nearer to the end.
LEMMA NameEndComputes ==
  ASSUME source \in Sources
  PROVE  \A o \in 0..Size : NameEnd[o] = NameFrom(o, NameEnd)
<1> DEFINE N == Size
           V == [to : 0..N, valid : BOOLEAN]
           step == [oh \in (0..N) \X [0..N -> V] |-> NameFrom(oh[1], oh[2])]
           F(h) == [o \in 0..N |-> NameFrom(o, h)]
<1>1. N \in Nat
  BY SourceType
<1>2. ASSUME NEW o \in 0..N, DecodeAt(o).width # 0 PROVE o + DecodeAt(o).width \in (o + 1)..N
  BY <1>2, AfterDecoded
<1>3. ASSUME NEW o \in 0..N, NEW h \in [0..N -> V] PROVE NameFrom(o, h) \in V
  <2>1. [to |-> o, valid |-> TRUE] \in V /\ [to |-> o, valid |-> FALSE] \in V
    OBVIOUS
  <2>2. DecodeAt(o).width # 0 => o + DecodeAt(o).width \in 0..N
    <3> DEFINE w == DecodeAt(o).width
    <3> HIDE DEF w, N
    <3>1. w # 0 => o + w \in (o + 1)..N
      BY <1>2 DEF w
    <3> QED
      BY <1>1, <3>1 DEF w
  <2> HIDE DEF V, N
  <2> QED
    BY <2>1, <2>2 DEF NameFrom
<1> HIDE DEF N
<1>4. step \in [(0..N) \X [0..N -> V] -> V]
  <2> HIDE DEF V
  <2> QED
    BY <1>3
<1>5. LooksAhead(step, N, V)
  <2> HIDE DEF V
  <2>1. SUFFICES ASSUME NEW o \in 0..N, NEW g \in [0..N -> V], NEW h \in [0..N -> V],
                        \A p \in (o + 1)..N : g[p] = h[p]
                 PROVE  step[<<o, g>>] = step[<<o, h>>]
    BY <1>4 DEF LooksAhead
  <2>2. NameFrom(o, g) = NameFrom(o, h)
    BY <1>2, <2>1 DEF NameFrom
  <2> QED
    BY <2>2
<1>6. PICK f \in [0..N -> V] : Computed(f, step, N)
  <2>1. V # {}
    <3>1. [to |-> 0, valid |-> TRUE] \in V
      BY <1>1
    <3> QED
      BY <3>1
  <2> HIDE DEF step, V
  <2> QED
    BY <1>1, <2>1, <1>5, ComputedFromN
<1>7. f = F(f)
  <2> HIDE DEF V
  <2>1. \A o \in 0..N : f[o] = NameFrom(o, f)
    BY <1>6 DEF Computed
  <2> QED
    BY <1>6, <2>1
<1>8. NameEnd = CHOOSE h : h = F(h)
  BY DEF NameEnd, NameFrom, N
<1>9. NameEnd = F(NameEnd)
  BY <1>7, <1>8
<1> QED
  BY <1>9 DEF N

\* A name ends in the text, behind its first character.
LEMMA NameEnds ==
  ASSUME source \in Sources, NEW o \in 0..Size
  PROVE  /\ NameEnd[o].to \in o..Size
         /\ DecodeAt(o).width # 0 /\ IsIdRest(DecodeAt(o).code) => NameEnd[o].to \in (o + 1)..Size
<1> DEFINE G == {a \in 0..Size : NameEnd[a].to \in a..Size}
<1>1. Size \in Nat
  BY SourceType
<1>2. ASSUME NEW a \in 0..Size, DecodeAt(a).width # 0, IsIdRest(DecodeAt(a).code),
             \A p \in (a + 1)..Size : p \in G
      PROVE  NameEnd[a].to \in (a + 1)..Size
  <2> DEFINE p == a + DecodeAt(a).width
  <2>1. p \in (a + 1)..Size /\ a < Size
    BY <1>2, AfterDecoded
  <2>2. NameEnd[a] = NameEnd[p]
    <3>1. NameEnd[a] = NameFrom(a, NameEnd)
      BY NameEndComputes
    <3>2. a # Size
      BY <1>1, <2>1
    <3> QED
      BY <1>2, <3>1, <3>2 DEF NameFrom
  <2> HIDE DEF p, Size
  <2>3. NameEnd[p].to \in p..Size
    BY <1>2, <2>1
  <2> QED
    BY <1>1, <2>1, <2>2, <2>3
<1>3. ASSUME NEW a \in 0..Size, \A p \in (a + 1)..Size : p \in G PROVE a \in G
  <2>1. NameEnd[a] = NameFrom(a, NameEnd)
    BY NameEndComputes
  <2>2. CASE DecodeAt(a).width # 0 /\ IsIdRest(DecodeAt(a).code)
    <3>1. NameEnd[a].to \in (a + 1)..Size
      BY <1>2, <1>3, <2>2
    <3> HIDE DEF Size
    <3> QED
      BY <1>1, <3>1
  <2>3. CASE ~ (DecodeAt(a).width # 0 /\ IsIdRest(DecodeAt(a).code))
    <3>1. NameEnd[a].to = a
      BY <2>1, <2>3 DEF NameFrom
    <3> HIDE DEF Size
    <3> QED
      BY <1>1, <3>1
  <2> QED
    BY <2>2, <2>3
<1>4. \A a \in 0..Size : a \in G
  <2> HIDE DEF G
  <2> QED
    BY <1>1, <1>3, BackFromN
<1>5. NameEnd[o].to \in o..Size
  BY <1>4
<1>6. DecodeAt(o).width # 0 /\ IsIdRest(DecodeAt(o).code) => NameEnd[o].to \in (o + 1)..Size
  <2> HIDE DEF G
  <2>1. \A p \in (o + 1)..Size : p \in G
    <3> HIDE DEF Size
    <3>1. \A p \in (o + 1)..Size : p \in 0..Size
      BY <1>1
    <3> QED
      BY <1>4, <3>1
  <2> QED
    BY <1>2, <2>1
<1> QED
  BY <1>5, <1>6

Scans == [to : 0..Size, error : {"none", "E0001", "E1001"}, text : Seq(Int)]

\* A scan that stops.
LEMMA ScanType ==
  ASSUME NEW to \in 0..Size, NEW error \in {"none", "E0001", "E1001"}
  PROVE  Scan(to, error, <<>>) \in Scans /\ Scan(to, error, <<>>).to = to
BY DEF Scan, Scans

\* A scan that goes on.
LEMMA AfterType ==
  ASSUME NEW scan \in Scans, NEW text \in Seq(Int)
  PROVE  Prefaced(text, scan) \in Scans /\ Prefaced(text, scan).to = scan.to /\ Prefaced(text, scan).error = scan.error
<1>1. scan.text \in Seq(Int) /\ scan.to \in 0..Size /\ scan.error \in {"none", "E0001", "E1001"}
  BY DEF Scans
<1>2. text \o scan.text \in Seq(Int)
  BY <1>1, ConcatProperties
<1>3. Prefaced(text, scan) = [to |-> scan.to, error |-> scan.error, text |-> text \o scan.text]
  BY DEF Prefaced, Scan
<1> QED
  BY <1>1, <1>2, <1>3 DEF Scans

\* An encoded scalar is a sequence of numbers.
LEMMA EncodedType ==
  ASSUME NEW c \in Int
  PROVE  Encoded(c) \in Seq(Int)
<1>1. ASSUME NEW a \in Int, NEW b \in Int, NEW d \in Int, NEW e \in Int
      PROVE  <<a>> \in Seq(Int) /\ <<a, b>> \in Seq(Int) /\ <<a, b, d>> \in Seq(Int) /\ <<a, b, d, e>> \in Seq(Int)
  OBVIOUS
<1>2. \A k \in {64, 4096, 262144} : c \div k \in Int /\ c % k \in Int /\ (c \div k) % 64 \in Int
  OBVIOUS
<1>3. c % 64 \in Int /\ 192 + c \div 64 \in Int /\ 128 + (c % 64) \in Int /\ 224 + c \div 4096 \in Int
      /\ 128 + ((c \div 64) % 64) \in Int /\ 240 + c \div 262144 \in Int /\ 128 + ((c \div 4096) % 64) \in Int
  BY <1>2
<1> QED
  BY <1>1, <1>3 DEF Encoded

\* A slice of the text is a sequence of numbers.
LEMMA SliceType ==
  ASSUME source \in Sources, NEW from \in 0..Size, NEW to \in 0..Size
  PROVE  Slice(from, to) \in Seq(Int)
<1>1. source \in Seq(Bytes) /\ Size = Len(source) /\ Size \in Nat /\ \A k \in 1..Size : source[k] \in Bytes
  BY SourceType DEF Size
<1> HIDE DEF Size
<1>2. \A k \in (from + 1)..to : source[k] \in Int
  <2>1. \A k \in (from + 1)..to : k \in 1..Size
    BY <1>1
  <2>2. \A k \in 1..Size : source[k] \in Int
    <3>1. Bytes \subseteq Int
      BY DEF Bytes
    <3> QED
      BY <3>1, SourceType
  <2> QED
    BY ONLY <2>1, <2>2
<1>3. from + 1 \in Int /\ to \in Int
  BY <1>1
<1>4. SubSeq(source, from + 1, to) \in Seq(Int)
  BY ONLY <1>2, <1>3, SubSeqProperties
<1> QED
  BY <1>4 DEF Slice

\* An escape ends in the text, after its first byte, and stands for a number.
LEMMA EscapeEnds ==
  ASSUME source \in Sources, NEW o \in 0..Size, NEW delimiter \in Int
  PROVE  LET e == EscapeAt(o, delimiter)
         IN  /\ e.error \in {"none", "E0001"}
             /\ e.error = "none" => e.to \in (o + 1)..Size /\ e.text \in Int
<1> DEFINE b == Peek(o)
           digits == HexDigits(b)
           code == HexEscape(o + 1, digits)
           e == EscapeAt(o, delimiter)
<1>1. Size \in Nat /\ b \in Int /\ o \in Nat
  <2>1. Size \in Nat /\ o \in Nat
    BY SourceType
  <2>2. b \in Bytes
    BY <2>1, PeekType
  <2> QED
    BY <2>1, <2>2 DEF Bytes
<1>2. digits \in {0, 2, 4, 8}
  <2> HIDE DEF b
  <2> QED
    BY <1>1, SMT DEF HexDigits
<1>3. ASSUME IsScalar(code) PROVE code \in Int /\ o + 1 + digits <= Size
  <2>1. code \in Nat
    <3> MaxScalar \in Int
      BY DEF MaxScalar
    <3> HIDE DEF code
    <3> QED
      BY <1>3 DEF IsScalar
  <2>2. (o + 1) + digits > Size => code = -1
    BY DEF HexEscape
  <2> HIDE DEF code, digits, Size
  <2> QED
    BY <1>1, <1>2, <2>1, <2>2
<1>4. CASE o >= Size
  BY <1>4 DEF EscapeAt, Scan
<1>5. CASE o < Size /\ b \in DOMAIN Escapes(delimiter)
  <2>1. ~ (o >= Size)
    BY <1>1, <1>5
  <2>2. e = Scan(o + 1, "none", Escapes(delimiter)[b])
    BY <1>5, <2>1 DEF EscapeAt
  <2>3. Escapes(delimiter)[b] \in Int
    BY <1>1, <1>5 DEF Escapes
  <2>4. o + 1 \in (o + 1)..Size
    BY <1>1, <1>5
  <2> QED
    BY <2>2, <2>3, <2>4 DEF Scan
<1>6. CASE o < Size /\ b \notin DOMAIN Escapes(delimiter)
  <2>1. ~ (o >= Size)
    BY <1>1, <1>6
  <2>2. e = IF digits = 0 \/ ~ IsScalar(code) THEN Scan(o, "E0001", 0) ELSE Scan(o + 1 + digits, "none", code)
    BY <1>6, <2>1 DEF EscapeAt
  <2>3. IsScalar(code) => o + 1 + digits \in (o + 1)..Size
    <3> HIDE DEF digits, code, Size
    <3> QED
      BY <1>1, <1>2, <1>3
  <2> HIDE DEF digits, code, e
  <2>4. CASE digits = 0 \/ ~ IsScalar(code)
    BY <2>2, <2>4 DEF Scan, e
  <2>5. CASE ~ (digits = 0 \/ ~ IsScalar(code))
    BY <1>3, <2>2, <2>3, <2>5 DEF Scan, e
  <2> QED
    BY <2>4, <2>5
<1> HIDE DEF Size
<1> QED
  BY <1>1, <1>4, <1>5, <1>6

QuotesFrom(o, h) ==
  LET b == Peek(o)
      d == DecodeAt(o)
      e == EscapeAt(o + 1, Quote)
  IN  IF o = Size \/ b = Newline THEN Scan(o, "E0001", <<>>)
      ELSE IF b = Quote THEN Scan(o + 1, "none", <<>>)
      ELSE IF b = Backslash THEN IF e.error # "none" THEN Scan(o, e.error, <<>>)
                            ELSE Prefaced(Encoded(e.text), h[e.to])
      ELSE IF d.width = 0 THEN Scan(o, "E1001", <<>>)
      ELSE Prefaced(Slice(o, o + d.width), h[o + d.width])

\* Where the scan of a text goes on after one character.
LEMMA QuotesGoOn ==
  ASSUME source \in Sources, NEW o \in 0..Size, o # Size
  PROVE  LET d == DecodeAt(o)
             e == EscapeAt(o + 1, Quote)
         IN  /\ o + 1 \in 0..Size
             /\ d.width # 0 => o + d.width \in (o + 1)..Size /\ Slice(o, o + d.width) \in Seq(Int)
             /\ e.error \in {"none", "E0001"}
             /\ e.error = "none" => e.to \in (o + 1)..Size /\ Encoded(e.text) \in Seq(Int)
<1> DEFINE d == DecodeAt(o)
           e == EscapeAt(o + 1, Quote)
<1>1. Size \in Nat
  BY SourceType
<1>2. o + 1 \in 0..Size
  <2> HIDE DEF Size
  <2> QED
    BY <1>1
<1>3. d.width # 0 => o + d.width \in (o + 1)..Size
  BY AfterDecoded
<1>4. d.width # 0 => Slice(o, o + d.width) \in Seq(Int)
  <2>1. d.width # 0 => o + d.width \in 0..Size
    <3> HIDE DEF d, Size
    <3> DEFINE p == o + d.width
    <3>1. d.width # 0 => p \in (o + 1)..Size
      BY <1>3
    <3> HIDE DEF p
    <3>2. d.width # 0 => p \in 0..Size
      BY <1>1, <3>1
    <3> QED
      BY <3>2 DEF p
  <2> QED
    BY <2>1, SliceType
<1>5. e.error \in {"none", "E0001"} /\ (e.error = "none" => e.to \in ((o + 1) + 1)..Size /\ e.text \in Int)
  BY <1>2, EscapeEnds DEF Quote
<1>6. e.error = "none" => e.to \in (o + 1)..Size /\ Encoded(e.text) \in Seq(Int)
  <2> SUFFICES ASSUME e.error = "none" PROVE e.to \in (o + 1)..Size /\ Encoded(e.text) \in Seq(Int)
    OBVIOUS
  <2>1. e.to \in ((o + 1) + 1)..Size /\ e.text \in Int
    BY <1>5
  <2>2. Encoded(e.text) \in Seq(Int)
    BY <2>1, EncodedType
  <2> DEFINE to == e.to
  <2>3. to \in (o + 1)..Size
    <3> HIDE DEF e, Size
    <3>1. to \in ((o + 1) + 1)..Size
      BY <2>1
    <3> HIDE DEF to
    <3> QED
      BY <1>1, <3>1
  <2> QED
    BY <2>2, <2>3
<1> QED
  BY <1>2, <1>3, <1>4, <1>5, <1>6

\* One step of the scan of a text in quotes.
LEMMA QuotesFromType ==
  ASSUME source \in Sources, NEW o \in 0..Size, NEW h \in [0..Size -> Scans]
  PROVE  QuotesFrom(o, h) \in Scans
<1> DEFINE d == DecodeAt(o)
           e == EscapeAt(o + 1, Quote)
<1>1. CASE o = Size \/ Peek(o) = Newline
  <2>1. QuotesFrom(o, h) = Scan(o, "E0001", <<>>)
    BY <1>1 DEF QuotesFrom
  <2> QED
    BY <2>1, ScanType
<1>2. CASE ~ (o = Size \/ Peek(o) = Newline)
  <2>1. /\ o + 1 \in 0..Size
        /\ d.width # 0 => o + d.width \in 0..Size /\ Slice(o, o + d.width) \in Seq(Int)
        /\ e.error \in {"none", "E0001"}
        /\ e.error = "none" => e.to \in 0..Size /\ Encoded(e.text) \in Seq(Int)
    <3>1. \A p : p \in (o + 1)..Size => p \in 0..Size
      BY SourceType
    <3> QED
      BY <1>2, <3>1, QuotesGoOn
  <2>2. QuotesFrom(o, h) =
          IF Peek(o) = Quote THEN Scan(o + 1, "none", <<>>)
          ELSE IF Peek(o) = Backslash THEN IF e.error # "none" THEN Scan(o, e.error, <<>>)
                                           ELSE Prefaced(Encoded(e.text), h[e.to])
          ELSE IF d.width = 0 THEN Scan(o, "E1001", <<>>)
          ELSE Prefaced(Slice(o, o + d.width), h[o + d.width])
    BY <1>2 DEF QuotesFrom
  <2> HIDE DEF d, e
  <2>3. Scan(o + 1, "none", <<>>) \in Scans /\ Scan(o, "E1001", <<>>) \in Scans /\ Scan(o, e.error, <<>>) \in Scans
    BY <2>1, ScanType
  <2>4. e.error = "none" => Prefaced(Encoded(e.text), h[e.to]) \in Scans
    <3> SUFFICES ASSUME e.error = "none" PROVE Prefaced(Encoded(e.text), h[e.to]) \in Scans
      OBVIOUS
    <3>1. h[e.to] \in Scans /\ Encoded(e.text) \in Seq(Int)
      BY <2>1
    <3> QED
      BY ONLY <3>1, AfterType
  <2>5. d.width # 0 => Prefaced(Slice(o, o + d.width), h[o + d.width]) \in Scans
    <3> SUFFICES ASSUME d.width # 0 PROVE Prefaced(Slice(o, o + d.width), h[o + d.width]) \in Scans
      OBVIOUS
    <3>1. h[o + d.width] \in Scans /\ Slice(o, o + d.width) \in Seq(Int)
      BY <2>1
    <3> QED
      BY ONLY <3>1, AfterType
  <2> QED
    BY <2>2, <2>3, <2>4, <2>5
<1> QED
  BY <1>1, <1>2

\* It looks at later offsets only.
LEMMA QuotesFromLater ==
  ASSUME source \in Sources, NEW o \in 0..Size, NEW g, NEW h, \A p \in (o + 1)..Size : g[p] = h[p]
  PROVE  QuotesFrom(o, g) = QuotesFrom(o, h)
<1>1. CASE o = Size
  BY <1>1 DEF QuotesFrom
<1>2. CASE o # Size
  BY <1>2, QuotesGoOn DEF QuotesFrom
<1> QED
  BY <1>1, <1>2

\* ScanQuotes exists: each character brings it nearer to the end.
LEMMA QuotesCompute ==
  ASSUME source \in Sources
  PROVE  \A o \in 0..Size : ScanQuotes[o] = QuotesFrom(o, ScanQuotes)
<1> DEFINE N == Size
           V == Scans
           step == [oh \in (0..N) \X [0..N -> V] |-> QuotesFrom(oh[1], oh[2])]
           F(h) == [o \in 0..N |-> QuotesFrom(o, h)]
<1>1. N \in Nat
  BY SourceType
<1>2. ASSUME NEW o \in 0..N, NEW h \in [0..N -> V] PROVE QuotesFrom(o, h) \in V
  BY QuotesFromType
<1>3. ASSUME NEW o \in 0..N, NEW g, NEW h, \A p \in (o + 1)..N : g[p] = h[p]
      PROVE  QuotesFrom(o, g) = QuotesFrom(o, h)
  BY <1>3, QuotesFromLater
<1>4. V # {}
  <2>1. 0 \in 0..Size
    BY <1>1
  <2> QED
    BY <2>1, ScanType
<1> HIDE DEF N, V
<1>5. step \in [(0..N) \X [0..N -> V] -> V]
  BY <1>2
<1>6. LooksAhead(step, N, V)
  <2>1. SUFFICES ASSUME NEW o \in 0..N, NEW g \in [0..N -> V], NEW h \in [0..N -> V],
                        \A p \in (o + 1)..N : g[p] = h[p]
                 PROVE  step[<<o, g>>] = step[<<o, h>>]
    BY <1>5 DEF LooksAhead
  <2>2. QuotesFrom(o, g) = QuotesFrom(o, h)
    BY <1>3, <2>1
  <2> QED
    BY <2>2
<1>7. PICK f \in [0..N -> V] : Computed(f, step, N)
  <2> HIDE DEF step
  <2> QED
    BY <1>1, <1>4, <1>6, ComputedFromN
<1>8. f = F(f)
  <2>1. \A o \in 0..N : f[o] = QuotesFrom(o, f)
    BY <1>7 DEF Computed
  <2> QED
    BY <1>7, <2>1
<1>9. ScanQuotes = CHOOSE h : h = F(h)
  BY DEF ScanQuotes, QuotesFrom, N
<1>10. ScanQuotes = F(ScanQuotes)
  BY <1>8, <1>9
<1> QED
  BY <1>10 DEF N

\* A text in quotes ends in the text.
LEMMA QuotesEnd ==
  ASSUME source \in Sources, NEW o \in 0..Size
  PROVE  ScanQuotes[o].to \in o..Size
<1> DEFINE G == {a \in 0..Size : ScanQuotes[a].to \in a..Size}
<1>1. Size \in Nat
  BY SourceType
<1>2. ASSUME NEW a \in 0..Size, \A p \in (a + 1)..Size : p \in G PROVE a \in G
  <2> DEFINE d == DecodeAt(a)
             e == EscapeAt(a + 1, Quote)
  <2>1. ScanQuotes[a] = QuotesFrom(a, ScanQuotes)
    BY QuotesCompute
  <2>2. a \in a..Size
    <3> HIDE DEF Size
    <3> QED
      BY <1>1
  <2>3. CASE a = Size
    <3>1. ScanQuotes[a].to = a
      BY <2>1, <2>3 DEF QuotesFrom, Scan
    <3> QED
      BY <2>2, <3>1
  <2>4. CASE a # Size
    <3>1. /\ a + 1 \in 0..Size
          /\ d.width # 0 => a + d.width \in (a + 1)..Size
          /\ e.error = "none" => e.to \in (a + 1)..Size
      BY <2>4, QuotesGoOn
    <3>2. \/ ScanQuotes[a].to = a
          \/ ScanQuotes[a].to = a + 1
          \/ e.error = "none" /\ ScanQuotes[a].to = ScanQuotes[e.to].to
          \/ d.width # 0 /\ ScanQuotes[a].to = ScanQuotes[a + d.width].to
      BY <2>1, <2>4 DEF QuotesFrom, Scan, Prefaced
    <3> DEFINE p == a + d.width
               q == e.to
    <3>3. /\ d.width # 0 => p \in (a + 1)..Size
          /\ e.error = "none" => q \in (a + 1)..Size
      BY <3>1
    <3>4. \/ ScanQuotes[a].to = a
          \/ ScanQuotes[a].to = a + 1
          \/ e.error = "none" /\ ScanQuotes[a].to = ScanQuotes[q].to
          \/ d.width # 0 /\ ScanQuotes[a].to = ScanQuotes[p].to
      BY <3>2
    <3> HIDE DEF p, q, d, e
    <3>5. ASSUME NEW r \in (a + 1)..Size PROVE ScanQuotes[r].to \in a..Size
      <4>1. ScanQuotes[r].to \in r..Size
        BY <1>2
      <4> DEFINE to == ScanQuotes[r].to
      <4> HIDE DEF to, Size
      <4> QED
        BY <1>1, <4>1 DEF to
    <3>6. a + 1 \in a..Size
      <4> HIDE DEF Size
      <4> QED
        BY <1>1, <3>1
    <3> QED
      BY <2>2, <3>3, <3>4, <3>5, <3>6
  <2> QED
    BY <2>3, <2>4
<1> HIDE DEF G
<1>3. o \in G
  BY <1>1, <1>2, BackFromN
<1> QED
  BY <1>3 DEF G

GuillemetsFrom(o, h) ==
  [depth \in 1..NestingLimit |->
    LET d == DecodeAt(o)
    IN  IF o = Size THEN Scan(o, "E0001", <<>>)
        ELSE IF MatchesAt(o, OpenGuillemet) THEN
               IF depth = NestingLimit THEN Scan(o, "E0001", <<>>)
               ELSE Prefaced(OpenGuillemet, h[o + 2][depth + 1])
        ELSE IF MatchesAt(o, CloseGuillemet) THEN
               IF depth = 1 THEN Scan(o + 2, "none", <<>>)
               ELSE Prefaced(CloseGuillemet, h[o + 2][depth - 1])
        ELSE IF d.width = 0 THEN Scan(o, "E1001", <<>>)
        ELSE Prefaced(Slice(o, o + d.width), h[o + d.width][depth])]

NestedScans == [1..NestingLimit -> Scans]

\* Where the scan of a nested text goes on after one character.
LEMMA GuillemetsGoOn ==
  ASSUME source \in Sources, NEW o \in 0..Size
  PROVE  LET d == DecodeAt(o)
         IN  /\ MatchesAt(o, OpenGuillemet) \/ MatchesAt(o, CloseGuillemet) => o + 2 \in (o + 1)..Size
             /\ d.width # 0 => o + d.width \in (o + 1)..Size /\ Slice(o, o + d.width) \in Seq(Int)
             /\ OpenGuillemet \in Seq(Int) /\ CloseGuillemet \in Seq(Int)
<1> DEFINE d == DecodeAt(o)
<1>1. Size \in Nat
  BY SourceType
<1>2. /\ OpenGuillemet \in Seq(Bytes) /\ CloseGuillemet \in Seq(Bytes)
      /\ OpenGuillemet \in Seq(Int) /\ CloseGuillemet \in Seq(Int)
      /\ Len(OpenGuillemet) = 2 /\ Len(CloseGuillemet) = 2 /\ OpenGuillemet # <<>> /\ CloseGuillemet # <<>>
  <2>1. 194 \in Bytes /\ 171 \in Bytes /\ 187 \in Bytes
    BY DEF Bytes
  <2> QED
    BY <2>1 DEF OpenGuillemet, CloseGuillemet
<1>3. MatchesAt(o, OpenGuillemet) => o + 2 \in (o + 1)..Size
  BY <1>2, MatchedBytes
<1>4. MatchesAt(o, CloseGuillemet) => o + 2 \in (o + 1)..Size
  BY <1>2, MatchedBytes
<1>5. d.width # 0 => o + d.width \in (o + 1)..Size
  BY AfterDecoded
<1>6. \A p : p \in (o + 1)..Size => p \in 0..Size
  <2> HIDE DEF Size
  <2> QED
    BY <1>1
<1>7. d.width # 0 => Slice(o, o + d.width) \in Seq(Int)
  BY <1>5, <1>6, SliceType
<1> QED
  BY <1>2, <1>3, <1>4, <1>5, <1>7

\* One step of the scan of a nested text, at every depth.
LEMMA GuillemetsFromType ==
  ASSUME source \in Sources, NEW o \in 0..Size, NEW h \in [0..Size -> NestedScans]
  PROVE  GuillemetsFrom(o, h) \in NestedScans
<1> DEFINE d == DecodeAt(o)
<1>1. \A p : p \in (o + 1)..Size => p \in 0..Size
  BY SourceType
<1>2. /\ MatchesAt(o, OpenGuillemet) \/ MatchesAt(o, CloseGuillemet) => o + 2 \in 0..Size
      /\ d.width # 0 => o + d.width \in 0..Size /\ Slice(o, o + d.width) \in Seq(Int)
      /\ OpenGuillemet \in Seq(Int) /\ CloseGuillemet \in Seq(Int)
  BY <1>1, GuillemetsGoOn
<1> HIDE DEF d
<1>3. ASSUME NEW p \in 0..Size, NEW k \in 1..NestingLimit PROVE h[p][k] \in Scans
  <2>1. h[p] \in NestedScans
    OBVIOUS
  <2> QED
    BY <2>1 DEF NestedScans
<1>4. ASSUME NEW depth \in 1..NestingLimit PROVE GuillemetsFrom(o, h)[depth] \in Scans
  <2>1. GuillemetsFrom(o, h)[depth] =
          IF o = Size THEN Scan(o, "E0001", <<>>)
          ELSE IF MatchesAt(o, OpenGuillemet) THEN
                 IF depth = NestingLimit THEN Scan(o, "E0001", <<>>)
                 ELSE Prefaced(OpenGuillemet, h[o + 2][depth + 1])
          ELSE IF MatchesAt(o, CloseGuillemet) THEN
                 IF depth = 1 THEN Scan(o + 2, "none", <<>>)
                 ELSE Prefaced(CloseGuillemet, h[o + 2][depth - 1])
          ELSE IF d.width = 0 THEN Scan(o, "E1001", <<>>)
          ELSE Prefaced(Slice(o, o + d.width), h[o + d.width][depth])
    BY DEF GuillemetsFrom, d
  <2>2. Scan(o, "E0001", <<>>) \in Scans /\ Scan(o, "E1001", <<>>) \in Scans
    BY ScanType
  <2>3. MatchesAt(o, CloseGuillemet) => Scan(o + 2, "none", <<>>) \in Scans
    BY <1>2, ScanType
  <2>4. MatchesAt(o, OpenGuillemet) /\ depth # NestingLimit => Prefaced(OpenGuillemet, h[o + 2][depth + 1]) \in Scans
    <3> SUFFICES ASSUME MatchesAt(o, OpenGuillemet), depth # NestingLimit
                 PROVE  Prefaced(OpenGuillemet, h[o + 2][depth + 1]) \in Scans
      OBVIOUS
    <3>1. o + 2 \in 0..Size /\ depth + 1 \in 1..NestingLimit
      BY <1>2, TextAssumption
    <3>2. h[o + 2][depth + 1] \in Scans /\ OpenGuillemet \in Seq(Int)
      BY <1>2, <1>3, <3>1
    <3> QED
      BY ONLY <3>2, AfterType
  <2>5. MatchesAt(o, CloseGuillemet) /\ depth # 1 => Prefaced(CloseGuillemet, h[o + 2][depth - 1]) \in Scans
    <3> SUFFICES ASSUME MatchesAt(o, CloseGuillemet), depth # 1
                 PROVE  Prefaced(CloseGuillemet, h[o + 2][depth - 1]) \in Scans
      OBVIOUS
    <3>1. o + 2 \in 0..Size /\ depth - 1 \in 1..NestingLimit
      BY <1>2, TextAssumption
    <3>2. h[o + 2][depth - 1] \in Scans /\ CloseGuillemet \in Seq(Int)
      BY <1>2, <1>3, <3>1
    <3> QED
      BY ONLY <3>2, AfterType
  <2>6. d.width # 0 => Prefaced(Slice(o, o + d.width), h[o + d.width][depth]) \in Scans
    <3> SUFFICES ASSUME d.width # 0 PROVE Prefaced(Slice(o, o + d.width), h[o + d.width][depth]) \in Scans
      OBVIOUS
    <3>1. h[o + d.width][depth] \in Scans /\ Slice(o, o + d.width) \in Seq(Int)
      BY <1>2, <1>3
    <3> QED
      BY ONLY <3>1, AfterType
  <2> QED
    BY <2>1, <2>2, <2>3, <2>4, <2>5, <2>6
<1>5. GuillemetsFrom(o, h) = [depth \in 1..NestingLimit |-> GuillemetsFrom(o, h)[depth]]
  BY DEF GuillemetsFrom
<1> QED
  BY <1>4, <1>5 DEF NestedScans

\* It looks at later offsets only.
LEMMA GuillemetsFromLater ==
  ASSUME source \in Sources, NEW o \in 0..Size, NEW g, NEW h, \A p \in (o + 1)..Size : g[p] = h[p]
  PROVE  GuillemetsFrom(o, g) = GuillemetsFrom(o, h)
<1>1. MatchesAt(o, OpenGuillemet) \/ MatchesAt(o, CloseGuillemet) => g[o + 2] = h[o + 2]
  BY GuillemetsGoOn
<1>2. DecodeAt(o).width # 0 => g[o + DecodeAt(o).width] = h[o + DecodeAt(o).width]
  BY GuillemetsGoOn
<1> QED
  BY <1>1, <1>2 DEF GuillemetsFrom

\* ScanGuillemets exists.
LEMMA GuillemetsCompute ==
  ASSUME source \in Sources
  PROVE  \A o \in 0..Size : ScanGuillemets[o] = GuillemetsFrom(o, ScanGuillemets)
<1> DEFINE N == Size
           V == NestedScans
           step == [oh \in (0..N) \X [0..N -> V] |-> GuillemetsFrom(oh[1], oh[2])]
           F(h) == [o \in 0..N |-> GuillemetsFrom(o, h)]
<1>1. N \in Nat
  BY SourceType
<1>2. ASSUME NEW o \in 0..N, NEW h \in [0..N -> V] PROVE GuillemetsFrom(o, h) \in V
  BY GuillemetsFromType
<1>3. ASSUME NEW o \in 0..N, NEW g, NEW h, \A p \in (o + 1)..N : g[p] = h[p]
      PROVE  GuillemetsFrom(o, g) = GuillemetsFrom(o, h)
  BY <1>3, GuillemetsFromLater
<1>4. V # {}
  <2>1. 0 \in 0..Size
    BY <1>1
  <2>2. Scan(0, "none", <<>>) \in Scans
    BY <2>1, ScanType
  <2>3. [depth \in 1..NestingLimit |-> Scan(0, "none", <<>>)] \in [1..NestingLimit -> Scans]
    BY <2>2
  <2> QED
    BY <2>3 DEF NestedScans
<1> HIDE DEF N, V
<1>5. step \in [(0..N) \X [0..N -> V] -> V]
  BY <1>2
<1>6. LooksAhead(step, N, V)
  <2>1. SUFFICES ASSUME NEW o \in 0..N, NEW g \in [0..N -> V], NEW h \in [0..N -> V],
                        \A p \in (o + 1)..N : g[p] = h[p]
                 PROVE  step[<<o, g>>] = step[<<o, h>>]
    BY <1>5 DEF LooksAhead
  <2>2. GuillemetsFrom(o, g) = GuillemetsFrom(o, h)
    BY <1>3, <2>1
  <2> QED
    BY <2>2
<1>7. PICK f \in [0..N -> V] : Computed(f, step, N)
  <2> HIDE DEF step
  <2> QED
    BY <1>1, <1>4, <1>6, ComputedFromN
<1>8. f = F(f)
  <2>1. \A o \in 0..N : f[o] = GuillemetsFrom(o, f)
    BY <1>7 DEF Computed
  <2> QED
    BY <1>7, <2>1
<1>9. ScanGuillemets = CHOOSE h : h = F(h)
  BY DEF ScanGuillemets, GuillemetsFrom, N
<1>10. ScanGuillemets = F(ScanGuillemets)
  BY <1>8, <1>9
<1> QED
  BY <1>10 DEF N

\* A text in guillemets ends in the text, whatever its depth.
LEMMA GuillemetsEnd ==
  ASSUME source \in Sources, NEW o \in 0..Size, NEW depth \in 1..NestingLimit
  PROVE  ScanGuillemets[o][depth].to \in o..Size
<1> DEFINE G == {a \in 0..Size : \A k \in 1..NestingLimit : ScanGuillemets[a][k].to \in a..Size}
<1>1. Size \in Nat
  BY SourceType
<1>2. ASSUME NEW a \in 0..Size, \A p \in (a + 1)..Size : p \in G PROVE a \in G
  <2> SUFFICES ASSUME NEW k \in 1..NestingLimit PROVE ScanGuillemets[a][k].to \in a..Size
    OBVIOUS
  <2> DEFINE d == DecodeAt(a)
             p == a + d.width
             q == a + 2
             here == ScanGuillemets[a][k].to
  <2>1. ScanGuillemets[a] = GuillemetsFrom(a, ScanGuillemets)
    BY GuillemetsCompute
  <2>2. /\ MatchesAt(a, OpenGuillemet) \/ MatchesAt(a, CloseGuillemet) => q \in (a + 1)..Size
        /\ d.width # 0 => p \in (a + 1)..Size
    BY GuillemetsGoOn
  <2>3. \/ here = a
        \/ (MatchesAt(a, OpenGuillemet) \/ MatchesAt(a, CloseGuillemet)) /\ here = q
        \/ MatchesAt(a, OpenGuillemet) /\ k # NestingLimit /\ here = ScanGuillemets[q][k + 1].to
        \/ MatchesAt(a, CloseGuillemet) /\ k # 1 /\ here = ScanGuillemets[q][k - 1].to
        \/ d.width # 0 /\ here = ScanGuillemets[p][k].to
    BY <2>1 DEF GuillemetsFrom, Scan, Prefaced
  <2>4. a \in a..Size
    <3> HIDE DEF Size
    <3> QED
      BY <1>1
  <2>5. k # NestingLimit => k + 1 \in 1..NestingLimit
    BY TextAssumption
  <2>6. k # 1 => k - 1 \in 1..NestingLimit
    BY TextAssumption
  <2>7. ASSUME NEW r \in (a + 1)..Size, NEW j \in 1..NestingLimit
        PROVE  r \in a..Size /\ ScanGuillemets[r][j].to \in a..Size
    <3>1. ScanGuillemets[r][j].to \in r..Size
      BY <1>2
    <3> DEFINE to == ScanGuillemets[r][j].to
    <3> HIDE DEF to, Size
    <3> QED
      BY <1>1, <3>1 DEF to
  <2> HIDE DEF p, q, d, here
  <2>8. here \in a..Size
    BY <2>2, <2>3, <2>4, <2>5, <2>6, <2>7
  <2> QED
    BY <2>8 DEF here
<1> HIDE DEF G
<1>3. o \in G
  BY <1>1, <1>2, BackFromN
<1> QED
  BY <1>3 DEF G

\* The error of a scan is one of the lexer's.
LEMMA QuotesError ==
  ASSUME source \in Sources, NEW o \in 0..Size
  PROVE  ScanQuotes[o].error # "ended"
<1> DEFINE G == {a \in 0..Size : ScanQuotes[a].error # "ended"}
<1>1. Size \in Nat
  BY SourceType
<1>2. ASSUME NEW a \in 0..Size, \A p \in (a + 1)..Size : p \in G PROVE a \in G
  <2> DEFINE d == DecodeAt(a)
             e == EscapeAt(a + 1, Quote)
             p == a + d.width
             q == e.to
             here == ScanQuotes[a].error
  <2>1. ScanQuotes[a] = QuotesFrom(a, ScanQuotes)
    BY QuotesCompute
  <2>2. CASE a = Size
    BY <2>1, <2>2 DEF QuotesFrom, Scan
  <2>3. CASE a # Size
    <3>1. /\ d.width # 0 => p \in (a + 1)..Size
          /\ e.error \in {"none", "E0001"}
          /\ e.error = "none" => q \in (a + 1)..Size
      BY <2>3, QuotesGoOn
    <3>2. \/ here \in {"none", "E0001", "E1001"}
          \/ here = e.error
          \/ e.error = "none" /\ here = ScanQuotes[q].error
          \/ d.width # 0 /\ here = ScanQuotes[p].error
      BY <2>1, <2>3 DEF QuotesFrom, Scan, Prefaced
    <3> HIDE DEF p, q, d, e, here
    <3>3. here # "ended"
      BY <1>2, <3>1, <3>2
    <3> QED
      BY <3>3 DEF here
  <2> QED
    BY <2>2, <2>3
<1> HIDE DEF G
<1>3. o \in G
  BY <1>1, <1>2, BackFromN
<1> QED
  BY <1>3 DEF G

\* A scan that fails does so with an error of its own.
LEMMA GuillemetsError ==
  ASSUME source \in Sources, NEW o \in 0..Size, NEW depth \in 1..NestingLimit
  PROVE  ScanGuillemets[o][depth].error # "ended"
<1> DEFINE G == {a \in 0..Size : \A k \in 1..NestingLimit : ScanGuillemets[a][k].error # "ended"}
<1>1. Size \in Nat
  BY SourceType
<1>2. ASSUME NEW a \in 0..Size, \A p \in (a + 1)..Size : p \in G PROVE a \in G
  <2> SUFFICES ASSUME NEW k \in 1..NestingLimit PROVE ScanGuillemets[a][k].error # "ended"
    OBVIOUS
  <2> DEFINE d == DecodeAt(a)
             p == a + d.width
             q == a + 2
             here == ScanGuillemets[a][k].error
  <2>1. ScanGuillemets[a] = GuillemetsFrom(a, ScanGuillemets)
    BY GuillemetsCompute
  <2>2. /\ MatchesAt(a, OpenGuillemet) \/ MatchesAt(a, CloseGuillemet) => q \in (a + 1)..Size
        /\ d.width # 0 => p \in (a + 1)..Size
    BY GuillemetsGoOn
  <2>3. \/ here \in {"none", "E0001", "E1001"}
        \/ MatchesAt(a, OpenGuillemet) /\ k # NestingLimit /\ here = ScanGuillemets[q][k + 1].error
        \/ MatchesAt(a, CloseGuillemet) /\ k # 1 /\ here = ScanGuillemets[q][k - 1].error
        \/ d.width # 0 /\ here = ScanGuillemets[p][k].error
    BY <2>1 DEF GuillemetsFrom, Scan, Prefaced
  <2>4. k # NestingLimit => k + 1 \in 1..NestingLimit
    BY TextAssumption
  <2>5. k # 1 => k - 1 \in 1..NestingLimit
    BY TextAssumption
  <2> HIDE DEF p, q, d, here
  <2>6. here # "ended"
    BY <1>2, <2>2, <2>3, <2>4, <2>5
  <2> QED
    BY <2>6 DEF here
<1> HIDE DEF G
<1>3. o \in G
  BY <1>1, <1>2, BackFromN
<1> QED
  BY <1>3 DEF G

\* A digit that is seen stands in the text.
LEMMA DecimalHere ==
  ASSUME source \in Sources, NEW o \in Nat, IsDecimal(Peek(o))
  PROVE  o \in 0..Size /\ o < Size /\ source[o + 1] \in Bytes /\ IsDecimal(source[o + 1])
<1>1. Peek(o) # 0
  BY DEF IsDecimal
<1>2. Peek(o) \in Bytes /\ o < Size /\ Peek(o) = source[o + 1]
  BY <1>1, PeekType
<1>3. Size \in Nat
  BY SourceType
<1>4. o \in 0..Size
  <2> HIDE DEF Size
  <2> QED
    BY <1>2, <1>3
<1> QED
  BY <1>2, <1>4

\* A run of digits and separators ends in the text, behind its first digit.
LEMMA DecimalEnds ==
  ASSUME source \in Sources, NEW o \in 0..Size
  PROVE  DecimalEnd(o) \in o..Size /\ (IsDecimal(Peek(o)) => DecimalEnd(o) \in (o + 1)..Size)
<1> DEFINE S == {b \in Bytes : IsDecimal(b) \/ IsSeparator(b)}
<1>1. DecimalEnd(o) = RunEnd(o, S)
  BY DEF DecimalEnd
<1>2. RunEnd(o, S) \in o..Size
  BY RunEnds
<1>3. ASSUME IsDecimal(Peek(o)) PROVE RunEnd(o, S) \in (o + 1)..Size
  <2>1. o \in Nat
    BY SourceType
  <2>2. o < Size /\ source[o + 1] \in S
    BY <1>3, <2>1, DecimalHere
  <2> HIDE DEF S
  <2> QED
    BY <2>2, RunGoesOn
<1> QED
  BY <1>1, <1>2, <1>3

\* A fraction ends in the text or is given back.
LEMMA FractionEnds ==
  ASSUME source \in Sources, NEW o \in 0..Size
  PROVE  FractionEnd(o) \in o..Size
<1>1. Size \in Nat /\ o \in Nat /\ o + 1 \in Nat
  BY SourceType
<1>2. CASE Peek(o) = Dot /\ IsDecimal(Peek(o + 1))
  <2>1. o + 1 \in 0..Size
    BY <1>1, <1>2, DecimalHere
  <2>2. DecimalEnd(o + 1) \in (o + 1)..Size
    BY <2>1, DecimalEnds
  <2>3. FractionEnd(o) = DecimalEnd(o + 1)
    BY <1>2 DEF FractionEnd
  <2> HIDE DEF Size
  <2> QED
    BY <1>1, <2>2, <2>3
<1>3. CASE ~ (Peek(o) = Dot /\ IsDecimal(Peek(o + 1)))
  <2>1. FractionEnd(o) = o
    BY <1>3 DEF FractionEnd
  <2> HIDE DEF Size
  <2> QED
    BY <1>1, <2>1
<1> QED
  BY <1>2, <1>3

\* An exponent ends in the text or is given back.
LEMMA ExponentEnds ==
  ASSUME source \in Sources, NEW o \in 0..Size
  PROVE  ExponentEnd(o) \in o..Size
<1> DEFINE digits == IF Peek(o + 1) \in {43, 45} THEN o + 2 ELSE o + 1
<1>1. Size \in Nat /\ o \in Nat
  BY SourceType
<1>2. digits \in Nat /\ digits > o
  <2> HIDE DEF Size
  <2> QED
    BY <1>1
<1>3. CASE Peek(o) \in {101, 69} /\ IsDecimal(Peek(digits))
  <2>1. digits \in 0..Size
    BY <1>2, <1>3, DecimalHere
  <2>2. DecimalEnd(digits) \in digits..Size
    BY <2>1, DecimalEnds
  <2>3. ExponentEnd(o) = DecimalEnd(digits)
    BY <1>3 DEF ExponentEnd
  <2> HIDE DEF Size, digits
  <2> QED
    BY <1>1, <1>2, <2>2, <2>3
<1>4. CASE ~ (Peek(o) \in {101, 69} /\ IsDecimal(Peek(digits)))
  <2>1. ExponentEnd(o) = o
    BY <1>4 DEF ExponentEnd
  <2> HIDE DEF Size
  <2> QED
    BY <1>1, <2>1
<1> QED
  BY <1>3, <1>4

\* A number ends in the text, behind its first digit.
LEMMA NumberEnds ==
  ASSUME source \in Sources, NEW o \in 0..Size, IsDecimal(Peek(o))
  PROVE  NumberEnd(o) \in (o + 1)..Size
<1>1. Size \in Nat
  BY SourceType
<1>2. CASE Prefixed(o) # 10
  <2>1. /\ <<48, 98>> \in Seq(Bytes) /\ <<48, 98>> # <<>> /\ Len(<<48, 98>>) = 2
        /\ <<48, 120>> \in Seq(Bytes) /\ <<48, 120>> # <<>> /\ Len(<<48, 120>>) = 2
    <3>1. 48 \in Bytes /\ 98 \in Bytes /\ 120 \in Bytes
      BY DEF Bytes
    <3> QED
      BY <3>1
  <2>2. MatchesAt(o, <<48, 98>>) \/ MatchesAt(o, <<48, 120>>)
    BY <1>2 DEF Prefixed
  <2>3. o + 2 \in (o + 1)..Size
    BY <2>1, <2>2, MatchedBytes
  <2> DEFINE S == {b \in Bytes : IsDigitOf(Prefixed(o), b) \/ IsSeparator(b)}
  <2>4. NumberEnd(o) = RunEnd(o + 2, S)
    BY <1>2 DEF NumberEnd
  <2> HIDE DEF S
  <2>5. o + 2 \in 0..Size
    <3> HIDE DEF Size
    <3> QED
      BY <1>1, <2>3
  <2>6. RunEnd(o + 2, S) \in (o + 2)..Size
    BY <2>5, RunEnds
  <2> HIDE DEF Size
  <2> QED
    BY <1>1, <2>4, <2>6
<1>3. CASE Prefixed(o) = 10
  <2> DEFINE a == DecimalEnd(o)
             b == FractionEnd(a)
  <2>1. a \in (o + 1)..Size
    BY DecimalEnds
  <2>2. a \in 0..Size
    <3> HIDE DEF a, Size
    <3> QED
      BY <1>1, <2>1
  <2>3. b \in a..Size
    BY <2>2, FractionEnds
  <2>4. b \in 0..Size
    <3> HIDE DEF a, b, Size
    <3> QED
      BY <1>1, <2>2, <2>3
  <2>5. ExponentEnd(b) \in b..Size
    BY <2>4, ExponentEnds
  <2>6. NumberEnd(o) = ExponentEnd(b)
    BY <1>3 DEF NumberEnd
  <2> HIDE DEF a, b, Size
  <2> QED
    BY <1>1, <2>1, <2>3, <2>5, <2>6
<1> QED
  BY <1>2, <1>3

\* Every operator is spelled with a byte at least.
LEMMA OperatorsSpelled ==
  ASSUME NEW i \in 1..Len(Operators)
  PROVE  Operators[i] \in Seq(Bytes) /\ Operators[i] # <<>>
<1> DEFINE T == Seq(Bytes) \ {<<>>}
           long == <<<<62, 62, 62>>, <<60, 61>>, <<61, 61>>, <<33, 61>>, <<62, 61>>, <<38, 38>>, <<124, 124>>,
                     <<60, 60>>, <<62, 62>>, <<58, 61>>, <<45, 62>>>>
           short == <<64, 43, 45, 42, 47, 37, 61, 60, 62, 33, 38, 124, 126, 123, 125, 94,
                      46, 44, 59, 58, 40, 41, 91, 93>>
           single == [k \in 1..24 |-> <<short[k]>>]
<1>1. /\ 62 \in Bytes /\ 60 \in Bytes /\ 61 \in Bytes /\ 33 \in Bytes /\ 38 \in Bytes /\ 124 \in Bytes
      /\ 58 \in Bytes /\ 45 \in Bytes
  BY DEF Bytes
<1>2. /\ <<62, 62, 62>> \in T /\ <<60, 61>> \in T /\ <<61, 61>> \in T /\ <<33, 61>> \in T /\ <<62, 61>> \in T
      /\ <<38, 38>> \in T /\ <<124, 124>> \in T /\ <<60, 60>> \in T /\ <<62, 62>> \in T /\ <<58, 61>> \in T
      /\ <<45, 62>> \in T
  BY <1>1
<1>3. long \in Seq(T)
  <2> HIDE DEF T
  <2> QED
    BY <1>2
<1>4. \A k \in 1..24 : short[k] \in Bytes
  <2>1. \A a \in 33..126 : a \in Bytes
    BY DEF Bytes
  <2>2. short \in Seq(33..126) /\ Len(short) = 24
    OBVIOUS
  <2> HIDE DEF short
  <2>3. \A k \in 1..24 : short[k] \in 33..126
    BY <2>2, ElementOfSeq
  <2> QED
    BY <2>1, <2>3
<1>5. \A b \in Bytes : <<b>> \in T
  OBVIOUS
<1>6. single \in [1..24 -> T]
  <2> HIDE DEF T, short
  <2> QED
    BY <1>4, <1>5
<1>7. single \in Seq(T)
  <2> HIDE DEF T, single
  <2>1. Seq(T) = UNION {[1..n -> T] : n \in Nat} /\ 24 \in Nat
    BY SeqDef
  <2> QED
    BY <1>6, <2>1
<1>8. Operators = long \o single
  BY DEF Operators
<1> HIDE DEF long, single
<1>9. Operators \in Seq(T)
  <2> HIDE DEF T
  <2> QED
    BY <1>3, <1>7, <1>8, ConcatProperties
<1>10. Operators[i] \in T
  <2> HIDE DEF T
  <2> QED
    BY <1>9, ElementOfSeq
<1> QED
  BY <1>10

-----------------------------------------------------------------------------
(* Tokens cover the text                                                       *)

EndOf(ts, i) == IF i = 0 THEN 0 ELSE ts[i].to.offset

Placed(ts, i) ==
  /\ IsGap(EndOf(ts, i - 1), ts[i].from.offset)
  /\ ts[i].from.offset < ts[i].to.offset
  /\ IsPosition(ts[i].from) /\ IsPosition(ts[i].to)

CoversUpTo(ts, c) ==
  /\ \E S : ts \in Seq(S)
  /\ c \in Cursors /\ c.offset \in 0..Size /\ IsPosition(c)
  /\ \A i \in 1..Len(ts) : Placed(ts, i)
  /\ EndOf(ts, Len(ts)) = c.offset

\* Before the first token nothing is left out.
LEMMA StartsCovered ==
  ASSUME source \in Sources
  PROVE  CoversUpTo(<<>>, [offset |-> 0, line |-> 1, column |-> 0])
<1> DEFINE c == [offset |-> 0, line |-> 1, column |-> 0]
<1>1. Size \in Nat
  BY SourceType
<1>2. c \in Cursors /\ c.offset = 0 /\ c.line = 1 /\ c.column = 0
  BY DEF Cursors
<1>3. c.offset \in 0..Size
  <2> HIDE DEF Size
  <2> QED
    BY <1>1, <1>2
<1>4. LinesTo(0) = {} /\ HeadsTo(0) = {}
  BY DEF LinesTo, HeadsTo
<1>5. IsPosition(c)
  <2>1. Cardinality(LinesTo(0)) = 0 /\ Cardinality(HeadsTo(0)) = 0
    BY <1>4, FS_EmptySet
  <2> HIDE DEF c
  <2>2. c.line = 1 + Cardinality(LinesTo(c.offset)) /\ c.column = Cardinality(HeadsTo(c.offset))
    BY <1>2, <2>1
  <2> QED
    BY <2>2, PositionByCount
<1>6. <<>> \in Seq({}) /\ Len(<<>>) = 0 /\ 1..0 = {}
  OBVIOUS
<1> HIDE DEF c
<1>7. EndOf(<<>>, Len(<<>>)) = c.offset
  BY <1>2, <1>6 DEF EndOf
<1>8. CoversUpTo(<<>>, c)
  BY <1>2, <1>3, <1>5, <1>6, <1>7 DEF CoversUpTo
<1> QED
  BY <1>8 DEF c

\* A token that begins where the gap ends, and is not empty, leaves nothing out.
LEMMA NextCovered ==
  ASSUME source \in Sources, NEW ts, NEW c, CoversUpTo(ts, c),
         NEW to \in (TokenStart[c.offset] + 1)..Size,
         NEW t, t.from = Advanced(c, TokenStart[c.offset]), t.to = Advanced(t.from, to)
  PROVE  CoversUpTo(Append(ts, t), t.to)
<1> DEFINE start == TokenStart[c.offset]
           us == Append(ts, t)
           n == Len(ts)
<1>1. Size \in Nat
  BY SourceType
<1>2. c \in Cursors /\ c.offset \in 0..Size /\ IsPosition(c) /\ EndOf(ts, n) = c.offset
      /\ \A i \in 1..n : Placed(ts, i)
  BY DEF CoversUpTo
<1>3. start \in c.offset..Size /\ IsGap(c.offset, start)
  BY <1>2, TokenStarts
<1>4. t.from \in Cursors /\ t.from.offset = start /\ IsPosition(t.from)
  BY <1>2, <1>3, AdvancedPosition
<1>5. to \in start..Size /\ to \in 0..Size /\ start < to
  <2> HIDE DEF start, Size
  <2>1. to \in (start + 1)..Size
    BY DEF start
  <2> QED
    BY <1>1, <1>2, <1>3, <2>1
<1>6. t.to \in Cursors /\ t.to.offset = to /\ IsPosition(t.to)
  BY <1>4, <1>5, AdvancedPosition
<1>7. PICK S : ts \in Seq(S)
  BY DEF CoversUpTo
<1>8. ts \in Seq(S \cup {t}) /\ t \in S \cup {t}
  BY <1>7
<1>9. us \in Seq(S \cup {t}) /\ Len(us) = n + 1 /\ n \in Nat /\ us[n + 1] = t /\ \A k \in 1..n : us[k] = ts[k]
  BY <1>8, AppendProperties, LenProperties
<1> HIDE DEF start, us, n
<1>10. ASSUME NEW i \in 1..n PROVE Placed(us, i)
  <2>1. us[i] = ts[i] /\ EndOf(us, i - 1) = EndOf(ts, i - 1)
    <3>1. i - 1 = 0 \/ i - 1 \in 1..n
      BY <1>9
    <3> QED
      BY <1>9, <3>1 DEF EndOf
  <2> QED
    BY <1>2, <2>1 DEF Placed
<1>11. Placed(us, n + 1)
  <2>1. (n + 1) - 1 = n /\ (n = 0 \/ n \in 1..n)
    BY <1>9
  <2>2. EndOf(us, n) = EndOf(ts, n)
    BY <1>9, <2>1 DEF EndOf
  <2>3. EndOf(us, (n + 1) - 1) = c.offset
    BY <1>2, <2>1, <2>2
  <2>4. us[n + 1] = t
    BY <1>9
  <2> QED
    BY <1>3, <1>4, <1>5, <1>6, <2>3, <2>4 DEF Placed
<1>12. \A i \in 1..Len(us) : Placed(us, i)
  <2>1. \A i \in 1..Len(us) : i \in 1..n \/ i = n + 1
    BY <1>9
  <2> QED
    BY <1>10, <1>11, <2>1
<1>13. EndOf(us, Len(us)) = t.to.offset
  <2>1. n + 1 # 0
    BY <1>9
  <2> QED
    BY <1>9, <2>1 DEF EndOf
<1>14. t.to.offset \in 0..Size
  BY <1>5, <1>6
<1>15. CoversUpTo(us, t.to)
  BY <1>6, <1>9, <1>12, <1>13, <1>14 DEF CoversUpTo
<1> QED
  BY <1>15 DEF us

-----------------------------------------------------------------------------
(* Each kind of token                                                          *)

Reading == source \in Sources /\ cursor.offset \in 0..Size
Takes   == \E to \in (Start + 1)..Size : \E kind, value, text : SetToken(kind, to, value, text)
Fails   == \E code : code # "ended" /\ FailLexing(code)

\* Where the next token begins.
LEMMA StartType ==
  ASSUME Reading
  PROVE  source \in Sources /\ Size \in Nat /\ Start \in 0..Size /\ IsGap(cursor.offset, Start)
BY SourceType, TokenStarts DEF Reading, Start

\* A byte that begins a token stands in the text.
LEMMA NextByte ==
  ASSUME Reading, Peek(Start) # 0
  PROVE  Start + 1 \in 0..Size /\ Start + 1 \in (Start + 1)..Size /\ Start < Size
<1>1. source \in Sources /\ Size \in Nat /\ Start \in 0..Size /\ Start \in Nat
  BY StartType
<1>2. Start < Size
  BY <1>1, PeekType
<1> HIDE DEF Size, Start
<1> QED
  BY <1>1, <1>2

\* A text is a token of a byte at least, or an error.
LEMMA TextTaken ==
  ASSUME Reading, LexText
  PROVE  Takes \/ Fails
<1> DEFINE scan == IF Peek(Start) = Quote THEN ScanQuotes[Start + 1] ELSE ScanGuillemets[Start + 2][1]
<1>1. /\ Peek(Start) = Quote \/ MatchesAt(Start, OpenGuillemet)
      /\ IF scan.error = "none" THEN SetToken("text", scan.to, 0, scan.text) ELSE FailLexing(scan.error)
  BY DEF LexText, Begins
<1>2. source \in Sources /\ Size \in Nat /\ Start \in 0..Size /\ Start \in Nat
  BY StartType
<1>3. scan.to \in (Start + 1)..Size /\ scan.error # "ended"
  <2>1. CASE Peek(Start) = Quote
    <3>1. Start + 1 \in 0..Size
      BY <2>1, NextByte DEF Quote
    <3>2. ScanQuotes[Start + 1].to \in (Start + 1)..Size /\ ScanQuotes[Start + 1].error # "ended"
      BY <1>2, <3>1, QuotesEnd, QuotesError
    <3> QED
      BY <2>1, <3>2
  <2>2. CASE Peek(Start) # Quote
    <3>1. MatchesAt(Start, OpenGuillemet)
      BY <1>1, <2>2
    <3>2. OpenGuillemet \in Seq(Bytes) /\ OpenGuillemet # <<>> /\ Len(OpenGuillemet) = 2
      BY DEF OpenGuillemet, Bytes
    <3>3. Start + 2 \in (Start + 1)..Size
      BY <1>2, <3>1, <3>2, MatchedBytes
    <3> HIDE DEF Size, Start
    <3>4. Start + 2 \in 0..Size /\ 1 \in 1..NestingLimit
      BY <1>2, <3>3, TextAssumption
    <3>5. ScanGuillemets[Start + 2][1].to \in (Start + 2)..Size /\ ScanGuillemets[Start + 2][1].error # "ended"
      BY <1>2, <3>4, GuillemetsEnd, GuillemetsError
    <3>6. ScanGuillemets[Start + 2][1].to \in (Start + 1)..Size
      BY <1>2, <3>5
    <3> QED
      BY <2>2, <3>5, <3>6
  <2> QED
    BY <2>1, <2>2
<1> HIDE DEF scan
<1>4. CASE scan.error = "none"
  BY <1>1, <1>3, <1>4 DEF Takes
<1>5. CASE scan.error # "none"
  BY <1>1, <1>3, <1>5 DEF Fails
<1> QED
  BY <1>4, <1>5

\* So is a character.
LEMMA CharacterTaken ==
  ASSUME Reading, LexCharacter
  PROVE  Takes \/ Fails
<1> DEFINE d == DecodeAt(Start + 1)
           scan == IF Start + 1 >= Size THEN Scan(Start + 1, "E0001", 0)
                   ELSE IF Peek(Start + 1) = Backslash THEN EscapeAt(Start + 2, Apostrophe)
                   ELSE IF d.width = 0 THEN Scan(Start + 1, "E1001", 0)
                   ELSE Scan(Start + 1 + d.width, "none", d.code)
<1>1. /\ Peek(Start) = Apostrophe
      /\ IF scan.error # "none" THEN FailLexing(scan.error)
         ELSE IF Peek(scan.to) # Apostrophe THEN FailLexing("E0001")
         ELSE SetToken("character", scan.to + 1, scan.text, <<>>)
  BY DEF LexCharacter, Begins
<1>2. source \in Sources /\ Size \in Nat /\ Start \in 0..Size /\ Start \in Nat
  BY StartType
<1>3. scan.error # "ended" /\ (scan.error = "none" => scan.to \in (Start + 1)..Size)
  <2>1. CASE Start + 1 >= Size
    BY <2>1 DEF Scan
  <2>2. CASE Start + 1 < Size /\ Peek(Start + 1) = Backslash
    <3> DEFINE e == EscapeAt(Start + 2, Apostrophe)
    <3>1. Start + 2 \in 0..Size /\ Apostrophe \in Int /\ ~ (Start + 1 >= Size)
      <4> HIDE DEF Size, Start
      <4> QED
        BY <1>2, <2>2 DEF Apostrophe
    <3>2. e.error \in {"none", "E0001"} /\ (e.error = "none" => e.to \in (Start + 2 + 1)..Size)
      BY <1>2, <3>1, EscapeEnds
    <3>3. scan = e
      BY <2>2, <3>1
    <3> HIDE DEF e, Size, Start
    <3>4. e.error = "none" => e.to \in (Start + 1)..Size
      BY <1>2, <3>2
    <3> HIDE DEF scan
    <3> QED
      BY <3>2, <3>3, <3>4
  <2>3. CASE Start + 1 < Size /\ Peek(Start + 1) # Backslash
    <3>1. ~ (Start + 1 >= Size) /\ Start + 1 \in 0..Size
      <4> HIDE DEF Size, Start
      <4> QED
        BY <1>2, <2>3
    <3>2. CASE d.width = 0
      BY <2>3, <3>1, <3>2 DEF Scan
    <3>3. CASE d.width # 0
      <4>1. Start + 1 + d.width \in (Start + 1 + 1)..Size
        BY <1>2, <3>1, <3>3, AfterDecoded
      <4>2. scan = Scan(Start + 1 + d.width, "none", d.code)
        BY <2>3, <3>1, <3>3
      <4>3. scan.to = Start + 1 + d.width /\ scan.error = "none"
        BY <4>2 DEF Scan
      <4> HIDE DEF scan, d, Size, Start
      <4>4. Start + 1 + d.width \in (Start + 1)..Size
        BY <1>2, <4>1
      <4> QED
        BY <4>3, <4>4
    <3> QED
      BY <3>2, <3>3
  <2>4. Start + 1 >= Size \/ Start + 1 < Size
    <3> HIDE DEF Size, Start
    <3> QED
      BY <1>2
  <2> QED
    BY <2>1, <2>2, <2>3, <2>4
<1> HIDE DEF scan
<1>4. CASE scan.error # "none"
  BY <1>1, <1>3, <1>4 DEF Fails
<1>5. CASE scan.error = "none" /\ Peek(scan.to) # Apostrophe
  BY <1>1, <1>5 DEF Fails
<1>6. CASE scan.error = "none" /\ Peek(scan.to) = Apostrophe
  <2>1. scan.to \in (Start + 1)..Size
    BY <1>3, <1>6
  <2>2. scan.to \in Nat
    <3> HIDE DEF Size, Start
    <3> QED
      BY <1>2, <2>1
  <2>3. scan.to < Size
    BY <1>2, <1>6, <2>2, PeekType DEF Apostrophe
  <2>4. scan.to + 1 \in (Start + 1)..Size
    <3> HIDE DEF Size, Start
    <3> QED
      BY <1>2, <2>1, <2>2, <2>3
  <2> QED
    BY <1>1, <1>6, <2>4 DEF Takes
<1> QED
  BY <1>4, <1>5, <1>6

\* So is a number.
LEMMA NumberTaken ==
  ASSUME Reading, LexNumber
  PROVE  Takes \/ Fails
<1> DEFINE base == Prefixed(Start)
           spelling == Slice(Start, NumberEnd(Start))
<1>1. /\ IsDecimal(Peek(Start))
      /\ IF ~ SeparatorsValid(spelling, base) THEN FailLexing("E0001")
         ELSE IF IsFloat(Start) THEN SetToken("float", NumberEnd(Start), 0, <<>>)
         ELSE IF IntegerValue(spelling, base) = NoValue THEN FailLexing("E0001")
         ELSE SetToken("integer", NumberEnd(Start), IntegerValue(spelling, base), <<>>)
  BY DEF LexNumber, Begins
<1>2. source \in Sources /\ Start \in 0..Size
  BY StartType
<1>3. NumberEnd(Start) \in (Start + 1)..Size
  BY <1>1, <1>2, NumberEnds
<1> HIDE DEF base, spelling
<1>4. \/ FailLexing("E0001") \/ SetToken("float", NumberEnd(Start), 0, <<>>)
      \/ SetToken("integer", NumberEnd(Start), IntegerValue(spelling, base), <<>>)
  BY <1>1
<1>5. FailLexing("E0001") => Fails
  BY DEF Fails
<1> QED
  BY <1>3, <1>4, <1>5 DEF Takes

\* So is an index or a blank name.
LEMMA UnderscoreTaken ==
  ASSUME Reading, LexUnderscore
  PROVE  Takes \/ Fails
<1> DEFINE to == RunEnd(Start + 1, {b \in Bytes : IsDecimal(b)})
           value == Accumulated(Slice(Start + 1, to), 10, 2 ^ (WordBits - 1) - 1)
<1>1. /\ IsIndex \/ IsUnderscore
      /\ IF IsUnderscore THEN SetToken("underscore", Start + 1, 0, <<>>)
         ELSE IF value = NoValue THEN FailLexing("E0001")
         ELSE SetToken("index", to, value, <<>>)
  BY DEF LexUnderscore, Begins
<1>2. source \in Sources /\ Start \in 0..Size
  BY StartType
<1>3. Peek(Start) # 0
  BY <1>1 DEF IsIndex, IsUnderscore, Underscore
<1>4. Start + 1 \in (Start + 1)..Size /\ Start + 1 \in 0..Size
  BY <1>3, NextByte
<1>5. to \in (Start + 1)..Size
  BY <1>2, <1>4, RunEnds
<1> HIDE DEF to, value
<1>6. \/ SetToken("underscore", Start + 1, 0, <<>>) \/ FailLexing("E0001") \/ SetToken("index", to, value, <<>>)
  BY <1>1
<1>7. FailLexing("E0001") => Fails
  BY DEF Fails
<1> QED
  BY <1>4, <1>5, <1>6, <1>7 DEF Takes

\* So is a name.
LEMMA NameTaken ==
  ASSUME Reading, LexName
  PROVE  Takes \/ Fails
<1> DEFINE end == NameEnd[Start]
           identity == Identity(Start, end.to)
           keywords == {k \in KeywordKinds : k.scalars = identity}
           kind == (CHOOSE k \in keywords : TRUE).kind
<1>1. /\ IsName
      /\ IF ~ end.valid THEN FailLexing("E1001")
         ELSE IF identity = <<>> THEN FailLexing("E0001")
         ELSE IF keywords # {} THEN SetToken(kind, end.to, 0, <<>>)
         ELSE SetToken("identifier", end.to, 0, identity)
  BY DEF LexName, Begins
<1>2. source \in Sources /\ Start \in 0..Size
  BY StartType
<1>3. DecodeAt(Start).width # 0 /\ IsIdRest(DecodeAt(Start).code)
  BY <1>1 DEF IsName, IsIdRest
<1>4. end.to \in (Start + 1)..Size
  BY <1>2, <1>3, NameEnds
<1> HIDE DEF end, identity, keywords, kind
<1>5. \/ FailLexing("E0001") \/ FailLexing("E1001") \/ SetToken(kind, end.to, 0, <<>>)
      \/ SetToken("identifier", end.to, 0, identity)
  BY <1>1
<1>6. (FailLexing("E0001") => Fails) /\ (FailLexing("E1001") => Fails)
  BY DEF Fails
<1> QED
  BY <1>4, <1>5, <1>6 DEF Takes

\* So is an operator.
LEMMA OperatorTaken ==
  ASSUME Reading, LexOperator
  PROVE  Takes \/ Fails
<1> DEFINE found == OperatorsAt(Start)
           first == CHOOSE i \in found : \A j \in found : i <= j
<1>1. IF found # {} THEN SetToken("operator", Start + Len(Operators[first]), 0, Operators[first])
      ELSE IF Peek(Start) >= 128 /\ DecodeAt(Start).width = 0 THEN FailLexing("E1001")
      ELSE FailLexing("E0001")
  BY DEF LexOperator
<1>2. source \in Sources /\ Start \in 0..Size
  BY StartType
<1>3. (FailLexing("E0001") => Fails) /\ (FailLexing("E1001") => Fails)
  BY DEF Fails
<1>4. CASE found = {}
  BY <1>1, <1>3, <1>4
<1>5. CASE found # {}
  <2>1. found \subseteq Nat
    BY DEF OperatorsAt
  <2>2. first \in found
    <3> HIDE DEF found
    <3>1. PICK N : N \in found
      BY <1>5
    <3>2. \E i \in found : \A j \in found : i <= j
      BY <2>1, <3>1, LeastOf
    <3> QED
      BY <3>2
  <2> HIDE DEF first
  <2>3. first \in 1..Len(Operators) /\ MatchesAt(Start, Operators[first])
    BY <2>2 DEF OperatorsAt
  <2>4. Operators[first] \in Seq(Bytes) /\ Operators[first] # <<>>
    BY <2>3, OperatorsSpelled
  <2>5. Start + Len(Operators[first]) \in (Start + 1)..Size
    BY <1>2, <2>3, <2>4, MatchedBytes
  <2> QED
    BY <1>1, <1>5, <2>5 DEF Takes
<1> QED
  BY <1>4, <1>5

-----------------------------------------------------------------------------
(* The invariant                                                               *)

TextIInv ==
  /\ source \in Sources
  /\ CoversUpTo(tokens, cursor)
  /\ lexing = "ended" => IsGap(cursor.offset, Size)

\* At the start.
LEMMA TextInitCovered ==
  ASSUME TextInit
  PROVE  TextIInv
<1>1. /\ source \in Sources /\ cursor = [offset |-> 0, line |-> 1, column |-> 0] /\ tokens = <<>>
      /\ lexing = "running"
  BY DEF TextInit
<1>2. CoversUpTo(<<>>, [offset |-> 0, line |-> 1, column |-> 0])
  BY <1>1, StartsCovered
<1> QED
  BY <1>1, <1>2 DEF TextIInv

\* A token keeps the invariant.
LEMMA TokenKeepsCover ==
  ASSUME TextIInv, Takes, lexing = "running"
  PROVE  TextIInv'
<1>1. source \in Sources /\ CoversUpTo(tokens, cursor)
  BY DEF TextIInv
<1>2. PICK to \in (Start + 1)..Size : \E kind, value, text : SetToken(kind, to, value, text)
  BY DEF Takes
<1>3. PICK kind, value, text : SetToken(kind, to, value, text)
  BY <1>2
<1> DEFINE from == Advanced(cursor, Start)
           t == [kind |-> kind, from |-> from, to |-> Advanced(from, to), value |-> value, text |-> text]
<1>4. tokens' = Append(tokens, t) /\ cursor' = t.to /\ source' = source /\ lexing' = lexing
  BY <1>3 DEF SetToken
<1>5. t.from = Advanced(cursor, TokenStart[cursor.offset]) /\ t.to = Advanced(t.from, to)
  BY DEF Start
<1>6. to \in (TokenStart[cursor.offset] + 1)..Size
  BY <1>2 DEF Start
<1> HIDE DEF t
<1>7. CoversUpTo(Append(tokens, t), t.to)
  BY <1>1, <1>5, <1>6, NextCovered
<1>8. CoversUpTo(tokens, cursor)'
  <2> DEFINE ts == Append(tokens, t)
  <2>1. /\ \E S : ts \in Seq(S)
        /\ t.to \in Cursors /\ t.to.offset \in 0..Size /\ IsPosition(t.to)
        /\ \A i \in 1..Len(ts) : Placed(ts, i)
        /\ EndOf(ts, Len(ts)) = t.to.offset
    BY <1>7 DEF CoversUpTo
  <2> HIDE DEF ts
  <2>2. tokens' = ts /\ cursor' = t.to /\ source' = source
    BY <1>4 DEF ts
  <2>3. Size' = Size
    BY <2>2 DEF Size
  <2>4. IsPosition(cursor)'
    BY <2>1, <2>2 DEF IsPosition
  <2>5. ASSUME NEW i \in 1..Len(ts)
        PROVE  Placed(tokens, i)'
    <3>1. /\ IsGap(EndOf(ts, i - 1), ts[i].from.offset) /\ ts[i].from.offset < ts[i].to.offset
          /\ IsPosition(ts[i].from) /\ IsPosition(ts[i].to)
      BY <2>1 DEF Placed
    <3>2. EndOf(tokens, i - 1)' = EndOf(ts, i - 1)
      BY <2>2 DEF EndOf
    <3>3. IsGap(EndOf(tokens, i - 1), tokens[i].from.offset)'
      BY <2>2, <2>3, <3>1, <3>2 DEF IsGap, MatchesAt
    <3>4. IsPosition(tokens[i].from)' /\ IsPosition(tokens[i].to)'
      BY <2>2, <3>1 DEF IsPosition
    <3> QED
      BY <2>2, <3>1, <3>3, <3>4 DEF Placed
  <2>6. EndOf(tokens, Len(tokens))' = cursor'.offset
    BY <2>1, <2>2 DEF EndOf
  <2> QED
    BY <2>1, <2>2, <2>3, <2>4, <2>5, <2>6 DEF CoversUpTo
<1> QED
  BY <1>4, <1>8 DEF TextIInv

\* What leaves the text, the cursor and the tokens alone keeps them covering.
LEMMA UnchangedKeepsCover ==
  ASSUME TextIInv, UNCHANGED <<source, cursor, tokens>>
  PROVE  source' \in Sources /\ CoversUpTo(tokens, cursor)'
<1>1. source' = source /\ cursor' = cursor /\ tokens' = tokens
  OBVIOUS
<1>2. Size' = Size
  BY <1>1 DEF Size
<1>3. /\ source \in Sources /\ \E S : tokens \in Seq(S)
      /\ cursor \in Cursors /\ cursor.offset \in 0..Size /\ IsPosition(cursor)
      /\ \A i \in 1..Len(tokens) : Placed(tokens, i)
      /\ EndOf(tokens, Len(tokens)) = cursor.offset
  BY DEF TextIInv, CoversUpTo
<1>4. IsPosition(cursor)'
  BY <1>1, <1>3 DEF IsPosition
<1>5. ASSUME NEW i \in 1..Len(tokens)
      PROVE  Placed(tokens, i)'
  <2>1. /\ IsGap(EndOf(tokens, i - 1), tokens[i].from.offset) /\ tokens[i].from.offset < tokens[i].to.offset
        /\ IsPosition(tokens[i].from) /\ IsPosition(tokens[i].to)
    BY <1>3 DEF Placed
  <2>2. EndOf(tokens, i - 1)' = EndOf(tokens, i - 1)
    BY <1>1 DEF EndOf
  <2>3. IsGap(EndOf(tokens, i - 1), tokens[i].from.offset)'
    BY <1>1, <1>2, <2>1, <2>2 DEF IsGap, MatchesAt
  <2>4. IsPosition(tokens[i].from)' /\ IsPosition(tokens[i].to)'
    BY <1>1, <2>1 DEF IsPosition
  <2> QED
    BY <1>1, <2>1, <2>3, <2>4 DEF Placed
<1>6. EndOf(tokens, Len(tokens))' = cursor'.offset
  BY <1>1, <1>3 DEF EndOf
<1>7. CoversUpTo(tokens, cursor)'
  BY <1>1, <1>2, <1>3, <1>4, <1>5, <1>6 DEF CoversUpTo
<1> QED
  BY <1>1, <1>3, <1>7

\* Every step keeps the invariant.
LEMMA TextNextCovered ==
  ASSUME TextIInv, [TextNext]_textVars
  PROVE  TextIInv'
<1>1. Reading
  BY DEF TextIInv, CoversUpTo, Reading
<1>2. CASE UNCHANGED textVars
  <2>1. UNCHANGED <<source, cursor, tokens>> /\ lexing' = lexing
    BY <1>2 DEF textVars
  <2>2. cursor' = cursor /\ Size' = Size
    BY <2>1 DEF Size
  <2>3. IsGap(cursor.offset, Size) => IsGap(cursor.offset, Size)'
    BY <2>1, <2>2 DEF IsGap, MatchesAt
  <2> QED
    BY <2>1, <2>3, UnchangedKeepsCover DEF TextIInv
<1>3. CASE LexEnd
  <2>1. Start = Size /\ UNCHANGED <<source, cursor, tokens>>
    BY <1>3 DEF LexEnd, Begins
  <2>2. IsGap(cursor.offset, Size)
    BY <1>1, <2>1, StartType
  <2>3. cursor' = cursor /\ Size' = Size
    BY <2>1 DEF Size
  <2>4. IsGap(cursor.offset, Size)'
    BY <2>1, <2>2, <2>3 DEF IsGap, MatchesAt
  <2> QED
    BY <2>1, <2>4, UnchangedKeepsCover DEF TextIInv
<1>4. ASSUME Fails PROVE TextIInv'
  <2>1. PICK code : code # "ended" /\ FailLexing(code)
    BY <1>4 DEF Fails
  <2>2. lexing' # "ended" /\ UNCHANGED <<source, cursor, tokens>>
    BY <2>1 DEF FailLexing
  <2> QED
    BY <2>2, UnchangedKeepsCover DEF TextIInv
<1>5. CASE LexText
  BY <1>1, <1>4, <1>5, TextTaken, TokenKeepsCover DEF LexText, Begins
<1>6. CASE LexCharacter
  BY <1>1, <1>4, <1>6, CharacterTaken, TokenKeepsCover DEF LexCharacter, Begins
<1>7. CASE LexNumber
  BY <1>1, <1>4, <1>7, NumberTaken, TokenKeepsCover DEF LexNumber, Begins
<1>8. CASE LexUnderscore
  BY <1>1, <1>4, <1>8, UnderscoreTaken, TokenKeepsCover DEF LexUnderscore, Begins
<1>9. CASE LexName
  BY <1>1, <1>4, <1>9, NameTaken, TokenKeepsCover DEF LexName, Begins
<1>10. CASE LexOperator
  BY <1>1, <1>4, <1>10, OperatorTaken, TokenKeepsCover DEF LexOperator, Begins
<1> QED
  BY <1>2, <1>3, <1>5, <1>6, <1>7, <1>8, <1>9, <1>10 DEF TextNext

\* The invariant says what the property does.
LEMMA InvariantCovers ==
  ASSUME TextIInv
  PROVE  TokensCoverText
<1>1. /\ \A i \in 1..Len(tokens) : Placed(tokens, i)
      /\ EndOf(tokens, Len(tokens)) = cursor.offset
      /\ lexing = "ended" => IsGap(cursor.offset, Size)
  BY DEF TextIInv, CoversUpTo
<1>2. \A i \in 1..Len(tokens) :
        /\ IsGap(IF i - 1 = 0 THEN 0 ELSE tokens[i - 1].to.offset, tokens[i].from.offset)
        /\ tokens[i].from.offset < tokens[i].to.offset
        /\ IsPosition(tokens[i].from) /\ IsPosition(tokens[i].to)
  BY <1>1 DEF Placed, EndOf
<1>3. lexing = "ended" => IsGap(IF Len(tokens) = 0 THEN 0 ELSE tokens[Len(tokens)].to.offset, Size)
  BY <1>1 DEF EndOf
<1> QED
  BY <1>2, <1>3 DEF TokensCoverText

\* What Lexer_Next returns leaves nothing of the text out: between two tokens, and
\* after the last one, stand only blanks and comments, no token is empty, and the
\* lines and columns that the cursor carries are those of the text.
THEOREM TokensCover ==
  TextSpec => []TokensCoverText
<1>1. TextInit => TextIInv
  BY TextInitCovered
<1>2. TextIInv /\ [TextNext]_textVars => TextIInv'
  BY TextNextCovered
<1>3. TextIInv => TokensCoverText
  BY InvariantCovers
<1> QED
  BY <1>1, <1>2, <1>3, PTL DEF TextSpec

-----------------------------------------------------------------------------
(* Names of the seed compiler                                                  *)

\* What a module's text leaves behind, and what the tables hold of it.
ItemsLeft ==
  [kind : Kinds, binds : Identifiers, public : BOOLEAN, children : SUBSET Identifiers] \cup
  [kind : {"alias"}, binds : Identifiers, public : BOOLEAN, target : Identifiers] \cup
  [kind : {"child"}, binds : {NoName}, public : BOOLEAN, name : Identifiers, parent : Identifiers,
   targetParent : Identifiers, target : Identifiers]
Entries == [name : Identifiers, unit : Nat, public : BOOLEAN, children : SUBSET Identifiers]

NamesTypes ==
  /\ program \in Programs
  /\ unitItems \in Seq(Seq(ItemsLeft)) /\ Parsed \in 1..Len(program)
  /\ inactive \in [Arms -> Seq(ItemsLeft)]
  /\ tables \in [Kinds -> Seq(Entries)]
  /\ ranges \in Seq([Kinds -> [begin : Nat, end : Nat]]) /\ Collected <= Len(program)
  /\ main \in Nat
  /\ nameStage.phase \in {"parse", "collect", "collected", "refused"} /\ nameStage.at \in Nat \ {0}

\* A name is bound once, and a public alias to a public item before it.
WellBound(list) ==
  /\ \A i, j \in 1..Len(list) : list[i].binds = list[j].binds /\ list[i].binds # NoName => i = j
  /\ \A i \in 1..Len(list) : IsAlias(list[i]) /\ list[i].public =>
       \E j \in 1..(i - 1) : list[j].binds = list[i].target /\ list[j].public

\* Of a constructor alias: both parents stand for one type, the name is new to it,
\* and the constructor that it names is the type's own or that of an earlier alias.
ChildLeads(list, i, r) ==
  LET alias == list[i]
      type  == list[r]
  IN  /\ type.kind = "type"
      /\ HasRoot(list, alias.parent) /\ Root(list, alias.parent) = type
      /\ HasRoot(list, alias.targetParent) /\ Root(list, alias.targetParent) = type
      /\ alias.name \notin type.children
      /\ \A j \in ChildAliases(list, type, alias.name) : j = i
      /\ \/ alias.target \in type.children
         \/ \E j \in 1..(i - 1) : j \in ChildAliases(list, type, alias.target)
ChildrenLead(list) ==
  \A i \in 1..Len(list) : list[i].kind = "child" => \E r \in 1..Len(list) : ChildLeads(list, i, r)

\* A part of a table holds the declarations among the first items of a unit.
PartHolds(kind, u, begin, end, n) ==
  /\ begin <= end /\ end <= Len(tables[kind])
  /\ \A i \in (begin + 1)..end : \E p \in 1..n :
       unitItems[u][p].kind = kind /\ tables[kind][i] = Entry(u, unitItems[u][p])
  /\ \A p \in 1..n : unitItems[u][p].kind = kind =>
       \E i \in (begin + 1)..end : tables[kind][i] = Entry(u, unitItems[u][p])

TablesHold ==
  /\ nameStage.phase = "parse" => ranges = <<>> /\ tables = [kind \in Kinds |-> <<>>]
  /\ nameStage.phase \in {"collect", "collected"} =>
       /\ Parsed = Len(program)
       /\ \A u \in 1..Collected : \A kind \in Kinds :
            PartHolds(kind, u, ranges[u][kind].begin, ranges[u][kind].end, Len(unitItems[u]))
  /\ nameStage.phase = "collect" /\ Collected < Len(program) =>
       /\ nameStage.at <= Len(unitItems[Collected + 1]) + 1
       /\ \A kind \in Kinds :
            PartHolds(kind, Collected + 1, RangeBegin(kind), Len(tables[kind]), nameStage.at - 1)
  /\ nameStage.phase = "collected" => Collected = Len(program)

NamesInvariant ==
  /\ NamesTypes
  /\ \A u \in 1..Parsed : WellBound(unitItems[u]) /\ ChildrenLead(unitItems[u])
  /\ TablesHold

-----------------------------------------------------------------------------
(* Following a step                                                            *)

\* A step that S is closed under.
Keeps(S, step) == \A y \in S : step[y] \in S

\* The values of the recursive definition of Followed.
Traces(f, S, step, name, N) ==
  /\ f \in [0..N -> S]
  /\ f[0] = name
  /\ \A k \in 1..N : f[k] = step[f[k - 1]]
  /\ Followed(step, name, N) = f[N]

LEMMA FollowedBy ==
  ASSUME NEW S, NEW step, Keeps(S, step), NEW name \in S, NEW N \in Nat
  PROVE  \E f : Traces(f, S, step, name, N)
<1> DEFINE taken == [sn \in S \X (1..N) |-> step[sn[1]]]
           F(h) == [k \in 0..N |-> IF k = 0 THEN name ELSE step[h[k - 1]]]
           g == CHOOSE h : h = F(h)
<1>1. taken \in [S \X (1..N) -> S]
  BY DEF Keeps
<1>2. PICK f \in [0..N -> S] : Follows(f, name, taken, N)
  <2> HIDE DEF taken
  <2> QED
    BY <1>1, Iterates
<1>3. f[0] = name
  BY <1>2 DEF Follows
<1>4. ASSUME NEW k \in 1..N PROVE f[k] = step[f[k - 1]]
  <2>1. f[k] = taken[<<f[k - 1], k>>]
    BY <1>2 DEF Follows
  <2>2. f[k - 1] \in S
    BY <1>2
  <2> QED
    BY <2>1, <2>2
<1>5. f = F(f)
  <2>1. \A k \in 0..N : f[k] = F(f)[k]
    <3> TAKE k \in 0..N
    <3>1. CASE k = 0
      BY <1>3, <3>1
    <3>2. CASE k # 0
      BY <1>4, <3>2
    <3> QED
      BY <3>1, <3>2
  <2> QED
    BY <1>2, <2>1
<1>6. g = F(g)
  <2> HIDE DEF F
  <2> QED
    BY <1>5
<1>7. Followed(step, name, N) = g[N]
  BY DEF Followed
<1> DEFINE Same == {k \in Nat : k <= N => g[k] = f[k]}
<1> HIDE DEF g
<1>8. 0 \in Same
  BY <1>3, <1>6
<1>9. ASSUME NEW k \in 0..(N - 1), k \in Same PROVE k + 1 \in Same
  <2>1. k + 1 \in 1..N /\ (k + 1) - 1 = k /\ g[k] = f[k]
    BY <1>9
  <2>2. g[k + 1] = step[g[k]]
    BY <1>6, <2>1
  <2>3. f[k + 1] = step[f[k]]
    BY <1>4, <2>1
  <2> QED
    BY <2>1, <2>2, <2>3
<1>10. N \in Same
  <2> HIDE DEF Same
  <2> QED
    BY <1>8, <1>9, UpToN
<1>11. Traces(f, S, step, name, N)
  BY <1>2, <1>3, <1>4, <1>7, <1>10 DEF Traces
<1> QED
  BY <1>11

LEMMA FollowedNone ==
  ASSUME NEW S, NEW step, Keeps(S, step), NEW name \in S
  PROVE  Followed(step, name, 0) = name
BY FollowedBy DEF Traces

LEMMA FollowedType ==
  ASSUME NEW S, NEW step, Keeps(S, step), NEW name \in S, NEW N \in Nat
  PROVE  Followed(step, name, N) \in S
<1>1. PICK f : Traces(f, S, step, name, N)
  BY FollowedBy
<1> QED
  BY <1>1 DEF Traces

LEMMA FollowedOneMore ==
  ASSUME NEW S, NEW step, Keeps(S, step), NEW name \in S, NEW N \in Nat
  PROVE  Followed(step, name, N + 1) = step[Followed(step, name, N)]
<1>1. PICK f : Traces(f, S, step, name, N)
  BY FollowedBy
<1>2. PICK g : Traces(g, S, step, name, N + 1)
  <2>1. N + 1 \in Nat
    OBVIOUS
  <2> QED
    BY <2>1, FollowedBy
<1> DEFINE Same == {k \in Nat : k <= N => g[k] = f[k]}
<1>3. 0 \in Same
  BY <1>1, <1>2 DEF Traces
<1>4. ASSUME NEW k \in 0..(N - 1), k \in Same PROVE k + 1 \in Same
  <2>1. k + 1 \in 1..N /\ k + 1 \in 1..(N + 1) /\ (k + 1) - 1 = k /\ g[k] = f[k]
    BY <1>4
  <2>2. g[k + 1] = step[g[k]]
    BY <1>2, <2>1 DEF Traces
  <2>3. f[k + 1] = step[f[k]]
    BY <1>1, <2>1 DEF Traces
  <2> QED
    BY <2>1, <2>2, <2>3
<1>5. N \in Same
  <2> HIDE DEF Same
  <2> QED
    BY <1>3, <1>4, UpToN
<1>6. g[N] = f[N]
  BY <1>5
<1>7. N + 1 \in 1..(N + 1) /\ (N + 1) - 1 = N
  OBVIOUS
<1>8. g[N + 1] = step[g[N]]
  BY <1>2, <1>7 DEF Traces
<1> QED
  BY <1>1, <1>2, <1>6, <1>8 DEF Traces

\* The first step may be taken apart as well as the last.
LEMMA FollowedFromNext ==
  ASSUME NEW S, NEW step, Keeps(S, step), NEW name \in S, NEW N \in Nat
  PROVE  Followed(step, name, N + 1) = Followed(step, step[name], N)
<1> DEFINE Same == {k \in Nat : Followed(step, name, k + 1) = Followed(step, step[name], k)}
<1>1. step[name] \in S
  BY DEF Keeps
<1>2. 0 \in Same
  <2>1. Followed(step, name, 0 + 1) = step[Followed(step, name, 0)]
    BY FollowedOneMore
  <2> QED
    BY <1>1, <2>1, FollowedNone
<1>3. ASSUME NEW k \in 0..(N - 1), k \in Same PROVE k + 1 \in Same
  <2>1. k \in Nat /\ k + 1 \in Nat
    OBVIOUS
  <2>2. Followed(step, name, (k + 1) + 1) = step[Followed(step, name, k + 1)]
    BY <2>1, FollowedOneMore
  <2>3. Followed(step, step[name], k + 1) = step[Followed(step, step[name], k)]
    BY <1>1, <2>1, FollowedOneMore
  <2> QED
    BY <1>3, <2>1, <2>2, <2>3
<1>4. N \in Same
  <2> HIDE DEF Same
  <2> QED
    BY <1>2, <1>3, UpToN
<1> QED
  BY <1>4

\* And so may the last ones.
LEMMA FollowedAfter ==
  ASSUME NEW S, NEW step, Keeps(S, step), NEW name \in S, NEW n \in Nat, NEW m \in Nat
  PROVE  Followed(step, name, n + m) = Followed(step, Followed(step, name, n), m)
<1> DEFINE next == Followed(step, name, n)
           Same == {k \in Nat : Followed(step, name, n + k) = Followed(step, next, k)}
<1>1. next \in S
  BY FollowedType
<1> HIDE DEF next
<1>2. 0 \in Same
  <2>1. Followed(step, next, 0) = next
    BY <1>1, FollowedNone
  <2> QED
    BY <2>1 DEF next
<1>3. ASSUME NEW k \in 0..(m - 1), k \in Same PROVE k + 1 \in Same
  <2>1. k \in Nat /\ n + k \in Nat /\ (n + k) + 1 = n + (k + 1) /\ k + 1 \in Nat
    OBVIOUS
  <2>2. Followed(step, name, (n + k) + 1) = step[Followed(step, name, n + k)]
    BY <2>1, FollowedOneMore
  <2>3. Followed(step, next, k + 1) = step[Followed(step, next, k)]
    BY <1>1, <2>1, FollowedOneMore
  <2> QED
    BY <1>3, <2>1, <2>2, <2>3
<1>4. m \in Same
  <2> HIDE DEF Same
  <2> QED
    BY <1>2, <1>3, UpToN
<1> QED
  BY <1>4 DEF next

\* What the step leads to itself stays.
LEMMA FollowedStays ==
  ASSUME NEW S, NEW step, Keeps(S, step), NEW name \in S, NEW n \in Nat, NEW N \in Nat, n <= N,
         step[Followed(step, name, n)] = Followed(step, name, n)
  PROVE  Followed(step, name, N) = Followed(step, name, n)
<1> DEFINE Same == {k \in Nat : n <= k => Followed(step, name, k) = Followed(step, name, n)}
<1>1. 0 \in Same
  OBVIOUS
<1>2. ASSUME NEW k \in 0..(N - 1), k \in Same PROVE k + 1 \in Same
  <2>1. k \in Nat /\ k + 1 \in Nat /\ (n <= k + 1 => n <= k \/ n = k + 1)
    OBVIOUS
  <2>2. Followed(step, name, k + 1) = step[Followed(step, name, k)]
    BY <2>1, FollowedOneMore
  <2> QED
    BY <1>2, <2>1, <2>2
<1>3. N \in Same
  <2> HIDE DEF Same
  <2> QED
    BY <1>1, <1>2, UpToN
<1> QED
  BY <1>3

\* Steps that go down reach an end.
LEMMA FollowedEnds ==
  ASSUME NEW S, NEW step, Keeps(S, step), NEW rank \in [S -> Nat],
         \A y \in S : IF rank[y] = 0 THEN step[y] = y ELSE rank[step[y]] < rank[y],
         NEW name \in S, NEW N \in Nat, rank[name] <= N
  PROVE  rank[Followed(step, name, N)] = 0
<1> DEFINE at(k) == Followed(step, name, k)
           Lower == {k \in Nat : rank[at(k)] = 0 \/ rank[at(k)] + k <= rank[name]}
<1>1. 0 \in Lower
  <2>1. at(0) = name
    BY FollowedNone
  <2> QED
    BY <2>1
<1>2. ASSUME NEW k \in 0..(N - 1), k \in Lower PROVE k + 1 \in Lower
  <2>1. k \in Nat /\ k + 1 \in Nat
    OBVIOUS
  <2>2. at(k) \in S /\ at(k + 1) = step[at(k)] /\ at(k + 1) \in S
    BY <2>1, FollowedType, FollowedOneMore
  <2> HIDE DEF at
  <2>3. rank[at(k)] \in Nat /\ rank[at(k + 1)] \in Nat /\ rank[name] \in Nat
    BY <2>2
  <2>4. CASE rank[at(k)] = 0
    <3>1. at(k + 1) = at(k)
      BY <2>2, <2>4
    <3> QED
      BY <2>1, <2>4, <3>1
  <2>5. CASE rank[at(k)] # 0
    <3>1. rank[at(k + 1)] < rank[at(k)]
      BY <2>2, <2>5
    <3>2. rank[at(k)] + k <= rank[name]
      BY <1>2, <2>5
    <3> QED
      BY <2>1, <2>3, <3>1, <3>2
  <2> QED
    BY <2>4, <2>5
<1>3. N \in Lower
  <2> HIDE DEF Lower
  <2> QED
    BY <1>1, <1>2, UpToN
<1>4. at(N) \in S
  BY FollowedType
<1> HIDE DEF at
<1>5. rank[at(N)] \in Nat /\ rank[name] \in Nat
  BY <1>4
<1>6. rank[at(N)] = 0
  BY <1>3, <1>5
<1> QED
  BY <1>6 DEF at

\* Once at its end, a way that starts one step later ends there too.
LEMMA FollowedPast ==
  ASSUME NEW S, NEW step, Keeps(S, step), NEW name \in S, NEW N \in Nat,
         step[Followed(step, name, N)] = Followed(step, name, N)
  PROVE  Followed(step, name, N) = Followed(step, step[name], N)
<1>1. Followed(step, name, N + 1) = step[Followed(step, name, N)]
  BY FollowedOneMore
<1>2. Followed(step, name, N + 1) = Followed(step, step[name], N)
  BY FollowedFromNext
<1> QED
  BY <1>1, <1>2

-----------------------------------------------------------------------------
(* The items of a unit                                                         *)

Lists == Seq(ItemsLeft)

LEMMA NoNameType ==
  /\ Identifiers \subseteq AnyName /\ NoName \in AnyName /\ NoName \notin Identifiers
  /\ \A name \in AnyName : name # NoName => name \in Identifiers
BY DEF Identifiers, AnyName

LEMMA ItemOf ==
  ASSUME NEW list \in Lists, NEW i \in 1..Len(list)
  PROVE  /\ list[i] \in ItemsLeft
         /\ list[i].binds \in AnyName /\ list[i].public \in BOOLEAN
         /\ list[i].kind \in Kinds \/ list[i].kind = "alias" \/ list[i].kind = "child"
         /\ list[i].kind # "child" => list[i].binds \in Identifiers
         /\ list[i].kind \in Kinds => list[i].children \subseteq Identifiers /\ ~ IsAlias(list[i])
         /\ IsAlias(list[i]) => list[i].target \in Identifiers
         /\ list[i].kind = "child" =>
              /\ list[i].binds = NoName /\ ~ IsAlias(list[i])
              /\ list[i].name \in Identifiers /\ list[i].parent \in Identifiers
              /\ list[i].targetParent \in Identifiers /\ list[i].target \in Identifiers
<1>1. list[i] \in ItemsLeft
  BY ElementOfSeq DEF Lists
<1>2. CASE list[i] \in [kind : Kinds, binds : Identifiers, public : BOOLEAN, children : SUBSET Identifiers]
  BY <1>1, <1>2 DEF Kinds, IsAlias, Identifiers, AnyName
<1>3. CASE list[i] \in [kind : {"alias"}, binds : Identifiers, public : BOOLEAN, target : Identifiers]
  <2>1. list[i].kind = "alias" /\ list[i].kind \notin Kinds
    BY <1>3 DEF Kinds
  <2>2. list[i].binds \in Identifiers /\ list[i].public \in BOOLEAN /\ list[i].target \in Identifiers
    BY <1>3
  <2> QED
    BY <1>1, <2>1, <2>2, NoNameType
<1>4. CASE list[i] \in [kind : {"child"}, binds : {NoName}, public : BOOLEAN, name : Identifiers,
                        parent : Identifiers, targetParent : Identifiers, target : Identifiers]
  <2>1. list[i].kind = "child" /\ list[i].kind \notin Kinds /\ list[i].binds = NoName
    BY <1>4 DEF Kinds
  <2>2. list[i].public \in BOOLEAN
    BY <1>4
  <2>3. /\ list[i].name \in Identifiers /\ list[i].parent \in Identifiers
        /\ list[i].targetParent \in Identifiers /\ list[i].target \in Identifiers
    BY <1>4
  <2>4. ~ IsAlias(list[i]) /\ list[i].kind # "alias"
    BY <2>1 DEF IsAlias
  <2>5. list[i].binds \in AnyName
    BY <2>1, NoNameType
  <2> QED
    BY <1>1, <2>1, <2>2, <2>3, <2>4, <2>5
<1> QED
  BY <1>1, <1>2, <1>3, <1>4 DEF ItemsLeft

LEMMA LenOf ==
  ASSUME NEW list \in Lists
  PROVE  Len(list) \in Nat
BY LenProperties DEF Lists

LEMMA IndexOf ==
  ASSUME NEW list \in Lists, NEW i \in 1..Len(list)
  PROVE  i \in Nat /\ 1 <= i /\ i <= Len(list)
BY LenOf

LEMMA FirstOf ==
  ASSUME NEW S, S \subseteq Nat, S # {}
  PROVE  First(S) \in S /\ \A j \in S : First(S) <= j
<1>1. PICK N : N \in S
  OBVIOUS
<1>2. \E i \in S : \A j \in S : i <= j
  BY <1>1, LeastOf
<1> QED
  BY <1>2 DEF First

\* A name that is bound is bound by one item.
LEMMA BindingOf ==
  ASSUME NEW list \in Lists, WellBound(list), NEW i \in 1..Len(list), list[i].binds # NoName
  PROVE  /\ Binds(list, list[i].binds) = {i}
         /\ Bound(list, list[i].binds)
         /\ Binding(list, list[i].binds) = list[i]
<1> DEFINE found == Binds(list, list[i].binds)
<1>1. found = {i}
  BY DEF WellBound, Binds
<1> HIDE DEF found
<1>2. First(found) = i
  <2>1. i \in Nat
    BY IndexOf
  <2>2. found \subseteq Nat /\ found # {}
    BY <1>1, <2>1
  <2> QED
    BY <1>1, <2>2, FirstOf
<1> QED
  BY <1>1, <1>2 DEF found, Bound, Binding

LEMMA BoundOf ==
  ASSUME NEW list \in Lists, NEW name, Bound(list, name)
  PROVE  \E i \in 1..Len(list) : list[i].binds = name /\ Binding(list, name) = list[i]
<1>1. Binds(list, name) \subseteq 1..Len(list) /\ Binds(list, name) # {} /\ Len(list) \in Nat
  BY LenOf DEF Bound, Binds
<1>2. First(Binds(list, name)) \in Binds(list, name)
  BY <1>1, FirstOf
<1> QED
  BY <1>2 DEF Binds, Binding

\* A name that no alias binds.
Final(list, name) == \A i \in 1..Len(list) : list[i].binds = name => ~ IsAlias(list[i])

LEMMA RootStepOf ==
  ASSUME NEW list \in Lists, WellBound(list)
  PROVE  /\ Keeps(AnyName, RootStep(list))
         /\ \A i \in 1..Len(list) : IsAlias(list[i]) => RootStep(list)[list[i].binds] = list[i].target
         /\ \A name \in AnyName : Final(list, name) => RootStep(list)[name] = name
<1>1. ASSUME NEW i \in 1..Len(list), IsAlias(list[i])
      PROVE  RootStep(list)[list[i].binds] = list[i].target /\ list[i].target \in AnyName
  <2>1. list[i].binds \in AnyName /\ list[i].binds # NoName /\ list[i].target \in AnyName
    BY <1>1, ItemOf, NoNameType DEF IsAlias
  <2>2. Bound(list, list[i].binds) /\ Binding(list, list[i].binds) = list[i]
    BY <2>1, BindingOf
  <2> QED
    BY <1>1, <2>1, <2>2 DEF RootStep
<1>2. ASSUME NEW name \in AnyName, Final(list, name) PROVE RootStep(list)[name] = name
  <2>1. ~ (Bound(list, name) /\ IsAlias(Binding(list, name)))
    BY <1>2, BoundOf DEF Final
  <2> QED
    BY <2>1 DEF RootStep
<1>3. ASSUME NEW name \in AnyName PROVE RootStep(list)[name] \in AnyName
  <2>1. CASE Final(list, name)
    BY <1>2, <2>1
  <2>2. CASE ~ Final(list, name)
    <3>1. PICK i \in 1..Len(list) : list[i].binds = name /\ IsAlias(list[i])
      BY <2>2 DEF Final
    <3> QED
      BY <1>1, <3>1
  <2> QED
    BY <2>1, <2>2
<1> QED
  BY <1>1, <1>2, <1>3 DEF Keeps

\* Once an end is reached, the name that all the steps lead to is it.
LEMMA EndReached ==
  ASSUME NEW list \in Lists, WellBound(list), NEW name \in AnyName, NEW n \in 0..Len(list),
         Final(list, Followed(RootStep(list), name, n))
  PROVE  RootName(list, name) = Followed(RootStep(list), name, n)
<1> DEFINE at(k) == Followed(RootStep(list), name, k)
<1>1. Len(list) \in Nat /\ Keeps(AnyName, RootStep(list))
  BY LenOf, RootStepOf
<1>2. n \in Nat /\ n <= Len(list)
  BY <1>1
<1>3. at(n) \in AnyName
  BY <1>1, <1>2, FollowedType
<1>4. RootStep(list)[at(n)] = at(n)
  BY <1>3, RootStepOf
<1>5. Followed(RootStep(list), name, Len(list)) = Followed(RootStep(list), name, n)
  BY <1>1, <1>2, <1>4, FollowedStays
<1> QED
  BY <1>5 DEF RootName

\* The names met on the way are met again, or lead to the end.
LEMMA WayIsLed ==
  ASSUME NEW list \in Lists, WellBound(list), NEW name \in AnyName,
         NEW S, S = {i \in 1..Len(list) : \E k \in 0..Len(list) : list[i].binds = Followed(RootStep(list), name, k)}
  PROVE  Led(list, S)
<1> DEFINE at(k) == Followed(RootStep(list), name, k)
           N == Len(list)
<1>1. N \in Nat /\ Keeps(AnyName, RootStep(list))
  BY LenOf, RootStepOf
<1>2. \A k \in Nat : at(k) \in AnyName /\ at(k + 1) = RootStep(list)[at(k)]
  BY <1>1, FollowedType, FollowedOneMore
<1>3. ASSUME NEW i \in S, IsAlias(list[i]), NEW j \in Binds(list, list[i].target) PROVE j \in S
  <2>1. PICK k \in 0..N : list[i].binds = at(k)
    OBVIOUS
  <2>2. k \in Nat /\ i \in 1..N
    BY <1>1
  <2>3. at(k + 1) = list[i].target
    BY <1>2, <1>3, <2>1, <2>2, RootStepOf
  <2>4. j \in 1..N /\ list[j].binds = at(k + 1)
    BY <2>3 DEF Binds
  <2>5. CASE k < N
    <3>1. k + 1 \in 0..N
      BY <1>1, <2>5
    <3> QED
      BY <2>4, <3>1
  <2>6. CASE k = N
    <3>1. ASSUME NEW m \in 0..N PROVE \E a \in 1..N : IsAlias(list[a]) /\ list[a].binds = at(m)
      <4>1. SUFFICES ASSUME Final(list, at(m)) PROVE FALSE
        BY DEF Final
      <4>2. at(N) = at(m)
        BY <4>1, EndReached DEF RootName
      <4> QED
        BY <1>3, <2>1, <2>2, <2>6, <4>1, <4>2 DEF Final
    <3> DEFINE f == [m \in 0..N |-> CHOOSE a \in 1..N : IsAlias(list[a]) /\ list[a].binds = at(m)]
    <3>2. \A m \in 0..N : f[m] \in 1..N /\ list[f[m]].binds = at(m)
      BY <3>1
    <3>3. f \in [0..N -> 1..N]
      BY <3>2
    <3>4. IsFiniteSet(0..N) /\ IsFiniteSet(1..N) /\ Cardinality(1..N) < Cardinality(0..N)
      <4>1. 0 \in Int /\ 1 \in Int /\ N \in Int /\ N - 0 + 1 > N - 1 + 1
        BY <1>1
      <4>2. IsFiniteSet(0..N) /\ Cardinality(0..N) = IF 0 > N THEN 0 ELSE N - 0 + 1
        BY <4>1, FS_Interval
      <4>3. IsFiniteSet(1..N) /\ Cardinality(1..N) = IF 1 > N THEN 0 ELSE N - 1 + 1
        BY <4>1, FS_Interval
      <4> QED
        BY <1>1, <4>2, <4>3
    <3> HIDE DEF f
    <3>5. \E p, q \in 0..N : p # q /\ f[p] = f[q]
      BY <3>3, <3>4, FS_PigeonHole
    <3>6. PICK p \in 0..N, q \in 0..N : p < q /\ at(p) = at(q)
      <4>1. PICK p \in 0..N, q \in 0..N : p # q /\ f[p] = f[q]
        BY <3>5
      <4>2. at(p) = at(q)
        BY <3>2, <4>1
      <4>3. p < q \/ q < p
        BY <1>1, <4>1
      <4> HIDE DEF at
      <4> QED
        BY <4>2, <4>3
    <3> DEFINE m == (N - q) + 1
    <3>7. p \in Nat /\ q \in Nat /\ m \in Nat /\ q + m = N + 1 /\ p + m \in 0..N
      BY <1>1, <3>6
    <3> HIDE DEF m
    <3>8. at(p + m) = Followed(RootStep(list), at(p), m)
      BY <1>1, <3>7, FollowedAfter
    <3>9. at(q + m) = Followed(RootStep(list), at(q), m)
      BY <1>1, <3>7, FollowedAfter
    <3>10. at(p + m) = at(k + 1)
      BY <2>6, <3>6, <3>7, <3>8, <3>9
    <3> HIDE DEF at
    <3> QED
      BY <2>4, <3>7, <3>10 DEF at
  <2> QED
    BY <1>1, <2>5, <2>6
<1> QED
  BY <1>3 DEF Led

\* The declarations that a name denotes are those of the name that it stands for.
LEMMA DenotesRoot ==
  ASSUME NEW list \in Lists, WellBound(list), NEW name \in AnyName, NEW kind \in Kinds
  PROVE  {o \in Denotes(list, name) : o.kind = kind} =
           {list[i] : i \in {j \in Binds(list, RootName(list, name)) : list[j].kind = kind}}
<1> DEFINE at(k) == Followed(RootStep(list), name, k)
           N == Len(list)
           Way == {i \in 1..N : \E k \in 0..N : list[i].binds = at(k)}
<1>1. N \in Nat /\ Keeps(AnyName, RootStep(list))
  BY LenOf, RootStepOf
<1>2. \A k \in Nat : at(k) \in AnyName /\ at(k + 1) = RootStep(list)[at(k)]
  BY <1>1, FollowedType, FollowedOneMore
<1>3. at(0) = name /\ at(N) = RootName(list, name)
  BY <1>1, FollowedNone DEF RootName
<1>4. Led(list, Way)
  BY WayIsLed
<1>5. Binds(list, name) \subseteq Way /\ Way \in SUBSET (1..N)
  <2>1. 0 \in 0..N
    BY <1>1
  <2> QED
    BY <1>3, <2>1 DEF Binds
<1>6. ASSUME NEW o \in Denotes(list, name), o.kind = kind
      PROVE  \E i \in Binds(list, RootName(list, name)) : list[i].kind = kind /\ o = list[i]
  <2>1. PICK j \in 1..N : /\ o = list[j] /\ ~ IsAlias(list[j])
                          /\ \A S \in SUBSET (1..N) : Binds(list, name) \subseteq S /\ Led(list, S) => j \in S
    BY DEF Denotes
  <2>2. j \in Way
    <3> HIDE DEF Way
    <3> QED
      BY <1>4, <1>5, <2>1
  <2>3. PICK k \in 0..N : list[j].binds = at(k)
    BY <2>2
  <2>4. list[j].binds # NoName
    BY <1>6, <2>1, ItemOf, NoNameType DEF Kinds
  <2>5. Final(list, at(k))
    BY <2>1, <2>3, <2>4 DEF Final, WellBound
  <2>6. RootName(list, name) = at(k)
    BY <2>5, EndReached
  <2> QED
    BY <1>6, <2>1, <2>3, <2>6 DEF Binds
<1>7. ASSUME NEW j \in Binds(list, RootName(list, name)), list[j].kind = kind
      PROVE  list[j] \in Denotes(list, name)
  <2>1. j \in 1..N /\ ~ IsAlias(list[j])
    BY <1>7, ItemOf DEF Binds
  <2>2. ASSUME NEW S \in SUBSET (1..N), Binds(list, name) \subseteq S, Led(list, S) PROVE j \in S
    <3> DEFINE Inside == {k \in Nat : Binds(list, at(k)) \subseteq S}
    <3>1. 0 \in Inside
      BY <1>3, <2>2
    <3>2. ASSUME NEW k \in 0..(N - 1), k \in Inside PROVE k + 1 \in Inside
      <4>1. k \in Nat /\ k + 1 \in Nat
        BY <1>1
      <4>2. at(k) \in AnyName /\ at(k + 1) = RootStep(list)[at(k)]
        BY <1>2, <4>1
      <4>3. CASE Final(list, at(k))
        <5>1. at(k + 1) = at(k)
          BY <4>2, <4>3, RootStepOf
        <5> QED
          BY <3>2, <4>1, <5>1
      <4>4. CASE ~ Final(list, at(k))
        <5>1. PICK i \in 1..N : list[i].binds = at(k) /\ IsAlias(list[i])
          BY <4>4 DEF Final
        <5>2. i \in S
          BY <3>2, <5>1 DEF Binds
        <5>3. at(k + 1) = list[i].target
          BY <4>2, <5>1, RootStepOf
        <5>4. Binds(list, at(k + 1)) \subseteq S
          BY <2>2, <5>1, <5>2, <5>3 DEF Led
        <5> QED
          BY <4>1, <5>4
      <4> QED
        BY <4>3, <4>4
    <3>3. N \in Inside
      <4> HIDE DEF Inside
      <4> QED
        BY <1>1, <3>1, <3>2, UpToN
    <3> QED
      BY <1>3, <3>3
  <2> QED
    BY <2>1, <2>2 DEF Denotes
<1> HIDE DEF at
<1> QED
  BY <1>6, <1>7

-----------------------------------------------------------------------------
(* The lookup in one unit                                                      *)

LEMMA TypesOf ==
  ASSUME NamesTypes
  PROVE  /\ Parsed \in Nat /\ Collected \in Nat /\ Len(program) \in Nat
         /\ \A u \in 1..Parsed : unitItems[u] \in Lists
         /\ \A kind \in Kinds : Len(tables[kind]) \in Nat
         /\ \A kind \in Kinds : \A i \in 1..Len(tables[kind]) : tables[kind][i] \in Entries
<1>1. Parsed \in Nat /\ Collected \in Nat /\ Len(program) \in Nat
  <2>1. program \in Seq([source : Seq(Texts), imports : Seq(Nat)])
    BY ProgramsAssumption DEF NamesTypes
  <2> QED
    BY <2>1, LenProperties DEF NamesTypes, Parsed, Collected
<1>2. ASSUME NEW u \in 1..Parsed PROVE unitItems[u] \in Lists
  BY ElementOfSeq DEF NamesTypes, Lists, Parsed
<1>3. ASSUME NEW kind \in Kinds PROVE tables[kind] \in Seq(Entries)
  BY DEF NamesTypes
<1>4. ASSUME NEW kind \in Kinds PROVE Len(tables[kind]) \in Nat
  BY <1>3, LenProperties
<1>5. ASSUME NEW kind \in Kinds, NEW i \in 1..Len(tables[kind]) PROVE tables[kind][i] \in Entries
  BY <1>3, ElementOfSeq
<1> QED
  BY <1>1, <1>2, <1>4, <1>5

\* The lookup follows aliases as the parser does.
LEMMA AliasedIsRoot ==
  ASSUME NamesTypes, NEW u \in 1..Parsed, WellBound(unitItems[u]), NEW name \in AnyName
  PROVE  /\ RootName(unitItems[u], name) \in AnyName
         /\ AliasedName(u, name) = IF Final(unitItems[u], RootName(unitItems[u], name))
                                   THEN RootName(unitItems[u], name) ELSE NoName
<1> DEFINE list == unitItems[u]
<1>1. list \in Lists
  BY TypesOf
<1>2. \A n \in AnyName : AliasesOf(u, n) = {} <=> Final(list, n)
  BY DEF AliasesOf, Final
<1>3. ASSUME NEW n \in AnyName PROVE AliasStep(u)[n] = RootStep(list)[n]
  <2>1. CASE AliasesOf(u, n) = {}
    <3>1. Final(list, n)
      BY <1>2, <2>1
    <3>2. AliasStep(u)[n] = n
      BY <2>1 DEF AliasStep
    <3> QED
      BY <1>1, <3>1, <3>2, RootStepOf
  <2>2. CASE AliasesOf(u, n) # {}
    <3>1. AliasesOf(u, n) \subseteq Nat
      BY <1>1, IndexOf DEF AliasesOf
    <3>2. First(AliasesOf(u, n)) \in AliasesOf(u, n)
      BY <2>2, <3>1, FirstOf
    <3>3. PICK i \in 1..Len(list) : i = First(AliasesOf(u, n)) /\ IsAlias(list[i]) /\ list[i].binds = n
      BY <3>2 DEF AliasesOf
    <3>4. RootStep(list)[n] = list[i].target
      BY <1>1, <3>3, RootStepOf
    <3> QED
      BY <2>2, <3>3, <3>4 DEF AliasStep
  <2> QED
    BY <2>1, <2>2
<1>4. AliasStep(u) = RootStep(list)
  <2>1. AliasStep(u) = [n \in AnyName |-> AliasStep(u)[n]]
    BY DEF AliasStep
  <2>2. RootStep(list) = [n \in AnyName |-> RootStep(list)[n]]
    BY DEF RootStep
  <2> QED
    BY <1>3, <2>1, <2>2
<1>5. Followed(AliasStep(u), name, Len(list)) = RootName(list, name)
  BY <1>4 DEF RootName
<1>6. RootName(list, name) \in AnyName
  <2>1. Len(list) \in Nat /\ Keeps(AnyName, RootStep(list))
    BY <1>1, LenOf, RootStepOf
  <2> QED
    BY <2>1, FollowedType DEF RootName
<1> QED
  BY <1>2, <1>5, <1>6 DEF AliasedName

\* The declarations of a kind that bind the name an alias leads to.
Named(list, kind, name) == {i \in 1..Len(list) : list[i].kind = kind /\ list[i].binds = name}

LEMMA NamedOf ==
  ASSUME NamesTypes, NEW u \in 1..Parsed, WellBound(unitItems[u]), NEW name \in AnyName, NEW kind \in Kinds
  PROVE  /\ {o \in Denotes(unitItems[u], name) : o.kind = kind} =
              {unitItems[u][i] : i \in Named(unitItems[u], kind, AliasedName(u, name))}
         /\ \A i, j \in Named(unitItems[u], kind, AliasedName(u, name)) : i = j
<1> DEFINE list == unitItems[u]
           root == RootName(list, name)
<1>1. list \in Lists
  BY TypesOf
<1>2. \A i \in 1..Len(list) : list[i].kind = kind => ~ IsAlias(list[i]) /\ list[i].binds # NoName
  BY <1>1, ItemOf, NoNameType DEF Kinds
<1>3. {o \in Denotes(list, name) : o.kind = kind} = {list[i] : i \in Named(list, kind, root)}
  BY <1>1, DenotesRoot DEF Named, Binds
<1>4. Named(list, kind, root) = Named(list, kind, AliasedName(u, name))
  <2>1. CASE Final(list, root)
    BY <2>1, AliasedIsRoot
  <2>2. CASE ~ Final(list, root)
    <3>1. AliasedName(u, name) = NoName
      BY <2>2, AliasedIsRoot
    <3>2. Named(list, kind, NoName) = {}
      BY <1>2 DEF Named
    <3>3. PICK a \in 1..Len(list) : list[a].binds = root /\ IsAlias(list[a])
      BY <2>2 DEF Final
    <3>4. list[a].binds # NoName
      BY <1>1, <3>3, ItemOf, NoNameType DEF IsAlias
    <3>5. Named(list, kind, root) = {}
      BY <1>2, <3>3, <3>4 DEF Named, WellBound
    <3> QED
      BY <3>1, <3>2, <3>5
  <2> QED
    BY <2>1, <2>2
<1>5. \A i, j \in Named(list, kind, AliasedName(u, name)) : i = j
  BY <1>2 DEF Named, WellBound
<1> QED
  BY <1>3, <1>4, <1>5

\* What the lookup finds in a unit is the entry of the declaration that it offers.
Finds(kind, u, name) ==
  LET at == FindInUnit(kind, u, name)
  IN  \/ at = 0 /\ Offers(kind, u, name) = {}
      \/ /\ at \in 1..Len(tables[kind])
         /\ \E o : /\ Offers(kind, u, name) = {<<u, o>>} /\ o.kind = kind
                   /\ tables[kind][at] = Entry(u, o)

LEMMA UnitFinds ==
  ASSUME NamesInvariant, nameStage.phase = "collected",
         NEW kind \in Kinds, NEW u \in 1..Len(program), NEW name \in AnyName
  PROVE  Finds(kind, u, name)
<1> DEFINE list  == unitItems[u]
           begin == ranges[u][kind].begin
           end   == ranges[u][kind].end
           wanted == AliasedName(u, name)
           found == {i \in begin + 1..end : tables[kind][i].name = wanted}
<1>1. NamesTypes /\ u \in 1..Parsed /\ u \in 1..Collected /\ WellBound(list)
  BY DEF NamesInvariant, TablesHold
<1>2. list \in Lists
  BY <1>1, TypesOf
<1>3. PartHolds(kind, u, begin, end, Len(list))
  BY <1>1 DEF NamesInvariant, TablesHold
<1>4. begin \in Nat /\ end \in Nat
  <2>1. ranges[u] \in [Kinds -> [begin : Nat, end : Nat]]
    BY <1>1, ElementOfSeq DEF NamesTypes, Collected
  <2>2. ranges[u][kind] \in [begin : Nat, end : Nat]
    BY <2>1
  <2> QED
    BY <2>2
<1>5. FindInUnit(kind, u, name) = IF found = {} THEN 0 ELSE First(found)
  BY DEF FindInUnit
<1>6. /\ {o \in Denotes(list, name) : o.kind = kind} = {list[i] : i \in Named(list, kind, wanted)}
      /\ \A i, j \in Named(list, kind, wanted) : i = j
  BY <1>1, NamedOf
<1> HIDE DEF wanted, found, begin, end
<1>7. Offers(kind, u, name) = {<<u, list[i]>> : i \in Named(list, kind, wanted)}
  <2>1. Offers(kind, u, name) = {<<u, item>> : item \in {o \in Denotes(list, name) : o.kind = kind}}
    BY DEF Offers
  <2> QED
    BY <1>6, <2>1
<1>8. CASE found = {}
  <2>1. Named(list, kind, wanted) = {}
    <3>1. SUFFICES ASSUME NEW p \in Named(list, kind, wanted) PROVE FALSE
      OBVIOUS
    <3>2. p \in 1..Len(list) /\ list[p].kind = kind /\ list[p].binds = wanted
      BY DEF Named
    <3>3. PICK i \in (begin + 1)..end : tables[kind][i] = Entry(u, list[p])
      BY <1>3, <3>2 DEF PartHolds
    <3>4. tables[kind][i].name = wanted
      BY <3>2, <3>3 DEF Entry
    <3> QED
      BY <1>8, <3>3, <3>4 DEF found
  <2>2. Offers(kind, u, name) = {}
    BY <1>7, <2>1
  <2> QED
    BY <1>5, <1>8, <2>2 DEF Finds
<1>9. CASE found # {}
  <2>1. found \subseteq Nat
    BY <1>4 DEF found
  <2>2. First(found) \in found
    BY <1>9, <2>1, FirstOf
  <2>3. PICK i \in (begin + 1)..end : i = First(found) /\ tables[kind][i].name = wanted
    BY <2>2 DEF found
  <2>4. PICK p \in 1..Len(list) : list[p].kind = kind /\ tables[kind][i] = Entry(u, list[p])
    BY <1>3 DEF PartHolds
  <2>5. p \in Named(list, kind, wanted)
    BY <2>3, <2>4 DEF Entry, Named
  <2>6. Named(list, kind, wanted) = {p}
    BY <1>6, <2>5
  <2>7. Offers(kind, u, name) = {<<u, list[p]>>}
    BY <1>7, <2>6
  <2>8. i \in 1..Len(tables[kind])
    <3>1. end <= Len(tables[kind]) /\ Len(tables[kind]) \in Nat
      BY <1>1, <1>3, TypesOf DEF PartHolds
    <3> QED
      BY <1>4, <3>1
  <2>9. FindInUnit(kind, u, name) = i
    BY <1>5, <1>9, <2>3
  <2> QED
    BY <2>4, <2>7, <2>8, <2>9 DEF Finds
<1> QED
  BY <1>8, <1>9

-----------------------------------------------------------------------------
(* The lookup through the imports                                              *)

Answers == [match : Nat, private : BOOLEAN, ambiguous : BOOLEAN]

\* What the imports tried so far have answered; E holds what each of them finds.
Public(kind, E, a) == E[a] # 0 /\ tables[kind][E[a]].public
Hidden(kind, E, a) == E[a] # 0 /\ ~ tables[kind][E[a]].public
Sums(kind, E, n, m) ==
  IF m.ambiguous THEN \E a, b \in 1..n : Public(kind, E, a) /\ Public(kind, E, b) /\ E[a] # E[b]
  ELSE /\ \A a \in 1..n : Public(kind, E, a) => E[a] = m.match
       /\ m.match # 0 => \E a \in 1..n : Public(kind, E, a) /\ E[a] = m.match
       /\ m.private <=> \E a \in 1..n : Hidden(kind, E, a)

LEMMA MetType ==
  ASSUME NEW kind, NEW m \in Answers, NEW i \in Nat
  PROVE  Met(kind, m, i) \in Answers
BY DEF Met, Matched, Answers

LEMMA SumsOneMore ==
  ASSUME NEW kind, NEW K \in Nat, NEW E \in [1..K -> Nat], NEW n \in 0..(K - 1), NEW m \in Answers,
         Sums(kind, E, n, m)
  PROVE  Sums(kind, E, n + 1, Met(kind, m, E[n + 1]))
<1>1. n \in Nat /\ n + 1 \in 1..K /\ E[n + 1] \in Nat
  OBVIOUS
<1>2. \A a \in 1..(n + 1) : a \in 1..n \/ a = n + 1
  BY <1>1
<1>3. \A a \in 1..n : a \in 1..(n + 1)
  BY <1>1
<1>4. n + 1 \in 1..(n + 1)
  BY <1>1
<1> DEFINE i == E[n + 1]
<1>5. CASE m.ambiguous
  <2>1. Met(kind, m, i) = m
    BY <1>5 DEF Met
  <2> QED
    BY <1>3, <1>5, <2>1 DEF Sums
<1>6. CASE ~ m.ambiguous /\ i = 0
  <2>1. Met(kind, m, i) = m
    BY <1>6 DEF Met
  <2>2. ~ Public(kind, E, n + 1) /\ ~ Hidden(kind, E, n + 1)
    BY <1>6 DEF Public, Hidden
  <2>3. \A a \in 1..(n + 1) : Public(kind, E, a) => E[a] = m.match
    BY <1>2, <1>6, <2>2 DEF Sums
  <2>4. m.match # 0 => \E a \in 1..(n + 1) : Public(kind, E, a) /\ E[a] = m.match
    BY <1>3, <1>6 DEF Sums
  <2>5. m.private <=> \E a \in 1..(n + 1) : Hidden(kind, E, a)
    BY <1>2, <1>3, <1>6, <2>2 DEF Sums
  <2> QED
    BY <1>6, <2>1, <2>3, <2>4, <2>5 DEF Sums
<1>7. CASE ~ m.ambiguous /\ i # 0 /\ ~ tables[kind][i].public
  <2> DEFINE met == Matched(m.match, TRUE, FALSE)
  <2>1. Met(kind, m, i) = met
    BY <1>7 DEF Met
  <2>2. ~ Public(kind, E, n + 1) /\ Hidden(kind, E, n + 1)
    BY <1>7 DEF Public, Hidden
  <2>3. met.match = m.match /\ met.private = TRUE /\ met.ambiguous = FALSE
    BY DEF Matched
  <2> HIDE DEF met
  <2>4. \A a \in 1..(n + 1) : Public(kind, E, a) => E[a] = met.match
    BY <1>2, <1>7, <2>2, <2>3 DEF Sums
  <2>5. met.match # 0 => \E a \in 1..(n + 1) : Public(kind, E, a) /\ E[a] = met.match
    BY <1>3, <1>7, <2>3 DEF Sums
  <2>6. met.private <=> \E a \in 1..(n + 1) : Hidden(kind, E, a)
    BY <1>4, <2>2, <2>3
  <2> QED
    BY <2>1, <2>3, <2>4, <2>5, <2>6 DEF Sums
<1>8. CASE ~ m.ambiguous /\ i # 0 /\ tables[kind][i].public
  <2> DEFINE met == Matched(i, m.private, m.match \notin {0, i})
  <2>1. Met(kind, m, i) = met
    BY <1>8 DEF Met
  <2>2. Public(kind, E, n + 1) /\ ~ Hidden(kind, E, n + 1)
    BY <1>8 DEF Public, Hidden
  <2>3. met.match = i /\ met.private = m.private /\ met.ambiguous = (m.match \notin {0, i})
    BY DEF Matched
  <2> HIDE DEF met
  <2>4. CASE m.match \notin {0, i}
    <3>1. PICK a \in 1..n : Public(kind, E, a) /\ E[a] = m.match
      BY <1>8, <2>4 DEF Sums
    <3>2. met.ambiguous
      BY <2>3, <2>4
    <3>3. \E p, q \in 1..(n + 1) : Public(kind, E, p) /\ Public(kind, E, q) /\ E[p] # E[q]
      BY <1>3, <1>4, <2>2, <2>4, <3>1
    <3> QED
      BY <2>1, <3>2, <3>3 DEF Sums
  <2>5. CASE m.match \in {0, i}
    <3>1. \A a \in 1..n : Public(kind, E, a) => E[a] = i
      BY <1>8, <2>5 DEF Sums, Public
    <3>2. \A a \in 1..(n + 1) : Public(kind, E, a) => E[a] = met.match
      BY <1>2, <2>3, <3>1
    <3>3. \E a \in 1..(n + 1) : Public(kind, E, a) /\ E[a] = met.match
      BY <1>4, <2>2, <2>3
    <3>4. ~ met.ambiguous
      BY <2>3, <2>5
    <3>5. m.private <=> \E a \in 1..(n + 1) : Hidden(kind, E, a)
      BY <1>2, <1>3, <1>8, <2>2 DEF Sums
    <3>6. met.private <=> \E a \in 1..(n + 1) : Hidden(kind, E, a)
      BY <2>3, <3>5
    <3> QED
      BY <2>1, <3>2, <3>3, <3>4, <3>6 DEF Sums
  <2> QED
    BY <2>4, <2>5
<1> QED
  BY <1>5, <1>6, <1>7, <1>8

Found(kind, u, name) == [n \in 1..Len(program[u].imports) |-> FindInUnit(kind, program[u].imports[n], name)]

LEMMA ImportsOf ==
  ASSUME NamesTypes, NEW u \in 1..Len(program)
  PROVE  /\ Len(program[u].imports) \in Nat
         /\ \A n \in 1..Len(program[u].imports) : program[u].imports[n] \in 1..Len(program)
<1>1. program \in Seq([source : Seq(Texts), imports : Seq(Nat)])
  BY ProgramsAssumption DEF NamesTypes
<1>2. program[u] \in [source : Seq(Texts), imports : Seq(Nat)]
  BY <1>1, ElementOfSeq
<1>3. program[u].imports \in Seq(Nat)
  BY <1>2
<1>4. Len(program[u].imports) \in Nat
  BY <1>3, LenProperties
<1> QED
  BY <1>4, ProgramsAssumption DEF NamesTypes

\* FromImports answers from the sum of what the imports find.
LEMMA FromImportsSums ==
  ASSUME NamesInvariant, nameStage.phase = "collected",
         NEW kind \in Kinds, NEW u \in 1..Len(program), NEW name \in AnyName
  PROVE  \E m \in Answers :
           /\ Sums(kind, Found(kind, u, name), Len(program[u].imports), m)
           /\ FromImports(kind, u, name) =
                IF m.ambiguous THEN [status |-> "ambiguous", entry |-> 0]
                ELSE IF m.match # 0 THEN [status |-> "found", entry |-> m.match]
                ELSE Missing(m.private)
<1> DEFINE K == Len(program[u].imports)
           E == Found(kind, u, name)
           start == Matched(0, FALSE, FALSE)
           step == [mn \in Answers \X (1..K) |-> Met(kind, mn[1], E[mn[2]])]
           F(h) == [n \in 0..K |->
             IF n = 0 THEN start ELSE Met(kind, h[n - 1], FindInUnit(kind, program[u].imports[n], name))]
           g == CHOOSE h : h = F(h)
           Answer(m) == IF m.ambiguous THEN [status |-> "ambiguous", entry |-> 0]
                        ELSE IF m.match # 0 THEN [status |-> "found", entry |-> m.match]
                        ELSE Missing(m.private)
<1>1. K \in Nat /\ \A n \in 1..K : program[u].imports[n] \in 1..Len(program)
  BY ImportsOf DEF NamesInvariant
<1>2. E \in [1..K -> Nat]
  <2>1. ASSUME NEW n \in 1..K PROVE FindInUnit(kind, program[u].imports[n], name) \in Nat
    <3>1. Finds(kind, program[u].imports[n], name)
      BY <1>1, UnitFinds
    <3>2. Len(tables[kind]) \in Nat
      BY TypesOf DEF NamesInvariant
    <3> QED
      BY <3>1, <3>2 DEF Finds
  <2> QED
    BY <2>1 DEF Found
<1>3. \A n \in 1..K : E[n] = FindInUnit(kind, program[u].imports[n], name)
  BY DEF Found
<1> HIDE DEF E
<1>4. start \in Answers
  BY DEF Matched, Answers
<1>5. step \in [Answers \X (1..K) -> Answers]
  BY <1>2, MetType
<1>6. PICK f \in [0..K -> Answers] : Follows(f, start, step, K)
  <2> HIDE DEF step, start
  <2> QED
    BY <1>1, <1>4, <1>5, Iterates
<1>7. f[0] = start
  BY <1>6 DEF Follows
<1>8. ASSUME NEW n \in 1..K PROVE f[n] = Met(kind, f[n - 1], E[n])
  <2>1. f[n] = step[<<f[n - 1], n>>]
    BY <1>6 DEF Follows
  <2>2. f[n - 1] \in Answers
    BY <1>1, <1>6
  <2> QED
    BY <2>1, <2>2
<1>9. f = F(f)
  <2>1. \A n \in 0..K : f[n] = F(f)[n]
    <3> TAKE n \in 0..K
    <3>1. CASE n = 0
      BY <1>7, <3>1
    <3>2. CASE n # 0
      BY <1>3, <1>8, <3>2
    <3> QED
      BY <3>1, <3>2
  <2> QED
    BY <1>6, <2>1
<1>10. g = F(g)
  <2> HIDE DEF F
  <2> QED
    BY <1>9
<1>11. FromImports(kind, u, name) = Answer(g[K])
  BY DEF FromImports
<1> HIDE DEF g
<1> DEFINE Same == {n \in Nat : n <= K => g[n] = f[n] /\ Sums(kind, E, n, f[n])}
<1>12. 0 \in Same
  <2>1. g[0] = f[0]
    <3>1. 0 \in 0..K
      BY <1>1
    <3>2. F(g)[0] = start
      <4> HIDE DEF start
      <4> QED
        BY <3>1
    <3> HIDE DEF F, start
    <3> QED
      BY <1>7, <1>10, <3>2
  <2>2. start.match = 0 /\ start.private = FALSE /\ start.ambiguous = FALSE
    BY DEF Matched
  <2>3. Sums(kind, E, 0, start)
    <3> HIDE DEF start
    <3> QED
      BY <2>2 DEF Sums
  <2> QED
    BY <1>7, <2>1, <2>3
<1>13. ASSUME NEW n \in 0..(K - 1), n \in Same PROVE n + 1 \in Same
  <2>1. n + 1 \in 1..K /\ (n + 1) - 1 = n /\ n \in 0..K /\ n + 1 \in 0..K /\ n <= K /\ n + 1 # 0
    BY <1>1
  <2>2. g[n] = f[n] /\ Sums(kind, E, n, f[n])
    BY <1>13, <2>1
  <2>3. g[n + 1] = Met(kind, g[n], E[n + 1])
    BY <1>3, <1>10, <2>1
  <2>4. f[n + 1] = Met(kind, f[n], E[n + 1])
    BY <1>8, <2>1
  <2>5. f[n] \in Answers
    BY <1>6, <2>1
  <2>6. Sums(kind, E, n + 1, f[n + 1])
    BY <1>1, <1>2, <2>2, <2>4, <2>5, SumsOneMore
  <2> QED
    BY <2>1, <2>2, <2>3, <2>4, <2>6
<1>14. K \in Same
  <2> HIDE DEF Same
  <2> QED
    BY <1>1, <1>12, <1>13, UpToN
<1>15. f[K] \in Answers /\ Sums(kind, E, K, f[K]) /\ FromImports(kind, u, name) = Answer(f[K])
  BY <1>1, <1>6, <1>11, <1>14
<1> QED
  BY <1>15 DEF E

\* What one import offers.
Offered(kind, u, name, n, o) ==
  LET v  == program[u].imports[n]
      at == Found(kind, u, name)[n]
  IN  /\ Offers(kind, v, name) = {<<v, o>>}
      /\ at # 0 /\ tables[kind][at].unit = v /\ tables[kind][at].name = o.binds
      /\ tables[kind][at].public = o.public

LEMMA ImportOffers ==
  ASSUME NamesInvariant, nameStage.phase = "collected",
         NEW kind \in Kinds, NEW u \in 1..Len(program), NEW name \in AnyName,
         NEW n \in 1..Len(program[u].imports)
  PROVE  \/ Found(kind, u, name)[n] = 0 /\ Offers(kind, program[u].imports[n], name) = {}
         \/ \E o : Offered(kind, u, name, n, o)
<1> DEFINE v  == program[u].imports[n]
           at == FindInUnit(kind, v, name)
<1>1. Found(kind, u, name)[n] = at
  BY DEF Found
<1>2. v \in 1..Len(program)
  BY ImportsOf DEF NamesInvariant
<1>3. Finds(kind, v, name)
  BY <1>2, UnitFinds
<1> HIDE DEF v
<1>4. CASE at = 0 /\ Offers(kind, v, name) = {}
  BY <1>1, <1>4 DEF v
<1>5. CASE ~ (at = 0 /\ Offers(kind, v, name) = {})
  <2>1. PICK o : at \in 1..Len(tables[kind]) /\ Offers(kind, v, name) = {<<v, o>>} /\ tables[kind][at] = Entry(v, o)
    BY <1>3, <1>5 DEF Finds
  <2>2. at # 0
    BY <2>1
  <2>3. tables[kind][at].unit = v /\ tables[kind][at].name = o.binds /\ tables[kind][at].public = o.public
    BY <2>1 DEF Entry
  <2>4. Offered(kind, u, name, n, o)
    BY <1>1, <2>1, <2>2, <2>3 DEF Offered, v
  <2> QED
    BY <2>4
<1> QED
  BY <1>4, <1>5

\* What the rules say of one name, and what the lookup answers.
LEMMA ScopeOfName ==
  ASSUME NamesInvariant, nameStage.phase = "collected",
         NEW kind \in Kinds, NEW u \in 1..Len(program), NEW name \in AnyName
  PROVE  LET answer == ResolveName(kind, u, name)
             own    == Offers(kind, u, name)
             public == PublicOnes(Imported(kind, u, name))
             found  == <<tables[kind][answer.entry].unit, tables[kind][answer.entry].name>>
         IN  IF own # {} THEN answer.status = "found" /\ \E o \in own : found = <<u, o[2].binds>>
             ELSE IF public = {} THEN
               answer.status = IF Imported(kind, u, name) = {} THEN "missing" ELSE "private"
             ELSE IF \A o, p \in public : o = p THEN
               answer.status = "found" /\ \E o \in public : found = <<o[1], o[2].binds>>
             ELSE answer.status = "ambiguous"
<1> DEFINE answer   == ResolveName(kind, u, name)
           own      == Offers(kind, u, name)
           imported == Imported(kind, u, name)
           public   == PublicOnes(imported)
           found    == <<tables[kind][answer.entry].unit, tables[kind][answer.entry].name>>
           imports  == program[u].imports
           K        == Len(imports)
           E        == Found(kind, u, name)
           at       == FindInUnit(kind, u, name)
<1>1. Finds(kind, u, name)
  BY UnitFinds
<1>2. CASE own # {}
  <2>1. PICK o : at \in 1..Len(tables[kind]) /\ own = {<<u, o>>} /\ tables[kind][at] = Entry(u, o)
    BY <1>1, <1>2 DEF Finds
  <2>2. at # 0 /\ answer = [status |-> "found", entry |-> at]
    <3>1. at # 0
      BY <2>1
    <3> QED
      BY <3>1 DEF ResolveName
  <2>3. answer.status = "found" /\ answer.entry = at
    BY <2>2
  <2>4. tables[kind][at].unit = u /\ tables[kind][at].name = o.binds
    BY <2>1 DEF Entry
  <2>5. found = <<u, o.binds>>
    BY <2>3, <2>4
  <2>6. \E p \in own : found = <<u, p[2].binds>>
    BY <2>1, <2>5
  <2> HIDE DEF answer, own, found, public, imported
  <2>7. IF own # {} THEN answer.status = "found" /\ \E p \in own : found = <<u, p[2].binds>>
        ELSE IF public = {} THEN answer.status = IF imported = {} THEN "missing" ELSE "private"
        ELSE IF \A o1, p \in public : o1 = p THEN
          answer.status = "found" /\ \E o1 \in public : found = <<o1[1], o1[2].binds>>
        ELSE answer.status = "ambiguous"
    BY <1>2, <2>3, <2>6
  <2> QED
    BY <2>7 DEF answer, own, found, public, imported
<1>3. CASE own = {}
  <2>1. at = 0
    BY <1>1, <1>3 DEF Finds
  <2>2. answer = FromImports(kind, u, name)
    BY <2>1 DEF ResolveName
  <2>3. PICK m \in Answers : /\ Sums(kind, E, K, m)
                             /\ FromImports(kind, u, name) =
                                  IF m.ambiguous THEN [status |-> "ambiguous", entry |-> 0]
                                  ELSE IF m.match # 0 THEN [status |-> "found", entry |-> m.match]
                                  ELSE Missing(m.private)
    BY FromImportsSums
  <2>4. \A n \in 1..K : \/ E[n] = 0 /\ Offers(kind, imports[n], name) = {}
                        \/ \E o : Offered(kind, u, name, n, o)
    BY ImportOffers
  <2>5. imported = UNION {Offers(kind, imports[n], name) : n \in 1..K}
    BY DEF Imported
  <2>6. ASSUME NEW o \in imported PROVE \E n \in 1..K : o[1] = imports[n] /\ o = <<imports[n], o[2]>> /\ Offered(kind, u, name, n, o[2])
    <3>1. PICK n \in 1..K : o \in Offers(kind, imports[n], name)
      BY <2>5
    <3>2. PICK p : Offered(kind, u, name, n, p)
      BY <2>4, <3>1
    <3>3. o = <<imports[n], p>>
      BY <3>1, <3>2 DEF Offered
    <3>4. o[1] = imports[n] /\ o[2] = p
      BY <3>3
    <3> QED
      BY <3>2, <3>3, <3>4
  <2>7. ASSUME NEW n \in 1..K, NEW o, Offered(kind, u, name, n, o)
        PROVE  <<imports[n], o>> \in imported
    <3>1. <<imports[n], o>> \in Offers(kind, imports[n], name)
      BY <2>7 DEF Offered
    <3> QED
      BY <2>5, <3>1
  <2>8. ASSUME NEW n \in 1..K, E[n] # 0 PROVE \E o : Offered(kind, u, name, n, o)
    BY <2>4, <2>8
  <2>9. ASSUME NEW n \in 1..K, Public(kind, E, n)
        PROVE  \E o : Offered(kind, u, name, n, o) /\ <<imports[n], o>> \in public
    <3>1. PICK o : Offered(kind, u, name, n, o)
      BY <2>8, <2>9 DEF Public
    <3>2. <<imports[n], o>> \in imported /\ o.public
      BY <2>7, <2>9, <3>1 DEF Offered, Public
    <3> QED
      BY <3>1, <3>2 DEF PublicOnes
  <2>10. ASSUME NEW o \in public
         PROVE  \E n \in 1..K : /\ o = <<imports[n], o[2]>> /\ Offered(kind, u, name, n, o[2])
                                /\ Public(kind, E, n)
    <3>1. o \in imported /\ o[2].public
      BY DEF PublicOnes
    <3>2. PICK n \in 1..K : o = <<imports[n], o[2]>> /\ Offered(kind, u, name, n, o[2])
      BY <2>6, <3>1
    <3>3. Public(kind, E, n)
      BY <3>1, <3>2 DEF Offered, Public
    <3> QED
      BY <3>2, <3>3
  <2> HIDE DEF E, K, imports, imported, public, answer, own
  <2>11. CASE public = {}
    <3>1. \A n \in 1..K : ~ Public(kind, E, n)
      BY <2>9, <2>11
    <3>2. ~ m.ambiguous
      BY <2>3, <3>1 DEF Sums
    <3>3. m.match = 0
      BY <2>3, <3>1, <3>2 DEF Sums
    <3>4. answer = Missing(m.private)
      BY <2>2, <2>3, <3>2, <3>3
    <3>5. answer.status = IF m.private THEN "private" ELSE "missing"
      BY <3>4 DEF Missing
    <3>6. m.private <=> \E n \in 1..K : Hidden(kind, E, n)
      BY <2>3, <3>2 DEF Sums
    <3>7. ASSUME m.private PROVE imported # {}
      <4>1. PICK n \in 1..K : Hidden(kind, E, n)
        BY <3>6, <3>7
      <4>2. PICK o : Offered(kind, u, name, n, o)
        BY <2>8, <4>1 DEF Hidden
      <4> QED
        BY <2>7, <4>2
    <3>8. ASSUME NEW o \in imported PROVE m.private
      <4>1. PICK n \in 1..K : Offered(kind, u, name, n, o[2])
        BY <2>6
      <4>2. E[n] # 0
        BY <4>1 DEF Offered, E
      <4>3. Hidden(kind, E, n)
        BY <3>1, <4>2 DEF Public, Hidden
      <4> QED
        BY <3>6, <4>3
    <3>9. answer.status = IF imported = {} THEN "missing" ELSE "private"
      BY <3>5, <3>7, <3>8
    <3> QED
      BY <1>3, <2>11, <3>9 DEF answer, imported, public, own
  <2>12. CASE public # {} /\ \A o, p \in public : o = p
    <3>1. ASSUME NEW a \in 1..K, NEW b \in 1..K, Public(kind, E, a), Public(kind, E, b) PROVE E[a] = E[b]
      <4>1. PICK o : <<imports[a], o>> \in public
        BY <2>9, <3>1
      <4>2. PICK p : <<imports[b], p>> \in public
        BY <2>9, <3>1
      <4>3. <<imports[a], o>> = <<imports[b], p>>
        BY <2>12, <4>1, <4>2
      <4>4. imports[a] = imports[b]
        BY <4>3
      <4> QED
        BY <4>4 DEF E, K, imports, Found
    <3>2. ~ m.ambiguous
      BY <2>3, <3>1 DEF Sums
    <3>3. PICK o \in public : TRUE
      BY <2>12
    <3>4. PICK n \in 1..K : o = <<imports[n], o[2]>> /\ Offered(kind, u, name, n, o[2]) /\ Public(kind, E, n)
      BY <2>10
    <3>5. E[n] = m.match
      BY <2>3, <3>2, <3>4 DEF Sums
    <3>6. m.match # 0
      BY <3>4, <3>5 DEF Public
    <3>7. answer = [status |-> "found", entry |-> m.match]
      BY <2>2, <2>3, <3>2, <3>6
    <3>8. answer.status = "found" /\ answer.entry = E[n]
      BY <3>5, <3>7
    <3>9. tables[kind][E[n]].unit = imports[n] /\ tables[kind][E[n]].name = o[2].binds
      BY <3>4 DEF Offered, E, imports
    <3>10. o[1] = imports[n]
      BY <3>4
    <3>11. found = <<o[1], o[2].binds>>
      BY <3>8, <3>9, <3>10
    <3> HIDE DEF found
    <3>12. answer.status = "found" /\ \E q \in public : found = <<q[1], q[2].binds>>
      BY <3>8, <3>11
    <3> QED
      BY <1>3, <2>12, <3>12 DEF answer, imported, public, own, found
  <2>13. CASE public # {} /\ ~ \A o, p \in public : o = p
    <3>1. PICK o \in public, p \in public : o # p
      BY <2>13
    <3>2. PICK a \in 1..K : o = <<imports[a], o[2]>> /\ Offered(kind, u, name, a, o[2]) /\ Public(kind, E, a)
      BY <2>10
    <3>3. PICK b \in 1..K : p = <<imports[b], p[2]>> /\ Offered(kind, u, name, b, p[2]) /\ Public(kind, E, b)
      BY <2>10
    <3>4. imports[a] # imports[b]
      <4>1. SUFFICES ASSUME imports[a] = imports[b] PROVE FALSE
        OBVIOUS
      <4>2. Offers(kind, imports[a], name) = {o} /\ Offers(kind, imports[b], name) = {p}
        BY <3>2, <3>3 DEF Offered, imports
      <4> QED
        BY <3>1, <4>1, <4>2
    <3>5. tables[kind][E[a]].unit = imports[a] /\ tables[kind][E[b]].unit = imports[b]
      BY <3>2, <3>3 DEF Offered, E, imports
    <3>6. E[a] # E[b]
      BY <3>4, <3>5
    <3>7. m.ambiguous
      BY <2>3, <3>2, <3>3, <3>6 DEF Sums
    <3>8. answer = [status |-> "ambiguous", entry |-> 0]
      BY <2>2, <2>3, <3>7
    <3>9. answer.status = "ambiguous"
      BY <3>8
    <3> QED
      BY <1>3, <2>13, <3>9 DEF answer, imported, public, own
  <2> QED
    BY <2>11, <2>12, <2>13
<1> QED
  BY <1>2, <1>3

LEMMA InvariantMatchesScope ==
  ASSUME NamesInvariant
  PROVE  LookupMatchesScope
BY ScopeOfName, ProgramsAssumption DEF LookupMatchesScope

-----------------------------------------------------------------------------
(* Where aliases lead                                                          *)

PublicNames(list) ==
  {name \in Identifiers : \E i \in 1..Len(list) : list[i].binds = name /\ list[i].public}

\* From a public item, through aliases that each name an earlier public item, to a
\* declaration.
LEMMA PublicLeads ==
  ASSUME NEW list \in Lists, WellBound(list), NEW name \in PublicNames(list),
         NEW n \in Nat, n >= Len(list) - 1
  PROVE  LET end == Followed(RootStep(list), name, n) IN end \in PublicNames(list) /\ Final(list, end)
<1> DEFINE S == PublicNames(list)
           rank == [y \in S |-> IF IsAlias(Binding(list, y)) THEN First(Binds(list, y)) - 1 ELSE 0]
           end == Followed(RootStep(list), name, n)
<1>1. Len(list) \in Nat /\ S \subseteq AnyName
  BY LenOf, NoNameType DEF PublicNames
<1>2. ASSUME NEW y \in S
      PROVE  \E i \in 1..Len(list) : /\ list[i].binds = y /\ list[i].public /\ Binding(list, y) = list[i]
                                     /\ First(Binds(list, y)) = i
                                     /\ IsAlias(list[i]) => /\ list[i].target \in S /\ i >= 2
                                                            /\ RootStep(list)[y] = list[i].target
                                                            /\ First(Binds(list, list[i].target)) < i
                                     /\ ~ IsAlias(list[i]) => Final(list, y) /\ RootStep(list)[y] = y
  <2>1. PICK i \in 1..Len(list) : list[i].binds = y /\ list[i].public
    BY DEF PublicNames
  <2>2. y # NoName /\ y \in AnyName
    BY NoNameType DEF PublicNames
  <2>3. Binds(list, y) = {i} /\ Binding(list, y) = list[i]
    BY <2>1, <2>2, BindingOf
  <2>4. First(Binds(list, y)) = i
    <3>1. i \in Nat
      BY IndexOf
    <3>2. {i} \subseteq Nat /\ {i} # {}
      BY <3>1
    <3> QED
      BY <2>3, <3>2, FirstOf
  <2>5. ASSUME IsAlias(list[i])
        PROVE  /\ list[i].target \in S /\ i >= 2 /\ RootStep(list)[y] = list[i].target
               /\ First(Binds(list, list[i].target)) < i
    <3>1. PICK j \in 1..(i - 1) : list[j].binds = list[i].target /\ list[j].public
      BY <2>1, <2>5 DEF WellBound
    <3>2. i \in Nat /\ i <= Len(list)
      BY IndexOf
    <3>3. j \in 1..Len(list) /\ j < i /\ i >= 2 /\ j \in Nat
      BY <1>1, <3>2
    <3>4. list[i].target \in Identifiers
      BY <2>5, ItemOf
    <3>5. list[i].target \in S
      BY <3>1, <3>3, <3>4 DEF PublicNames
    <3>6. Binds(list, list[j].binds) = {j}
      BY <3>1, <3>3, <3>4, BindingOf, NoNameType
    <3>7. First(Binds(list, list[j].binds)) = j
      <4>1. {j} \subseteq Nat /\ {j} # {}
        BY <3>3
      <4> QED
        BY <3>6, <4>1, FirstOf
    <3>8. RootStep(list)[y] = list[i].target
      BY <2>1, <2>5, RootStepOf
    <3> QED
      BY <3>1, <3>3, <3>5, <3>7, <3>8
  <2>6. ASSUME ~ IsAlias(list[i]) PROVE Final(list, y) /\ RootStep(list)[y] = y
    <3>1. Final(list, y)
      BY <2>1, <2>2, <2>6 DEF Final, WellBound
    <3> QED
      BY <2>2, <3>1, RootStepOf
  <2> QED
    BY <2>1, <2>3, <2>4, <2>5, <2>6
<1>3. ASSUME NEW y \in S
      PROVE  /\ rank[y] \in Nat /\ rank[y] <= Len(list) - 1 /\ RootStep(list)[y] \in S
             /\ IF rank[y] = 0 THEN RootStep(list)[y] = y /\ Final(list, y)
                ELSE rank[RootStep(list)[y]] < rank[y]
  <2>1. PICK i \in 1..Len(list) : /\ list[i].binds = y /\ list[i].public /\ Binding(list, y) = list[i]
                                  /\ First(Binds(list, y)) = i
                                  /\ IsAlias(list[i]) => /\ list[i].target \in S /\ i >= 2
                                                         /\ RootStep(list)[y] = list[i].target
                                                         /\ First(Binds(list, list[i].target)) < i
                                  /\ ~ IsAlias(list[i]) => Final(list, y) /\ RootStep(list)[y] = y
    BY <1>2
  <2>2. i \in Nat /\ 1 <= i /\ i <= Len(list)
    BY IndexOf
  <2>3. CASE IsAlias(list[i])
    <3> DEFINE t == list[i].target
    <3>1. t \in S /\ RootStep(list)[y] = t /\ i >= 2 /\ First(Binds(list, t)) < i
      BY <2>1, <2>3
    <3>2. PICK j \in 1..Len(list) : First(Binds(list, t)) = j
      BY <1>2, <3>1
    <3>3. j \in Nat /\ 1 <= j
      BY IndexOf
    <3>4. rank[y] = i - 1
      BY <2>1, <2>3
    <3>5. rank[t] = j - 1 \/ rank[t] = 0
      BY <3>1, <3>2
    <3> HIDE DEF rank, t
    <3>6. i - 1 \in Nat /\ i - 1 # 0 /\ j < i /\ i - 1 <= Len(list) - 1 /\ rank[t] < i - 1
      BY <1>1, <2>2, <3>1, <3>2, <3>3, <3>5
    <3> QED
      BY <3>1, <3>4, <3>6
  <2>4. CASE ~ IsAlias(list[i])
    <3>1. rank[y] = 0
      BY <2>1, <2>4
    <3>2. 0 <= Len(list) - 1
      BY <1>1, <2>2
    <3> HIDE DEF rank
    <3> QED
      BY <2>1, <2>4, <3>1, <3>2
  <2> QED
    BY <2>3, <2>4
<1>4. Keeps(S, RootStep(list))
  BY <1>3 DEF Keeps
<1>5. rank \in [S -> Nat]
  BY <1>3
<1> HIDE DEF rank
<1>6. rank[name] <= n
  <2>1. rank[name] \in Nat /\ rank[name] <= Len(list) - 1
    BY <1>3
  <2> QED
    BY <1>1, <2>1
<1>7. \A y \in S : IF rank[y] = 0 THEN RootStep(list)[y] = y ELSE rank[RootStep(list)[y]] < rank[y]
  BY <1>3
<1> HIDE DEF S
<1>8. rank[end] = 0
  BY <1>4, <1>5, <1>6, <1>7, FollowedEnds DEF S
<1>9. end \in S
  BY <1>4, FollowedType DEF S
<1> QED
  BY <1>3, <1>8, <1>9 DEF S

\* A name whose root is a declaration finds the entry of that declaration.
LEMMA FindsDeclared ==
  ASSUME NamesInvariant, nameStage.phase = "collected", NEW u \in 1..Len(program), NEW name \in AnyName,
         NEW j \in 1..Len(unitItems[u]), unitItems[u][j].binds = RootName(unitItems[u], name),
         unitItems[u][j].binds # NoName, ~ IsAlias(unitItems[u][j])
  PROVE  LET item == unitItems[u][j]
             at   == FindInUnit(item.kind, u, name)
         IN  /\ item.kind \in Kinds /\ at # 0
             /\ tables[item.kind][at] = Entry(u, item) /\ AliasedName(u, name) = item.binds
<1> DEFINE list == unitItems[u]
           item == list[j]
           kind == item.kind
           at   == FindInUnit(kind, u, name)
<1>1. NamesTypes /\ u \in 1..Parsed /\ WellBound(list)
  BY DEF NamesInvariant, TablesHold
<1>2. list \in Lists
  BY <1>1, TypesOf
<1>3. kind \in Kinds
  BY <1>2, ItemOf DEF IsAlias
<1>4. AliasedName(u, name) = item.binds
  <2>1. Final(list, RootName(list, name))
    BY <1>1 DEF Final, WellBound
  <2> QED
    BY <1>1, <2>1, AliasedIsRoot
<1>5. j \in Named(list, kind, AliasedName(u, name))
  BY <1>4 DEF Named
<1>6. {o \in Denotes(list, name) : o.kind = kind} = {item}
  <2>1. /\ {o \in Denotes(list, name) : o.kind = kind} = {list[i] : i \in Named(list, kind, AliasedName(u, name))}
        /\ \A i, k \in Named(list, kind, AliasedName(u, name)) : i = k
    BY <1>1, <1>3, NamedOf
  <2>2. Named(list, kind, AliasedName(u, name)) = {j}
    BY <1>5, <2>1
  <2> QED
    BY <2>1, <2>2
<1>7. Offers(kind, u, name) = {<<u, item>>}
  <2>1. Offers(kind, u, name) = {<<u, i>> : i \in {o \in Denotes(list, name) : o.kind = kind}}
    BY DEF Offers
  <2> QED
    BY <1>6, <2>1
<1>8. Finds(kind, u, name)
  BY <1>3, UnitFinds
<1>9. PICK o : at \in 1..Len(tables[kind]) /\ Offers(kind, u, name) = {<<u, o>>} /\ tables[kind][at] = Entry(u, o)
  BY <1>7, <1>8 DEF Finds
<1>10. o = item
  <2>1. <<u, o>> = <<u, item>>
    BY <1>7, <1>9
  <2> QED
    BY <2>1
<1>11. at # 0
  BY <1>9
<1> QED
  BY <1>3, <1>4, <1>9, <1>10, <1>11

LEMMA AliasLeads ==
  ASSUME NamesInvariant, nameStage.phase = "collected", NEW u \in 1..Len(program),
         NEW i \in 1..Len(unitItems[u]), IsAlias(unitItems[u][i])
  PROVE  LET alias == unitItems[u][i]
             declared == \E kind \in Kinds : FindInUnit(kind, u, alias.binds) # 0
             taken    == \E j \in AliasesOf(u, alias.target) : ~ unitItems[u][j].public
         IN  /\ alias.public => declared
             /\ ~ alias.public /\ ~ taken => declared \/ AliasedName(u, alias.binds) = alias.target
<1> DEFINE list == unitItems[u]
           alias == list[i]
           name == alias.binds
           t == alias.target
           declared == \E kind \in Kinds : FindInUnit(kind, u, name) # 0
           taken    == \E j \in AliasesOf(u, t) : ~ list[j].public
           N == Len(list)
<1>1. NamesTypes /\ u \in 1..Parsed /\ WellBound(list)
  BY DEF NamesInvariant, TablesHold
<1>2. list \in Lists
  BY <1>1, TypesOf
<1>3. name \in Identifiers /\ t \in Identifiers /\ name \in AnyName /\ t \in AnyName /\ name # NoName
  BY <1>2, ItemOf, NoNameType DEF IsAlias
<1>4. N \in Nat /\ Keeps(AnyName, RootStep(list)) /\ \E k \in Nat : N = k + 1
  <2>1. N \in Nat /\ N >= 1
    BY <1>2, IndexOf, LenOf
  <2>2. N - 1 \in Nat /\ N = (N - 1) + 1
    BY <2>1
  <2> QED
    BY <1>1, <1>2, <2>1, <2>2, RootStepOf
<1>5. ASSUME RootName(list, name) \in PublicNames(list), Final(list, RootName(list, name)) PROVE declared
  <2>1. PICK j \in 1..N : list[j].binds = RootName(list, name)
    BY <1>5 DEF PublicNames
  <2>2. list[j].binds # NoName /\ ~ IsAlias(list[j])
    BY <1>5, <2>1, NoNameType DEF PublicNames, Final
  <2> QED
    BY <1>3, <2>1, <2>2, FindsDeclared
<1>6. CASE alias.public
  <2>1. name \in PublicNames(list)
    BY <1>3, <1>6 DEF PublicNames
  <2>2. N >= N - 1
    BY <1>4
  <2>3. RootName(list, name) \in PublicNames(list) /\ Final(list, RootName(list, name))
    BY <1>1, <1>2, <1>4, <2>1, <2>2, PublicLeads DEF RootName
  <2> QED
    BY <1>5, <1>6, <2>3
<1>7. CASE ~ alias.public /\ ~ taken
  <2> PICK k \in Nat : N = k + 1
    BY <1>4
  <2>1. RootName(list, name) = Followed(RootStep(list), t, k)
    <3>1. RootStep(list)[name] = t
      BY <1>1, <1>2, RootStepOf
    <3>2. Followed(RootStep(list), name, k + 1) = Followed(RootStep(list), RootStep(list)[name], k)
      <4> HIDE DEF list, name, t, alias, N
      <4> QED
        BY <1>3, <1>4, FollowedFromNext
    <3> QED
      BY <1>4, <3>1, <3>2 DEF RootName
  <2>2. CASE Final(list, t)
    <3>1. RootStep(list)[t] = t
      BY <1>1, <1>2, <1>3, <2>2, RootStepOf
    <3>2. Followed(RootStep(list), t, 0) = t
      BY <1>3, <1>4, FollowedNone
    <3>3. Followed(RootStep(list), t, k) = t
      <4>1. 0 \in Nat /\ 0 <= k
        BY <1>4
      <4> QED
        BY <1>3, <1>4, <3>1, <3>2, <4>1, FollowedStays
    <3>4. AliasedName(u, name) = t
      BY <1>1, <1>3, <2>1, <2>2, <3>3, AliasedIsRoot
    <3> QED
      BY <1>7, <3>4
  <2>3. CASE ~ Final(list, t)
    <3>1. PICK j \in 1..N : list[j].binds = t /\ IsAlias(list[j])
      BY <2>3 DEF Final
    <3>2. list[j].public
      BY <1>7, <3>1 DEF AliasesOf
    <3>3. t \in PublicNames(list)
      BY <1>3, <3>1, <3>2 DEF PublicNames
    <3>4. k >= Len(list) - 1
      BY <1>4
    <3>5. RootName(list, name) \in PublicNames(list) /\ Final(list, RootName(list, name))
      BY <1>1, <1>2, <1>4, <2>1, <3>3, <3>4, PublicLeads
    <3> QED
      BY <1>5, <1>7, <3>5
  <2> QED
    BY <2>2, <2>3
<1> QED
  BY <1>6, <1>7

-----------------------------------------------------------------------------
(* Where constructor aliases lead                                              *)

\* The root of a name, when it is a type, is the one item that binds the root's name.
LEMMA RootIs ==
  ASSUME NEW list \in Lists, WellBound(list), NEW name \in AnyName, HasRoot(list, name),
         Root(list, name).kind \in Kinds
  PROVE  \E q \in 1..Len(list) : /\ list[q] = Root(list, name) /\ list[q].binds = RootName(list, name)
                                 /\ list[q].binds # NoName /\ ~ IsAlias(list[q])
                                 /\ Final(list, RootName(list, name))
<1>1. PICK q \in 1..Len(list) : list[q].binds = RootName(list, name) /\ Binding(list, RootName(list, name)) = list[q]
  BY BoundOf DEF HasRoot
<1>2. list[q] = Root(list, name) /\ ~ IsAlias(list[q])
  BY <1>1 DEF HasRoot, Root
<1>3. list[q].binds # NoName
  BY <1>2, ItemOf, NoNameType DEF Kinds
<1>4. Final(list, RootName(list, name))
  BY <1>1, <1>2, <1>3 DEF Final, WellBound
<1> QED
  BY <1>1, <1>2, <1>3, <1>4

LEMMA SameRoot ==
  ASSUME NEW list \in Lists, WellBound(list), NEW name \in AnyName, HasRoot(list, name),
         Root(list, name).kind \in Kinds, NEW q \in 1..Len(list), list[q].binds # NoName
  PROVE  Root(list, name) = list[q] <=> RootName(list, name) = list[q].binds
<1>1. PICK p \in 1..Len(list) : list[p] = Root(list, name) /\ list[p].binds = RootName(list, name)
  BY RootIs
<1>2. list[p].binds = list[q].binds => p = q
  BY <1>1 DEF WellBound
<1> QED
  BY <1>1, <1>2

\* The names that lead to a constructor of a type.
Constructors(list, type) == {y \in Identifiers : y \in type.children \/ ChildAliases(list, type, y) # {}}

LEMMA ChildAliasesIn ==
  ASSUME NEW list \in Lists, NEW type, NEW name
  PROVE  /\ ChildAliases(list, type, name) \subseteq 1..Len(list) /\ ChildAliases(list, type, name) \subseteq Nat
         /\ ChildAliases(list, type, name) # {} =>
              First(ChildAliases(list, type, name)) \in ChildAliases(list, type, name)
<1>1. ChildAliases(list, type, name) \subseteq 1..Len(list)
  BY DEF ChildAliases
<1>2. ChildAliases(list, type, name) \subseteq Nat
  BY <1>1, IndexOf
<1> QED
  BY <1>1, <1>2, FirstOf

\* One step from a name, in a list whose constructor aliases lead somewhere.
LEMMA ChildStepOf ==
  ASSUME NEW list \in Lists, ChildrenLead(list), NEW type, type.children \subseteq Identifiers,
         NEW i \in 1..Len(list), NEW name \in Identifiers, i = First(ChildAliases(list, type, name)),
         ChildAliases(list, type, name) # {}, name \notin type.children
  PROVE  /\ ChildStep(list, type)[name] = list[i].target
         /\ list[i].target \in Constructors(list, type)
         /\ list[i].target \in type.children \/ First(ChildAliases(list, type, list[i].target)) < i
<1>1. i \in ChildAliases(list, type, name)
  BY ChildAliasesIn
<1>2. list[i].kind = "child" /\ list[i].name = name /\ HasRoot(list, list[i].parent) /\ Root(list, list[i].parent) = type
  BY <1>1 DEF ChildAliases
<1>3. PICK r \in 1..Len(list) : ChildLeads(list, i, r)
  BY <1>2 DEF ChildrenLead
<1>4. list[r] = type
  BY <1>2, <1>3 DEF ChildLeads
<1>5. HasRoot(list, list[i].targetParent) /\ Root(list, list[i].targetParent) = type
  BY <1>3, <1>4 DEF ChildLeads
<1>6. name \in AnyName /\ list[i].target \in Identifiers
  BY <1>2, ItemOf, NoNameType
<1>7. ChildStep(list, type)[name] = list[i].target
  BY <1>5, <1>6 DEF ChildStep
<1>8. \/ list[i].target \in type.children
      \/ \E j \in 1..(i - 1) : j \in ChildAliases(list, type, list[i].target)
  BY <1>3, <1>4 DEF ChildLeads
<1>9. ASSUME NEW j \in 1..(i - 1), j \in ChildAliases(list, type, list[i].target)
      PROVE  ChildAliases(list, type, list[i].target) # {} /\ First(ChildAliases(list, type, list[i].target)) < i
  <2>1. ChildAliases(list, type, list[i].target) \subseteq Nat
    BY ChildAliasesIn
  <2>2. First(ChildAliases(list, type, list[i].target)) <= j /\ First(ChildAliases(list, type, list[i].target)) \in Nat
    BY <1>9, <2>1, FirstOf
  <2>3. i \in Nat /\ j < i /\ j \in Nat
    BY IndexOf
  <2> QED
    BY <1>9, <2>2, <2>3
<1>10. list[i].target \in Constructors(list, type)
  BY <1>6, <1>8, <1>9 DEF Constructors
<1> QED
  BY <1>7, <1>8, <1>9, <1>10

\* From a constructor or an alias of one, to a constructor.
LEMMA ChildEnds ==
  ASSUME NEW list \in Lists, ChildrenLead(list), NEW type, type.children \subseteq Identifiers
  PROVE  /\ Keeps(Constructors(list, type), ChildStep(list, type))
         /\ \A name \in Constructors(list, type) :
              Followed(ChildStep(list, type), name, Len(list)) \in type.children
         /\ \A name \in type.children : ChildStep(list, type)[name] = name
<1> DEFINE S == Constructors(list, type)
           step == ChildStep(list, type)
           rank == [y \in S |-> IF y \in type.children THEN 0 ELSE First(ChildAliases(list, type, y))]
<1>1. Len(list) \in Nat
  BY LenOf
<1>2. ASSUME NEW y \in type.children PROVE step[y] = y /\ y \in S
  <2>1. y \in AnyName /\ y \in Identifiers
    BY NoNameType
  <2> QED
    BY <2>1 DEF ChildStep, Constructors
<1>3. ASSUME NEW y \in S
      PROVE  /\ rank[y] \in Nat /\ rank[y] <= Len(list) /\ step[y] \in S
             /\ IF rank[y] = 0 THEN step[y] = y /\ y \in type.children ELSE rank[step[y]] < rank[y]
  <2>1. CASE y \in type.children
    <3>1. rank[y] = 0
      BY <2>1
    <3> HIDE DEF rank
    <3> QED
      BY <1>1, <1>2, <2>1, <3>1
  <2>2. CASE y \notin type.children
    <3> DEFINE i == First(ChildAliases(list, type, y))
    <3>1. ChildAliases(list, type, y) # {} /\ y \in Identifiers
      BY <2>2 DEF Constructors
    <3>2. i \in 1..Len(list)
      BY <3>1, ChildAliasesIn
    <3>3. /\ step[y] = list[i].target /\ list[i].target \in S
          /\ list[i].target \in type.children \/ First(ChildAliases(list, type, list[i].target)) < i
      BY <2>2, <3>1, <3>2, ChildStepOf
    <3>4. i \in Nat /\ 1 <= i /\ i <= Len(list)
      BY <3>2, IndexOf
    <3>5. rank[y] = i
      BY <2>2
    <3>6. rank[step[y]] < i
      <4>1. CASE list[i].target \in type.children
        <5>1. rank[list[i].target] = 0
          BY <3>3, <4>1
        <5> HIDE DEF rank
        <5> QED
          BY <3>3, <3>4, <5>1
      <4>2. CASE list[i].target \notin type.children
        <5>1. rank[list[i].target] = First(ChildAliases(list, type, list[i].target))
          BY <3>3, <4>2
        <5> HIDE DEF rank
        <5> QED
          BY <3>3, <4>2, <5>1
      <4> QED
        BY <4>1, <4>2
    <3> HIDE DEF rank, i
    <3> QED
      BY <3>3, <3>4, <3>5, <3>6
  <2> QED
    BY <2>1, <2>2
<1>4. Keeps(S, step)
  BY <1>3 DEF Keeps
<1>5. rank \in [S -> Nat]
  BY <1>3
<1> HIDE DEF rank
<1>6. \A y \in S : IF rank[y] = 0 THEN step[y] = y ELSE rank[step[y]] < rank[y]
  BY <1>3
<1>7. ASSUME NEW name \in S PROVE Followed(step, name, Len(list)) \in type.children
  <2>1. rank[name] <= Len(list)
    BY <1>3
  <2> HIDE DEF S, step
  <2>2. rank[Followed(step, name, Len(list))] = 0
    BY <1>1, <1>4, <1>5, <1>6, <2>1, FollowedEnds
  <2>3. Followed(step, name, Len(list)) \in S
    BY <1>1, <1>4, FollowedType
  <2> QED
    BY <1>3, <2>2, <2>3
<1> QED
  BY <1>2, <1>4, <1>7

\* The search on the tables takes the steps of the parser.
LEMMA ConstructorStepIs ==
  ASSUME NamesInvariant, nameStage.phase = "collected", NEW u \in 1..Len(program),
         NEW q \in 1..Len(unitItems[u]), unitItems[u][q].kind = "type"
  PROVE  ConstructorStep(Entry(u, unitItems[u][q])) = ChildStep(unitItems[u], unitItems[u][q])
<1> DEFINE list  == unitItems[u]
           type  == list[q]
           entry == Entry(u, type)
<1>1. NamesTypes /\ u \in 1..Parsed /\ WellBound(list) /\ ChildrenLead(list)
  BY DEF NamesInvariant, TablesHold
<1>2. list \in Lists
  BY <1>1, TypesOf
<1>3. entry.unit = u /\ entry.name = type.binds /\ entry.children = type.children
  BY DEF Entry
<1>4. type.binds # NoName
  BY <1>2, ItemOf, NoNameType DEF Kinds
<1>5. ASSUME NEW j \in 1..Len(list), list[j].kind = "child"
      PROVE  /\ Root(list, list[j].parent) = type <=> AliasedName(u, list[j].parent) = type.binds
             /\ HasRoot(list, list[j].parent)
             /\ HasRoot(list, list[j].targetParent)
             /\ Root(list, list[j].targetParent) = Root(list, list[j].parent)
             /\ Root(list, list[j].targetParent) = type <=> AliasedName(u, list[j].targetParent) = type.binds
  <2>1. PICK r \in 1..Len(list) : ChildLeads(list, j, r)
    BY <1>1, <1>5 DEF ChildrenLead
  <2>2. /\ list[r].kind \in Kinds
        /\ HasRoot(list, list[j].parent) /\ Root(list, list[j].parent) = list[r]
        /\ HasRoot(list, list[j].targetParent) /\ Root(list, list[j].targetParent) = list[r]
    BY <2>1 DEF ChildLeads, Kinds
  <2>3. list[j].parent \in AnyName /\ list[j].targetParent \in AnyName
    BY <1>2, <1>5, ItemOf, NoNameType
  <2>4. ASSUME NEW name \in AnyName, HasRoot(list, name), Root(list, name) = list[r]
        PROVE  Root(list, name) = type <=> AliasedName(u, name) = type.binds
    <3>1. Final(list, RootName(list, name))
      BY <1>1, <1>2, <2>2, <2>4, RootIs
    <3>2. AliasedName(u, name) = RootName(list, name)
      BY <1>1, <3>1, AliasedIsRoot
    <3> QED
      BY <1>1, <1>2, <1>4, <2>2, <2>4, <3>2, SameRoot
  <2> QED
    BY <2>2, <2>3, <2>4
<1>6. ASSUME NEW name \in AnyName PROVE ChildAliasesOf(entry, name) = ChildAliases(list, type, name)
  <2>1. ChildAliasesOf(entry, name) =
          {j \in 1..Len(list) : list[j].kind = "child" /\ list[j].name = name /\ AliasedName(u, list[j].parent) = type.binds}
    BY <1>3 DEF ChildAliasesOf
  <2> HIDE DEF entry, type, list
  <2> QED
    BY <1>5, <2>1 DEF ChildAliases
<1>7. ASSUME NEW name \in AnyName PROVE ConstructorStep(entry)[name] = ChildStep(list, type)[name]
  <2> DEFINE found == ChildAliases(list, type, name)
             alias == list[First(found)]
  <2>1. ConstructorStep(entry)[name] =
          IF name \in type.children THEN name
          ELSE IF found # {} /\ AliasedName(u, alias.targetParent) = type.binds THEN alias.target ELSE NoName
    BY <1>3, <1>6 DEF ConstructorStep
  <2>2. ChildStep(list, type)[name] =
          IF name \in type.children THEN name
          ELSE IF found # {} /\ HasRoot(list, alias.targetParent) /\ Root(list, alias.targetParent) = type
               THEN alias.target ELSE NoName
    BY DEF ChildStep
  <2>3. CASE found = {}
    BY <2>1, <2>2, <2>3
  <2>4. CASE found # {}
    <3>1. First(found) \in 1..Len(list) /\ alias.kind = "child"
      <4>1. First(found) \in found
        BY <1>2, <2>4, ChildAliasesIn
      <4> QED
        BY <4>1 DEF ChildAliases
    <3>2. /\ HasRoot(list, alias.targetParent)
          /\ Root(list, alias.targetParent) = type <=> AliasedName(u, alias.targetParent) = type.binds
      BY <1>5, <3>1
    <3> HIDE DEF found, alias, list, type, entry
    <3> QED
      BY <2>1, <2>2, <3>2
  <2> QED
    BY <2>3, <2>4
<1>8. ConstructorStep(entry) = [name \in AnyName |-> ConstructorStep(entry)[name]]
  BY DEF ConstructorStep
<1>9. ChildStep(list, type) = [name \in AnyName |-> ChildStep(list, type)[name]]
  BY DEF ChildStep
<1> QED
  BY <1>7, <1>8, <1>9

LEMMA ChildAliasLeads ==
  ASSUME NamesInvariant, nameStage.phase = "collected", NEW u \in 1..Len(program),
         NEW i \in 1..Len(unitItems[u]), unitItems[u][i].kind = "child"
  PROVE  LET alias == unitItems[u][i]
             at == FindInUnit("type", u, alias.parent)
         IN  /\ at # 0
             /\ Constructor(tables["type"][at], alias.name) # NoName
             /\ Constructor(tables["type"][at], alias.name) = Constructor(tables["type"][at], alias.target)
<1> DEFINE list  == unitItems[u]
           alias == list[i]
           N     == Len(list)
           at    == FindInUnit("type", u, alias.parent)
<1>1. NamesTypes /\ u \in 1..Parsed /\ WellBound(list) /\ ChildrenLead(list)
  BY DEF NamesInvariant, TablesHold
<1>2. list \in Lists /\ N \in Nat
  BY <1>1, TypesOf, LenOf
<1>3. PICK r \in 1..N : ChildLeads(list, i, r)
  BY <1>1 DEF ChildrenLead
<1>4. alias.parent \in AnyName /\ alias.name \in Identifiers /\ alias.target \in Identifiers
  BY <1>2, ItemOf, NoNameType
<1>5. HasRoot(list, alias.parent) /\ Root(list, alias.parent) = list[r] /\ list[r].kind = "type"
  BY <1>3 DEF ChildLeads
<1>6. PICK q \in 1..N : /\ list[q] = list[r] /\ list[q].binds = RootName(list, alias.parent)
                        /\ list[q].binds # NoName /\ ~ IsAlias(list[q])
  <2>1. Root(list, alias.parent).kind \in Kinds
    BY <1>5 DEF Kinds
  <2> QED
    BY <1>1, <1>2, <1>4, <1>5, <2>1, RootIs
<1> DEFINE type == list[q]
<1>7. type.kind = "type"
  BY <1>5, <1>6
<1>8. at # 0 /\ tables["type"][at] = Entry(u, type)
  BY <1>4, <1>6, <1>7, FindsDeclared
<1> DEFINE entry == Entry(u, type)
           step == ChildStep(list, type)
<1>9. ConstructorStep(entry) = step /\ entry.unit = u /\ entry.children = type.children
  BY <1>7, ConstructorStepIs DEF Entry
<1>10. type.children \subseteq Identifiers
  BY <1>2, <1>7, ItemOf DEF Kinds
<1>11. \A name : Constructor(entry, name) =
                   IF Followed(step, name, N) \in type.children THEN Followed(step, name, N) ELSE NoName
  BY <1>9 DEF Constructor
<1>12. i \in ChildAliases(list, type, alias.name)
  BY <1>5, <1>6 DEF ChildAliases
<1>13. alias.name \notin type.children /\ \A j \in ChildAliases(list, type, alias.name) : j = i
  BY <1>3, <1>6 DEF ChildLeads
<1>14. i = First(ChildAliases(list, type, alias.name))
  <2>1. First(ChildAliases(list, type, alias.name)) \in ChildAliases(list, type, alias.name)
    BY <1>2, <1>12, ChildAliasesIn
  <2> QED
    BY <1>13, <2>1
<1>15. step[alias.name] = alias.target /\ alias.target \in Constructors(list, type)
  BY <1>1, <1>2, <1>4, <1>10, <1>12, <1>13, <1>14, ChildStepOf
<1>16. alias.name \in Constructors(list, type)
  BY <1>4, <1>12 DEF Constructors
<1>17. /\ Keeps(Constructors(list, type), step)
       /\ \A name \in Constructors(list, type) : Followed(step, name, N) \in type.children
       /\ \A name \in type.children : step[name] = name
  BY <1>1, <1>2, <1>10, ChildEnds
<1> DEFINE new == alias.name
           old == alias.target
<1>18. Followed(step, new, N) = Followed(step, old, N)
  <2>1. step[new] = old /\ new \in Constructors(list, type)
    BY <1>15, <1>16
  <2>2. step[Followed(step, new, N)] = Followed(step, new, N)
    BY <1>16, <1>17
  <2>3. Keeps(Constructors(list, type), step)
    BY <1>17
  <2>4. ASSUME NEW S, Keeps(S, step), new \in S
        PROVE  Followed(step, new, N) = Followed(step, step[new], N)
    <3> HIDE DEF step, new, old, alias, list, type, N, at, entry
    <3> QED
      BY <1>2, <2>2, <2>4, FollowedPast
  <2> HIDE DEF step, new, old, alias, list, type, N, at, entry
  <2>5. Followed(step, new, N) = Followed(step, step[new], N)
    BY <2>1, <2>3, <2>4
  <2> QED
    BY <2>1, <2>5
<1>19. Followed(step, new, N) \in type.children /\ Followed(step, old, N) \in type.children
  BY <1>15, <1>16, <1>17
<1>20. Followed(step, new, N) # NoName
  BY <1>10, <1>19, NoNameType
<1>21. Constructor(entry, new) # NoName /\ Constructor(entry, new) = Constructor(entry, old)
  <2> HIDE DEF step, new, old, list, type, N, entry
  <2> QED
    BY <1>11, <1>18, <1>19, <1>20
<1> QED
  BY <1>8, <1>21

LEMMA InvariantLeads ==
  ASSUME NamesInvariant
  PROVE  AliasesLead
<1> SUFFICES ASSUME nameStage.phase = "collected", NEW u \in 1..Len(program), NEW i \in 1..Len(unitItems[u])
             PROVE  LET alias == unitItems[u][i]
                        declared == \E kind \in Kinds : FindInUnit(kind, u, alias.binds) # 0
                        taken    == \E j \in AliasesOf(u, alias.target) : ~ unitItems[u][j].public
                    IN  /\ alias.kind = "alias" /\ alias.public => declared
                        /\ alias.kind = "alias" /\ ~ alias.public /\ ~ taken =>
                             declared \/ AliasedName(u, alias.binds) = alias.target
                        /\ alias.kind = "child" =>
                             LET at == FindInUnit("type", u, alias.parent)
                             IN  /\ at # 0
                                 /\ Constructor(tables["type"][at], alias.name) # NoName
                                 /\ Constructor(tables["type"][at], alias.name) = Constructor(tables["type"][at], alias.target)
  BY DEF AliasesLead
<1> QED
  BY AliasLeads, ChildAliasLeads DEF IsAlias

-----------------------------------------------------------------------------
(* One item more                                                               *)

LEMMA ListMore ==
  ASSUME NEW list \in Lists, NEW item \in ItemsLeft
  PROVE  LET more == Append(list, item)
         IN  /\ more \in Lists /\ Len(more) = Len(list) + 1 /\ Len(list) \in Nat
             /\ \A i \in 1..Len(list) : more[i] = list[i] /\ i \in 1..Len(more) /\ i \in Nat
             /\ more[Len(list) + 1] = item /\ Len(list) + 1 \in 1..Len(more)
             /\ \A i \in 1..Len(more) : i \in 1..Len(list) \/ i = Len(list) + 1
             /\ \A i \in 1..Len(list) : i # Len(list) + 1
<1>1. Len(list) \in Nat
  BY LenOf
<1>2. /\ Append(list, item) \in Lists /\ Len(Append(list, item)) = Len(list) + 1
      /\ \A i \in 1..Len(list) : Append(list, item)[i] = list[i]
      /\ Append(list, item)[Len(list) + 1] = item
  BY AppendedOf DEF Lists
<1> QED
  BY <1>1, <1>2

\* A name that is new to the list keeps it well bound.
LEMMA WellBoundMore ==
  ASSUME NEW list \in Lists, NEW item \in ItemsLeft, WellBound(list),
         item.binds = NoName \/ ~ Bound(list, item.binds),
         IsAlias(item) /\ item.public =>
           \E j \in 1..Len(list) : list[j].binds = item.target /\ list[j].public
  PROVE  WellBound(Append(list, item))
<1> DEFINE more == Append(list, item)
           N == Len(list)
<1>1. /\ Len(more) = N + 1 /\ N \in Nat /\ more[N + 1] = item
      /\ \A i \in 1..N : more[i] = list[i] /\ i \in 1..Len(more)
      /\ \A i \in 1..Len(more) : i \in 1..N \/ i = N + 1
  BY ListMore
<1>2. \A i \in 1..N : list[i].binds = item.binds => item.binds = NoName
  BY DEF Bound, Binds
<1> HIDE DEF more, N
<1>3. ASSUME NEW i \in 1..Len(more), NEW j \in 1..Len(more), more[i].binds = more[j].binds, more[i].binds # NoName
      PROVE  i = j
  <2>1. \A k, l \in 1..N : list[k].binds = list[l].binds /\ list[k].binds # NoName => k = l
    BY DEF WellBound, N
  <2> QED
    BY <1>1, <1>2, <1>3, <2>1
<1>4. ASSUME NEW i \in 1..Len(more), IsAlias(more[i]), more[i].public
      PROVE  \E j \in 1..(i - 1) : more[j].binds = more[i].target /\ more[j].public
  <2>1. CASE i \in 1..N
    <3>1. PICK j \in 1..(i - 1) : list[j].binds = list[i].target /\ list[j].public
      BY <1>1, <1>4, <2>1 DEF WellBound, N
    <3>2. j \in 1..N
      BY <1>1, <2>1
    <3> QED
      BY <1>1, <2>1, <3>1, <3>2
  <2>2. CASE i = N + 1
    <3>1. PICK j \in 1..N : list[j].binds = item.target /\ list[j].public
      BY <1>1, <1>4, <2>2 DEF N
    <3>2. j \in 1..(i - 1)
      BY <1>1, <2>2
    <3> QED
      BY <1>1, <2>2, <3>1, <3>2
  <2> QED
    BY <1>1, <2>1, <2>2
<1> QED
  BY <1>3, <1>4 DEF WellBound, more

\* What a name stands for does not change when an item is added.
LEMMA RootStays ==
  ASSUME NEW list \in Lists, NEW item \in ItemsLeft, WellBound(list), WellBound(Append(list, item)),
         NEW name \in AnyName, HasRoot(list, name), Root(list, name).kind \in Kinds
  PROVE  LET more == Append(list, item) IN HasRoot(more, name) /\ Root(more, name) = Root(list, name)
<1> DEFINE more == Append(list, item)
           N == Len(list)
           old == RootStep(list)
           new == RootStep(more)
           root == RootName(list, name)
<1>1. /\ Len(more) = N + 1 /\ N \in Nat /\ more[N + 1] = item /\ more \in Lists
      /\ \A i \in 1..N : more[i] = list[i] /\ i \in 1..Len(more)
  BY ListMore
<1>2. Keeps(AnyName, old) /\ Keeps(AnyName, new)
  BY <1>1, RootStepOf
<1>3. ASSUME NEW i \in 1..N, list[i].binds \in AnyName, ~ IsAlias(list[i])
      PROVE  Final(more, list[i].binds)
  <2> SUFFICES ASSUME NEW j \in 1..Len(more), more[j].binds = list[i].binds, IsAlias(more[j])
               PROVE  FALSE
    BY DEF Final
  <2>1. more[j].binds # NoName
    BY <1>1, ItemOf, NoNameType DEF IsAlias
  <2>2. i \in 1..Len(more) /\ more[i].binds = more[j].binds /\ more[i].binds # NoName /\ more[i] = list[i]
    BY <1>1, <2>1
  <2>3. i = j
    BY <2>2 DEF WellBound
  <2> QED
    BY <1>3, <2>2, <2>3
<1>4. ASSUME NEW y \in AnyName, Bound(list, y) PROVE new[y] = old[y]
  <2>1. PICK i \in 1..N : list[i].binds = y
    BY <1>4 DEF Bound, Binds
  <2>2. CASE IsAlias(list[i])
    <3>1. old[y] = list[i].target
      BY <2>1, <2>2, RootStepOf
    <3>2. new[y] = list[i].target
      BY <1>1, <2>1, <2>2, RootStepOf
    <3> QED
      BY <3>1, <3>2
  <2>3. CASE ~ IsAlias(list[i])
    <3>1. Final(more, y)
      BY <1>3, <2>1, <2>3
    <3>2. Final(list, y)
      BY <1>1, <3>1 DEF Final
    <3>3. old[y] = y
      BY <3>2, RootStepOf
    <3>4. new[y] = y
      BY <1>1, <3>1, RootStepOf
    <3> QED
      BY <3>3, <3>4
  <2> QED
    BY <2>2, <2>3
<1>5. ASSUME NEW k \in 0..N PROVE Bound(list, Followed(old, name, k)) /\ Followed(old, name, k) \in AnyName
  <2> DEFINE y == Followed(old, name, k)
  <2>1. k \in Nat /\ k <= N
    BY <1>1
  <2>2. y \in AnyName
    BY <1>2, <2>1, FollowedType
  <2>3. ASSUME ~ Bound(list, y) PROVE FALSE
    <3>1. Final(list, y)
      BY <2>3 DEF Bound, Binds, Final
    <3>2. root = y
      BY <3>1, EndReached
    <3> QED
      BY <2>3, <3>2 DEF HasRoot
  <2> QED
    BY <2>2, <2>3
<1>6. Followed(new, name, N) = Followed(old, name, N)
  <2> DEFINE Same == {k \in Nat : Followed(new, name, k) = Followed(old, name, k)}
  <2> HIDE DEF new, old, N
  <2>1. 0 \in Same
    BY <1>2, FollowedNone
  <2>2. ASSUME NEW k \in 0..(N - 1), k \in Same PROVE k + 1 \in Same
    <3>1. k \in Nat /\ k + 1 \in Nat /\ k \in 0..N
      BY <1>1
    <3>2. Followed(new, name, k + 1) = new[Followed(new, name, k)]
      BY <1>2, <3>1, FollowedOneMore
    <3>3. Followed(old, name, k + 1) = old[Followed(old, name, k)]
      BY <1>2, <3>1, FollowedOneMore
    <3>4. Followed(new, name, k) = Followed(old, name, k)
      BY <2>2
    <3> QED
      BY <1>4, <1>5, <3>1, <3>2, <3>3, <3>4
  <2>3. N \in Same
    <3> HIDE DEF Same
    <3> QED
      BY <1>1, <2>1, <2>2, UpToN
  <2> QED
    BY <2>3
<1>7. PICK q \in 1..N : list[q] = Root(list, name) /\ list[q].binds = root /\ list[q].binds # NoName /\ ~ IsAlias(list[q])
  BY RootIs
<1>8. RootName(more, name) = root
  <2>1. root \in AnyName
    BY <1>7, ItemOf
  <2>2. Final(more, root)
    BY <1>3, <1>7, <2>1
  <2>3. Followed(new, name, N) = root /\ N \in 0..Len(more)
    BY <1>1, <1>6 DEF RootName
  <2> QED
    BY <1>1, <2>2, <2>3, EndReached
<1>9. Bound(more, root) /\ Binding(more, root) = list[q]
  <2>1. q \in 1..Len(more) /\ more[q] = list[q] /\ more[q].binds = root /\ more[q].binds # NoName
    BY <1>1, <1>7
  <2> HIDE DEF more, root
  <2>2. Bound(more, more[q].binds) /\ Binding(more, more[q].binds) = more[q]
    BY <1>1, <2>1, BindingOf DEF more
  <2> QED
    BY <2>1, <2>2
<1> QED
  BY <1>7, <1>8, <1>9 DEF HasRoot, Root

\* The constructor aliases that are there are those of the same types.
LEMMA ChildAliasesStay ==
  ASSUME NEW list \in Lists, NEW item \in ItemsLeft, WellBound(list), WellBound(Append(list, item)),
         ChildrenLead(list), NEW j \in 1..Len(list), NEW type, NEW name
  PROVE  j \in ChildAliases(Append(list, item), type, name) <=> j \in ChildAliases(list, type, name)
<1> DEFINE more == Append(list, item)
<1>1. j \in 1..Len(more) /\ more[j] = list[j]
  BY ListMore
<1>2. ASSUME list[j].kind = "child"
      PROVE  /\ HasRoot(list, list[j].parent) /\ HasRoot(more, list[j].parent)
             /\ Root(more, list[j].parent) = Root(list, list[j].parent)
  <2>1. PICK r \in 1..Len(list) : ChildLeads(list, j, r)
    BY <1>2 DEF ChildrenLead
  <2>2. HasRoot(list, list[j].parent) /\ Root(list, list[j].parent).kind \in Kinds
    BY <2>1 DEF ChildLeads, Kinds
  <2>3. list[j].parent \in AnyName
    BY <1>2, ItemOf, NoNameType
  <2> QED
    BY <2>2, <2>3, RootStays
<1> HIDE DEF more
<1>3. ChildAliases(more, type, name) =
        {i \in 1..Len(more) : /\ more[i].kind = "child" /\ more[i].name = name
                              /\ HasRoot(more, more[i].parent) /\ Root(more, more[i].parent) = type}
  BY DEF ChildAliases
<1>4. ChildAliases(list, type, name) =
        {i \in 1..Len(list) : /\ list[i].kind = "child" /\ list[i].name = name
                              /\ HasRoot(list, list[i].parent) /\ Root(list, list[i].parent) = type}
  BY DEF ChildAliases
<1>5. j \in ChildAliases(more, type, name) <=> j \in ChildAliases(list, type, name)
  BY <1>1, <1>2, <1>3, <1>4
<1> QED
  BY <1>5 DEF more

\* A constructor alias that the parser accepts after a list.
ChildFits(list, alias, type) ==
  /\ type.kind = "type"
  /\ HasRoot(list, alias.parent) /\ Root(list, alias.parent) = type
  /\ HasRoot(list, alias.targetParent) /\ Root(list, alias.targetParent) = type
  /\ alias.name \notin type.children
  /\ ChildAliases(list, type, alias.name) = {}
  /\ alias.target \in type.children \/ ChildAliases(list, type, alias.target) # {}

LEMMA ChildrenLeadMore ==
  ASSUME NEW list \in Lists, NEW item \in ItemsLeft, WellBound(list), WellBound(Append(list, item)),
         ChildrenLead(list), item.kind = "child" => \E r \in 1..Len(list) : ChildFits(list, item, list[r])
  PROVE  ChildrenLead(Append(list, item))
<1> DEFINE more == Append(list, item)
           N == Len(list)
<1>1. /\ Len(more) = N + 1 /\ N \in Nat /\ more[N + 1] = item /\ more \in Lists /\ N + 1 \in 1..Len(more)
      /\ \A i \in 1..N : more[i] = list[i] /\ i \in 1..Len(more)
      /\ \A i \in 1..Len(more) : i \in 1..N \/ i = N + 1
  BY ListMore
<1>2. \A j \in 1..N : \A type, name : j \in ChildAliases(more, type, name) <=> j \in ChildAliases(list, type, name)
  BY ChildAliasesStay
<1>3. \A name \in AnyName : HasRoot(list, name) /\ Root(list, name).kind = "type" =>
         HasRoot(more, name) /\ Root(more, name) = Root(list, name)
  BY RootStays DEF Kinds
<1>4. ASSUME NEW type, NEW name, N + 1 \in ChildAliases(more, type, name)
      PROVE  item.kind = "child" /\ item.name = name /\ ChildAliases(list, type, name) = {}
  <2>1. item.kind = "child" /\ item.name = name /\ Root(more, item.parent) = type
    BY <1>1, <1>4 DEF ChildAliases
  <2>2. PICK r \in 1..N : ChildFits(list, item, list[r])
    BY <2>1
  <2>3. item.parent \in AnyName
    <3>1. more[N + 1].parent \in Identifiers
      BY <1>1, <2>1, ItemOf
    <3> QED
      BY <1>1, <3>1, NoNameType
  <2>4. Root(more, item.parent) = list[r]
    BY <1>3, <2>2, <2>3 DEF ChildFits
  <2> QED
    BY <2>1, <2>2, <2>4 DEF ChildFits
<1> HIDE DEF more, N
<1>5. ASSUME NEW i \in 1..N, NEW r \in 1..N, list[i].kind = "child", ChildLeads(list, i, r)
      PROVE  ChildLeads(more, i, r)
  <2> DEFINE alias == list[i]
             type  == list[r]
  <2>1. more[i] = alias /\ more[r] = type
    BY <1>1
  <2>2. alias.parent \in AnyName /\ alias.targetParent \in AnyName
    BY <1>5, ItemOf, NoNameType DEF N
  <2>3. /\ type.kind = "type"
        /\ HasRoot(list, alias.parent) /\ Root(list, alias.parent) = type
        /\ HasRoot(list, alias.targetParent) /\ Root(list, alias.targetParent) = type
        /\ alias.name \notin type.children
        /\ \A j \in ChildAliases(list, type, alias.name) : j = i
        /\ \/ alias.target \in type.children
           \/ \E j \in 1..(i - 1) : j \in ChildAliases(list, type, alias.target)
    BY <1>5 DEF ChildLeads
  <2>4. /\ HasRoot(more, alias.parent) /\ Root(more, alias.parent) = type
        /\ HasRoot(more, alias.targetParent) /\ Root(more, alias.targetParent) = type
    BY <1>3, <2>2, <2>3
  <2>5. i \in ChildAliases(list, type, alias.name)
    BY <1>5, <2>3 DEF ChildAliases, N
  <2>6. ASSUME NEW j \in ChildAliases(more, type, alias.name) PROVE j = i
    <3>1. j \in 1..Len(more)
      BY DEF ChildAliases
    <3>2. j # N + 1
      BY <1>4, <2>5
    <3> QED
      BY <1>1, <1>2, <2>3, <3>1, <3>2
  <2>7. ASSUME NEW j \in 1..(i - 1), j \in ChildAliases(list, type, alias.target)
        PROVE  j \in ChildAliases(more, type, alias.target)
    BY <1>1, <1>2, <2>7
  <2> HIDE DEF alias, type
  <2> QED
    BY <2>1, <2>3, <2>4, <2>6, <2>7 DEF ChildLeads
<1>6. ASSUME item.kind = "child" PROVE \E r \in 1..N : ChildLeads(more, N + 1, r)
  <2>1. PICK r \in 1..N : ChildFits(list, item, list[r])
    BY <1>6 DEF N
  <2> DEFINE type == list[r]
  <2>2. more[N + 1] = item /\ more[r] = type
    BY <1>1
  <2>3. item.parent \in AnyName /\ item.targetParent \in AnyName
    <3>1. more[N + 1].parent \in Identifiers /\ more[N + 1].targetParent \in Identifiers
      BY <1>1, <1>6, ItemOf
    <3> QED
      BY <1>1, <3>1, NoNameType
  <2>4. /\ type.kind = "type"
        /\ HasRoot(list, item.parent) /\ Root(list, item.parent) = type
        /\ HasRoot(list, item.targetParent) /\ Root(list, item.targetParent) = type
        /\ item.name \notin type.children
        /\ ChildAliases(list, type, item.name) = {}
        /\ item.target \in type.children \/ ChildAliases(list, type, item.target) # {}
    BY <2>1 DEF ChildFits
  <2>5. /\ HasRoot(more, item.parent) /\ Root(more, item.parent) = type
        /\ HasRoot(more, item.targetParent) /\ Root(more, item.targetParent) = type
    BY <1>3, <2>3, <2>4
  <2>6. ASSUME NEW j \in ChildAliases(more, type, item.name) PROVE j = N + 1
    <3>1. j \in 1..Len(more)
      BY DEF ChildAliases
    <3> QED
      BY <1>1, <1>2, <2>4, <3>1
  <2>7. ASSUME ChildAliases(list, type, item.target) # {}
        PROVE  \E j \in 1..((N + 1) - 1) : j \in ChildAliases(more, type, item.target)
    <3>1. PICK j : j \in ChildAliases(list, type, item.target)
      BY <2>7
    <3>2. j \in 1..N
      BY <3>1 DEF ChildAliases, N
    <3>3. (N + 1) - 1 = N
      BY <1>1
    <3> QED
      BY <1>2, <3>1, <3>2, <3>3
  <2> HIDE DEF type
  <2>8. ChildLeads(more, N + 1, r)
    BY <2>2, <2>4, <2>5, <2>6, <2>7 DEF ChildLeads
  <2> QED
    BY <2>8
<1>7. ASSUME NEW i \in 1..Len(more), more[i].kind = "child"
      PROVE  \E r \in 1..Len(more) : ChildLeads(more, i, r)
  <2>1. CASE i \in 1..N
    <3>1. PICK r \in 1..N : ChildLeads(list, i, r)
      BY <1>1, <1>7, <2>1 DEF ChildrenLead, N
    <3> QED
      BY <1>1, <1>5, <1>7, <2>1, <3>1
  <2>2. CASE i = N + 1
    BY <1>1, <1>6, <1>7, <2>2
  <2> QED
    BY <1>1, <2>1, <2>2
<1> QED
  BY <1>7 DEF ChildrenLead, more

\* A name that the search finds is a constructor, or that of an alias.
LEMMA ChildFound ==
  ASSUME NEW list \in Lists, NEW type, type.children \subseteq Identifiers, NEW name \in Identifiers,
         HasChild(list, type, name)
  PROVE  name \in type.children \/ ChildAliases(list, type, name) # {}
<1> DEFINE step == ChildStep(list, type)
<1>1. name \in AnyName /\ NoName \in AnyName /\ NoName \notin type.children
  BY NoNameType
<1>2. ChildAliases(list, type, NoName) = {}
  <2> SUFFICES ASSUME NEW i \in 1..Len(list), list[i].kind = "child", list[i].name = NoName PROVE FALSE
    BY DEF ChildAliases
  <2> QED
    BY ItemOf, NoNameType
<1>3. step[NoName] = NoName
  BY <1>1, <1>2 DEF ChildStep
<1>4. ASSUME name \notin type.children, ChildAliases(list, type, name) = {} PROVE FALSE
  <2>1. step[name] = NoName
    BY <1>1, <1>4 DEF ChildStep
  <2>2. Keeps({name, NoName}, step)
    BY <1>3, <2>1 DEF Keeps
  <2>3. Followed(step, name, Len(list)) \in {name, NoName}
    <3>1. Len(list) \in Nat /\ name \in {name, NoName}
      BY LenOf
    <3> HIDE DEF step
    <3> QED
      BY <2>2, <3>1, FollowedType
  <2>4. Followed(step, name, Len(list)) \in type.children
    BY DEF HasChild
  <2> QED
    BY <1>1, <1>4, <2>3, <2>4
<1> QED
  BY <1>4

\* A name that it does not find is new to the type.
LEMMA ChildNew ==
  ASSUME NEW list \in Lists, ChildrenLead(list), NEW type, type.children \subseteq Identifiers,
         type.kind = "type", NEW name \in Identifiers, ~ HasChild(list, type, name)
  PROVE  name \notin type.children /\ ChildAliases(list, type, name) = {}
<1>1. name \notin Constructors(list, type)
  BY ChildEnds DEF HasChild
<1> QED
  BY <1>1 DEF Constructors

-----------------------------------------------------------------------------
(* The parser's actions                                                        *)

LEMMA RefusedKeeps ==
  ASSUME NamesInvariant, NEW code, RefuseItem(code)
  PROVE  NamesInvariant'
<1>1. /\ nameStage'.phase = "refused" /\ nameStage'.at = nameStage.at
      /\ UNCHANGED <<program, unitItems, inactive, tables, ranges, main>>
  BY DEF RefuseItem
<1>2. NamesTypes'
  BY <1>1 DEF NamesInvariant, NamesTypes, Parsed, Collected
<1>3. \A u \in 1..Parsed' : WellBound(unitItems'[u]) /\ ChildrenLead(unitItems'[u])
  BY <1>1 DEF NamesInvariant, Parsed
<1>4. TablesHold'
  BY <1>1 DEF TablesHold
<1> QED
  BY <1>2, <1>3, <1>4 DEF NamesInvariant

\* What is parsed next, and the list of the unit that it is parsed for.
LEMMA ParsedNext ==
  ASSUME NamesInvariant, nameStage.phase = "parse"
  PROVE  /\ Parsed \in 1..Len(unitItems) /\ Parsed \in 1..Len(program) /\ Parsed \in Nat
         /\ unitItems[Parsed] \in Lists /\ WellBound(unitItems[Parsed]) /\ ChildrenLead(unitItems[Parsed])
         /\ Unit.source \in Seq(Texts)
         /\ nameStage.at <= Len(Unit.source) => Decl \in Texts
         /\ nameStage.at \in Nat /\ nameStage.at + 1 \in Nat \ {0} /\ Len(Unit.source) \in Nat
<1>1. NamesTypes
  BY DEF NamesInvariant
<1>2. Parsed \in 1..Len(program) /\ Parsed \in Nat /\ Parsed \in 1..Parsed
  BY <1>1, TypesOf DEF NamesTypes
<1>3. unitItems[Parsed] \in Lists /\ WellBound(unitItems[Parsed]) /\ ChildrenLead(unitItems[Parsed])
  BY <1>1, <1>2, TypesOf DEF NamesInvariant
<1>4. Unit.source \in Seq(Texts)
  <2>1. program \in Seq([source : Seq(Texts), imports : Seq(Nat)])
    BY <1>1, ProgramsAssumption DEF NamesTypes
  <2>2. program[Parsed] \in [source : Seq(Texts), imports : Seq(Nat)]
    BY <1>2, <2>1, ElementOfSeq
  <2> QED
    BY <2>2 DEF Unit
<1>5. nameStage.at \in Nat \ {0}
  BY <1>1 DEF NamesTypes
<1>6. Len(Unit.source) \in Nat
  BY <1>4, LenProperties
<1>7. ASSUME nameStage.at <= Len(Unit.source) PROVE Decl \in Texts
  <2>1. nameStage.at \in 1..Len(Unit.source)
    BY <1>5, <1>6, <1>7
  <2> QED
    BY <1>4, <2>1, ElementOfSeq DEF Decl
<1> QED
  BY <1>2, <1>3, <1>4, <1>5, <1>6, <1>7 DEF Parsed

\* The fields of a text, by its kind.
LEMMA TextOf ==
  ASSUME NEW text \in Texts
  PROVE  /\ text.kind \in Kinds =>
              /\ text.name \in Identifiers /\ text.public \in BOOLEAN /\ text.children \subseteq Identifiers
         /\ text.kind = "alias" =>
              text.name \in Identifiers /\ text.target \in Identifiers /\ text.public \in BOOLEAN
         /\ text.kind = "child" =>
              /\ text.parent \in Identifiers /\ text.name \in Identifiers
              /\ text.targetParent \in Identifiers /\ text.target \in Identifiers
         /\ text.arm \in Places
<1>1. CASE text \in [kind : Kinds, name : Identifiers, public : BOOLEAN, arm : Places, children : SUBSET Identifiers]
  BY <1>1 DEF Kinds
<1>2. CASE text \in [kind : {"alias"}, name : Identifiers, target : Identifiers, public : BOOLEAN, arm : Places]
  BY <1>2 DEF Kinds
<1>3. CASE text \in [kind : {"child"}, parent : Identifiers, name : Identifiers, targetParent : Identifiers,
                     target : Identifiers, public : BOOLEAN, arm : Places]
  BY <1>3 DEF Kinds
<1>4. CASE text \in [kind : {"mixed"}, name : Identifiers, arm : Places]
  BY <1>4 DEF Kinds
<1> QED
  BY <1>1, <1>2, <1>3, <1>4 DEF Texts

\* An item that fits the items before it is pushed, or refused as a duplicate.
LEMMA PushKeeps ==
  ASSUME NamesInvariant, nameStage.phase = "parse", Decl \in Texts, NEW item \in ItemsLeft, PushItem(item),
         IsAlias(item) /\ item.public =>
           \E j \in 1..Len(Known) : Known[j].binds = item.target /\ Known[j].public,
         item.kind = "child" /\ IsSelected => \E r \in 1..Len(Known) : ChildFits(Known, item, Known[r])
  PROVE  NamesInvariant'
<1>1. NamesTypes /\ \A u \in 1..Parsed : WellBound(unitItems[u]) /\ ChildrenLead(unitItems[u])
  BY DEF NamesInvariant
<1>2. CASE item.binds # NoName /\ Bound(Known, item.binds)
  BY <1>2, RefusedKeeps DEF PushItem
<1>3. CASE ~ (item.binds # NoName /\ Bound(Known, item.binds))
  <2>1. /\ IF IsSelected
           THEN unitItems' = [unitItems EXCEPT ![Parsed] = Append(@, item)] /\ UNCHANGED inactive
           ELSE inactive' = [inactive EXCEPT ![Decl.arm] = Append(@, item)] /\ UNCHANGED unitItems
        /\ nameStage'.phase = "parse" /\ nameStage'.at = nameStage.at + 1
        /\ UNCHANGED <<program, tables, ranges, main>>
    BY <1>3 DEF PushItem, Stage
  <2>2. /\ unitItems' \in Seq(Seq(ItemsLeft)) /\ inactive' \in [Arms -> Seq(ItemsLeft)] /\ Len(unitItems') = Len(unitItems)
        /\ \A u \in 1..Len(unitItems) : WellBound(unitItems'[u]) /\ ChildrenLead(unitItems'[u])
    <3>1. CASE ~ IsSelected
      <4>1. inactive' \in [Arms -> Seq(ItemsLeft)]
        <5> DEFINE more == Append(inactive[Decl.arm], item)
        <5>1. /\ inactive \in [Arms -> Seq(ItemsLeft)] /\ Decl.arm \in Arms
              /\ inactive' = [inactive EXCEPT ![Decl.arm] = more]
          BY <1>1, <2>1, <3>1, TextOf DEF NamesTypes, IsSelected, Places
        <5>2. more \in Seq(ItemsLeft)
          BY <5>1, AppendedOf
        <5> HIDE DEF more
        <5> QED
          BY <5>1, <5>2
      <4> QED
        BY <1>1, <2>1, <3>1, <4>1 DEF NamesTypes, Parsed
    <3>2. CASE IsSelected
      <4> DEFINE list == unitItems[Parsed]
                 more == Append(list, item)
      <4>1. Known = list /\ list \in Lists /\ WellBound(list) /\ ChildrenLead(list) /\ Parsed \in 1..Len(unitItems)
        BY <3>2, ParsedNext DEF Known
      <4>2. WellBound(more)
        BY <1>3, <4>1, WellBoundMore
      <4>3. ChildrenLead(more)
        BY <3>2, <4>1, <4>2, ChildrenLeadMore
      <4>4. more \in Seq(ItemsLeft)
        BY <4>1, ListMore DEF Lists
      <4>5. unitItems' = [unitItems EXCEPT ![Parsed] = more] /\ UNCHANGED inactive
        BY <2>1, <3>2
      <4> HIDE DEF list, more
      <4>6. /\ unitItems' \in Seq(Seq(ItemsLeft)) /\ Len(unitItems') = Len(unitItems)
            /\ \A u \in 1..Len(unitItems) : unitItems'[u] = IF u = Parsed THEN more ELSE unitItems[u]
        BY <1>1, <4>1, <4>4, <4>5, ExceptSeq DEF NamesTypes
      <4> QED
        BY <1>1, <4>2, <4>3, <4>5, <4>6 DEF NamesTypes, Parsed
    <3> QED
      BY <3>1, <3>2
  <2>3. NamesTypes'
    <3>1. nameStage'.at \in Nat \ {0}
      BY <2>1, ParsedNext
    <3> QED
      BY <1>1, <2>1, <2>2, <3>1 DEF NamesTypes, Parsed, Collected
  <2>4. TablesHold'
    BY <2>1 DEF NamesInvariant, TablesHold
  <2> QED
    BY <2>2, <2>3, <2>4 DEF NamesInvariant, Parsed
<1> QED
  BY <1>2, <1>3

LEMMA ItemIn ==
  /\ \A kind \in Kinds, name \in Identifiers, public \in BOOLEAN, children \in SUBSET Identifiers :
       [kind |-> kind, binds |-> name, public |-> public, children |-> children] \in ItemsLeft
  /\ \A name, target \in Identifiers, public \in BOOLEAN :
       [kind |-> "alias", binds |-> name, public |-> public, target |-> target] \in ItemsLeft
  /\ \A name, parent, targetParent, target \in Identifiers, public \in BOOLEAN :
       [kind |-> "child", binds |-> NoName, public |-> public, name |-> name, parent |-> parent,
        targetParent |-> targetParent, target |-> target] \in ItemsLeft
BY DEF ItemsLeft

LEMMA DeclarationKeeps ==
  ASSUME NamesInvariant, ParseDeclaration
  PROVE  NamesInvariant'
<1> DEFINE item == [kind |-> Decl.kind, binds |-> Decl.name, public |-> Decl.public, children |-> Decl.children]
<1>1. nameStage.phase = "parse" /\ Decl \in Texts /\ Decl.kind \in Kinds /\ PushItem(item)
  BY ParsedNext DEF ParseDeclaration, AtDecl
<1>2. item \in ItemsLeft
  BY <1>1, TextOf, ItemIn
<1>3. item.kind \in Kinds
  BY <1>1
<1>4. ~ IsAlias(item) /\ item.kind # "child"
  BY <1>3 DEF IsAlias, Kinds
<1> HIDE DEF item
<1> QED
  BY <1>1, <1>2, <1>4, PushKeeps

LEMMA BuiltinAliasKeeps ==
  ASSUME NamesInvariant, ParseBuiltinAlias
  PROVE  NamesInvariant'
<1> DEFINE item == [kind |-> "alias", binds |-> Decl.name, public |-> FALSE, target |-> Decl.target]
<1>1. /\ nameStage.phase = "parse" /\ Decl \in Texts /\ Decl.kind = "alias"
      /\ (\E code : RefuseItem(code)) \/ PushItem(item)
  BY ParsedNext DEF ParseBuiltinAlias, AtDecl
<1>2. item \in ItemsLeft /\ item.public = FALSE /\ item.kind # "child"
  BY <1>1, TextOf, ItemIn
<1> HIDE DEF item
<1> QED
  BY <1>1, <1>2, PushKeeps, RefusedKeeps

LEMMA PublicAliasKeeps ==
  ASSUME NamesInvariant, ParsePublicAlias
  PROVE  NamesInvariant'
<1> DEFINE item == [kind |-> "alias", binds |-> Decl.name, public |-> TRUE, target |-> Decl.target]
<1>1. /\ nameStage.phase = "parse" /\ Decl \in Texts /\ Decl.kind = "alias"
      /\ \/ \E code : RefuseItem(code)
         \/ PushItem(item) /\ Bound(Known, Decl.target) /\ Binding(Known, Decl.target).public
  BY ParsedNext DEF ParsePublicAlias, AtDecl
<1>2. item \in ItemsLeft /\ item.target = Decl.target /\ item.kind # "child"
  BY <1>1, TextOf, ItemIn
<1>3. Known \in Lists
  BY <1>1, ParsedNext, TextOf DEF Known, IsSelected, Places, NamesInvariant, NamesTypes, Lists
<1>4. ASSUME Bound(Known, Decl.target), Binding(Known, Decl.target).public
      PROVE  \E j \in 1..Len(Known) : Known[j].binds = item.target /\ Known[j].public
  BY <1>2, <1>3, <1>4, BoundOf
<1> HIDE DEF item
<1> QED
  BY <1>1, <1>2, <1>4, PushKeeps, RefusedKeeps

LEMMA ChildAliasKeeps ==
  ASSUME NamesInvariant, ParseChildAlias
  PROVE  NamesInvariant'
<1> DEFINE item == [kind |-> "child", binds |-> NoName, public |-> TRUE, name |-> Decl.name,
                    parent |-> Decl.parent, targetParent |-> Decl.targetParent, target |-> Decl.target]
           parent == Root(Known, Decl.parent)
           other  == Root(Known, Decl.targetParent)
<1>1. /\ nameStage.phase = "parse" /\ Decl \in Texts /\ Decl.kind = "child"
      /\ \/ \E code : RefuseItem(code)
         \/ /\ PushItem(item) /\ HasRoot(Known, Decl.parent) /\ HasRoot(Known, Decl.targetParent)
            /\ parent = other /\ ~ HasChild(Known, parent, Decl.name) /\ HasChild(Known, other, Decl.target)
  BY ParsedNext DEF ParseChildAlias, AtDecl
<1>2. /\ item \in ItemsLeft /\ item.kind = "child" /\ item.name = Decl.name /\ item.parent = Decl.parent
      /\ item.targetParent = Decl.targetParent /\ item.target = Decl.target
      /\ Decl.name \in Identifiers /\ Decl.target \in Identifiers /\ Decl.parent \in AnyName
  BY <1>1, TextOf, ItemIn, NoNameType
<1> HIDE DEF item
<1>3. CASE \E code : RefuseItem(code)
  BY <1>3, RefusedKeeps
<1>4. CASE /\ PushItem(item) /\ HasRoot(Known, Decl.parent) /\ HasRoot(Known, Decl.targetParent)
           /\ parent = other /\ ~ HasChild(Known, parent, Decl.name) /\ HasChild(Known, other, Decl.target)
  <2>1. ~ IsAlias(item)
    BY <1>2 DEF IsAlias
  <2>2. ASSUME IsSelected PROVE \E r \in 1..Len(Known) : ChildFits(Known, item, Known[r])
    <3>1. Known \in Lists /\ WellBound(Known) /\ ChildrenLead(Known)
      BY <1>1, <2>2, ParsedNext DEF Known
    <3>2. parent.kind = "type" /\ parent.kind \in Kinds
      BY <1>4 DEF HasChild, Kinds
    <3>3. PICK r \in 1..Len(Known) : Known[r] = parent
      BY <1>2, <1>4, <3>1, <3>2, RootIs
    <3>4. parent.children \subseteq Identifiers
      BY <3>1, <3>2, <3>3, ItemOf
    <3> HIDE DEF parent, other
    <3>5. Decl.name \notin parent.children /\ ChildAliases(Known, parent, Decl.name) = {}
      BY <1>2, <1>4, <3>1, <3>2, <3>4, ChildNew
    <3>6. Decl.target \in parent.children \/ ChildAliases(Known, parent, Decl.target) # {}
      BY <1>2, <1>4, <3>1, <3>4, ChildFound
    <3>7. ChildFits(Known, item, parent)
      BY <1>2, <1>4, <3>2, <3>5, <3>6 DEF ChildFits, parent, other
    <3> QED
      BY <3>3, <3>7
  <2> QED
    BY <1>1, <1>2, <1>4, <2>1, <2>2, PushKeeps
<1> QED
  BY <1>1, <1>3, <1>4

-----------------------------------------------------------------------------
(* The collection pass                                                         *)

LEMMA PartOfNothing ==
  ASSUME NEW kind, NEW u, NEW begin \in Nat, begin <= Len(tables[kind])
  PROVE  PartHolds(kind, u, begin, begin, 0)
<1>1. 1..0 = {} /\ (begin + 1)..begin = {}
  OBVIOUS
<1> QED
  BY <1>1 DEF PartHolds

\* A part of a table stays as it is when entries are added at the table's end.
LEMMA PartStays ==
  ASSUME NEW kind, UNCHANGED unitItems, Len(tables[kind]) \in Nat, Len(tables'[kind]) \in Nat,
         Len(tables[kind]) <= Len(tables'[kind]),
         \A i \in 1..Len(tables[kind]) : tables'[kind][i] = tables[kind][i],
         NEW u, NEW begin \in Nat, NEW end \in Nat, NEW n, PartHolds(kind, u, begin, end, n)
  PROVE  PartHolds(kind, u, begin, end, n)'
<1>1. /\ begin <= end /\ end <= Len(tables[kind])
      /\ \A i \in (begin + 1)..end : \E p \in 1..n :
           unitItems[u][p].kind = kind /\ tables[kind][i] = Entry(u, unitItems[u][p])
      /\ \A p \in 1..n : unitItems[u][p].kind = kind =>
           \E i \in (begin + 1)..end : tables[kind][i] = Entry(u, unitItems[u][p])
  BY DEF PartHolds
<1>2. end <= Len(tables'[kind])
  BY <1>1
<1>3. \A i \in (begin + 1)..end : tables'[kind][i] = tables[kind][i]
  BY <1>1
<1>4. PartHolds(kind, u, begin, end, n)' <=>
        /\ begin <= end /\ end <= Len(tables'[kind])
        /\ \A i \in (begin + 1)..end : \E p \in 1..n :
             unitItems'[u][p].kind = kind /\ tables'[kind][i] = Entry(u, unitItems'[u][p])
        /\ \A p \in 1..n : unitItems'[u][p].kind = kind =>
             \E i \in (begin + 1)..end : tables'[kind][i] = Entry(u, unitItems'[u][p])
  BY DEF PartHolds, Entry
<1>5. unitItems' = unitItems
  OBVIOUS
<1> QED
  BY <1>1, <1>2, <1>3, <1>4, <1>5

\* The pass at work on one unit.
LEMMA Collecting ==
  ASSUME NamesInvariant, nameStage.phase = "collect", Collected < Len(program)
  PROVE  /\ Collected \in Nat /\ Collected + 1 \in 1..Parsed /\ Parsed = Len(program)
         /\ unitItems[Collected + 1] \in Lists /\ nameStage.at \in Nat \ {0}
         /\ nameStage.at <= Len(unitItems[Collected + 1]) + 1
         /\ \A kind \in Kinds :
              PartHolds(kind, Collected + 1, RangeBegin(kind), Len(tables[kind]), nameStage.at - 1)
         /\ \A u \in 1..Collected : \A kind \in Kinds :
              /\ ranges[u][kind].begin \in Nat /\ ranges[u][kind].end \in Nat
              /\ PartHolds(kind, u, ranges[u][kind].begin, ranges[u][kind].end, Len(unitItems[u]))
         /\ \A kind \in Kinds : RangeBegin(kind) \in Nat
         /\ \A u \in 1..Parsed : WellBound(unitItems[u]) /\ ChildrenLead(unitItems[u])
<1>1. NamesTypes /\ TablesHold /\ \A u \in 1..Parsed : WellBound(unitItems[u]) /\ ChildrenLead(unitItems[u])
  BY DEF NamesInvariant
<1>2. Collected \in Nat /\ Len(program) \in Nat /\ \A u \in 1..Parsed : unitItems[u] \in Lists
  BY <1>1, TypesOf
<1>3. /\ Parsed = Len(program)
      /\ \A u \in 1..Collected : \A kind \in Kinds :
           PartHolds(kind, u, ranges[u][kind].begin, ranges[u][kind].end, Len(unitItems[u]))
      /\ nameStage.at <= Len(unitItems[Collected + 1]) + 1
      /\ \A kind \in Kinds :
           PartHolds(kind, Collected + 1, RangeBegin(kind), Len(tables[kind]), nameStage.at - 1)
  BY <1>1 DEF TablesHold
<1>4. Collected + 1 \in 1..Parsed
  BY <1>2, <1>3
<1>5. ASSUME NEW u \in 1..Collected, NEW kind \in Kinds
      PROVE  ranges[u][kind].begin \in Nat /\ ranges[u][kind].end \in Nat
  <2>1. ranges[u] \in [Kinds -> [begin : Nat, end : Nat]]
    BY <1>1, ElementOfSeq DEF NamesTypes, Collected
  <2> QED
    BY <2>1
<1>6. ASSUME NEW kind \in Kinds PROVE RangeBegin(kind) \in Nat
  <2>1. Collected # 0 => Collected \in 1..Collected
    BY <1>2
  <2> QED
    BY <1>5, <2>1 DEF RangeBegin
<1>7. nameStage.at \in Nat \ {0}
  BY <1>1 DEF NamesTypes
<1> QED
  BY <1>1, <1>2, <1>3, <1>4, <1>5, <1>6, <1>7

LEMMA CollectItemKeeps ==
  ASSUME NamesInvariant, CollectItem
  PROVE  NamesInvariant'
<1> DEFINE u    == Collected + 1
           item == unitItems[u][nameStage.at]
           at   == nameStage.at
<1>1. nameStage.phase = "collect" /\ Collected < Len(program) /\ at <= Len(unitItems[u]) /\ NamesTypes
  BY DEF CollectItem, NamesInvariant
<1>2. /\ Collected \in Nat /\ u \in 1..Parsed /\ Parsed = Len(program) /\ unitItems[u] \in Lists
      /\ at \in 1..Len(unitItems[u]) /\ at \in Nat \ {0} /\ Len(unitItems[u]) \in Nat
  BY <1>1, Collecting, LenOf
<1>3. item \in ItemsLeft
  BY <1>2, ElementOfSeq DEF Lists
<1>4. \A kind \in Kinds : Len(tables[kind]) \in Nat /\ tables[kind] \in Seq(Entries)
  BY <1>1, TypesOf DEF NamesTypes
<1>5. \/ \E code : RefuseItem(code)
      \/ /\ nameStage'.phase = "collect" /\ nameStage'.at = at + 1
         /\ UNCHANGED <<program, unitItems, inactive, ranges, main>>
         /\ \/ item.kind \notin Kinds /\ UNCHANGED tables
            \/ item.kind \in Kinds /\ tables' = [tables EXCEPT ![item.kind] = Append(@, Entry(u, item))]
  BY <1>1 DEF CollectItem, Stage
<1>6. CASE \E code : RefuseItem(code)
  BY <1>6, RefusedKeeps
<1>7. CASE /\ nameStage'.phase = "collect" /\ nameStage'.at = at + 1
           /\ UNCHANGED <<program, unitItems, inactive, ranges, main>>
           /\ \/ item.kind \notin Kinds /\ UNCHANGED tables
              \/ item.kind \in Kinds /\ tables' = [tables EXCEPT ![item.kind] = Append(@, Entry(u, item))]
  <2>1. ASSUME item.kind \in Kinds PROVE Entry(u, item) \in Entries
    <3>1. item.binds \in Identifiers /\ item.public \in BOOLEAN /\ item.children \subseteq Identifiers
      BY <1>2, <2>1, ItemOf DEF Kinds
    <3>2. u \in Nat
      BY <1>2
    <3> HIDE DEF u, item
    <3> QED
      BY <3>1, <3>2 DEF Entry, Entries
  <2>2. ASSUME NEW kind \in Kinds
        PROVE  tables'[kind] = IF kind = item.kind THEN Append(tables[kind], Entry(u, item)) ELSE tables[kind]
    BY <1>1, <1>7 DEF NamesTypes
  <2>3. ASSUME NEW kind \in Kinds
        PROVE  /\ tables'[kind] \in Seq(Entries) /\ Len(tables'[kind]) \in Nat
               /\ Len(tables[kind]) <= Len(tables'[kind])
               /\ \A i \in 1..Len(tables[kind]) : tables'[kind][i] = tables[kind][i]
               /\ kind = item.kind => /\ Len(tables'[kind]) = Len(tables[kind]) + 1
                                      /\ tables'[kind][Len(tables[kind]) + 1] = Entry(u, item)
    <3>1. CASE kind = item.kind
      <4>1. tables'[kind] = Append(tables[kind], Entry(u, item)) /\ Entry(u, item) \in Entries
        BY <2>1, <2>2, <3>1
      <4> HIDE DEF u, item
      <4> QED
        BY <1>4, <4>1, AppendedOf
    <3>2. CASE kind # item.kind
      BY <1>4, <2>2, <3>2
    <3> QED
      BY <3>1, <3>2
  <2>4. tables' \in [Kinds -> Seq(Entries)]
    <3>1. DOMAIN tables' = Kinds /\ tables' = [kind \in DOMAIN tables' |-> tables'[kind]]
      BY <1>1, <1>7 DEF NamesTypes
    <3> QED
      BY <2>3, <3>1
  <2>5. NamesTypes'
    <3>1. nameStage'.at \in Nat \ {0}
      BY <1>2, <1>7
    <3> QED
      BY <1>1, <1>7, <2>4, <3>1 DEF NamesTypes, Parsed, Collected
  <2>6. \A v \in 1..Parsed' : WellBound(unitItems'[v]) /\ ChildrenLead(unitItems'[v])
    BY <1>1, <1>7, Collecting DEF Parsed
  <2>7. ASSUME NEW v \in 1..Collected, NEW kind \in Kinds
        PROVE  PartHolds(kind, v, ranges[v][kind].begin, ranges[v][kind].end, Len(unitItems[v]))'
    <3> DEFINE begin == ranges[v][kind].begin
               end   == ranges[v][kind].end
               n     == Len(unitItems[v])
    <3>1. begin \in Nat /\ end \in Nat /\ PartHolds(kind, v, begin, end, n)
      BY <1>1, Collecting
    <3>2. unitItems' = unitItems /\ ranges' = ranges
      BY <1>7
    <3>3. ASSUME NEW b, NEW e, NEW m, b = begin, e = end, m = n PROVE PartHolds(kind, v, b, e, m)'
      <4>1. b \in Nat /\ e \in Nat /\ PartHolds(kind, v, b, e, m)
        BY <3>1, <3>3
      <4>2. /\ UNCHANGED unitItems /\ Len(tables[kind]) \in Nat /\ Len(tables'[kind]) \in Nat
            /\ Len(tables[kind]) <= Len(tables'[kind])
            /\ \A i \in 1..Len(tables[kind]) : tables'[kind][i] = tables[kind][i]
        BY <1>4, <2>3, <3>2
      <4> QED
        BY <4>1, <4>2, PartStays
    <3>4. ranges'[v][kind].begin = begin /\ ranges'[v][kind].end = end /\ Len(unitItems'[v]) = n
      BY <3>2
    <3> QED
      BY <3>3, <3>4
  <2>8. ASSUME NEW kind \in Kinds
        PROVE  PartHolds(kind, Collected + 1, RangeBegin(kind), Len(tables[kind]), nameStage.at - 1)'
    <3> DEFINE b == RangeBegin(kind)
               e == Len(tables[kind])
    <3>1. b \in Nat /\ PartHolds(kind, u, b, e, at - 1) /\ e \in Nat
      BY <1>1, <1>4, Collecting
    <3>2. /\ b <= e
          /\ \A i \in (b + 1)..e : \E p \in 1..(at - 1) :
               unitItems[u][p].kind = kind /\ tables[kind][i] = Entry(u, unitItems[u][p])
          /\ \A p \in 1..(at - 1) : unitItems[u][p].kind = kind =>
               \E i \in (b + 1)..e : tables[kind][i] = Entry(u, unitItems[u][p])
      BY <3>1 DEF PartHolds
    <3>3. /\ Collected' = Collected /\ RangeBegin(kind)' = b /\ unitItems' = unitItems
          /\ nameStage'.at - 1 = at
      BY <1>2, <1>7 DEF Collected, RangeBegin
    <3>4. /\ \A p \in 1..at : p \in 1..(at - 1) \/ p = at
          /\ \A p \in 1..(at - 1) : p \in 1..at
          /\ at \in 1..at
      BY <1>2
    <3> DEFINE f == Len(tables'[kind])
    <3>5. \A i \in (b + 1)..e : i \in 1..e
      BY <3>1
    <3>6. /\ b <= f /\ f \in Nat /\ (f = e \/ (f = e + 1 /\ kind = item.kind))
          /\ kind = item.kind => f = e + 1 /\ tables'[kind][f] = Entry(u, item)
      <4>1. CASE kind = item.kind
        <5>1. f = e + 1 /\ tables'[kind][f] = Entry(u, item)
          BY <2>3, <4>1
        <5> HIDE DEF b, e, f, item, u
        <5> QED
          BY <3>1, <3>2, <4>1, <5>1
      <4>2. CASE kind # item.kind
        <5>1. f = e
          BY <2>2, <4>2
        <5> HIDE DEF b, e, f, item, u
        <5> QED
          BY <3>1, <3>2, <4>2, <5>1
      <4> QED
        BY <4>1, <4>2
    <3>7. ASSUME NEW i \in (b + 1)..f
          PROVE  \E p \in 1..at : unitItems[u][p].kind = kind /\ tables'[kind][i] = Entry(u, unitItems[u][p])
      <4>1. CASE i \in (b + 1)..e
        BY <2>3, <3>2, <3>4, <3>5, <4>1
      <4>2. CASE i \notin (b + 1)..e
        <5>1. i = e + 1 /\ f = e + 1
          <6> HIDE DEF b, e, f, item, u
          <6> QED
            BY <3>1, <3>6, <4>2
        <5> QED
          BY <3>4, <3>6, <5>1
      <4> QED
        BY <4>1, <4>2
    <3>8. ASSUME NEW p \in 1..at, unitItems[u][p].kind = kind
          PROVE  \E i \in (b + 1)..f : tables'[kind][i] = Entry(u, unitItems[u][p])
      <4>1. CASE p \in 1..(at - 1)
        <5>1. PICK i \in (b + 1)..e : tables[kind][i] = Entry(u, unitItems[u][p])
          BY <3>2, <3>8, <4>1
        <5>2. i \in (b + 1)..f
          <6> HIDE DEF b, e, f, item, u
          <6> QED
            BY <3>1, <3>6
        <5> QED
          BY <2>3, <3>5, <5>1, <5>2
      <4>2. CASE p = at
        <5>1. f = e + 1 /\ tables'[kind][f] = Entry(u, unitItems[u][p])
          BY <3>6, <3>8, <4>2
        <5>2. f \in (b + 1)..f
          <6> HIDE DEF b, e, f, item, u
          <6> QED
            BY <3>1, <3>2, <3>6, <5>1
        <5> QED
          BY <5>1, <5>2
      <4> QED
        BY <3>4, <4>1, <4>2
    <3> HIDE DEF b, e, f
    <3>9. /\ b <= f /\ f <= Len(tables'[kind])
          /\ \A i \in (b + 1)..f : \E p \in 1..at :
               unitItems'[u][p].kind = kind /\ tables'[kind][i] = Entry(u, unitItems'[u][p])
          /\ \A p \in 1..at : unitItems'[u][p].kind = kind =>
               \E i \in (b + 1)..f : tables'[kind][i] = Entry(u, unitItems'[u][p])
      BY <3>3, <3>6, <3>7, <3>8 DEF f
    <3> QED
      BY <3>3, <3>9 DEF PartHolds, Entry, f
  <2>9. TablesHold'
    <3>1. /\ Collected' = Collected /\ program' = program /\ Parsed' = Parsed /\ unitItems' = unitItems
          /\ nameStage'.phase = "collect" /\ nameStage'.at = at + 1
      BY <1>7 DEF Collected, Parsed
    <3>2. nameStage'.at <= Len(unitItems[u]) + 1
      BY <1>2, <3>1
    <3> QED
      BY <1>2, <2>7, <2>8, <3>1, <3>2 DEF TablesHold
  <2> QED
    BY <2>5, <2>6, <2>9 DEF NamesInvariant
<1> QED
  BY <1>5, <1>6, <1>7

LEMMA EndUnitKeeps ==
  ASSUME NamesInvariant, EndUnit
  PROVE  NamesInvariant'
<1>1. /\ nameStage.phase = "parse" /\ inactive' = NothingInactive /\ UNCHANGED <<program, tables, ranges, main>>
      /\ IF Parsed < Len(program)
         THEN unitItems' = Append(unitItems, <<>>) /\ nameStage'.phase = "parse" /\ nameStage'.at = 1
         ELSE unitItems' = unitItems /\ nameStage'.phase = "collect" /\ nameStage'.at = 1
  BY DEF EndUnit, Stage
<1>2. NamesTypes /\ \A u \in 1..Parsed : WellBound(unitItems[u]) /\ ChildrenLead(unitItems[u])
  BY DEF NamesInvariant
<1>3. /\ Parsed \in 1..Len(program) /\ Parsed \in Nat /\ Len(program) \in Nat
      /\ \A u \in 1..Parsed : unitItems[u] \in Lists
  BY <1>1, <1>2, ParsedNext, TypesOf
<1>4. ranges = <<>> /\ tables = [kind \in Kinds |-> <<>>] /\ Collected = 0
  BY <1>1 DEF NamesInvariant, TablesHold, Collected
<1>5. inactive' \in [Arms -> Seq(ItemsLeft)]
  BY <1>1 DEF NothingInactive
<1>6. CASE Parsed < Len(program)
  <2>1. /\ unitItems' = Append(unitItems, <<>>) /\ nameStage'.phase = "parse" /\ nameStage'.at = 1
    BY <1>1, <1>6
  <2>2. /\ unitItems' \in Seq(Seq(ItemsLeft)) /\ Len(unitItems') = Parsed + 1
        /\ \A u \in 1..Parsed : unitItems'[u] = unitItems[u]
        /\ unitItems'[Parsed + 1] = <<>>
    <3>1. unitItems \in Seq(Seq(ItemsLeft)) /\ <<>> \in Seq(ItemsLeft)
      BY <1>2 DEF NamesTypes
    <3> QED
      BY <2>1, <3>1, AppendedOf DEF Parsed
  <2>3. NamesTypes'
    <3>1. Parsed' \in 1..Len(program)
      BY <1>3, <1>6, <2>2 DEF Parsed
    <3> QED
      BY <1>1, <1>2, <1>5, <2>1, <2>2, <3>1 DEF NamesTypes, Collected
  <2>4. WellBound(<<>>) /\ ChildrenLead(<<>>)
    <3>1. 1..Len(<<>>) = {}
      OBVIOUS
    <3> QED
      BY <3>1 DEF WellBound, ChildrenLead
  <2>5. \A u \in 1..Parsed' : WellBound(unitItems'[u]) /\ ChildrenLead(unitItems'[u])
    <3>1. \A u \in 1..Parsed' : u \in 1..Parsed \/ u = Parsed + 1
      BY <1>3, <2>2 DEF Parsed
    <3> QED
      BY <1>2, <2>2, <2>4, <3>1
  <2>6. TablesHold'
    BY <1>1, <1>4, <2>1 DEF TablesHold
  <2> QED
    BY <2>3, <2>5, <2>6 DEF NamesInvariant
<1>7. CASE ~ (Parsed < Len(program))
  <2>1. unitItems' = unitItems /\ nameStage'.phase = "collect" /\ nameStage'.at = 1 /\ Parsed = Len(program)
    BY <1>1, <1>3, <1>7
  <2>2. NamesTypes'
    BY <1>1, <1>2, <1>5, <2>1 DEF NamesTypes, Parsed, Collected
  <2>3. \A u \in 1..Parsed' : WellBound(unitItems'[u]) /\ ChildrenLead(unitItems'[u])
    BY <1>2, <2>1 DEF Parsed
  <2>4. Collected' = 0 /\ Parsed' = Len(program') /\ tables' = tables
    BY <1>1, <1>4, <2>1 DEF Collected, Parsed
  <2>5. ASSUME NEW kind \in Kinds
        PROVE  PartHolds(kind, Collected + 1, RangeBegin(kind), Len(tables[kind]), nameStage.at - 1)'
    <3>1. RangeBegin(kind)' = 0 /\ Len(tables'[kind]) = 0 /\ nameStage'.at - 1 = 0
      BY <1>4, <2>1, <2>4 DEF RangeBegin
    <3>2. 1..0 = {} /\ (0 + 1)..0 = {} /\ 0 <= 0
      OBVIOUS
    <3> QED
      BY <3>1, <3>2 DEF PartHolds
  <2>6. nameStage'.at <= Len(unitItems'[Collected' + 1]) + 1
    <3>1. 1 \in 1..Parsed
      BY <1>3
    <3>2. Len(unitItems[1]) \in Nat
      BY <1>3, <3>1, LenOf
    <3> QED
      BY <2>1, <2>4, <3>2
  <2>7. TablesHold'
    BY <2>1, <2>4, <2>5, <2>6 DEF TablesHold
  <2> QED
    BY <2>2, <2>3, <2>7 DEF NamesInvariant
<1> QED
  BY <1>6, <1>7

LEMMA PartSame ==
  ASSUME UNCHANGED <<tables, unitItems>>, NEW kind, NEW u, NEW begin, NEW end, NEW n,
         PartHolds(kind, u, begin, end, n)
  PROVE  PartHolds(kind, u, begin, end, n)'
BY DEF PartHolds, Entry

LEMMA CollectUnitKeeps ==
  ASSUME NamesInvariant, CollectUnit
  PROVE  NamesInvariant'
<1> DEFINE u == Collected + 1
           part == [kind \in Kinds |-> [begin |-> RangeBegin(kind), end |-> Len(tables[kind])]]
<1>1. /\ nameStage.phase = "collect" /\ Collected < Len(program) /\ nameStage.at > Len(unitItems[u])
      /\ ranges' = Append(ranges, part) /\ nameStage'.phase = "collect" /\ nameStage'.at = 1
      /\ UNCHANGED <<program, unitItems, inactive, tables, main>>
      /\ NamesTypes
  BY DEF CollectUnit, Stage, NamesInvariant
<1>2. /\ Collected \in Nat /\ u \in 1..Parsed /\ Parsed = Len(program) /\ unitItems[u] \in Lists
      /\ nameStage.at \in Nat /\ nameStage.at <= Len(unitItems[u]) + 1 /\ Len(unitItems[u]) \in Nat
      /\ Len(program) \in Nat
  BY <1>1, Collecting, LenOf, TypesOf
<1>3. nameStage.at - 1 = Len(unitItems[u])
  <2> HIDE DEF u
  <2> QED
    BY <1>1, <1>2
<1>4. \A kind \in Kinds : Len(tables[kind]) \in Nat /\ RangeBegin(kind) \in Nat
  BY <1>1, Collecting, TypesOf
<1>5. part \in [Kinds -> [begin : Nat, end : Nat]]
  BY <1>4
<1>6. \A kind \in Kinds : part[kind].begin = RangeBegin(kind) /\ part[kind].end = Len(tables[kind])
  OBVIOUS
<1> HIDE DEF part
<1>7. /\ ranges' \in Seq([Kinds -> [begin : Nat, end : Nat]]) /\ Len(ranges') = Collected + 1
      /\ \A v \in 1..Collected : ranges'[v] = ranges[v]
      /\ ranges'[Collected + 1] = part
  <2>1. ranges \in Seq([Kinds -> [begin : Nat, end : Nat]])
    BY <1>1 DEF NamesTypes
  <2> QED
    BY <1>1, <1>5, <2>1, AppendedOf DEF Collected
<1>8. /\ Collected' = Collected + 1 /\ Parsed' = Parsed /\ program' = program /\ unitItems' = unitItems
      /\ tables' = tables
  BY <1>1, <1>7 DEF Collected, Parsed
<1>9. NamesTypes'
  BY <1>1, <1>2, <1>7, <1>8 DEF NamesTypes
<1>10. \A v \in 1..Parsed' : WellBound(unitItems'[v]) /\ ChildrenLead(unitItems'[v])
  BY <1>1, <1>8, Collecting
<1>11. ASSUME NEW v \in 1..Collected', NEW kind \in Kinds
       PROVE  PartHolds(kind, v, ranges[v][kind].begin, ranges[v][kind].end, Len(unitItems[v]))'
  <2>1. CASE v \in 1..Collected
    <3>1. PartHolds(kind, v, ranges[v][kind].begin, ranges[v][kind].end, Len(unitItems[v]))
      BY <1>1, <2>1, Collecting
    <3>2. ASSUME NEW b, NEW e, NEW n, b = ranges[v][kind].begin, e = ranges[v][kind].end, n = Len(unitItems[v])
          PROVE  PartHolds(kind, v, b, e, n)'
      BY <1>8, <3>1, <3>2, PartSame
    <3>3. ranges'[v] = ranges[v] /\ unitItems'[v] = unitItems[v]
      BY <1>7, <1>8, <2>1
    <3> QED
      BY <3>2, <3>3
  <2>2. CASE v \notin 1..Collected
    <3>1. v = u
      BY <1>2, <1>8, <2>2
    <3>2. PartHolds(kind, u, RangeBegin(kind), Len(tables[kind]), Len(unitItems[u]))
      BY <1>1, <1>3, Collecting
    <3>3. ASSUME NEW b, NEW e, NEW n, b = RangeBegin(kind), e = Len(tables[kind]), n = Len(unitItems[v])
          PROVE  PartHolds(kind, v, b, e, n)'
      BY <1>8, <3>1, <3>2, <3>3, PartSame
    <3>4. ranges'[v][kind].begin = RangeBegin(kind) /\ ranges'[v][kind].end = Len(tables[kind])
      BY <1>6, <1>7, <3>1
    <3>5. unitItems'[v] = unitItems[v]
      BY <1>8
    <3> HIDE DEF u
    <3> QED
      BY <3>3, <3>4, <3>5
  <2> QED
    BY <2>1, <2>2
<1>12. ASSUME NEW kind \in Kinds
       PROVE  PartHolds(kind, Collected + 1, RangeBegin(kind), Len(tables[kind]), nameStage.at - 1)'
  <2>1. RangeBegin(kind)' = Len(tables[kind])
    <3>1. RangeBegin(kind)' = IF Collected' = 0 THEN 0 ELSE ranges'[Collected'][kind].end
      BY DEF RangeBegin
    <3>2. Collected + 1 # 0
      BY <1>2
    <3> QED
      BY <1>6, <1>7, <1>8, <3>1, <3>2
  <2>2. nameStage'.at - 1 = 0
    BY <1>1
  <2>3. 1..0 = {} /\ (Len(tables[kind]) + 1)..Len(tables[kind]) = {} /\ Len(tables[kind]) <= Len(tables[kind])
    BY <1>4
  <2> QED
    BY <1>8, <2>1, <2>2, <2>3 DEF PartHolds
<1>13. Collected' < Len(program') => nameStage'.at <= Len(unitItems'[Collected' + 1]) + 1
  <2> SUFFICES ASSUME Collected + 1 < Len(program) PROVE 1 <= Len(unitItems[(Collected + 1) + 1]) + 1
    BY <1>1, <1>8
  <2>1. (Collected + 1) + 1 \in 1..Parsed
    BY <1>2
  <2>2. Len(unitItems[(Collected + 1) + 1]) \in Nat
    BY <1>1, <2>1, TypesOf, LenOf
  <2> QED
    BY <2>2
<1>14. TablesHold'
  BY <1>1, <1>2, <1>8, <1>11, <1>12, <1>13 DEF TablesHold
<1> QED
  BY <1>9, <1>10, <1>14 DEF NamesInvariant

LEMMA FindMainKeeps ==
  ASSUME NamesInvariant, FindMain
  PROVE  NamesInvariant'
<1>1. /\ nameStage.phase = "collect" /\ Collected = Len(program) /\ NamesTypes /\ TablesHold
      /\ \/ \E code : RefuseItem(code)
         \/ /\ Mains # {} /\ main' = First(Mains) /\ nameStage'.phase = "collected" /\ nameStage'.at = nameStage.at
            /\ UNCHANGED <<program, unitItems, inactive, tables, ranges>>
  BY DEF FindMain, Stage, NamesInvariant
<1>2. CASE \E code : RefuseItem(code)
  BY <1>2, RefusedKeeps
<1>3. CASE /\ Mains # {} /\ main' = First(Mains) /\ nameStage'.phase = "collected" /\ nameStage'.at = nameStage.at
           /\ UNCHANGED <<program, unitItems, inactive, tables, ranges>>
  <2>1. main' \in Nat
    <3>1. Len(tables["function"]) \in Nat
      BY <1>1, TypesOf DEF Kinds
    <3>2. Mains \subseteq Nat
      BY <3>1 DEF Mains
    <3> QED
      BY <1>3, <3>2, FirstOf
  <2>2. NamesTypes'
    BY <1>1, <1>3, <2>1 DEF NamesTypes, Parsed, Collected
  <2>3. \A u \in 1..Parsed' : WellBound(unitItems'[u]) /\ ChildrenLead(unitItems'[u])
    BY <1>3 DEF NamesInvariant, Parsed
  <2>4. Collected' = Collected /\ Parsed' = Parsed /\ program' = program /\ ranges' = ranges
    BY <1>3 DEF Collected, Parsed
  <2>5. ASSUME NEW u \in 1..Collected, NEW kind \in Kinds
        PROVE  PartHolds(kind, u, ranges[u][kind].begin, ranges[u][kind].end, Len(unitItems[u]))'
    <3>1. PartHolds(kind, u, ranges[u][kind].begin, ranges[u][kind].end, Len(unitItems[u]))
      BY <1>1 DEF TablesHold
    <3>2. ASSUME NEW b, NEW e, NEW n, b = ranges[u][kind].begin, e = ranges[u][kind].end, n = Len(unitItems[u])
          PROVE  PartHolds(kind, u, b, e, n)'
      BY <1>3, <3>1, <3>2, PartSame
    <3>3. ranges'[u] = ranges[u] /\ unitItems'[u] = unitItems[u]
      BY <1>3
    <3> QED
      BY <3>2, <3>3
  <2>6. TablesHold'
    BY <1>1, <1>3, <2>4, <2>5 DEF TablesHold
  <2> QED
    BY <2>2, <2>3, <2>6 DEF NamesInvariant
<1> QED
  BY <1>1, <1>2, <1>3

-----------------------------------------------------------------------------
(* The theorems                                                                *)

LEMMA NamesStart ==
  ASSUME NamesInit
  PROVE  NamesInvariant
<1>1. /\ program \in Programs /\ unitItems = <<<<>>>> /\ inactive = NothingInactive /\ ranges = <<>> /\ main = 0
      /\ tables = [kind \in Kinds |-> <<>>] /\ nameStage.phase = "parse" /\ nameStage.at = 1
  BY DEF NamesInit, NoMain
<1>2. Parsed = 1 /\ Collected = 0 /\ unitItems[1] = <<>>
  BY <1>1 DEF Parsed, Collected
<1>3. Len(program) \in Nat /\ 1 \in 1..Len(program)
  <2>1. program \in Seq([source : Seq(Texts), imports : Seq(Nat)]) /\ program # <<>>
    BY <1>1, ProgramsAssumption
  <2>2. Len(program) \in Nat \ {0}
    BY <2>1, EmptySeq
  <2> QED
    BY <2>2
<1>4. /\ unitItems \in Seq(Seq(ItemsLeft)) /\ inactive \in [Arms -> Seq(ItemsLeft)]
      /\ ranges \in Seq([Kinds -> [begin : Nat, end : Nat]])
  BY <1>1 DEF NothingInactive
<1>5. tables \in [Kinds -> Seq(Entries)]
  BY <1>1
<1>6. NamesTypes
  BY <1>1, <1>2, <1>3, <1>4, <1>5 DEF NamesTypes
<1>7. WellBound(<<>>) /\ ChildrenLead(<<>>)
  <2>1. 1..Len(<<>>) = {}
    OBVIOUS
  <2> QED
    BY <2>1 DEF WellBound, ChildrenLead
<1>8. TablesHold
  BY <1>1 DEF TablesHold
<1> QED
  BY <1>2, <1>6, <1>7, <1>8 DEF NamesInvariant

LEMMA NamesKeep ==
  ASSUME NamesInvariant, [NamesNext]_nameVars
  PROVE  NamesInvariant'
<1>1. CASE ParseDeclaration
  BY <1>1, DeclarationKeeps
<1>2. CASE ParseBuiltinAlias \/ RefuseMixedAlias
  BY <1>2, BuiltinAliasKeeps, RefusedKeeps DEF RefuseMixedAlias
<1>3. CASE ParsePublicAlias
  BY <1>3, PublicAliasKeeps
<1>4. CASE ParseChildAlias
  BY <1>4, ChildAliasKeeps
<1>5. CASE EndUnit
  BY <1>5, EndUnitKeeps
<1>6. CASE CollectItem
  BY <1>6, CollectItemKeeps
<1>7. CASE CollectUnit
  BY <1>7, CollectUnitKeeps
<1>8. CASE FindMain
  BY <1>8, FindMainKeeps
<1>9. CASE UNCHANGED nameVars
  <2>1. UNCHANGED <<program, unitItems, inactive, tables, ranges, main, nameStage>>
    BY <1>9 DEF nameVars
  <2>2. NamesTypes'
    BY <2>1 DEF NamesInvariant, NamesTypes, Parsed, Collected
  <2>3. \A u \in 1..Parsed' : WellBound(unitItems'[u]) /\ ChildrenLead(unitItems'[u])
    BY <2>1 DEF NamesInvariant, Parsed
  <2>4. /\ Collected' = Collected /\ Parsed' = Parsed /\ tables' = tables /\ ranges' = ranges
        /\ program' = program /\ nameStage' = nameStage /\ unitItems' = unitItems
    BY <2>1 DEF Collected, Parsed
  <2>5. ASSUME NEW u \in 1..Collected, NEW kind \in Kinds,
               PartHolds(kind, u, ranges[u][kind].begin, ranges[u][kind].end, Len(unitItems[u]))
        PROVE  PartHolds(kind, u, ranges[u][kind].begin, ranges[u][kind].end, Len(unitItems[u]))'
    <3>1. ASSUME NEW b, NEW e, NEW n, b = ranges[u][kind].begin, e = ranges[u][kind].end, n = Len(unitItems[u])
          PROVE  PartHolds(kind, u, b, e, n)'
      BY <2>4, <2>5, <3>1, PartSame
    <3>2. ranges'[u] = ranges[u] /\ unitItems'[u] = unitItems[u]
      BY <2>4
    <3> QED
      BY <3>1, <3>2
  <2>6. ASSUME NEW kind \in Kinds,
               PartHolds(kind, Collected + 1, RangeBegin(kind), Len(tables[kind]), nameStage.at - 1)
        PROVE  PartHolds(kind, Collected + 1, RangeBegin(kind), Len(tables[kind]), nameStage.at - 1)'
    <3>1. RangeBegin(kind)' = RangeBegin(kind)
      BY <2>4 DEF RangeBegin
    <3>2. ASSUME NEW b, NEW e, NEW n, b = RangeBegin(kind), e = Len(tables[kind]), n = nameStage.at - 1
          PROVE  PartHolds(kind, Collected + 1, b, e, n)'
      <4>1. ASSUME NEW v, v = Collected + 1 PROVE PartHolds(kind, v, b, e, n)'
        BY <2>4, <2>6, <3>2, <4>1, PartSame
      <4> QED
        BY <2>4, <4>1
    <3> QED
      BY <2>4, <3>1, <3>2
  <2>7. TablesHold'
    BY <2>4, <2>5, <2>6 DEF NamesInvariant, TablesHold
  <2> QED
    BY <2>2, <2>3, <2>7 DEF NamesInvariant
<1> QED
  BY <1>1, <1>2, <1>3, <1>4, <1>5, <1>6, <1>7, <1>8, <1>9 DEF NamesNext

LEMMA NamesInductive == NamesSpec => []NamesInvariant
<1>1. NamesInit => NamesInvariant
  BY NamesStart
<1>2. NamesInvariant /\ [NamesNext]_nameVars => NamesInvariant'
  BY NamesKeep
<1> QED
  BY <1>1, <1>2, PTL DEF NamesSpec

\* In a collected program every lookup of a type, a function or a global answers what
\* the items of the modules say: the unit's own declaration, through its aliases, or
\* else the one public declaration of its direct imports (Name_Resolve_Type,
\* _Function and _Global, on the tables and ranges that the collection pass filled).
THEOREM LookupFollowsScope == NamesSpec => []LookupMatchesScope
<1>1. NamesInvariant => LookupMatchesScope
  BY InvariantMatchesScope
<1> QED
  BY <1>1, NamesInductive, PTL

\* Every alias that the parser accepted leads somewhere once the program is
\* collected: a public one to a declaration, a builtin's to the builtin or to what
\* takes its name, and a constructor alias to the constructor the parser saw
\* (Name_Resolve_Module_Alias_Name, Name_Find_Enum_Constructor).
THEOREM AcceptedAliasesLead == NamesSpec => []AliasesLead
<1>1. NamesInvariant => AliasesLead
  BY InvariantLeads
<1> QED
  BY <1>1, NamesInductive, PTL
=============================================================================
