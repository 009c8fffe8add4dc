---------------------------- MODULE SeedFlow_proofs ----------------------------
(* What the flow check of the seed compiler lets a body read or return is there, *)
(* for functions, locals and nesting of any size: FlowInvariant, of SeedLoans,   *)
(* is inductive. The proof goes from what the loans of a local promise of one    *)
(* execution (LoanHeld, BorrowedIsLent), over what each change of the facts does *)
(* to facts and execution together (ValueStep, VacateStep, BorrowStep, CopyStep, *)
(* MoveStep, DropStep, WeakerStep), to one lemma for each statement.             *)
EXTENDS SeedLoans, TLAPS, FiniteSetTheorems, SequenceTheorems

-----------------------------------------------------------------------------
(* The references a reference was taken through.                               *)

LEMMA ChainHasItself ==
  ASSUME NEW run, NEW r \in DOMAIN run
  PROVE  r \in Chain(run, r) /\ Chain(run, r) \subseteq DOMAIN run
BY DEF Chain

\* A closed set with r holds the chain of r.
LEMMA ChainWithin ==
  ASSUME NEW run, NEW r, NEW S \in SUBSET DOMAIN run, r \in S,
         \A j \in S : run[j].via \in S \cup {None}
  PROVE  Chain(run, r) \subseteq S
BY DEF Chain

LEMMA ChainClosed ==
  ASSUME NEW run, NEW r, NEW k \in Chain(run, r), run[k].via \in DOMAIN run \ {None}
  PROVE  run[k].via \in Chain(run, r)
<1> SUFFICES ASSUME NEW S \in SUBSET DOMAIN run, r \in S, \A j \in S : run[j].via \in S \cup {None}
             PROVE  run[k].via \in S
  BY DEF Chain
<1> k \in S
  BY DEF Chain
<1> QED
  OBVIOUS

\* Executions linked within their locals.
Linked(run) == \A i \in DOMAIN run : run[i].via \in DOMAIN run \cup {None}

LEMMA ChainOfChain ==
  ASSUME NEW run, Linked(run), None \notin DOMAIN run, NEW r \in DOMAIN run, NEW k \in Chain(run, r)
  PROVE  Chain(run, k) \subseteq Chain(run, r)
<1>1. \A j \in Chain(run, r) : run[j].via \in Chain(run, r) \cup {None}
  BY ChainClosed, ChainHasItself DEF Linked
<1> QED
  BY <1>1, ChainWithin, ChainHasItself

LEMMA ChainStep ==
  ASSUME NEW run, Linked(run), None \notin DOMAIN run, NEW r \in DOMAIN run, run[r].via # None
  PROVE  Chain(run, r) = {r} \cup Chain(run, run[r].via)
<1> DEFINE v == run[r].via
           S == {r} \cup Chain(run, v)
<1>1. v \in DOMAIN run /\ v \in Chain(run, r)
  BY ChainClosed, ChainHasItself DEF Linked
<1>2. S \subseteq Chain(run, r)
  BY <1>1, ChainOfChain, ChainHasItself
<1>3. v \in Chain(run, v) /\ Chain(run, v) \subseteq DOMAIN run
  BY <1>1, ChainHasItself
<1>4. \A j \in Chain(run, v) : run[j].via \in Chain(run, v) \cup {None}
  BY <1>1, <1>3, ChainClosed DEF Linked
<1>5. \A j \in S : run[j].via \in S \cup {None}
  BY <1>3, <1>4
<1>6. S \in SUBSET DOMAIN run /\ r \in S
  BY <1>3
<1> HIDE DEF S
<1>7. Chain(run, r) \subseteq S
  BY <1>5, <1>6, ChainWithin
<1> QED
  BY <1>2, <1>7 DEF S

LEMMA ChainEnd ==
  ASSUME NEW run, NEW r \in DOMAIN run, run[r].via = None
  PROVE  Chain(run, r) = {r}
<1>1. Chain(run, r) \subseteq {r}
  BY ChainWithin
<1> QED
  BY <1>1, ChainHasItself

\* Any other member of a chain is what some member was taken through.
LEMMA ChainLink ==
  ASSUME NEW run, Linked(run), None \notin DOMAIN run, NEW r \in DOMAIN run, NEW j \in Chain(run, r), j # r
  PROVE  \E k \in Chain(run, r) : run[k].via = j
<1> SUFFICES ASSUME \A k \in Chain(run, r) : run[k].via # j PROVE FALSE
  OBVIOUS
<1> DEFINE S == Chain(run, r) \ {j}
<1>1. r \in S /\ S \in SUBSET DOMAIN run
  BY ChainHasItself
<1>2. \A k \in S : run[k].via \in S \cup {None}
  BY <1>1, ChainClosed DEF Linked
<1> HIDE DEF S
<1>3. Chain(run, r) \subseteq S
  BY <1>1, <1>2, ChainWithin
<1> QED
  BY <1>3 DEF S

LEMMA ChainAfter ==
  ASSUME NEW run, Linked(run), None \notin DOMAIN run, NEW r \in DOMAIN run, NEW j \in Chain(run, r), j # r
  PROVE  run[r].via # None /\ j \in Chain(run, run[r].via)
BY ChainStep, ChainEnd

\* The chains of a closed set of references are those of any other execution that
\* takes them through the same.
LEMMA ChainFrame ==
  ASSUME NEW p, NEW q, NEW E, E \subseteq DOMAIN p, E \subseteq DOMAIN q, None \notin E,
         \A j \in E : p[j].via \in E \cup {None} /\ q[j].via = p[j].via,
         NEW r \in E
  PROVE  Chain(q, r) = Chain(p, r) /\ Chain(p, r) \subseteq E
<1>1. Chain(p, r) \subseteq E /\ Chain(q, r) \subseteq E
  BY ChainWithin
<1>2. r \in Chain(p, r) /\ r \in Chain(q, r)
  BY ChainHasItself
<1>3. \A j \in Chain(p, r) : p[j].via \in Chain(p, r) \cup {None}
  BY <1>1, ChainClosed
<1>4. \A j \in Chain(q, r) : q[j].via \in Chain(q, r) \cup {None}
  BY <1>1, ChainClosed
<1>5. Chain(q, r) \subseteq Chain(p, r)
  BY <1>1, <1>2, <1>3, ChainWithin
<1>6. Chain(p, r) \subseteq Chain(q, r)
  BY <1>1, <1>2, <1>4, ChainWithin
<1> QED
  BY <1>1, <1>5, <1>6

-----------------------------------------------------------------------------
(* What facts that agree with an execution say of it.                          *)

Good(ls, run) == ls \in Seq(Facts) /\ Describes(ls, run)

LEMMA ListFacts ==
  ASSUME NEW ls \in Seq(Facts)
  PROVE  /\ Len(ls) \in Nat /\ DOMAIN ls = 1..Len(ls)
         /\ IsFiniteSet(DOMAIN ls) /\ DOMAIN ls \subseteq Nat /\ None \notin DOMAIN ls
         /\ \A i \in DOMAIN ls : ls[i] \in Facts
<1>1. Len(ls) \in Nat /\ DOMAIN ls = 1..Len(ls) /\ \A i \in DOMAIN ls : ls[i] \in Facts
  BY ElementOfSeq, LenProperties
<1> QED
  BY <1>1, FS_Interval DEF None

LEMMA FactFields ==
  ASSUME NEW l \in Facts
  PROVE  /\ l.type \in Types /\ l.mutable \in BOOLEAN /\ l.depth \in Nat /\ l.state \in States
         /\ l.shared \in Nat /\ l.exclusive \in BOOLEAN /\ l.from \in Nat
         /\ l.kind \in {"none", "shared", "exclusive"} /\ l.region \in Nat /\ l.origin \in Nat
BY DEF Facts

LEMMA RunLinked ==
  ASSUME NEW ls, NEW run, Good(ls, run)
  PROVE  /\ DOMAIN run = DOMAIN ls /\ None \notin DOMAIN run /\ Linked(run)
         /\ \A i \in DOMAIN run : run[i] \in Cells
         /\ \A i \in DOMAIN run : run[i].via # None => Live(ls, run, i)
<1>1. DOMAIN run = DOMAIN ls /\ None \notin DOMAIN run /\ \A i \in DOMAIN run : run[i] \in Cells
  BY ListFacts DEF Good, Describes, RunWell
<1>2. \A i \in DOMAIN run : CellWell(ls, run, i)
  BY <1>1 DEF Good, Describes, RunWell
<1>3. \A i \in DOMAIN run : run[i].via # None => Live(ls, run, i)
  BY <1>2 DEF CellWell, Absent, Live
<1>4. \A i \in DOMAIN run : run[i].via # None => run[i].via \in DOMAIN run
  BY <1>1, <1>2, <1>3 DEF CellWell, ViewsWell
<1> QED
  BY <1>1, <1>3, <1>4 DEF Linked

\* The members of the chain of a live reference are like it.
LEMMA ChainUniform ==
  ASSUME NEW ls, NEW run, Good(ls, run), NEW i \in DOMAIN ls, Live(ls, run, i), NEW k \in Chain(run, i)
  PROVE  /\ k \in DOMAIN ls /\ Live(ls, run, k) /\ run[k].target = run[i].target
         /\ ls[i].type = "exclusive" => ls[k].type = "exclusive"
<1> DEFINE S == {j \in DOMAIN ls : /\ Live(ls, run, j) /\ run[j].target = run[i].target
                                   /\ ls[i].type = "exclusive" => ls[j].type = "exclusive"}
<1>1. DOMAIN run = DOMAIN ls
  BY RunLinked
<1>2. \A j \in S : run[j].via \in S \cup {None}
  <2> SUFFICES ASSUME NEW j \in S, run[j].via # None PROVE run[j].via \in S
    OBVIOUS
  <2>1. ViewsWell(ls, run, j)
    BY DEF Good, Describes, RunWell, CellWell
  <2> QED
    BY <2>1 DEF ViewsWell
<1>3. Chain(run, i) \subseteq S
  BY <1>1, <1>2, ChainWithin
<1> QED
  BY <1>3

LEMMA LenderLocal ==
  ASSUME NEW ls, NEW run, Good(ls, run), NEW i \in DOMAIN ls, Live(ls, run, i)
  PROVE  /\ run[i].via # i /\ run[i].target # i /\ Lender(run, i) # i
         /\ Lender(run, i) > 0 => Lender(run, i) \in DOMAIN ls
<1>1. ViewsWell(ls, run, i) /\ i # None
  BY ListFacts DEF Good, Describes, RunWell, CellWell
<1>2. run[i].via # None => run[i].via # i
  BY <1>1 DEF ViewsWell
<1>3. run[i].target # i
  <2> SUFFICES ASSUME run[i].target = i PROVE FALSE
    OBVIOUS
  <2>1. i > 0
    BY ListFacts DEF Good, None
  <2> QED
    BY <1>1, <2>1 DEF ViewsWell, Live
<1> QED
  BY <1>1, <1>2, <1>3 DEF ViewsWell, Lender

\* Whoever holds a loan of a local keeps it from being written, and an exclusive
\* reference from being read.
LEMMA LoanHeld ==
  ASSUME NEW ls, NEW run, Good(ls, run), NEW i \in DOMAIN ls, Live(ls, run, i),
         NEW o \in DOMAIN ls, Lender(run, i) = o
  PROVE  /\ ~ MayWrite(ls[o])
         /\ ls[i].type = "exclusive" => ls[o].exclusive
<1>1. o > 0 /\ ls[i] \in Facts /\ ls[o] \in Facts /\ IsFiniteSet(DOMAIN ls)
  BY ListFacts DEF Good, None
<1>2. Backed(ls, i, o) /\ Counted(ls)
  BY <1>1 DEF Good, Describes, FactWell
<1>3. /\ Cardinality(LoansOf(ls, o, "shared")) <= ls[o].shared
      /\ \A k \in LoansOf(ls, o, "exclusive") : ls[o].exclusive
  BY <1>2 DEF Counted
<1>4. IsFiniteSet(LoansOf(ls, o, "shared"))
  BY <1>1, FS_Subset DEF LoansOf
<1>5. Cardinality(LoansOf(ls, o, "shared")) \in Nat
  BY <1>4, FS_CardinalityType
<1>6. CASE Recorded(ls[i])
  <2>1. ls[i].from = o /\ (ls[i].type = "exclusive" => ls[i].kind = "exclusive")
    BY <1>2, <1>6 DEF Backed
  <2>2. CASE ls[i].kind = "exclusive"
    <3>1. i \in LoansOf(ls, o, "exclusive")
      BY <2>1, <2>2 DEF LoansOf
    <3> QED
      BY <3>1, <1>3 DEF MayWrite
  <2>3. CASE ls[i].kind = "shared"
    <3>1. i \in LoansOf(ls, o, "shared")
      BY <2>1, <2>3 DEF LoansOf
    <3>2. Cardinality(LoansOf(ls, o, "shared")) # 0
      BY <3>1, <1>4, FS_EmptySet
    <3>3. ls[o].shared # 0
      BY <3>2, <1>3, <1>5, <1>1, FactFields
    <3> QED
      BY <3>3, <2>1, <2>3 DEF MayWrite
  <2> QED
    BY <1>1, <1>6, <2>2, <2>3, FactFields DEF Recorded
<1>7. CASE ~ Recorded(ls[i])
  <2>1. \/ ls[i].type # "exclusive" /\ Cardinality(LoansOf(ls, o, "shared")) < ls[o].shared
        \/ ls[o].exclusive
    BY <1>2, <1>7 DEF Backed
  <2> QED
    BY <2>1, <1>1, <1>5, FactFields DEF MayWrite
<1> QED
  BY <1>6, <1>7

\* A local that is viewed, or that a reference was taken through, is lent.
LEMMA BorrowedIsLent ==
  ASSUME NEW ls, NEW run, Good(ls, run), NEW i \in DOMAIN ls, Live(ls, run, i),
         NEW o \in DOMAIN ls, run[i].target = o \/ o \in Chain(run, i) \ {i}
  PROVE  /\ ~ MayWrite(ls[o])
         /\ ls[i].type = "exclusive" => ls[o].exclusive
<1>1. DOMAIN run = DOMAIN ls /\ None \notin DOMAIN run /\ Linked(run)
  BY RunLinked
<1>2. \E k \in Chain(run, i) : Lender(run, k) = o
  <2>1. CASE run[i].target = o
    <3>1. PICK k \in Chain(run, i) : run[k].via = None
      BY DEF Good, Describes, RunWell, Rooted
    <3>2. run[k].target = o
      BY <2>1, ChainUniform
    <3> QED
      BY <3>1, <3>2 DEF Lender
  <2>2. CASE o \in Chain(run, i) \ {i}
    <3>1. PICK k \in Chain(run, i) : run[k].via = o
      BY <1>1, <2>2, ChainLink
    <3> QED
      BY <3>1, <1>1 DEF Lender
  <2> QED
    BY <2>1, <2>2
<1>3. PICK k \in Chain(run, i) : Lender(run, k) = o
  BY <1>2
<1>4. /\ k \in DOMAIN ls /\ Live(ls, run, k)
      /\ ls[i].type = "exclusive" => ls[k].type = "exclusive"
  BY ChainUniform
<1> QED
  BY <1>3, <1>4, LoanHeld

-----------------------------------------------------------------------------
(* Steps of the facts and of an execution.                                     *)

\* A closed set of locals that a step from ls and run to ms and next leaves alone.
Apart(ls, run, ms, next, E) ==
  /\ DOMAIN next = DOMAIN ms
  /\ E \subseteq DOMAIN ls /\ E \subseteq DOMAIN ms
  /\ \A i \in DOMAIN ls \cap DOMAIN ms : ms[i].type = ls[i].type /\ ms[i].depth = ls[i].depth
  /\ \A i \in E : /\ next[i] = run[i]
                  /\ run[i].via \in E \cup {None}
                  /\ run[i].target \in DOMAIN ls => run[i].target \in DOMAIN ms

\* What its cells satisfy does not depend on the others.
LEMMA CellsApart ==
  ASSUME NEW ls, NEW run, Good(ls, run), NEW ms, NEW next, NEW E, Apart(ls, run, ms, next, E)
  PROVE  /\ \A i \in E : /\ CellWell(ms, next, i) /\ Rooted(next, i)
                         /\ Chain(next, i) = Chain(run, i) /\ Chain(run, i) \subseteq E
         /\ \A i, j \in E : Nested(ms, next, i, j)
<1> USE DEF Apart
<1>1. DOMAIN run = DOMAIN ls /\ None \notin DOMAIN run
  BY RunLinked
<1>2. \A i \in E : Chain(next, i) = Chain(run, i) /\ Chain(run, i) \subseteq E
  <2>1. E \subseteq DOMAIN run /\ E \subseteq DOMAIN next /\ None \notin E
    BY <1>1
  <2>2. \A j \in E : run[j].via \in E \cup {None} /\ next[j].via = run[j].via
    OBVIOUS
  <2> QED
    BY <2>1, <2>2, ChainFrame
<1>3. \A i \in E : Live(ms, next, i) <=> Live(ls, run, i)
  BY DEF Live, IsReference
<1>4. \A i \in E : CellWell(ms, next, i)
  <2> SUFFICES ASSUME NEW i \in E PROVE CellWell(ms, next, i)
    OBVIOUS
  <2>1. CellWell(ls, run, i)
    BY DEF Good, Describes, RunWell
  <2>2. ASSUME Live(ms, next, i) PROVE ViewsWell(ms, next, i)
    <3>1. ViewsWell(ls, run, i)
      BY <2>1, <2>2, <1>3 DEF CellWell
    <3>2. next[i].target # None
      BY <3>1 DEF ViewsWell
    <3>3. ASSUME next[i].target > 0
          PROVE  /\ next[i].target \in DOMAIN ms /\ ~ IsReference(ms[next[i].target])
                 /\ ms[next[i].target].depth <= ms[i].depth
      BY <3>1, <3>3 DEF ViewsWell, IsReference
    <3>4. ASSUME next[i].via # None
          PROVE  /\ next[i].via \in DOMAIN ms \ {i} /\ Live(ms, next, next[i].via)
                 /\ next[next[i].via].target = next[i].target
                 /\ ms[next[i].via].depth <= ms[i].depth
                 /\ ms[i].type = "exclusive" => ms[next[i].via].type = "exclusive"
      BY <3>1, <3>4, <1>3 DEF ViewsWell
    <3> QED
      BY <3>2, <3>3, <3>4 DEF ViewsWell
  <2> QED
    BY <2>1, <2>2 DEF CellWell, IsReference
<1>5. \A i \in E : Rooted(next, i)
  BY <1>2 DEF Good, Describes, RunWell, Rooted
<1>6. \A i, j \in E : Nested(ms, next, i, j)
  <2> SUFFICES ASSUME NEW i \in E, NEW j \in E PROVE Nested(ms, next, i, j)
    OBVIOUS
  <2>1. Nested(ls, run, i, j)
    BY DEF Good, Describes, RunWell
  <2> QED
    BY <2>1, <1>2, <1>3 DEF Nested
<1> QED
  BY <1>2, <1>4, <1>5, <1>6

\* A local that is no reference receives a value or loses it.
LEMMA ValueStep ==
  ASSUME NEW ls, NEW run, Good(ls, run), NEW x \in DOMAIN ls, ~ IsReference(ls[x]),
         NEW state \in States, NEW value \in BOOLEAN, state = "initialized" => value
  PROVE  Good([ls EXCEPT ![x] = [@ EXCEPT !.state = state]],
              [run EXCEPT ![x] = [value |-> value, target |-> None, via |-> None, stale |-> FALSE]])
<1> DEFINE ms   == [ls EXCEPT ![x] = [@ EXCEPT !.state = state]]
           cell == [value |-> value, target |-> None, via |-> None, stale |-> FALSE]
           next == [run EXCEPT ![x] = cell]
<1>1. ls \in Seq(Facts) /\ \A i \in DOMAIN ls : ls[i] \in Facts
  BY ListFacts DEF Good
<1>2. /\ DOMAIN run = DOMAIN ls /\ None \notin DOMAIN run /\ Linked(run)
      /\ \A i \in DOMAIN run : run[i] \in Cells
      /\ \A i \in DOMAIN run : run[i].via # None => Live(ls, run, i)
  BY RunLinked
<1>3. [ls[x] EXCEPT !.state = state] \in Facts
  BY <1>1 DEF Facts
<1>4. ms \in Seq(Facts)
  BY <1>1, <1>3, ExceptSeq
<1>5. cell \in Cells
  BY DEF Cells, None
<1>6. next \in [DOMAIN ms -> Cells] /\ DOMAIN next = DOMAIN ms /\ DOMAIN ms = DOMAIN ls
  BY <1>2, <1>5 DEF Good, Describes, RunWell
<1>7. \A i \in DOMAIN ls : /\ ms[i].type = ls[i].type /\ ms[i].depth = ls[i].depth
                           /\ ms[i].shared = ls[i].shared /\ ms[i].exclusive = ls[i].exclusive
                           /\ ms[i].from = ls[i].from /\ ms[i].kind = ls[i].kind
                           /\ ms[i].region = ls[i].region /\ ms[i].origin = ls[i].origin
                           /\ i # x => ms[i].state = ls[i].state
  BY <1>1 DEF Facts
<1>8. ms[x].state = state
  BY <1>1 DEF Facts
<1>9. \A i \in DOMAIN ls \ {x} : next[i] = run[i]
  BY <1>2
<1>10. next[x] = cell
  BY <1>2
<1> HIDE DEF ms, next
<1>11. \A i \in DOMAIN ls \ {x} : run[i].via # x
  <2> SUFFICES ASSUME NEW i \in DOMAIN ls \ {x}, run[i].via = x PROVE FALSE
    OBVIOUS
  <2>1. Live(ls, run, i) /\ CellWell(ls, run, i)
    BY <1>2 DEF Good, Describes, RunWell
  <2> QED
    BY <1>2, <2>1 DEF CellWell, ViewsWell, Live
<1>12. /\ \A i \in DOMAIN ls \ {x} : CellWell(ms, next, i) /\ Rooted(next, i)
       /\ \A i, j \in DOMAIN ls \ {x} : Nested(ms, next, i, j)
  <2> DEFINE E == DOMAIN ls \ {x}
  <2>1. \A i \in E : next[i] = run[i] /\ run[i].via \in E \cup {None}
    BY <1>2, <1>9, <1>11 DEF Linked
  <2>2. Apart(ls, run, ms, next, E)
    BY <2>1, <1>6, <1>7 DEF Apart
  <2> QED
    BY <2>2, CellsApart
<1>13. CellWell(ms, next, x)
  <2>1. ~ value => cell = Absent
    BY DEF Absent
  <2>2. ~ Live(ms, next, x) /\ ~ cell.stale /\ cell.target = None /\ cell.via = None /\ cell.value = value
    BY <1>7 DEF Live, IsReference
  <2> HIDE DEF cell
  <2> QED
    BY <2>1, <2>2, <1>10 DEF CellWell
<1>14. Rooted(next, x)
  BY <1>6, <1>10, ChainHasItself DEF Rooted
<1>15. \A i \in DOMAIN ls : Live(ms, next, i) <=> Live(ls, run, i)
  BY <1>7, <1>9 DEF Live, IsReference
<1>16. \A i \in DOMAIN ls : ~ Live(ms, next, x)
  BY <1>7 DEF Live, IsReference
<1>17. RunWell(ms, next)
  BY <1>6, <1>12, <1>13, <1>14, <1>16 DEF RunWell, Nested
<1>18. \A o, mode : LoansOf(ms, o, mode) = LoansOf(ls, o, mode)
  BY <1>6, <1>7 DEF LoansOf
<1>19. Counted(ms)
  BY <1>6, <1>7, <1>18 DEF Counted, Good, Describes
<1>20. \A i \in DOMAIN ls : FactWell(ms, next, i)
  <2> SUFFICES ASSUME NEW i \in DOMAIN ls PROVE FactWell(ms, next, i)
    OBVIOUS
  <2>1. FactWell(ls, run, i)
    BY DEF Good, Describes
  <2>2. CASE i = x
    <3>1. ~ Live(ls, run, x)
      BY DEF Live
    <3> QED
      BY <2>1, <2>2, <3>1, <1>7, <1>8, <1>10, <1>15 DEF FactWell, Recorded
  <2>3. CASE i # x
    <3>1. next[i] = run[i] /\ Lender(next, i) = Lender(run, i)
      BY <2>3, <1>9 DEF Lender
    <3>2. Live(ls, run, i) /\ Lender(run, i) > 0 => Lender(run, i) \in DOMAIN ls
      BY LenderLocal
    <3>3. Live(ls, run, i) /\ Lender(run, i) > 0 => Backed(ms, i, Lender(run, i))
      BY <2>1, <3>2, <1>7, <1>18 DEF FactWell, Backed, Recorded
    <3> QED
      BY <2>1, <2>3, <3>1, <3>3, <1>6, <1>7, <1>15 DEF FactWell, Recorded
  <2> QED
    BY <2>2, <2>3
<1> QED
  BY <1>4, <1>6, <1>17, <1>19, <1>20 DEF Good, Describes, ms, next

\* What a reference d leaves when it gives its loan back and its value is gone.
Vacated(ls, d) ==
  [ReleaseLoan(ls, d) EXCEPT ![d] = [Referring(@, None, "none", NoRegion, None) EXCEPT !.state = "moved"]]

LEMMA NoneType == None \in Nat /\ NoRegion \in Nat
BY FlowAssumption DEF None, NoRegion

LEMMA ReturnedFields ==
  ASSUME NEW l \in Facts, NEW mode \in {"shared", "exclusive"}
  PROVE  /\ Returned(l, mode) \in Facts
         /\ Returned(l, mode).type = l.type /\ Returned(l, mode).mutable = l.mutable
         /\ Returned(l, mode).depth = l.depth /\ Returned(l, mode).state = l.state
         /\ Returned(l, mode).from = l.from /\ Returned(l, mode).kind = l.kind
         /\ Returned(l, mode).region = l.region /\ Returned(l, mode).origin = l.origin
         /\ Returned(l, mode).shared =
              IF mode = "shared" THEN IF l.shared = 0 THEN 0 ELSE l.shared - 1 ELSE l.shared
         /\ Returned(l, mode).exclusive = (mode # "exclusive" /\ l.exclusive)
<1>1. CASE mode = "exclusive"
  BY <1>1 DEF Returned, Facts
<1>2. CASE mode = "shared"
  BY <1>2 DEF Returned, Facts
<1> QED
  BY <1>1, <1>2

LEMMA ReferringFields ==
  ASSUME NEW l \in Facts, NEW from \in Nat, NEW kind \in {"none", "shared", "exclusive"}, NEW region \in Nat,
         NEW origin \in Nat, NEW state \in States
  PROVE  LET m == [Referring(l, from, kind, region, origin) EXCEPT !.state = state] IN
         /\ m \in Facts
         /\ m.type = l.type /\ m.mutable = l.mutable /\ m.depth = l.depth /\ m.state = state
         /\ m.shared = l.shared /\ m.exclusive = l.exclusive
         /\ m.from = from /\ m.kind = kind /\ m.region = region /\ m.origin = origin
BY DEF Referring, Facts

\* What a step may leave of a local.
SameValue(l, m) == m.state = l.state
SameLoan(l, m)  == m.from = l.from /\ m.kind = l.kind /\ m.region = l.region /\ m.origin = l.origin
SameCount(l, m) == m.shared = l.shared /\ m.exclusive = l.exclusive

LEMMA VacatedFields ==
  ASSUME NEW ls \in Seq(Facts), NEW d \in DOMAIN ls, ls[d].from # d
  PROVE  LET ms == Vacated(ls, d) IN
         /\ ms \in Seq(Facts) /\ DOMAIN ms = DOMAIN ls /\ Len(ms) = Len(ls) /\ Alike(ls, ms)
         /\ ms[d].state = "moved" /\ ms[d].from = None /\ ms[d].kind = "none" /\ SameCount(ls[d], ms[d])
         /\ \A i \in DOMAIN ls \ {d} : SameValue(ls[i], ms[i]) /\ SameLoan(ls[i], ms[i])
         /\ \A i \in DOMAIN ls \ {d} :
              ~ (Recorded(ls[d]) /\ ls[d].from = i) => SameCount(ls[i], ms[i])
         /\ \A i \in DOMAIN ls \ {d} : Recorded(ls[d]) /\ ls[d].from = i =>
              /\ ms[i].shared = IF ls[d].kind = "shared" THEN IF ls[i].shared = 0 THEN 0 ELSE ls[i].shared - 1
                                ELSE ls[i].shared
              /\ ms[i].exclusive = (ls[d].kind # "exclusive" /\ ls[i].exclusive)
<1> DEFINE o  == ls[d].from
           ms == Vacated(ls, d)
           l  == [Referring(ls[d], None, "none", NoRegion, None) EXCEPT !.state = "moved"]
<1>1. Len(ls) \in Nat /\ DOMAIN ls = 1..Len(ls) /\ \A i \in DOMAIN ls : ls[i] \in Facts
  BY ListFacts
<1>2. /\ l \in Facts
      /\ l.type = ls[d].type /\ l.mutable = ls[d].mutable /\ l.depth = ls[d].depth /\ l.state = "moved"
      /\ l.shared = ls[d].shared /\ l.exclusive = ls[d].exclusive /\ l.from = None /\ l.kind = "none"
  <2>1. "none" \in {"none", "shared", "exclusive"} /\ "moved" \in States
    BY DEF States
  <2> QED
    BY <1>1, <2>1, NoneType, ReferringFields
<1>3. CASE Recorded(ls[d]) /\ o \in DOMAIN ls
  <2> DEFINE b == Returned(ls[o], ls[d].kind)
  <2>1. ls[d].kind \in {"shared", "exclusive"}
    BY <1>1, <1>3, FactFields DEF Recorded
  <2>2. /\ b \in Facts
        /\ b.type = ls[o].type /\ b.mutable = ls[o].mutable /\ b.depth = ls[o].depth /\ b.state = ls[o].state
        /\ b.from = ls[o].from /\ b.kind = ls[o].kind /\ b.region = ls[o].region /\ b.origin = ls[o].origin
        /\ b.shared = IF ls[d].kind = "shared" THEN IF ls[o].shared = 0 THEN 0 ELSE ls[o].shared - 1 ELSE ls[o].shared
        /\ b.exclusive = (ls[d].kind # "exclusive" /\ ls[o].exclusive)
    BY <1>1, <1>3, <2>1, ReturnedFields
  <2>3. ms = [[ls EXCEPT ![o] = b] EXCEPT ![d] = l]
    BY <1>1, <1>3 DEF Vacated, ReleaseLoan, Recorded, Referring
  <2> HIDE DEF b, l, ms
  <2>4. [ls EXCEPT ![o] = b] \in Seq(Facts)
    BY <1>3, <2>2, ExceptSeq
  <2>5. /\ ms \in Seq(Facts) /\ DOMAIN ms = DOMAIN ls
        /\ ms[d] = l /\ ms[o] = b /\ \A i \in DOMAIN ls \ {d, o} : ms[i] = ls[i]
    BY <1>1, <1>2, <1>3, <2>3, <2>4, ExceptSeq
  <2>6. Len(ms) = Len(ls)
    BY <2>5, <1>1, LenProperties
  <2>7. Alike(ls, ms)
    BY <2>5, <2>2, <1>2 DEF Alike
  <2> QED
    BY <2>2, <2>5, <2>6, <2>7, <1>2, <1>3 DEF ms, SameCount, SameValue, SameLoan
<1>4. CASE ~ (Recorded(ls[d]) /\ o \in DOMAIN ls)
  <2>1. ms = [ls EXCEPT ![d] = l]
    BY <1>1, <1>4 DEF Vacated, ReleaseLoan, Recorded, Referring
  <2> HIDE DEF l, ms
  <2>2. ms \in Seq(Facts) /\ DOMAIN ms = DOMAIN ls /\ ms[d] = l /\ \A i \in DOMAIN ls \ {d} : ms[i] = ls[i]
    BY <1>1, <1>2, <2>1, ExceptSeq
  <2>3. Len(ms) = Len(ls)
    BY <2>2, <1>1, LenProperties
  <2>4. Alike(ls, ms)
    BY <2>2, <1>2 DEF Alike
  <2> QED
    BY <2>2, <2>3, <2>4, <1>2, <1>4 DEF ms, SameCount, SameValue, SameLoan
<1> QED
  BY <1>3, <1>4

LEMMA LoansFinite ==
  ASSUME NEW ls \in Seq(Facts), NEW o, NEW mode
  PROVE  IsFiniteSet(LoansOf(ls, o, mode)) /\ Cardinality(LoansOf(ls, o, mode)) \in Nat
BY ListFacts, FS_Subset, FS_CardinalityType DEF LoansOf

LEMMA FactKept ==
  ASSUME NEW ls, NEW run, NEW ms, NEW next, NEW i, FactWell(ls, run, i), next[i] = run[i],
         ms[i].type = ls[i].type, SameValue(ls[i], ms[i]), SameLoan(ls[i], ms[i]), DOMAIN ls \subseteq DOMAIN ms,
         Live(ls, run, i) /\ Lender(run, i) > 0 => Backed(ms, i, Lender(run, i))
  PROVE  FactWell(ms, next, i)
<1>1. Live(ms, next, i) <=> Live(ls, run, i)
  BY DEF Live, IsReference
<1>2. Lender(next, i) = Lender(run, i)
  BY DEF Lender
<1> QED
  BY <1>1, <1>2 DEF FactWell, SameValue, SameLoan, Recorded

\* A reference that is not lent gives its loan back and loses its value.
LEMMA VacateStep ==
  ASSUME NEW ls, NEW run, Good(ls, run), NEW d \in DOMAIN ls, IsReference(ls[d]), MayWrite(ls[d])
  PROVE  Good(Vacated(ls, d), [run EXCEPT ![d] = Absent])
<1> DEFINE ms   == Vacated(ls, d)
           next == [run EXCEPT ![d] = Absent]
           o    == ls[d].from
<1>1. ls \in Seq(Facts) /\ (\A i \in DOMAIN ls : ls[i] \in Facts) /\ None \notin DOMAIN ls
  BY ListFacts DEF Good
<1>2. /\ DOMAIN run = DOMAIN ls /\ None \notin DOMAIN run /\ Linked(run)
      /\ \A i \in DOMAIN run : run[i] \in Cells
      /\ \A i \in DOMAIN run : run[i].via # None => Live(ls, run, i)
  BY RunLinked
<1>3. Recorded(ls[d]) => Live(ls, run, d) /\ o = Lender(run, d) /\ o \in DOMAIN ls /\ o # d
  BY LenderLocal DEF Good, Describes, FactWell
<1>4. o # d
  BY <1>1, <1>3 DEF Good, Describes, FactWell, Recorded
<1>5. /\ ms \in Seq(Facts) /\ DOMAIN ms = DOMAIN ls /\ Alike(ls, ms)
      /\ ms[d].state = "moved" /\ ms[d].from = None /\ ms[d].kind = "none" /\ SameCount(ls[d], ms[d])
      /\ \A i \in DOMAIN ls \ {d} : SameValue(ls[i], ms[i]) /\ SameLoan(ls[i], ms[i])
      /\ \A i \in DOMAIN ls \ {d} : ~ (Recorded(ls[d]) /\ o = i) => SameCount(ls[i], ms[i])
      /\ \A i \in DOMAIN ls \ {d} : Recorded(ls[d]) /\ o = i =>
           /\ ms[i].shared = IF ls[d].kind = "shared" THEN IF ls[i].shared = 0 THEN 0 ELSE ls[i].shared - 1
                             ELSE ls[i].shared
           /\ ms[i].exclusive = (ls[d].kind # "exclusive" /\ ls[i].exclusive)
  BY <1>1, <1>4, VacatedFields
<1>6. Absent \in Cells
  BY DEF Absent, Cells, None
<1>7. next \in [DOMAIN ms -> Cells] /\ DOMAIN next = DOMAIN ms
  BY <1>2, <1>5, <1>6 DEF Good, Describes, RunWell
<1>8. next[d] = Absent /\ \A i \in DOMAIN ls \ {d} : next[i] = run[i]
  BY <1>2
<1> HIDE DEF ms, next
\* d lends to nobody.
<1>9. \A i \in DOMAIN ls : Live(ls, run, i) => Lender(run, i) # d
  BY LoanHeld
<1>10. \A i \in DOMAIN ls : run[i].via # d
  BY <1>1, <1>2, <1>9 DEF Lender
<1>11. /\ \A i \in DOMAIN ls \ {d} : CellWell(ms, next, i) /\ Rooted(next, i)
       /\ \A i, j \in DOMAIN ls \ {d} : Nested(ms, next, i, j)
  <2> DEFINE E == DOMAIN ls \ {d}
  <2>1. \A i \in E : next[i] = run[i] /\ run[i].via \in E \cup {None}
    BY <1>2, <1>8, <1>10 DEF Linked
  <2>2. Apart(ls, run, ms, next, E)
    BY <2>1, <1>5, <1>7 DEF Apart, Alike
  <2> QED
    BY <2>2, CellsApart
<1>12. ~ Live(ms, next, d) /\ Absent.via = None /\ Absent.target = None /\ ~ Absent.stale /\ ~ Absent.value
  BY <1>8 DEF Live, Absent
<1>13. CellWell(ms, next, d)
  BY <1>8, <1>12 DEF CellWell
<1>14. Rooted(next, d)
  BY <1>5, <1>7, <1>8, <1>12, ChainHasItself DEF Rooted
<1>15. RunWell(ms, next)
  BY <1>5, <1>7, <1>11, <1>12, <1>13, <1>14 DEF RunWell, Nested
<1>16. \A i \in DOMAIN ls \ {d} :
         /\ Live(ms, next, i) <=> Live(ls, run, i)
         /\ Lender(next, i) = Lender(run, i)
         /\ Recorded(ms[i]) <=> Recorded(ls[i])
         /\ ms[i].type = ls[i].type
  BY <1>5, <1>8 DEF Live, IsReference, Alike, Lender, SameLoan, Recorded
<1>17. ~ Recorded(ms[d])
  BY <1>5 DEF Recorded
<1>18. \A p \in DOMAIN ls : \A mode : LoansOf(ms, p, mode) = LoansOf(ls, p, mode) \ {d}
  BY <1>1, <1>5 DEF LoansOf, SameLoan
\* What is counted on a local loses at most the loan of d.
<1>19. ASSUME NEW p \in DOMAIN ls
       PROVE  /\ Cardinality(LoansOf(ls, p, "shared")) \in Nat /\ Cardinality(LoansOf(ms, p, "shared")) \in Nat
              /\ ls[p].shared \in Nat /\ ms[p].shared \in Nat
              /\ Cardinality(LoansOf(ls, p, "shared")) <= ls[p].shared
              /\ \/ ms[p].shared = ls[p].shared /\ LoansOf(ms, p, "shared") = LoansOf(ls, p, "shared")
                 \/ /\ ms[p].shared = ls[p].shared - 1
                    /\ Cardinality(LoansOf(ms, p, "shared")) = Cardinality(LoansOf(ls, p, "shared")) - 1
              /\ \/ ms[p].exclusive = ls[p].exclusive /\ LoansOf(ms, p, "exclusive") = LoansOf(ls, p, "exclusive")
                 \/ LoansOf(ms, p, "exclusive") = {} /\ LoansOf(ls, p, "exclusive") = {d}
  <2>1. /\ Cardinality(LoansOf(ls, p, "shared")) \in Nat /\ Cardinality(LoansOf(ms, p, "shared")) \in Nat
        /\ IsFiniteSet(LoansOf(ls, p, "shared")) /\ ls[p].shared \in Nat /\ ms[p].shared \in Nat
    BY <1>1, <1>5, LoansFinite, ListFacts, FactFields
  <2>2. /\ Cardinality(LoansOf(ls, p, "shared")) <= ls[p].shared
        /\ \A k \in LoansOf(ls, p, "exclusive") : ls[p].exclusive /\ LoansOf(ls, p, "exclusive") = {k}
    BY DEF Good, Describes, Counted
  <2>3. CASE d \in LoansOf(ls, p, "shared")
    <3>1. Recorded(ls[d]) /\ o = p /\ ls[d].kind = "shared" /\ p # d
      BY <1>1, <1>4, <2>3 DEF LoansOf, Recorded
    <3>2. Cardinality(LoansOf(ms, p, "shared")) = Cardinality(LoansOf(ls, p, "shared")) - 1
      BY <1>18, <2>1, <2>3, FS_RemoveElement
    <3>3. ms[p].shared = ls[p].shared - 1 /\ ms[p].exclusive = ls[p].exclusive
      BY <3>1, <3>2, <2>1, <2>2, <1>1, <1>5, FactFields
    <3>4. LoansOf(ms, p, "exclusive") = LoansOf(ls, p, "exclusive")
      BY <1>18, <3>1 DEF LoansOf
    <3> QED
      BY <2>1, <2>2, <3>2, <3>3, <3>4
  <2>4. CASE d \in LoansOf(ls, p, "exclusive")
    <3>1. Recorded(ls[d]) /\ o = p /\ ls[d].kind = "exclusive" /\ p # d
      BY <1>1, <1>4, <2>4 DEF LoansOf, Recorded
    <3>2. LoansOf(ms, p, "shared") = LoansOf(ls, p, "shared")
      BY <1>18, <3>1 DEF LoansOf
    <3>3. ms[p].shared = ls[p].shared
      BY <3>1, <1>5
    <3>4. LoansOf(ls, p, "exclusive") = {d} /\ LoansOf(ms, p, "exclusive") = {}
      BY <1>18, <2>2, <2>4
    <3> QED
      BY <2>1, <2>2, <3>2, <3>3, <3>4
  <2>5. CASE d \notin LoansOf(ls, p, "shared") \cup LoansOf(ls, p, "exclusive")
    <3>1. /\ LoansOf(ms, p, "shared") = LoansOf(ls, p, "shared")
          /\ LoansOf(ms, p, "exclusive") = LoansOf(ls, p, "exclusive")
      BY <1>18, <2>5
    <3>2. ~ (Recorded(ls[d]) /\ o = p)
      BY <2>5, <1>1, FactFields DEF LoansOf, Recorded
    <3>3. SameCount(ls[p], ms[p])
      BY <3>2, <1>5
    <3> QED
      BY <2>1, <2>2, <3>1, <3>3 DEF SameCount
  <2> QED
    BY <2>3, <2>4, <2>5
<1>20. Counted(ms)
  <2> SUFFICES ASSUME NEW p \in DOMAIN ls
               PROVE  /\ Cardinality(LoansOf(ms, p, "shared")) <= ms[p].shared
                      /\ \A k \in LoansOf(ms, p, "exclusive") : ms[p].exclusive /\ LoansOf(ms, p, "exclusive") = {k}
    BY <1>5 DEF Counted
  <2>1. \A k \in LoansOf(ls, p, "exclusive") : ls[p].exclusive /\ LoansOf(ls, p, "exclusive") = {k}
    BY DEF Good, Describes, Counted
  <2> QED
    BY <2>1, <1>19
<1>21. \A i \in DOMAIN ls : FactWell(ms, next, i)
  <2> SUFFICES ASSUME NEW i \in DOMAIN ls PROVE FactWell(ms, next, i)
    OBVIOUS
  <2>1. CASE i = d
    BY <2>1, <1>5, <1>12, <1>17 DEF FactWell
  <2>2. CASE i # d
    <3>1. FactWell(ls, run, i) /\ SameValue(ls[i], ms[i]) /\ SameLoan(ls[i], ms[i]) /\ DOMAIN ms = DOMAIN ls
      BY <2>2, <1>5 DEF Good, Describes
    <3>3. next[i] = run[i] /\ (Recorded(ms[i]) <=> Recorded(ls[i])) /\ ms[i].type = ls[i].type
      BY <2>2, <1>8, <1>16
    <3>2. ASSUME Live(ls, run, i), Lender(run, i) > 0 PROVE Backed(ms, i, Lender(run, i))
      <4> DEFINE p == Lender(run, i)
      <4>1. p \in DOMAIN ls /\ Backed(ls, i, p)
        BY <3>1, <3>2, LenderLocal DEF FactWell
      <4> HIDE DEF p
      <4>2. ASSUME Recorded(ls[i]) PROVE Backed(ms, i, p)
        BY <4>1, <4>2, <3>1, <3>3 DEF Backed, SameLoan
      <4>3. ASSUME ~ Recorded(ls[i]) PROVE Backed(ms, i, p)
        <5>1. \/ ls[i].type # "exclusive" /\ Cardinality(LoansOf(ls, p, "shared")) < ls[p].shared
              \/ ls[p].exclusive /\ LoansOf(ls, p, "exclusive") = {}
          BY <4>1, <4>3 DEF Backed
        <5>2. \/ ls[i].type # "exclusive" /\ Cardinality(LoansOf(ms, p, "shared")) < ms[p].shared
              \/ ms[p].exclusive /\ LoansOf(ms, p, "exclusive") = {}
          BY <5>1, <4>1, <1>19
        <5> QED
          BY <5>2, <4>3, <3>3 DEF Backed
      <4> QED
        BY <4>2, <4>3 DEF p
    <3> QED
      BY <3>1, <3>2, <3>3, FactKept
  <2> QED
    BY <2>1, <2>2
<1> QED
  BY <1>5, <1>15, <1>20, <1>21 DEF Good, Describes, ms, next

\* A reference d without a value takes a loan of o, which nothing excludes.
Lending(ls, ms, d, o, mode) ==
  /\ ms \in Seq(Facts) /\ DOMAIN ms = DOMAIN ls /\ Alike(ls, ms)
  /\ d \in DOMAIN ls /\ o \in DOMAIN ls \ {d} /\ mode \in References
  /\ ~ ls[o].exclusive
  /\ ls[d].from = None /\ ms[d].from = o /\ ms[d].kind = mode
  /\ \A i \in DOMAIN ls \ {d} : SameValue(ls[i], ms[i]) /\ SameLoan(ls[i], ms[i])
  /\ \A i \in DOMAIN ls \ {o} : SameCount(ls[i], ms[i])
  /\ ms[o].shared = IF mode = "shared" THEN ls[o].shared + 1 ELSE ls[o].shared
  /\ ms[o].exclusive = (mode = "exclusive")

LEMMA LendingKeeps ==
  ASSUME NEW ls \in Seq(Facts), Counted(ls), NEW ms, NEW d, NEW o, NEW mode, Lending(ls, ms, d, o, mode)
  PROVE  /\ Counted(ms)
         /\ \A i \in DOMAIN ls \ {d}, p \in DOMAIN ls : Backed(ls, i, p) => Backed(ms, i, p)
<1> USE DEF Lending
<1>1. None \notin DOMAIN ls /\ \A i \in DOMAIN ls : ls[i] \in Facts /\ ms[i] \in Facts
  BY ListFacts
<1>2. \A p \in DOMAIN ls : \A m : LoansOf(ms, p, m) = IF p = o /\ m = mode THEN LoansOf(ls, p, m) \cup {d}
                                                       ELSE LoansOf(ls, p, m)
  BY <1>1 DEF LoansOf, SameLoan
<1>3. \A p \in DOMAIN ls : \A m : d \notin LoansOf(ls, p, m)
  BY <1>1 DEF LoansOf
<1>4. LoansOf(ls, o, "exclusive") = {}
  BY DEF Counted
<1>5. ASSUME NEW p \in DOMAIN ls
      PROVE  /\ Cardinality(LoansOf(ls, p, "shared")) \in Nat /\ Cardinality(LoansOf(ms, p, "shared")) \in Nat
             /\ ls[p].shared \in Nat /\ ms[p].shared \in Nat
             /\ \/ ms[p].shared = ls[p].shared /\ LoansOf(ms, p, "shared") = LoansOf(ls, p, "shared")
                \/ /\ ms[p].shared = ls[p].shared + 1
                   /\ Cardinality(LoansOf(ms, p, "shared")) = Cardinality(LoansOf(ls, p, "shared")) + 1
             /\ \/ (ms[p].exclusive <=> ls[p].exclusive) /\ LoansOf(ms, p, "exclusive") = LoansOf(ls, p, "exclusive")
                \/ ms[p].exclusive /\ LoansOf(ms, p, "exclusive") = {d} /\ ~ ls[p].exclusive
  <2>1. /\ Cardinality(LoansOf(ls, p, "shared")) \in Nat /\ Cardinality(LoansOf(ms, p, "shared")) \in Nat
        /\ IsFiniteSet(LoansOf(ls, p, "shared")) /\ ls[p].shared \in Nat /\ ms[p].shared \in Nat
        /\ ls[p].exclusive \in BOOLEAN /\ ms[p].exclusive \in BOOLEAN
    BY <1>1, LoansFinite, FactFields
  <2>2. CASE p # o
    <3>1. LoansOf(ms, p, "shared") = LoansOf(ls, p, "shared") /\ LoansOf(ms, p, "exclusive") = LoansOf(ls, p, "exclusive")
      BY <1>2, <2>2
    <3> QED
      BY <3>1, <2>1, <2>2 DEF SameCount
  <2>3. CASE p = o /\ mode = "shared"
    <3>1. LoansOf(ms, p, "shared") = LoansOf(ls, p, "shared") \cup {d} /\ d \notin LoansOf(ls, p, "shared")
      BY <1>2, <1>3, <2>3
    <3>2. Cardinality(LoansOf(ms, p, "shared")) = Cardinality(LoansOf(ls, p, "shared")) + 1
      BY <3>1, <2>1, FS_AddElement
    <3>3. LoansOf(ms, p, "exclusive") = LoansOf(ls, p, "exclusive")
      BY <1>2, <2>3
    <3>4. ~ ms[p].exclusive /\ ~ ls[p].exclusive /\ ms[p].shared = ls[p].shared + 1
      BY <2>3
    <3> QED
      BY <3>2, <3>3, <3>4, <2>1
  <2>4. CASE p = o /\ mode = "exclusive"
    <3>1. LoansOf(ms, p, "exclusive") = {d} /\ LoansOf(ms, p, "shared") = LoansOf(ls, p, "shared")
      BY <1>2, <1>4, <2>4
    <3> QED
      BY <3>1, <2>1, <2>4
  <2> QED
    BY <2>2, <2>3, <2>4 DEF References
<1>6. Counted(ms)
  <2> SUFFICES ASSUME NEW p \in DOMAIN ls
               PROVE  /\ Cardinality(LoansOf(ms, p, "shared")) <= ms[p].shared
                      /\ \A k \in LoansOf(ms, p, "exclusive") : ms[p].exclusive /\ LoansOf(ms, p, "exclusive") = {k}
    BY DEF Counted
  <2>1. /\ Cardinality(LoansOf(ls, p, "shared")) <= ls[p].shared
        /\ \A k \in LoansOf(ls, p, "exclusive") : ls[p].exclusive /\ LoansOf(ls, p, "exclusive") = {k}
    BY DEF Counted
  <2> QED
    BY <2>1, <1>5
<1>7. ASSUME NEW i \in DOMAIN ls \ {d}, NEW p \in DOMAIN ls, Backed(ls, i, p)
      PROVE  Backed(ms, i, p)
  <2>1. (Recorded(ms[i]) <=> Recorded(ls[i])) /\ SameLoan(ls[i], ms[i]) /\ ms[i].type = ls[i].type
    BY DEF Recorded, SameLoan, Alike
  <2>2. ASSUME Recorded(ls[i]) PROVE Backed(ms, i, p)
    BY <1>7, <2>1, <2>2 DEF Backed, SameLoan
  <2>3. ASSUME ~ Recorded(ls[i]) PROVE Backed(ms, i, p)
    <3>1. \/ ls[i].type # "exclusive" /\ Cardinality(LoansOf(ls, p, "shared")) < ls[p].shared
          \/ ls[p].exclusive /\ LoansOf(ls, p, "exclusive") = {}
      BY <1>7, <2>3 DEF Backed
    <3>2. \/ ls[i].type # "exclusive" /\ Cardinality(LoansOf(ms, p, "shared")) < ms[p].shared
          \/ ms[p].exclusive /\ LoansOf(ms, p, "exclusive") = {}
      <4>1. Cardinality(LoansOf(ls, p, "shared")) < ls[p].shared
              => Cardinality(LoansOf(ms, p, "shared")) < ms[p].shared
        BY ONLY <1>5, p \in DOMAIN ls
      <4>2. ls[p].exclusive /\ LoansOf(ls, p, "exclusive") = {} => ms[p].exclusive /\ LoansOf(ms, p, "exclusive") = {}
        BY <1>5
      <4> QED
        BY <3>1, <4>1, <4>2
    <3> QED
      BY <3>2, <2>1, <2>3 DEF Backed
  <2> QED
    BY <2>2, <2>3
<1> QED
  BY <1>6, <1>7

\* A reference d without a value receives one that fits the others.
LEMMA TakeStep ==
  ASSUME NEW ls, NEW run, Good(ls, run), NEW d \in DOMAIN ls, IsReference(ls[d]), run[d] = Absent,
         NEW ms \in Seq(Facts), DOMAIN ms = DOMAIN ls, Alike(ls, ms),
         \A i \in DOMAIN ls \ {d} : SameValue(ls[i], ms[i]) /\ SameLoan(ls[i], ms[i]),
         Counted(ms),
         \A i \in DOMAIN ls \ {d}, p \in DOMAIN ls : Backed(ls, i, p) => Backed(ms, i, p),
         NEW cell \in Cells, NEW next, next = [run EXCEPT ![d] = cell], cell.value, ~ cell.stale,
         ViewsWell(ms, next, d), Rooted(next, d),
         \A i \in DOMAIN ls : Nested(ms, next, i, d) /\ Nested(ms, next, d, i),
         FactWell(ms, next, d)
  PROVE  Good(ms, next)
<1>1. /\ DOMAIN run = DOMAIN ls /\ None \notin DOMAIN run /\ Linked(run)
      /\ \A i \in DOMAIN run : run[i].via # None => Live(ls, run, i)
  BY RunLinked
<1>2. next \in [DOMAIN ms -> Cells] /\ DOMAIN next = DOMAIN ms
  BY DEF Good, Describes, RunWell
<1>3. next[d] = cell /\ \A i \in DOMAIN ls \ {d} : next[i] = run[i]
  BY <1>1
<1>4. \A i \in DOMAIN ls : run[i].via # d
  <2> SUFFICES ASSUME NEW i \in DOMAIN ls, run[i].via = d PROVE FALSE
    OBVIOUS
  <2>1. Live(ls, run, i) /\ CellWell(ls, run, i)
    BY <1>1 DEF Good, Describes, RunWell
  <2>2. run[d].value
    BY <1>1, <2>1 DEF CellWell, ViewsWell, Live
  <2> QED
    BY <2>2 DEF Absent
<1>5. /\ \A i \in DOMAIN ls \ {d} : CellWell(ms, next, i) /\ Rooted(next, i)
      /\ \A i, j \in DOMAIN ls \ {d} : Nested(ms, next, i, j)
  <2> DEFINE E == DOMAIN ls \ {d}
  <2>1. \A i \in E : next[i] = run[i] /\ run[i].via \in E \cup {None}
    BY <1>1, <1>3, <1>4 DEF Linked
  <2>2. Apart(ls, run, ms, next, E)
    BY <2>1, <1>2 DEF Apart, Alike
  <2> QED
    BY <2>2, CellsApart
<1>6. CellWell(ms, next, d)
  BY <1>3 DEF CellWell, Alike, IsReference
<1>7. RunWell(ms, next)
  BY <1>2, <1>5, <1>6 DEF RunWell
<1>8. ASSUME NEW i \in DOMAIN ls \ {d} PROVE FactWell(ms, next, i)
  <2>1. FactWell(ls, run, i) /\ next[i] = run[i] /\ ms[i].type = ls[i].type
    BY <1>3 DEF Good, Describes, Alike
  <2>2. Live(ls, run, i) /\ Lender(run, i) > 0 => Backed(ms, i, Lender(run, i))
    BY <2>1, LenderLocal DEF FactWell
  <2> QED
    BY <2>1, <2>2, FactKept
<1>9. \A i \in DOMAIN ms : FactWell(ms, next, i)
  BY <1>8
<1> QED
  BY <1>7, <1>9 DEF Good, Describes

\* d borrows x, or through the reference x what x views.
LEMMA BorrowStep ==
  ASSUME NEW ls, NEW run, Good(ls, run), NEW d \in DOMAIN ls, NEW x \in DOMAIN ls, d # x,
         IsReference(ls[d]), run[d] = Absent,
         NEW mode, MayHold(ls[d].type, mode), MayLend(ls[x], mode), ls[d].depth >= ls[x].depth,
         mode = "exclusive" => ls[x].type # "shared",
         NEW ms, Lending(ls, ms, d, x, mode), ms[d].state = "initialized", ms[d].origin = None
  PROVE  Good(ms, [run EXCEPT ![d] = IF IsReference(ls[x]) THEN Present(run[x].target, x) ELSE Present(x, None)])
<1> DEFINE cell == IF IsReference(ls[x]) THEN Present(run[x].target, x) ELSE Present(x, None)
           next == [run EXCEPT ![d] = cell]
<1>1. ls \in Seq(Facts) /\ (\A i \in DOMAIN ls : ls[i] \in Facts) /\ None \notin DOMAIN ls /\ DOMAIN ls \subseteq Nat
  BY ListFacts DEF Good
<1>2. /\ DOMAIN run = DOMAIN ls /\ None \notin DOMAIN run /\ Linked(run)
      /\ \A i \in DOMAIN run : run[i] \in Cells
      /\ \A i \in DOMAIN run : run[i].via # None => Live(ls, run, i)
  BY RunLinked
<1>3. /\ ms \in Seq(Facts) /\ DOMAIN ms = DOMAIN ls /\ Alike(ls, ms) /\ mode \in References
      /\ ms[d].from = x /\ ms[d].kind = mode
      /\ \A i \in DOMAIN ls \ {d} : SameValue(ls[i], ms[i]) /\ SameLoan(ls[i], ms[i])
  BY DEF Lending
<1>4. ms[d].type = ls[d].type /\ IsReference(ms[d]) /\ (ls[d].type = "exclusive" => mode = "exclusive")
  BY <1>3 DEF Alike, IsReference, MayHold
<1>5. run[x].value /\ ~ ls[x].exclusive /\ (mode = "exclusive" => MayWrite(ls[x]))
  BY DEF Good, Describes, FactWell, MayLend, MayMove, MayRead, MayWrite
<1>6. Counted(ms) /\ \A i \in DOMAIN ls \ {d}, p \in DOMAIN ls : Backed(ls, i, p) => Backed(ms, i, p)
  BY <1>1, LendingKeeps DEF Good, Describes
<1>7. cell.value /\ ~ cell.stale /\ cell \in Cells
  BY <1>1, <1>2 DEF Present, Cells, None
<1>8. next[d] = cell /\ (\A i \in DOMAIN ls \ {d} : next[i] = run[i]) /\ DOMAIN next = DOMAIN ls
  BY <1>2
<1>9. Live(ms, next, d) /\ ~ Live(ls, run, d) /\ \A i \in DOMAIN ls \ {d} : Live(ms, next, i) <=> Live(ls, run, i)
  BY <1>3, <1>4, <1>7, <1>8 DEF Live, IsReference, Absent, Alike
<1>10. \A i \in DOMAIN ls : run[i].via # d
  <2> SUFFICES ASSUME NEW i \in DOMAIN ls, run[i].via = d PROVE FALSE
    OBVIOUS
  <2>1. ViewsWell(ls, run, i)
    BY <1>1, <1>2 DEF Good, Describes, RunWell, CellWell
  <2> QED
    BY <2>1, <1>1, <1>9 DEF ViewsWell
<1>11. \A i \in DOMAIN ls \ {d} : Chain(next, i) = Chain(run, i) /\ Chain(run, i) \subseteq DOMAIN ls \ {d}
  <2> DEFINE E == DOMAIN ls \ {d}
  <2>1. \A i \in E : next[i] = run[i] /\ run[i].via \in E \cup {None}
    BY <1>2, <1>8, <1>10 DEF Linked
  <2>2. Apart(ls, run, ms, next, E)
    BY <2>1, <1>3, <1>8 DEF Apart, Alike
  <2> QED
    BY <2>2, CellsApart
<1>12. d \in Chain(next, d)
  BY <1>8, ChainHasItself
\* Who views the same as d.
<1>13. /\ ViewsWell(ms, next, d) /\ Rooted(next, d) /\ Lender(next, d) = x
       /\ \A i \in DOMAIN ls \ {d} : Nested(ms, next, i, d) /\ Nested(ms, next, d, i)
  <2>1. CASE ~ IsReference(ls[x])
    <3>1. cell.target = x /\ cell.via = None /\ x # None
      BY <2>1, <1>1 DEF Present
    <3>2. ViewsWell(ms, next, d)
      BY <3>1, <2>1, <1>3, <1>8, <1>1 DEF ViewsWell, Alike, IsReference
    <3>3. ASSUME NEW i \in DOMAIN ls \ {d}, Live(ls, run, i), run[i].target = x
          PROVE  mode # "exclusive" /\ ls[i].type # "exclusive"
      BY <3>3, <1>5, BorrowedIsLent
    <3>4. \A i \in DOMAIN ls \ {d} : Nested(ms, next, i, d) /\ Nested(ms, next, d, i)
      BY <3>1, <3>3, <1>3, <1>4, <1>8, <1>9 DEF Nested, Alike
    <3> QED
      BY <3>1, <3>2, <3>4, <1>8, <1>12 DEF Rooted, Lender
  <2>2. CASE IsReference(ls[x])
    <3>1. cell.target = run[x].target /\ cell.via = x /\ x # None
      BY <2>2, <1>1 DEF Present
    <3>2. Live(ls, run, x) /\ ViewsWell(ls, run, x)
      BY <2>2, <1>5 DEF Live, Good, Describes, RunWell, CellWell
    <3>3. mode = "exclusive" => ls[x].type = "exclusive"
      BY <2>2 DEF IsReference, References
    <3>4. ViewsWell(ms, next, d)
      <4>1. cell.target # None
        BY <3>1, <3>2 DEF ViewsWell
      <4>2. ASSUME cell.target > 0
            PROVE  /\ cell.target \in DOMAIN ms /\ ~ IsReference(ms[cell.target])
                   /\ ms[cell.target].depth <= ms[d].depth
        <5> DEFINE t == run[x].target
        <5>1. t \in DOMAIN ls /\ ~ IsReference(ls[t]) /\ ls[t].depth <= ls[x].depth
          BY <3>1, <3>2, <4>2 DEF ViewsWell
        <5>2. ls[t].depth \in Nat /\ ls[x].depth \in Nat /\ ls[d].depth \in Nat
          BY <5>1, <1>1, FactFields
        <5>3. ls[t].depth <= ls[d].depth
          BY <5>1, <5>2
        <5> QED
          BY <5>1, <5>3, <3>1, <1>3 DEF Alike, IsReference
      <4>3. /\ x \in DOMAIN ms \ {d} /\ Live(ms, next, x) /\ next[x].target = cell.target
            /\ ms[x].depth <= ms[d].depth
            /\ ms[d].type = "exclusive" => ms[x].type = "exclusive"
        <5>1. ms[x].depth <= ms[d].depth
          BY <1>3, <1>1, FactFields DEF Alike
        <5> QED
          BY <5>1, <3>1, <3>2, <3>3, <1>3, <1>4, <1>8, <1>9 DEF Alike
      <4> QED
        BY <4>1, <4>2, <4>3, <1>8, <3>1 DEF ViewsWell
    <3>5. Linked(next)
      BY <3>1, <1>2, <1>8 DEF Linked
    <3>6. Chain(next, d) = {d} \cup Chain(run, x)
      <4>1. Chain(next, d) = {d} \cup Chain(next, x)
        BY <3>1, <3>5, <1>2, <1>8, ChainStep
      <4> QED
        BY <4>1, <1>11
    <3>7. Rooted(next, d)
      <4>1. PICK k \in Chain(run, x) : run[k].via = None
        BY DEF Good, Describes, RunWell, Rooted
      <4>2. k \in DOMAIN ls \ {d}
        BY <1>11
      <4> QED
        BY <4>1, <4>2, <3>6, <1>8 DEF Rooted
    <3>8. ASSUME NEW i \in DOMAIN ls \ {d}, Live(ls, run, i), run[i].target = run[x].target,
                 ls[i].type = "exclusive" \/ mode = "exclusive"
          PROVE  i \in Chain(run, x)
      <4>1. i \in Chain(run, x) \/ x \in Chain(run, i)
        <5>1. Nested(ls, run, i, x) /\ Nested(ls, run, x, i)
          BY DEF Good, Describes, RunWell
        <5> QED
          BY <5>1, <3>2, <3>3, <3>8 DEF Nested
      <4>2. ASSUME x \in Chain(run, i), x # i PROVE FALSE
        BY <4>2, <3>8, <1>5, BorrowedIsLent
      <4>3. x \in Chain(run, x)
        BY <1>2, ChainHasItself
      <4> QED
        BY <4>1, <4>2, <4>3
    <3>9. \A i \in DOMAIN ls \ {d} : Nested(ms, next, i, d) /\ Nested(ms, next, d, i)
      BY <3>1, <3>6, <3>8, <1>3, <1>4, <1>8, <1>9 DEF Nested, Alike
    <3> QED
      BY <3>1, <3>4, <3>7, <3>9, <1>8 DEF Lender
  <2> QED
    BY <2>1, <2>2
<1>14. \A i \in DOMAIN ls : Nested(ms, next, i, d) /\ Nested(ms, next, d, i)
  BY <1>12, <1>13 DEF Nested
<1>15. FactWell(ms, next, d)
  <2>1. Recorded(ms[d]) /\ mode # "none"
    BY <1>1, <1>3 DEF Recorded, References
  <2>2. Backed(ms, d, x)
    BY <2>1, <1>3, <1>4 DEF Backed
  <2> QED
    BY <2>1, <2>2, <1>3, <1>7, <1>8, <1>9, <1>13 DEF FactWell
<1> HIDE DEF cell
<1>16. Good(ms, next)
  BY <1>3, <1>6, <1>7, <1>13, <1>14, <1>15, TakeStep
<1> QED
  BY <1>16 DEF cell

\* A reference d receives a value that takes no loan.
Keeping(ls, ms, d) ==
  /\ ms \in Seq(Facts) /\ DOMAIN ms = DOMAIN ls /\ Alike(ls, ms) /\ d \in DOMAIN ls
  /\ ls[d].from = None /\ ms[d].from = None
  /\ \A i \in DOMAIN ls \ {d} : SameValue(ls[i], ms[i]) /\ SameLoan(ls[i], ms[i])
  /\ \A i \in DOMAIN ls : SameCount(ls[i], ms[i])

LEMMA KeepingKeeps ==
  ASSUME NEW ls \in Seq(Facts), Counted(ls), NEW ms, NEW d, Keeping(ls, ms, d)
  PROVE  /\ Counted(ms)
         /\ \A p \in DOMAIN ls : \A mode : LoansOf(ms, p, mode) = LoansOf(ls, p, mode)
         /\ \A i \in DOMAIN ls \ {d}, p \in DOMAIN ls : Backed(ls, i, p) => Backed(ms, i, p)
<1> USE DEF Keeping
<1>1. None \notin DOMAIN ls
  BY ListFacts
<1>2. \A p \in DOMAIN ls : \A mode : LoansOf(ms, p, mode) = LoansOf(ls, p, mode)
  BY <1>1 DEF LoansOf, SameLoan
<1>3. Counted(ms)
  BY <1>2 DEF Counted, SameCount
<1>4. ASSUME NEW i \in DOMAIN ls \ {d}, NEW p \in DOMAIN ls, Backed(ls, i, p)
      PROVE  Backed(ms, i, p)
  <2>1. (Recorded(ms[i]) <=> Recorded(ls[i])) /\ SameLoan(ls[i], ms[i]) /\ ms[i].type = ls[i].type
    BY DEF Recorded, SameLoan, Alike
  <2> QED
    BY <1>2, <1>4, <2>1 DEF Backed, SameLoan, SameCount
<1> QED
  BY <1>2, <1>3, <1>4

\* A reference without a value lends nothing.
LEMMA VacantLendsNothing ==
  ASSUME NEW ls, NEW run, Good(ls, run), NEW d \in DOMAIN ls, IsReference(ls[d]), run[d] = Absent
  PROVE  /\ \A i \in DOMAIN ls : run[i].via # d /\ (Live(ls, run, i) => run[i].target # d)
         /\ \A i \in DOMAIN ls : Live(ls, run, i) => Lender(run, i) # d
<1>1. /\ DOMAIN run = DOMAIN ls /\ None \notin DOMAIN run /\ DOMAIN ls \subseteq Nat
      /\ \A i \in DOMAIN run : run[i].via # None => Live(ls, run, i)
  BY RunLinked, ListFacts DEF Good
<1>2. ASSUME NEW i \in DOMAIN ls, Live(ls, run, i) PROVE run[i].via # d /\ run[i].target # d
  <2>1. ViewsWell(ls, run, i)
    BY <1>2 DEF Good, Describes, RunWell, CellWell
  <2>2. ~ Live(ls, run, d)
    BY DEF Live, Absent
  <2> QED
    BY <1>1, <2>1, <2>2 DEF ViewsWell, None
<1> QED
  BY <1>1, <1>2 DEF Lender

\* d takes over what the shared reference x views, and a loan of its own of it.
LEMMA CopyStep ==
  ASSUME NEW ls, NEW run, Good(ls, run), NEW d \in DOMAIN ls, NEW x \in DOMAIN ls, d # x,
         IsReference(ls[d]), run[d] = Absent, ls[d].type = "shared", ls[x].type = "shared", MayRead(ls[x]),
         run[x].target \in DOMAIN ls => ls[run[x].target].depth <= ls[d].depth,
         run[x].via # None => ls[run[x].via].depth <= ls[d].depth,
         NEW ms, IF ls[x].from = None THEN Keeping(ls, ms, d) ELSE Lending(ls, ms, d, ls[x].from, "shared"),
         ms[d].state = "initialized", ms[d].from = ls[x].from, ms[d].kind = "shared",
         ms[d].region = ls[x].region, ms[d].origin = ls[x].origin
  PROVE  Good(ms, [run EXCEPT ![d] = run[x]])
<1> DEFINE next == [run EXCEPT ![d] = run[x]]
<1>1. ls \in Seq(Facts) /\ (\A i \in DOMAIN ls : ls[i] \in Facts) /\ None \notin DOMAIN ls /\ DOMAIN ls \subseteq Nat
  BY ListFacts DEF Good
<1>2. /\ DOMAIN run = DOMAIN ls /\ None \notin DOMAIN run /\ Linked(run)
      /\ \A i \in DOMAIN run : run[i] \in Cells
  BY RunLinked
<1>3. /\ ms \in Seq(Facts) /\ DOMAIN ms = DOMAIN ls /\ Alike(ls, ms)
      /\ \A i \in DOMAIN ls \ {d} : SameValue(ls[i], ms[i]) /\ SameLoan(ls[i], ms[i])
  BY DEF Lending, Keeping
<1>4. ms[d].type = "shared" /\ IsReference(ms[d])
  BY <1>3 DEF Alike, IsReference
<1>5. Live(ls, run, x) /\ ViewsWell(ls, run, x) /\ ~ run[x].stale
  <2>1. FactWell(ls, run, x) /\ CellWell(ls, run, x)
    BY DEF Good, Describes, RunWell
  <2>2. Live(ls, run, x)
    BY <2>1 DEF FactWell, MayRead, Live, IsReference, References
  <2> QED
    BY <2>1, <2>2 DEF CellWell
<1>6. Counted(ms) /\ \A i \in DOMAIN ls \ {d}, p \in DOMAIN ls : Backed(ls, i, p) => Backed(ms, i, p)
  BY <1>1, LendingKeeps, KeepingKeeps DEF Good, Describes
<1>7. next[d] = run[x] /\ (\A i \in DOMAIN ls \ {d} : next[i] = run[i]) /\ DOMAIN next = DOMAIN ls
  BY <1>2
<1>8. Live(ms, next, d) /\ \A i \in DOMAIN ls \ {d} : Live(ms, next, i) <=> Live(ls, run, i)
  BY <1>3, <1>4, <1>5, <1>7 DEF Live, IsReference, Alike
<1>9. \A i \in DOMAIN ls : run[i].via # d
  BY VacantLendsNothing
<1>10. \A i \in DOMAIN ls \ {d} : Chain(next, i) = Chain(run, i) /\ Chain(run, i) \subseteq DOMAIN ls \ {d}
  <2> DEFINE E == DOMAIN ls \ {d}
  <2>1. \A i \in E : next[i] = run[i] /\ run[i].via \in E \cup {None}
    BY <1>2, <1>7, <1>9 DEF Linked
  <2>2. Apart(ls, run, ms, next, E)
    BY <2>1, <1>3, <1>7 DEF Apart, Alike
  <2> QED
    BY <2>2, CellsApart
<1>11. d \in Chain(next, d) /\ Linked(next)
  BY <1>2, <1>7, ChainHasItself DEF Linked
<1>12. ViewsWell(ms, next, d)
  <2>1. next[d].target # None
    BY <1>5, <1>7 DEF ViewsWell
  <2>2. ASSUME next[d].target > 0
        PROVE  /\ next[d].target \in DOMAIN ms /\ ~ IsReference(ms[next[d].target])
               /\ ms[next[d].target].depth <= ms[d].depth
    BY <2>2, <1>3, <1>5, <1>7 DEF ViewsWell, Alike, IsReference
  <2>3. ASSUME next[d].via # None
        PROVE  /\ next[d].via \in DOMAIN ms \ {d} /\ Live(ms, next, next[d].via)
               /\ next[next[d].via].target = next[d].target
               /\ ms[next[d].via].depth <= ms[d].depth
    BY <2>3, <1>3, <1>5, <1>7, <1>8, <1>9 DEF ViewsWell, Alike
  <2> QED
    BY <2>1, <2>2, <2>3, <1>4 DEF ViewsWell
\* The chain of d is that of x, but for the first.
<1>13. /\ run[x].via = None => Chain(next, d) = {d}
       /\ run[x].via # None => Chain(next, d) = {d} \cup Chain(run, run[x].via) /\ run[x].via \in DOMAIN ls
  <2>1. CASE run[x].via = None
    BY <2>1, <1>2, <1>7, ChainEnd
  <2>2. CASE run[x].via # None
    <3>1. Chain(next, d) = {d} \cup Chain(next, next[d].via)
      BY <2>2, <1>2, <1>7, <1>11, ChainStep
    <3>2. run[x].via \in DOMAIN ls \ {d}
      BY <2>2, <1>2, <1>9 DEF Linked
    <3> QED
      BY <2>2, <3>1, <3>2, <1>7, <1>10
  <2> QED
    BY <2>1, <2>2
<1>14. Rooted(next, d)
  <2>1. CASE run[x].via = None
    BY <2>1, <1>7, <1>11 DEF Rooted
  <2>2. CASE run[x].via # None
    <3>1. PICK k \in Chain(run, run[x].via) : run[k].via = None
      BY <2>2, <1>13 DEF Good, Describes, RunWell, Rooted
    <3>2. k \in DOMAIN ls \ {d}
      BY <2>2, <3>1, <1>9, <1>10, <1>13
    <3> QED
      BY <2>2, <3>1, <3>2, <1>7, <1>13 DEF Rooted
  <2> QED
    BY <2>1, <2>2
<1>15. ASSUME NEW i \in DOMAIN ls \ {d}, ls[i].type = "exclusive", Live(ls, run, i), run[i].target = run[x].target
       PROVE  i \in Chain(next, d)
  <2>1. i \in Chain(run, x) \/ x \in Chain(run, i)
    <3>1. Nested(ls, run, i, x)
      BY DEF Good, Describes, RunWell
    <3> QED
      BY <3>1, <1>5, <1>15 DEF Nested
  <2>2. x \notin Chain(run, i)
    BY <1>15, ChainUniform
  <2>3. run[x].via # None /\ i \in Chain(run, run[x].via)
    BY <2>1, <2>2, <1>2, <1>15, ChainAfter
  <2> QED
    BY <2>3, <1>13
<1>16. \A i \in DOMAIN ls : Nested(ms, next, i, d) /\ Nested(ms, next, d, i)
  BY <1>3, <1>4, <1>7, <1>8, <1>11, <1>15 DEF Nested, Alike
<1>17. Lender(next, d) = Lender(run, x)
  BY <1>7 DEF Lender
<1>18. FactWell(ms, next, d)
  <2>1. FactWell(ls, run, x)
    BY DEF Good, Describes
  <2>2. Recorded(ms[d]) => Recorded(ls[x])
    BY <2>1 DEF Recorded, FactWell
  <2>3. ASSUME Lender(run, x) > 0 PROVE Backed(ms, d, Lender(run, x))
    <3> DEFINE p == Lender(run, x)
    <3>1. p \in DOMAIN ls /\ Backed(ls, x, p)
      BY <2>1, <2>3, <1>5, LenderLocal DEF FactWell
    <3> HIDE DEF p
    <3>2. CASE Recorded(ls[x])
      <4>1. Recorded(ms[d]) /\ ms[d].from = p
        BY <3>1, <3>2 DEF Recorded, Backed
      <4>2. Backed(ms, d, p)
        BY <4>1, <1>4 DEF Backed
      <4> QED
        BY <4>2 DEF p
    <3>3. CASE ~ Recorded(ls[x])
      <4>1. ls[x].from = None
        BY <2>1, <3>3 DEF FactWell, Recorded
      <4>2. Keeping(ls, ms, d) /\ ~ Recorded(ms[d])
        BY <4>1 DEF Recorded
      <4>3. SameCount(ls[p], ms[p]) /\ \A mode : LoansOf(ms, p, mode) = LoansOf(ls, p, mode)
        BY <3>1, <4>2, <1>1, KeepingKeeps DEF Keeping, Good, Describes
      <4>4. Backed(ms, d, p)
        BY <3>1, <3>3, <4>2, <4>3, <1>4 DEF Backed, SameCount
      <4> QED
        BY <4>4 DEF p
    <3> QED
      BY <3>2, <3>3
  <2>4. Live(ls, run, x) /\ ls[x].region = 0 /\ ls[x].origin # None => run[x].target = Outside(ls[x].origin)
    BY <2>1 DEF FactWell
  <2>5. Recorded(ms[d]) => ms[d].from = Lender(next, d) /\ ms[d].from \in DOMAIN ms
    BY <2>1, <2>2, <1>3, <1>17 DEF FactWell
  <2>6. next[d].value /\ (ms[d].region = 0 /\ ms[d].origin # None => next[d].target = Outside(ms[d].origin))
    BY <2>4, <1>5, <1>7 DEF Live
  <2>7. Lender(next, d) > 0 => Backed(ms, d, Lender(next, d))
    BY <2>3, <1>17
  <2> QED
    BY <2>5, <2>6, <2>7, <1>8 DEF FactWell
<1> QED
  <2>1. next[d] \in Cells /\ next = [run EXCEPT ![d] = run[x]] /\ run[x].value /\ ~ run[x].stale
    BY <1>2, <1>5, <1>7 DEF Live
  <2> HIDE DEF next
  <2> QED
    BY <2>1, <1>2, <1>3, <1>5, <1>6, <1>12, <1>14, <1>16, <1>18, TakeStep

\* The exclusive reference x moves to d, with the loan it holds.
Moving(ls, ms, d, x) ==
  /\ ms \in Seq(Facts) /\ DOMAIN ms = DOMAIN ls /\ Alike(ls, ms)
  /\ d \in DOMAIN ls /\ x \in DOMAIN ls \ {d}
  /\ ls[d].from = None
  /\ ms[d].state = "initialized" /\ SameLoan(ls[x], ms[d])
  /\ ms[x].state = "moved" /\ ms[x].from = None /\ ms[x].kind = "none"
  /\ \A i \in DOMAIN ls \ {d, x} : SameValue(ls[i], ms[i]) /\ SameLoan(ls[i], ms[i])
  /\ \A i \in DOMAIN ls : SameCount(ls[i], ms[i])

LEMMA MovingKeeps ==
  ASSUME NEW ls \in Seq(Facts), Counted(ls), NEW ms, NEW d, NEW x, Moving(ls, ms, d, x)
  PROVE  /\ Counted(ms)
         /\ \A i \in DOMAIN ls \ {d, x}, p \in DOMAIN ls : Backed(ls, i, p) => Backed(ms, i, p)
         /\ \A p \in DOMAIN ls : Backed(ls, x, p) /\ ls[x].type = "exclusive" => Backed(ms, d, p)
<1> USE DEF Moving
<1>1. None \notin DOMAIN ls
  BY ListFacts
<1>2. \A p \in DOMAIN ls : \A mode :
        /\ x \in LoansOf(ls, p, mode) => LoansOf(ms, p, mode) = (LoansOf(ls, p, mode) \ {x}) \cup {d}
        /\ x \notin LoansOf(ls, p, mode) => LoansOf(ms, p, mode) = LoansOf(ls, p, mode)
        /\ d \notin LoansOf(ls, p, mode)
  BY <1>1 DEF LoansOf, SameLoan
<1>3. \A p \in DOMAIN ls : \A mode : Cardinality(LoansOf(ms, p, mode)) = Cardinality(LoansOf(ls, p, mode))
  <2> SUFFICES ASSUME NEW p \in DOMAIN ls, NEW mode
               PROVE  Cardinality(LoansOf(ms, p, mode)) = Cardinality(LoansOf(ls, p, mode))
    OBVIOUS
  <2> DEFINE L == LoansOf(ls, p, mode)
  <2>1. IsFiniteSet(L) /\ Cardinality(L) \in Nat
    BY LoansFinite
  <2>2. CASE x \in L
    <3>1. IsFiniteSet(L \ {x}) /\ Cardinality(L \ {x}) = Cardinality(L) - 1
      BY <2>1, <2>2, FS_RemoveElement
    <3>2. d \notin L \ {x} /\ LoansOf(ms, p, mode) = (L \ {x}) \cup {d}
      BY <1>2, <2>2
    <3>3. Cardinality((L \ {x}) \cup {d}) = Cardinality(L \ {x}) + 1
      BY <3>1, <3>2, FS_AddElement
    <3> HIDE DEF L
    <3>4. Cardinality(LoansOf(ms, p, mode)) = Cardinality(L)
      BY <3>1, <3>2, <3>3, <2>1
    <3> QED
      BY <3>4 DEF L
  <2>3. CASE x \notin L
    BY <1>2, <2>3
  <2> QED
    BY <2>2, <2>3
<1>4. \A p \in DOMAIN ls : \A mode : LoansOf(ls, p, mode) = {} => LoansOf(ms, p, mode) = {}
  BY <1>2
<1>5. Counted(ms)
  <2> SUFFICES ASSUME NEW p \in DOMAIN ls
               PROVE  /\ Cardinality(LoansOf(ms, p, "shared")) <= ms[p].shared
                      /\ \A k \in LoansOf(ms, p, "exclusive") : ms[p].exclusive /\ LoansOf(ms, p, "exclusive") = {k}
    BY DEF Counted
  <2>1. /\ Cardinality(LoansOf(ls, p, "shared")) <= ls[p].shared
        /\ \A k \in LoansOf(ls, p, "exclusive") : ls[p].exclusive /\ LoansOf(ls, p, "exclusive") = {k}
    BY DEF Counted
  <2>2. SameCount(ls[p], ms[p])
    OBVIOUS
  <2>3. CASE x \in LoansOf(ls, p, "exclusive")
    BY <2>1, <2>2, <2>3, <1>2, <1>3 DEF SameCount
  <2>4. CASE x \notin LoansOf(ls, p, "exclusive")
    BY <2>1, <2>2, <2>4, <1>2, <1>3 DEF SameCount
  <2> QED
    BY <2>3, <2>4
<1>6. ASSUME NEW i \in DOMAIN ls, NEW j \in DOMAIN ls, NEW p \in DOMAIN ls,
             SameLoan(ls[i], ms[j]), ms[j].type = ls[i].type \/ ls[i].type = "exclusive", Backed(ls, i, p)
      PROVE  Backed(ms, j, p)
  <2>1. (Recorded(ms[j]) <=> Recorded(ls[i])) /\ ms[j].from = ls[i].from /\ ms[j].kind = ls[i].kind
    BY <1>6 DEF Recorded, SameLoan
  <2>2. ASSUME Recorded(ls[i]) PROVE Backed(ms, j, p)
    BY <1>6, <2>1, <2>2 DEF Backed
  <2>3. ASSUME ~ Recorded(ls[i]) PROVE Backed(ms, j, p)
    <3>1. \/ ls[i].type # "exclusive" /\ Cardinality(LoansOf(ls, p, "shared")) < ls[p].shared
          \/ ls[p].exclusive /\ LoansOf(ls, p, "exclusive") = {}
      BY <1>6, <2>3 DEF Backed
    <3>2. SameCount(ls[p], ms[p])
      OBVIOUS
    <3>3. \/ ls[i].type # "exclusive" /\ Cardinality(LoansOf(ms, p, "shared")) < ms[p].shared
          \/ ms[p].exclusive /\ LoansOf(ms, p, "exclusive") = {}
      BY <3>1, <3>2, <1>3, <1>4 DEF SameCount
    <3> QED
      BY <3>3, <2>1, <2>3, <1>6 DEF Backed
  <2> QED
    BY <2>2, <2>3
<1>7. \A i \in DOMAIN ls \ {d, x} : SameLoan(ls[i], ms[i]) /\ ms[i].type = ls[i].type
  BY DEF Alike
<1> QED
  BY <1>5, <1>6, <1>7

LEMMA MoveStep ==
  ASSUME NEW ls, NEW run, Good(ls, run), NEW d \in DOMAIN ls, NEW x \in DOMAIN ls, d # x,
         IsReference(ls[d]), run[d] = Absent, ls[x].type = "exclusive", MayMove(ls[x]),
         run[x].target \in DOMAIN ls => ls[run[x].target].depth <= ls[d].depth,
         run[x].via # None => ls[run[x].via].depth <= ls[d].depth,
         NEW ms, Moving(ls, ms, d, x)
  PROVE  Good(ms, [[run EXCEPT ![x] = Absent] EXCEPT ![d] = run[x]])
<1> DEFINE next == [[run EXCEPT ![x] = Absent] EXCEPT ![d] = run[x]]
<1>1. ls \in Seq(Facts) /\ (\A i \in DOMAIN ls : ls[i] \in Facts) /\ None \notin DOMAIN ls /\ DOMAIN ls \subseteq Nat
  BY ListFacts DEF Good
<1>2. /\ DOMAIN run = DOMAIN ls /\ None \notin DOMAIN run /\ Linked(run)
      /\ \A i \in DOMAIN run : run[i] \in Cells
      /\ \A i \in DOMAIN run : run[i].via # None => Live(ls, run, i)
  BY RunLinked
<1>3. /\ ms \in Seq(Facts) /\ DOMAIN ms = DOMAIN ls /\ Alike(ls, ms)
      /\ \A i \in DOMAIN ls \ {d, x} : SameValue(ls[i], ms[i]) /\ SameLoan(ls[i], ms[i])
  BY DEF Moving
<1>4. ms[d].type = ls[d].type /\ IsReference(ms[d]) /\ ms[x].type = "exclusive"
  BY <1>3 DEF Alike, IsReference
<1>5. Live(ls, run, x) /\ ViewsWell(ls, run, x) /\ ~ run[x].stale
  <2>1. FactWell(ls, run, x) /\ CellWell(ls, run, x)
    BY DEF Good, Describes, RunWell
  <2>2. Live(ls, run, x)
    BY <2>1 DEF FactWell, MayMove, Live, IsReference, References
  <2> QED
    BY <2>1, <2>2 DEF CellWell
<1>6. Absent \in Cells /\ ~ Absent.value /\ ~ Absent.stale /\ Absent.target = None /\ Absent.via = None
  BY DEF Absent, Cells, None
<1>7. /\ next[d] = run[x] /\ next[x] = Absent /\ (\A i \in DOMAIN ls \ {d, x} : next[i] = run[i])
      /\ next \in [DOMAIN ms -> Cells] /\ DOMAIN next = DOMAIN ls
  BY <1>2, <1>3, <1>6 DEF Good, Describes, RunWell
<1> HIDE DEF next
<1>8. /\ Live(ms, next, d) /\ ~ Live(ms, next, x)
      /\ \A i \in DOMAIN ls \ {d, x} : Live(ms, next, i) <=> Live(ls, run, i)
  BY <1>3, <1>4, <1>5, <1>6, <1>7 DEF Live, IsReference, Alike
<1>9. \A i \in DOMAIN ls : run[i].via # d
  BY VacantLendsNothing
\* Nothing was taken through x.
<1>10. ASSUME NEW i \in DOMAIN ls, Live(ls, run, i), i # x PROVE x \notin Chain(run, i)
  BY <1>10, BorrowedIsLent DEF MayMove
<1>11. \A i \in DOMAIN ls : run[i].via # x
  BY <1>1, <1>2, LoanHeld DEF Lender, MayMove
<1>12. /\ \A i \in DOMAIN ls \ {d, x} : /\ CellWell(ms, next, i) /\ Rooted(next, i)
                                       /\ Chain(next, i) = Chain(run, i) /\ Chain(run, i) \subseteq DOMAIN ls \ {d, x}
       /\ \A i, j \in DOMAIN ls \ {d, x} : Nested(ms, next, i, j)
  <2> DEFINE E == DOMAIN ls \ {d, x}
  <2>1. \A i \in E : next[i] = run[i] /\ run[i].via \in E \cup {None}
    BY <1>2, <1>7, <1>9, <1>11 DEF Linked
  <2>2. Apart(ls, run, ms, next, E)
    BY <2>1, <1>3, <1>7 DEF Apart, Alike
  <2> QED
    BY <2>2, CellsApart
<1>13. d \in Chain(next, d) /\ Linked(next)
  BY <1>2, <1>6, <1>7, ChainHasItself DEF Linked
<1>14. CellWell(ms, next, d)
  <2>1. next[d].target # None
    BY <1>5, <1>7 DEF ViewsWell
  <2>2. ASSUME next[d].target > 0
        PROVE  /\ next[d].target \in DOMAIN ms /\ ~ IsReference(ms[next[d].target])
               /\ ms[next[d].target].depth <= ms[d].depth
    BY <2>2, <1>3, <1>5, <1>7 DEF ViewsWell, Alike, IsReference
  <2>3. ASSUME next[d].via # None
        PROVE  /\ next[d].via \in DOMAIN ms \ {d} /\ Live(ms, next, next[d].via)
               /\ next[next[d].via].target = next[d].target
               /\ ms[next[d].via].depth <= ms[d].depth
               /\ ms[next[d].via].type = "exclusive"
    BY <2>3, <1>3, <1>5, <1>7, <1>8, <1>9, <1>11 DEF ViewsWell, Alike
  <2>4. ViewsWell(ms, next, d)
    BY <2>1, <2>2, <2>3 DEF ViewsWell
  <2> QED
    BY <2>4, <1>4, <1>5, <1>7 DEF CellWell, Live
<1>15. /\ run[x].via = None => Chain(next, d) = {d}
       /\ run[x].via # None => /\ Chain(next, d) = {d} \cup Chain(run, run[x].via)
                               /\ run[x].via \in DOMAIN ls \ {d, x}
  <2>1. CASE run[x].via = None
    BY <2>1, <1>2, <1>7, ChainEnd
  <2>2. CASE run[x].via # None
    <3>1. Chain(next, d) = {d} \cup Chain(next, next[d].via)
      BY <2>2, <1>2, <1>7, <1>13, ChainStep
    <3>2. run[x].via \in DOMAIN ls \ {d, x}
      BY <2>2, <1>2, <1>9, <1>11 DEF Linked
    <3> QED
      BY <2>2, <3>1, <3>2, <1>7, <1>12
  <2> QED
    BY <2>1, <2>2
<1>16. Rooted(next, d)
  <2>1. CASE run[x].via = None
    BY <2>1, <1>7, <1>13 DEF Rooted
  <2>2. CASE run[x].via # None
    <3>1. PICK k \in Chain(run, run[x].via) : run[k].via = None
      BY <2>2, <1>15 DEF Good, Describes, RunWell, Rooted
    <3>2. k \in DOMAIN ls \ {d, x}
      BY <2>2, <3>1, <1>12, <1>15
    <3> QED
      BY <2>2, <3>1, <3>2, <1>7, <1>15 DEF Rooted
  <2> QED
    BY <2>1, <2>2
<1>17. CellWell(ms, next, x) /\ Rooted(next, x)
  BY <1>4, <1>6, <1>7, <1>8, ChainHasItself DEF CellWell, Rooted
\* Who views the same as x was before.
<1>18. ASSUME NEW i \in DOMAIN ls \ {d, x}, Live(ls, run, i), run[i].target = run[x].target
       PROVE  i \in Chain(next, d)
  <2>1. i \in Chain(run, x) \/ x \in Chain(run, i)
    <3>1. Nested(ls, run, x, i)
      BY DEF Good, Describes, RunWell
    <3> QED
      BY <3>1, <1>5, <1>18 DEF Nested
  <2>2. run[x].via # None /\ i \in Chain(run, run[x].via)
    BY <2>1, <1>2, <1>10, <1>18, ChainAfter
  <2> QED
    BY <2>2, <1>15
<1>19. \A i \in DOMAIN ls : Nested(ms, next, i, d) /\ Nested(ms, next, d, i)
  BY <1>3, <1>7, <1>8, <1>13, <1>18 DEF Nested
<1>20. RunWell(ms, next)
  <2>1. \A i, j \in DOMAIN ls : Nested(ms, next, i, j)
    BY <1>8, <1>12, <1>19 DEF Nested
  <2> QED
    BY <2>1, <1>3, <1>7, <1>12, <1>14, <1>16, <1>17 DEF RunWell
<1>21. /\ Counted(ms)
       /\ \A i \in DOMAIN ls \ {d, x}, p \in DOMAIN ls : Backed(ls, i, p) => Backed(ms, i, p)
       /\ \A p \in DOMAIN ls : Backed(ls, x, p) => Backed(ms, d, p)
  BY <1>1, MovingKeeps DEF Good, Describes
<1>22. ASSUME NEW i \in DOMAIN ls \ {d, x} PROVE FactWell(ms, next, i)
  <2>1. /\ FactWell(ls, run, i) /\ next[i] = run[i] /\ ms[i].type = ls[i].type
        /\ SameValue(ls[i], ms[i]) /\ SameLoan(ls[i], ms[i])
    BY <1>3, <1>7 DEF Good, Describes, Alike
  <2>2. Live(ls, run, i) /\ Lender(run, i) > 0 => Backed(ms, i, Lender(run, i))
    BY <2>1, <1>21, LenderLocal DEF FactWell
  <2> QED
    BY <2>1, <2>2, <1>3, FactKept
<1>23. FactWell(ms, next, x)
  BY <1>6, <1>7, <1>8 DEF FactWell, Recorded, Moving
<1>24. FactWell(ms, next, d)
  <2>1. FactWell(ls, run, x) /\ SameLoan(ls[x], ms[d]) /\ ms[d].state = "initialized"
    BY DEF Good, Describes, Moving
  <2>2. Lender(next, d) = Lender(run, x) /\ (Recorded(ms[d]) <=> Recorded(ls[x]))
    BY <2>1, <1>7 DEF Lender, SameLoan, Recorded
  <2>3. Lender(next, d) > 0 => Backed(ms, d, Lender(next, d))
    BY <2>1, <2>2, <1>5, <1>21, LenderLocal DEF FactWell
  <2>4. Recorded(ms[d]) => ms[d].from = Lender(next, d) /\ ms[d].from \in DOMAIN ms
    BY <2>1, <2>2, <1>3 DEF FactWell, SameLoan
  <2>5. ms[d].region = 0 /\ ms[d].origin # None => next[d].target = Outside(ms[d].origin)
    BY <2>1, <1>5, <1>7 DEF FactWell, SameLoan
  <2>6. next[d].value /\ (ms[d].kind = "none" => ms[d].from = None)
    BY <2>1, <1>5, <1>7 DEF FactWell, SameLoan, Live
  <2> QED
    BY <2>3, <2>4, <2>5, <2>6, <1>8 DEF FactWell
<1>25. \A i \in DOMAIN ms : FactWell(ms, next, i)
  BY <1>3, <1>22, <1>23, <1>24
<1> QED
  BY <1>3, <1>20, <1>21, <1>25 DEF Good, Describes, next

\* A local that was just declared has no value and no loan.
LEMMA DeclareStep ==
  ASSUME NEW ls, NEW run, Good(ls, run), NEW k \in Kinds, NEW depth \in Nat
  PROVE  Good(Append(ls, Declared(k, depth)), Append(run, Absent))
<1> DEFINE n    == Len(ls)
           l    == Declared(k, depth)
           ms   == Append(ls, l)
           next == Append(run, Absent)
<1>1. ls \in Seq(Facts) /\ n \in Nat /\ DOMAIN ls = 1..n /\ (\A i \in DOMAIN ls : ls[i] \in Facts) /\ None \notin DOMAIN ls
  BY ListFacts DEF Good
<1>2. /\ DOMAIN run = DOMAIN ls /\ None \notin DOMAIN run /\ Linked(run)
      /\ \A i \in DOMAIN run : run[i] \in Cells
  BY RunLinked
<1>3. /\ l \in Facts /\ l.state = "uninitialized" /\ l.from = None /\ l.kind = "none" /\ l.shared = 0
  BY NoneType DEF Declared, Facts, Types, States, Kinds, None
<1>4. run \in Seq(Cells) /\ Len(run) = n
  BY <1>1, <1>2, IsASeq, LenProperties DEF Good, Describes, RunWell
<1>5. Absent \in Cells /\ ~ Absent.value /\ ~ Absent.stale /\ Absent.target = None /\ Absent.via = None
  BY DEF Absent, Cells, None
<1> HIDE DEF l
<1>6. /\ ms \in Seq(Facts) /\ DOMAIN ms = 1..(n + 1) /\ ms[n + 1] = l
      /\ \A i \in 1..n : ms[i] = ls[i]
  BY <1>1, <1>3, AppendProperties, LenProperties
<1>7. /\ next \in Seq(Cells) /\ Len(next) = n + 1 /\ next[n + 1] = Absent
      /\ \A i \in 1..n : next[i] = run[i]
  BY <1>1, <1>4, <1>5, AppendProperties
<1>8. next \in [DOMAIN ms -> Cells] /\ DOMAIN next = DOMAIN ms /\ DOMAIN ms = DOMAIN ls \cup {n + 1} /\ n + 1 \notin DOMAIN ls
  <2>1. DOMAIN next = 1..(n + 1) /\ next \in [1..(n + 1) -> Cells]
    BY <1>1, <1>7, LenProperties
  <2>2. 1..(n + 1) = 1..n \cup {n + 1} /\ n + 1 \notin 1..n
    BY <1>1
  <2> QED
    BY <2>1, <2>2, <1>1, <1>6
<1> HIDE DEF ms, next
<1>9. /\ \A i \in DOMAIN ls : CellWell(ms, next, i) /\ Rooted(next, i)
      /\ \A i, j \in DOMAIN ls : Nested(ms, next, i, j)
  <2>1. \A i \in DOMAIN ls : next[i] = run[i] /\ run[i].via \in DOMAIN ls \cup {None}
    BY <1>1, <1>2, <1>7 DEF Linked
  <2>2. Apart(ls, run, ms, next, DOMAIN ls)
    BY <2>1, <1>1, <1>6, <1>8 DEF Apart
  <2> QED
    BY <2>2, CellsApart
<1>10. CellWell(ms, next, n + 1) /\ Rooted(next, n + 1) /\ ~ Live(ms, next, n + 1)
  BY <1>5, <1>7, <1>8, ChainHasItself DEF CellWell, Rooted, Live
<1>11. RunWell(ms, next)
  <2>1. \A i, j \in DOMAIN ms : Nested(ms, next, i, j)
    BY <1>8, <1>9, <1>10 DEF Nested
  <2> QED
    BY <2>1, <1>8, <1>9, <1>10 DEF RunWell
<1>12. \A p, mode : p # None => LoansOf(ms, p, mode) = LoansOf(ls, p, mode)
  BY <1>1, <1>3, <1>6, <1>8 DEF LoansOf
<1>13. Counted(ms)
  <2> SUFFICES ASSUME NEW p \in DOMAIN ms
               PROVE  /\ Cardinality(LoansOf(ms, p, "shared")) <= ms[p].shared
                      /\ \A j \in LoansOf(ms, p, "exclusive") : ms[p].exclusive /\ LoansOf(ms, p, "exclusive") = {j}
    BY DEF Counted
  <2>1. CASE p \in DOMAIN ls
    BY <2>1, <1>1, <1>6, <1>12 DEF Good, Describes, Counted
  <2>2. CASE p = n + 1
    <3>1. \A mode : LoansOf(ms, p, mode) = {}
      <4> SUFFICES ASSUME NEW i \in DOMAIN ls, ls[i].from = n + 1, ls[i].kind # "none" PROVE FALSE
        <5>1. \A mode : LoansOf(ms, p, mode) = LoansOf(ls, p, mode)
          BY <1>1, <1>12, <2>2 DEF None
        <5>2. \A mode : LoansOf(ls, p, mode) = {i \in DOMAIN ls : ls[i].from = n + 1 /\ ls[i].kind = mode}
          BY <2>2 DEF LoansOf
        <5>3. ASSUME NEW i \in DOMAIN ls, ls[i].from = n + 1, ls[i].kind = "none" PROVE FALSE
          BY <5>3, <1>1 DEF Good, Describes, FactWell, None
        <5> QED
          BY <5>1, <5>2, <5>3
      <4>1. Recorded(ls[i])
        BY <1>1 DEF Recorded, None
      <4> QED
        BY <4>1, <1>8 DEF Good, Describes, FactWell
    <3>2. Cardinality({}) = 0 /\ ms[p].shared = 0
      BY <2>2, <1>3, <1>6, FS_EmptySet
    <3> QED
      BY <3>1, <3>2
  <2> QED
    BY <2>1, <2>2, <1>8
<1>14. ASSUME NEW i \in DOMAIN ls PROVE FactWell(ms, next, i)
  <2>1. FactWell(ls, run, i) /\ next[i] = run[i] /\ ms[i] = ls[i]
    BY <1>1, <1>6, <1>7 DEF Good, Describes
  <2>2. ASSUME Live(ls, run, i), Lender(run, i) > 0 PROVE Backed(ms, i, Lender(run, i))
    <3> DEFINE p == Lender(run, i)
    <3>1. p \in DOMAIN ls /\ Backed(ls, i, p) /\ p # None
      BY <2>1, <2>2, <1>1, LenderLocal DEF FactWell
    <3>2. ms[p] = ls[p]
      BY <3>1, <1>1, <1>6
    <3> HIDE DEF p
    <3>3. Backed(ms, i, p)
      BY <3>1, <3>2, <2>1, <1>12 DEF Backed
    <3> QED
      BY <3>3 DEF p
  <2>3. DOMAIN ls \subseteq DOMAIN ms
    BY <1>8
  <2> QED
    BY <2>1, <2>2, <2>3, FactKept DEF SameValue, SameLoan
<1>15. FactWell(ms, next, n + 1)
  BY <1>3, <1>6, <1>7, <1>10 DEF FactWell, Recorded
<1>16. \A i \in DOMAIN ms : FactWell(ms, next, i)
  BY <1>8, <1>14, <1>15
<1> QED
  BY <1>6, <1>11, <1>13, <1>16 DEF Good, Describes, ms, next, l

\* The locals beyond the first n leave their scope with what they view and what
\* they were taken through.
LEMMA LeaveScopeFields ==
  ASSUME NEW ls \in Seq(Facts), NEW n \in 0..Len(ls)
  PROVE  LET ms == LeaveScope(ls, n) IN
         /\ ms \in Seq(Facts) /\ DOMAIN ms = 1..n /\ Len(ms) = n /\ Alike(ls, ms) /\ DOMAIN ms \subseteq DOMAIN ls
         /\ \A i \in 1..n : SameValue(ls[i], ms[i]) /\ SameLoan(ls[i], ms[i])
         /\ \A i \in 1..n :
              /\ Cardinality(LoansBeyond(ls, n, i, "shared")) \in Nat
              /\ ms[i].shared = LET back == Cardinality(LoansBeyond(ls, n, i, "shared"))
                                IN  IF ls[i].shared > back THEN ls[i].shared - back ELSE 0
              /\ ms[i].exclusive <=> ls[i].exclusive /\ LoansBeyond(ls, n, i, "exclusive") = {}
<1> DEFINE ms == LeaveScope(ls, n)
           back(i) == Cardinality(LoansBeyond(ls, n, i, "shared"))
<1>1. Len(ls) \in Nat /\ DOMAIN ls = 1..Len(ls) /\ IsFiniteSet(DOMAIN ls) /\ \A i \in DOMAIN ls : ls[i] \in Facts
  BY ListFacts
<1>2. 1..n \subseteq DOMAIN ls /\ n \in Nat
  BY <1>1
<1>3. \A i : back(i) \in Nat
  <2> SUFFICES ASSUME NEW i PROVE back(i) \in Nat
    OBVIOUS
  <2>1. LoansBeyond(ls, n, i, "shared") \subseteq DOMAIN ls
    BY <1>1 DEF LoansBeyond
  <2> QED
    BY <2>1, <1>1, FS_Subset, FS_CardinalityType
<1> HIDE DEF back
<1>4. ms = [i \in 1..n |-> [ls[i] EXCEPT !.shared = IF @ > back(i) THEN @ - back(i) ELSE 0,
                                       !.exclusive = @ /\ LoansBeyond(ls, n, i, "exclusive") = {}]]
  BY DEF LeaveScope, back
<1> HIDE DEF ms
<1>5. ASSUME NEW i \in 1..n
      PROVE  /\ ms[i] \in Facts
             /\ ms[i].type = ls[i].type /\ ms[i].mutable = ls[i].mutable /\ ms[i].depth = ls[i].depth
             /\ ms[i].state = ls[i].state /\ ms[i].from = ls[i].from /\ ms[i].kind = ls[i].kind
             /\ ms[i].region = ls[i].region /\ ms[i].origin = ls[i].origin
             /\ ms[i].shared = IF ls[i].shared > back(i) THEN ls[i].shared - back(i) ELSE 0
             /\ ms[i].exclusive <=> ls[i].exclusive /\ LoansBeyond(ls, n, i, "exclusive") = {}
  <2> DEFINE e  == ls[i].exclusive /\ LoansBeyond(ls, n, i, "exclusive") = {}
             sh == IF ls[i].shared > back(i) THEN ls[i].shared - back(i) ELSE 0
  <2>1. ls[i] \in Facts /\ ls[i].shared \in Nat
    BY <1>1, <1>2, FactFields
  <2>2. ms[i] = [ls[i] EXCEPT !.shared = sh, !.exclusive = e]
    BY <1>4, <2>1 DEF Facts
  <2>3. e \in BOOLEAN /\ sh \in Nat
    BY <2>1, <1>3
  <2> HIDE DEF e, sh
  <2>4. /\ ms[i] \in Facts
        /\ ms[i].type = ls[i].type /\ ms[i].mutable = ls[i].mutable /\ ms[i].depth = ls[i].depth
        /\ ms[i].state = ls[i].state /\ ms[i].from = ls[i].from /\ ms[i].kind = ls[i].kind
        /\ ms[i].region = ls[i].region /\ ms[i].origin = ls[i].origin
        /\ ms[i].shared = sh /\ ms[i].exclusive = e
    BY <2>1, <2>2, <2>3 DEF Facts
  <2> QED
    BY <2>4 DEF e, sh
<1>6. ms \in Seq(Facts) /\ DOMAIN ms = 1..n /\ Len(ms) = n
  <2>1. ms \in [1..n -> Facts]
    BY <1>4, <1>5
  <2>2. ms \in Seq(Facts)
    BY <2>1, <1>2, SeqDef
  <2> QED
    BY <2>1, <2>2, <1>2, LenProperties
<1>7. Alike(ls, ms) /\ \A i \in 1..n : SameValue(ls[i], ms[i]) /\ SameLoan(ls[i], ms[i])
  BY <1>5, <1>6 DEF Alike, SameValue, SameLoan
<1> QED
  BY <1>2, <1>3, <1>5, <1>6, <1>7 DEF ms, back

LEMMA DropStep ==
  ASSUME NEW ls, NEW run, Good(ls, run), NEW n \in 0..Len(ls), NEW k \in Nat,
         \A i \in DOMAIN ls : i <= n <=> ls[i].depth < k
  PROVE  Good(LeaveScope(ls, n), Drop(run, n))
<1> DEFINE ms   == LeaveScope(ls, n)
           next == Drop(run, n)
           back(i) == Cardinality(LoansBeyond(ls, n, i, "shared"))
<1>1. ls \in Seq(Facts) /\ Len(ls) \in Nat /\ DOMAIN ls = 1..Len(ls) /\ (\A i \in DOMAIN ls : ls[i] \in Facts) /\ None \notin DOMAIN ls
  BY ListFacts DEF Good
<1>2. /\ DOMAIN run = DOMAIN ls /\ None \notin DOMAIN run /\ Linked(run)
      /\ \A i \in DOMAIN run : run[i] \in Cells
      /\ run \in [DOMAIN ls -> Cells]
  BY RunLinked DEF Good, Describes, RunWell
<1>3. Len(run) = Len(ls)
  <2>1. run \in Seq(Cells)
    BY <1>1, <1>2, SeqDef
  <2> QED
    BY <2>1, <1>1, <1>2, LenProperties
<1>4. /\ ms \in Seq(Facts) /\ DOMAIN ms = 1..n /\ Alike(ls, ms) /\ DOMAIN ms \subseteq DOMAIN ls
      /\ \A i \in 1..n : SameValue(ls[i], ms[i]) /\ SameLoan(ls[i], ms[i])
      /\ \A i \in 1..n : /\ back(i) \in Nat
                         /\ ms[i].shared = IF ls[i].shared > back(i) THEN ls[i].shared - back(i) ELSE 0
                         /\ ms[i].exclusive <=> ls[i].exclusive /\ LoansBeyond(ls, n, i, "exclusive") = {}
  BY <1>1, LeaveScopeFields
<1> HIDE DEF back
\* No local that stays views or was taken through one that goes.
<1>5. ASSUME NEW i \in 1..n PROVE run[i].target \notin n + 1..Len(run) /\ run[i].via \in 0..n
  <2>1. i \in DOMAIN ls /\ run[i].target \in Int /\ run[i].via \in Nat
    <3>1. i \in DOMAIN ls
      BY <1>1
    <3> QED
      BY <3>1, <1>2 DEF Cells
  <2>2. CellWell(ls, run, i)
    BY <2>1 DEF Good, Describes, RunWell
  <2>3. CASE Live(ls, run, i)
    <3>1. ViewsWell(ls, run, i)
      BY <2>2, <2>3 DEF CellWell
    <3>2. ASSUME NEW j \in DOMAIN ls, ls[j].depth <= ls[i].depth PROVE j <= n
      <4>1. ls[j].depth \in Nat /\ ls[i].depth \in Nat /\ ls[i].depth < k
        BY <2>1, <1>1, FactFields
      <4> QED
        BY <3>2, <4>1
    <3>3. run[i].target > 0 => run[i].target <= n
      BY <3>1, <3>2 DEF ViewsWell
    <3>4. run[i].via # None => run[i].via <= n
      BY <3>1, <3>2 DEF ViewsWell
    <3> QED
      BY <3>3, <3>4, <2>1, <1>1 DEF None
  <2>4. CASE ~ Live(ls, run, i)
    <3>1. run[i].target = None /\ run[i].via = None
      BY <2>2, <2>4 DEF CellWell, Live, Absent
    <3> QED
      BY <3>1, <1>1 DEF None
  <2> QED
    BY <2>3, <2>4
<1>6. DOMAIN next = 1..n /\ \A i \in 1..n : next[i] = run[i]
  <2> SUFFICES ASSUME NEW i \in 1..n PROVE next[i] = run[i]
    BY DEF Drop
  <2>1. run[i] \in Cells /\ run[i].stale \in BOOLEAN
    BY <1>1, <1>2 DEF Cells
  <2>2. ~ (run[i].target \in n + 1..Len(run)) /\ ~ (run[i].via > n)
    BY <1>1, <1>5
  <2>3. next[i] = [value |-> run[i].value, stale |-> run[i].stale, target |-> run[i].target, via |-> run[i].via]
    BY <2>1, <2>2 DEF Drop
  <2> QED
    BY <2>1, <2>3 DEF Cells
<1>7. next \in [DOMAIN ms -> Cells]
  <2>1. next = [i \in 1..n |-> next[i]]
    BY DEF Drop
  <2> HIDE DEF next
  <2>2. \A i \in 1..n : next[i] \in Cells
    BY <1>1, <1>2, <1>6
  <2> QED
    BY <2>1, <2>2, <1>4
<1> HIDE DEF ms, next
<1>8. RunWell(ms, next)
  <2>1. \A i \in 1..n : next[i] = run[i] /\ run[i].via \in 1..n \cup {None}
    BY <1>1, <1>5, <1>6 DEF None
  <2>2. \A i \in 1..n : run[i].target \in DOMAIN ls => run[i].target \in DOMAIN ms
    BY <1>1, <1>3, <1>4, <1>5
  <2>3. Apart(ls, run, ms, next, 1..n)
    BY <2>1, <2>2, <1>4, <1>6 DEF Apart, Alike
  <2>4. /\ \A i \in 1..n : CellWell(ms, next, i) /\ Rooted(next, i)
        /\ \A i, j \in 1..n : Nested(ms, next, i, j)
    BY <2>3, CellsApart
  <2> QED
    BY <2>4, <1>4, <1>7 DEF RunWell
\* The loans that go are those given back.
<1>9. ASSUME NEW p \in 1..n
      PROVE  /\ Cardinality(LoansOf(ls, p, "shared")) \in Nat /\ ls[p].shared \in Nat /\ back(p) \in Nat
             /\ Cardinality(LoansOf(ms, p, "shared")) = Cardinality(LoansOf(ls, p, "shared")) - back(p)
             /\ back(p) <= Cardinality(LoansOf(ls, p, "shared"))
             /\ LoansOf(ms, p, "exclusive") = LoansOf(ls, p, "exclusive") \ LoansBeyond(ls, n, p, "exclusive")
             /\ LoansBeyond(ls, n, p, "exclusive") \subseteq LoansOf(ls, p, "exclusive")
  <2>1. ASSUME NEW mode
        PROVE  /\ LoansOf(ms, p, mode) = LoansOf(ls, p, mode) \ LoansBeyond(ls, n, p, mode)
               /\ LoansBeyond(ls, n, p, mode) \subseteq LoansOf(ls, p, mode)
    BY <1>1, <1>4 DEF LoansOf, LoansBeyond, SameLoan
  <2> DEFINE L == LoansOf(ls, p, "shared")
             B == LoansBeyond(ls, n, p, "shared")
  <2>2. IsFiniteSet(L) /\ Cardinality(L) \in Nat
    BY <1>1, LoansFinite
  <2>3. L \cap B = B /\ LoansOf(ms, p, "shared") = L \ B /\ B \subseteq L
    BY <2>1
  <2>4. IsFiniteSet(B) /\ Cardinality(B) \in Nat /\ Cardinality(B) <= Cardinality(L)
    BY <2>2, <2>3, FS_Subset, FS_CardinalityType
  <2>5. Cardinality(L \ B) = Cardinality(L) - Cardinality(B)
    BY <2>2, <2>3, FS_Difference
  <2>6. ls[p].shared \in Nat
    BY <1>1, <1>4, FactFields
  <2> QED
    BY <2>1, <2>2, <2>3, <2>4, <2>5, <2>6 DEF back
<1>10. Counted(ms)
  <2> SUFFICES ASSUME NEW p \in 1..n
               PROVE  /\ Cardinality(LoansOf(ms, p, "shared")) <= ms[p].shared
                      /\ \A j \in LoansOf(ms, p, "exclusive") : ms[p].exclusive /\ LoansOf(ms, p, "exclusive") = {j}
    BY <1>4 DEF Counted
  <2>1. /\ Cardinality(LoansOf(ls, p, "shared")) <= ls[p].shared
        /\ \A j \in LoansOf(ls, p, "exclusive") : ls[p].exclusive /\ LoansOf(ls, p, "exclusive") = {j}
    BY <1>4 DEF Good, Describes, Counted
  <2>2. Cardinality(LoansOf(ms, p, "shared")) <= ms[p].shared
    <3>1. ms[p].shared = IF ls[p].shared > back(p) THEN ls[p].shared - back(p) ELSE 0
      BY <1>4
    <3> QED
      BY <3>1, <2>1, <1>9
  <2>3. ASSUME NEW j \in LoansOf(ms, p, "exclusive") PROVE ms[p].exclusive /\ LoansOf(ms, p, "exclusive") = {j}
    <3>1. LoansOf(ls, p, "exclusive") = {j} /\ ls[p].exclusive /\ LoansBeyond(ls, n, p, "exclusive") = {}
      BY <2>1, <2>3, <1>9
    <3> QED
      BY <3>1, <1>4, <1>9
  <2> QED
    BY <2>2, <2>3
<1>11. ASSUME NEW i \in 1..n PROVE FactWell(ms, next, i)
  <2>1. /\ FactWell(ls, run, i) /\ next[i] = run[i] /\ ms[i].type = ls[i].type /\ i \in DOMAIN ls
        /\ SameValue(ls[i], ms[i]) /\ SameLoan(ls[i], ms[i])
    BY <1>4, <1>6 DEF Good, Describes, Alike
  <2>2. (Live(ms, next, i) <=> Live(ls, run, i)) /\ Lender(next, i) = Lender(run, i)
        /\ (Recorded(ms[i]) <=> Recorded(ls[i]))
    BY <2>1 DEF Live, IsReference, Lender, Recorded, SameLoan
  <2>3. Live(ls, run, i) /\ Lender(run, i) > 0 => Lender(run, i) \in 1..n
    <3> SUFFICES ASSUME Live(ls, run, i), Lender(run, i) > 0 PROVE Lender(run, i) \in 1..n
      OBVIOUS
    <3>1. Lender(run, i) \in DOMAIN ls
      BY <2>1, LenderLocal
    <3>2. run[i].target \notin n + 1..Len(run) /\ run[i].via \in 0..n
      BY <1>5
    <3> QED
      BY <3>1, <3>2, <1>1, <1>3 DEF Lender
  <2>4. Live(ls, run, i) /\ Lender(run, i) > 0 => Backed(ms, i, Lender(run, i))
    <3> SUFFICES ASSUME Live(ls, run, i), Lender(run, i) > 0 PROVE Backed(ms, i, Lender(run, i))
      OBVIOUS
    <3> DEFINE p == Lender(run, i)
    <3>1. p \in 1..n /\ Backed(ls, i, p)
      BY <2>1, <2>3 DEF FactWell
    <3> HIDE DEF p
    <3>2. ASSUME Recorded(ls[i]) PROVE Backed(ms, i, p)
      BY <3>1, <3>2, <2>1, <2>2 DEF Backed, SameLoan
    <3>3. ASSUME ~ Recorded(ls[i]) PROVE Backed(ms, i, p)
      <4>1. \/ ls[i].type # "exclusive" /\ Cardinality(LoansOf(ls, p, "shared")) < ls[p].shared
            \/ ls[p].exclusive /\ LoansOf(ls, p, "exclusive") = {}
        BY <3>1, <3>3 DEF Backed
      <4>2. Cardinality(LoansOf(ls, p, "shared")) < ls[p].shared
              => Cardinality(LoansOf(ms, p, "shared")) < ms[p].shared
        <5>1. ms[p].shared = IF ls[p].shared > back(p) THEN ls[p].shared - back(p) ELSE 0
          BY <3>1, <1>4
        <5> QED
          BY <5>1, <3>1, <1>9
      <4>3. ls[p].exclusive /\ LoansOf(ls, p, "exclusive") = {} => ms[p].exclusive /\ LoansOf(ms, p, "exclusive") = {}
        BY <3>1, <1>4, <1>9
      <4> QED
        BY <4>1, <4>2, <4>3, <3>3, <2>1, <2>2 DEF Backed
    <3>4. Backed(ms, i, p)
      BY <3>2, <3>3
    <3> QED
      BY <3>4 DEF p
  <2>5. Recorded(ms[i]) => Live(ms, next, i) /\ ms[i].from = Lender(next, i) /\ ms[i].from \in DOMAIN ms
    <3> SUFFICES ASSUME Recorded(ms[i])
                 PROVE  Live(ms, next, i) /\ ms[i].from = Lender(next, i) /\ ms[i].from \in DOMAIN ms
      OBVIOUS
    <3>1. Live(ls, run, i) /\ ls[i].from = Lender(run, i) /\ ls[i].from \in DOMAIN ls
      BY <2>1, <2>2 DEF FactWell
    <3>2. ls[i].from \in 1..n
      BY <3>1, <2>3, <1>1
    <3> QED
      BY <3>1, <3>2, <2>1, <2>2, <1>4 DEF SameLoan
  <2> QED
    BY <2>1, <2>2, <2>4, <2>5 DEF FactWell, SameValue, SameLoan
<1>12. \A i \in DOMAIN ms : FactWell(ms, next, i)
  BY <1>4, <1>11
<1> QED
  BY <1>4, <1>8, <1>10, <1>12 DEF Good, Describes, ms, next

\* ms says no more of the locals than ls.
Weaker(ls, ms) ==
  /\ ms \in Seq(Facts) /\ DOMAIN ms = DOMAIN ls /\ Alike(ls, ms)
  /\ \A i \in DOMAIN ls :
       /\ ms[i].state = "initialized" => ls[i].state = "initialized"
       /\ ms[i].shared >= ls[i].shared
       /\ ls[i].exclusive => ms[i].exclusive
       /\ \/ /\ ms[i].from = ls[i].from /\ ms[i].kind = ls[i].kind
             /\ ms[i].region = 0 => ls[i].region = 0
             /\ ms[i].origin \in {ls[i].origin, None}
          \/ ms[i].from = None /\ ms[i].kind = "none" /\ ms[i].origin = None

LEMMA WeakerStep ==
  ASSUME NEW ls, NEW run, Good(ls, run), NEW ms, Weaker(ls, ms)
  PROVE  Good(ms, run)
<1> USE DEF Weaker
<1>1. /\ ls \in Seq(Facts) /\ None \notin DOMAIN ls /\ \A i \in DOMAIN ls : ls[i] \in Facts /\ ms[i] \in Facts
  BY ListFacts DEF Good
<1>2. DOMAIN run = DOMAIN ls /\ run \in [DOMAIN ls -> Cells]
  BY RunLinked DEF Good, Describes, RunWell
<1>3. RunWell(ms, run)
  <2>1. \A i \in DOMAIN ls : run[i].via \in DOMAIN ls \cup {None}
    BY <1>2, RunLinked DEF Linked
  <2>2. Apart(ls, run, ms, run, DOMAIN ls)
    BY <2>1, <1>2 DEF Apart, Alike
  <2>3. /\ \A i \in DOMAIN ls : CellWell(ms, run, i) /\ Rooted(run, i)
        /\ \A i, j \in DOMAIN ls : Nested(ms, run, i, j)
    BY <2>2, CellsApart
  <2> QED
    BY <2>3, <1>2 DEF RunWell
<1>4. ASSUME NEW p \in DOMAIN ls, NEW mode
      PROVE  /\ LoansOf(ms, p, mode) \subseteq LoansOf(ls, p, mode)
             /\ IsFiniteSet(LoansOf(ls, p, mode)) /\ Cardinality(LoansOf(ls, p, mode)) \in Nat
             /\ Cardinality(LoansOf(ms, p, mode)) \in Nat
             /\ Cardinality(LoansOf(ms, p, mode)) <= Cardinality(LoansOf(ls, p, mode))
  <2>1. LoansOf(ms, p, mode) \subseteq LoansOf(ls, p, mode)
    BY <1>1 DEF LoansOf
  <2>2. /\ IsFiniteSet(LoansOf(ls, p, mode)) /\ Cardinality(LoansOf(ls, p, mode)) \in Nat
        /\ Cardinality(LoansOf(ms, p, mode)) \in Nat
    BY <1>1, LoansFinite
  <2> QED
    BY <2>1, <2>2, FS_Subset
<1>5. ASSUME NEW p \in DOMAIN ls
      PROVE  /\ ls[p].shared \in Nat /\ ms[p].shared \in Nat /\ ms[p].shared >= ls[p].shared
             /\ Cardinality(LoansOf(ls, p, "shared")) <= ls[p].shared
             /\ \A k \in LoansOf(ls, p, "exclusive") : ls[p].exclusive /\ LoansOf(ls, p, "exclusive") = {k}
  BY <1>1, FactFields DEF Good, Describes, Counted
<1>6. Counted(ms)
  <2> SUFFICES ASSUME NEW p \in DOMAIN ls
               PROVE  /\ Cardinality(LoansOf(ms, p, "shared")) <= ms[p].shared
                      /\ \A k \in LoansOf(ms, p, "exclusive") : ms[p].exclusive /\ LoansOf(ms, p, "exclusive") = {k}
    BY DEF Counted
  <2>1. Cardinality(LoansOf(ms, p, "shared")) <= ms[p].shared
    BY <1>4, <1>5
  <2>2. ASSUME NEW k \in LoansOf(ms, p, "exclusive") PROVE ms[p].exclusive /\ LoansOf(ms, p, "exclusive") = {k}
    <3>1. LoansOf(ms, p, "exclusive") \subseteq LoansOf(ls, p, "exclusive")
      BY <1>4
    <3>2. LoansOf(ls, p, "exclusive") = {k} /\ ls[p].exclusive
      BY <3>1, <2>2, <1>5
    <3> QED
      BY <3>1, <3>2
  <2> QED
    BY <2>1, <2>2
<1>7. ASSUME NEW i \in DOMAIN ls, NEW p \in DOMAIN ls, Backed(ls, i, p) PROVE Backed(ms, i, p)
  <2>1. ms[i].type = ls[i].type
    BY DEF Alike
  <2>2. /\ LoansOf(ms, p, "shared") \subseteq LoansOf(ls, p, "shared")
        /\ LoansOf(ms, p, "exclusive") \subseteq LoansOf(ls, p, "exclusive")
        /\ ls[p].exclusive => ms[p].exclusive
    BY <1>4
  <2>3. CASE Recorded(ms[i])
    <3>1. Recorded(ls[i]) /\ ms[i].from = ls[i].from /\ ms[i].kind = ls[i].kind
      BY <2>3 DEF Recorded
    <3> QED
      BY <3>1, <2>1, <2>3, <1>7 DEF Backed
  \* The record of the loan was given up; its count was not.
  <2>4. CASE ~ Recorded(ms[i]) /\ Recorded(ls[i])
    <3>1. ls[i].from = p /\ (ls[i].type = "exclusive" => ls[i].kind = "exclusive") /\ ls[i].kind \in {"shared", "exclusive"}
      BY <2>4, <1>1, <1>7, FactFields DEF Backed, Recorded
    <3>2. ms[i].kind = "none"
      BY <2>4 DEF Recorded
    <3>3. CASE ls[i].kind = "shared"
      <4>1. i \in LoansOf(ls, p, "shared") /\ i \notin LoansOf(ms, p, "shared")
        BY <3>1, <3>2, <3>3 DEF LoansOf
      <4>2. Cardinality(LoansOf(ms, p, "shared")) # Cardinality(LoansOf(ls, p, "shared"))
        BY <4>1, <1>4, FS_Subset
      <4>3. Cardinality(LoansOf(ms, p, "shared")) < ms[p].shared
        BY <4>2, <1>4, <1>5
      <4> QED
        BY <4>3, <3>1, <3>3, <2>1, <2>4 DEF Backed
    <3>4. CASE ls[i].kind = "exclusive"
      <4>1. i \in LoansOf(ls, p, "exclusive") /\ i \notin LoansOf(ms, p, "exclusive")
        BY <3>1, <3>2, <3>4 DEF LoansOf
      <4>2. ls[p].exclusive /\ LoansOf(ls, p, "exclusive") = {i}
        BY <4>1, <1>5
      <4> QED
        BY <4>1, <4>2, <2>2, <2>4 DEF Backed
    <3> QED
      BY <3>1, <3>3, <3>4
  <2>5. CASE ~ Recorded(ms[i]) /\ ~ Recorded(ls[i])
    <3>1. \/ ls[i].type # "exclusive" /\ Cardinality(LoansOf(ls, p, "shared")) < ls[p].shared
          \/ ls[p].exclusive /\ LoansOf(ls, p, "exclusive") = {}
      BY <2>5, <1>7 DEF Backed
    <3>2. Cardinality(LoansOf(ls, p, "shared")) < ls[p].shared => Cardinality(LoansOf(ms, p, "shared")) < ms[p].shared
      BY <1>4, <1>5
    <3>3. LoansOf(ls, p, "exclusive") = {} => LoansOf(ms, p, "exclusive") = {}
      BY <2>2
    <3> QED
      BY <3>1, <3>2, <3>3, <2>1, <2>2, <2>5 DEF Backed
  <2> QED
    BY <2>3, <2>4, <2>5
<1>8. ASSUME NEW i \in DOMAIN ls PROVE FactWell(ms, run, i)
  <2>1. FactWell(ls, run, i) /\ ms[i].type = ls[i].type
    BY DEF Good, Describes, Alike
  <2>2. Live(ms, run, i) <=> Live(ls, run, i)
    BY <2>1 DEF Live, IsReference
  <2>3. Live(ls, run, i) /\ Lender(run, i) > 0 => Backed(ms, i, Lender(run, i))
    BY <2>1, <1>7, LenderLocal DEF FactWell
  <2>4. Recorded(ms[i]) => Recorded(ls[i]) /\ ms[i].from = ls[i].from
    BY DEF Recorded
  <2>5. ms[i].kind = "none" => ms[i].from = None
    BY <2>1 DEF FactWell
  <2>6. ms[i].state = "initialized" => run[i].value
    BY <2>1 DEF FactWell
  <2>7. Live(ls, run, i) /\ ms[i].region = 0 /\ ms[i].origin # None => run[i].target = Outside(ms[i].origin)
    BY <2>1 DEF FactWell
  <2> QED
    BY <2>1, <2>2, <2>3, <2>4, <2>5, <2>6, <2>7 DEF FactWell
<1> QED
  BY <1>3, <1>6, <1>8 DEF Good, Describes

LEMMA MergedFields ==
  ASSUME NEW l \in Facts, NEW r \in Facts
  PROVE  LET m == Merged(l, r) IN
         /\ m \in Facts /\ m.type = l.type /\ m.mutable = l.mutable /\ m.depth = l.depth
         /\ m.state = "initialized" => l.state = "initialized" /\ r.state = "initialized"
         /\ m.shared >= l.shared /\ m.shared >= r.shared
         /\ m.exclusive <=> l.exclusive \/ r.exclusive
         /\ \/ /\ m.from = l.from /\ m.from = r.from /\ m.kind = l.kind /\ m.kind = r.kind
               /\ m.region >= l.region /\ m.region >= r.region
               /\ m.origin = None \/ (m.origin = l.origin /\ m.origin = r.origin)
            \/ m.from = None /\ m.kind = "none" /\ m.origin = None
<1> DEFINE st == Joined(l.state, r.state)
           sh == Greater(l.shared, r.shared)
           ex == l.exclusive \/ r.exclusive
           base == [l EXCEPT !.state = st, !.shared = sh, !.exclusive = ex]
           same == l.from = r.from /\ l.kind = r.kind
           from   == IF same THEN l.from ELSE None
           kind   == IF same THEN l.kind ELSE "none"
           region == IF same THEN Greater(l.region, r.region) ELSE NoRegion
           origin == IF same THEN CommonOrigin(l, r) ELSE None
           m == [base EXCEPT !.from = from, !.kind = kind, !.region = region, !.origin = origin]
<1>1. Merged(l, r) = m
  BY DEF Merged, Referring
<1>2. /\ l.state \in States /\ r.state \in States /\ l.shared \in Nat /\ r.shared \in Nat
      /\ l.exclusive \in BOOLEAN /\ r.exclusive \in BOOLEAN
      /\ l.region \in Nat /\ r.region \in Nat /\ l.origin \in Nat /\ r.origin \in Nat /\ l.from \in Nat
      /\ l.kind \in {"none", "shared", "exclusive"}
  BY FactFields
<1>3. st \in States /\ (st = "initialized" => l.state = "initialized" /\ r.state = "initialized")
  BY <1>2 DEF Joined, States
<1>4. sh \in Nat /\ sh >= l.shared /\ sh >= r.shared /\ ex \in BOOLEAN
  BY <1>2 DEF Greater
<1>5. from \in Nat /\ kind \in {"none", "shared", "exclusive"} /\ region \in Nat /\ origin \in Nat
  BY <1>2, NoneType DEF Greater, CommonOrigin
<1>6. \/ /\ from = l.from /\ from = r.from /\ kind = l.kind /\ kind = r.kind
         /\ region >= l.region /\ region >= r.region
         /\ origin = None \/ (origin = l.origin /\ origin = r.origin)
      \/ from = None /\ kind = "none" /\ origin = None
  BY <1>2 DEF Greater, CommonOrigin
<1> HIDE DEF st, sh, ex, from, kind, region, origin
<1>7. /\ base \in Facts /\ base.type = l.type /\ base.mutable = l.mutable /\ base.depth = l.depth
      /\ base.state = st /\ base.shared = sh /\ base.exclusive = ex
  BY <1>3, <1>4 DEF Facts
<1> HIDE DEF base
<1>8. /\ m \in Facts /\ m.type = l.type /\ m.mutable = l.mutable /\ m.depth = l.depth
      /\ m.state = st /\ m.shared = sh /\ m.exclusive = ex
      /\ m.from = from /\ m.kind = kind /\ m.region = region /\ m.origin = origin
  BY <1>5, <1>7 DEF Facts
<1> QED
  BY <1>1, <1>3, <1>4, <1>6, <1>8 DEF ex

LEMMA MergedWeaker ==
  ASSUME NEW ls \in Seq(Facts), NEW rs \in Seq(Facts), DOMAIN rs = DOMAIN ls, Alike(ls, rs)
  PROVE  /\ Weaker(ls, MergedLocals(ls, rs)) /\ Weaker(rs, MergedLocals(ls, rs))
         /\ Len(MergedLocals(ls, rs)) = Len(ls)
<1> DEFINE ms == MergedLocals(ls, rs)
<1>1. Len(ls) \in Nat /\ DOMAIN ls = 1..Len(ls) /\ \A i \in DOMAIN ls : ls[i] \in Facts /\ rs[i] \in Facts
  BY ListFacts
<1>2. DOMAIN ms = DOMAIN ls /\ \A i \in DOMAIN ls : ms[i] = Merged(ls[i], rs[i])
  BY DEF MergedLocals
<1>3. ms \in [DOMAIN ls -> Facts]
  BY <1>1, MergedFields DEF MergedLocals
<1>4. ms \in Seq(Facts)
  BY <1>1, <1>3, SeqDef
<1>5. Len(ms) = Len(ls)
  BY <1>1, <1>2, <1>4, LenProperties
<1> HIDE DEF ms
<1>6. ASSUME NEW i \in DOMAIN ls
      PROVE  LET m == ms[i]
                 l == ls[i]
                 r == rs[i]
             IN  /\ m.type = l.type /\ m.mutable = l.mutable /\ m.depth = l.depth
                 /\ l.region \in Nat /\ r.region \in Nat /\ m.region \in Nat
                 /\ m.state = "initialized" => l.state = "initialized" /\ r.state = "initialized"
                 /\ m.shared >= l.shared /\ m.shared >= r.shared
                 /\ m.exclusive <=> l.exclusive \/ r.exclusive
                 /\ \/ /\ m.from = l.from /\ m.from = r.from /\ m.kind = l.kind /\ m.kind = r.kind
                       /\ m.region >= l.region /\ m.region >= r.region
                       /\ m.origin = None \/ (m.origin = l.origin /\ m.origin = r.origin)
                    \/ m.from = None /\ m.kind = "none" /\ m.origin = None
  <2>1. ls[i] \in Facts /\ rs[i] \in Facts /\ ms[i] = Merged(ls[i], rs[i]) /\ ms[i] \in Facts
    BY <1>1, <1>2, <1>3
  <2>2. ls[i].region \in Nat /\ rs[i].region \in Nat /\ ms[i].region \in Nat
    BY <2>1, FactFields
  <2> QED
    BY <2>1, <2>2, MergedFields
<1>7. Alike(ls, ms) /\ Alike(rs, ms)
  BY <1>2, <1>6 DEF Alike
<1>8. Weaker(ls, ms)
  BY <1>2, <1>4, <1>6, <1>7 DEF Weaker
<1>9. Weaker(rs, ms)
  BY <1>2, <1>4, <1>6, <1>7 DEF Weaker
<1> QED
  BY <1>5, <1>8, <1>9 DEF ms

-----------------------------------------------------------------------------
(* The facts after a statement that gives a reference d a value.               *)

LEMMA LentFields ==
  ASSUME NEW l \in Facts, NEW mode \in References, ~ l.exclusive
  PROVE  /\ Lent(l, mode) \in Facts
         /\ Lent(l, mode).type = l.type /\ Lent(l, mode).mutable = l.mutable
         /\ Lent(l, mode).depth = l.depth /\ Lent(l, mode).state = l.state
         /\ Lent(l, mode).from = l.from /\ Lent(l, mode).kind = l.kind
         /\ Lent(l, mode).region = l.region /\ Lent(l, mode).origin = l.origin
         /\ Lent(l, mode).shared = IF mode = "shared" THEN l.shared + 1 ELSE l.shared
         /\ Lent(l, mode).exclusive = (mode = "exclusive")
<1>1. CASE mode = "exclusive"
  BY <1>1 DEF Lent, Facts
<1>2. CASE mode = "shared"
  <2>1. l.exclusive = FALSE
    BY FactFields
  <2> QED
    BY <1>2, <2>1 DEF Lent, Facts
<1> QED
  BY <1>1, <1>2 DEF References

LEMMA ReleasedFields ==
  ASSUME NEW ls \in Seq(Facts), NEW d \in DOMAIN ls
  PROVE  LET freed == ReleaseLoan(ls, d) IN
         /\ freed \in Seq(Facts) /\ DOMAIN freed = DOMAIN ls
         /\ \A i \in DOMAIN ls \ {d} : Vacated(ls, d)[i] = freed[i]
         /\ Vacated(ls, d)[d].type = freed[d].type /\ Vacated(ls, d)[d].mutable = freed[d].mutable
         /\ Vacated(ls, d)[d].depth = freed[d].depth /\ SameCount(freed[d], Vacated(ls, d)[d])
         /\ DOMAIN Vacated(ls, d) = DOMAIN ls
<1> DEFINE o     == ls[d].from
           freed == ReleaseLoan(ls, d)
           l     == [Referring(freed[d], None, "none", NoRegion, None) EXCEPT !.state = "moved"]
           ms    == Vacated(ls, d)
<1>1. Len(ls) \in Nat /\ DOMAIN ls = 1..Len(ls) /\ \A i \in DOMAIN ls : ls[i] \in Facts
  BY ListFacts
<1>2. freed \in Seq(Facts) /\ DOMAIN freed = DOMAIN ls
  <2>1. CASE ~ Recorded(ls[d])
    BY <2>1 DEF ReleaseLoan, Recorded
  <2>2. CASE Recorded(ls[d])
    <3> DEFINE back == IF o \in DOMAIN ls THEN [ls EXCEPT ![o] = Returned(@, ls[d].kind)] ELSE ls
               free == Referring(back[d], None, "none", NoRegion, None)
    <3>1. freed = [back EXCEPT ![d] = free]
      BY <2>2 DEF ReleaseLoan, Recorded
    <3>2. back \in Seq(Facts) /\ DOMAIN back = DOMAIN ls
      <4>1. CASE o \in DOMAIN ls
        <5>1. ls[d].kind \in {"shared", "exclusive"}
          BY <2>2, <1>1, FactFields DEF Recorded
        <5>2. Returned(ls[o], ls[d].kind) \in Facts
          BY <4>1, <5>1, <1>1, ReturnedFields
        <5> QED
          BY <4>1, <5>2, <1>1, ExceptSeq
      <4>2. CASE o \notin DOMAIN ls
        BY <4>2
      <4> QED
        BY <4>1, <4>2
    <3> HIDE DEF back
    <3>3. back[d] \in Facts /\ Len(back) = Len(ls)
      BY <3>2, <1>1, ListFacts
    <3>4. free \in Facts
      BY <3>3, NoneType DEF Referring, Facts
    <3> HIDE DEF free, freed
    <3> QED
      BY <3>1, <3>2, <3>3, <3>4, <1>1, ExceptSeq
  <2> QED
    BY <2>1, <2>2
<1>3. freed[d] \in Facts /\ "moved" \in States
  BY <1>2, ListFacts DEF States
<1>4. ms = [freed EXCEPT ![d] = l]
  BY DEF Vacated
<1> HIDE DEF freed
<1>5. /\ l.type = freed[d].type /\ l.mutable = freed[d].mutable /\ l.depth = freed[d].depth
      /\ SameCount(freed[d], l)
  BY <1>3, NoneType DEF Referring, Facts, SameCount
<1> HIDE DEF l, ms
<1>6. ms[d] = l /\ DOMAIN ms = DOMAIN ls /\ \A i \in DOMAIN ls \ {d} : ms[i] = freed[i]
  BY <1>2, <1>4
<1> QED
  BY <1>2, <1>5, <1>6 DEF ms, freed

\* The facts after  d := &x, given those before without the loan of d.
LEMMA BorrowLends ==
  ASSUME NEW ls \in Seq(Facts), NEW d \in DOMAIN ls, NEW x \in DOMAIN ls \ {d}, ls[d].from # d,
         NEW mode \in References, ~ Vacated(ls, d)[x].exclusive
  PROVE  LET ms == [Borrow(ReleaseLoan(ls, d), d, x, mode) EXCEPT ![d] = Initialized(@)] IN
         /\ Lending(Vacated(ls, d), ms, d, x, mode)
         /\ ms[d].state = "initialized" /\ ms[d].origin = None
<1> DEFINE vs    == Vacated(ls, d)
           freed == ReleaseLoan(ls, d)
           ms    == [Borrow(freed, d, x, mode) EXCEPT ![d] = Initialized(@)]
           lent  == Lent(freed[x], mode)
           l     == Initialized(Referring(freed[d], x, mode, freed[x].depth, None))
<1>1. /\ freed \in Seq(Facts) /\ DOMAIN freed = DOMAIN ls
      /\ \A i \in DOMAIN ls \ {d} : vs[i] = freed[i]
      /\ vs[d].type = freed[d].type /\ vs[d].mutable = freed[d].mutable
      /\ vs[d].depth = freed[d].depth /\ SameCount(freed[d], vs[d]) /\ DOMAIN vs = DOMAIN ls
  BY ReleasedFields
<1>2. vs[d].from = None /\ vs[d].kind = "none"
  BY VacatedFields
<1> HIDE DEF vs
<1>3. Len(freed) \in Nat /\ DOMAIN freed = 1..Len(freed) /\ (\A i \in DOMAIN freed : freed[i] \in Facts) /\ DOMAIN freed \subseteq Nat
  BY <1>1, ListFacts
<1>4. ms = [[freed EXCEPT ![x] = lent] EXCEPT ![d] = l]
  BY <1>1 DEF Borrow
<1> HIDE DEF freed
<1>5. ~ freed[x].exclusive
  BY <1>1 DEF vs
<1>6. /\ lent \in Facts
      /\ lent.type = freed[x].type /\ lent.mutable = freed[x].mutable /\ lent.depth = freed[x].depth
      /\ lent.state = freed[x].state /\ lent.from = freed[x].from /\ lent.kind = freed[x].kind
      /\ lent.region = freed[x].region /\ lent.origin = freed[x].origin
      /\ lent.shared = IF mode = "shared" THEN freed[x].shared + 1 ELSE freed[x].shared
      /\ lent.exclusive = (mode = "exclusive")
  BY <1>1, <1>3, <1>5, LentFields
<1>7. /\ l \in Facts
      /\ l.type = freed[d].type /\ l.mutable = freed[d].mutable /\ l.depth = freed[d].depth
      /\ l.state = "initialized" /\ l.from = x /\ l.kind = mode /\ l.origin = None /\ SameCount(freed[d], l)
  <2>1. freed[d] \in Facts /\ x \in Nat /\ mode \in {"none", "shared", "exclusive"} /\ freed[x].depth \in Nat
    BY <1>1, <1>3, FactFields DEF References
  <2> QED
    BY <2>1, NoneType DEF Referring, Initialized, Facts, SameCount, States
<1> HIDE DEF l, lent, ms
<1>8. /\ ms \in Seq(Facts) /\ DOMAIN ms = DOMAIN ls /\ ms[d] = l /\ ms[x] = lent
      /\ \A i \in DOMAIN ls \ {d, x} : ms[i] = freed[i]
  <2>1. [freed EXCEPT ![x] = lent] \in Seq(Facts) /\ Len([freed EXCEPT ![x] = lent]) = Len(freed)
    BY <1>1, <1>3, <1>6, ExceptSeq
  <2>2. ms \in Seq(Facts)
    BY <1>1, <1>3, <1>4, <1>7, <2>1, ExceptSeq
  <2> QED
    BY <2>2, <1>1, <1>4
<1>9. Alike(vs, ms)
  BY <1>1, <1>6, <1>7, <1>8 DEF Alike
<1>10. \A i \in DOMAIN vs \ {d} : SameValue(vs[i], ms[i]) /\ SameLoan(vs[i], ms[i])
  BY <1>1, <1>6, <1>8 DEF SameValue, SameLoan
<1>11. \A i \in DOMAIN vs \ {x} : SameCount(vs[i], ms[i])
  BY <1>1, <1>7, <1>8 DEF SameCount
<1>12. Lending(vs, ms, d, x, mode)
  BY <1>1, <1>2, <1>5, <1>6, <1>7, <1>8, <1>9, <1>10, <1>11 DEF Lending
<1> QED
  BY <1>7, <1>8, <1>12 DEF vs, ms, freed

\* The facts after  d := x  of a reference x, likewise.
LEMMA CopyFields ==
  ASSUME NEW ls \in Seq(Facts), NEW d \in DOMAIN ls, NEW x \in DOMAIN ls \ {d}, ls[d].from # d,
         LET vs == Vacated(ls, d) IN
         IF vs[x].type = "exclusive" THEN MayMove(vs[x])
         ELSE vs[x].from # None => vs[x].from \in DOMAIN ls \ {d} /\ ~ vs[vs[x].from].exclusive
  PROVE  LET vs == Vacated(ls, d)
             ms == [Copy(ReleaseLoan(ls, d), d, x) EXCEPT ![d] = Initialized(@)] IN
         /\ ms[d].state = "initialized" /\ ms[d].from = vs[x].from
         /\ ms[d].region = vs[x].region /\ ms[d].origin = vs[x].origin
         /\ vs[x].type = "exclusive" => Moving(vs, ms, d, x)
         /\ vs[x].type # "exclusive" =>
              /\ ms[d].kind = "shared"
              /\ IF vs[x].from = None THEN Keeping(vs, ms, d) ELSE Lending(vs, ms, d, vs[x].from, "shared")
<1> DEFINE vs    == Vacated(ls, d)
           freed == ReleaseLoan(ls, d)
           ms    == [Copy(freed, d, x) EXCEPT ![d] = Initialized(@)]
           o     == freed[x].from
           gone  == [Emptied(freed[x]) EXCEPT !.from = None, !.kind = "none"]
           kind  == IF freed[x].type = "exclusive" THEN freed[x].kind ELSE "shared"
           l     == Initialized(Referring(freed[d], o, kind, freed[x].region, freed[x].origin))
<1>1. /\ freed \in Seq(Facts) /\ DOMAIN freed = DOMAIN ls
      /\ \A i \in DOMAIN ls \ {d} : vs[i] = freed[i]
      /\ vs[d].type = freed[d].type /\ vs[d].mutable = freed[d].mutable
      /\ vs[d].depth = freed[d].depth /\ SameCount(freed[d], vs[d]) /\ DOMAIN vs = DOMAIN ls
  BY ReleasedFields
<1>2. vs[d].from = None /\ vs[d].kind = "none"
  BY VacatedFields
<1>3. IF vs[x].type = "exclusive" THEN MayMove(vs[x])
      ELSE vs[x].from # None => vs[x].from \in DOMAIN ls \ {d} /\ ~ vs[vs[x].from].exclusive
  OBVIOUS
<1> HIDE DEF vs
<1>4. Len(freed) \in Nat /\ DOMAIN freed = 1..Len(freed) /\ (\A i \in DOMAIN freed : freed[i] \in Facts) /\ DOMAIN freed \subseteq Nat
  BY <1>1, ListFacts
<1>5. /\ l \in Facts
      /\ l.type = freed[d].type /\ l.mutable = freed[d].mutable /\ l.depth = freed[d].depth
      /\ l.state = "initialized" /\ l.from = freed[x].from /\ l.kind = kind
      /\ l.region = freed[x].region /\ l.origin = freed[x].origin /\ SameCount(freed[d], l)
  <2>1. /\ freed[d] \in Facts /\ o \in Nat /\ kind \in {"none", "shared", "exclusive"}
        /\ freed[x].region \in Nat /\ freed[x].origin \in Nat
    BY <1>1, <1>4, FactFields
  <2> HIDE DEF freed, o, kind
  <2>2. /\ l \in Facts
        /\ l.type = freed[d].type /\ l.mutable = freed[d].mutable /\ l.depth = freed[d].depth
        /\ l.state = "initialized" /\ l.from = o /\ l.kind = kind
        /\ l.region = freed[x].region /\ l.origin = freed[x].origin /\ SameCount(freed[d], l)
    BY <2>1 DEF Referring, Initialized, Facts, SameCount, States
  <2> QED
    BY <2>2 DEF o
<1>6. freed[x] = vs[x] /\ freed[x] \in Facts
  BY <1>1, <1>4
<1>7. CASE vs[x].type = "exclusive"
  <2>1. MayMove(freed[x]) /\ kind = freed[x].kind
    BY <1>3, <1>6, <1>7
  <2>2. /\ gone \in Facts
        /\ gone.type = freed[x].type /\ gone.mutable = freed[x].mutable /\ gone.depth = freed[x].depth
        /\ gone.state = "moved" /\ gone.from = None /\ gone.kind = "none" /\ SameCount(freed[x], gone)
    <3>1. freed[x].shared = 0 /\ freed[x].exclusive = FALSE
      BY <2>1, <1>6, FactFields DEF MayMove, MayWrite
    <3> QED
      BY <3>1, <1>6, NoneType DEF Emptied, Facts, SameCount, States
  <2>3. ms = [[freed EXCEPT ![x] = gone] EXCEPT ![d] = l]
    BY <1>1, <1>6, <1>7 DEF Copy
  <2> HIDE DEF freed, gone, l, ms
  <2>4. /\ ms \in Seq(Facts) /\ DOMAIN ms = DOMAIN ls /\ ms[d] = l /\ ms[x] = gone
        /\ \A i \in DOMAIN ls \ {d, x} : ms[i] = freed[i]
    <3>1. [freed EXCEPT ![x] = gone] \in Seq(Facts) /\ Len([freed EXCEPT ![x] = gone]) = Len(freed)
      BY <1>1, <1>4, <2>2, ExceptSeq
    <3>2. ms \in Seq(Facts)
      BY <1>1, <1>4, <1>5, <2>3, <3>1, ExceptSeq
    <3> QED
      BY <3>2, <1>1, <2>3
  <2>5. Alike(vs, ms)
    BY <1>1, <1>5, <2>2, <2>4 DEF Alike
  <2>6. SameLoan(vs[x], ms[d])
    BY <1>5, <1>6, <2>1, <2>4 DEF SameLoan
  <2>7. \A i \in DOMAIN vs \ {d, x} : SameValue(vs[i], ms[i]) /\ SameLoan(vs[i], ms[i])
    BY <1>1, <2>4 DEF SameValue, SameLoan
  <2>8. \A i \in DOMAIN vs : SameCount(vs[i], ms[i])
    BY <1>1, <1>5, <2>2, <2>4 DEF SameCount
  <2>9. Moving(vs, ms, d, x)
    BY <1>1, <1>2, <1>5, <2>2, <2>4, <2>5, <2>6, <2>7, <2>8 DEF Moving
  <2> QED
    BY <1>5, <1>6, <1>7, <2>4, <2>9 DEF vs, ms, freed
<1>8. CASE vs[x].type # "exclusive" /\ vs[x].from = None
  <2>1. kind = "shared" /\ o = None
    BY <1>6, <1>8
  <2>2. ms = [freed EXCEPT ![d] = l]
    BY <1>1, <1>6, <1>8 DEF Copy
  <2> HIDE DEF freed, l, ms
  <2>3. /\ ms \in Seq(Facts) /\ DOMAIN ms = DOMAIN ls /\ ms[d] = l
        /\ \A i \in DOMAIN ls \ {d} : ms[i] = freed[i]
    BY <1>1, <1>4, <1>5, <2>2, ExceptSeq
  <2>4. Alike(vs, ms)
    BY <1>1, <1>5, <2>3 DEF Alike
  <2>5. \A i \in DOMAIN vs \ {d} : SameValue(vs[i], ms[i]) /\ SameLoan(vs[i], ms[i])
    BY <1>1, <2>3 DEF SameValue, SameLoan
  <2>6. \A i \in DOMAIN vs : SameCount(vs[i], ms[i])
    BY <1>1, <1>5, <2>3 DEF SameCount
  <2>7. Keeping(vs, ms, d)
    BY <1>1, <1>2, <1>5, <1>6, <1>8, <2>3, <2>4, <2>5, <2>6 DEF Keeping
  <2> QED
    BY <1>5, <1>6, <1>8, <2>1, <2>3, <2>7 DEF vs, ms, freed
<1>9. CASE vs[x].type # "exclusive" /\ vs[x].from # None
  <2> DEFINE lent == Lent(freed[o], "shared")
  <2>1. kind = "shared" /\ o = vs[x].from
    BY <1>6, <1>9
  <2>2. o \in DOMAIN ls \ {d} /\ ~ freed[o].exclusive /\ vs[o] = freed[o]
    BY <1>1, <1>3, <1>9, <2>1
  <2>3. /\ lent \in Facts
        /\ lent.type = freed[o].type /\ lent.mutable = freed[o].mutable /\ lent.depth = freed[o].depth
        /\ lent.state = freed[o].state /\ lent.from = freed[o].from /\ lent.kind = freed[o].kind
        /\ lent.region = freed[o].region /\ lent.origin = freed[o].origin
        /\ lent.shared = freed[o].shared + 1 /\ lent.exclusive = FALSE
    <3>1. freed[o] \in Facts /\ "shared" \in References
      BY <1>1, <1>4, <2>2 DEF References
    <3> QED
      BY <3>1, <2>2, LentFields
  <2>4. ms = [[freed EXCEPT ![o] = lent] EXCEPT ![d] = l]
    BY <1>1, <1>6, <1>9, <2>1, <2>2 DEF Copy
  <2> HIDE DEF freed, l, ms, lent, o
  <2>5. /\ ms \in Seq(Facts) /\ DOMAIN ms = DOMAIN ls /\ ms[d] = l /\ ms[o] = lent
        /\ \A i \in DOMAIN ls \ {d, o} : ms[i] = freed[i]
    <3>1. [freed EXCEPT ![o] = lent] \in Seq(Facts) /\ Len([freed EXCEPT ![o] = lent]) = Len(freed)
      BY <1>1, <1>4, <2>2, <2>3, ExceptSeq
    <3>2. ms \in Seq(Facts)
      BY <1>1, <1>4, <1>5, <2>4, <3>1, ExceptSeq
    <3> QED
      BY <3>2, <1>1, <2>2, <2>4
  <2>6. Alike(vs, ms)
    BY <1>1, <1>5, <2>2, <2>3, <2>5 DEF Alike
  <2>7. \A i \in DOMAIN vs \ {d} : SameValue(vs[i], ms[i]) /\ SameLoan(vs[i], ms[i])
    BY <1>1, <2>3, <2>5 DEF SameValue, SameLoan
  <2>8. \A i \in DOMAIN vs \ {o} : SameCount(vs[i], ms[i])
    BY <1>1, <1>5, <2>5 DEF SameCount
  <2>9. Lending(vs, ms, d, o, "shared")
    BY <1>1, <1>2, <1>5, <1>6, <2>1, <2>2, <2>3, <2>5, <2>6, <2>7, <2>8 DEF Lending, References
  <2> QED
    BY <1>5, <1>6, <1>9, <2>1, <2>5, <2>9 DEF vs, ms, freed
<1> QED
  BY <1>7, <1>8, <1>9

-----------------------------------------------------------------------------
(* What the checked statements do to an execution that agrees with the facts.  *)

\* Another state of the same locals.
Renewed(ls, ms) == ms \in Seq(Facts) /\ DOMAIN ms = DOMAIN ls /\ Alike(ls, ms)

\* Whom a use of x excludes.
Conflicts(ls, run, x, mode) ==
  IF IsReference(ls[x])
  THEN {i \in DOMAIN run : /\ run[i].value /\ run[i].target = run[x].target
                           /\ mode = "exclusive" \/ ls[i].type = "exclusive"} \ Chain(run, x)
  ELSE {i \in DOMAIN run : /\ run[i].value /\ run[i].target = x
                           /\ mode = "exclusive" \/ ls[i].type = "exclusive"}

LEMMA TouchSpoils ==
  ASSUME NEW run, NEW x, NEW mode
  PROVE  Touch(run, x, mode) = Spoil(run, Conflicts(locals, run, x, mode))
<1>1. ASSUME NEW storage
      PROVE  Excluded(run, storage, mode) =
               {i \in DOMAIN run : /\ run[i].value /\ run[i].target = storage
                                   /\ mode = "exclusive" \/ locals[i].type = "exclusive"}
  BY DEF Excluded, Views
<1>2. Excluded(run, run[x].target, mode) =
        {i \in DOMAIN run : /\ run[i].value /\ run[i].target = run[x].target
                            /\ mode = "exclusive" \/ locals[i].type = "exclusive"}
  BY <1>1
<1>3. Excluded(run, x, mode) =
        {i \in DOMAIN run : /\ run[i].value /\ run[i].target = x
                            /\ mode = "exclusive" \/ locals[i].type = "exclusive"}
  BY <1>1
<1> QED
  BY <1>2, <1>3, Zenon DEF Touch, Conflicts, IsReference

\* A use that the loans of x allow excludes nobody.
LEMMA NoConflicts ==
  ASSUME NEW ls, NEW run, Good(ls, run), NEW x \in DOMAIN ls, NEW mode, ~ ls[x].exclusive,
         mode = "exclusive" => MayWrite(ls[x]) /\ ls[x].type # "shared",
         IsReference(ls[x]) => run[x].value
  PROVE  Conflicts(ls, run, x, mode) = {}
<1> SUFFICES ASSUME NEW i \in Conflicts(ls, run, x, mode) PROVE FALSE
  OBVIOUS
<1>1. DOMAIN run = DOMAIN ls /\ None \notin DOMAIN run /\ i \in DOMAIN ls /\ run[i].value
  BY RunLinked DEF Conflicts
<1>2. mode = "exclusive" \/ ls[i].type = "exclusive"
  BY DEF Conflicts
<1>3. \A j \in DOMAIN ls : CellWell(ls, run, j)
  BY DEF Good, Describes, RunWell
<1>4. CASE IsReference(ls[x])
  <2>1. run[i].target = run[x].target /\ i \notin Chain(run, x)
    BY <1>4 DEF Conflicts
  <2>2. Live(ls, run, x) /\ x \in Chain(run, x)
    BY <1>1, <1>4, ChainHasItself DEF Live
  <2>3. run[x].target # None
    BY <1>3, <2>2 DEF CellWell, ViewsWell
  <2>4. Live(ls, run, i)
    BY <1>1, <1>3, <2>1, <2>3 DEF CellWell, Live
  <2>5. Nested(ls, run, x, i) /\ Nested(ls, run, i, x)
    BY <1>1 DEF Good, Describes, RunWell
  <2>6. ls[x].type = "exclusive" \/ ls[i].type = "exclusive"
    BY <1>2, <1>4 DEF IsReference, References
  <2>7. x \in Chain(run, i) \ {i}
    BY <2>1, <2>2, <2>4, <2>5, <2>6 DEF Nested
  <2> QED
    BY <1>1, <1>2, <2>4, <2>7, BorrowedIsLent
<1>5. CASE ~ IsReference(ls[x])
  <2>1. run[i].target = x
    BY <1>5 DEF Conflicts
  <2>2. Live(ls, run, i)
    BY <1>1, <1>3, <2>1 DEF CellWell, Live
  <2> QED
    BY <1>1, <1>2, <2>1, <2>2, BorrowedIsLent
<1> QED
  BY <1>4, <1>5

LEMMA RunIsFunction ==
  ASSUME NEW ls, NEW run, Good(ls, run)
  PROVE  run = [i \in DOMAIN ls |-> run[i]] /\ DOMAIN run = DOMAIN ls
BY DEF Good, Describes, RunWell

LEMMA TouchAllowed ==
  ASSUME NEW ls, NEW run, Good(ls, run), Renewed(locals, ls), NEW x \in DOMAIN ls, NEW mode, ~ ls[x].exclusive,
         mode = "exclusive" => MayWrite(ls[x]) /\ ls[x].type # "shared",
         IsReference(ls[x]) => run[x].value
  PROVE  Touch(run, x, mode) = run
<1>1. DOMAIN run = DOMAIN ls /\ run = [i \in DOMAIN ls |-> run[i]]
  BY RunIsFunction
<1>2. \A i \in DOMAIN ls : locals[i].type = ls[i].type
  BY DEF Renewed, Alike
<1>3. Conflicts(locals, run, x, mode) = Conflicts(ls, run, x, mode)
  BY <1>1, <1>2 DEF Conflicts, IsReference
<1>4. Spoil(run, {}) = run
  BY <1>1 DEF Spoil
<1> QED
  BY <1>3, <1>4, NoConflicts, TouchSpoils

\* A value is stored in a local that is no reference.
LEMMA ReceiveValue ==
  ASSUME NEW ls, NEW run, Good(ls, run), Renewed(locals, ls), NEW d \in DOMAIN ls, ~ IsReference(ls[d]),
         MayWrite(ls[d])
  PROVE  Good([ls EXCEPT ![d] = Initialized(@)], Receive(run, d, Present(None, None)))
<1>1. DOMAIN run = DOMAIN ls /\ run = [i \in DOMAIN ls |-> run[i]]
  BY RunIsFunction
<1>2. locals[d].type = ls[d].type
  BY DEF Renewed, Alike
<1>3. Touch(run, d, "exclusive") = run
  BY TouchAllowed DEF MayWrite, IsReference, References
<1>4. \A i \in DOMAIN run : run[i].via # d
  <2> SUFFICES ASSUME NEW i \in DOMAIN run, run[i].via = d PROVE FALSE
    OBVIOUS
  <2>1. d # None
    BY RunLinked
  <2>2. Live(ls, run, i) /\ CellWell(ls, run, i)
    BY <1>1, <2>1, RunLinked DEF Good, Describes, RunWell
  <2> QED
    BY <2>1, <2>2 DEF CellWell, ViewsWell, Live
<1>5. Orphan(run, d) = run
  BY <1>1, <1>4 DEF Orphan
<1>6. Receive(run, d, Present(None, None)) = [run EXCEPT ![d] = Present(None, None)]
  BY <1>2, <1>3, <1>5 DEF Receive, IsReference
<1>7. Present(None, None) = [value |-> TRUE, target |-> None, via |-> None, stale |-> FALSE]
  BY DEF Present
<1>8. [ls EXCEPT ![d] = Initialized(@)] = [ls EXCEPT ![d] = [@ EXCEPT !.state = "initialized"]]
  BY DEF Initialized
<1>9. Good([ls EXCEPT ![d] = [@ EXCEPT !.state = "initialized"]],
           [run EXCEPT ![d] = [value |-> TRUE, target |-> None, via |-> None, stale |-> FALSE]])
  <2>1. "initialized" \in States /\ TRUE \in BOOLEAN
    BY DEF States
  <2> QED
    BY <2>1, ValueStep
<1> QED
  BY <1>6, <1>7, <1>8, <1>9

\* The value of a local that is no reference leaves it, or is copied.
Left(ls, x) == IF ls[x].type = "owned" THEN [ls EXCEPT ![x] = [@ EXCEPT !.state = "moved"]] ELSE ls

LEMMA LeaveValue ==
  ASSUME NEW run, Good(locals, run), NEW x \in DOMAIN locals, ~ IsReference(locals[x]), ~ locals[x].exclusive,
         locals[x].type = "owned" => MayWrite(locals[x])
  PROVE  Good(Left(locals, x), Leave(run, x))
<1>1. Renewed(locals, locals)
  BY DEF Renewed, Alike, Good
<1>2. CASE locals[x].type = "owned"
  <2>1. Touch(run, x, "exclusive") = run
    BY <1>1, <1>2, TouchAllowed
  <2>2. Leave(run, x) = [run EXCEPT ![x] = Absent]
    BY <1>2, <2>1 DEF Leave
  <2>3. "moved" \in States /\ FALSE \in BOOLEAN /\ "moved" # "initialized"
    BY DEF States
  <2>4. Good([locals EXCEPT ![x] = [@ EXCEPT !.state = "moved"]],
             [run EXCEPT ![x] = [value |-> FALSE, target |-> None, via |-> None, stale |-> FALSE]])
    BY <2>3, ValueStep
  <2> QED
    BY <1>2, <2>2, <2>4 DEF Left, Absent
<1>3. CASE locals[x].type # "owned"
  <2>1. Leave(run, x) = Touch(run, x, "shared")
    BY <1>3 DEF Leave, IsReference, References
  <2>2. Touch(run, x, "shared") = run
    BY <1>1, TouchAllowed
  <2> QED
    BY <1>3, <2>1, <2>2 DEF Left
<1> QED
  BY <1>2, <1>3

LEMMA LeftFields ==
  ASSUME NEW ls \in Seq(Facts), NEW x \in DOMAIN ls
  PROVE  /\ Renewed(ls, Left(ls, x))
         /\ \A i \in DOMAIN ls : SameCount(ls[i], Left(ls, x)[i])
         /\ \A i \in DOMAIN ls : i # x \/ ls[x].type # "owned" => Left(ls, x)[i] = ls[i]
<1>1. ls[x] \in Facts /\ \A i \in DOMAIN ls : ls[i] \in Facts
  BY ListFacts
<1>2. CASE ls[x].type # "owned"
  BY <1>2 DEF Left, Renewed, Alike, SameCount
<1>3. CASE ls[x].type = "owned"
  <2> DEFINE m == [ls[x] EXCEPT !.state = "moved"]
  <2>1. /\ m \in Facts /\ m.type = ls[x].type /\ m.mutable = ls[x].mutable /\ m.depth = ls[x].depth
        /\ m.shared = ls[x].shared /\ m.exclusive = ls[x].exclusive
    BY <1>1 DEF Facts, States
  <2>2. Left(ls, x) = [ls EXCEPT ![x] = m]
    BY <1>3 DEF Left
  <2> HIDE DEF m
  <2>3. Left(ls, x) \in Seq(Facts)
    BY <2>1, <2>2, ExceptSeq
  <2> QED
    BY <1>1, <1>3, <2>1, <2>2, <2>3 DEF Renewed, Alike, SameCount
<1> QED
  BY <1>2, <1>3

\* A value that may be moved out holds no loans to forget.
LEMMA MoveOutLeaves ==
  ASSUME NEW ls \in Seq(Facts), NEW x \in DOMAIN ls, NEW d, ~ IsReference(ls[x]), MayMoveOut(ls, x, d)
  PROVE  /\ x # d => MoveOut(ls, x, d) = Left(ls, x)
         /\ x = d => MoveOut(ls, x, d) = ls
<1>1. ls[x] \in Facts
  BY ListFacts
<1>2. CASE x # d /\ ls[x].type = "owned"
  <2>1. MayWrite(ls[x])
    BY <1>2 DEF MayMoveOut, MoveOnly, MayMove
  <2>2. Emptied(ls[x]) = [ls[x] EXCEPT !.state = "moved"]
    BY <1>1, <2>1 DEF MayWrite, Emptied, Facts
  <2> QED
    BY <1>2, <2>2 DEF MoveOut, MoveOnly, Left
<1>3. CASE x # d /\ ls[x].type # "owned"
  <2>1. ls[x].type \notin MoveOnly
    BY <1>3 DEF MoveOnly, IsReference, References
  <2> QED
    BY <1>3, <2>1 DEF MoveOut, Left
<1>4. CASE x = d
  BY <1>4 DEF MoveOut
<1> QED
  BY <1>2, <1>3, <1>4

\* d := x  of a value.
LEMMA StoreLocalValue ==
  ASSUME NEW run, Good(locals, run), NEW d \in DOMAIN locals, NEW x \in DOMAIN locals,
         ~ IsReference(locals[d]), ~ IsReference(locals[x]), MayWrite(locals[d]), MayRead(locals[x]),
         MayMoveOut(locals, x, d)
  PROVE  Good([MoveOut(locals, x, d) EXCEPT ![d] = Initialized(@)], Receive(Leave(run, x), d, Present(None, None)))
<1> DEFINE ls == Left(locals, x)
<1>1. locals \in Seq(Facts) /\ locals[x] \in Facts /\ locals[d] \in Facts
  BY ListFacts DEF Good
<1>2. /\ Renewed(locals, ls) /\ \A i \in DOMAIN locals : SameCount(locals[i], ls[i])
      /\ \A i \in DOMAIN locals : i # x => ls[i] = locals[i]
  BY <1>1, LeftFields
<1>3. locals[x].type = "owned" => MayWrite(locals[x])
  BY DEF MayMoveOut, MoveOnly, MayMove
<1>4. Good(ls, Leave(run, x))
  BY <1>3, LeaveValue DEF MayRead
<1>5. MayWrite(ls[d]) /\ ~ IsReference(ls[d]) /\ d \in DOMAIN ls
  BY <1>2 DEF SameCount, MayWrite, Renewed, Alike, IsReference
<1> HIDE DEF ls
<1>6. Good([ls EXCEPT ![d] = Initialized(@)], Receive(Leave(run, x), d, Present(None, None)))
  BY <1>2, <1>4, <1>5, ReceiveValue
<1>7. [MoveOut(locals, x, d) EXCEPT ![d] = Initialized(@)] = [ls EXCEPT ![d] = Initialized(@)]
  <2>1. CASE x # d
    BY <1>1, <2>1, MoveOutLeaves DEF ls
  <2>2. CASE x = d
    <3>1. MoveOut(locals, x, d) = locals
      BY <1>1, <2>2, MoveOutLeaves
    <3>2. Initialized(ls[d]) = Initialized(locals[d])
      BY <1>1, <2>2 DEF ls, Left, Initialized, Facts
    <3>3. DOMAIN ls = DOMAIN locals /\ \A i \in DOMAIN locals \ {d} : ls[i] = locals[i]
      BY <1>2, <2>2 DEF Renewed
    <3>4. ls = [i \in DOMAIN ls |-> ls[i]] /\ locals = [i \in DOMAIN locals |-> locals[i]]
      BY <1>1, <1>2, LenProperties DEF Renewed
    <3> QED
      BY <3>1, <3>2, <3>3, <3>4
  <2> QED
    BY <2>1, <2>2
<1> QED
  BY <1>6, <1>7

\* d.part := <value>, or of what d views, once x has left.
LEMMA TouchPart ==
  ASSUME NEW ls, NEW run, Good(ls, run), Renewed(locals, ls), NEW d \in DOMAIN ls,
         MayWrite(ls[d]), ls[d].type # "shared", IsReference(ls[d]) => ls[d].state = "initialized"
  PROVE  Touch(run, d, "exclusive") = run
<1>1. FactWell(ls, run, d)
  BY DEF Good, Describes
<1>2. IsReference(ls[d]) => run[d].value
  BY <1>1 DEF FactWell
<1>3. ~ ls[d].exclusive
  BY DEF MayWrite
<1> QED
  BY <1>2, <1>3, TouchAllowed

LEMMA MovePart ==
  ASSUME NEW run, Good(locals, run), NEW d \in DOMAIN locals, NEW x \in DOMAIN locals, PartWritable(d),
         ~ IsReference(locals[x]), MayRead(locals[x]), MayMoveOut(locals, x, None), MayWrite(locals[d])
  PROVE  Good(MoveOut(locals, x, None), Touch(Leave(run, x), d, "exclusive"))
<1> DEFINE ls == Left(locals, x)
<1>1. locals \in Seq(Facts) /\ None \notin DOMAIN locals
  BY ListFacts DEF Good
<1>2. /\ Renewed(locals, ls) /\ \A i \in DOMAIN locals : SameCount(locals[i], ls[i])
      /\ \A i \in DOMAIN locals : i # x => ls[i] = locals[i]
  BY <1>1, LeftFields
<1>3. MoveOut(locals, x, None) = ls
  BY <1>1, MoveOutLeaves
<1>4. Good(ls, Leave(run, x))
  <2>1. locals[x].type = "owned" => MayWrite(locals[x])
    BY <1>1 DEF MayMoveOut, MoveOnly, MayMove
  <2> QED
    BY <2>1, LeaveValue DEF MayRead
<1> HIDE DEF ls
<1>5. d \in DOMAIN ls /\ MayWrite(ls[d]) /\ ls[d].type # "shared"
  BY <1>2 DEF SameCount, MayWrite, Renewed, Alike, PartWritable
<1>6. IsReference(ls[d]) => ls[d].state = "initialized"
  BY <1>2 DEF Renewed, Alike, IsReference, References, PartWritable, MayRead
<1>7. Touch(Leave(run, x), d, "exclusive") = Leave(run, x)
  BY <1>2, <1>4, <1>5, <1>6, TouchPart
<1> QED
  BY <1>3, <1>4, <1>7

LEMMA FromElsewhere ==
  ASSUME NEW ls, NEW run, Good(ls, run), NEW d \in DOMAIN ls
  PROVE  ls[d].from # d
<1>1. d # None
  BY ListFacts DEF Good
<1>2. FactWell(ls, run, d)
  BY DEF Good, Describes
<1>3. CASE Recorded(ls[d])
  <2>1. Live(ls, run, d) /\ ls[d].from = Lender(run, d)
    BY <1>2, <1>3 DEF FactWell
  <2> QED
    BY <2>1, LenderLocal
<1>4. CASE ~ Recorded(ls[d])
  BY <1>1, <1>2, <1>4 DEF Recorded, FactWell
<1> QED
  BY <1>3, <1>4

\* The facts and the execution once a reference that is not lent lost its value.
FactsVacated(run, d, vs, void) ==
  /\ Good(vs, void) /\ Renewed(locals, vs) /\ vs[d].from = None
  /\ \A i \in DOMAIN locals \ {d} : vs[i].exclusive => locals[i].exclusive
  /\ \A i \in DOMAIN locals \ {d} : SameValue(locals[i], vs[i]) /\ SameLoan(locals[i], vs[i])
  /\ \A i \in DOMAIN locals \ {d} : void[i] = run[i] /\ Chain(void, i) = Chain(run, i) /\ d \notin Chain(run, i)
  /\ void[d] = Absent
  /\ \A i \in DOMAIN locals : run[i].via # d

LEMMA VacatedRun ==
  ASSUME NEW run, Good(locals, run), NEW d \in DOMAIN locals, IsReference(locals[d]), MayWrite(locals[d])
  PROVE  FactsVacated(run, d, Vacated(locals, d), [run EXCEPT ![d] = Absent])
<1> DEFINE vs   == Vacated(locals, d)
           void == [run EXCEPT ![d] = Absent]
<1>1. Good(vs, void)
  BY VacateStep
<1>2. locals \in Seq(Facts) /\ locals[d].from # d
  BY FromElsewhere DEF Good
<1>3. /\ vs \in Seq(Facts) /\ DOMAIN vs = DOMAIN locals /\ Alike(locals, vs) /\ vs[d].from = None
      /\ \A i \in DOMAIN locals \ {d} : SameValue(locals[i], vs[i]) /\ SameLoan(locals[i], vs[i])
      /\ \A i \in DOMAIN locals \ {d} : vs[i].exclusive => locals[i].exclusive
  <2>1. /\ vs \in Seq(Facts) /\ DOMAIN vs = DOMAIN locals /\ Alike(locals, vs) /\ vs[d].from = None
        /\ \A i \in DOMAIN locals \ {d} : SameValue(locals[i], vs[i]) /\ SameLoan(locals[i], vs[i])
    BY <1>2, VacatedFields
  <2>2. ASSUME NEW i \in DOMAIN locals \ {d}, vs[i].exclusive PROVE locals[i].exclusive
    <3>1. CASE Recorded(locals[d]) /\ locals[d].from = i
      <4>1. vs[i].exclusive = (locals[d].kind # "exclusive" /\ locals[i].exclusive)
        BY <1>2, <3>1, VacatedFields
      <4> QED
        BY <2>2, <4>1
    <3>2. CASE ~ (Recorded(locals[d]) /\ locals[d].from = i)
      <4>1. SameCount(locals[i], vs[i])
        BY <1>2, <3>2, VacatedFields
      <4> QED
        BY <2>2, <4>1 DEF SameCount
    <3> QED
      BY <3>1, <3>2
  <2> QED
    BY <2>1, <2>2
<1>4. DOMAIN run = DOMAIN locals /\ None \notin DOMAIN run /\ Linked(run)
  BY RunLinked
<1>5. void[d] = Absent /\ DOMAIN void = DOMAIN run /\ \A i \in DOMAIN locals \ {d} : void[i] = run[i]
  BY <1>4
<1>6. IsReference(vs[d])
  BY <1>3 DEF Alike, IsReference
<1> HIDE DEF vs, void
<1>7. \A i \in DOMAIN locals : run[i].via # d
  <2>1. \A i \in DOMAIN vs : void[i].via # d
    BY <1>1, <1>3, <1>5, <1>6, VacantLendsNothing
  <2>2. run[d].via # d
    <3>1. CASE Live(locals, run, d)
      BY <3>1, LenderLocal
    <3>2. CASE ~ Live(locals, run, d)
      BY <3>2, <1>4, RunLinked
    <3> QED
      BY <3>1, <3>2
  <2> QED
    BY <1>3, <1>5, <2>1, <2>2
<1>8. \A i \in DOMAIN locals \ {d} : Chain(void, i) = Chain(run, i) /\ d \notin Chain(run, i)
  <2> DEFINE E == DOMAIN locals \ {d}
  <2>1. E \subseteq DOMAIN run /\ E \subseteq DOMAIN void /\ None \notin E
    BY <1>4, <1>5
  <2>2. \A j \in E : run[j].via \in E \cup {None} /\ void[j].via = run[j].via
    BY <1>4, <1>5, <1>7 DEF Linked
  <2>3. \A i \in E : Chain(void, i) = Chain(run, i) /\ Chain(run, i) \subseteq E
    BY <2>1, <2>2, ChainFrame
  <2> QED
    BY <2>3
<1> QED
  BY <1>1, <1>3, <1>5, <1>7, <1>8 DEF Renewed, FactsVacated, vs, void

\* A reference through which nobody was taken receives a value.
LEMMA ReceiveReference ==
  ASSUME NEW d, IsReference(locals[d]), NEW next, NEW run, DOMAIN next = DOMAIN run, d \in DOMAIN run,
         \A i \in DOMAIN run \ {d} : next[i] = run[i] /\ run[i].via # d,
         run = [i \in DOMAIN run |-> run[i]], NEW cell
  PROVE  Receive(next, d, cell) = [run EXCEPT ![d] = cell]
<1>1. Receive(next, d, cell) = [Orphan(next, d) EXCEPT ![d] = cell]
  BY DEF Receive, IsReference
<1>2. /\ DOMAIN Orphan(next, d) = DOMAIN run
      /\ \A i \in DOMAIN run \ {d} : Orphan(next, d)[i] = run[i]
  BY DEF Orphan
<1>3. Orphan(next, d) = [i \in DOMAIN run |-> Orphan(next, d)[i]]
  BY DEF Orphan
<1> HIDE DEF Orphan
<1> QED
  BY <1>1, <1>2, <1>3

\* d := &x
LEMMA StoreBorrowRun ==
  ASSUME NEW run, Good(locals, run), NEW d \in DOMAIN locals, NEW x \in DOMAIN locals, d # x,
         IsReference(locals[d]), MayWrite(locals[d]), NEW mode \in References, MayHold(locals[d].type, mode),
         mode = "exclusive" => locals[x].type # "shared", MayBorrow(ReleaseLoan(locals, d), d, x, mode)
  PROVE  Good([Borrow(ReleaseLoan(locals, d), d, x, mode) EXCEPT ![d] = Initialized(@)],
              Receive(Touch(run, x, mode), d,
                      IF locals[x].type \in References THEN Present(run[x].target, x) ELSE Present(x, None)))
<1> DEFINE freed == ReleaseLoan(locals, d)
           vs    == Vacated(locals, d)
           void  == [run EXCEPT ![d] = Absent]
           ms    == [Borrow(freed, d, x, mode) EXCEPT ![d] = Initialized(@)]
           cell  == IF locals[x].type \in References THEN Present(run[x].target, x) ELSE Present(x, None)
<1>1. locals \in Seq(Facts) /\ locals[d].from # d
  BY FromElsewhere DEF Good
<1>2. /\ Good(vs, void) /\ Renewed(locals, vs) /\ vs[d].from = None
      /\ \A i \in DOMAIN locals \ {d} : void[i] = run[i] /\ Chain(void, i) = Chain(run, i) /\ d \notin Chain(run, i)
      /\ void[d] = Absent
      /\ \A i \in DOMAIN locals : run[i].via # d
  <2>1. FactsVacated(run, d, vs, void)
    BY VacatedRun
  <2> HIDE DEF vs, void
  <2> QED
    BY <2>1 DEF FactsVacated
<1>3. DOMAIN run = DOMAIN locals /\ run = [i \in DOMAIN run |-> run[i]]
  BY RunIsFunction
<1>4. vs[x] = freed[x]
  BY <1>1, ReleasedFields
<1>5. DOMAIN vs = DOMAIN locals /\ \A i \in DOMAIN locals : vs[i].type = locals[i].type /\ vs[i].depth = locals[i].depth
  BY <1>2 DEF Renewed, Alike
<1>6. DOMAIN freed = DOMAIN locals /\ freed[d].depth = vs[d].depth
  BY <1>1, ReleasedFields
<1> HIDE DEF freed, vs, void
<1>7. MayLend(vs[x], mode) /\ vs[d].depth >= vs[x].depth
  BY <1>4, <1>6 DEF MayBorrow, freed
<1>8. /\ ~ vs[x].exclusive /\ vs[x].state = "initialized"
      /\ mode = "exclusive" => MayWrite(vs[x])
  BY <1>7 DEF MayLend, MayMove, MayRead, MayWrite
<1>9. Lending(vs, ms, d, x, mode) /\ ms[d].state = "initialized" /\ ms[d].origin = None
  BY <1>1, <1>8, BorrowLends DEF vs, freed
<1>10. Conflicts(vs, void, x, mode) = {}
  <2>1. FactWell(vs, void, x)
    BY <1>2, <1>5 DEF Good, Describes
  <2>2. void[x].value
    BY <1>8, <2>1 DEF FactWell
  <2> QED
    BY <1>2, <1>5, <1>8, <2>2, NoConflicts
<1>11. Conflicts(locals, run, x, mode) \subseteq {d}
  <2> SUFFICES ASSUME NEW i \in Conflicts(locals, run, x, mode), i # d PROVE FALSE
    OBVIOUS
  <2>1. i \in DOMAIN run
    BY DEF Conflicts
  <2>2. void[i] = run[i] /\ void[x] = run[x] /\ Chain(void, x) = Chain(run, x) /\ i \in DOMAIN void
    BY <1>2, <1>3, <2>1 DEF void
  <2>3. IsReference(vs[x]) = IsReference(locals[x]) /\ vs[i].type = locals[i].type
    BY <1>3, <1>5, <2>1 DEF IsReference
  <2>4. i \in Conflicts(vs, void, x, mode)
    BY <2>2, <2>3 DEF Conflicts
  <2> QED
    BY <1>10, <2>4
<1>12. Receive(Touch(run, x, mode), d, cell) = [run EXCEPT ![d] = cell]
  <2> DEFINE next == Touch(run, x, mode)
  <2>1. next = Spoil(run, Conflicts(locals, run, x, mode))
    BY TouchSpoils
  <2>2. DOMAIN next = DOMAIN run /\ \A i \in DOMAIN run \ {d} : next[i] = run[i]
    BY <1>11, <2>1 DEF Spoil
  <2> HIDE DEF next
  <2>3. \A i \in DOMAIN run \ {d} : next[i] = run[i] /\ run[i].via # d
    BY <1>2, <1>3, <2>2
  <2> HIDE DEF cell
  <2>4. Receive(next, d, cell) = [run EXCEPT ![d] = cell]
    BY <1>3, <2>2, <2>3, ReceiveReference
  <2> QED
    BY <2>4 DEF next
<1>13. [run EXCEPT ![d] = cell] = [void EXCEPT ![d] = cell]
  BY <1>3 DEF void
<1>14. cell = IF IsReference(vs[x]) THEN Present(void[x].target, x) ELSE Present(x, None)
  BY <1>2, <1>5 DEF IsReference
<1>15. IsReference(vs[d]) /\ MayHold(vs[d].type, mode) /\ (mode = "exclusive" => vs[x].type # "shared")
  BY <1>5 DEF IsReference
<1> HIDE DEF ms
<1>16. Good(ms, [void EXCEPT ![d] = IF IsReference(vs[x]) THEN Present(void[x].target, x) ELSE Present(x, None)])
  BY <1>2, <1>5, <1>7, <1>9, <1>15, BorrowStep
<1> QED
  BY <1>12, <1>13, <1>14, <1>16 DEF ms, freed

\* d := x  of a reference.
LEMMA LeaveReference ==
  ASSUME NEW run, Good(locals, run), NEW d \in DOMAIN locals, NEW x \in DOMAIN locals, d # x,
         IsReference(locals[d]), MayWrite(locals[d]), locals[x].type = "exclusive", MayMove(Vacated(locals, d)[x])
  PROVE  LET left == [run EXCEPT ![x] = Absent] IN
         /\ DOMAIN Leave(run, x) = DOMAIN left
         /\ \A i \in DOMAIN left \ {d} : Leave(run, x)[i] = left[i] /\ left[i].via # d
<1> DEFINE vs   == Vacated(locals, d)
           void == [run EXCEPT ![d] = Absent]
           left == [run EXCEPT ![x] = Absent]
           spoiled == {i \in DOMAIN run \ {x} : x \in Chain(run, i)}
           leave == [Orphan(Spoil(run, spoiled), x) EXCEPT ![x] = Absent]
<1>1. Leave(run, x) = leave
  BY DEF Leave
<1>2. /\ Good(vs, void) /\ Renewed(locals, vs) /\ vs[d].from = None
      /\ \A i \in DOMAIN locals \ {d} : void[i] = run[i] /\ Chain(void, i) = Chain(run, i) /\ d \notin Chain(run, i)
      /\ void[d] = Absent
      /\ \A i \in DOMAIN locals : run[i].via # d
  <2>1. FactsVacated(run, d, vs, void)
    BY VacatedRun
  <2> HIDE DEF vs, void
  <2> QED
    BY <2>1 DEF FactsVacated
<1>3. DOMAIN run = DOMAIN locals /\ DOMAIN void = DOMAIN run /\ DOMAIN vs = DOMAIN locals
  BY <1>2, RunIsFunction DEF Renewed
<1>4. \A i \in DOMAIN locals \ {x, d} : x \notin Chain(run, i)
  <2> SUFFICES ASSUME NEW i \in DOMAIN locals \ {x, d}, x \in Chain(run, i) PROVE FALSE
    OBVIOUS
  <2>1. MayWrite(vs[x])
    BY DEF MayMove
  <2>2. x \in Chain(void, i) \ {i}
    BY <1>2
  <2>3. Live(vs, void, i)
    <3>1. Linked(void) /\ None \notin DOMAIN void
      BY <1>2, RunLinked
    <3>2. void[i].via # None
      BY <2>2, <3>1, <1>3, ChainAfter
    <3> QED
      BY <1>2, <1>3, <3>2, RunLinked
  <2> QED
    BY <1>2, <1>3, <2>1, <2>2, <2>3, BorrowedIsLent
<1>5. \A i \in DOMAIN locals \ {x, d} : run[i].via # x
  <2> SUFFICES ASSUME NEW i \in DOMAIN locals \ {x, d}, run[i].via = x PROVE FALSE
    OBVIOUS
  <2>1. i \in Chain(run, i) /\ x # None
    BY <1>3, ChainHasItself, RunLinked
  <2>2. x \in Chain(run, i)
    BY <1>3, <2>1, ChainClosed
  <2> QED
    BY <1>4, <2>2
<1>6. DOMAIN leave = DOMAIN left /\ DOMAIN left = DOMAIN locals
  BY <1>3 DEF Orphan, Spoil
<1>7. leave[x] = Absent /\ left[x] = Absent
  BY <1>3 DEF Orphan, Spoil
<1>8. \A i \in DOMAIN locals \ {x, d} : leave[i] = run[i] /\ left[i] = run[i]
  BY <1>3, <1>4, <1>5 DEF Orphan, Spoil
<1>9. Absent.via # d
  BY RunLinked, <1>3 DEF Absent
<1> HIDE DEF leave, left
<1>10. \A i \in DOMAIN left \ {d} : leave[i] = left[i] /\ left[i].via # d
  BY <1>2, <1>6, <1>7, <1>8, <1>9
<1> QED
  BY <1>1, <1>6, <1>10 DEF left

LEMMA StoreReferenceRun ==
  ASSUME NEW run, Good(locals, run), NEW d \in DOMAIN locals, NEW x \in DOMAIN locals, d # x,
         IsReference(locals[d]), MayWrite(locals[d]), MayHold(locals[d].type, locals[x].type), MayRead(locals[x]),
         MayCopy(ReleaseLoan(locals, d), x), ~ CopiedOutwards(run, d, x)
  PROVE  Good([Copy(ReleaseLoan(locals, d), d, x) EXCEPT ![d] = Initialized(@)],
              Receive(Leave(run, x), d, run[x]))
<1> DEFINE freed == ReleaseLoan(locals, d)
           vs    == Vacated(locals, d)
           void  == [run EXCEPT ![d] = Absent]
           ms    == [Copy(freed, d, x) EXCEPT ![d] = Initialized(@)]
<1>1. locals \in Seq(Facts) /\ locals[d].from # d /\ d # None
  BY FromElsewhere, ListFacts DEF Good
<1>2. /\ Good(vs, void) /\ Renewed(locals, vs) /\ vs[d].from = None
      /\ \A i \in DOMAIN locals \ {d} : vs[i].exclusive => locals[i].exclusive
      /\ \A i \in DOMAIN locals \ {d} : SameValue(locals[i], vs[i]) /\ SameLoan(locals[i], vs[i])
      /\ \A i \in DOMAIN locals \ {d} : void[i] = run[i] /\ Chain(void, i) = Chain(run, i) /\ d \notin Chain(run, i)
      /\ void[d] = Absent
      /\ \A i \in DOMAIN locals : run[i].via # d
  <2>1. FactsVacated(run, d, vs, void)
    BY VacatedRun
  <2> HIDE DEF vs, void
  <2> QED
    BY <2>1 DEF FactsVacated
<1>3. DOMAIN run = DOMAIN locals /\ run = [i \in DOMAIN run |-> run[i]] /\ None \notin DOMAIN run /\ Linked(run)
  BY RunIsFunction, RunLinked
<1>4. vs[x] = freed[x] /\ DOMAIN freed = DOMAIN locals
  BY <1>1, ReleasedFields
<1>5. DOMAIN vs = DOMAIN locals /\ \A i \in DOMAIN locals : vs[i].type = locals[i].type /\ vs[i].depth = locals[i].depth
  BY <1>2 DEF Renewed, Alike
<1>6. MayRead(vs[x])
  BY <1>2 DEF MayRead, SameValue
<1>7. void[x] = run[x]
  BY <1>2
<1>8. IsReference(vs[d]) /\ IsReference(vs[x]) /\ (vs[x].type = "shared" => vs[d].type = "shared")
  BY <1>5 DEF MayHold, IsReference, References
<1>9. /\ FactWell(vs, void, x) /\ \A i \in DOMAIN vs : CellWell(vs, void, i)
      /\ run[x].value
  <2>1. FactWell(vs, void, x) /\ \A i \in DOMAIN vs : CellWell(vs, void, i)
    BY <1>2, <1>5 DEF Good, Describes, RunWell
  <2> HIDE DEF vs, void
  <2> QED
    BY <1>6, <1>7, <2>1 DEF FactWell, MayRead
<1> HIDE DEF freed, vs, void
<1>10. Live(vs, void, x)
  BY <1>7, <1>8, <1>9 DEF Live
<1>11. /\ void[x].target \in DOMAIN vs => vs[void[x].target].depth <= vs[d].depth
       /\ void[x].via # None => vs[void[x].via].depth <= vs[d].depth
  <2>1. ASSUME NEW i \in DOMAIN locals \ {x}, i \in {run[x].target} \cup Chain(run, x)
        PROVE  vs[i].depth <= vs[d].depth
    <3>1. ~ (locals[i].depth > locals[d].depth)
      BY <2>1 DEF CopiedOutwards
    <3>2. locals[i].depth \in Nat /\ locals[d].depth \in Nat
      BY <1>1, ListFacts, FactFields
    <3> QED
      BY <1>5, <3>1, <3>2
  <2>2. void[x].target # x /\ void[x].via # x
    BY <1>2, <1>5, <1>10, LenderLocal
  <2>3. run[x].via # None => run[x].via \in Chain(run, x) /\ run[x].via \in DOMAIN locals
    BY <1>3, ChainHasItself, ChainClosed DEF Linked
  <2> QED
    BY <1>5, <1>7, <2>1, <2>2, <2>3
<1>12. vs[x].type = "exclusive" => MayMove(vs[x])
  BY <1>4 DEF MayCopy, freed
<1>13. vs[x].type # "exclusive" /\ vs[x].from # None => vs[x].from \in DOMAIN locals \ {d} /\ ~ vs[vs[x].from].exclusive
  <2> SUFFICES ASSUME vs[x].type # "exclusive", vs[x].from # None
               PROVE  vs[x].from \in DOMAIN locals \ {d} /\ ~ vs[vs[x].from].exclusive
    OBVIOUS
  <2>1. freed[x].from \in DOMAIN freed /\ MayLend(freed[freed[x].from], "shared")
    BY <1>4 DEF MayCopy, freed
  <2>2. Recorded(vs[x])
    BY <1>9 DEF FactWell, Recorded
  <2>3. vs[x].from = Lender(void, x)
    BY <1>9, <2>2 DEF FactWell
  <2>4. vs[x].from # d
    BY <1>2, <1>5, <1>8, <1>10, <2>3, VacantLendsNothing
  <2>5. vs[vs[x].from] = freed[vs[x].from]
    BY <1>1, <1>4, <2>1, <2>4, ReleasedFields DEF vs, freed
  <2>6. ~ freed[freed[x].from].exclusive
    BY <2>1 DEF MayLend, MayRead
  <2> QED
    BY <1>4, <2>1, <2>4, <2>5, <2>6
<1>14. /\ ms[d].state = "initialized" /\ ms[d].from = vs[x].from
       /\ ms[d].region = vs[x].region /\ ms[d].origin = vs[x].origin
       /\ vs[x].type = "exclusive" => Moving(vs, ms, d, x)
       /\ vs[x].type # "exclusive" =>
            /\ ms[d].kind = "shared"
            /\ IF vs[x].from = None THEN Keeping(vs, ms, d) ELSE Lending(vs, ms, d, vs[x].from, "shared")
  <2>1. IF vs[x].type = "exclusive" THEN MayMove(vs[x])
        ELSE vs[x].from # None => vs[x].from \in DOMAIN locals \ {d} /\ ~ vs[vs[x].from].exclusive
    BY <1>12, <1>13
  <2> QED
    BY <1>1, <2>1, CopyFields DEF vs, freed
<1> HIDE DEF ms
<1>15. CASE locals[x].type = "exclusive"
  <2> DEFINE left == [run EXCEPT ![x] = Absent]
  <2>1. /\ DOMAIN Leave(run, x) = DOMAIN left
        /\ \A i \in DOMAIN left \ {d} : Leave(run, x)[i] = left[i] /\ left[i].via # d
    BY <1>5, <1>12, <1>15, LeaveReference DEF vs
  <2>2. d \in DOMAIN left /\ left = [i \in DOMAIN left |-> left[i]]
    BY <1>3
  <2>3. [left EXCEPT ![d] = run[x]] = [[void EXCEPT ![x] = Absent] EXCEPT ![d] = void[x]]
    BY <1>3, <1>7 DEF void
  <2> HIDE DEF left
  <2>4. Receive(Leave(run, x), d, run[x]) = [left EXCEPT ![d] = run[x]]
    BY <2>1, <2>2, ReceiveReference
  <2>5. Good(ms, [[void EXCEPT ![x] = Absent] EXCEPT ![d] = void[x]])
    BY <1>2, <1>5, <1>8, <1>11, <1>12, <1>14, <1>15, MoveStep
  <2> QED
    BY <2>3, <2>4, <2>5 DEF ms, freed
<1>16. CASE locals[x].type # "exclusive"
  <2>1. vs[x].type = "shared" /\ vs[d].type = "shared"
    BY <1>5, <1>8, <1>16 DEF IsReference, References
  <2>2. Leave(run, x) = Touch(run, x, "shared")
    BY <1>5, <2>1 DEF Leave
  <2>3. Touch(run, x, "shared") = run
    <3>1. Renewed(locals, locals)
      BY <1>1 DEF Renewed, Alike
    <3> QED
      BY <1>9, <3>1, TouchAllowed DEF MayRead
  <2>4. Receive(run, d, run[x]) = [run EXCEPT ![d] = run[x]]
    BY <1>2, <1>3, ReceiveReference
  <2>5. [run EXCEPT ![d] = run[x]] = [void EXCEPT ![d] = void[x]]
    BY <1>3, <1>7 DEF void
  <2>6. Good(ms, [void EXCEPT ![d] = void[x]])
    BY <1>2, <1>5, <1>6, <1>8, <1>11, <1>14, <2>1, CopyStep
  <2> QED
    BY <2>2, <2>3, <2>4, <2>5, <2>6 DEF ms, freed
<1> QED
  BY <1>15, <1>16

-----------------------------------------------------------------------------
(* The facts of the locals stay facts, whether or not an execution is followed. *)

Like(l, m) == m \in Facts /\ m.type = l.type /\ m.mutable = l.mutable /\ m.depth = l.depth

LEMMA RenewedSelf ==
  ASSUME NEW ls \in Seq(Facts)
  PROVE  Renewed(ls, ls)
BY DEF Renewed, Alike

LEMMA RenewedAt ==
  ASSUME NEW ls \in Seq(Facts), NEW ms, Renewed(ls, ms), NEW d \in DOMAIN ls, NEW m, Like(ms[d], m)
  PROVE  Renewed(ls, [ms EXCEPT ![d] = m])
<1>1. ms \in Seq(Facts) /\ DOMAIN ms = DOMAIN ls /\ m \in Facts
  BY DEF Renewed, Like
<1>2. [ms EXCEPT ![d] = m] \in Seq(Facts)
  BY <1>1, ExceptSeq
<1> QED
  BY <1>1, <1>2 DEF Renewed, Alike, Like

LEMMA LikeForms ==
  ASSUME NEW l \in Facts
  PROVE  /\ Like(l, Initialized(l)) /\ Like(l, Emptied(l))
         /\ \A mode \in References : Like(l, Lent(l, mode)) /\ Like(l, Returned(l, mode))
         /\ \A from \in Nat, kind \in {"none", "shared", "exclusive"}, region \in Nat, origin \in Nat :
              Like(l, Referring(l, from, kind, region, origin))
         /\ Like(l, [Emptied(l) EXCEPT !.from = None, !.kind = "none"])
<1>1. Like(l, Initialized(l)) /\ Like(l, Emptied(l))
  BY DEF Like, Initialized, Emptied, Facts, States
<1>2. ASSUME NEW mode \in References PROVE Like(l, Lent(l, mode)) /\ Like(l, Returned(l, mode))
  <2>1. Like(l, Returned(l, mode))
    BY ReturnedFields DEF Like, References
  <2>2. Like(l, Lent(l, mode))
    <3>1. l.shared + 1 \in Nat
      BY FactFields
    <3>2. Like(l, [l EXCEPT !.exclusive = TRUE])
      BY DEF Like, Facts
    <3>3. Like(l, [l EXCEPT !.shared = l.shared + 1])
      BY <3>1 DEF Like, Facts
    <3> QED
      BY <3>2, <3>3 DEF Lent
  <2> QED
    BY <2>1, <2>2
<1>3. ASSUME NEW from \in Nat, NEW kind \in {"none", "shared", "exclusive"}, NEW region \in Nat, NEW origin \in Nat
      PROVE  Like(l, Referring(l, from, kind, region, origin))
  BY DEF Like, Referring, Facts
<1>4. Like(l, [Emptied(l) EXCEPT !.from = None, !.kind = "none"])
  BY DEF Like, Emptied, Facts, States, None
<1> QED
  BY <1>1, <1>2, <1>3, <1>4

LEMMA InitializedRenews ==
  ASSUME NEW ls \in Seq(Facts), NEW ms, Renewed(ls, ms), NEW d \in DOMAIN ls
  PROVE  Renewed(ls, [ms EXCEPT ![d] = Initialized(@)])
<1>1. Like(ms[d], Initialized(ms[d]))
  BY ListFacts, LikeForms DEF Renewed
<1> QED
  BY <1>1, RenewedAt

LEMMA MoveOutRenews ==
  ASSUME NEW ls \in Seq(Facts), NEW x \in DOMAIN ls, NEW d
  PROVE  Renewed(ls, MoveOut(ls, x, d))
<1>1. Renewed(ls, ls) /\ Like(ls[x], Emptied(ls[x]))
  BY ListFacts, LikeForms, RenewedSelf
<1>2. Renewed(ls, [ls EXCEPT ![x] = Emptied(ls[x])])
  BY <1>1, RenewedAt
<1> QED
  BY <1>1, <1>2 DEF MoveOut

LEMMA ReleaseRenews ==
  ASSUME NEW ls \in Seq(Facts), NEW d \in DOMAIN ls
  PROVE  Renewed(ls, ReleaseLoan(ls, d))
<1>1. Renewed(ls, ls) /\ \A i \in DOMAIN ls : ls[i] \in Facts
  BY ListFacts, RenewedSelf
<1>2. CASE ls[d].kind = "none" \/ ls[d].from = None
  BY <1>1, <1>2 DEF ReleaseLoan
<1>3. CASE ~ (ls[d].kind = "none" \/ ls[d].from = None)
  <2> DEFINE owner == ls[d].from
             back  == IF owner \in DOMAIN ls THEN [ls EXCEPT ![owner] = Returned(@, ls[d].kind)] ELSE ls
  <2>1. ls[d].kind \in References
    BY <1>1, <1>3, FactFields DEF References
  <2>2. Renewed(ls, back)
    <3>1. CASE owner \in DOMAIN ls
      <4>1. Like(ls[owner], Returned(ls[owner], ls[d].kind))
        BY <1>1, <2>1, <3>1, LikeForms
      <4>2. Renewed(ls, [ls EXCEPT ![owner] = Returned(ls[owner], ls[d].kind)])
        BY <1>1, <3>1, <4>1, RenewedAt
      <4> QED
        BY <3>1, <4>2
    <3>2. CASE owner \notin DOMAIN ls
      BY <1>1, <3>2
    <3> QED
      BY <3>1, <3>2
  <2>3. ReleaseLoan(ls, d) = [back EXCEPT ![d] = Referring(@, None, "none", NoRegion, None)]
    BY <1>3 DEF ReleaseLoan
  <2> HIDE DEF back
  <2>4. Like(back[d], Referring(back[d], None, "none", NoRegion, None))
    BY <2>2, ListFacts, LikeForms, NoneType DEF Renewed
  <2>5. Renewed(ls, [back EXCEPT ![d] = Referring(back[d], None, "none", NoRegion, None)])
    BY <2>2, <2>4, RenewedAt
  <2> QED
    BY <2>3, <2>5
<1> QED
  BY <1>2, <1>3

LEMMA RenewedThrough ==
  ASSUME NEW ls, NEW ms, NEW ns, Renewed(ls, ms), Renewed(ms, ns)
  PROVE  Renewed(ls, ns)
BY DEF Renewed, Alike

LEMMA BorrowRenews ==
  ASSUME NEW ls \in Seq(Facts), NEW d \in DOMAIN ls, NEW x \in DOMAIN ls, NEW mode \in References
  PROVE  Renewed(ls, Borrow(ls, d, x, mode))
<1> DEFINE ms == [ls EXCEPT ![x] = Lent(@, mode)]
<1>1. Renewed(ls, ls) /\ Like(ls[x], Lent(ls[x], mode)) /\ ls[x].depth \in Nat /\ None \in Nat
  BY ListFacts, LikeForms, RenewedSelf, FactFields, NoneType
<1>2. Renewed(ls, ms)
  BY <1>1, RenewedAt
<1>3. Borrow(ls, d, x, mode) = [ms EXCEPT ![d] = Referring(@, x, mode, ls[x].depth, None)]
  BY DEF Borrow
<1> HIDE DEF ms
<1>4. Like(ms[d], Referring(ms[d], x, mode, ls[x].depth, None))
  <2>1. ms[d] \in Facts /\ x \in Nat /\ mode \in {"none", "shared", "exclusive"}
    BY <1>2, ListFacts DEF Renewed, References
  <2> QED
    BY <1>1, <2>1, LikeForms
<1>5. Renewed(ls, [ms EXCEPT ![d] = Referring(ms[d], x, mode, ls[x].depth, None)])
  BY <1>2, <1>4, RenewedAt
<1> QED
  BY <1>3, <1>5

LEMMA CopyRenews ==
  ASSUME NEW ls \in Seq(Facts), NEW d \in DOMAIN ls, NEW x \in DOMAIN ls, MayCopy(ls, x)
  PROVE  Renewed(ls, Copy(ls, d, x))
<1> DEFINE source ==
      IF ls[x].type = "exclusive" THEN [ls EXCEPT ![x] = [Emptied(ls[x]) EXCEPT !.from = None, !.kind = "none"]]
      ELSE IF ls[x].from = None THEN ls ELSE [ls EXCEPT ![ls[x].from] = Lent(@, "shared")]
    kind == IF ls[x].type = "exclusive" THEN ls[x].kind ELSE "shared"
<1>1. /\ Renewed(ls, ls) /\ ls[x] \in Facts /\ \A i \in DOMAIN ls : ls[i] \in Facts
      /\ ls[x].from \in Nat /\ ls[x].region \in Nat /\ ls[x].origin \in Nat
      /\ kind \in {"none", "shared", "exclusive"}
  BY ListFacts, RenewedSelf, FactFields
<1>2. Renewed(ls, source)
  <2>1. CASE ls[x].type = "exclusive"
    <3>1. Like(ls[x], [Emptied(ls[x]) EXCEPT !.from = None, !.kind = "none"])
      BY <1>1, LikeForms
    <3>2. Renewed(ls, [ls EXCEPT ![x] = [Emptied(ls[x]) EXCEPT !.from = None, !.kind = "none"]])
      BY <1>1, <3>1, RenewedAt
    <3> QED
      BY <2>1, <3>2
  <2>2. CASE ls[x].type # "exclusive" /\ ls[x].from # None
    <3>1. ls[x].from \in DOMAIN ls
      BY <2>2 DEF MayCopy
    <3>2. Like(ls[ls[x].from], Lent(ls[ls[x].from], "shared"))
      BY <1>1, <3>1, LikeForms DEF References
    <3>3. Renewed(ls, [ls EXCEPT ![ls[x].from] = Lent(ls[ls[x].from], "shared")])
      BY <1>1, <3>1, <3>2, RenewedAt
    <3> QED
      BY <2>2, <3>3
  <2>3. CASE ls[x].type # "exclusive" /\ ls[x].from = None
    BY <1>1, <2>3
  <2> QED
    BY <2>1, <2>2, <2>3
<1>3. Copy(ls, d, x) = [source EXCEPT ![d] = Referring(@, ls[x].from, kind, ls[x].region, ls[x].origin)]
  BY DEF Copy
<1> HIDE DEF source, kind
<1>4. Like(source[d], Referring(source[d], ls[x].from, kind, ls[x].region, ls[x].origin))
  <2>1. source[d] \in Facts
    BY <1>2, ListFacts DEF Renewed
  <2> QED
    BY <1>1, <2>1, LikeForms
<1>5. Renewed(ls, [source EXCEPT ![d] = Referring(source[d], ls[x].from, kind, ls[x].region, ls[x].origin)])
  BY <1>2, <1>4, RenewedAt
<1> QED
  BY <1>3, <1>5

-----------------------------------------------------------------------------
(* The blocks stay as they are while the locals in scope do.                   *)

LEMMA GoodRun ==
  ASSUME NEW ls, NEW run, Good(ls, run)
  PROVE  run \in Seq(Cells)
<1>1. ls \in Seq(Facts) /\ run \in [DOMAIN ls -> Cells]
  BY DEF Good, Describes, RunWell
<1>2. Len(ls) \in Nat /\ DOMAIN ls = 1..Len(ls)
  BY <1>1, ListFacts
<1>3. run \in [1..Len(ls) -> Cells]
  BY <1>1, <1>2
<1> QED
  BY <1>2, <1>3, SeqDef

LEMMA SameLength ==
  ASSUME NEW ls \in Seq(Facts), NEW ms, Renewed(ls, ms)
  PROVE  Len(ms) = Len(ls)
<1>1. Len(ls) \in Nat /\ DOMAIN ls = 1..Len(ls) /\ Len(ms) \in Nat /\ DOMAIN ms = 1..Len(ms)
  BY ListFacts DEF Renewed
<1>2. ASSUME NEW m \in Nat, NEW n \in Nat, 1..m = 1..n PROVE m <= n
  <2>1. m \in 1..m \/ m = 0
    OBVIOUS
  <2> QED
    BY <1>2, <2>1
<1>3. 1..Len(ls) = 1..Len(ms)
  BY <1>1 DEF Renewed
<1>4. Len(ls) <= Len(ms) /\ Len(ms) <= Len(ls)
  BY <1>1, <1>2, <1>3
<1>5. \A m, n \in Nat : m <= n /\ n <= m => m = n
  OBVIOUS
<1>6. Len(ls) \in Nat /\ Len(ms) \in Nat
  BY <1>1
<1> QED
  BY ONLY <1>4, <1>5, <1>6

LEMMA BlockKept ==
  ASSUME NEW ls \in Seq(Facts), NEW ms, Renewed(ls, ms), NEW b, NEW k, BlockWell(ls, b, k)
  PROVE  BlockWell(ms, b, k)
<1>1. Len(ms) = Len(ls)
  BY SameLength
<1>2. \A i \in DOMAIN ms : ms[i].depth = ls[i].depth
  BY DEF Renewed, Alike
<1>3. ASSUME NEW saved, Saved(ls, saved, b.saved) PROVE Saved(ms, saved, b.saved)
  BY <1>3 DEF Saved, Renewed, Alike
<1>4. b.saved \in 0..Len(ms) /\ \A i \in DOMAIN ms : i <= b.saved <=> ms[i].depth < k
  BY <1>1, <1>2 DEF BlockWell, Renewed
<1>5. b.construct # "body" => Saved(ms, b.before, b.saved)
  BY <1>3 DEF BlockWell
<1>6. b.construct = "else" => Saved(ms, b.then, b.saved)
  BY <1>3 DEF BlockWell
<1> QED
  BY <1>4, <1>5, <1>6 DEF BlockWell

LEMMA ContinueKeeps ==
  ASSUME FlowInvariant, AtStatement, NEW ls, NEW rs, Renewed(locals, ls), \A next \in rs : Good(ls, next),
         Continue(ls, rs), stores' \in 0..MaxStores
  PROVE  FlowInvariant'
<1>1. /\ locals' = ls /\ runs' = rs /\ function' = function /\ falls' = falls /\ blocks' = blocks
      /\ returned' = returned
  BY DEF Continue
<1>2. FlowTypeOK'
  <2>1. rs \in SUBSET Seq(Cells)
    BY GoodRun
  <2> QED
    BY <1>1, <2>1 DEF FlowInvariant, FlowTypeOK, Renewed
<1>3. BlocksWell'
  <2>1. \A k \in DOMAIN blocks : BlockWell(ls, blocks[k], k)
    BY BlockKept DEF FlowInvariant, FlowTypeOK, BlocksWell
  <2>2. \A i \in DOMAIN ls : ls[i].depth <= Len(blocks)
    BY DEF Renewed, Alike, FlowInvariant, BlocksWell
  <2>3. falls'
    BY <1>1 DEF AtStatement
  <2> QED
    BY <1>1, <2>1, <2>2, <2>3 DEF BlocksWell
<1>4. FactsAgree'
  <2>1. \A run \in rs : Describes(ls, run)
    BY DEF Good
  <2> QED
    BY <1>1, <2>1 DEF FactsAgree
<1> QED
  BY <1>2, <1>3, <1>4 DEF FlowInvariant

LEMMA RunsGood ==
  ASSUME FlowInvariant
  PROVE  locals \in Seq(Facts) /\ \A run \in runs : Good(locals, run)
BY DEF FlowInvariant, FlowTypeOK, FactsAgree, Good

LEMMA StoreCounted ==
  ASSUME FlowInvariant, AtStore
  PROVE  stores' \in 0..MaxStores /\ AtStatement
<1>1. MaxStores \in Nat
  BY FlowAssumption
<1> QED
  BY <1>1 DEF AtStore, FlowInvariant, FlowTypeOK

-----------------------------------------------------------------------------
(* The statements keep the invariant.                                          *)

LEMMA StoreValueKeeps ==
  ASSUME FlowInvariant, NEW d \in DOMAIN locals, StoreValue(d)
  PROVE  FlowInvariant'
<1> DEFINE ls == [locals EXCEPT ![d] = Initialized(@)]
           rs == {Receive(run, d, Present(None, None)) : run \in runs}
<1>1. locals \in Seq(Facts) /\ \A run \in runs : Good(locals, run)
  BY RunsGood
<1>2. stores' \in 0..MaxStores /\ AtStatement
  BY StoreCounted DEF StoreValue
<1>3. Renewed(locals, locals) /\ Renewed(locals, ls)
  BY <1>1, RenewedSelf, InitializedRenews
<1>4. ~ IsReference(locals[d]) /\ MayWrite(locals[d])
  BY DEF StoreValue, Assignable, IsReference
<1>5. \A run \in runs : Good(ls, Receive(run, d, Present(None, None)))
  BY <1>1, <1>3, <1>4, ReceiveValue
<1>6. Continue(ls, rs)
  BY DEF StoreValue
<1>7. \A next \in rs : Good(ls, next)
  BY <1>5
<1> HIDE DEF ls, rs
<1> QED
  BY <1>2, <1>3, <1>6, <1>7, ContinueKeeps

LEMMA StorePartKeeps ==
  ASSUME FlowInvariant, NEW d \in DOMAIN locals, NEW x \in DOMAIN locals, StorePart(d, x)
  PROVE  FlowInvariant'
<1> DEFINE ls == [locals EXCEPT ![d] = Initialized(@)]
           rs == {Receive(Touch(run, x, "shared"), d, Present(None, None)) : run \in runs}
<1>1. locals \in Seq(Facts) /\ \A run \in runs : Good(locals, run)
  BY RunsGood
<1>2. stores' \in 0..MaxStores /\ AtStatement
  BY StoreCounted DEF StorePart
<1>3. Renewed(locals, locals) /\ Renewed(locals, ls)
  BY <1>1, RenewedSelf, InitializedRenews
<1>4. ~ IsReference(locals[d]) /\ MayWrite(locals[d]) /\ MayRead(locals[x])
  BY DEF StorePart, Assignable, IsReference, References
<1>5. \A run \in runs : Touch(run, x, "shared") = run
  <2> SUFFICES ASSUME NEW run \in runs PROVE Touch(run, x, "shared") = run
    OBVIOUS
  <2>1. Good(locals, run) /\ FactWell(locals, run, x)
    BY <1>1 DEF Good, Describes
  <2>2. run[x].value /\ ~ locals[x].exclusive
    BY <1>4, <2>1 DEF FactWell, MayRead
  <2> QED
    BY <1>3, <2>1, <2>2, TouchAllowed
<1>6. \A run \in runs : Good(ls, Receive(Touch(run, x, "shared"), d, Present(None, None)))
  BY <1>1, <1>3, <1>4, <1>5, ReceiveValue
<1>7. Continue(ls, rs)
  BY DEF StorePart
<1>8. \A next \in rs : Good(ls, next)
  BY <1>6
<1> HIDE DEF ls, rs
<1> QED
  BY <1>2, <1>3, <1>7, <1>8, ContinueKeeps

LEMMA StoreLocalKeeps ==
  ASSUME FlowInvariant, NEW d \in DOMAIN locals, NEW x \in DOMAIN locals, StoreLocal(d, x)
  PROVE  FlowInvariant'
<1>1. locals \in Seq(Facts) /\ \A run \in runs : Good(locals, run)
  BY RunsGood
<1>2. stores' \in 0..MaxStores /\ AtStatement
  BY StoreCounted DEF StoreLocal
<1>3. MayWrite(locals[d]) /\ MayRead(locals[x]) /\ MayHold(locals[d].type, locals[x].type)
  BY DEF StoreLocal, Assignable
<1>4. CASE IsReference(locals[d])
  <2> DEFINE freed == ReleaseLoan(locals, d)
             ls == [Copy(freed, d, x) EXCEPT ![d] = Initialized(@)]
             rs == IF AssignsItself(d, x) THEN {}
                   ELSE {Receive(Leave(run, x), d, run[x]) : run \in {r \in runs : ~ CopiedOutwards(r, d, x)}}
  <2>1. MayCopy(freed, x) /\ Continue(ls, rs)
    BY <1>4 DEF StoreLocal, IsReference
  <2>2. Renewed(locals, ls)
    <3>1. Renewed(locals, freed)
      BY <1>1, ReleaseRenews
    <3> HIDE DEF freed
    <3>2. freed \in Seq(Facts) /\ d \in DOMAIN freed /\ x \in DOMAIN freed
      BY <3>1 DEF Renewed
    <3>3. Renewed(freed, Copy(freed, d, x))
      BY <2>1, <3>2, CopyRenews
    <3>4. Renewed(freed, ls)
      BY <3>2, <3>3, InitializedRenews
    <3> HIDE DEF ls
    <3> QED
      BY <3>1, <3>4, RenewedThrough
  <2>3. \A next \in rs : Good(ls, next)
    <3>1. CASE AssignsItself(d, x)
      BY <3>1
    <3>2. CASE ~ AssignsItself(d, x)
      <4>1. d # x
        BY <1>4, <3>2 DEF AssignsItself, IsReference
      <4>2. ASSUME NEW run \in runs, ~ CopiedOutwards(run, d, x)
            PROVE  Good(ls, Receive(Leave(run, x), d, run[x]))
        BY <1>1, <1>3, <1>4, <2>1, <4>1, <4>2, StoreReferenceRun
      <4> HIDE DEF ls
      <4> QED
        BY <3>2, <4>2
    <3> QED
      BY <3>1, <3>2
  <2> HIDE DEF freed, ls, rs
  <2> QED
    BY <1>2, <2>1, <2>2, <2>3, ContinueKeeps
<1>5. CASE ~ IsReference(locals[d])
  <2> DEFINE ls == [MoveOut(locals, x, d) EXCEPT ![d] = Initialized(@)]
             rs == {Receive(Leave(run, x), d, Present(None, None)) : run \in runs}
  <2>1. MayMoveOut(locals, x, d) /\ Continue(ls, rs)
    BY <1>5 DEF StoreLocal, IsReference
  <2>2. ~ IsReference(locals[x])
    BY <1>3, <1>5 DEF MayHold, IsReference, References
  <2>3. Renewed(locals, ls)
    BY <1>1, MoveOutRenews, InitializedRenews
  <2>4. \A next \in rs : Good(ls, next)
    <3>1. ASSUME NEW run \in runs PROVE Good(ls, Receive(Leave(run, x), d, Present(None, None)))
      BY <1>1, <1>3, <1>5, <2>1, <2>2, StoreLocalValue
    <3> QED
      BY <3>1
  <2> HIDE DEF ls, rs
  <2> QED
    BY <1>2, <2>1, <2>3, <2>4, ContinueKeeps
<1> QED
  BY <1>4, <1>5

LEMMA StoreBorrowKeeps ==
  ASSUME FlowInvariant, NEW d \in DOMAIN locals, NEW x \in DOMAIN locals, NEW mode \in References,
         StoreBorrow(d, x, mode)
  PROVE  FlowInvariant'
<1> DEFINE freed == ReleaseLoan(locals, d)
           ls == [Borrow(freed, d, x, mode) EXCEPT ![d] = Initialized(@)]
           rs == IF AssignsItself(d, x) THEN {}
                 ELSE {Receive(Touch(run, x, mode), d,
                               IF locals[x].type \in References THEN Present(run[x].target, x)
                               ELSE Present(x, None)) : run \in runs}
<1>1. locals \in Seq(Facts) /\ \A run \in runs : Good(locals, run)
  BY RunsGood
<1>2. stores' \in 0..MaxStores /\ AtStatement
  BY StoreCounted DEF StoreBorrow
<1>3. /\ IsReference(locals[d]) /\ MayWrite(locals[d]) /\ MayHold(locals[d].type, mode)
      /\ mode = "exclusive" => locals[x].type # "shared"
      /\ MayBorrow(freed, d, x, mode)
  BY DEF StoreBorrow, Assignable, IsReference
<1>4. Continue(ls, rs)
  BY DEF StoreBorrow
<1>5. Renewed(locals, ls)
  <2>1. Renewed(locals, freed)
    BY <1>1, ReleaseRenews
  <2> HIDE DEF freed
  <2>2. freed \in Seq(Facts) /\ d \in DOMAIN freed /\ x \in DOMAIN freed
    BY <2>1 DEF Renewed
  <2>3. Renewed(freed, Borrow(freed, d, x, mode))
    BY <2>2, BorrowRenews
  <2>4. Renewed(freed, ls)
    BY <2>2, <2>3, InitializedRenews
  <2> HIDE DEF ls
  <2> QED
    BY <2>1, <2>4, RenewedThrough
<1>6. \A next \in rs : Good(ls, next)
  <2>1. CASE AssignsItself(d, x)
    BY <2>1
  <2>2. CASE ~ AssignsItself(d, x)
    <3>1. d # x
      BY <1>3, <2>2 DEF AssignsItself, IsReference
    <3>2. ASSUME NEW run \in runs
          PROVE  Good(ls, Receive(Touch(run, x, mode), d,
                                  IF locals[x].type \in References THEN Present(run[x].target, x)
                                  ELSE Present(x, None)))
      BY <1>1, <1>3, <3>1, StoreBorrowRun
    <3> HIDE DEF ls
    <3> QED
      BY <2>2, <3>2
  <2> QED
    BY <2>1, <2>2
<1> HIDE DEF freed, ls, rs
<1> QED
  BY <1>2, <1>4, <1>5, <1>6, ContinueKeeps

LEMMA WritePartKeeps ==
  ASSUME FlowInvariant, NEW d \in DOMAIN locals, WritePart(d)
  PROVE  FlowInvariant'
<1> DEFINE rs == IF OverwritesLent(d) THEN {} ELSE {Touch(run, d, "exclusive") : run \in runs}
<1>1. locals \in Seq(Facts) /\ \A run \in runs : Good(locals, run)
  BY RunsGood
<1>2. stores' \in 0..MaxStores /\ AtStatement
  BY StoreCounted DEF WritePart
<1>3. Continue(locals, rs) /\ PartWritable(d)
  BY DEF WritePart
<1>4. Renewed(locals, locals)
  BY <1>1, RenewedSelf
<1>5. \A next \in rs : Good(locals, next)
  <2>1. CASE OverwritesLent(d)
    BY <2>1
  <2>2. CASE ~ OverwritesLent(d)
    <3>1. /\ MayWrite(locals[d]) /\ locals[d].type # "shared"
          /\ IsReference(locals[d]) => locals[d].state = "initialized"
      BY <1>3, <2>2 DEF OverwritesLent, PartWritable, MayRead, IsReference, References
    <3>2. \A run \in runs : Touch(run, d, "exclusive") = run
      BY <1>1, <1>4, <3>1, TouchPart
    <3> QED
      BY <1>1, <2>2, <3>2
  <2> QED
    BY <2>1, <2>2
<1> HIDE DEF rs
<1> QED
  BY <1>2, <1>3, <1>4, <1>5, ContinueKeeps

LEMMA MoveIntoPartKeeps ==
  ASSUME FlowInvariant, NEW d \in DOMAIN locals, NEW x \in DOMAIN locals, MoveIntoPart(d, x)
  PROVE  FlowInvariant'
<1> DEFINE ls == MoveOut(locals, x, None)
           rs == IF OverwritesLent(d) THEN {} ELSE {Touch(Leave(run, x), d, "exclusive") : run \in runs}
<1>1. locals \in Seq(Facts) /\ \A run \in runs : Good(locals, run)
  BY RunsGood
<1>2. stores' \in 0..MaxStores /\ AtStatement
  BY StoreCounted DEF MoveIntoPart
<1>3. /\ Continue(ls, rs) /\ PartWritable(d) /\ ~ IsReference(locals[x])
      /\ MayRead(locals[x]) /\ MayMoveOut(locals, x, None)
  BY DEF MoveIntoPart, IsReference
<1>4. Renewed(locals, ls)
  BY <1>1, MoveOutRenews
<1>5. \A next \in rs : Good(ls, next)
  <2>1. CASE OverwritesLent(d)
    BY <2>1
  <2>2. CASE ~ OverwritesLent(d)
    <3>1. MayWrite(locals[d])
      BY <2>2 DEF OverwritesLent
    <3>2. ASSUME NEW run \in runs PROVE Good(ls, Touch(Leave(run, x), d, "exclusive"))
      BY <1>1, <1>3, <3>1, MovePart
    <3> HIDE DEF ls
    <3> QED
      BY <2>2, <3>2
  <2> QED
    BY <2>1, <2>2
<1> HIDE DEF ls, rs
<1> QED
  BY <1>2, <1>3, <1>4, <1>5, ContinueKeeps

LEMMA StopKeeps ==
  ASSUME FlowInvariant, NEW ls, Renewed(locals, ls), NEW origin \in Nat, Stop(ls, origin)
  PROVE  FlowInvariant'
<1>1. /\ locals' = ls /\ runs' = {} /\ function' = function /\ falls' = FALSE /\ blocks' = blocks
      /\ returned' = origin /\ stores' = stores
  BY DEF Stop
<1>2. locals \in Seq(Facts)
  BY RunsGood
<1>3. FlowTypeOK'
  BY <1>1 DEF FlowInvariant, FlowTypeOK, Renewed
<1>4. BlocksWell'
  <2>1. \A k \in DOMAIN blocks : BlockWell(ls, blocks[k], k)
    BY <1>2, BlockKept DEF FlowInvariant, BlocksWell
  <2>2. \A i \in DOMAIN ls : ls[i].depth <= Len(blocks)
    BY DEF Renewed, Alike, FlowInvariant, BlocksWell
  <2> QED
    BY <1>1, <2>1, <2>2 DEF BlocksWell
<1>5. FactsAgree'
  BY <1>1 DEF FactsAgree
<1> QED
  BY <1>3, <1>4, <1>5 DEF FlowInvariant

LEMMA ReturnLocalKeeps ==
  ASSUME FlowInvariant, NEW x \in DOMAIN locals, ReturnLocal(x)
  PROVE  FlowInvariant'
<1>1. locals \in Seq(Facts) /\ Renewed(locals, locals) /\ Renewed(locals, MoveOut(locals, x, None))
  BY RunsGood, RenewedSelf, MoveOutRenews
<1>2. locals[x].origin \in Nat /\ returned \in Nat
  BY <1>1, ListFacts, FactFields DEF FlowInvariant, FlowTypeOK
<1>3. Stop(locals, locals[x].origin) \/ Stop(MoveOut(locals, x, None), returned)
  BY DEF ReturnLocal
<1> QED
  BY <1>1, <1>2, <1>3, StopKeeps

LEMMA ReturnValueKeeps ==
  ASSUME FlowInvariant, ReturnValue
  PROVE  FlowInvariant'
<1>1. Renewed(locals, locals) /\ returned \in Nat /\ Stop(locals, returned)
  BY RunsGood, RenewedSelf DEF FlowInvariant, FlowTypeOK, ReturnValue
<1> QED
  BY <1>1, StopKeeps

LEMMA FunctionKinds ==
  ASSUME NEW f \in Functions
  PROVE  /\ \A i \in DOMAIN f.parameters : f.parameters[i] \in Kinds
         /\ \A i \in DOMAIN f.declared : f.declared[i] \in Kinds
         /\ Len(f.parameters) \in Nat /\ DOMAIN f.parameters = 1..Len(f.parameters)
<1>1. f.parameters \in Seq(Kinds) /\ f.declared \in Seq(Kinds)
  BY FlowAssumption
<1> QED
  BY <1>1, ElementOfSeq, LenProperties

LEMMA DeclaredFact ==
  ASSUME NEW k \in Kinds, NEW depth \in Nat
  PROVE  Declared(k, depth) \in Facts /\ Declared(k, depth).depth = depth
<1>1. k.type \in Types /\ k.mutable \in BOOLEAN
  BY DEF Kinds, Types
<1> QED
  BY <1>1, NoneType DEF Declared, Facts, States

LEMMA DeclareKeeps ==
  ASSUME FlowInvariant, Declare
  PROVE  FlowInvariant'
<1> DEFINE next == Len(locals) - Len(function.parameters) + 1
           new  == Declared(function.declared[next], Len(blocks))
           ls   == Append(locals, new)
<1>1. /\ AtStatement /\ next \in DOMAIN function.declared
      /\ locals' = ls /\ runs' = {Append(run, Absent) : run \in runs}
      /\ function' = function /\ falls' = falls /\ blocks' = blocks /\ returned' = returned /\ stores' = stores
  BY DEF Declare, Continue
<1>2. locals \in Seq(Facts) /\ \A run \in runs : Good(locals, run)
  BY RunsGood
<1>3. Len(blocks) \in Nat /\ blocks \in Seq(Blocks)
  BY LenProperties DEF FlowInvariant, FlowTypeOK
<1>4. function.declared[next] \in Kinds
  BY <1>1, FunctionKinds DEF FlowInvariant, FlowTypeOK
<1>5. new \in Facts /\ new.depth = Len(blocks)
  BY <1>3, <1>4, DeclaredFact
<1>6. \A run \in runs : Good(ls, Append(run, Absent))
  BY <1>2, <1>3, <1>4, DeclareStep
<1> HIDE DEF new, next
<1>7. /\ ls \in Seq(Facts) /\ Len(ls) = Len(locals) + 1 /\ Len(locals) \in Nat
      /\ DOMAIN locals = 1..Len(locals) /\ DOMAIN ls = 1..(Len(locals) + 1)
      /\ \A i \in DOMAIN locals : ls[i] = locals[i]
      /\ ls[Len(locals) + 1] = new
  BY <1>2, <1>5, AppendProperties, LenProperties
<1> HIDE DEF ls
<1>8. FlowTypeOK'
  <2>1. {Append(run, Absent) : run \in runs} \in SUBSET Seq(Cells)
    BY <1>6, GoodRun
  <2> QED
    BY <1>1, <1>7, <2>1 DEF FlowInvariant, FlowTypeOK
<1>9. BlocksWell'
  <2>1. \A i \in DOMAIN ls : ls[i].depth <= Len(blocks)
    <3> SUFFICES ASSUME NEW i \in DOMAIN ls PROVE ls[i].depth <= Len(blocks)
      OBVIOUS
    <3>1. CASE i \in DOMAIN locals
      BY <1>7, <3>1 DEF FlowInvariant, BlocksWell
    <3>2. CASE i = Len(locals) + 1
      BY <1>3, <1>5, <1>7, <3>2
    <3> QED
      BY <1>7, <3>1, <3>2
  <2>2. ASSUME NEW k \in DOMAIN blocks PROVE BlockWell(ls, blocks[k], k)
    <3> DEFINE b == blocks[k]
    <3>1. BlockWell(locals, b, k) /\ k \in 1..Len(blocks)
      BY <1>3, LenProperties DEF FlowInvariant, BlocksWell
    <3> HIDE DEF b
    <3>2. b.saved \in 0..Len(locals) /\ \A i \in DOMAIN locals : i <= b.saved <=> locals[i].depth < k
      BY <3>1 DEF BlockWell
    <3>3. b.saved \in 0..Len(ls)
      BY <1>7, <3>2
    <3>4. \A i \in DOMAIN ls : i <= b.saved <=> ls[i].depth < k
      <4> SUFFICES ASSUME NEW i \in DOMAIN ls PROVE i <= b.saved <=> ls[i].depth < k
        OBVIOUS
      <4>1. CASE i \in DOMAIN locals
        BY <1>7, <3>2, <4>1
      <4>2. CASE i = Len(locals) + 1
        BY <1>3, <1>5, <1>7, <3>1, <3>2, <4>2
      <4> QED
        BY <1>7, <4>1, <4>2
    <3>5. ASSUME NEW saved, Saved(locals, saved, b.saved) PROVE Saved(ls, saved, b.saved)
      <4>1. saved \in Seq(Facts) /\ Len(saved) = b.saved /\ Alike(locals, saved)
        BY <3>5 DEF Saved
      <4>2. DOMAIN saved = 1..b.saved
        BY <4>1, LenProperties
      <4>3. DOMAIN saved \subseteq DOMAIN locals
        BY <1>7, <3>2, <4>2
      <4>4. Alike(ls, saved)
        BY <1>7, <4>1, <4>3 DEF Alike
      <4> QED
        BY <4>1, <4>4 DEF Saved
    <3>6. b.construct # "body" => Saved(ls, b.before, b.saved)
      BY <3>1, <3>5 DEF BlockWell
    <3>7. b.construct = "else" => Saved(ls, b.then, b.saved)
      BY <3>1, <3>5 DEF BlockWell
    <3>8. BlockWell(ls, b, k)
      BY <3>1, <3>3, <3>4, <3>6, <3>7 DEF BlockWell
    <3> QED
      BY <3>8 DEF b
  <2> QED
    BY <1>1, <2>1, <2>2 DEF BlocksWell, AtStatement
<1>10. FactsAgree'
  BY <1>1, <1>6 DEF FactsAgree, Good
<1> QED
  BY <1>8, <1>9, <1>10 DEF FlowInvariant

LEMMA OpenKeeps ==
  ASSUME FlowInvariant, NEW construct \in {"then", "while", "unsafe"}, Open(construct)
  PROVE  FlowInvariant'
<1> DEFINE b == [construct |-> construct, saved |-> Len(locals), before |-> locals, entered |-> runs]
<1>1. /\ falls /\ blocks' = Append(blocks, b) /\ function' = function /\ locals' = locals /\ falls' = falls
      /\ returned' = returned /\ stores' = stores /\ runs' = runs
  BY DEF Open, AtStatement
<1>2. /\ locals \in Seq(Facts) /\ Len(locals) \in Nat /\ DOMAIN locals = 1..Len(locals)
      /\ \A i \in DOMAIN locals : locals[i].depth \in Nat
  BY RunsGood, ListFacts, FactFields
<1>3. b \in Blocks
  BY <1>2 DEF Blocks, FlowInvariant, FlowTypeOK
<1>4. blocks \in Seq(Blocks) /\ Len(blocks) \in Nat /\ DOMAIN blocks = 1..Len(blocks)
  BY LenProperties DEF FlowInvariant, FlowTypeOK
<1>5. BlockWell(locals, b, Len(blocks) + 1)
  <2>1. /\ b.construct = construct /\ b.saved = Len(locals) /\ b.before = locals /\ b.entered = runs
    OBVIOUS
  <2> HIDE DEF b
  <2>2. Saved(locals, locals, Len(locals))
    BY <1>2 DEF Saved, Alike
  <2>3. \A run \in runs : Describes(locals, run)
    BY DEF FlowInvariant, FactsAgree
  <2>4. \A i \in DOMAIN locals : i <= Len(locals) <=> locals[i].depth < Len(blocks) + 1
    BY <1>2, <1>4 DEF FlowInvariant, BlocksWell
  <2> QED
    BY <1>2, <2>1, <2>2, <2>3, <2>4 DEF BlockWell
<1> HIDE DEF b
<1>6. /\ blocks' \in Seq(Blocks) /\ Len(blocks') = Len(blocks) + 1 /\ DOMAIN blocks' = 1..(Len(blocks) + 1)
      /\ \A k \in DOMAIN blocks : blocks'[k] = blocks[k]
      /\ blocks'[Len(blocks) + 1] = b
  BY <1>1, <1>3, <1>4, AppendProperties, LenProperties
<1>7. FlowTypeOK'
  BY <1>1, <1>6 DEF FlowInvariant, FlowTypeOK
<1>8. BlocksWell'
  <2>1. \A i \in DOMAIN locals : locals[i].depth <= Len(blocks')
    BY <1>2, <1>4, <1>6 DEF FlowInvariant, BlocksWell
  <2>2. ASSUME NEW k \in DOMAIN blocks' PROVE BlockWell(locals, blocks'[k], k)
    <3>1. CASE k \in DOMAIN blocks
      BY <1>6, <3>1 DEF FlowInvariant, BlocksWell
    <3>2. CASE k = Len(blocks) + 1
      BY <1>5, <1>6, <3>2
    <3> QED
      BY <1>4, <1>6, <3>1, <3>2
  <2> QED
    BY <1>1, <2>1, <2>2 DEF BlocksWell
<1>9. FactsAgree'
  BY <1>1 DEF FlowInvariant, FactsAgree
<1> QED
  BY <1>7, <1>8, <1>9 DEF FlowInvariant

-----------------------------------------------------------------------------
(* The end of a block.                                                         *)

\* What holds of the innermost block when it ends.
EndWell(b, n, ended, dropped) ==
  /\ b \in Blocks /\ b = Top /\ n = b.saved /\ BlockWell(locals, b, Len(blocks))
  /\ Len(blocks) \in Nat \ {0} /\ Below \in Seq(Blocks) /\ Len(Below) = Len(blocks) - 1
  /\ \A k \in DOMAIN Below : k \in DOMAIN blocks /\ k < Len(blocks) /\ Below[k] = blocks[k]
  /\ n \in 0..Len(locals)
  /\ ended = LocalsAtEnd /\ ended \in Seq(Facts) /\ DOMAIN ended = 1..n /\ Len(ended) = n /\ Alike(locals, ended)
  /\ dropped = RunsAtEnd /\ \A next \in dropped : Good(ended, next)
  /\ ~ falls => dropped = {}

LEMMA EndHolds ==
  ASSUME FlowInvariant, blocks # <<>>
  PROVE  EndWell(Top, Top.saved, LocalsAtEnd, RunsAtEnd)
<1> DEFINE K == Len(blocks)
           n == Top.saved
<1>1. blocks \in Seq(Blocks) /\ locals \in Seq(Facts) /\ \A run \in runs : Good(locals, run)
  BY RunsGood DEF FlowInvariant, FlowTypeOK
<1>2. K \in Nat \ {0} /\ DOMAIN blocks = 1..K /\ K \in DOMAIN blocks
  BY <1>1, EmptySeq, LenProperties
<1>3. Top \in Blocks /\ BlockWell(locals, Top, K)
  BY <1>1, <1>2, ElementOfSeq DEF Top, FlowInvariant, BlocksWell
<1>4. /\ Below \in Seq(Blocks) /\ Len(Below) = K - 1
      /\ \A k \in DOMAIN Below : k \in DOMAIN blocks /\ k < K /\ Below[k] = blocks[k]
  <2>1. /\ \A k \in 1..(K - 1) : blocks[k] \in Blocks
        /\ 1 \in Int /\ K - 1 \in Nat
    BY <1>1, <1>2, ElementOfSeq
  <2>2. Below = [k \in 1..(K - 1) |-> blocks[k]]
    BY <1>1, <1>2 DEF Below
  <2>3. Below \in Seq(Blocks) /\ Len(Below) = K - 1
    BY <2>1, <2>2
  <2>4. DOMAIN Below = 1..(K - 1)
    BY <2>2
  <2> QED
    BY <1>2, <2>2, <2>3, <2>4
<1>5. n \in 0..Len(locals) /\ \A i \in DOMAIN locals : i <= n <=> locals[i].depth < K
  BY <1>3 DEF BlockWell
<1>6. /\ LocalsAtEnd \in Seq(Facts) /\ DOMAIN LocalsAtEnd = 1..n /\ Len(LocalsAtEnd) = n
      /\ Alike(locals, LocalsAtEnd)
  <2> HIDE DEF n
  <2>1. LocalsAtEnd = LeaveScope(locals, n)
    BY DEF LocalsAtEnd, n
  <2> QED
    BY <1>1, <1>5, <2>1, LeaveScopeFields
<1>7. \A run \in runs : Good(LocalsAtEnd, Drop(run, n))
  <2> HIDE DEF n, K
  <2>1. LocalsAtEnd = LeaveScope(locals, n)
    BY DEF LocalsAtEnd, n
  <2>2. K \in Nat
    BY <1>2
  <2> QED
    BY <1>1, <1>5, <2>1, <2>2, DropStep
<1>8. \A next \in RunsAtEnd : Good(LocalsAtEnd, next)
  BY <1>7 DEF RunsAtEnd
<1>9. ~ falls => RunsAtEnd = {}
  BY DEF RunsAtEnd, FlowInvariant, BlocksWell
<1> QED
  BY <1>2, <1>3, <1>4, <1>5, <1>6, <1>8, <1>9 DEF EndWell

\* The blocks around it hold of the locals that were saved.
LEMMA ScopeKept ==
  ASSUME FlowInvariant, NEW b, NEW n, NEW ended, NEW dropped, EndWell(b, n, ended, dropped),
         NEW ls, Renewed(ended, ls)
  PROVE  /\ \A i \in DOMAIN ls : ls[i].depth < Len(blocks)
         /\ \A k \in DOMAIN Below : BlockWell(ls, Below[k], k)
<1>1. /\ locals \in Seq(Facts) /\ Len(locals) \in Nat /\ DOMAIN locals = 1..Len(locals)
      /\ \A i \in DOMAIN locals : locals[i].depth \in Nat
  BY RunsGood, ListFacts, FactFields
<1>2. /\ n \in 0..Len(locals) /\ DOMAIN ls = 1..n /\ Alike(locals, ended) /\ DOMAIN ended = 1..n
      /\ Alike(ended, ls) /\ ls \in Seq(Facts)
  BY DEF EndWell, Renewed
<1>3. \A i \in DOMAIN locals : i <= n <=> locals[i].depth < Len(blocks)
  BY DEF EndWell, BlockWell
<1>4. \A i \in 1..n : i \in DOMAIN locals /\ ls[i].depth = locals[i].depth
  BY <1>1, <1>2 DEF Alike
<1>5. \A i \in DOMAIN ls : ls[i].depth < Len(blocks)
  BY <1>1, <1>2, <1>3, <1>4
<1>6. Len(ls) = n
  BY <1>2, SameLength DEF EndWell
<1>7. ASSUME NEW k \in DOMAIN Below PROVE BlockWell(ls, Below[k], k)
  <2> DEFINE c == Below[k]
  <2>1. BlockWell(locals, c, k) /\ k < Len(blocks) /\ Len(blocks) \in Nat /\ k \in Nat
    <3>1. k \in DOMAIN blocks /\ k < Len(blocks) /\ Below[k] = blocks[k] /\ Len(blocks) \in Nat
      BY DEF EndWell
    <3>2. k \in Nat
      BY <3>1, LenProperties DEF FlowInvariant, FlowTypeOK
    <3> QED
      BY <3>1, <3>2 DEF FlowInvariant, BlocksWell
  <2> HIDE DEF c
  <2>2. c.saved \in 0..Len(locals) /\ \A i \in DOMAIN locals : i <= c.saved <=> locals[i].depth < k
    BY <2>1 DEF BlockWell
  <2>3. c.saved \in 0..n
    <3>1. CASE c.saved = 0
      BY <1>2, <3>1
    <3>2. CASE c.saved \in DOMAIN locals
      <4>1. locals[c.saved].depth < k
        BY <1>1, <2>2, <3>2
      <4>2. locals[c.saved].depth < Len(blocks)
        BY <1>1, <2>1, <3>2, <4>1
      <4> QED
        BY <1>1, <1>2, <1>3, <2>2, <3>2, <4>2
    <3> QED
      BY <1>1, <2>2, <3>1, <3>2
  <2>4. \A i \in DOMAIN ls : i <= c.saved <=> ls[i].depth < k
    BY <1>2, <1>4, <2>2
  <2>5. ASSUME NEW saved, Saved(locals, saved, c.saved) PROVE Saved(ls, saved, c.saved)
    <3>1. saved \in Seq(Facts) /\ Len(saved) = c.saved /\ Alike(locals, saved)
      BY <2>5 DEF Saved
    <3>2. Alike(ls, saved)
      BY <1>2, <1>4, <3>1 DEF Alike
    <3> QED
      BY <3>1, <3>2 DEF Saved
  <2>6. c.construct # "body" => Saved(ls, c.before, c.saved)
    BY <2>1, <2>5 DEF BlockWell
  <2>7. c.construct = "else" => Saved(ls, c.then, c.saved)
    BY <2>1, <2>5 DEF BlockWell
  <2>8. BlockWell(ls, c, k)
    BY <1>6, <2>1, <2>3, <2>4, <2>6, <2>7 DEF BlockWell
  <2> QED
    BY <2>8 DEF c
<1> QED
  BY <1>5, <1>7

LEMMA CloseKeeps ==
  ASSUME FlowInvariant, NEW b, NEW n, NEW ended, NEW dropped, EndWell(b, n, ended, dropped),
         NEW ls, Renewed(ended, ls), NEW rs, \A next \in rs : Good(ls, next),
         NEW falling \in BOOLEAN, ~ falling => rs = {}, Close(ls, rs, falling)
  PROVE  FlowInvariant'
<1>1. /\ locals' = ls /\ runs' = rs /\ falls' = falling /\ blocks' = Below /\ function' = function
      /\ returned' = returned /\ stores' = stores
  BY DEF Close
<1>2. FlowTypeOK'
  <2>1. rs \in SUBSET Seq(Cells)
    BY GoodRun
  <2> QED
    BY <1>1, <2>1 DEF FlowInvariant, FlowTypeOK, Renewed, EndWell
<1>3. BlocksWell'
  <2>1. /\ \A i \in DOMAIN ls : ls[i].depth < Len(blocks)
        /\ \A k \in DOMAIN Below : BlockWell(ls, Below[k], k)
    BY ScopeKept
  <2>2. Len(Below) = Len(blocks) - 1 /\ Len(blocks) \in Nat
    BY DEF EndWell
  <2>3. \A i \in DOMAIN ls : ls[i].depth \in Nat
    BY ListFacts, FactFields DEF Renewed
  <2>4. \A i \in DOMAIN ls : ls[i].depth <= Len(Below)
    BY <2>1, <2>2, <2>3
  <2> QED
    BY <1>1, <2>1, <2>4 DEF BlocksWell
<1>4. FactsAgree'
  BY <1>1 DEF FactsAgree, Good
<1> QED
  BY <1>2, <1>3, <1>4 DEF FlowInvariant

\* What a block saved is another state of the locals that stay.
LEMMA SavedRenews ==
  ASSUME NEW n, NEW ended \in Seq(Facts), DOMAIN ended = 1..n, Len(ended) = n, Alike(locals, ended),
         DOMAIN ended \subseteq DOMAIN locals, NEW saved, Saved(locals, saved, n)
  PROVE  Renewed(ended, saved)
<1>1. saved \in Seq(Facts) /\ Len(saved) = n /\ Alike(locals, saved)
  BY DEF Saved
<1>2. DOMAIN saved = 1..n
  BY <1>1, LenProperties
<1> QED
  BY <1>1, <1>2 DEF Renewed, Alike

LEMMA CloseBlockKeeps ==
  ASSUME FlowInvariant, CloseBlock
  PROVE  FlowInvariant'
<1>1. blocks # <<>> /\ Close(LocalsAtEnd, RunsAtEnd, falls)
  BY DEF CloseBlock, Ending
<1>2. EndWell(Top, Top.saved, LocalsAtEnd, RunsAtEnd)
  BY <1>1, EndHolds
<1>3. /\ Renewed(LocalsAtEnd, LocalsAtEnd) /\ \A next \in RunsAtEnd : Good(LocalsAtEnd, next)
      /\ ~ falls => RunsAtEnd = {}
  BY <1>2, RenewedSelf DEF EndWell
<1>4. falls \in BOOLEAN
  BY DEF FlowInvariant, FlowTypeOK
<1> QED
  BY <1>1, <1>2, <1>3, <1>4, CloseKeeps

LEMMA BlockFields ==
  ASSUME NEW b \in Blocks
  PROVE  /\ b.construct \in {"then", "while", "unsafe"} => b.before \in Seq(Facts) /\ b.entered \in SUBSET Seq(Cells)
         /\ b.construct = "else" => /\ b.before \in Seq(Facts) /\ b.then \in Seq(Facts)
                                    /\ b.thenRuns \in SUBSET Seq(Cells) /\ b.thenFalls \in BOOLEAN
BY DEF Blocks

LEMMA CloseLoopKeeps ==
  ASSUME FlowInvariant, CloseLoop
  PROVE  FlowInvariant'
<1> DEFINE ls == IF falls THEN MergedLocals(Top.before, LocalsAtEnd) ELSE Top.before
           rs == Top.entered \cup RunsAtEnd
<1>1. blocks # <<>> /\ Top.construct = "while" /\ Close(ls, rs, TRUE)
  BY DEF CloseLoop, Ending
<1> DEFINE b == Top
           n == b.saved
           ended == LocalsAtEnd
           dropped == RunsAtEnd
<1>2. EndWell(b, n, ended, dropped)
  BY <1>1, EndHolds
<1> HIDE DEF n, ended, dropped
<1>3. /\ b \in Blocks /\ BlockWell(locals, b, Len(blocks)) /\ n \in 0..Len(locals)
      /\ ended \in Seq(Facts) /\ DOMAIN ended = 1..n /\ Len(ended) = n /\ Alike(locals, ended)
      /\ (\A next \in dropped : Good(ended, next)) /\ (~ falls => dropped = {})
  BY <1>2 DEF EndWell
<1>4. DOMAIN ended \subseteq DOMAIN locals
  BY <1>3, RunsGood, ListFacts
<1>5. Saved(locals, b.before, n) /\ \A run \in b.entered : Good(b.before, run)
  BY <1>1, <1>3 DEF BlockWell, Saved, Good, n
<1>6. Renewed(ended, b.before)
  BY <1>3, <1>4, <1>5, SavedRenews
<1> HIDE DEF b
<1>7. CASE falls
  <2>1. /\ b.before \in Seq(Facts) /\ DOMAIN ended = DOMAIN b.before /\ Alike(b.before, ended)
    BY <1>6 DEF Renewed, Alike
  <2> DEFINE merged == MergedLocals(b.before, ended)
  <2>2. Weaker(b.before, merged) /\ Weaker(ended, merged)
    BY <1>3, <2>1, MergedWeaker
  <2> HIDE DEF merged
  <2>3. Renewed(ended, merged)
    BY <2>2 DEF Weaker, Renewed
  <2>4. \A next \in b.entered \cup dropped : Good(merged, next)
    BY <1>3, <1>5, <2>2, WeakerStep
  <2>5. Close(merged, b.entered \cup dropped, TRUE)
    BY <1>1, <1>7 DEF merged, b, ended, dropped
  <2> QED
    BY <1>2, <2>3, <2>4, <2>5, CloseKeeps
<1>8. CASE ~ falls
  <2>1. \A next \in b.entered \cup dropped : Good(b.before, next)
    BY <1>3, <1>5, <1>8
  <2>2. Close(b.before, b.entered \cup dropped, TRUE)
    BY <1>1, <1>8 DEF b, ended, dropped
  <2> QED
    BY <1>2, <1>6, <2>1, <2>2, CloseKeeps
<1> QED
  BY <1>7, <1>8

LEMMA CloseElseKeeps ==
  ASSUME FlowInvariant, CloseElse
  PROVE  FlowInvariant'
<1> DEFINE b == Top
           n == b.saved
           ended == LocalsAtEnd
           dropped == RunsAtEnd
           ls == CASE b.thenFalls /\ falls   -> MergedLocals(b.then, ended)
                   [] b.thenFalls /\ ~ falls -> b.then
                   [] ~ b.thenFalls /\ falls -> ended
                   [] OTHER -> b.before
           rs == b.thenRuns \cup dropped
           falling == b.thenFalls \/ falls
<1>1. blocks # <<>> /\ b.construct = "else" /\ Close(ls, rs, falling)
  BY DEF CloseElse, Ending
<1>2. EndWell(b, n, ended, dropped)
  BY <1>1, EndHolds
<1> HIDE DEF n, ended, dropped
<1>3. /\ b \in Blocks /\ BlockWell(locals, b, Len(blocks)) /\ n \in 0..Len(locals)
      /\ ended \in Seq(Facts) /\ DOMAIN ended = 1..n /\ Len(ended) = n /\ Alike(locals, ended)
      /\ (\A next \in dropped : Good(ended, next)) /\ (~ falls => dropped = {})
  BY <1>2 DEF EndWell
<1>4. DOMAIN ended \subseteq DOMAIN locals
  BY <1>3, RunsGood, ListFacts
<1>5. /\ Saved(locals, b.before, n) /\ Saved(locals, b.then, n) /\ \A run \in b.thenRuns : Good(b.then, run)
      /\ ~ b.thenFalls => b.thenRuns = {}
  BY <1>1, <1>3 DEF BlockWell, Saved, Good, n
<1>6. Renewed(ended, b.before) /\ Renewed(ended, b.then) /\ Renewed(ended, ended)
  BY <1>3, <1>4, <1>5, SavedRenews, RenewedSelf
<1>7. falls \in BOOLEAN /\ b.thenFalls \in BOOLEAN
  BY <1>1, <1>3, BlockFields DEF FlowInvariant, FlowTypeOK
<1> HIDE DEF b
<1>8. Renewed(ended, ls) /\ \A next \in rs : Good(ls, next)
  <2>1. CASE b.thenFalls /\ falls
    <3>1. /\ b.then \in Seq(Facts) /\ DOMAIN ended = DOMAIN b.then /\ Alike(b.then, ended)
      BY <1>6 DEF Renewed, Alike
    <3> DEFINE merged == MergedLocals(b.then, ended)
    <3>2. Weaker(b.then, merged) /\ Weaker(ended, merged)
      BY <1>3, <3>1, MergedWeaker
    <3>3. ls = merged
      BY <2>1
    <3> HIDE DEF merged, ls
    <3>4. Renewed(ended, merged)
      BY <3>2 DEF Weaker, Renewed
    <3>5. \A next \in b.thenRuns \cup dropped : Good(merged, next)
      BY <1>3, <1>5, <3>2, WeakerStep
    <3> QED
      BY <3>3, <3>4, <3>5
  <2>2. CASE b.thenFalls /\ ~ falls
    <3>1. ls = b.then
      BY <2>2
    <3> QED
      BY <1>3, <1>5, <1>6, <2>2, <3>1
  <2>3. CASE ~ b.thenFalls /\ falls
    <3>1. ls = ended
      BY <2>3
    <3> QED
      BY <1>3, <1>5, <1>6, <2>3, <3>1
  <2>4. CASE ~ b.thenFalls /\ ~ falls
    <3>1. ls = b.before
      BY <2>4
    <3> QED
      BY <1>3, <1>5, <1>6, <2>4, <3>1
  <2> QED
    BY <1>7, <2>1, <2>2, <2>3, <2>4
<1>9. falling \in BOOLEAN /\ (~ falling => rs = {})
  BY <1>3, <1>5, <1>7
<1> HIDE DEF ls, rs, falling
<1> QED
  BY <1>1, <1>2, <1>8, <1>9, CloseKeeps

LEMMA CloseThenKeeps ==
  ASSUME FlowInvariant, CloseThen
  PROVE  FlowInvariant'
<1> DEFINE b == Top
           n == b.saved
           ended == LocalsAtEnd
           dropped == RunsAtEnd
           e == [construct |-> "else", saved |-> n, before |-> b.before, then |-> ended, thenRuns |-> dropped,
                 thenFalls |-> falls]
<1>1. /\ blocks # <<>> /\ b.construct = "then"
      /\ locals' = b.before /\ runs' = b.entered /\ falls' = TRUE /\ blocks' = Append(Below, e)
      /\ function' = function /\ returned' = returned /\ stores' = stores
  BY DEF CloseThen, Ending
<1>2. EndWell(b, n, ended, dropped)
  BY <1>1, EndHolds
<1> HIDE DEF ended, dropped
<1>3. /\ b \in Blocks /\ BlockWell(locals, b, Len(blocks)) /\ n \in 0..Len(locals)
      /\ ended \in Seq(Facts) /\ DOMAIN ended = 1..n /\ Len(ended) = n /\ Alike(locals, ended)
      /\ (\A next \in dropped : Good(ended, next)) /\ (~ falls => dropped = {})
      /\ Below \in Seq(Blocks) /\ Len(Below) = Len(blocks) - 1 /\ Len(blocks) \in Nat \ {0}
  BY <1>2 DEF EndWell
<1>4. DOMAIN ended \subseteq DOMAIN locals
  BY <1>3, RunsGood, ListFacts
<1>5. Saved(locals, b.before, n) /\ \A run \in b.entered : Good(b.before, run)
  BY <1>1, <1>3 DEF BlockWell, Saved, Good
<1>6. Renewed(ended, b.before) /\ n \in Nat /\ falls \in BOOLEAN /\ b.entered \in SUBSET Seq(Cells)
  BY <1>1, <1>3, <1>4, <1>5, SavedRenews, BlockFields DEF FlowInvariant, FlowTypeOK
<1>7. e \in Blocks
  <2>1. dropped \in SUBSET Seq(Cells)
    BY <1>3, GoodRun
  <2>2. b.before \in Seq(Facts)
    BY <1>6 DEF Renewed
  <2> HIDE DEF b, n
  <2> QED
    BY <1>3, <1>6, <2>1, <2>2 DEF Blocks
<1>8. /\ e.construct = "else" /\ e.saved = n /\ e.before = b.before /\ e.then = ended /\ e.thenRuns = dropped
      /\ e.thenFalls = falls
  OBVIOUS
<1> HIDE DEF b, n, e
<1>9. /\ blocks' \in Seq(Blocks) /\ Len(blocks') = Len(blocks) /\ DOMAIN blocks' = 1..Len(blocks)
      /\ DOMAIN Below = 1..(Len(blocks) - 1)
      /\ \A k \in DOMAIN Below : blocks'[k] = Below[k]
      /\ blocks'[Len(blocks)] = e
  <2>1. /\ blocks' \in Seq(Blocks) /\ Len(blocks') = Len(Below) + 1
        /\ \A k \in 1..Len(Below) : blocks'[k] = Below[k]
        /\ blocks'[Len(Below) + 1] = e
    BY <1>1, <1>3, <1>7, AppendProperties
  <2>2. Len(Below) + 1 = Len(blocks)
    BY <1>3
  <2>3. DOMAIN Below = 1..Len(Below) /\ DOMAIN blocks' = 1..Len(blocks')
    BY <1>3, <2>1, LenProperties
  <2> QED
    BY <1>3, <2>1, <2>2, <2>3
<1>10. /\ \A i \in DOMAIN b.before : b.before[i].depth < Len(blocks)
       /\ \A k \in DOMAIN Below : BlockWell(b.before, Below[k], k)
  BY <1>2, <1>6, ScopeKept
<1>11. BlockWell(b.before, e, Len(blocks))
  <2>1. Len(b.before) = n /\ DOMAIN b.before = 1..n /\ b.before \in Seq(Facts) /\ Alike(ended, b.before)
    BY <1>3, <1>5, <1>6 DEF Renewed, Saved
  <2>2. Saved(b.before, b.before, n)
    BY <2>1 DEF Saved, Alike
  <2>3. Saved(b.before, ended, n)
    BY <1>3, <2>1 DEF Saved, Alike
  <2>4. \A run \in dropped : Describes(ended, run)
    BY <1>3 DEF Good
  <2>5. n \in 0..Len(b.before) /\ \A i \in DOMAIN b.before : i <= n <=> b.before[i].depth < Len(blocks)
    BY <1>6, <1>10, <2>1
  <2> QED
    BY <1>3, <1>8, <2>2, <2>3, <2>4, <2>5 DEF BlockWell
<1>12. FlowTypeOK'
  BY <1>1, <1>6, <1>9 DEF FlowInvariant, FlowTypeOK, Renewed
<1>13. BlocksWell'
  <2>1. \A i \in DOMAIN b.before : b.before[i].depth <= Len(blocks')
    <3>1. \A i \in DOMAIN b.before : b.before[i].depth \in Nat
      BY <1>6, ListFacts, FactFields DEF Renewed
    <3> QED
      BY <1>3, <1>9, <1>10, <3>1
  <2>2. ASSUME NEW k \in DOMAIN blocks' PROVE BlockWell(b.before, blocks'[k], k)
    <3>1. CASE k \in DOMAIN Below
      BY <1>9, <1>10, <3>1
    <3>2. CASE k = Len(blocks)
      BY <1>9, <1>11, <3>2
    <3> QED
      BY <1>3, <1>9, <3>1, <3>2
  <2> QED
    BY <1>1, <2>1, <2>2 DEF BlocksWell
<1>14. FactsAgree'
  BY <1>1, <1>5 DEF FactsAgree, Good
<1> QED
  BY <1>12, <1>13, <1>14 DEF FlowInvariant

-----------------------------------------------------------------------------
(* The start of a function.                                                    *)

LEMMA ParameterFields ==
  ASSUME NEW k \in Kinds, NEW i \in Nat \ {0}
  PROVE  LET l == Parameter(k, i) IN
         /\ l \in Facts /\ l.type = k.type /\ l.depth = 0 /\ l.from = None /\ l.kind = "none"
         /\ l.shared = 0 /\ ~ l.exclusive
         /\ IsReference(l) => l.origin = i
<1> DEFINE l == [Declared(k, 0) EXCEPT !.state = "initialized"]
<1>1. Declared(k, 0) \in Facts
  BY DeclaredFact
<1>2. /\ l \in Facts /\ l.type = k.type /\ l.depth = 0 /\ l.from = None /\ l.kind = "none"
      /\ l.shared = 0 /\ ~ l.exclusive
  BY <1>1 DEF Declared, Facts, States
<1> HIDE DEF l
<1>3. CASE k.type \in References
  <2>1. Parameter(k, i) = [l EXCEPT !.region = 0, !.origin = i]
    BY <1>3 DEF Parameter, l
  <2> QED
    BY <1>2, <2>1 DEF Facts
<1>4. CASE k.type \notin References
  <2>1. Parameter(k, i) = l
    BY <1>4 DEF Parameter, l
  <2> QED
    BY <1>2, <1>4, <2>1 DEF IsReference
<1> QED
  BY <1>3, <1>4

\* The facts of the parameters agree with the call.
LEMMA InitAgrees ==
  ASSUME FlowInit, NEW run, run \in runs
  PROVE  Good(locals, run)
<1> DEFINE n == Len(function.parameters)
<1>1. /\ n \in Nat /\ DOMAIN function.parameters = 1..n /\ \A i \in 1..n : function.parameters[i] \in Kinds
      /\ locals = [i \in 1..n |-> Parameter(function.parameters[i], i)]
  BY FunctionKinds DEF FlowInit
<1>2. \A i \in 1..n :
        /\ locals[i] \in Facts /\ locals[i].depth = 0 /\ locals[i].from = None /\ locals[i].kind = "none"
        /\ locals[i].shared = 0 /\ ~ locals[i].exclusive
        /\ IsReference(locals[i]) => locals[i].origin = i
  <2> SUFFICES ASSUME NEW i \in 1..n
               PROVE  /\ locals[i] \in Facts /\ locals[i].depth = 0 /\ locals[i].from = None
                      /\ locals[i].kind = "none" /\ locals[i].shared = 0 /\ ~ locals[i].exclusive
                      /\ IsReference(locals[i]) => locals[i].origin = i
    OBVIOUS
  <2>1. locals[i] = Parameter(function.parameters[i], i) /\ function.parameters[i] \in Kinds /\ i \in Nat \ {0}
    BY <1>1
  <2> QED
    BY <2>1, ParameterFields
<1>3. n \in Nat
  BY <1>1
<1>4. locals \in Seq(Facts) /\ DOMAIN locals = 1..n
  <2> HIDE DEF n
  <2>1. locals \in [1..n -> Facts]
    BY <1>1, <1>2
  <2> QED
    BY <1>1, <1>3, <2>1, SeqDef
<1>5. run = [i \in DOMAIN locals |-> Present(IF locals[i].type \in References THEN Outside(i) ELSE None, None)]
  BY DEF FlowInit
<1>6. DOMAIN run = 1..n
  BY <1>4, <1>5
<1>7. \A i \in 1..n : /\ run[i].value /\ ~ run[i].stale /\ run[i].via = None
                      /\ run[i].target = (IF IsReference(locals[i]) THEN - i ELSE None)
                      /\ run[i] \in Cells
  BY <1>4, <1>5 DEF Present, IsReference, Outside, Cells, None
<1>8. run \in [DOMAIN locals -> Cells]
  BY <1>4, <1>5, <1>6, <1>7
<1> HIDE DEF n
<1>9. \A i \in 1..n : CellWell(locals, run, i)
  BY <1>3, <1>4, <1>7 DEF CellWell, ViewsWell, Live, None
<1>10. \A i \in 1..n : i \in Chain(run, i) /\ Rooted(run, i)
  BY <1>6, <1>7, ChainHasItself DEF Rooted
<1>11. \A i, j \in 1..n : Nested(locals, run, i, j)
  <2> SUFFICES ASSUME NEW i \in 1..n, NEW j \in 1..n, Live(locals, run, i), Live(locals, run, j),
                      run[i].target = run[j].target
               PROVE  i \in Chain(run, j)
    BY DEF Nested
  <2>1. - i = - j
    BY <1>7 DEF Live
  <2>2. i = j
    BY <1>3, <2>1
  <2> QED
    BY <1>10, <2>2
<1>12. Counted(locals)
  <2>1. \A o \in 1..n : \A mode : LoansOf(locals, o, mode) = {}
    BY <1>2, <1>3, <1>4 DEF LoansOf, None
  <2>2. Cardinality({}) = 0
    BY FS_EmptySet
  <2>3. \A o \in 1..n : Cardinality(LoansOf(locals, o, "shared")) = 0 /\ locals[o].shared = 0
    BY <1>2, <2>1, <2>2
  <2> QED
    BY <1>4, <2>1, <2>3 DEF Counted
<1>13. \A i \in 1..n : FactWell(locals, run, i)
  <2> SUFFICES ASSUME NEW i \in 1..n PROVE FactWell(locals, run, i)
    OBVIOUS
  <2>1. ~ Recorded(locals[i]) /\ run[i].value
    BY <1>2, <1>7 DEF Recorded
  <2>2. ASSUME Live(locals, run, i)
        PROVE  run[i].target = Outside(locals[i].origin) /\ ~ (Lender(run, i) > 0)
    BY <1>2, <1>3, <1>7, <2>2 DEF Live, Lender, Outside
  <2> QED
    BY <1>2, <2>1, <2>2 DEF FactWell
<1> QED
  BY <1>4, <1>8, <1>9, <1>10, <1>11, <1>12, <1>13 DEF Good, Describes, RunWell

LEMMA InitKeeps ==
  ASSUME FlowInit
  PROVE  FlowInvariant
<1> DEFINE run == [i \in DOMAIN locals |-> Present(IF locals[i].type \in References THEN Outside(i) ELSE None, None)]
           b   == [construct |-> "body", saved |-> Len(locals)]
<1>1. /\ function \in Functions /\ falls = TRUE /\ blocks = <<b>> /\ returned = None /\ stores = 0 /\ runs = {run}
      /\ locals = [i \in DOMAIN function.parameters |-> Parameter(function.parameters[i], i)]
  BY DEF FlowInit
<1>2. Good(locals, run) /\ run \in Seq(Cells)
  BY <1>1, InitAgrees, GoodRun
<1> HIDE DEF run
<1>3. /\ locals \in Seq(Facts) /\ Len(locals) \in Nat /\ DOMAIN locals = 1..Len(locals)
  BY <1>2, ListFacts DEF Good
<1>4. \A i \in DOMAIN locals : locals[i].depth = 0
  <2> SUFFICES ASSUME NEW i \in DOMAIN locals PROVE locals[i].depth = 0
    OBVIOUS
  <2>1. i \in Nat \ {0} /\ locals[i] = Parameter(function.parameters[i], i) /\ i \in DOMAIN function.parameters
    BY <1>1, <1>3
  <2> QED
    BY <1>1, <2>1, FunctionKinds, ParameterFields
<1>5. b \in Blocks /\ b.construct = "body" /\ b.saved = Len(locals)
  BY <1>3 DEF Blocks
<1> HIDE DEF b
<1>6. blocks \in Seq(Blocks) /\ Len(blocks) = 1 /\ DOMAIN blocks = {1} /\ blocks[1] = b
  BY <1>1, <1>5
<1>7. FlowTypeOK
  <2>1. MaxStores \in Nat
    BY FlowAssumption
  <2> QED
    BY <1>1, <1>2, <1>3, <1>6, <2>1 DEF FlowTypeOK, None
<1>8. BlockWell(locals, b, 1)
  BY <1>3, <1>4, <1>5 DEF BlockWell
<1>9. BlocksWell
  <2>1. \A i \in DOMAIN locals : locals[i].depth <= Len(blocks)
    BY <1>4, <1>6
  <2> QED
    BY <1>1, <1>6, <1>8, <2>1 DEF BlocksWell
<1>10. FactsAgree
  BY <1>1, <1>2 DEF FactsAgree, Good
<1> QED
  BY <1>7, <1>9, <1>10 DEF FlowInvariant

-----------------------------------------------------------------------------
(* The theorems.                                                               *)

\* At every point of every function body that the flow check accepts so far, what
\* it records of the locals agrees with every execution that reaches the point:
\* the values are where it says, each live reference views what the loans it is
\* recorded to hold keep, and no two exclude one another.
THEOREM FlowInvariantHolds == FlowSpec => []FlowInvariant
<1>1. FlowInit => FlowInvariant
  BY InitKeeps
<1>2. FlowInvariant /\ [FlowNext]_flowVars => FlowInvariant'
  <2> SUFFICES ASSUME FlowInvariant, [FlowNext]_flowVars PROVE FlowInvariant'
    OBVIOUS
  <2>1. CASE Declare
    BY <2>1, DeclareKeeps
  <2>2. ASSUME NEW d \in DOMAIN locals, StoreValue(d) PROVE FlowInvariant'
    BY <2>2, StoreValueKeeps
  <2>3. ASSUME NEW d \in DOMAIN locals, WritePart(d) PROVE FlowInvariant'
    BY <2>3, WritePartKeeps
  <2>4. ASSUME NEW d \in DOMAIN locals, ReturnLocal(d) PROVE FlowInvariant'
    BY <2>4, ReturnLocalKeeps
  <2>5. ASSUME NEW d \in DOMAIN locals, NEW x \in DOMAIN locals, StorePart(d, x) PROVE FlowInvariant'
    BY <2>5, StorePartKeeps
  <2>6. ASSUME NEW d \in DOMAIN locals, NEW x \in DOMAIN locals, StoreLocal(d, x) PROVE FlowInvariant'
    BY <2>6, StoreLocalKeeps
  <2>7. ASSUME NEW d \in DOMAIN locals, NEW x \in DOMAIN locals, NEW mode \in References, StoreBorrow(d, x, mode)
        PROVE  FlowInvariant'
    BY <2>7, StoreBorrowKeeps
  <2>8. ASSUME NEW d \in DOMAIN locals, NEW x \in DOMAIN locals, MoveIntoPart(d, x) PROVE FlowInvariant'
    BY <2>8, MoveIntoPartKeeps
  <2>9. CASE ReturnValue
    BY <2>9, ReturnValueKeeps
  <2>10. ASSUME NEW construct \in {"then", "while", "unsafe"}, Open(construct) PROVE FlowInvariant'
    BY <2>10, OpenKeeps
  <2>11. CASE CloseBlock
    BY <2>11, CloseBlockKeeps
  <2>12. CASE CloseThen
    BY <2>12, CloseThenKeeps
  <2>13. CASE CloseElse
    BY <2>13, CloseElseKeeps
  <2>14. CASE CloseLoop
    BY <2>14, CloseLoopKeeps
  <2>15. CASE UNCHANGED flowVars
    BY <2>15 DEF flowVars, FlowInvariant, FlowTypeOK, BlocksWell, FactsAgree, BlockWell, Saved
  <2> QED
    BY <2>1, <2>2, <2>3, <2>4, <2>5, <2>6, <2>7, <2>8, <2>9, <2>10, <2>11, <2>12, <2>13, <2>14, <2>15 DEF FlowNext
<1> QED
  BY <1>1, <1>2, PTL DEF FlowSpec

\* Whenever the check lets a local be read, every execution it follows finds the
\* value there, and a reference whose storage was neither moved, replaced nor
\* dropped, nor lent otherwise (body_borrow.c, body_flow.c, kernel/safety/flow.c).
THEOREM FlowReadsAreSound == FlowSpec => []ReadsAreSound
<1>1. FlowInvariant => ReadsAreSound
  <2> SUFFICES ASSUME FlowInvariant, NEW run \in runs, NEW i \in DOMAIN locals, MayRead(locals[i])
               PROVE  run[i].value /\ ~ run[i].stale
    BY DEF ReadsAreSound
  <2>1. FactWell(locals, run, i) /\ CellWell(locals, run, i)
    BY DEF FlowInvariant, FactsAgree, Describes, RunWell
  <2> QED
    BY <2>1 DEF FactWell, CellWell, MayRead
<1> QED
  BY <1>1, FlowInvariantHolds, PTL

\* A reference the check lets the function return views what its caller lent for
\* the parameter recorded as its origin (Body_Safety_Check_Return_Reference).
THEOREM FlowReturnsOutliveTheCall == FlowSpec => []ReturnsOutliveTheCall
<1>1. FlowInvariant => ReturnsOutliveTheCall
  <2> SUFFICES ASSUME FlowInvariant, NEW run \in runs, NEW i \in DOMAIN locals, IsReference(locals[i]),
                      MayRead(locals[i]), locals[i].region = 0, locals[i].origin # None
               PROVE  run[i].target = Outside(locals[i].origin)
    BY DEF ReturnsOutliveTheCall, IsReference
  <2>1. FactWell(locals, run, i)
    BY DEF FlowInvariant, FactsAgree, Describes
  <2>2. Live(locals, run, i)
    BY <2>1 DEF FactWell, MayRead, Live
  <2> QED
    BY <2>1, <2>2 DEF FactWell
<1> QED
  BY <1>1, FlowInvariantHolds, PTL
=============================================================================
