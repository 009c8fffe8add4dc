------------------------------ MODULE FlowLemmas ------------------------------
(***************************************************************************)
(* Lemmas about the operations on flow states (FlowState) and on execution *)
(* paths (PathSemantics): what each returns, and that it keeps the         *)
(* relation Covers of module Coverage.  None of them is temporal; the      *)
(* theorems about the driver (SafetyFlow_proofs) cite them by name.        *)
(***************************************************************************)
EXTENDS Coverage, TLAPS, FiniteSetTheorems

-----------------------------------------------------------------------------
(* Types                                                                   *)

LEMMA LocalType ==
  ASSUME NEW f \in Flows, NEW s \in Symbols
  PROVE  /\ Value(f, s) \in ValueStates
         /\ BorrowsOf(f, s) \in SUBSET Borrows
         /\ OriginsOf(f, s) \in SUBSET Origins
BY DEF Flows, Locals, Value, BorrowsOf, OriginsOf

LEMMA FlowType ==
  ASSUME NEW f \in Flows
  PROVE  f.visible \in SUBSET Symbols /\ f.next \in Nat
BY DEF Flows

LEMMA WithLocalFacts ==
  ASSUME NEW f \in Flows, NEW s \in Symbols, NEW v \in ValueStates,
         NEW B \in SUBSET Borrows, NEW O \in SUBSET Origins
  PROVE  LET g == WithLocal(f, s, v, B, O)
         IN  /\ g \in Flows
             /\ g.visible = f.visible
             /\ g.next = f.next
             /\ \A t \in Symbols :
                  /\ Value(g, t) = IF t = s THEN v ELSE Value(f, t)
                  /\ BorrowsOf(g, t) = IF t = s THEN B ELSE BorrowsOf(f, t)
                  /\ OriginsOf(g, t) = IF t = s THEN O ELSE OriginsOf(f, t)
BY DEF Flows, Locals, WithLocal, Value, BorrowsOf, OriginsOf

LEMMA DeclareFacts ==
  ASSUME NEW f \in Flows, NEW s \in Symbols, NEW v \in ValueStates,
         NEW O \in SUBSET Origins
  PROVE  LET g == Declare(f, s, v, O)
         IN  /\ g \in Flows
             /\ g.visible = f.visible \cup {s}
             /\ \A t \in Symbols :
                  /\ Value(g, t) = IF t = s THEN v ELSE Value(f, t)
                  /\ BorrowsOf(g, t) = IF t = s THEN {} ELSE BorrowsOf(f, t)
                  /\ OriginsOf(g, t) = IF t = s THEN O ELSE OriginsOf(f, t)
<1> DEFINE h == WithLocal(f, s, v, {}, O)
           g == Declare(f, s, v, O)
<1>1. h \in Flows /\ f.visible \cup {s} \in SUBSET Symbols /\ f.next \in Nat
  BY WithLocalFacts, FlowType
<1>2. \A t \in Symbols : /\ Value(h, t) = IF t = s THEN v ELSE Value(f, t)
                         /\ BorrowsOf(h, t) = IF t = s THEN {} ELSE BorrowsOf(f, t)
                         /\ OriginsOf(h, t) = IF t = s THEN O ELSE OriginsOf(f, t)
  BY WithLocalFacts
<1>3. g = [visible |-> f.visible \cup {s}, locals |-> h.locals, next |-> f.next]
  BY DEF Declare
<1> HIDE DEF h, g
<1>4. g \in Flows /\ g.visible = f.visible \cup {s} /\ g.locals = h.locals
  BY <1>1, <1>3 DEF Flows
<1>5. \A t \in Symbols : /\ Value(g, t) = Value(h, t)
                         /\ BorrowsOf(g, t) = BorrowsOf(h, t)
                         /\ OriginsOf(g, t) = OriginsOf(h, t)
  BY <1>4 DEF Value, BorrowsOf, OriginsOf
<1> QED
  BY <1>2, <1>4, <1>5 DEF g

LEMMA InitializeFacts ==
  ASSUME NEW f \in Flows, NEW s \in Symbols, NEW O \in SUBSET Origins
  PROVE  LET g == Initialize(f, s, O)
         IN  /\ g \in Flows
             /\ g.visible = f.visible
             /\ g.next = f.next
             /\ \A t \in Symbols :
                  /\ Value(g, t) = IF t = s THEN "init" ELSE Value(f, t)
                  /\ BorrowsOf(g, t) = BorrowsOf(f, t)
                  /\ OriginsOf(g, t) = IF t = s THEN O ELSE OriginsOf(f, t)
<1>1. BorrowsOf(f, s) \in SUBSET Borrows /\ "init" \in ValueStates
  BY LocalType DEF ValueStates
<1> QED
  BY <1>1, WithLocalFacts DEF Initialize

LEMMA EndCarriersFacts ==
  ASSUME NEW f \in Flows, NEW C \in SUBSET Symbols
  PROVE  LET g == EndCarriers(f, C)
         IN  /\ g \in Flows
             /\ g.visible = f.visible
             /\ g.next = f.next
             /\ \A t \in Symbols :
                  /\ Value(g, t) = Value(f, t)
                  /\ BorrowsOf(g, t) = {b \in BorrowsOf(f, t) : b.carrier \notin C}
                  /\ OriginsOf(g, t) = OriginsOf(f, t)
<1> DEFINE L == [s \in Symbols |-> [value   |-> Value(f, s),
                                   borrows |-> WithoutCarriers(BorrowsOf(f, s), C),
                                   origins |-> OriginsOf(f, s)]]
<1>1. L \in [Symbols -> Locals]
  BY LocalType DEF WithoutCarriers, Locals
<1>2. EndCarriers(f, C) = [visible |-> f.visible, locals |-> L, next |-> f.next]
  BY DEF EndCarriers
<1>3. ASSUME NEW t \in Symbols
      PROVE  /\ L[t].value = Value(f, t)
             /\ L[t].borrows = WithoutCarriers(BorrowsOf(f, t), C)
             /\ L[t].origins = OriginsOf(f, t)
  OBVIOUS
<1> HIDE DEF L
<1>4. /\ EndCarriers(f, C) \in Flows
      /\ EndCarriers(f, C).visible = f.visible
      /\ EndCarriers(f, C).next = f.next
      /\ EndCarriers(f, C).locals = L
  BY <1>1, <1>2, FlowType DEF Flows
<1> QED
  BY <1>3, <1>4 DEF Value, BorrowsOf, OriginsOf, WithoutCarriers

LEMMA MoveFacts ==
  ASSUME NEW f \in Flows, NEW s \in Symbols
  PROVE  LET g == Move(f, s)
         IN  /\ g \in Flows
             /\ g.visible = f.visible
             /\ ~Consumes(f, s) => g = f
             /\ Consumes(f, s) =>
                  \A t \in Symbols :
                    /\ Value(g, t) = IF t = s THEN "moved" ELSE Value(f, t)
                    /\ BorrowsOf(g, t) = {b \in BorrowsOf(f, t) : b.carrier # s}
                    /\ OriginsOf(g, t) = IF t = s THEN {} ELSE OriginsOf(f, t)
<1> DEFINE h == WithLocal(f, s, "moved", BorrowsOf(f, s), {})
<1>1. /\ h \in Flows
      /\ h.visible = f.visible
      /\ \A t \in Symbols :
           /\ Value(h, t) = IF t = s THEN "moved" ELSE Value(f, t)
           /\ BorrowsOf(h, t) = BorrowsOf(f, t)
           /\ OriginsOf(h, t) = IF t = s THEN {} ELSE OriginsOf(f, t)
  <2>1. "moved" \in ValueStates /\ BorrowsOf(f, s) \in SUBSET Borrows
    BY LocalType DEF ValueStates
  <2> QED
    BY <2>1, WithLocalFacts
<1> HIDE DEF h
<1>2. LET g == EndCarriers(h, {s})
      IN  /\ g \in Flows
          /\ g.visible = h.visible
          /\ \A t \in Symbols :
               /\ Value(g, t) = Value(h, t)
               /\ BorrowsOf(g, t) = {b \in BorrowsOf(h, t) : b.carrier \notin {s}}
               /\ OriginsOf(g, t) = OriginsOf(h, t)
  BY <1>1, EndCarriersFacts
<1>3. Move(f, s) = IF Consumes(f, s) THEN EndCarriers(h, {s}) ELSE f
  BY DEF Move, h
<1> QED
  BY <1>1, <1>2, <1>3

LEMMA ReleaseFacts ==
  ASSUME NEW f \in Flows, NEW s \in Symbols
  PROVE  LET g == Release(f, s)
         IN  /\ g \in Flows
             /\ g.visible = f.visible
             /\ \A t \in Symbols :
                  /\ Value(g, t) = IF t = s THEN "freed" ELSE Value(f, t)
                  /\ BorrowsOf(g, t) = {b \in BorrowsOf(f, t) : b.carrier # s}
                  /\ OriginsOf(g, t) = IF t = s THEN {} ELSE OriginsOf(f, t)
<1> DEFINE h == WithLocal(f, s, "freed", BorrowsOf(f, s), {})
<1>1. /\ h \in Flows
      /\ h.visible = f.visible
      /\ \A t \in Symbols :
           /\ Value(h, t) = IF t = s THEN "freed" ELSE Value(f, t)
           /\ BorrowsOf(h, t) = BorrowsOf(f, t)
           /\ OriginsOf(h, t) = IF t = s THEN {} ELSE OriginsOf(f, t)
  <2>1. "freed" \in ValueStates /\ BorrowsOf(f, s) \in SUBSET Borrows
    BY LocalType DEF ValueStates
  <2> QED
    BY <2>1, WithLocalFacts
<1> HIDE DEF h
<1>2. LET g == EndCarriers(h, {s})
      IN  /\ g \in Flows
          /\ g.visible = h.visible
          /\ \A t \in Symbols :
               /\ Value(g, t) = Value(h, t)
               /\ BorrowsOf(g, t) = {b \in BorrowsOf(h, t) : b.carrier \notin {s}}
               /\ OriginsOf(g, t) = OriginsOf(h, t)
  BY <1>1, EndCarriersFacts
<1>3. Release(f, s) = EndCarriers(h, {s})
  BY DEF Release, h
<1> QED
  BY <1>1, <1>2, <1>3

\* The borrow counter stays a number: a value has finitely many origins.
LEMMA OriginsFinite ==
  ASSUME NEW O \in SUBSET Origins
  PROVE  Cardinality(LocalOrigins(O)) \in Nat
<1>1. IsFiniteSet({"shared"}) /\ {"shared"} \cup {"exclusive"} = BorrowModes
  BY FS_Singleton DEF BorrowModes
<1>2. IsFiniteSet(BorrowModes)
  BY <1>1, FS_AddElement
<1>3. IsFiniteSet(Symbols \X BorrowModes)
  BY <1>2, FS_Product, SymbolsAssumption
<1>4. LocalOrigins(O) \in SUBSET (Symbols \X BorrowModes)
  BY DEF LocalOrigins, Origins, BorrowModes
<1>5. IsFiniteSet(LocalOrigins(O))
  BY <1>3, <1>4, FS_Subset
<1> QED
  BY <1>5, FS_CardinalityType

LEMMA CarryFacts ==
  ASSUME NEW f \in Flows, NEW d \in Symbols, NEW O \in SUBSET Origins
  PROVE  LET g == Carry(f, d, O)
         IN  /\ g \in Flows
             /\ g.visible = f.visible
             /\ \A t \in Symbols :
                  /\ Value(g, t) = Value(f, t)
                  /\ BorrowsOf(g, t) = BorrowsOf(f, t) \cup Started(f, d, t, O)
                  /\ OriginsOf(g, t) = OriginsOf(f, t)
<1> DEFINE L == [o \in Symbols |-> [value   |-> Value(f, o),
                                    borrows |-> BorrowsOf(f, o) \cup Started(f, d, o, O),
                                    origins |-> OriginsOf(f, o)]]
           g == Carry(f, d, O)
<1>1. ASSUME NEW o \in Symbols
      PROVE  Started(f, d, o, O) \in SUBSET Borrows
  <2>1. ASSUME NEW x \in LocalOrigins(O)
        PROVE  ModeFor(d, x[2]) \in BorrowModes
    BY DEF ModeFor, LocalOrigins, BorrowModes
  <2> QED
    BY <2>1, FlowType DEF Started, Borrows
<1>2. L \in [Symbols -> Locals]
  BY <1>1, LocalType DEF Locals
<1>3. ASSUME NEW t \in Symbols
      PROVE  /\ L[t].value = Value(f, t)
             /\ L[t].borrows = BorrowsOf(f, t) \cup Started(f, d, t, O)
             /\ L[t].origins = OriginsOf(f, t)
  OBVIOUS
<1>4. g = [visible |-> f.visible, locals |-> L,
           next |-> f.next + Cardinality(LocalOrigins(O))]
  BY DEF Carry
<1>5. f.next + Cardinality(LocalOrigins(O)) \in Nat /\ f.visible \in SUBSET Symbols
  BY OriginsFinite, FlowType
<1> HIDE DEF L, g
<1>6. g \in Flows /\ g.visible = f.visible /\ g.locals = L
  BY <1>2, <1>4, <1>5 DEF Flows
<1> QED
  BY <1>3, <1>6 DEF g, Value, BorrowsOf, OriginsOf

\* A store in terms of the flow before it: the borrows d carried are gone and
\* one borrow per local origin of the new value has started.
LEMMA StoreFacts ==
  ASSUME NEW f \in Flows, NEW d \in Symbols, NEW O \in SUBSET Origins
  PROVE  LET g == Store(f, d, O)
             r == Replaced(f, d, O)
         IN  /\ g \in Flows
             /\ g.visible = f.visible
             /\ r.visible = f.visible
             /\ \A t \in Symbols :
                  /\ Value(r, t) = IF t = d THEN "init" ELSE Value(f, t)
                  /\ BorrowsOf(r, t) = {b \in BorrowsOf(f, t) : b.carrier # d}
                  /\ Value(g, t) = IF t = d THEN "init" ELSE Value(f, t)
                  /\ BorrowsOf(g, t) = BorrowsOf(r, t) \cup
                       (IF Carries(d) THEN Started(r, d, t, O) ELSE {})
                  /\ OriginsOf(g, t) = IF t = d THEN O ELSE OriginsOf(f, t)
<1> DEFINE h == Initialize(f, d, O)
           r == Replaced(f, d, O)
<1>1. /\ h \in Flows
      /\ h.visible = f.visible
      /\ \A t \in Symbols :
           /\ Value(h, t) = IF t = d THEN "init" ELSE Value(f, t)
           /\ BorrowsOf(h, t) = BorrowsOf(f, t)
           /\ OriginsOf(h, t) = IF t = d THEN O ELSE OriginsOf(f, t)
  BY InitializeFacts
<1>2. r = EndCarriers(h, {d})
  BY DEF Replaced
<1> HIDE DEF h, r
<1>3. /\ r \in Flows
      /\ r.visible = h.visible
      /\ \A t \in Symbols :
           /\ Value(r, t) = Value(h, t)
           /\ BorrowsOf(r, t) = {b \in BorrowsOf(h, t) : b.carrier # d}
           /\ OriginsOf(r, t) = OriginsOf(h, t)
  BY <1>1, <1>2, EndCarriersFacts
<1>4. LET g == Carry(r, d, O)
      IN  /\ g \in Flows
          /\ g.visible = r.visible
          /\ \A t \in Symbols :
               /\ Value(g, t) = Value(r, t)
               /\ BorrowsOf(g, t) = BorrowsOf(r, t) \cup Started(r, d, t, O)
               /\ OriginsOf(g, t) = OriginsOf(r, t)
  BY <1>3, CarryFacts
<1>5. Store(f, d, O) = IF Carries(d) THEN Carry(r, d, O) ELSE r
  BY DEF Store, r
<1>6. CASE Carries(d)
  BY <1>1, <1>3, <1>4, <1>5, <1>6 DEF r
<1>7. CASE ~Carries(d)
  BY <1>1, <1>3, <1>5, <1>7 DEF r
<1> QED
  BY <1>6, <1>7

LEMMA MergeValuesFacts ==
  ASSUME NEW v \in ValueStates, NEW w \in ValueStates
  PROVE  /\ MergeValues(v, w) \in ValueStates
         /\ MergeValues(v, w) = "init" => v = "init" /\ w = "init"
         /\ MergeValues(v, w) = "uninit" => v = "uninit" /\ w = "uninit"
BY DEF MergeValues, MaybeOf, ValueStates

LEMMA MergeFacts ==
  ASSUME NEW f \in Flows, NEW g \in Flows
  PROVE  LET h == Merge(f, g)
         IN  /\ h \in Flows
             /\ h.visible = f.visible \cap g.visible
             /\ \A t \in h.visible :
                  /\ Value(h, t) = MergeValues(Value(f, t), Value(g, t))
                  /\ BorrowsOf(h, t) = BorrowsOf(f, t) \cup BorrowsOf(g, t)
                  /\ OriginsOf(h, t) = OriginsOf(f, t) \cup OriginsOf(g, t)
             /\ \A t \in Symbols \ h.visible : OriginsOf(h, t) = {}
<1> DEFINE V == f.visible \cap g.visible
           L == [s \in Symbols |->
                   IF s \in V
                   THEN [value   |-> MergeValues(Value(f, s), Value(g, s)),
                         borrows |-> BorrowsOf(f, s) \cup BorrowsOf(g, s),
                         origins |-> OriginsOf(f, s) \cup OriginsOf(g, s)]
                   ELSE NoLocal]
           n == IF f.next > g.next THEN f.next ELSE g.next
           h == Merge(f, g)
<1>1. NoLocal \in Locals /\ NoLocal.origins = {}
  BY DEF NoLocal, Locals, ValueStates
<1>2. L \in [Symbols -> Locals]
  BY <1>1, LocalType, MergeValuesFacts DEF Locals
<1>3. ASSUME NEW t \in V
      PROVE  /\ L[t].value = MergeValues(Value(f, t), Value(g, t))
             /\ L[t].borrows = BorrowsOf(f, t) \cup BorrowsOf(g, t)
             /\ L[t].origins = OriginsOf(f, t) \cup OriginsOf(g, t)
  BY FlowType
<1>4. ASSUME NEW t \in Symbols \ V
      PROVE  L[t].origins = {}
  BY <1>1
<1>5. h = [visible |-> V, locals |-> L, next |-> n]
  BY DEF Merge
<1>6. V \in SUBSET Symbols /\ n \in Nat
  BY FlowType
<1> HIDE DEF V, L, n, h
<1>7. h \in Flows /\ h.visible = V /\ h.locals = L
  BY <1>2, <1>5, <1>6 DEF Flows
<1> QED
  BY <1>3, <1>4, <1>7 DEF h, V, Value, BorrowsOf, OriginsOf

LEMMA RestrictFacts ==
  ASSUME NEW f \in Flows, NEW e \in Flows
  PROVE  LET g == RestrictTo(f, e)
         IN  /\ g \in Flows
             /\ g.visible = e.visible
             /\ \A t \in g.visible :
                  /\ Value(g, t) = Value(f, t)
                  /\ BorrowsOf(g, t) =
                       {b \in BorrowsOf(f, t) : b.carrier \notin f.visible \ e.visible}
                  /\ OriginsOf(g, t) = OriginsOf(f, t)
             /\ \A t \in Symbols \ g.visible : OriginsOf(g, t) = {}
<1> DEFINE h == EndCarriers(f, f.visible \ e.visible)
           L == [s \in Symbols |-> IF s \in e.visible THEN h.locals[s] ELSE NoLocal]
           g == RestrictTo(f, e)
<1>1. /\ h \in Flows
      /\ \A t \in Symbols :
           /\ Value(h, t) = Value(f, t)
           /\ BorrowsOf(h, t) =
                {b \in BorrowsOf(f, t) : b.carrier \notin f.visible \ e.visible}
           /\ OriginsOf(h, t) = OriginsOf(f, t)
  BY EndCarriersFacts, FlowType
<1> HIDE DEF h
<1>2. NoLocal \in Locals /\ NoLocal.origins = {}
  BY DEF NoLocal, Locals, ValueStates
<1>3. L \in [Symbols -> Locals]
  BY <1>1, <1>2 DEF Flows
<1>4. /\ \A t \in e.visible : L[t] = h.locals[t]
      /\ \A t \in Symbols \ e.visible : L[t].origins = {}
      /\ e.visible \in SUBSET Symbols /\ f.next \in Nat
  BY <1>2, FlowType
<1>5. g = [visible |-> e.visible, locals |-> L, next |-> f.next]
  BY DEF RestrictTo, h
<1> HIDE DEF L, g
<1>6. g \in Flows /\ g.visible = e.visible /\ g.locals = L
  BY <1>3, <1>4, <1>5 DEF Flows
<1> QED
  BY <1>1, <1>4, <1>6 DEF g, Value, BorrowsOf, OriginsOf

-----------------------------------------------------------------------------
(* Execution paths                                                         *)

LEMMA SpoilFacts ==
  ASSUME NEW p \in Paths, NEW S \in SUBSET Symbols
  PROVE  LET q == Spoil(p, S)
         IN  /\ q \in Paths
             /\ q.val = p.val
             /\ q.view = p.view
             /\ q.stale = p.stale \cup S
BY DEF Paths, Spoil

LEMMA ReadFacts ==
  ASSUME NEW p \in Paths, NEW s \in Symbols
  PROVE  LET q == Read(p, s)
         IN  /\ q \in Paths
             /\ q.val = p.val
             /\ q.view = p.view
             /\ q.stale = p.stale \cup Viewers(p, s, {"exclusive"}) \cup Rivals(p, s)
<1>1. Viewers(p, s, {"exclusive"}) \cup Rivals(p, s) \in SUBSET Symbols
  BY DEF Viewers, Rivals
<1> QED
  BY <1>1, SpoilFacts DEF Read

LEMMA WriteFacts ==
  ASSUME NEW p \in Paths, NEW s \in Symbols
  PROVE  LET q == Write(p, s)
         IN  /\ q \in Paths
             /\ q.val = p.val
             /\ q.view = p.view
             /\ q.stale = p.stale \cup Viewers(p, s, BorrowModes)
<1>1. Viewers(p, s, BorrowModes) \in SUBSET Symbols
  BY DEF Viewers
<1> QED
  BY <1>1, SpoilFacts DEF Write

LEMMA LeaveFacts ==
  ASSUME NEW p \in Paths, NEW s \in Symbols, NEW presence \in Presence
  PROVE  LET q == Leave(p, s, presence)
         IN  /\ q \in Paths
             /\ q.val = [p.val EXCEPT ![s] = presence]
             /\ q.view = [p.view EXCEPT ![s] = {}]
             /\ q.stale = Write(Read(p, s), s).stale
<1> DEFINE w == Write(Read(p, s), s)
<1>1. w \in Paths /\ w.val = p.val /\ w.view = p.view
  BY ReadFacts, WriteFacts
<1>2. Leave(p, s, presence) = [val   |-> [w.val EXCEPT ![s] = presence],
                               view  |-> [w.view EXCEPT ![s] = {}],
                               stale |-> w.stale,
                               lap   |-> w.lap]
  BY DEF Leave
<1> HIDE DEF w
<1>3. /\ Leave(p, s, presence) \in Paths
      /\ Leave(p, s, presence).val = [w.val EXCEPT ![s] = presence]
      /\ Leave(p, s, presence).view = [w.view EXCEPT ![s] = {}]
      /\ Leave(p, s, presence).stale = w.stale
  BY <1>1, <1>2 DEF Paths
<1> QED
  BY <1>1, <1>3 DEF w

LEMMA HeldFacts ==
  ASSUME NEW d \in Symbols, NEW V \in SUBSET (Symbols \X BorrowModes)
  PROVE  /\ Held(d, V) \in SUBSET (Symbols \X BorrowModes)
         /\ \A v \in Held(d, V) :
              /\ \E w \in V : w[1] = v[1] /\ (v[2] = "exclusive" => w[2] = "exclusive")
              /\ v[2] = "exclusive" => TypeOf[d] \notin {"shared_ref", "reader_record"}
<1>1. ASSUME NEW v \in Held(d, V)
      PROVE  /\ v \in Symbols \X BorrowModes
             /\ \E w \in V : w[1] = v[1] /\ (v[2] = "exclusive" => w[2] = "exclusive")
             /\ v[2] = "exclusive" => TypeOf[d] \notin {"shared_ref", "reader_record"}
  <2>1. PICK w \in V : v = <<w[1], IF TypeOf[d] \in {"shared_ref", "reader_record"}
                                   THEN "shared" ELSE w[2]>>
    BY DEF Held
  <2>2. w[1] \in Symbols /\ w[2] \in BorrowModes
    OBVIOUS
  <2> QED
    BY <2>1, <2>2 DEF BorrowModes
<1> QED
  BY <1>1

LEMMA AssignFacts ==
  ASSUME NEW p \in Paths, NEW d \in Symbols, NEW V \in SUBSET (Symbols \X BorrowModes)
  PROVE  LET q == Assign(p, d, V)
         IN  /\ q \in Paths
             /\ q.val = [p.val EXCEPT ![d] = "avail"]
             /\ q.view = [p.view EXCEPT ![d] = IF Carries(d) THEN Held(d, V) ELSE {}]
             /\ q.stale = (p.stale \cup Viewers(p, d, BorrowModes)) \ {d}
<1>1. Viewers(p, d, BorrowModes) \in SUBSET Symbols
  BY DEF Viewers
<1>2. (IF Carries(d) THEN Held(d, V) ELSE {}) \in SUBSET (Symbols \X BorrowModes)
  BY HeldFacts
<1> QED
  BY <1>1, <1>2 DEF Assign, Paths, Presence

-----------------------------------------------------------------------------
(* The relation between a flow state and a path                            *)

\* Spoiling views that no usable local holds changes nothing that is known.
LEMMA CoversSpoil ==
  ASSUME NEW f \in Flows, NEW p \in Paths, NEW K,
         NEW q \in Paths, q.val = p.val, q.view = p.view,
         \A c \in f.visible : Value(f, c) = "init" /\ c \in q.stale => c \in p.stale,
         Covers(f, p, K)
  PROVE  Covers(f, q, K)
<1>1. Definite(f, q)
  BY DEF Covers, Definite, Sound
<1>2. Registered(f, q)
  BY DEF Covers, Registered
<1>3. Disjoint(f, q)
  BY DEF Covers, Disjoint, Rivals
<1>4. Fresh(q, K)
  BY DEF Covers, Fresh
<1> QED
  BY <1>1, <1>2, <1>3, <1>4 DEF Covers

\* A use the analysis accepts is sound, and the read it stands for spoils no
\* view that the analysis still holds usable.
LEMMA CoversRead ==
  ASSUME NEW f \in Flows, NEW p \in Paths, NEW K, NEW s \in Symbols,
         Covers(f, p, K), MayUse(f, s)
  PROVE  /\ Sound(p, s)
         /\ Read(p, s) \in Paths
         /\ Covers(f, Read(p, s), K)
<1>1. Sound(p, s)
  BY DEF Covers, Definite, MayUse
<1>2. ASSUME NEW c \in f.visible, Value(f, c) = "init"
      PROVE  c \notin Viewers(p, s, {"exclusive"}) /\ c \notin Rivals(p, s)
  <2>1. c \notin Viewers(p, s, {"exclusive"})
    <3>1. SUFFICES ASSUME <<s, "exclusive">> \in p.view[c]
                   PROVE  FALSE
      BY DEF Viewers
    <3>2. PICK b \in BorrowsOf(f, s) : b.kind = "exclusive"
      <4>1. <<s, "exclusive">>[1] = s /\ <<s, "exclusive">>[2] = "exclusive"
        OBVIOUS
      <4> QED
        BY <1>2, <3>1, <4>1 DEF Covers, Registered, MayUse
    <3> QED
      BY <3>2 DEF MayUse, HasExclusive
  <2>2. c \notin Rivals(p, s)
    BY <1>2 DEF Covers, Disjoint, Rivals, MayUse
  <2> QED
    BY <2>1, <2>2
<1>3. Covers(f, Read(p, s), K)
  BY <1>2, ReadFacts, CoversSpoil
<1> QED
  BY <1>1, <1>3, ReadFacts

\* Nothing usable views the storage of an owner without borrows.
LEMMA NoViewers ==
  ASSUME NEW f \in Flows, NEW p \in Paths, NEW s \in f.visible,
         Registered(f, p), BorrowsOf(f, s) = {},
         NEW c \in f.visible, Value(f, c) = "init"
  PROVE  c \notin Viewers(p, s, BorrowModes)
<1>1. SUFFICES ASSUME NEW k \in BorrowModes, <<s, k>> \in p.view[c]
               PROVE  FALSE
  BY DEF Viewers
<1>2. <<s, k>>[1] = s
  OBVIOUS
<1> QED
  BY <1>1, <1>2 DEF Registered

LEMMA CoversWrite ==
  ASSUME NEW f \in Flows, NEW p \in Paths, NEW K, NEW s \in f.visible,
         Covers(f, p, K), BorrowsOf(f, s) = {}
  PROVE  Write(p, s) \in Paths /\ Covers(f, Write(p, s), K)
<1>1. s \in Symbols
  BY FlowType
<1>2. \A c \in f.visible : Value(f, c) = "init" => c \notin Viewers(p, s, BorrowModes)
  BY NoViewers DEF Covers
<1> QED
  BY <1>1, <1>2, WriteFacts, CoversSpoil

\* The analysis forgets the value of s and ends the borrows s carried.
Forgets(f, g, s) ==
  /\ g.visible = f.visible
  /\ Value(g, s) \notin {"init", "uninit"}
  /\ \A t \in Symbols :
       /\ t # s => Value(g, t) = Value(f, t) /\ OriginsOf(g, t) = OriginsOf(f, t)
       /\ BorrowsOf(g, t) = {b \in BorrowsOf(f, t) : b.carrier # s}

LEMMA CoversForget ==
  ASSUME NEW f \in Flows, NEW g \in Flows, NEW p \in Paths, NEW K, NEW s \in Symbols,
         Covers(f, p, K), Forgets(f, g, s)
  PROVE  Covers(g, p, K)
<1>1. \A c \in g.visible : Value(g, c) = "init" =>
        c # s /\ c \in f.visible /\ Value(f, c) = "init"
  BY FlowType DEF Forgets
<1>2. Definite(g, p)
  BY FlowType DEF Covers, Definite, Forgets
<1>3. Registered(g, p)
  <2>1. SUFFICES ASSUME NEW c \in g.visible, Value(g, c) = "init"
                 PROVE  /\ Account(OriginsOf(g, c), p.view[c])
                        /\ \A v \in p.view[c] : v[1] \in g.visible =>
                             \E b \in BorrowsOf(g, v[1]) :
                               b.carrier = c /\ (v[2] = "exclusive" => b.kind = "exclusive")
    BY DEF Registered
  <2>2. c # s /\ c \in f.visible /\ Value(f, c) = "init" /\ c \in Symbols
    BY <1>1, <2>1, FlowType
  <2>3. OriginsOf(g, c) = OriginsOf(f, c)
    BY <2>2 DEF Forgets
  <2>4. ASSUME NEW v \in p.view[c], v[1] \in g.visible
        PROVE  \E b \in BorrowsOf(g, v[1]) :
                 b.carrier = c /\ (v[2] = "exclusive" => b.kind = "exclusive")
    <3>1. v[1] \in f.visible /\ v[1] \in Symbols
      BY <2>4, FlowType DEF Forgets
    <3>2. PICK b \in BorrowsOf(f, v[1]) :
            b.carrier = c /\ (v[2] = "exclusive" => b.kind = "exclusive")
      BY <2>2, <2>4, <3>1 DEF Covers, Registered
    <3>3. b \in BorrowsOf(g, v[1])
      BY <2>2, <3>1, <3>2 DEF Forgets
    <3> QED
      BY <3>2, <3>3
  <2> QED
    BY <2>2, <2>3, <2>4 DEF Covers, Registered
<1>4. Disjoint(g, p)
  BY <1>1 DEF Covers, Disjoint
<1> QED
  BY <1>2, <1>3, <1>4 DEF Covers

\* The value and the view of a local the analysis knows nothing of do not matter.
LEMMA CoversUnknown ==
  ASSUME NEW f \in Flows, NEW p \in Paths, NEW q \in Paths, NEW K, NEW s \in Symbols,
         Covers(f, p, K), s \in K, Value(f, s) \notin {"init", "uninit"},
         NEW x \in Presence,
         q.val = [p.val EXCEPT ![s] = x],
         q.view = [p.view EXCEPT ![s] = {}],
         q.stale = p.stale
  PROVE  Covers(f, q, K)
<1>1. \A c \in Symbols : c # s => q.val[c] = p.val[c] /\ q.view[c] = p.view[c]
  BY DEF Paths
<1>2. q.view[s] = {}
  BY DEF Paths
<1>3. \A c \in f.visible : c \in Symbols /\ (Value(f, c) \in {"init", "uninit"} => c # s)
  BY FlowType
<1>4. Definite(f, q)
  BY <1>1, <1>3 DEF Covers, Definite, Sound
<1>5. Registered(f, q)
  BY <1>1, <1>3 DEF Covers, Registered
<1>6. Disjoint(f, q)
  BY <1>1, <1>3 DEF Covers, Disjoint, Rivals
<1>7. Fresh(q, K)
  BY <1>1, <1>2 DEF Covers, Fresh
<1> QED
  BY <1>4, <1>5, <1>6, <1>7 DEF Covers

\* A value that leaves a local the analysis then forgets.
LEMMA CoversLeave ==
  ASSUME NEW f \in Flows, NEW g \in Flows, NEW p \in Paths, NEW K, NEW s \in Symbols,
         NEW x \in Presence,
         Covers(f, p, K), s \in K, MayMutate(f, s), Forgets(f, g, s)
  PROVE  /\ Sound(p, s)
         /\ Leave(p, s, x) \in Paths
         /\ Covers(g, Leave(p, s, x), K)
<1> DEFINE r == Read(p, s)
           w == Write(r, s)
<1>1. s \in f.visible /\ BorrowsOf(f, s) = {} /\ MayUse(f, s)
  BY DEF MayMutate, MayUse
<1>2. Sound(p, s) /\ r \in Paths /\ Covers(f, r, K) /\ r.val = p.val /\ r.view = p.view
  BY <1>1, CoversRead, ReadFacts
<1> HIDE DEF r
<1>3. w \in Paths /\ Covers(f, w, K) /\ w.val = p.val /\ w.view = p.view
  BY <1>1, <1>2, CoversWrite, WriteFacts
<1>4. /\ Leave(p, s, x) \in Paths
      /\ Leave(p, s, x).val = [w.val EXCEPT ![s] = x]
      /\ Leave(p, s, x).view = [w.view EXCEPT ![s] = {}]
      /\ Leave(p, s, x).stale = w.stale
  BY <1>3, LeaveFacts DEF r
<1> HIDE DEF w
<1>5. Covers(g, w, K)
  BY <1>3, CoversForget
<1>6. Covers(g, Leave(p, s, x), K)
  BY <1>3, <1>4, <1>5, CoversUnknown DEF Forgets
<1> QED
  BY <1>2, <1>4, <1>6

LEMMA MoveForgets ==
  ASSUME NEW f \in Flows, NEW s \in Symbols, Consumes(f, s)
  PROVE  Forgets(f, Move(f, s), s)
BY MoveFacts DEF Forgets

\* A move the analysis accepts is sound, whether or not the value is copied.
LEMMA CoversMove ==
  ASSUME NEW f \in Flows, NEW p \in Paths, NEW K, NEW s \in Symbols,
         Covers(f, p, K), s \in K, MayMove(f, s)
  PROVE  /\ Sound(p, s)
         /\ Transfer(p, s) \in Paths
         /\ Covers(Move(f, s), Transfer(p, s), K)
<1>1. MayMutate(f, s) /\ MayUse(f, s) /\ Move(f, s) \in Flows
  BY MoveFacts DEF MayMove, MayMutate
<1>2. Sound(p, s) /\ Read(p, s) \in Paths /\ Covers(f, Read(p, s), K)
  BY <1>1, CoversRead
<1>3. CASE Transfers(s)
  <2>1. Consumes(f, s)
    BY <1>3 DEF Transfers, Consumes, ContainsExclusive, Borrowed
  <2>2. "moved" \in Presence
    BY DEF Presence
  <2> QED
    BY <1>1, <1>3, <2>1, <2>2, MoveForgets, CoversLeave DEF Transfer
<1>4. CASE ~Transfers(s) /\ Consumes(f, s)
  BY <1>1, <1>2, <1>4, MoveForgets, CoversForget DEF Transfer
<1>5. CASE ~Transfers(s) /\ ~Consumes(f, s)
  BY <1>2, <1>5, MoveFacts DEF Transfer
<1> QED
  BY <1>3, <1>4, <1>5

LEMMA CoversRelease ==
  ASSUME NEW f \in Flows, NEW p \in Paths, NEW K, NEW s \in Symbols,
         Covers(f, p, K), s \in K, MayRelease(f, s)
  PROVE  /\ Sound(p, s)
         /\ Free(p, s) \in Paths
         /\ Covers(Release(f, s), Free(p, s), K)
<1>1. MayMutate(f, s)
  BY DEF MayRelease, MayMutate, MayUse, HasExclusive
<1>2. Release(f, s) \in Flows /\ Forgets(f, Release(f, s), s)
  BY ReleaseFacts DEF Forgets
<1>3. "freed" \in Presence
  BY DEF Presence
<1> QED
  BY <1>1, <1>2, <1>3, CoversLeave DEF Free

LEMMA FreshGrows ==
  ASSUME NEW p \in Paths, NEW K, NEW L, K \subseteq L, Fresh(p, K)
  PROVE  Fresh(p, L)
BY DEF Fresh

LEMMA CoversGrows ==
  ASSUME NEW f \in Flows, NEW p \in Paths, NEW K, NEW L, K \subseteq L, Covers(f, p, K)
  PROVE  Covers(f, p, L)
BY FreshGrows DEF Covers

LEMMA CoversDeclare ==
  ASSUME NEW f \in Flows, NEW p \in Paths, NEW K, NEW s \in Symbols,
         Covers(f, p, K), s \notin K, f.visible \subseteq K
  PROVE  Covers(Declare(f, s, "uninit", {}), p, K \cup {s})
<1> DEFINE g == Declare(f, s, "uninit", {})
<1>1. /\ g.visible = f.visible \cup {s}
      /\ \A t \in Symbols :
           /\ Value(g, t) = IF t = s THEN "uninit" ELSE Value(f, t)
           /\ BorrowsOf(g, t) = IF t = s THEN {} ELSE BorrowsOf(f, t)
           /\ OriginsOf(g, t) = IF t = s THEN {} ELSE OriginsOf(f, t)
  BY DeclareFacts DEF ValueStates
<1> HIDE DEF g
<1>2. p.val[s] = "uninit" /\ \A c \in Symbols : \A v \in p.view[c] : v[1] # s
  BY DEF Covers, Fresh
<1>3. \A c \in g.visible : c \in Symbols /\ (Value(g, c) = "init" => c \in f.visible /\ c # s)
  BY <1>1, FlowType
<1>4. Definite(g, p)
  BY <1>1, <1>2, <1>3 DEF Covers, Definite
<1>5. Registered(g, p)
  <2>1. SUFFICES ASSUME NEW c \in g.visible, Value(g, c) = "init"
                 PROVE  /\ Account(OriginsOf(g, c), p.view[c])
                        /\ \A v \in p.view[c] : v[1] \in g.visible =>
                             \E b \in BorrowsOf(g, v[1]) :
                               b.carrier = c /\ (v[2] = "exclusive" => b.kind = "exclusive")
    BY DEF Registered
  <2>2. c # s /\ c \in f.visible /\ Value(f, c) = "init" /\ c \in Symbols
    BY <1>1, <1>3, <2>1
  <2>3. ASSUME NEW v \in p.view[c], v[1] \in g.visible
        PROVE  v[1] \in f.visible /\ BorrowsOf(g, v[1]) = BorrowsOf(f, v[1])
    BY <1>1, <1>2, <2>2, <2>3, FlowType
  <2> QED
    BY <1>1, <2>2, <2>3 DEF Covers, Registered
<1>6. Disjoint(g, p)
  BY <1>1, <1>3 DEF Covers, Disjoint
<1>7. Fresh(p, K \cup {s})
  BY DEF Covers, Fresh
<1> QED
  BY <1>4, <1>5, <1>6, <1>7 DEF Covers, g

\* A binding of a type without references, initialized where it is declared.
LEMMA CoversBind ==
  ASSUME NEW f \in Flows, NEW p \in Paths, NEW K, NEW s \in Symbols,
         NEW V \in SUBSET (Symbols \X BorrowModes),
         Covers(f, p, K), s \notin K, f.visible \subseteq K, ~Carries(s)
  PROVE  /\ Assign(p, s, V) \in Paths
         /\ Covers(Declare(f, s, "init", {}), Assign(p, s, V), K \cup {s})
<1> DEFINE g == Declare(f, s, "init", {})
           q == Assign(p, s, V)
<1>1. /\ g.visible = f.visible \cup {s}
      /\ \A t \in Symbols :
           /\ Value(g, t) = IF t = s THEN "init" ELSE Value(f, t)
           /\ BorrowsOf(g, t) = IF t = s THEN {} ELSE BorrowsOf(f, t)
           /\ OriginsOf(g, t) = IF t = s THEN {} ELSE OriginsOf(f, t)
  BY DeclareFacts DEF ValueStates
<1>2. Viewers(p, s, BorrowModes) = {}
  <2>1. \A c \in Symbols, k \in BorrowModes : <<s, k>> \notin p.view[c]
    <3>1. \A k \in BorrowModes : <<s, k>>[1] = s
      OBVIOUS
    <3> QED
      BY <3>1 DEF Covers, Fresh
  <2> QED
    BY <2>1 DEF Viewers
<1>3. /\ q \in Paths
      /\ q.val = [p.val EXCEPT ![s] = "avail"]
      /\ q.view = [p.view EXCEPT ![s] = {}]
      /\ q.stale = p.stale \ {s}
  <2>1. /\ q \in Paths
        /\ q.val = [p.val EXCEPT ![s] = "avail"]
        /\ q.view = [p.view EXCEPT ![s] = IF Carries(s) THEN Held(s, V) ELSE {}]
        /\ q.stale = (p.stale \cup Viewers(p, s, BorrowModes)) \ {s}
    BY AssignFacts
  <2>2. p.stale \cup Viewers(p, s, BorrowModes) = p.stale
    BY <1>2
  <2> HIDE DEF q
  <2> QED
    BY <2>1, <2>2
<1> HIDE DEF g, q
<1>4. /\ q.val[s] = "avail" /\ q.view[s] = {} /\ s \notin q.stale
      /\ \A c \in Symbols \ {s} : /\ q.val[c] = p.val[c]
                                  /\ q.view[c] = p.view[c]
                                  /\ c \in q.stale => c \in p.stale
  BY <1>3 DEF Paths
<1>5. \A c \in Symbols : \A v \in q.view[c] : v[1] # s /\ v \in p.view[c] /\ c # s
  BY <1>4 DEF Covers, Fresh
<1>6. \A c \in g.visible : c \in Symbols /\ (c # s => c \in f.visible)
  BY <1>1, FlowType
<1>7. Definite(g, q)
  BY <1>1, <1>4, <1>6 DEF Covers, Definite, Sound
<1>8. Registered(g, q)
  <2>1. SUFFICES ASSUME NEW c \in g.visible, Value(g, c) = "init"
                 PROVE  /\ Account(OriginsOf(g, c), q.view[c])
                        /\ \A v \in q.view[c] : v[1] \in g.visible =>
                             \E b \in BorrowsOf(g, v[1]) :
                               b.carrier = c /\ (v[2] = "exclusive" => b.kind = "exclusive")
    BY DEF Registered
  <2>2. CASE c = s
    BY <1>4, <2>2 DEF Account
  <2>3. CASE c # s
    <3>1. c \in f.visible /\ Value(f, c) = "init" /\ q.view[c] = p.view[c]
          /\ OriginsOf(g, c) = OriginsOf(f, c)
      BY <1>1, <1>4, <1>6, <2>1, <2>3
    <3>2. ASSUME NEW v \in q.view[c], v[1] \in g.visible
          PROVE  v[1] \in f.visible /\ BorrowsOf(g, v[1]) = BorrowsOf(f, v[1])
      BY <1>1, <1>5, <1>6, <3>2
    <3> QED
      BY <3>1, <3>2 DEF Covers, Registered
  <2> QED
    BY <2>2, <2>3
<1>9. Disjoint(g, q)
  BY <1>1, <1>4, <1>5, <1>6 DEF Covers, Disjoint, Rivals
<1>10. Fresh(q, K \cup {s})
  BY <1>4, <1>5 DEF Covers, Fresh
<1> QED
  BY <1>3, <1>7, <1>8, <1>9, <1>10 DEF Covers, g, q

\* A store the analysis accepts: every view of the new value is accounted for by
\* the origins, and the borrow check of MayCarry makes room for it.
LEMMA CoversStore ==
  ASSUME NEW f \in Flows, NEW p \in Paths, NEW K, NEW d \in Symbols,
         NEW O \in SUBSET Origins, NEW V \in SUBSET (Symbols \X BorrowModes),
         Covers(f, p, K), MayStore(f, d, O), Account(O, V),
         \A v \in V : v[1] \in K, d \in K
  PROVE  /\ Assign(p, d, V) \in Paths
         /\ Covers(Store(f, d, O), Assign(p, d, V), K)
<1> DEFINE g == Store(f, d, O)
           r == Replaced(f, d, O)
           q == Assign(p, d, V)
           Kept(t) == {b \in BorrowsOf(f, t) : b.carrier # d}
<1>1. /\ g.visible = f.visible
      /\ r.visible = f.visible
      /\ \A t \in Symbols :
           /\ Value(r, t) = IF t = d THEN "init" ELSE Value(f, t)
           /\ BorrowsOf(r, t) = Kept(t)
           /\ Value(g, t) = IF t = d THEN "init" ELSE Value(f, t)
           /\ BorrowsOf(g, t) = BorrowsOf(r, t) \cup
                (IF Carries(d) THEN Started(r, d, t, O) ELSE {})
           /\ OriginsOf(g, t) = IF t = d THEN O ELSE OriginsOf(f, t)
  BY StoreFacts
<1>2. d \in f.visible /\ BorrowsOf(f, d) = {} /\ (Carries(d) => MayCarry(r, d, O))
  BY DEF MayStore, MayAssign
<1>3. /\ q \in Paths
      /\ q.val = [p.val EXCEPT ![d] = "avail"]
      /\ q.view = [p.view EXCEPT ![d] = IF Carries(d) THEN Held(d, V) ELSE {}]
      /\ q.stale = (p.stale \cup Viewers(p, d, BorrowModes)) \ {d}
  BY AssignFacts
<1> HIDE DEF g, r, q
<1>4. /\ q.val[d] = "avail" /\ d \notin q.stale
      /\ q.view[d] = IF Carries(d) THEN Held(d, V) ELSE {}
      /\ \A c \in Symbols \ {d} : q.val[c] = p.val[c] /\ q.view[c] = p.view[c]
  BY <1>3 DEF Paths
<1>5. \A c \in g.visible : c \in Symbols /\ c \in f.visible
  BY <1>1, FlowType
<1>6. \A c \in f.visible : Value(f, c) = "init" /\ c \in q.stale => c \in p.stale
  BY <1>2, <1>3, NoViewers DEF Covers
<1>7. Definite(g, q)
  BY <1>1, <1>4, <1>5, <1>6 DEF Covers, Definite, Sound
\* The views of d: where they come from and the borrow that each has started.
<1>8. ASSUME NEW v \in q.view[d]
      PROVE  /\ v[1] \in K
             /\ v[1] \in f.visible
             /\ \E m \in BorrowModes :
                  /\ v[2] = "exclusive" => m = "exclusive"
                  /\ <<v[1], m>> \in O
                  /\ v[2] = "exclusive" => ModeFor(d, m) = "exclusive"
                  /\ ModeFor(d, m) = "exclusive" => BorrowsOf(r, v[1]) = {}
             /\ ~HasExclusive(BorrowsOf(r, v[1]))
             /\ \E b \in BorrowsOf(g, v[1]) :
                  b.carrier = d /\ (v[2] = "exclusive" => b.kind = "exclusive")
  <2>1. Carries(d) /\ v \in Held(d, V)
    BY <1>4, <1>8
  <2>2. PICK w \in V : w[1] = v[1] /\ (v[2] = "exclusive" => w[2] = "exclusive")
    BY <2>1, HeldFacts
  <2>3. v[2] = "exclusive" => TypeOf[d] \notin {"shared_ref", "reader_record"}
    BY <2>1, HeldFacts
  <2>4. PICK m \in BorrowModes : (w[2] = "exclusive" => m = "exclusive") /\ <<w[1], m>> \in O
    BY DEF Account
  <2>5. v[2] = "exclusive" => ModeFor(d, m) = "exclusive"
    BY <2>2, <2>3, <2>4 DEF ModeFor
  <2> DEFINE x == <<w[1], m>>
  <2>6. x \in LocalOrigins(O) /\ x[1] = v[1] /\ x[2] = m
    BY <2>2, <2>4 DEF LocalOrigins
  <2> HIDE DEF x
  <2>7. /\ MayUse(r, v[1])
        /\ ModeFor(d, m) = "exclusive" => BorrowsOf(r, v[1]) = {}
    BY <1>2, <2>1, <2>6 DEF MayCarry
  <2>8. v[1] \in f.visible /\ ~HasExclusive(BorrowsOf(r, v[1])) /\ v[1] \in Symbols
    BY <1>1, <2>7, FlowType DEF MayUse
  <2> DEFINE b == [id |-> r.next, carrier |-> d, kind |-> ModeFor(d, m)]
  <2>9. b \in Started(r, d, v[1], O)
    BY <2>6 DEF Started
  <2>10. b \in BorrowsOf(g, v[1]) /\ b.carrier = d /\ b.kind = ModeFor(d, m)
    BY <1>1, <2>1, <2>8, <2>9
  <2> HIDE DEF b
  <2>11. \E e \in BorrowsOf(g, v[1]) :
           e.carrier = d /\ (v[2] = "exclusive" => e.kind = "exclusive")
    BY <2>5, <2>10
  <2>12. v[1] \in K
    BY <2>2
  <2>13. <<v[1], m>> \in O /\ (v[2] = "exclusive" => m = "exclusive")
    BY <2>2, <2>4
  <2> QED
    BY <2>5, <2>7, <2>8, <2>11, <2>12, <2>13
<1>9. Registered(g, q)
  <2>1. SUFFICES ASSUME NEW c \in g.visible, Value(g, c) = "init"
                 PROVE  /\ Account(OriginsOf(g, c), q.view[c])
                        /\ \A v \in q.view[c] : v[1] \in g.visible =>
                             \E b \in BorrowsOf(g, v[1]) :
                               b.carrier = c /\ (v[2] = "exclusive" => b.kind = "exclusive")
    BY DEF Registered
  <2>2. CASE c = d
    <3>1. OriginsOf(g, c) = O
      BY <1>1, <2>2
    <3> QED
      BY <1>8, <2>2, <3>1 DEF Account
  <2>3. CASE c # d
    <3>1. /\ c \in f.visible /\ c \in Symbols /\ Value(f, c) = "init"
          /\ q.view[c] = p.view[c] /\ OriginsOf(g, c) = OriginsOf(f, c)
      BY <1>1, <1>4, <1>5, <2>1, <2>3
    <3>2. ASSUME NEW v \in q.view[c], v[1] \in g.visible
          PROVE  \E b \in BorrowsOf(g, v[1]) :
                   b.carrier = c /\ (v[2] = "exclusive" => b.kind = "exclusive")
      <4>1. v[1] \in f.visible /\ v[1] \in Symbols
        BY <1>5, <3>2
      <4>2. PICK b \in BorrowsOf(f, v[1]) :
              b.carrier = c /\ (v[2] = "exclusive" => b.kind = "exclusive")
        BY <3>1, <3>2, <4>1 DEF Covers, Registered
      <4>3. b \in BorrowsOf(g, v[1])
        BY <1>1, <2>3, <4>1, <4>2
      <4> QED
        BY <4>2, <4>3
    <3> QED
      BY <3>1, <3>2 DEF Covers, Registered
  <2> QED
    BY <2>2, <2>3
<1>10. Disjoint(g, q)
  \* Another usable local that views the same storage is recorded there, so the
  \* check of MayCarry leaves only shared readers.
  <2>1. ASSUME NEW e \in f.visible, e # d, Value(f, e) = "init",
               NEW v \in q.view[d], NEW w \in p.view[e], v[1] = w[1]
        PROVE  v[2] # "exclusive" /\ w[2] # "exclusive"
    <3>1. v[1] \in f.visible /\ v[1] \in Symbols /\ e \in Symbols
      BY <1>8, FlowType
    <3>2. PICK b \in BorrowsOf(f, v[1]) :
            b.carrier = e /\ (w[2] = "exclusive" => b.kind = "exclusive")
      BY <2>1, <3>1 DEF Covers, Registered
    <3>3. b \in BorrowsOf(r, v[1])
      BY <1>1, <2>1, <3>1, <3>2
    <3> QED
      BY <1>8, <3>2, <3>3 DEF HasExclusive
  <2>2. SUFFICES ASSUME NEW c \in g.visible, NEW e \in g.visible, c # e,
                        Value(g, c) = "init", Value(g, e) = "init",
                        NEW v \in q.view[c], NEW w \in q.view[e], v[1] = w[1]
                 PROVE  v[2] # "exclusive" /\ w[2] # "exclusive"
    BY DEF Disjoint, Rivals
  <2>3. CASE c = d
    BY <1>1, <1>4, <1>5, <2>1, <2>2, <2>3
  <2>4. CASE e = d
    BY <1>1, <1>4, <1>5, <2>1, <2>2, <2>4
  <2>5. CASE c # d /\ e # d
    <3>1. /\ c \in f.visible /\ e \in f.visible /\ e \in Symbols
          /\ Value(f, c) = "init" /\ Value(f, e) = "init"
          /\ v \in p.view[c] /\ w \in p.view[e]
      BY <1>1, <1>4, <1>5, <2>2, <2>5
    <3>2. e \notin Rivals(p, c)
      BY <2>2, <3>1 DEF Covers, Disjoint
    <3> QED
      BY <2>2, <3>1, <3>2 DEF Rivals
  <2> QED
    BY <2>3, <2>4, <2>5
<1>11. Fresh(q, K)
  BY <1>4, <1>8 DEF Covers, Fresh
<1> QED
  BY <1>3, <1>7, <1>9, <1>10, <1>11 DEF Covers, g, q

\* A join describes the executions of both sides.
LEMMA CoversMerge ==
  ASSUME NEW f \in Flows, NEW g \in Flows, NEW p \in Paths, NEW K,
         Covers(f, p, K) \/ Covers(g, p, K)
  PROVE  Covers(Merge(f, g), p, K)
<1> DEFINE h == Merge(f, g)
<1>1. /\ h.visible = f.visible \cap g.visible
      /\ \A t \in h.visible :
           /\ Value(h, t) = MergeValues(Value(f, t), Value(g, t))
           /\ BorrowsOf(h, t) = BorrowsOf(f, t) \cup BorrowsOf(g, t)
           /\ OriginsOf(h, t) = OriginsOf(f, t) \cup OriginsOf(g, t)
  BY MergeFacts
<1> HIDE DEF h
<1>2. \A c \in h.visible :
        /\ c \in Symbols /\ c \in f.visible /\ c \in g.visible
        /\ Value(h, c) = "init"   => Value(f, c) = "init" /\ Value(g, c) = "init"
        /\ Value(h, c) = "uninit" => Value(f, c) = "uninit" /\ Value(g, c) = "uninit"
  BY <1>1, FlowType, LocalType, MergeValuesFacts
<1>3. ASSUME NEW e \in {f, g}, Covers(e, p, K)
      PROVE  Covers(h, p, K)
  <2>1. Definite(h, p)
    BY <1>2, <1>3 DEF Covers, Definite
  <2>2. Registered(h, p)
    <3>1. SUFFICES ASSUME NEW c \in h.visible, Value(h, c) = "init"
                   PROVE  /\ Account(OriginsOf(h, c), p.view[c])
                          /\ \A v \in p.view[c] : v[1] \in h.visible =>
                               \E b \in BorrowsOf(h, v[1]) :
                                 b.carrier = c /\ (v[2] = "exclusive" => b.kind = "exclusive")
      BY DEF Registered
    <3>2. c \in e.visible /\ Value(e, c) = "init" /\ OriginsOf(e, c) \subseteq OriginsOf(h, c)
      BY <1>1, <1>2, <3>1
    <3>3. Account(OriginsOf(h, c), p.view[c])
      BY <1>3, <3>2 DEF Covers, Registered, Account
    <3>4. ASSUME NEW v \in p.view[c], v[1] \in h.visible
          PROVE  v[1] \in e.visible /\ BorrowsOf(e, v[1]) \subseteq BorrowsOf(h, v[1])
      BY <1>1, <1>2, <3>4
    <3> QED
      BY <1>3, <3>2, <3>3, <3>4 DEF Covers, Registered
  <2>3. Disjoint(h, p)
    BY <1>2, <1>3 DEF Covers, Disjoint
  <2> QED
    BY <1>3, <2>1, <2>2, <2>3 DEF Covers
<1> QED
  BY <1>3 DEF h

\* Leaving a scope keeps what is known of the locals that stay.
LEMMA CoversRestrict ==
  ASSUME NEW f \in Flows, NEW e \in Flows, NEW p \in Paths, NEW K,
         Covers(f, p, K), MayRestrictTo(f, e)
  PROVE  Covers(RestrictTo(f, e), p, K)
<1> DEFINE g == RestrictTo(f, e)
<1>1. /\ g.visible = e.visible
      /\ \A t \in g.visible :
           /\ Value(g, t) = Value(f, t)
           /\ BorrowsOf(g, t) =
                {b \in BorrowsOf(f, t) : b.carrier \notin f.visible \ e.visible}
           /\ OriginsOf(g, t) = OriginsOf(f, t)
  BY RestrictFacts
<1> HIDE DEF g
<1>2. \A c \in g.visible : c \in f.visible /\ c \in e.visible
  BY <1>1 DEF MayRestrictTo
<1>3. Definite(g, p)
  BY <1>1, <1>2 DEF Covers, Definite
<1>4. Registered(g, p)
  BY <1>1, <1>2 DEF Covers, Registered
<1>5. Disjoint(g, p)
  BY <1>1, <1>2 DEF Covers, Disjoint
<1> QED
  BY <1>3, <1>4, <1>5 DEF Covers, g
=============================================================================
