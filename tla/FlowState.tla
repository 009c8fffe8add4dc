------------------------------ MODULE FlowState ------------------------------
(***************************************************************************)
(* The per-function flow state of Sultan Safety Flow and every operation   *)
(* of compiler/frontend/ssf on it: declaration, use, mutation, assignment, *)
(* move, release, the two kinds of borrow, the end of a carrier, the merge *)
(* of two flows and the restriction of a flow at scope exit.               *)
(*                                                                         *)
(* An operation that can fail is a pair: a predicate (May...) that holds   *)
(* when the code returns success, and the state it then stores.            *)
(***************************************************************************)
EXTENDS MemoryFacts, Integers

ValueStates == {"uninit", "init", "moved", "freed",
                "maybe_uninit", "maybe_moved", "maybe_freed"}

\* The storage a view may point into: a local root with the mode of the view,
\* or (mode "param") the storage the caller lent through a parameter.
Origins == Symbols \X (BorrowModes \cup {"param"})

\* An active borrow is kept by its owner.  "id" is the value of the borrow
\* counter at the statement that starts the borrow.
Borrows == [id : Nat, carrier : Symbols, kind : BorrowModes]

Locals == [value : ValueStates, borrows : SUBSET Borrows, origins : SUBSET Origins]

Flows == [visible : SUBSET Symbols, locals : [Symbols -> Locals], next : Nat]

NoLocal == [value |-> "uninit", borrows |-> {}, origins |-> {}]

EmptyFlow == [visible |-> {}, locals |-> [s \in Symbols |-> NoLocal], next |-> 0]

\* The state at the entry of a function body: its parameters are initialized
\* and a parameter that carries a view has the caller's storage as its origin.
EntryFlow ==
  [visible |-> Params,
   locals  |-> [s \in Symbols |->
                  IF s \in Params
                  THEN [value   |-> "init",
                        borrows |-> {},
                        origins |-> IF Carries(s) THEN {<<s, "param">>} ELSE {}]
                  ELSE NoLocal],
   next    |-> 0]

Value(f, s)     == f.locals[s].value
BorrowsOf(f, s) == f.locals[s].borrows
OriginsOf(f, s) == f.locals[s].origins

WithLocal(f, s, value, borrows, origins) ==
  [visible |-> f.visible,
   locals  |-> [f.locals EXCEPT ![s] = [value   |-> value,
                                        borrows |-> borrows,
                                        origins |-> origins]],
   next    |-> f.next]

HasExclusive(bs) == \E b \in bs : b.kind = "exclusive"

-----------------------------------------------------------------------------
(* Availability                                                            *)

MayDeclare(f, s) == s \notin f.visible

Declare(f, s, value, origins) ==
  [visible |-> f.visible \cup {s},
   locals  |-> WithLocal(f, s, value, {}, origins).locals,
   next    |-> f.next]

\* Mutant of MayUse: the exclusive loan of the local is not looked at.
MayUseLent(f, s) == s \in f.visible /\ Value(f, s) = "init"

\* Every read of a local: definitely initialized and not lent exclusively.
MayUse(f, s) ==
  /\ s \in f.visible
  /\ Value(f, s) = "init"
  /\ ~HasExclusive(BorrowsOf(f, s))

\* Relocating or mutating storage needs the owner free of every borrow.
MayMutate(f, s) == MayUse(f, s) /\ BorrowsOf(f, s) = {}

\* The first initialization of an immutable local is legal, a later one is not.
MayAssign(f, s) ==
  /\ s \in f.visible
  /\ Value(f, s) = "uninit" \/ s \in Mutable
  /\ BorrowsOf(f, s) = {}

\* Mutant of Initialize: a replaced value leaves its origins behind.
InitializeInPlace(f, s, origins) == WithLocal(f, s, "init", BorrowsOf(f, s), OriginsOf(f, s))

Initialize(f, s, origins) == WithLocal(f, s, "init", BorrowsOf(f, s), origins)

-----------------------------------------------------------------------------
(* Carriers: a borrow lives as long as the local that carries the view     *)

WithoutCarriers(bs, carriers) == {b \in bs : b.carrier \notin carriers}

EndCarriers(f, carriers) ==
  [visible |-> f.visible,
   locals  |-> [s \in Symbols |->
                  [value   |-> Value(f, s),
                   borrows |-> WithoutCarriers(BorrowsOf(f, s), carriers),
                   origins |-> OriginsOf(f, s)]],
   next    |-> f.next]

-----------------------------------------------------------------------------
(* Moves and releases                                                      *)

\* A move consumes owned values, exclusive references and views that were
\* taken from one; the rest is copied.
Consumes(f, s) ==
  \/ Owned(s)
  \/ Borrowed(s) /\ (\/ ContainsExclusive(s)
                     \/ \E o \in OriginsOf(f, s) : o[2] = "exclusive")

MayMove(f, s) == MayMutate(f, s)

\* Mutant of Move: the consumed source stays the carrier of its borrows.
MoveStillCarrying(f, s) ==
  IF Consumes(f, s) THEN WithLocal(f, s, "moved", BorrowsOf(f, s), {}) ELSE f

\* A consumed source also stops carrying the borrows of its view.
Move(f, s) ==
  IF Consumes(f, s)
  THEN EndCarriers(WithLocal(f, s, "moved", BorrowsOf(f, s), {}), {s})
  ELSE f

\* Unlike a read, a release does not consult the borrow state first; an
\* active borrow of either kind refuses it.
MayRelease(f, s) ==
  /\ s \in f.visible
  /\ Value(f, s) = "init"
  /\ BorrowsOf(f, s) = {}
  /\ RequiresRelease(s)

Release(f, s) ==
  EndCarriers(WithLocal(f, s, "freed", BorrowsOf(f, s), {}), {s})

-----------------------------------------------------------------------------
(* Borrows                                                                 *)

LocalOrigins(origins) == {o \in origins : o[2] \in BorrowModes}

\* A borrowed local propagates its existing roots; otherwise the owner local
\* becomes the root.
BorrowOrigins(f, o, mode) ==
  IF OriginsOf(f, o) = {} THEN {<<o, mode>>} ELSE OriginsOf(f, o)

\* Mutant of MayCarry: an exclusive borrow starts beside shared ones.
MayCarryBeside(f, d, origins) == \A x \in LocalOrigins(origins) : MayUse(f, x[1])

\* The borrows an assignment to d starts: one per local origin of its value,
\* in the mode of d when d is a direct reference.
MayCarry(f, d, origins) ==
  \A x \in LocalOrigins(origins) :
    /\ MayUse(f, x[1])
    /\ ModeFor(d, x[2]) = "exclusive" =>
         /\ BorrowsOf(f, x[1]) = {}
         /\ \A y \in LocalOrigins(origins) : y[1] = x[1] => y = x

Started(f, d, o, origins) ==
  {[id |-> f.next, carrier |-> d, kind |-> ModeFor(d, x[2])] :
      x \in {y \in LocalOrigins(origins) : y[1] = o}}

Carry(f, d, origins) ==
  [visible |-> f.visible,
   locals  |-> [o \in Symbols |-> [value   |-> Value(f, o),
                                  borrows |-> BorrowsOf(f, o) \cup Started(f, d, o, origins),
                                  origins |-> OriginsOf(f, o)]],
   next    |-> f.next + Cardinality(LocalOrigins(origins))]

\* Assignment of a value with the given origins to a tracked local: the
\* borrows of the replaced value end, those of the new one start.
Replaced(f, d, origins) == EndCarriers(Initialize(f, d, origins), {d})

MayStore(f, d, origins) ==
  /\ MayAssign(f, d)
  /\ Carries(d) => MayCarry(Replaced(f, d, origins), d, origins)

Store(f, d, origins) ==
  IF Carries(d) THEN Carry(Replaced(f, d, origins), d, origins)
                ELSE Replaced(f, d, origins)

\* The origins of a local read as a value: only a type that can hold a
\* reference has any.
ValueOrigins(f, s) == IF Carries(s) THEN OriginsOf(f, s) ELSE {}

\* Mutant of MayEscape: any known origin will do.
MayEscapeAnywhere(f, s) == Carries(s) => OriginsOf(f, s) # {}

\* A returned view may only point into storage of the caller.
MayEscape(f, s) ==
  Carries(s) => /\ OriginsOf(f, s) # {}
                /\ LocalOrigins(OriginsOf(f, s)) = {}

-----------------------------------------------------------------------------
(* Joins                                                                   *)

MaybeOf(v) ==
  CASE v \in {"uninit", "maybe_uninit"} -> "maybe_uninit"
    [] v \in {"moved", "maybe_moved"}   -> "maybe_moved"
    [] v \in {"freed", "maybe_freed"}   -> "maybe_freed"
    [] OTHER                            -> "init"

MayMergeValues(v, w) == v = "init" \/ w = "init" \/ MaybeOf(v) = MaybeOf(w)

\* Mutant of MergeValues: the first arm wins.
MergeValuesLeft(v, w) == v

MergeValues(v, w) ==
  IF v = w THEN v ELSE IF v = "init" THEN MaybeOf(w) ELSE MaybeOf(v)

\* Borrow states join when one side has none, when both are shared, or when
\* both are the same exclusive borrow.
MayMergeBorrows(bs, cs) ==
  \/ bs = {} \/ cs = {}
  \/ ~HasExclusive(bs) /\ ~HasExclusive(cs)
  \/ HasExclusive(bs) /\ bs = cs

MayMerge(f, g) ==
  \A s \in f.visible \cap g.visible :
    /\ MayMergeValues(Value(f, s), Value(g, s))
    /\ MayMergeBorrows(BorrowsOf(f, s), BorrowsOf(g, s))

\* Mutant of Merge: only borrows that both sides know survive.
MergeCommonBorrows(f, g) ==
  [visible |-> f.visible \cap g.visible,
   locals  |-> [s \in Symbols |->
                  IF s \in f.visible \cap g.visible
                  THEN [value   |-> MergeValues(Value(f, s), Value(g, s)),
                        borrows |-> BorrowsOf(f, s) \cap BorrowsOf(g, s),
                        origins |-> OriginsOf(f, s) \cup OriginsOf(g, s)]
                  ELSE NoLocal],
   next    |-> f.next]

Merge(f, g) ==
  [visible |-> f.visible \cap g.visible,
   locals  |-> [s \in Symbols |->
                  IF s \in f.visible \cap g.visible
                  THEN [value   |-> MergeValues(Value(f, s), Value(g, s)),
                        borrows |-> BorrowsOf(f, s) \cup BorrowsOf(g, s),
                        origins |-> OriginsOf(f, s) \cup OriginsOf(g, s)]
                  ELSE NoLocal],
   next    |-> IF f.next > g.next THEN f.next ELSE g.next]

\* Scope exit: end the borrows carried by departing locals, keep the facts of
\* every symbol visible at entry.
MayRestrictTo(f, entry) == entry.visible \subseteq f.visible

\* Mutants of RestrictTo: departing locals stay visible; their borrows stay
\* active; the borrow counter is wound back by one for each of them.
RestrictNothing(f, entry) == f

RestrictKeepingLoans(f, entry) ==
  [visible |-> entry.visible,
   locals  |-> [s \in Symbols |-> IF s \in entry.visible THEN f.locals[s] ELSE NoLocal],
   next    |-> f.next]

RestrictRewinding(f, entry) ==
  [visible |-> entry.visible,
   locals  |-> EndCarriers(f, f.visible \ entry.visible).locals,
   next    |-> f.next - Cardinality(f.visible \ entry.visible)]

RestrictTo(f, entry) ==
  LET g == EndCarriers(f, f.visible \ entry.visible) IN
  [visible |-> entry.visible,
   locals  |-> [s \in Symbols |->
                  IF s \in entry.visible THEN g.locals[s] ELSE NoLocal],
   next    |-> f.next]
=============================================================================
