----------------------------- MODULE CallArguments -----------------------------
(***************************************************************************)
(* One call statement in Sultan Safety Flow: the passes the analysis makes *)
(* over the arguments, and the loans it keeps for the duration of the call *)
(* (semantic_pipeline.sn, the temporary argument borrows).                 *)
(*                                                                         *)
(* The passes are: check that every local the call reads may be used; apply*)
(* the effects of calls nested in the arguments; lend the places whose     *)
(* address is an argument, against the borrows of their owner and against  *)
(* each other; pass the remaining arguments, moving what is owned.         *)
(***************************************************************************)
EXTENDS FlowState, Sequences, SequencesExt

CONSTANTS Calls,   \* the argument lists considered
          Entries  \* the flow states before the call, each with an execution

\* An argument is the address of a place, a local by name, a nested call that
\* takes a local by value, or the address of what a reference points to.  A
\* place is a root and a path of fields and indices.
Projections == {"f", "g", "index"}

Arguments == [form : {"address", "value", "nested", "reborrow"}, root : Symbols,
              path : Seq(Projections), mode : BorrowModes]

\* The dereference of a reborrow is one of a direct reference.
ASSUME CallsAssumption ==
  /\ Calls \subseteq Seq(Arguments)
  /\ \A c \in Calls : \A i \in DOMAIN c : c[i].form = "reborrow" => DirectReference(c[i].root)

(* What each local views in an execution that reaches the call: storage of a *)
(* local, or storage the caller lent for a parameter.                        *)
Storage == {"local", "caller"} \X Symbols
Views   == [Symbols -> SUBSET (Storage \X BorrowModes)]

Usable(f, s) == s \in f.visible /\ Value(f, s) = "init"

\* A usable local that views a visible local carries a borrow of it, and two
\* usable locals view the same storage only as readers: what Registered and
\* Disjoint of module Coverage say of every flow state and every execution.
Recorded(f, v) ==
  \A c \in f.visible : Usable(f, c) =>
    \A w \in v[c], x \in f.visible : w[1] = <<"local", x>> =>
      \E b \in BorrowsOf(f, x) :
        b.carrier = c /\ (w[2] = "exclusive" => b.kind = "exclusive")

Apart(f, v) ==
  \A c, e \in f.visible : c # e /\ Usable(f, c) /\ Usable(f, e) =>
    \A w \in v[c], u \in v[e] : w[1] = u[1] => w[2] = "shared" /\ u[2] = "shared"

ASSUME EntriesAssumption ==
  \A e \in Entries :
    e.flow \in Flows /\ e.views \in Views /\ Recorded(e.flow, e.views) /\ Apart(e.flow, e.views)

VARIABLES entry,     \* the flow state before the call
          views,     \* what the locals view at the call
          flow,      \* the flow state now
          call,      \* the arguments
          function,  \* whether the callee is a function, or else a constructor
          phase,     \* "check", "effects", "lend", "pass"
          at,        \* the next argument of the phase
          loans,     \* the places lent so far for the call
          verdict    \* "open", "accepted" or "rejected"

vars == <<entry, views, flow, call, function, phase, at, loans, verdict>>

Init ==
  /\ \E e \in Entries : entry = e.flow /\ views = e.views
  /\ flow = entry
  /\ call \in Calls
  /\ function \in BOOLEAN
  /\ phase = "check"
  /\ at = 1
  /\ loans = {}
  /\ verdict = "open"

-----------------------------------------------------------------------------
(* The passes                                                              *)

Reject ==
  /\ verdict' = "rejected"
  /\ UNCHANGED <<flow, at, loans>>

AtArgument(p) ==
  /\ verdict = "open"
  /\ phase = p
  /\ at \in DOMAIN call
  /\ UNCHANGED <<entry, views, call, function, phase>>

\* Every local the argument names is read, whatever the argument does with it.
CheckUse ==
  /\ AtArgument("check")
  /\ IF MayUse(flow, call[at].root)
     THEN at' = at + 1 /\ UNCHANGED <<flow, loans, verdict>>
     ELSE Reject

\* A direct reference given to a function is reborrowed, anything else moves.
Transferred(toFunction, s) == ~(toFunction /\ DirectReference(s))

Give(toFunction, s) ==
  IF ~Transferred(toFunction, s)
  THEN at' = at + 1 /\ UNCHANGED <<flow, loans, verdict>>
  ELSE IF MayMove(flow, s)
  THEN flow' = Move(flow, s) /\ at' = at + 1 /\ UNCHANGED <<loans, verdict>>
  ELSE Reject

\* A nested call is applied whole before anything is lent to the outer one.
ApplyNested ==
  /\ AtArgument("effects")
  /\ IF call[at].form = "nested"
     THEN Give(TRUE, call[at].root)
     ELSE at' = at + 1 /\ UNCHANGED <<flow, loans, verdict>>

\* Mutant of PathsOverlap: only equal paths overlap.
PathsEqual(p, q) == p = q

\* Two paths are apart only if they part at two different fields before any index.
PathsOverlap(p, q) ==
  ~ \E k \in DOMAIN p \cap DOMAIN q :
      /\ p[k] # q[k]
      /\ \A j \in 1 .. k : p[j] # "index" /\ q[j] # "index"

\* Mutant of LoansConflict: places of one owner are never told apart.
LoansConflictByOwner(a, b) ==
  /\ a.root = b.root
  /\ "exclusive" \in {a.mode, b.mode}

LoansConflict(a, b) ==
  /\ a.root = b.root
  /\ PathsOverlap(a.path, b.path)
  /\ "exclusive" \in {a.mode, b.mode}

\* The borrows of the owner admit one more shared reader, or a writer if none.
MayLendFrom(f, loan) ==
  /\ ~HasExclusive(BorrowsOf(f, loan.root))
  /\ loan.mode = "exclusive" => BorrowsOf(f, loan.root) = {}

LendPlace ==
  /\ AtArgument("lend")
  /\ IF call[at].form # "address"
     THEN at' = at + 1 /\ UNCHANGED <<flow, loans, verdict>>
     ELSE IF MayLendFrom(flow, call[at]) /\ \A b \in loans : ~LoansConflict(b, call[at])
     THEN /\ loans' = loans \cup {call[at]}
          /\ at' = at + 1
          /\ UNCHANGED <<flow, verdict>>
     ELSE Reject

Pass ==
  /\ AtArgument("pass")
  /\ IF call[at].form = "value"
     THEN Give(function, call[at].root)
     ELSE at' = at + 1 /\ UNCHANGED <<flow, loans, verdict>>

After == [check |-> "effects", effects |-> "lend", lend |-> "pass"]

NextPass ==
  /\ verdict = "open"
  /\ at \notin DOMAIN call
  /\ IF phase = "pass"
     THEN verdict' = "accepted" /\ UNCHANGED <<phase, at>>
     ELSE phase' = After[phase] /\ at' = 1 /\ UNCHANGED verdict
  /\ UNCHANGED <<entry, views, flow, call, function, loans>>

Next == CheckUse \/ ApplyNested \/ LendPlace \/ Pass \/ NextPass

Spec == Init /\ [][Next]_vars

-----------------------------------------------------------------------------
(* What the callee reaches, by the ownership semantics of the language      *)

\* A shared reference, or a shared reborrow of an exclusive one, only reads.
ModeOf(arg, view) ==
  IF TypeOf[arg.root] = "shared_ref" \/ (arg.form = "reborrow" /\ arg.mode = "shared")
  THEN "shared" ELSE view[2]

\* An address reaches its place, a reference what it views, and an owned value
\* is the callee's alone.
Reached(arg) ==
  IF arg.form = "address"
  THEN {[base |-> <<"local", arg.root>>, path |-> arg.path, mode |-> arg.mode]}
  ELSE IF DirectReference(arg.root)
  THEN {[base |-> w[1], path |-> <<>>, mode |-> ModeOf(arg, w)] : w \in views[arg.root]}
  ELSE IF Owned(arg.root)
  THEN {[base |-> <<"local", arg.root>>, path |-> <<>>, mode |-> "exclusive"]}
  ELSE {}

\* The storage a path may denote, an index being one of two elements.
Places(path) ==
  {p \in [DOMAIN path -> Projections \cup {"0", "1"}] :
     \A k \in DOMAIN path : IF path[k] = "index" THEN p[k] \in {"0", "1"} ELSE p[k] = path[k]}

MayAlias(h, k) ==
  /\ h.base = k.base
  /\ \E p \in Places(h.path), q \in Places(k.path) : IsPrefix(p, q) \/ IsPrefix(q, p)

Exclusive(h, k) == "exclusive" \in {h.mode, k.mode}

\* No two arguments reach the same storage unless both only read it.
KeptApart ==
  \A i, j \in DOMAIN call : i < j =>
    \A h \in Reached(call[i]), k \in Reached(call[j]) : MayAlias(h, k) => ~Exclusive(h, k)

(* Arguments the analysis does not relate: the same exclusive reference given *)
(* twice, an owner given beside its own address, and an owner that follows a   *)
(* view of it in a constructor which consumes the view.                        *)
SameReference(a, b) == a.root = b.root /\ TypeOf[a.root] = "exclusive_ref"

MovesLent(a, b) ==
  a.root = b.root /\ Owned(a.root) /\ (a.form = "address") # (b.form = "address")

ConsumesView(a, b) ==
  /\ ~function
  /\ a.form = "value" /\ DirectReference(a.root) /\ Consumes(entry, a.root)
  /\ b.form = "value" /\ Owned(b.root)
  /\ \E w \in views[a.root] : w[1] = <<"local", b.root>>

Unrelated ==
  \A i, j \in DOMAIN call : i < j =>
    ~ (\/ SameReference(call[i], call[j])
       \/ MovesLent(call[i], call[j])
       \/ ConsumesView(call[i], call[j]))

\* "Many shared readers or one mutable writer" for the arguments of an accepted
\* call: no two of them reach the same storage unless both only read it, and
\* nothing the callee owns is also lent to it.
ArgumentsExclusive == verdict = "accepted" /\ Unrelated => KeptApart

\* The same of every call, whatever names its arguments share.
AlwaysExclusive == verdict = "accepted" => KeptApart

\* The temporary loans refuse no call needlessly: an address is only refused if
\* its place may alias an earlier one (or an index hides whether it does), or its
\* owner is already borrowed.
RefusedForCause ==
  verdict = "rejected" /\ phase = "lend" =>
    \/ BorrowsOf(flow, call[at].root) # {}
    \/ \E i \in 1 .. at - 1 :
         /\ call[i].form = "address"
         /\ \E h \in Reached(call[i]), k \in Reached(call[at]) :
              /\ Exclusive(h, k)
              /\ MayAlias(h, k) \/ "index" \in ToSet(h.path) \cup ToSet(k.path)

\* The loans of a call end with it: the borrows recorded after an accepted call
\* are those from before it, less the ones whose carrier moved into it.
LoansEnd ==
  \A s \in Symbols : \A b \in BorrowsOf(entry, s) :
    b \in BorrowsOf(flow, s) <=> Value(flow, b.carrier) = Value(entry, b.carrier)
=============================================================================
