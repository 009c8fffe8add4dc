------------------------------- MODULE SeedLoans -------------------------------
(* What the flow check's facts about the locals promise of an execution that     *)
(* reaches the same point: the invariant that makes ReadsAreSound and            *)
(* ReturnsOutliveTheCall inductive.                                              *)
EXTENDS SeedFlow

Types  == {"plain", "owned", "shared", "exclusive"}
States == {"uninitialized", "initialized", "moved", "maybe moved", "maybe uninitialized"}
Facts  == [type : Types, mutable : BOOLEAN, depth : Nat, state : States, shared : Nat, exclusive : BOOLEAN,
           from : Nat, kind : {"none", "shared", "exclusive"}, region : Nat, origin : Nat]
Cells  == [value : BOOLEAN, target : Int, via : Nat, stale : BOOLEAN]

IsReference(l) == l.type \in References
Live(ls, run, i) == IsReference(ls[i]) /\ run[i].value

-----------------------------------------------------------------------------
(* An execution on its own.                                                    *)

\* What a live reference views is there, in no inner scope, and so is the
\* reference it was taken through, which views the same; an exclusive reference
\* was taken through an exclusive one.
ViewsWell(ls, run, i) ==
  LET c == run[i] IN
  /\ c.target # None
  /\ c.target > 0 =>
       c.target \in DOMAIN ls /\ ~ IsReference(ls[c.target]) /\ ls[c.target].depth <= ls[i].depth
  /\ c.via # None =>
       /\ c.via \in DOMAIN ls \ {i} /\ Live(ls, run, c.via)
       /\ run[c.via].target = c.target
       /\ ls[c.via].depth <= ls[i].depth
       /\ ls[i].type = "exclusive" => ls[c.via].type = "exclusive"

CellWell(ls, run, i) ==
  /\ ~ run[i].stale
  /\ ~ run[i].value => run[i] = Absent
  /\ ~ IsReference(ls[i]) => run[i].target = None /\ run[i].via = None
  /\ Live(ls, run, i) => ViewsWell(ls, run, i)

\* The references a reference was taken through go back to one that was not.
Rooted(run, i) == \E k \in Chain(run, i) : run[k].via = None

\* A reference that views the same as an exclusive one was taken through it, or
\* the exclusive one through it.
Nested(ls, run, i, j) ==
  ls[i].type = "exclusive" /\ Live(ls, run, i) /\ Live(ls, run, j) /\ run[i].target = run[j].target
    => i \in Chain(run, j) \/ j \in Chain(run, i)

RunWell(ls, run) ==
  /\ run \in [DOMAIN ls -> Cells]
  /\ \A i \in DOMAIN ls : CellWell(ls, run, i) /\ Rooted(run, i)
  /\ \A i, j \in DOMAIN ls : Nested(ls, run, i, j)

-----------------------------------------------------------------------------
(* The loans recorded of the locals.                                           *)

Recorded(l) == l.from # None /\ l.kind # "none"
LoansOf(ls, o, mode) == {k \in DOMAIN ls : ls[k].from = o /\ ls[k].kind = mode}

\* Every recorded loan is counted on the local it was taken of.
Counted(ls) ==
  \A o \in DOMAIN ls :
    /\ Cardinality(LoansOf(ls, o, "shared")) <= ls[o].shared
    /\ \A k \in LoansOf(ls, o, "exclusive") : ls[o].exclusive /\ LoansOf(ls, o, "exclusive") = {k}

\* The local a live reference holds a loan of, unless it is outside.
Lender(run, i) == IF run[i].via # None THEN run[i].via ELSE run[i].target

\* The loan i holds of o is recorded, or, since the branches of a statement
\* disagreed on it, counted without being recorded.
Backed(ls, i, o) ==
  IF Recorded(ls[i]) THEN ls[i].from = o /\ (ls[i].type = "exclusive" => ls[i].kind = "exclusive")
  ELSE \/ ls[i].type # "exclusive" /\ Cardinality(LoansOf(ls, o, "shared")) < ls[o].shared
       \/ ls[o].exclusive /\ LoansOf(ls, o, "exclusive") = {}

\* What the facts of a local say is so.
FactWell(ls, run, i) ==
  /\ ls[i].state = "initialized" => run[i].value
  /\ ls[i].kind = "none" => ls[i].from = None
  /\ Recorded(ls[i]) => Live(ls, run, i) /\ ls[i].from = Lender(run, i) /\ ls[i].from \in DOMAIN ls
  /\ Live(ls, run, i) /\ ls[i].region = 0 /\ ls[i].origin # None => run[i].target = Outside(ls[i].origin)
  /\ Live(ls, run, i) /\ Lender(run, i) > 0 => Backed(ls, i, Lender(run, i))

Describes(ls, run) ==
  /\ RunWell(ls, run)
  /\ Counted(ls)
  /\ \A i \in DOMAIN ls : FactWell(ls, run, i)

-----------------------------------------------------------------------------
(* The blocks being checked.                                                   *)

\* Every local of ms has the type, mutability and depth of the one in ls.
Alike(ls, ms) ==
  \A i \in DOMAIN ls \cap DOMAIN ms :
    ms[i].type = ls[i].type /\ ms[i].mutable = ls[i].mutable /\ ms[i].depth = ls[i].depth

\* What a block saved of the first n locals.
Saved(ls, saved, n) == saved \in Seq(Facts) /\ Len(saved) = n /\ Alike(ls, saved)

\* The locals declared in block k and in those within it are the last; the states
\* it saved agree with the executions saved with them.
BlockWell(ls, b, k) ==
  /\ b.saved \in 0..Len(ls)
  /\ \A i \in DOMAIN ls : i <= b.saved <=> ls[i].depth < k
  /\ b.construct # "body" => Saved(ls, b.before, b.saved)
  /\ b.construct \in {"then", "while", "unsafe"} => \A run \in b.entered : Describes(b.before, run)
  /\ b.construct = "else" =>
       /\ Saved(ls, b.then, b.saved)
       /\ \A run \in b.thenRuns : Describes(b.then, run)
       /\ ~ b.thenFalls => b.thenRuns = {}

Blocks ==
  [construct : {"body"}, saved : Nat] \cup
  [construct : {"then", "while", "unsafe"}, saved : Nat, before : Seq(Facts), entered : SUBSET Seq(Cells)] \cup
  [construct : {"else"}, saved : Nat, before : Seq(Facts), then : Seq(Facts), thenRuns : SUBSET Seq(Cells),
   thenFalls : BOOLEAN]

FlowTypeOK ==
  /\ function \in Functions
  /\ locals \in Seq(Facts)
  /\ falls \in BOOLEAN
  /\ blocks \in Seq(Blocks)
  /\ returned \in Nat
  /\ stores \in 0..MaxStores
  /\ runs \in SUBSET Seq(Cells)

BlocksWell ==
  /\ ~ falls => runs = {}
  /\ \A i \in DOMAIN locals : locals[i].depth <= Len(blocks)
  /\ \A k \in DOMAIN blocks : BlockWell(locals, blocks[k], k)

\* The facts the check holds at a point agree with every execution that reaches it.
FactsAgree == \A run \in runs : Describes(locals, run)

FlowInvariant == FlowTypeOK /\ BlocksWell /\ FactsAgree
=============================================================================
