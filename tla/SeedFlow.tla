------------------------------- MODULE SeedFlow -------------------------------
(* The flow check of the seed compiler over one function body, statement by      *)
(* statement: what it knows of each local (value, loans, origin of a reference), *)
(* how a statement changes it, and how the branches of a statement are merged.   *)
(* The function is written as the check proceeds: each step is a statement the   *)
(* check accepts. Beside it, "runs" holds the states in which an execution can   *)
(* reach the same point; whether those are sound is what the check decides.      *)
(*                                                                               *)
(* Types: a plain value is copied, an owned one moves, a reference is to an      *)
(* owned value. A local is its place in the vector of locals.                    *)
EXTENDS Integers, Sequences, FiniteSets

CONSTANTS Functions,  \* [parameters, declared, output]: the locals in the order in
                      \* which they come into scope, and the type returned
          MaxBlocks,  \* bound on the nesting of blocks, the body included
          MaxLoans,   \* bound on the shared loans counted on one local
          MaxStores   \* bound on the statements that store a value

Kinds == [type : {"plain", "owned", "shared", "exclusive"}, mutable : BOOLEAN]
ASSUME FlowAssumption ==
  /\ \A f \in Functions : f.parameters \in Seq(Kinds) /\ f.declared \in Seq(Kinds)
  /\ {MaxBlocks, MaxLoans, MaxStores} \subseteq Nat

VARIABLES function, \* the function being checked
          locals,   \* the vector of locals with their safety facts
          falls,    \* control falls out of the last statement
          blocks,   \* the blocks being checked, innermost last
          returned, \* the parameter its returned reference comes from, or none
          stores,   \* the statements so far that store a value
          runs      \* the executions that reach this point

flowVars == <<function, locals, falls, blocks, returned, stores, runs>>

References == {"shared", "exclusive"}
MoveOnly   == {"owned", "exclusive"}
None       == 0
NoRegion   == MaxBlocks + 1

\* A local of the given kind that was just declared, and a parameter.
Declared(k, depth) ==
  [type |-> k.type, mutable |-> k.mutable, depth |-> depth, state |-> "uninitialized",
   shared |-> 0, exclusive |-> FALSE, from |-> None, kind |-> "none", region |-> NoRegion, origin |-> None]
Parameter(k, i) ==
  LET l == [Declared(k, 0) EXCEPT !.state = "initialized"] IN
  IF k.type \in References THEN [l EXCEPT !.region = 0, !.origin = i] ELSE l

-----------------------------------------------------------------------------
(* Facts.                                                                      *)

MayRead(l)  == l.state = "initialized" /\ ~ l.exclusive
MayWrite(l) == l.shared = 0 /\ ~ l.exclusive
MayMove(l)  == l.state = "initialized" /\ MayWrite(l)
MayLend(l, mode) == IF mode = "exclusive" THEN MayMove(l) ELSE MayRead(l) /\ l.shared < MaxLoans

Lent(l, mode) ==
  IF mode = "exclusive" THEN [l EXCEPT !.exclusive = TRUE] ELSE [l EXCEPT !.shared = @ + 1]
Returned(l, mode) ==
  IF mode = "exclusive" THEN [l EXCEPT !.exclusive = FALSE]
  ELSE [l EXCEPT !.shared = IF @ = 0 THEN 0 ELSE @ - 1]
Emptied(l)     == [l EXCEPT !.state = "moved", !.shared = 0, !.exclusive = FALSE]
Initialized(l) == [l EXCEPT !.state = "initialized"]
Referring(l, from, kind, region, origin) ==
  [l EXCEPT !.from = from, !.kind = kind, !.region = region, !.origin = origin]

Joined(s, t) ==
  CASE s = t -> s
    [] s # t /\ {s, t} \cap {"moved", "maybe moved"} # {} -> "maybe moved"
    [] OTHER -> "maybe uninitialized"

\* Mutant of Greater: only the loans both sides know count.
Lesser(m, n) == IF m < n THEN m ELSE n
\* Loans of either side count.
Greater(m, n) == IF m < n THEN n ELSE m

\* Mutant of CommonOrigin: what one side says is kept.
CommonOriginOfOne(l, r) == l.origin
CommonOrigin(l, r) == IF l.origin = r.origin THEN l.origin ELSE None

\* What a side says of the origin of a reference survives if the other repeats it.
Merged(l, r) ==
  LET same == l.from = r.from /\ l.kind = r.kind
      base == [l EXCEPT !.state = Joined(l.state, r.state), !.shared = Greater(l.shared, r.shared),
                        !.exclusive = l.exclusive \/ r.exclusive]
  IN  IF same
      THEN Referring(base, l.from, l.kind, Greater(l.region, r.region), CommonOrigin(l, r))
      ELSE Referring(base, None, "none", NoRegion, None)

MergedLocals(ls, rs) == [i \in DOMAIN ls |-> Merged(ls[i], rs[i])]

-----------------------------------------------------------------------------
(* Loans.                                                                      *)

\* The reference d gives its loan back.
ReleaseLoan(ls, d) ==
  IF ls[d].kind = "none" \/ ls[d].from = None THEN ls
  ELSE LET owner == ls[d].from
           back  == IF owner \in DOMAIN ls THEN [ls EXCEPT ![owner] = Returned(@, ls[d].kind)] ELSE ls
       IN  [back EXCEPT ![d] = Referring(@, None, "none", NoRegion, None)]

\* The locals beyond the first n leave their scope, each giving its loan back.
LoansBeyond(ls, n, i, mode) == {k \in n + 1..Len(ls) : ls[k].from = i /\ ls[k].kind = mode}
LeaveScope(ls, n) ==
  [i \in 1..n |->
     LET back == Cardinality(LoansBeyond(ls, n, i, "shared"))
     IN  [ls[i] EXCEPT !.shared = IF @ > back THEN @ - back ELSE 0,
                       !.exclusive = @ /\ LoansBeyond(ls, n, i, "exclusive") = {}]]

\* d := &x
MayBorrow(ls, d, x, mode) == MayLend(ls[x], mode) /\ ls[d].depth >= ls[x].depth
Borrow(ls, d, x, mode) ==
  [[ls EXCEPT ![x] = Lent(@, mode)] EXCEPT ![d] = Referring(@, x, mode, ls[x].depth, None)]

\* Mutant of Copy: an exclusive reference that moved still records its loan.
CopyOfHolder(ls, d, r) ==
  LET l == ls[r]
      source == IF l.type = "exclusive" THEN [ls EXCEPT ![r] = Emptied(l)]
                ELSE IF l.from = None THEN ls ELSE [ls EXCEPT ![l.from] = Lent(@, "shared")]
  IN  [source EXCEPT ![d] =
         Referring(@, l.from, IF l.type = "exclusive" THEN l.kind ELSE "shared", l.region, l.origin)]

\* d := r, a reference: a shared one is lent once more, an exclusive one moves.
MayCopy(ls, r) ==
  IF ls[r].type = "exclusive" THEN MayMove(ls[r])
  ELSE ls[r].from # None => ls[r].from \in DOMAIN ls /\ MayLend(ls[ls[r].from], "shared")
Copy(ls, d, r) ==
  LET l == ls[r]
      source == IF l.type = "exclusive"
                THEN [ls EXCEPT ![r] = [Emptied(l) EXCEPT !.from = None, !.kind = "none"]]
                ELSE IF l.from = None THEN ls ELSE [ls EXCEPT ![l.from] = Lent(@, "shared")]
  IN  [source EXCEPT ![d] =
         Referring(@, l.from, IF l.type = "exclusive" THEN l.kind ELSE "shared", l.region, l.origin)]

-----------------------------------------------------------------------------
(* Executions. A run says of each local whether its value is there; of a         *)
(* reference, which storage it views, the reference it was taken through, and    *)
(* whether that storage was since moved, replaced, dropped, or used in a way     *)
(* that excludes the reference. The storage a parameter views is outside.        *)

Absent == [value |-> FALSE, target |-> None, via |-> None, stale |-> FALSE]
Present(target, via) == [value |-> TRUE, target |-> target, via |-> via, stale |-> FALSE]
Outside(i) == -i

\* r and the references it was taken through: what every set with r contains that
\* no step to the reference before leaves.
Chain(run, r) ==
  {i \in DOMAIN run :
     \A S \in SUBSET DOMAIN run : r \in S /\ (\A j \in S : run[j].via \in S \cup {None}) => i \in S}

Spoil(run, S) == [i \in DOMAIN run |-> IF i \in S THEN [run[i] EXCEPT !.stale = TRUE] ELSE run[i]]
Views(run, storage) == {i \in DOMAIN run : run[i].value /\ run[i].target = storage}
Excluded(run, storage, mode) ==
  {i \in Views(run, storage) : mode = "exclusive" \/ locals[i].type = "exclusive"}

\* The storage of x, or through a reference x what it views, is read or written.
Touch(run, x, mode) ==
  IF locals[x].type \in References
  THEN Spoil(run, Excluded(run, run[x].target, mode) \ Chain(run, x))
  ELSE Spoil(run, Excluded(run, x, mode))

\* References no longer count as taken through x.
Orphan(run, x) == [i \in DOMAIN run |-> IF run[i].via = x THEN [run[i] EXCEPT !.via = None] ELSE run[i]]

\* The value of x leaves it, if values of its type do; the references into it end.
Leave(run, x) ==
  CASE locals[x].type = "owned" -> [Touch(run, x, "exclusive") EXCEPT ![x] = Absent]
    [] locals[x].type = "exclusive" ->
         [Orphan(Spoil(run, {i \in DOMAIN run \ {x} : x \in Chain(run, i)}), x) EXCEPT ![x] = Absent]
    [] OTHER -> Touch(run, x, "shared")

\* d receives a new value.
Receive(run, d, cell) ==
  [Orphan(IF locals[d].type \in References THEN run ELSE Touch(run, d, "exclusive"), d) EXCEPT ![d] = cell]

\* The locals beyond the first n are dropped.
Drop(run, n) ==
  [i \in 1..n |->
     LET lost == run[i].target \in n + 1..Len(run) IN
     [value |-> run[i].value, stale |-> run[i].stale \/ lost, target |-> IF lost THEN None ELSE run[i].target,
      via |-> IF run[i].via > n THEN None ELSE run[i].via]]

-----------------------------------------------------------------------------
(* The statements whose effect the check is known to miss: executions are not    *)
(* followed past them, nor into a second iteration of a loop.                    *)

\* A reference is given its own value: its loan is returned and not taken again.
AssignsItself(d, x) == locals[d].type \in References /\ d = x

\* A reference into an inner scope, or taken through one, is copied outwards.
CopiedOutwards(run, d, x) ==
  \E i \in ({run[x].target} \cup Chain(run, x)) \ {x} : i \in DOMAIN locals /\ locals[i].depth > locals[d].depth

\* A part of a local is overwritten while the local is lent.
OverwritesLent(d) == ~ MayWrite(locals[d])

-----------------------------------------------------------------------------
(* Statements.                                                                 *)

FlowInit ==
  /\ function \in Functions
  /\ locals = [i \in DOMAIN function.parameters |-> Parameter(function.parameters[i], i)]
  /\ falls = TRUE
  /\ blocks = <<[construct |-> "body", saved |-> Len(locals)]>>
  /\ returned = None
  /\ stores = 0
  /\ runs = {[i \in DOMAIN locals |->
               Present(IF locals[i].type \in References THEN Outside(i) ELSE None, None)]}

AtStatement == blocks # <<>> /\ falls

Continue(ls, rs) ==
  /\ locals' = ls
  /\ runs' = rs
  /\ UNCHANGED <<function, falls, blocks, returned>>

AtStore == AtStatement /\ stores < MaxStores /\ stores' = stores + 1

\* let x: T
Declare ==
  /\ AtStatement
  /\ LET next == Len(locals) - Len(function.parameters) + 1 IN
     /\ next \in DOMAIN function.declared
     /\ UNCHANGED stores
     /\ Continue(Append(locals, Declared(function.declared[next], Len(blocks))),
                 {Append(run, Absent) : run \in runs})

Assignable(d) == (locals[d].mutable \/ locals[d].state # "initialized") /\ MayWrite(locals[d])
MayHold(target, source) == target = source \/ (target = "shared" /\ source = "exclusive")

\* d := <a value that refers to no local>
StoreValue(d) ==
  /\ AtStore
  /\ locals[d].type \notin References
  /\ Assignable(d)
  /\ Continue([locals EXCEPT ![d] = Initialized(@)], {Receive(run, d, Present(None, None)) : run \in runs})

\* d := x.part  or  d := x^.part
StorePart(d, x) ==
  /\ AtStore
  /\ locals[d].type = "plain" /\ locals[x].type # "plain"
  /\ Assignable(d)
  /\ MayRead(locals[x])
  /\ Continue([locals EXCEPT ![d] = Initialized(@)],
              {Receive(Touch(run, x, "shared"), d, Present(None, None)) : run \in runs})

\* The check of a moved value leaves a value assigned to itself alone.
MoveOut(ls, x, d) == IF x # d /\ ls[x].type \in MoveOnly THEN [ls EXCEPT ![x] = Emptied(@)] ELSE ls
MayMoveOut(ls, x, d) == x # d /\ ls[x].type \in MoveOnly => MayMove(ls[x])

\* d := x
StoreLocal(d, x) ==
  /\ AtStore
  /\ MayHold(locals[d].type, locals[x].type)
  /\ Assignable(d)
  /\ MayRead(locals[x])
  /\ IF locals[d].type \in References
     THEN LET freed == ReleaseLoan(locals, d) IN
          /\ MayCopy(freed, x)
          /\ Continue([Copy(freed, d, x) EXCEPT ![d] = Initialized(@)],
                      IF AssignsItself(d, x) THEN {}
                      ELSE {Receive(Leave(run, x), d, run[x]) :
                              run \in {r \in runs : ~ CopiedOutwards(r, d, x)}})
     ELSE /\ MayMoveOut(locals, x, d)
          /\ Continue([MoveOut(locals, x, d) EXCEPT ![d] = Initialized(@)],
                      {Receive(Leave(run, x), d, Present(None, None)) : run \in runs})

\* d := &x  or  d := &mutable x; through a reference x, of what x views.
StoreBorrow(d, x, mode) ==
  /\ AtStore
  /\ locals[d].type \in References /\ locals[x].type # "plain"
  /\ MayHold(locals[d].type, mode)
  /\ Assignable(d)
  /\ (mode = "shared" \/ locals[x].type \in References) => MayRead(locals[x])
  /\ (mode = "exclusive") => locals[x].type # "shared"
  /\ LET freed == ReleaseLoan(locals, d) IN
     /\ MayBorrow(freed, d, x, mode)
     /\ Continue([Borrow(freed, d, x, mode) EXCEPT ![d] = Initialized(@)],
                 IF AssignsItself(d, x) THEN {}
                 ELSE {Receive(Touch(run, x, mode), d,
                               IF locals[x].type \in References THEN Present(run[x].target, x)
                               ELSE Present(x, None)) : run \in runs})

\* A part of d, or of what an exclusive reference d views, can be written; the
\* loans of d are not asked for.
PartWritable(d) ==
  \/ locals[d].type = "owned"
  \/ locals[d].type = "exclusive" /\ MayRead(locals[d])

\* d.part := <value>  or  d^.part := <value>
WritePart(d) ==
  /\ AtStore
  /\ PartWritable(d)
  /\ Continue(locals, IF OverwritesLent(d) THEN {} ELSE {Touch(run, d, "exclusive") : run \in runs})

\* d.part := x  or  d^.part := x
MoveIntoPart(d, x) ==
  /\ AtStore
  /\ PartWritable(d)
  /\ locals[x].type \notin References
  /\ MayRead(locals[x])
  /\ MayMoveOut(locals, x, None)
  /\ Continue(MoveOut(locals, x, None),
              IF OverwritesLent(d) THEN {} ELSE {Touch(Leave(run, x), d, "exclusive") : run \in runs})

\* The parameter a returned reference comes from is one for the whole function.
Returnable(x) ==
  IF function.output \in References
  THEN locals[x].region = 0 /\ locals[x].origin # None /\ returned \in {None, locals[x].origin}
  ELSE MayMoveOut(locals, x, None)

Stop(ls, origin) ==
  /\ locals' = ls
  /\ returned' = origin
  /\ falls' = FALSE
  /\ runs' = {}
  /\ UNCHANGED <<function, blocks, stores>>

ReturnLocal(x) ==
  /\ AtStatement
  /\ MayHold(function.output, locals[x].type)
  /\ MayRead(locals[x])
  /\ Returnable(x)
  /\ IF function.output \in References THEN Stop(locals, locals[x].origin) ELSE Stop(MoveOut(locals, x, None), returned)

ReturnValue == AtStatement /\ function.output \notin References /\ Stop(locals, returned)

-----------------------------------------------------------------------------
(* Blocks. A statement without "else" has an empty one.                        *)

Open(construct) ==
  /\ AtStatement
  /\ Len(blocks) < MaxBlocks
  /\ blocks' = Append(blocks, [construct |-> construct, saved |-> Len(locals), before |-> locals, entered |-> runs])
  /\ UNCHANGED <<function, locals, falls, returned, stores, runs>>

Top   == blocks[Len(blocks)]
Below == SubSeq(blocks, 1, Len(blocks) - 1)
Ending(construct) == blocks # <<>> /\ Top.construct = construct
LocalsAtEnd == LeaveScope(locals, Top.saved)
RunsAtEnd   == {Drop(run, Top.saved) : run \in runs}

Close(ls, rs, falling) ==
  /\ locals' = ls
  /\ runs' = rs
  /\ falls' = falling
  /\ blocks' = Below
  /\ UNCHANGED <<function, returned, stores>>

\* The end of an unsafe block, and of the body, which has to return.
CloseBlock ==
  /\ Ending("unsafe") \/ (Ending("body") /\ ~ falls)
  /\ Close(LocalsAtEnd, RunsAtEnd, falls)

\* The other branch is checked from the state before the statement.
CloseThen ==
  /\ Ending("then")
  /\ locals' = Top.before
  /\ runs' = Top.entered
  /\ falls' = TRUE
  /\ blocks' = Append(Below, [construct |-> "else", saved |-> Top.saved, before |-> Top.before,
                              then |-> LocalsAtEnd, thenRuns |-> RunsAtEnd, thenFalls |-> falls])
  /\ UNCHANGED <<function, returned, stores>>

CloseElse ==
  /\ Ending("else")
  /\ Close(CASE Top.thenFalls /\ falls   -> MergedLocals(Top.then, LocalsAtEnd)
             [] Top.thenFalls /\ ~ falls -> Top.then
             [] ~ Top.thenFalls /\ falls -> LocalsAtEnd
             [] OTHER -> Top.before,
           Top.thenRuns \cup RunsAtEnd, Top.thenFalls \/ falls)

\* A loop runs its body any number of times, and is checked for none and one.
CloseLoop ==
  /\ Ending("while")
  /\ Close(IF falls THEN MergedLocals(Top.before, LocalsAtEnd) ELSE Top.before, Top.entered \cup RunsAtEnd, TRUE)

FlowNext ==
  \/ Declare
  \/ \E d \in DOMAIN locals : StoreValue(d) \/ WritePart(d) \/ ReturnLocal(d)
  \/ \E d, x \in DOMAIN locals :
       \/ StorePart(d, x)
       \/ StoreLocal(d, x)
       \/ \E mode \in References : StoreBorrow(d, x, mode)
       \/ MoveIntoPart(d, x)
  \/ ReturnValue
  \/ \E construct \in {"then", "while", "unsafe"} : Open(construct)
  \/ CloseBlock \/ CloseThen \/ CloseElse \/ CloseLoop

FlowSpec == FlowInit /\ [][FlowNext]_flowVars

-----------------------------------------------------------------------------
(* Properties.                                                                 *)

\* Whenever the check lets a local be read, every execution that followed no
\* statement the check is known to miss finds its value there, and a reference
\* whose storage was neither moved, replaced nor dropped, nor lent otherwise: the
\* loans counted on a local outlast branches, moves of references and scopes
\* (body_borrow.c, body_flow.c, kernel/safety/flow.c).
ReadsAreSound ==
  \A run \in runs, i \in DOMAIN locals : MayRead(locals[i]) => run[i].value /\ ~ run[i].stale

\* A reference the check lets the function return views, in each of these
\* executions, the storage its caller lent for the parameter recorded as its
\* origin, however it was assigned before (Body_Safety_Check_Return_Reference).
ReturnsOutliveTheCall ==
  \A run \in runs, i \in DOMAIN locals :
    locals[i].type \in References /\ MayRead(locals[i]) /\ locals[i].region = 0 /\ locals[i].origin # None
      => run[i].target = Outside(locals[i].origin)
=============================================================================
