------------------------------ MODULE SafetyFlow ------------------------------
(***************************************************************************)
(* The block driver of Sultan Safety Flow (frontend/ssf/semantic_pipeline):*)
(* it walks the body of one function, statement by statement, threading    *)
(* the flow state of module FlowState and stopping at the first error.     *)
(*                                                                         *)
(* The function is written as the walk proceeds: every step picks the next *)
(* statement, so a behaviour is one function together with its analysis.   *)
(* Beside the analysis, "paths" collects the states of PathSemantics in    *)
(* which an execution can reach the current point, a loop body running at  *)
(* most once and to its end; "fault" records that one of them committed a  *)
(* fault in a statement the analysis had accepted.                         *)
(***************************************************************************)
EXTENDS Coverage, Sequences

CONSTANTS
  Constructs,     \* constructs admitted beyond the core (see Beyond)
  MaxStatements,  \* bound on the statements of the function
  MaxDepth        \* bound on the nesting of its blocks

\* Constructs whose effect on provenance, on lent storage or on control flow the
\* analysis does not record.  The core language of the proofs has none of them.
Beyond == {"views of carriers",  \* the address of a local that holds a view
           "stored views",       \* a view stored into part of an aggregate
           "bound views",        \* a match arm that binds a view
           "initialized parts",  \* an initializer of part of a local that is lent
           "jump edges",         \* paths that leave an iteration by a jump
           "back edges"}         \* paths that run a loop body a second time

ASSUME BoundsAssumption ==
  /\ Constructs \subseteq Beyond
  /\ MaxStatements \in Nat
  /\ MaxDepth \in Nat

VARIABLES
  flow,      \* the flow state at the current point
  falls,     \* whether control can reach the current point of the block
  stack,     \* the enclosing blocks, innermost last
  declared,  \* the symbols declared so far (each names one declaration)
  verdict,   \* "open", "accepted" or "rejected"
  length,    \* the number of statements so far
  paths,     \* the path states that reach the current point
  fault      \* some path faulted in an accepted statement

vars == <<flow, falls, stack, declared, verdict, length, paths, fault>>

(* A frame is one block being walked.  "entry" is the state its statement   *)
(* branched from and "subject" the local it matches on, if any; "joined" is *)
(* the merge of the arms that already fell through, if any ("joins").  The  *)
(* frame of a match is "match" before its first arm, "arm" in one and       *)
(* "arms" after one.  "jumps" holds the paths that left a loop body by      *)
(* break or continue, "again" those assumed to start a second iteration.    *)
Kinds == {"block", "comptime", "then", "else", "while", "for", "match", "arm", "arms"}

Frames == [kind : Kinds, subject : SUBSET Symbols,
           entry : Flows, entryPaths : SUBSET Paths,
           joins : BOOLEAN, joined : Flows, joinedPaths : SUBSET Paths,
           jumps : SUBSET Paths, again : SUBSET Paths]

NewFrame(kind, subject) ==
  [kind |-> kind, subject |-> subject, entry |-> flow, entryPaths |-> paths,
   joins |-> FALSE, joined |-> EmptyFlow, joinedPaths |-> {},
   jumps |-> {}, again |-> {}]

Top == stack[Len(stack)]
Below == SubSeq(stack, 1, Len(stack) - 1)
Inside(kinds) == stack # <<>> /\ Top.kind \in kinds

Init ==
  /\ flow = EntryFlow
  /\ falls = TRUE
  /\ stack = <<>>
  /\ declared = Params
  /\ verdict = "open"
  /\ length = 0
  /\ paths = {EntryPath}
  /\ fault = FALSE

-----------------------------------------------------------------------------
(* Statements                                                              *)

\* A block is walked until control cannot fall out of a statement.
AtStatement ==
  /\ verdict = "open"
  /\ falls
  /\ ~Inside({"match", "arms"})
  /\ length < MaxStatements
  /\ length' = length + 1

Reject ==
  /\ verdict' = "rejected"
  /\ UNCHANGED <<flow, falls, stack, declared, paths, fault>>

\* The statement succeeds: the flow and the paths advance.
Accept(newFlow, newPaths, faults) ==
  /\ flow' = newFlow
  /\ paths' = newPaths
  /\ fault' = (fault \/ faults)
  /\ UNCHANGED <<falls, stack, declared, verdict>>

Unsound(s) == \E p \in paths : ~Sound(p, s)

\* let s: T;
DeclareLocal(s) ==
  /\ AtStatement
  /\ s \notin declared
  /\ declared' = declared \cup {s}
  /\ flow' = Declare(flow, s, "uninit", {})
  /\ UNCHANGED <<falls, stack, verdict, paths, fault>>

\* An expression statement, or the condition of a statement, that reads s.
UseLocal(s) ==
  /\ AtStatement
  /\ IF MayUse(flow, s)
     THEN Accept(flow, {Read(p, s) : p \in paths}, Unsound(s))
     ELSE Reject

\* A closure copies its captures, so it may only capture ordinary values.
Capture(s) ==
  /\ AtStatement
  /\ IF MayUse(flow, s) /\ ~Owned(s) /\ ~Borrowed(s)
     THEN Accept(flow, {Read(p, s) : p \in paths}, Unsound(s))
     ELSE Reject

Reassigned(d) == \E p \in paths : p.val[d] # "uninit" /\ d \notin Mutable

\* d := <a value without sources>
AssignFresh(d) ==
  /\ AtStatement
  /\ d \in flow.visible
  /\ IF MayStore(flow, d, {})
     THEN Accept(Store(flow, d, {}), {Assign(p, d, {}) : p \in paths}, Reassigned(d))
     ELSE Reject

\* d := s
AssignFrom(d, s) ==
  /\ AtStatement
  /\ d \in flow.visible
  /\ Accepts(d, s)
  /\ LET moved == Move(flow, s)
         origins == ValueOrigins(flow, s)
     IN  IF MayMove(flow, s) /\ MayStore(moved, d, origins)
         THEN Accept(Store(moved, d, origins),
                     {Assign(Transfer(p, s), d, p.view[s]) : p \in paths},
                     Unsound(s) \/ \E p \in paths :
                        Transfer(p, s).val[d] # "uninit" /\ d \notin Mutable)
         ELSE Reject

\* d := &o  or  d := &mutable o
AssignBorrow(d, o, mode) ==
  /\ AtStatement
  /\ d \in flow.visible
  /\ TypeOf[d] = (IF mode = "exclusive" THEN "exclusive_ref" ELSE "shared_ref")
  /\ mode = "exclusive" => o \in Mutable
  /\ Carries(o) => "views of carriers" \in Constructs
  /\ LET origins == BorrowOrigins(flow, o, mode)
     IN  IF MayUse(flow, o) /\ MayStore(flow, d, origins)
         THEN Accept(Store(flow, d, origins),
                     {Assign(Lend(p, o, mode), d, {<<o, mode>>}) : p \in paths},
                     Unsound(o) \/ Reassigned(d))
         ELSE Reject

\* d := { first, second }: a record, tuple, vector or constructor payload, for a whole
\* local; an initializer of part of one is InitializePart.
\* Each field is checked, contributes its origins and moves its source in turn.
BuildFrom(d, s, t) ==
  /\ AtStatement
  /\ d \in flow.visible
  /\ TypeOf[d] \in {"reader_record", "writer_record", "view_vector"}
  /\ TypeOf[s] \in {"shared_ref", "exclusive_ref"}
  /\ TypeOf[t] \in {"shared_ref", "exclusive_ref"}
  /\ TypeOf[d] = "reader_record" => TypeOf[s] = TypeOf[t] /\ TypeOf[t] = "shared_ref"
  /\ LET first   == Move(flow, s)
         second  == Move(first, t)
         origins == OriginsOf(flow, s) \cup OriginsOf(first, t)
     IN  IF /\ MayMove(flow, s) /\ MayMove(first, t)
            /\ MayStore(second, d, origins)
         THEN Accept(Store(second, d, origins),
                     {Assign(Transfer(Transfer(p, s), t), d, p.view[s] \cup p.view[t]) :
                        p \in paths},
                     \/ Unsound(s) \/ Reassigned(d)
                     \/ \E p \in paths : ~Sound(Transfer(p, s), t))
         ELSE Reject

\* release(s)
ReleaseLocal(s) ==
  /\ AtStatement
  /\ s \in flow.visible
  /\ IF MayRelease(flow, s)
     THEN Accept(Release(flow, s), {Free(p, s) : p \in paths}, Unsound(s))
     ELSE Reject

\* f(s): a direct reference is reborrowed for the call, anything else moves in.
PassArgument(s) ==
  /\ AtStatement
  /\ IF DirectReference(s)
     THEN IF MayUse(flow, s)
          THEN Accept(flow, {Read(p, s) : p \in paths}, Unsound(s))
          ELSE Reject
     ELSE IF MayMove(flow, s)
          THEN Accept(Move(flow, s), {Transfer(p, s) : p \in paths}, Unsound(s))
          ELSE Reject

\* f(&o, &mutable u): both loans live for the call.
Conflict(o, m, u, n) == o = u /\ (m = "exclusive" \/ n = "exclusive")

MayLend(f, o, mode) == MayUse(f, o) /\ (mode = "exclusive" => BorrowsOf(f, o) = {})

LendArguments(o, m, u, n) ==
  /\ AtStatement
  /\ m = "exclusive" => o \in Mutable
  /\ n = "exclusive" => u \in Mutable
  /\ IF MayLend(flow, o, m) /\ MayLend(flow, u, n) /\ ~Conflict(o, m, u, n)
     THEN Accept(flow, {Lend(Lend(p, o, m), u, n) : p \in paths},
                 \/ Unsound(o) \/ Unsound(u)
                 \/ o = u /\ "exclusive" \in {m, n})
     ELSE Reject

\* s is a value that part of d may hold.
PartFits(d, s) ==
  /\ s # d
  /\ TypeOf[d] # "scalar" /\ ~DirectReference(d)
  /\ \/ TypeOf[s] = "scalar"
     \/ TypeOf[s] = "text" /\ TypeOf[d] = "text"
     \/ DirectReference(s) /\ Carries(d) /\ "stored views" \in Constructs

\* s moves into part of d; its origins are not added to those of d.
FillPart(d, s) ==
  Accept(Move(flow, s),
         {Absorb(Transfer(Write(Read(p, d), d), s), d, p.view[s]) : p \in paths},
         Unsound(d) \/ Unsound(s))

\* append(d, s) and d.field := s: the root must be free of borrows.
StoreInto(d, s) ==
  /\ AtStatement
  /\ PartFits(d, s)
  /\ IF MayMutate(flow, d) /\ MayMove(flow, s) THEN FillPart(d, s) ELSE Reject

\* d.field := { s }, [ s ], a box of s, and any store to a part of d in the start of
\* a for loop: the use of the root is checked, its borrows are not.
InitializePart(d, s) ==
  /\ AtStatement
  /\ PartFits(d, s)
  /\ BorrowsOf(flow, d) # {} => "initialized parts" \in Constructs
  /\ IF MayUse(flow, d) /\ MayMove(flow, s) THEN FillPart(d, s) ELSE Reject

\* swap(a, b) of two places: both roots are mutated, neither is moved out.
SwapPlaces(a, b) ==
  /\ AtStatement
  /\ IF MayMutate(flow, a) /\ MayMutate(flow, b)
     THEN Accept(flow, {Write(Write(Read(Read(p, a), b), a), b) : p \in paths},
                 Unsound(a) \/ Unsound(b))
     ELSE Reject

\* A store to a module value: global storage outlives every borrow.
StoreGlobal(s) ==
  /\ AtStatement
  /\ IF MayMove(flow, s) /\ ValueOrigins(flow, s) = {}
     THEN Accept(Move(flow, s), {Transfer(p, s) : p \in paths}, Unsound(s))
     ELSE Reject

-----------------------------------------------------------------------------
(* Leaving the function or an iteration                                    *)

\* Control does not fall out of the statement; no path reaches its end.
Stop(newFlow, faults) ==
  /\ flow' = newFlow
  /\ falls' = FALSE
  /\ paths' = {}
  /\ fault' = (fault \/ faults)
  /\ UNCHANGED <<declared, verdict>>

\* A returned view of the function's own locals is a fault.
Escapes(views) == \E v \in views : v[1] \in Symbols

ReturnLocal(s) ==
  /\ AtStatement
  /\ IF MayUse(flow, s) /\ MayEscape(flow, s) /\ MayMove(flow, s)
     THEN /\ Stop(Move(flow, s), Unsound(s) \/ \E p \in paths : Escapes(p.view[s]))
          /\ UNCHANGED stack
     ELSE Reject

\* return &o
ReturnBorrow(o) ==
  /\ AtStatement
  /\ Carries(o) => "views of carriers" \in Constructs
  /\ IF MayUse(flow, o) /\ LocalOrigins(BorrowOrigins(flow, o, "shared")) = {}
     THEN /\ Stop(flow, Unsound(o) \/ paths # {})
          /\ UNCHANGED stack
     ELSE Reject

ReturnNothing ==
  /\ AtStatement
  /\ Stop(flow, FALSE)
  /\ UNCHANGED stack

\* break and continue: the walk of the body ends here.
WithJumps(frame, ps) == [frame EXCEPT !.jumps = @ \cup ps]

Loops == {i \in DOMAIN stack : stack[i].kind \in {"while", "for"}}

Jump ==
  /\ AtStatement
  /\ Loops # {}
  /\ Stop(flow, FALSE)
  /\ \E i \in Loops :
       /\ \A k \in Loops : k <= i
       /\ stack' = IF "jump edges" \in Constructs
                   THEN [stack EXCEPT ![i] = WithJumps(@, paths)]
                   ELSE stack

-----------------------------------------------------------------------------
(* Blocks                                                                  *)

\* A statement with blocks; its condition, if it reads a local, is UseLocal.
Open(kind) ==
  /\ AtStatement
  /\ Len(stack) < MaxDepth
  /\ stack' = Append(stack, NewFrame(kind, {}))
  /\ UNCHANGED <<flow, falls, declared, verdict, paths, fault>>

OpenIf == Open("then")

\* unsafe { ... }
OpenUnsafe == Open("block")

\* comptime { ... }
OpenComptime == Open("comptime")

\* The body is walked once, from the state before the loop.  Beyond the core,
\* it also runs for the paths of a second iteration: the guess that the first
\* one moves m out is confirmed at the end of the body (EndLoop).
OpenLoop(kind, m) ==
  /\ AtStatement
  /\ Len(stack) < MaxDepth
  /\ LET again == IF "back edges" \in Constructs /\ Owned(m)
                  THEN {OnLap(Transfer(p, m), 1) : p \in paths} ELSE {}
     IN  /\ stack' = Append(stack, [NewFrame(kind, {}) EXCEPT !.again = again])
         /\ paths' = paths \cup again
  /\ UNCHANGED <<flow, falls, declared, verdict, fault>>

\* match s { ... }
OpenMatch(s) ==
  /\ AtStatement
  /\ Len(stack) < MaxDepth
  /\ IF MayUse(flow, s)
     THEN LET after == {Read(p, s) : p \in paths} IN
          /\ paths' = after
          /\ fault' = (fault \/ Unsound(s))
          /\ stack' = Append(stack, [NewFrame("match", {s}) EXCEPT !.entryPaths = after])
          /\ UNCHANGED <<flow, falls, declared, verdict>>
     ELSE Reject

AtEnd(kinds) ==
  /\ verdict = "open"
  /\ Inside(kinds)
  /\ UNCHANGED <<declared, length>>

\* What a finished arm adds to the merge of the arms before it.
MayJoin(frame, f) == ~frame.joins \/ MayMerge(frame.joined, f)
Joined(frame, f)  == IF frame.joins THEN Merge(frame.joined, f) ELSE f

\* The end of an arm: locals of the arm depart, and if control falls out of it
\* its state is merged with the arms before.
ArmEnd(frame) ==
  LET left == RestrictTo(flow, frame.entry) IN
  IF falls THEN [frame EXCEPT !.joins = TRUE,
                              !.joined = Joined(frame, left),
                              !.joinedPaths = @ \cup paths]
           ELSE frame

MayEndArm(frame) ==
  /\ MayRestrictTo(flow, frame.entry)
  /\ falls => MayJoin(frame, RestrictTo(flow, frame.entry))

\* Control continues after a branch iff some arm fell through.
Resume(frame) ==
  /\ falls' = frame.joins
  /\ flow' = IF frame.joins THEN frame.joined ELSE frame.entry
  /\ paths' = frame.joinedPaths
  /\ stack' = Below
  /\ UNCHANGED <<verdict, fault>>

\* } else {
Else ==
  /\ AtEnd({"then"})
  /\ IF MayEndArm(Top)
     THEN /\ stack' = Append(Below, [ArmEnd(Top) EXCEPT !.kind = "else"])
          /\ flow' = Top.entry
          /\ paths' = Top.entryPaths
          /\ falls' = TRUE
          /\ UNCHANGED <<verdict, fault>>
     ELSE Reject

\* The end of an if without else: its second arm is the entry state.
EndIf ==
  /\ AtEnd({"then"})
  /\ LET first == ArmEnd(Top) IN
     IF MayEndArm(Top) /\ MayJoin(first, Top.entry)
     THEN Resume([first EXCEPT !.joins = TRUE,
                               !.joined = Joined(first, Top.entry),
                               !.joinedPaths = @ \cup Top.entryPaths])
     ELSE Reject

EndElse ==
  /\ AtEnd({"else"})
  /\ IF MayEndArm(Top) THEN Resume(ArmEnd(Top)) ELSE Reject

\* A loop may run zero times: its exit merges the entry with one walk of the
\* body, or is the entry alone when the body does not fall through.
CloseLoop(last, lastPaths, faults) ==
  /\ \A p \in Top.again : OnLap(p, 0) \in paths
  /\ IF falls => MayMerge(Top.entry, last)
     THEN /\ flow' = IF falls THEN Merge(Top.entry, last) ELSE Top.entry
          /\ paths' = Top.entryPaths \cup {OnLap(p, 0) : p \in lastPaths} \cup Top.jumps
          /\ falls' = TRUE
          /\ stack' = Below
          /\ fault' = (fault \/ faults)
          /\ UNCHANGED verdict
     ELSE Reject

\* The condition is read once, before the loop; that it is read again before every
\* further iteration belongs to the back edge, which the walk does not follow.
EndWhile ==
  /\ AtEnd({"while"})
  /\ IF MayRestrictTo(flow, Top.entry)
     THEN CloseLoop(RestrictTo(flow, Top.entry), paths, FALSE)
     ELSE Reject

\* The step of a for loop (i := i + 1) is a block of its own, walked only when
\* control falls out of the body.
EndFor(i) ==
  /\ AtEnd({"for"})
  /\ TypeOf[i] = "scalar" /\ i \in Mutable
  /\ LET left == RestrictTo(flow, Top.entry) IN
     IF MayRestrictTo(flow, Top.entry)
        /\ (falls => MayUse(left, i) /\ MayStore(left, i, {}))
     THEN CloseLoop(Store(left, i, {}),
                    {Assign(Read(p, i), i, {}) : p \in paths}, Unsound(i))
     ELSE Reject

\* Whether control falls out of a comptime block is not asked.
EndBlock ==
  /\ AtEnd({"block", "comptime"})
  /\ IF MayRestrictTo(flow, Top.entry)
     THEN /\ flow' = RestrictTo(flow, Top.entry)
          /\ falls' = (falls \/ Top.kind = "comptime")
          /\ stack' = Below
          /\ UNCHANGED <<paths, verdict, fault>>
     ELSE Reject

\* | Pattern(b) => ...   The binding is an initialized local of the arm; it has
\* the origins of the matched value but starts no borrow of its own.
Binds(b) ==
  \/ TypeOf[b] = "scalar"
  \/ /\ "bound views" \in Constructs
     /\ TypeOf[b] = "shared_ref"
     /\ \E s \in Top.subject : TypeOf[s] = "reader_record"

OpenArm(b) ==
  /\ verdict = "open"
  /\ Inside({"match", "arms"})
  /\ b \notin declared
  /\ Binds(b)
  /\ LET origins == UNION {ValueOrigins(Top.entry, s) : s \in Top.subject}
     IN  flow' = Declare(Top.entry, b, "init", IF Carries(b) THEN origins ELSE {})
  /\ paths' = {Assign(p, b, UNION {p.view[s] : s \in Top.subject}) : p \in Top.entryPaths}
  /\ falls' = TRUE
  /\ declared' = declared \cup {b}
  /\ stack' = Append(Below, [Top EXCEPT !.kind = "arm"])
  /\ UNCHANGED <<verdict, length, fault>>

\* | _ => ...
OpenPlainArm ==
  /\ AtEnd({"match", "arms"})
  /\ flow' = Top.entry
  /\ paths' = Top.entryPaths
  /\ falls' = TRUE
  /\ stack' = Append(Below, [Top EXCEPT !.kind = "arm"])
  /\ UNCHANGED <<verdict, fault>>

EndArm ==
  /\ AtEnd({"arm"})
  /\ IF MayEndArm(Top)
     THEN /\ stack' = Append(Below, [ArmEnd(Top) EXCEPT !.kind = "arms"])
          /\ UNCHANGED <<flow, falls, paths, verdict, fault>>
     ELSE Reject

EndMatch ==
  /\ AtEnd({"arms"})
  /\ Resume(Top)

\* The end of the body.
Finish ==
  /\ verdict = "open"
  /\ stack = <<>>
  /\ IF MayRestrictTo(flow, EntryFlow)
     THEN /\ verdict' = "accepted"
          /\ flow' = RestrictTo(flow, EntryFlow)
          /\ UNCHANGED <<falls, stack, declared, paths, fault>>
     ELSE Reject
  /\ UNCHANGED length

-----------------------------------------------------------------------------
Simple ==
  \E s \in Symbols :
    \/ DeclareLocal(s) \/ UseLocal(s) \/ Capture(s) \/ AssignFresh(s)
    \/ ReleaseLocal(s) \/ PassArgument(s) \/ StoreGlobal(s)

Paired ==
  \E d, s \in Symbols :
    \/ AssignFrom(d, s)
    \/ \E mode \in BorrowModes : AssignBorrow(d, s, mode)
    \/ \E t \in Symbols : BuildFrom(d, s, t)
    \/ \E m, n \in BorrowModes : LendArguments(d, m, s, n)
    \/ StoreInto(d, s)
    \/ InitializePart(d, s)
    \/ SwapPlaces(d, s)

Departure ==
  \/ \E s \in Symbols : ReturnLocal(s) \/ ReturnBorrow(s)
  \/ ReturnNothing
  \/ Jump

Branch ==
  \/ OpenIf \/ Else \/ EndIf \/ EndElse
  \/ \E s \in Symbols : OpenMatch(s) \/ OpenArm(s)
  \/ OpenPlainArm \/ EndArm \/ EndMatch

Loop ==
  \/ \E s \in Symbols : OpenLoop("while", s) \/ OpenLoop("for", s) \/ EndFor(s)
  \/ EndWhile

Next ==
  \/ Simple \/ Paired \/ Departure \/ Branch \/ Loop
  \/ OpenUnsafe \/ OpenComptime \/ EndBlock
  \/ Finish

Spec == Init /\ [][Next]_vars

-----------------------------------------------------------------------------
(* Properties                                                              *)

\* Every variable keeps its type.
TypeOK ==
  /\ flow \in Flows
  /\ falls \in BOOLEAN
  /\ stack \in Seq(Frames)
  /\ declared \subseteq Symbols
  /\ verdict \in {"open", "accepted", "rejected"}
  /\ length \in Nat
  /\ paths \subseteq Paths
  /\ fault \in BOOLEAN

\* The promise of the analysis: a function accepted so far has no execution that
\* used a moved, released or uninitialized value, used a view whose storage was
\* since written, moved or released, reassigned an immutable local, or returned
\* a view of its own locals.  A fault of a guessed second iteration counts once
\* the end of the loop has confirmed the guess.
Guessed == \E i \in DOMAIN stack : stack[i].again # {}

NoFault == fault => Guessed

\* The flow state describes every execution that reaches the current point, and
\* every state kept for a later join describes the executions it stands for.
PathsCovered == \A p \in paths : Covers(flow, p, declared)

FrameCovered(frame) ==
  /\ \A p \in frame.entryPaths  : Covers(frame.entry, p, declared)
  /\ \A p \in frame.joinedPaths : Covers(frame.joined, p, declared)
  /\ OriginsTyped(frame.entry)
  /\ OriginsTyped(frame.joined)
  /\ ~frame.joins => frame.joinedPaths = {}
  /\ frame.again # {} => "back edges" \in Constructs
  /\ frame.jumps # {} => "jump edges" \in Constructs

\* Scopes nest: what was visible when a block was entered is visible at its end,
\* so leaving a scope never fails with "missing local".
ScopesNest ==
  /\ flow.visible \subseteq declared
  /\ Params \subseteq flow.visible
  /\ stack # <<>> => Top.entry.visible \subseteq flow.visible
  /\ \A i \in DOMAIN stack :
       /\ Params \subseteq stack[i].entry.visible
       /\ stack[i].joins => stack[i].joined.visible = stack[i].entry.visible
       /\ i + 1 \in DOMAIN stack => stack[i].entry.visible \subseteq stack[i + 1].entry.visible

Covered ==
  /\ PathsCovered
  /\ OriginsTyped(flow)
  /\ \A i \in DOMAIN stack : FrameCovered(stack[i])

\* Many shared readers or one mutable writer: an exclusive borrow is the only
\* borrow of its owner, through every merge and scope exit.
WriterAlone ==
  \A o \in Symbols : \A b, c \in BorrowsOf(flow, o) : b.kind = "exclusive" => b = c

\* A borrow ends with its carrier: whoever is recorded as the carrier of a borrow
\* is visible, not moved or released, and still has that owner among its
\* origins, so no owner stays locked for a view that is gone.
BorrowsBacked ==
  \A o \in Symbols : \A b \in BorrowsOf(flow, o) :
    /\ b.carrier \in flow.visible
    /\ Value(flow, b.carrier) \notin {"uninit", "moved", "freed"}
    /\ \E m \in BorrowModes : <<o, m>> \in OriginsOf(flow, b.carrier)
=============================================================================
