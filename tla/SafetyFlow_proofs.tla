-------------------------- MODULE SafetyFlow_proofs --------------------------
(***************************************************************************)
(* The block driver (module SafetyFlow), for every set of symbols, typing  *)
(* of them, bound and function body: its type invariant, the nesting of    *)
(* scopes and the discipline of borrows with every set of constructs, and  *)
(* the promise of Sultan Safety Flow on the core constructs                *)
(* (Constructs = {}): a function the analysis has accepted so far has no   *)
(* execution that faults, and the flow state describes every execution     *)
(* (Soundness).                                                            *)
(***************************************************************************)
EXTENDS SafetyFlow, FlowLemmas, SequenceTheorems

-----------------------------------------------------------------------------
(* The stack of blocks                                                     *)

LEMMA StackTop ==
  ASSUME stack \in Seq(Frames), stack # <<>>
  PROVE  /\ Len(stack) \in DOMAIN stack
         /\ Top \in Frames
         /\ Below \in Seq(Frames)
         /\ Len(Below) = Len(stack) - 1
         /\ \A i \in DOMAIN Below : i \in DOMAIN stack /\ Below[i] = stack[i]
<1>1. Len(stack) \in Nat /\ Len(stack) > 0 /\ DOMAIN stack = 1 .. Len(stack)
  OBVIOUS
<1>2. \A i \in 1 .. Len(stack) : stack[i] \in Frames
  OBVIOUS
<1>3. /\ Below \in Seq(Frames)
      /\ Len(Below) = Len(stack) - 1
      /\ \A i \in 1 .. Len(stack) - 1 : Below[i] = stack[i]
  BY <1>1, <1>2, SubSeqProperties DEF Below
<1> QED
  BY <1>1, <1>2, <1>3 DEF Top

LEMMA Pushed ==
  ASSUME NEW s \in Seq(Frames), NEW frame \in Frames
  PROVE  /\ Append(s, frame) \in Seq(Frames)
         /\ Len(Append(s, frame)) = Len(s) + 1
         /\ DOMAIN Append(s, frame) = DOMAIN s \cup {Len(s) + 1}
         /\ Append(s, frame)[Len(s) + 1] = frame
         /\ \A i \in DOMAIN s : Append(s, frame)[i] = s[i]
OBVIOUS

-----------------------------------------------------------------------------
(* Types                                                                   *)

LEMMA EntryTypes == EntryFlow \in Flows /\ EmptyFlow \in Flows /\ EntryPath \in Paths
<1>1. NoLocal \in Locals
  BY DEF NoLocal, Locals, ValueStates
<1>2. ASSUME NEW s \in Symbols
      PROVE  [value |-> "init", borrows |-> {},
              origins |-> IF Carries(s) THEN {<<s, "param">>} ELSE {}] \in Locals
  BY DEF Locals, ValueStates, Origins
<1>3. EntryFlow \in Flows
  BY <1>1, <1>2, SymbolsAssumption DEF EntryFlow, Flows
<1>4. EmptyFlow \in Flows
  BY <1>1 DEF EmptyFlow, Flows
<1>5. EntryPath \in Paths
  BY DEF EntryPath, Paths, Presence
<1> QED
  BY <1>3, <1>4, <1>5

LEMMA NewFrameType ==
  ASSUME TypeOK, NEW kind \in Kinds, NEW subject \in SUBSET Symbols
  PROVE  NewFrame(kind, subject) \in Frames
BY EntryTypes DEF TypeOK, NewFrame, Frames

\* The type invariant and the nesting of scopes are proved together: leaving a
\* scope is typed by the flow that entered it.
Shape == TypeOK /\ ScopesNest

LEMMA RejectShape ==
  ASSUME Shape, Reject, length' \in Nat
  PROVE  Shape'
BY DEF Shape, TypeOK, Reject, ScopesNest, Top

LEMMA AcceptShape ==
  ASSUME Shape, NEW f \in Flows, NEW ps \in SUBSET Paths, NEW b \in BOOLEAN,
         Accept(f, ps, b), f.visible = flow.visible, length' \in Nat
  PROVE  Shape'
BY DEF Shape, TypeOK, Accept, ScopesNest, Top

LEMMA InitShape == Init => Shape
<1> SUFFICES ASSUME Init PROVE Shape
  OBVIOUS
<1>1. TypeOK
  <2>1. {EntryPath} \in SUBSET Paths /\ <<>> \in Seq(Frames)
    BY EntryTypes
  <2> QED
    BY <2>1, EntryTypes, SymbolsAssumption DEF Init, TypeOK
<1>2. ScopesNest
  BY DEF Init, ScopesNest, EntryFlow
<1> QED
  BY <1>1, <1>2 DEF Shape

\* What every statement shares: the current values are typed, and so is length.
LEMMA StatementTypes ==
  ASSUME Shape
  PROVE  /\ flow \in Flows /\ paths \in SUBSET Paths
         /\ fault \in BOOLEAN /\ falls \in BOOLEAN
         /\ flow.visible \subseteq declared /\ declared \in SUBSET Symbols
         /\ AtStatement => length' \in Nat
         /\ \A s \in Symbols : Unsound(s) \in BOOLEAN /\ Reassigned(s) \in BOOLEAN
         /\ \A s \in Symbols : \A p \in paths : p.view[s] \in SUBSET (Symbols \X BorrowModes)
BY DEF Shape, TypeOK, ScopesNest, AtStatement, Unsound, Reassigned, Paths

LEMMA DeclareShape ==
  ASSUME Shape, NEW s \in Symbols, DeclareLocal(s)
  PROVE  Shape'
<1>1. /\ flow' \in Flows /\ flow'.visible = flow.visible \cup {s}
      /\ length' \in Nat /\ declared' = declared \cup {s}
      /\ UNCHANGED <<falls, stack, verdict, paths, fault>>
  BY StatementTypes, DeclareFacts DEF DeclareLocal, ValueStates
<1> QED
  BY <1>1 DEF Shape, TypeOK, ScopesNest, Top

LEMMA UseShape ==
  ASSUME Shape, NEW s \in Symbols, UseLocal(s) \/ Capture(s)
  PROVE  Shape'
<1> DEFINE ps == {Read(p, s) : p \in paths}
<1>1. ps \in SUBSET Paths /\ length' \in Nat
  BY StatementTypes, ReadFacts DEF UseLocal, Capture
<1>2. Reject \/ Accept(flow, ps, Unsound(s))
  BY DEF UseLocal, Capture
<1> HIDE DEF ps
<1> QED
  BY <1>1, <1>2, StatementTypes, RejectShape, AcceptShape

LEMMA AssignFreshShape ==
  ASSUME Shape, NEW d \in Symbols, AssignFresh(d)
  PROVE  Shape'
<1> DEFINE ps == {Assign(p, d, {}) : p \in paths}
           f == Store(flow, d, {})
<1>1. length' \in Nat /\ f \in Flows /\ f.visible = flow.visible
  <2>1. {} \in SUBSET Origins
    OBVIOUS
  <2> QED
    BY <2>1, StatementTypes, StoreFacts DEF AssignFresh
<1>2. ps \in SUBSET Paths
  <2>1. \A p \in paths : Assign(p, d, {}) \in Paths
    BY StatementTypes, AssignFacts
  <2> QED
    BY <2>1
<1>3. Reject \/ Accept(f, ps, Reassigned(d))
  BY DEF AssignFresh
<1> HIDE DEF ps, f
<1> QED
  BY <1>1, <1>2, <1>3, StatementTypes, RejectShape, AcceptShape

LEMMA ValueOriginsType ==
  ASSUME NEW f \in Flows, NEW s \in Symbols
  PROVE  ValueOrigins(f, s) \in SUBSET Origins
BY LocalType DEF ValueOrigins

LEMMA TransferType ==
  ASSUME NEW p \in Paths, NEW s \in Symbols
  PROVE  Transfer(p, s) \in Paths
BY ReadFacts, LeaveFacts DEF Transfer, Presence

LEMMA AssignFromShape ==
  ASSUME Shape, NEW d \in Symbols, NEW s \in Symbols, AssignFrom(d, s)
  PROVE  Shape'
<1> DEFINE ps == {Assign(Transfer(p, s), d, p.view[s]) : p \in paths}
           f == Store(Move(flow, s), d, ValueOrigins(flow, s))
           b == Unsound(s) \/ \E p \in paths :
                  Transfer(p, s).val[d] # "uninit" /\ d \notin Mutable
<1>1. f \in Flows /\ f.visible = flow.visible /\ length' \in Nat
  BY StatementTypes, MoveFacts, StoreFacts, ValueOriginsType DEF AssignFrom
<1>2. ps \in SUBSET Paths /\ b \in BOOLEAN
  <2>1. \A p \in paths : Transfer(p, s) \in Paths
    BY StatementTypes, TransferType
  <2>2. \A p \in paths : Assign(Transfer(p, s), d, p.view[s]) \in Paths
    BY <2>1, StatementTypes, AssignFacts
  <2> QED
    BY <2>2, StatementTypes
<1>3. Reject \/ Accept(f, ps, b)
  BY DEF AssignFrom
<1> HIDE DEF ps, f, b
<1> QED
  BY <1>1, <1>2, <1>3, RejectShape, AcceptShape

LEMMA BorrowOriginsType ==
  ASSUME NEW f \in Flows, NEW o \in Symbols, NEW mode \in BorrowModes
  PROVE  BorrowOrigins(f, o, mode) \in SUBSET Origins
BY LocalType DEF BorrowOrigins, Origins

LEMMA LendType ==
  ASSUME NEW p \in Paths, NEW o \in Symbols, NEW mode \in BorrowModes
  PROVE  Lend(p, o, mode) \in Paths
BY ReadFacts, WriteFacts DEF Lend

LEMMA AssignBorrowShape ==
  ASSUME Shape, NEW d \in Symbols, NEW o \in Symbols, NEW mode \in BorrowModes,
         AssignBorrow(d, o, mode)
  PROVE  Shape'
<1> DEFINE ps == {Assign(Lend(p, o, mode), d, {<<o, mode>>}) : p \in paths}
           O == BorrowOrigins(flow, o, mode)
           f == Store(flow, d, O)
           b == Unsound(o) \/ Reassigned(d)
<1>1. f \in Flows /\ f.visible = flow.visible /\ length' \in Nat
  <2>1. O \in SUBSET Origins
    BY StatementTypes, BorrowOriginsType
  <2> HIDE DEF O
  <2> QED
    BY <2>1, StatementTypes, StoreFacts DEF AssignBorrow
<1>2. ps \in SUBSET Paths /\ b \in BOOLEAN
  <2>1. \A p \in paths : Lend(p, o, mode) \in Paths
    BY StatementTypes, LendType
  <2>2. {<<o, mode>>} \in SUBSET (Symbols \X BorrowModes)
    OBVIOUS
  <2>3. \A p \in paths : Assign(Lend(p, o, mode), d, {<<o, mode>>}) \in Paths
    BY <2>1, <2>2, AssignFacts
  <2> QED
    BY <2>3, StatementTypes
<1>3. Reject \/ Accept(f, ps, b)
  BY DEF AssignBorrow
<1> HIDE DEF ps, f, b
<1> QED
  BY <1>1, <1>2, <1>3, RejectShape, AcceptShape

LEMMA BuildFromShape ==
  ASSUME Shape, NEW d \in Symbols, NEW s \in Symbols, NEW t \in Symbols,
         BuildFrom(d, s, t)
  PROVE  Shape'
<1> DEFINE ps == {Assign(Transfer(Transfer(p, s), t), d, p.view[s] \cup p.view[t]) :
                    p \in paths}
           first == Move(flow, s)
           O == OriginsOf(flow, s) \cup OriginsOf(first, t)
           f == Store(Move(first, t), d, O)
           b == \/ Unsound(s) \/ Reassigned(d)
                \/ \E p \in paths : ~Sound(Transfer(p, s), t)
<1>1. f \in Flows /\ f.visible = flow.visible /\ length' \in Nat
  <2>1. first \in Flows /\ first.visible = flow.visible
    BY StatementTypes, MoveFacts
  <2> HIDE DEF first
  <2>2. Move(first, t) \in Flows /\ Move(first, t).visible = flow.visible
    BY <2>1, MoveFacts
  <2>3. O \in SUBSET Origins
    BY <2>1, StatementTypes, LocalType
  <2> QED
    BY <2>2, <2>3, StatementTypes, StoreFacts DEF BuildFrom
<1>2. ps \in SUBSET Paths /\ b \in BOOLEAN
  <2>1. \A p \in paths : Transfer(Transfer(p, s), t) \in Paths
    BY StatementTypes, TransferType
  <2>2. \A p \in paths : p.view[s] \cup p.view[t] \in SUBSET (Symbols \X BorrowModes)
    BY StatementTypes
  <2>3. \A p \in paths :
          Assign(Transfer(Transfer(p, s), t), d, p.view[s] \cup p.view[t]) \in Paths
    BY <2>1, <2>2, AssignFacts
  <2> QED
    BY <2>3, StatementTypes
<1>3. Reject \/ Accept(f, ps, b)
  BY DEF BuildFrom
<1> HIDE DEF ps, f, b
<1> QED
  BY <1>1, <1>2, <1>3, RejectShape, AcceptShape

LEMMA ReleaseShape ==
  ASSUME Shape, NEW s \in Symbols, ReleaseLocal(s)
  PROVE  Shape'
<1> DEFINE ps == {Free(p, s) : p \in paths}
<1>1. Release(flow, s) \in Flows /\ Release(flow, s).visible = flow.visible
  BY StatementTypes, ReleaseFacts
<1>2. ps \in SUBSET Paths
  <2>1. \A p \in paths : Free(p, s) \in Paths
    BY StatementTypes, LeaveFacts DEF Free, Presence
  <2> QED
    BY <2>1
<1>3. Reject \/ Accept(Release(flow, s), ps, Unsound(s))
  BY DEF ReleaseLocal
<1>4. length' \in Nat
  BY StatementTypes DEF ReleaseLocal
<1> HIDE DEF ps
<1> QED
  BY <1>1, <1>2, <1>3, <1>4, StatementTypes, RejectShape, AcceptShape

LEMMA MovedType ==
  ASSUME Shape, NEW s \in Symbols
  PROVE  /\ Move(flow, s) \in Flows /\ Move(flow, s).visible = flow.visible
         /\ {Transfer(p, s) : p \in paths} \in SUBSET Paths
         /\ {Read(p, s) : p \in paths} \in SUBSET Paths
<1>1. \A p \in paths : Transfer(p, s) \in Paths /\ Read(p, s) \in Paths
  BY StatementTypes, TransferType, ReadFacts
<1> QED
  BY <1>1, StatementTypes, MoveFacts

LEMMA MoveOutShape ==
  ASSUME Shape, NEW s \in Symbols, PassArgument(s) \/ StoreGlobal(s)
  PROVE  Shape'
<1> DEFINE ps == {Transfer(p, s) : p \in paths}
           rs == {Read(p, s) : p \in paths}
<1>1. ps \in SUBSET Paths /\ rs \in SUBSET Paths
  BY MovedType
<1>2. \/ Reject
      \/ Accept(Move(flow, s), ps, Unsound(s))
      \/ Accept(flow, rs, Unsound(s))
  BY DEF PassArgument, StoreGlobal
<1>3. length' \in Nat
  BY StatementTypes DEF PassArgument, StoreGlobal
<1> HIDE DEF ps, rs
<1> QED
  BY <1>1, <1>2, <1>3, MovedType, StatementTypes, RejectShape, AcceptShape

LEMMA LendArgumentsShape ==
  ASSUME Shape, NEW o \in Symbols, NEW u \in Symbols,
         NEW m \in BorrowModes, NEW n \in BorrowModes, LendArguments(o, m, u, n)
  PROVE  Shape'
<1> DEFINE ps == {Lend(Lend(p, o, m), u, n) : p \in paths}
           b == Unsound(o) \/ Unsound(u) \/ (o = u /\ "exclusive" \in {m, n})
<1>1. ps \in SUBSET Paths /\ b \in BOOLEAN
  <2>1. \A p \in paths : Lend(Lend(p, o, m), u, n) \in Paths
    BY StatementTypes, LendType
  <2> QED
    BY <2>1, StatementTypes
<1>2. Reject \/ Accept(flow, ps, b)
  BY DEF LendArguments
<1>3. length' \in Nat
  BY StatementTypes DEF LendArguments
<1> HIDE DEF ps, b
<1> QED
  BY <1>1, <1>2, <1>3, StatementTypes, RejectShape, AcceptShape

LEMMA AbsorbFacts ==
  ASSUME NEW p \in Paths, NEW d \in Symbols, NEW V \in SUBSET (Symbols \X BorrowModes)
  PROVE  LET q == Absorb(p, d, V)
         IN  /\ q \in Paths
             /\ q.val = p.val
             /\ q.view = [p.view EXCEPT ![d] = p.view[d] \cup V]
             /\ q.stale = p.stale
BY DEF Absorb, Paths

LEMMA StoreIntoShape ==
  ASSUME Shape, NEW d \in Symbols, NEW s \in Symbols,
         StoreInto(d, s) \/ InitializePart(d, s)
  PROVE  Shape'
<1> DEFINE After(p) == Absorb(Transfer(Write(Read(p, d), d), s), d, p.view[s])
           ps == {After(p) : p \in paths}
           b == Unsound(d) \/ Unsound(s)
<1>1. ps \in SUBSET Paths /\ b \in BOOLEAN
  <2>1. \A p \in paths : Transfer(Write(Read(p, d), d), s) \in Paths
    BY StatementTypes, ReadFacts, WriteFacts, TransferType
  <2>2. \A p \in paths : After(p) \in Paths
    BY <2>1, StatementTypes, AbsorbFacts
  <2> QED
    BY <2>2, StatementTypes
<1>2. Reject \/ Accept(Move(flow, s), ps, b)
  BY DEF StoreInto, InitializePart, FillPart
<1>3. length' \in Nat
  BY StatementTypes DEF StoreInto, InitializePart
<1> HIDE DEF ps, b
<1> QED
  BY <1>1, <1>2, <1>3, MovedType, RejectShape, AcceptShape

LEMMA SwapShape ==
  ASSUME Shape, NEW x \in Symbols, NEW y \in Symbols, SwapPlaces(x, y)
  PROVE  Shape'
<1> DEFINE After(p) == Write(Write(Read(Read(p, x), y), x), y)
           ps == {After(p) : p \in paths}
           b == Unsound(x) \/ Unsound(y)
<1>1. ps \in SUBSET Paths /\ b \in BOOLEAN
  <2>1. \A p \in paths : Read(Read(p, x), y) \in Paths
    BY StatementTypes, ReadFacts
  <2>2. \A p \in paths : After(p) \in Paths
    BY <2>1, WriteFacts
  <2> QED
    BY <2>2, StatementTypes
<1>2. Reject \/ Accept(flow, ps, b)
  BY DEF SwapPlaces
<1>3. length' \in Nat
  BY StatementTypes DEF SwapPlaces
<1> HIDE DEF ps, b
<1> QED
  BY <1>1, <1>2, <1>3, StatementTypes, RejectShape, AcceptShape

-----------------------------------------------------------------------------
(* Types: leaving the function or an iteration                             *)

LEMMA StopShape ==
  ASSUME Shape, NEW f \in Flows, NEW b \in BOOLEAN,
         Stop(f, b), f.visible = flow.visible, length' \in Nat, UNCHANGED stack
  PROVE  Shape'
BY DEF Shape, TypeOK, Stop, ScopesNest, Top

LEMMA ReturnShape ==
  ASSUME Shape, NEW s \in Symbols, ReturnLocal(s) \/ ReturnBorrow(s)
  PROVE  Shape'
<1>1. length' \in Nat
  BY StatementTypes DEF ReturnLocal, ReturnBorrow
<1>2. CASE ReturnLocal(s)
  <2> DEFINE b == Unsound(s) \/ \E p \in paths : Escapes(p.view[s])
  <2>1. Reject \/ (Stop(Move(flow, s), b) /\ UNCHANGED stack)
    BY <1>2 DEF ReturnLocal
  <2>2. b \in BOOLEAN
    BY StatementTypes
  <2> HIDE DEF b
  <2> QED
    BY <1>1, <2>1, <2>2, MovedType, RejectShape, StopShape
<1>3. CASE ReturnBorrow(s)
  <2> DEFINE b == Unsound(s) \/ paths # {}
  <2>1. Reject \/ (Stop(flow, b) /\ UNCHANGED stack)
    BY <1>3 DEF ReturnBorrow
  <2>2. b \in BOOLEAN
    BY StatementTypes
  <2> HIDE DEF b
  <2> QED
    BY <1>1, <2>1, <2>2, StatementTypes, RejectShape, StopShape
<1> QED
  BY <1>2, <1>3

LEMMA ReturnNothingShape ==
  ASSUME Shape, ReturnNothing
  PROVE  Shape'
BY StatementTypes, StopShape DEF ReturnNothing

LEMMA WithJumpsType ==
  ASSUME NEW frame \in Frames, NEW ps \in SUBSET Paths
  PROVE  /\ WithJumps(frame, ps) \in Frames
         /\ WithJumps(frame, ps).entry = frame.entry
         /\ WithJumps(frame, ps).joins = frame.joins
         /\ WithJumps(frame, ps).joined = frame.joined
BY DEF WithJumps, Frames

LEMMA JumpShape ==
  ASSUME Shape, Jump
  PROVE  Shape'
<1>1. length' \in Nat /\ flow' = flow /\ falls' = FALSE /\ paths' = {}
      /\ fault' = (fault \/ FALSE) /\ UNCHANGED <<declared, verdict>>
  BY StatementTypes DEF Jump, Stop
<1>2. PICK i \in Loops : stack' = IF "jump edges" \in Constructs
                                  THEN [stack EXCEPT ![i] = WithJumps(stack[i], paths)]
                                  ELSE stack
  BY DEF Jump
<1>3. CASE "jump edges" \in Constructs
  <2>1. i \in DOMAIN stack /\ stack \in Seq(Frames) /\ stack[i] \in Frames
    BY DEF Loops, Shape, TypeOK
  <2>2. WithJumps(stack[i], paths) \in Frames
        /\ WithJumps(stack[i], paths).entry = stack[i].entry
        /\ WithJumps(stack[i], paths).joins = stack[i].joins
        /\ WithJumps(stack[i], paths).joined = stack[i].joined
    BY <2>1, WithJumpsType, StatementTypes
  <2>3. /\ stack' \in Seq(Frames) /\ Len(stack') = Len(stack) /\ DOMAIN stack' = DOMAIN stack
        /\ \A k \in DOMAIN stack : /\ stack'[k].entry = stack[k].entry
                                   /\ stack'[k].joins = stack[k].joins
                                   /\ stack'[k].joined = stack[k].joined
    <3>1. stack' = [stack EXCEPT ![i] = WithJumps(stack[i], paths)]
      BY <1>2, <1>3
    <3>2. stack' \in Seq(Frames) /\ Len(stack') = Len(stack)
      BY <2>1, <2>2, <3>1, ExceptSeq
    <3>3. \A k \in DOMAIN stack : /\ stack'[k].entry = stack[k].entry
                                  /\ stack'[k].joins = stack[k].joins
                                  /\ stack'[k].joined = stack[k].joined
      BY <2>1, <2>2, <3>1
    <3> QED
      BY <2>1, <3>1, <3>2, <3>3
  <2>4. TypeOK'
    BY <1>1, <2>3 DEF Shape, TypeOK
  <2>5. (stack' # <<>>) => stack # <<>> /\ stack'[Len(stack')].entry = stack[Len(stack)].entry
    BY <2>1, <2>3
  <2>6. ScopesNest'
    BY <1>1, <2>3, <2>5 DEF Shape, ScopesNest, Top
  <2> QED
    BY <2>4, <2>6 DEF Shape
<1>4. CASE "jump edges" \notin Constructs
  BY <1>1, <1>2, <1>4 DEF Shape, TypeOK, ScopesNest, Top
<1> QED
  BY <1>3, <1>4

-----------------------------------------------------------------------------
(* Types: blocks                                                           *)

\* What a step leaves to be typed when the stack changes.
RestTyped ==
  /\ flow' \in Flows
  /\ falls' \in BOOLEAN
  /\ verdict' \in {"open", "accepted", "rejected"}
  /\ length' \in Nat
  /\ paths' \in SUBSET Paths
  /\ fault' \in BOOLEAN

LEMMA PushShape ==
  ASSUME Shape, RestTyped, NEW frame \in Frames, stack' = Append(stack, frame),
         frame.entry = flow, ~frame.joins, flow' = flow, declared' = declared
  PROVE  Shape'
<1>1. stack \in Seq(Frames) /\ Len(stack) \in Nat /\ DOMAIN stack = 1 .. Len(stack)
  BY DEF Shape, TypeOK
<1>2. /\ stack' \in Seq(Frames)
      /\ Len(stack') = Len(stack) + 1
      /\ DOMAIN stack' = DOMAIN stack \cup {Len(stack) + 1}
      /\ stack'[Len(stack) + 1] = frame
      /\ \A i \in DOMAIN stack : stack'[i] = stack[i]
  BY <1>1, Pushed
<1>3. TypeOK'
  BY <1>2 DEF Shape, TypeOK, RestTyped
<1>4. Top' = frame
  BY <1>2 DEF Top
<1>5. \A i \in DOMAIN stack' : Params \subseteq stack'[i].entry.visible
        /\ (stack'[i].joins => stack'[i].joined.visible = stack'[i].entry.visible)
  BY <1>1, <1>2 DEF Shape, ScopesNest
<1>6. \A i \in DOMAIN stack' : i + 1 \in DOMAIN stack' =>
        stack'[i].entry.visible \subseteq stack'[i + 1].entry.visible
  <2>1. ASSUME NEW i \in DOMAIN stack', i + 1 \in DOMAIN stack'
        PROVE  stack'[i].entry.visible \subseteq stack'[i + 1].entry.visible
    <3>1. CASE i + 1 \in DOMAIN stack
      BY <1>1, <1>2, <2>1, <3>1 DEF Shape, ScopesNest
    <3>2. CASE i + 1 = Len(stack) + 1
      <4>1. i = Len(stack) /\ i \in DOMAIN stack /\ stack # <<>>
        BY <1>1, <1>2, <2>1, <3>2
      <4>2. stack'[i] = Top /\ stack'[i + 1] = frame
        BY <1>2, <3>2, <4>1 DEF Top
      <4> QED
        BY <4>1, <4>2 DEF Shape, ScopesNest
    <3> QED
      BY <1>2, <2>1, <3>1, <3>2
  <2> QED
    BY <2>1
<1>7. ScopesNest'
  BY <1>4, <1>5, <1>6 DEF Shape, ScopesNest
<1> QED
  BY <1>3, <1>7 DEF Shape

LEMMA PopShape ==
  ASSUME Shape, RestTyped, stack # <<>>, stack' = Below,
         flow'.visible = Top.entry.visible, declared' = declared
  PROVE  Shape'
<1>1. stack \in Seq(Frames) /\ Len(stack) \in Nat /\ DOMAIN stack = 1 .. Len(stack)
  BY DEF Shape, TypeOK
<1>2. /\ Len(stack) \in DOMAIN stack
      /\ stack' \in Seq(Frames)
      /\ Len(stack') = Len(stack) - 1
      /\ \A i \in DOMAIN stack' : i \in DOMAIN stack /\ stack'[i] = stack[i]
  BY <1>1, StackTop
<1>3. TypeOK'
  BY <1>2 DEF Shape, TypeOK, RestTyped
<1>4. flow'.visible \subseteq declared' /\ Params \subseteq flow'.visible
  BY <1>2 DEF Shape, ScopesNest, Top
<1>5. (stack' # <<>>) => Top'.entry.visible \subseteq flow'.visible
  <2>1. SUFFICES ASSUME stack' # <<>>
                 PROVE  Top'.entry.visible \subseteq flow'.visible
    OBVIOUS
  <2> DEFINE n == Len(stack')
  <2>2. n \in DOMAIN stack' /\ n + 1 = Len(stack)
    BY <1>1, <1>2, <2>1
  <2>3. stack[n].entry.visible \subseteq stack[n + 1].entry.visible
    BY <1>1, <1>2, <2>2 DEF Shape, ScopesNest
  <2>4. Top' = stack[n] /\ Top = stack[n + 1]
    BY <1>2, <2>2 DEF Top
  <2> QED
    BY <2>3, <2>4
<1>6. ScopesNest'
  <2>1. \A i \in DOMAIN stack' : i + 1 \in DOMAIN stack' => i + 1 \in DOMAIN stack
    BY <1>2
  <2> QED
    BY <1>2, <1>4, <1>5, <2>1 DEF Shape, ScopesNest
<1> QED
  BY <1>3, <1>6 DEF Shape

\* The innermost frame is replaced by one of the same statement.
LEMMA TurnShape ==
  ASSUME Shape, RestTyped, stack # <<>>, NEW frame \in Frames,
         stack' = Append(Below, frame), frame.entry = Top.entry,
         frame.joins => frame.joined.visible = frame.entry.visible,
         Top.entry.visible \subseteq flow'.visible, flow'.visible \subseteq declared',
         declared' \in SUBSET Symbols
  PROVE  Shape'
<1>1. stack \in Seq(Frames) /\ Len(stack) \in Nat /\ DOMAIN stack = 1 .. Len(stack)
  BY DEF Shape, TypeOK
<1>2. /\ Len(stack) \in DOMAIN stack
      /\ Below \in Seq(Frames)
      /\ Len(Below) = Len(stack) - 1
      /\ \A i \in DOMAIN Below : i \in DOMAIN stack /\ Below[i] = stack[i]
  BY <1>1, StackTop
<1>3. /\ stack' \in Seq(Frames)
      /\ Len(stack') = Len(stack)
      /\ DOMAIN stack' = DOMAIN stack
      /\ stack'[Len(stack)] = frame
      /\ \A i \in DOMAIN stack : i # Len(stack) => stack'[i] = stack[i]
  <2>1. /\ stack' \in Seq(Frames)
        /\ Len(stack') = Len(Below) + 1
        /\ stack'[Len(Below) + 1] = frame
        /\ \A i \in DOMAIN Below : stack'[i] = Below[i]
    BY <1>2, Pushed
  <2>2. Len(Below) + 1 = Len(stack) /\ DOMAIN Below = 1 .. Len(stack) - 1
    BY <1>1, <1>2
  <2>3. DOMAIN stack' = 1 .. Len(stack')
    BY <2>1
  <2>4. \A i \in DOMAIN stack : i # Len(stack) => i \in DOMAIN Below
    BY <1>1, <2>2
  <2> QED
    BY <1>1, <1>2, <2>1, <2>2, <2>3, <2>4
<1>4. TypeOK'
  BY <1>3 DEF Shape, TypeOK, RestTyped
<1>5. Top' = frame /\ frame.entry = stack[Len(stack)].entry
  BY <1>3 DEF Top
<1>6. \A i \in DOMAIN stack : stack'[i].entry = stack[i].entry
  BY <1>3, <1>5
<1>7. Params \subseteq flow'.visible
  BY <1>2, <1>5 DEF Shape, ScopesNest
<1>8. \A i \in DOMAIN stack' :
        /\ Params \subseteq stack'[i].entry.visible
        /\ stack'[i].joins => stack'[i].joined.visible = stack'[i].entry.visible
        /\ i + 1 \in DOMAIN stack' =>
             stack'[i].entry.visible \subseteq stack'[i + 1].entry.visible
  <2>1. ASSUME NEW i \in DOMAIN stack
        PROVE  /\ Params \subseteq stack'[i].entry.visible
               /\ stack'[i].joins => stack'[i].joined.visible = stack'[i].entry.visible
               /\ i + 1 \in DOMAIN stack =>
                    stack'[i].entry.visible \subseteq stack'[i + 1].entry.visible
    BY <1>3, <1>6, <2>1 DEF Shape, ScopesNest
  <2> QED
    BY <1>3, <2>1
<1>9. (stack' # <<>>) => Top'.entry.visible \subseteq flow'.visible
  BY <1>2, <1>5 DEF Top
<1>10. ScopesNest'
  BY <1>7, <1>8, <1>9 DEF ScopesNest
<1> QED
  BY <1>4, <1>10 DEF Shape

LEMMA TopTypes ==
  ASSUME Shape, stack # <<>>
  PROVE  /\ Top \in Frames /\ Top.entry \in Flows /\ Top.joined \in Flows
         /\ Top.entryPaths \in SUBSET Paths /\ Top.joinedPaths \in SUBSET Paths
         /\ Top.jumps \in SUBSET Paths /\ Top.joins \in BOOLEAN
         /\ Top.subject \in SUBSET Symbols
         /\ Top.entry.visible \subseteq flow.visible
         /\ Top.entry.visible \subseteq declared
         /\ Top.joins => Top.joined.visible = Top.entry.visible
         /\ MayRestrictTo(flow, Top.entry)
<1>1. Len(stack) \in DOMAIN stack /\ Top \in Frames
  BY StackTop DEF Shape, TypeOK
<1> QED
  BY <1>1 DEF Frames, Shape, ScopesNest, Top, MayRestrictTo

LEMMA KindType ==
  ASSUME NEW frame \in Frames, NEW k \in Kinds
  PROVE  LET g == [frame EXCEPT !.kind = k]
         IN  /\ g \in Frames
             /\ g.entry = frame.entry /\ g.entryPaths = frame.entryPaths
             /\ g.joins = frame.joins /\ g.joined = frame.joined
             /\ g.joinedPaths = frame.joinedPaths
             /\ g.jumps = frame.jumps /\ g.again = frame.again
BY DEF Frames

\* A join of an arm with the arms before it.
LEMMA JoinedFacts ==
  ASSUME NEW frame \in Frames, NEW f \in Flows, f.visible = frame.entry.visible,
         frame.joins => frame.joined.visible = frame.entry.visible
  PROVE  Joined(frame, f) \in Flows /\ Joined(frame, f).visible = frame.entry.visible
<1>1. frame.joined \in Flows
  BY DEF Frames
<1>2. CASE frame.joins
  <2>1. /\ Merge(frame.joined, f) \in Flows
        /\ Merge(frame.joined, f).visible = frame.joined.visible \cap f.visible
    BY <1>1, MergeFacts
  <2> QED
    BY <1>2, <2>1 DEF Joined
<1>3. CASE ~frame.joins
  BY <1>3 DEF Joined
<1> QED
  BY <1>2, <1>3

\* A frame that has joined one more arm.
WithArm(frame, f, ps) ==
  [frame EXCEPT !.joins = TRUE, !.joined = Joined(frame, f), !.joinedPaths = @ \cup ps]

LEMMA WithArmFacts ==
  ASSUME NEW frame \in Frames, NEW f \in Flows, f.visible = frame.entry.visible,
         NEW ps \in SUBSET Paths,
         frame.joins => frame.joined.visible = frame.entry.visible
  PROVE  LET g == WithArm(frame, f, ps)
         IN  /\ g \in Frames
             /\ g.entry = frame.entry /\ g.entryPaths = frame.entryPaths
             /\ g.joins = TRUE /\ g.joined = Joined(frame, f)
             /\ g.joined.visible = g.entry.visible
             /\ g.joinedPaths = frame.joinedPaths \cup ps
             /\ g.jumps = frame.jumps /\ g.again = frame.again
BY JoinedFacts DEF WithArm, Frames

LEMMA ArmEndFacts ==
  ASSUME Shape, stack # <<>>
  PROVE  LET g == ArmEnd(Top)
             left == RestrictTo(flow, Top.entry)
         IN  /\ g \in Frames /\ g.entry = Top.entry /\ g.entryPaths = Top.entryPaths
             /\ g.joins => g.joined.visible = g.entry.visible
             /\ left \in Flows /\ left.visible = Top.entry.visible
             /\ falls => g = WithArm(Top, left, paths)
             /\ ~falls => g = Top
<1> DEFINE left == RestrictTo(flow, Top.entry)
<1>1. left \in Flows /\ left.visible = Top.entry.visible
  BY TopTypes, StatementTypes, RestrictFacts
<1>2. ArmEnd(Top) = IF falls THEN WithArm(Top, left, paths) ELSE Top
  BY DEF ArmEnd, WithArm
<1> HIDE DEF left
<1>3. CASE falls
  <2>1. ArmEnd(Top) = WithArm(Top, left, paths)
    BY <1>2, <1>3
  <2>2. /\ Top \in Frames /\ paths \in SUBSET Paths
        /\ Top.joins => Top.joined.visible = Top.entry.visible
    BY TopTypes, StatementTypes
  <2>3. /\ WithArm(Top, left, paths) \in Frames
        /\ WithArm(Top, left, paths).entry = Top.entry
        /\ WithArm(Top, left, paths).entryPaths = Top.entryPaths
        /\ WithArm(Top, left, paths).joined.visible = Top.entry.visible
    <3> DEFINE g == WithArm(Top, left, paths)
    <3>1. /\ g \in Frames /\ g.entry = Top.entry /\ g.entryPaths = Top.entryPaths
          /\ g.joined.visible = g.entry.visible
      BY <1>1, <2>2, WithArmFacts
    <3> HIDE DEF g
    <3>2. g.joined.visible = Top.entry.visible
      BY <3>1
    <3> QED
      BY <3>1, <3>2 DEF g
  <2> QED
    BY <1>1, <1>3, <2>1, <2>3 DEF left
<1>4. CASE ~falls
  BY <1>1, <1>2, <1>4, TopTypes, StatementTypes DEF left
<1> QED
  BY <1>3, <1>4, StatementTypes

LEMMA OpenShape ==
  ASSUME Shape, OpenIf \/ OpenUnsafe \/ OpenComptime
  PROVE  Shape'
<1>1. PICK kind \in Kinds : Open(kind)
  BY DEF OpenIf, OpenUnsafe, OpenComptime, Kinds
<1>2. NewFrame(kind, {}) \in Frames /\ NewFrame(kind, {}).entry = flow
      /\ NewFrame(kind, {}).joins = FALSE
  BY NewFrameType DEF Shape, NewFrame
<1>3. RestTyped
  BY <1>1, StatementTypes DEF Open, RestTyped, Shape, TypeOK
<1> QED
  BY <1>1, <1>2, <1>3, PushShape DEF Open

LEMMA OnLapFacts ==
  ASSUME NEW p \in Paths, NEW n \in {0, 1}
  PROVE  LET q == OnLap(p, n)
         IN  q \in Paths /\ q.val = p.val /\ q.view = p.view /\ q.stale = p.stale
BY DEF OnLap, Paths

LEMMA OpenLoopShape ==
  ASSUME Shape, NEW kind \in {"while", "for"}, NEW m \in Symbols, OpenLoop(kind, m)
  PROVE  Shape'
<1> DEFINE again == IF "back edges" \in Constructs /\ Owned(m)
                    THEN {OnLap(Transfer(p, m), 1) : p \in paths} ELSE {}
           frame == [NewFrame(kind, {}) EXCEPT !.again = again]
<1>1. again \in SUBSET Paths
  <2>1. \A p \in paths : Transfer(p, m) \in Paths
    BY StatementTypes, TransferType
  <2>2. \A p \in paths : OnLap(Transfer(p, m), 1) \in Paths
    BY <2>1, OnLapFacts
  <2> QED
    BY <2>2
<1>2. /\ stack' = Append(stack, frame) /\ paths' = paths \cup again
      /\ UNCHANGED <<flow, falls, declared, verdict, fault>> /\ AtStatement
  BY DEF OpenLoop
<1> HIDE DEF again
<1>3. NewFrame(kind, {}) \in Frames /\ NewFrame(kind, {}).entry = flow
      /\ NewFrame(kind, {}).joins = FALSE
  BY NewFrameType DEF Shape, NewFrame, Kinds
<1>4. frame \in Frames /\ frame.entry = flow /\ frame.joins = FALSE
  BY <1>1, <1>3 DEF Frames
<1> HIDE DEF frame
<1>5. RestTyped
  BY <1>1, <1>2, StatementTypes DEF RestTyped, Shape, TypeOK
<1> QED
  BY <1>2, <1>4, <1>5, PushShape

LEMMA OpenMatchShape ==
  ASSUME Shape, NEW s \in Symbols, OpenMatch(s)
  PROVE  Shape'
<1> DEFINE after == {Read(p, s) : p \in paths}
           frame == [NewFrame("match", {s}) EXCEPT !.entryPaths = after]
<1>1. after \in SUBSET Paths /\ length' \in Nat
  BY StatementTypes, MovedType DEF OpenMatch
<1>2. \/ Reject
      \/ /\ stack' = Append(stack, frame) /\ paths' = after
         /\ fault' = (fault \/ Unsound(s))
         /\ UNCHANGED <<flow, falls, declared, verdict>>
  BY DEF OpenMatch
<1> HIDE DEF after
<1>3. NewFrame("match", {s}) \in Frames /\ NewFrame("match", {s}).entry = flow
      /\ NewFrame("match", {s}).joins = FALSE
  BY NewFrameType DEF Shape, NewFrame, Kinds
<1>4. frame \in Frames /\ frame.entry = flow /\ frame.joins = FALSE
  BY <1>1, <1>3 DEF Frames
<1> HIDE DEF frame
<1>5. CASE Reject
  BY <1>1, <1>5, RejectShape
<1>6. CASE ~Reject
  <2>1. fault' \in BOOLEAN
    BY <1>2, <1>6, StatementTypes
  <2>2. RestTyped
    BY <1>1, <1>2, <1>6, <2>1, StatementTypes DEF RestTyped, Shape, TypeOK
  <2> QED
    BY <1>2, <1>4, <1>6, <2>2, PushShape
<1> QED
  BY <1>5, <1>6

LEMMA AtEndTypes ==
  ASSUME Shape, NEW kinds, AtEnd(kinds)
  PROVE  stack # <<>> /\ length' \in Nat /\ declared' = declared
BY DEF Shape, TypeOK, AtEnd, Inside

LEMMA ElseShape ==
  ASSUME Shape, Else
  PROVE  Shape'
<1>1. stack # <<>> /\ length' \in Nat /\ declared' = declared
  BY AtEndTypes DEF Else
<1>2. CASE Reject
  BY <1>1, <1>2, RejectShape
<1>3. CASE ~Reject
  <2> DEFINE arm == ArmEnd(Top)
             frame == [arm EXCEPT !.kind = "else"]
  <2>1. /\ arm \in Frames /\ arm.entry = Top.entry
        /\ arm.joins => arm.joined.visible = arm.entry.visible
    BY <1>1, ArmEndFacts
  <2>2. /\ stack' = Append(Below, frame) /\ flow' = Top.entry /\ paths' = Top.entryPaths
        /\ falls' = TRUE /\ UNCHANGED <<verdict, fault>>
    BY <1>3 DEF Else
  <2> HIDE DEF arm
  <2>3. /\ frame \in Frames /\ frame.entry = Top.entry
        /\ frame.joins => frame.joined.visible = frame.entry.visible
    BY <2>1, KindType DEF Kinds
  <2> HIDE DEF frame
  <2>4. RestTyped
    BY <1>1, <2>2, TopTypes DEF RestTyped, Shape, TypeOK
  <2> QED
    BY <1>1, <2>2, <2>3, <2>4, TopTypes, StatementTypes, TurnShape
<1> QED
  BY <1>2, <1>3

LEMMA ResumeShape ==
  ASSUME Shape, stack # <<>>, length' \in Nat, declared' = declared,
         NEW frame \in Frames, Resume(frame), frame.entry = Top.entry,
         frame.joins => frame.joined.visible = frame.entry.visible
  PROVE  Shape'
<1>1. /\ frame.joined \in Flows /\ frame.entry \in Flows /\ frame.joins \in BOOLEAN
      /\ frame.joinedPaths \in SUBSET Paths
  BY DEF Frames
<1>2. flow' \in Flows /\ flow'.visible = Top.entry.visible
  BY <1>1 DEF Resume
<1>3. RestTyped
  BY <1>1, <1>2 DEF Resume, RestTyped, Shape, TypeOK
<1> QED
  BY <1>2, <1>3, PopShape DEF Resume

LEMMA EndIfShape ==
  ASSUME Shape, EndIf
  PROVE  Shape'
<1>1. stack # <<>> /\ length' \in Nat /\ declared' = declared
  BY AtEndTypes DEF EndIf
<1> DEFINE first == ArmEnd(Top)
           frame == WithArm(first, Top.entry, Top.entryPaths)
<1>2. Reject \/ Resume([first EXCEPT !.joins = TRUE, !.joined = Joined(first, Top.entry),
                                     !.joinedPaths = @ \cup Top.entryPaths])
  BY DEF EndIf
<1>3. Reject \/ Resume(frame)
  BY <1>2 DEF WithArm
<1>4. /\ first \in Frames /\ first.entry = Top.entry
      /\ first.joins => first.joined.visible = first.entry.visible
  BY <1>1, ArmEndFacts
<1> HIDE DEF first
<1>5. frame \in Frames /\ frame.entry = Top.entry /\ frame.joined.visible = frame.entry.visible
  <2>1. Top.entry \in Flows /\ Top.entryPaths \in SUBSET Paths
    BY <1>1, TopTypes
  <2> QED
    BY <1>4, <2>1, WithArmFacts
<1> HIDE DEF frame
<1> QED
  BY <1>1, <1>3, <1>5, RejectShape, ResumeShape

LEMMA EndElseShape ==
  ASSUME Shape, EndElse
  PROVE  Shape'
<1>1. stack # <<>> /\ length' \in Nat /\ declared' = declared
  BY AtEndTypes DEF EndElse
<1>2. Reject \/ Resume(ArmEnd(Top))
  BY DEF EndElse
<1>3. /\ ArmEnd(Top) \in Frames /\ ArmEnd(Top).entry = Top.entry
      /\ ArmEnd(Top).joins => ArmEnd(Top).joined.visible = ArmEnd(Top).entry.visible
  BY <1>1, ArmEndFacts
<1> QED
  BY <1>1, <1>2, <1>3, RejectShape, ResumeShape

LEMMA CloseLoopShape ==
  ASSUME Shape, stack # <<>>, length' \in Nat, declared' = declared,
         NEW last \in Flows, last.visible = Top.entry.visible,
         NEW ps \in SUBSET Paths, NEW b \in BOOLEAN, CloseLoop(last, ps, b)
  PROVE  Shape'
<1> DEFINE done == {OnLap(p, 0) : p \in ps}
           m == Merge(Top.entry, last)
<1>1. done \in SUBSET Paths
  <2>1. \A p \in ps : OnLap(p, 0) \in Paths
    BY OnLapFacts
  <2> QED
    BY <2>1
<1>2. m \in Flows /\ m.visible = Top.entry.visible
  <2>1. Top.entry \in Flows
    BY TopTypes
  <2>2. m \in Flows /\ m.visible = Top.entry.visible \cap last.visible
    BY <2>1, MergeFacts
  <2> QED
    BY <2>2
<1>3. \/ Reject
      \/ /\ flow' = (IF falls THEN m ELSE Top.entry)
         /\ paths' = Top.entryPaths \cup done \cup Top.jumps
         /\ falls' = TRUE /\ stack' = Below /\ fault' = (fault \/ b) /\ UNCHANGED verdict
  BY DEF CloseLoop
<1> HIDE DEF done, m
<1>4. CASE Reject
  BY <1>4, RejectShape
<1>5. CASE ~Reject
  <2>1. flow' \in Flows /\ flow'.visible = Top.entry.visible
    BY <1>2, <1>3, <1>5, TopTypes
  <2>2. fault' \in BOOLEAN
    BY <1>3, <1>5, StatementTypes
  <2>3. RestTyped
    BY <1>1, <1>3, <1>5, <2>1, <2>2, TopTypes DEF RestTyped, Shape, TypeOK
  <2> QED
    BY <1>3, <1>5, <2>1, <2>3, PopShape
<1> QED
  BY <1>4, <1>5

LEMMA EndWhileShape ==
  ASSUME Shape, EndWhile
  PROVE  Shape'
<1>1. stack # <<>> /\ length' \in Nat /\ declared' = declared
  BY AtEndTypes DEF EndWhile
<1> DEFINE left == RestrictTo(flow, Top.entry)
<1>2. left \in Flows /\ left.visible = Top.entry.visible
  BY <1>1, ArmEndFacts
<1>3. Reject \/ CloseLoop(left, paths, FALSE)
  BY DEF EndWhile
<1> HIDE DEF left
<1> QED
  BY <1>1, <1>2, <1>3, StatementTypes, RejectShape, CloseLoopShape

LEMMA EndForShape ==
  ASSUME Shape, NEW i \in Symbols, EndFor(i)
  PROVE  Shape'
<1>1. stack # <<>> /\ length' \in Nat /\ declared' = declared
  BY AtEndTypes DEF EndFor
<1> DEFINE left == RestrictTo(flow, Top.entry)
           f == Store(left, i, {})
           ps == {Assign(Read(p, i), i, {}) : p \in paths}
<1>2. left \in Flows /\ left.visible = Top.entry.visible
  BY <1>1, ArmEndFacts
<1>3. Reject \/ CloseLoop(f, ps, Unsound(i))
  BY DEF EndFor
<1> HIDE DEF left
<1>4. f \in Flows /\ f.visible = Top.entry.visible
  <2>1. {} \in SUBSET Origins
    OBVIOUS
  <2> QED
    BY <1>2, <2>1, StoreFacts
<1>5. ps \in SUBSET Paths
  <2>1. \A p \in paths : Read(p, i) \in Paths
    BY StatementTypes, ReadFacts
  <2>2. \A p \in paths : Assign(Read(p, i), i, {}) \in Paths
    BY <2>1, AssignFacts
  <2> QED
    BY <2>2
<1> HIDE DEF f, ps
<1> QED
  BY <1>1, <1>3, <1>4, <1>5, StatementTypes, RejectShape, CloseLoopShape

LEMMA EndBlockShape ==
  ASSUME Shape, EndBlock
  PROVE  Shape'
<1>1. stack # <<>> /\ length' \in Nat /\ declared' = declared
  BY AtEndTypes DEF EndBlock
<1> DEFINE left == RestrictTo(flow, Top.entry)
<1>2. left \in Flows /\ left.visible = Top.entry.visible
  BY <1>1, ArmEndFacts
<1>3. \/ Reject
      \/ /\ flow' = left /\ falls' = (falls \/ Top.kind = "comptime") /\ stack' = Below
         /\ UNCHANGED <<paths, verdict, fault>>
  BY DEF EndBlock
<1> HIDE DEF left
<1>4. CASE Reject
  BY <1>1, <1>4, RejectShape
<1>5. CASE ~Reject
  <2>1. falls' \in BOOLEAN
    BY <1>3, <1>5, StatementTypes
  <2>2. RestTyped
    BY <1>1, <1>2, <1>3, <1>5, <2>1 DEF RestTyped, Shape, TypeOK
  <2> QED
    BY <1>1, <1>2, <1>3, <1>5, <2>2, PopShape
<1> QED
  BY <1>4, <1>5

LEMMA OpenArmShape ==
  ASSUME Shape, NEW b \in Symbols, OpenArm(b)
  PROVE  Shape'
<1> DEFINE O == UNION {ValueOrigins(Top.entry, s) : s \in Top.subject}
           P == IF Carries(b) THEN O ELSE {}
           After(p) == Assign(p, b, UNION {p.view[s] : s \in Top.subject})
           ps == {After(p) : p \in Top.entryPaths}
           frame == [Top EXCEPT !.kind = "arm"]
<1>1. stack # <<>>
  BY DEF OpenArm, Inside
<1>2. /\ flow' = Declare(Top.entry, b, "init", P) /\ paths' = ps /\ falls' = TRUE
      /\ declared' = declared \cup {b} /\ stack' = Append(Below, frame)
      /\ UNCHANGED <<verdict, length, fault>>
  BY DEF OpenArm
<1>3. P \in SUBSET Origins
  <2>1. \A s \in Top.subject : ValueOrigins(Top.entry, s) \in SUBSET Origins
    BY <1>1, TopTypes, ValueOriginsType
  <2> QED
    BY <2>1
<1>4. ps \in SUBSET Paths
  <2>1. \A p \in Top.entryPaths : \A s \in Top.subject :
          p \in Paths /\ p.view[s] \in SUBSET (Symbols \X BorrowModes)
    BY <1>1, TopTypes DEF Paths
  <2>2. \A p \in Top.entryPaths :
          UNION {p.view[s] : s \in Top.subject} \in SUBSET (Symbols \X BorrowModes)
    BY <2>1
  <2>3. \A p \in Top.entryPaths : After(p) \in Paths
    BY <1>1, <2>2, TopTypes, AssignFacts
  <2> QED
    BY <2>3
<1> HIDE DEF O, P, ps
<1>5. /\ frame \in Frames /\ frame.entry = Top.entry
      /\ frame.joins => frame.joined.visible = frame.entry.visible
  BY <1>1, TopTypes, KindType DEF Kinds
<1> HIDE DEF frame
<1>6. flow' \in Flows /\ flow'.visible = Top.entry.visible \cup {b}
  BY <1>1, <1>2, <1>3, TopTypes, DeclareFacts DEF ValueStates
<1>7. RestTyped
  BY <1>2, <1>4, <1>6 DEF RestTyped, Shape, TypeOK
<1>8. declared' \in SUBSET Symbols /\ flow'.visible \subseteq declared'
  BY <1>1, <1>2, <1>6, TopTypes, StatementTypes
<1> QED
  BY <1>1, <1>2, <1>5, <1>6, <1>7, <1>8, TurnShape

LEMMA OpenPlainArmShape ==
  ASSUME Shape, OpenPlainArm
  PROVE  Shape'
<1> DEFINE frame == [Top EXCEPT !.kind = "arm"]
<1>1. stack # <<>> /\ length' \in Nat /\ declared' = declared
  BY AtEndTypes DEF OpenPlainArm
<1>2. /\ frame \in Frames /\ frame.entry = Top.entry
      /\ frame.joins => frame.joined.visible = frame.entry.visible
  BY <1>1, TopTypes, KindType DEF Kinds
<1>3. /\ flow' = Top.entry /\ paths' = Top.entryPaths /\ falls' = TRUE
      /\ stack' = Append(Below, frame) /\ UNCHANGED <<verdict, fault>>
  BY DEF OpenPlainArm
<1> HIDE DEF frame
<1>4. RestTyped
  BY <1>1, <1>3, TopTypes DEF RestTyped, Shape, TypeOK
<1> QED
  BY <1>1, <1>2, <1>3, <1>4, TopTypes, StatementTypes, TurnShape

LEMMA EndArmShape ==
  ASSUME Shape, EndArm
  PROVE  Shape'
<1> DEFINE arm == ArmEnd(Top)
           frame == [arm EXCEPT !.kind = "arms"]
<1>1. stack # <<>> /\ length' \in Nat /\ declared' = declared
  BY AtEndTypes DEF EndArm
<1>2. /\ arm \in Frames /\ arm.entry = Top.entry
      /\ arm.joins => arm.joined.visible = arm.entry.visible
  BY <1>1, ArmEndFacts
<1>3. \/ Reject
      \/ stack' = Append(Below, frame) /\ UNCHANGED <<flow, falls, paths, verdict, fault>>
  BY DEF EndArm
<1> HIDE DEF arm
<1>4. /\ frame \in Frames /\ frame.entry = Top.entry
      /\ frame.joins => frame.joined.visible = frame.entry.visible
  BY <1>2, KindType DEF Kinds
<1> HIDE DEF frame
<1>5. CASE Reject
  BY <1>1, <1>5, RejectShape
<1>6. CASE ~Reject
  <2>1. RestTyped
    BY <1>1, <1>3, <1>6 DEF RestTyped, Shape, TypeOK
  <2> QED
    BY <1>1, <1>3, <1>4, <1>6, <2>1, TopTypes, StatementTypes, TurnShape
<1> QED
  BY <1>5, <1>6

LEMMA EndMatchShape ==
  ASSUME Shape, EndMatch
  PROVE  Shape'
<1>1. stack # <<>> /\ length' \in Nat /\ declared' = declared
  BY AtEndTypes DEF EndMatch
<1> QED
  BY <1>1, TopTypes, ResumeShape DEF EndMatch

LEMMA FinishShape ==
  ASSUME Shape, Finish
  PROVE  Shape'
<1>1. length' \in Nat /\ stack = <<>>
  BY DEF Finish, Shape, TypeOK
<1>2. \/ Reject
      \/ /\ verdict' = "accepted" /\ flow' = RestrictTo(flow, EntryFlow)
         /\ UNCHANGED <<falls, stack, declared, paths, fault>>
  BY DEF Finish
<1>3. /\ RestrictTo(flow, EntryFlow) \in Flows
      /\ RestrictTo(flow, EntryFlow).visible = Params
  BY StatementTypes, EntryTypes, RestrictFacts DEF EntryFlow
<1>4. CASE Reject
  BY <1>1, <1>4, RejectShape
<1>5. CASE ~Reject
  <2>1. TypeOK'
    BY <1>1, <1>2, <1>3, <1>5 DEF Shape, TypeOK
  <2>2. ScopesNest'
    BY <1>1, <1>2, <1>3, <1>5 DEF Shape, ScopesNest
  <2> QED
    BY <2>1, <2>2 DEF Shape
<1> QED
  BY <1>4, <1>5

LEMMA NextShape ==
  ASSUME Shape, [Next]_vars
  PROVE  Shape'
<1>1. CASE Simple
  <2>1. PICK s \in Symbols :
          \/ DeclareLocal(s) \/ UseLocal(s) \/ Capture(s) \/ AssignFresh(s)
          \/ ReleaseLocal(s) \/ PassArgument(s) \/ StoreGlobal(s)
    BY <1>1 DEF Simple
  <2> QED
    BY <2>1, DeclareShape, UseShape, AssignFreshShape, ReleaseShape, MoveOutShape
<1>2. CASE Paired
  <2>1. PICK d \in Symbols, s \in Symbols :
          \/ AssignFrom(d, s)
          \/ \E mode \in BorrowModes : AssignBorrow(d, s, mode)
          \/ \E t \in Symbols : BuildFrom(d, s, t)
          \/ \E m, n \in BorrowModes : LendArguments(d, m, s, n)
          \/ StoreInto(d, s)
          \/ InitializePart(d, s)
          \/ SwapPlaces(d, s)
    BY <1>2 DEF Paired
  <2> QED
    BY <2>1, AssignFromShape, AssignBorrowShape, BuildFromShape, LendArgumentsShape,
       StoreIntoShape, SwapShape
<1>3. CASE Departure
  BY <1>3, ReturnShape, ReturnNothingShape, JumpShape DEF Departure
<1>4. CASE Branch
  <2>1. CASE OpenIf
    BY <2>1, OpenShape
  <2>2. CASE \E s \in Symbols : OpenMatch(s) \/ OpenArm(s)
    BY <2>2, OpenMatchShape, OpenArmShape
  <2> QED
    BY <1>4, <2>1, <2>2, ElseShape, EndIfShape, EndElseShape, OpenPlainArmShape,
       EndArmShape, EndMatchShape DEF Branch
<1>5. CASE Loop
  BY <1>5, OpenLoopShape, EndForShape, EndWhileShape DEF Loop
<1>6. CASE OpenUnsafe \/ OpenComptime
  BY <1>6, OpenShape
<1>7. CASE UNCHANGED vars
  BY <1>7 DEF vars, Shape, TypeOK, ScopesNest, Top
<1> QED
  BY <1>1, <1>2, <1>3, <1>4, <1>5, <1>6, <1>7, EndBlockShape, FinishShape DEF Next

\* The driver keeps its types, and scopes nest: at the end of every block each
\* symbol that was visible at its start is still there (FlowState!MayRestrictTo
\* never refuses), whatever function is being walked.
THEOREM TypeCorrect == Spec => [](TypeOK /\ ScopesNest)
<1>1. Init => Shape
  BY InitShape
<1>2. Shape /\ [Next]_vars => Shape'
  BY NextShape
<1>3. Shape => TypeOK /\ ScopesNest
  BY DEF Shape
<1> QED
  BY <1>1, <1>2, <1>3, PTL DEF Spec

-----------------------------------------------------------------------------
(***************************************************************************)
(* The two invariants of the borrows themselves: an exclusive borrow is    *)
(* alone at its owner, and a borrow has a carrier that may still hold the  *)
(* view.  Neither speaks of executions: they hold of every flow state the  *)
(* driver keeps, the current one and those of the frames.                  *)
(***************************************************************************)
Alone(f) ==
  \A o \in Symbols : \A b, c \in BorrowsOf(f, o) : b.kind = "exclusive" => b = c

Gone == {"uninit", "moved", "freed"}

Backed(f) ==
  \A o \in Symbols : \A b \in BorrowsOf(f, o) :
    /\ b.carrier \in f.visible
    /\ Value(f, b.carrier) \notin Gone
    /\ \E m \in BorrowModes : <<o, m>> \in OriginsOf(f, b.carrier)

Tight(f) == Alone(f) /\ Backed(f)

\* Every flow state the driver keeps is tight.
AllTight ==
  /\ Tight(flow)
  /\ \A i \in DOMAIN stack : Tight(stack[i].entry) /\ Tight(stack[i].joined)

-----------------------------------------------------------------------------
(* The operations of FlowState                                             *)

LEMMA TightEntry == Tight(EntryFlow) /\ Tight(EmptyFlow)
BY DEF Tight, Alone, Backed, EntryFlow, EmptyFlow, NoLocal, BorrowsOf

LEMMA CarrierType ==
  ASSUME NEW f \in Flows, NEW o \in Symbols, NEW b \in BorrowsOf(f, o)
  PROVE  b.carrier \in Symbols
BY LocalType DEF Borrows

LEMMA TightDeclare ==
  ASSUME NEW f \in Flows, NEW s \in Symbols, NEW v \in ValueStates, NEW O \in SUBSET Origins,
         Tight(f), s \notin f.visible
  PROVE  Tight(Declare(f, s, v, O))
<1> DEFINE g == Declare(f, s, v, O)
<1>1. /\ g.visible = f.visible \cup {s}
      /\ \A t \in Symbols :
           /\ Value(g, t) = IF t = s THEN v ELSE Value(f, t)
           /\ BorrowsOf(g, t) = IF t = s THEN {} ELSE BorrowsOf(f, t)
           /\ OriginsOf(g, t) = IF t = s THEN O ELSE OriginsOf(f, t)
  BY DeclareFacts
<1> HIDE DEF g
<1>2. Alone(g)
  BY <1>1 DEF Tight, Alone
<1>3. Backed(g)
  BY <1>1, CarrierType DEF Tight, Backed
<1> QED
  BY <1>2, <1>3 DEF g, Tight

\* A local that loses its value loses the borrows it carries in the same step.
LEMMA TightLose ==
  ASSUME NEW f \in Flows, NEW g \in Flows, NEW s \in Symbols, Tight(f),
         g.visible = f.visible,
         \A t \in Symbols :
           /\ t # s => Value(g, t) = Value(f, t)
           /\ BorrowsOf(g, t) = {b \in BorrowsOf(f, t) : b.carrier # s}
           /\ t # s => OriginsOf(g, t) = OriginsOf(f, t)
  PROVE  Tight(g)
<1>1. Alone(g)
  BY DEF Tight, Alone
<1>2. Backed(g)
  BY CarrierType DEF Tight, Backed
<1> QED
  BY <1>1, <1>2 DEF Tight

LEMMA TightMove ==
  ASSUME NEW f \in Flows, NEW s \in Symbols, Tight(f)
  PROVE  Tight(Move(f, s)) /\ Move(f, s) \in Flows /\ Move(f, s).visible = f.visible
<1> DEFINE g == Move(f, s)
<1>1. /\ g \in Flows /\ g.visible = f.visible
      /\ ~Consumes(f, s) => g = f
      /\ Consumes(f, s) =>
           \A t \in Symbols :
             /\ Value(g, t) = IF t = s THEN "moved" ELSE Value(f, t)
             /\ BorrowsOf(g, t) = {b \in BorrowsOf(f, t) : b.carrier # s}
             /\ OriginsOf(g, t) = IF t = s THEN {} ELSE OriginsOf(f, t)
  BY MoveFacts
<1> HIDE DEF g
<1>2. Tight(g)
  BY <1>1, TightLose
<1> QED
  BY <1>1, <1>2 DEF g

LEMMA TightRelease ==
  ASSUME NEW f \in Flows, NEW s \in Symbols, Tight(f)
  PROVE  Tight(Release(f, s))
<1> DEFINE g == Release(f, s)
<1>1. /\ g \in Flows /\ g.visible = f.visible
      /\ \A t \in Symbols :
           /\ Value(g, t) = IF t = s THEN "freed" ELSE Value(f, t)
           /\ BorrowsOf(g, t) = {b \in BorrowsOf(f, t) : b.carrier # s}
           /\ OriginsOf(g, t) = IF t = s THEN {} ELSE OriginsOf(f, t)
  BY ReleaseFacts
<1> HIDE DEF g
<1>2. Tight(g)
  BY <1>1, TightLose
<1> QED
  BY <1>2 DEF g

\* The borrows an accepted assignment starts at one owner.
LEMMA StartedFacts ==
  ASSUME NEW r, NEW d \in Symbols, NEW o \in Symbols, NEW O \in SUBSET Origins,
         MayCarry(r, d, O)
  PROVE  \A b \in Started(r, d, o, O) :
           /\ b.carrier = d
           /\ \E m \in BorrowModes : <<o, m>> \in O
           /\ ~HasExclusive(BorrowsOf(r, o))
           /\ b.kind = "exclusive" => /\ BorrowsOf(r, o) = {}
                                      /\ \A c \in Started(r, d, o, O) : b = c
<1> SUFFICES ASSUME NEW b \in Started(r, d, o, O)
             PROVE  /\ b.carrier = d
                    /\ \E m \in BorrowModes : <<o, m>> \in O
                    /\ ~HasExclusive(BorrowsOf(r, o))
                    /\ b.kind = "exclusive" => /\ BorrowsOf(r, o) = {}
                                               /\ \A c \in Started(r, d, o, O) : b = c
  OBVIOUS
<1>1. PICK x \in LocalOrigins(O) : /\ x[1] = o
        /\ b = [id |-> r.next, carrier |-> d, kind |-> ModeFor(d, x[2])]
  BY DEF Started
<1>2. /\ MayUse(r, o)
      /\ ModeFor(d, x[2]) = "exclusive" =>
           /\ BorrowsOf(r, o) = {}
           /\ \A y \in LocalOrigins(O) : y[1] = o => y = x
  BY <1>1 DEF MayCarry
<1>3. \E m \in BorrowModes : <<o, m>> \in O
  BY <1>1 DEF LocalOrigins, Origins
<1>4. ASSUME b.kind = "exclusive", NEW c \in Started(r, d, o, O)
      PROVE  b = c
  <2>1. PICK y \in LocalOrigins(O) : /\ y[1] = o
          /\ c = [id |-> r.next, carrier |-> d, kind |-> ModeFor(d, y[2])]
    BY DEF Started
  <2> QED
    BY <1>1, <1>2, <1>4, <2>1
<1> QED
  BY <1>1, <1>2, <1>3, <1>4 DEF MayUse

LEMMA TightStore ==
  ASSUME NEW f \in Flows, NEW d \in Symbols, NEW O \in SUBSET Origins,
         Tight(f), MayStore(f, d, O)
  PROVE  Tight(Store(f, d, O))
<1> DEFINE g == Store(f, d, O)
           r == Replaced(f, d, O)
           new(t) == IF Carries(d) THEN Started(r, d, t, O) ELSE {}
<1>1. /\ g.visible = f.visible
      /\ \A t \in Symbols :
           /\ BorrowsOf(r, t) = {b \in BorrowsOf(f, t) : b.carrier # d}
           /\ Value(g, t) = IF t = d THEN "init" ELSE Value(f, t)
           /\ BorrowsOf(g, t) = BorrowsOf(r, t) \cup new(t)
           /\ OriginsOf(g, t) = IF t = d THEN O ELSE OriginsOf(f, t)
  BY StoreFacts
<1>2. d \in f.visible
  BY DEF MayStore, MayAssign
<1>3. \A t \in Symbols : \A b \in new(t) :
        /\ b.carrier = d
        /\ \E m \in BorrowModes : <<t, m>> \in O
        /\ ~HasExclusive(BorrowsOf(r, t))
        /\ b.kind = "exclusive" => /\ BorrowsOf(r, t) = {}
                                   /\ \A c \in new(t) : b = c
  <2>1. CASE Carries(d)
    <3>1. MayCarry(r, d, O)
      BY <2>1 DEF MayStore
    <3> HIDE DEF r, new
    <3>2. ASSUME NEW t \in Symbols
          PROVE  \A b \in Started(r, d, t, O) :
                   /\ b.carrier = d
                   /\ \E m \in BorrowModes : <<t, m>> \in O
                   /\ ~HasExclusive(BorrowsOf(r, t))
                   /\ b.kind = "exclusive" => /\ BorrowsOf(r, t) = {}
                                              /\ \A c \in Started(r, d, t, O) : b = c
      BY <3>1, StartedFacts
    <3>3. \A t \in Symbols : new(t) = Started(r, d, t, O)
      BY <2>1 DEF new
    <3> QED
      BY <3>2, <3>3
  <2>2. CASE ~Carries(d)
    BY <2>2
  <2> QED
    BY <2>1, <2>2
<1> HIDE DEF g, r, new
<1>4. Alone(g)
  <2>1. ASSUME NEW o \in Symbols, NEW b \in BorrowsOf(g, o), NEW c \in BorrowsOf(g, o),
               b.kind = "exclusive"
        PROVE  b = c
    <3>1. CASE b \in new(o)
      BY <1>1, <1>3, <2>1, <3>1
    <3>2. CASE b \notin new(o)
      <4>1. b \in BorrowsOf(r, o)
        BY <1>1, <3>2
      <4>2. c \in BorrowsOf(r, o)
        BY <1>1, <1>3, <2>1, <4>1 DEF HasExclusive
      <4> QED
        BY <1>1, <2>1, <4>1, <4>2 DEF Tight, Alone
    <3> QED
      BY <3>1, <3>2
  <2> QED
    BY <2>1 DEF Alone
<1>5. Backed(g)
  <2>1. ASSUME NEW o \in Symbols, NEW b \in BorrowsOf(g, o)
        PROVE  /\ b.carrier \in g.visible
               /\ Value(g, b.carrier) \notin Gone
               /\ \E m \in BorrowModes : <<o, m>> \in OriginsOf(g, b.carrier)
    <3>1. CASE b \in new(o)
      BY <1>1, <1>2, <1>3, <3>1 DEF Gone
    <3>2. CASE b \notin new(o)
      <4>1. b \in BorrowsOf(f, o) /\ b.carrier # d
        BY <1>1, <3>2
      <4> QED
        BY <1>1, <4>1, CarrierType DEF Tight, Backed
    <3> QED
      BY <3>1, <3>2
  <2> QED
    BY <2>1 DEF Backed
<1> QED
  BY <1>4, <1>5 DEF g, Tight

LEMMA TightMerge ==
  ASSUME NEW f \in Flows, NEW g \in Flows, Tight(f), Tight(g),
         f.visible = g.visible, MayMerge(f, g)
  PROVE  Tight(Merge(f, g))
<1> DEFINE h == Merge(f, g)
<1>1. /\ h.visible = f.visible
      /\ \A t \in h.visible :
           /\ Value(h, t) = MergeValues(Value(f, t), Value(g, t))
           /\ BorrowsOf(h, t) = BorrowsOf(f, t) \cup BorrowsOf(g, t)
           /\ OriginsOf(h, t) = OriginsOf(f, t) \cup OriginsOf(g, t)
  <2>1. /\ h.visible = f.visible \cap g.visible
        /\ \A t \in h.visible :
             /\ Value(h, t) = MergeValues(Value(f, t), Value(g, t))
             /\ BorrowsOf(h, t) = BorrowsOf(f, t) \cup BorrowsOf(g, t)
             /\ OriginsOf(h, t) = OriginsOf(f, t) \cup OriginsOf(g, t)
    BY MergeFacts
  <2> HIDE DEF h
  <2> QED
    BY <2>1
<1>2. \A t \in Symbols \ h.visible : BorrowsOf(h, t) = {}
  BY DEF Merge, NoLocal, BorrowsOf
<1>3. h.visible \in SUBSET Symbols
  BY <1>1, FlowType
<1>4. \A t \in h.visible : MayMergeBorrows(BorrowsOf(f, t), BorrowsOf(g, t))
  BY <1>1 DEF MayMerge
<1>5. \A v, w \in ValueStates : v \notin Gone \/ w \notin Gone => MergeValues(v, w) \notin Gone
  BY DEF ValueStates, Gone, MergeValues, MaybeOf
<1> HIDE DEF h
<1>6. Alone(h)
  <2>1. ASSUME NEW o \in h.visible, NEW b \in BorrowsOf(h, o), NEW c \in BorrowsOf(h, o),
               b.kind = "exclusive"
        PROVE  b = c
    <3>1. b \in BorrowsOf(f, o) \cup BorrowsOf(g, o) /\ c \in BorrowsOf(f, o) \cup BorrowsOf(g, o)
      BY <1>1
    <3>2. /\ \A x, y \in BorrowsOf(f, o) : x.kind = "exclusive" => x = y
          /\ \A x, y \in BorrowsOf(g, o) : x.kind = "exclusive" => x = y
      BY <1>3 DEF Tight, Alone
    <3>3. \/ BorrowsOf(f, o) = {} \/ BorrowsOf(g, o) = {}
          \/ BorrowsOf(f, o) = BorrowsOf(g, o)
      BY <1>4, <2>1, <3>1 DEF MayMergeBorrows, HasExclusive
    <3> QED
      BY <2>1, <3>1, <3>2, <3>3
  <2> QED
    BY <1>2, <2>1 DEF Alone
<1>7. Backed(h)
  <2>1. ASSUME NEW o \in h.visible, NEW b \in BorrowsOf(h, o)
        PROVE  /\ b.carrier \in h.visible
               /\ Value(h, b.carrier) \notin Gone
               /\ \E m \in BorrowModes : <<o, m>> \in OriginsOf(h, b.carrier)
    <3>1. o \in Symbols
      BY <1>3
    <3>2. \/ /\ b.carrier \in f.visible /\ Value(f, b.carrier) \notin Gone
             /\ \E m \in BorrowModes : <<o, m>> \in OriginsOf(f, b.carrier)
          \/ /\ b.carrier \in g.visible /\ Value(g, b.carrier) \notin Gone
             /\ \E m \in BorrowModes : <<o, m>> \in OriginsOf(g, b.carrier)
      BY <1>1, <3>1 DEF Tight, Backed
    <3>3. b.carrier \in h.visible /\ b.carrier \in Symbols
      BY <1>1, <1>3, <3>2
    <3>4. Value(f, b.carrier) \in ValueStates /\ Value(g, b.carrier) \in ValueStates
      BY <3>3, LocalType
    <3> QED
      BY <1>1, <1>5, <3>2, <3>3, <3>4
  <2> QED
    BY <1>2, <2>1 DEF Backed
<1> QED
  BY <1>6, <1>7 DEF h, Tight

LEMMA TightRestrict ==
  ASSUME NEW f \in Flows, NEW e \in Flows, Tight(f)
  PROVE  Tight(RestrictTo(f, e))
<1> DEFINE g == RestrictTo(f, e)
<1>1. /\ g.visible = e.visible
      /\ \A t \in g.visible :
           /\ Value(g, t) = Value(f, t)
           /\ BorrowsOf(g, t) = {b \in BorrowsOf(f, t) : b.carrier \notin f.visible \ e.visible}
           /\ OriginsOf(g, t) = OriginsOf(f, t)
  BY RestrictFacts
<1>2. \A t \in Symbols \ g.visible : BorrowsOf(g, t) = {}
  BY DEF RestrictTo, NoLocal, BorrowsOf
<1>3. g.visible \in SUBSET Symbols
  BY <1>1, FlowType
<1> HIDE DEF g
<1>4. Alone(g)
  BY <1>1, <1>2, <1>3 DEF Tight, Alone
<1>5. Backed(g)
  BY <1>1, <1>2, <1>3 DEF Tight, Backed
<1> QED
  BY <1>4, <1>5 DEF g, Tight

-----------------------------------------------------------------------------
(* The steps of the driver                                                 *)

LEMMA RejectTight ==
  ASSUME AllTight, Reject
  PROVE  AllTight'
BY DEF AllTight, Reject

\* A step that leaves the stack alone is tight when its flow is.
LEMMA StepTight ==
  ASSUME AllTight, UNCHANGED stack, Tight(flow')
  PROVE  AllTight'
BY DEF AllTight

LEMMA AcceptTight ==
  ASSUME AllTight, NEW f, NEW ps, NEW b, Accept(f, ps, b), Tight(f)
  PROVE  AllTight'
<1>1. flow' = f /\ UNCHANGED stack
  BY DEF Accept
<1> QED
  BY <1>1, StepTight

LEMMA CurrentTight ==
  ASSUME Shape, AllTight
  PROVE  flow \in Flows /\ Tight(flow)
BY StatementTypes DEF AllTight

LEMMA DeclareTight ==
  ASSUME Shape, AllTight, NEW s \in Symbols, DeclareLocal(s)
  PROVE  AllTight'
<1>1. flow' = Declare(flow, s, "uninit", {}) /\ UNCHANGED stack /\ s \notin flow.visible
  BY StatementTypes DEF DeclareLocal
<1>2. {} \in SUBSET Origins /\ "uninit" \in ValueStates
  BY DEF ValueStates
<1>3. Tight(Declare(flow, s, "uninit", {}))
  BY <1>1, <1>2, CurrentTight, TightDeclare
<1> QED
  BY <1>1, <1>3, StepTight

LEMMA LookTight ==
  ASSUME Shape, AllTight, NEW s \in Symbols, NEW t \in Symbols,
         NEW m \in BorrowModes, NEW n \in BorrowModes,
         UseLocal(s) \/ Capture(s) \/ LendArguments(s, m, t, n) \/ SwapPlaces(s, t)
  PROVE  AllTight'
<1>1. Reject \/ (flow' = flow /\ UNCHANGED stack)
  BY DEF UseLocal, Capture, LendArguments, SwapPlaces, Accept
<1> QED
  BY <1>1, CurrentTight, RejectTight, StepTight

LEMMA AssignTight ==
  ASSUME Shape, AllTight, NEW d \in Symbols, NEW s \in Symbols, NEW t \in Symbols,
         NEW mode \in BorrowModes,
         AssignFresh(d) \/ AssignFrom(d, s) \/ AssignBorrow(d, s, mode) \/ BuildFrom(d, s, t)
  PROVE  AllTight'
<1> DEFINE one == Move(flow, s)
           two == Move(one, t)
           O == BorrowOrigins(flow, s, mode)
           P == ValueOrigins(flow, s)
           Q == OriginsOf(flow, s) \cup OriginsOf(one, t)
<1>1. one \in Flows /\ Tight(one)
  BY CurrentTight, TightMove
<1>2. two \in Flows /\ Tight(two) /\ Q \in SUBSET Origins
  <2> HIDE DEF one
  <2> QED
    BY <1>1, CurrentTight, TightMove, LocalType
<1>3. O \in SUBSET Origins /\ P \in SUBSET Origins /\ {} \in SUBSET Origins
  BY CurrentTight, BorrowOriginsType, ValueOriginsType
<1>4. \/ Reject
      \/ /\ UNCHANGED stack
         /\ \/ flow' = Store(flow, d, {}) /\ MayStore(flow, d, {})
            \/ flow' = Store(one, d, P) /\ MayStore(one, d, P)
            \/ flow' = Store(flow, d, O) /\ MayStore(flow, d, O)
            \/ flow' = Store(two, d, Q) /\ MayStore(two, d, Q)
  BY DEF AssignFresh, AssignFrom, AssignBorrow, BuildFrom, Accept
<1> HIDE DEF one, two, O, P, Q
<1>5. CASE Reject
  BY <1>5, RejectTight
<1>6. CASE ~Reject
  <2>1. Tight(flow')
    BY <1>1, <1>2, <1>3, <1>4, <1>6, CurrentTight, TightStore
  <2> QED
    BY <1>4, <1>6, <2>1, StepTight
<1> QED
  BY <1>5, <1>6

LEMMA LoseTight ==
  ASSUME Shape, AllTight, NEW s \in Symbols, NEW d \in Symbols,
         \/ ReleaseLocal(s) \/ PassArgument(s) \/ StoreGlobal(s) \/ StoreInto(d, s)
         \/ InitializePart(d, s) \/ ReturnLocal(s) \/ ReturnBorrow(s)
  PROVE  AllTight'
<1>1. \/ Reject
      \/ /\ UNCHANGED stack
         /\ flow' = flow \/ flow' = Move(flow, s) \/ flow' = Release(flow, s)
  BY DEF ReleaseLocal, PassArgument, StoreGlobal, StoreInto, InitializePart, FillPart,
         ReturnLocal, ReturnBorrow, Accept, Stop
<1>2. Tight(Move(flow, s)) /\ Tight(Release(flow, s))
  BY CurrentTight, TightMove, TightRelease
<1> QED
  BY <1>1, <1>2, CurrentTight, RejectTight, StepTight

LEMMA JumpTight ==
  ASSUME Shape, AllTight, Jump
  PROVE  AllTight'
<1>1. flow' = flow
  BY DEF Jump, Stop
<1>2. PICK i \in Loops : stack' = IF "jump edges" \in Constructs
                                  THEN [stack EXCEPT ![i] = WithJumps(stack[i], paths)]
                                  ELSE stack
  BY DEF Jump
<1>3. i \in DOMAIN stack /\ stack[i] \in Frames
  BY DEF Loops, Shape, TypeOK
<1>4. /\ WithJumps(stack[i], paths).entry = stack[i].entry
      /\ WithJumps(stack[i], paths).joined = stack[i].joined
  BY <1>3, WithJumpsType, StatementTypes
<1>5. /\ DOMAIN stack' = DOMAIN stack
      /\ \A k \in DOMAIN stack : /\ stack'[k].entry = stack[k].entry
                                 /\ stack'[k].joined = stack[k].joined
  BY <1>2, <1>3, <1>4 DEF Shape, TypeOK
<1> QED
  BY <1>1, <1>5 DEF AllTight

-----------------------------------------------------------------------------
(* Blocks                                                                  *)

FrameTight(frame) == Tight(frame.entry) /\ Tight(frame.joined)

LEMMA TopTight ==
  ASSUME Shape, AllTight, stack # <<>>
  PROVE  FrameTight(Top)
BY StackTop DEF Shape, TypeOK, AllTight, FrameTight, Top

LEMMA PopTight ==
  ASSUME Shape, AllTight, stack # <<>>, stack' = Below, Tight(flow')
  PROVE  AllTight'
<1>1. \A i \in DOMAIN Below : i \in DOMAIN stack /\ Below[i] = stack[i]
  BY StackTop DEF Shape, TypeOK
<1> QED
  BY <1>1 DEF AllTight

LEMMA TurnTight ==
  ASSUME Shape, AllTight, stack # <<>>, NEW frame \in Frames,
         stack' = Append(Below, frame), FrameTight(frame), Tight(flow')
  PROVE  AllTight'
<1>1. /\ Below \in Seq(Frames)
      /\ \A i \in DOMAIN Below : i \in DOMAIN stack /\ Below[i] = stack[i]
  BY StackTop DEF Shape, TypeOK
<1>2. /\ DOMAIN stack' = DOMAIN Below \cup {Len(Below) + 1}
      /\ stack'[Len(Below) + 1] = frame
      /\ \A i \in DOMAIN Below : stack'[i] = Below[i]
  BY <1>1, Pushed
<1> QED
  BY <1>1, <1>2 DEF AllTight, FrameTight

\* The frame of every statement with blocks starts from the current flow.
LEMMA OpenTight ==
  ASSUME Shape, AllTight,
         \/ OpenIf \/ OpenUnsafe \/ OpenComptime
         \/ \E s \in Symbols : OpenMatch(s) \/ OpenLoop("while", s) \/ OpenLoop("for", s)
  PROVE  AllTight'
<1>1. CASE Reject
  BY <1>1, RejectTight
<1>2. CASE ~Reject
  <2>1. PICK frame : /\ stack' = Append(stack, frame) /\ flow' = flow
                     /\ frame.entry = flow /\ frame.joined = EmptyFlow
    <3>1. CASE OpenIf \/ OpenUnsafe \/ OpenComptime
      <4>1. PICK kind : stack' = Append(stack, NewFrame(kind, {})) /\ flow' = flow
        BY <3>1 DEF OpenIf, OpenUnsafe, OpenComptime, Open
      <4>2. NewFrame(kind, {}).entry = flow /\ NewFrame(kind, {}).joined = EmptyFlow
        BY DEF NewFrame
      <4> QED
        BY <4>1, <4>2
    <3>2. ASSUME NEW s \in Symbols, OpenMatch(s)
          PROVE  \E g : /\ stack' = Append(stack, g) /\ flow' = flow
                        /\ g.entry = flow /\ g.joined = EmptyFlow
      <4> DEFINE after == {Read(p, s) : p \in paths}
                 new == NewFrame("match", {s})
                 frame == [new EXCEPT !.entryPaths = after]
      <4>1. stack' = Append(stack, frame) /\ flow' = flow
        BY <1>2, <3>2 DEF OpenMatch
      <4> HIDE DEF after
      <4>2. frame.entry = flow /\ frame.joined = EmptyFlow
        BY DEF NewFrame
      <4> QED
        BY <4>1, <4>2
    <3>3. ASSUME NEW s \in Symbols, OpenLoop("while", s) \/ OpenLoop("for", s)
          PROVE  \E g : /\ stack' = Append(stack, g) /\ flow' = flow
                        /\ g.entry = flow /\ g.joined = EmptyFlow
      <4> DEFINE again == IF "back edges" \in Constructs /\ Owned(s)
                          THEN {OnLap(Transfer(p, s), 1) : p \in paths} ELSE {}
                 frame(kind) == [NewFrame(kind, {}) EXCEPT !.again = again]
      <4>1. PICK kind : stack' = Append(stack, frame(kind)) /\ flow' = flow
        BY <3>3 DEF OpenLoop
      <4> HIDE DEF again
      <4>2. frame(kind).entry = flow /\ frame(kind).joined = EmptyFlow
        BY DEF NewFrame
      <4> QED
        BY <4>1, <4>2
    <3> QED
      BY <3>1, <3>2, <3>3
  <2>2. /\ DOMAIN stack' = DOMAIN stack \cup {Len(stack) + 1}
        /\ stack'[Len(stack) + 1] = frame
        /\ \A i \in DOMAIN stack : stack'[i] = stack[i]
    BY <2>1 DEF Shape, TypeOK
  <2> QED
    BY <2>1, <2>2, TightEntry DEF AllTight
<1> QED
  BY <1>1, <1>2

\* An arm that the code accepts joins the arms before it in a tight state.
LEMMA WithArmTight ==
  ASSUME NEW frame \in Frames, NEW f \in Flows, NEW ps \in SUBSET Paths,
         f.visible = frame.entry.visible,
         frame.joins => frame.joined.visible = frame.entry.visible,
         FrameTight(frame), Tight(f), MayJoin(frame, f)
  PROVE  FrameTight(WithArm(frame, f, ps))
<1> DEFINE g == WithArm(frame, f, ps)
<1>1. /\ g \in Frames
      /\ g.entry = frame.entry /\ g.entryPaths = frame.entryPaths
      /\ g.joins = TRUE /\ g.joined = Joined(frame, f)
      /\ g.joined.visible = g.entry.visible
      /\ g.joinedPaths = frame.joinedPaths \cup ps
      /\ g.jumps = frame.jumps /\ g.again = frame.again
  BY WithArmFacts
<1>2. Tight(Joined(frame, f))
  <2>1. CASE frame.joins
    <3>1. frame.joined \in Flows /\ MayMerge(frame.joined, f)
      BY <2>1 DEF Frames, MayJoin
    <3>2. Tight(Merge(frame.joined, f))
      BY <2>1, <3>1, TightMerge DEF FrameTight
    <3> QED
      BY <2>1, <3>2 DEF Joined
  <2>2. CASE ~frame.joins
    BY <2>2 DEF Joined
  <2> QED
    BY <2>1, <2>2
<1> HIDE DEF g
<1>3. FrameTight(g)
  BY <1>1, <1>2 DEF FrameTight
<1> QED
  BY <1>3 DEF g

LEMMA ArmEndTight ==
  ASSUME Shape, AllTight, stack # <<>>, MayEndArm(Top)
  PROVE  FrameTight(ArmEnd(Top))
<1> DEFINE left == RestrictTo(flow, Top.entry)
<1>1. /\ left \in Flows /\ left.visible = Top.entry.visible
      /\ falls => ArmEnd(Top) = WithArm(Top, left, paths)
      /\ ~falls => ArmEnd(Top) = Top
  BY ArmEndFacts
<1>2. Tight(left) /\ FrameTight(Top)
  BY CurrentTight, TopTypes, TopTight, TightRestrict
<1>3. falls => MayJoin(Top, left)
  BY DEF MayEndArm
<1> HIDE DEF left
<1>4. /\ Top \in Frames /\ paths \in SUBSET Paths
      /\ Top.joins => Top.joined.visible = Top.entry.visible
  BY TopTypes, StatementTypes
<1> QED
  BY <1>1, <1>2, <1>3, <1>4, WithArmTight

\* The end of an arm that is followed by another one.
LEMMA NextArmTight ==
  ASSUME Shape, AllTight, Else \/ EndArm \/ OpenPlainArm
  PROVE  AllTight'
<1>1. stack # <<>>
  BY AtEndTypes DEF Else, EndArm, OpenPlainArm
<1>2. CASE Reject
  BY <1>2, RejectTight
<1>3. CASE ~Reject
  <2> DEFINE arm == ArmEnd(Top)
             turned(frame, kind) == [frame EXCEPT !.kind = kind]
  <2>1. PICK kind \in Kinds, frame \in {arm, Top} :
          /\ stack' = Append(Below, turned(frame, kind))
          /\ flow' = flow \/ flow' = Top.entry
          /\ frame = arm => MayEndArm(Top) \/ arm = Top
    BY <1>3 DEF Else, EndArm, OpenPlainArm, Kinds
  <2>2. arm \in Frames /\ Top \in Frames
    BY <1>1, ArmEndFacts, TopTypes
  <2>3. FrameTight(frame) /\ FrameTight(Top)
    BY <1>1, <2>1, TopTight, ArmEndTight
  <2> HIDE DEF arm
  <2>4. /\ turned(frame, kind) \in Frames
        /\ turned(frame, kind).entry = frame.entry
        /\ turned(frame, kind).joined = frame.joined
    BY <2>1, <2>2 DEF Frames
  <2> HIDE DEF turned
  <2>5. FrameTight(turned(frame, kind))
    BY <2>3, <2>4 DEF FrameTight
  <2>6. Tight(flow')
    BY <2>1, <2>3, CurrentTight DEF FrameTight
  <2> QED
    BY <1>1, <2>1, <2>4, <2>5, <2>6, TurnTight
<1> QED
  BY <1>2, <1>3

LEMMA ResumeTight ==
  ASSUME Shape, AllTight, stack # <<>>, NEW frame, Resume(frame), FrameTight(frame)
  PROVE  AllTight'
<1>1. stack' = Below /\ flow' = IF frame.joins THEN frame.joined ELSE frame.entry
  BY DEF Resume
<1>2. Tight(flow')
  BY <1>1 DEF FrameTight
<1> QED
  BY <1>1, <1>2, PopTight

LEMMA EndBranchTight ==
  ASSUME Shape, AllTight, EndElse \/ EndMatch
  PROVE  AllTight'
<1>1. stack # <<>>
  BY AtEndTypes DEF EndElse, EndMatch
<1>2. \/ Reject
      \/ Resume(ArmEnd(Top)) /\ MayEndArm(Top)
      \/ Resume(Top)
  BY DEF EndElse, EndMatch
<1> QED
  BY <1>1, <1>2, TopTight, ArmEndTight, RejectTight, ResumeTight

LEMMA EndIfTight ==
  ASSUME Shape, AllTight, EndIf
  PROVE  AllTight'
<1>1. stack # <<>>
  BY AtEndTypes DEF EndIf
<1> DEFINE first == ArmEnd(Top)
           frame == WithArm(first, Top.entry, Top.entryPaths)
<1>2. \/ Reject
      \/ /\ Resume(frame) /\ MayEndArm(Top) /\ MayJoin(first, Top.entry)
  BY DEF EndIf, WithArm
<1>3. CASE Reject
  BY <1>3, RejectTight
<1>4. CASE ~Reject
  <2>1. /\ first \in Frames /\ first.entry = Top.entry
        /\ first.joins => first.joined.visible = first.entry.visible
    BY <1>1, ArmEndFacts
  <2>2. FrameTight(first) /\ MayJoin(first, Top.entry)
    BY <1>1, <1>2, <1>4, ArmEndTight
  <2>3. Top.entry \in Flows /\ Top.entryPaths \in SUBSET Paths /\ Tight(Top.entry)
    BY <1>1, TopTypes, TopTight DEF FrameTight
  <2> HIDE DEF first
  <2>4. FrameTight(frame)
    BY <2>1, <2>2, <2>3, WithArmTight
  <2> HIDE DEF frame
  <2> QED
    BY <1>1, <1>2, <1>4, <2>4, ResumeTight
<1> QED
  BY <1>3, <1>4

LEMMA CloseLoopTight ==
  ASSUME Shape, AllTight, stack # <<>>, NEW last \in Flows, NEW ps, NEW b,
         last.visible = Top.entry.visible, falls => Tight(last), CloseLoop(last, ps, b)
  PROVE  AllTight'
<1>1. \/ Reject
      \/ /\ stack' = Below
         /\ flow' = IF falls THEN Merge(Top.entry, last) ELSE Top.entry
         /\ falls => MayMerge(Top.entry, last)
  BY DEF CloseLoop
<1>2. CASE Reject
  BY <1>2, RejectTight
<1>3. CASE ~Reject
  <2>1. Top.entry \in Flows /\ Tight(Top.entry)
    BY TopTypes, TopTight DEF FrameTight
  <2>2. Tight(flow')
    BY <1>1, <1>3, <2>1, TightMerge
  <2> QED
    BY <1>1, <1>3, <2>2, PopTight
<1> QED
  BY <1>2, <1>3

LEMMA EndScopeTight ==
  ASSUME Shape, AllTight, EndWhile \/ EndBlock
  PROVE  AllTight'
<1> DEFINE left == RestrictTo(flow, Top.entry)
<1>1. stack # <<>>
  BY AtEndTypes DEF EndWhile, EndBlock
<1>2. left \in Flows /\ left.visible = Top.entry.visible /\ Tight(left)
  BY <1>1, ArmEndFacts, TopTypes, CurrentTight, TightRestrict
<1>3. \/ Reject
      \/ CloseLoop(left, paths, FALSE)
      \/ stack' = Below /\ flow' = left
  BY DEF EndWhile, EndBlock
<1> HIDE DEF left
<1> QED
  BY <1>1, <1>2, <1>3, RejectTight, CloseLoopTight, PopTight

LEMMA EndForTight ==
  ASSUME Shape, AllTight, NEW i \in Symbols, EndFor(i)
  PROVE  AllTight'
<1> DEFINE left == RestrictTo(flow, Top.entry)
           ps == {Assign(Read(p, i), i, {}) : p \in paths}
<1>1. stack # <<>>
  BY AtEndTypes DEF EndFor
<1>2. left \in Flows /\ left.visible = Top.entry.visible /\ Tight(left)
  BY <1>1, ArmEndFacts, TopTypes, CurrentTight, TightRestrict
<1>3. \/ Reject
      \/ CloseLoop(Store(left, i, {}), ps, Unsound(i)) /\ (falls => MayStore(left, i, {}))
  BY DEF EndFor
<1> HIDE DEF left, ps
<1>4. {} \in SUBSET Origins
  OBVIOUS
<1>5. Store(left, i, {}) \in Flows /\ Store(left, i, {}).visible = Top.entry.visible
  BY <1>2, <1>4, StoreFacts
<1>6. MayStore(left, i, {}) => Tight(Store(left, i, {}))
  BY <1>2, <1>4, TightStore
<1> QED
  BY <1>1, <1>3, <1>5, <1>6, RejectTight, CloseLoopTight

LEMMA OpenArmTight ==
  ASSUME Shape, AllTight, NEW x \in Symbols, OpenArm(x)
  PROVE  AllTight'
<1> DEFINE O == UNION {ValueOrigins(Top.entry, s) : s \in Top.subject}
           P == IF Carries(x) THEN O ELSE {}
           frame == [Top EXCEPT !.kind = "arm"]
<1>1. stack # <<>> /\ x \notin declared
  BY DEF OpenArm, Inside
<1>2. flow' = Declare(Top.entry, x, "init", P) /\ stack' = Append(Below, frame)
  BY DEF OpenArm
<1>3. /\ Top \in Frames /\ Top.entry \in Flows /\ x \notin Top.entry.visible
      /\ Top.subject \in SUBSET Symbols
  BY <1>1, TopTypes
<1>4. P \in SUBSET Origins
  <2>1. \A s \in Top.subject : ValueOrigins(Top.entry, s) \in SUBSET Origins
    BY <1>3, ValueOriginsType
  <2> QED
    BY <2>1
<1> HIDE DEF O, P
<1>5. FrameTight(Top)
  BY <1>1, TopTight
<1>6. Tight(flow')
  BY <1>2, <1>3, <1>4, <1>5, TightDeclare DEF FrameTight, ValueStates
<1>7. frame \in Frames /\ frame.entry = Top.entry /\ frame.joined = Top.joined
  BY <1>3 DEF Frames, Kinds
<1> HIDE DEF frame
<1>8. FrameTight(frame)
  BY <1>5, <1>7 DEF FrameTight
<1> QED
  BY <1>1, <1>2, <1>6, <1>7, <1>8, TurnTight

LEMMA FinishTight ==
  ASSUME Shape, AllTight, Finish
  PROVE  AllTight'
<1>1. Reject \/ (flow' = RestrictTo(flow, EntryFlow) /\ UNCHANGED stack)
  BY DEF Finish
<1>2. Tight(RestrictTo(flow, EntryFlow))
  BY CurrentTight, EntryTypes, TightRestrict
<1> QED
  BY <1>1, <1>2, RejectTight, StepTight

-----------------------------------------------------------------------------
LEMMA NextTight ==
  ASSUME Shape, AllTight, [Next]_vars
  PROVE  AllTight'
<1>1. CASE Simple
  <2>1. PICK s \in Symbols :
          \/ DeclareLocal(s) \/ UseLocal(s) \/ Capture(s) \/ AssignFresh(s)
          \/ ReleaseLocal(s) \/ PassArgument(s) \/ StoreGlobal(s)
    BY <1>1 DEF Simple
  <2>2. "shared" \in BorrowModes
    BY DEF BorrowModes
  <2>3. CASE UseLocal(s) \/ Capture(s)
    BY <2>2, <2>3, LookTight
  <2>4. CASE AssignFresh(s)
    BY <2>2, <2>4, AssignTight
  <2>5. CASE ReleaseLocal(s) \/ PassArgument(s) \/ StoreGlobal(s)
    BY <2>5, LoseTight
  <2> QED
    BY <2>1, <2>3, <2>4, <2>5, DeclareTight
<1>2. CASE Paired
  <2>1. PICK d \in Symbols, s \in Symbols :
          \/ AssignFrom(d, s)
          \/ \E mode \in BorrowModes : AssignBorrow(d, s, mode)
          \/ \E t \in Symbols : BuildFrom(d, s, t)
          \/ \E m, n \in BorrowModes : LendArguments(d, m, s, n)
          \/ StoreInto(d, s)
          \/ InitializePart(d, s)
          \/ SwapPlaces(d, s)
    BY <1>2 DEF Paired
  <2>2. "shared" \in BorrowModes
    BY DEF BorrowModes
  <2>3. CASE AssignFrom(d, s)
    BY <2>2, <2>3, AssignTight
  <2>4. CASE \E mode \in BorrowModes : AssignBorrow(d, s, mode)
    BY <2>4, AssignTight
  <2>5. CASE \E t \in Symbols : BuildFrom(d, s, t)
    BY <2>2, <2>5, AssignTight
  <2>6. CASE \E m, n \in BorrowModes : LendArguments(d, m, s, n)
    BY <2>6, LookTight
  <2>7. CASE StoreInto(d, s) \/ InitializePart(d, s)
    BY <2>7, LoseTight
  <2>8. CASE SwapPlaces(d, s)
    BY <2>2, <2>8, LookTight
  <2> QED
    BY <2>1, <2>3, <2>4, <2>5, <2>6, <2>7, <2>8
<1>3. CASE Departure
  <2>1. CASE ReturnNothing
    BY <2>1, CurrentTight, StepTight DEF ReturnNothing, Stop
  <2> QED
    BY <1>3, <2>1, LoseTight, JumpTight DEF Departure
<1>4. CASE Branch
  <2>1. CASE OpenIf
    BY <2>1, OpenTight
  <2>2. CASE \E s \in Symbols : OpenMatch(s) \/ OpenArm(s)
    BY <2>2, OpenTight, OpenArmTight
  <2> QED
    BY <1>4, <2>1, <2>2, NextArmTight, EndIfTight, EndBranchTight DEF Branch
<1>5. CASE Loop
  BY <1>5, OpenTight, EndForTight, EndScopeTight DEF Loop
<1>6. CASE OpenUnsafe \/ OpenComptime \/ EndBlock
  BY <1>6, OpenTight, EndScopeTight
<1>7. CASE UNCHANGED vars
  BY <1>7 DEF vars, AllTight
<1> QED
  BY <1>1, <1>2, <1>3, <1>4, <1>5, <1>6, <1>7, FinishTight DEF Next

\* Many readers or one writer, and no lock without a reader: whatever the
\* function and the constructs it uses, an exclusive borrow is the only borrow of
\* its owner, and every borrow has a carrier that is visible, may still hold the
\* view and has the owner among its origins.
THEOREM BorrowDiscipline == Spec => [](WriterAlone /\ BorrowsBacked)
<1>1. Init => Shape /\ AllTight
  BY InitShape, TightEntry DEF Init, AllTight
<1>2. Shape /\ AllTight /\ [Next]_vars => (Shape /\ AllTight)'
  BY NextShape, NextTight
<1>3. AllTight => WriterAlone /\ BorrowsBacked
  BY DEF AllTight, Tight, Alone, Backed, Gone, WriterAlone, BorrowsBacked
<1> QED
  BY <1>1, <1>2, <1>3, PTL DEF Spec

-----------------------------------------------------------------------------
(* Soundness                                                               *)
(*                                                                         *)
(* NoFault alone is not inductive: that the next accepted statement does   *)
(* not fault follows from the flow state describing the paths that reach   *)
(* it, which is what Described keeps, for the current point and for every  *)
(* state a frame keeps for a later join.                                   *)

\* A flow state describes a set of paths.
Describes(f, ps, known) ==
  /\ OriginsTyped(f)
  /\ \A p \in ps : Covers(f, p, known)

FrameDescribed(frame, known) ==
  /\ Describes(frame.entry, frame.entryPaths, known)
  /\ Describes(frame.joined, frame.joinedPaths, known)
  /\ ~frame.joins => frame.joinedPaths = {}
  /\ frame.jumps = {}
  /\ frame.again = {}

Described ==
  /\ Describes(flow, paths, declared)
  /\ \A i \in DOMAIN stack : FrameDescribed(stack[i], declared)
  /\ ~falls => paths = {}
  /\ fault = FALSE

-----------------------------------------------------------------------------
(* Origins stay typed                                                      *)

LEMMA TypedMove ==
  ASSUME NEW f \in Flows, NEW s \in Symbols, OriginsTyped(f)
  PROVE  OriginsTyped(Move(f, s))
BY MoveFacts DEF OriginsTyped

LEMMA TypedStore ==
  ASSUME NEW f \in Flows, NEW d \in Symbols, NEW O \in SUBSET Origins,
         OriginsTyped(f), ~Carries(d) => O = {}
  PROVE  OriginsTyped(Store(f, d, O))
BY StoreFacts DEF OriginsTyped

LEMMA TypedMerge ==
  ASSUME NEW f \in Flows, NEW g \in Flows, OriginsTyped(f), OriginsTyped(g)
  PROVE  OriginsTyped(Merge(f, g))
BY MergeFacts DEF OriginsTyped

LEMMA TypedRestrict ==
  ASSUME NEW f \in Flows, NEW e \in Flows, OriginsTyped(f)
  PROVE  OriginsTyped(RestrictTo(f, e))
BY RestrictFacts DEF OriginsTyped

LEMMA TypedEmpty == OriginsTyped(EmptyFlow) /\ OriginsTyped(EntryFlow)
BY DEF OriginsTyped, EmptyFlow, EntryFlow, NoLocal, OriginsOf

-----------------------------------------------------------------------------
(* What a described path knows of a value it reads                         *)

\* A usable local's origins account for its views; a local whose type cannot
\* hold a reference has neither.
LEMMA OriginsAccount ==
  ASSUME NEW f \in Flows, NEW p \in Paths, NEW K, NEW s \in Symbols,
         Covers(f, p, K), MayUse(f, s), OriginsTyped(f)
  PROVE  /\ Account(OriginsOf(f, s), p.view[s])
         /\ ValueOrigins(f, s) = OriginsOf(f, s)
         /\ ~Carries(s) => p.view[s] = {}
         /\ \A v \in p.view[s] : v[1] \in K
<1>1. Account(OriginsOf(f, s), p.view[s])
  BY DEF Covers, Registered, MayUse
<1>2. ValueOrigins(f, s) = OriginsOf(f, s)
  BY DEF ValueOrigins, OriginsTyped
<1>3. ~Carries(s) => p.view[s] = {}
  BY <1>1 DEF OriginsTyped, Account
<1>4. \A v \in p.view[s] : v[1] \in K
  BY DEF Covers, Fresh
<1> QED
  BY <1>1, <1>2, <1>3, <1>4

\* An accepted assignment never replaces the value of an immutable local.
LEMMA NotReassigned ==
  ASSUME NEW f, NEW p, NEW K, NEW d \in Symbols, Covers(f, p, K), MayAssign(f, d)
  PROVE  ~(p.val[d] # "uninit" /\ d \notin Mutable)
BY DEF Covers, Definite, MayAssign

LEMMA CoversLend ==
  ASSUME NEW f \in Flows, NEW p \in Paths, NEW K, NEW o \in Symbols,
         NEW mode \in BorrowModes, Covers(f, p, K), MayLend(f, o, mode)
  PROVE  /\ Sound(p, o)
         /\ Lend(p, o, mode) \in Paths
         /\ Covers(f, Lend(p, o, mode), K)
<1>1. /\ Sound(p, o) /\ Read(p, o) \in Paths /\ Covers(f, Read(p, o), K)
      /\ o \in f.visible
  BY CoversRead DEF MayLend, MayUse
<1>2. CASE mode = "exclusive"
  <2>1. Covers(f, Write(Read(p, o), o), K) /\ Write(Read(p, o), o) \in Paths
    BY <1>1, <1>2, CoversWrite DEF MayLend
  <2> QED
    BY <1>1, <1>2, <2>1 DEF Lend
<1>3. CASE mode # "exclusive"
  BY <1>1, <1>3 DEF Lend
<1> QED
  BY <1>2, <1>3

\* The borrow a reference d replaces does not stand in the way of a new one of
\* the same owner: d is the only local whose view the claim of o may spoil, and
\* d receives a new view.
LEMMA CoversReborrow ==
  ASSUME NEW f \in Flows, NEW p \in Paths, NEW K, NEW o \in Symbols, NEW d \in Symbols,
         Covers(f, p, K), MayUse(f, o), d \in K, o \in K,
         TypeOf[d] = "exclusive_ref", MayStore(f, d, {<<o, "exclusive">>})
  PROVE  LET q == Assign(Lend(p, o, "exclusive"), d, {<<o, "exclusive">>})
         IN  q \in Paths /\ Covers(Store(f, d, {<<o, "exclusive">>}), q, K)
<1> DEFINE O == {<<o, "exclusive">>}
           r == Read(p, o)
           w == Write(r, o)
           g == Store(f, d, O)
           a == Assign(r, d, O)
           q == Assign(w, d, O)
<1>1. Lend(p, o, "exclusive") = w
  BY DEF Lend
<1>2. O \in SUBSET Origins /\ O \in SUBSET (Symbols \X BorrowModes)
  BY DEF Origins, BorrowModes
<1>3. r \in Paths /\ Covers(f, r, K)
  BY CoversRead
<1>4. Carries(d) /\ LocalOrigins(O) = O /\ ModeFor(d, "exclusive") = "exclusive"
  BY DEF Carries, Borrowed, LocalOrigins, BorrowModes, ModeFor
<1>5. MayCarry(Replaced(f, d, O), d, O)
  BY <1>4 DEF MayStore
<1>6. BorrowsOf(Replaced(f, d, O), o) = {}
  <2>1. <<o, "exclusive">> \in LocalOrigins(O)
    BY <1>4
  <2> HIDE DEF O
  <2> QED
    BY <1>4, <1>5, <2>1 DEF MayCarry
<1>7. Account(O, O) /\ (\A v \in O : v[1] \in K) /\ MayStore(f, d, O)
  BY DEF Account, BorrowModes
<1>8. a \in Paths /\ Covers(g, a, K)
  <2> HIDE DEF O, r
  <2> QED
    BY <1>2, <1>3, <1>7, CoversStore
<1>9. w \in Paths /\ w.val = r.val /\ w.view = r.view
      /\ w.stale = r.stale \cup Viewers(r, o, BorrowModes)
  BY <1>3, WriteFacts
<1> HIDE DEF O, r, w
<1>10. /\ q \in Paths /\ q.val = a.val /\ q.view = a.view
       /\ q.stale = (w.stale \cup Viewers(w, d, BorrowModes)) \ {d}
       /\ a.stale = (r.stale \cup Viewers(r, d, BorrowModes)) \ {d}
  <2>1. /\ q \in Paths
        /\ q.val = [w.val EXCEPT ![d] = "avail"]
        /\ q.view = [w.view EXCEPT ![d] = IF Carries(d) THEN Held(d, O) ELSE {}]
        /\ q.stale = (w.stale \cup Viewers(w, d, BorrowModes)) \ {d}
    BY <1>2, <1>9, AssignFacts
  <2>2. /\ a.val = [r.val EXCEPT ![d] = "avail"]
        /\ a.view = [r.view EXCEPT ![d] = IF Carries(d) THEN Held(d, O) ELSE {}]
        /\ a.stale = (r.stale \cup Viewers(r, d, BorrowModes)) \ {d}
    BY <1>2, <1>3, AssignFacts
  <2> HIDE DEF q, a
  <2> QED
    BY <1>9, <2>1, <2>2
<1>11. Viewers(w, d, BorrowModes) = Viewers(r, d, BorrowModes)
  BY <1>9 DEF Viewers
<1>12. /\ g \in Flows /\ g.visible = f.visible
       /\ \A t \in Symbols : Value(g, t) = IF t = d THEN "init" ELSE Value(f, t)
       /\ BorrowsOf(Replaced(f, d, O), o) = {b \in BorrowsOf(f, o) : b.carrier # d}
  BY <1>2, StoreFacts
<1> HIDE DEF g, a, q
<1>13. ASSUME NEW c \in g.visible, Value(g, c) = "init", c \in q.stale
       PROVE  c \in a.stale
  <2>1. c \in Symbols /\ c # d /\ Value(f, c) = "init" /\ c \in f.visible
    BY <1>10, <1>12, <1>13, FlowType
  <2>2. SUFFICES ASSUME c \in Viewers(r, o, BorrowModes)
                 PROVE  FALSE
    BY <1>9, <1>10, <1>11, <1>13, <2>1
  <2>3. PICK k \in BorrowModes : <<o, k>> \in r.view[c]
    BY <2>2 DEF Viewers
  <2>4. o \in f.visible
    BY DEF MayUse
  <2>5. \E b \in BorrowsOf(f, o) : b.carrier = c
    BY <1>3, <2>1, <2>3, <2>4 DEF Covers, Registered
  <2> QED
    BY <1>6, <1>12, <2>1, <2>5
<1>14. Covers(g, q, K)
  BY <1>8, <1>10, <1>12, <1>13, CoversSpoil
<1> QED
  BY <1>1, <1>10, <1>14 DEF O, g, q

-----------------------------------------------------------------------------
(* Statements                                                              *)

LEMMA InitDescribed == Init => Described
<1> SUFFICES ASSUME Init PROVE Described
  OBVIOUS
<1>1. Definite(EntryFlow, EntryPath)
  BY SymbolsAssumption DEF Definite, EntryFlow, EntryPath, Value, Sound
<1>2. Registered(EntryFlow, EntryPath)
  BY SymbolsAssumption DEF Registered, Account, EntryFlow, EntryPath
<1>3. Disjoint(EntryFlow, EntryPath)
  BY SymbolsAssumption DEF Disjoint, Rivals, EntryFlow, EntryPath
<1>4. Fresh(EntryPath, Params)
  BY DEF Fresh, EntryPath
<1>5. Covers(EntryFlow, EntryPath, Params)
  BY <1>1, <1>2, <1>3, <1>4 DEF Covers
<1> QED
  BY <1>5, TypedEmpty DEF Init, Described, Describes

\* A rejected statement changes nothing but the verdict.
LEMMA RejectDescribed ==
  ASSUME Described, Reject
  PROVE  Described'
BY DEF Described, Describes, FrameDescribed, Reject

LEMMA AcceptDescribed ==
  ASSUME Described, falls, NEW f, NEW ps, NEW b,
         Accept(f, ps, b), Describes(f, ps, declared), b = FALSE
  PROVE  Described'
<1>1. /\ flow' = f /\ paths' = ps /\ fault' = (fault \/ b)
      /\ UNCHANGED <<falls, stack, declared, verdict>>
  BY DEF Accept
<1>2. fault' = FALSE
  BY <1>1 DEF Described
<1> QED
  BY <1>1, <1>2 DEF Described, FrameDescribed, Describes

\* The hypotheses every path of a described flow satisfies.
LEMMA PathCovered ==
  ASSUME Shape, Described
  PROVE  /\ flow \in Flows /\ paths \in SUBSET Paths /\ OriginsTyped(flow)
         /\ \A p \in paths : p \in Paths /\ Covers(flow, p, declared)
         /\ \A s \in flow.visible : s \in declared /\ s \in Symbols
BY StatementTypes, FlowType DEF Described, Describes

\* Declaring a symbol leaves every kept state described.
LEMMA FramesKept ==
  ASSUME Shape, Described, NEW s \in Symbols
  PROVE  \A i \in DOMAIN stack : FrameDescribed(stack[i], declared \cup {s})
<1>1. ASSUME NEW f \in Flows, NEW ps \in SUBSET Paths, Describes(f, ps, declared)
      PROVE  Describes(f, ps, declared \cup {s})
  <2>1. \A p \in ps : Covers(f, p, declared \cup {s})
    BY <1>1, CoversGrows DEF Describes
  <2> QED
    BY <1>1, <2>1 DEF Describes
<1>2. ASSUME NEW i \in DOMAIN stack
      PROVE  FrameDescribed(stack[i], declared \cup {s})
  <2>1. stack[i] \in Frames /\ FrameDescribed(stack[i], declared)
    BY DEF Shape, TypeOK, Described
  <2>2. /\ stack[i].entry \in Flows /\ stack[i].joined \in Flows
        /\ stack[i].entryPaths \in SUBSET Paths /\ stack[i].joinedPaths \in SUBSET Paths
    BY <2>1 DEF Frames
  <2> QED
    BY <1>1, <2>1, <2>2 DEF FrameDescribed
<1> QED
  BY <1>2

\* What the flow knows of the views of a local it may use.
Known(s) ==
  \A p \in paths :
    /\ Account(OriginsOf(flow, s), p.view[s])
    /\ Account(ValueOrigins(flow, s), p.view[s])
    /\ ~Carries(s) => p.view[s] = {}
    /\ \A v \in p.view[s] : v[1] \in declared
    /\ p.view[s] \in SUBSET (Symbols \X BorrowModes)

LEMMA ReadKnown ==
  ASSUME Shape, Described, NEW s \in Symbols, MayUse(flow, s)
  PROVE  Known(s)
<1>1. ASSUME NEW p \in paths
      PROVE  /\ Account(OriginsOf(flow, s), p.view[s])
             /\ Account(ValueOrigins(flow, s), p.view[s])
             /\ ~Carries(s) => p.view[s] = {}
             /\ \A v \in p.view[s] : v[1] \in declared
  <2>1. p \in Paths /\ Covers(flow, p, declared) /\ flow \in Flows /\ OriginsTyped(flow)
    BY PathCovered
  <2>2. /\ Account(OriginsOf(flow, s), p.view[s])
        /\ ValueOrigins(flow, s) = OriginsOf(flow, s)
        /\ ~Carries(s) => p.view[s] = {}
        /\ \A v \in p.view[s] : v[1] \in declared
    BY <2>1, OriginsAccount
  <2> QED
    BY <2>2
<1> QED
  BY <1>1, StatementTypes DEF Known

LEMMA UseDescribed ==
  ASSUME Shape, Described, NEW s \in Symbols, UseLocal(s) \/ Capture(s)
  PROVE  Described'
<1> DEFINE ps == {Read(p, s) : p \in paths}
<1>1. Reject \/ (Accept(flow, ps, Unsound(s)) /\ MayUse(flow, s) /\ falls)
  BY DEF UseLocal, Capture, AtStatement
<1>2. CASE Reject
  BY <1>2, RejectDescribed
<1>3. CASE ~Reject
  <2>1. \A p \in paths : Sound(p, s) /\ Covers(flow, Read(p, s), declared)
    BY <1>1, <1>3, PathCovered, CoversRead
  <2>2. Describes(flow, ps, declared) /\ Unsound(s) = FALSE
    BY <2>1, PathCovered DEF Describes, Unsound
  <2> HIDE DEF ps
  <2> QED
    BY <1>1, <1>3, <2>2, AcceptDescribed
<1> QED
  BY <1>2, <1>3

LEMMA DeclareDescribed ==
  ASSUME Shape, Described, NEW s \in Symbols, DeclareLocal(s)
  PROVE  Described'
<1> DEFINE f == Declare(flow, s, "uninit", {})
<1>1. /\ flow' = f /\ declared' = declared \cup {s} /\ s \notin declared
      /\ UNCHANGED <<falls, stack, verdict, paths, fault>>
  BY DEF DeclareLocal
<1>2. \A p \in paths : Covers(f, p, declared \cup {s})
  BY <1>1, PathCovered, StatementTypes, CoversDeclare
<1>3. OriginsTyped(f)
  <2>1. \A t \in Symbols : OriginsOf(f, t) = IF t = s THEN {} ELSE OriginsOf(flow, t)
    BY PathCovered, DeclareFacts DEF ValueStates
  <2> HIDE DEF f
  <2> QED
    BY <2>1, PathCovered DEF OriginsTyped
<1>4. \A i \in DOMAIN stack : FrameDescribed(stack[i], declared \cup {s})
  BY FramesKept
<1> HIDE DEF f
<1> QED
  BY <1>1, <1>2, <1>3, <1>4 DEF Described, Describes

LEMMA AssignFreshDescribed ==
  ASSUME Shape, Described, NEW d \in Symbols, AssignFresh(d)
  PROVE  Described'
<1> DEFINE ps == {Assign(p, d, {}) : p \in paths}
           f == Store(flow, d, {})
<1>1. Reject \/ (Accept(f, ps, Reassigned(d)) /\ MayStore(flow, d, {}) /\ falls)
  BY DEF AssignFresh, AtStatement
<1>2. CASE Reject
  BY <1>2, RejectDescribed
<1>3. CASE ~Reject
  <2>1. MayStore(flow, d, {}) /\ MayAssign(flow, d) /\ d \in declared
    BY <1>1, <1>3, PathCovered DEF MayStore, MayAssign
  <2>2. {} \in SUBSET Origins /\ {} \in SUBSET (Symbols \X BorrowModes) /\ Account({}, {})
    BY DEF Account
  <2>3. \A p \in paths : Covers(f, Assign(p, d, {}), declared)
    BY <2>1, <2>2, PathCovered, CoversStore
  <2>4. OriginsTyped(f)
    BY <2>2, PathCovered, TypedStore
  <2>5. Reassigned(d) = FALSE
    BY <2>1, PathCovered, NotReassigned DEF Reassigned
  <2>6. Describes(f, ps, declared)
    BY <2>3, <2>4 DEF Describes
  <2> HIDE DEF f, ps
  <2> QED
    BY <1>1, <1>3, <2>5, <2>6, AcceptDescribed
<1> QED
  BY <1>2, <1>3

LEMMA AssignFromDescribed ==
  ASSUME Shape, Described, NEW d \in Symbols, NEW s \in Symbols, AssignFrom(d, s)
  PROVE  Described'
<1> DEFINE After(p) == Assign(Transfer(p, s), d, p.view[s])
           ps == {After(p) : p \in paths}
           moved == Move(flow, s)
           O == ValueOrigins(flow, s)
           f == Store(moved, d, O)
           b == Unsound(s) \/ \E p \in paths :
                  Transfer(p, s).val[d] # "uninit" /\ d \notin Mutable
<1>1. Reject \/ (Accept(f, ps, b) /\ MayMove(flow, s) /\ MayStore(moved, d, O) /\ falls)
  BY DEF AssignFrom, AtStatement
<1>2. CASE Reject
  BY <1>2, RejectDescribed
<1>3. CASE ~Reject
  <2>1. /\ MayMove(flow, s) /\ MayStore(moved, d, O) /\ MayAssign(moved, d)
        /\ MayUse(flow, s) /\ s \in declared
    BY <1>1, <1>3, PathCovered DEF MayMove, MayMutate, MayUse, MayStore
  <2>2. moved \in Flows /\ OriginsTyped(moved) /\ O \in SUBSET Origins
    BY PathCovered, MoveFacts, TypedMove, ValueOriginsType
  <2>3. d \in declared /\ (~Carries(d) => ~Carries(s))
    BY PathCovered DEF AssignFrom, Accepts, Carries, Borrowed
  <2>4. \A p \in paths :
          /\ Sound(p, s) /\ Transfer(p, s) \in Paths
          /\ Covers(moved, Transfer(p, s), declared)
    BY <2>1, PathCovered, CoversMove
  <2>5. \A p \in paths :
          /\ Account(O, p.view[s])
          /\ \A v \in p.view[s] : v[1] \in declared
          /\ p.view[s] \in SUBSET (Symbols \X BorrowModes)
    BY <2>1, ReadKnown DEF Known
  <2>6. ~Carries(d) => O = {}
    BY <2>3 DEF ValueOrigins
  <2> HIDE DEF moved, O
  <2>7. \A p \in paths : Covers(f, After(p), declared)
    BY <2>1, <2>2, <2>3, <2>4, <2>5, CoversStore
  <2>8. OriginsTyped(f)
    BY <2>2, <2>6, TypedStore
  <2>9. b = FALSE
    BY <2>1, <2>4, NotReassigned DEF Unsound
  <2>10. Describes(f, ps, declared)
    BY <2>7, <2>8 DEF Describes
  <2> HIDE DEF f, ps, b
  <2> QED
    BY <1>1, <1>3, <2>9, <2>10, AcceptDescribed
<1> QED
  BY <1>2, <1>3

\* Without views of carriers, a new borrow has its owner as its only origin.
LEMMA BorrowsItself ==
  ASSUME Described, NEW o \in Symbols, NEW mode \in BorrowModes, ~Carries(o)
  PROVE  BorrowOrigins(flow, o, mode) = {<<o, mode>>}
BY DEF Described, Describes, OriginsTyped, BorrowOrigins

LEMMA AssignBorrowDescribed ==
  ASSUME Constructs = {}, Shape, Described, NEW d \in Symbols, NEW o \in Symbols,
         NEW mode \in BorrowModes, AssignBorrow(d, o, mode)
  PROVE  Described'
<1> DEFINE O == BorrowOrigins(flow, o, mode)
           V == {<<o, mode>>}
           After(p) == Assign(Lend(p, o, mode), d, V)
           ps == {After(p) : p \in paths}
           f == Store(flow, d, O)
           b == Unsound(o) \/ Reassigned(d)
<1>1. Reject \/ (Accept(f, ps, b) /\ MayUse(flow, o) /\ MayStore(flow, d, O) /\ falls)
  BY DEF AssignBorrow, AtStatement
<1>2. CASE Reject
  BY <1>2, RejectDescribed
<1>3. CASE ~Reject
  <2>1. O = V
    BY BorrowsItself DEF AssignBorrow
  <2>2. MayUse(flow, o) /\ MayStore(flow, d, V) /\ MayAssign(flow, d)
    BY <1>1, <1>3, <2>1 DEF MayStore
  <2>3. d \in declared /\ o \in declared
    BY <2>2, PathCovered DEF AssignBorrow, MayUse
  <2>4. Carries(d)
    BY DEF AssignBorrow, Carries, Borrowed
  <2>5. V \in SUBSET Origins /\ V \in SUBSET (Symbols \X BorrowModes) /\ Account(V, V)
        /\ (\A v \in V : v[1] \in declared)
    BY <2>3 DEF Account, Origins
  <2> HIDE DEF V, O
  <2>6. \A p \in paths : Covers(f, After(p), declared)
    <3>1. CASE mode = "exclusive"
      <4>1. TypeOf[d] = "exclusive_ref"
        BY <3>1 DEF AssignBorrow
      <4>2. MayStore(flow, d, {<<o, "exclusive">>})
        BY <2>2, <3>1 DEF V
      <4>3. \A p \in paths :
              Covers(Store(flow, d, {<<o, "exclusive">>}),
                     Assign(Lend(p, o, "exclusive"), d, {<<o, "exclusive">>}), declared)
        BY <2>2, <2>3, <4>1, <4>2, PathCovered, CoversReborrow
      <4> QED
        BY <2>1, <3>1, <4>3 DEF V
    <3>2. CASE mode # "exclusive"
      <4>1. \A p \in paths : Lend(p, o, mode) = Read(p, o)
        BY <3>2 DEF Lend
      <4>2. \A p \in paths : Read(p, o) \in Paths /\ Covers(flow, Read(p, o), declared)
        BY <2>2, PathCovered, CoversRead
      <4>3. \A p \in paths : Covers(Store(flow, d, V), Assign(Read(p, o), d, V), declared)
        BY <2>2, <2>3, <2>5, <4>2, PathCovered, CoversStore
      <4> QED
        BY <2>1, <4>1, <4>3
    <3> QED
      BY <3>1, <3>2
  <2>7. OriginsTyped(f)
    BY <2>1, <2>4, <2>5, PathCovered, TypedStore
  <2>8. b = FALSE
    <3>1. \A p \in paths : Sound(p, o)
      BY <2>2, PathCovered, CoversRead
    <3> QED
      BY <2>2, <3>1, PathCovered, NotReassigned DEF Unsound, Reassigned
  <2>9. Describes(f, ps, declared)
    BY <2>6, <2>7 DEF Describes
  <2> HIDE DEF f, ps, b
  <2> QED
    BY <1>1, <1>3, <2>8, <2>9, AcceptDescribed
<1> QED
  BY <1>2, <1>3

\* What a move leaves alone: the value of a local that is still without one, and
\* the views of a local that was not consumed.
LEMMA MoveKeeps ==
  ASSUME NEW f \in Flows, NEW p \in Paths, NEW s \in Symbols, NEW t \in Symbols
  PROVE  /\ Value(Move(f, s), t) = "uninit" => Value(f, t) = "uninit"
         /\ Value(Move(f, s), t) = "init" => Transfer(p, s).view[t] = p.view[t]
<1>1. /\ ~Consumes(f, s) => Move(f, s) = f
      /\ Consumes(f, s) =>
           Value(Move(f, s), t) = IF t = s THEN "moved" ELSE Value(f, t)
  BY MoveFacts
<1>2. Transfers(s) => Consumes(f, s)
  BY DEF Transfers, Consumes, Borrowed, ContainsExclusive
<1>3. CASE Transfers(s)
  <2>1. Transfer(p, s).view = [p.view EXCEPT ![s] = {}]
    BY <1>3, LeaveFacts DEF Transfer, Presence
  <2> QED
    BY <1>1, <1>2, <1>3, <2>1 DEF Paths
<1>4. CASE ~Transfers(s)
  BY <1>1, <1>4, ReadFacts DEF Transfer
<1> QED
  BY <1>3, <1>4

LEMMA BuildFromDescribed ==
  ASSUME Shape, Described, NEW d \in Symbols, NEW s \in Symbols, NEW t \in Symbols,
         BuildFrom(d, s, t)
  PROVE  Described'
<1> DEFINE After(p) == Assign(Transfer(Transfer(p, s), t), d, p.view[s] \cup p.view[t])
           ps == {After(p) : p \in paths}
           first == Move(flow, s)
           second == Move(first, t)
           O == OriginsOf(flow, s) \cup OriginsOf(first, t)
           f == Store(second, d, O)
           b == \/ Unsound(s) \/ Reassigned(d)
                \/ \E p \in paths : ~Sound(Transfer(p, s), t)
<1>1. \/ Reject
      \/ /\ Accept(f, ps, b) /\ MayMove(flow, s) /\ MayMove(first, t)
         /\ MayStore(second, d, O) /\ falls
  BY DEF BuildFrom, AtStatement
<1>2. CASE Reject
  BY <1>2, RejectDescribed
<1>3. CASE ~Reject
  <2>1. /\ first \in Flows /\ first.visible = flow.visible /\ OriginsTyped(first)
        /\ OriginsOf(flow, s) \in SUBSET Origins
    BY PathCovered, MoveFacts, TypedMove, LocalType
  <2>2. /\ MayMove(flow, s) /\ MayUse(flow, s) /\ s \in declared
        /\ MayMove(first, t) /\ MayUse(first, t) /\ t \in declared
        /\ Value(first, t) = "init"
    BY <1>1, <1>3, <2>1, PathCovered DEF MayMove, MayMutate, MayUse
  <2>3. d \in declared /\ Carries(d)
    BY PathCovered DEF BuildFrom, Carries, Borrowed
  <2>4. \A p \in paths :
          /\ p \in Paths /\ Sound(p, s) /\ Transfer(p, s) \in Paths
          /\ Covers(first, Transfer(p, s), declared)
          /\ Transfer(p, s).view[t] = p.view[t]
    BY <2>2, PathCovered, CoversMove, MoveKeeps
  <2>5. Value(second, d) = "uninit" => Value(flow, d) = "uninit"
    <3> HIDE DEF first
    <3>1. EntryPath \in Paths
      BY EntryTypes
    <3>2. Value(second, d) = "uninit" => Value(first, d) = "uninit"
      BY <2>1, <3>1, MoveKeeps
    <3>3. Value(Move(flow, s), d) = "uninit" => Value(flow, d) = "uninit"
      BY <3>1, PathCovered, MoveKeeps
    <3> QED
      BY <3>2, <3>3 DEF first
  <2>6. MayStore(second, d, O) /\ MayAssign(second, d)
    BY <1>1, <1>3 DEF MayStore
  <2> HIDE DEF first
  <2>7. second \in Flows /\ second.visible = flow.visible /\ OriginsTyped(second)
        /\ O \in SUBSET Origins
    BY <2>1, MoveFacts, TypedMove, LocalType
  <2>8. \A p \in paths :
          /\ Sound(Transfer(p, s), t) /\ Transfer(Transfer(p, s), t) \in Paths
          /\ Covers(second, Transfer(Transfer(p, s), t), declared)
    BY <2>1, <2>2, <2>4, CoversMove
  <2>9. \A p \in paths :
          /\ Account(OriginsOf(first, t), p.view[t])
          /\ \A v \in p.view[t] : v[1] \in declared
    <3>1. ASSUME NEW p \in paths
          PROVE  /\ Account(OriginsOf(first, t), Transfer(p, s).view[t])
                 /\ \A v \in Transfer(p, s).view[t] : v[1] \in declared
      BY <2>1, <2>2, <2>4, OriginsAccount
    <3> QED
      BY <2>4, <3>1
  <2>10. Known(s)
    BY <2>2, ReadKnown
  <2>11. \A p \in paths :
           /\ Account(O, p.view[s] \cup p.view[t])
           /\ \A v \in p.view[s] \cup p.view[t] : v[1] \in declared
           /\ p.view[s] \cup p.view[t] \in SUBSET (Symbols \X BorrowModes)
    BY <2>9, <2>10, StatementTypes DEF Known, Account
  <2>12. b = FALSE
    <3>1. \A p \in paths : ~(p.val[d] # "uninit" /\ d \notin Mutable)
      <4>1. MayAssign(second, d) /\ d \in flow.visible
        BY <2>6 DEF BuildFrom
      <4>2. Value(flow, d) = "uninit" \/ d \in Mutable
        BY <2>5, <4>1 DEF MayAssign
      <4> QED
        BY <4>1, <4>2, PathCovered DEF Covers, Definite
    <3> QED
      BY <2>4, <2>8, <3>1 DEF Unsound, Reassigned
  <2> HIDE DEF second, O
  <2>13. \A p \in paths : Covers(f, After(p), declared)
    BY <2>3, <2>6, <2>7, <2>8, <2>11, CoversStore
  <2>14. OriginsTyped(f)
    BY <2>3, <2>7, TypedStore
  <2>15. Describes(f, ps, declared)
    BY <2>13, <2>14 DEF Describes
  <2> HIDE DEF f, ps, b
  <2> QED
    BY <1>1, <1>3, <2>12, <2>15, AcceptDescribed
<1> QED
  BY <1>2, <1>3

LEMMA ReleaseDescribed ==
  ASSUME Shape, Described, NEW s \in Symbols, ReleaseLocal(s)
  PROVE  Described'
<1> DEFINE ps == {Free(p, s) : p \in paths}
           f == Release(flow, s)
<1>1. Reject \/ (Accept(f, ps, Unsound(s)) /\ MayRelease(flow, s) /\ falls)
  BY DEF ReleaseLocal, AtStatement
<1>2. CASE Reject
  BY <1>2, RejectDescribed
<1>3. CASE ~Reject
  <2>1. MayRelease(flow, s) /\ s \in declared
    BY <1>1, <1>3, PathCovered DEF MayRelease
  <2>2. \A p \in paths : Sound(p, s) /\ Covers(f, Free(p, s), declared)
    BY <2>1, PathCovered, CoversRelease
  <2>3. OriginsTyped(f)
    BY PathCovered, ReleaseFacts DEF OriginsTyped
  <2>4. Describes(f, ps, declared) /\ Unsound(s) = FALSE
    BY <2>2, <2>3 DEF Describes, Unsound
  <2> HIDE DEF f, ps
  <2> QED
    BY <1>1, <1>3, <2>4, AcceptDescribed
<1> QED
  BY <1>2, <1>3

LEMMA MoveOutDescribed ==
  ASSUME Shape, Described, NEW s \in Symbols, PassArgument(s) \/ StoreGlobal(s)
  PROVE  Described'
<1> DEFINE ps == {Transfer(p, s) : p \in paths}
           rs == {Read(p, s) : p \in paths}
           f == Move(flow, s)
<1>1. /\ falls
      /\ \/ Reject
         \/ Accept(f, ps, Unsound(s)) /\ MayMove(flow, s)
         \/ Accept(flow, rs, Unsound(s)) /\ MayUse(flow, s)
  BY DEF PassArgument, StoreGlobal, AtStatement
<1>2. CASE Reject
  BY <1>2, RejectDescribed
<1>3. CASE Accept(f, ps, Unsound(s)) /\ MayMove(flow, s)
  <2>1. s \in declared
    BY <1>3, PathCovered DEF MayMove, MayMutate, MayUse
  <2>2. \A p \in paths : Sound(p, s) /\ Covers(f, Transfer(p, s), declared)
    BY <1>3, <2>1, PathCovered, CoversMove
  <2>3. Describes(f, ps, declared) /\ Unsound(s) = FALSE
    BY <2>2, PathCovered, TypedMove DEF Describes, Unsound
  <2> HIDE DEF f, ps
  <2> QED
    BY <1>1, <1>3, <2>3, AcceptDescribed
<1>4. CASE Accept(flow, rs, Unsound(s)) /\ MayUse(flow, s)
  <2>1. \A p \in paths : Sound(p, s) /\ Covers(flow, Read(p, s), declared)
    BY <1>4, PathCovered, CoversRead
  <2>2. Describes(flow, rs, declared) /\ Unsound(s) = FALSE
    BY <2>1, PathCovered DEF Describes, Unsound
  <2> HIDE DEF rs
  <2> QED
    BY <1>1, <1>4, <2>2, AcceptDescribed
<1> HIDE DEF f, ps, rs
<1> QED
  BY <1>1, <1>2, <1>3, <1>4

LEMMA LendArgumentsDescribed ==
  ASSUME Shape, Described, NEW o \in Symbols, NEW u \in Symbols,
         NEW m \in BorrowModes, NEW n \in BorrowModes, LendArguments(o, m, u, n)
  PROVE  Described'
<1> DEFINE ps == {Lend(Lend(p, o, m), u, n) : p \in paths}
           b == Unsound(o) \/ Unsound(u) \/ (o = u /\ "exclusive" \in {m, n})
<1>1. \/ Reject
      \/ /\ Accept(flow, ps, b) /\ MayLend(flow, o, m) /\ MayLend(flow, u, n)
         /\ ~Conflict(o, m, u, n) /\ falls
  BY DEF LendArguments, AtStatement
<1>2. CASE Reject
  BY <1>2, RejectDescribed
<1>3. CASE ~Reject
  <2>1. \A p \in paths : Lend(p, o, m) \in Paths /\ Covers(flow, Lend(p, o, m), declared)
    BY <1>1, <1>3, PathCovered, CoversLend
  <2>2. \A p \in paths : Covers(flow, Lend(Lend(p, o, m), u, n), declared)
    BY <1>1, <1>3, <2>1, PathCovered, CoversLend
  <2>3. \A p \in paths : Sound(p, o) /\ Sound(p, u)
    BY <1>1, <1>3, PathCovered, CoversLend
  <2>4. b = FALSE
    BY <1>1, <1>3, <2>3 DEF Unsound, Conflict
  <2>5. Describes(flow, ps, declared)
    BY <2>2, PathCovered DEF Describes
  <2> HIDE DEF ps, b
  <2> QED
    BY <1>1, <1>3, <2>4, <2>5, AcceptDescribed
<1> QED
  BY <1>2, <1>3

\* Without stored views, what is stored into d has no view to add to those of d.
LEMMA StoreIntoDescribed ==
  ASSUME Constructs = {}, Shape, Described, NEW d \in Symbols, NEW s \in Symbols,
         StoreInto(d, s)
  PROVE  Described'
<1> DEFINE Stored(p) == Transfer(Write(Read(p, d), d), s)
           After(p) == Absorb(Stored(p), d, p.view[s])
           ps == {After(p) : p \in paths}
           f == Move(flow, s)
           b == Unsound(d) \/ Unsound(s)
<1>1. Reject \/ (Accept(f, ps, b) /\ MayMutate(flow, d) /\ MayMove(flow, s) /\ falls)
  BY DEF StoreInto, FillPart, AtStatement
<1>2. CASE Reject
  BY <1>2, RejectDescribed
<1>3. CASE ~Reject
  <2>1. /\ MayUse(flow, d) /\ BorrowsOf(flow, d) = {} /\ d \in flow.visible
        /\ MayMove(flow, s) /\ MayUse(flow, s) /\ s \in declared
    BY <1>1, <1>3, PathCovered DEF MayMove, MayMutate, MayUse
  <2>2. ~Carries(s)
    BY DEF StoreInto, PartFits, Carries, Borrowed
  <2>3. \A p \in paths : Sound(p, d) /\ Sound(p, s)
    BY <2>1, PathCovered, CoversRead
  <2>4. \A p \in paths :
          /\ Write(Read(p, d), d) \in Paths
          /\ Covers(flow, Write(Read(p, d), d), declared)
    <3>1. \A p \in paths : Read(p, d) \in Paths /\ Covers(flow, Read(p, d), declared)
      BY <2>1, PathCovered, CoversRead
    <3> QED
      BY <2>1, <3>1, PathCovered, CoversWrite
  <2>5. \A p \in paths : Stored(p) \in Paths /\ Covers(f, Stored(p), declared)
    BY <2>1, <2>4, PathCovered, CoversMove
  <2>6. f \in Flows /\ OriginsTyped(f)
    BY PathCovered, MoveFacts, TypedMove
  <2> HIDE DEF Stored, f
  <2>7. \A p \in paths : Covers(f, After(p), declared)
    <3>1. ASSUME NEW p \in paths
          PROVE  Covers(f, After(p), declared)
      <4>1. p.view[s] = {}
        BY <2>1, <2>2, ReadKnown DEF Known
      <4>2. Stored(p) \in Paths /\ Covers(f, Stored(p), declared)
        BY <2>5
      <4>3. /\ After(p) \in Paths /\ After(p).val = Stored(p).val
            /\ After(p).view = [Stored(p).view EXCEPT ![d] = Stored(p).view[d] \cup {}]
            /\ After(p).stale = Stored(p).stale
        <5>1. {} \in SUBSET (Symbols \X BorrowModes)
          OBVIOUS
        <5> QED
          BY <4>1, <4>2, <5>1, AbsorbFacts
      <4>4. After(p).view = Stored(p).view
        BY <4>2, <4>3 DEF Paths
      <4> HIDE DEF After
      <4> QED
        BY <2>6, <4>2, <4>3, <4>4, CoversSpoil
    <3> QED
      BY <3>1
  <2>8. b = FALSE
    BY <2>3 DEF Unsound
  <2>9. Describes(f, ps, declared)
    BY <2>6, <2>7 DEF Describes
  <2> HIDE DEF ps, b
  <2> QED
    BY <1>1, <1>3, <2>8, <2>9, AcceptDescribed
<1> QED
  BY <1>2, <1>3

\* A part of a local that nobody has lent is initialized as it is stored to.
LEMMA InitializePartStores ==
  ASSUME Constructs = {}, NEW d \in Symbols, NEW s \in Symbols, InitializePart(d, s)
  PROVE  StoreInto(d, s)
BY DEF InitializePart, StoreInto, MayMutate

LEMMA SwapDescribed ==
  ASSUME Shape, Described, NEW x \in Symbols, NEW y \in Symbols, SwapPlaces(x, y)
  PROVE  Described'
<1> DEFINE Seen(p) == Read(Read(p, x), y)
           After(p) == Write(Write(Seen(p), x), y)
           ps == {After(p) : p \in paths}
           b == Unsound(x) \/ Unsound(y)
<1>1. Reject \/ (Accept(flow, ps, b) /\ MayMutate(flow, x) /\ MayMutate(flow, y) /\ falls)
  BY DEF SwapPlaces, AtStatement
<1>2. CASE Reject
  BY <1>2, RejectDescribed
<1>3. CASE ~Reject
  <2>1. /\ MayUse(flow, x) /\ BorrowsOf(flow, x) = {} /\ x \in flow.visible
        /\ MayUse(flow, y) /\ BorrowsOf(flow, y) = {} /\ y \in flow.visible
    BY <1>1, <1>3 DEF MayMutate, MayUse
  <2>2. \A p \in paths : Sound(p, x) /\ Sound(p, y)
    BY <2>1, PathCovered, CoversRead
  <2>3. \A p \in paths : Seen(p) \in Paths /\ Covers(flow, Seen(p), declared)
    <3>1. \A p \in paths : Read(p, x) \in Paths /\ Covers(flow, Read(p, x), declared)
      BY <2>1, PathCovered, CoversRead
    <3> QED
      BY <2>1, <3>1, PathCovered, CoversRead
  <2> HIDE DEF Seen
  <2>4. \A p \in paths : Covers(flow, After(p), declared)
    <3>1. \A p \in paths :
            Write(Seen(p), x) \in Paths /\ Covers(flow, Write(Seen(p), x), declared)
      BY <2>1, <2>3, PathCovered, CoversWrite
    <3> QED
      BY <2>1, <3>1, PathCovered, CoversWrite
  <2>5. b = FALSE
    BY <2>2 DEF Unsound
  <2>6. Describes(flow, ps, declared)
    BY <2>4, PathCovered DEF Describes
  <2> HIDE DEF ps, b
  <2> QED
    BY <1>1, <1>3, <2>5, <2>6, AcceptDescribed
<1> QED
  BY <1>2, <1>3

-----------------------------------------------------------------------------
(* Leaving the function or an iteration                                    *)

LEMMA StopDescribed ==
  ASSUME Described, NEW f, NEW b, Stop(f, b), UNCHANGED stack, OriginsTyped(f), b = FALSE
  PROVE  Described'
<1>1. /\ flow' = f /\ paths' = {} /\ fault' = (fault \/ b)
      /\ UNCHANGED <<declared, stack>>
  BY DEF Stop
<1>2. fault' = FALSE
  BY <1>1 DEF Described
<1> QED
  BY <1>1, <1>2 DEF Described, FrameDescribed, Describes

LEMMA ReturnLocalDescribed ==
  ASSUME Shape, Described, NEW s \in Symbols, ReturnLocal(s)
  PROVE  Described'
<1> DEFINE b == Unsound(s) \/ \E p \in paths : Escapes(p.view[s])
           f == Move(flow, s)
<1>1. \/ Reject
      \/ Stop(f, b) /\ UNCHANGED stack /\ MayUse(flow, s) /\ MayEscape(flow, s)
  BY DEF ReturnLocal
<1>2. CASE Reject
  BY <1>2, RejectDescribed
<1>3. CASE ~Reject
  <2>1. \A p \in paths : Sound(p, s)
    BY <1>1, <1>3, PathCovered, CoversRead
  <2>2. Known(s)
    BY <1>1, <1>3, ReadKnown
  <2>3. LocalOrigins(OriginsOf(flow, s)) = {}
    BY <1>1, <1>3, PathCovered DEF MayEscape, OriginsTyped, LocalOrigins
  <2>4. \A p \in paths : p.view[s] = {}
    <3>1. \A x : \A m \in BorrowModes : <<x, m>> \notin OriginsOf(flow, s)
      BY <2>3 DEF LocalOrigins
    <3>2. \A p \in paths : \A v \in p.view[s] :
            \E m \in BorrowModes : <<v[1], m>> \in OriginsOf(flow, s)
      BY <2>2 DEF Known, Account
    <3> QED
      BY <3>1, <3>2
  <2>5. b = FALSE
    BY <2>1, <2>4 DEF Unsound, Escapes
  <2>6. OriginsTyped(f)
    BY PathCovered, TypedMove
  <2> HIDE DEF f, b
  <2> QED
    BY <1>1, <1>3, <2>5, <2>6, StopDescribed
<1> QED
  BY <1>2, <1>3

\* return &o of a local is always refused.
LEMMA ReturnBorrowDescribed ==
  ASSUME Constructs = {}, Shape, Described, NEW o \in Symbols, ReturnBorrow(o)
  PROVE  Described'
<1>1. BorrowOrigins(flow, o, "shared") = {<<o, "shared">>}
  BY BorrowsItself DEF ReturnBorrow, BorrowModes
<1>2. <<o, "shared">> \in LocalOrigins(BorrowOrigins(flow, o, "shared"))
  BY <1>1 DEF LocalOrigins, BorrowModes
<1>3. Reject
  BY <1>2 DEF ReturnBorrow
<1> QED
  BY <1>3, RejectDescribed

LEMMA DepartureDescribed ==
  ASSUME Constructs = {}, Shape, Described, ReturnNothing \/ Jump
  PROVE  Described'
<1>1. Stop(flow, FALSE) /\ UNCHANGED stack
  BY DEF ReturnNothing, Jump
<1> QED
  BY <1>1, PathCovered, StopDescribed

-----------------------------------------------------------------------------
(* Blocks                                                                  *)

LEMMA PushDescribed ==
  ASSUME Shape, Described, NEW frame \in Frames, stack' = Append(stack, frame),
         FrameDescribed(frame, declared), UNCHANGED <<flow, declared, falls>>, falls,
         Describes(flow, paths', declared), fault' = FALSE
  PROVE  Described'
<1>1. /\ DOMAIN stack' = DOMAIN stack \cup {Len(stack) + 1}
      /\ stack'[Len(stack) + 1] = frame
      /\ \A i \in DOMAIN stack : stack'[i] = stack[i]
  BY Pushed DEF Shape, TypeOK
<1> QED
  BY <1>1 DEF Described, Describes, FrameDescribed

LEMMA PopDescribed ==
  ASSUME Shape, Described, stack # <<>>, stack' = Below, declared' = declared,
         Describes(flow', paths', declared), ~falls' => paths' = {}, fault' = FALSE
  PROVE  Described'
<1>1. \A i \in DOMAIN Below : i \in DOMAIN stack /\ Below[i] = stack[i]
  BY StackTop DEF Shape, TypeOK
<1>2. \A i \in DOMAIN stack' : FrameDescribed(stack'[i], declared)
  BY <1>1 DEF Described
<1> QED
  BY <1>2 DEF Described, Describes, FrameDescribed

LEMMA TurnDescribed ==
  ASSUME Shape, Described, stack # <<>>, NEW frame \in Frames,
         stack' = Append(Below, frame),
         \A i \in DOMAIN stack : FrameDescribed(stack[i], declared'),
         FrameDescribed(frame, declared'),
         Describes(flow', paths', declared'), ~falls' => paths' = {}, fault' = FALSE
  PROVE  Described'
<1>1. /\ Below \in Seq(Frames)
      /\ \A i \in DOMAIN Below : i \in DOMAIN stack /\ Below[i] = stack[i]
  BY StackTop DEF Shape, TypeOK
<1>2. /\ DOMAIN stack' = DOMAIN Below \cup {Len(Below) + 1}
      /\ stack'[Len(Below) + 1] = frame
      /\ \A i \in DOMAIN Below : stack'[i] = Below[i]
  BY <1>1, Pushed
<1>3. \A i \in DOMAIN stack' : FrameDescribed(stack'[i], declared')
  BY <1>1, <1>2
<1> QED
  BY <1>3 DEF Described, Describes, FrameDescribed

LEMMA TopDescribed ==
  ASSUME Shape, Described, stack # <<>>
  PROVE  FrameDescribed(Top, declared)
BY StackTop DEF Shape, TypeOK, Described, Top

LEMMA NewFrameDescribed ==
  ASSUME Described, NEW kind, NEW subject
  PROVE  LET g == NewFrame(kind, subject)
         IN  /\ FrameDescribed(g, declared)
             /\ g.entry = flow /\ g.joined = EmptyFlow /\ g.joins = FALSE
             /\ g.joinedPaths = {} /\ g.jumps = {} /\ g.again = {}
BY TypedEmpty DEF Described, Describes, FrameDescribed, NewFrame

\* Turning a frame to the next arm keeps what it holds.
LEMMA TurnedDescribed ==
  ASSUME NEW frame \in Frames, NEW k \in Kinds, NEW K, FrameDescribed(frame, K)
  PROVE  /\ [frame EXCEPT !.kind = k] \in Frames
         /\ FrameDescribed([frame EXCEPT !.kind = k], K)
<1> DEFINE g == [frame EXCEPT !.kind = k]
<1>1. /\ g \in Frames
      /\ g.entry = frame.entry /\ g.entryPaths = frame.entryPaths
      /\ g.joins = frame.joins /\ g.joined = frame.joined
      /\ g.joinedPaths = frame.joinedPaths
      /\ g.jumps = frame.jumps /\ g.again = frame.again
  BY KindType
<1> HIDE DEF g
<1>2. g \in Frames /\ FrameDescribed(g, K)
  BY <1>1 DEF FrameDescribed
<1> QED
  BY <1>2 DEF g

LEMMA DescribesMerge ==
  ASSUME NEW f \in Flows, NEW g \in Flows, NEW ps \in SUBSET Paths, NEW qs \in SUBSET Paths,
         NEW K, Describes(f, ps, K), Describes(g, qs, K)
  PROVE  Describes(Merge(f, g), ps \cup qs, K)
<1>1. \A p \in ps \cup qs : Covers(Merge(f, g), p, K)
  BY CoversMerge DEF Describes
<1> QED
  BY <1>1, TypedMerge DEF Describes

LEMMA DescribesRestrict ==
  ASSUME NEW f \in Flows, NEW e \in Flows, NEW ps \in SUBSET Paths, NEW K,
         Describes(f, ps, K), MayRestrictTo(f, e)
  PROVE  Describes(RestrictTo(f, e), ps, K)
<1>1. \A p \in ps : Covers(RestrictTo(f, e), p, K)
  BY CoversRestrict DEF Describes
<1> QED
  BY <1>1, TypedRestrict DEF Describes

\* A frame that joins one more described arm stays described.
LEMMA WithArmDescribed ==
  ASSUME NEW frame \in Frames, NEW f \in Flows, f.visible = frame.entry.visible,
         NEW ps \in SUBSET Paths, NEW K,
         frame.joins => frame.joined.visible = frame.entry.visible,
         FrameDescribed(frame, K), Describes(f, ps, K)
  PROVE  FrameDescribed(WithArm(frame, f, ps), K)
<1> DEFINE g == WithArm(frame, f, ps)
<1>1. /\ g \in Frames
      /\ g.entry = frame.entry /\ g.entryPaths = frame.entryPaths
      /\ g.joins = TRUE /\ g.joined = Joined(frame, f)
      /\ g.joined.visible = g.entry.visible
      /\ g.joinedPaths = frame.joinedPaths \cup ps
      /\ g.jumps = frame.jumps /\ g.again = frame.again
  BY WithArmFacts
<1>2. Describes(Joined(frame, f), frame.joinedPaths \cup ps, K)
  <2>1. CASE frame.joins
    <3>1. frame.joined \in Flows /\ frame.joinedPaths \in SUBSET Paths
      BY DEF Frames
    <3>2. Describes(Merge(frame.joined, f), frame.joinedPaths \cup ps, K)
      BY <3>1, DescribesMerge DEF FrameDescribed
    <3> QED
      BY <2>1, <3>2 DEF Joined
  <2>2. CASE ~frame.joins
    <3>1. frame.joinedPaths \cup ps = ps
      BY <2>2 DEF FrameDescribed
    <3> QED
      BY <2>2, <3>1 DEF Joined
  <2> QED
    BY <2>1, <2>2
<1> HIDE DEF g
<1>3. FrameDescribed(g, K)
  BY <1>1, <1>2 DEF FrameDescribed
<1> QED
  BY <1>3 DEF g

\* What leaves the innermost scope stays described.
LEMMA LeftDescribed ==
  ASSUME Shape, Described, stack # <<>>
  PROVE  Describes(RestrictTo(flow, Top.entry), paths, declared)
<1>1. Top.entry \in Flows /\ MayRestrictTo(flow, Top.entry)
  BY TopTypes
<1>2. flow \in Flows /\ paths \in SUBSET Paths /\ Describes(flow, paths, declared)
  BY StatementTypes DEF Described
<1> QED
  BY <1>1, <1>2, DescribesRestrict

LEMMA ArmEndDescribed ==
  ASSUME Shape, Described, stack # <<>>
  PROVE  FrameDescribed(ArmEnd(Top), declared)
<1> DEFINE left == RestrictTo(flow, Top.entry)
<1>1. /\ left \in Flows /\ left.visible = Top.entry.visible
      /\ falls => ArmEnd(Top) = WithArm(Top, left, paths)
      /\ ~falls => ArmEnd(Top) = Top
  BY ArmEndFacts
<1>2. Describes(left, paths, declared) /\ FrameDescribed(Top, declared)
  BY LeftDescribed, TopDescribed
<1> HIDE DEF left
<1>3. /\ Top \in Frames /\ paths \in SUBSET Paths
      /\ Top.joins => Top.joined.visible = Top.entry.visible
  BY TopTypes, StatementTypes
<1>4. FrameDescribed(WithArm(Top, left, paths), declared)
  BY <1>1, <1>2, <1>3, WithArmDescribed
<1> QED
  BY <1>1, <1>2, <1>4

LEMMA OpenDescribed ==
  ASSUME Shape, Described, OpenIf \/ OpenUnsafe \/ OpenComptime
  PROVE  Described'
<1>1. PICK kind \in Kinds : Open(kind)
  BY DEF OpenIf, OpenUnsafe, OpenComptime, Kinds
<1> DEFINE frame == NewFrame(kind, {})
<1>2. frame \in Frames /\ FrameDescribed(frame, declared)
  BY NewFrameType, NewFrameDescribed DEF Shape
<1>3. /\ falls /\ stack' = Append(stack, frame)
      /\ UNCHANGED <<flow, falls, declared, paths, fault>>
  BY <1>1 DEF Open, AtStatement
<1> HIDE DEF frame
<1>4. Describes(flow, paths', declared) /\ fault' = FALSE
  BY <1>3 DEF Described
<1> QED
  BY <1>2, <1>3, <1>4, PushDescribed

LEMMA OpenLoopDescribed ==
  ASSUME Constructs = {}, Shape, Described, NEW kind \in {"while", "for"},
         NEW m \in Symbols, OpenLoop(kind, m)
  PROVE  Described'
<1> DEFINE new == NewFrame(kind, {})
           frame == [new EXCEPT !.again = {}]
<1>1. /\ falls /\ stack' = Append(stack, frame) /\ paths' = paths \cup {}
      /\ UNCHANGED <<flow, falls, declared, fault>>
  BY DEF OpenLoop, AtStatement
<1>2. new \in Frames /\ FrameDescribed(new, declared)
  BY NewFrameType, NewFrameDescribed DEF Shape, Kinds
<1> HIDE DEF new
<1>3. frame \in Frames /\ FrameDescribed(frame, declared)
  BY <1>2 DEF Frames, FrameDescribed
<1>4. Describes(flow, paths', declared) /\ fault' = FALSE
  BY <1>1 DEF Described
<1> HIDE DEF frame
<1> QED
  BY <1>1, <1>3, <1>4, PushDescribed

LEMMA OpenMatchDescribed ==
  ASSUME Shape, Described, NEW s \in Symbols, OpenMatch(s)
  PROVE  Described'
<1> DEFINE after == {Read(p, s) : p \in paths}
           new == NewFrame("match", {s})
           frame == [new EXCEPT !.entryPaths = after]
<1>1. \/ Reject
      \/ /\ falls /\ MayUse(flow, s)
         /\ stack' = Append(stack, frame) /\ paths' = after
         /\ fault' = (fault \/ Unsound(s))
         /\ UNCHANGED <<flow, falls, declared>>
  BY DEF OpenMatch, AtStatement
<1>2. CASE Reject
  BY <1>2, RejectDescribed
<1>3. CASE ~Reject
  <2>1. \A p \in paths : Sound(p, s) /\ Covers(flow, Read(p, s), declared)
    BY <1>1, <1>3, PathCovered, CoversRead
  <2>2. Describes(flow, after, declared) /\ after \in SUBSET Paths
    BY <2>1, PathCovered, MovedType DEF Describes
  <2>3. fault' = FALSE
    BY <1>1, <1>3, <2>1 DEF Described, Unsound
  <2>4. new \in Frames /\ FrameDescribed(new, declared) /\ new.entry = flow
    BY NewFrameType, NewFrameDescribed DEF Shape, Kinds
  <2> HIDE DEF new, after
  <2>5. frame \in Frames /\ FrameDescribed(frame, declared)
    BY <2>2, <2>4 DEF Frames, FrameDescribed
  <2> HIDE DEF frame
  <2> QED
    BY <1>1, <1>3, <2>2, <2>3, <2>5, PushDescribed
<1> QED
  BY <1>2, <1>3

LEMMA ElseDescribed ==
  ASSUME Shape, Described, Else
  PROVE  Described'
<1>1. stack # <<>> /\ length' \in Nat /\ declared' = declared
  BY AtEndTypes DEF Else
<1>2. CASE Reject
  BY <1>2, RejectDescribed
<1>3. CASE ~Reject
  <2> DEFINE arm == ArmEnd(Top)
             frame == [arm EXCEPT !.kind = "else"]
  <2>1. arm \in Frames /\ FrameDescribed(arm, declared)
        /\ arm.entry = Top.entry /\ arm.entryPaths = Top.entryPaths
    BY <1>1, ArmEndFacts, ArmEndDescribed
  <2>2. /\ stack' = Append(Below, frame) /\ flow' = Top.entry /\ paths' = Top.entryPaths
        /\ falls' = TRUE /\ fault' = fault
    BY <1>3 DEF Else
  <2> HIDE DEF arm
  <2>3. frame \in Frames /\ FrameDescribed(frame, declared)
    BY <2>1, TurnedDescribed DEF Kinds
  <2> HIDE DEF frame
  <2>4. Describes(flow', paths', declared) /\ fault' = FALSE
    BY <2>1, <2>2 DEF FrameDescribed, Described
  <2>5. \A i \in DOMAIN stack : FrameDescribed(stack[i], declared)
    BY DEF Described
  <2> QED
    BY <1>1, <2>2, <2>3, <2>4, <2>5, TurnDescribed
<1> QED
  BY <1>2, <1>3

LEMMA ResumeDescribed ==
  ASSUME Shape, Described, stack # <<>>, declared' = declared,
         NEW frame \in Frames, Resume(frame), FrameDescribed(frame, declared)
  PROVE  Described'
<1>1. /\ falls' = frame.joins
      /\ flow' = IF frame.joins THEN frame.joined ELSE frame.entry
      /\ paths' = frame.joinedPaths /\ stack' = Below /\ fault' = fault
  BY DEF Resume
<1>2. ~falls' => paths' = {}
  BY <1>1 DEF FrameDescribed
<1>3. Describes(flow', paths', declared)
  <2>1. CASE frame.joins
    BY <1>1, <2>1 DEF FrameDescribed
  <2>2. CASE ~frame.joins
    BY <1>1, <2>2 DEF FrameDescribed, Describes
  <2> QED
    BY <2>1, <2>2
<1>4. fault' = FALSE
  BY <1>1 DEF Described
<1> QED
  BY <1>1, <1>2, <1>3, <1>4, PopDescribed

LEMMA EndIfDescribed ==
  ASSUME Shape, Described, EndIf
  PROVE  Described'
<1>1. stack # <<>> /\ length' \in Nat /\ declared' = declared
  BY AtEndTypes DEF EndIf
<1> DEFINE first == ArmEnd(Top)
           frame == WithArm(first, Top.entry, Top.entryPaths)
<1>2. Reject \/ Resume([first EXCEPT !.joins = TRUE, !.joined = Joined(first, Top.entry),
                                     !.joinedPaths = @ \cup Top.entryPaths])
  BY DEF EndIf
<1>3. Reject \/ Resume(frame)
  BY <1>2 DEF WithArm
<1>4. /\ first \in Frames /\ first.entry = Top.entry
      /\ first.joins => first.joined.visible = first.entry.visible
      /\ FrameDescribed(first, declared)
  BY <1>1, ArmEndFacts, ArmEndDescribed
<1> HIDE DEF first
<1>5. /\ Top.entry \in Flows /\ Top.entryPaths \in SUBSET Paths
      /\ Describes(Top.entry, Top.entryPaths, declared)
  BY <1>1, TopTypes, TopDescribed DEF FrameDescribed
<1>6. frame \in Frames /\ FrameDescribed(frame, declared)
  BY <1>4, <1>5, WithArmFacts, WithArmDescribed
<1> HIDE DEF frame
<1> QED
  BY <1>1, <1>3, <1>6, RejectDescribed, ResumeDescribed

LEMMA EndElseDescribed ==
  ASSUME Shape, Described, EndElse
  PROVE  Described'
<1>1. stack # <<>> /\ length' \in Nat /\ declared' = declared
  BY AtEndTypes DEF EndElse
<1>2. Reject \/ Resume(ArmEnd(Top))
  BY DEF EndElse
<1>3. ArmEnd(Top) \in Frames /\ FrameDescribed(ArmEnd(Top), declared)
  BY <1>1, ArmEndFacts, ArmEndDescribed
<1> QED
  BY <1>1, <1>2, <1>3, RejectDescribed, ResumeDescribed

LEMMA EndMatchDescribed ==
  ASSUME Shape, Described, EndMatch
  PROVE  Described'
<1>1. stack # <<>> /\ length' \in Nat /\ declared' = declared
  BY AtEndTypes DEF EndMatch
<1> QED
  BY <1>1, TopTypes, TopDescribed, ResumeDescribed DEF EndMatch

\* A loop that ran once, or not at all, is described by the merge of its two ends.
LEMMA CloseLoopDescribed ==
  ASSUME Shape, Described, stack # <<>>, declared' = declared,
         NEW last \in Flows, NEW ps \in SUBSET Paths, NEW b,
         CloseLoop(last, ps, b), Describes(last, ps, declared), ~falls => ps = {}, b = FALSE
  PROVE  Described'
<1> DEFINE done == {OnLap(p, 0) : p \in ps}
<1>1. /\ Top.entry \in Flows /\ Top.entryPaths \in SUBSET Paths
      /\ FrameDescribed(Top, declared)
  BY TopTypes, TopDescribed
<1>2. done \in SUBSET Paths /\ Describes(last, done, declared)
  <2>1. ASSUME NEW p \in ps
        PROVE  OnLap(p, 0) \in Paths /\ Covers(last, OnLap(p, 0), declared)
    <3> DEFINE q == OnLap(p, 0)
    <3>1. q \in Paths /\ q.val = p.val /\ q.view = p.view /\ q.stale = p.stale
      BY OnLapFacts
    <3> HIDE DEF q
    <3>2. Covers(last, p, declared)
      BY DEF Describes
    <3>3. Covers(last, q, declared)
      BY <3>1, <3>2, CoversSpoil
    <3> QED
      BY <3>1, <3>3 DEF q
  <2> QED
    BY <2>1 DEF Describes
<1>3. \/ Reject
      \/ /\ flow' = (IF falls THEN Merge(Top.entry, last) ELSE Top.entry)
         /\ paths' = Top.entryPaths \cup done \cup Top.jumps
         /\ falls' = TRUE /\ stack' = Below /\ fault' = (fault \/ b)
  BY DEF CloseLoop
<1>4. ~falls => done = {}
  OBVIOUS
<1> HIDE DEF done
<1>5. CASE Reject
  BY <1>5, RejectDescribed
<1>6. CASE ~Reject
  <2>1. paths' = Top.entryPaths \cup done
    BY <1>1, <1>3, <1>6 DEF FrameDescribed
  <2>2. Describes(flow', paths', declared)
    <3>1. CASE falls
      <4>1. Describes(Merge(Top.entry, last), Top.entryPaths \cup done, declared)
        BY <1>1, <1>2, DescribesMerge DEF FrameDescribed
      <4> QED
        BY <1>3, <1>6, <2>1, <3>1, <4>1
    <3>2. CASE ~falls
      <4>1. flow' = Top.entry /\ paths' = Top.entryPaths
        BY <1>3, <1>4, <1>6, <2>1, <3>2
      <4> QED
        BY <1>1, <4>1 DEF FrameDescribed
    <3> QED
      BY <3>1, <3>2
  <2>3. fault' = FALSE
    BY <1>3, <1>6 DEF Described
  <2> QED
    BY <1>3, <1>6, <2>2, <2>3, PopDescribed
<1> QED
  BY <1>5, <1>6

LEMMA EndWhileDescribed ==
  ASSUME Shape, Described, EndWhile
  PROVE  Described'
<1>1. stack # <<>> /\ length' \in Nat /\ declared' = declared
  BY AtEndTypes DEF EndWhile
<1> DEFINE left == RestrictTo(flow, Top.entry)
<1>2. left \in Flows /\ Describes(left, paths, declared)
  BY <1>1, ArmEndFacts, LeftDescribed
<1>3. Reject \/ CloseLoop(left, paths, FALSE)
  BY DEF EndWhile
<1>4. ~falls => paths = {}
  BY DEF Described
<1> HIDE DEF left
<1> QED
  BY <1>1, <1>2, <1>3, <1>4, StatementTypes, RejectDescribed, CloseLoopDescribed

LEMMA EndForDescribed ==
  ASSUME Shape, Described, NEW i \in Symbols, EndFor(i)
  PROVE  Described'
<1>1. stack # <<>> /\ length' \in Nat /\ declared' = declared
  BY AtEndTypes DEF EndFor
<1> DEFINE left == RestrictTo(flow, Top.entry)
           After(p) == Assign(Read(p, i), i, {})
           f == Store(left, i, {})
           ps == {After(p) : p \in paths}
<1>2. /\ left \in Flows /\ left.visible = Top.entry.visible
      /\ Describes(left, paths, declared)
  BY <1>1, ArmEndFacts, LeftDescribed
<1>3. \/ Reject
      \/ /\ CloseLoop(f, ps, Unsound(i))
         /\ falls => MayUse(left, i) /\ MayStore(left, i, {})
  BY DEF EndFor
<1>4. {} \in SUBSET Origins /\ {} \in SUBSET (Symbols \X BorrowModes) /\ Account({}, {})
  BY DEF Account
<1>5. ~falls => paths = {}
  BY DEF Described
<1> HIDE DEF left
<1>6. CASE Reject
  BY <1>6, RejectDescribed
<1>7. CASE ~Reject
  <2>1. f \in Flows /\ OriginsTyped(f)
    BY <1>2, <1>4, StoreFacts, TypedStore DEF Describes
  <2>2. ASSUME NEW p \in paths
        PROVE  Sound(p, i) /\ After(p) \in Paths /\ Covers(f, After(p), declared)
    <3>1. MayUse(left, i) /\ MayStore(left, i, {}) /\ i \in declared
      BY <1>1, <1>2, <1>3, <1>5, <1>7, TopTypes DEF MayUse
    <3>2. p \in Paths /\ Covers(left, p, declared)
      BY <1>2, PathCovered DEF Describes
    <3>3. Sound(p, i) /\ Read(p, i) \in Paths /\ Covers(left, Read(p, i), declared)
      BY <1>2, <3>1, <3>2, CoversRead
    <3> QED
      BY <1>2, <1>4, <3>1, <3>3, CoversStore
  <2>3. ps \in SUBSET Paths /\ Describes(f, ps, declared) /\ Unsound(i) = FALSE
    BY <2>1, <2>2 DEF Describes, Unsound
  <2>4. ~falls => ps = {}
    BY <1>5
  <2> HIDE DEF f, ps
  <2> QED
    BY <1>1, <1>3, <1>7, <2>1, <2>3, <2>4, CloseLoopDescribed
<1> QED
  BY <1>6, <1>7

LEMMA EndBlockDescribed ==
  ASSUME Shape, Described, EndBlock
  PROVE  Described'
<1>1. stack # <<>> /\ length' \in Nat /\ declared' = declared
  BY AtEndTypes DEF EndBlock
<1> DEFINE left == RestrictTo(flow, Top.entry)
<1>2. \/ Reject
      \/ /\ flow' = left /\ falls' = (falls \/ Top.kind = "comptime") /\ stack' = Below
         /\ UNCHANGED <<paths, verdict, fault>>
  BY DEF EndBlock
<1>3. Describes(left, paths, declared)
  BY <1>1, LeftDescribed
<1> HIDE DEF left
<1>4. CASE Reject
  BY <1>4, RejectDescribed
<1>5. CASE ~Reject
  <2>1. (~falls' => paths' = {}) /\ fault' = FALSE
    BY <1>2, <1>5 DEF Described
  <2> QED
    BY <1>1, <1>2, <1>3, <1>5, <2>1, PopDescribed
<1> QED
  BY <1>4, <1>5

\* Without bound views, the binding of an arm holds no view.
LEMMA OpenArmDescribed ==
  ASSUME Constructs = {}, Shape, Described, NEW x \in Symbols, OpenArm(x)
  PROVE  Described'
<1> DEFINE V(p) == UNION {p.view[s] : s \in Top.subject}
           After(p) == Assign(p, x, V(p))
           ps == {After(p) : p \in Top.entryPaths}
           f == Declare(Top.entry, x, "init", {})
           frame == [Top EXCEPT !.kind = "arm"]
<1>1. stack # <<>> /\ x \notin declared
  BY DEF OpenArm, Inside
<1>2. ~Carries(x)
  BY DEF OpenArm, Binds, Carries, Borrowed
<1>3. /\ flow' = f /\ paths' = ps /\ falls' = TRUE
      /\ declared' = declared \cup {x} /\ stack' = Append(Below, frame)
      /\ UNCHANGED fault
  BY <1>2 DEF OpenArm
<1>4. /\ Top \in Frames /\ Top.entry \in Flows /\ Top.entryPaths \in SUBSET Paths
      /\ Top.subject \in SUBSET Symbols /\ Top.entry.visible \subseteq declared
      /\ Describes(Top.entry, Top.entryPaths, declared)
  BY <1>1, TopTypes, TopDescribed DEF FrameDescribed
<1>5. ASSUME NEW p \in Top.entryPaths
      PROVE  Covers(f, After(p), declared \cup {x})
  <2>1. p \in Paths /\ Covers(Top.entry, p, declared)
    BY <1>4 DEF Describes
  <2>2. V(p) \in SUBSET (Symbols \X BorrowModes)
    BY <1>4, <2>1 DEF Paths
  <2> HIDE DEF V
  <2> QED
    BY <1>1, <1>2, <1>4, <2>1, <2>2, CoversBind
<1>6. OriginsTyped(f)
  <2>1. \A t \in Symbols : OriginsOf(f, t) = IF t = x THEN {} ELSE OriginsOf(Top.entry, t)
    BY <1>4, DeclareFacts DEF ValueStates
  <2> HIDE DEF f
  <2> QED
    BY <1>4, <2>1 DEF OriginsTyped, Describes
<1>7. Describes(f, ps, declared \cup {x})
  BY <1>5, <1>6 DEF Describes
<1>8. \A i \in DOMAIN stack : FrameDescribed(stack[i], declared \cup {x})
  BY FramesKept
<1>9. FrameDescribed(Top, declared \cup {x})
  BY <1>1, <1>8, StackTop DEF Top, Shape, TypeOK
<1>10. frame \in Frames /\ FrameDescribed(frame, declared \cup {x})
  BY <1>4, <1>9, TurnedDescribed DEF Kinds
<1>11. fault' = FALSE
  BY <1>3 DEF Described
<1> HIDE DEF f, ps, frame
<1> QED
  BY <1>1, <1>3, <1>7, <1>8, <1>10, <1>11, TurnDescribed

LEMMA OpenPlainArmDescribed ==
  ASSUME Shape, Described, OpenPlainArm
  PROVE  Described'
<1> DEFINE frame == [Top EXCEPT !.kind = "arm"]
<1>1. stack # <<>> /\ length' \in Nat /\ declared' = declared
  BY AtEndTypes DEF OpenPlainArm
<1>2. frame \in Frames /\ FrameDescribed(frame, declared)
  BY <1>1, TopTypes, TopDescribed, TurnedDescribed DEF Kinds
<1>3. /\ flow' = Top.entry /\ paths' = Top.entryPaths /\ falls' = TRUE
      /\ stack' = Append(Below, frame) /\ UNCHANGED fault
  BY DEF OpenPlainArm
<1>4. Describes(Top.entry, Top.entryPaths, declared)
  BY <1>1, TopDescribed DEF FrameDescribed
<1>5. fault' = FALSE /\ \A i \in DOMAIN stack : FrameDescribed(stack[i], declared)
  BY <1>3 DEF Described
<1> HIDE DEF frame
<1> QED
  BY <1>1, <1>2, <1>3, <1>4, <1>5, TurnDescribed

LEMMA EndArmDescribed ==
  ASSUME Shape, Described, EndArm
  PROVE  Described'
<1> DEFINE arm == ArmEnd(Top)
           frame == [arm EXCEPT !.kind = "arms"]
<1>1. stack # <<>> /\ length' \in Nat /\ declared' = declared
  BY AtEndTypes DEF EndArm
<1>2. arm \in Frames /\ FrameDescribed(arm, declared)
  BY <1>1, ArmEndFacts, ArmEndDescribed
<1>3. \/ Reject
      \/ stack' = Append(Below, frame) /\ UNCHANGED <<flow, falls, paths, verdict, fault>>
  BY DEF EndArm
<1> HIDE DEF arm
<1>4. frame \in Frames /\ FrameDescribed(frame, declared)
  BY <1>2, TurnedDescribed DEF Kinds
<1> HIDE DEF frame
<1>5. CASE Reject
  BY <1>5, RejectDescribed
<1>6. CASE ~Reject
  <2>1. /\ Describes(flow', paths', declared) /\ (~falls' => paths' = {}) /\ fault' = FALSE
        /\ \A i \in DOMAIN stack : FrameDescribed(stack[i], declared)
    BY <1>3, <1>6 DEF Described
  <2> QED
    BY <1>1, <1>3, <1>4, <1>6, <2>1, TurnDescribed
<1> QED
  BY <1>5, <1>6

LEMMA FinishDescribed ==
  ASSUME Shape, Described, Finish
  PROVE  Described'
<1> DEFINE f == RestrictTo(flow, EntryFlow)
<1>1. \/ Reject
      \/ /\ MayRestrictTo(flow, EntryFlow) /\ flow' = f
         /\ UNCHANGED <<falls, stack, declared, paths, fault>>
  BY DEF Finish
<1>2. CASE Reject
  BY <1>2, RejectDescribed
<1>3. CASE ~Reject
  <2>1. Describes(flow, paths, declared)
    BY DEF Described
  <2>2. Describes(f, paths, declared)
    BY <1>1, <1>3, <2>1, PathCovered, EntryTypes, DescribesRestrict
  <2> HIDE DEF f
  <2> QED
    BY <1>1, <1>3, <2>2 DEF Described, Describes, FrameDescribed
<1> QED
  BY <1>2, <1>3

-----------------------------------------------------------------------------
LEMMA NextDescribed ==
  ASSUME Constructs = {}, Shape, Described, [Next]_vars
  PROVE  Described'
<1>1. CASE Simple
  <2>1. PICK s \in Symbols :
          \/ DeclareLocal(s) \/ UseLocal(s) \/ Capture(s) \/ AssignFresh(s)
          \/ ReleaseLocal(s) \/ PassArgument(s) \/ StoreGlobal(s)
    BY <1>1 DEF Simple
  <2> QED
    BY <2>1, DeclareDescribed, UseDescribed, AssignFreshDescribed, ReleaseDescribed,
       MoveOutDescribed
<1>2. CASE Paired
  <2>1. PICK d \in Symbols, s \in Symbols :
          \/ AssignFrom(d, s)
          \/ \E mode \in BorrowModes : AssignBorrow(d, s, mode)
          \/ \E t \in Symbols : BuildFrom(d, s, t)
          \/ \E m, n \in BorrowModes : LendArguments(d, m, s, n)
          \/ StoreInto(d, s)
          \/ InitializePart(d, s)
          \/ SwapPlaces(d, s)
    BY <1>2 DEF Paired
  <2> QED
    BY <2>1, AssignFromDescribed, AssignBorrowDescribed, BuildFromDescribed,
       LendArgumentsDescribed, StoreIntoDescribed, InitializePartStores, SwapDescribed
<1>3. CASE Departure
  BY <1>3, ReturnLocalDescribed, ReturnBorrowDescribed, DepartureDescribed DEF Departure
<1>4. CASE Branch
  <2>1. CASE OpenIf
    BY <2>1, OpenDescribed
  <2>2. CASE \E s \in Symbols : OpenMatch(s) \/ OpenArm(s)
    BY <2>2, OpenMatchDescribed, OpenArmDescribed
  <2> QED
    BY <1>4, <2>1, <2>2, ElseDescribed, EndIfDescribed, EndElseDescribed,
       OpenPlainArmDescribed, EndArmDescribed, EndMatchDescribed DEF Branch
<1>5. CASE Loop
  BY <1>5, OpenLoopDescribed, EndForDescribed, EndWhileDescribed DEF Loop
<1>6. CASE OpenUnsafe \/ OpenComptime
  BY <1>6, OpenDescribed
<1>7. CASE UNCHANGED vars
  BY <1>7 DEF vars, Described, Describes, FrameDescribed
<1> QED
  BY <1>1, <1>2, <1>3, <1>4, <1>5, <1>6, <1>7, EndBlockDescribed, FinishDescribed DEF Next

\* On the core constructs the analysis keeps its promise: whatever the function,
\* no execution of the statements accepted so far faults, and the flow state at
\* every point describes every execution that reaches it.
THEOREM Soundness ==
  ASSUME Constructs = {}
  PROVE  Spec => [](NoFault /\ Covered)
<1>1. Init => Shape /\ Described
  BY InitShape, InitDescribed
<1>2. Shape /\ Described /\ [Next]_vars => (Shape /\ Described)'
  BY NextShape, NextDescribed
<1>3. Described => NoFault /\ Covered
  BY DEF Described, Describes, FrameDescribed, NoFault, Covered, PathsCovered, FrameCovered
<1> QED
  BY <1>1, <1>2, <1>3, PTL DEF Spec
=============================================================================
