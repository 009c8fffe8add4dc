-------------------------- MODULE CallArguments_proofs --------------------------
(***************************************************************************)
(* The three properties of a call, for every set of symbols and types,     *)
(* every argument list of every length and every flow state before it.     *)
(***************************************************************************)
EXTENDS CallArguments, FlowLemmas, SequenceTheorems

-----------------------------------------------------------------------------
(* The inductive invariant                                                 *)

Phases == {"check", "effects", "lend", "pass"}
Rank   == [check |-> 1, effects |-> 2, lend |-> 3, pass |-> 4]

\* The pass p is over for the argument i.
Past(p, i) == i \in DOMAIN call /\ (Rank[phase] > Rank[p] \/ (phase = p /\ i < at))

CallTypeOK ==
  /\ entry \in Flows /\ views \in Views /\ Recorded(entry, views) /\ Apart(entry, views)
  /\ flow \in Flows
  /\ call \in Seq(Arguments)
  /\ \A i \in DOMAIN call : call[i].form = "reborrow" => DirectReference(call[i].root)
  /\ function \in BOOLEAN
  /\ phase \in Phases
  /\ at \in Nat /\ 1 <= at /\ at <= Len(call) + 1
  /\ verdict \in {"open", "accepted", "rejected"}
  /\ verdict = "accepted" => phase = "pass" /\ at \notin DOMAIN call

\* The value of s has left it during the call.
Gone(s) == Value(flow, s) # Value(entry, s)

\* The flow differs from the entry in what has left, and in nothing else.
OnlyMoved ==
  /\ flow.visible = entry.visible
  /\ \A s \in Symbols :
       /\ Gone(s) => Value(flow, s) = "moved" /\ Value(entry, s) = "init"
       /\ ~Gone(s) => OriginsOf(flow, s) = OriginsOf(entry, s)
       /\ BorrowsOf(flow, s) = {b \in BorrowsOf(entry, s) : ~Gone(b.carrier)}

Checked ==
  /\ phase = "check" => flow = entry
  /\ \A i \in DOMAIN call : Past("check", i) => MayUse(entry, call[i].root)

\* The owners that arguments have taken: each was usable and is taken once.
Took(i) ==
  /\ Owned(call[i].root)
  /\ \/ Past("effects", i) /\ call[i].form = "nested"
     \/ Past("pass", i) /\ call[i].form = "value"

TakenOnce ==
  /\ \A i \in DOMAIN call : Took(i) => Gone(call[i].root)
  /\ \A i, j \in DOMAIN call : Took(i) /\ Took(j) /\ call[i].root = call[j].root => i = j

\* A direct reference only leaves when a constructor consumes it.
ConsumedAt(k, s) ==
  /\ ~function /\ Consumes(entry, s)
  /\ call[k].form = "value" /\ call[k].root = s

ReferencesStay ==
  \A s \in Symbols : DirectReference(s) /\ Gone(s) =>
    phase = "pass" /\ \E k \in DOMAIN call : k < at /\ ConsumedAt(k, s)

\* An owner is only taken once the direct references to it have left, and they
\* left into the same constructor, as arguments before it.
ViewersFirst ==
  \A i \in DOMAIN call : Took(i) =>
    \A b \in BorrowsOf(entry, call[i].root) : DirectReference(b.carrier) =>
      call[i].form = "value" /\ \E k \in DOMAIN call : k < i /\ ConsumedAt(k, b.carrier)

\* The places lent so far are kept apart from each other, and from the direct
\* references to their owners.
LentAt(i) == Past("lend", i) /\ call[i].form = "address"

LoansApart ==
  /\ loans = {call[i] : i \in {j \in DOMAIN call : LentAt(j)}}
  /\ \A i, j \in DOMAIN call : LentAt(i) /\ LentAt(j) /\ i < j => ~LoansConflict(call[i], call[j])
  /\ \A i \in DOMAIN call : LentAt(i) =>
       \A b \in BorrowsOf(entry, call[i].root) : DirectReference(b.carrier) =>
         b.kind = "shared" /\ call[i].mode = "shared"

\* A refused loan was refused by one of the two tests.
Refused ==
  verdict = "rejected" /\ phase = "lend" =>
    /\ at \in DOMAIN call
    /\ call[at].form = "address"
    /\ MayLendFrom(flow, call[at]) => \E b \in loans : LoansConflict(b, call[at])

CallInvariant ==
  /\ CallTypeOK /\ OnlyMoved /\ Checked
  /\ TakenOnce /\ ReferencesStay /\ ViewersFirst
  /\ LoansApart /\ Refused

-----------------------------------------------------------------------------
(* Positions in the passes                                                 *)

LEMMA ArgumentFacts ==
  ASSUME CallTypeOK
  PROVE  /\ Len(call) \in Nat /\ DOMAIN call = 1 .. Len(call)
         /\ \A i \in DOMAIN call : call[i] \in Arguments /\ i \in Nat
         /\ \A i \in DOMAIN call : call[i].root \in Symbols /\ call[i].mode \in BorrowModes
<1>1. call \in Seq(Arguments)
  BY DEF CallTypeOK
<1>2. Len(call) \in Nat /\ DOMAIN call = 1 .. Len(call)
  BY <1>1, LenProperties
<1>3. \A i \in DOMAIN call : call[i] \in Arguments
  BY <1>1, <1>2, ElementOfSeq
<1>4. \A a \in Arguments : a.root \in Symbols /\ a.mode \in BorrowModes
  BY DEF Arguments
<1>5. \A i \in DOMAIN call : i \in Nat
  BY <1>2
<1> QED
  BY <1>1, <1>2, <1>3, <1>4, <1>5

\* An argument that is done with adds itself to its pass, and nothing else.
LEMMA AdvancePast ==
  ASSUME CallTypeOK, at \in DOMAIN call,
         phase' = phase, call' = call, at' = at + 1,
         NEW p \in Phases, NEW i \in DOMAIN call
  PROVE  Past(p, i)' <=> (Past(p, i) \/ (p = phase /\ i = at))
<1>1. i \in Nat /\ at \in Nat
  BY ArgumentFacts DEF CallTypeOK
<1>2. i < at + 1 <=> (i < at \/ i = at)
  BY <1>1
<1> QED
  BY <1>2 DEF Past

\* A pass that is over counts as over in the next one.
LEMMA TurnPast ==
  ASSUME CallTypeOK, at \notin DOMAIN call, phase # "pass",
         phase' = After[phase], call' = call, at' = 1,
         NEW p \in Phases, NEW i \in DOMAIN call
  PROVE  Past(p, i)' <=> Past(p, i)
<1>1. /\ at \in Nat /\ 1 <= at /\ at <= Len(call) + 1 /\ Len(call) \in Nat
      /\ i \in Nat /\ 1 <= i /\ i <= Len(call) /\ at \notin 1 .. Len(call)
  BY ArgumentFacts DEF CallTypeOK
<1>2. i < at /\ ~(i < 1)
  BY <1>1
<1>3. Rank["check"] = 1 /\ Rank["effects"] = 2 /\ Rank["lend"] = 3 /\ Rank["pass"] = 4
  BY DEF Rank
<1>4. After["check"] = "effects" /\ After["effects"] = "lend" /\ After["lend"] = "pass"
  BY DEF After
<1>5. phase \in Phases
  BY DEF CallTypeOK
<1>6. p \in {"check", "effects", "lend", "pass"} /\ phase \in {"check", "effects", "lend"}
  BY <1>5 DEF Phases
<1> QED
  BY <1>2, <1>3, <1>4, <1>6 DEF Past

\* The entry state and the call never change.
Fixed == UNCHANGED <<entry, views, call, function>>

\* A step that takes and lends nothing keeps the parts about taking and lending.
LEMMA NothingTaken ==
  ASSUME CallInvariant, Fixed, UNCHANGED <<flow, loans>>,
         \A i \in DOMAIN call : /\ Past("check", i)' => MayUse(entry, call[i].root)
                                /\ Took(i)' <=> Took(i)
                                /\ LentAt(i)' <=> LentAt(i),
         phase = "pass" => phase' = "pass",
         phase' = "check" => phase = "check",
         at' \in Nat, at' >= at \/ phase # "pass"
  PROVE  (OnlyMoved /\ Checked /\ TakenOnce /\ ReferencesStay /\ ViewersFirst /\ LoansApart)'
<1> USE DEF CallInvariant, Fixed
<1>1. OnlyMoved'
  BY DEF OnlyMoved, Gone
<1>3. Checked'
  BY DEF Checked
<1>4. TakenOnce'
  BY DEF TakenOnce, Gone
<1>5. ReferencesStay'
  <2> SUFFICES ASSUME NEW s \in Symbols, DirectReference(s), Gone(s)
               PROVE  phase' = "pass" /\ \E k \in DOMAIN call : k < at' /\ ConsumedAt(k, s)
    BY DEF ReferencesStay, Gone, ConsumedAt
  <2>1. phase = "pass"
    BY DEF ReferencesStay
  <2>2. PICK k \in DOMAIN call : k < at /\ ConsumedAt(k, s)
    BY DEF ReferencesStay
  <2>3. k < at'
    <3>1. k \in Int /\ at \in Int
      BY ArgumentFacts DEF CallTypeOK
    <3> QED
      BY <2>1, <2>2, <3>1
  <2> QED
    BY <2>1, <2>2, <2>3
<1>6. ViewersFirst'
  BY DEF ViewersFirst, ConsumedAt
<1>7. LoansApart'
  BY DEF LoansApart
<1> QED
  BY <1>1, <1>3, <1>4, <1>5, <1>6, <1>7

-----------------------------------------------------------------------------
(* Steps that leave the flow alone                                         *)

\* A refusal ends the analysis where it stands.
LEMMA RejectKeeps ==
  ASSUME CallInvariant, Fixed, Reject, phase' = phase, verdict = "open",
         phase = "lend" =>
           /\ at \in DOMAIN call
           /\ call[at].form = "address"
           /\ MayLendFrom(flow, call[at]) => \E b \in loans : LoansConflict(b, call[at])
  PROVE  CallInvariant'
<1>0. verdict' = "rejected" /\ UNCHANGED <<flow, at, loans>>
  BY DEF Reject
<1>1. CallTypeOK'
  BY <1>0 DEF CallInvariant, CallTypeOK, Fixed
<1>2. \A p \in Phases : \A i \in DOMAIN call : Past(p, i)' <=> Past(p, i)
  BY <1>0 DEF Past, Fixed
<1>3. \A i \in DOMAIN call : /\ Past("check", i)' => MayUse(entry, call[i].root)
                             /\ Took(i)' <=> Took(i)
                             /\ LentAt(i)' <=> LentAt(i)
  BY <1>2 DEF CallInvariant, Checked, Took, LentAt, Phases, Fixed
<1>4. at' \in Nat /\ at' >= at
  BY <1>0 DEF CallInvariant, CallTypeOK
<1>5. (OnlyMoved /\ Checked /\ TakenOnce /\ ReferencesStay /\ ViewersFirst /\ LoansApart)'
  BY <1>0, <1>3, <1>4, NothingTaken
<1>6. Refused'
  BY <1>0 DEF Refused, Fixed
<1> QED
  BY <1>1, <1>5, <1>6 DEF CallInvariant

\* What an argument does that is checked, or that a pass has nothing to do for.
Passes ==
  /\ verdict = "open"
  /\ at \in DOMAIN call
  /\ at' = at + 1
  /\ UNCHANGED <<phase, verdict>>

LEMMA PassesType ==
  ASSUME CallTypeOK, Fixed, Passes, flow' \in Flows
  PROVE  CallTypeOK' /\ at' \in Nat /\ at' >= at /\ at < at'
<1>1. at \in Nat /\ at >= 1 /\ at <= Len(call) /\ Len(call) \in Nat
  BY ArgumentFacts DEF Passes
<1>2. at + 1 \in Nat /\ 1 <= at + 1 /\ at + 1 <= Len(call) + 1
  BY <1>1
<1> QED
  BY <1>1, <1>2 DEF CallTypeOK, Fixed, Passes

LEMMA SkipKeeps ==
  ASSUME CallInvariant, Fixed, Passes, UNCHANGED <<flow, loans>>,
         phase = "check"   => MayUse(flow, call[at].root),
         phase = "effects" => ~(call[at].form = "nested" /\ Owned(call[at].root)),
         phase = "lend"    => call[at].form # "address",
         phase = "pass"    => ~(call[at].form = "value" /\ Owned(call[at].root))
  PROVE  CallInvariant'
<1>0. CallTypeOK /\ Checked
  BY DEF CallInvariant
<1>1. CallTypeOK' /\ at' \in Nat /\ at' >= at
  BY <1>0, PassesType DEF CallTypeOK
<1>2. \A p \in Phases : \A i \in DOMAIN call : Past(p, i)' <=> (Past(p, i) \/ (p = phase /\ i = at))
  BY <1>0, AdvancePast DEF Passes, Fixed
<1>3. \A i \in DOMAIN call : Past("check", i)' => MayUse(entry, call[i].root)
  <2>1. ASSUME NEW i \in DOMAIN call, Past("check", i)' PROVE MayUse(entry, call[i].root)
    <3>1. Past("check", i) \/ ("check" = phase /\ i = at)
      BY <1>2, <2>1 DEF Phases
    <3> QED
      BY <1>0, <3>1 DEF Checked
  <2> QED
    BY <2>1
<1>4. \A i \in DOMAIN call : (Took(i)' <=> Took(i)) /\ (LentAt(i)' <=> LentAt(i))
  <2> TAKE i \in DOMAIN call
  <2>1. /\ Past("effects", i)' <=> (Past("effects", i) \/ ("effects" = phase /\ i = at))
        /\ Past("pass", i)' <=> (Past("pass", i) \/ ("pass" = phase /\ i = at))
        /\ Past("lend", i)' <=> (Past("lend", i) \/ ("lend" = phase /\ i = at))
    BY <1>2 DEF Phases
  <2> QED
    BY <2>1 DEF Took, LentAt, Fixed
<1>5. (OnlyMoved /\ Checked /\ TakenOnce /\ ReferencesStay /\ ViewersFirst /\ LoansApart)'
  BY <1>1, <1>3, <1>4, NothingTaken DEF Passes
<1>6. Refused'
  BY DEF Refused, Passes
<1> QED
  BY <1>1, <1>5, <1>6 DEF CallInvariant

\* A pass that is over: the next one starts, or the call is accepted.
LEMMA TurnKeeps ==
  ASSUME CallInvariant, NextPass
  PROVE  CallInvariant'
<1>0. CallTypeOK /\ Checked /\ Fixed
  BY DEF CallInvariant, NextPass, Fixed
<1>1. verdict = "open" /\ at \notin DOMAIN call /\ UNCHANGED <<flow, loans>>
  BY DEF NextPass
<1>2. CASE phase = "pass"
  <2>1. verdict' = "accepted" /\ UNCHANGED <<phase, at>>
    BY <1>2 DEF NextPass
  <2>2. CallTypeOK' /\ Refused'
    BY <1>0, <1>1, <1>2, <2>1 DEF CallTypeOK, Fixed, Refused
  <2>3. \A p \in Phases : \A i \in DOMAIN call : Past(p, i)' <=> Past(p, i)
    BY <1>0, <2>1 DEF Past, Fixed
  <2>4. \A i \in DOMAIN call : /\ Past("check", i)' => MayUse(entry, call[i].root)
                               /\ Took(i)' <=> Took(i)
                               /\ LentAt(i)' <=> LentAt(i)
    BY <1>0, <2>3 DEF Checked, Took, LentAt, Phases, Fixed
  <2>5. at' \in Nat /\ at' >= at
    BY <1>0, <2>1 DEF CallTypeOK
  <2>6. (OnlyMoved /\ Checked /\ TakenOnce /\ ReferencesStay /\ ViewersFirst /\ LoansApart)'
    BY <1>0, <1>1, <2>1, <2>4, <2>5, NothingTaken
  <2> QED
    BY <2>2, <2>6 DEF CallInvariant
<1>3. CASE phase # "pass"
  <2>1. phase' = After[phase] /\ at' = 1 /\ verdict' = verdict
    BY <1>3 DEF NextPass
  <2>2. phase' \in Phases /\ phase' # "check"
    BY <1>0, <1>3, <2>1 DEF CallTypeOK, Phases, After
  <2>3. CallTypeOK' /\ Refused'
    <3>1. Len(call) \in Nat /\ 1 <= Len(call) + 1
      BY <1>0, ArgumentFacts
    <3> QED
      BY <1>0, <1>1, <2>1, <2>2, <3>1 DEF CallTypeOK, Fixed, Refused
  <2>4. \A p \in Phases : \A i \in DOMAIN call : Past(p, i)' <=> Past(p, i)
    BY <1>0, <1>1, <1>3, <2>1, TurnPast DEF Fixed
  <2>5. \A i \in DOMAIN call : /\ Past("check", i)' => MayUse(entry, call[i].root)
                               /\ Took(i)' <=> Took(i)
                               /\ LentAt(i)' <=> LentAt(i)
    BY <1>0, <2>4 DEF Checked, Took, LentAt, Phases, Fixed
  <2>6. at' \in Nat
    BY <2>1
  <2>7. (OnlyMoved /\ Checked /\ TakenOnce /\ ReferencesStay /\ ViewersFirst /\ LoansApart)'
    BY <1>0, <1>1, <1>3, <2>2, <2>5, <2>6, NothingTaken
  <2> QED
    BY <2>3, <2>7 DEF CallInvariant
<1> QED
  BY <1>2, <1>3

-----------------------------------------------------------------------------
(* Lending                                                                 *)

LEMMA LendKeeps ==
  ASSUME CallInvariant, Fixed, Passes, phase = "lend", flow' = flow,
         call[at].form = "address",
         MayLendFrom(flow, call[at]),
         \A b \in loans : ~LoansConflict(b, call[at]),
         loans' = loans \cup {call[at]}
  PROVE  CallInvariant'
<1>0. CallTypeOK /\ OnlyMoved /\ Checked /\ ReferencesStay /\ LoansApart /\ at \in DOMAIN call
  BY DEF CallInvariant, Passes
<1>1. CallTypeOK' /\ at' \in Nat /\ at' >= at
  BY <1>0, PassesType DEF CallTypeOK
<1>2. \A p \in Phases : \A i \in DOMAIN call : Past(p, i)' <=> (Past(p, i) \/ (p = phase /\ i = at))
  BY <1>0, AdvancePast DEF Passes, Fixed
<1>3. \A i \in DOMAIN call : /\ Past("check", i)' <=> Past("check", i)
                             /\ Took(i)' <=> Took(i)
                             /\ LentAt(i)' <=> (LentAt(i) \/ i = at)
  <2> TAKE i \in DOMAIN call
  <2>1. /\ Past("check", i)' <=> Past("check", i)
        /\ Past("effects", i)' <=> Past("effects", i)
        /\ Past("pass", i)' <=> Past("pass", i)
        /\ Past("lend", i)' <=> (Past("lend", i) \/ i = at)
    BY <1>2 DEF Phases
  <2> QED
    BY <2>1 DEF Took, LentAt, Fixed
<1>4. (OnlyMoved /\ Checked /\ TakenOnce)'
  BY <1>0, <1>3 DEF CallInvariant, OnlyMoved, Gone, Checked, TakenOnce, Fixed, Passes
<1>5. (ReferencesStay /\ ViewersFirst)'
  BY <1>0, <1>3 DEF CallInvariant, ReferencesStay, ViewersFirst, Gone, ConsumedAt, Fixed
<1>6. LoansApart'
  <2>1. loans' = {call[i] : i \in {j \in DOMAIN call : LentAt(j)'}}
    BY <1>0, <1>3 DEF LoansApart
  <2>2. \A i \in DOMAIN call : LentAt(i) => i < at /\ call[i] \in loans
    <3>1. \A i \in DOMAIN call : Past("lend", i) => i < at
      BY DEF Past, Rank
    <3> QED
      BY <1>0, <3>1 DEF LentAt, LoansApart
  <2>3. ASSUME NEW i \in DOMAIN call, NEW j \in DOMAIN call,
               LentAt(i)', LentAt(j)', i < j
        PROVE  ~LoansConflict(call[i], call[j])
    <3>1. i \in Nat /\ j \in Nat /\ at \in Nat
      BY <1>0, ArgumentFacts DEF CallTypeOK
    <3>2. LentAt(i)
      BY <1>3, <2>2, <2>3, <3>1
    <3> QED
      BY <1>0, <1>3, <2>2, <2>3, <3>2 DEF LoansApart
  <2>4. ASSUME NEW b \in BorrowsOf(entry, call[at].root), DirectReference(b.carrier)
        PROVE  b.kind = "shared" /\ call[at].mode = "shared"
    <3>1. call[at].root \in Symbols /\ call[at].mode \in BorrowModes
      BY <1>0, ArgumentFacts
    <3>2. b.carrier \in Symbols /\ b.kind \in BorrowModes
      BY <1>0, <3>1, LocalType DEF CallTypeOK, Borrows
    <3>3. ~Gone(b.carrier)
      BY <1>0, <2>4, <3>2 DEF ReferencesStay
    <3>4. b \in BorrowsOf(flow, call[at].root)
      BY <1>0, <3>1, <3>3 DEF OnlyMoved
    <3> QED
      BY <3>1, <3>2, <3>4 DEF MayLendFrom, HasExclusive, BorrowModes
  <2>5. \A i \in DOMAIN call : LentAt(i)' =>
          \A b \in BorrowsOf(entry, call[i].root) : DirectReference(b.carrier) =>
            b.kind = "shared" /\ call[i].mode = "shared"
    BY <1>0, <1>3, <2>4 DEF LoansApart
  <2> QED
    BY <2>1, <2>3, <2>5 DEF LoansApart, Fixed
<1>7. Refused'
  BY DEF Refused, Passes
<1> QED
  BY <1>1, <1>4, <1>5, <1>6, <1>7 DEF CallInvariant

-----------------------------------------------------------------------------
(* Taking                                                                  *)

LEMMA TakeKeeps ==
  ASSUME CallInvariant, Fixed, Passes, loans' = loans,
         NEW s \in Symbols, s = call[at].root,
         \/ phase = "effects" /\ call[at].form = "nested" /\ ~DirectReference(s)
         \/ phase = "pass" /\ call[at].form = "value" /\ ~(function /\ DirectReference(s)),
         MayMove(flow, s), Consumes(flow, s), flow' = Move(flow, s)
  PROVE  CallInvariant'
<1>0. /\ CallTypeOK /\ OnlyMoved /\ Checked /\ TakenOnce /\ ReferencesStay /\ ViewersFirst
      /\ LoansApart /\ at \in DOMAIN call /\ phase \in {"effects", "pass"}
  BY DEF CallInvariant, Passes
<1>1. /\ flow' \in Flows
      /\ flow'.visible = flow.visible
      /\ \A t \in Symbols :
           /\ Value(flow', t) = IF t = s THEN "moved" ELSE Value(flow, t)
           /\ BorrowsOf(flow', t) = {b \in BorrowsOf(flow, t) : b.carrier # s}
           /\ OriginsOf(flow', t) = IF t = s THEN {} ELSE OriginsOf(flow, t)
  <2>1. flow \in Flows
    BY <1>0 DEF CallTypeOK
  <2> DEFINE g == Move(flow, s)
  <2>2. /\ g \in Flows
        /\ g.visible = flow.visible
        /\ \A t \in Symbols :
             /\ Value(g, t) = IF t = s THEN "moved" ELSE Value(flow, t)
             /\ BorrowsOf(g, t) = {b \in BorrowsOf(flow, t) : b.carrier # s}
             /\ OriginsOf(g, t) = IF t = s THEN {} ELSE OriginsOf(flow, t)
    BY <2>1, MoveFacts
  <2> QED
    BY <2>2
<1>2. CallTypeOK' /\ at' \in Nat /\ at < at'
  BY <1>0, <1>1, PassesType
<1>3. Value(flow, s) = "init" /\ BorrowsOf(flow, s) = {}
  BY DEF MayMove, MayMutate, MayUse
<1>4. ~Gone(s) /\ Value(entry, s) = "init"
  BY <1>0, <1>3 DEF OnlyMoved, Gone
<1>5. \A t \in Symbols : Gone(t)' <=> (Gone(t) \/ t = s)
  BY <1>1, <1>4 DEF Gone, Fixed
<1>6. \A p \in Phases : \A i \in DOMAIN call : Past(p, i)' <=> (Past(p, i) \/ (p = phase /\ i = at))
  BY <1>0, AdvancePast DEF Passes, Fixed
<1>7. \A i \in DOMAIN call : /\ Past("check", i)' <=> Past("check", i)
                             /\ Took(i)' <=> (Took(i) \/ (i = at /\ Owned(s)))
                             /\ LentAt(i)' <=> LentAt(i)
  <2> TAKE i \in DOMAIN call
  <2>1. /\ Past("check", i)' <=> Past("check", i)
        /\ Past("effects", i)' <=> (Past("effects", i) \/ ("effects" = phase /\ i = at))
        /\ Past("pass", i)' <=> (Past("pass", i) \/ ("pass" = phase /\ i = at))
        /\ Past("lend", i)' <=> Past("lend", i)
    BY <1>0, <1>6 DEF Phases
  <2> QED
    BY <2>1 DEF Took, LentAt, Fixed
<1>8. \A i \in DOMAIN call : call[i].root \in Symbols
  BY <1>0, ArgumentFacts
<1>9. OnlyMoved'
  <2>1. flow'.visible = entry'.visible
    BY <1>0, <1>1 DEF OnlyMoved, Fixed
  <2>2. ASSUME NEW t \in Symbols
        PROVE  /\ Gone(t)' => Value(flow', t) = "moved" /\ Value(entry, t) = "init"
               /\ ~Gone(t)' => OriginsOf(flow', t) = OriginsOf(entry, t)
    BY <1>0, <1>1, <1>4, <1>5 DEF OnlyMoved, Gone
  <2>3. ASSUME NEW t \in Symbols
        PROVE  BorrowsOf(flow', t) = {b \in BorrowsOf(entry, t) : ~Gone(b.carrier)'}
    <3>1. \A b \in BorrowsOf(entry, t) : b.carrier \in Symbols
      BY <1>0, LocalType DEF CallTypeOK, Borrows
    <3>2. \A b \in BorrowsOf(entry, t) : Gone(b.carrier)' <=> (Gone(b.carrier) \/ b.carrier = s)
      BY <1>5, <3>1
    <3>3. BorrowsOf(flow, t) = {b \in BorrowsOf(entry, t) : ~Gone(b.carrier)}
      BY <1>0 DEF OnlyMoved
    <3>4. BorrowsOf(flow', t) = {b \in BorrowsOf(flow, t) : b.carrier # s}
      BY <1>1
    <3> QED
      BY <3>2, <3>3, <3>4
  <2> QED
    BY <2>1, <2>2, <2>3 DEF OnlyMoved, Fixed
<1>10. Checked'
  BY <1>0, <1>7 DEF Checked, Fixed, Passes
<1>11. TakenOnce'
  <2>1. ASSUME NEW i \in DOMAIN call, Took(i)' PROVE Value(flow', call[i].root) # Value(entry, call[i].root)
    <3>1. Gone(call[i].root) \/ call[i].root = s
      BY <1>0, <1>7, <2>1 DEF TakenOnce
    <3> QED
      BY <1>1, <1>4, <1>8, <3>1 DEF Gone, OnlyMoved
  <2>2. \A i \in DOMAIN call : Took(i) => call[i].root # s
    BY <1>0, <1>4 DEF TakenOnce
  <2>3. \A i, j \in DOMAIN call : Took(i)' /\ Took(j)' /\ call[i].root = call[j].root => i = j
    BY <1>0, <1>7, <2>2 DEF TakenOnce
  <2> QED
    BY <2>1, <2>3 DEF TakenOnce, Fixed, Gone
<1>12. ReferencesStay'
  <2> SUFFICES ASSUME NEW t \in Symbols, DirectReference(t), Gone(t)'
               PROVE  phase = "pass" /\ \E k \in DOMAIN call : k < at' /\ ConsumedAt(k, t)
    BY DEF ReferencesStay, ConsumedAt, Fixed, Passes
  <2>1. CASE t = s
    <3>1. phase = "pass" /\ ~function /\ call[at].form = "value"
      BY <2>1, <1>0 DEF CallTypeOK
    <3>2. Consumes(entry, s)
      BY <1>0, <1>4 DEF OnlyMoved, Consumes
    <3> QED
      BY <1>0, <1>2, <2>1, <3>1, <3>2 DEF ConsumedAt
  <2>2. CASE t # s
    <3>1. phase = "pass"
      BY <1>0, <1>5, <2>2 DEF ReferencesStay
    <3>2. PICK k \in DOMAIN call : k < at /\ ConsumedAt(k, t)
      BY <1>0, <1>5, <2>2 DEF ReferencesStay
    <3>3. k < at'
      <4>1. k \in Nat /\ at \in Nat
        BY <1>0, ArgumentFacts DEF CallTypeOK
      <4> QED
        BY <1>2, <3>2, <4>1
    <3> QED
      BY <3>1, <3>2, <3>3
  <2> QED
    BY <2>1, <2>2
<1>13. ViewersFirst'
  <2>1. ASSUME NEW b \in BorrowsOf(entry, s), DirectReference(b.carrier)
        PROVE  call[at].form = "value" /\ \E k \in DOMAIN call : k < at /\ ConsumedAt(k, b.carrier)
    <3>1. b.carrier \in Symbols
      BY <1>0, LocalType DEF CallTypeOK, Borrows
    <3>2. Gone(b.carrier)
      BY <1>0, <1>3 DEF OnlyMoved
    <3> QED
      BY <1>0, <2>1, <3>1, <3>2 DEF ReferencesStay
  <2>2. \A i \in DOMAIN call : Took(i)' =>
          \A b \in BorrowsOf(entry, call[i].root) : DirectReference(b.carrier) =>
            call[i].form = "value" /\ \E k \in DOMAIN call : k < i /\ ConsumedAt(k, b.carrier)
    BY <1>0, <1>7, <2>1 DEF ViewersFirst
  <2> QED
    BY <2>2 DEF ViewersFirst, ConsumedAt, Fixed
<1>14. LoansApart'
  BY <1>0, <1>7 DEF LoansApart, Fixed
<1>15. Refused'
  BY DEF Refused, Passes
<1> QED
  BY <1>2, <1>9, <1>10, <1>11, <1>12, <1>13, <1>14, <1>15 DEF CallInvariant

-----------------------------------------------------------------------------
(* The invariant holds                                                     *)

LEMMA InitInvariant ==
  ASSUME Init
  PROVE  CallInvariant
<1>1. PICK e \in Entries : entry = e.flow /\ views = e.views
  BY DEF Init
<1>2. entry \in Flows /\ views \in Views /\ Recorded(entry, views) /\ Apart(entry, views)
  BY <1>1, EntriesAssumption
<1>3. call \in Seq(Arguments)
  BY CallsAssumption DEF Init
<1>4. \A i \in DOMAIN call : call[i].form = "reborrow" => DirectReference(call[i].root)
  BY CallsAssumption DEF Init
<1>5. CallTypeOK
  <2>1. 1 \in Nat /\ 1 <= 1 /\ 1 <= Len(call) + 1
    BY <1>3, LenProperties
  <2> QED
    BY <1>2, <1>3, <1>4, <2>1 DEF Init, CallTypeOK, Phases
<1>6. \A p \in Phases : \A i \in DOMAIN call : ~Past(p, i)
  <2>1. \A i \in DOMAIN call : i \in Nat /\ ~(i < 1)
    BY <1>3, LenProperties
  <2>2. phase = "check" /\ at = 1
    BY DEF Init
  <2> QED
    BY <2>1, <2>2 DEF Past, Rank, Phases
<1>7. \A i \in DOMAIN call : ~Past("check", i) /\ ~Took(i) /\ ~LentAt(i)
  BY <1>6 DEF Took, LentAt, Phases
<1>8. flow = entry /\ \A s \in Symbols : ~Gone(s)
  BY DEF Init, Gone
<1>9. OnlyMoved
  <2>1. \A s \in Symbols : \A b \in BorrowsOf(entry, s) : b.carrier \in Symbols
    BY <1>2, LocalType DEF Borrows
  <2>2. \A s \in Symbols : BorrowsOf(flow, s) = {b \in BorrowsOf(entry, s) : ~Gone(b.carrier)}
    BY <1>8, <2>1
  <2> QED
    BY <1>8, <2>2 DEF OnlyMoved
<1>10. Checked /\ TakenOnce /\ ReferencesStay /\ ViewersFirst
  BY <1>7, <1>8 DEF Checked, TakenOnce, ReferencesStay, ViewersFirst
<1>11. LoansApart /\ Refused
  BY <1>7 DEF LoansApart, Refused, Init
<1> QED
  BY <1>5, <1>9, <1>10, <1>11 DEF CallInvariant

\* What an argument gives away, in the pass over the nested calls or the last.
LEMMA GiveKeeps ==
  ASSUME CallInvariant, Fixed, verdict = "open", at \in DOMAIN call, phase' = phase,
         NEW toFunction \in BOOLEAN, Give(toFunction, call[at].root),
         \/ phase = "effects" /\ call[at].form = "nested" /\ toFunction
         \/ phase = "pass" /\ call[at].form = "value" /\ toFunction = function
  PROVE  CallInvariant'
<1> DEFINE s == call[at].root
<1>0. s \in Symbols
  BY ArgumentFacts DEF CallInvariant
<1>1. CASE ~Transferred(toFunction, s) \/ (MayMove(flow, s) /\ ~Consumes(flow, s))
  <2>1. \/ ~Transferred(toFunction, s) /\ at' = at + 1 /\ UNCHANGED <<flow, loans, verdict>>
        \/ Transferred(toFunction, s) /\ MayMove(flow, s)
           /\ flow' = Move(flow, s) /\ at' = at + 1 /\ UNCHANGED <<loans, verdict>>
    BY <1>1 DEF Give
  <2>2. ~Owned(s)
    BY <1>1 DEF Transferred, DirectReference, Owned, Consumes
  <2>3. UNCHANGED <<flow, loans>> /\ Passes
    BY <1>1, <2>1 DEF Passes, Move
  <2> QED
    BY <2>2, <2>3, SkipKeeps
<1>2. CASE Transferred(toFunction, s) /\ MayMove(flow, s) /\ Consumes(flow, s)
  <2>1. flow' = Move(flow, s) /\ loans' = loans /\ Passes
    BY <1>2 DEF Give, Passes
  <2>2. \/ phase = "effects" /\ call[at].form = "nested" /\ ~DirectReference(s)
        \/ phase = "pass" /\ call[at].form = "value" /\ ~(function /\ DirectReference(s))
    BY <1>2 DEF Transferred
  <2> HIDE DEF s
  <2>3. s = call[at].root
    BY DEF s
  <2> QED
    BY <1>0, <1>2, <2>1, <2>2, <2>3, TakeKeeps
<1>3. CASE Transferred(toFunction, s) /\ ~MayMove(flow, s)
  <2>1. Reject /\ phase # "lend"
    BY <1>3 DEF Give
  <2> QED
    BY <2>1, RejectKeeps
<1> QED
  BY <1>1, <1>2, <1>3

LEMMA NextInvariant ==
  ASSUME CallInvariant, [Next]_vars
  PROVE  CallInvariant'
<1>1. CASE CheckUse
  <2>1. /\ Fixed /\ verdict = "open" /\ at \in DOMAIN call
        /\ phase = "check" /\ phase' = phase
    BY <1>1 DEF CheckUse, AtArgument, Fixed
  <2>2. CASE MayUse(flow, call[at].root)
    <3>1. Passes /\ UNCHANGED <<flow, loans>>
      BY <1>1, <2>1, <2>2 DEF CheckUse, Passes
    <3> QED
      BY <2>1, <2>2, <3>1, SkipKeeps
  <2>3. CASE ~MayUse(flow, call[at].root)
    <3>1. Reject
      BY <1>1, <2>3 DEF CheckUse
    <3> QED
      BY <2>1, <3>1, RejectKeeps
  <2> QED
    BY <2>2, <2>3
<1>2. CASE ApplyNested
  <2>1. /\ Fixed /\ verdict = "open" /\ at \in DOMAIN call
        /\ phase = "effects" /\ phase' = phase
    BY <1>2 DEF ApplyNested, AtArgument, Fixed
  <2>2. CASE call[at].form = "nested"
    <3>1. Give(TRUE, call[at].root)
      BY <1>2, <2>2 DEF ApplyNested
    <3> QED
      BY <2>1, <2>2, <3>1, GiveKeeps
  <2>3. CASE call[at].form # "nested"
    <3>1. Passes /\ UNCHANGED <<flow, loans>>
      BY <1>2, <2>1, <2>3 DEF ApplyNested, Passes
    <3> QED
      BY <2>1, <2>3, <3>1, SkipKeeps
  <2> QED
    BY <2>2, <2>3
<1>3. CASE LendPlace
  <2>1. /\ Fixed /\ verdict = "open" /\ at \in DOMAIN call
        /\ phase = "lend" /\ phase' = phase
    BY <1>3 DEF LendPlace, AtArgument, Fixed
  <2>2. CASE call[at].form # "address"
    <3>1. Passes /\ UNCHANGED <<flow, loans>>
      BY <1>3, <2>1, <2>2 DEF LendPlace, Passes
    <3> QED
      BY <2>1, <2>2, <3>1, SkipKeeps
  <2>3. CASE call[at].form = "address" /\ MayLendFrom(flow, call[at])
             /\ \A b \in loans : ~LoansConflict(b, call[at])
    <3>1. Passes /\ flow' = flow /\ loans' = loans \cup {call[at]}
      BY <1>3, <2>1, <2>3 DEF LendPlace, Passes
    <3> QED
      BY <2>1, <2>3, <3>1, LendKeeps
  <2>4. CASE call[at].form = "address" /\ ~(MayLendFrom(flow, call[at])
             /\ \A b \in loans : ~LoansConflict(b, call[at]))
    <3>1. Reject
      BY <1>3, <2>4 DEF LendPlace
    <3> QED
      BY <2>1, <2>4, <3>1, RejectKeeps
  <2> QED
    BY <2>2, <2>3, <2>4
<1>4. CASE Pass
  <2>1. /\ Fixed /\ verdict = "open" /\ at \in DOMAIN call
        /\ phase = "pass" /\ phase' = phase
    BY <1>4 DEF Pass, AtArgument, Fixed
  <2>2. CASE call[at].form = "value"
    <3>1. Give(function, call[at].root) /\ function \in BOOLEAN
      BY <1>4, <2>2 DEF Pass, CallInvariant, CallTypeOK
    <3> QED
      BY <2>1, <2>2, <3>1, GiveKeeps
  <2>3. CASE call[at].form # "value"
    <3>1. Passes /\ UNCHANGED <<flow, loans>>
      BY <1>4, <2>1, <2>3 DEF Pass, Passes
    <3> QED
      BY <2>1, <2>3, <3>1, SkipKeeps
  <2> QED
    BY <2>2, <2>3
<1>5. CASE NextPass
  BY <1>5, TurnKeeps
<1>6. CASE UNCHANGED vars
  BY <1>6 DEF vars, CallInvariant, CallTypeOK, OnlyMoved, Gone, Checked, TakenOnce, Took, Past,
              ReferencesStay, ConsumedAt, ViewersFirst, LoansApart, LentAt, Refused
<1> QED
  BY <1>1, <1>2, <1>3, <1>4, <1>5, <1>6 DEF Next

\* For every symbol table, every call and every flow state before it, the
\* passes keep the invariant: what has left the flow, what the arguments took
\* and what they lent agree.
THEOREM CallInvariantHolds == Spec => []CallInvariant
<1>1. Init => CallInvariant
  BY InitInvariant
<1>2. CallInvariant /\ [Next]_vars => CallInvariant'
  BY NextInvariant
<1> QED
  BY <1>1, <1>2, PTL DEF Spec

-----------------------------------------------------------------------------
(* Paths and the places they denote                                        *)

LEMMA PrefixAgrees ==
  ASSUME NEW S, NEW p \in Seq(S), NEW q \in Seq(S)
  PROVE  IsPrefix(p, q) <=> (Len(p) <= Len(q) /\ \A k \in 1 .. Len(p) : p[k] = q[k])
<1>1. Len(p) \in Nat /\ Len(q) \in Nat /\ DOMAIN p = 1 .. Len(p) /\ DOMAIN q = 1 .. Len(q)
  BY LenProperties
<1>2. SubSeq(p, 1, Len(p)) = p
  <2>1. p = [i \in 1 .. Len(p) |-> p[i]]
    BY <1>1
  <2> QED
    BY <1>1, <2>1
<1>3. ASSUME Len(p) <= Len(q)
      PROVE  SubSeq(p, 1, Len(p)) = SubSeq(q, 1, Len(p)) <=> \A k \in 1 .. Len(p) : p[k] = q[k]
  <2>1. p = [i \in 1 .. Len(p) |-> p[i]]
    BY <1>1
  <2>2. SubSeq(q, 1, Len(p)) = [i \in 1 .. Len(p) |-> q[i]]
    BY <1>1, <1>3
  <2>3. p = SubSeq(q, 1, Len(p)) <=> \A k \in 1 .. Len(p) : p[k] = q[k]
    BY <2>1, <2>2
  <2> QED
    BY <1>2, <2>3
<1> QED
  BY <1>3 DEF IsPrefix

LEMMA PlaceOfPath ==
  ASSUME NEW path \in Seq(Projections)
  PROVE  /\ Len(path) \in Nat /\ DOMAIN path = 1 .. Len(path)
         /\ \A p \in Places(path) :
              /\ p \in Seq(Projections \cup {"0", "1"}) /\ Len(p) = Len(path)
              /\ \A k \in 1 .. Len(path) : path[k] # "index" => p[k] = path[k]
         /\ path \in Seq(Projections \cup {"0", "1"})
         /\ (\A k \in 1 .. Len(path) : path[k] # "index") => path \in Places(path)
<1> DEFINE S == Projections \cup {"0", "1"}
<1>1. Len(path) \in Nat /\ DOMAIN path = 1 .. Len(path)
  BY LenProperties
<1>2. ASSUME NEW p \in Places(path)
      PROVE  /\ p \in Seq(S) /\ Len(p) = Len(path)
             /\ \A k \in 1 .. Len(path) : path[k] # "index" => p[k] = path[k]
  <2>1. p \in [1 .. Len(path) -> S]
    BY <1>1 DEF Places
  <2>2. p \in Seq(S) /\ Len(p) = Len(path)
    BY <1>1, <2>1, SeqDef, LenProperties
  <2>3. \A k \in 1 .. Len(path) : path[k] # "index" => p[k] = path[k]
    BY <1>1 DEF Places
  <2> QED
    BY <2>2, <2>3
<1>3. path \in [1 .. Len(path) -> S]
  BY <1>1, ElementOfSeq
<1>4. path \in Seq(S)
  BY <1>1, <1>3, SeqDef
<1>5. (\A k \in 1 .. Len(path) : path[k] # "index") => path \in Places(path)
  BY <1>1, <1>3 DEF Places
<1> QED
  BY <1>1, <1>2, <1>4, <1>5

\* Places of paths that part at two fields are not parts of each other.
LEMMA ApartPaths ==
  ASSUME NEW p \in Seq(Projections), NEW q \in Seq(Projections), ~PathsOverlap(p, q),
         NEW u \in Places(p), NEW v \in Places(q)
  PROVE  ~IsPrefix(u, v) /\ ~IsPrefix(v, u)
<1>1. PICK k \in DOMAIN p \cap DOMAIN q :
        p[k] # q[k] /\ \A j \in 1 .. k : p[j] # "index" /\ q[j] # "index"
  BY DEF PathsOverlap
<1>2. /\ Len(p) \in Nat /\ Len(q) \in Nat /\ k \in 1 .. Len(p) /\ k \in 1 .. Len(q)
      /\ Len(u) = Len(p) /\ Len(v) = Len(q)
      /\ u \in Seq(Projections \cup {"0", "1"}) /\ v \in Seq(Projections \cup {"0", "1"})
  BY PlaceOfPath
<1>3. p[k] # "index" /\ q[k] # "index"
  BY <1>1, <1>2
<1>4. u[k] = p[k] /\ v[k] = q[k]
  BY <1>2, <1>3, PlaceOfPath
<1>5. u[k] # v[k]
  BY <1>1, <1>4
<1> QED
  BY <1>2, <1>5, PrefixAgrees

\* Paths without an index that overlap are parts of each other.
LEMMA OverlappingPaths ==
  ASSUME NEW p \in Seq(Projections), NEW q \in Seq(Projections), PathsOverlap(p, q),
         \A k \in 1 .. Len(p) : p[k] # "index", \A k \in 1 .. Len(q) : q[k] # "index"
  PROVE  \E u \in Places(p), v \in Places(q) : IsPrefix(u, v) \/ IsPrefix(v, u)
<1>1. /\ Len(p) \in Nat /\ Len(q) \in Nat /\ DOMAIN p = 1 .. Len(p) /\ DOMAIN q = 1 .. Len(q)
      /\ p \in Places(p) /\ q \in Places(q)
      /\ p \in Seq(Projections \cup {"0", "1"}) /\ q \in Seq(Projections \cup {"0", "1"})
  BY PlaceOfPath
<1>2. ASSUME NEW k \in 1 .. Len(p), k \in 1 .. Len(q)
      PROVE  p[k] = q[k]
  <2>1. \A j \in 1 .. k : p[j] # "index" /\ q[j] # "index"
    BY <1>1, <1>2
  <2> QED
    BY <1>1, <1>2, <2>1 DEF PathsOverlap
<1>3. IsPrefix(p, q) \/ IsPrefix(q, p)
  <2>1. CASE Len(p) <= Len(q)
    BY <1>1, <1>2, <2>1, PrefixAgrees
  <2>2. CASE Len(q) <= Len(p)
    BY <1>1, <1>2, <2>2, PrefixAgrees
  <2> QED
    BY <1>1, <2>1, <2>2
<1> QED
  BY <1>1, <1>3

-----------------------------------------------------------------------------
(* What an accepted call reaches                                           *)

Lends(i)  == call[i].form = "address"
Refers(i) == call[i].form # "address" /\ DirectReference(call[i].root)
Owns(i)   == call[i].form # "address" /\ Owned(call[i].root)

LEMMA ReachedFacts ==
  ASSUME NEW i \in DOMAIN call, NEW h \in Reached(call[i])
  PROVE  \/ /\ Lends(i)
            /\ h = [base |-> <<"local", call[i].root>>, path |-> call[i].path, mode |-> call[i].mode]
         \/ /\ Refers(i)
            /\ \E w \in views[call[i].root] :
                 h = [base |-> w[1], path |-> <<>>, mode |-> ModeOf(call[i], w)]
         \/ /\ Owns(i)
            /\ h = [base |-> <<"local", call[i].root>>, path |-> <<>>, mode |-> "exclusive"]
<1>1. CASE call[i].form = "address"
  BY <1>1 DEF Reached, Lends
<1>2. CASE call[i].form # "address" /\ DirectReference(call[i].root)
  <2>1. Reached(call[i]) =
          {[base |-> w[1], path |-> <<>>, mode |-> ModeOf(call[i], w)] : w \in views[call[i].root]}
    BY <1>2 DEF Reached
  <2>2. \E w \in views[call[i].root] :
          h = [base |-> w[1], path |-> <<>>, mode |-> ModeOf(call[i], w)]
    BY <2>1
  <2> QED
    BY <1>2, <2>2 DEF Refers
<1>3. CASE call[i].form # "address" /\ ~DirectReference(call[i].root) /\ Owned(call[i].root)
  BY <1>3 DEF Reached, Owns
<1>4. CASE call[i].form # "address" /\ ~DirectReference(call[i].root) /\ ~Owned(call[i].root)
  BY <1>4 DEF Reached
<1> QED
  BY <1>1, <1>2, <1>3, <1>4

\* When a call is accepted every argument has been through every pass.
LEMMA AllPast ==
  ASSUME CallInvariant, verdict = "accepted", NEW i \in DOMAIN call
  PROVE  /\ call[i].root \in entry.visible /\ Usable(entry, call[i].root)
         /\ MayUse(entry, call[i].root)
         /\ Lends(i) => LentAt(i)
         /\ Owns(i) => Took(i)
<1>1. CallTypeOK /\ Checked /\ phase = "pass" /\ at \notin DOMAIN call
  BY DEF CallInvariant, CallTypeOK
<1>2. i < at
  BY <1>1, ArgumentFacts DEF CallTypeOK
<1>3. \A p \in Phases : Past(p, i)
  BY <1>1, <1>2 DEF Past, Phases, Rank
<1>4. MayUse(entry, call[i].root)
  BY <1>1, <1>3 DEF Checked, Phases
<1>5. Owns(i) => call[i].form \in {"value", "nested"}
  BY <1>1, ArgumentFacts DEF CallTypeOK, Owns, Owned, DirectReference, Arguments
<1> QED
  BY <1>3, <1>4, <1>5 DEF MayUse, Usable, Lends, LentAt, Owns, Took, Phases

\* A reference to a lent place only reads it, and so does who it is lent to.
LEMMA LentAndReferred ==
  ASSUME CallInvariant, verdict = "accepted",
         NEW i \in DOMAIN call, Lends(i), NEW j \in DOMAIN call, Refers(j),
         NEW w \in views[call[j].root], w[1] = <<"local", call[i].root>>
  PROVE  call[i].mode = "shared" /\ ModeOf(call[j], w) = "shared"
<1>1. CallTypeOK /\ LoansApart /\ LentAt(i)
  BY AllPast DEF CallInvariant
<1>2. call[i].root \in entry.visible /\ call[j].root \in entry.visible /\ Usable(entry, call[j].root)
  BY AllPast
<1>3. PICK b \in BorrowsOf(entry, call[i].root) :
        b.carrier = call[j].root /\ (w[2] = "exclusive" => b.kind = "exclusive")
  BY <1>1, <1>2 DEF CallTypeOK, Recorded
<1>4. b.kind = "shared" /\ call[i].mode = "shared"
  BY <1>1, <1>3 DEF LoansApart, Refers
<1>5. w[2] \in BorrowModes
  <2>1. call[j].root \in Symbols
    BY <1>1, ArgumentFacts
  <2> QED
    BY <1>1, <2>1 DEF CallTypeOK, Views
<1>6. w[2] = "shared"
  BY <1>3, <1>4, <1>5 DEF BorrowModes
<1> QED
  BY <1>4, <1>6 DEF ModeOf

\* Nothing the callee owns is viewed by a reference it is given.
LEMMA OwnedAndReferred ==
  ASSUME CallInvariant, verdict = "accepted", Unrelated,
         NEW i \in DOMAIN call, Owns(i), NEW j \in DOMAIN call, Refers(j),
         NEW w \in views[call[j].root], w[1] = <<"local", call[i].root>>
  PROVE  FALSE
<1>1. CallTypeOK /\ ViewersFirst /\ Took(i)
  BY AllPast DEF CallInvariant
<1>2. call[i].root \in entry.visible /\ call[j].root \in entry.visible /\ Usable(entry, call[j].root)
  BY AllPast
<1>3. PICK b \in BorrowsOf(entry, call[i].root) :
        b.carrier = call[j].root /\ (w[2] = "exclusive" => b.kind = "exclusive")
  BY <1>1, <1>2 DEF CallTypeOK, Recorded
<1>4. PICK k \in DOMAIN call : k < i /\ ConsumedAt(k, call[j].root) /\ call[i].form = "value"
  BY <1>1, <1>3 DEF ViewersFirst, Refers
<1>5. call[k].root = call[j].root /\ ConsumesView(call[k], call[i])
  BY <1>4 DEF ConsumedAt, ConsumesView, Refers, Owns
<1> QED
  BY <1>4, <1>5 DEF Unrelated

\* Two references to the same storage only read it.
LEMMA BothReferred ==
  ASSUME CallInvariant, verdict = "accepted", Unrelated,
         NEW i \in DOMAIN call, Refers(i), NEW j \in DOMAIN call, Refers(j), i # j,
         NEW w \in views[call[i].root], NEW u \in views[call[j].root], w[1] = u[1]
  PROVE  ModeOf(call[i], w) = "shared" /\ ModeOf(call[j], u) = "shared"
<1>1. CASE call[i].root = call[j].root
  <2>1. ~SameReference(call[i], call[j]) \/ ~SameReference(call[j], call[i])
    <3>1. i < j \/ j < i
      BY ArgumentFacts DEF CallInvariant
    <3> QED
      BY <3>1 DEF Unrelated
  <2>2. TypeOf[call[i].root] = "shared_ref"
    BY <1>1, <2>1 DEF SameReference, Refers, DirectReference
  <2> QED
    BY <1>1, <2>2 DEF ModeOf
<1>2. CASE call[i].root # call[j].root
  <2>1. w[2] = "shared" /\ u[2] = "shared"
    BY <1>2, AllPast DEF CallInvariant, CallTypeOK, Apart
  <2> QED
    BY <2>1 DEF ModeOf
<1> QED
  BY <1>1, <1>2

\* An owner is neither lent nor given a second time.
LEMMA OwnedAlone ==
  ASSUME CallInvariant, verdict = "accepted", Unrelated,
         NEW i \in DOMAIN call, Owns(i), NEW j \in DOMAIN call, i # j, Lends(j) \/ Owns(j)
  PROVE  call[i].root # call[j].root
<1>1. CASE Lends(j)
  <2>1. i < j \/ j < i
    BY ArgumentFacts DEF CallInvariant
  <2> QED
    BY <1>1, <2>1 DEF Unrelated, MovesLent, Lends, Owns
<1>2. CASE Owns(j)
  BY <1>2, AllPast DEF CallInvariant, TakenOnce
<1> QED
  BY <1>1, <1>2

\* Two places lent for the call do not overlap where one of them is written.
LEMMA BothLent ==
  ASSUME CallInvariant, verdict = "accepted",
         NEW i \in DOMAIN call, Lends(i), NEW j \in DOMAIN call, Lends(j), i < j,
         call[i].root = call[j].root,
         NEW u \in Places(call[i].path), NEW v \in Places(call[j].path),
         IsPrefix(u, v) \/ IsPrefix(v, u)
  PROVE  "exclusive" \notin {call[i].mode, call[j].mode}
<1>1. ~LoansConflict(call[i], call[j])
  BY AllPast DEF CallInvariant, LoansApart
<1>2. call[i].path \in Seq(Projections) /\ call[j].path \in Seq(Projections)
  BY ArgumentFacts DEF CallInvariant, Arguments
<1>3. PathsOverlap(call[i].path, call[j].path)
  BY <1>2, ApartPaths
<1> QED
  BY <1>1, <1>3 DEF LoansConflict

LEMMA AcceptedIsExclusive ==
  ASSUME CallInvariant
  PROVE  ArgumentsExclusive
<1> SUFFICES ASSUME verdict = "accepted", Unrelated,
                    NEW i \in DOMAIN call, NEW j \in DOMAIN call, i < j,
                    NEW h \in Reached(call[i]), NEW k \in Reached(call[j]), MayAlias(h, k)
             PROVE  ~Exclusive(h, k)
  BY DEF ArgumentsExclusive, KeptApart
<1>0. h.base = k.base /\ i # j
  BY ArgumentFacts DEF MayAlias, CallInvariant
<1>1. CASE Lends(i) /\ Lends(j)
  <2>1. /\ h = [base |-> <<"local", call[i].root>>, path |-> call[i].path, mode |-> call[i].mode]
        /\ k = [base |-> <<"local", call[j].root>>, path |-> call[j].path, mode |-> call[j].mode]
    BY <1>1, ReachedFacts DEF Lends, Refers, Owns
  <2>2. PICK u \in Places(call[i].path), v \in Places(call[j].path) : IsPrefix(u, v) \/ IsPrefix(v, u)
    BY <2>1 DEF MayAlias
  <2>3. call[i].root = call[j].root
    BY <1>0, <2>1
  <2>4. "exclusive" \notin {call[i].mode, call[j].mode}
    BY <1>1, <2>2, <2>3, BothLent
  <2> QED
    BY <2>1, <2>4 DEF Exclusive
<1>2. CASE Refers(i) /\ Refers(j)
  <2>1. PICK w \in views[call[i].root] : h = [base |-> w[1], path |-> <<>>, mode |-> ModeOf(call[i], w)]
    BY <1>2, ReachedFacts DEF Lends, Refers, Owns, Owned, DirectReference
  <2>2. PICK u \in views[call[j].root] : k = [base |-> u[1], path |-> <<>>, mode |-> ModeOf(call[j], u)]
    BY <1>2, ReachedFacts DEF Lends, Refers, Owns, Owned, DirectReference
  <2>3. h.mode = "shared" /\ k.mode = "shared"
    BY <1>0, <1>2, <2>1, <2>2, BothReferred
  <2> QED
    BY <2>3 DEF Exclusive
<1>3. CASE Lends(i) /\ Refers(j)
  <2>1. h.base = <<"local", call[i].root>> /\ h.mode = call[i].mode
    BY <1>3, ReachedFacts DEF Lends, Refers, Owns
  <2>2. PICK u \in views[call[j].root] : k = [base |-> u[1], path |-> <<>>, mode |-> ModeOf(call[j], u)]
    BY <1>3, ReachedFacts DEF Lends, Refers, Owns, Owned, DirectReference
  <2>3. h.mode = "shared" /\ k.mode = "shared"
    BY <1>0, <1>3, <2>1, <2>2, LentAndReferred
  <2> QED
    BY <2>3 DEF Exclusive
<1>4. CASE Refers(i) /\ Lends(j)
  <2>1. k.base = <<"local", call[j].root>> /\ k.mode = call[j].mode
    BY <1>4, ReachedFacts DEF Lends, Refers, Owns
  <2>2. PICK w \in views[call[i].root] : h = [base |-> w[1], path |-> <<>>, mode |-> ModeOf(call[i], w)]
    BY <1>4, ReachedFacts DEF Lends, Refers, Owns, Owned, DirectReference
  <2>3. h.mode = "shared" /\ k.mode = "shared"
    BY <1>0, <1>4, <2>1, <2>2, LentAndReferred
  <2> QED
    BY <2>3 DEF Exclusive
<1>5. CASE Owns(i) /\ (Lends(j) \/ Owns(j))
  <2>1. h.base = <<"local", call[i].root>> /\ k.base = <<"local", call[j].root>>
    BY <1>5, ReachedFacts DEF Lends, Refers, Owns, Owned, DirectReference
  <2>2. call[i].root = call[j].root
    <3>1. <<"local", call[i].root>> = <<"local", call[j].root>>
      BY <1>0, <2>1, Zenon
    <3> QED
      BY ONLY <3>1
  <2> QED
    BY <1>0, <1>5, <2>2, OwnedAlone
<1>6. CASE Lends(i) /\ Owns(j)
  <2>1. h.base = <<"local", call[i].root>> /\ k.base = <<"local", call[j].root>>
    BY <1>6, ReachedFacts DEF Lends, Refers, Owns, Owned, DirectReference
  <2>2. call[i].root = call[j].root
    <3>1. <<"local", call[i].root>> = <<"local", call[j].root>>
      BY <1>0, <2>1, Zenon
    <3> QED
      BY ONLY <3>1
  <2> QED
    BY <1>0, <1>6, <2>2, OwnedAlone
<1>7. CASE Owns(i) /\ Refers(j)
  <2>1. h.base = <<"local", call[i].root>>
    BY <1>7, ReachedFacts DEF Lends, Refers, Owns, Owned, DirectReference
  <2>2. PICK u \in views[call[j].root] : k = [base |-> u[1], path |-> <<>>, mode |-> ModeOf(call[j], u)]
    BY <1>7, ReachedFacts DEF Lends, Refers, Owns, Owned, DirectReference
  <2> QED
    BY <1>0, <1>7, <2>1, <2>2, OwnedAndReferred
<1>8. CASE Refers(i) /\ Owns(j)
  <2>1. k.base = <<"local", call[j].root>>
    BY <1>8, ReachedFacts DEF Lends, Refers, Owns, Owned, DirectReference
  <2>2. PICK w \in views[call[i].root] : h = [base |-> w[1], path |-> <<>>, mode |-> ModeOf(call[i], w)]
    BY <1>8, ReachedFacts DEF Lends, Refers, Owns, Owned, DirectReference
  <2> QED
    BY <1>0, <1>8, <2>1, <2>2, OwnedAndReferred
<1> QED
  BY <1>1, <1>2, <1>3, <1>4, <1>5, <1>6, <1>7, <1>8, ReachedFacts

-----------------------------------------------------------------------------
(* The properties                                                          *)

LEMMA RefusalHasCause ==
  ASSUME CallInvariant
  PROVE  RefusedForCause
<1> SUFFICES ASSUME verdict = "rejected", phase = "lend", BorrowsOf(flow, call[at].root) = {}
             PROVE  \E i \in 1 .. at - 1 :
                      /\ call[i].form = "address"
                      /\ \E h \in Reached(call[i]), k \in Reached(call[at]) :
                           /\ Exclusive(h, k)
                           /\ MayAlias(h, k) \/ "index" \in ToSet(h.path) \cup ToSet(k.path)
  BY DEF RefusedForCause
<1>1. /\ CallTypeOK /\ LoansApart /\ at \in DOMAIN call /\ call[at].form = "address"
      /\ MayLendFrom(flow, call[at]) => \E b \in loans : LoansConflict(b, call[at])
  BY DEF CallInvariant, Refused
<1>2. MayLendFrom(flow, call[at])
  BY DEF MayLendFrom, HasExclusive
<1>3. PICK i \in DOMAIN call : LentAt(i) /\ LoansConflict(call[i], call[at])
  BY <1>1, <1>2 DEF LoansApart
<1>4. i \in 1 .. at - 1
  <2>1. i < at
    BY <1>3 DEF LentAt, Past, Rank
  <2>2. at \in Nat /\ i \in 1 .. Len(call) /\ Len(call) \in Nat
    BY <1>1, ArgumentFacts DEF CallTypeOK
  <2> QED
    BY <2>1, <2>2
<1> DEFINE h == [base |-> <<"local", call[i].root>>, path |-> call[i].path, mode |-> call[i].mode]
           k == [base |-> <<"local", call[at].root>>, path |-> call[at].path, mode |-> call[at].mode]
<1>5. h \in Reached(call[i]) /\ k \in Reached(call[at]) /\ call[i].form = "address"
  BY <1>1, <1>3 DEF Reached, LentAt
<1>6. h.base = k.base /\ Exclusive(h, k) /\ PathsOverlap(call[i].path, call[at].path)
  BY <1>3 DEF LoansConflict, Exclusive
<1>7. call[i].path \in Seq(Projections) /\ call[at].path \in Seq(Projections)
  BY <1>1, ArgumentFacts DEF Arguments
<1>8. MayAlias(h, k) \/ "index" \in ToSet(h.path) \cup ToSet(k.path)
  <2>1. CASE "index" \in ToSet(call[i].path) \cup ToSet(call[at].path)
    BY <2>1
  <2>2. CASE "index" \notin ToSet(call[i].path) \cup ToSet(call[at].path)
    <3>1. /\ \A n \in 1 .. Len(call[i].path) : call[i].path[n] # "index"
          /\ \A n \in 1 .. Len(call[at].path) : call[at].path[n] # "index"
      BY <1>7, <2>2, LenProperties DEF ToSet
    <3>2. \E u \in Places(call[i].path), v \in Places(call[at].path) : IsPrefix(u, v) \/ IsPrefix(v, u)
      BY <1>6, <1>7, <3>1, OverlappingPaths
    <3> QED
      BY <1>6, <3>2 DEF MayAlias
  <2> QED
    BY <2>1, <2>2
<1> HIDE DEF h, k
<1> QED
  BY <1>4, <1>5, <1>6, <1>8

LEMMA LoansAreOver ==
  ASSUME CallInvariant
  PROVE  LoansEnd
BY DEF CallInvariant, OnlyMoved, LoansEnd, Gone

\* Whatever the types, the number of arguments and the flow state before the
\* call: no two arguments of an accepted call that the analysis relates reach
\* the same storage unless both only read it.
THEOREM ArgumentsStayExclusive == Spec => []ArgumentsExclusive
BY CallInvariantHolds, AcceptedIsExclusive, PTL

\* A loan for a call is only refused where its place is borrowed or may overlap
\* a place lent to the same call for writing, or by one that writes.
THEOREM RefusalsHaveCause == Spec => []RefusedForCause
BY CallInvariantHolds, RefusalHasCause, PTL

\* The loans of a call leave no borrow behind, and a call ends exactly the
\* borrows whose carrier it consumed.
THEOREM LoansEndWithTheCall == Spec => []LoansEnd
BY CallInvariantHolds, LoansAreOver, PTL

-----------------------------------------------------------------------------
(* The entries of a call are what the analysis of its function reaches     *)

\* The storage a path of module PathSemantics says each local views.
ViewsOfPath(p) == [c \in Symbols |-> {<<<<"local", v[1]>>, v[2]>> : v \in p.view[c]}]

\* A flow state that covers an execution is an entry of a call: Soundness shows
\* of the whole driver that every flow state covers every execution it meets.
LEMMA CoveredIsEntry ==
  ASSUME NEW f \in Flows, NEW p \in Paths, NEW known, Covers(f, p, known)
  PROVE  ViewsOfPath(p) \in Views /\ Recorded(f, ViewsOfPath(p)) /\ Apart(f, ViewsOfPath(p))
<1>1. \A c \in Symbols : p.view[c] \in SUBSET (Symbols \X BorrowModes)
  BY DEF Paths
<1>2. \A c \in f.visible : c \in Symbols
  BY FlowType
<1>3. ViewsOfPath(p) \in Views
  BY <1>1 DEF ViewsOfPath, Views, Storage
<1>4. Recorded(f, ViewsOfPath(p))
  <2> SUFFICES ASSUME NEW c \in f.visible, Usable(f, c), NEW w \in ViewsOfPath(p)[c],
                      NEW x \in f.visible, w[1] = <<"local", x>>
               PROVE  \E b \in BorrowsOf(f, x) :
                        b.carrier = c /\ (w[2] = "exclusive" => b.kind = "exclusive")
    BY DEF Recorded
  <2>1. PICK v \in p.view[c] : w = <<<<"local", v[1]>>, v[2]>>
    BY <1>2 DEF ViewsOfPath
  <2>2. v[1] = x /\ v[2] = w[2]
    BY <2>1
  <2> QED
    BY <2>2 DEF Covers, Registered, Usable
<1>5. Apart(f, ViewsOfPath(p))
  <2> SUFFICES ASSUME NEW c \in f.visible, NEW e \in f.visible, c # e, Usable(f, c), Usable(f, e),
                      NEW w \in ViewsOfPath(p)[c], NEW u \in ViewsOfPath(p)[e], w[1] = u[1]
               PROVE  w[2] = "shared" /\ u[2] = "shared"
    BY DEF Apart
  <2>1. PICK v \in p.view[c] : w = <<<<"local", v[1]>>, v[2]>>
    BY <1>2 DEF ViewsOfPath
  <2>2. PICK y \in p.view[e] : u = <<<<"local", y[1]>>, y[2]>>
    BY <1>2 DEF ViewsOfPath
  <2>3. v[1] = y[1] /\ v[2] \in BorrowModes /\ y[2] \in BorrowModes
    BY <1>1, <1>2, <2>1, <2>2
  <2>4. e \notin Rivals(p, c)
    BY DEF Covers, Disjoint, Usable
  <2>5. v[2] # "exclusive" /\ y[2] # "exclusive"
    BY <1>2, <2>3, <2>4 DEF Rivals
  <2> QED
    BY <2>1, <2>2, <2>3, <2>5 DEF BorrowModes
<1> QED
  BY <1>3, <1>4, <1>5
=============================================================================
