--------------------------- MODULE PatternMatching ---------------------------
(* Match statements of the seed compiler: what the analysis says of a pattern,   *)
(* how the checker accumulates coverage over the arms, which tests the emitter   *)
(* keeps, and the arm a value ends in. A type is a scalar, a struct of fields    *)
(* or an enum of constructors; option and result are enums of two constructors.  *)
(* A binding has a name, by which bodies find it, and the spelling it is written  *)
(* in: identifiers of other bytes may be one name (Identifier_Identity_Equals).   *)
EXTENDS Integers, Sequences

CONSTANTS Matches,  \* [type, arms]: a scrutinee's type and its sequence of patterns
          Scalars   \* the values of a scalar type

VARIABLES matched,   \* the statement
          armAt, armsCovered, coveredAll,
          scrutinee, arm, bindings,
          matchStage

matchVars == <<matched, armAt, armsCovered, coveredAll, scrutinee, arm, bindings, matchStage>>

OptionOf(t)    == [kind |-> "enum", name |-> "option", aliases |-> <<>>,
                   constructors |-> <<[name |-> "none", payloads |-> <<>>], [name |-> "some", payloads |-> <<t>>]>>]
ResultOf(t, u) == [kind |-> "enum", name |-> "result", aliases |-> <<>>,
                   constructors |-> <<[name |-> "ok", payloads |-> <<t>>], [name |-> "err", payloads |-> <<u>>]>>]

-----------------------------------------------------------------------------
(* The analysis of one pattern.                                                *)

NoConstructor == 0
Positions(list, name) == {i \in 1..Len(list) : list[i].name = name}
\* Name_Find_Enum_Constructor: the type's own constructors, else those the aliases of
\* its unit lead to, the first that fits at every step; none when the name is unknown.
ConstructorOf(type, name) ==
  LET own(n) == Positions(type.constructors, n)
      renamed(n) == Positions(type.aliases, n)
      led[d \in 0..Len(type.aliases)] ==
        IF d = 0 THEN name
        ELSE LET last == led[d - 1]
             IN  IF own(last) # {} \/ renamed(last) = {} THEN last
                 ELSE type.aliases[CHOOSE i \in renamed(last) : \A j \in renamed(last) : i <= j].target
      found == own(led[Len(type.aliases)])
  IN  IF type.kind # "enum" \/ found = {} THEN NoConstructor ELSE CHOOSE i \in found : TRUE
FieldAt(type, name) == CHOOSE i \in Positions(type.fields, name) : TRUE

Analysed(irrefutable, constructor, covered, bound) ==
  [error |-> "none", irrefutable |-> irrefutable, constructor |-> constructor, covered |-> covered, bound |-> bound]
Faulty(code, bound) ==
  [error |-> code, irrefutable |-> FALSE, constructor |-> NoConstructor, covered |-> FALSE, bound |-> bound]

\* A spelling is bound once in a pattern: the bytes are compared, not the names.
AddBinding(pattern, bound) ==
  IF \E i \in 1..Len(bound) : bound[i] = pattern THEN Faulty("E0205", bound)
  ELSE Analysed(TRUE, NoConstructor, FALSE, Append(bound, pattern))

RECURSIVE Analyze(_, _, _)
\* The children in order, until one is refused.
AnalyzeChildren(types, patterns, bound) ==
  LET after[n \in 0..Len(patterns)] ==
        IF n = 0 THEN Analysed(TRUE, NoConstructor, FALSE, bound)
        ELSE LET before == after[n - 1]
                 child  == Analyze(types[n], patterns[n], before.bound)
             IN  IF before.error # "none" THEN before
                 ELSE [child EXCEPT !.irrefutable = @ /\ before.irrefutable]
  IN  after[Len(patterns)]

\* A field that is repeated or unknown ends the analysis where it stands.
AnalyzeStruct(type, pattern, bound) ==
  LET fields == pattern.fields
      wrong  == {i \in 1..Len(fields) : \/ Positions(type.fields, fields[i].name) = {}
                                        \/ \E j \in 1..i - 1 : fields[j].name = fields[i].name}
      sound  == {n \in 0..Len(fields) : \A i \in wrong : n < i}
      upTo   == CHOOSE n \in sound : \A m \in sound : m <= n
      inner  == AnalyzeChildren([i \in 1..upTo |-> type.fields[FieldAt(type, fields[i].name)].type],
                                [i \in 1..upTo |-> fields[i].pattern], bound)
  IN  IF inner.error # "none" THEN Faulty(inner.error, inner.bound)
      ELSE IF wrong # {} THEN Faulty("E0502", inner.bound)
      ELSE Analysed(inner.irrefutable, NoConstructor, FALSE, inner.bound)

\* Mutant of CoveredBy: a constructor counts as covered whatever its payloads demand.
CoveredByName(payloads) == TRUE
\* A constructor is fully covered when no payload can refuse.
CoveredBy(payloads) == payloads.irrefutable

AnalyzeEnum(type, pattern, bound) ==
  LET index == ConstructorOf(type, pattern.constructor)
      types == type.constructors[index].payloads
      inner == AnalyzeChildren(types, pattern.payloads, bound)
  IN  IF index = NoConstructor \/ pattern.type # type.name THEN Faulty("E0400", bound)
      ELSE IF Len(pattern.payloads) # Len(types) THEN Faulty("E0400", bound)
      ELSE IF inner.error # "none" THEN Faulty(inner.error, inner.bound)
      ELSE Analysed(Len(type.constructors) = 1 /\ inner.irrefutable, index, CoveredBy(inner), inner.bound)

Analyze(type, pattern, bound) ==
  CASE pattern.kind = "wildcard" -> Analysed(TRUE, NoConstructor, FALSE, bound)
    [] pattern.kind = "binding"  -> AddBinding(pattern, bound)
    [] pattern.kind = "struct"   -> IF type.kind = "struct" THEN AnalyzeStruct(type, pattern, bound)
                                    ELSE Faulty("E0400", bound)
    [] OTHER                     -> IF type.kind = "enum" THEN AnalyzeEnum(type, pattern, bound)
                                    ELSE Faulty("E0400", bound)

-----------------------------------------------------------------------------
(* The checker: one arm after the other.                                       *)

MatchInit ==
  /\ matched \in Matches
  /\ armAt = 1 /\ armsCovered = {} /\ coveredAll = FALSE
  /\ scrutinee = <<>> /\ arm = 0 /\ bindings = <<>>
  /\ matchStage = [phase |-> "check", code |-> "none"]

RefuseMatch(code) ==
  /\ matchStage' = [phase |-> "refused", code |-> code]
  /\ UNCHANGED <<matched, armAt, armsCovered, coveredAll, scrutinee, arm, bindings>>

ArmPattern == matched.arms[armAt]

CheckArm ==
  /\ matchStage.phase = "check"
  /\ armAt <= Len(matched.arms)
  /\ LET analysis == Analyze(matched.type, ArmPattern, <<>>)
         full     == analysis.constructor # NoConstructor /\ analysis.covered
     IN  IF coveredAll THEN RefuseMatch("E1307")
         ELSE IF analysis.error # "none" THEN RefuseMatch(analysis.error)
         ELSE IF full /\ analysis.constructor \in armsCovered THEN RefuseMatch("E1307")
         ELSE
                /\ armsCovered' = armsCovered \cup (IF full THEN {analysis.constructor} ELSE {})
                /\ coveredAll' = analysis.irrefutable
                /\ armAt' = armAt + 1
                /\ UNCHANGED <<matched, scrutinee, arm, bindings, matchStage>>

\* Mutant of Exhausted: only an arm that takes everything completes a match.
ExhaustedByWildcard == coveredAll
Exhausted ==
  coveredAll \/ (matched.type.kind = "enum" /\ armsCovered = 1..Len(matched.type.constructors))

CheckCoverage ==
  /\ matchStage.phase = "check"
  /\ armAt > Len(matched.arms)
  /\ IF Exhausted
     THEN /\ matchStage' = [matchStage EXCEPT !.phase = "ready"]
          /\ armAt' = 1
          /\ UNCHANGED <<matched, armsCovered, coveredAll, scrutinee, arm, bindings>>
     ELSE RefuseMatch("E1306")

-----------------------------------------------------------------------------
(* The emitted code on a value: a struct is the sequence of its fields, an     *)
(* enum the sequence of its tag and the payloads of that constructor.          *)

RECURSIVE Values(_)
Tuples(types) ==
  LET upTo[n \in 0..Len(types)] ==
        IF n = 0 THEN {<<>>} ELSE {Append(t, v) : t \in upTo[n - 1], v \in Values(types[n])}
  IN  upTo[Len(types)]
Values(type) ==
  CASE type.kind = "scalar" -> {<<n>> : n \in Scalars}
    [] type.kind = "struct" -> Tuples([i \in 1..Len(type.fields) |-> type.fields[i].type])
    [] OTHER -> UNION {{<<i>> \o p : p \in Tuples(type.constructors[i].payloads)} : i \in 1..Len(type.constructors)}

\* LLVM_Emit_Pattern_Condition: the payloads are read where the tag matches.
RECURSIVE Tested(_, _, _)
Tested(type, pattern, value) ==
  CASE pattern.kind \in {"wildcard", "binding"} -> TRUE
    [] pattern.kind = "struct" ->
         \A i \in 1..Len(pattern.fields) :
           LET f == FieldAt(type, pattern.fields[i].name)
           IN  Tested(type.fields[f].type, pattern.fields[i].pattern, value[f])
    [] OTHER ->
         LET index == ConstructorOf(type, pattern.constructor)
         IN  /\ value[1] = index
             /\ \A i \in 1..Len(pattern.payloads) :
                  Tested(type.constructors[index].payloads[i], pattern.payloads[i], value[i + 1])

\* LLVM_Bind_Pattern_Value: a copy of the part for every name, in text order.
RECURSIVE Bind(_, _, _)
BindAll(types, patterns, values) ==
  LET upTo[n \in 0..Len(patterns)] ==
        IF n = 0 THEN <<>> ELSE upTo[n - 1] \o Bind(types[n], patterns[n], values[n])
  IN  upTo[Len(patterns)]
Bind(type, pattern, value) ==
  CASE pattern.kind = "wildcard" -> <<>>
    [] pattern.kind = "binding"  -> <<[name |-> pattern.name, spelling |-> pattern.spelling, value |-> value]>>
    [] pattern.kind = "struct"   ->
         LET f == [i \in 1..Len(pattern.fields) |-> FieldAt(type, pattern.fields[i].name)]
         IN  BindAll([i \in DOMAIN f |-> type.fields[f[i]].type],
                     [i \in DOMAIN f |-> pattern.fields[i].pattern], [i \in DOMAIN f |-> value[f[i]]])
    [] OTHER -> BindAll(type.constructors[ConstructorOf(type, pattern.constructor)].payloads,
                        pattern.payloads, Tail(value))

\* The value is copied once into the storage that every test reads.
StoreScrutinee ==
  /\ matchStage.phase = "ready"
  /\ scrutinee' \in Values(matched.type)
  /\ matchStage' = [matchStage EXCEPT !.phase = "dispatch"]
  /\ UNCHANGED <<matched, armAt, armsCovered, coveredAll, arm, bindings>>

\* An irrefutable arm without a constructor is taken; a fully covered constructor
\* needs its tag alone; every other arm is tested in full.
Taken ==
  LET analysis == Analyze(matched.type, ArmPattern, <<>>)
  IN  CASE analysis.constructor # NoConstructor /\ analysis.covered -> scrutinee[1] = analysis.constructor
        [] analysis.constructor = NoConstructor /\ analysis.irrefutable -> TRUE
        [] OTHER -> Tested(matched.type, ArmPattern, scrutinee)

\* The end of the chain is an unreachable instruction.
DispatchArm ==
  /\ matchStage.phase = "dispatch"
  /\ CASE Taken -> arm' = armAt /\ matchStage' = [matchStage EXCEPT !.phase = "arm"] /\ UNCHANGED armAt
       [] ~ Taken /\ armAt < Len(matched.arms) -> armAt' = armAt + 1 /\ UNCHANGED <<arm, matchStage>>
       [] OTHER -> matchStage' = [matchStage EXCEPT !.phase = "unreachable"] /\ UNCHANGED <<armAt, arm>>
  /\ UNCHANGED <<matched, armsCovered, coveredAll, scrutinee, bindings>>

BindArm ==
  /\ matchStage.phase = "arm"
  /\ bindings' = Bind(matched.type, ArmPattern, scrutinee)
  /\ matchStage' = [matchStage EXCEPT !.phase = "body"]
  /\ UNCHANGED <<matched, armAt, armsCovered, coveredAll, scrutinee, arm>>

MatchNext ==
  CheckArm \/ CheckCoverage \/ StoreScrutinee \/ DispatchArm \/ BindArm

-----------------------------------------------------------------------------
(* What a pattern means: the set of the values it describes.                   *)

Renames(type, name, target) == [name |-> name, target |-> target] \in {type.aliases[i] : i \in 1..Len(type.aliases)}
\* A constructor goes by its own name and by every alias that some chain leads to it.
Means(type, name, constructor) ==
  \/ name = constructor
  \/ \E n \in 2..Len(type.aliases) + 1 :
       \E chain \in [1..n -> {name, constructor} \cup {type.aliases[i].name : i \in 1..Len(type.aliases)}] :
         /\ chain[1] = name /\ chain[n] = constructor
         /\ \A i \in 1..n - 1 : Renames(type, chain[i], chain[i + 1])

RECURSIVE Described(_, _)
Described(type, pattern) ==
  CASE pattern.kind \in {"wildcard", "binding"} -> Values(type)
    [] pattern.kind # type.kind -> {}
    [] pattern.kind = "struct" ->
         {v \in Values(type) : \A i \in 1..Len(type.fields) : \A j \in Positions(pattern.fields, type.fields[i].name) :
            v[i] \in Described(type.fields[i].type, pattern.fields[j].pattern)}
    [] OTHER ->
         {v \in Values(type) : LET c == type.constructors[v[1]]
                               IN  /\ type.name = pattern.type /\ Means(type, pattern.constructor, c.name)
                                   /\ Len(pattern.payloads) = Len(c.payloads)
                                   /\ \A i \in 1..Len(c.payloads) :
                                        v[i + 1] \in Described(c.payloads[i], pattern.payloads[i])}
First(i) == Described(matched.type, matched.arms[i]) \
            UNION {Described(matched.type, matched.arms[j]) : j \in 1..i - 1}
\* A body finds a name in the newest binding that has it.
Held(name) ==
  LET all == Positions(bindings, name) IN bindings[CHOOSE i \in all : \A j \in all : j <= i].value
\* Every name of a pattern is found to be the part that stands at its place.
RECURSIVE Agrees(_, _, _)
Agrees(type, pattern, value) ==
  CASE pattern.kind = "wildcard" -> TRUE
    [] pattern.kind = "binding"  -> Positions(bindings, pattern.name) # {} /\ Held(pattern.name) = value
    [] pattern.kind = "struct"   ->
         \A i \in 1..Len(type.fields) : \A j \in Positions(pattern.fields, type.fields[i].name) :
           Agrees(type.fields[i].type, pattern.fields[j].pattern, value[i])
    [] OTHER -> \A i \in 1..Len(pattern.payloads) :
                  Agrees(type.constructors[value[1]].payloads[i], pattern.payloads[i], value[i + 1])

\* A pattern that binds one name in two spellings: the check of bytes accepts it, and
\* a body reaches the later part by either of them.
SpellsOneNameTwice ==
  \E i, j \in DOMAIN bindings : bindings[i].name = bindings[j].name /\ bindings[i].spelling # bindings[j].spelling

\* Every value of the scrutinee's type ends in the first arm that describes it: the
\* coverage test of the checker and the shortened tests of the emitter agree, so the
\* unreachable instruction behind the last test is never executed, and the names of
\* the arm hold the parts they stand for, except where SpellsOneNameTwice.
FirstMatchWins ==
  /\ matchStage.phase # "unreachable"
  /\ matchStage.phase = "body" =>
       /\ scrutinee \in First(arm)
       /\ SpellsOneNameTwice \/ Agrees(matched.type, ArmPattern, scrutinee)
       /\ \A i, j \in DOMAIN bindings :
            bindings[i].name = bindings[j].name /\ bindings[i].spelling = bindings[j].spelling => i = j

IsFlat(pattern) ==
  LET refutable(p) == p.kind \in {"enum", "struct"}
  IN  CASE pattern.kind = "enum"   -> ~ \E i \in 1..Len(pattern.payloads) : refutable(pattern.payloads[i])
        [] pattern.kind = "struct" -> ~ \E i \in 1..Len(pattern.fields) : refutable(pattern.fields[i].pattern)
        [] OTHER                   -> TRUE
\* An arm refused as unreachable (E1307) can never be the first to match, and a
\* match refused as incomplete (E1306) whose patterns are flat leaves a value out.
RefusedMatchesFail ==
  /\ matchStage.code = "E1307" => First(armAt) = {}
  /\ matchStage.code = "E1306" /\ (\A i \in 1..Len(matched.arms) : IsFlat(matched.arms[i])) =>
       Values(matched.type) # UNION {Described(matched.type, matched.arms[i]) : i \in 1..Len(matched.arms)}
=============================================================================
