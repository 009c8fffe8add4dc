------------------------------ MODULE MCSeedBodies ------------------------------
(* Expressions and match statements of the seed compiler, each checked and then  *)
(* run on every value, and whole bodies with their flow check: an initial state  *)
(* holds one of the three, the others are idle.                                  *)
EXTENDS SeedExpressions, PatternMatching, SeedLoans

VARIABLE part

bodyVars == <<part, expressionVars, matchVars, flowVars>>

-----------------------------------------------------------------------------
(* Declarations of every target from one operator on every two operands (locals  *)
(* of every type, literals on both sides of every limit, negated literals), from *)
(* conversions, from the bytes of a text, and from chosen expressions of two to  *)
(* four operators. The widest integer has four bits, so every value of every     *)
(* local is met.                                                                 *)

MCLocalTypes ==
  [a |-> Signed(4), b |-> Signed(4), c |-> Signed(2), u |-> Unsigned(4), v |-> Unsigned(2),
   k |-> CharType, p |-> BoolType, q |-> BoolType, s |-> TextType, t |-> TextType]
MCTexts == {<<>>, <<1>>, <<3>>, <<1, 3>>}

Local(x)   == [op |-> "local", name |-> x]
Literal(n) == [op |-> "integer", value |-> n]
Prefix(op, e)         == [op |-> op, operand |-> e]
Infix(op, l, r)       == [op |-> op, left |-> l, right |-> r]
Converting(e, target) == [op |-> "convert", operand |-> e, target |-> target]
ByteOf(text, index)   == [op |-> "element", name |-> text, index |-> index]

Literals  == {Literal(n) : n \in {0, 1, 2, 7, 8}} \cup {Prefix("negate", Literal(n)) : n \in {1, 2, 3, 8}}
Operands  == {Local(x) : x \in DOMAIN MCLocalTypes} \cup Literals \cup {[op |-> "boolean", value |-> 1]}
Numeric   == {"+", "-", "*", "/", "%", "|", "&", "^", "<<", ">>"}
Targets   == {Signed(4), Signed(2), Unsigned(4), Unsigned(2), BoolType, CharType}
Chosen ==
  {Infix(o, Infix(w, Local("c"), Literal(1)), Converting(Local("v"), Signed(2))) : o \in Numeric \cup Comparisons, w \in Numeric} \cup
  {Infix(o, Converting(Local("c"), Signed(4)), Infix("*", Local("a"), Prefix("negate", Literal(1)))) :
     o \in Numeric \cup Comparisons} \cup
  {Infix(o, Infix("#", Local("v"), Literal(0)), Infix("=", Infix("/", Literal(3), Local("v")), Literal(1))) :
     o \in Connectives \cup {"=", "#"}} \cup
  {Infix(o, ByteOf("s", Literal(0)), ByteOf("t", Local("v"))) : o \in {"=", "+", "<"}} \cup
  {Prefix("not", Infix("<", Local("s"), Local("t"))),
   Infix("and", Infix("<", Local("v"), Converting(Literal(2), Unsigned(2))), Infix("=", ByteOf("s", Local("v")), Local("v")))}
MCExpressions ==
  Operands \cup
  {Infix(o, x, y) : o \in Numeric \cup Comparisons \cup Connectives, x, y \in Operands} \cup
  {Converting(x, target) : x \in Operands, target \in Targets} \cup
  {Prefix(o, x) : o \in {"negate", "complement", "not"}, x \in {Local(y) : y \in {"a", "c", "v", "p", "u"}} \cup Literals \cup {Literal(3), Literal(15)}} \cup
  {ByteOf("s", i) : i \in {Local("a"), Local("v"), Local("u"), Literal(0), Literal(1), Prefix("negate", Literal(1)),
                           Infix("-", Local("c"), Literal(1)), Converting(Local("u"), Signed(4))}} \cup
  Chosen
MCDeclarations == {[target |-> target, expression |-> e] : target \in Targets, e \in MCExpressions}

-----------------------------------------------------------------------------
(* Matches of one and two arms, with patterns nested twice, over options in      *)
(* options, results, enums of one and two constructors, one of them with         *)
(* aliases, and structs; of three arms over an option of an option.              *)

Scalar == [kind |-> "scalar"]
Lone  == [kind |-> "enum", name |-> "lone", aliases |-> <<>>, constructors |-> <<[name |-> "one", payloads |-> <<OptionOf(Scalar)>>]>>]
Pair  == [kind |-> "enum", name |-> "pair",
          aliases |-> <<[name |-> "z", target |-> "w"], [name |-> "w", target |-> "y"], [name |-> "v", target |-> "v"]>>,
          constructors |-> <<[name |-> "x", payloads |-> <<>>], [name |-> "y", payloads |-> <<Scalar, OptionOf(Scalar)>>]>>]
Row   == [kind |-> "struct", fields |-> <<[name |-> "f", type |-> OptionOf(Scalar)], [name |-> "g", type |-> Scalar]>>]
MatchTypes == {OptionOf(OptionOf(Scalar)), ResultOf(OptionOf(Scalar), Scalar), Lone, Pair, Row, OptionOf(Row)}

Wildcard   == [kind |-> "wildcard"]
Name(n)    == [kind |-> "binding", name |-> n, spelling |-> "plain"]
Stretched(n) == [Name(n) EXCEPT !.spelling = "stretched"]
EnumPattern(type, name, payloads) == [kind |-> "enum", type |-> type, constructor |-> name, payloads |-> payloads]
RowPattern(fields) == [kind |-> "struct", fields |-> fields]
RECURSIVE PatternsOf(_, _)
PatternLists(listed, depth) ==
  LET upTo[n \in 0..Len(listed)] ==
        IF n = 0 THEN {<<>>} ELSE {Append(t, p) : t \in upTo[n - 1], p \in PatternsOf(listed[n], depth)}
  IN  upTo[Len(listed)]
FieldType(type, name) == type.fields[FieldAt(type, name)].type
PatternsOf(type, depth) ==
  {Name("a"), Wildcard} \cup
  CASE type.kind = "scalar" -> {Name("b"), Stretched("a")}
    [] type.kind # "scalar" /\ depth = 0 -> {}
    [] type.kind = "enum" /\ depth > 0 ->
         UNION {{EnumPattern(type.name, c.name, ps) : ps \in PatternLists(c.payloads, depth - 1)} :
                c \in {type.constructors[i] : i \in DOMAIN type.constructors}}
    [] OTHER ->
         UNION {{RowPattern([i \in 1..Len(ns) |-> [name |-> ns[i], pattern |-> ps[i]]]) :
                   ps \in PatternLists([i \in 1..Len(ns) |-> FieldType(type, ns[i])], depth - 1)} :
                ns \in {<<>>, <<"f">>, <<"g", "f">>, <<"f", "f">>}}
Foreign == {EnumPattern("pair", "one", <<>>), RowPattern(<<>>), EnumPattern("option", "some", <<>>),
            EnumPattern("pair", "w", <<Wildcard, Name("a")>>), EnumPattern("pair", "z", <<Name("a"), Name("b")>>),
            EnumPattern("pair", "z", <<Name("a"), EnumPattern("option", "none", <<>>)>>), EnumPattern("pair", "v", <<>>)}
MCMatches ==
  UNION {{[type |-> t, arms |-> arms] : arms \in UNION {[1..n -> PatternsOf(t, 2) \cup Foreign] : n \in 1..2}} : t \in MatchTypes} \cup
  {[type |-> OptionOf(OptionOf(Scalar)), arms |-> arms] :
     arms \in [1..3 -> PatternsOf(OptionOf(OptionOf(Scalar)), 2) \ {Wildcard}]}

-----------------------------------------------------------------------------
\* Bodies of three locals in scope with one statement of blocks at a time, of two
\* locals with blocks in blocks; references before and after what they view, as
\* parameters and as locals.

Value(t)    == [type |-> t, mutable |-> FALSE]
Variable(t) == [type |-> t, mutable |-> TRUE]
MCFunctions ==
  {[parameters |-> <<>>, declared |-> <<Variable("owned"), Variable("shared"), Variable("exclusive")>>, output |-> "owned"],
   [parameters |-> <<>>, declared |-> <<Value("owned"), Variable("shared"), Value("plain")>>, output |-> "plain"],
   [parameters |-> <<Variable("shared")>>, declared |-> <<Value("owned"), Variable("shared")>>, output |-> "shared"],
   [parameters |-> <<Value("shared"), Value("shared")>>, declared |-> <<Variable("shared")>>, output |-> "shared"],
   [parameters |-> <<Variable("exclusive")>>, declared |-> <<Value("owned"), Variable("exclusive")>>, output |-> "exclusive"],
   [parameters |-> <<>>, declared |-> <<Variable("owned"), Variable("shared")>>, output |-> "owned"]}
MayNest == Len(function.parameters) + Len(function.declared) = 2

-----------------------------------------------------------------------------
ExpressionIdle ==
  declaration = [target |-> NoType, expression |-> <<>>] /\ store = <<>> /\ texts = <<>> /\ phase = "idle" /\ result = Failed
MatchIdle ==
  /\ matched = [type |-> Scalar, arms |-> <<>>]
  /\ armAt = 1 /\ armsCovered = {} /\ coveredAll = FALSE /\ scrutinee = <<>> /\ arm = 0 /\ bindings = <<>>
  /\ matchStage = [phase |-> "idle", code |-> "none"]
FlowIdle ==
  /\ function = CHOOSE f \in Functions : TRUE
  /\ locals = <<>> /\ falls = FALSE /\ blocks = <<>> /\ returned = None /\ stores = 0 /\ runs = {}

BodiesInit ==
  \/ part = "expression" /\ ExpressionInit /\ MatchIdle /\ FlowIdle
  \/ part = "match" /\ ExpressionIdle /\ MatchInit /\ FlowIdle
  \/ part = "flow" /\ ExpressionIdle /\ MatchIdle /\ FlowInit

ExpressionAlone == part = "expression" /\ UNCHANGED <<part, matchVars, flowVars>>
MatchAlone      == part = "match" /\ UNCHANGED <<part, expressionVars, flowVars>>
FlowAlone       == part = "flow" /\ UNCHANGED <<part, expressionVars, matchVars>>

\* The actions of ExpressionNext, of MatchNext and of FlowNext.
BodiesNext ==
  \/ ExpressionAlone /\ CheckDeclaration
  \/ ExpressionAlone /\ EnterBlock
  \/ ExpressionAlone /\ RunDeclaration
  \/ MatchAlone /\ CheckArm
  \/ MatchAlone /\ CheckCoverage
  \/ MatchAlone /\ StoreScrutinee
  \/ MatchAlone /\ DispatchArm
  \/ MatchAlone /\ BindArm
  \/ FlowAlone /\ Declare
  \/ FlowAlone /\ \E d \in DOMAIN locals : StoreValue(d)
  \/ FlowAlone /\ \E d, x \in DOMAIN locals : StorePart(d, x)
  \/ FlowAlone /\ \E d, x \in DOMAIN locals : StoreLocal(d, x)
  \/ FlowAlone /\ \E d, x \in DOMAIN locals, mode \in References : StoreBorrow(d, x, mode)
  \/ FlowAlone /\ \E d \in DOMAIN locals : WritePart(d)
  \/ FlowAlone /\ \E d, x \in DOMAIN locals : MoveIntoPart(d, x)
  \/ FlowAlone /\ \E x \in DOMAIN locals : ReturnLocal(x)
  \/ FlowAlone /\ ReturnValue
  \/ FlowAlone /\ (MayNest \/ Len(blocks) < 2) /\ \E construct \in {"then", "while", "unsafe"} : Open(construct)
  \/ FlowAlone /\ CloseBlock
  \/ FlowAlone /\ CloseThen
  \/ FlowAlone /\ CloseElse
  \/ FlowAlone /\ CloseLoop

BodiesSpec == BodiesInit /\ [][BodiesNext]_bodyVars
=============================================================================
