--------------------------- MODULE SeedExpressions ---------------------------
(* Scalar expressions of the seed compiler, from the checker to the run: the     *)
(* type the checker infers, the instructions the emitter chooses from its own    *)
(* reading of the types, and what those instructions compute. A value is a word  *)
(* 0..2^bits-1, a text is a sequence of bytes; LLVM instructions are external    *)
(* and modelled by what they do to words.                                        *)
EXTENDS Integers, Sequences

CONSTANTS Wide,        \* bits of the widest integer (64)
          CharBits,    \* bits of a character (32)
          ByteBits,    \* bits of a byte (8)
          LocalTypes,  \* the locals in scope and their types
          Texts,       \* values of the text locals
          Declarations \* [target, expression]: statements  let _: target = expression

VARIABLES declaration, store, texts, phase, result

expressionVars == <<declaration, store, texts, phase, result>>

Signed(bits)   == [kind |-> "signed", bits |-> bits]
Unsigned(bits) == [kind |-> "unsigned", bits |-> bits]
CharType       == [kind |-> "character", bits |-> CharBits]
BoolType       == [kind |-> "boolean", bits |-> 1]
TextType       == [kind |-> "text", bits |-> 0]
NoType         == [kind |-> "none", bits |-> 0]
IllTyped        == [kind |-> "refused", bits |-> 0]
IntType        == Signed(Wide)
ByteType       == Unsigned(ByteBits)

IsInteger(type)  == type.kind \in {"signed", "unsigned", "character"}
IsLogical(type)  == type.kind = "boolean" \/ IsInteger(type)
Comparisons      == {"=", "#", "<", "<=", ">=", ">"}
Connectives      == {"and", "or"}

-----------------------------------------------------------------------------
(* The checker.                                                                *)

\* Type_Compatible on scalar types.
Compatible(s, t) == s = t

\* Type_Conversion_Classify on scalar types.
Classify(s, t) ==
  IF Compatible(s, t) THEN "implicit"
  ELSE IF s.kind = "signed" /\ t.kind = "signed" THEN IF t.bits >= s.bits THEN "implicit" ELSE "explicit"
  ELSE IF s.kind = "unsigned" /\ t.kind = "unsigned" THEN IF t.bits >= s.bits THEN "implicit" ELSE "explicit"
  ELSE IF s.kind = "unsigned" /\ t.kind = "signed" THEN IF t.bits > s.bits THEN "implicit" ELSE "explicit"
  ELSE IF s.kind = "signed" /\ t.kind = "unsigned" THEN "explicit"
  ELSE IF s.kind = "character" /\ t.kind = "unsigned" THEN IF t.bits >= CharBits THEN "implicit" ELSE "explicit"
  ELSE "invalid"

\* The value of a literal under any number of negations; a literal above the signed
\* range has none (Semantic_Integer_Literal_Expression_Value).
IsWide(e) == e.op = "integer" /\ e.value >= 2 ^ (Wide - 1)
RECURSIVE IsLiteral(_)
IsLiteral(e) == (e.op = "integer" /\ ~ IsWide(e)) \/ (e.op = "negate" /\ IsLiteral(e.operand))
RECURSIVE LiteralValue(_)
LiteralValue(e) == IF e.op = "integer" THEN e.value ELSE - LiteralValue(e.operand)

Fits(n, type) ==
  CASE type.kind = "signed"   -> - (2 ^ (type.bits - 1)) <= n /\ n < 2 ^ (type.bits - 1)
    [] type.kind = "unsigned" -> 0 <= n /\ n < 2 ^ type.bits
    [] OTHER                  -> FALSE
LiteralFits(e, type) ==
  \/ IsLiteral(e) /\ Fits(LiteralValue(e), type)
  \/ IsWide(e) /\ type = Unsigned(Wide)

\* The common type of two operands: equal types, or a literal beside a typed operand.
Common(e, left, right) ==
  IF Compatible(left, right) THEN left
  ELSE IF LiteralFits(e.right, left) THEN left
  ELSE IF LiteralFits(e.left, right) THEN right
  ELSE IllTyped

RECURSIVE Infer(_)
InferBinary(e) ==
  LET left   == Infer(e.left)
      right  == Infer(e.right)
      common == Common(e, left, right)
  IN  IF IllTyped \in {left, right} THEN IllTyped
      ELSE IF e.op \in Connectives THEN IF IsLogical(left) /\ IsLogical(right) THEN BoolType ELSE IllTyped
      ELSE IF common = IllTyped THEN IllTyped
      ELSE IF e.op \in Comparisons THEN BoolType
      ELSE IF IsInteger(common) THEN common ELSE IllTyped
InferUnary(e) ==
  LET operand == Infer(e.operand)
  IN  CASE e.op = "not" -> IF IsLogical(operand) THEN BoolType ELSE IllTyped
        [] OTHER        -> IF IsInteger(operand) THEN operand ELSE IllTyped
InferConversion(e) ==
  LET operand == Infer(e.operand)
  IN  IF operand = IllTyped \/ Classify(operand, e.target) = "invalid" THEN IllTyped ELSE e.target
\* The element of a text; a literal index is refused when it is negative.
InferElement(e) ==
  IF LocalTypes[e.name] # TextType \/ ~ IsInteger(Infer(e.index))
     \/ (IsLiteral(e.index) /\ LiteralValue(e.index) < 0)
  THEN IllTyped ELSE ByteType
Infer(e) ==
  CASE e.op = "integer"                         -> IntType
    [] e.op = "boolean"                         -> BoolType
    [] e.op = "local"                           -> LocalTypes[e.name]
    [] e.op = "element"                         -> InferElement(e)
    [] e.op \in {"negate", "complement", "not"} -> InferUnary(e)
    [] e.op = "convert"                         -> InferConversion(e)
    [] OTHER                                    -> InferBinary(e)

\* Body_Check_Expression_Compatible
Accepts(target, e) ==
  \/ IsLiteral(e) /\ Fits(LiteralValue(e), target)
  \/ IF IsWide(e) THEN target = Unsigned(Wide)
     ELSE Infer(e) # IllTyped /\ Classify(Infer(e), target) = "implicit"

-----------------------------------------------------------------------------
(* Words.                                                                      *)

Number(word, type) ==
  IF type.kind = "signed" /\ word >= 2 ^ (type.bits - 1) THEN word - 2 ^ type.bits ELSE word
ExtendedTo(word, type, bits) == Number(word, type) % 2 ^ bits
BitsOf(word) == {i \in 0..Wide - 1 : (word \div 2 ^ i) % 2 = 1}
WordOf(S)    == LET sum[n \in 0..Wide] == IF n = 0 THEN 0
                                          ELSE sum[n - 1] + (IF n - 1 \in S THEN 2 ^ (n - 1) ELSE 0)
                IN  sum[Wide]
Quotient(a, b)  == IF (a < 0) = (b < 0) \/ a = 0 THEN (IF a < 0 THEN -a ELSE a) \div (IF b < 0 THEN -b ELSE b)
                   ELSE - ((IF a < 0 THEN -a ELSE a) \div (IF b < 0 THEN -b ELSE b))
Remainder(a, b) == a - b * Quotient(a, b)

Emitted(type, word) == [type |-> type, word |-> word, trapped |-> FALSE]
Trapped(type)       == [type |-> type, word |-> 0, trapped |-> TRUE]
Failed              == [type |-> NoType, word |-> 0, trapped |-> FALSE]
IsEmitted(v)        == v.type # NoType
\* LLVM_Emit_Trap_If
TrapIf(condition, v) == IF condition THEN Trapped(v.type) ELSE v

\* Sum, difference and product in twice the width; a trap when the narrow result
\* does not extend back to the wide one.
CheckedArithmetic(op, a, b, type) ==
  LET bits   == 2 * type.bits
      left   == ExtendedTo(a, type, bits)
      right  == ExtendedTo(b, type, bits)
      wide   == (CASE op = "+" -> left + right [] op = "-" -> left - right [] OTHER -> left * right) % 2 ^ bits
      narrow == wide % 2 ^ type.bits
  IN  TrapIf(ExtendedTo(narrow, type, bits) # wide, Emitted(type, narrow))

Division(op, a, b, type) ==
  LET x == Number(a, type)  y == Number(b, type)
      overflow == /\ type.kind = "signed"
                  /\ a = 2 ^ (type.bits - 1)
                  /\ b = 2 ^ type.bits - 1
  IN  IF b = 0 \/ overflow THEN Trapped(type)
      ELSE Emitted(type, (IF op = "/" THEN Quotient(x, y) ELSE Remainder(x, y)) % 2 ^ type.bits)

Shift(op, a, b, type) ==
  IF b >= type.bits THEN Trapped(type)
  ELSE Emitted(type, (IF op = "<<" THEN a * 2 ^ b ELSE Number(a, type) \div 2 ^ b) % 2 ^ type.bits)

Truth(b) == Emitted(BoolType, IF b THEN 1 ELSE 0)
Compare(op, x, y) ==
  CASE op = "=" -> x = y [] op = "#" -> x # y [] op = "<" -> x < y
    [] op = "<=" -> x <= y [] op = ">=" -> x >= y [] OTHER -> x > y

\* LLVM_Compare_Text_Values: memcmp over the shorter length, then the lengths.
MemCmp(s, t, n) ==
  LET differ == {i \in 1..n : s[i] # t[i]}
      first  == CHOOSE i \in differ : \A j \in differ : i <= j
  IN  IF differ = {} THEN 0 ELSE IF s[first] < t[first] THEN -1 ELSE 1
CompareTexts(op, s, t) ==
  LET n      == IF Len(s) < Len(t) THEN Len(s) ELSE Len(t)
      prefix == MemCmp(s, t, n)
      strict == IF op \in {"<", "<="} THEN prefix < 0 ELSE prefix > 0
  IN  CASE op = "=" -> prefix = 0 /\ Len(s) = Len(t)
        [] op = "#" -> prefix # 0 \/ Len(s) # Len(t)
        [] OTHER    -> strict \/ (prefix = 0 /\ Compare(op, Len(s), Len(t)))

Arithmetic(op, a, b, type) ==
  CASE op \in {"/", "%"}      -> Division(op, a, b, type)
    [] op \in {"+", "-", "*"} -> CheckedArithmetic(op, a, b, type)
    [] op = "|"               -> Emitted(type, WordOf(BitsOf(a) \cup BitsOf(b)))
    [] op = "&"               -> Emitted(type, WordOf(BitsOf(a) \cap BitsOf(b)))
    [] op = "^"               -> Emitted(type, WordOf((BitsOf(a) \cup BitsOf(b)) \ (BitsOf(a) \cap BitsOf(b))))
    [] op \in Comparisons     -> Truth(Compare(op, Number(a, type), Number(b, type)))
    [] OTHER                  -> Shift(op, a, b, type)

-----------------------------------------------------------------------------
(* The emitter, and what its code computes on the store.                       *)

\* Mutant of Widened: the extension follows the target's sign.
WidenedByTarget(word, source, target) == ExtendedTo(word, [target EXCEPT !.bits = source.bits], target.bits)
Widened(word, source, target)         == ExtendedTo(word, source, target.bits)

\* LLVM_Coerce
Coerced(v, target) ==
  IF ~ IsEmitted(v) THEN Failed
  ELSE IF Compatible(v.type, target) THEN [v EXCEPT !.type = target]
  ELSE IF ~ IsInteger(v.type) \/ ~ IsInteger(target) THEN Failed
  ELSE IF v.trapped THEN Trapped(target)
  ELSE IF v.type.bits < target.bits THEN Emitted(target, Widened(v.word, v.type, target))
  ELSE Emitted(target, v.word % 2 ^ target.bits)
InContext(v, expected) == IF expected = NoType THEN v ELSE Coerced(v, expected)

\* The integer type the emitter reads off an expression, none for a literal.
RECURSIVE IntegerTypeOf(_)
IntegerTypeOf(e) ==
  CASE e.op \in {"integer", "boolean"}          -> NoType
    [] e.op = "local"                           -> LocalTypes[e.name]
    [] e.op = "element"                         -> ByteType
    [] e.op = "convert"                         -> e.target
    [] e.op \in {"negate", "complement", "not"} -> IntegerTypeOf(e.operand)
    [] OTHER -> IF IntegerTypeOf(e.left) # NoType THEN IntegerTypeOf(e.left) ELSE IntegerTypeOf(e.right)
RECURSIVE TypeOf(_)
TypeOf(e) ==
  CASE e.op \in Comparisons \cup Connectives \cup {"not"} -> BoolType
    [] e.op \in {"negate", "complement"}                  -> TypeOf(e.operand)
    [] OTHER                                              -> IntegerTypeOf(e)
Concrete(type) == IF IsInteger(type) THEN type ELSE NoType
OneOf(first, second, third) == IF first # NoType THEN first ELSE IF second # NoType THEN second ELSE third

\* With no type given the emitter asks for one from the context (__Contextual_Type__):
\* the checker leaves it on whole expressions only (Body_Check_Expression), and those
\* are always emitted with the type they were checked against, so there is none here.
EmitAtom(e, expected) ==
  CASE e.op = "local"   -> InContext(Emitted(LocalTypes[e.name], store[e.name]), expected)
    [] e.op = "boolean" -> Emitted(IF expected # NoType THEN expected ELSE BoolType, e.value)
    [] OTHER            -> IF IsInteger(expected) THEN Emitted(expected, e.value % 2 ^ expected.bits) ELSE Failed

RECURSIVE Emit(_, _)
\* The bounds test of LLVM_Emit_Place; the index is coerced to the wide integer.
EmitElement(e, expected) ==
  LET index == Coerced(Emit(e.index, IntType), IntType)
      n     == Number(index.word, IntType)
      text  == texts[e.name]
      place == IF n < 0 \/ index.word >= Len(text) THEN Trapped(ByteType)
               ELSE Emitted(ByteType, text[n + 1])
  IN  IF ~ IsEmitted(index) THEN Failed
      ELSE InContext(IF index.trapped THEN Trapped(ByteType) ELSE place, expected)

\* The right operand runs in a block of its own.
EmitConnective(e) ==
  LET left  == Emit(e.left, BoolType)
      right == Emit(e.right, BoolType)
      decided == left.trapped \/ (left.word = 1) = (e.op = "or")
  IN  IF left.type # BoolType \/ right.type # BoolType THEN Failed
      ELSE IF decided THEN left ELSE right

EmitBoth(e, type, Computed(_, _)) ==
  LET left  == Emit(e.left, type)
      right == Emit(e.right, type)
  IN  IF ~ IsEmitted(left) \/ ~ IsEmitted(right) THEN Failed
      ELSE IF left.trapped \/ right.trapped THEN Trapped(Computed(0, 0).type)
      ELSE Computed(left.word, right.word)

EmitBinary(e, expected) ==
  LET left  == TypeOf(e.left)
      right == TypeOf(e.right)
      type  == OneOf(Concrete(IntegerTypeOf(e.left)), Concrete(IntegerTypeOf(e.right)), Concrete(expected))
      l     == Coerced(Emit(e.left, type), type)
      r     == Coerced(Emit(e.right, type), type)
  IN  IF e.op \in Connectives THEN EmitConnective(e)
      ELSE IF e.op \in {"=", "#"} /\ left = BoolType /\ right = BoolType THEN
             EmitBoth(e, BoolType, LAMBDA a, b : Truth(Compare(e.op, a, b)))
      ELSE IF e.op \in Comparisons /\ left = TextType /\ right = TextType THEN
             Truth(CompareTexts(e.op, texts[e.left.name], texts[e.right.name]))
      ELSE IF type = NoType THEN Failed
      ELSE IF ~ IsEmitted(l) \/ ~ IsEmitted(r) THEN Failed
      ELSE IF l.trapped \/ r.trapped THEN Trapped(IF e.op \in Comparisons THEN BoolType ELSE type)
      ELSE Arithmetic(e.op, l.word, r.word, type)

EmitUnary(e, expected) ==
  LET type    == OneOf(Concrete(IntegerTypeOf(e.operand)), Concrete(expected), NoType)
      logical == Emit(e.operand, NoType)
      operand == Emit(e.operand, type)
  IN  IF e.op = "not" THEN IF logical.type = BoolType
                           THEN IF logical.trapped THEN logical ELSE Emitted(BoolType, 1 - logical.word)
                           ELSE Failed
      ELSE IF type = NoType \/ ~ IsEmitted(operand) THEN Failed
      ELSE IF operand.trapped THEN operand
      ELSE IF e.op = "negate" THEN CheckedArithmetic("-", 0, operand.word, type)
      ELSE Emitted(type, 2 ^ type.bits - 1 - operand.word)

Emit(e, expected) ==
  CASE e.op \in {"integer", "boolean", "local"}  -> EmitAtom(e, expected)
    [] e.op = "element"                          -> EmitElement(e, expected)
    [] e.op = "convert" ->
         Coerced(Emit(e.operand, IF e.operand.op \in {"integer", "boolean"} THEN e.target ELSE NoType), e.target)
    [] e.op \in {"negate", "complement", "not"}  -> EmitUnary(e, expected)
    [] OTHER                                     -> EmitBinary(e, expected)

-----------------------------------------------------------------------------
RECURSIVE Reads(_)
Reads(e) ==
  CASE e.op \in {"integer", "boolean"} -> {}
    [] e.op = "local"                  -> {e.name}
    [] e.op = "element"                -> {e.name} \cup Reads(e.index)
    [] e.op \in {"negate", "complement", "not", "convert"} -> Reads(e.operand)
    [] OTHER                           -> Reads(e.left) \cup Reads(e.right)
TextLocals == {x \in DOMAIN LocalTypes : LocalTypes[x] = TextType}

ExpressionInit ==
  /\ declaration \in Declarations
  /\ store = <<>> /\ texts = <<>>
  /\ phase = "check"
  /\ result = Failed

CheckDeclaration ==
  /\ phase = "check"
  /\ phase' = IF Accepts(declaration.target, declaration.expression) THEN "emit" ELSE "refused"
  /\ UNCHANGED <<declaration, store, texts, result>>

\* The locals hold any values when the declaration runs.
EnterBlock ==
  /\ phase = "emit"
  /\ LET read == Reads(declaration.expression)
     IN  /\ store' \in {s \in [read \ TextLocals -> 0..2 ^ Wide - 1] :
                          \A x \in DOMAIN s : s[x] < 2 ^ LocalTypes[x].bits}
         /\ texts' \in [read \cap TextLocals -> Texts]
  /\ phase' = "run"
  /\ UNCHANGED <<declaration, result>>

\* The store of a declaration's value in its slot.
RunDeclaration ==
  /\ phase = "run"
  /\ result' = Coerced(Emit(declaration.expression, declaration.target), declaration.target)
  /\ phase' = IF IsEmitted(result') THEN "done" ELSE "failed"
  /\ UNCHANGED <<declaration, store, texts>>

ExpressionNext == CheckDeclaration \/ EnterBlock \/ RunDeclaration

-----------------------------------------------------------------------------
(* What an expression means: numbers, not words.                               *)

Meant(n)  == [number |-> n, undefined |-> FALSE]
Undefined == [number |-> 0, undefined |-> TRUE]
InType(n, type) == IF Fits(n, [type EXCEPT !.kind = IF type.kind = "signed" THEN "signed" ELSE "unsigned"])
                   THEN Meant(n) ELSE Undefined
Wrapped(n, type) == Meant(Number(n % 2 ^ type.bits, type))

\* The number of a type that has, in every place, the bit that the operator makes of
\* the two numbers' bits in that place.
BitAt(n, i) == (n \div 2 ^ i) % 2
BitwiseMeant(op, x, y, type) ==
  LET wanted(i) == CASE op = "|" -> BitAt(x, i) + BitAt(y, i) > 0
                     [] op = "&" -> BitAt(x, i) = 1 /\ BitAt(y, i) = 1
                     [] OTHER    -> BitAt(x, i) # BitAt(y, i)
  IN  Meant(CHOOSE n \in {Number(word, type) : word \in 0..2 ^ type.bits - 1} :
              \A i \in 0..type.bits - 1 : (BitAt(n, i) = 1) = wanted(i))

RECURSIVE NumberMeant(_, _)
MeaningOf(op, x, y, type) ==
  CASE op = "+" -> InType(x + y, type) [] op = "-" -> InType(x - y, type) [] op = "*" -> InType(x * y, type)
    [] op = "/" -> IF y = 0 THEN Undefined ELSE InType(Quotient(x, y), type)
    [] op = "%" -> IF y = 0 \/ ~ Fits(Quotient(x, y), [type EXCEPT !.kind = IF @ = "signed" THEN @ ELSE "unsigned"])
                   THEN Undefined ELSE Meant(Remainder(x, y))
    [] op \in {"<<", ">>"} ->
         IF y < 0 \/ y >= type.bits THEN Undefined
         ELSE Wrapped(IF op = "<<" THEN x * 2 ^ y ELSE x \div 2 ^ y, type)
    [] OTHER -> BitwiseMeant(op, x, y, type)

RECURSIVE TextBefore(_, _)
TextBefore(s, t) == /\ t # <<>>
                /\ \/ s = <<>>
                   \/ s[1] < t[1]
                   \/ s[1] = t[1] /\ TextBefore(Tail(s), Tail(t))

\* The type an operand is read at: the common one beside a literal.
MeaningBinary(e) ==
  LET type == Common(e, Infer(e.left), Infer(e.right))
      x == NumberMeant(e.left, type)
      y == NumberMeant(e.right, type)
      s == texts[e.left.name]
      t == texts[e.right.name]
      holds(b) == Meant(IF b THEN 1 ELSE 0)
  IN  IF e.op \in Connectives THEN
             LET p == NumberMeant(e.left, BoolType)
             IN  IF p.undefined \/ (p.number = 1) = (e.op = "or") THEN p ELSE NumberMeant(e.right, BoolType)
      ELSE IF type = TextType THEN holds(CASE e.op = "=" -> s = t [] e.op = "#" -> s # t
                                      [] e.op = "<" -> TextBefore(s, t) [] e.op = "<=" -> ~ TextBefore(t, s)
                                      [] e.op = ">" -> TextBefore(t, s) [] OTHER -> ~ TextBefore(s, t))
      ELSE IF x.undefined \/ y.undefined THEN Undefined
      ELSE IF e.op \in Comparisons THEN holds(Compare(e.op, x.number, y.number))
      ELSE MeaningOf(e.op, x.number, y.number, type)
NumberMeant(e, type) ==
  CASE e.op \in {"integer", "boolean"} -> Meant(e.value)
    [] e.op = "local"   -> Meant(Number(store[e.name], LocalTypes[e.name]))
    [] e.op = "element" -> LET i == NumberMeant(e.index, IntType)
                           IN  IF i.undefined \/ i.number \notin 0..Len(texts[e.name]) - 1 THEN Undefined
                               ELSE Meant(texts[e.name][i.number + 1])
    [] e.op = "convert" -> LET v == NumberMeant(e.operand, Infer(e.operand))
                           IN  IF v.undefined THEN v ELSE Wrapped(v.number, e.target)
    [] e.op = "negate"     -> LET v == NumberMeant(e.operand, type)
                              IN  IF v.undefined THEN v ELSE InType(- v.number, type)
    [] e.op = "complement" -> LET v == NumberMeant(e.operand, type)
                              IN  IF v.undefined THEN v ELSE Wrapped(- v.number - 1, type)
    [] e.op = "not"        -> LET v == NumberMeant(e.operand, BoolType)
                              IN  IF v.undefined THEN v ELSE Meant(1 - v.number)
    [] OTHER -> MeaningBinary(e)

\* The type a declaration's expression is read at: the target's for a literal.
TypeRead(d) == IF LiteralFits(d.expression, d.target) THEN d.target ELSE Infer(d.expression)

\* The parts of an expression, each with the type it is read at. A literal under a
\* conversion is read at no type: it is cut to the one it is converted to.
RECURSIVE ReadAt(_, _)
ReadAt(e, type) ==
  {<<e, type>>} \cup
  CASE e.op \in {"integer", "boolean", "local"} -> {}
    [] e.op = "element"                         -> ReadAt(e.index, IntType)
    [] e.op = "not"                             -> ReadAt(e.operand, BoolType)
    [] e.op \in {"negate", "complement"}        -> ReadAt(e.operand, type)
    [] e.op = "convert" -> IF e.operand.op = "integer" THEN {} ELSE ReadAt(e.operand, Infer(e.operand))
    [] OTHER ->
         LET common == IF e.op \in Connectives THEN BoolType ELSE Common(e, Infer(e.left), Infer(e.right))
         IN  ReadAt(e.left, common) \cup ReadAt(e.right, common)
PartsOf(d) == ReadAt(d.expression, TypeRead(d))

\* -128 at int8: the minus is an operator before a literal of its own
\* (Expression_Parse_Unary), the checker accepts the value of the two together, the
\* emitter subtracts the word of 128, which is that of -128, from zero and traps.
\* The comment at parser_atom.c:21 has the two tokens form one literal.
NegatesSmallest(d) ==
  \E p \in PartsOf(d) :
    /\ p[1].op = "negate" /\ p[1].operand.op = "integer"
    /\ p[2].kind = "signed" /\ p[1].operand.value = 2 ^ (p[2].bits - 1)
\* x + 9223372036854775808 with a signed x: inside an expression the checker takes a
\* literal above the signed range for one of the widest signed type. The comment at
\* expression.h:43 has it typed only as an unsigned value.
ReadsWideAsSigned(d) == \E p \in PartsOf(d) : IsWide(p[1]) /\ p[2] # Unsigned(Wide)

\* A declaration the checker accepts and the emitter translates computes the number
\* its source means, and traps exactly when that number does not exist in its type:
\* the checker's types, the emitter's own reading of them, the extensions, the
\* overflow, division, shift and bounds tests and the short circuits agree. A smallest
\* number written as a literal may trap, and never becomes another number; of a
\* literal above the signed range that is read as a signed one nothing is claimed.
ComputesExactly ==
  phase = "done" /\ ~ ReadsWideAsSigned(declaration) =>
    LET meaning == NumberMeant(declaration.expression, TypeRead(declaration))
    IN  /\ meaning.undefined => result.trapped
        /\ result.trapped => meaning.undefined \/ NegatesSmallest(declaration)
        /\ ~ result.trapped => Number(result.word, declaration.target) = meaning.number
=============================================================================
