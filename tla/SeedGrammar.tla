------------------------------ MODULE SeedGrammar ------------------------------
(* The recursive-descent parser of the seed compiler over the tokens of a        *)
(* module. Expressions, types and patterns are read whole; the blocks that are   *)
(* open, which the code keeps on its call stack, are the stack of the state.     *)
(* A token is its spelling; aliases and global items are those of ModuleNames.   *)
EXTENDS Integers, Sequences, FiniteSets

CONSTANTS Streams,       \* [tokens, shape, meaning]: modules; their shape and meaning serve only the properties
          NameTokens,    \* identifiers
          KeywordTokens, \* reserved words, which may name a field or a constructor
          NumberTokens,  \* integer literals
          TextTokens,    \* text literals
          TargetFacts    \* what is known of the target: its fields and their texts

VARIABLES stream, next, open, items, imports, temporaries, parsing

grammarVars == <<stream, next, open, items, imports, temporaries, parsing>>

At(p)          == IF p \in 1..Len(stream.tokens) THEN stream.tokens[p] ELSE "eof"
Read(to, tree) == [to |-> to, tree |-> tree]
Refused        == Read(0, <<>>)
Made(r, Build(_)) == IF r.to = 0 THEN Refused ELSE Read(r.to, Build(r.tree))
\* What is read after it.
Then(r, More(_)) == IF r.to = 0 THEN Refused ELSE More(r)
\* A token that must follow what was read.
Expected(r, token) == IF r.to # 0 /\ At(r.to) = token THEN Read(r.to + 1, r.tree) ELSE Refused
Accepted(p, token) == IF p # 0 /\ At(p) = token THEN p + 1 ELSE p
ContextualName(p)  == At(p) \in NameTokens \cup KeywordTokens

Precedence ==
  [t \in {"||", "&&", "|", "^", "&", "==", "!=", "<", "<=", ">=", ">", "<<", ">>", "+", "-", "*", "/", "%"} |->
     CASE t = "||" -> 1 [] t = "&&" -> 2 [] t = "|" -> 3 [] t = "^" -> 4 [] t = "&" -> 5
       [] t \in {"==", "!="} -> 6 [] t \in {"<", "<=", ">=", ">"} -> 7 [] t \in {"<<", ">>"} -> 8
       [] t \in {"+", "-"} -> 9 [] OTHER -> 10]

UnaryOperators == {"!", "~", "-", "&", "*"}
Primitives == {"int", "bool"}
Wrappers   == {"mutable", "box", "*", "&", "option", "vector"}

\* Every rule that may come to itself again goes through Rule: its name, where
\* it begins, and what it is told.
RECURSIVE Rule(_, _, _)
Type(p)             == Rule("type", p, <<>>)
Pattern(p)          == Rule("pattern", p, <<>>)
Lvalue(p)           == Rule("lvalue", p, <<>>)
Suffixed(p, place)  == Rule("suffixed", p, place)
Extended(p, place)  == Rule("extended", p, place)
Unary(p)            == Rule("unary", p, <<>>)
Converted(r)        == Rule("converted", r.to, r)
Climb(left, least)  == Rule("climb", left.to, [left |-> left, least |-> least])
Expression(p, least) == Climb(Unary(p), least)
Elements(p, close, kind, trailing) == Rule("elements", p, [close |-> close, kind |-> kind, trailing |-> trailing])

-----------------------------------------------------------------------------
(* Lists.                                                                      *)

Atom(p) ==
  IF At(p) = "-" /\ At(p + 1) \in NumberTokens THEN Read(p + 2, <<"negative", At(p + 1)>>)
  ELSE IF At(p) \in NumberTokens \cup TextTokens THEN Read(p + 1, <<"literal", At(p)>>)
  ELSE IF At(p) \in NameTokens THEN Made(Lvalue(p), LAMBDA l : <<"place", l>>)
  ELSE Refused

Labelled(p, Part(_)) ==
  IF At(p) \in NameTokens /\ At(p + 1) = ":" THEN Made(Part(p + 2), LAMBDA t : <<At(p), t>>) ELSE Refused

Element(p, kind) ==
  CASE kind = "type"       -> Type(p)
    [] kind = "expression" -> Expression(p, 1)
    [] kind = "atom"       -> Atom(p)
    [] kind = "pattern"    -> Pattern(p)
    [] kind = "name"       -> IF At(p) \in NameTokens THEN Read(p + 1, At(p)) ELSE Refused
    [] kind = "slot"       -> Labelled(p, Type)
    [] kind = "input"      -> Labelled(p, LAMBDA q : Expression(q, 1))
    [] kind = "subpattern" -> Labelled(p, Pattern)

\* Elements between commas up to a closing token; a loop that stops at the
\* closing token first lets a comma come before it.
ListTail(e, close, kind, trailing) ==
  CASE At(e.to) = close -> Read(e.to + 1, <<e.tree>>)
    [] At(e.to) = "," /\ (trailing \/ At(e.to + 1) # close) ->
         Made(Elements(e.to + 1, close, kind, trailing), LAMBDA t : <<e.tree>> \o t)
    [] OTHER -> Refused
ListRule(p, close, kind, trailing) ==
  IF At(p) = close THEN Read(p + 1, <<>>)
  ELSE Then(Element(p, kind), LAMBDA e : ListTail(e, close, kind, trailing))
NonEmpty(p, close, kind) == IF At(p) = close THEN Refused ELSE Elements(p, close, kind, FALSE)

-----------------------------------------------------------------------------
(* Types and patterns.                                                         *)

FunctionType(p) ==
  IF At(p) # "(" THEN Refused
  ELSE Then(Expected(Elements(p + 1, ")", "type", TRUE), ":"),
            LAMBDA parameters : Made(Type(parameters.to), LAMBDA t : <<"function", parameters.tree, t>>))
ResultType(p) ==
  Then(Expected(Type(p), ","), LAMBDA ok : Made(Type(ok.to), LAMBDA t : <<"result", ok.tree, t>>))
NamedType(p) ==
  IF At(p + 1) = "<" THEN Made(NonEmpty(p + 2, ">", "type"), LAMBDA a : <<"named", At(p), a>>)
  ELSE Read(p + 1, <<"named", At(p), <<>>>>)
TypeRule(p) ==
  CASE At(p) \in Wrappers   -> Made(Type(p + 1), LAMBDA t : <<"wrapped", At(p), t>>)
    [] At(p) = "fntype"     -> FunctionType(p + 1)
    [] At(p) \in Primitives -> Read(p + 1, <<"primitive", At(p)>>)
    [] At(p) = "result"     -> ResultType(p + 1)
    [] At(p) \in NameTokens \ (Wrappers \cup {"result"}) -> NamedType(p)
    [] OTHER                -> Refused

EnumPattern(p) ==
  IF ~ ContextualName(p + 2) THEN Refused
  ELSE IF At(p + 3) = "(" THEN Made(Elements(p + 4, ")", "pattern", FALSE), LAMBDA a : <<"enum", At(p), At(p + 2), a>>)
  ELSE Read(p + 3, <<"enum", At(p), At(p + 2), <<>>>>)
PatternRule(p) ==
  CASE At(p) = "_" -> Read(p + 1, <<"wildcard">>)
    [] At(p) = "{" -> Made(Elements(p + 1, "}", "subpattern", TRUE), LAMBDA f : <<"struct", f>>)
    [] At(p) \in NameTokens -> IF At(p + 1) = "." THEN EnumPattern(p) ELSE Read(p + 1, <<"binding", At(p)>>)
    [] OTHER -> Refused

-----------------------------------------------------------------------------
(* Places and expressions.                                                     *)

Indexed(r, close, place) ==
  Then(Expected(r, close), LAMBDA index : Suffixed(index.to, <<"index", place, index.tree>>))
\* Fields and indexes after a place.
SuffixRule(p, place) ==
  CASE At(p) = "." /\ At(p + 1) = "(" -> Indexed(Expression(p + 2, 1), ")", place)
    [] At(p) = "." /\ ContextualName(p + 1) -> Suffixed(p + 2, <<"field", place, At(p + 1)>>)
    [] At(p) = "." /\ At(p + 1) # "(" /\ ~ ContextualName(p + 1) -> Refused
    [] At(p) = "[" -> Indexed(Expression(p + 1, 1), "]", place)
    [] OTHER -> Read(p, place)
LvalueRule(p) ==
  CASE At(p) = "(" /\ At(p + 1) = "*" ->
         Then(Expected(Lvalue(p + 2), ")"), LAMBDA parent : Suffixed(parent.to, <<"deref", parent.tree>>))
    [] At(p) \in NameTokens -> Suffixed(p + 1, <<"name", At(p)>>)
    [] OTHER -> Refused

\* The suffixes a parenthesised dereference takes inside an expression: no index in parentheses.
ExtensionRule(p, place) ==
  CASE At(p) = "." -> IF ContextualName(p + 1) THEN Extended(p + 2, <<"field", place, At(p + 1)>>) ELSE Refused
    [] At(p) = "[" -> Then(Expected(Expression(p + 1, 1), "]"),
                           LAMBDA index : Extended(index.to, <<"index", place, index.tree>>))
    [] OTHER -> Read(p, <<"place", place>>)
\* Mutant of Parenthesised: a parenthesised dereference takes no suffix.
ParenthesisedOnly(p) == Expected(Expression(p + 1, 1), ")")
Parenthesised(p) ==
  Then(Expected(Expression(p + 1, 1), ")"), LAMBDA inner :
    IF inner.tree[1] = "unary" /\ inner.tree[2] = "*" /\ inner.tree[3][1] = "place"
    THEN Extended(inner.to, <<"deref", inner.tree[3][2]>>)
    ELSE inner)
CallOrPlace(p) ==
  Then(Lvalue(p), LAMBDA place :
    IF At(place.to) = "("
    THEN Made(Elements(place.to + 1, ")", "expression", FALSE), LAMBDA a : <<"call", place.tree, a>>)
    ELSE Read(place.to, <<"place", place.tree>>))
Primary(p) ==
  CASE At(p) = "(" -> Parenthesised(p)
    [] At(p) \in NameTokens -> CallOrPlace(p)
    [] OTHER -> Atom(p)

ConversionRule(r) ==
  IF r.to # 0 /\ At(r.to) = "as"
  THEN Converted(Made(Type(r.to + 1), LAMBDA t : <<"as", r.tree, t>>))
  ELSE r
UnaryRule(p) ==
  IF At(p) \notin UnaryOperators THEN Converted(Primary(p))
  ELSE IF At(p) = "&" /\ At(p + 1) = "mutable"
  THEN Converted(Made(Unary(p + 2), LAMBDA e : <<"unary", "& mutable", e>>))
  ELSE Converted(Made(Unary(p + 1), LAMBDA e : <<"unary", At(p), e>>))

\* Mutant of ClimbRule: the right operand takes operators of the same precedence.
ClimbToTheRight(left, least) ==
  LET operator == At(left.to)
      right == Expression(left.to + 1, Precedence[operator])
  IN  IF left.to = 0 \/ operator \notin DOMAIN Precedence \/ Precedence[operator] < least THEN left
      ELSE Climb(Made(right, LAMBDA r : <<"binary", operator, left.tree, r>>), least)
ClimbRule(left, least) ==
  LET operator == At(left.to)
      right == Expression(left.to + 1, Precedence[operator] + 1)
  IN  IF left.to = 0 \/ operator \notin DOMAIN Precedence \/ Precedence[operator] < least THEN left
      ELSE Climb(Made(right, LAMBDA r : <<"binary", operator, left.tree, r>>), least)
Rule(name, p, x) ==
  CASE name = "type"      -> TypeRule(p)
    [] name = "pattern"   -> PatternRule(p)
    [] name = "lvalue"    -> LvalueRule(p)
    [] name = "suffixed"  -> SuffixRule(p, x)
    [] name = "extended"  -> ExtensionRule(p, x)
    [] name = "unary"     -> UnaryRule(p)
    [] name = "converted" -> ConversionRule(x)
    [] name = "climb"     -> ClimbRule(x.left, x.least)
    [] name = "elements"  -> ListRule(p, x.close, x.kind, x.trailing)

-----------------------------------------------------------------------------
(* What is open: the content of the module and of its target conditions, then  *)
(* the blocks of a function, each with what has been read for its statement.   *)

Top  == open[Len(open)]
Rest == SubSeq(open, 1, Len(open) - 1)
Frame(kind, data) == [kind |-> kind, data |-> data, body |-> <<>>]
\* arm: which arm of a condition this is, "module" outside of all.
Content(active, arm, value) == Frame("content", [active |-> active, arm |-> arm, value |-> value])

GrammarInit ==
  /\ stream \in Streams
  /\ next = 1
  /\ open = <<Content(TRUE, "module", TRUE)>>
  /\ items = <<>>
  /\ imports = <<>>
  /\ temporaries = 0
  /\ parsing = "running"

InContent == parsing = "running" /\ Top.kind = "content"
Inside    == Top.data.arm # "module"
InBlock   == parsing = "running" /\ Top.kind # "content"

Refuse == parsing' = "refused" /\ UNCHANGED <<stream, next, open, items, imports, temporaries>>

\* Statements join the block at the top of the stack.
Opened(stack, statements) ==
  [stack EXCEPT ![Len(stack)] = [@ EXCEPT !.body = @ \o statements]]
Push(to, statements) ==
  /\ next' = to
  /\ open' = Opened(open, statements)
  /\ UNCHANGED <<stream, items, imports, temporaries, parsing>>
\* What was read as statements, or nothing.
Continue(r) == IF r.to = 0 THEN Refuse ELSE Push(r.to, r.tree)
OpenBlock(to, frames) ==
  IF to # 0 /\ At(to) = "{"
  THEN /\ next' = to + 1
       /\ open' = open \o frames
       /\ UNCHANGED <<stream, items, imports, temporaries, parsing>>
  ELSE Refuse

\* The block of a statement, after what the statement begins with.
OpenAfter(r, kind) == OpenBlock(r.to, <<Frame(kind, r.tree)>>)

-----------------------------------------------------------------------------
(* Statements.                                                                 *)

ParseReturn ==
  /\ InBlock /\ At(next) = "return"
  /\ Continue(IF At(next + 1) = ";" THEN Read(next + 2, <<<<"return", <<>>>>>>)
              ELSE Made(Expected(Expression(next + 1, 1), ";"), LAMBDA value : <<<<"return", <<value>>>>>>))

Initializer(p) ==
  CASE At(p) = "["   -> Made(Elements(p + 1, "]", "atom", TRUE), LAMBDA a : <<"vector", a>>)
    [] At(p) = "{"   -> Made(Elements(p + 1, "}", "input", TRUE), LAMBDA f : <<"record", f>>)
    [] At(p) = "box" -> Made(Atom(p + 1), LAMBDA a : <<"box", a>>)
    [] OTHER         -> Made(Expression(p, 1), LAMBDA e : <<"copy", e>>)

\* A declaration, and the statement that initializes it.
Initialized(name, type) ==
  LET declaration == <<"declare", <<"name", name>>, <<type.tree>>>>
  IN  IF type.to # 0 /\ At(type.to) = "="
      THEN Made(Expected(Initializer(type.to + 1), ";"),
                LAMBDA value : <<declaration, <<value[1], <<"name", name>>, value[2]>>>>)
      ELSE Made(Expected(type, ";"), LAMBDA t : <<declaration>>)
ParseVariable ==
  /\ InBlock /\ At(next) = "let"
  /\ Continue(Made(Labelled(next + 1, LAMBDA p : Initialized(At(next + 1), Type(p))), LAMBDA s : s[2]))

StartsPlace == At(next) \in NameTokens \cup {"*", "("}
Leading     == At(next) = "*"
Destination == IF Leading THEN Made(Lvalue(next + 1), LAMBDA l : <<"deref", l>>) ELSE Lvalue(next)
IsCall(place) == ~ Leading /\ place.to # 0 /\ At(place.to) = "("

\* A call stands as the copy of its result into a temporary of its own.
Call(place, arguments) ==
  LET temporary == <<"temporary", temporaries + 1>>
  IN  IF arguments.to = 0 THEN Refuse
      ELSE /\ next' = arguments.to
           /\ open' = Opened(open, <<<<"declare", temporary, <<>>>>,
                                     <<"copy", temporary, <<"call", place, arguments.tree>>>>>>)
           /\ temporaries' = temporaries + 1
           /\ UNCHANGED <<stream, items, imports, parsing>>
CallOf(place) ==
  IsCall(place) /\ Call(place.tree, Expected(Elements(place.to + 1, ")", "expression", TRUE), ";"))
ParseCallStatement == InBlock /\ StartsPlace /\ CallOf(Destination)

Assigned(target) == Made(Expected(Expression(target.to, 1), ";"), LAMBDA value : <<<<"copy", target.tree, value>>>>)
AssignmentOf(place) == ~ IsCall(place) /\ Continue(Then(Expected(place, ":="), Assigned))
ParseAssignment == InBlock /\ StartsPlace /\ AssignmentOf(Destination)

\* The condition in parentheses after a keyword.
Condition(p) == IF At(p) = "(" THEN Expected(Expression(p + 1, 1), ")") ELSE Refused

BeginWhile == InBlock /\ At(next) = "while" /\ OpenAfter(Condition(next + 1), "while")
BeginUnsafe ==
  InBlock /\ At(next) = "unsafe" /\ OpenBlock(next + 1, <<Frame("unsafe", <<>>)>>)
BeginIf == InBlock /\ At(next) = "if" /\ OpenAfter(Condition(next + 1), "then")

\* The head of an arm of a match, and the arms before it.
OpenArm(pattern, frames, value, arms) ==
  IF pattern.to # 0 /\ At(pattern.to) = "{"
  THEN /\ next' = pattern.to + 1
       /\ open' = Append(frames, Frame("arm", [value |-> value, pattern |-> pattern.tree, arms |-> arms]))
       /\ UNCHANGED <<stream, items, imports, temporaries, parsing>>
  ELSE Refuse
PatternOf(p) == Expected(Pattern(p), "->")
Matching(value) ==
  IF value.to = 0 \/ At(value.to) # "|" THEN Refuse ELSE OpenArm(PatternOf(value.to + 1), open, value.tree, <<>>)
BeginMatch == InBlock /\ At(next) = "match" /\ Matching(Expected(Expression(next + 1, 1), "with"))

OtherStatement ==
  /\ InBlock
  /\ At(next) \notin NameTokens \cup {"*", "(", "}", "return", "let", "while", "match", "unsafe", "if"}
  /\ Refuse

\* A statement that ends with a block is complete: the last of a chain of
\* conditionals completes the others, and a semicolon may follow.
RECURSIVE Completed(_, _)
Completed(stack, statement) ==
  LET above == stack[Len(stack)]
      below == SubSeq(stack, 1, Len(stack) - 1)
  IN  IF above.kind = "chain"
      THEN Completed(below, <<"if", above.data.condition, above.data.then, <<<<statement>>>>>>)
      ELSE Opened(stack, <<statement>>)
Complete(statement) ==
  /\ next' = Accepted(next + 1, ";")
  /\ open' = Completed(Rest, statement)
  /\ UNCHANGED <<stream, items, imports, temporaries, parsing>>

CloseLoop ==
  InBlock /\ At(next) = "}" /\ Top.kind = "while" /\ Complete(<<"while", Top.data, Top.body>>)
CloseUnsafe ==
  InBlock /\ At(next) = "}" /\ Top.kind = "unsafe" /\ Complete(<<"unsafe", Top.body>>)
CloseElse ==
  /\ InBlock /\ At(next) = "}" /\ Top.kind = "else"
  /\ Complete(<<"if", Top.data.condition, Top.data.then, <<Top.body>>>>)
\* After the first block of a conditional: another conditional, a block, or the end.
Replace(to, frames) ==
  IF to # 0 /\ At(to) = "{"
  THEN /\ next' = to + 1
       /\ open' = Rest \o frames
       /\ UNCHANGED <<stream, items, imports, temporaries, parsing>>
  ELSE Refuse
Chain(condition, branch) == Replace(condition.to, <<Frame("chain", branch), Frame("then", condition.tree)>>)
CloseThen ==
  LET branch == [condition |-> Top.data, then |-> Top.body]
  IN  /\ InBlock /\ At(next) = "}" /\ Top.kind = "then"
      /\ CASE At(next + 1) # "else" -> Complete(<<"if", Top.data, Top.body, <<>>>>)
           [] At(next + 1) = "else" /\ At(next + 2) = "if" -> Chain(Condition(next + 3), branch)
           [] OTHER -> Replace(next + 2, <<Frame("else", branch)>>)
CloseArm ==
  LET arms == Append(Top.data.arms, <<Top.data.pattern, Top.body>>)
  IN  /\ InBlock /\ At(next) = "}" /\ Top.kind = "arm"
      /\ IF At(next + 1) = "|" THEN OpenArm(PatternOf(next + 2), Rest, Top.data.value, arms)
         ELSE Complete(<<"match", Top.data.value, arms>>)

-----------------------------------------------------------------------------
(* Items.                                                                      *)

\* Items of an arm that the target does not select are read and forgotten.
NamesOf(list) == {list[i][2] : i \in 1..Len(list)}
\* An item joins its list unless its name is there already.
AddItem(item, stack) ==
  LET content == stack[Len(stack)]
      list == IF content.data.active THEN items ELSE content.body
  IN  IF item.to = 0 \/ item.tree[2] \in NamesOf(list) THEN Refuse
      ELSE /\ next' = item.to
           /\ IF content.data.active THEN items' = Append(items, item.tree) /\ open' = stack
              ELSE items' = items /\ open' = Opened(stack, <<item.tree>>)
           /\ UNCHANGED <<stream, imports, temporaries, parsing>>

\* A path of names joined by dots, or a text.
RECURSIVE LogicalPath(_)
LogicalPath(p) ==
  IF At(p) \notin NameTokens THEN Refused
  ELSE IF At(p + 1) = "." THEN Made(LogicalPath(p + 2), LAMBDA path : <<At(p)>> \o path)
  ELSE Read(p + 1, <<At(p)>>)
Import(path) ==
  IF path.to = 0 THEN Refuse
  ELSE /\ next' = path.to
       /\ imports' = IF Top.data.active THEN Append(imports, path.tree) ELSE imports
       /\ UNCHANGED <<stream, open, items, temporaries, parsing>>
ParseImport ==
  /\ InContent /\ At(next) = "import"
  /\ Import(Expected(IF At(next + 1) \in TextTokens THEN Read(next + 2, <<"relative", <<At(next + 1)>>>>)
                     ELSE Made(LogicalPath(next + 1), LAMBDA path : <<"logical", path>>), ";"))

TypeParameters(p) == IF At(p) = "<" THEN NonEmpty(p + 1, ">", "name") ELSE Read(p, <<>>)

Payload(p) ==
  IF At(p) # "of" THEN Read(p, <<>>)
  ELSE IF At(p + 1) = "(" THEN IF At(p + 2) = ")" THEN Refused ELSE Elements(p + 2, ")", "type", FALSE)
  ELSE Made(Type(p + 1), LAMBDA t : <<t>>)
RECURSIVE Constructors(_, _)
ConstructorsAfter(payload, list) ==
  IF At(payload.to) = "|" THEN Constructors(payload.to + 1, list) ELSE Read(payload.to, list)
Constructors(p, before) ==
  IF ~ ContextualName(p) \/ At(p) \in {before[i][1] : i \in 1..Len(before)} THEN Refused
  ELSE Then(Payload(p + 1), LAMBDA payload : ConstructorsAfter(payload, Append(before, <<At(p), payload.tree>>)))
TypeDeclaration(p) ==
  CASE At(p) = "{" -> Made(Elements(p + 1, "}", "slot", TRUE), LAMBDA f : <<"struct", f>>)
    [] At(p) = "|" -> Made(Constructors(p + 1, <<>>), LAMBDA c : <<"enum", c>>)
    [] OTHER       -> Made(Type(p), LAMBDA t : <<"alias", t>>)

\* The words before a declaration.
Public   == At(next) = "public"
External == At(Accepted(next, "public")) = "extern"
Declared     == Accepted(Accepted(next, "public"), "extern")

TypeBody(parameters) ==
  Made(Expected(TypeDeclaration(parameters.to), ";"),
       LAMBDA body : <<"type", At(Declared + 1), Public, parameters.tree, body>>)
ParseTypeItem ==
  /\ InContent /\ At(Declared) = "type" /\ ~ External
  /\ AddItem(IF At(Declared + 1) \in NameTokens
             THEN Then(Expected(TypeParameters(Declared + 2), "="), TypeBody) ELSE Refused, open)

Parameters(generic) ==
  IF At(generic.to) # "(" THEN Refused
  ELSE Made(Expected(Elements(generic.to + 1, ")", "slot", TRUE), ":"), LAMBDA slots : <<generic.tree, slots>>)
Signature(p) ==
  IF At(p) \notin NameTokens THEN Refused
  ELSE Then(Then(TypeParameters(p + 1), Parameters), LAMBDA r :
         Made(Type(r.to), LAMBDA t : <<At(p), Public>> \o r.tree \o <<t>>))

ParseExternalFunction ==
  /\ InContent /\ At(Declared) = "fn" /\ External
  /\ AddItem(Made(Expected(Signature(Declared + 1), ";"), LAMBDA signature : <<"extern">> \o signature), open)
BeginFunction ==
  InContent /\ At(Declared) = "fn" /\ ~ External /\ OpenAfter(Signature(Declared + 1), "function")
CloseFunction ==
  /\ InBlock /\ At(next) = "}" /\ Top.kind = "function"
  /\ AddItem(Read(next + 1, <<"fn">> \o Top.data \o <<Top.body>>), Rest)

\* A condition on the target; every part of it is read, whatever its value.
RECURSIVE Disjunction(_, _), Conjunction(_, _)
Fact(p) ==
  IF /\ At(p) = "target" /\ At(p + 1) = "." /\ At(p + 2) \in DOMAIN TargetFacts
     /\ At(p + 3) \in {"==", "!="} /\ At(p + 4) \in TextTokens
  THEN Read(p + 5, (At(p + 3) = "==") = (At(p + 4) = TargetFacts[At(p + 2)]))
  ELSE Refused
RECURSIVE ConditionAtom(_)
ConditionAtom(p) ==
  CASE At(p) = "!" -> Made(ConditionAtom(p + 1), LAMBDA v : ~ v)
    [] At(p) = "(" -> Expected(Disjunction(p + 1, FALSE), ")")
    [] OTHER       -> Fact(p)
Conjunction(p, sofar) ==
  Then(ConditionAtom(p), LAMBDA atom :
    IF At(atom.to) = "&&" THEN Conjunction(atom.to + 1, sofar /\ atom.tree)
    ELSE Read(atom.to, sofar /\ atom.tree))
Disjunction(p, sofar) ==
  Then(Conjunction(p, TRUE), LAMBDA conjunction :
    IF At(conjunction.to) = "||" THEN Disjunction(conjunction.to + 1, sofar \/ conjunction.tree)
    ELSE Read(conjunction.to, sofar \/ conjunction.tree))

OpenArmOf(condition) ==
  OpenBlock(condition.to, <<Content(Top.data.active /\ condition.tree, "if", condition.tree)>>)
BeginCondition ==
  /\ InContent /\ At(next) = "if"
  /\ OpenArmOf(IF At(next + 1) = "(" THEN Expected(Disjunction(next + 2, FALSE), ")") ELSE Refused)
\* The end of an arm; the other arm of the condition may follow.
CloseContent ==
  LET other == Content(Rest[Len(Rest)].data.active /\ ~ Top.data.value, "else", TRUE)
      Resume(to, stack) == next' = to /\ open' = stack /\ UNCHANGED <<stream, items, imports, temporaries, parsing>>
  IN  /\ InContent /\ Inside /\ At(next) = "}"
      /\ IF Top.data.arm = "else" \/ At(next + 1) # "else" THEN Resume(next + 1, Rest)
         ELSE IF At(next + 2) = "{" THEN Resume(next + 3, Append(Rest, other)) ELSE Refuse

EndModule ==
  /\ InContent /\ At(next) = "eof"
  /\ IF Inside THEN Refuse
     ELSE parsing' = "parsed" /\ UNCHANGED <<stream, next, open, items, imports, temporaries>>
OtherItem ==
  /\ InContent
  /\ At(Declared) \notin {"type", "fn"} \/ (External /\ At(Declared) = "type")
  /\ At(next) \notin {"import", "if", "eof"} /\ ~ (Inside /\ At(next) = "}")
  /\ Refuse

GrammarNext ==
  \/ ParseReturn \/ ParseVariable \/ ParseCallStatement \/ ParseAssignment \/ BeginWhile \/ BeginUnsafe \/ BeginIf
  \/ BeginMatch \/ OtherStatement \/ CloseLoop \/ CloseUnsafe \/ CloseElse \/ CloseThen \/ CloseArm
  \/ ParseImport \/ ParseTypeItem \/ ParseExternalFunction \/ BeginFunction \/ CloseFunction
  \/ BeginCondition \/ CloseContent \/ EndModule \/ OtherItem

=============================================================================
