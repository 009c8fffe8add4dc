------------------------------ MODULE GrammarForms ------------------------------
(* What the parser of SeedGrammar ought to read: how a tree is written, with the  *)
(* parentheses its shape needs and no others, what a written statement means, and *)
(* which token sequences are expressions by the productions of the language.      *)
EXTENDS SeedGrammar

RECURSIVE Flat(_), Joined(_, _)
Flat(list) == IF list = <<>> THEN <<>> ELSE list[1] \o Flat(Tail(list))
Joined(list, separator) ==
  IF Len(list) <= 1 THEN Flat(list) ELSE list[1] \o <<separator>> \o Joined(Tail(list), separator)
Each(list, Spell(_)) == [i \in 1..Len(list) |-> Spell(list[i])]

RECURSIVE TypeText(_)
TypeText(t) ==
  CASE t[1] = "primitive" -> <<t[2]>>
    [] t[1] = "wrapped"   -> <<t[2]>> \o TypeText(t[3])
    [] t[1] = "result"    -> <<"result">> \o TypeText(t[2]) \o <<",">> \o TypeText(t[3])
    [] t[1] = "function"  -> <<"fntype", "(">> \o Joined(Each(t[2], TypeText), ",") \o <<")", ":">> \o TypeText(t[3])
    [] t[1] = "named"     -> IF t[3] = <<>> THEN <<t[2]>>
                             ELSE <<t[2], "<">> \o Joined(Each(t[3], TypeText), ",") \o <<">">>
RECURSIVE PatternText(_)
PatternText(t) ==
  CASE t[1] = "wildcard" -> <<"_">>
    [] t[1] = "binding"  -> <<t[2]>>
    [] t[1] = "struct"   -> <<"{">> \o Joined(Each(t[2], LAMBDA f : <<f[1], ":">> \o PatternText(f[2])), ",") \o <<"}">>
    [] t[1] = "enum"     -> <<t[2], ".", t[3]>> \o (IF t[4] = <<>> THEN <<>>
                              ELSE <<"(">> \o Joined(Each(t[4], PatternText), ",") \o <<")">>)

\* How tightly an expression holds together: the binary operators by their levels.
Levels == <<{"||"}, {"&&"}, {"|"}, {"^"}, {"&"}, {"==", "!="}, {"<", "<=", ">", ">="}, {"<<", ">>"}, {"+", "-"}, {"*", "/", "%"}>>
Strength(t) ==
  CASE t[1] = "binary" -> (CHOOSE n \in 1..Len(Levels) : t[2] \in Levels[n])
    [] t[1] = "unary" -> 11 [] t[1] = "as" -> 12 [] OTHER -> 13
RECURSIVE Text(_, _), PlaceText(_)
Text(t, least) ==
  LET own == CASE t[1] = "binary" -> Text(t[3], Strength(t)) \o <<t[2]>> \o Text(t[4], Strength(t) + 1)
               [] t[1] = "unary"  -> (IF t[2] = "& mutable" THEN <<"&", "mutable">> ELSE <<t[2]>>) \o Text(t[3], 11)
               [] t[1] = "as"     -> Text(t[2], 12) \o <<"as">> \o TypeText(t[3])
               [] t[1] = "call"   -> PlaceText(t[2]) \o <<"(">> \o Joined(Each(t[3], LAMBDA a : Text(a, 1)), ",") \o <<")">>
               [] t[1] = "place"  -> PlaceText(t[2])
               [] t[1] = "literal" -> <<t[2]>>
               [] t[1] = "negative" -> <<"-", t[2]>>
  IN  IF Strength(t) < least THEN <<"(">> \o own \o <<")">> ELSE own
PlaceText(l) ==
  CASE l[1] = "name"  -> <<l[2]>>
    [] l[1] = "deref" -> <<"(", "*">> \o PlaceText(l[2]) \o <<")">>
    [] l[1] = "field" -> PlaceText(l[2]) \o <<".", l[3]>>
    [] l[1] = "index" -> PlaceText(l[2]) \o <<"[">> \o Text(l[3], 1) \o <<"]">>

InputsText(input) ==
  LET kind == input[1]  value == input[2]
  IN  CASE kind = "vector" -> <<"[">> \o Joined(Each(value, LAMBDA a : Text(a, 1)), ",") \o <<"]">>
        [] kind = "record" -> <<"{">> \o Joined(Each(value, LAMBDA f : <<f[1], ":">> \o Text(f[2], 1)), ",") \o <<"}">>
        [] kind = "box"    -> <<"box">> \o Text(value, 1)
        [] kind = "copy"   -> Text(value, 1)
RECURSIVE StatementText(_), BlockText(_)
BlockText(block) == <<"{">> \o Flat(Each(block, StatementText)) \o <<"}">>
StatementText(s) ==
  CASE s[1] = "return"   -> <<"return">> \o (IF s[2] = <<>> THEN <<>> ELSE Text(s[2][1], 1)) \o <<";">>
    [] s[1] = "let"      -> <<"let", s[2], ":">> \o TypeText(s[3])
                              \o (IF s[4] = <<>> THEN <<>> ELSE <<"=">> \o InputsText(s[4][1])) \o <<";">>
    [] s[1] = "run"      -> Text(s[2], 1) \o <<";">>
    [] s[1] = "copy"     -> PlaceText(s[2]) \o <<":=">> \o Text(s[3], 1) \o <<";">>
    [] s[1] = "unsafe"   -> <<"unsafe">> \o BlockText(s[2])
    [] s[1] = "while"    -> <<"while", "(">> \o Text(s[2], 1) \o <<")">> \o BlockText(s[3])
    [] s[1] = "if"       -> <<"if", "(">> \o Text(s[2], 1) \o <<")">> \o BlockText(s[3])
                              \o (IF s[4] = <<>> THEN <<>> ELSE <<"else">> \o BlockText(s[4][1]))
    [] s[1] = "else if"  -> <<"if", "(">> \o Text(s[2], 1) \o <<")">> \o BlockText(s[3]) \o <<"else">> \o StatementText(s[4])
    [] s[1] = "match"    -> <<"match">> \o Text(s[2], 1) \o <<"with">>
                              \o Flat(Each(s[3], LAMBDA a : <<"|">> \o PatternText(a[1]) \o <<"->">> \o BlockText(a[2])))

\* The statements that a written statement means, and the temporaries used by then.
RECURSIVE Meaning(_, _), BlockMeaning(_, _), ArmsMeaning(_, _)
BlockMeaning(block, n) ==
  IF block = <<>> THEN [list |-> <<>>, used |-> n]
  ELSE LET first == Meaning(block[1], n)
           others == BlockMeaning(Tail(block), first.used)
       IN  [list |-> first.list \o others.list, used |-> others.used]
ArmsMeaning(arms, n) ==
  IF arms = <<>> THEN [list |-> <<>>, used |-> n]
  ELSE LET first == BlockMeaning(arms[1][2], n)
           others == ArmsMeaning(Tail(arms), first.used)
       IN  [list |-> <<<<arms[1][1], first.list>>>> \o others.list, used |-> others.used]
Meaning(s, n) ==
  LET one(t) == [list |-> <<t>>, used |-> n]
      inner == BlockMeaning(s[3], n)
      other == IF s[1] = "else if" THEN Meaning(s[4], inner.used) ELSE BlockMeaning(s[4][1], inner.used)
      arms == ArmsMeaning(s[3], n)
      alone == BlockMeaning(s[2], n)
  IN  CASE s[1] = "let" -> [list |-> <<<<"declare", <<"name", s[2]>>, <<s[3]>>>>>>
                                       \o (IF s[4] = <<>> THEN <<>> ELSE <<<<s[4][1][1], <<"name", s[2]>>, s[4][1][2]>>>>),
                            used |-> n]
        [] s[1] = "run" -> [list |-> <<<<"declare", <<"temporary", n + 1>>, <<>>>>, <<"copy", <<"temporary", n + 1>>, s[2]>>>>,
                            used |-> n + 1]
        [] s[1] = "unsafe" -> [list |-> <<<<"unsafe", alone.list>>>>, used |-> alone.used]
        [] s[1] = "while"  -> [list |-> <<<<"while", s[2], inner.list>>>>, used |-> inner.used]
        [] s[1] = "if" /\ s[4] = <<>> -> [list |-> <<<<"if", s[2], inner.list, <<>>>>>>, used |-> inner.used]
        [] s[1] = "else if" \/ (s[1] = "if" /\ s[4] # <<>>) ->
             [list |-> <<<<"if", s[2], inner.list, <<other.list>>>>>>, used |-> other.used]
        [] s[1] = "match"  -> [list |-> <<<<"match", s[2], arms.list>>>>, used |-> arms.used]
        [] OTHER -> one(s)

\* Conditions on the target, and whether they hold.
RECURSIVE ConditionText(_, _), Holds(_)
ConditionText(c, least) ==
  LET pair(operator, own) == ConditionText(c[2], own) \o <<operator>> \o ConditionText(c[3], own)
      bare == CASE c[1] = "fact" -> <<"target", ".", c[2], c[3], c[4]>>
                [] c[1] = "not"  -> <<"!">> \o ConditionText(c[2], 3)
                [] c[1] = "and"  -> pair("&&", 2)
                [] c[1] = "or"   -> pair("||", 1)
      own == CASE c[1] = "and" -> 2 [] c[1] = "or" -> 1 [] OTHER -> 3
  IN  IF own < least THEN <<"(">> \o bare \o <<")">> ELSE bare
Holds(c) ==
  CASE c[1] = "fact" -> (c[3] = "==") = (TargetFacts[c[2]] = c[4])
    [] c[1] = "not"  -> ~ Holds(c[2])
    [] c[1] = "and"  -> Holds(c[2]) /\ Holds(c[3])
    [] c[1] = "or"   -> Holds(c[2]) \/ Holds(c[3])

\* Items, and those that a list of items means: of a condition, one of its arms.
NamesText(list) == IF list = <<>> THEN <<>> ELSE <<"<">> \o Joined(Each(list, LAMBDA x : <<x>>), ",") \o <<">">>
SlotsText(list) == Joined(Each(list, LAMBDA s : <<s[1], ":">> \o TypeText(s[2])), ",")
TypeBodyText(b) ==
  CASE b[1] = "struct" -> <<"{">> \o SlotsText(b[2]) \o <<"}">>
    [] b[1] = "alias"  -> TypeText(b[2])
    [] b[1] = "enum"   -> Flat(Each(b[2], LAMBDA c : <<"|", c[1]>> \o
         CASE c[2] = <<>> -> <<>>
           [] Len(c[2]) = 1 -> <<"of">> \o TypeText(c[2][1])
           [] OTHER -> <<"of", "(">> \o Joined(Each(c[2], TypeText), ",") \o <<")">>))
RECURSIVE ItemText(_), ItemsMeaning(_, _)
ItemText(i) ==
  LET public == IF i[3] = TRUE THEN <<"public">> ELSE <<>>
      signature == <<"fn", i[2]>> \o NamesText(i[4]) \o <<"(">> \o SlotsText(i[5]) \o <<")", ":">> \o TypeText(i[6])
      block(list) == <<"{">> \o Flat(Each(list, ItemText)) \o <<"}">>
  IN  CASE i[1] = "type"   -> public \o <<"type", i[2]>> \o NamesText(i[4]) \o <<"=">> \o TypeBodyText(i[5]) \o <<";">>
        [] i[1] = "extern" -> public \o <<"extern">> \o signature \o <<";">>
        [] i[1] = "fn"     -> public \o signature \o BlockText(i[7])
        [] i[1] = "import" -> <<"import">> \o Joined(Each(i[3], LAMBDA x : <<x>>), ".") \o <<";">>
        [] i[1] = "when"   -> <<"if", "(">> \o ConditionText(i[2], 1) \o <<")">> \o block(i[3])
                                \o (IF i[4] = <<>> THEN <<>> ELSE <<"else">> \o block(i[4]))
ItemsMeaning(list, n) ==
  IF list = <<>> THEN [items |-> <<>>, imports |-> <<>>, used |-> n]
  ELSE LET i == list[1]
           body == BlockMeaning(i[7], n)
           kept == ItemsMeaning(IF Holds(i[2]) THEN i[3] ELSE i[4], n)
           first == CASE i[1] \in {"type", "extern"} -> [items |-> <<i>>, imports |-> <<>>, used |-> n]
                      [] i[1] = "fn"     -> [items |-> <<[i EXCEPT ![7] = body.list]>>, imports |-> <<>>, used |-> body.used]
                      [] i[1] = "import" -> [items |-> <<>>, imports |-> <<<<i[2], i[3]>>>>, used |-> n]
                      [] i[1] = "when"   -> kept
           others == ItemsMeaning(Tail(list), first.used)
       IN  [items |-> first.items \o others.items, imports |-> first.imports \o others.imports, used |-> others.used]
ModuleMeaning(list) == LET m == ItemsMeaning(list, 0) IN [items |-> m.items, imports |-> m.imports]
Written(list) == [tokens |-> Flat(Each(list, ItemText)), shape |-> "written", meaning |-> <<ModuleMeaning(list)>>]
\* Tokens that are no module, whatever they say.
Malformed(tokens) == [tokens |-> tokens, shape |-> "malformed", meaning |-> <<>>]

\* The parser reads a written module as what it means, refuses none that has a
\* meaning and accepts none that is malformed: no precedence, no nesting and no
\* desugaring loses a part, and no block is left open at the end.
ParsesAsWritten ==
  CASE stream.shape = "written" ->
         /\ parsing # "refused"
         /\ parsing = "parsed" => [items |-> items, imports |-> imports] = stream.meaning[1]
    [] stream.shape = "malformed" -> parsing # "parsed"
    [] OTHER -> TRUE

-----------------------------------------------------------------------------
(* The productions of expressions, as sets of token sequences.                 *)

Before(s, i) == SubSeq(s, 1, i - 1)
After(s, i)  == SubSeq(s, i + 1, Len(s))
Inner(s)     == SubSeq(s, 2, Len(s) - 1)
Enclosed(s)  == Len(s) > 2 /\ s[1] = "(" /\ s[Len(s)] = ")"
Names(s)     == Len(s) = 1 /\ s[1] \in NameTokens
\* s without its last suffix: a field, or the index that a bracket opens at i.
FieldOf(s)      == Len(s) > 2 /\ s[Len(s) - 1] = "." /\ s[Len(s)] \in NameTokens \cup KeywordTokens
IndexOf(s, i)   == i > 1 /\ s[i] = "[" /\ s[Len(s)] = "]"

RECURSIVE IsExpression(_), IsUnary(_), IsLvalue(_), IsExtended(_), IsPlace(_), IsList(_), IsType(_)
IsType(s) == \/ Len(s) = 1 /\ s[1] \in Primitives \cup NameTokens
             \/ Len(s) > 1 /\ s[1] \in Wrappers /\ IsType(Tail(s))
IsLvalue(s) == \/ Names(s)
               \/ FieldOf(s) /\ IsLvalue(Before(s, Len(s) - 1))
               \/ \E i \in 1..Len(s) : IndexOf(s, i) /\ IsLvalue(Before(s, i)) /\ IsExpression(Inner(After(s, i - 1)))
               \/ \E i \in 2..Len(s) : /\ s[i] = "." /\ Enclosed(After(s, i))
                                         /\ IsLvalue(Before(s, i)) /\ IsExpression(Inner(After(s, i)))
IsPlace(s) == IsLvalue(s) \/ IsExtended(s) \/ (Enclosed(s) /\ IsPlace(Inner(s)))
IsExtended(s) == \/ Enclosed(s) /\ s[2] = "*" /\ IsPlace(Tail(Inner(s)))
                 \/ FieldOf(s) /\ IsExtended(Before(s, Len(s) - 1))
                 \/ \E i \in 1..Len(s) : IndexOf(s, i) /\ IsExtended(Before(s, i)) /\ IsExpression(Inner(After(s, i - 1)))
IsList(s) == IsExpression(s) \/ \E i \in 1..Len(s) : s[i] = "," /\ IsExpression(Before(s, i)) /\ IsList(After(s, i))
IsPrimary(s) ==
  \/ Len(s) = 1 /\ s[1] \in NumberTokens \cup TextTokens
  \/ IsLvalue(s) \/ IsExtended(s)
  \/ Enclosed(s) /\ IsExpression(Inner(s))
  \/ \E i \in 1..Len(s) : /\ s[i] = "(" /\ s[Len(s)] = ")" /\ IsLvalue(Before(s, i))
                            /\ (i = Len(s) - 1 \/ IsList(Inner(After(s, i - 1))))
IsUnary(s) ==
  \/ IsPrimary(s)
  \/ Len(s) > 1 /\ s[1] \in UnaryOperators /\ IsUnary(Tail(s))
  \/ Len(s) > 2 /\ SubSeq(s, 1, 2) = <<"&", "mutable">> /\ IsUnary(After(s, 2))
  \/ \E i \in 1..Len(s) : s[i] = "as" /\ IsUnary(Before(s, i)) /\ IsType(After(s, i))
IsExpression(s) ==
  \/ IsUnary(s)
  \/ \E i \in 1..Len(s) : s[i] \in UNION {Levels[n] : n \in 1..Len(Levels)} /\ IsExpression(Before(s, i)) /\ IsExpression(After(s, i))

\* A function that returns a sequence of tokens, which may be an expression.
Opening == <<"fn", "f", "(", ")", ":", "int", "{", "return">>
Closing == <<";", "}">>
Returning(tokens) == [tokens |-> Opening \o tokens \o Closing, shape |-> "expression", meaning |-> <<>>]
Returned == SubSeq(stream.tokens, Len(Opening) + 1, Len(stream.tokens) - Len(Closing))

\* Any sequence of tokens is read as an expression when it is one by the
\* productions, and refused when it is not: a parser that looks one token ahead
\* neither stops early nor takes what follows.
AcceptsTheGrammar ==
  stream.shape = "expression" =>
    /\ parsing = "parsed" => IsExpression(Returned)
    /\ parsing = "refused" => ~ IsExpression(Returned)
=============================================================================
