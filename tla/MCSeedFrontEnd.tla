----------------------------- MODULE MCSeedFrontEnd -----------------------------
(* The lexer, the parser, the names and the import paths of the seed compiler,   *)
(* each over inputs of its own: every initial state runs one of the four, and    *)
(* the others stay idle.                                                         *)
EXTENDS SourceText, GrammarForms, ModuleNames, ImportResolution, TLC

VARIABLE component

frontEndVars == <<component, textVars, grammarVars, nameVars, resolutionVars>>

-----------------------------------------------------------------------------
(* Sources: all texts of a few lexemes over small alphabets, which hold the      *)
(* boundaries of each kind of token; L is a letter and T an ignored character of *)
(* two bytes, ! a byte that starts no character.                                 *)

Byte ==
  (" " :> 32) @@ ("\n" :> 10) @@ ("/" :> 47) @@ ("0" :> 48) @@ ("1" :> 49) @@ ("2" :> 50) @@ ("3" :> 51) @@
  ("4" :> 52) @@ ("6" :> 54) @@ ("9" :> 57) @@
  ("a" :> 97) @@ ("b" :> 98) @@ ("x" :> 120) @@ ("e" :> 101) @@ ("_" :> 95) @@ ("." :> 46) @@
  ("-" :> 45) @@ (">" :> 62) @@ ("=" :> 61) @@ ("<" :> 60) @@ ("&" :> 38) @@ ("\"" :> 34) @@
  ("'" :> 39) @@ ("\\" :> 92) @@ ("n" :> 110) @@ ("u" :> 117) @@ ("!" :> 255) @@ ("$" :> 36)
Wider == ("<<" :> <<194, 171>>) @@ (">>" :> <<194, 187>>) @@ ("L" :> <<216, 163>>) @@ ("T" :> <<217, 128>>)
Spelling(s) == FlattenSeq([i \in DOMAIN s |-> IF s[i] \in DOMAIN Wider THEN Wider[s[i]] ELSE <<Byte[s[i]]>>])
TextsOf(S, n) == {Spelling(f) : f \in [1..n -> S]}

MCSources ==
  TextsOf({"0", "1", "x", "b", "_", ".", "e"}, 4) \cup TextsOf({"0", "1", "9", "-", "e", "."}, 4) \cup
  TextsOf({"1", "2", "3", "4", "6", "_"}, 2) \cup TextsOf({"1", "2", "3", "4", "6", "_"}, 3) \cup
  TextsOf({">", "=", "<", "-", "&", "/", "\n", "a"}, 3) \cup
  TextsOf({"\"", "\\", "x", "1", "n", "L", "\n"}, 4) \cup
  TextsOf({"<<", ">>", "L", "\n", "!"}, 5) \cup
  TextsOf({"'", "\\", "n", "T", "!", "_", "1"}, 4) \cup
  TextsOf({"a", "L", "T", "_", " ", "1", "$"}, 4) \cup
  {Spelling(<<"\"", "\\", "u", "1", "0", "9", "a", "\"", "L">>), Spelling(<<"'", "\\", "u", "0", "b", "0", "0", "'">>)}
MCKeywordKinds == {[scalars |-> <<97, 1575>>, kind |-> "if"]}

-----------------------------------------------------------------------------
(* Modules: every short sequence of tokens as a returned expression, every       *)
(* expression of two operators, statements nested twice, items and conditions,   *)
(* and what is left of them when the tokens end early.                           *)

MCNames    == {"a", "b", "f"}
MCKeywords == {"with", "match"}
MCFacts    == [os |-> "linux", cpu |-> "x86"]

Alphabet == {"a", "1", "-", "*", "(", ")", "==", "as", "int", ".", "[", "]", ","}
UpTo(S, n) == UNION {[1..k -> S] : k \in 0..n}
AnyTokens ==
  {Returning(s) : s \in (UpTo(Alphabet, 3) \ {<<>>})
      \cup [1..4 -> {"a", "1", "-", "(", ")", "==", "as", "int"}]
      \cup {<<"(", x>> \o t \o <<y>> : x \in {"*", "a"}, t \in [1..3 -> {"a", "*", "(", ")", "[", "]", "."}],
                                       y \in {"a", ")", "]"}}}

A == <<"place", <<"name", "a">>>>
One == <<"literal", "1">>
Integer == <<"primitive", "int">>
InfixOperators == {"||", "&&", "|", "^", "&", "==", "<", "<<", "+", "-", "*", "%"}
InfixForms(S, R) == {<<"binary", o, l, r>> : o \in InfixOperators, l \in S, r \in R}
PrefixForms(S)   == {<<"unary", o, e>> : o \in {"!", "-", "& mutable"}, e \in S}
                 \cup {<<"unary", "*", e>> : e \in {x \in S : x[1] # "place"}}
ConversionForms(S) == {<<"as", e, t>> : e \in S, t \in {Integer, <<"wrapped", "*", Integer>>}}
Simple == {A, One} \cup PrefixForms({One}) \cup ConversionForms({A})
Deeper ==
  InfixForms({A}, {<<"place", <<"name", "b">>>>}) \cup PrefixForms(Simple) \cup ConversionForms(Simple) \cup
  {A, One, <<"place", <<"deref", <<"name", "a">>>>>>, <<"place", <<"field", <<"deref", <<"name", "a">>>>, "match">>>>,
   <<"call", <<"name", "f">>, <<>>>>, <<"call", <<"field", <<"name", "f">>, "a">>, <<A, <<"binary", "*", A, One>>>>>>,
   <<"place", <<"index", <<"name", "a">>, <<"binary", "+", A, One>>>>>>}
Expressions == PrefixForms(Deeper) \cup ConversionForms(Deeper) \cup InfixForms(Deeper, {A}) \cup InfixForms({A}, Deeper)

Function(name, body) == <<"fn", name, FALSE, <<>>, <<>>, Integer, body>>
Body(statements) == Written(<<Function("f", statements)>>)

Negative == <<"negative", "1">>
Runs == <<"run", <<"call", <<"name", "f">>, <<>>>>>>
Plain ==
  {<<"return", <<>>>>, <<"let", "a", Integer, <<>>>>, <<"let", "a", <<"named", "b", <<Integer>>>>, <<<<"copy", One>>>>>>,
   <<"let", "a", Integer, <<<<"vector", <<One, Negative>>>>>>>>, <<"let", "a", Integer, <<<<"record", <<<<"a", A>>, <<"b", One>>>>>>>>>>,
   <<"let", "a", <<"wrapped", "box", Integer>>, <<<<"box", Negative>>>>>>, <<"run", <<"call", <<"name", "f">>, <<A>>>>>>,
   <<"copy", <<"index", <<"deref", <<"name", "a">>>>, One>>, One>>}
EnumArm(b)   == <<<<"enum", "a", "with", <<<<"binding", "b">>, <<"wildcard">>>>>>, b>>
StructArm(b) == <<<<"struct", <<<<"a", <<"binding", "b">>>>>>>>, b>>
Compound(S) ==
  {<<"while", A, b>> : b \in S} \cup {<<"unsafe", b>> : b \in S} \cup {<<"if", A, b, <<>>>> : b \in S} \cup
  {<<"if", A, b, <<<<>>>>>> : b \in S} \cup {<<"if", A, <<>>, <<b>>>> : b \in S} \cup
  {<<"match", A, <<EnumArm(b)>>>> : b \in S} \cup {<<"match", A, <<EnumArm(<<>>), StructArm(b)>>>> : b \in S}
Nested == Compound({<<s>> : s \in Plain} \cup {<<>>})
ElseIfs == UNION {{<<"else if", A, <<>>, s>>, <<"else if", One, <<>>, <<"else if", A, <<>>, s>>>>} : s \in {t \in Nested : t[1] = "if"}}
Statements == Plain \cup Nested \cup ElseIfs \cup Compound({<<s, Runs>> : s \in Nested \cup ElseIfs})

TypeItem(name, parameters, definition) == <<"type", name, TRUE, parameters, definition>>
SomeTypes ==
  {Integer, <<"wrapped", "box", <<"named", "b", <<Integer, Integer>>>>>>, <<"result", Integer, <<"wrapped", "option", Integer>>>>,
   <<"function", <<Integer, <<"wrapped", "mutable", Integer>>>>, Integer>>}
Items ==
  {TypeItem("a", <<>>, <<"alias", t>>) : t \in SomeTypes} \cup
  {TypeItem("a", <<"b", "f">>, <<"struct", <<<<"a", t>>, <<"b", Integer>>>>>>) : t \in SomeTypes} \cup
  {TypeItem("a", <<>>, <<"enum", <<<<"with", <<>>>>, <<"a", <<t>>>>, <<"b", <<t, Integer>>>>>>>>) : t \in SomeTypes} \cup
  {<<"extern", "a", p, <<>>, <<<<"a", Integer>>>>, Integer>> : p \in BOOLEAN} \cup
  {<<"fn", "a", p, <<"b">>, <<<<"a", Integer>>, <<"b", Integer>>>>, Integer, <<Runs>>>> : p \in BOOLEAN} \cup
  {<<"import", "logical", <<"a", "b">>>>, <<"import", "relative", <<"t">>>>}
Facts == {<<"fact", "os", "==", "linux">>, <<"fact", "cpu", "!=", "linux">>, <<"fact", "os", "!=", "linux">>}
Conditions ==
  Facts \cup {<<k, c, d>> : k \in {"and", "or"}, c \in Facts \cup {<<"not", <<"and", f, f>>>> : f \in Facts},
                            d \in Facts \cup {<<"or", f, <<"fact", "cpu", "==", "linux">>>> : f \in Facts}}
Kept    == {<<"import", "relative", <<"t">>>>, TypeItem("b", <<>>, <<"alias", Integer>>)}
Dropped == {<<"import", "logical", <<"a", "f">>>>, <<"type", "b", FALSE, <<>>, <<"alias", Integer>>>>}
Extern(name) == <<"extern", name, FALSE, <<>>, <<>>, Integer>>
Modules ==
  {Written(<<i, Function("f", <<Runs>>)>>) : i \in Items} \cup
  {Written(<<<<"when", c, <<i>>, <<j>>>>, Function("f", <<Runs>>)>>) : c \in Conditions, i \in Kept, j \in Dropped} \cup
  {Written(<<<<"when", c, <<<<"when", d, <<i>>, <<Extern("a")>>>>, Extern("f")>>, <<>>>>>>) : c, d \in Facts, i \in Kept}
CutShort ==
  UNION {{Malformed(SubSeq(w.tokens, 1, n)) : n \in 1..Len(w.tokens) - 1} :
          w \in {Body(<<s>>) : s \in ElseIfs} \cup {Written(<<i>>) : i \in Items \cup {<<"when", c, <<k>>, <<>>>> : c \in Facts, k \in Kept}}}
  \cup {Malformed(<<"with">>), Malformed(Opening \o <<";", "as">> \o Closing)}

MCStreams ==
  AnyTokens \cup {Body(<<<<"return", <<e>>>>>>) : e \in Expressions} \cup
  {Body(<<s, <<"return", <<>>>>>>) : s \in Statements} \cup Modules \cup CutShort

-----------------------------------------------------------------------------
(* Programs: one unit of up to three declarations and aliases, and three units   *)
(* that offer, hide and import the same names.                                   *)

Declares(kind, name, public) ==
  [kind |-> kind, name |-> name, public |-> public, arm |-> Selected,
   children |-> IF kind = "type" THEN {"c", "d"} ELSE {}]
Alias(name, target, public) == [kind |-> "alias", name |-> name, target |-> target, public |-> public, arm |-> Selected]
ChildAlias(parent, name, targetParent, target) ==
  [kind |-> "child", parent |-> parent, name |-> name, targetParent |-> targetParent, target |-> target, public |-> TRUE,
   arm |-> Selected]
Within(arm, item) == [item EXCEPT !.arm = arm]
Main == Declares("function", "main", FALSE)
Module(declarations, imported) == [source |-> declarations, imports |-> imported]
Aliasing ==
  {Declares("type", "p", TRUE), Alias("q", "p", TRUE), Alias("r", "q", TRUE), Alias("q", "host", FALSE),
   ChildAlias("p", "e", "p", "c"), ChildAlias("q", "f", "r", "e"), ChildAlias("p", "c", "p", "e"),
   Alias("host", "platform", FALSE), Alias("platform", "host", FALSE), Declares("type", "host", TRUE),
   Declares("type", "q", TRUE), Within("outer", Declares("function", "p", TRUE)), Declares("function", "r", FALSE),
   [ChildAlias("p", "e", "p", "c") EXCEPT !.public = FALSE], [kind |-> "mixed", name |-> "q", arm |-> Selected]}
\* An arm inside another one, both with the names of the module and of each other.
InArms ==
  {Within("outer", Declares("function", "p", TRUE)), Within("inner", Declares("function", "p", TRUE)),
   Within("inner", Alias("q", "p", TRUE)), Within("outer", Alias("q", "p", TRUE)), Declares("type", "p", TRUE)}
Offered ==
  {<<>>, <<Declares("type", "p", TRUE)>>, <<Declares("type", "p", FALSE)>>, <<Declares("function", "p", TRUE)>>,
   <<Declares("global", "p", TRUE)>>, <<Declares("type", "q", TRUE), Alias("p", "q", TRUE)>>,
   <<Declares("type", "p", TRUE), Alias("q", "p", TRUE)>>}
MCPrograms ==
  {<<Module(Append(s, Main), <<>>)>> : s \in UpTo(Aliasing, 3) \cup UpTo(InArms, 3)} \cup
  {<<Module(<<Declares("type", "p", TRUE), Alias("q", "p", TRUE), Alias("r", "q", TRUE), ChildAlias("p", "e", "p", "c"),
              ChildAlias("q", "f", "r", "e"), Main>>, <<>>)>>} \cup
  {<<Module(Append(a, Main), i), Module(b, <<>>), Module(c, <<>>)>> :
     a, b, c \in Offered, i \in {<<>>, <<2>>, <<3>>, <<2, 3>>, <<3, 2>>}} \cup
  {<<Module(a, <<2>>), Module(<<Main>>, <<>>)>> : a \in Offered}
MCBuiltins == {"host", "platform"}
MCLookedUp == {"p", "q", "r", "host", "main"}

-----------------------------------------------------------------------------
(* Imports: every path of up to three components from a file of the project, of  *)
(* a directory of it and of the standard library, with a link out of the project *)
(* and one from the library back into it.                                        *)

MCPathNames == {"p", "o", "a", "b", "c", "d", "n", "library", "std", "in", "out", ".", ".."}
MCRoot  == <<"p">>
Importers == {<<"p", "a">>, <<"p", "d", "b">>, <<"p", "library", "std", "c">>}
MCRegularFiles == Importers \cup {<<"o", "a">>, <<"p", "d", "n">>, <<"p", "library", "std", "d", "b">>}
MCLinks == (<<"p", "out">> :> <<"o">>) @@ (<<"p", "library", "std", "in">> :> <<"p", "d">>)
MCSourceNames == {"a", "b", "c"}
MCImportings ==
  {[importer |-> f, request |-> [kind |-> "relative", path |-> p]] :
     f \in Importers, p \in UpTo({"a", "b", "c", "d", "n", "..", ".", "out", "in"}, 3) \ {<<>>}} \cup
  {[importer |-> f, request |-> [kind |-> k, path |-> p]] :
     f \in Importers, k \in {"logical", "absolute"}, p \in UpTo({"a", "b", "c", "d", "std", "out"}, 2) \ {<<>>}}

-----------------------------------------------------------------------------
Components == {"text", "grammar", "names", "resolution"}

TextIdle == source = <<>> /\ cursor = [offset |-> 0, line |-> 1, column |-> 0] /\ tokens = <<>> /\ lexing = "idle"
GrammarIdle ==
  /\ stream = [tokens |-> <<>>, shape |-> "idle", meaning |-> <<>>]
  /\ next = 1 /\ open = <<>> /\ items = <<>> /\ imports = <<>> /\ temporaries = 0 /\ parsing = "idle"
NamesIdle ==
  /\ program = <<>> /\ unitItems = <<>> /\ inactive = NothingInactive /\ tables = [kind \in Kinds |-> <<>>]
  /\ ranges = <<>> /\ main = NoMain /\ nameStage = [phase |-> "idle", at |-> 1, code |-> "none"]
ResolutionIdle == importing = <<>> /\ answered = "pending"

FrontEndInit ==
  /\ component \in Components
  /\ IF component = "text" THEN TextInit ELSE TextIdle
  /\ IF component = "grammar" THEN GrammarInit ELSE GrammarIdle
  /\ IF component = "names" THEN NamesInit ELSE NamesIdle
  /\ IF component = "resolution" THEN ResolutionInit ELSE ResolutionIdle

TextAlone       == component = "text" /\ UNCHANGED <<component, grammarVars, nameVars, resolutionVars>>
GrammarAlone    == component = "grammar" /\ UNCHANGED <<component, textVars, nameVars, resolutionVars>>
NamesAlone      == component = "names" /\ UNCHANGED <<component, textVars, grammarVars, resolutionVars>>
ResolutionAlone == component = "resolution" /\ UNCHANGED <<component, textVars, grammarVars, nameVars>>

\* The actions of TextNext, GrammarNext, NamesNext and the one of ImportResolution.
FrontEndNext ==
  \/ TextAlone /\ LexEnd
  \/ TextAlone /\ LexText
  \/ TextAlone /\ LexCharacter
  \/ TextAlone /\ LexNumber
  \/ TextAlone /\ LexUnderscore
  \/ TextAlone /\ LexName
  \/ TextAlone /\ LexOperator
  \/ GrammarAlone /\ ParseReturn
  \/ GrammarAlone /\ ParseVariable
  \/ GrammarAlone /\ ParseCallStatement
  \/ GrammarAlone /\ ParseAssignment
  \/ GrammarAlone /\ BeginWhile
  \/ GrammarAlone /\ BeginUnsafe
  \/ GrammarAlone /\ BeginIf
  \/ GrammarAlone /\ BeginMatch
  \/ GrammarAlone /\ OtherStatement
  \/ GrammarAlone /\ CloseLoop
  \/ GrammarAlone /\ CloseUnsafe
  \/ GrammarAlone /\ CloseElse
  \/ GrammarAlone /\ CloseThen
  \/ GrammarAlone /\ CloseArm
  \/ GrammarAlone /\ ParseImport
  \/ GrammarAlone /\ ParseTypeItem
  \/ GrammarAlone /\ ParseExternalFunction
  \/ GrammarAlone /\ BeginFunction
  \/ GrammarAlone /\ CloseFunction
  \/ GrammarAlone /\ BeginCondition
  \/ GrammarAlone /\ CloseContent
  \/ GrammarAlone /\ EndModule
  \/ GrammarAlone /\ OtherItem
  \/ NamesAlone /\ ParseDeclaration
  \/ NamesAlone /\ RefuseMixedAlias
  \/ NamesAlone /\ ParseBuiltinAlias
  \/ NamesAlone /\ ParsePublicAlias
  \/ NamesAlone /\ ParseChildAlias
  \/ NamesAlone /\ EndUnit
  \/ NamesAlone /\ CollectItem
  \/ NamesAlone /\ CollectUnit
  \/ NamesAlone /\ FindMain
  \/ ResolutionAlone /\ ResolveImport

FrontEndSpec == FrontEndInit /\ [][FrontEndNext]_frontEndVars
=============================================================================
