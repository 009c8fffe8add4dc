------------------------------ MODULE SourceText ------------------------------
(* The lexer of the seed compiler: a cursor over the bytes of a source, one      *)
(* action per kind of token that Lexer_Next returns. Bytes are numbers, offsets  *)
(* count from 0 as in the code.                                                  *)
EXTENDS Integers, Sequences, FiniteSets

CONSTANTS Sources,       \* sequences of bytes
          KeywordKinds,  \* [scalars, kind]: the keywords by their spelling
          WordBits,      \* bits of the widest integer (64)
          SpellingLimit, \* bytes an integer literal may have (256)
          NestingLimit   \* depth of nested guillemets (256)

Bytes == 0..255

ASSUME TextAssumption ==
  Sources \subseteq Seq(Bytes) /\ WordBits \in Nat /\ SpellingLimit \in Nat /\ NestingLimit \in Nat \ {0}

VARIABLES source, cursor, tokens, lexing

textVars == <<source, cursor, tokens, lexing>>

Newline    == 10
Blank      == {32, 9, 13, 10}
Quote      == 34
Apostrophe == 39
Backslash  == 92
Underscore == 95
Dot        == 46
Slash      == 47
OpenGuillemet  == <<194, 171>>
CloseGuillemet == <<194, 187>>

Size            == Len(source)
Peek(o)         == IF o < Size THEN source[o + 1] ELSE 0
MatchesAt(o, s) == o + Len(s) <= Size /\ SubSeq(source, o + 1, o + Len(s)) = s
Slice(from, to) == SubSeq(source, from + 1, to)
\* The first offset from o on where a run of certain bytes ends.
RunEnd(o, S) == CHOOSE p \in o..Size : /\ p = Size \/ source[p + 1] \notin S
                                       /\ \A q \in o..p - 1 : source[q + 1] \in S

IsDecimal(b) == b \in 48..57
IsHex(b)     == IsDecimal(b) \/ b \in 97..102 \/ b \in 65..70
HexValue(b)  == IF IsDecimal(b) THEN b - 48 ELSE IF b >= 97 THEN b - 87 ELSE b - 55

-----------------------------------------------------------------------------
(* UTF-8 and identifiers.                                                      *)

IsContinuation(b) == b \in 128..191
MaxScalar         == 1114111
IsScalar(c)       == c \in 0..MaxScalar /\ c \notin 55296..57343

NotDecoded == [code |-> 0, width |-> 0]
WidthOf(first) == CASE first < 128 -> 1 [] first \in 194..223 -> 2 [] first \in 224..239 -> 3
                    [] first \in 240..244 -> 4 [] OTHER -> 0
CodeAt(o, width) ==
  LET code[n \in 1..width] == IF n = 1 THEN IF width = 1 THEN Peek(o) ELSE Peek(o) % 2 ^ (7 - width)
                              ELSE 64 * code[n - 1] + (Peek(o + n - 1) % 64)
  IN  code[width]
DecodeAt(o) ==
  LET width == WidthOf(Peek(o))
      least == <<0, 128, 2048, 65536>>
  IN  IF o >= Size \/ width = 0 \/ o + width > Size THEN NotDecoded
      ELSE IF \/ \E n \in 1..width - 1 : ~ IsContinuation(Peek(o + n))
              \/ CodeAt(o, width) < least[width] \/ ~ IsScalar(CodeAt(o, width)) THEN NotDecoded
      ELSE [code |-> CodeAt(o, width), width |-> width]
Encoded(c) ==
  IF c < 128 THEN <<c>>
  ELSE IF c < 2048 THEN <<192 + c \div 64, 128 + (c % 64)>>
  ELSE IF c < 65536 THEN <<224 + c \div 4096, 128 + ((c \div 64) % 64), 128 + (c % 64)>>
  ELSE <<240 + c \div 262144, 128 + ((c \div 4096) % 64), 128 + ((c \div 64) % 64), 128 + (c % 64)>>

IsIgnored(c) == c = 1600
IsIdStart(c) == \/ c \in 65..90 \/ c \in 97..122 \/ c \in 1569..1594 \/ c \in 1601..1610 \/ c \in 1646..1647
                \/ c \in 1649..1747 \/ c \in 1765..1766 \/ c \in 1774..1775 \/ c \in 1786..1788
                \/ c \in 1872..1919 \/ c \in 2208..2249 \/ c \in {95, 1749, 1791} \/ IsIgnored(c)
IsIdRest(c)  == \/ IsIdStart(c) \/ c \in 48..57 \/ c \in 1611..1631 \/ c \in 1632..1641 \/ c \in 1750..1756
                \/ c \in 1759..1764 \/ c \in 1767..1768 \/ c \in 1770..1773 \/ c \in 1776..1785
                \/ c \in 2259..2303 \/ c = 1648

\* The identity of a name: three spellings of alef are one, the stretch is dropped.
Folded(c) == IF c \in {1570, 1571, 1573} THEN 1575 ELSE c
Identity(from, to) ==
  LET rest[o \in from..to] ==
        LET d == DecodeAt(o)
        IN  IF o = to THEN <<>>
            ELSE (IF IsIgnored(d.code) THEN <<>> ELSE <<Folded(d.code)>>) \o rest[o + d.width]
  IN  rest[from]

\* Where a name ends, and whether an invalid byte ends it.
NameEnd[o \in 0..Size] ==
  LET d == DecodeAt(o)
  IN  IF o = Size THEN [to |-> o, valid |-> TRUE]
      ELSE IF d.width = 0 THEN [to |-> o, valid |-> FALSE]
      ELSE IF ~ IsIdRest(d.code) THEN [to |-> o, valid |-> TRUE]
      ELSE NameEnd[o + d.width]

-----------------------------------------------------------------------------
(* The cursor.                                                                 *)

\* Mutant of Column: bytes are counted, not characters.
ColumnOfBytes(column, byte) == IF byte = Newline THEN 0 ELSE column + 1
Column(column, byte) == IF byte = Newline THEN 0 ELSE IF IsContinuation(byte) THEN column ELSE column + 1
Past(c, byte) ==
  [offset |-> c.offset + 1, line |-> c.line + (IF byte = Newline THEN 1 ELSE 0), column |-> Column(c.column, byte)]
Advanced(c, to) ==
  LET at[n \in 0..to - c.offset] ==
        IF n = 0 THEN c ELSE Past(at[n - 1], source[c.offset + n])
  IN  at[to - c.offset]

\* Blanks and comments before a token.
TokenStart[o \in 0..Size] ==
  LET p == RunEnd(o, Blank)
  IN  IF MatchesAt(p, <<Slash, Slash>>) THEN TokenStart[RunEnd(p, Bytes \ {Newline})] ELSE p

TextInit ==
  /\ source \in Sources
  /\ cursor = [offset |-> 0, line |-> 1, column |-> 0]
  /\ tokens = <<>>
  /\ lexing = "running"

Start == TokenStart[cursor.offset]
Begins(P) == lexing = "running" /\ P

SetToken(kind, to, value, text) ==
  LET from == Advanced(cursor, Start)
  IN  /\ tokens' = Append(tokens, [kind |-> kind, from |-> from, to |-> Advanced(from, to), value |-> value, text |-> text])
      /\ cursor' = Advanced(from, to)
      /\ UNCHANGED <<source, lexing>>
FailLexing(code) == lexing' = code /\ UNCHANGED <<source, cursor, tokens>>

LexEnd ==
  /\ Begins(Start = Size)
  /\ lexing' = "ended"
  /\ UNCHANGED <<source, cursor, tokens>>

-----------------------------------------------------------------------------
(* Texts and characters.                                                       *)

Scan(to, error, text)  == [to |-> to, error |-> error, text |-> text]
Prefaced(text, scan)   == Scan(scan.to, scan.error, text \o scan.text)

\* The rest of a text in guillemets, from an offset and the depth there.
ScanGuillemets[o \in 0..Size] ==
  [depth \in 1..NestingLimit |->
    LET d == DecodeAt(o)
    IN  IF o = Size THEN Scan(o, "E0001", <<>>)
        ELSE IF MatchesAt(o, OpenGuillemet) THEN
               IF depth = NestingLimit THEN Scan(o, "E0001", <<>>)
               ELSE Prefaced(OpenGuillemet, ScanGuillemets[o + 2][depth + 1])
        ELSE IF MatchesAt(o, CloseGuillemet) THEN
               IF depth = 1 THEN Scan(o + 2, "none", <<>>)
               ELSE Prefaced(CloseGuillemet, ScanGuillemets[o + 2][depth - 1])
        ELSE IF d.width = 0 THEN Scan(o, "E1001", <<>>)
        ELSE Prefaced(Slice(o, o + d.width), ScanGuillemets[o + d.width][depth])]

\* A fixed number of hexadecimal digits; none when one of them is missing.
HexNumber(o, digits) ==
  LET value[n \in 0..digits] == IF n = 0 THEN 0 ELSE 16 * value[n - 1] + HexValue(Peek(o + n - 1))
  IN  value[digits]
HexEscape(o, digits) ==
  IF o + digits > Size \/ \E i \in 0..digits - 1 : ~ IsHex(Peek(o + i)) THEN -1 ELSE HexNumber(o, digits)
HexDigits(b) == IF b = 120 THEN 2 ELSE IF b = 117 THEN 4 ELSE IF b = 85 THEN 8 ELSE 0
Escapes(delimiter) ==
  [b \in {110, 114, 116, Backslash, delimiter} |->
     IF b = 110 THEN 10 ELSE IF b = 114 THEN 13 ELSE IF b = 116 THEN 9 ELSE b]
\* The scalar after a backslash at o, and where it ends.
EscapeAt(o, delimiter) ==
  LET b == Peek(o)
      code == HexEscape(o + 1, HexDigits(b))
  IN  IF o >= Size THEN Scan(o, "E0001", 0)
      ELSE IF b \in DOMAIN Escapes(delimiter) THEN Scan(o + 1, "none", Escapes(delimiter)[b])
      ELSE IF HexDigits(b) = 0 \/ ~ IsScalar(code) THEN Scan(o, "E0001", 0)
      ELSE Scan(o + 1 + HexDigits(b), "none", code)

ScanQuotes[o \in 0..Size] ==
  LET b == Peek(o)
      d == DecodeAt(o)
      e == EscapeAt(o + 1, Quote)
  IN  IF o = Size \/ b = Newline THEN Scan(o, "E0001", <<>>)
      ELSE IF b = Quote THEN Scan(o + 1, "none", <<>>)
      ELSE IF b = Backslash THEN IF e.error # "none" THEN Scan(o, e.error, <<>>)
                            ELSE Prefaced(Encoded(e.text), ScanQuotes[e.to])
      ELSE IF d.width = 0 THEN Scan(o, "E1001", <<>>)
      ELSE Prefaced(Slice(o, o + d.width), ScanQuotes[o + d.width])

LexText ==
  /\ Begins(Peek(Start) = Quote \/ MatchesAt(Start, OpenGuillemet))
  /\ LET scan == IF Peek(Start) = Quote THEN ScanQuotes[Start + 1] ELSE ScanGuillemets[Start + 2][1]
     IN  IF scan.error = "none" THEN SetToken("text", scan.to, 0, scan.text) ELSE FailLexing(scan.error)

LexCharacter ==
  /\ Begins(Peek(Start) = Apostrophe)
  /\ LET d == DecodeAt(Start + 1)
         scan == IF Start + 1 >= Size THEN Scan(Start + 1, "E0001", 0)
                 ELSE IF Peek(Start + 1) = Backslash THEN EscapeAt(Start + 2, Apostrophe)
                 ELSE IF d.width = 0 THEN Scan(Start + 1, "E1001", 0)
                 ELSE Scan(Start + 1 + d.width, "none", d.code)
     IN  IF scan.error # "none" THEN FailLexing(scan.error)
         ELSE IF Peek(scan.to) # Apostrophe THEN FailLexing("E0001")
         ELSE SetToken("character", scan.to + 1, scan.text, <<>>)

-----------------------------------------------------------------------------
(* Numbers.                                                                    *)

IsSeparator(b) == b = Underscore
Prefixed(from) == IF MatchesAt(from, <<48, 98>>) THEN 2 ELSE IF MatchesAt(from, <<48, 120>>) THEN 16 ELSE 10
IsDigitOf(base, b) == CASE base = 2 -> b \in {48, 49} [] base = 16 -> IsHex(b) [] OTHER -> IsDecimal(b)

DecimalEnd(o) == RunEnd(o, {b \in Bytes : IsDecimal(b) \/ IsSeparator(b)})
\* A fraction and an exponent belong to the number when a digit follows them.
FractionEnd(o) == IF Peek(o) = Dot /\ IsDecimal(Peek(o + 1)) THEN DecimalEnd(o + 1) ELSE o
ExponentEnd(o) ==
  LET digits == IF Peek(o + 1) \in {43, 45} THEN o + 2 ELSE o + 1
  IN  IF Peek(o) \in {101, 69} /\ IsDecimal(Peek(digits)) THEN DecimalEnd(digits) ELSE o
NumberEnd(from) ==
  IF Prefixed(from) # 10 THEN RunEnd(from + 2, {b \in Bytes : IsDigitOf(Prefixed(from), b) \/ IsSeparator(b)})
  ELSE ExponentEnd(FractionEnd(DecimalEnd(from)))
IsFloat(from) == Prefixed(from) = 10 /\ NumberEnd(from) # DecimalEnd(from)

\* Every separator stands between two digits.
SeparatorsValid(spelling, base) ==
  \A i \in 1..Len(spelling) :
    IsSeparator(spelling[i]) =>
      i \in 2..Len(spelling) - 1 /\ IsDigitOf(base, spelling[i - 1]) /\ IsDigitOf(base, spelling[i + 1])

NoValue == -1
\* Mutant of Accumulated: the digit to come is left out of the overflow test.
AccumulatedLoosely(digits, base, limit) ==
  LET value[n \in 0..Len(digits)] ==
        IF n = 0 THEN 0
        ELSE LET d == HexValue(digits[n])
             IN  IF value[n - 1] = NoValue \/ d >= base \/ value[n - 1] > limit \div base THEN NoValue
                 ELSE value[n - 1] * base + d
  IN  value[Len(digits)]
\* The value of an unsigned word, none when a digit would carry out of it.
Accumulated(digits, base, limit) ==
  LET value[n \in 0..Len(digits)] ==
        IF n = 0 THEN 0
        ELSE LET d == HexValue(digits[n])
             IN  IF value[n - 1] = NoValue \/ d >= base \/ value[n - 1] > (limit - d) \div base THEN NoValue
                 ELSE value[n - 1] * base + d
  IN  value[Len(digits)]
\* Lexer_Parse_Integer_Value; a prefix alone has no value.
IntegerValue(spelling, base) ==
  LET bare   == SelectSeq(spelling, LAMBDA b : ~ IsSeparator(b))
      digits == IF base = 10 THEN bare ELSE SubSeq(bare, 3, Len(bare))
  IN  IF Len(spelling) >= SpellingLimit \/ digits = <<>> THEN NoValue
      ELSE Accumulated(digits, base, 2 ^ WordBits - 1)

LexNumber ==
  /\ Begins(IsDecimal(Peek(Start)))
  /\ LET base == Prefixed(Start)
         spelling == Slice(Start, NumberEnd(Start))
     IN  IF ~ SeparatorsValid(spelling, base) THEN FailLexing("E0001")
         ELSE IF IsFloat(Start) THEN SetToken("float", NumberEnd(Start), 0, <<>>)
         ELSE IF IntegerValue(spelling, base) = NoValue THEN FailLexing("E0001")
         ELSE SetToken("integer", NumberEnd(Start), IntegerValue(spelling, base), <<>>)

\* An underscore with a decimal index, a name that begins with one, or the blank name.
IsIndex == Peek(Start) = Underscore /\ IsDecimal(Peek(Start + 1))
IsUnderscore ==
  Peek(Start) = Underscore /\ ~ IsIndex /\ (DecodeAt(Start + 1).width = 0 \/ ~ IsIdRest(DecodeAt(Start + 1).code))
LexUnderscore ==
  /\ Begins(IsIndex \/ IsUnderscore)
  /\ LET to == RunEnd(Start + 1, {b \in Bytes : IsDecimal(b)})
         value == Accumulated(Slice(Start + 1, to), 10, 2 ^ (WordBits - 1) - 1)
     IN  IF IsUnderscore THEN SetToken("underscore", Start + 1, 0, <<>>)
         ELSE IF value = NoValue THEN FailLexing("E0001")
         ELSE SetToken("index", to, value, <<>>)

-----------------------------------------------------------------------------
(* Names, keywords and operators.                                              *)

IsName == ~ IsIndex /\ ~ IsUnderscore /\ DecodeAt(Start).width # 0 /\ IsIdStart(DecodeAt(Start).code)
LexName ==
  /\ Begins(IsName)
  /\ LET end == NameEnd[Start]
         identity == Identity(Start, end.to)
         keywords == {k \in KeywordKinds : k.scalars = identity}
     IN  IF ~ end.valid THEN FailLexing("E1001")
         ELSE IF identity = <<>> THEN FailLexing("E0001")
         ELSE IF keywords # {} THEN SetToken((CHOOSE k \in keywords : TRUE).kind, end.to, 0, <<>>)
         ELSE SetToken("identifier", end.to, 0, identity)

\* The spellings in the order in which they are tried.
Operators == <<<<62, 62, 62>>, <<60, 61>>, <<61, 61>>, <<33, 61>>, <<62, 61>>, <<38, 38>>, <<124, 124>>,
               <<60, 60>>, <<62, 62>>, <<58, 61>>, <<45, 62>>>> \o
             [i \in 1..24 |-> <<(<<64, 43, 45, 42, 47, 37, 61, 60, 62, 33, 38, 124, 126, 123, 125, 94,
                                   46, 44, 59, 58, 40, 41, 91, 93>>)[i]>>]
OperatorsAt(o) == {i \in 1..Len(Operators) : MatchesAt(o, Operators[i])}
IsOther == ~ (\/ Start = Size \/ Peek(Start) \in {Quote, Apostrophe} \/ MatchesAt(Start, OpenGuillemet)
              \/ IsDecimal(Peek(Start)) \/ IsIndex \/ IsUnderscore \/ IsName)
LexOperator ==
  /\ Begins(IsOther)
  /\ LET found == OperatorsAt(Start)
         first == CHOOSE i \in found : \A j \in found : i <= j
     IN  IF found # {} THEN SetToken("operator", Start + Len(Operators[first]), 0, Operators[first])
         ELSE IF Peek(Start) >= 128 /\ DecodeAt(Start).width = 0 THEN FailLexing("E1001")
         ELSE FailLexing("E0001")

TextNext == LexEnd \/ LexText \/ LexCharacter \/ LexNumber \/ LexUnderscore \/ LexName \/ LexOperator

TextSpec == TextInit /\ [][TextNext]_textVars

-----------------------------------------------------------------------------
(* What the tokens mean.                                                       *)

IsGap(from, to) ==
  \A o \in from..to - 1 :
    \/ source[o + 1] \in Blank
    \/ \E p \in from..o : MatchesAt(p, <<Slash, Slash>>) /\ \A q \in p..o : source[q + 1] # Newline
\* Lines and characters counted from the beginning of the text.
IsPosition(c) ==
  LET lines == {o \in 0..c.offset - 1 : source[o + 1] = Newline}
      heads == {o \in 0..c.offset - 1 : (\A l \in lines : o > l) /\ source[o + 1] \notin 128..191}
  IN  c.line = 1 + Cardinality(lines) /\ c.column = Cardinality(heads)

\* The tokens stand in order, what lies between them (and after the last one, at the
\* end) is blanks and comments, and every position an editor or a diagnostic shows is
\* the line and the character of its offset, through escapes, wide characters, raw
\* line ends in guillemets and exponents that are given back.
TokensCoverText ==
  LET ends(i) == IF i = 0 THEN 0 ELSE tokens[i].to.offset
  IN  /\ \A i \in 1..Len(tokens) :
           /\ IsGap(ends(i - 1), tokens[i].from.offset)
           /\ tokens[i].from.offset < tokens[i].to.offset
           /\ IsPosition(tokens[i].from) /\ IsPosition(tokens[i].to)
      /\ lexing = "ended" => IsGap(ends(Len(tokens)), Size)

\* The number a digit string spells, most significant digit first.
Spelled(spelling, base) ==
  LET digits == SelectSeq(spelling, LAMBDA b : ~ IsSeparator(b))
      from   == IF base = 10 THEN 1 ELSE 3
      sum[i \in from..Len(digits) + 1] ==
        IF i = Len(digits) + 1 THEN 0 ELSE HexValue(digits[i]) * base ^ (Len(digits) - i) + sum[i + 1]
  IN  sum[from]
\* Guillemets nest: no prefix closes more than it opens, the whole closes all.
Depth(o, from) == Cardinality({p \in from..o - 2 : MatchesAt(p, OpenGuillemet)})
                  - Cardinality({p \in from..o - 2 : MatchesAt(p, CloseGuillemet)})
\* The backslashes that end at an offset.
Escaping(o) == Cardinality({p \in 0..o - 1 : \A q \in p..o - 1 : source[q + 1] = Backslash})

IsExact(token) ==
  LET from == token.from.offset  to == token.to.offset
  IN  IF token.kind = "integer" THEN token.value = Spelled(Slice(from, to), Prefixed(from)) /\ token.value < 2 ^ WordBits
      ELSE IF token.kind = "index" THEN token.value = Spelled(Slice(from + 1, to), 10) /\ token.value < 2 ^ (WordBits - 1)
      ELSE IF token.kind = "operator" THEN \A i \in OperatorsAt(from) : Len(Operators[i]) <= to - from
      ELSE IF token.kind = "identifier" THEN to = Size \/ DecodeAt(to).width = 0 \/ ~ IsIdRest(DecodeAt(to).code)
      ELSE IF token.kind = "text" /\ Peek(from) # Quote THEN
             /\ token.text = Slice(from + 2, to - 2)
             /\ Depth(to, from) = 0 /\ \A o \in from + 2..to - 1 : Depth(o, from) > 0
      ELSE IF token.kind = "text" THEN
             /\ \A o \in from + 1..to - 1 : source[o + 1] # Newline
             /\ \A o \in from + 1..to - 1 : Peek(o) = Quote => (o = to - 1) = (Escaping(o) % 2 = 0)
      ELSE TRUE

\* Every token is the longest of its kind and carries what it spells: integers and
\* indices their number, never one that wrapped around the word; operators are not
\* cut short by a prefix; a text ends at the first delimiter that is neither escaped
\* nor nested.
TokensExact == \A i \in 1..Len(tokens) : IsExact(tokens[i])
=============================================================================
