----------------------------- MODULE ModuleNames -----------------------------
(* Names of the seed compiler: the items a module's text leaves behind (target *)
(* conditions, duplicates, aliases), the tables that the collection pass fills *)
(* from all units, and the lookup of a name from a unit. A name stands for its *)
(* identity class (normalised spelling).                                       *)
EXTENDS Naturals, Sequences

CONSTANTS Programs,   \* sequences of modules: [source, imports]
          Arms,       \* the arms of target conditions that are not selected
          Builtins,   \* the names of builtins that only an alias reaches
          LookedUp    \* the names looked up

VARIABLES program,   \* the text of every unit, in load order
          unitItems, \* per unit, the items parsed so far
          inactive,  \* per arm that is not selected, the items parsed in it
          tables,    \* per kind, the declarations of all units collected so far
          ranges,    \* per unit collected, its part of each table
          main, nameStage

nameVars == <<program, unitItems, inactive, tables, ranges, main, nameStage>>

Kinds       == {"type", "function", "global"}
NoMain      == 0
NoName      == ""
Identifiers == STRING \ {NoName}
AnyName     == Identifiers \cup {NoName}
Selected    == "selected"   \* where an item stands that is in none of the Arms
Places      == Arms \cup {Selected}

\* What the parser reads of an item, and the arm it stands in; of an alias with a
\* parent on one side only, that it is one. Templates are not among the items.
Texts ==
  [kind : Kinds, name : Identifiers, public : BOOLEAN, arm : Places, children : SUBSET Identifiers] \cup
  [kind : {"alias"}, name : Identifiers, target : Identifiers, public : BOOLEAN, arm : Places] \cup
  [kind : {"child"}, parent : Identifiers, name : Identifiers, targetParent : Identifiers,
   target : Identifiers, public : BOOLEAN, arm : Places] \cup
  [kind : {"mixed"}, name : Identifiers, arm : Places]

\* An import is one of the program's units: the loading pass has found its file.
ASSUME ProgramsAssumption ==
  /\ \A p \in Programs :
      /\ p \in Seq([source : Seq(Texts), imports : Seq(Nat)]) /\ p # <<>>
      /\ \A u \in 1..Len(p) : \A n \in 1..Len(p[u].imports) : p[u].imports[n] \in 1..Len(p)
  /\ Builtins \subseteq Identifiers
  /\ LookedUp \subseteq AnyName
  /\ Selected \notin Arms

Parsed    == Len(unitItems)                     \* units begun
Unit      == program[Parsed]
Collected == Len(ranges)                    \* units collected
IsAlias(i) == i.kind = "alias"
NothingInactive == [arm \in Arms |-> <<>>]

NamesInit ==
  /\ program \in Programs
  /\ unitItems = <<<<>>>>
  /\ inactive = NothingInactive
  /\ tables = [kind \in Kinds |-> <<>>] /\ ranges = <<>>
  /\ main = NoMain
  /\ nameStage = [phase |-> "parse", at |-> 1, code |-> "none"]

Stage(phase, at) == [phase |-> phase, at |-> at, code |-> nameStage.code]

RefuseItem(code) ==
  /\ nameStage' = [phase |-> "refused", at |-> nameStage.at, code |-> code]
  /\ UNCHANGED <<program, unitItems, inactive, tables, ranges, main>>

-----------------------------------------------------------------------------
(* The parser: one item list per module, and one per arm that is not selected, *)
(* empty at first whatever surrounds the arm.                                  *)

Decl       == Unit.source[nameStage.at]
IsSelected == Decl.arm = Selected
Known      == IF IsSelected THEN unitItems[Parsed] ELSE inactive[Decl.arm]

First(S) == CHOOSE i \in S : \A j \in S : i <= j

\* The name that n steps lead to.
Followed(step, name, n) ==
  LET at[k \in 0..n] == IF k = 0 THEN name ELSE step[at[k - 1]] IN at[n]

\* The first item that binds a name (Parser_Module_Find_Binding); constructor
\* aliases bind none.
Binds(list, name)   == {i \in 1..Len(list) : list[i].binds = name}
Binding(list, name) == list[First(Binds(list, name))]
Bound(list, name)   == Binds(list, name) # {}

\* Parser_Resolve_Root_Binding: aliases are followed to the item they stand for.
RootStep(list) ==
  [name \in AnyName |-> IF Bound(list, name) /\ IsAlias(Binding(list, name))
                       THEN Binding(list, name).target ELSE name]
RootName(list, name) == Followed(RootStep(list), name, Len(list))
HasRoot(list, name) ==
  Bound(list, RootName(list, name)) /\ ~ IsAlias(Binding(list, RootName(list, name)))
Root(list, name) == Binding(list, RootName(list, name))

\* Parser_Resolve_Enum_Child: constructor aliases of one type, followed in turn; an
\* alias that leads to another type ends the search.
ChildAliases(list, type, name) ==
  {i \in 1..Len(list) : /\ list[i].kind = "child" /\ list[i].name = name
                        /\ HasRoot(list, list[i].parent) /\ Root(list, list[i].parent) = type}
ChildStep(list, type) ==
  [name \in AnyName |->
    LET found == ChildAliases(list, type, name)
        alias == list[First(found)]
    IN  IF name \in type.children THEN name
        ELSE IF found # {} /\ HasRoot(list, alias.targetParent) /\ Root(list, alias.targetParent) = type
             THEN alias.target ELSE NoName]
HasChild(list, type, name) ==
  type.kind = "type" /\ Followed(ChildStep(list, type), name, Len(list)) \in type.children

\* Parser_Push_Module_Item: a name is bound once.
PushItem(item) ==
  IF item.binds # NoName /\ Bound(Known, item.binds) THEN RefuseItem("E0205")
  ELSE /\ IF IsSelected
          THEN unitItems' = [unitItems EXCEPT ![Parsed] = Append(@, item)] /\ UNCHANGED inactive
          ELSE inactive' = [inactive EXCEPT ![Decl.arm] = Append(@, item)] /\ UNCHANGED unitItems
       /\ nameStage' = Stage(nameStage.phase, nameStage.at + 1)
       /\ UNCHANGED <<program, tables, ranges, main>>

AtDecl(kind) ==
  /\ nameStage.phase = "parse"
  /\ nameStage.at <= Len(Unit.source)
  /\ Decl.kind = kind

ParseDeclaration ==
  /\ \E kind \in Kinds : AtDecl(kind)
  /\ PushItem([kind |-> Decl.kind, binds |-> Decl.name, public |-> Decl.public, children |-> Decl.children])

\* A parent stands on both sides of an alias or on neither.
RefuseMixedAlias == AtDecl("mixed") /\ RefuseItem("E0304")

\* A private alias gives a name to a builtin, and to nothing else.
ParseBuiltinAlias ==
  /\ AtDecl("alias") /\ ~ Decl.public
  /\ IF Decl.name = Decl.target THEN RefuseItem("E0304")
     ELSE IF Decl.target \notin Builtins THEN RefuseItem("E0300")
     ELSE PushItem([kind |-> "alias", binds |-> Decl.name, public |-> FALSE, target |-> Decl.target])

\* A public alias gives a second name to a public item that is already bound.
ParsePublicAlias ==
  /\ AtDecl("alias") /\ Decl.public
  /\ IF Decl.name = Decl.target THEN RefuseItem("E0205")
     ELSE IF ~ Bound(Known, Decl.target) THEN RefuseItem("E0300")
     ELSE IF ~ Binding(Known, Decl.target).public THEN RefuseItem("E0309")
     ELSE PushItem([kind |-> "alias", binds |-> Decl.name, public |-> TRUE, target |-> Decl.target])

\* parent.name = targetParent.target: a second name for a constructor of one type,
\* which is public.
ParseChildAlias ==
  /\ AtDecl("child")
  /\ LET parent == Root(Known, Decl.parent)
         other  == Root(Known, Decl.targetParent)
     IN  IF ~ Decl.public THEN RefuseItem("E0304")
         ELSE IF ~ HasRoot(Known, Decl.parent) \/ ~ HasRoot(Known, Decl.targetParent) THEN RefuseItem("E0300")
         ELSE IF ~ parent.public \/ ~ other.public THEN RefuseItem("E0309")
         ELSE IF parent # other THEN RefuseItem("E0304")
         ELSE IF Decl.name = Decl.target THEN RefuseItem("E0205")
         ELSE IF HasChild(Known, parent, Decl.name) THEN RefuseItem("E0205")
         ELSE IF ~ HasChild(Known, other, Decl.target) THEN RefuseItem("E0300")
         ELSE PushItem([kind |-> "child", binds |-> NoName, public |-> TRUE, name |-> Decl.name,
                             parent |-> Decl.parent, targetParent |-> Decl.targetParent,
                             target |-> Decl.target])

\* The end of a module; what its unselected arms held has been dropped with them.
EndUnit ==
  /\ nameStage.phase = "parse"
  /\ nameStage.at > Len(Unit.source)
  /\ inactive' = NothingInactive
  /\ IF Parsed < Len(program)
     THEN unitItems' = Append(unitItems, <<>>) /\ nameStage' = Stage("parse", 1)
     ELSE UNCHANGED unitItems /\ nameStage' = Stage("collect", 1)
  /\ UNCHANGED <<program, tables, ranges, main>>

-----------------------------------------------------------------------------
(* The collection pass: units in load order, items in text order.                  *)

Entry(u, item) == [name |-> item.binds, unit |-> u, public |-> item.public, children |-> item.children]

UnitNameExists(u, name) ==
  \E kind \in Kinds : \E i \in 1..Len(tables[kind]) :
    tables[kind][i].unit = u /\ tables[kind][i].name = name

\* Mutant of RangeBegin: the range of a unit opens at the start of the table.
RangeBeginAtOne(kind) == 0
\* Units are collected one after the other: a range opens where the last one ended.
RangeBegin(kind)      == IF Collected = 0 THEN 0 ELSE ranges[Collected][kind].end

CollectItem ==
  /\ nameStage.phase = "collect"
  /\ Collected < Len(program)
  /\ nameStage.at <= Len(unitItems[Collected + 1])
  /\ LET u    == Collected + 1
         item == unitItems[u][nameStage.at]
     IN  IF item.kind \notin Kinds
         THEN /\ nameStage' = Stage(nameStage.phase, nameStage.at + 1)
              /\ UNCHANGED <<program, unitItems, inactive, tables, ranges, main>>
         ELSE IF UnitNameExists(u, item.binds)
         THEN RefuseItem(IF item.kind = "function" THEN "E0200" ELSE "E0205")
         ELSE /\ nameStage' = Stage(nameStage.phase, nameStage.at + 1)
              /\ tables' = [tables EXCEPT ![item.kind] = Append(@, Entry(u, item))]
              /\ UNCHANGED <<program, unitItems, inactive, ranges, main>>

CollectUnit ==
  /\ nameStage.phase = "collect"
  /\ Collected < Len(program)
  /\ nameStage.at > Len(unitItems[Collected + 1])
  /\ ranges' = Append(ranges, [kind \in Kinds |-> [begin |-> RangeBegin(kind), end |-> Len(tables[kind])]])
  /\ nameStage' = Stage("collect", 1)
  /\ UNCHANGED <<program, unitItems, inactive, tables, main>>

\* The entry point is the first function named main of the root unit (the code also
\* passes over templates, which are not among the items).
Mains == {i \in 1..Len(tables["function"]) :
            tables["function"][i].unit = 1 /\ tables["function"][i].name = "main"}
FindMain ==
  /\ nameStage.phase = "collect"
  /\ Collected = Len(program)
  /\ IF Mains = {} THEN RefuseItem("E0203")
     ELSE /\ main' = First(Mains)
          /\ nameStage' = Stage("collected", nameStage.at)
          /\ UNCHANGED <<program, unitItems, inactive, tables, ranges>>

NamesNext ==
  \/ ParseDeclaration \/ RefuseMixedAlias \/ ParseBuiltinAlias \/ ParsePublicAlias \/ ParseChildAlias \/ EndUnit
  \/ CollectItem \/ CollectUnit \/ FindMain

NamesSpec == NamesInit /\ [][NamesNext]_nameVars

-----------------------------------------------------------------------------
(* The lookup, once the tables are complete.                                   *)

\* Name_Resolve_Module_Alias_Name: one look more than the module has items; aliases
\* that still lead on then lead nowhere.
AliasesOf(u, name) ==
  {i \in 1..Len(unitItems[u]) : IsAlias(unitItems[u][i]) /\ unitItems[u][i].binds = name}
AliasStep(u) ==
  [name \in AnyName |-> IF AliasesOf(u, name) = {} THEN name ELSE unitItems[u][First(AliasesOf(u, name))].target]
AliasedName(u, name) ==
  LET at == Followed(AliasStep(u), name, Len(unitItems[u]))
  IN  IF AliasesOf(u, at) = {} THEN at ELSE NoName

\* Index of the entry in its table, 0 when the unit has none by that name.
FindInUnit(kind, u, name) ==
  LET range == ranges[u][kind]
      found == {i \in range.begin + 1..range.end : tables[kind][i].name = AliasedName(u, name)}
  IN  IF found = {} THEN 0 ELSE First(found)

\* Own declarations hide imports; imports are tried in order, private matches only
\* change the answer when no public one is met, and a second public one ends it.
Missing(private) == [status |-> IF private THEN "private" ELSE "missing", entry |-> 0]
Matched(match, private, ambiguous) == [match |-> match, private |-> private, ambiguous |-> ambiguous]
\* Mutant of Met: the entry met last replaces the one met before.
MetLast(kind, met, i) ==
  IF ~ tables[kind][i].public THEN Matched(met.match, TRUE, FALSE) ELSE Matched(i, met.private, FALSE)
Met(kind, met, i) ==
  IF i = 0 \/ met.ambiguous THEN met
  ELSE IF ~ tables[kind][i].public THEN Matched(met.match, TRUE, FALSE)
  ELSE Matched(i, met.private, met.match \notin {0, i})
FromImports(kind, u, name) ==
  LET imports == program[u].imports
      met[n \in 0..Len(imports)] ==
        IF n = 0 THEN Matched(0, FALSE, FALSE)
        ELSE Met(kind, met[n - 1], FindInUnit(kind, imports[n], name))
      end == met[Len(imports)]
  IN  IF end.ambiguous THEN [status |-> "ambiguous", entry |-> 0]
      ELSE IF end.match # 0 THEN [status |-> "found", entry |-> end.match]
      ELSE Missing(end.private)

ResolveName(kind, u, name) ==
  LET own == FindInUnit(kind, u, name)
  IN  IF own # 0 THEN [status |-> "found", entry |-> own] ELSE FromImports(kind, u, name)

\* Mutant of ChildAliasesOf: the parent is compared as it is spelled.
ChildAliasesSpelled(type, name) ==
  LET list == unitItems[type.unit]
  IN  {i \in 1..Len(list) : list[i].kind = "child" /\ list[i].name = name /\ list[i].parent = type.name}

\* Name_Find_Enum_Constructor: the type's own constructors first, then the aliases
\* of its unit; an alias that leads to another type ends the search.
ChildAliasesOf(type, name) ==
  LET list == unitItems[type.unit]
  IN  {i \in 1..Len(list) : /\ list[i].kind = "child" /\ list[i].name = name
                            /\ AliasedName(type.unit, list[i].parent) = type.name}
ConstructorStep(type) ==
  [name \in AnyName |->
    LET found == ChildAliasesOf(type, name)
        alias == unitItems[type.unit][First(found)]
    IN  IF name \in type.children THEN name
        ELSE IF found # {} /\ AliasedName(type.unit, alias.targetParent) = type.name
             THEN alias.target ELSE NoName]
Constructor(type, name) ==
  LET at == Followed(ConstructorStep(type), name, Len(unitItems[type.unit]))
  IN  IF at \in type.children THEN at ELSE NoName

-----------------------------------------------------------------------------
\* What a unit offers under a name, read from the items: the item declared by that
\* name or by the name an alias of the unit gives it, through any number of aliases,
\* which is what every set that holds the items of that name and those that its
\* aliases name holds.
Led(list, S) == \A i \in S : IsAlias(list[i]) => Binds(list, list[i].target) \subseteq S
Denotes(list, name) ==
  {list[i] : i \in {j \in 1..Len(list) :
    /\ ~ IsAlias(list[j])
    /\ \A S \in SUBSET (1..Len(list)) : Binds(list, name) \subseteq S /\ Led(list, S) => j \in S}}
Offers(kind, u, name) ==
  {<<u, item>> : item \in {i \in Denotes(unitItems[u], name) : i.kind = kind}}
PublicOnes(S) == {o \in S : o[2].public}
Imported(kind, u, name) ==
  UNION {Offers(kind, program[u].imports[n], name) : n \in 1..Len(program[u].imports)}

\* In a collected program a lookup answers what the scope rules say: the unit's own
\* declaration, else the one public declaration of its direct imports; two are
\* ambiguous, only private ones are reported as private (Name_Resolve_Type,
\* _Function and _Global on top of the tables, their ranges and the aliases).
LookupMatchesScope ==
  nameStage.phase = "collected" =>
    \A kind \in Kinds, u \in 1..Len(program), name \in LookedUp :
      LET answer == ResolveName(kind, u, name)
          own    == Offers(kind, u, name)
          public == PublicOnes(Imported(kind, u, name))
          found  == <<tables[kind][answer.entry].unit, tables[kind][answer.entry].name>>
      IN  IF own # {} THEN answer.status = "found" /\ \E o \in own : found = <<u, o[2].binds>>
          ELSE IF public = {} THEN
            answer.status = IF Imported(kind, u, name) = {} THEN "missing" ELSE "private"
          ELSE IF \A o, p \in public : o = p THEN
            answer.status = "found" /\ \E o \in public : found = <<o[1], o[2].binds>>
          ELSE answer.status = "ambiguous"

\* What the parser accepted the lookup finds: every public alias of a collected
\* program leads to a declaration; an alias of a builtin leads to the builtin, or to
\* the declaration that takes the builtin's name, unless an alias of another builtin
\* takes it; and every constructor alias leads, from the type it was written on, to
\* the constructor the parser saw.
AliasesLead ==
  nameStage.phase = "collected" =>
    \A u \in 1..Len(program) : \A i \in 1..Len(unitItems[u]) :
      LET alias == unitItems[u][i]
          declared == \E kind \in Kinds : FindInUnit(kind, u, alias.binds) # 0
          taken    == \E j \in AliasesOf(u, alias.target) : ~ unitItems[u][j].public
      IN  /\ alias.kind = "alias" /\ alias.public => declared
          /\ alias.kind = "alias" /\ ~ alias.public /\ ~ taken =>
               declared \/ AliasedName(u, alias.binds) = alias.target
          /\ alias.kind = "child" =>
               LET at == FindInUnit("type", u, alias.parent)
               IN  /\ at # 0
                   /\ Constructor(tables["type"][at], alias.name) # NoName
                   /\ Constructor(tables["type"][at], alias.name) = Constructor(tables["type"][at], alias.target)
=============================================================================
