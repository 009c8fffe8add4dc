--------------------------- MODULE MCCallArguments ---------------------------
(* Calls of two arguments over two owners, an ordinary value, and a reference *)
(* of each mode that is unset, borrows a local, or came from the caller.      *)
EXTENDS CallArguments

Named == {"x", "y", "n", "q", "r"}

\* p is a parameter the statements before the call may have read.
Locals2 == Named \cup {"p"}
Locals2Type ==
  [s \in Locals2 |-> CASE s \in {"x", "y"} -> "text" [] s = "n" -> "scalar"
                       [] s = "r" -> "shared_ref" [] OTHER -> "exclusive_ref"]

\* What the locals view where no two executions were merged: the origins.
ViewsOf(f) ==
  [s \in Locals2 |->
     {<<<<IF o[2] = "param" THEN "caller" ELSE "local", o[1]>>, ModeFor(s, o[2])>> :
        o \in OriginsOf(f, s)}]

\* Flow states that statements before the call produce: references unset, taken
\* from the caller or of a local, an exclusive reference made a shared one, an
\* owner moved, and a reference that two arms of a branch set differently.
Declared == Declare(Declare(EntryFlow, "q", "uninit", {}), "r", "uninit", {})
Writing(o) == Store(Declared, "q", {<<o, "exclusive">>})
Reading(o) == Store(Declared, "r", {<<o, "shared">>})

CallFlows ==
  {Declared,
   Store(Move(Declared, "p"), "q", {<<"p", "param">>}),
   Writing("n"),
   Reading("x"),
   Store(Writing("y"), "r", {<<"x", "shared">>}),
   Store(Move(Writing("y"), "q"), "r", {<<"y", "exclusive">>}),
   Move(Declared, "x")}

CallEntries ==
  {[flow |-> f, views |-> ViewsOf(f)] : f \in CallFlows}
  \cup {[flow |-> Merge(Reading("x"), Reading("y")), views |-> ViewsOf(Reading(o))] : o \in {"x", "y"}}

Argument(form, root, path, mode) ==
  [form |-> form, root |-> root, path |-> path, mode |-> mode]

SmallPaths == {<<>>, <<"f">>, <<"g">>, <<"index">>, <<"f", "g">>, <<"index", "f">>,
               <<"index", "g">>, <<"f", "index">>}

Addresses == {Argument("address", o, p, m) : o \in {"x", "y"}, p \in SmallPaths, m \in BorrowModes}
             \cup {Argument("address", "n", <<>>, m) : m \in BorrowModes}
ByName    == {Argument(form, s, <<>>, "shared") : form \in {"value", "nested"}, s \in Named}
Reborrows == {Argument("reborrow", "q", <<>>, m) : m \in BorrowModes}
             \cup {Argument("reborrow", "r", <<>>, "shared")}

Pairs(S) == {<<a, b>> : a, b \in S}
All == Pairs(Addresses \cup ByName \cup Reborrows)

\* Calls whose arguments share a name: the same exclusive reference given twice,
\* and an owner that is moved beside its own address.
RelatedCalls == {c \in All : SameReference(c[1], c[2]) \/ MovesLent(c[1], c[2])}
=============================================================================
