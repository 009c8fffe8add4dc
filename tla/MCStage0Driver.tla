---------------------------- MODULE MCStage0Driver ----------------------------
(* Every sound tree of three files whose import lists have up to three, two    *)
(* and two entries, trees with faults of each kind, and trees whose imports    *)
(* are spelled paths that ImportPaths resolves.                                *)
EXTENDS Stage0Driver, ImportPaths, FiniteSets

F3 == {"a", "b", "c"}

ListsUpTo(S, n) == UNION {[1..k -> S] : k \in 0..n}
StateOf(f, faulty, s) == IF f = faulty THEN s ELSE "sound"

\* Sound trees: any lists of imports over the three files, fewer from file to file.
SoundTrees ==
  {[root |-> "a", state |-> [f \in F3 |-> "sound"],
    imports |-> [f \in F3 |-> CASE f = "a" -> x [] f = "b" -> y [] f = "c" -> z]] :
   x \in ListsUpTo(F3, 3), y \in ListsUpTo(F3, 2), z \in ListsUpTo(F3, 2)}

\* Faulty trees: a file that cannot be read or parsed, or a list with a faulty import.
FaultyTrees ==
  {[root |-> "a", state |-> [f \in F3 |-> IF f = g THEN s ELSE "sound"],
    imports |-> [f \in F3 |-> CASE f = "a" -> x [] f = "b" -> y [] f = "c" -> z]] :
   g \in F3, s \in {"sound", "unreadable", "unparsable"}, x \in ListsUpTo({"b", "c", "escapes"}, 2),
   y \in ListsUpTo({"a", "c", "foreign"}, 1), z \in ListsUpTo({"b", "missing"}, 1)}

\* The same files as paths: one in the project, one in a directory of it, one in
\* the standard library, and a link that leads out of the project.
Place == [a |-> <<"p", "a.sn">>, b |-> <<"p", "d", "b.sn">>, c |-> <<"p", "library", "std", "c.sn">>]
WorldFiles == {Place[f] : f \in F3} \cup {<<"o", "x.sn">>, <<"p", "note">>}
WorldLinks == (<<"p", "out">> :> <<"o">>)
WorldRoot  == <<"p">>
WorldPathNames ==
  {"p", "o", "d", "library", "std", "out", "note", ".", ".."} \cup {"a.sn", "b.sn", "c.sn", "x.sn"}
WorldNames == {"a.sn", "b.sn", "c.sn", "x.sn"}

Request(k, path) == [kind |-> k, path |-> path]
Spellings ==
  {Request("relative", p) : p \in {<<"a.sn">>, <<"..", "a.sn">>, <<"d", "b.sn">>,
     <<"d", "..", "..", "a.sn">>, <<".", "note">>, <<"out", "x.sn">>}} \cup
  {Request("logical", p) : p \in {<<"a.sn">>, <<"std", "c.sn">>, <<"d", "b.sn">>}}
FileAt(path) == CHOOSE f \in F3 : Place[f] = path
TargetOf(f, import) ==
  LET outcome == Resolve(Place[f], import)
  IN  IF outcome = "found" THEN FileAt(Resolved(Place[f], import)) ELSE outcome

SpelledTrees ==
  {[root |-> "a", state |-> [f \in F3 |-> "sound"],
    imports |-> [f \in F3 |-> CASE f = "a" -> <<TargetOf("a", r)>> [] f = "b" -> <<TargetOf("b", s)>>
                                 [] f = "c" -> <<>>]] : r, s \in Spellings}

Trees == SoundTrees \cup FaultyTrees \cup SpelledTrees

Usages ==
  {<<>>, <<"name">>, <<"-o", "-o", "name">>} \cup
  {<<"name">> \o options : options \in
     {<<"--target", "-o", "-o", "name">>, <<"-o", "name", "--target=">>,
      <<"--target=name">>, <<"-o", "name", "--target">>, <<"-o">>, <<"name", "-o", "name">>}}
=============================================================================
