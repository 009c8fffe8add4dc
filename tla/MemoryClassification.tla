------------------------- MODULE MemoryClassification -------------------------
(***************************************************************************)
(* The static ownership classification of semantic types                   *)
(* (compiler/frontend/memory).  ClassifyUnit walks the type registry in    *)
(* the order of its identities and records the facts of every type; each   *)
(* is computed by a recursive descent into its contents, which stops at a  *)
(* type that is already being analysed and at one whose facts were cached. *)
(*                                                                         *)
(* A registry is any assignment of a shape to each identity: the walk must *)
(* be right for every one, so Init ranges over all of them.                *)
(***************************************************************************)
EXTENDS Naturals, Sequences, FiniteSets

CONSTANTS Types,      \* the type identities, 0 .. N
          Registries  \* the registries considered

\* A registry maps a type to its shape.  A leaf is a string or a reference of
\* either mode (a slice is a shared one).  A record stands for the three kinds
\* of direct containment (record fields, tuple elements, constructor payloads)
\* and, without contents, for a scalar; a box stands for the two kinds of owning
\* indirection (box, vector).
Leaves == {"text", "ref", "mutref"}

Shapes == [kind : Leaves, contents : {<<>>}]
          \cup [kind : {"record"}, contents : Seq(Types)]
          \cup [kind : {"box"}, contents : {<<c>> : c \in Types}]

ASSUME TypesAssumption ==
  /\ IsFiniteSet(Types)
  /\ Types = 0 .. (Cardinality(Types) - 1)
  /\ Registries \subseteq [Types -> Shapes]

VARIABLES registry, \* the types of the unit, fixed from the start
          at,       \* the next type to classify
          cache,    \* facts of the types whose analysis met no back-edge
          table,    \* facts of every type classified so far
          verdict   \* "open", "complete" or "rejected"

vars == <<registry, at, cache, table, verdict>>

Ordinary == [owned |-> FALSE, views |-> FALSE, exclusive |-> FALSE]
OwnedWith(facts) == [owned |-> TRUE, views |-> facts.views, exclusive |-> facts.exclusive]
Reference(exclusive) == [owned |-> FALSE, views |-> TRUE, exclusive |-> exclusive]

\* Mutant of MergeContents: ownership inside a later child is forgotten.
MergeContentsFirst(facts, child) ==
  [owned     |-> facts.owned,
   views     |-> facts.views \/ child.views,
   exclusive |-> facts.exclusive \/ child.exclusive]

MergeContents(facts, child) ==
  [owned     |-> facts.owned \/ child.owned,
   views     |-> facts.views \/ child.views,
   exclusive |-> facts.exclusive \/ child.exclusive]

-----------------------------------------------------------------------------
(* The descent.  An outcome is the facts of a type, or the error "ownership *)
(* cycle" (ok = FALSE); "caught" says that a box absorbed such an error.    *)

Success(facts, caught) == [ok |-> TRUE, facts |-> facts, caught |-> caught]
OwnershipCycle(caught) == [ok |-> FALSE, facts |-> Ordinary, caught |-> caught]

\* Direct contents: the first error ends the descent.
Include(sofar, child) ==
  IF ~sofar.ok THEN sofar
  ELSE IF ~child.ok THEN OwnershipCycle(sofar.caught \/ child.caught)
  ELSE Success(MergeContents(sofar.facts, child.facts), sofar.caught \/ child.caught)

\* Mutant of Indirect: the facts of the payload stay behind the indirection.
IndirectOpaque(payload) ==
  IF payload.ok THEN Success(OwnedWith(Ordinary), payload.caught)
  ELSE Success(OwnedWith(Ordinary), TRUE)

\* Mutant of Indirect: an indirection closes no cycle.
IndirectStrict(payload) ==
  IF payload.ok THEN Success(OwnedWith(payload.facts), payload.caught)
  ELSE OwnershipCycle(payload.caught)

\* Owning indirection: the value owns its payload and absorbs a cycle.
Indirect(payload) ==
  IF payload.ok THEN Success(OwnedWith(payload.facts), payload.caught)
  ELSE Success(OwnedWith(Ordinary), TRUE)

Included(contents, outcomes) ==
  LET sofar[n \in 0 .. Len(contents)] ==
        IF n = 0 THEN Success(Ordinary, FALSE) ELSE Include(sofar[n - 1], outcomes[contents[n]])
  IN  sofar[Len(contents)]

\* A type that is not being analysed, from the outcomes of its contents.
OutcomeOf(t, outcomes, known) ==
  LET shape == registry[t]
  IN  IF t \in DOMAIN known THEN Success(known[t], FALSE)
      ELSE IF shape.kind = "text" THEN Success(OwnedWith(Ordinary), FALSE)
      ELSE IF shape.kind \in {"ref", "mutref"} THEN Success(Reference(shape.kind = "mutref"), FALSE)
      ELSE IF shape.kind = "box" THEN Indirect(outcomes[shape.contents[1]])
      ELSE Included(shape.contents, outcomes)

\* The outcomes of all types, by the set of types that are being analysed.
Descent(known) ==
  LET within[active \in SUBSET Types] ==
        [t \in Types |-> IF t \in active THEN OwnershipCycle(FALSE)
                         ELSE OutcomeOf(t, within[active \cup {t}], known)]
  IN  within
Analyse(t, known) == Descent(known)[{}][t]

-----------------------------------------------------------------------------
(* The walk                                                                *)

Empty == <<>>
Put(facts, t, new) == [u \in DOMAIN facts \cup {t} |-> IF u = t THEN new ELSE facts[u]]

Init ==
  /\ registry \in Registries
  /\ at = 0
  /\ cache = Empty
  /\ table = Empty
  /\ verdict = "open"

\* Mutant of Cacheable: a result that depends on the point of entry is cached.
CacheableAlways(outcome) == outcome.ok

Cacheable(outcome) == ~outcome.caught

Classify ==
  /\ verdict = "open"
  /\ at \in Types
  /\ LET outcome == Analyse(at, cache) IN
     IF outcome.ok
     THEN /\ table' = Put(table, at, outcome.facts)
          /\ cache' = IF Cacheable(outcome) THEN Put(cache, at, outcome.facts) ELSE cache
          /\ at' = at + 1
          /\ UNCHANGED <<registry, verdict>>
     ELSE /\ verdict' = "rejected"
          /\ UNCHANGED <<registry, at, cache, table>>

Complete ==
  /\ verdict = "open"
  /\ at \notin Types
  /\ verdict' = "complete"
  /\ UNCHANGED <<registry, at, cache, table>>

Next == Classify \/ Complete

Spec == Init /\ [][Next]_vars

-----------------------------------------------------------------------------
(* What the facts mean, by reachability in the graph of contents           *)

Contents(t) == {registry[t].contents[i] : i \in DOMAIN registry[t].contents}

\* The types in S and those their contents of the given kinds add.
Grown(S, kinds) == S \cup UNION {Contents(t) : t \in {u \in S : registry[u].kind \in kinds}}

\* The types reached from those in S along contents of the given kinds.
Reach(S, kinds) ==
  LET after[n \in 0 .. Cardinality(Types)] == IF n = 0 THEN S ELSE Grown(after[n - 1], kinds)
  IN  after[Cardinality(Types)]

\* A type is on a cycle of contents, or reaches one.
OnCycle(t, kinds) == registry[t].kind \in kinds /\ t \in Reach(Contents(t), kinds)
ReachesCycle(t) == \E u \in Reach({t}, {"record", "box"}) : OnCycle(u, {"record", "box"})

Owns(t)  == \E u \in Reach({t}, {"record"}) : registry[u].kind \in {"text", "box"}
Views(t) == \E u \in Reach({t}, {"record", "box"}) : registry[u].kind \in {"ref", "mutref"}
Excludes(t) == \E u \in Reach({t}, {"record", "box"}) : registry[u].kind = "mutref"

\* A unit is rejected exactly when some type directly contains itself: every
\* cycle that an owning indirection closes is accepted, wherever the descent
\* enters it and whatever was cached before.
RejectsInfiniteTypes ==
  /\ verdict = "complete" => \A t \in Types : ~OnCycle(t, {"record"})
  /\ verdict = "rejected" => \E t \in Types : OnCycle(t, {"record"})

\* The facts of a type do not depend on which types were classified before it:
\* the cache never answers what the descent from scratch would not.
OrderIndependent ==
  \A t \in DOMAIN table :
    LET fresh == Analyse(t, Empty) IN fresh.ok /\ table[t] = fresh.facts

\* A type is owned exactly when it directly contains a string or an indirection,
\* recursive or not: no destructor is forgotten and none is invented.
OwnershipExact == \A t \in DOMAIN table : table[t].owned <=> Owns(t)

\* The view facts are exact for a type that reaches no cycle, and are never
\* invented for one that does.
ViewsExactOffCycles ==
  \A t \in DOMAIN table :
    /\ table[t].views => Views(t)
    /\ table[t].exclusive => Excludes(t)
    /\ ~ReachesCycle(t) => /\ Views(t) => table[t].views
                           /\ Excludes(t) => table[t].exclusive

\* What a comment of the classification says of recursive types: the back-edge
\* adds no view fact, but the siblings of the recursive field still count.
SiblingsParticipate == \A t \in DOMAIN table : Views(t) => table[t].views
=============================================================================
