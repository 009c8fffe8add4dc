----------------------------- MODULE MCSafetyFlow -----------------------------
(* Small functions for TLC: a handful of typed symbols and a bound on the     *)
(* number of statements.  Each set of symbols is one cast of characters.      *)
EXTENDS SafetyFlow

\* One owning value, direct references of both modes, an ordinary value.
OwnersAndRefs == {"x", "r", "q", "n"}
OwnersAndRefsType ==
  [s \in OwnersAndRefs |->
     CASE s = "x" -> "text" [] s = "r" -> "shared_ref"
       [] s = "q" -> "exclusive_ref" [] s = "n" -> "scalar"]

\* Views in aggregates: records of readers and writers and a vector of views, filled from
\* references into an ordinary value, beside a view the caller lent (p).
Aggregates == {"n", "p", "r", "q", "a", "u", "w"}
AggregatesType ==
  [s \in Aggregates |->
     CASE s = "n" -> "scalar" [] s \in {"p", "r"} -> "shared_ref" [] s = "q" -> "exclusive_ref"
       [] s = "a" -> "reader_record" [] s = "u" -> "writer_record" [] s = "w" -> "view_vector"]

\* The same beside an owner that is lent.
LentAggregates == Aggregates \cup {"x"}
LentAggregatesType == [s \in LentAggregates |-> IF s = "x" THEN "text" ELSE AggregatesType[s]]

\* Two owners only, for control flow.
Owners == {"x", "y", "i"}
OwnersType == [s \in Owners |-> IF s = "i" THEN "scalar" ELSE "text"]
=============================================================================
