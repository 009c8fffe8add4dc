----------------------------- MODULE MemoryFacts -----------------------------
(***************************************************************************)
(* The static memory facts of the semantic types, as compiler/frontend/    *)
(* memory computes them and as Sultan Safety Flow consumes them.  A type   *)
(* is one of seven representatives, one for each combination of facts the  *)
(* flow analysis can tell apart:                                           *)
(*   "scalar"        an ordinary value: a number, a pointer, a function    *)
(*   "text"          an owning value without views: a string, a vector     *)
(*   "shared_ref"    &T                                                    *)
(*   "exclusive_ref" &mutable T                                            *)
(*   "reader_record" a slice, or an aggregate holding shared references    *)
(*   "writer_record" an aggregate holding an exclusive reference           *)
(*   "view_vector"   an owning vector or box whose contents hold views     *)
(***************************************************************************)
EXTENDS FiniteSets

CONSTANTS Symbols,   \* the declaration identities of one function
          TypeOf,    \* the semantic type of each symbol
          Mutable,   \* the symbols declared with a mutable type
          Params     \* the symbols that are parameters of the function

Types == {"scalar", "text", "shared_ref", "exclusive_ref",
          "reader_record", "writer_record", "view_vector"}

ASSUME SymbolsAssumption ==
  /\ IsFiniteSet(Symbols)
  /\ TypeOf \in [Symbols -> Types]
  /\ Mutable \subseteq Symbols
  /\ Params \subseteq Symbols

BorrowModes == {"shared", "exclusive"}

\* Class "owned": the value is destroyed by its owner and moves on transfer.
Owned(s) == TypeOf[s] \in {"text", "view_vector"}

\* Class "borrowed": no ownership, but the value depends on other storage.
Borrowed(s) == TypeOf[s] \in {"shared_ref", "exclusive_ref",
                              "reader_record", "writer_record"}

RequiresRelease(s) == Owned(s)

\* The value contains a reference, so borrow provenance is meaningful for it.
Carries(s) == Borrowed(s) \/ TypeOf[s] = "view_vector"

ContainsExclusive(s) == TypeOf[s] \in {"exclusive_ref", "writer_record"}

\* A direct reference fixes the mode of every borrow its carrier holds;
\* an aggregate keeps the mode recorded with each origin.
DirectReference(s) == TypeOf[s] \in {"shared_ref", "exclusive_ref"}

ModeFor(s, recorded) ==
  CASE TypeOf[s] = "shared_ref"    -> "shared"
    [] TypeOf[s] = "exclusive_ref" -> "exclusive"
    [] OTHER                       -> recorded

\* Assignment compatibility: equal types, or an exclusive reference
\* downgraded to a shared one.
Accepts(d, s) ==
  \/ TypeOf[d] = TypeOf[s]
  \/ TypeOf[d] = "shared_ref" /\ TypeOf[s] = "exclusive_ref"
=============================================================================
