------------------------------- MODULE Coverage -------------------------------
(***************************************************************************)
(* What ties a flow state of the analysis to one execution path that       *)
(* reaches the point the state describes.  The relation is the invariant   *)
(* of the analysis: the driver (SafetyFlow) keeps it between its flow      *)
(* state and every path, and it implies that no accepted statement faults. *)
(***************************************************************************)
EXTENDS FlowState, PathSemantics

\* A definite fact of the flow state is a fact of the execution:
Definite(f, p) ==
  \A s \in f.visible :
    /\ Value(f, s) = "init"   => Sound(p, s)
    /\ Value(f, s) = "uninit" => p.val[s] = "uninit"

\* the origins account for a set of views: each view is of the storage of an
\* origin, and an exclusive view of an exclusive origin;
Account(origins, views) ==
  \A v \in views : \E m \in BorrowModes :
    /\ v[2] = "exclusive" => m = "exclusive"
    /\ <<v[1], m>> \in origins

\* every view a usable local holds is among its origins, and the owner of the
\* storage, while visible, knows of the borrow;
Registered(f, p) ==
  \A c \in f.visible : Value(f, c) = "init" =>
    /\ Account(OriginsOf(f, c), p.view[c])
    /\ \A v \in p.view[c] : v[1] \in f.visible =>
         \E b \in BorrowsOf(f, v[1]) :
            b.carrier = c /\ (v[2] = "exclusive" => b.kind = "exclusive")

\* two usable locals view the same storage only as shared readers;
Disjoint(f, p) ==
  \A c, e \in f.visible :
    c # e /\ Value(f, c) = "init" /\ Value(f, e) = "init" => e \notin Rivals(p, c)

\* and a local that is not declared yet has no value and no viewers.
Fresh(p, known) ==
  /\ \A s \in Symbols \ known : p.val[s] = "uninit"
  /\ \A c \in Symbols : \A v \in p.view[c] : v[1] \in known

Covers(f, p, known) ==
  Definite(f, p) /\ Registered(f, p) /\ Disjoint(f, p) /\ Fresh(p, known)

\* Only a type that can hold a reference has borrow origins.
OriginsTyped(f) == \A s \in Symbols : ~Carries(s) => OriginsOf(f, s) = {}
=============================================================================
