---------------------------- MODULE PathSemantics ----------------------------
(***************************************************************************)
(* What the flow analysis promises, stated without the analysis: the       *)
(* ownership semantics of one execution path of the function.  A path      *)
(* state says, of each local, whether its value is there, which locals'    *)
(* storage it views and in which mode, and whether the view is stale: the  *)
(* viewed storage was accessed in a way the view excludes ("many shared    *)
(* readers or one mutable writer"), moved, released or replaced.           *)
(*                                                                         *)
(* Using a local whose value is absent, or whose view is stale, is the     *)
(* fault safe code must never commit (docs/SULTAN_SAFETY_FLOW.md).         *)
(***************************************************************************)
EXTENDS MemoryFacts

Presence == {"uninit", "avail", "moved", "freed"}

Paths == [val   : [Symbols -> Presence],
          view  : [Symbols -> SUBSET (Symbols \X BorrowModes)],
          stale : SUBSET Symbols,
          lap   : {0, 1}]    \* 1 in the second iteration of a loop, if followed

EntryPath == [val   |-> [s \in Symbols |-> IF s \in Params THEN "avail" ELSE "uninit"],
              view  |-> [s \in Symbols |-> {}],
              stale |-> {},
              lap   |-> 0]

\* The local may be used: its value is present and its view still holds.
Sound(p, s) == p.val[s] = "avail" /\ s \notin p.stale

\* The locals that view the storage of o in one of the modes.
Viewers(p, o, modes) ==
  {c \in Symbols : \E k \in modes : <<o, k>> \in p.view[c]}

\* The other locals whose view cannot coexist with an access through c.
Rivals(p, c) ==
  {e \in Symbols \ {c} : \E v \in p.view[c], w \in p.view[e] :
      v[1] = w[1] /\ (v[2] = "exclusive" \/ w[2] = "exclusive")}

\* The views of the locals in spoiled no longer hold.
Spoil(p, spoiled) ==
  [val |-> p.val, view |-> p.view, stale |-> p.stale \cup spoiled, lap |-> p.lap]

\* A read of s, and of whatever s views, ends the views it conflicts with.
Read(p, s) == Spoil(p, Viewers(p, s, {"exclusive"}) \cup Rivals(p, s))

\* A write to the storage of s ends every view into it.
Write(p, s) == Spoil(p, Viewers(p, s, BorrowModes))

\* The value of s leaves it, and with it the view it carried.
Leave(p, s, presence) ==
  LET q == Write(Read(p, s), s) IN
  [val   |-> [q.val EXCEPT ![s] = presence],
   view  |-> [q.view EXCEPT ![s] = {}],
   stale |-> q.stale,
   lap   |-> q.lap]

\* Owned values and exclusive references leave their source, the rest is copied.
Transfers(s) == Owned(s) \/ ContainsExclusive(s)

Transfer(p, s) == IF Transfers(s) THEN Leave(p, s, "moved") ELSE Read(p, s)

Free(p, s) == Leave(p, s, "freed")

\* A type without exclusive references holds every view as a reader.
Held(d, views) ==
  {<<v[1], IF TypeOf[d] \in {"shared_ref", "reader_record"}
           THEN "shared" ELSE v[2]>> : v \in views}

\* d receives a new value that views the given storage.
Assign(p, d, views) ==
  [val   |-> [p.val EXCEPT ![d] = "avail"],
   view  |-> [p.view EXCEPT ![d] = IF Carries(d) THEN Held(d, views) ELSE {}],
   stale |-> (p.stale \cup Viewers(p, d, BorrowModes)) \ {d},
   lap   |-> p.lap]

\* Part of d receives a value with the given views.
Absorb(p, d, views) ==
  [val   |-> p.val,
   view  |-> [p.view EXCEPT ![d] = p.view[d] \cup views],
   stale |-> p.stale,
   lap   |-> p.lap]

OnLap(p, n) == [val |-> p.val, view |-> p.view, stale |-> p.stale, lap |-> n]

\* Taking the address of o reads it, or claims it for writing.
Lend(p, o, mode) ==
  IF mode = "exclusive" THEN Write(Read(p, o), o) ELSE Read(p, o)
=============================================================================
