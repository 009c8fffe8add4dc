---------------------------- MODULE ModuleClosure ----------------------------
(* What loading a program promises, whatever the order of the work: the       *)
(* loaded set only grows along imports from the root, it is accepted only     *)
(* when it is closed, free of cycles and without a faulty file, and it is     *)
(* refused only for a fault that can be reached, unless memory ran out.       *)
EXTENDS Naturals, Sequences

CONSTANT Files   \* canonical source paths

VARIABLES disk, loaded, verdict, diagnostic, starved

Verdicts     == {"running", "loaded", "failed"}
ImportFaults == {"missing", "escapes", "foreign"}
FileStates   == {"sound", "unreadable", "unparsable"}
Codes        == {"none", "E0103", "E0104", "E0201", "E0202", "E0311", "E1100", "syntax"}

\* A source tree: the root file, what is in each file and where its imports lead.
DiskRecords == [root : Files, state : [Files -> FileStates],
                imports : [Files -> Seq(Files \cup ImportFaults)]]

Targets(d, f) == {d.imports[f][i] : i \in 1..Len(d.imports[f])}
Imports(f)    == Targets(disk, f)

Wanted(f)     == f = disk.root \/ \E g \in loaded : f \in Imports(g)
Closed(S)     == \A f \in S : Imports(f) \subseteq S
Cyclic(S)     == \E C \in SUBSET S : C # {} /\ \A f \in C : Imports(f) \cap C # {}

FaultCode(fault) ==
  CASE fault = "missing" -> "E0201" [] fault = "escapes" -> "E0202" [] fault = "foreign" -> "E0104"

Justified(code) ==
  \/ code = "E0103" /\ \E f \in Files : Wanted(f) /\ disk.state[f] = "unreadable"
  \/ code = "syntax" /\ \E f \in Files : Wanted(f) /\ disk.state[f] = "unparsable"
  \/ code = "E0311" /\ Cyclic(loaded)
  \/ \E f \in loaded : \E fault \in Imports(f) \cap ImportFaults : code = FaultCode(fault)

Init ==
  /\ disk \in DiskRecords
  /\ loaded = {}
  /\ verdict = "running"
  /\ diagnostic = "none"
  /\ starved = FALSE

Load(f) ==
  /\ verdict = "running"
  /\ Wanted(f)
  /\ f \notin loaded
  /\ disk.state[f] = "sound"
  /\ loaded' = loaded \cup {f}
  /\ UNCHANGED <<disk, verdict, diagnostic, starved>>

Accept ==
  /\ verdict = "running"
  /\ disk.root \in loaded
  /\ Closed(loaded)
  /\ ~ Cyclic(loaded)
  /\ verdict' = "loaded"
  /\ UNCHANGED <<disk, loaded, diagnostic, starved>>

Refuse(code) ==
  /\ verdict = "running"
  /\ Justified(code)
  /\ verdict' = "failed"
  /\ diagnostic' = code
  /\ UNCHANGED <<disk, loaded, starved>>

Starve(code) ==
  /\ verdict = "running"
  /\ verdict' = "failed"
  /\ diagnostic' = code
  /\ starved' = TRUE
  /\ UNCHANGED <<disk, loaded>>

vars == <<disk, loaded, verdict, diagnostic, starved>>

Next ==
  \/ \E f \in Files : Load(f)
  \/ Accept
  \/ \E code \in Codes : Refuse(code) \/ Starve(code)

Safety == Init /\ [][Next]_vars
Spec   == Safety /\ WF_vars(Next)
=============================================================================
