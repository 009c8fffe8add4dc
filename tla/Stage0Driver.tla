----------------------------- MODULE Stage0Driver -----------------------------
(* The seed compiler's process (main): the command line, the target, loading,  *)
(* three semantic passes and the emission of one object, with what each stage  *)
(* owns and every early return. What the passes decide is their own modules'   *)
(* matter: here each of them may refuse the program.                           *)
EXTENDS ProgramLoading, SequencesExt

CONSTANT CommandLines   \* the arguments of the process, as sequences of words

VARIABLES arguments, stage, held, exit, object

driverVars == <<arguments, stage, held, exit, object>>
vars       == <<loadVars, driverVars>>

Words  == {"--target=", "--target=name", "--target", "-o", "name"}
ASSUME ArgumentsAssumption == CommandLines \subseteq Seq(Words)

Stages == {"arguments", "target", "load", "collect", "check", "bodies",
           "prepare", "machine", "layout", "lower", "write", "ended"}

\* What the argument loop knows after some of the words; a word it cannot place is
\* a usage error, and so is an option that waits for its value at the end.
NothingRead == [waits |-> "nothing", output |-> FALSE, usage |-> TRUE]
ReadWord(read, word) ==
  IF ~ read.usage THEN read
  ELSE IF read.waits = "target" THEN [read EXCEPT !.waits = "nothing"]
  ELSE IF read.waits = "output" THEN [read EXCEPT !.waits = "nothing", !.output = TRUE]
  ELSE IF word = "--target" THEN [read EXCEPT !.waits = "target"]
  ELSE IF word = "-o" THEN [read EXCEPT !.waits = "output"]
  ELSE IF word = "--target=name" THEN read
  ELSE [read EXCEPT !.usage = FALSE]
\* The first word is the input, whatever it is; the loop reads the others.
UsableArguments(words) ==
  /\ words # <<>>
  /\ LET read == FoldLeft(ReadWord, NothingRead, Tail(words))
     IN  read.usage /\ read.waits = "nothing" /\ read.output

Init ==
  /\ LoadInit
  /\ arguments \in CommandLines
  /\ stage = "arguments"
  /\ held = {}
  /\ exit = "none"
  /\ object = "absent"

\* A return from main: code, and what the exit path releases.
Return(code, released) ==
  /\ stage' = "ended"
  /\ exit' = code
  /\ held' = held \ released

Enter(next, acquired) ==
  /\ stage' = next
  /\ held' = held \cup acquired
  /\ UNCHANGED exit

ReadArguments ==
  /\ stage = "arguments"
  /\ IF UsableArguments(arguments) THEN Enter("target", {}) ELSE Return("usage", {})
  /\ UNCHANGED <<loadVars, arguments, object>>

\* The target is selected before loading: conditions in the sources depend on it.
SelectTarget ==
  /\ stage = "target"
  /\ \/ Enter("load", {"target", "program"})
     \/ Return("failure", {})
  /\ UNCHANGED <<loadVars, arguments, object>>

Load ==
  /\ stage = "load"
  /\ LoadStep
  /\ UNCHANGED driverVars

RunOutOfMemory ==
  /\ stage = "load"
  /\ Starve
  /\ UNCHANGED driverVars

LoadEnds ==
  /\ stage = "load"
  /\ \/ verdict = "loaded" /\ Enter("collect", {"semantic"})
     \/ verdict = "failed" /\ Return("failure", {"target", "program"})
  /\ UNCHANGED <<loadVars, arguments, object>>

\* Collect_Globals || Check_Program || Check_Bodies: the first that fails ends the run.
AfterPass(pass) == CASE pass = "collect" -> "check" [] pass = "check" -> "bodies"
                     [] pass = "bodies" -> "prepare"
SemanticPass ==
  /\ stage \in {"collect", "check", "bodies"}
  /\ \/ Enter(AfterPass(stage), {})
     \/ Return("failure", {"target", "program", "semantic"})
  /\ UNCHANGED <<loadVars, arguments, object>>

\* What the emitter creates, in the order it creates it; its teardown releases
\* whatever exists, on every path.
ContextParts == {"context", "module", "builder", "allocation builder"}
EmitterParts == ContextParts \cup {"machine", "layout"}
\* Mutant of EmissionFails: the program outlives a failed emission.
EmissionFailsEarly == Return("failure", EmitterParts \cup {"target", "semantic"})
EmissionFails == Return("failure", EmitterParts \cup {"target", "program", "semantic"})

\* The entry point is checked again, then the LLVM context is made; any part of it
\* may be missing.
PrepareModule ==
  /\ stage = "prepare"
  /\ \/ EmissionFails
     \/ Enter("machine", ContextParts)
  /\ UNCHANGED <<loadVars, arguments, object>>

CreateMachine ==
  /\ stage = "machine"
  /\ EmissionFails \/ Enter("layout", {"machine"})
  /\ UNCHANGED <<loadVars, arguments, object>>

\* The data layout must have 64-bit pointers.
CreateLayout ==
  /\ stage = "layout"
  /\ EmissionFails \/ Enter("lower", {"layout"})
  /\ UNCHANGED <<loadVars, arguments, object>>

\* Aggregate types, function declarations, reachable bodies, the process entry.
LowerProgram ==
  /\ stage = "lower"
  /\ EmissionFails \/ Enter("write", {})
  /\ UNCHANGED <<loadVars, arguments, object>>

\* LLVM writes the object to the path itself and may fail half way.
WriteObject ==
  /\ stage = "write"
  /\ \/ /\ object' = "written"
        /\ Return("success", EmitterParts \cup {"target", "program", "semantic"})
     \/ /\ object' \in {"absent", "partial"}
        /\ EmissionFails
  /\ UNCHANGED <<loadVars, arguments>>

Step ==
  \/ ReadArguments \/ SelectTarget
  \/ Load \/ LoadEnds
  \/ SemanticPass
  \/ PrepareModule \/ CreateMachine \/ CreateLayout \/ LowerProgram \/ WriteObject

\* One thread that always takes its next step; it does not depend on memory running
\* out to get anywhere.
Spec == Init /\ [][Step \/ RunOutOfMemory]_vars /\ WF_vars(Step)

-----------------------------------------------------------------------------
\* Type correctness of the loader and of the driver's own state.
TypeOK ==
  /\ LoadTypeOK
  /\ arguments \in Seq(Words)
  /\ stage \in Stages
  /\ held \subseteq EmitterParts \cup {"target", "program", "semantic"}
  /\ exit \in {"none", "usage", "failure", "success"}
  /\ object \in {"absent", "partial", "written"}

\* However main returns, everything it created is released, and the exit code says
\* whether the object is there: it is written only by a run whose program loaded.
ExitsClean ==
  stage = "ended" =>
    /\ held = {}
    /\ exit = "success" <=> object = "written"
    /\ exit = "success" => verdict = "loaded"
    /\ exit = "usage" <=> ~ UsableArguments(arguments)

\* Loading always ends: import cycles and repeated imports never keep it walking.
LoadingEnds == stage = "load" ~> verdict \in {"loaded", "failed"}
=============================================================================
