# A verification model of the SultanC compiler

SultanC is the self-hosted compiler of the Sultan language; it is written in
Sultan (`.sn`, with Arabic keywords) under `compiler/`, with a C seed under
`bootstrap/` and a standard library under `library/std`. This directory holds
TLA+ modules of two parts of it:

* **the safety analysis of the self-hosted compiler**: the static memory
  classification of types and *Sultan Safety Flow* (SSF), which decides which
  programs may move, borrow, release and return what. A wrong answer of SSF is
  an accepted program that reads freed memory;
* **the seed compiler** (`bootstrap/src`, C over LLVM), which compiles the
  self-hosted one: its process and module loader, its front end (import paths,
  lexer, parser, names) and the code it makes of expressions and matches. What
  it gets wrong, every later compiler is built from.

## The system and its parts

| Part | Source | State it keeps | Operations | Here |
| --- | --- | --- | --- | --- |
| Lexer, parser, AST | `compiler/frontend/{lexer,parser,ast}` | cursor, tree | scan, parse | not modelled |
| Names, module loading | `compiler/frontend/{names,module_loading}` | symbol registry, import graph | load, resolve, detect import cycles | not modelled; the seed's are |
| Types | `compiler/frontend/types` | canonical type registry | intern, unify, convert | conversion of references only |
| Patterns | `compiler/frontend/pattern` | pattern registry | exhaustiveness, bindings | bindings only |
| Memory classification | `compiler/frontend/memory` | active set, cache, facts table | classify one type, walk the registry | `MemoryClassification` |
| SSF local state | `compiler/frontend/ssf/local_state.sn` | locals of one function: value state, borrows, origins | declare, use, assign, move, release, end carriers, copy, restrict | `FlowState` |
| SSF joins | `compiler/frontend/ssf/control_flow_merge.sn` | none | merge two flows, merge a loop | `FlowState` |
| SSF legality | `compiler/frontend/ssf/borrow_legality.sn` | none | start borrows, check escape | `FlowState` |
| SSF driver | `compiler/frontend/ssf/semantic_pipeline.sn`, `pattern_bindings.sn` | current flow, saved flows of the enclosing statements | one walk over a function body | `SafetyFlow`, `CallArguments` |
| MSIR | `compiler/msir` | control-flow graph | build, lower, verify, optimize | not modelled |
| Code generation | `compiler/backend/codegen` | live sets, allocation | liveness fixpoint, allocate, re-check allocation | not modelled |
| Interpreter | `compiler/interpreter` | frames, memory | execute MSIR at compile time | not modelled |
| Objects, ABIs, targets | `compiler/backend/{object,abi,layout,architectures}` | byte buffers | encode | not modelled |
| Linker | `compiler/link` | symbol tables, sections | read, resolve, write | not modelled |
| Driver | `compiler/driver` | none of interest | command line, processes, files | not modelled |
| Standard library | `library/std` | containers, connections | map, deque, heap, HTTP, TLS | not modelled |
| Seed: process | `bootstrap/src/{main.c,target,llvm/llvm_{module,context,object}.c}` | stage, resources held, exit code | arguments, target, load, three passes, emission, teardown | `Stage0Driver` |
| Seed: program loading | `bootstrap/src/core` | vector of units, loading marks, the recursion | open, follow an import, record it, close, fail | `ProgramLoading`, `ModuleClosure` |
| Seed: import paths | `bootstrap/src/support/path`, `core/program_path.c` | none | candidate, escape, canonical path | `ImportPaths`, `ImportResolution` |
| Seed: lexer | `bootstrap/src/frontend/lexer` | cursor | one token | `SourceText` |
| Seed: parser | `bootstrap/src/frontend/parser` | one token of lookahead, open blocks | items, statements, expressions, types, patterns | `SeedGrammar`, `GrammarForms` |
| Seed: names | `bootstrap/src/{frontend/parser/parser_module_alias.c,semantic/context_collect_globals.c,kernel/name}` | items of a unit, global tables and ranges | alias, collect, look up | `ModuleNames` |
| Seed: expressions | `bootstrap/src/semantic/body_{expression,binary,unary}.c`, `kernel/type`, `llvm/llvm_{expressions,values}.c` | none | type, convert, emit | `SeedExpressions` |
| Seed: patterns | `bootstrap/src/{kernel/pattern,semantic/body_match.c,llvm/llvm_patterns.c}` | coverage so far | check an arm, emit its tests, bind | `PatternMatching` |
| Seed: flow check | `bootstrap/src/kernel/safety`, `semantic/body_{statement,borrow,flow}.c` | facts of each local, branches being joined | declare, store, borrow, copy, move, return, join | `SeedFlow` |
| Seed: the rest | generics, layout, builtins, code of functions | - | - | not modelled |

The frontend of the self-hosted compiler is a pipeline of passes, each
completed over all units before the next starts: names and types are given to
the memory classification, whose facts SSF asks for (`types -> memory -> ssf`),
and a program accepted by SSF is lowered to MSIR. The seed is one process with
the same shape: the driver selects the target, since conditions in the source
depend on it; the loader asks the path helpers for each import and the parser
for each file, the parser pulls tokens from the lexer; then come the collection
of names, the checks and the emission. Both are single-threaded and persist
nothing but the output, so there is no crash recovery, timeout or interleaving
of processes. What is hard is of another kind:

* **stale facts** - a borrow is stored at its *owner* and lives as long as its
  *carrier*; a move, a release, a reassignment or a scope exit of the carrier
  must end it somewhere else in the state;
* **joins** - two arms that disagree about values, borrows and visible locals;
* **order** - one assignment reads origins, moves the source, ends old borrows
  and starts new ones, on operands that may be the same local;
* **scopes** - flows are copied, walked, restricted and merged at every block;
* **aliasing between the arguments of one call**, whose loans exist only while
  the call is analysed;
* **recursive types** - a cached fact that depends on where a cycle was entered;
* **reentrancy** - the loader appends to the vector of units inside the calls
  that walk the units already there, and one mark per unit has to tell a cycle
  of imports from a file two units share;
* **every early return** - a stage fails after others acquired their resources;
* **two readings of one program** - the checker and the emitter of the seed each
  derive types, widths and coverage for themselves, and have to agree;
* **boundaries** - the largest word, the widest shift, the last byte of a text,
  the token that ends where a character of two bytes starts, the `..` that
  leaves a root and comes back.

## Modules

```
MemoryFacts <- FlowState <----- Coverage <- SafetyFlow <- MCSafetyFlow
      ^            ^               |            ^
      |            |        PathSemantics       +---- SafetyFlow_proofs
      |            +---- CallArguments <- MCCallArguments, CallArguments_proofs
      |            +---- FlowLemmas (used by SafetyFlow_proofs and CallArguments_proofs)
   (the facts computed by)  MemoryClassification <- MCMemoryClassification, MemoryClassification_proofs
```

**MemoryFacts** declares the symbols of one function, their types and which are
mutable or parameters. A type is one of seven representatives, one for each
combination of facts the analysis can tell apart.

**FlowState** is the flow state and its operations. A local has a value state,
the borrows of which it is the *owner* and the origins of the view it holds. An
operation that can fail is a pair: `MayMove` holds when `انقل_محليا` returns
success, `Move` is the state it stores. The vectors of borrows and origins are
sets (their order is never observed); the slot index of a flow is the function
from symbols to locals; the source span of a move is left out, since only the
diagnostic uses it.

**PathSemantics** is the abstract specification: what one *execution* does to
the locals, written without any reference to the analysis. It records whether
each value is present, which local's storage each local views, and whether the
view is *stale*: the storage was accessed in a way the view excludes. Using an
absent value or a stale view, returning a view of the function's own locals and
assigning an initialized immutable local are faults.

**Coverage** is the relation between a flow state and the execution states it
stands for. A value recorded `init` is present and not stale on every path; every view is
among the origins and registered as a borrow at its owner; two usable locals
share storage only as readers.

**SafetyFlow** is the block driver. A behaviour is one function *together with*
its analysis: each step picks the next statement of the function, applies the
whole handler of that statement to `flow`, and executes it on every state in
`paths`. The recursion of the driver over nested blocks is the variable
`stack`: a frame holds the flow the statement branched from and the merge of
the arms finished so far. `Else`, `EndIf`, `EndWhile`, ... are the code after
the recursive call returns. `fault` is set when an execution faults in a
statement the analysis accepted, so **`NoFault` is the soundness of the
analysis**.

| Actions | Code |
| --- | --- |
| `DeclareLocal`, `AssignFresh`, `AssignFrom`, `AssignBorrow` | declarations and copies (1229-1286) |
| `BuildFrom` | record, tuple, vector and box initializers of a local (1287-1442) |
| `InitializePart` | the same initializers of part of a local, and the copy in the start of a for loop (1287-1442, 1486-1515) |
| `UseLocal`, `Capture` | expression reads and closures (87-178, 975-1005) |
| `PassArgument`, `ReleaseLocal`, `LendArguments`, `StoreInto`, `SwapPlaces` | call statements (548-971) |
| `StoreGlobal` | assignment to a module value (447-464) |
| `ReturnLocal`, `ReturnBorrow`, `ReturnNothing`, `Jump` | return, break, continue |
| `OpenIf`, `Else`, `EndIf`, `EndElse` | if (1596-1658) |
| `OpenLoop`, `EndWhile`, `EndFor` | while and for (1465-1595) |
| `OpenMatch`, `OpenArm`, `OpenPlainArm`, `EndArm`, `EndMatch` | match (1659-1768) |
| `OpenUnsafe`, `OpenComptime`, `EndBlock`, `Finish` | blocks, and the end of the body |

The constant `Constructs` names the constructs whose effect the analysis does
not record. The passing runs have none of them and cover the core language; the
two violation runs of this module admit the two about control flow, and the
three about views with the one about parts of a lent local. `StoreInto` (a copy or
an `append` into part of a local) and `InitializePart` do the same to the state and
differ in what they check: only the first asks whether the local may be changed.

**CallArguments** looks inside one call: arguments are places with paths of
fields and indices, values, nested calls and reborrows; the steps are the
passes of the analysis over the arguments. A call is entered in a flow state
together with what each local views in one execution that flow state stands
for (`EntriesAssumption`, the part of `Coverage` a call depends on). The
property compares what the callee *reaches* in that execution, by the
language's semantics, with what was accepted. `SameReference`, `MovesLent` and
`ConsumesView` name the pairs of arguments that the analysis does not relate.

**MemoryClassification** is the recursive descent over a registry of types,
with its active set, its cache and the flag that keeps results which met a
caught back-edge out of the cache. `Descent` gives the outcomes of all types for
every set of types under analysis, each from the outcomes with one more type in
the set: a recursive function instead of the recursive calls, which provers can
reason about. The properties compare the facts with reachability in the graph of
contents.

### The seed compiler

```
ModuleClosure <- ProgramLoading <- Stage0Driver <- MCStage0Driver -> ImportPaths
                       ^                ^
                         Stage0Driver_proofs

ImportPaths <- ImportResolution \       (ImportResolution, SourceText and ModuleNames
SourceText ----------------------+- MCSeedFrontEnd      <- SeedFrontEnd_proofs)
SeedGrammar <- GrammarForms -----+
ModuleNames --------------------/

SeedExpressions, PatternMatching -----+- MCSeedBodies
SeedFlow <- SeedLoans ---------------/
                ^
         SeedFlow_proofs
```

**ModuleClosure** is the abstract specification of loading: a set of loaded
files that grows along imports from the root, accepted when it is closed and
free of cycles, refused for a fault that can be reached. It knows no order, no
vector and no recursion.

**ProgramLoading** is `Program_Load_Root_File` and the recursive loader below
it. `units` is the vector of source units with the imports recorded in each,
`stack` the activations of the recursive function, each with its unit's index
and the place in its import list; `request` is the path of the call that has not
opened its file yet. `OpenUnit` reads and parses a file and appends its unit,
`FollowImport` calls the loader for the next import, `RecordImport` is what
happens when that call has returned or the file is loaded already, `CloseUnit`
clears the mark and returns, and each way to fail is a disjunct of its own.
`Starve` is an allocation that fails anywhere. A source tree (`disk`) says
which files can be read and parsed and where each import leads.

**Stage0Driver** is `main`. `held` is the set of resources that exist; each
stage acquires some and each return releases what the code releases there. No
argument at all is a usage error; an empty path of an input is a root that cannot
be read. The
passes and the lowering are single steps that succeed or fail; what they decide
is the matter of the other modules.

**ImportPaths** names the file an import means: relative or logical candidate,
depth count against escapes by spelling, `realpath` through symbolic links, the
check of the canonical path, the name of a source file. A path is the sequence
of its components. **ImportResolution** runs it on one import, so that every
spelling can be enumerated; `MCStage0Driver` also builds whole trees with it.

**SourceText** is the lexer: a cursor (offset, line, column) over the bytes of
a text, one action per kind of token, with numbers, escapes, nested
guillemets, exponents that are given back and every error. The definition of
what a token should be is separate from the scan and stands at the module's end.

**SeedGrammar** is the recursive-descent parser over a stream of tokens.
Expressions, types, patterns and places are recursive operators; blocks, which
the code holds on its call stack, are the variable `open`, with one action per
statement and per way a block closes. **GrammarForms** says what should be
read: how a tree is written with the parentheses it needs, which desugaring a
statement has (`else if`, a text compared, a negative literal), and which token
sequences are expressions by the productions.

**ModuleNames** follows names from the parser to the lookup: declarations,
aliases and constructor aliases of a unit under its target conditions, the
collection of all units into `tables` (one per kind) with one range per unit, and
the three `Name_Resolve` functions on top. A name stands for its identity class.
What stands in an arm that the target does not select is parsed into a list of
its own for each such arm (`inactive`), which nothing reads afterwards. An alias
with a parent on one side only is refused (`RefuseMixedAlias`), a private one with
parents on both too. Generic templates are not among the declarations, so the skip
of templates in the search for the entry has no case here.
The parser and the lookup follow aliases with loops of their own, each bounded by
the number of items; `Followed` is such a loop over one step (`RootStep` and
`ChildStep` of the parser on the items so far, `AliasStep` and `ConstructorStep` of
the lookup on all items). A private alias is checked against the `Builtins` when
it is parsed and binds nothing it names, but the lookup follows it like any other:
aliases of builtins can lead to each other, and then they lead nowhere.

**SeedExpressions** takes a declaration with an initializer through the
checker (types, literals that take the type of the other side, conversions),
the emitter (its own reading of the types, extensions, overflow, division, shift
and bounds tests, short circuits) and the run on machine words. LLVM's instructions
are modelled by what they do to words. The meaning it is compared with
(`MeaningOf`) is arithmetic on numbers, and for `|`, `&` and `^` a definition bit by
bit. The type that a whole expression is checked against is the one it is emitted
with; what is inside it has no type from its context in either. Two predicates name
the declarations whose literals the two passes read differently,
`NegatesSmallest` and `ReadsWideAsSigned`; they are the exemptions of the property.

**PatternMatching** takes a match through the checker (one arm at a time, with
the coverage accumulated) and the emitter (the tests an arm needs, shortened by
what is covered) and runs it on every value. A constructor is found through the
aliases of its type's unit, as `ModuleNames` follows them. A binding has a name and
a spelling: the analysis refuses a second binding of the same bytes, while bodies
find the newest binding of the name, whatever its bytes. `SpellsOneNameTwice` names the
patterns for which the two differ.

**SeedFlow** is the flow check of the seed over one body. `locals` is the
checker's vector with the safety fact of each local: its state, the loans
counted on it, and for a reference the place of its owner in the vector, the
kind of its loan, the region and the parameter it came from. `blocks` holds the
snapshots of the statements being checked. The body is not given: a step is a
statement the check accepts, so every accepted body over the chosen locals is
met. Beside the facts, `runs` is the set of states an execution can have at that
point, by the meaning of the language and not of the check: which value is
there, which storage a reference views and through which other reference, and
whether something happened to that storage that ends the reference. A join
unites the runs where the check merges its facts. Three statements after which
the check is wrong (`AssignsItself`, `CopiedOutwards`, `OverwritesLent`) end
the runs that take them, while the check goes on. **SeedLoans** states what
the facts promise of the runs that reach the same point (`FlowInvariant`): it is
checked with the model and it is what the proof of its properties rests on.

| Actions | Code |
| --- | --- |
| `OpenUnit`, `FollowImport`, `RecordImport`, `CloseUnit`, `RefuseUnit`, `RefuseImport`, `Starve` | `core/program_load_file.c`, `program_load_root.c` |
| `ReadArguments` ... `WriteObject` | `main.c`, `llvm/llvm_module.c` |
| `LexEnd`, `LexText`, `LexCharacter`, `LexNumber`, `LexUnderscore`, `LexName`, `LexOperator` | `frontend/lexer/lexer_next.c` and what it calls |
| `ParseReturn` ... `OtherStatement`, `Close...` | `frontend/parser/parser_statement_*.c` |
| `ParseImport` ... `EndModule` | `frontend/parser/parser_module_items.c`, `parser_target_condition.c` |
| `ParseDeclaration`, `Parse...Alias`, `RefuseMixedAlias`, `EndUnit`, `CollectItem`, `CollectUnit`, `FindMain` | `parser_module_alias.c`, `semantic/context_collect_globals.c` |
| `CheckDeclaration`, `EnterBlock`, `RunDeclaration` | `semantic/body_*.c`, `llvm/llvm_expressions.c` |
| `CheckArm`, `CheckCoverage`, `StoreScrutinee`, `DispatchArm`, `BindArm` | `semantic/body_match.c`, `llvm/llvm_patterns.c` |
| `Declare`, `StoreValue`, `StorePart`, `StoreLocal`, `StoreBorrow`, `WritePart`, `MoveIntoPart` | `semantic/body_statement.c`, `body_borrow.c`, `body_flow.c`, `body_lvalue_*.c` |
| `ReturnLocal`, `ReturnValue`, `Open`, `CloseThen`, `CloseElse`, `CloseLoop`, `CloseBlock` | `semantic/body_statement.c`, `kernel/safety/flow.c` |

## What is checked

| Run | Module | Question | Result |
| --- | --- | --- | --- |
| `ownership` | MCSafetyFlow | soundness, coverage, scopes, the two borrow invariants on one owner, a reference of each mode, a number; 5 statements, 2 levels of blocks | holds |
| `control_flow` | MCSafetyFlow | soundness over branches, loops, matches, jumps; 6 statements, 2 levels | holds |
| `aggregates` | MCSafetyFlow | views inside records and vectors, views lent by the caller and escapes; 9 statements in a row | holds |
| `call_arguments` | MCCallArguments | aliasing of two arguments, needless refusals, loans that end | holds |
| `classification` | MCMemoryClassification | exactness and order independence on every registry of three compound types | holds |
| `bootstrap_loading` | MCStage0Driver | the process from the command line to the exit, on every import graph of three files and on faulty ones | holds |
| `bootstrap_front_end` | MCSeedFrontEnd | tokens, trees, names and import paths, each over inputs of its own | holds |
| `bootstrap_bodies` | MCSeedBodies | the code of expressions and of matches, run on every value; the flow check of whole bodies against their executions | holds |
| `loop_edges` | MCSafetyFlow | does the join after a loop account for later iterations and for jumps? | violated |
| `untracked_views` | MCSafetyFlow | is provenance kept through addresses of views, parts of aggregates and patterns, and asked for before a part is initialized? | violated |
| `recursive_views` | MCMemoryClassification | do siblings of a recursive field count? | violated |
| `related_arguments` | MCCallArguments | does a call that names one root twice keep its arguments apart? | violated |

The properties:

* `NoFault` - no execution of an accepted function uses a lost value or a stale
  view, returns a view of its own locals, or reassigns an immutable local.
* `Covered` - the invariant behind it: the flow, and every flow saved for a
  later join, describes every execution it stands for.
* `WriterAlone` - an exclusive borrow is the only borrow of its owner.
* `BorrowsBacked` - the carrier of a borrow is visible, may still hold its
  value and has the owner among its origins: no owner stays locked for nothing.
* `ScopesNest` - leaving a block never misses a local.
* `ArgumentsExclusive`, `RefusedForCause`, `LoansEnd` - the three of a call:
  no two arguments reach the same storage unless both only read it, no loan is
  refused needlessly, and no loan leaves a trace afterwards. The first is about
  the calls without `Unrelated` pairs; `AlwaysExclusive`, about every call, is
  what `related_arguments` refutes.
* `RejectsInfiniteTypes`, `OwnershipExact`, `OrderIndependent`,
  `ViewsExactOffCycles` - the classification is right, whatever the order of
  the types.
* `OneUnitPerPath`, `LoadingIsTheStack` - a file imported along several paths
  has one unit, and the marks are exactly the open activations, in their order.
* `LoadedIsComplete` - an accepted program records every import list entirely,
  each file once, in the order of first import.
* `UnitsOnlyGrow` (action property) - indexes, paths and recorded imports never
  change while the vector grows.
* `LoadsTheClosure` (refinement) - the walk implements `ModuleClosure`.
* `LoadingEnds` (liveness) - loading ends, whatever imports what.
* `ExitsClean` - every return of `main` has released everything, and the exit
  code says whether the object exists.
* `ImportsStayInTheirRoot` - the depth count, the links and the canonical path
  agree with the definition by what a path reaches: a spelling escapes where a
  `..` climbs out of the root, or a link leads out of it.
* `TokensCoverText`, `TokensExact` - nothing of a text is lost between tokens,
  positions are right, each token is the longest and means its number or text.
* `ParsesAsWritten`, `AcceptsTheGrammar` - a written module is read as what it
  means; a token sequence is an expression exactly by the productions.
* `LookupMatchesScope`, `AliasesLead` - a lookup is what the scope rules say
  whatever the order of imports; what the parser accepted, the lookup finds.
  The scope rules are stated without an order and without a bound on hops: a name
  stands for what is in every set closed under the aliases in it.
* `ComputesExactly` - the emitted code computes the number the source means and
  traps exactly when that number does not exist in its type. Two exemptions are part
  of the property. A declaration that `NegatesSmallest` (`-128` at `int8`) may trap
  though its number exists, but computes no other number; of one that
  `ReadsWideAsSigned` (`x + 9223372036854775808` with a signed `x`) nothing is claimed.
  Both are among the inputs.
* `FirstMatchWins`, `RefusedMatchesFail` - a value ends in the first arm that
  describes it, never in the unreachable instruction, and every name of the arm is
  found to be the part it stands for (except where `SpellsOneNameTwice`); an arm
  refused as useless is useless.
* `ReadsAreSound` - whatever a body did before, with branches, scopes, moves of
  references and reborrows, a local the flow check lets it read holds its value,
  and if it is a reference, the storage it views was neither moved, replaced,
  dropped nor lent to an exclusive reference since.
* `ReturnsOutliveTheCall` - a reference the check lets the function return views
  what the caller lent for the very parameter recorded as its origin.
* `FlowInvariant` - what the two rest on: every live reference holds a loan that
  is counted at the local it was taken of, also where the two branches of a
  statement forgot who holds it, and the facts saved for a later join say the
  same of the runs saved with them.

### Bounds, and why they are enough

`MaxStatements` bounds the function and `MaxDepth` the nesting. Each *cast* of
symbols is chosen for one question, and the number of statements for the
longest scenario of it: an owner is lent, the carrier moved or replaced, the
owner changed and the view used (five statements with declarations); two arms
or a loop around a move (six); a view filled into an aggregate, moved, its owner
changed, its first carrier reused (nine, without blocks). For every property there is
a variant of the code (the `Mutant of ...` operators) that a run with these bounds refutes, so
none of them is too small for its case to happen. `call_arguments` (332,687
states) gives calls of two arguments, since the rules are about pairs, in eight
flow states; one of them is the join of two arms, and is met with the execution of
either. `MemoryClassification` has three
compound types: a cycle of two with a third type outside that is classified
before, between or after them.

`bootstrap_loading` (552,440 states) has three files whose lists of imports
have up to three, two and two entries: self-imports, cycles of two and three
entered from either side, diamonds, repeated imports before and after the file
is loaded. Faulty trees add each kind of unreadable file and faulty import, spelled
trees take the targets from `ImportPaths`, and nine command lines, the empty one
among them, hold each way an option can lack its value. `bootstrap_front_end` (143,624 states) gives the
lexer every text of three to five lexemes over eight alphabets, each chosen for
one kind of token, with words of six bits so that the largest number has two
digits; the parser every token sequence of three (four over a smaller alphabet),
every expression of two operators, statements nested twice, items, conditions
and their truncations; the names every unit of up to three items out of fifteen, with
two aliases of builtins that lead to each other, every unit of up to three items in
and outside two arms that are not selected, and three units in every order of
import; the paths every spelling of three components.
`bootstrap_bodies` (1,906,017 states) has every operator on two operands (locals and
literals, those at the boundaries of each type included) and chosen expressions
of up to four operators, on words of four bits (`Wide`), characters of three and
bytes of two, so every value of every local is met: the rules
depend on which of two widths is larger, on signs and on the boundaries, which
all occur; matches have one to three arms with patterns nested twice. Bodies have
up to three locals (two where blocks are nested in blocks), five statements that
store and three levels of blocks: enough for an owner, a reference, a reference
taken through it, a branch that gives each side its own owner, and a use after
the join. The six choices of locals put references before and after what
they view, in inner and outer scopes, as parameters and as locals.

`CHECK_DEADLOCK FALSE` is used everywhere: an analysis ends, with a verdict or at the
bound.

### Fairness

`Stage0Driver` assumes `WF_vars(Step)` and `ProgramLoading`
`WF_loadVars(LoadStep)`: the process is one thread that runs whenever it can,
never waits for another process, and gets each file from a call that returns.
The failure of an allocation (`RunOutOfMemory`, `Starve`) is always possible
and never assumed to happen, so `LoadingEnds` does not lean on it. The
other modules assume no fairness: they are terminating sequential passes whose
properties are safety properties, and a pass that stops early has promised nothing.

### The refinement

`LoadsTheClosure` instantiates `ModuleClosure` with `loaded` as the set of
paths of the units. `OpenUnit` is `Load`, the `CloseUnit` that empties the stack
is `Accept`, a failing step is `Refuse` with the code of its diagnostic,
`Starve` is `Starve`, and `FollowImport`, `RecordImport` and the other
`CloseUnit` steps leave the abstract state as it is. The abstract `Accept`
demands a closed set free of cycles, `Refuse` a reason, so the step that
decides is where the proof has its work.

### What the violation runs show

Each one finds a program that the code accepts although the property fails.
`PROJECT.json` quotes the sentence of the documentation or the comment that it
contradicts. The runs of `MCSafetyFlow` stop at the shortest program; giving
`Constructs` one construct at a time refutes each of the six, the bound views by
a program longer than the run's six statements.

* *Back edges.* The body of a loop is walked once; its final state is merged
  into the exit but never into the entry of the body. `while c { f(x) }` moves
  `x` in each iteration.
* *Jump edges.* `while c { f(x); break }` leaves with `x` moved; the exit state
  is the state before the loop.
* *Views of carriers.* `&r`, with `r` a reference, has the origins of `r`, not `r`.
* *Stored views.* `append(v, r)` moves `r` in and forgets what it viewed.
* *Bound views.* A pattern variable has origins and no borrow:
  `r := &x; a := { r, r }; match a { P(b) => { a := { p, p }; r := p; x := "new"; b } }`,
  with `p` a view the caller lent, ends both recorded borrows of `x`, replaces
  `x` and reads `b`. TLC finds it when the run's cast is cut to these symbols,
  its statements to these forms and `MaxStatements` raised to 9.
* *Recursive views.* A cycle caught at a box erases the view facts of the whole payload.
* *Related arguments.* `f(&x.field, x)` with an owned `x`, and `f(q, q)` with an
  exclusive reference `q`. The third such pair has no run of its own: a
  constructor `C(r, x)`, with `r` a shared reference made from an exclusive one
  that views `x`, consumes `r`, which ends its borrow, and then `x`. The call
  is accepted; what is built is refused wherever its origins are checked.
* *Initialized parts.* `r := &x; x.f := { y }` writes part of `x` below the live
  reader `r`. A copy to the same place is refused.

## What is proved

Eight modules are checked by TLAPS. `FlowLemmas`, `SafetyFlow_proofs` and
`CallArguments_proofs` are about SSF, for every set of symbols, every assignment
of types and every bound; `MemoryClassification_proofs` about the classification,
for every registry of types;
`Stage0Driver_proofs` about the seed's loader and
process, for every set of files, every source tree and every command line;
`SeedFlow_proofs` about the seed's flow check, for every choice of locals and
every length and nesting of bodies; `SeedFrontEnd_proofs` about one import, for
every file system, project root, importer and spelling, about the tokens of
every text, and about the names of every program. `Counting` holds the induction
over numbers that the last of these and the classification need.

* **TypeCorrect**, for every set of constructs: `Spec => [](TypeOK /\ ScopesNest)`. The two are inductive
  together: merging and restricting keep the type of a flow only because the
  borrow counter never decreases and sets of borrows stay within their type;
  and `ScopesNest` needs the types of the frames. The proof has one lemma
  per action. Its key facts are that every statement only adds to what is
  visible (`flow.visible`), that an arm's flow is restricted to the frame's
  entry before it is merged, and that merging two flows with the visibility of the
  entry has that visibility again.
* `FlowLemmas` holds what the operators of `FlowState` and `PathSemantics`
  preserve: typing of every operation, and the `Covers...` lemmas, which say
  for each operation that the flow it stores covers the execution state it
  leads to. They are the steps of the soundness proof.
* **Soundness**, for the core (`Constructs = {}`): `Spec => [](NoFault /\ Covered)`.
  `NoFault` is not inductive: that the next accepted statement does not fault
  follows from the flow describing the paths that reach it. The inductive
  invariant is `Shape /\ Described`, where `Described` says that the flow, and
  the `entry` and `joined` flow of every frame, cover their paths and have
  typed origins, that no path reaches a point control does not reach
  (`~falls => paths = {}`), that an arm that has not joined has left no path
  behind, and that nothing has faulted. Each action is two facts: every path
  is sound at the statement (from `Definite`), and the new flow covers the new
  path (a `Covers...` lemma); `PushDescribed`, `PopDescribed` and
  `TurnDescribed` carry the saved flows through the stack. The hypothesis on
  `Constructs` is used where the violation runs refute it: views of carriers
  (`AssignBorrowDescribed`, `ReturnBorrowDescribed`), stored views
  (`StoreIntoDescribed`), initialized parts (`InitializePartStores`), bound views (`OpenArmDescribed`), jump edges
  (`DepartureDescribed`) and back edges (`OpenLoopDescribed`).
* **BorrowDiscipline**, for every set of constructs: `Spec => [](WriterAlone /\
  BorrowsBacked)`. The inductive invariant `AllTight` states both of every flow
  the driver keeps, since a merge or a scope exit turns a saved flow into the
  current one. `WriterAlone` survives a merge only because `MayMergeBorrows`
  refuses a reader beside a writer, and `BorrowsBacked` only because merged
  flows have the same visible locals (`ScopesNest`).
* **CallInvariantHolds, ArgumentsStayExclusive, RefusalsHaveCause,
  LoansEndWithTheCall**: a call with any number of arguments. `CallInvariant`
  keeps that the flow differs from the entry only in what has left
  (`OnlyMoved`), that each argument was usable at the entry (`Checked`), that an
  owner is taken once (`TakenOnce`), that a direct reference leaves only by a
  constructor that consumes it (`ReferencesStay`), that an owner is taken only
  after the direct references to it left into the same constructor
  (`ViewersFirst`), and that the loans are exactly the places lent and apart from
  each other and from every direct reference (`LoansApart`). At the end
  `AcceptedIsExclusive` goes through the forms of two arguments: two places by
  the loans, a place and a view by the borrow that `Recorded` gives the view,
  two views by `Apart`, an owner and a view by `ViewersFirst`. That `LoansConflict`
  misses no alias is a fact about paths of any length (`MayAlias`).
  `CoveredIsEntry` shows that a flow which `Covers` an execution meets
  `EntriesAssumption`: with `Soundness`, the entries are what SSF reaches.

* **InfiniteTypesRejected, ClassificationOrderIndependent, OwnershipIsExact,
  ViewsAreExactOffCycles**: the classification, for any number of types and any
  registry. `Reach` is shown to be the least set closed under contents
  (`ReachLeast`, `ReachClosed`: each stage that is not closed adds a type, and there
  are only so many), so reachability can be taken apart at a type
  (`ReachOpened`). That the recursive function `Descent` exists is `ComputedFromN`
  on the number of types under analysis, and what is claimed of the descent is
  claimed for every set of types under analysis and handed back from the larger ones
  (`BackFromTypes`). `DescentRight` says of a descent from scratch below any such
  set what its outcome means: a success has exact ownership and no invented view and
  met none of the set through direct containment; a failure has its reason; a
  success that caught no cycle had none to meet. `DescentSame` is the point of the
  cache: it holds only types that reach no cycle (`Good`), so what leads to such a
  type is not met again below it, and the descent with the active set would have
  found what the cache answers. `Good` is kept because an outcome that caught
  nothing is of a type that reaches no cycle, which is what the flag is for. The
  invariant of the walk is `WalkInv`.

* **LoadTypeCorrect, PathsUnique, MarksFollowTheStack, UnitsKeepTheirPlaces,
  LoadingImplementsTheClosure**: the loader. None of the invariants is inductive
  alone. That a new unit has a new path needs to know that a call which has not
  opened its file was made for a path no unit has (`Pending`); that the
  accepted set is closed needs what each activation has passed (`Passed`), that
  the files of closed units import only such files (`DoneClosed`) and that the
  root is the first unit (`RootFirst`). For the absence of cycles the proof
  keeps that the *closed* files have none (`DoneOrdered`): a unit closes after
  all its imports have, so a cycle through it would have to lead back from a
  closed file to one still open; taking the new file out of the set leaves a
  cycle of the old ones (`CloseComplete`). Conversely an import of a marked file
  is refused (E0311) and the refinement has to show that a cycle is really there:
  `LoadingIsTheStack` gives the activations from the target to the top, each
  waiting for the import that opened the next, and with that import they form a
  ring (`LoadingTargetIsCyclic`).
* **LoadedProgramsAreComplete**: `RecordedTo` says of each activation that the
  imports recorded so far stand for the part of the list that was passed; one
  lemma per way an entry is recorded or skipped.
* **DriverTypeCorrect, ExitsReleaseEverything, DriverLoadsTheClosure**: the
  process. What is held is a function of the stage (`Acquired`), which makes every
  exit clean by inspection of the returns; and a step of the driver is a step of
  the loader or leaves it alone, which carries its theorems over.
* **FlowInvariantHolds, FlowReadsAreSound, FlowReturnsOutliveTheCall**: the flow
  check of the seed. `ReadsAreSound` says that a readable reference is not stale;
  what a statement may make stale is decided by *counts* at the owner, so the
  invariant has to tie each live reference to a loan that is counted. A reference
  holds its loan of its `Lender`, the reference it was taken through or else what
  it views. The loan is `Backed`: recorded, and then the records of a local never
  outnumber what is counted there (`Counted`); or, after a join of two branches
  that disagree on it, counted without a record. Beside that, `Chain` and
  `Nested` order the references to one storage, and what is saved in `blocks`
  promises the same of its runs. The proof has one lemma per way a run changes
  (`ValueStep`, `VacateStep`, `BorrowStep`, `CopyStep`, `MoveStep`, `DropStep`),
  one for facts that promise less, for the joins (`WeakerStep`), and one per
  statement. `AssignsItself`, `CopiedOutwards` and `OverwritesLent` are excluded
  exactly where a step needs them.
* **ImportsNeverLeave**: an import. The depth count and the walk over the path are
  recursive functions on the components, so the proof first shows that such a
  function exists (`Iterates`) and that what holds at 0 and is handed on up to the
  length holds there (`UpToN`, by counting: the numbers up to N without it would
  inject into a smaller set). `ReducedSteps` and `ReducedAppend` say what a path
  reaches after each component. The invariant along a spelling is `Tracks`: as
  long as no `..` has climbed out, the count is the depth below the root of what
  was reached, and afterwards it has given up; so `SpellingEscapesExactly`. It
  holds for the project at "/" too, where the parent of the root is the root and
  only the count sees the climb. The canonical path is compared after the links are
  followed (`ResolvedStays`).
* **TokensCover**: the lexer. The scans of `SourceText` are recursive functions of
  the offset; `ComputedFromN` shows, by the same counting, that a function whose
  value at an offset depends on later ones exists, and `BackFromN` that a claim
  handed back from the later offsets holds at each. So every scan ends in the text
  and behind its first byte (`QuotesEnd`, `GuillemetsEnd`, `EscapeEnds`,
  `NumberEnds`, `NameEnds`), which makes each kind of token one of a byte at least
  or an error (`TextTaken` to `OperatorTaken`), and what is skipped before one is
  blanks and comments (`TokenStarts`). `TokensCoverText` speaks of the tokens only;
  the invariant `TextIInv` adds that the cursor stands at the end of the last one
  and carries the position of its offset. That advancing byte by byte keeps the line
  and the column is the counting of line ends and of heads of characters
  (`LinesGrow`, `HeadsGrow`, `AdvancedPosition`).
* **LookupFollowsScope, AcceptedAliasesLead**: names, for every program and every set
  of builtins. The invariant `NamesInvariant` says of the items of each unit that
  a name is bound once and that a public alias names a public item before it
  (`WellBound`), that the two parents of a constructor alias stand for one type, its
  name is new to it and its target is a constructor of it or an earlier alias
  (`ChildrenLead`), and of the tables that the range of a unit holds the declarations
  of its items, all of them and no others, up to the item the collection has reached
  (`TablesHold`). Then `RootName` and `AliasedName` agree (`AliasedIsRoot`), and since
  the names met in as many steps as there are items are closed under the aliases
  (`WayIsLed`: more hops than items meet a name twice, and what follows was met), they find exactly
  what the order-free definition of the scope denotes (`DenotesRoot`, `UnitFinds`).
  The imports are tried one after the other: `Sums` says what `Met` has gathered
  after each, whatever the order. Steps along public aliases and along constructor
  aliases go down in the text, so they end (`PublicLeads`, `ChildEnds`). That the
  invariant is kept is that one item more changes nothing for the ones before it:
  `RootStays`, `ChildAliasesStay`, `ChildrenLeadMore`; the search that has to find the
  target of a constructor alias, and not its name, is `ChildFound` and `ChildNew`.

The only assumptions are those on constants: `SymbolsAssumption` of `MemoryFacts`,
`TypesAssumption` of `MemoryClassification` (identities are the numbers from 0; a
registry gives each a shape),
`BoundsAssumption` of `SafetyFlow`, `FilesAssumption` and `DisksAssumption` of
`ProgramLoading` (no file is named like a fault; trees are records of their type),
`ArgumentsAssumption` of `Stage0Driver`, `PathsAssumption` of `ImportPaths` (paths
are sequences of names), `ImportingsAssumption` of `ImportResolution` (the path of
an importer is canonical, as that of every unit), `TextAssumption` of `SourceText`
(a source is a sequence of bytes, the limits are numbers), `ProgramsAssumption` of
`ModuleNames` (a program is a sequence of units, at least one, an import is the index
of one of them, which is what the loader records; names are not empty),
`FlowAssumption` of `SeedFlow` (the
locals have kinds, the bounds are numbers), and `CallsAssumption` and
`EntriesAssumption` of `CallArguments` (a reborrow is of a direct reference; the
flow state before a call is typed and describes an execution).

Only model-checked: `LoadingEnds` (liveness under fairness, out of the prover's
reach); `TokensExact`, which says what the scans return and not only where they end;
and the properties of the parser, of `SeedExpressions` and of `PatternMatching`
(`ParsesAsWritten`, `AcceptsTheGrammar`, `ComputesExactly`, `FirstMatchWins`,
`RefusedMatchesFail`). The definitions of these three are RECURSIVE operators over
trees (syntax, expressions, patterns), in whose modules the prover has no SMT
backend, and what they compute is proved by induction over the trees, which none of
the provers can instantiate.

## What is not modelled

In SSF: paths that run a loop more than once (only in the run `loop_edges`), and
with them the condition read again before each further iteration,
compile-time value blocks, expressions that combine several of the modelled
effects in one statement other than calls, raw pointers, module values other
than as the destination of a store, the wording and the spans of errors. The
slot index is a function.

In the seed: the spans of trees, the arena and the vectors' growth other than
as an allocation that may fail; malformed bytes beyond one representative and
the character tables beyond the classes the lexer tells apart; keywords beyond a
few; generic templates; in expressions calls, aggregates, references and floating
point; the joins of match arms; in the flow check composites that hold
references, references returned by calls and the loans of a call, known lengths
and the initializer statements; second iterations of a loop. Generics,
layout, the built-in calls and the LLVM code of functions and statements are
not modelled: sequential table-driven translations.

In the rest of the repository: the parts marked "not modelled" above. The
encoders, readers and writers of objects, ABIs and linking are functions from
structures to bytes with no control of their own; the MSIR passes, the register
allocator and the interpreter are programs of their own size and come next in the plan.

### Weaknesses met on the way

Modelling the seed showed behaviours that no property states, because a
property would say what no document promises, or fails by construction:

* the comment at `frontend/parser/parser_atom.c:21` takes a minus sign before a
  literal for part of it, but in an expression the unary operator comes first
  (`parser_expression_unary.c:63`): `-128` at `int8` is accepted, as
  `tests/en/compiler/semantic/literal_target_types.sn:5` wants it, and emitted as a
  subtraction from zero of the word of 128, which is that of -128, so that the
  overflow test stops the program (`NegatesSmallest`);
* a literal above the signed range is int wherever it is not compared with a type
  directly (`semantic/body_atom.c:28`), and its word is a negative number there; the
  comment at `include/private/frontend/ast/expression.h:43` has it typed only as an
  unsigned value (`ReadsWideAsSigned`). Without either exemption `ComputesExactly` is
  violated;
* a pattern may bind one name in two spellings (`kernel/pattern/pattern.c:71`
  compares bytes, `frontend/ast/identity.c:20` identities): both are the later part;
* the emitter keeps the locals of an ended block and searches newest first, so a
  name shadowed in a branch leaks (`llvm/llvm_statements.c:205`);
* the flow check of the seed visits a loop's body once (`body_statement.c:131`);
  `r := r` drops the loan of `r` (`body_borrow.c:401`); an outer reference may
  copy an inner one and outlive what it views (`body_borrow.c:271`); a part of
  a local can be overwritten while the local is lent
  (`body_lvalue_check_assignable.c:19`). `SeedFlow` models each statement and
  names the last three; without any one of these exemptions `ReadsAreSound` is
  violated, so none is wider than the code makes it necessary;
* coverage by nested patterns is an under-approximation: E1306 may refuse a
  complete match and E1307 misses useless arms (hence the word *flat* in
  `RefusedMatchesFail`);
* `(*p).(i)` and two closing angle brackets in a row are not read as the nested forms
  they look like, and lists take no trailing comma. `GrammarForms` writes none of these.

## Plan

1. *(done)* SSF: `MemoryFacts`, `FlowState`, `PathSemantics`, `Coverage`,
   `SafetyFlow` and its runs, `CallArguments`, `MemoryClassification`; type
   correctness, scopes, soundness and the discipline of borrows proved.
2. *(done)* The seed: `ModuleClosure`, `ProgramLoading`, `Stage0Driver` with
   their proofs; `ImportPaths`, `SourceText`, `SeedGrammar`, `ModuleNames`;
   `SeedExpressions`, `PatternMatching`, `SeedFlow`.
3. The rest of the seed's flow check (calls, composites that hold references,
   match arms), and the scopes of the emitter against those of the checker.
4. *(done)* The properties of `CallArguments`, of `MemoryClassification`, of `SeedFlow` and of
   `ImportResolution` and of `ModuleNames`, and `TokensCoverText`, as theorems. Next: `TokensExact` for
   the tokens whose value is not a recursive sum (operators, names, texts).
5. `Liveness` (the fixpoint over the control-flow graph against its definition
   by paths), the register allocator with an abstract contract it implements;
   the MSIR verifier's dominance check; the interpreter's memory.
6. The slot index of SSF as levels of a binary counter, refining the function
   of `FlowState`; compile-time value blocks.
7. The library: hash map with deletion, deque, heap against their abstract
   types; the chunked HTTP reader and the TLS handshake as protocols.
