---------------------------- MODULE ProgramLoading ----------------------------
(* The seed compiler's loader (__Program_Load_File__): a depth-first walk of   *)
(* the import graph. Its recursion is the stack of units being loaded; a call  *)
(* that has not opened its file yet is the request.                            *)
EXTENDS Naturals, Sequences

CONSTANTS Files,   \* canonical source paths
          Disks    \* the source trees considered

VARIABLES disk,        \* the tree being loaded
          units,       \* __Units__: [path, imported, loading]
          stack,       \* activations: [unit, next], the innermost last
          request,     \* the argument of the call just made, or NoFile
          verdict,     \* "running", or what __Program_Load_Root__ returned
          diagnostic,  \* the program's diagnostic
          starved      \* whether an allocation failed

loadVars == <<disk, units, stack, request, verdict, diagnostic, starved>>

NoFile == "no file"
Paths  == {units[i].path : i \in 1..Len(units)}

Closure == INSTANCE ModuleClosure WITH loaded <- Paths

ASSUME FilesAssumption ==
  /\ NoFile \notin Files
  /\ Files \cap Closure!ImportFaults = {}
ASSUME DisksAssumption == Disks \subseteq Closure!DiskRecords

\* Mutant of HasPath: units that are still loading are passed over.
HasPathComplete(f) == \E i \in 1..Len(units) : units[i].path = f /\ ~ units[i].loading

HasPath(f) == f \in Paths
IndexOf(f) == CHOOSE i \in 1..Len(units) : units[i].path = f

Top     == stack[Len(stack)]
Current == disk.imports[units[Top.unit].path]
Target  == Current[Top.next]

\* The walk is inside a unit, no call pending, with an import left.
AtImport ==
  /\ verdict = "running"
  /\ request = NoFile
  /\ stack # <<>>
  /\ Top.next <= Len(Current)

\* Every failure unwinds all activations at once and leaves the units behind.
Fail(code) ==
  /\ verdict' = "failed"
  /\ diagnostic' = code
  /\ stack' = <<>>
  /\ request' = NoFile
  /\ UNCHANGED <<disk, units>>

LoadInit ==
  /\ disk \in Disks
  /\ units = <<>>
  /\ stack = <<>>
  /\ request = disk.root
  /\ verdict = "running"
  /\ diagnostic = "none"
  /\ starved = FALSE

\* Mutant of NewIndex: the count after the push.
NewIndexPastEnd == Len(units) + 2
NewIndex        == Len(units) + 1

\* The file is read and parsed, and its unit enters the vector before its imports.
OpenUnit ==
  /\ verdict = "running"
  /\ request # NoFile
  /\ ~ HasPath(request)
  /\ disk.state[request] = "sound"
  /\ units' = Append(units, [path |-> request, imported |-> <<>>, loading |-> TRUE])
  /\ stack' = Append(stack, [unit |-> NewIndex, next |-> 1])
  /\ request' = NoFile
  /\ UNCHANGED <<disk, verdict, diagnostic, starved>>

RefuseUnit ==
  /\ verdict = "running"
  /\ request # NoFile
  /\ \/ disk.state[request] = "unreadable" /\ Fail("E0103")
     \/ disk.state[request] = "unparsable" /\ Fail("syntax")
  /\ UNCHANGED starved

\* The import cannot be resolved, is no Sultan source, or is still loading.
RefuseImport ==
  /\ AtImport
  /\ \/ Target \notin Files /\ Fail(Closure!FaultCode(Target))
     \/ Target \in Files /\ HasPath(Target) /\ units[IndexOf(Target)].loading /\ Fail("E0311")
  /\ UNCHANGED starved

\* The imported file is not loaded yet: the recursive call.
FollowImport ==
  /\ AtImport
  /\ Target \in Files
  /\ ~ HasPath(Target)
  /\ request' = Target
  /\ UNCHANGED <<disk, units, stack, verdict, diagnostic, starved>>

\* Mutant of HasImportIndex: only the last import is compared.
HasImportLast(u, i) == u.imported # <<>> /\ u.imported[Len(u.imported)] = i

HasImportIndex(u, i) == \E k \in 1..Len(u.imported) : u.imported[k] = i

\* Mutant of WithImport: the vector is started again.
WithImportAlone(u, i) == [path |-> u.path, imported |-> <<i>>, loading |-> u.loading]

WithImport(u, i) ==
  IF HasImportIndex(u, i) THEN u
  ELSE [path |-> u.path, imported |-> Append(u.imported, i), loading |-> u.loading]

\* Mutant of Recordable: a unit still loading is recorded like any other.
RecordableAny(f) == HasPath(f)
Recordable(f)    == HasPath(f) /\ ~ units[IndexOf(f)].loading

\* Mutant of AfterImport: the walk stays at the import it recorded.
AfterImportStays == Top.next
AfterImport      == Top.next + 1

\* The imported unit is complete, by an earlier import or by the call that just
\* returned: its index is recorded once and the walk goes to the next import.
RecordImport ==
  /\ AtImport
  /\ Target \in Files
  /\ Recordable(Target)
  /\ units' = [units EXCEPT ![Top.unit] = WithImport(units[Top.unit], IndexOf(Target))]
  /\ stack' = [stack EXCEPT ![Len(stack)] = [unit |-> Top.unit, next |-> AfterImport]]
  /\ UNCHANGED <<disk, request, verdict, diagnostic, starved>>

\* Mutant of Completed: the mark stays.
CompletedMarked(u) == u
Completed(u)       == [path |-> u.path, imported |-> u.imported, loading |-> FALSE]

\* All imports are recorded: the unit is complete and its call returns.
CloseUnit ==
  /\ verdict = "running"
  /\ request = NoFile
  /\ stack # <<>>
  /\ Top.next > Len(Current)
  /\ units' = [units EXCEPT ![Top.unit] = Completed(units[Top.unit])]
  /\ stack' = SubSeq(stack, 1, Len(stack) - 1)
  /\ verdict' = IF Len(stack) = 1 THEN "loaded" ELSE verdict
  /\ UNCHANGED <<disk, request, diagnostic, starved>>

\* The codes an allocation failure ends in: E1100 where it is noticed, E0103 when
\* the bytes of a file do not fit, a resolution fault when a path does not, and
\* none when the project root itself cannot be named.
StarvedCodes ==
  IF request = NoFile THEN {"E1100", "E0201", "E0202"}
  ELSE IF units = <<>> THEN {"none", "E1100", "E0103"} ELSE {"E1100", "E0103"}

Starve ==
  /\ verdict = "running"
  /\ \E code \in StarvedCodes : Fail(code)
  /\ starved' = TRUE

LoadStep ==
  \/ OpenUnit \/ RefuseUnit
  \/ FollowImport \/ RecordImport \/ RefuseImport
  \/ CloseUnit

\* The process runs on, but is never owed a failed allocation.
LoadSpec == LoadInit /\ [][LoadStep \/ Starve]_loadVars /\ WF_loadVars(LoadStep)

-----------------------------------------------------------------------------
UnitRecords == [path : Files, imported : Seq(1..Len(units)), loading : BOOLEAN]
Activations == [unit : 1..Len(units), next : Nat \ {0}]

\* Every variable of the loader keeps its type: unit indexes stay inside the vector.
LoadTypeOK ==
  /\ disk \in Closure!DiskRecords
  /\ units \in Seq(UnitRecords)
  /\ stack \in Seq(Activations)
  /\ request \in Files \cup {NoFile}
  /\ verdict \in Closure!Verdicts
  /\ diagnostic \in Closure!Codes
  /\ starved \in BOOLEAN

\* A path has one unit, however many imports name it (__Program_Find_Path_Index__).
OneUnitPerPath == \A i, j \in 1..Len(units) : units[i].path = units[j].path => i = j

\* While the walk runs, the units marked loading are exactly the activations, the
\* outer ones first and each waiting for the import that opened the next: the mark
\* alone tells a cycle from a file already loaded.
LoadingIsTheStack ==
  verdict = "running" =>
    /\ \A i \in 1..Len(units) : units[i].loading <=> \E k \in 1..Len(stack) : stack[k].unit = i
    /\ \A j, k \in 1..Len(stack) : j < k => stack[j].unit < stack[k].unit
    /\ \A k \in 1..Len(stack) - 1 :
         LET imports == disk.imports[units[stack[k].unit].path]
         IN  /\ stack[k].next <= Len(imports)
             /\ imports[stack[k].next] = units[stack[k + 1].unit].path

\* A loaded program is complete: no unit is left loading, and the recorded imports
\* of each are the units of its import list, in the order they first occur in it.
FirstOccurrences(s) == {i \in 1..Len(s) : \A j \in 1..i - 1 : s[j] # s[i]}
LoadedIsComplete ==
  verdict = "loaded" =>
    \A i \in 1..Len(units) :
      LET u     == units[i]
          list  == disk.imports[u.path]
          first == FirstOccurrences(list)
      IN  /\ ~ u.loading
          /\ Len(u.imported) <= Len(list)
          /\ \A p, q \in first : p < q =>
               \E m, n \in 1..Len(u.imported) :
                 m < n /\ units[u.imported[m]].path = list[p] /\ units[u.imported[n]].path = list[q]
          /\ {units[u.imported[k]].path : k \in 1..Len(u.imported)} = {list[k] : k \in 1..Len(list)}
          /\ \A m, n \in 1..Len(u.imported) : u.imported[m] = u.imported[n] => m = n

\* A unit's index, its path and the imports already recorded for it never change
\* while the vector that holds it grows: later stages keep these indexes.
UnitsOnlyGrow ==
  [][\A i \in 1..Len(units) :
       /\ i <= Len(units')
       /\ units'[i].path = units[i].path
       /\ SubSeq(units'[i].imported, 1, Len(units[i].imported)) = units[i].imported]_units

\* The loader implements the promise of ModuleClosure.
LoadsTheClosure == Closure!Safety
=============================================================================
