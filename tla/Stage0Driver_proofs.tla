-------------------------- MODULE Stage0Driver_proofs --------------------------
(* The loader keeps its types, one unit per path and its units marked along    *)
(* the stack, and it implements ModuleClosure: for every set of files and      *)
(* every source tree. The driver keeps what the loader promises, and every     *)
(* exit releases what the stages before it acquired.                           *)
EXTENDS Stage0Driver, TLAPS, SequenceTheorems

Units  == [path : Files, imported : Seq(Nat), loading : BOOLEAN]
Calls  == [unit : Nat, next : Nat \ {0}]
Bodies == Seq(Files \cup Closure!ImportFaults)

ListOf(i) == disk.imports[units[i].path]
Done      == {units[i].path : i \in {j \in 1..Len(units) : ~ units[j].loading}}

\* The types, with the indexes bounded by facts of their own.
Shape ==
  /\ disk \in Closure!DiskRecords
  /\ units \in Seq(Units)
  /\ \A i \in 1..Len(units) : \A k \in 1..Len(units[i].imported) :
       units[i].imported[k] \in 1..Len(units)
  /\ stack \in Seq(Calls)
  /\ \A k \in 1..Len(stack) : stack[k].unit \in 1..Len(units)
  /\ request \in Files \cup {NoFile}
  /\ verdict \in Closure!Verdicts
  /\ diagnostic \in Closure!Codes
  /\ starved \in BOOLEAN

\* A call that has not opened its file was made for the import its caller is at.
Pending ==
  verdict = "running" =>
    /\ request = NoFile => Len(stack) > 0
    /\ request # NoFile =>
         /\ ~ HasPath(request)
         /\ Len(stack) = 0 => Len(units) = 0 /\ request = disk.root
         /\ Len(stack) > 0 => Top.next <= Len(Current) /\ Target = request

RootFirst == Len(units) > 0 => units[1].path = disk.root

\* What an activation has passed is complete.
Passed ==
  verdict = "running" =>
    \A k \in 1..Len(stack) : \A p \in 1..Len(ListOf(stack[k].unit)) :
      p < stack[k].next => ListOf(stack[k].unit)[p] \in Done

DoneClosed == \A f \in Done : Closure!Imports(f) \subseteq Done
DoneOrdered == ~ Closure!Cyclic(Done)

Invariant ==
  /\ Shape
  /\ OneUnitPerPath
  /\ LoadingIsTheStack
  /\ Pending
  /\ RootFirst
  /\ Passed
  /\ DoneClosed
  /\ DoneOrdered

-----------------------------------------------------------------------------
(* What each action does to the vector and the stack, element by element.      *)

LEMMA ShapeFacts ==
  ASSUME Shape
  PROVE  /\ Len(units) \in Nat
         /\ Len(stack) \in Nat
         /\ \A i \in 1..Len(units) : units[i] \in Units
         /\ \A k \in 1..Len(stack) : stack[k] \in Calls
         /\ stack = <<>> <=> Len(stack) = 0
         /\ units = <<>> <=> Len(units) = 0
<1>1. units \in Seq(Units) /\ stack \in Seq(Calls)
  BY DEF Shape
<1>2. Len(units) \in Nat /\ Len(stack) \in Nat
  BY <1>1, LenProperties
<1>3. \A i \in 1..Len(units) : units[i] \in Units
  BY <1>1, ElementOfSeq
<1>4. \A k \in 1..Len(stack) : stack[k] \in Calls
  BY <1>1, ElementOfSeq
<1>5. stack = <<>> <=> Len(stack) = 0
  BY <1>1, EmptySeq
<1>6. units = <<>> <=> Len(units) = 0
  BY <1>1, EmptySeq
<1> QED
  BY <1>2, <1>3, <1>4, <1>5, <1>6

LEMMA ElementFacts ==
  ASSUME Shape
  PROVE  /\ \A i \in 1..Len(units) :
              /\ units[i].path \in Files
              /\ units[i].imported \in Seq(Nat)
              /\ units[i].loading \in BOOLEAN
              /\ units[i] = [path |-> units[i].path, imported |-> units[i].imported, loading |-> units[i].loading]
         /\ \A k \in 1..Len(stack) :
              /\ stack[k].unit \in 1..Len(units)
              /\ stack[k].unit \in Nat
              /\ stack[k].next \in Nat \ {0}
              /\ stack[k] = [unit |-> stack[k].unit, next |-> stack[k].next]
<1>1. \A i \in 1..Len(units) : units[i] \in Units
  BY ShapeFacts
<1>2. \A k \in 1..Len(stack) : stack[k] \in Calls /\ stack[k].unit \in 1..Len(units)
  BY ShapeFacts DEF Shape
<1> QED
  BY <1>1, <1>2 DEF Units, Calls

LEMMA ListFacts ==
  ASSUME Shape, NEW f \in Files
  PROVE  /\ disk.imports[f] \in Bodies
         /\ Len(disk.imports[f]) \in Nat
         /\ \A p \in 1..Len(disk.imports[f]) : disk.imports[f][p] \in Files \cup Closure!ImportFaults
<1>1. disk.imports[f] \in Bodies
  BY DEF Shape, Closure!DiskRecords, Bodies
<1> QED
  BY <1>1, LenProperties, ElementOfSeq DEF Bodies

LEMMA TopFacts ==
  ASSUME Shape, Len(stack) > 0
  PROVE  /\ Len(stack) \in 1..Len(stack)
         /\ Top.unit \in 1..Len(units)
         /\ Top.next \in Nat \ {0}
         /\ Top = [unit |-> Top.unit, next |-> Top.next]
         /\ Current \in Bodies
         /\ Len(Current) \in Nat
         /\ Current = ListOf(Top.unit)
<1>1. Len(stack) \in 1..Len(stack)
  BY ShapeFacts
<1>2. /\ Top.unit \in 1..Len(units)
      /\ Top.next \in Nat \ {0}
      /\ Top = [unit |-> Top.unit, next |-> Top.next]
  BY <1>1, ElementFacts DEF Top
<1>3. units[Top.unit].path \in Files
  BY <1>2, ElementFacts
<1> QED
  BY <1>1, <1>2, <1>3, ListFacts DEF Current, ListOf

LEMMA IndexFacts ==
  ASSUME NEW f, HasPath(f)
  PROVE  IndexOf(f) \in 1..Len(units) /\ units[IndexOf(f)].path = f
BY DEF HasPath, Paths, IndexOf

LEMMA OpenFacts ==
  ASSUME Shape, OpenUnit
  PROVE  /\ Len(units') = Len(units) + 1
         /\ \A i \in 1..Len(units) : units'[i] = units[i]
         /\ units'[Len(units) + 1] = [path |-> request, imported |-> <<>>, loading |-> TRUE]
         /\ units' \in Seq(Units)
         /\ Len(stack') = Len(stack) + 1
         /\ \A k \in 1..Len(stack) : stack'[k] = stack[k]
         /\ stack'[Len(stack) + 1] = [unit |-> Len(units) + 1, next |-> 1]
         /\ stack' \in Seq(Calls)
<1> DEFINE U == [path |-> request, imported |-> <<>>, loading |-> TRUE]
           A == [unit |-> Len(units) + 1, next |-> 1]
<1>1. request \in Files
  BY DEF Shape, OpenUnit
<1>2. U \in Units
  BY <1>1, EmptySeq DEF Units
<1>3. A \in Calls
  BY ShapeFacts DEF Calls
<1>4. units' = Append(units, U) /\ stack' = Append(stack, A)
  BY DEF OpenUnit, NewIndex
<1>5. units \in Seq(Units) /\ stack \in Seq(Calls)
  BY DEF Shape
<1> HIDE DEF U, A
<1>6. /\ Len(units') = Len(units) + 1
      /\ \A i \in 1..Len(units) : units'[i] = units[i]
      /\ units'[Len(units) + 1] = U
      /\ units' \in Seq(Units)
  BY <1>2, <1>4, <1>5, AppendProperties
<1>7. /\ Len(stack') = Len(stack) + 1
      /\ \A k \in 1..Len(stack) : stack'[k] = stack[k]
      /\ stack'[Len(stack) + 1] = A
      /\ stack' \in Seq(Calls)
  BY <1>3, <1>4, <1>5, AppendProperties
<1> QED
  BY <1>6, <1>7 DEF U, A

LEMMA RecordFacts ==
  ASSUME Shape, RecordImport
  PROVE  /\ Len(units') = Len(units)
         /\ units' \in Seq(Units)
         /\ \A i \in 1..Len(units) :
              /\ units'[i].path = units[i].path
              /\ units'[i].loading = units[i].loading
              /\ \/ units'[i].imported = units[i].imported
                 \/ units'[i].imported = Append(units[i].imported, IndexOf(Target))
         /\ Len(stack') = Len(stack)
         /\ stack' \in Seq(Calls)
         /\ \A k \in 1..Len(stack) :
              /\ stack'[k].unit = stack[k].unit
              /\ k < Len(stack) => stack'[k] = stack[k]
         /\ stack'[Len(stack)].next = Top.next + 1
         /\ Len(stack) > 0
         /\ IndexOf(Target) \in 1..Len(units)
         /\ units[IndexOf(Target)].path = Target
         /\ ~ units[IndexOf(Target)].loading
<1> DEFINE t == Top.unit
           U == WithImport(units[t], IndexOf(Target))
           A == [unit |-> t, next |-> Top.next + 1]
<1>1. units' = [units EXCEPT ![t] = U] /\ stack' = [stack EXCEPT ![Len(stack)] = A]
  BY DEF RecordImport, AfterImport
<1>2. Len(stack) > 0
  BY ShapeFacts DEF RecordImport, AtImport
<1>3. /\ IndexOf(Target) \in 1..Len(units)
      /\ units[IndexOf(Target)].path = Target
      /\ ~ units[IndexOf(Target)].loading
  BY IndexFacts DEF RecordImport, Recordable
<1>4. /\ t \in 1..Len(units)
      /\ Len(stack) \in 1..Len(stack)
      /\ Top.next \in Nat \ {0}
  BY <1>2, TopFacts
<1>5. /\ units[t].path \in Files
      /\ units[t].imported \in Seq(Nat)
      /\ units[t].loading \in BOOLEAN
      /\ units[t] = [path |-> units[t].path, imported |-> units[t].imported, loading |-> units[t].loading]
  BY <1>4, ElementFacts
<1>6. /\ U.path = units[t].path
      /\ U.loading = units[t].loading
      /\ \/ U.imported = units[t].imported
         \/ U.imported = Append(units[t].imported, IndexOf(Target))
  BY <1>5 DEF WithImport
<1>7. IndexOf(Target) \in Nat
  BY <1>3, ShapeFacts
<1>8. Append(units[t].imported, IndexOf(Target)) \in Seq(Nat)
  BY <1>5, <1>7, AppendProperties
<1>9. U \in Units
  <2>1. CASE HasImportIndex(units[t], IndexOf(Target))
    BY <1>4, <2>1, ShapeFacts DEF WithImport
  <2>2. CASE ~ HasImportIndex(units[t], IndexOf(Target))
    BY <1>5, <1>8, <2>2 DEF WithImport, Units
  <2> QED
    BY <2>1, <2>2
<1>10. A \in Calls
  BY <1>4, ShapeFacts DEF Calls
<1>11. units \in Seq(Units) /\ stack \in Seq(Calls)
  BY DEF Shape
<1>12. A.unit = t /\ A.next = Top.next + 1 /\ t = stack[Len(stack)].unit
  BY DEF Top
<1> HIDE DEF t, U, A
<1>13. /\ units' \in Seq(Units)
       /\ Len(units') = Len(units)
       /\ \A i \in 1..Len(units) : units'[i] = IF i = t THEN U ELSE units[i]
  BY <1>1, <1>4, <1>9, <1>11, ExceptSeq
<1>14. /\ stack' \in Seq(Calls)
       /\ Len(stack') = Len(stack)
       /\ \A k \in 1..Len(stack) : stack'[k] = IF k = Len(stack) THEN A ELSE stack[k]
  BY <1>1, <1>4, <1>10, <1>11, ExceptSeq
<1>15. \A i \in 1..Len(units) :
              /\ units'[i].path = units[i].path
              /\ units'[i].loading = units[i].loading
              /\ \/ units'[i].imported = units[i].imported
                 \/ units'[i].imported = Append(units[i].imported, IndexOf(Target))
  BY <1>6, <1>13
<1>16. \A k \in 1..Len(stack) :
              /\ stack'[k].unit = stack[k].unit
              /\ k < Len(stack) => stack'[k] = stack[k]
  BY <1>12, <1>14, ShapeFacts
<1>17. stack'[Len(stack)].next = Top.next + 1
  BY <1>4, <1>12, <1>14
<1> QED
  BY <1>2, <1>3, <1>13, <1>14, <1>15, <1>16, <1>17

LEMMA CloseFacts ==
  ASSUME Shape, CloseUnit
  PROVE  /\ Len(units') = Len(units)
         /\ units' \in Seq(Units)
         /\ \A i \in 1..Len(units) :
              /\ units'[i].path = units[i].path
              /\ units'[i].imported = units[i].imported
              /\ units'[i].loading = IF i = Top.unit THEN FALSE ELSE units[i].loading
         /\ Len(stack) > 0
         /\ Len(stack') = Len(stack) - 1
         /\ stack' \in Seq(Calls)
         /\ \A k \in 1..Len(stack') : stack'[k] = stack[k]
<1> DEFINE t == Top.unit
           U == Completed(units[t])
<1>1. units' = [units EXCEPT ![t] = U] /\ stack' = SubSeq(stack, 1, Len(stack) - 1)
  BY DEF CloseUnit
<1>2. Len(stack) > 0 /\ Len(stack) \in Nat
  BY ShapeFacts DEF CloseUnit
<1>3. t \in 1..Len(units)
  BY <1>2, TopFacts
<1>4. /\ units[t].path \in Files
      /\ units[t].imported \in Seq(Nat)
  BY <1>3, ElementFacts
<1>5. U \in Units
  BY <1>4 DEF Units, Completed
<1>6. U.path = units[t].path /\ U.imported = units[t].imported /\ U.loading = FALSE
  BY DEF Completed
<1>7. units \in Seq(Units)
  BY DEF Shape
<1>8. \A i \in 1..Len(stack) - 1 : stack[i] \in Calls
  BY <1>2, ShapeFacts
<1> HIDE DEF U
<1>9. /\ units' \in Seq(Units)
      /\ Len(units') = Len(units)
      /\ \A i \in 1..Len(units) : units'[i] = IF i = t THEN U ELSE units[i]
  BY <1>1, <1>3, <1>5, <1>7, ExceptSeq
<1> DEFINE n == Len(stack) - 1
<1>10. n \in Int /\ 1 \in Int /\ n \in Nat
  BY <1>2
<1>11. /\ SubSeq(stack, 1, n) \in Seq(Calls)
       /\ Len(SubSeq(stack, 1, n)) = IF 1 <= n THEN n - 1 + 1 ELSE 0
       /\ \A i \in 1..n - 1 + 1 : SubSeq(stack, 1, n)[i] = stack[1 + i - 1]
  <2> HIDE DEF n
  <2>1. \A i \in 1..n : stack[i] \in Calls
    BY <1>8 DEF n
  <2> QED
    BY <1>10, <2>1, SubSeqProperties
<1>12. /\ stack' \in Seq(Calls)
       /\ Len(stack') = Len(stack) - 1
       /\ \A k \in 1..Len(stack') : stack'[k] = stack[k]
  <2> HIDE DEF n
  <2>1. stack' = SubSeq(stack, 1, n) /\ n = Len(stack) - 1
    BY <1>1 DEF n
  <2>2. Len(SubSeq(stack, 1, n)) = n /\ n - 1 + 1 = n
    BY <1>10, <1>11
  <2>3. \A k \in 1..n : SubSeq(stack, 1, n)[k] = stack[k]
    BY <1>10, <1>11, <2>2
  <2> QED
    BY <1>11, <2>1, <2>2, <2>3
<1>13. \A i \in 1..Len(units) :
              /\ units'[i].path = units[i].path
              /\ units'[i].imported = units[i].imported
              /\ units'[i].loading = IF i = Top.unit THEN FALSE ELSE units[i].loading
  BY <1>6, <1>9
<1> QED
  BY <1>2, <1>9, <1>12, <1>13

Failing == RefuseUnit \/ RefuseImport \/ Starve

LEMMA FaultCodeTyped ==
  ASSUME NEW fault \in Closure!ImportFaults
  PROVE  Closure!FaultCode(fault) \in Closure!Codes
BY DEF Closure!ImportFaults, Closure!FaultCode, Closure!Codes

LEMMA TargetFacts ==
  ASSUME Shape, AtImport
  PROVE  /\ Len(stack) > 0
         /\ Top.next \in 1..Len(Current)
         /\ Target \in Files \cup Closure!ImportFaults
<1>1. Len(stack) > 0
  BY ShapeFacts DEF AtImport
<1>2. Top.next \in 1..Len(Current) /\ Current \in Bodies
  BY <1>1, TopFacts DEF AtImport
<1> QED
  BY <1>1, <1>2, ElementOfSeq DEF Bodies, Target

LEMMA FailFacts ==
  ASSUME Shape, Failing
  PROVE  /\ verdict = "running"
         /\ verdict' = "failed"
         /\ disk' = disk
         /\ units' = units
         /\ stack' = <<>>
         /\ request' = NoFile
         /\ diagnostic' \in Closure!Codes
         /\ starved' \in BOOLEAN
<1>1. CASE RefuseUnit
  BY <1>1 DEF RefuseUnit, Fail, Shape, Closure!Codes
<1>2. CASE RefuseImport
  <2>1. Target \notin Files => Target \in Closure!ImportFaults
    BY <1>2, TargetFacts DEF RefuseImport
  <2>2. Target \notin Files => Closure!FaultCode(Target) \in Closure!Codes
    BY <2>1, FaultCodeTyped
  <2>3. "E0311" \in Closure!Codes
    BY DEF Closure!Codes
  <2> QED
    BY <1>2, <2>2, <2>3 DEF RefuseImport, AtImport, Fail, Shape
<1>3. CASE Starve
  BY <1>3 DEF Starve, StarvedCodes, Fail, Closure!Codes
<1> QED
  BY <1>1, <1>2, <1>3 DEF Failing

LEMMA InitInvariant ==
  ASSUME LoadInit
  PROVE  Invariant
<1>1. disk \in Closure!DiskRecords
  BY DisksAssumption DEF LoadInit
<1>2. disk.root \in Files
  BY <1>1 DEF Closure!DiskRecords
<1>3. units = <<>> /\ stack = <<>> /\ units \in Seq(Units) /\ stack \in Seq(Calls) /\ Len(units) = 0 /\ Len(stack) = 0
  BY EmptySeq DEF LoadInit
<1>4. Done = {} /\ Paths = {}
  <2>1. 1..Len(units) = {}
    BY <1>3
  <2>2. Paths = {}
    BY <2>1 DEF Paths
  <2>3. Done = {}
    BY <2>1 DEF Done
  <2> QED
    BY <2>2, <2>3
<1>5. Shape
  <2>1. \A i \in 1..Len(units) : \A k \in 1..Len(units[i].imported) : units[i].imported[k] \in 1..Len(units)
    BY <1>3
  <2>2. \A k \in 1..Len(stack) : stack[k].unit \in 1..Len(units)
    BY <1>3
  <2>3. request \in Files \cup {NoFile}
    BY <1>2 DEF LoadInit
  <2>4. verdict \in Closure!Verdicts /\ diagnostic \in Closure!Codes /\ starved \in BOOLEAN
    BY DEF LoadInit, Closure!Verdicts, Closure!Codes
  <2> QED
    BY <1>1, <1>3, <2>1, <2>2, <2>3, <2>4 DEF Shape
<1>6. OneUnitPerPath /\ LoadingIsTheStack /\ RootFirst /\ Passed
  BY <1>3 DEF OneUnitPerPath, LoadingIsTheStack, RootFirst, Passed
<1>7. Pending
  BY <1>2, <1>3, <1>4, FilesAssumption DEF LoadInit, Pending, HasPath
<1>8. DoneClosed /\ DoneOrdered
  BY <1>4 DEF DoneClosed, DoneOrdered, Closure!Cyclic
<1> QED
  BY <1>5, <1>6, <1>7, <1>8 DEF Invariant

-----------------------------------------------------------------------------
(* The types.                                                                  *)

LEMMA OpenShape ==
  ASSUME Shape, OpenUnit
  PROVE  Shape'
<1>1. /\ disk' = disk
      /\ request' = NoFile
      /\ UNCHANGED <<verdict, diagnostic, starved>>
  BY DEF OpenUnit
<1>2. \A i \in 1..Len(units') : \A k \in 1..Len(units'[i].imported) :
        units'[i].imported[k] \in 1..Len(units')
  <2> SUFFICES ASSUME NEW i \in 1..Len(units'), NEW k \in 1..Len(units'[i].imported)
               PROVE  units'[i].imported[k] \in 1..Len(units')
    OBVIOUS
  <2>1. CASE i \in 1..Len(units)
    <3>1. units'[i].imported = units[i].imported
      BY <2>1, OpenFacts
    <3>2. units[i].imported[k] \in 1..Len(units)
      BY <2>1, <3>1 DEF Shape
    <3> QED
      BY <3>1, <3>2, OpenFacts, ShapeFacts
  <2>2. CASE i = Len(units) + 1
    <3>1. units'[i].imported = <<>>
      BY <2>2, OpenFacts
    <3> QED
      BY <3>1, EmptySeq
  <2> QED
    BY <2>1, <2>2, OpenFacts, ShapeFacts
<1>3. \A k \in 1..Len(stack') : stack'[k].unit \in 1..Len(units')
  <2> SUFFICES ASSUME NEW k \in 1..Len(stack')
               PROVE  stack'[k].unit \in 1..Len(units')
    OBVIOUS
  <2>1. CASE k \in 1..Len(stack)
    <3>1. stack'[k].unit = stack[k].unit /\ Len(units') = Len(units) + 1
      BY <2>1, OpenFacts
    <3>2. stack[k].unit \in 1..Len(units)
      BY <2>1, ElementFacts
    <3> QED
      BY <3>1, <3>2, ShapeFacts
  <2>2. CASE k = Len(stack) + 1
    BY <2>2, OpenFacts, ShapeFacts
  <2> QED
    BY <2>1, <2>2, OpenFacts, ShapeFacts
<1>4. units' \in Seq(Units) /\ stack' \in Seq(Calls)
  BY OpenFacts
<1> QED
  BY <1>1, <1>2, <1>3, <1>4 DEF Shape

LEMMA FollowShape ==
  ASSUME Shape, FollowImport
  PROVE  Shape'
BY DEF Shape, FollowImport

LEMMA RecordShape ==
  ASSUME Shape, RecordImport
  PROVE  Shape'
<1>1. UNCHANGED <<disk, request, verdict, diagnostic, starved>>
  BY DEF RecordImport
<1>2. \A i \in 1..Len(units') : \A k \in 1..Len(units'[i].imported) :
        units'[i].imported[k] \in 1..Len(units')
  <2> SUFFICES ASSUME NEW i \in 1..Len(units'), NEW k \in 1..Len(units'[i].imported)
               PROVE  units'[i].imported[k] \in 1..Len(units')
    OBVIOUS
  <2>1. i \in 1..Len(units) /\ Len(units') = Len(units)
    BY RecordFacts
  <2>2. CASE units'[i].imported = units[i].imported
    BY <2>1, <2>2 DEF Shape
  <2>3. CASE units'[i].imported = Append(units[i].imported, IndexOf(Target))
    <3>1. units[i].imported \in Seq(Nat)
      BY <2>1, ElementFacts
    <3>2. IndexOf(Target) \in 1..Len(units) /\ IndexOf(Target) \in Nat
      BY RecordFacts, ShapeFacts
    <3>3. Len(units[i].imported) \in Nat
      BY <3>1, LenProperties
    <3>4. /\ Len(units'[i].imported) = Len(units[i].imported) + 1
          /\ \A p \in 1..Len(units[i].imported) : units'[i].imported[p] = units[i].imported[p]
          /\ units'[i].imported[Len(units[i].imported) + 1] = IndexOf(Target)
      BY <2>3, <3>1, <3>2, AppendProperties
    <3>5. \A p \in 1..Len(units[i].imported) : units[i].imported[p] \in 1..Len(units)
      BY <2>1 DEF Shape
    <3>6. k \in 1..Len(units[i].imported) \/ k = Len(units[i].imported) + 1
      BY <3>3, <3>4
    <3> QED
      BY <2>1, <3>2, <3>4, <3>5, <3>6
  <2> QED
    BY <2>1, <2>2, <2>3, RecordFacts
<1>3. \A k \in 1..Len(stack') : stack'[k].unit \in 1..Len(units')
  BY RecordFacts, ElementFacts
<1>4. units' \in Seq(Units) /\ stack' \in Seq(Calls)
  BY RecordFacts
<1> QED
  BY <1>1, <1>2, <1>3, <1>4 DEF Shape

LEMMA CloseShape ==
  ASSUME Shape, CloseUnit
  PROVE  Shape'
<1>1. UNCHANGED <<disk, request, diagnostic, starved>> /\ verdict' \in Closure!Verdicts
  BY DEF CloseUnit, Shape, Closure!Verdicts
<1>2. \A i \in 1..Len(units') : \A k \in 1..Len(units'[i].imported) :
        units'[i].imported[k] \in 1..Len(units')
  BY CloseFacts DEF Shape
<1>3. \A k \in 1..Len(stack') : stack'[k].unit \in 1..Len(units')
  <2> SUFFICES ASSUME NEW k \in 1..Len(stack')
               PROVE  stack'[k].unit \in 1..Len(units')
    OBVIOUS
  <2>1. k \in 1..Len(stack)
    BY CloseFacts, ShapeFacts
  <2>2. stack[k].unit \in 1..Len(units)
    BY <2>1, ElementFacts
  <2>3. stack'[k] = stack[k] /\ Len(units') = Len(units)
    BY CloseFacts
  <2> QED
    BY <2>2, <2>3
<1>4. units' \in Seq(Units) /\ stack' \in Seq(Calls)
  BY CloseFacts
<1> QED
  BY <1>1, <1>2, <1>3, <1>4 DEF Shape

LEMMA FailShape ==
  ASSUME Shape, Failing
  PROVE  Shape'
<1>1. stack' \in Seq(Calls) /\ Len(stack') = 0
  BY FailFacts, EmptySeq
<1>2. verdict' \in Closure!Verdicts
  BY FailFacts DEF Closure!Verdicts
<1> QED
  BY <1>1, <1>2, FailFacts DEF Shape

-----------------------------------------------------------------------------
(* One unit per path, and the units that are loading along the stack.          *)

Marked  == \A i \in 1..Len(units) : units[i].loading <=> \E k \in 1..Len(stack) : stack[k].unit = i
Ordered == \A j, k \in 1..Len(stack) : j < k => stack[j].unit < stack[k].unit
Linked  == \A k \in 1..Len(stack) - 1 :
             /\ stack[k].next <= Len(ListOf(stack[k].unit))
             /\ ListOf(stack[k].unit)[stack[k].next] = units[stack[k + 1].unit].path

LEMMA StackParts ==
  /\ LoadingIsTheStack <=> (verdict = "running" => Marked /\ Ordered /\ Linked)
  /\ LoadingIsTheStack' <=> (verdict' = "running" => Marked' /\ Ordered' /\ Linked')
BY DEF LoadingIsTheStack, Marked, Ordered, Linked, ListOf

LEMMA OpenUnique ==
  ASSUME Shape, OneUnitPerPath, OpenUnit
  PROVE  OneUnitPerPath'
<1> DEFINE n == Len(units) + 1
<1>1. \A i \in 1..Len(units) : units'[i].path = units[i].path /\ units[i].path # request
  BY OpenFacts DEF OpenUnit, HasPath, Paths
<1>2. units'[n].path = request
  BY OpenFacts
<1>3. \A i \in 1..Len(units') : i \in 1..Len(units) \/ i = n
  BY OpenFacts, ShapeFacts
<1> HIDE DEF n
<1> QED
  BY <1>1, <1>2, <1>3 DEF OneUnitPerPath

LEMMA OpenStack ==
  ASSUME Shape, LoadingIsTheStack, Pending, OpenUnit
  PROVE  LoadingIsTheStack'
<1>1. /\ verdict = "running"
      /\ verdict' = verdict
      /\ disk' = disk
      /\ request # NoFile
  BY DEF OpenUnit
<1>2. Marked /\ Ordered /\ Linked
  BY <1>1, StackParts
<1> DEFINE n == Len(units)
           d == Len(stack)
<1>3. n \in Nat /\ d \in Nat
  BY ShapeFacts
<1>4. /\ Len(units') = n + 1
      /\ Len(stack') = d + 1
      /\ \A i \in 1..n : units'[i] = units[i]
      /\ \A k \in 1..d : stack'[k] = stack[k]
      /\ stack'[d + 1].unit = n + 1
      /\ units'[n + 1].path = request
      /\ units'[n + 1].loading = TRUE
  BY OpenFacts
<1>5. \A k \in 1..d : stack[k].unit \in 1..n /\ stack[k].unit \in Nat
  BY ElementFacts
<1> HIDE DEF n, d
<1>6. Marked'
  <2> SUFFICES ASSUME NEW i \in 1..n + 1
               PROVE  units'[i].loading <=> \E k \in 1..d + 1 : stack'[k].unit = i
    BY <1>4 DEF Marked
  <2>1. CASE i \in 1..n
    <3>1. i # n + 1
      BY <1>3, <2>1
    <3>2. units'[i].loading <=> \E k \in 1..d : stack[k].unit = i
      BY <1>2, <1>4, <2>1 DEF Marked, n, d
    <3>3. (\E k \in 1..d + 1 : stack'[k].unit = i) <=> \E k \in 1..d : stack[k].unit = i
      <4>1. \A k \in 1..d + 1 : k \in 1..d \/ k = d + 1
        BY <1>3
      <4>2. 1..d \subseteq 1..d + 1
        BY <1>3
      <4> QED
        BY <1>4, <3>1, <4>1, <4>2
    <3> QED
      BY <3>2, <3>3
  <2>2. CASE i = n + 1
    <3>1. d + 1 \in 1..d + 1
      BY <1>3
    <3> QED
      BY <1>4, <2>2, <3>1
  <2> QED
    BY <1>3, <2>1, <2>2
<1>7. Ordered'
  <2> SUFFICES ASSUME NEW j \in 1..d + 1, NEW k \in 1..d + 1, j < k
               PROVE  stack'[j].unit < stack'[k].unit
    BY <1>4 DEF Ordered
  <2>1. j \in 1..d
    BY <1>3
  <2>2. CASE k \in 1..d
    BY <1>2, <1>4, <2>1, <2>2 DEF Ordered, d
  <2>3. CASE k = d + 1
    <3>1. stack'[j].unit = stack[j].unit /\ stack[j].unit \in 1..n
      BY <1>4, <1>5, <2>1
    <3> QED
      BY <1>3, <1>4, <2>3, <3>1
  <2> QED
    BY <1>3, <2>2, <2>3
<1>8. Linked'
  <2> SUFFICES ASSUME NEW k \in 1..d
               PROVE  /\ stack'[k].next <= Len(ListOf(stack[k].unit)')
                      /\ (ListOf(stack[k].unit)')[stack'[k].next] = units'[stack'[k + 1].unit].path
    <3>1. Len(stack') - 1 = d
      BY <1>3, <1>4
    <3> QED
      BY <3>1 DEF Linked
  <2>0. ListOf(stack[k].unit)' = ListOf(stack[k].unit)
    <3>1. stack'[k].unit = stack[k].unit /\ units'[stack[k].unit] = units[stack[k].unit]
      BY <1>4, <1>5
    <3> QED
      BY <1>1, <3>1 DEF ListOf
  <2>1. CASE k < d
    <3>1. k \in 1..d - 1 /\ k + 1 \in 1..d
      BY <1>3, <2>1
    <3>2. /\ stack[k].next <= Len(ListOf(stack[k].unit))
          /\ ListOf(stack[k].unit)[stack[k].next] = units[stack[k + 1].unit].path
      BY <1>2, <3>1 DEF Linked, d
    <3>3. stack'[k] = stack[k] /\ stack'[k + 1] = stack[k + 1] /\ units'[stack[k + 1].unit] = units[stack[k + 1].unit]
      BY <1>4, <1>5, <3>1
    <3> QED
      BY <2>0, <3>2, <3>3
  <2>2. CASE k = d
    <3>1. Len(stack) > 0
      BY <1>3, <2>2 DEF d
    <3>2. Top.next <= Len(Current) /\ Target = request
      BY <1>1, <3>1 DEF Pending
    <3>3. Top = stack[k] /\ Current = ListOf(stack[k].unit) /\ Target = ListOf(stack[k].unit)[stack[k].next]
      BY <2>2 DEF Top, Current, Target, ListOf, d
    <3>4. stack'[k] = stack[k] /\ units'[stack'[k + 1].unit].path = request
      BY <1>4, <2>2
    <3> QED
      BY <2>0, <3>2, <3>3, <3>4
  <2> QED
    BY <1>3, <2>1, <2>2
<1> QED
  BY <1>6, <1>7, <1>8, StackParts

LEMMA RecordUnique ==
  ASSUME Shape, OneUnitPerPath, RecordImport
  PROVE  OneUnitPerPath'
BY RecordFacts DEF OneUnitPerPath

LEMMA CloseUnique ==
  ASSUME Shape, OneUnitPerPath, CloseUnit
  PROVE  OneUnitPerPath'
BY CloseFacts DEF OneUnitPerPath

LEMMA RecordStack ==
  ASSUME Shape, LoadingIsTheStack, RecordImport
  PROVE  LoadingIsTheStack'
<1>1. /\ verdict = "running"
      /\ disk' = disk
  BY DEF RecordImport, AtImport
<1>2. Marked /\ Ordered /\ Linked
  BY <1>1, StackParts
<1>3. Len(units') = Len(units) /\ Len(stack') = Len(stack)
  BY RecordFacts
<1>4. \A i \in 1..Len(units) : units'[i].path = units[i].path /\ units'[i].loading = units[i].loading
  BY RecordFacts
<1>5. \A k \in 1..Len(stack) : stack'[k].unit = stack[k].unit
  BY RecordFacts
<1>6. Marked'
  BY <1>2, <1>3, <1>4, <1>5 DEF Marked
<1>7. Ordered'
  BY <1>2, <1>3, <1>5 DEF Ordered
<1>8. Linked'
  <2> SUFFICES ASSUME NEW k \in 1..Len(stack) - 1
               PROVE  /\ stack'[k].next <= Len(ListOf(stack[k].unit)')
                      /\ (ListOf(stack[k].unit)')[stack'[k].next] = units'[stack'[k + 1].unit].path
    BY <1>3 DEF Linked
  <2>1. k \in 1..Len(stack) /\ k + 1 \in 1..Len(stack) /\ k < Len(stack)
    BY ShapeFacts
  <2>2. stack'[k] = stack[k] /\ stack'[k + 1].unit = stack[k + 1].unit
    BY <2>1, RecordFacts
  <2>3. stack[k].unit \in 1..Len(units) /\ stack[k + 1].unit \in 1..Len(units)
    BY <2>1, ElementFacts
  <2>4. ListOf(stack[k].unit)' = ListOf(stack[k].unit)
    BY <1>1, <1>4, <2>2, <2>3 DEF ListOf
  <2>5. units'[stack'[k + 1].unit].path = units[stack[k + 1].unit].path
    BY <1>4, <2>2, <2>3
  <2> QED
    BY <1>2, <2>2, <2>4, <2>5 DEF Linked
<1> QED
  BY <1>6, <1>7, <1>8, StackParts

LEMMA CloseStack ==
  ASSUME Shape, LoadingIsTheStack, CloseUnit
  PROVE  /\ LoadingIsTheStack'
         /\ \A i \in 1..Len(units') : units'[i].loading <=> \E k \in 1..Len(stack') : stack'[k].unit = i
<1> DEFINE d == Len(stack)
<1>1. verdict = "running" /\ disk' = disk
  BY DEF CloseUnit
<1>2. Marked /\ Ordered /\ Linked
  BY <1>1, StackParts
<1>3. d \in Nat /\ d > 0 /\ Len(stack') = d - 1 /\ Len(units') = Len(units)
  BY CloseFacts, ShapeFacts
<1>4. \A i \in 1..Len(units) :
        /\ units'[i].path = units[i].path
        /\ units'[i].loading = IF i = stack[d].unit THEN FALSE ELSE units[i].loading
  BY CloseFacts DEF Top
<1>5. \A k \in 1..d - 1 : stack'[k] = stack[k]
  BY <1>3, CloseFacts
<1>6. \A k \in 1..d : stack[k].unit \in 1..Len(units) /\ stack[k].unit \in Nat
  BY ElementFacts
<1> HIDE DEF d
<1>7. Marked'
  <2> SUFFICES ASSUME NEW i \in 1..Len(units)
               PROVE  units'[i].loading <=> \E k \in 1..d - 1 : stack'[k].unit = i
    BY <1>3 DEF Marked
  <2>1. units[i].loading <=> \E k \in 1..d : stack[k].unit = i
    BY <1>2 DEF Marked, d
  <2>2. d \in 1..d /\ \A k \in 1..d : k \in 1..d - 1 \/ k = d
    BY <1>3
  <2>3. \A k \in 1..d - 1 : k \in 1..d /\ k < d
    BY <1>3
  <2>4. CASE i = stack[d].unit
    <3>1. \A k \in 1..d - 1 : stack[k].unit < stack[d].unit /\ stack[k].unit \in Nat /\ stack[d].unit \in Nat
      BY <1>2, <1>6, <2>2, <2>3 DEF Ordered, d
    <3>2. \A k \in 1..d - 1 : stack'[k].unit # i
      BY <1>5, <2>4, <3>1
    <3>3. units'[i].loading = FALSE
      BY <1>4, <2>4
    <3> QED
      BY <3>2, <3>3
  <2>5. CASE i # stack[d].unit
    <3>1. units'[i].loading = units[i].loading
      BY <1>4, <2>5
    <3>2. (\E k \in 1..d : stack[k].unit = i) <=> \E k \in 1..d - 1 : stack'[k].unit = i
      BY <1>5, <2>2, <2>3, <2>5
    <3> QED
      BY <2>1, <3>1, <3>2
  <2> QED
    BY <2>4, <2>5
<1>8. Ordered'
  <2> SUFFICES ASSUME NEW j \in 1..d - 1, NEW k \in 1..d - 1, j < k
               PROVE  stack'[j].unit < stack'[k].unit
    BY <1>3 DEF Ordered
  <2>1. j \in 1..d /\ k \in 1..d
    BY <1>3
  <2> QED
    BY <1>2, <1>5, <2>1 DEF Ordered, d
<1>9. Linked'
  <2> SUFFICES ASSUME NEW k \in 1..d - 2
               PROVE  /\ stack'[k].next <= Len(ListOf(stack[k].unit)')
                      /\ (ListOf(stack[k].unit)')[stack'[k].next] = units'[stack'[k + 1].unit].path
    <3>1. Len(stack') - 1 = d - 2
      BY <1>3
    <3> QED
      BY <3>1 DEF Linked
  <2>1. k \in 1..d - 1 /\ k + 1 \in 1..d - 1 /\ k \in 1..d /\ k + 1 \in 1..d
    BY <1>3
  <2>2. stack'[k] = stack[k] /\ stack'[k + 1] = stack[k + 1]
    BY <1>5, <2>1
  <2>3. stack[k].unit \in 1..Len(units) /\ stack[k + 1].unit \in 1..Len(units)
    BY <1>6, <2>1
  <2>4. ListOf(stack[k].unit)' = ListOf(stack[k].unit)
    BY <1>1, <1>4, <2>2, <2>3 DEF ListOf
  <2>5. units'[stack'[k + 1].unit].path = units[stack[k + 1].unit].path
    BY <1>4, <2>2, <2>3
  <2> QED
    BY <1>2, <2>1, <2>2, <2>4, <2>5 DEF Linked, d
<1> QED
  BY <1>7, <1>8, <1>9, StackParts DEF Marked

-----------------------------------------------------------------------------
(* The calls, and what is complete.                                            *)

LEMMA OpenPaths ==
  ASSUME Shape, OpenUnit
  PROVE  Done' = Done /\ Paths' = Paths \cup {request}
<1> DEFINE n == Len(units)
<1>1. n \in Nat /\ Len(units') = n + 1
  BY OpenFacts, ShapeFacts
<1>2. /\ \A i \in 1..n : units'[i] = units[i]
      /\ units'[n + 1].path = request
      /\ units'[n + 1].loading = TRUE
  BY OpenFacts
<1> HIDE DEF n
<1>3. 1..n + 1 = (1..n) \cup {n + 1}
  BY <1>1
<1>4. Paths' = {units'[i].path : i \in 1..n + 1} /\ Paths = {units[i].path : i \in 1..n}
  BY <1>1 DEF Paths, n
<1>5. Paths' = Paths \cup {request}
  BY <1>2, <1>3, <1>4
<1>6. {j \in 1..n + 1 : ~ units'[j].loading} = {j \in 1..n : ~ units[j].loading}
  BY <1>2, <1>3
<1>7. Done' = {units'[i].path : i \in {j \in 1..n + 1 : ~ units'[j].loading}}
  BY <1>1 DEF Done
<1>8. Done = {units[i].path : i \in {j \in 1..n : ~ units[j].loading}}
  BY DEF Done, n
<1>9. Done' = Done
  BY <1>2, <1>6, <1>7, <1>8
<1> QED
  BY <1>5, <1>9

LEMMA RecordPaths ==
  ASSUME Shape, RecordImport
  PROVE  Done' = Done /\ Paths' = Paths
<1>1. /\ Len(units') = Len(units)
      /\ \A i \in 1..Len(units) : units'[i].path = units[i].path /\ units'[i].loading = units[i].loading
  BY RecordFacts
<1>2. Paths' = Paths
  BY <1>1 DEF Paths
<1>3. {j \in 1..Len(units') : ~ units'[j].loading} = {j \in 1..Len(units) : ~ units[j].loading}
  BY <1>1
<1>4. Done' = Done
  BY <1>1, <1>3 DEF Done
<1> QED
  BY <1>2, <1>4

LEMMA ClosePaths ==
  ASSUME Shape, OneUnitPerPath, LoadingIsTheStack, CloseUnit
  PROVE  /\ Paths' = Paths
         /\ Done' = Done \cup {units[Top.unit].path}
         /\ units[Top.unit].path \notin Done
<1> DEFINE t == Top.unit
<1>1. /\ Len(units') = Len(units)
      /\ \A i \in 1..Len(units) :
           /\ units'[i].path = units[i].path
           /\ units'[i].loading = IF i = t THEN FALSE ELSE units[i].loading
  BY CloseFacts
<1>2. Len(stack) > 0
  BY CloseFacts
<1>3. t \in 1..Len(units) /\ Len(stack) \in 1..Len(stack)
  BY <1>2, TopFacts
<1>4. units[t].loading
  <2>1. Marked
    BY StackParts DEF CloseUnit
  <2> QED
    BY <1>3, <2>1 DEF Marked, Top
<1> HIDE DEF t
<1>5. Paths' = Paths
  BY <1>1 DEF Paths
<1>6. {j \in 1..Len(units') : ~ units'[j].loading} = {j \in 1..Len(units) : ~ units[j].loading} \cup {t}
  BY <1>1, <1>3
<1>7. Done' = Done \cup {units[t].path}
  BY <1>1, <1>3, <1>6 DEF Done
<1>8. units[t].path \notin Done
  BY <1>3, <1>4 DEF Done, OneUnitPerPath
<1> QED
  BY <1>5, <1>7, <1>8 DEF t

LEMMA CloseComplete ==
  ASSUME Shape, OneUnitPerPath, LoadingIsTheStack, Passed, DoneClosed, DoneOrdered, CloseUnit
  PROVE  DoneClosed' /\ DoneOrdered'
<1> DEFINE f == units[Top.unit].path
<1>1. disk' = disk /\ verdict = "running" /\ Top.next > Len(Current)
  BY DEF CloseUnit
<1>2. Done' = Done \cup {f} /\ f \notin Done
  BY ClosePaths
<1>3. Closure!Imports(f) \subseteq Done
  <2>1. /\ Len(stack) \in 1..Len(stack)
        /\ Current = ListOf(Top.unit)
        /\ Top.next \in Nat
        /\ Len(Current) \in Nat
    BY CloseFacts, TopFacts
  <2>2. \A p \in 1..Len(Current) : p < Top.next
    BY <1>1, <2>1
  <2>3. \A p \in 1..Len(Current) : Current[p] \in Done
    BY <1>1, <2>1, <2>2 DEF Passed, Top
  <2> QED
    BY <2>3 DEF Closure!Imports, Closure!Targets, Current
<1> HIDE DEF f
<1>4. \A g \in Done' : Closure!Imports(g) \subseteq Done
  BY <1>2, <1>3 DEF DoneClosed
<1>5. \A g : Closure!Imports(g)' = Closure!Imports(g)
  BY <1>1 DEF Closure!Imports
<1>6. DoneClosed'
  BY <1>2, <1>4, <1>5 DEF DoneClosed
<1>7. DoneOrdered'
  <2> SUFFICES ASSUME NEW C \in SUBSET (Done'), C # {},
                      \A g \in C : Closure!Imports(g) \cap C # {}
               PROVE  FALSE
    BY <1>5 DEF DoneOrdered, Closure!Cyclic
  <2>1. (C \ {f}) \subseteq Done
    BY <1>2
  <2>2. \A g \in C : Closure!Imports(g) \cap (C \ {f}) # {}
    BY <1>2, <1>4
  <2>3. C \ {f} # {}
    BY <2>2
  <2>4. \A g \in C \ {f} : Closure!Imports(g) \cap (C \ {f}) # {}
    BY <2>2
  <2> QED
    BY <2>1, <2>3, <2>4 DEF DoneOrdered, Closure!Cyclic
<1> QED
  BY <1>6, <1>7

LEMMA OpenWalk ==
  ASSUME Shape, Pending, RootFirst, Passed, OpenUnit
  PROVE  Pending' /\ RootFirst' /\ Passed'
<1> DEFINE n == Len(units)
           d == Len(stack)
<1>1. /\ verdict = "running"
      /\ request # NoFile
      /\ request' = NoFile
      /\ disk' = disk
  BY DEF OpenUnit
<1>2. n \in Nat /\ d \in Nat
  BY ShapeFacts
<1>3. /\ Len(units') = n + 1
      /\ Len(stack') = d + 1
      /\ \A i \in 1..n : units'[i] = units[i]
      /\ \A k \in 1..d : stack'[k] = stack[k]
      /\ stack'[d + 1].next = 1
      /\ units'[n + 1].path = request
  BY OpenFacts
<1>4. \A k \in 1..d : stack[k].unit \in 1..n
  BY ElementFacts
<1>5. Done' = Done
  BY OpenPaths
<1>6. n = 0 => request = disk.root
  <2>1. n = 0 => d = 0
    BY <1>2, <1>4
  <2> QED
    BY <1>1, <2>1 DEF Pending
<1>7. n > 0 => units[1].path = disk.root
  BY DEF RootFirst
<1> HIDE DEF n, d
<1>8. Pending'
  BY <1>1, <1>2, <1>3 DEF Pending
<1>9. RootFirst'
  BY <1>1, <1>2, <1>3, <1>6, <1>7 DEF RootFirst
<1>10. Passed'
  <2> SUFFICES ASSUME NEW k \in 1..d + 1, NEW p \in 1..Len(ListOf(stack[k].unit)'),
                      p < stack'[k].next
               PROVE  (ListOf(stack[k].unit)')[p] \in Done
    BY <1>3, <1>5 DEF Passed
  <2>1. CASE k \in 1..d
    <3>1. stack'[k] = stack[k] /\ stack[k].unit \in 1..n
      BY <1>3, <1>4, <2>1
    <3>2. ListOf(stack[k].unit)' = ListOf(stack[k].unit)
      BY <1>1, <1>3, <3>1 DEF ListOf
    <3> QED
      BY <1>1, <2>1, <3>1, <3>2 DEF Passed, d
  <2>2. CASE k = d + 1
    <3>1. p < 1
      BY <1>3, <2>2
    <3>2. p \in Nat /\ p >= 1
      <4>1. \A m : p \in 1..m => p \in Int /\ p >= 1
        OBVIOUS
      <4> QED
        BY <4>1
    <3> QED
      BY <3>1, <3>2
  <2> QED
    BY <1>2, <2>1, <2>2
<1> QED
  BY <1>8, <1>9, <1>10

LEMMA FollowWalk ==
  ASSUME Shape, Passed, FollowImport
  PROVE  Pending' /\ Passed'
<1>1. Passed'
  <2>1. disk' = disk /\ units' = units /\ stack' = stack /\ verdict' = verdict
    BY DEF FollowImport
  <2>2. Done' = Done /\ \A i : ListOf(i)' = ListOf(i)
    BY <2>1 DEF Done, ListOf
  <2> QED
    BY <2>1, <2>2 DEF Passed
<1>2. Pending'
  <2>1. Len(stack) > 0 /\ Top.next <= Len(Current)
    BY ShapeFacts DEF FollowImport, AtImport
  <2>2. /\ Len(stack') = Len(stack)
        /\ Len(units') = Len(units)
        /\ request' = Target
        /\ Target' = Target
        /\ Top' = Top
        /\ Current' = Current
        /\ HasPath(Target)' = HasPath(Target)
        /\ ~ HasPath(Target)
    BY DEF FollowImport, Target, Top, Current, HasPath, Paths
  <2>3. Target # NoFile
    BY FilesAssumption DEF FollowImport
  <2>4. ~ HasPath(request)'
    BY <2>2 DEF HasPath, Paths, FollowImport
  <2> QED
    BY <2>1, <2>2, <2>3, <2>4 DEF Pending
<1> QED
  BY <1>1, <1>2

LEMMA RecordWalk ==
  ASSUME Shape, RootFirst, Passed, RecordImport
  PROVE  Pending' /\ RootFirst' /\ Passed'
<1>1. /\ verdict = "running"
      /\ request' = NoFile
      /\ disk' = disk
  BY DEF RecordImport, AtImport
<1>2. /\ Len(units') = Len(units)
      /\ Len(stack') = Len(stack)
      /\ Len(stack) > 0
      /\ \A i \in 1..Len(units) : units'[i].path = units[i].path
  BY RecordFacts
<1>3. Pending'
  BY <1>1, <1>2 DEF Pending
<1>4. RootFirst'
  BY <1>1, <1>2, ShapeFacts DEF RootFirst
<1>5. Done' = Done
  BY RecordPaths
<1>6. Passed'
  <2> SUFFICES ASSUME NEW k \in 1..Len(stack), NEW p \in 1..Len(ListOf(stack[k].unit)'),
                      p < stack'[k].next
               PROVE  (ListOf(stack[k].unit)')[p] \in Done
    BY <1>2, <1>5 DEF Passed
  <2>1. stack'[k].unit = stack[k].unit /\ stack[k].unit \in 1..Len(units)
    BY RecordFacts, ElementFacts
  <2>2. ListOf(stack[k].unit)' = ListOf(stack[k].unit)
    BY <1>1, <1>2, <2>1 DEF ListOf
  <2>3. CASE k # Len(stack)
    <3>1. stack'[k] = stack[k]
      BY <2>3, RecordFacts, ShapeFacts
    <3> QED
      BY <1>1, <2>2, <3>1 DEF Passed
  <2>4. CASE k = Len(stack)
    <3>1. /\ stack'[k].next = Top.next + 1
          /\ Top = stack[k]
          /\ Current = ListOf(stack[k].unit)
          /\ Target = ListOf(stack[k].unit)[Top.next]
          /\ Top.next \in Nat
          /\ Len(Current) \in Nat
      BY <1>2, <2>4, RecordFacts, TopFacts DEF Top, Current, Target, ListOf
    <3>2. p < Top.next \/ p = Top.next
      BY <2>2, <3>1
    <3>3. CASE p < Top.next
      BY <1>1, <2>2, <3>1, <3>3 DEF Passed
    <3>4. CASE p = Top.next
      <4>1. Target \in Done
        BY RecordFacts DEF Done
      <4> QED
        BY <2>2, <3>1, <3>4, <4>1
    <3> QED
      BY <3>2, <3>3, <3>4
  <2> QED
    BY <2>3, <2>4
<1> QED
  BY <1>3, <1>4, <1>6

LEMMA CloseWalk ==
  ASSUME Shape, OneUnitPerPath, LoadingIsTheStack, RootFirst, Passed, CloseUnit
  PROVE  Pending' /\ RootFirst' /\ Passed'
<1>1. /\ verdict = "running"
      /\ request' = NoFile
      /\ disk' = disk
      /\ verdict' = "running" => Len(stack) # 1
  BY DEF CloseUnit
<1>2. /\ Len(units') = Len(units)
      /\ Len(stack') = Len(stack) - 1
      /\ Len(stack) > 0
      /\ \A i \in 1..Len(units) : units'[i].path = units[i].path
  BY CloseFacts
<1>3. Pending'
  BY <1>1, <1>2, ShapeFacts DEF Pending
<1>4. RootFirst'
  BY <1>1, <1>2, ShapeFacts DEF RootFirst
<1>5. Done \subseteq Done'
  BY ClosePaths
<1>6. Passed'
  <2> SUFFICES ASSUME NEW k \in 1..Len(stack'), NEW p \in 1..Len(ListOf(stack[k].unit)'),
                      p < stack'[k].next
               PROVE  (ListOf(stack[k].unit)')[p] \in Done'
    BY DEF Passed
  <2>1. k \in 1..Len(stack)
    BY <1>2, ShapeFacts
  <2>2. stack'[k] = stack[k] /\ stack[k].unit \in 1..Len(units)
    BY <2>1, CloseFacts, ElementFacts
  <2>3. ListOf(stack[k].unit)' = ListOf(stack[k].unit)
    BY <1>1, <1>2, <2>2 DEF ListOf
  <2> QED
    BY <1>1, <1>5, <2>1, <2>2, <2>3 DEF Passed
<1> QED
  BY <1>3, <1>4, <1>6

LEMMA StepInvariant ==
  ASSUME Invariant, [LoadStep \/ Starve]_loadVars
  PROVE  Invariant'
<1>0. /\ Shape
      /\ OneUnitPerPath
      /\ LoadingIsTheStack
      /\ Pending
      /\ RootFirst
      /\ Passed
      /\ DoneClosed
      /\ DoneOrdered
  BY DEF Invariant
<1>1. CASE OpenUnit
  <2>1. DoneClosed' /\ DoneOrdered'
    <3>1. Done' = Done /\ disk' = disk
      BY <1>0, <1>1, OpenPaths DEF OpenUnit
    <3> QED
      BY <1>0, <3>1 DEF DoneClosed, DoneOrdered, Closure!Cyclic, Closure!Imports
  <2> QED
    BY <1>0, <1>1, <2>1, OpenShape, OpenUnique, OpenStack, OpenWalk DEF Invariant
<1>2. CASE FollowImport
  <2>1. UNCHANGED <<disk, units, stack, verdict>>
    BY <1>2 DEF FollowImport
  <2>2. OneUnitPerPath' /\ LoadingIsTheStack' /\ RootFirst'
    BY <1>0, <2>1 DEF OneUnitPerPath, LoadingIsTheStack, RootFirst
  <2>3. Done' = Done
    BY <2>1 DEF Done
  <2>4. DoneClosed' /\ DoneOrdered'
    BY <1>0, <2>1, <2>3 DEF DoneClosed, DoneOrdered, Closure!Cyclic, Closure!Imports
  <2> QED
    BY <1>0, <1>2, <2>2, <2>4, FollowShape, FollowWalk DEF Invariant
<1>3. CASE RecordImport
  <2>1. DoneClosed' /\ DoneOrdered'
    <3>1. Done' = Done /\ disk' = disk
      BY <1>0, <1>3, RecordPaths DEF RecordImport
    <3> QED
      BY <1>0, <3>1 DEF DoneClosed, DoneOrdered, Closure!Cyclic, Closure!Imports
  <2> QED
    BY <1>0, <1>3, <2>1, RecordShape, RecordUnique, RecordStack, RecordWalk DEF Invariant
<1>4. CASE CloseUnit
  BY <1>0, <1>4, CloseShape, CloseUnique, CloseStack, CloseWalk, CloseComplete DEF Invariant
<1>5. CASE Failing
  <2>1. units' = units /\ disk' = disk /\ verdict' = "failed"
    BY <1>0, <1>5, FailFacts
  <2>2. Done' = Done
    BY <2>1 DEF Done
  <2>3. DoneClosed' /\ DoneOrdered'
    BY <1>0, <2>1, <2>2 DEF DoneClosed, DoneOrdered, Closure!Cyclic, Closure!Imports
  <2>4. OneUnitPerPath' /\ RootFirst'
    BY <1>0, <2>1 DEF OneUnitPerPath, RootFirst
  <2>5. LoadingIsTheStack' /\ Pending' /\ Passed'
    BY <2>1 DEF LoadingIsTheStack, Pending, Passed
  <2> QED
    BY <1>0, <1>5, <2>3, <2>4, <2>5, FailShape DEF Invariant
<1>6. CASE UNCHANGED loadVars
  <2>1. UNCHANGED <<disk, units, stack, request, verdict, diagnostic, starved>>
    BY <1>6 DEF loadVars
  <2>2. Shape'
    BY <1>0, <2>1 DEF Shape
  <2>3. OneUnitPerPath' /\ RootFirst'
    BY <1>0, <2>1 DEF OneUnitPerPath, RootFirst
  <2>4. LoadingIsTheStack'
    BY <1>0, <2>1 DEF LoadingIsTheStack
  <2>5. Pending'
    BY <1>0, <2>1 DEF Pending, HasPath, Paths, Top, Current, Target
  <2>6. Done' = Done
    BY <2>1 DEF Done
  <2>7. Passed'
    BY <1>0, <2>1, <2>6 DEF Passed, ListOf
  <2>8. DoneClosed' /\ DoneOrdered'
    BY <1>0, <2>1, <2>6 DEF DoneClosed, DoneOrdered, Closure!Cyclic, Closure!Imports
  <2> QED
    BY <2>2, <2>3, <2>4, <2>5, <2>7, <2>8 DEF Invariant
<1> QED
  BY <1>1, <1>2, <1>3, <1>4, <1>5, <1>6 DEF LoadStep, Failing

-----------------------------------------------------------------------------
(* What follows for every execution of the loader.                             *)

\* Throughout an execution: the types, one unit per path, the marks along the stack.
THEOREM InvariantHolds == LoadSpec => []Invariant
<1>1. LoadInit => Invariant
  BY InitInvariant
<1>2. Invariant /\ [LoadStep \/ Starve]_loadVars => Invariant'
  BY StepInvariant
<1> QED
  BY <1>1, <1>2, PTL DEF LoadSpec

LEMMA BoundedSequences ==
  ASSUME NEW S, NEW T, NEW s \in Seq(S), \A i \in 1..Len(s) : s[i] \in T
  PROVE  s \in Seq(T)
<1>1. Len(s) \in Nat /\ s \in [1..Len(s) -> S]
  BY LenProperties
<1>2. s \in [1..Len(s) -> T]
  BY <1>1
<1> QED
  BY <1>1, <1>2, SeqDef

LEMMA ShapeTyped ==
  ASSUME Shape
  PROVE  LoadTypeOK
<1>1. \A i \in 1..Len(units) : units[i] \in UnitRecords
  <2> SUFFICES ASSUME NEW i \in 1..Len(units)
               PROVE  units[i] \in UnitRecords
    OBVIOUS
  <2>1. /\ units[i].path \in Files
        /\ units[i].imported \in Seq(Nat)
        /\ units[i].loading \in BOOLEAN
        /\ units[i] = [path |-> units[i].path, imported |-> units[i].imported, loading |-> units[i].loading]
    BY ElementFacts
  <2>2. \A k \in 1..Len(units[i].imported) : units[i].imported[k] \in 1..Len(units)
    BY DEF Shape
  <2>3. units[i].imported \in Seq(1..Len(units))
    BY <2>1, <2>2, BoundedSequences
  <2> QED
    BY <2>1, <2>3 DEF UnitRecords
<1>2. units \in Seq(UnitRecords)
  <2>1. units \in Seq(Units)
    BY DEF Shape
  <2> QED
    BY <1>1, <2>1, BoundedSequences
<1>3. \A k \in 1..Len(stack) : stack[k] \in Activations
  <2> SUFFICES ASSUME NEW k \in 1..Len(stack)
               PROVE  stack[k] \in Activations
    OBVIOUS
  <2>1. /\ stack[k].unit \in 1..Len(units)
        /\ stack[k].next \in Nat \ {0}
        /\ stack[k] = [unit |-> stack[k].unit, next |-> stack[k].next]
    BY ElementFacts
  <2> QED
    BY <2>1 DEF Activations
<1>4. stack \in Seq(Activations)
  <2>1. stack \in Seq(Calls)
    BY DEF Shape
  <2> QED
    BY <1>3, <2>1, BoundedSequences
<1> QED
  BY <1>2, <1>4 DEF Shape, LoadTypeOK

\* Every variable keeps its type: in particular no recorded import and no activation
\* names a unit outside the vector of units.
THEOREM LoadTypeCorrect == LoadSpec => []LoadTypeOK
<1>1. Invariant => LoadTypeOK
  BY ShapeTyped DEF Invariant
<1> QED
  BY <1>1, InvariantHolds, PTL

\* However the imports meet, each path is loaded into one unit.
THEOREM PathsUnique == LoadSpec => []OneUnitPerPath
<1>1. Invariant => OneUnitPerPath
  BY DEF Invariant
<1> QED
  BY <1>1, InvariantHolds, PTL

\* The loading marks are the activations of the recursive loader, in their order.
THEOREM MarksFollowTheStack == LoadSpec => []LoadingIsTheStack
<1>1. Invariant => LoadingIsTheStack
  BY DEF Invariant
<1> QED
  BY <1>1, InvariantHolds, PTL

-----------------------------------------------------------------------------
(* The vector only grows.                                                      *)

Grown ==
  \A i \in 1..Len(units) :
    /\ i <= Len(units')
    /\ units'[i].path = units[i].path
    /\ SubSeq(units'[i].imported, 1, Len(units[i].imported)) = units[i].imported

LEMMA SubSeqOfAppend ==
  ASSUME NEW S, NEW s \in Seq(S), NEW e \in S
  PROVE  SubSeq(Append(s, e), 1, Len(s)) = s
<1> DEFINE t == Append(s, e)
           n == Len(s)
<1>1. n \in Nat /\ n \in Int /\ 1 \in Int
  BY LenProperties
<1>2. \A i \in 1..n : t[i] = s[i] /\ s[i] \in S
  BY AppendProperties, ElementOfSeq
<1> HIDE DEF t
<1>3. \A i \in 1..n : t[i] \in S
  BY <1>2
<1> HIDE DEF n
<1>4. /\ SubSeq(t, 1, n) \in Seq(S)
      /\ Len(SubSeq(t, 1, n)) = IF 1 <= n THEN n - 1 + 1 ELSE 0
      /\ \A i \in 1..n - 1 + 1 : SubSeq(t, 1, n)[i] = t[1 + i - 1]
  BY <1>1, <1>3, SubSeqProperties
<1>5. n - 1 + 1 = n /\ Len(SubSeq(t, 1, n)) = n
  BY <1>1, <1>4
<1>6. \A i \in 1..n : SubSeq(t, 1, n)[i] = s[i]
  BY <1>1, <1>2, <1>4, <1>5
<1>7. SubSeq(t, 1, n) = s
  BY <1>4, <1>5, <1>6, SeqEqual DEF n
<1> QED
  BY <1>7 DEF t, n

LEMMA StepGrows ==
  ASSUME Shape, [LoadStep \/ Starve]_loadVars
  PROVE  Grown
<1> SUFFICES ASSUME NEW i \in 1..Len(units)
             PROVE  /\ i <= Len(units')
                    /\ units'[i].path = units[i].path
                    /\ SubSeq(units'[i].imported, 1, Len(units[i].imported)) = units[i].imported
  BY DEF Grown
<1>1. units[i].imported \in Seq(Nat) /\ Len(units) \in Nat
  BY ElementFacts, ShapeFacts
<1>2. SubSeq(units[i].imported, 1, Len(units[i].imported)) = units[i].imported
  BY <1>1, SubSeqFull
<1>3. CASE OpenUnit
  <2>1. Len(units') = Len(units) + 1 /\ units'[i] = units[i]
    BY <1>3, OpenFacts
  <2> QED
    BY <1>1, <1>2, <2>1
<1>4. CASE RecordImport
  <2>1. Len(units') = Len(units) /\ units'[i].path = units[i].path
    BY <1>4, RecordFacts
  <2>2. IndexOf(Target) \in Nat
    BY <1>4, RecordFacts, ShapeFacts
  <2>3. SubSeq(Append(units[i].imported, IndexOf(Target)), 1, Len(units[i].imported)) = units[i].imported
    BY <1>1, <2>2, SubSeqOfAppend
  <2>4. \/ units'[i].imported = units[i].imported
        \/ units'[i].imported = Append(units[i].imported, IndexOf(Target))
    BY <1>4, RecordFacts
  <2>5. SubSeq(units'[i].imported, 1, Len(units[i].imported)) = units[i].imported
    BY <1>2, <2>3, <2>4
  <2> QED
    BY <1>1, <2>1, <2>5
<1>5. CASE CloseUnit
  <2>1. /\ Len(units') = Len(units)
        /\ units'[i].path = units[i].path
        /\ units'[i].imported = units[i].imported
    BY <1>5, CloseFacts
  <2> QED
    BY <1>1, <1>2, <2>1
<1>6. CASE FollowImport \/ Failing \/ UNCHANGED loadVars
  <2>1. units' = units
    BY <1>6, FailFacts DEF FollowImport, loadVars
  <2> QED
    BY <1>1, <1>2, <2>1
<1> QED
  BY <1>3, <1>4, <1>5, <1>6 DEF LoadStep, Failing

\* What was recorded of a unit stays where it was recorded.
THEOREM UnitsKeepTheirPlaces == LoadSpec => UnitsOnlyGrow
<1>1. Invariant /\ [LoadStep \/ Starve]_loadVars => [Grown]_units
  BY StepGrows DEF Invariant
<1>2. LoadSpec => [][Grown]_units
  BY <1>1, InvariantHolds, PTL DEF LoadSpec
<1>3. [][Grown]_units <=> UnitsOnlyGrow
  BY DEF Grown, UnitsOnlyGrow
<1> QED
  BY <1>2, <1>3

-----------------------------------------------------------------------------
(* Each step of the walk is a step of ModuleClosure or leaves it where it is.  *)

LEMMA ClosureInit ==
  ASSUME LoadInit
  PROVE  Closure!Init
<1>1. disk \in Closure!DiskRecords
  BY DisksAssumption DEF LoadInit
<1>2. Paths = {}
  <2>1. Len(units) = 0
    BY EmptySeq DEF LoadInit
  <2>2. 1..Len(units) = {}
    BY <2>1
  <2> QED
    BY <2>2 DEF Paths
<1> QED
  BY <1>1, <1>2 DEF LoadInit, Closure!Init

\* A file is asked for because it is the root or a loaded file imports it.
LEMMA RequestWanted ==
  ASSUME Shape, Pending, verdict = "running", request # NoFile
  PROVE  request \in Files /\ Closure!Wanted(request)
<1>1. request \in Files
  BY DEF Shape
<1>2. CASE Len(stack) = 0
  BY <1>1, <1>2 DEF Pending, Closure!Wanted
<1>3. CASE Len(stack) > 0
  <2>1. /\ Top.unit \in 1..Len(units)
        /\ Top.next \in 1..Len(Current)
        /\ request = Target
    BY <1>3, TopFacts DEF Pending
  <2>2. units[Top.unit].path \in Paths
    BY <2>1 DEF Paths
  <2>3. Target \in Closure!Imports(units[Top.unit].path)
    BY <2>1 DEF Target, Current, Closure!Imports, Closure!Targets
  <2> QED
    BY <1>1, <2>1, <2>2, <2>3 DEF Closure!Wanted
<1> QED
  BY <1>2, <1>3, ShapeFacts

LEMMA OpenLoads ==
  ASSUME Shape, Pending, OpenUnit
  PROVE  request \in Files /\ Closure!Load(request)
<1>1. request \in Files /\ Closure!Wanted(request)
  BY RequestWanted DEF OpenUnit
<1>2. Paths' = Paths \cup {request}
  BY OpenPaths
<1> QED
  BY <1>1, <1>2 DEF OpenUnit, HasPath, Closure!Load

LEMMA CloseAccepts ==
  ASSUME Invariant, CloseUnit
  PROVE  Closure!Accept \/ UNCHANGED Closure!vars
<1>1. Paths' = Paths /\ UNCHANGED <<disk, diagnostic, starved>> /\ verdict = "running"
  BY ClosePaths DEF Invariant, CloseUnit
<1>2. CASE Len(stack) # 1
  <2>1. verdict' = verdict
    BY <1>2 DEF CloseUnit
  <2> QED
    BY <1>1, <2>1 DEF Closure!vars
<1>3. CASE Len(stack) = 1
  <2>1. verdict' = "loaded"
    BY <1>3 DEF CloseUnit
  <2>2. Len(stack') = 0 /\ Len(units') = Len(units) /\ Len(units) \in Nat
    BY <1>3, CloseFacts, ShapeFacts DEF Invariant
  <2>3. \A i \in 1..Len(units') : ~ units'[i].loading
    <3>1. \A i \in 1..Len(units') : units'[i].loading <=> \E k \in 1..Len(stack') : stack'[k].unit = i
      BY CloseStack DEF Invariant
    <3>2. 1..Len(stack') = {}
      BY <2>2
    <3> QED
      BY <3>1, <3>2
  <2>4. Done' = Paths
    <3>1. {j \in 1..Len(units') : ~ units'[j].loading} = 1..Len(units')
      BY <2>3
    <3>2. Done' = Paths'
      BY <3>1 DEF Done, Paths
    <3> QED
      BY <1>1, <3>2
  <2>5. DoneClosed' /\ DoneOrdered'
    BY CloseComplete DEF Invariant
  <2>6. Closure!Closed(Paths) /\ ~ Closure!Cyclic(Paths)
    <3>1. \A g : Closure!Imports(g)' = Closure!Imports(g)
      BY <1>1 DEF Closure!Imports
    <3> QED
      BY <2>4, <2>5, <3>1 DEF DoneClosed, DoneOrdered, Closure!Closed, Closure!Cyclic
  <2>7. disk.root \in Paths
    <3>1. Len(units) > 0 /\ 1 \in 1..Len(units)
      <4>1. Top.unit \in 1..Len(units)
        BY <1>3, TopFacts DEF Invariant
      <4> QED
        BY <2>2, <4>1
    <3>2. units[1].path = disk.root
      BY <3>1 DEF Invariant, RootFirst
    <3> QED
      BY <3>1, <3>2 DEF Paths
  <2> QED
    BY <1>1, <2>1, <2>6, <2>7 DEF Closure!Accept
<1> QED
  BY <1>2, <1>3

\* The files on the stack from the target up import one another in a ring.
LEMMA LoadingTargetIsCyclic ==
  ASSUME Shape, LoadingIsTheStack, AtImport,
         HasPath(Target), units[IndexOf(Target)].loading
  PROVE  Closure!Cyclic(Paths)
<1>1. Marked /\ Linked
  BY StackParts DEF AtImport
<1>2. IndexOf(Target) \in 1..Len(units) /\ units[IndexOf(Target)].path = Target
  BY IndexFacts
<1>3. PICK m \in 1..Len(stack) : stack[m].unit = IndexOf(Target)
  BY <1>1, <1>2 DEF Marked
<1> DEFINE d == Len(stack)
           Path(k) == units[stack[k].unit].path
           C == {Path(k) : k \in m..d}
<1>4. d \in Nat /\ m \in 1..d /\ m \in m..d /\ m..d \subseteq 1..d
  BY <1>3, ShapeFacts
<1>5. C \subseteq Paths
  BY <1>4, ElementFacts DEF Paths
<1>6. Path(m) \in C /\ Path(m) = Target
  BY <1>2, <1>3, <1>4
<1>7. \A k \in m..d : Closure!Imports(Path(k)) \cap C # {}
  <2> SUFFICES ASSUME NEW k \in m..d
               PROVE  \E g \in C : g \in Closure!Imports(Path(k))
    OBVIOUS
  <2>1. CASE k = d
    <3>1. Top.next \in 1..Len(Current) /\ Current = disk.imports[Path(k)]
      BY <2>1, TargetFacts DEF Current, Top
    <3>2. Target \in Closure!Imports(Path(k))
      BY <3>1 DEF Target, Closure!Imports, Closure!Targets
    <3> QED
      BY <1>6, <3>2
  <2>2. CASE k < d
    <3>1. k \in 1..d - 1 /\ k + 1 \in m..d /\ k \in 1..d
      BY <1>4, <2>2
    <3>2. /\ stack[k].next <= Len(disk.imports[Path(k)])
          /\ disk.imports[Path(k)][stack[k].next] = Path(k + 1)
      BY <1>1, <3>1 DEF Linked, ListOf
    <3>3. /\ stack[k].next \in Nat \ {0}
          /\ Path(k) \in Files
      BY <3>1, ElementFacts
    <3>4. Len(disk.imports[Path(k)]) \in Nat
      BY <3>3, ListFacts
    <3>5. stack[k].next \in 1..Len(disk.imports[Path(k)])
      BY <3>2, <3>3, <3>4
    <3>6. Path(k + 1) \in Closure!Imports(Path(k))
      BY <3>2, <3>5 DEF Closure!Imports, Closure!Targets
    <3>7. Path(k + 1) \in C
      BY <3>1
    <3> QED
      BY <3>6, <3>7
  <2> QED
    BY <1>4, <2>1, <2>2
<1>8. \A f \in C : Closure!Imports(f) \cap C # {}
  BY <1>7
<1> HIDE DEF C
<1> QED
  BY <1>5, <1>6, <1>8 DEF Closure!Cyclic

LEMMA FailureRefuses ==
  ASSUME Invariant, Failing
  PROVE  \E code \in Closure!Codes : Closure!Refuse(code) \/ Closure!Starve(code)
<1>1. /\ verdict = "running"
      /\ verdict' = "failed"
      /\ disk' = disk
      /\ units' = units
      /\ diagnostic' \in Closure!Codes
  BY FailFacts DEF Invariant
<1>2. Paths' = Paths
  BY <1>1 DEF Paths
<1>3. CASE Starve
  <2>1. starved' = TRUE
    BY <1>3 DEF Starve
  <2>2. Closure!Starve(diagnostic')
    BY <1>1, <1>2, <2>1 DEF Closure!Starve
  <2> QED
    BY <1>1, <2>2
<1>4. CASE RefuseUnit
  <2>1. request \in Files /\ Closure!Wanted(request)
    BY <1>4, RequestWanted DEF RefuseUnit, Invariant
  <2>2. Closure!Justified(diagnostic')
    BY <1>4, <2>1 DEF RefuseUnit, Fail, Closure!Justified
  <2>3. starved' = starved
    BY <1>4 DEF RefuseUnit
  <2>4. Closure!Refuse(diagnostic')
    BY <1>1, <1>2, <2>2, <2>3 DEF Closure!Refuse
  <2> QED
    BY <1>1, <2>4
<1>5. CASE RefuseImport
  <2>0. AtImport /\ Shape /\ LoadingIsTheStack
    BY <1>5 DEF RefuseImport, Invariant
  <2>1. Closure!Justified(diagnostic')
    <3>1. CASE Target \notin Files
      <4> DEFINE f == units[Top.unit].path
      <4>1. diagnostic' = Closure!FaultCode(Target)
        BY <1>5, <3>1 DEF RefuseImport, Fail
      <4>2. Target \in Closure!ImportFaults
        BY <2>0, <3>1, TargetFacts
      <4>3. f \in Paths
        BY <2>0, TargetFacts, TopFacts DEF Paths
      <4>4. Target \in Closure!Imports(f)
        BY <2>0, TargetFacts DEF Target, Current, Closure!Imports, Closure!Targets
      <4>5. \E g \in Paths : \E fault \in Closure!Imports(g) \cap Closure!ImportFaults :
              diagnostic' = Closure!FaultCode(fault)
        BY <4>1, <4>2, <4>3, <4>4
      <4> QED
        BY <4>5 DEF Closure!Justified
    <3>2. CASE Target \in Files
      <4>1. HasPath(Target) /\ units[IndexOf(Target)].loading /\ diagnostic' = "E0311"
        BY <1>5, <3>2 DEF RefuseImport, Fail
      <4>2. Closure!Cyclic(Paths)
        BY <2>0, <4>1, LoadingTargetIsCyclic
      <4> QED
        BY <4>1, <4>2 DEF Closure!Justified
    <3> QED
      BY <3>1, <3>2
  <2>2. starved' = starved
    BY <1>5 DEF RefuseImport
  <2>3. Closure!Refuse(diagnostic')
    BY <1>1, <1>2, <2>1, <2>2 DEF Closure!Refuse
  <2> QED
    BY <1>1, <2>3
<1> QED
  BY <1>3, <1>4, <1>5 DEF Failing

LEMMA StepSimulation ==
  ASSUME Invariant, [LoadStep \/ Starve]_loadVars
  PROVE  [Closure!Next]_Closure!vars
<1>0. Shape /\ Pending
  BY DEF Invariant
<1>1. CASE OpenUnit
  BY <1>0, <1>1, OpenLoads DEF Closure!Next
<1>2. CASE CloseUnit
  BY <1>2, CloseAccepts DEF Closure!Next
<1>3. CASE FollowImport
  BY <1>3 DEF FollowImport, Closure!vars, Paths
<1>4. CASE RecordImport
  <2>1. Paths' = Paths
    BY <1>0, <1>4, RecordPaths
  <2> QED
    BY <1>4, <2>1 DEF RecordImport, Closure!vars
<1>5. CASE Failing
  BY <1>5, FailureRefuses DEF Closure!Next
<1>6. CASE UNCHANGED loadVars
  BY <1>6 DEF loadVars, Closure!vars, Paths
<1> QED
  BY <1>1, <1>2, <1>3, <1>4, <1>5, <1>6 DEF LoadStep, Failing

\* The loader accepts only the complete closure of the root's imports, free of
\* cycles and of faulty files, and refuses only for a fault that can be reached.
THEOREM LoadingImplementsTheClosure == LoadSpec => LoadsTheClosure
<1>1. LoadInit => Closure!Init
  BY ClosureInit
<1>2. Invariant /\ [LoadStep \/ Starve]_loadVars => [Closure!Next]_Closure!vars
  BY StepSimulation
<1>3. LoadSpec => Closure!Safety
  BY <1>1, <1>2, InvariantHolds, PTL DEF LoadSpec, Closure!Safety
<1> QED
  BY <1>3 DEF LoadsTheClosure

-----------------------------------------------------------------------------
(* A loaded program is complete: the imports recorded of each unit are its      *)
(* import list, each file once and in the order in which it is first imported.  *)

\* The indexes im, into the units u, stand for the first n entries of the list.
RecordedTo(u, list, im, n) ==
  /\ Len(im) <= n
  /\ \A k \in 1..Len(im) : \E p \in 1..n : u[im[k]].path = list[p]
  /\ \A p \in 1..n : \E k \in 1..Len(im) : u[im[k]].path = list[p]
  /\ \A m, k \in 1..Len(im) : im[m] = im[k] => m = k
  /\ \A p, q \in FirstOccurrences(list) : p < q /\ q <= n =>
       \E m, k \in 1..Len(im) : m < k /\ u[im[m]].path = list[p] /\ u[im[k]].path = list[q]

Recorded ==
  /\ \A i \in 1..Len(units) :
       ~ units[i].loading => RecordedTo(units, ListOf(i), units[i].imported, Len(ListOf(i)))
  /\ verdict = "running" =>
       \A k \in 1..Len(stack) :
         /\ stack[k].next - 1 <= Len(ListOf(stack[k].unit))
         /\ RecordedTo(units, ListOf(stack[k].unit), units[stack[k].unit].imported, stack[k].next - 1)

NoneLoading == verdict = "loaded" => \A i \in 1..Len(units) : ~ units[i].loading

-----------------------------------------------------------------------------
(* Lists of recorded imports.                                                  *)

LEMMA NothingRecorded ==
  ASSUME NEW u, NEW list
  PROVE  RecordedTo(u, list, <<>>, 0)
<1>1. Len(<<>>) = 0
  BY EmptySeq
<1>2. \A p \in FirstOccurrences(list) : p \in Int /\ p >= 1
  BY DEF FirstOccurrences
<1>3. \A p, q \in FirstOccurrences(list) : ~ (p < q /\ q <= 0)
  BY <1>2
<1> QED
  BY <1>1, <1>3 DEF RecordedTo

\* Units that keep their paths leave what is recorded of them true.
LEMMA RecordedKept ==
  ASSUME NEW u, NEW v, NEW list, NEW im, NEW n,
         \A k \in 1..Len(im) : v[im[k]].path = u[im[k]].path,
         RecordedTo(u, list, im, n)
  PROVE  RecordedTo(v, list, im, n)
<1>1. Len(im) <= n /\ \A m, k \in 1..Len(im) : im[m] = im[k] => m = k
  BY DEF RecordedTo
<1>2. \A k \in 1..Len(im) : \E p \in 1..n : v[im[k]].path = list[p]
  <2>1. \A k \in 1..Len(im) : \E p \in 1..n : u[im[k]].path = list[p]
    BY DEF RecordedTo
  <2> QED
    BY <2>1
<1>3. \A p \in 1..n : \E k \in 1..Len(im) : v[im[k]].path = list[p]
  <2>1. \A p \in 1..n : \E k \in 1..Len(im) : u[im[k]].path = list[p]
    BY DEF RecordedTo
  <2> QED
    BY <2>1
<1>4. \A p, q \in FirstOccurrences(list) : p < q /\ q <= n =>
        \E m, k \in 1..Len(im) : m < k /\ v[im[m]].path = list[p] /\ v[im[k]].path = list[q]
  <2> SUFFICES ASSUME NEW p \in FirstOccurrences(list), NEW q \in FirstOccurrences(list),
                      p < q /\ q <= n
               PROVE  \E m, k \in 1..Len(im) :
                        m < k /\ v[im[m]].path = list[p] /\ v[im[k]].path = list[q]
    OBVIOUS
  <2>1. PICK m \in 1..Len(im), k \in 1..Len(im) :
          m < k /\ u[im[m]].path = list[p] /\ u[im[k]].path = list[q]
    BY DEF RecordedTo
  <2>2. v[im[m]].path = list[p] /\ v[im[k]].path = list[q]
    BY <2>1
  <2> QED
    BY <2>1, <2>2
<1> QED
  BY <1>1, <1>2, <1>3, <1>4 DEF RecordedTo

\* The next entry of the list is recorded already: it is no first occurrence.
LEMMA RecordedAgain ==
  ASSUME NEW u, NEW list, NEW im \in Seq(Nat), NEW n \in Nat, NEW t,
         u[t].path = list[n + 1],
         \E k \in 1..Len(im) : im[k] = t,
         RecordedTo(u, list, im, n)
  PROVE  RecordedTo(u, list, im, n + 1)
<1>1. Len(im) \in Nat
  BY LenProperties
<1>2. PICK j \in 1..Len(im) : im[j] = t
  OBVIOUS
<1>3. PICK p \in 1..n : u[im[j]].path = list[p]
  BY <1>2 DEF RecordedTo
<1>4. list[p] = list[n + 1]
  BY <1>2, <1>3
<1>5. n + 1 \notin FirstOccurrences(list)
  <2>1. p \in 1..(n + 1) - 1
    BY <1>3
  <2> QED
    BY <1>4, <2>1 DEF FirstOccurrences
<1>6. \A q \in FirstOccurrences(list) : q <= n + 1 => q <= n
  <2> SUFFICES ASSUME NEW q \in FirstOccurrences(list), q <= n + 1
               PROVE  q <= n
    OBVIOUS
  <2>1. q \in Int /\ q # n + 1
    BY <1>5 DEF FirstOccurrences
  <2> QED
    BY <2>1
<1>7. Len(im) <= n + 1
  BY <1>1 DEF RecordedTo
<1>8. 1..n \subseteq 1..n + 1 /\ \A q \in 1..n + 1 : q \in 1..n \/ q = n + 1
  OBVIOUS
<1>9. \A k \in 1..Len(im) : \E q \in 1..n + 1 : u[im[k]].path = list[q]
  <2>1. \A k \in 1..Len(im) : \E q \in 1..n : u[im[k]].path = list[q]
    BY DEF RecordedTo
  <2> QED
    BY <1>8, <2>1
<1>10. \A q \in 1..n + 1 : \E k \in 1..Len(im) : u[im[k]].path = list[q]
  <2>1. \A q \in 1..n : \E k \in 1..Len(im) : u[im[k]].path = list[q]
    BY DEF RecordedTo
  <2>2. u[im[j]].path = list[n + 1]
    BY <1>2
  <2> QED
    BY <1>8, <2>1, <2>2
<1>11. \A q, r \in FirstOccurrences(list) : q < r /\ r <= n + 1 =>
         \E m, k \in 1..Len(im) : m < k /\ u[im[m]].path = list[q] /\ u[im[k]].path = list[r]
  BY <1>6 DEF RecordedTo
<1>12. \A m, k \in 1..Len(im) : im[m] = im[k] => m = k
  BY DEF RecordedTo
<1> QED
  BY <1>7, <1>9, <1>10, <1>11, <1>12 DEF RecordedTo

\* The next entry is new: it is recorded behind all others.
LEMMA RecordedMore ==
  ASSUME NEW u, NEW list, NEW im \in Seq(Nat), NEW n \in Nat, NEW t \in Nat,
         u[t].path = list[n + 1],
         \A k \in 1..Len(im) : im[k] # t,
         RecordedTo(u, list, im, n)
  PROVE  RecordedTo(u, list, Append(im, t), n + 1)
<1> DEFINE s == Append(im, t)
           l == Len(im)
<1>1. l \in Nat
  BY LenProperties
<1>2. Len(s) = l + 1 /\ s[l + 1] = t /\ \A k \in 1..l : s[k] = im[k]
  BY AppendProperties
<1>3. l <= n
  BY DEF RecordedTo
<1> HIDE DEF s
<1>4. /\ \A k \in 1..l + 1 : k \in 1..l \/ k = l + 1
      /\ \A q \in 1..n + 1 : q \in 1..n \/ q = n + 1
      /\ 1..l \subseteq 1..l + 1
      /\ 1..n \subseteq 1..n + 1
      /\ l + 1 \in 1..l + 1
      /\ n + 1 \in 1..n + 1
  BY <1>1
<1>5. Len(s) <= n + 1
  BY <1>1, <1>2, <1>3
<1>6. \A k \in 1..l + 1 : \E p \in 1..n + 1 : u[s[k]].path = list[p]
  <2> SUFFICES ASSUME NEW k \in 1..l + 1
               PROVE  \E p \in 1..n + 1 : u[s[k]].path = list[p]
    OBVIOUS
  <2>1. CASE k \in 1..l
    <3>1. \E p \in 1..n : u[im[k]].path = list[p]
      BY <2>1 DEF RecordedTo
    <3> QED
      BY <1>2, <1>4, <2>1, <3>1
  <2>2. CASE k = l + 1
    BY <1>2, <1>4, <2>2
  <2> QED
    BY <1>4, <2>1, <2>2
<1>7. \A p \in 1..n + 1 : \E k \in 1..l + 1 : u[s[k]].path = list[p]
  <2> SUFFICES ASSUME NEW p \in 1..n + 1
               PROVE  \E k \in 1..l + 1 : u[s[k]].path = list[p]
    OBVIOUS
  <2>1. CASE p \in 1..n
    <3>1. \E k \in 1..l : u[im[k]].path = list[p]
      BY <2>1 DEF RecordedTo
    <3> QED
      BY <1>2, <1>4, <3>1
  <2>2. CASE p = n + 1
    BY <1>2, <1>4, <2>2
  <2> QED
    BY <1>4, <2>1, <2>2
<1>8. \A m, k \in 1..l + 1 : s[m] = s[k] => m = k
  <2> SUFFICES ASSUME NEW m \in 1..l + 1, NEW k \in 1..l + 1, s[m] = s[k]
               PROVE  m = k
    OBVIOUS
  <2>1. CASE m \in 1..l /\ k \in 1..l
    BY <1>2, <2>1 DEF RecordedTo
  <2>2. CASE m = l + 1 \/ k = l + 1
    BY <1>2, <1>4, <2>2
  <2> QED
    BY <1>4, <2>1, <2>2
<1>9. \A p, q \in FirstOccurrences(list) : p < q /\ q <= n + 1 =>
        \E m, k \in 1..l + 1 : m < k /\ u[s[m]].path = list[p] /\ u[s[k]].path = list[q]
  <2> SUFFICES ASSUME NEW p \in FirstOccurrences(list), NEW q \in FirstOccurrences(list), p < q, q <= n + 1
               PROVE  \E m, k \in 1..l + 1 : m < k /\ u[s[m]].path = list[p] /\ u[s[k]].path = list[q]
    OBVIOUS
  <2>1. p \in Int /\ q \in Int /\ p >= 1
    BY DEF FirstOccurrences
  <2>2. CASE q <= n
    <3>1. PICK m \in 1..l, k \in 1..l : m < k /\ u[im[m]].path = list[p] /\ u[im[k]].path = list[q]
      BY <2>2 DEF RecordedTo
    <3>2. s[m] = im[m] /\ s[k] = im[k] /\ m \in 1..l + 1 /\ k \in 1..l + 1
      BY <1>2, <1>4
    <3> QED
      BY <3>1, <3>2
  <2>3. CASE q = n + 1
    <3>1. p \in 1..n
      BY <2>1, <2>3
    <3>2. PICK m \in 1..l : u[im[m]].path = list[p]
      BY <3>1 DEF RecordedTo
    <3>3. s[m] = im[m] /\ m < l + 1 /\ m \in 1..l + 1
      BY <1>1, <1>2, <1>4
    <3> QED
      BY <1>2, <1>4, <2>3, <3>2, <3>3
  <2>4. q <= n \/ q = n + 1
    BY <2>1
  <2> QED
    BY <2>2, <2>3, <2>4
<1>10. RecordedTo(u, list, s, n + 1)
  BY <1>2, <1>5, <1>6, <1>7, <1>8, <1>9 DEF RecordedTo
<1> QED
  BY <1>10 DEF s

-----------------------------------------------------------------------------
(* The steps of the loader.                                                    *)

LEMMA RecordExact ==
  ASSUME Shape, RecordImport
  PROVE  /\ \A i \in 1..Len(units) : i # Top.unit => units'[i].imported = units[i].imported
         /\ HasImportIndex(units[Top.unit], IndexOf(Target)) =>
              units'[Top.unit].imported = units[Top.unit].imported
         /\ ~ HasImportIndex(units[Top.unit], IndexOf(Target)) =>
              units'[Top.unit].imported = Append(units[Top.unit].imported, IndexOf(Target))
<1> DEFINE t == Top.unit
           U == WithImport(units[t], IndexOf(Target))
<1>1. units' = [units EXCEPT ![t] = U]
  BY DEF RecordImport
<1>2. Len(stack) > 0
  BY RecordFacts
<1>3. t \in 1..Len(units)
  BY <1>2, TopFacts
<1>4. DOMAIN units = 1..Len(units)
  BY LenProperties DEF Shape
<1>5. /\ HasImportIndex(units[t], IndexOf(Target)) => U.imported = units[t].imported
      /\ ~ HasImportIndex(units[t], IndexOf(Target)) => U.imported = Append(units[t].imported, IndexOf(Target))
  BY DEF WithImport
<1> HIDE DEF t, U
<1>6. \A i \in 1..Len(units) : units'[i] = IF i = t THEN U ELSE units[i]
  BY <1>1, <1>3, <1>4
<1> QED
  BY <1>3, <1>5, <1>6 DEF t

LEMMA OpenRecorded ==
  ASSUME Shape, Recorded, OpenUnit
  PROVE  Recorded'
<1> DEFINE n == Len(units)
           d == Len(stack)
<1>1. disk' = disk /\ verdict = "running" /\ verdict' = verdict /\ request \in Files
  BY DEF OpenUnit, Shape
<1>2. n \in Nat /\ d \in Nat
  BY ShapeFacts
<1>3. /\ Len(units') = n + 1
      /\ Len(stack') = d + 1
      /\ \A i \in 1..n : units'[i] = units[i]
      /\ \A k \in 1..d : stack'[k] = stack[k]
      /\ stack'[d + 1].unit = n + 1
      /\ stack'[d + 1].next = 1
      /\ units'[n + 1].path = request
      /\ units'[n + 1].imported = <<>>
      /\ units'[n + 1].loading = TRUE
  BY OpenFacts
<1>4. \A i \in 1..n : \A k \in 1..Len(units[i].imported) : units'[units[i].imported[k]].path = units[units[i].imported[k]].path
  BY <1>3 DEF Shape
<1>5. \A k \in 1..d : stack[k].unit \in 1..n
  BY ElementFacts
<1>6. Len(disk.imports[request]) \in Nat
  BY <1>1, ListFacts
<1> HIDE DEF n, d
<1>7. \A i \in 1..n + 1 :
        ~ units'[i].loading => RecordedTo(units', ListOf(i)', units'[i].imported, Len(ListOf(i)'))
  <2> SUFFICES ASSUME NEW i \in 1..n + 1, ~ units'[i].loading
               PROVE  RecordedTo(units', ListOf(i)', units'[i].imported, Len(ListOf(i)'))
    OBVIOUS
  <2>1. i \in 1..n
    BY <1>2, <1>3
  <2>2. RecordedTo(units, ListOf(i), units[i].imported, Len(ListOf(i)))
    BY <1>3, <2>1 DEF Recorded, n
  <2>3. ListOf(i)' = ListOf(i) /\ units'[i].imported = units[i].imported
    BY <1>1, <1>3, <2>1 DEF ListOf
  <2>4. RecordedTo(units', ListOf(i), units[i].imported, Len(ListOf(i)))
    BY <1>4, <2>1, <2>2, RecordedKept
  <2> QED
    BY <2>3, <2>4
<1>8. \A k \in 1..d + 1 :
        /\ stack'[k].next - 1 <= Len(ListOf(stack[k].unit)')
        /\ RecordedTo(units', ListOf(stack[k].unit)', units'[stack'[k].unit].imported, stack'[k].next - 1)
  <2> SUFFICES ASSUME NEW k \in 1..d + 1
               PROVE  /\ stack'[k].next - 1 <= Len(ListOf(stack[k].unit)')
                      /\ RecordedTo(units', ListOf(stack[k].unit)', units'[stack'[k].unit].imported, stack'[k].next - 1)
    OBVIOUS
  <2>1. CASE k \in 1..d
    <3> DEFINE i == stack[k].unit
    <3>1. i \in 1..n /\ stack'[k] = stack[k]
      BY <1>3, <1>5, <2>1
    <3>2. /\ stack[k].next - 1 <= Len(ListOf(i))
          /\ RecordedTo(units, ListOf(i), units[i].imported, stack[k].next - 1)
      BY <1>1, <2>1 DEF Recorded, d
    <3>3. ListOf(stack[k].unit)' = ListOf(i) /\ units'[i].imported = units[i].imported
      BY <1>1, <1>3, <3>1 DEF ListOf
    <3>4. RecordedTo(units', ListOf(i), units[i].imported, stack[k].next - 1)
      BY <1>4, <3>1, <3>2, RecordedKept
    <3> QED
      BY <3>1, <3>2, <3>3, <3>4
  <2>2. CASE k = d + 1
    <3>1. stack'[k].next - 1 = 0 /\ units'[stack'[k].unit].imported = <<>>
      BY <1>3, <2>2
    <3>2. Len(ListOf(stack[k].unit)') \in Nat
      BY <1>1, <1>3, <1>6, <2>2 DEF ListOf
    <3>3. RecordedTo(units', ListOf(stack[k].unit)', <<>>, 0)
      BY NothingRecorded
    <3> QED
      BY <3>1, <3>2, <3>3
  <2> QED
    BY <1>2, <2>1, <2>2
<1> QED
  BY <1>3, <1>7, <1>8 DEF Recorded

LEMMA RecordRecorded ==
  ASSUME Shape, OneUnitPerPath, LoadingIsTheStack, Recorded, RecordImport
  PROVE  Recorded'
<1> DEFINE d == Len(stack)
           t == Top.unit
           x == IndexOf(Target)
           n == Top.next - 1
           im == units[t].imported
<1>1. disk' = disk /\ verdict = "running" /\ verdict' = verdict /\ AtImport
  BY DEF RecordImport, AtImport
<1>2. /\ Len(units') = Len(units)
      /\ \A i \in 1..Len(units) : units'[i].path = units[i].path /\ units'[i].loading = units[i].loading
      /\ Len(stack') = Len(stack)
      /\ \A k \in 1..Len(stack) :
           /\ stack'[k].unit = stack[k].unit
           /\ k < Len(stack) => stack'[k] = stack[k]
      /\ stack'[Len(stack)].next = Top.next + 1
      /\ Len(stack) > 0
      /\ x \in 1..Len(units)
      /\ units[x].path = Target
  BY RecordFacts
<1>3. /\ d \in 1..d
      /\ t \in 1..Len(units)
      /\ Top.next \in 1..Len(Current)
      /\ Current = ListOf(t)
      /\ Len(Current) \in Nat
      /\ t = stack[d].unit
      /\ Top.next = stack[d].next
  BY <1>1, <1>2, TopFacts, TargetFacts DEF Top
<1>4. \A i \in 1..Len(units) : \A k \in 1..Len(units[i].imported) : units[i].imported[k] \in 1..Len(units)
  BY DEF Shape
<1>5. \A i \in 1..Len(units) : ListOf(i)' = ListOf(i)
  BY <1>1, <1>2 DEF ListOf
<1>6. \A k \in 1..Len(stack) : stack[k].unit \in 1..Len(units)
  BY ElementFacts
<1>7. Marked /\ Ordered
  BY <1>1, StackParts
<1>8. units[t].loading /\ \A k \in 1..d - 1 : stack[k].unit # t
  <2>1. units[t].loading
    BY <1>3, <1>7 DEF Marked
  <2>2. \A k \in 1..d - 1 : k \in 1..d /\ k < d
    BY <1>3
  <2>3. \A k \in 1..d - 1 : stack[k].unit < stack[d].unit /\ stack[k].unit \in Nat
    BY <1>3, <1>7, <2>2, ElementFacts DEF Ordered
  <2>4. stack[d].unit \in Nat
    BY <1>3, ElementFacts
  <2>5. \A k \in 1..d - 1 : stack[k].unit # stack[d].unit
    BY <2>3, <2>4
  <2> QED
    BY <1>3, <2>1, <2>5
<1>9. \A i \in 1..Len(units) : i # t => units'[i].imported = units[i].imported
  BY RecordExact
<1>10. \A i \in 1..Len(units) : \A k \in 1..Len(units[i].imported) :
         units'[units[i].imported[k]].path = units[units[i].imported[k]].path
  BY <1>2, <1>4
<1>11. n \in Nat /\ n + 1 = Top.next /\ im \in Seq(Nat) /\ x \in Nat /\ Target = ListOf(t)[n + 1]
  <2>1. n \in Nat /\ n + 1 = Top.next
    BY <1>3
  <2>2. im \in Seq(Nat)
    BY <1>3, ElementFacts
  <2>3. x \in Nat
    BY <1>2, ShapeFacts
  <2>4. Target = ListOf(t)[Top.next]
    BY <1>3 DEF Target
  <2> QED
    BY <2>1, <2>2, <2>3, <2>4
<1>12. RecordedTo(units, ListOf(t), im, n)
  BY <1>1, <1>3 DEF Recorded
<1>13. RecordedTo(units, ListOf(t), units'[t].imported, n + 1)
  <2>1. CASE HasImportIndex(units[t], x)
    <3>1. \E k \in 1..Len(im) : im[k] = x
      BY <2>1 DEF HasImportIndex
    <3>2. units'[t].imported = im
      BY <2>1, RecordExact
    <3>3. RecordedTo(units, ListOf(t), im, n + 1)
      <4> HIDE DEF n, im, t, x
      <4> QED
        BY <1>2, <1>11, <1>12, <3>1, RecordedAgain
    <3> QED
      BY <3>2, <3>3
  <2>2. CASE ~ HasImportIndex(units[t], x)
    <3>1. \A k \in 1..Len(im) : im[k] # x
      BY <2>2 DEF HasImportIndex
    <3>2. units'[t].imported = Append(im, x)
      BY <2>2, RecordExact
    <3>3. RecordedTo(units, ListOf(t), Append(im, x), n + 1)
      <4> HIDE DEF n, im, t, x
      <4> QED
        BY <1>2, <1>11, <1>12, <3>1, RecordedMore
    <3> QED
      BY <3>2, <3>3
  <2> QED
    BY <2>1, <2>2
<1>14. \A k \in 1..Len(units'[t].imported) : units'[units'[t].imported[k]].path = units[units'[t].imported[k]].path
  <2>1. Shape'
    BY RecordShape
  <2>2. \A k \in 1..Len(units'[t].imported) : units'[t].imported[k] \in 1..Len(units)
    BY <1>2, <1>3, <2>1 DEF Shape
  <2> QED
    BY <1>2, <2>2
<1>15. RecordedTo(units', ListOf(t), units'[t].imported, n + 1)
  BY <1>13, <1>14, RecordedKept
<1> HIDE DEF t, x, n, im
<1>16. \A i \in 1..Len(units) :
         ~ units'[i].loading => RecordedTo(units', ListOf(i)', units'[i].imported, Len(ListOf(i)'))
  <2> SUFFICES ASSUME NEW i \in 1..Len(units), ~ units'[i].loading
               PROVE  RecordedTo(units', ListOf(i)', units'[i].imported, Len(ListOf(i)'))
    OBVIOUS
  <2>1. ~ units[i].loading /\ i # t
    BY <1>2, <1>8
  <2>2. RecordedTo(units, ListOf(i), units[i].imported, Len(ListOf(i)))
    BY <2>1 DEF Recorded
  <2>3. RecordedTo(units', ListOf(i), units[i].imported, Len(ListOf(i)))
    BY <1>10, <2>2, RecordedKept
  <2> QED
    BY <1>5, <1>9, <2>1, <2>3
<1>17. \A k \in 1..d :
         /\ stack'[k].next - 1 <= Len(ListOf(stack[k].unit)')
         /\ RecordedTo(units', ListOf(stack[k].unit)', units'[stack'[k].unit].imported, stack'[k].next - 1)
  <2> SUFFICES ASSUME NEW k \in 1..d
               PROVE  /\ stack'[k].next - 1 <= Len(ListOf(stack[k].unit)')
                      /\ RecordedTo(units', ListOf(stack[k].unit)', units'[stack'[k].unit].imported, stack'[k].next - 1)
    OBVIOUS
  <2> DEFINE i == stack[k].unit
  <2>1. i \in 1..Len(units) /\ stack'[k].unit = i
    BY <1>2, <1>6
  <2>2. ListOf(stack[k].unit)' = ListOf(i)
    BY <1>1, <1>2, <2>1 DEF ListOf
  <2>3. CASE k < d
    <3>1. stack'[k] = stack[k] /\ i # t
      BY <1>2, <1>3, <1>8, <2>3
    <3>2. /\ stack[k].next - 1 <= Len(ListOf(i))
          /\ RecordedTo(units, ListOf(i), units[i].imported, stack[k].next - 1)
      BY <1>1 DEF Recorded
    <3>3. RecordedTo(units', ListOf(i), units[i].imported, stack[k].next - 1)
      BY <1>10, <2>1, <3>2, RecordedKept
    <3>4. units'[i].imported = units[i].imported
      BY <1>9, <2>1, <3>1
    <3> QED
      BY <2>1, <2>2, <3>1, <3>2, <3>3, <3>4
  <2>4. CASE k = d
    <3>1. i = t /\ stack'[k].next - 1 = n + 1 /\ n + 1 <= Len(ListOf(i))
      BY <1>2, <1>3, <1>11, <2>4
    <3> QED
      BY <1>15, <2>1, <2>2, <3>1
  <2> QED
    BY <1>3, <2>3, <2>4
<1> QED
  BY <1>2, <1>16, <1>17 DEF Recorded

LEMMA CloseRecorded ==
  ASSUME Shape, LoadingIsTheStack, Recorded, CloseUnit
  PROVE  Recorded'
<1> DEFINE d == Len(stack)
           t == Top.unit
<1>1. disk' = disk /\ verdict = "running" /\ Top.next > Len(Current)
  BY DEF CloseUnit
<1>2. /\ Len(units') = Len(units)
      /\ \A i \in 1..Len(units) :
           /\ units'[i].path = units[i].path
           /\ units'[i].imported = units[i].imported
           /\ units'[i].loading = IF i = t THEN FALSE ELSE units[i].loading
      /\ d > 0
      /\ Len(stack') = d - 1
      /\ \A k \in 1..Len(stack') : stack'[k] = stack[k]
  BY CloseFacts
<1>3. /\ d \in 1..d
      /\ t \in 1..Len(units)
      /\ Top.next \in Nat
      /\ Current = ListOf(t)
      /\ Len(Current) \in Nat
      /\ t = stack[d].unit
      /\ Top.next = stack[d].next
  BY <1>2, TopFacts DEF Top
<1>4. \A i \in 1..Len(units) : \A k \in 1..Len(units[i].imported) :
         units'[units[i].imported[k]].path = units[units[i].imported[k]].path
  BY <1>2 DEF Shape
<1>5. \A i \in 1..Len(units) : ListOf(i)' = ListOf(i)
  BY <1>1, <1>2 DEF ListOf
<1>6. RecordedTo(units, ListOf(t), units[t].imported, Len(ListOf(t)))
  <2>1. /\ Top.next - 1 <= Len(ListOf(t))
        /\ RecordedTo(units, ListOf(t), units[t].imported, Top.next - 1)
    BY <1>1, <1>3 DEF Recorded
  <2>2. Top.next - 1 = Len(ListOf(t))
    BY <1>1, <1>3, <2>1
  <2> QED
    BY <2>1, <2>2
<1> HIDE DEF t, d
<1>7. \A i \in 1..Len(units) :
         ~ units'[i].loading => RecordedTo(units', ListOf(i)', units'[i].imported, Len(ListOf(i)'))
  <2> SUFFICES ASSUME NEW i \in 1..Len(units), ~ units'[i].loading
               PROVE  RecordedTo(units', ListOf(i)', units'[i].imported, Len(ListOf(i)'))
    OBVIOUS
  <2>1. RecordedTo(units, ListOf(i), units[i].imported, Len(ListOf(i)))
    BY <1>2, <1>6 DEF Recorded
  <2>2. RecordedTo(units', ListOf(i), units[i].imported, Len(ListOf(i)))
    BY <1>4, <2>1, RecordedKept
  <2> QED
    BY <1>2, <1>5, <2>2
<1>8. \A k \in 1..Len(stack') :
         /\ stack'[k].next - 1 <= Len(ListOf(stack[k].unit)')
         /\ RecordedTo(units', ListOf(stack[k].unit)', units'[stack'[k].unit].imported, stack'[k].next - 1)
  <2> SUFFICES ASSUME NEW k \in 1..Len(stack')
               PROVE  /\ stack'[k].next - 1 <= Len(ListOf(stack[k].unit)')
                      /\ RecordedTo(units', ListOf(stack[k].unit)', units'[stack'[k].unit].imported, stack'[k].next - 1)
    OBVIOUS
  <2> DEFINE i == stack[k].unit
  <2>1. k \in 1..Len(stack) /\ stack'[k] = stack[k]
    BY <1>2, ShapeFacts DEF d
  <2>2. i \in 1..Len(units)
    BY <2>1, ElementFacts
  <2>3. ListOf(stack[k].unit)' = ListOf(i)
    BY <1>1, <1>2, <2>1, <2>2 DEF ListOf
  <2>4. /\ stack[k].next - 1 <= Len(ListOf(i))
        /\ RecordedTo(units, ListOf(i), units[i].imported, stack[k].next - 1)
    BY <1>1, <2>1 DEF Recorded
  <2>5. RecordedTo(units', ListOf(i), units[i].imported, stack[k].next - 1)
    BY <1>4, <2>2, <2>4, RecordedKept
  <2> QED
    BY <1>2, <2>1, <2>2, <2>3, <2>4, <2>5
<1> QED
  BY <1>2, <1>7, <1>8 DEF Recorded

LEMMA StepRecorded ==
  ASSUME Invariant, Recorded, NoneLoading, [LoadStep \/ Starve]_loadVars
  PROVE  Recorded' /\ NoneLoading'
<1>0. Shape /\ OneUnitPerPath /\ LoadingIsTheStack
  BY DEF Invariant
<1>1. CASE OpenUnit
  <2>1. verdict' # "loaded"
    BY <1>1 DEF OpenUnit
  <2> QED
    BY <1>0, <1>1, <2>1, OpenRecorded DEF NoneLoading
<1>2. CASE RecordImport
  <2>1. verdict' # "loaded"
    BY <1>2 DEF RecordImport, AtImport
  <2> QED
    BY <1>0, <1>2, <2>1, RecordRecorded DEF NoneLoading
<1>3. CASE CloseUnit
  <2>1. Recorded'
    BY <1>0, <1>3, CloseRecorded
  <2>2. NoneLoading'
    <3> SUFFICES ASSUME verdict' = "loaded", NEW i \in 1..Len(units')
                 PROVE  ~ units'[i].loading
      BY DEF NoneLoading
    <3>1. Len(stack) = 1
      BY <1>3 DEF CloseUnit
    <3>2. 1..Len(stack') = {}
      BY <1>0, <1>3, <3>1, CloseFacts
    <3>3. units'[i].loading <=> \E k \in 1..Len(stack') : stack'[k].unit = i
      BY <1>0, <1>3, CloseStack
    <3> QED
      BY <3>2, <3>3
  <2> QED
    BY <2>1, <2>2
<1>4. CASE FollowImport
  <2>1. UNCHANGED <<disk, units, stack, verdict>>
    BY <1>4 DEF FollowImport
  <2> QED
    BY <2>1 DEF Recorded, NoneLoading, ListOf
<1>5. CASE Failing
  <2>1. units' = units /\ disk' = disk /\ verdict' = "failed"
    BY <1>0, <1>5, FailFacts
  <2> QED
    BY <2>1 DEF Recorded, NoneLoading, ListOf
<1>6. CASE UNCHANGED loadVars
  <2>1. UNCHANGED <<disk, units, stack, verdict>>
    BY <1>6 DEF loadVars
  <2> QED
    BY <2>1 DEF Recorded, NoneLoading, ListOf
<1> QED
  BY <1>1, <1>2, <1>3, <1>4, <1>5, <1>6 DEF LoadStep, Failing

LEMMA RecordedIsComplete ==
  ASSUME Shape, Recorded, NoneLoading
  PROVE  LoadedIsComplete
<1> SUFFICES ASSUME verdict = "loaded", NEW i \in 1..Len(units)
             PROVE  /\ ~ units[i].loading
                    /\ Len(units[i].imported) <= Len(ListOf(i))
                    /\ \A p, q \in FirstOccurrences(ListOf(i)) : p < q =>
                         \E m, n \in 1..Len(units[i].imported) :
                           m < n /\ units[units[i].imported[m]].path = ListOf(i)[p]
                                 /\ units[units[i].imported[n]].path = ListOf(i)[q]
                    /\ {units[units[i].imported[k]].path : k \in 1..Len(units[i].imported)}
                         = {ListOf(i)[k] : k \in 1..Len(ListOf(i))}
                    /\ \A m, n \in 1..Len(units[i].imported) :
                         units[i].imported[m] = units[i].imported[n] => m = n
  BY DEF LoadedIsComplete, ListOf
<1> DEFINE list == ListOf(i)
           im == units[i].imported
<1>1. ~ units[i].loading
  BY DEF NoneLoading
<1>2. RecordedTo(units, list, im, Len(list))
  BY <1>1 DEF Recorded
<1>3. \A p \in FirstOccurrences(list) : p <= Len(list)
  BY DEF FirstOccurrences
<1> HIDE DEF list, im
<1>4. Len(im) <= Len(list)
  BY <1>2 DEF RecordedTo
<1>5. \A p, q \in FirstOccurrences(list) : p < q =>
        \E m, n \in 1..Len(im) : m < n /\ units[im[m]].path = list[p] /\ units[im[n]].path = list[q]
  BY <1>2, <1>3 DEF RecordedTo
<1>6. {units[im[k]].path : k \in 1..Len(im)} = {list[k] : k \in 1..Len(list)}
  <2>1. \A k \in 1..Len(im) : \E p \in 1..Len(list) : units[im[k]].path = list[p]
    BY <1>2 DEF RecordedTo
  <2>2. \A p \in 1..Len(list) : \E k \in 1..Len(im) : units[im[k]].path = list[p]
    BY <1>2 DEF RecordedTo
  <2> DEFINE A == {units[im[k]].path : k \in 1..Len(im)}
             B == {list[k] : k \in 1..Len(list)}
  <2>3. A \subseteq B
    BY <2>1
  <2>4. B \subseteq A
    BY <2>2
  <2> QED
    BY <2>3, <2>4
<1>7. \A m, n \in 1..Len(im) : im[m] = im[n] => m = n
  BY <1>2 DEF RecordedTo
<1> QED
  BY <1>1, <1>4, <1>5, <1>6, <1>7 DEF list, im

\* Whatever the imports of the files, a program that loads has of each unit its whole
\* import list, each file once, in the order of its first import.
THEOREM LoadedProgramsAreComplete == LoadSpec => []LoadedIsComplete
<1>1. LoadInit => Recorded /\ NoneLoading
  <2>1. LoadInit => Len(units) = 0 /\ Len(stack) = 0 /\ verdict = "running"
    BY EmptySeq DEF LoadInit
  <2> QED
    BY <2>1 DEF Recorded, NoneLoading
<1>2. Invariant /\ Recorded /\ NoneLoading /\ [LoadStep \/ Starve]_loadVars => Recorded' /\ NoneLoading'
  BY StepRecorded
<1>3. Invariant /\ Recorded /\ NoneLoading => LoadedIsComplete
  BY RecordedIsComplete DEF Invariant
<1> QED
  BY <1>1, <1>2, <1>3, InvariantHolds, PTL DEF LoadSpec

-----------------------------------------------------------------------------
(* The driver                                                                  *)

\* What each stage finds acquired.
Acquired ==
  CASE stage \in {"arguments", "target", "ended"} -> {}
    [] stage = "load" -> {"target", "program"}
    [] stage \in {"collect", "check", "bodies", "prepare"} -> {"target", "program", "semantic"}
    [] stage = "machine" -> ContextParts \cup {"target", "program", "semantic"}
    [] stage = "layout" -> ContextParts \cup {"machine", "target", "program", "semantic"}
    [] stage \in {"lower", "write"} -> EmitterParts \cup {"target", "program", "semantic"}

Progress ==
  /\ stage \in Stages
  /\ held = Acquired
  /\ exit \in {"none", "success", "usage", "failure"}
  /\ object \in {"absent", "written", "partial"}
  /\ stage # "ended" => exit = "none" /\ object = "absent"
  /\ stage = "ended" => exit # "none" /\ (exit = "success" <=> object = "written")
  /\ stage \notin {"arguments", "ended"} => UsableArguments(arguments)
  /\ stage = "ended" => (exit = "usage" <=> ~ UsableArguments(arguments))
  /\ stage \notin {"arguments", "target", "load", "ended"} \/ exit = "success" => verdict = "loaded"

LEMMA InitProgress ==
  ASSUME Init
  PROVE  Progress
BY DEF Init, Progress, Stages, Acquired

LEMMA ReadArgumentsProgress ==
  ASSUME Progress, ReadArguments
  PROVE  Progress'
<1>1. CASE UsableArguments(arguments)
  BY <1>1 DEF ReadArguments, Enter, Progress, Stages, Acquired, loadVars
<1>2. CASE ~ UsableArguments(arguments)
  BY <1>2 DEF ReadArguments, Return, Progress, Stages, Acquired, loadVars
<1> QED
  BY <1>1, <1>2

LEMMA SelectTargetProgress ==
  ASSUME Progress, SelectTarget
  PROVE  Progress'
<1>1. CASE Enter("load", {"target", "program"})
  BY <1>1 DEF SelectTarget, Enter, Progress, Stages, Acquired, loadVars
<1>2. CASE Return("failure", {})
  BY <1>2 DEF SelectTarget, Return, Progress, Stages, Acquired, loadVars
<1> QED
  BY <1>1, <1>2 DEF SelectTarget

LEMMA LoadProgress ==
  ASSUME Progress, Load \/ RunOutOfMemory
  PROVE  Progress'
BY DEF Load, RunOutOfMemory, driverVars, Progress, Stages, Acquired

LEMMA LoadEndsProgress ==
  ASSUME Progress, LoadEnds
  PROVE  Progress'
<1>1. CASE verdict = "loaded" /\ Enter("collect", {"semantic"})
  BY <1>1 DEF LoadEnds, Enter, Progress, Stages, Acquired, loadVars
<1>2. CASE verdict = "failed" /\ Return("failure", {"target", "program"})
  BY <1>2 DEF LoadEnds, Return, Progress, Stages, Acquired, loadVars
<1> QED
  BY <1>1, <1>2 DEF LoadEnds

LEMMA SemanticPassProgress ==
  ASSUME Progress, SemanticPass
  PROVE  Progress'
<1>1. CASE Enter(AfterPass(stage), {})
  BY <1>1 DEF SemanticPass, AfterPass, Enter, Progress, Stages, Acquired, loadVars
<1>2. CASE Return("failure", {"target", "program", "semantic"})
  BY <1>2 DEF SemanticPass, Return, Progress, Stages, Acquired, loadVars
<1> QED
  BY <1>1, <1>2 DEF SemanticPass

\* A failed emission releases all that any of its stages created.
LEMMA EmissionFailsProgress ==
  ASSUME Progress, stage \in {"prepare", "machine", "layout", "lower"},
         EmissionFails, UNCHANGED <<loadVars, arguments, object>>
  PROVE  Progress'
<1>1. held \subseteq EmitterParts \cup {"target", "program", "semantic"}
  BY DEF Progress, Acquired, EmitterParts, ContextParts
<1>2. held' = {}
  BY <1>1 DEF EmissionFails, Return
<1> QED
  BY <1>2 DEF EmissionFails, Return, Progress, Stages, Acquired, loadVars

LEMMA PrepareProgress ==
  ASSUME Progress, PrepareModule \/ CreateMachine \/ CreateLayout \/ LowerProgram
  PROVE  Progress'
<1>1. CASE EmissionFails
  BY <1>1, EmissionFailsProgress DEF PrepareModule, CreateMachine, CreateLayout, LowerProgram
<1>2. CASE stage = "prepare" /\ Enter("machine", ContextParts) /\ UNCHANGED <<loadVars, arguments, object>>
  BY <1>2 DEF Enter, Progress, Stages, Acquired, loadVars
<1>3. CASE stage = "machine" /\ Enter("layout", {"machine"}) /\ UNCHANGED <<loadVars, arguments, object>>
  BY <1>3 DEF Enter, Progress, Stages, Acquired, loadVars
<1>4. CASE stage = "layout" /\ Enter("lower", {"layout"}) /\ UNCHANGED <<loadVars, arguments, object>>
  BY <1>4 DEF Enter, Progress, Stages, Acquired, loadVars, EmitterParts
<1>5. CASE stage = "lower" /\ Enter("write", {}) /\ UNCHANGED <<loadVars, arguments, object>>
  BY <1>5 DEF Enter, Progress, Stages, Acquired, loadVars
<1> QED
  BY <1>1, <1>2, <1>3, <1>4, <1>5 DEF PrepareModule, CreateMachine, CreateLayout, LowerProgram

LEMMA WriteProgress ==
  ASSUME Progress, WriteObject
  PROVE  Progress'
<1>1. held \subseteq EmitterParts \cup {"target", "program", "semantic"}
  BY DEF Progress, Acquired, WriteObject
<1>2. held' = {}
  BY <1>1 DEF WriteObject, EmissionFails, Return
<1> QED
  BY <1>2 DEF WriteObject, EmissionFails, Return, Progress, Stages, Acquired, loadVars

LEMMA StepProgress ==
  ASSUME Progress, [Step \/ RunOutOfMemory]_vars
  PROVE  Progress'
<1>1. CASE UNCHANGED vars
  BY <1>1 DEF vars, driverVars, loadVars, Progress, Acquired
<1> QED
  BY <1>1, ReadArgumentsProgress, SelectTargetProgress, LoadProgress, LoadEndsProgress,
     SemanticPassProgress, PrepareProgress, WriteProgress DEF Step

\* To the loader, a step of the driver is one of its own or none.
LEMMA StepLoads ==
  ASSUME [Step \/ RunOutOfMemory]_vars
  PROVE  [LoadStep \/ Starve]_loadVars
BY DEF Step, RunOutOfMemory, Load, LoadEnds, ReadArguments, SelectTarget, SemanticPass,
  PrepareModule, CreateMachine, CreateLayout, LowerProgram, WriteObject, vars

Inductive == Invariant /\ Recorded /\ NoneLoading /\ Progress /\ arguments \in CommandLines

\* The driver's own state and the loader's are what their invariants say.
THEOREM DriverInvariant == Spec => []Inductive
<1>1. Init => Inductive
  <2>1. LoadInit => Len(units) = 0 /\ Len(stack) = 0 /\ verdict = "running"
    BY EmptySeq DEF LoadInit
  <2>2. LoadInit => Recorded /\ NoneLoading
    BY <2>1 DEF Recorded, NoneLoading
  <2> QED
    BY <2>2, InitInvariant, InitProgress DEF Init, Inductive
<1>2. Inductive /\ [Step \/ RunOutOfMemory]_vars => Inductive'
  <2> SUFFICES ASSUME Inductive, [Step \/ RunOutOfMemory]_vars
               PROVE  Inductive'
    OBVIOUS
  <2>1. [LoadStep \/ Starve]_loadVars
    BY StepLoads
  <2>2. Invariant' /\ Recorded' /\ NoneLoading' /\ Progress'
    BY <2>1, StepInvariant, StepRecorded, StepProgress DEF Inductive
  <2>3. arguments' = arguments
    BY DEF Step, RunOutOfMemory, Load, LoadEnds, ReadArguments, SelectTarget, SemanticPass,
      PrepareModule, CreateMachine, CreateLayout, LowerProgram, WriteObject, vars, driverVars
  <2> QED
    BY <2>2, <2>3 DEF Inductive
<1> QED
  BY <1>1, <1>2, PTL DEF Spec

\* Every variable of the process keeps its type.
THEOREM DriverTypeCorrect == Spec => []TypeOK
<1>1. Inductive => TypeOK
  <2> SUFFICES ASSUME Inductive
               PROVE  TypeOK
    OBVIOUS
  <2>1. LoadTypeOK
    BY ShapeTyped DEF Inductive, Invariant
  <2>2. arguments \in Seq(Words)
    BY ArgumentsAssumption DEF Inductive
  <2>3. held \subseteq EmitterParts \cup {"target", "program", "semantic"}
    BY DEF Inductive, Progress, Stages, Acquired, EmitterParts, ContextParts
  <2> QED
    BY <2>1, <2>2, <2>3 DEF TypeOK, Inductive, Progress
<1> QED
  BY <1>1, DriverInvariant, PTL

\* Every return of main releases what exists, and succeeds only with a loaded program
\* whose object is written.
THEOREM ExitsReleaseEverything == Spec => []ExitsClean
<1>1. Inductive => ExitsClean
  BY DEF Inductive, Progress, Acquired, ExitsClean
<1> QED
  BY <1>1, DriverInvariant, PTL

\* In the process as in the loader: the loaded program is complete, indexes stay valid,
\* and loading is the closure of the imports.
THEOREM DriverLoadsTheClosure ==
  Spec => []LoadedIsComplete /\ UnitsOnlyGrow /\ LoadsTheClosure
<1>1. Inductive => LoadedIsComplete
  BY RecordedIsComplete DEF Inductive, Invariant
<1>2. Spec => []LoadedIsComplete
  BY <1>1, DriverInvariant, PTL
<1>3. Inductive /\ [Step \/ RunOutOfMemory]_vars => [Grown]_units
  BY StepLoads, StepGrows DEF Inductive, Invariant
<1>4. Spec => [][Grown]_units
  BY <1>3, DriverInvariant, PTL DEF Spec
<1>5. [][Grown]_units <=> UnitsOnlyGrow
  BY DEF Grown, UnitsOnlyGrow
<1>6. Init => Closure!Init
  BY ClosureInit DEF Init
<1>7. Inductive /\ [Step \/ RunOutOfMemory]_vars => [Closure!Next]_Closure!vars
  BY StepLoads, StepSimulation DEF Inductive
<1>8. Spec => Closure!Safety
  BY <1>6, <1>7, DriverInvariant, PTL DEF Spec, Closure!Safety
<1> QED
  BY <1>2, <1>4, <1>5, <1>8 DEF LoadsTheClosure
=============================================================================
