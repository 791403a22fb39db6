------------------------------- MODULE Layout -------------------------------
(***************************************************************************)
(* The layout arithmetic of interface/abi/Tlaiser/ABI/Layout.idr, and the  *)
(* two decisions a client makes with it: verifyLayout on a vector of       *)
(* fields, then checkCABI on the layout it got.  A layout of the interface *)
(* is written by hand: MkStructLayout asks of its total what verifyLayout  *)
(* decides of a calculated one (sizeCorrect, aligned).  Both checks are    *)
(* made in the order of the code, the fields passed one by one.            *)
(*                                                                         *)
(* Numbers are Nat, unbounded as in Idris2.  An alignment may be zero      *)
(* where the code never divides by it (Callable): mod by zero has no value.*)
(***************************************************************************)
EXTENDS Integers, Sequences, SequencesExt

CONSTANTS
    Layouts,     \* what verifyLayout is called with
    NumVars      \* the numbers of variables of a layout of the interface

Field == [offset : Nat, size : Nat, alignment : Nat]
\* The size is rounded to the alignment of the whole, unless there is no
\* field, and to that of the last field, unless it is the only one.
Callable(l) ==
    /\ l.fields /= << >> => l.align /= 0
    /\ Len(l.fields) > 1 => Last(l.fields).alignment /= 0
ASSUME LayoutAssumption ==
    /\ Layouts \subseteq {l \in [fields : Seq(Field), align : Nat] : Callable(l)}
    /\ NumVars \subseteq Nat

VARIABLES
    given,       \* the fields and the alignment; never assigned
    pc,          \* the check that comes next, or the verdict
    totalSize,   \* calculated, or written by hand
    sum,         \* of the sizes of the fields passed
    passed       \* fields the current check has passed

vars == <<given, pc, totalSize, sum, passed>>

------------------------------------------------------------------------------
\* (Slip: it goes past the boundary as far as it was past the last one.)
PadByRest(offset, alignment) == offset % alignment
paddingFor(offset, alignment) ==
    IF offset % alignment = 0 THEN 0 ELSE alignment - (offset % alignment)
alignUp(size, alignment) == size + paddingFor(size, alignment)
nextFieldOffset(f) == alignUp(f.offset + f.size, f.alignment)

\* What Divides says (k is at most m, or both n and m are zero), and the
\* procedure that decides it.  (Slip: it guards against both its zeros.)
Divides(n, m) == \E k \in 0 .. m : m = k * n
DecNoZeros(n, m) == n /= 0 /\ m /= 0 /\ m = (m \div n) * n
decDivides(n, m) == n /= 0 /\ m = (m \div n) * n

\* The left fold ignores its accumulator and keeps the last field; the right
\* fold ends at the head of the tail.  (Slip: the last field has no size.)
SizeFromLastOffset(fs, align) ==
    IF fs = << >> THEN 0 ELSE alignUp(Last(fs).offset, align)
calcStructSize(fs, align) ==
    IF fs = << >> THEN 0
    ELSE IF Len(fs) = 1 THEN alignUp(fs[1].offset + fs[1].size, align)
    ELSE alignUp(nextFieldOffset(fs[Len(fs)]) + fs[2].size, align)

\* The layouts of the interface, with the totals written in them.  (Slip: the
\* variables of a trace step begin where those of a state do.)
MkField(offset, size, alignment) ==
    [offset |-> offset, size |-> size, alignment |-> alignment]
stateSpaceFields(numVars) == [i \in 1 .. numVars |-> MkField((i - 1) * 8, 8, 8)]
traceStepPrefix == <<MkField(0, 8, 8), MkField(8, 4, 4), MkField(12, 4, 4)>>
TraceStepNoPrefix(numVars) ==
    traceStepPrefix \o [i \in 1 .. numVars |-> MkField((i - 1) * 8, 8, 8)]
traceStepFields(numVars) ==
    traceStepPrefix \o [i \in 1 .. numVars |-> MkField(16 + (i - 1) * 8, 8, 8)]
modelCheckRequestFields ==
    <<MkField(0, 8, 8), MkField(8, 4, 4), MkField(12, 4, 4), MkField(16, 8, 8), MkField(24, 4, 4),
      MkField(28, 4, 4), MkField(32, 8, 8), MkField(40, 4, 4), MkField(44, 4, 4)>>

MkStructLayout(fs, total, align) ==
    [given |-> [fields |-> fs, align |-> align], totalSize |-> total]
stateSpaceLayout(numVars) == MkStructLayout(stateSpaceFields(numVars), numVars * 8, 8)
traceStepLayout(numVars) == MkStructLayout(traceStepFields(numVars), 16 + numVars * 8, 8)
modelCheckRequestLayout == MkStructLayout(modelCheckRequestFields, 48, 8)
Interface ==
    {stateSpaceLayout(n) : n \in NumVars} \cup {traceStepLayout(n) : n \in NumVars}
      \cup {modelCheckRequestLayout}

------------------------------------------------------------------------------
Init ==
    /\ \/ given \in Layouts /\ totalSize = 0 /\ pc = "size"
       \/ \E l \in Interface : given = l.given /\ totalSize = l.totalSize /\ pc = "sum"
    /\ sum = 0 /\ passed = 0

\* verifyLayout, or the obligations of MkStructLayout.
Size ==
    /\ pc = "size"
    /\ totalSize' = calcStructSize(given.fields, given.align)
    /\ pc' = "sum"
    /\ UNCHANGED <<given, sum, passed>>
Add ==
    /\ pc = "sum" /\ passed < Len(given.fields)
    /\ sum' = sum + given.fields[passed + 1].size
    /\ passed' = passed + 1
    /\ UNCHANGED <<given, pc, totalSize>>
Choose ==
    /\ pc = "sum" /\ passed = Len(given.fields)
    /\ pc' = IF totalSize >= sum THEN "multiple" ELSE "Invalid struct size"
    /\ passed' = 0
    /\ UNCHANGED <<given, totalSize, sum>>
Multiple ==
    /\ pc = "multiple"
    /\ pc' = IF decDivides(given.align, totalSize) THEN "fields" ELSE "not a multiple"
    /\ UNCHANGED <<given, totalSize, sum, passed>>

\* checkCABI: decFieldsAligned goes through the vector and stops at a field
\* that is not aligned.
Look ==
    /\ pc = "fields" /\ passed < Len(given.fields)
    /\ LET f == given.fields[passed + 1]
       IN  IF decDivides(f.alignment, f.offset)
             THEN passed' = passed + 1 /\ UNCHANGED pc
             ELSE pc' = "misaligned" /\ UNCHANGED passed
    /\ UNCHANGED <<given, totalSize, sum>>
Comply ==
    /\ pc = "fields" /\ passed = Len(given.fields)
    /\ pc' = "compliant"
    /\ UNCHANGED <<given, totalSize, sum, passed>>

Next == Size \/ Add \/ Choose \/ Multiple \/ Look \/ Comply
Spec == Init /\ [][Next]_vars

------------------------------------------------------------------------------
Verdict == {"Invalid struct size", "not a multiple", "misaligned", "compliant"}

\* Fields as C places them: none begins before the end of an earlier one,
\* and with no byte between them.
End(f) == f.offset + f.size
Ordered(fs) == \A i, j \in DOMAIN fs : i < j => End(fs[i]) <= fs[j].offset
Contiguous(fs) ==
    /\ fs /= << >> => fs[1].offset = 0
    /\ Ordered(fs)
    /\ \A i, j \in DOMAIN fs : j = i + 1 => fs[j].offset = End(fs[i])
FieldsAligned(fs) == \A i \in DOMAIN fs : Divides(fs[i].alignment, fs[i].offset)

(* offsetInBounds: in a layout whose fields do not overlap, each ends       *)
(* within the size that was calculated, whatever the alignments, or that    *)
(* was written by hand; and so the sum of their sizes never exceeds it.     *)
CoversFields ==
    Ordered(given.fields) =>
        /\ pc /= "Invalid struct size"
        /\ pc /= "size" => \A i \in DOMAIN given.fields : End(given.fields[i]) <= totalSize

(* "Total size is not a multiple of the alignment" is said of one layout    *)
(* only, the empty one of alignment zero: every other size is a multiple.   *)
SizeIsMultiple ==
    /\ pc /= "size" => Divides(given.align, totalSize)
    /\ pc = "not a multiple" => given.fields = << >> /\ given.align = 0

(* "CABICompliant": a layout is compliant only when each of its fields is   *)
(* aligned, and misaligned only when one is not, or has alignment zero      *)
(* (which divides the offset zero, but is never decided to).                *)
VerdictExact ==
    /\ pc = "compliant" => FieldsAligned(given.fields)
    /\ pc = "misaligned" =>
         \/ ~FieldsAligned(given.fields)
         \/ \E i \in DOMAIN given.fields : given.fields[i].alignment = 0

(* "Calculate total struct size including all padding": the end of the last *)
(* field, rounded up once.                                                  *)
SizeIsExact ==
    pc = "compliant" /\ given.fields /= << >> /\ Ordered(given.fields) =>
        totalSize = alignUp(End(Last(given.fields)), given.align)

(* The layouts of the interface, for any number of variables, pass every    *)
(* check, with the total written in them and with the calculated one; the   *)
(* fields, padding included, fill the written total and leave no gap.       *)
InterfaceComplies ==
    \A l \in Interface : given = l.given =>
        /\ pc \notin Verdict \ {"compliant"}
        /\ Contiguous(given.fields)
        /\ pc = "sum" /\ passed = Len(given.fields) => sum = l.totalSize
==============================================================================
