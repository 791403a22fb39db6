---------------------------- MODULE LayoutProofs ----------------------------
(* The divisibility facts Layout.idr decides case by case, for every number, *)
(* and what they make of verifyLayout and checkCABI on every layout.         *)
EXTENDS Layout, SequenceTheorems, TLAPS

LEMMA Division ==
    ASSUME NEW x \in Nat, NEW n \in Nat \ {0}
    PROVE  /\ x = (x \div n) * n + (x % n)
           /\ x % n \in 0 .. n - 1
           /\ x \div n \in 0 .. x
  OBVIOUS

LEMMA Multiple1 ==
    ASSUME NEW k \in Nat, NEW n \in Nat \ {0}
    PROVE  (k * n) \div n = k /\ (k + 1) * n = k * n + n /\ k <= k * n
<1>1. (k * n) \div n = k
  BY Z3
<1>. QED  BY <1>1

(* decDivides: the procedure answers whether there is a witness, of every   *)
(* divisor but zero; of zero it never answers, though it divides zero.      *)
THEOREM DecidesDivides ==
    ASSUME NEW n \in Nat, NEW m \in Nat
    PROVE  /\ decDivides(n, m) <=> n /= 0 /\ Divides(n, m)
           /\ Divides(0, m) <=> m = 0
<1>1. ASSUME decDivides(n, m) PROVE n /= 0 /\ Divides(n, m)
  <2>1. n \in Nat \ {0} /\ m = (m \div n) * n
    BY <1>1 DEF decDivides
  <2>2. m \div n \in 0 .. m
    BY <2>1, Division
  <2>. QED  BY <2>1, <2>2 DEF Divides
<1>2. ASSUME n /= 0, Divides(n, m) PROVE decDivides(n, m)
  <2>1. PICK k \in 0 .. m : m = k * n
    BY <1>2 DEF Divides
  <2>2. m \div n = k
    BY <1>2, <2>1, Multiple1
  <2>. QED  BY <1>2, <2>1, <2>2 DEF decDivides
<1>3. Divides(0, m) <=> m = 0
  BY DEF Divides
<1>. QED  BY <1>1, <1>2, <1>3

(* "The general theorem alignUp size align is always divisible by align",   *)
(* which the code decides for each size instead.                            *)
THEOREM AlignUpDivides ==
    ASSUME NEW size \in Nat, NEW align \in Nat \ {0}
    PROVE  /\ alignUp(size, align) \in Nat
           /\ size <= alignUp(size, align)
           /\ Divides(align, alignUp(size, align))
<1>1. PICK q \in Nat, r \in 0 .. align - 1 : size = q * align + r /\ size % align = r
  <2>1. size \div align \in Nat
    BY Division
  <2>. QED  BY <2>1, Division
<1>2. CASE r = 0
  <2>1. alignUp(size, align) = q * align /\ q * align = size
    BY <1>1, <1>2 DEF alignUp, paddingFor
  <2>2. q \in 0 .. q * align
    BY <1>1, Multiple1
  <2>. QED  BY <2>1, <2>2 DEF Divides
<1>3. CASE r /= 0
  <2>1. alignUp(size, align) = size + (align - r)
    BY <1>1, <1>3 DEF alignUp, paddingFor
  <2>2. (q + 1) * align = q * align + align /\ q + 1 <= (q + 1) * align
    BY Multiple1
  <2>3. q * align \in Nat
    OBVIOUS
  <2>4. alignUp(size, align) = (q + 1) * align /\ size <= alignUp(size, align)
    BY <1>1, <2>1, <2>2, <2>3
  <2>5. q + 1 \in 0 .. alignUp(size, align) /\ alignUp(size, align) \in Nat
    BY <2>2, <2>3, <2>4
  <2>. QED  BY <2>4, <2>5 DEF Divides
<1>. QED  BY <1>2, <1>3

WellFormed == {l \in [fields : Seq(Field), align : Nat] : Callable(l)}

LEMMA FieldType ==
    ASSUME NEW g \in WellFormed
    PROVE  /\ g.fields \in Seq(Field)
           /\ DOMAIN g.fields = 1 .. Len(g.fields) /\ Len(g.fields) \in Nat
           /\ g.fields = << >> \/ Len(g.fields) = 1 \/ Len(g.fields) > 1
           /\ g.align \in Nat /\ (g.fields /= << >> => g.align \in Nat \ {0})
           /\ \A i \in DOMAIN g.fields :
                /\ g.fields[i].offset \in Nat /\ g.fields[i].size \in Nat
                /\ g.fields[i].alignment \in Nat
           /\ Len(g.fields) > 1 => g.fields[Len(g.fields)].alignment /= 0
<1>1. g.fields \in Seq(Field) /\ g.align \in Nat /\ (g.fields /= << >> => g.align /= 0)
  BY DEF WellFormed, Callable
<1>2. \A i \in DOMAIN g.fields : g.fields[i] \in Field
  BY <1>1
<1>3. DOMAIN g.fields = 1 .. Len(g.fields) /\ Len(g.fields) \in Nat
  BY <1>1
<1>4. g.fields = << >> \/ Len(g.fields) = 1 \/ Len(g.fields) > 1
  <2>1. ASSUME g.fields /= << >> PROVE Len(g.fields) >= 1
    <3>1. Len(Tail(g.fields)) = Len(g.fields) - 1 /\ Len(Tail(g.fields)) \in Nat
      BY <1>1, <2>1, HeadTailProperties, LenProperties
    <3>. QED  BY <1>3, <3>1
  <2>2. \A n \in Nat : n >= 1 => n = 1 \/ n > 1
    OBVIOUS
  <2>. QED  BY <1>3, <2>1, <2>2, Zenon
<1>5. Len(g.fields) > 1 => g.fields[Len(g.fields)].alignment /= 0
  BY DEF WellFormed, Callable, Last
<1>6. \A i \in DOMAIN g.fields : /\ g.fields[i].offset \in Nat /\ g.fields[i].size \in Nat
                                 /\ g.fields[i].alignment \in Nat
  BY <1>2 DEF Field
<1>. QED  BY <1>1, <1>3, <1>4, <1>5, <1>6

LEMMA EndType ==
    ASSUME NEW g \in WellFormed, NEW i \in DOMAIN g.fields
    PROVE  End(g.fields[i]) \in Nat
<1>1. g.fields[i].offset \in Nat /\ g.fields[i].size \in Nat
  BY FieldType
<1>. QED  BY <1>1 DEF End

(* The calculated size is a multiple, at least the end of the last field,   *)
(* and so at least the end of every field where none overlap.               *)
LEMMA SizeIs ==
    ASSUME NEW g \in WellFormed, NEW size, size = calcStructSize(g.fields, g.align)
    PROVE  /\ size \in Nat
           /\ Divides(g.align, size)
           /\ g.fields /= << >> => End(g.fields[Len(g.fields)]) <= size
<1>1. CASE g.fields = << >>
  BY <1>1, FieldType DEF calcStructSize, Divides
<1>2. CASE Len(g.fields) = 1
  <2>1. 1 \in DOMAIN g.fields /\ g.fields /= << >>
    BY <1>2, FieldType
  <2>2. size = alignUp(End(g.fields[1]), g.align) /\ End(g.fields[1]) \in Nat
    BY <1>2, <2>1, FieldType DEF calcStructSize, End
  <2>. QED  BY <1>2, <2>1, <2>2, AlignUpDivides, FieldType
<1>3. CASE Len(g.fields) > 1
  <2> DEFINE last == g.fields[Len(g.fields)]
             second == g.fields[2]
  <2>1. /\ Len(g.fields) \in DOMAIN g.fields /\ 2 \in DOMAIN g.fields
        /\ g.fields /= << >> /\ Len(g.fields) /= 1
    BY <1>3, FieldType
  <2>2. End(last) \in Nat /\ second.size \in Nat /\ last.alignment \in Nat \ {0}
    <3>1. last.alignment /= 0
      BY <1>3, FieldType
    <3>. QED  BY <2>1, <3>1, FieldType DEF End
  <2>3. nextFieldOffset(last) \in Nat /\ End(last) <= nextFieldOffset(last)
    BY <2>2, AlignUpDivides DEF nextFieldOffset, End
  <2>4. size = alignUp(nextFieldOffset(last) + second.size, g.align)
    BY <2>1 DEF calcStructSize
  <2>5. nextFieldOffset(last) + second.size \in Nat
    BY <2>2, <2>3
  <2>6. size \in Nat /\ Divides(g.align, size) /\ nextFieldOffset(last) + second.size <= size
    <3>1. g.align \in Nat \ {0}
      BY <2>1, FieldType
    <3>. QED  BY <2>4, <2>5, <3>1, AlignUpDivides
  <2>7. End(last) <= size
    <3> HIDE DEF last, second
    <3>. QED  BY <2>2, <2>3, <2>5, <2>6
  <2>. QED  BY <2>6, <2>7
<1>. QED  BY <1>1, <1>2, <1>3, FieldType

LEMMA OrderedEnds ==
    ASSUME NEW g \in WellFormed, Ordered(g.fields), NEW i \in DOMAIN g.fields
    PROVE  End(g.fields[i]) <= End(g.fields[Len(g.fields)])
<1>1. /\ Len(g.fields) \in DOMAIN g.fields /\ i \in 1 .. Len(g.fields)
  BY FieldType
<1>2. /\ End(g.fields[i]) \in Nat
      /\ g.fields[Len(g.fields)].offset \in Nat /\ g.fields[Len(g.fields)].size \in Nat
  BY <1>1, FieldType DEF End
<1>3. CASE i = Len(g.fields)
  BY <1>2, <1>3 DEF End
<1>4. CASE i /= Len(g.fields)
  <2>1. End(g.fields[i]) <= g.fields[Len(g.fields)].offset
    BY <1>1, <1>4 DEF Ordered
  <2>. QED  BY <1>2, <2>1 DEF End
<1>. QED  BY <1>3, <1>4

------------------------------------------------------------------------------
(* The layouts of the interface: what each check will find, and a written   *)
(* total that is the end of the last field.                                 *)
ZeroAligned(fs) == \E i \in DOMAIN fs : fs[i].alignment = 0
Shaped(l) ==
    /\ l.given \in WellFormed
    /\ Contiguous(l.given.fields)
    /\ FieldsAligned(l.given.fields) /\ ~ZeroAligned(l.given.fields)
    /\ l.given.align = 8 /\ l.totalSize \in Nat /\ Divides(8, l.totalSize)
    /\ l.totalSize = IF l.given.fields = << >> THEN 0
                                               ELSE End(l.given.fields[Len(l.given.fields)])

LEMMA StateSpaceShaped ==
    ASSUME NEW n \in Nat
    PROVE  Shaped(stateSpaceLayout(n))
<1> DEFINE fs == stateSpaceFields(n)
<1>1. /\ DOMAIN fs = 1 .. n /\ Len(fs) = n /\ fs \in Seq(Field)
      /\ \A i \in 1 .. n : /\ fs[i].offset = (i - 1) * 8
                          /\ fs[i].size = 8 /\ fs[i].alignment = 8
  BY DEF stateSpaceFields, MkField, Field
<1>2. fs = << >> <=> n = 0
  BY DEF stateSpaceFields
<1>3. stateSpaceLayout(n) = [given |-> [fields |-> fs, align |-> 8], totalSize |-> n * 8]
  BY DEF stateSpaceLayout, MkStructLayout
<1> HIDE DEF fs
<1>4. FieldsAligned(fs) /\ ~ZeroAligned(fs)
  <2>1. ASSUME NEW i \in 1 .. n PROVE Divides(8, (i - 1) * 8)
    BY DEF Divides
  <2>. QED  BY <1>1, <2>1 DEF FieldsAligned, ZeroAligned
<1>5. Contiguous(fs)
  BY <1>1, <1>2 DEF Contiguous, Ordered, End
<1>6. [fields |-> fs, align |-> 8] \in WellFormed
  BY <1>1, <1>2 DEF WellFormed, Callable, Last
<1>7. n * 8 \in Nat /\ Divides(8, n * 8) /\ n * 8 = IF fs = << >> THEN 0 ELSE End(fs[Len(fs)])
  BY <1>1, <1>2 DEF Divides, End
<1>. QED  BY <1>3, <1>4, <1>5, <1>6, <1>7 DEF Shaped

LEMMA TraceStepShaped ==
    ASSUME NEW n \in Nat
    PROVE  Shaped(traceStepLayout(n))
<1> DEFINE fs == traceStepFields(n)
<1>1. /\ DOMAIN fs = 1 .. n + 3 /\ Len(fs) = n + 3
      /\ fs[1] = MkField(0, 8, 8) /\ fs[2] = MkField(8, 4, 4) /\ fs[3] = MkField(12, 4, 4)
      /\ \A i \in 4 .. n + 3 : fs[i] = MkField(16 + (i - 4) * 8, 8, 8)
  BY DEF traceStepFields, traceStepPrefix
<1>0. traceStepLayout(n) = [given |-> [fields |-> fs, align |-> 8], totalSize |-> 16 + n * 8]
  BY DEF traceStepLayout, MkStructLayout
<1>8. fs \in Seq(Field)
  <2>1. traceStepPrefix \in Seq(Field)
    BY DEF traceStepPrefix, MkField, Field
  <2>2. [i \in 1 .. n |-> MkField(16 + (i - 1) * 8, 8, 8)] \in Seq(Field)
    BY DEF MkField, Field
  <2>. QED  BY <2>1, <2>2, ConcatProperties DEF traceStepFields
<1> HIDE DEF fs
<1>2. /\ fs[1].offset = 0 /\ fs[1].size = 8 /\ fs[1].alignment = 8
      /\ fs[2].offset = 8 /\ fs[2].size = 4 /\ fs[2].alignment = 4
      /\ fs[3].offset = 12 /\ fs[3].size = 4 /\ fs[3].alignment = 4
      /\ \A i \in 4 .. n + 3 : /\ fs[i].offset = 16 + (i - 4) * 8
                              /\ fs[i].size = 8 /\ fs[i].alignment = 8
  <2>1. fs[1].offset = 0 /\ fs[1].size = 8 /\ fs[1].alignment = 8
    BY <1>1 DEF MkField
  <2>2. fs[2].offset = 8 /\ fs[2].size = 4 /\ fs[2].alignment = 4
    BY <1>1 DEF MkField
  <2>3. fs[3].offset = 12 /\ fs[3].size = 4 /\ fs[3].alignment = 4
    BY <1>1 DEF MkField
  <2>4. ASSUME NEW i \in 4 .. n + 3
        PROVE  fs[i].offset = 16 + (i - 4) * 8 /\ fs[i].size = 8 /\ fs[i].alignment = 8
    <3>1. fs[i] = MkField(16 + (i - 4) * 8, 8, 8)
      BY <1>1
    <3>. QED  BY <3>1 DEF MkField
  <2>. QED  BY <2>1, <2>2, <2>3, <2>4
<1>3. \A i \in 1 .. n + 3 : i \in {1, 2, 3} \/ i \in 4 .. n + 3
  OBVIOUS
<1>4. FieldsAligned(fs) /\ ~ZeroAligned(fs)
  <2>1. Divides(8, 0) /\ Divides(4, 8) /\ Divides(4, 12)
    BY DEF Divides
  <2>2. ASSUME NEW i \in 4 .. n + 3 PROVE Divides(8, 16 + (i - 4) * 8)
    <3>1. 16 + (i - 4) * 8 = (i - 2) * 8 /\ i - 2 \in 0 .. 16 + (i - 4) * 8
      OBVIOUS
    <3>. QED  BY <3>1 DEF Divides
  <2>. QED  BY <1>1, <1>2, <1>3, <2>1, <2>2 DEF FieldsAligned, ZeroAligned
<1>5. Contiguous(fs)
  <2>1. /\ End(fs[1]) = 8 /\ End(fs[2]) = 12 /\ End(fs[3]) = 16
        /\ \A i \in 4 .. n + 3 : End(fs[i]) = 16 + (i - 3) * 8
    BY <1>2 DEF End
  <2>2. ASSUME NEW i \in 1 .. n + 3, NEW j \in 1 .. n + 3, i < j
        PROVE  /\ End(fs[i]) <= fs[j].offset
               /\ j = i + 1 => fs[j].offset = End(fs[i])
    <3>1. CASE j \in {1, 2, 3}
      BY <1>2, <2>1, <2>2, <3>1
    <3>2. CASE i \in {1, 2, 3} /\ j \in 4 .. n + 3
      BY <1>2, <2>1, <2>2, <3>2
    <3>3. CASE i \in 4 .. n + 3 /\ j \in 4 .. n + 3
      BY <1>2, <2>1, <2>2, <3>3
    <3>. QED  BY <1>3, <2>2, <3>1, <3>2, <3>3
  <2>3. \A i, j \in 1 .. n + 3 : j = i + 1 => i < j
    OBVIOUS
  <2>. QED  BY <1>1, <1>2, <2>2, <2>3 DEF Contiguous, Ordered
<1>6. fs /= << >> /\ [fields |-> fs, align |-> 8] \in WellFormed
  <2>1. fs[Len(fs)].alignment /= 0
    BY <1>1, <1>2, <1>3
  <2>. QED  BY <1>1, <1>8, <2>1 DEF WellFormed, Callable, Last
<1>7. 16 + n * 8 \in Nat /\ Divides(8, 16 + n * 8) /\ 16 + n * 8 = End(fs[Len(fs)])
  <2>1. Divides(8, 16 + n * 8)
    <3>1. 16 + n * 8 = (n + 2) * 8 /\ n + 2 \in 0 .. 16 + n * 8
      OBVIOUS
    <3>. QED  BY <3>1 DEF Divides
  <2>2. CASE n = 0
    BY <1>1, <1>2, <2>1, <2>2 DEF End
  <2>3. CASE n > 0
    <3>1. n + 3 \in 4 .. n + 3
      BY <2>3
    <3>. QED  BY <1>1, <1>2, <2>1, <3>1 DEF End
  <2>. QED  BY <2>2, <2>3
<1>. QED  BY <1>0, <1>4, <1>5, <1>6, <1>7 DEF Shaped

LEMMA RequestShaped == Shaped(modelCheckRequestLayout)
<1> DEFINE fs == modelCheckRequestFields
<1>1. /\ DOMAIN fs = 1 .. 9 /\ Len(fs) = 9
      /\ fs[1] = MkField(0, 8, 8) /\ fs[2] = MkField(8, 4, 4) /\ fs[3] = MkField(12, 4, 4)
      /\ fs[4] = MkField(16, 8, 8) /\ fs[5] = MkField(24, 4, 4) /\ fs[6] = MkField(28, 4, 4)
      /\ fs[7] = MkField(32, 8, 8) /\ fs[8] = MkField(40, 4, 4) /\ fs[9] = MkField(44, 4, 4)
  BY DEF modelCheckRequestFields
<1>2. modelCheckRequestLayout = [given |-> [fields |-> fs, align |-> 8], totalSize |-> 48]
  BY DEF modelCheckRequestLayout, MkStructLayout
<1>3. fs \in Seq(Field)
  BY DEF modelCheckRequestFields, MkField, Field
<1> HIDE DEF fs
<1>4. /\ fs[1].offset = 0 /\ fs[2].offset = 8 /\ fs[3].offset = 12
      /\ fs[4].offset = 16 /\ fs[5].offset = 24 /\ fs[6].offset = 28
      /\ fs[7].offset = 32 /\ fs[8].offset = 40 /\ fs[9].offset = 44
  BY <1>1 DEF MkField
<1>5. /\ End(fs[1]) = 8 /\ End(fs[2]) = 12 /\ End(fs[3]) = 16
      /\ End(fs[4]) = 24 /\ End(fs[5]) = 28 /\ End(fs[6]) = 32
      /\ End(fs[7]) = 40 /\ End(fs[8]) = 44 /\ End(fs[9]) = 48
  BY <1>1 DEF MkField, End
<1>6. /\ fs[1].alignment = 8 /\ fs[2].alignment = 4 /\ fs[3].alignment = 4
      /\ fs[4].alignment = 8 /\ fs[5].alignment = 4 /\ fs[6].alignment = 4
      /\ fs[7].alignment = 8 /\ fs[8].alignment = 4 /\ fs[9].alignment = 4
  BY <1>1 DEF MkField
<1>7. \A i \in 1 .. 9 : i \in {1, 2, 3, 4, 5, 6, 7, 8, 9}
  OBVIOUS
<1>8. FieldsAligned(fs) /\ ~ZeroAligned(fs)
  <2>1. /\ Divides(8, 0) /\ Divides(4, 8) /\ Divides(4, 12) /\ Divides(8, 16)
        /\ Divides(4, 24) /\ Divides(4, 28) /\ Divides(8, 32) /\ Divides(4, 40)
        /\ Divides(4, 44)
    BY DEF Divides
  <2>. QED  BY <1>1, <1>4, <1>6, <1>7, <2>1 DEF FieldsAligned, ZeroAligned
<1>9. Contiguous(fs)
  <2>1. ASSUME NEW i \in 1 .. 9, NEW j \in 1 .. 9, i < j
        PROVE  /\ End(fs[i]) <= fs[j].offset
               /\ j = i + 1 => fs[j].offset = End(fs[i])
    BY <1>4, <1>5, <1>7, <2>1
  <2>2. \A i, j \in 1 .. 9 : j = i + 1 => i < j
    OBVIOUS
  <2>. QED  BY <1>1, <1>4, <2>1, <2>2 DEF Contiguous, Ordered
<1>10. fs /= << >> /\ [fields |-> fs, align |-> 8] \in WellFormed
  <2>1. Len(fs) = 9 /\ 4 /= 0
    BY <1>1
  <2>2. fs[Len(fs)].alignment /= 0
    BY <1>6, <2>1
  <2>3. fs /= << >>
    BY <2>1
  <2>. QED  BY <1>3, <2>2, <2>3 DEF WellFormed, Callable, Last
<1>11. Divides(8, 48)
  BY DEF Divides
<1>. QED  BY <1>1, <1>2, <1>5, <1>8, <1>9, <1>10, <1>11 DEF Shaped

LEMMA InterfaceShaped ==
    ASSUME NEW l \in Interface
    PROVE  Shaped(l)
  BY StateSpaceShaped, TraceStepShaped, RequestShaped, LayoutAssumption DEF Interface

------------------------------------------------------------------------------
(* The inductive invariant: a total is a multiple and covers the last       *)
(* field, the sum is at most the end of the last field passed (that very    *)
(* end where there are no gaps), and the fields looked at are aligned.      *)
EndOf(k) == IF k = 0 THEN 0 ELSE End(given.fields[k])

LInv ==
    /\ given \in WellFormed
    /\ pc \in {"size", "sum", "multiple", "fields"} \cup Verdict
    /\ totalSize \in Nat /\ sum \in Nat /\ passed \in 0 .. Len(given.fields)
    /\ pc = "size" => sum = 0 /\ passed = 0
    /\ pc /= "size" =>
         /\ Divides(given.align, totalSize)
         /\ given.fields /= << >> => End(given.fields[Len(given.fields)]) <= totalSize
    /\ pc = "sum" =>
         /\ Ordered(given.fields) => sum <= EndOf(passed)
         /\ Contiguous(given.fields) => sum = EndOf(passed)
    /\ pc = "Invalid struct size" => ~Ordered(given.fields)
    /\ pc = "multiple" => passed = 0
    /\ pc = "not a multiple" => given.fields = << >> /\ given.align = 0
    /\ pc \in {"fields", "compliant"} =>
         \A i \in 1 .. passed : Divides(given.fields[i].alignment, given.fields[i].offset)
    /\ pc = "compliant" => passed = Len(given.fields)
    /\ pc = "misaligned" => ~FieldsAligned(given.fields) \/ ZeroAligned(given.fields)

LEMMA InitLInv == Init => LInv
<1> SUFFICES ASSUME Init PROVE LInv
  OBVIOUS
<1>1. sum = 0 /\ passed = 0 /\ EndOf(passed) = 0
  BY DEF Init, EndOf
<1>2. CASE given \in Layouts /\ totalSize = 0 /\ pc = "size"
  <2>1. given \in WellFormed
    BY <1>2, LayoutAssumption DEF WellFormed
  <2>2. Len(given.fields) \in Nat
    BY <2>1, FieldType
  <2>. QED  BY <1>1, <1>2, <2>1, <2>2 DEF LInv, Verdict
<1>3. ASSUME NEW l \in Interface, given = l.given, totalSize = l.totalSize, pc = "sum"
      PROVE  LInv
  <2>1. Shaped(l)
    BY InterfaceShaped
  <2>2. given \in WellFormed /\ Len(given.fields) \in Nat
    BY <1>3, <2>1, FieldType DEF Shaped
  <2>3. given.fields /= << >> => End(given.fields[Len(given.fields)]) <= totalSize
    BY <1>3, <2>1 DEF Shaped
  <2>. QED  BY <1>1, <1>3, <2>1, <2>2, <2>3 DEF LInv, Verdict, Shaped
<1>. QED  BY <1>2, <1>3 DEF Init

(* A field adds its size to the sum, and at least that to the end.          *)
LEMMA AddEnds ==
    ASSUME LInv, pc = "sum", passed < Len(given.fields)
    PROVE  LET f == given.fields[passed + 1]
           IN  /\ sum + f.size \in Nat
               /\ Ordered(given.fields) => sum + f.size <= End(f)
               /\ Contiguous(given.fields) => sum + f.size = End(f)
<1> DEFINE f == given.fields[passed + 1]
<1>1. /\ given \in WellFormed /\ sum \in Nat /\ passed \in Nat
      /\ passed + 1 \in DOMAIN given.fields
  BY FieldType DEF LInv
<1>2. f.offset \in Nat /\ f.size \in Nat
  BY <1>1, FieldType
<1>3. CASE passed = 0
  <2>1. sum <= 0 \/ ~Ordered(given.fields)
    BY <1>3 DEF LInv, EndOf
  <2>2. Contiguous(given.fields) => sum = 0 /\ f.offset = 0
    <3>1. given.fields /= << >>
      BY <1>1, <1>3
    <3>. QED  BY <1>3, <3>1 DEF LInv, EndOf, Contiguous
  <2> HIDE DEF f
  <2>. QED  BY <1>1, <1>2, <2>1, <2>2 DEF End, f
<1>4. CASE passed /= 0
  <2> DEFINE e == given.fields[passed]
  <2>1. passed \in DOMAIN given.fields /\ End(e) \in Nat
    <3>1. passed \in DOMAIN given.fields
      BY <1>1, <1>4, FieldType DEF LInv
    <3>. QED  BY <1>1, <3>1, EndType
  <2>2. Ordered(given.fields) => sum <= End(e) /\ End(e) <= f.offset
    BY <1>1, <1>4, <2>1 DEF LInv, EndOf, Ordered
  <2>3. Contiguous(given.fields) => sum = End(e) /\ f.offset = End(e)
    BY <1>1, <1>4, <2>1 DEF LInv, EndOf, Contiguous
  <2> HIDE DEF e, f
  <2>. QED  BY <1>1, <1>2, <2>1, <2>2, <2>3 DEF End, f
<1>. QED  BY <1>3, <1>4

LEMMA StepLInv == LInv /\ [Next]_vars => LInv'
<1> SUFFICES ASSUME LInv, [Next]_vars PROVE LInv'
  OBVIOUS
<1>0. Len(given.fields) \in Nat
  BY FieldType DEF LInv
<1>1. CASE UNCHANGED vars
  BY <1>1 DEF vars, LInv, EndOf
<1>2. CASE Size
  <2>1. /\ totalSize' \in Nat /\ Divides(given.align, totalSize')
        /\ given.fields /= << >> => End(given.fields[Len(given.fields)]) <= totalSize'
    BY <1>2, SizeIs DEF Size, LInv
  <2>. QED  BY <1>2, <2>1 DEF Size, Verdict, LInv, EndOf
<1>3. CASE Add
  <2>1. pc = "sum" /\ passed < Len(given.fields) /\ UNCHANGED <<given, pc, totalSize>>
        /\ sum' = sum + given.fields[passed + 1].size /\ passed' = passed + 1
    BY <1>3 DEF Add
  <2>2. /\ sum' \in Nat
        /\ Ordered(given.fields) => sum' <= End(given.fields[passed'])
        /\ Contiguous(given.fields) => sum' = End(given.fields[passed'])
    BY <2>1, AddEnds
  <2>3. passed' \in 0 .. Len(given.fields) /\ passed' /= 0
    BY <1>0, <2>1 DEF LInv
  <2>. QED  BY <2>1, <2>2, <2>3 DEF LInv, EndOf
<1>4. CASE Choose
  <2>1. pc = "sum" /\ passed = Len(given.fields) /\ UNCHANGED <<given, totalSize, sum>>
        /\ passed' = 0 /\ pc' = IF totalSize >= sum THEN "multiple" ELSE "Invalid struct size"
    BY <1>4 DEF Choose
  <2>2. Ordered(given.fields) => totalSize >= sum
    <3>0. given \in WellFormed /\ totalSize \in Nat /\ sum \in Nat
      BY DEF LInv
    <3>1. CASE Len(given.fields) = 0
      <4>1. Ordered(given.fields) => sum <= 0
        BY <2>1, <3>1 DEF LInv, EndOf
      <4>. QED  BY <3>0, <4>1
    <3>2. CASE Len(given.fields) /= 0
      <4>0. /\ given.fields = << >> \/ Len(given.fields) = 1 \/ Len(given.fields) > 1
            /\ DOMAIN given.fields = 1 .. Len(given.fields)
        BY <3>0, FieldType
      <4>1. given.fields /= << >> /\ Len(given.fields) \in DOMAIN given.fields
        BY <1>0, <3>2, <4>0
      <4>2. End(given.fields[Len(given.fields)]) \in Nat
        BY <4>1, EndType DEF LInv
      <4>3. End(given.fields[Len(given.fields)]) <= totalSize
        BY <2>1, <4>1 DEF LInv
      <4>4. Ordered(given.fields) => sum <= End(given.fields[Len(given.fields)])
        BY <2>1, <3>2 DEF LInv, EndOf
      <4>. QED  BY <3>0, <4>2, <4>3, <4>4
    <3>. QED  BY <3>1, <3>2
  <2>3. CASE totalSize >= sum
    <3>1. pc' = "multiple"
      BY <2>1, <2>3
    <3>. QED  BY <1>0, <2>1, <3>1 DEF LInv, Verdict
  <2>4. CASE ~(totalSize >= sum)
    <3>1. pc' = "Invalid struct size" /\ ~Ordered(given.fields)
      BY <2>1, <2>2, <2>4
    <3>2. /\ given' = given /\ totalSize' = totalSize /\ sum' = sum /\ passed' = 0
          /\ pc = "sum"
      BY <2>1, Zenon
    <3>3. 0 \in 0 .. Len(given.fields)
      BY <1>0
    <3>4. /\ given \in WellFormed /\ totalSize \in Nat /\ sum \in Nat
          /\ Divides(given.align, totalSize)
          /\ given.fields /= << >> => End(given.fields[Len(given.fields)]) <= totalSize
      BY <3>2 DEF LInv
    <3>. QED  BY <3>1, <3>2, <3>4, <3>3 DEF LInv, Verdict
  <2>. QED  BY <2>3, <2>4
<1>5. CASE Multiple
  <2>1. /\ pc = "multiple" /\ UNCHANGED <<given, totalSize, sum, passed>> /\ passed = 0
        /\ pc' = IF decDivides(given.align, totalSize) THEN "fields" ELSE "not a multiple"
    BY <1>5 DEF Multiple, LInv
  <2>2. ~decDivides(given.align, totalSize) => given.fields = << >> /\ given.align = 0
    <3>1. given.align \in Nat /\ totalSize \in Nat /\ Divides(given.align, totalSize)
      BY <2>1, FieldType DEF LInv
    <3>2. ~decDivides(given.align, totalSize) => given.align = 0
      BY <3>1, DecidesDivides
    <3>. QED  BY <3>2, FieldType DEF LInv
  <2>3. CASE decDivides(given.align, totalSize)
    BY <2>1, <2>3 DEF LInv, Verdict
  <2>4. CASE ~decDivides(given.align, totalSize)
    BY <2>1, <2>2, <2>4 DEF LInv, Verdict
  <2>. QED  BY <2>3, <2>4
<1>6. CASE Look
  <2> DEFINE f == given.fields[passed + 1]
  <2>1. passed + 1 \in DOMAIN given.fields /\ passed + 1 \in 1 .. Len(given.fields)
    BY <1>6, FieldType DEF Look, LInv
  <2>2. decDivides(f.alignment, f.offset) <=>
            f.alignment /= 0 /\ Divides(f.alignment, f.offset)
    BY <2>1, FieldType, DecidesDivides DEF LInv
  <2>3. CASE decDivides(f.alignment, f.offset)
    <3>1. passed' = passed + 1 /\ UNCHANGED <<given, pc, totalSize, sum>> /\ pc = "fields"
      BY <1>6, <2>3 DEF Look
    <3>2. \A i \in 1 .. passed' : i = passed + 1 \/ i \in 1 .. passed
      BY <3>1 DEF LInv
    <3>3. \A i \in 1 .. passed' : Divides(given.fields[i].alignment, given.fields[i].offset)
      BY <2>2, <2>3, <3>1, <3>2 DEF LInv
    <3>. QED  BY <2>1, <3>1, <3>3 DEF LInv, Verdict
  <2>4. CASE ~decDivides(f.alignment, f.offset)
    <3>1. pc' = "misaligned" /\ pc = "fields" /\ UNCHANGED <<given, totalSize, sum, passed>>
      BY <1>6, <2>4 DEF Look
    <3>2. ~FieldsAligned(given.fields) \/ ZeroAligned(given.fields)
      BY <2>1, <2>2, <2>4 DEF FieldsAligned, ZeroAligned
    <3>. QED  BY <3>1, <3>2 DEF LInv, Verdict
  <2>. QED  BY <2>3, <2>4
<1>7. CASE Comply
  BY <1>7 DEF Comply, Verdict, LInv
<1>. QED  BY <1>1, <1>2, <1>3, <1>4, <1>5, <1>6, <1>7 DEF Next

LEMMA Invariance == Spec => []LInv
<1>. QED  BY InitLInv, StepLInv, PTL DEF Spec

(* In a layout without overlaps every field ends within the size, calculated *)
(* or written, and the size is never refused as smaller than the fields.     *)
THEOREM CoversTheorem == Spec => []CoversFields
<1>1. LInv => CoversFields
  <2> SUFFICES ASSUME LInv, Ordered(given.fields)
               PROVE  /\ pc /= "Invalid struct size"
                      /\ pc /= "size" =>
                           \A i \in DOMAIN given.fields : End(given.fields[i]) <= totalSize
    BY DEF CoversFields
  <2>1. pc /= "Invalid struct size"
    BY DEF LInv
  <2>2. ASSUME pc /= "size", NEW i \in DOMAIN given.fields
        PROVE  End(given.fields[i]) <= totalSize
    <3>1. given \in WellFormed /\ totalSize \in Nat
      BY DEF LInv
    <3>2. given.fields /= << >> /\ Len(given.fields) \in DOMAIN given.fields
      BY <3>1, FieldType
    <3>3. /\ End(given.fields[Len(given.fields)]) <= totalSize
          /\ End(given.fields[i]) <= End(given.fields[Len(given.fields)])
      BY <2>2, <3>1, <3>2, OrderedEnds DEF LInv
    <3>4. End(given.fields[i]) \in Nat /\ End(given.fields[Len(given.fields)]) \in Nat
      BY <3>1, <3>2, EndType
    <3>. QED  BY <3>1, <3>3, <3>4
  <2>. QED  BY <2>1, <2>2
<1>. QED  BY <1>1, Invariance, PTL

(* Every size, calculated or written, is a multiple of the alignment, and    *)
(* only the empty layout of alignment zero is refused as not being one.      *)
THEOREM MultipleTheorem == Spec => []SizeIsMultiple
<1>1. LInv => SizeIsMultiple
  BY DEF LInv, SizeIsMultiple
<1>. QED  BY <1>1, Invariance, PTL

(* checkCABI says compliant only of the layouts whose fields are all         *)
(* aligned, and misaligned only of the others and of alignment zero.         *)
THEOREM VerdictTheorem == Spec => []VerdictExact
<1>1. ASSUME LInv PROVE VerdictExact
  <2>1. DOMAIN given.fields = 1 .. Len(given.fields)
    BY <1>1, FieldType DEF LInv
  <2>. QED  BY <1>1, <2>1 DEF LInv, VerdictExact, FieldsAligned, ZeroAligned
<1>. QED  BY <1>1, Invariance, PTL

(* The layouts of the interface are contiguous, fill the totals written in   *)
(* them and pass every check, for any number of variables.                   *)
THEOREM InterfaceTheorem == Spec => []InterfaceComplies
<1>1. ASSUME LInv PROVE InterfaceComplies
  <2> SUFFICES ASSUME NEW l \in Interface, given = l.given
               PROVE  /\ pc \notin Verdict \ {"compliant"}
                      /\ Contiguous(given.fields)
                      /\ pc = "sum" /\ passed = Len(given.fields) => sum = l.totalSize
    BY DEF InterfaceComplies
  <2>1. Shaped(l)
    BY InterfaceShaped
  <2>2. Contiguous(given.fields) /\ Ordered(given.fields)
    BY <2>1 DEF Shaped, Contiguous
  <2>3. pc \notin Verdict \ {"compliant"}
    <3>1. /\ FieldsAligned(given.fields) /\ ~ZeroAligned(given.fields)
          /\ given.align = 8
      BY <2>1 DEF Shaped
    <3>2. pc /= "Invalid struct size"
      BY <1>1, <2>2 DEF LInv
    <3>3. pc /= "not a multiple"
      <4>1. pc = "not a multiple" => given.align = 0
        BY <1>1 DEF LInv
      <4>2. given.align = 8 /\ 8 /= 0
        BY <3>1
      <4>. QED  BY <4>1, <4>2, Zenon
    <3>4. pc /= "misaligned"
      BY <1>1, <3>1 DEF LInv
    <3>. QED  BY <3>2, <3>3, <3>4 DEF Verdict
  <2>4. ASSUME pc = "sum", passed = Len(given.fields) PROVE sum = l.totalSize
    <3>1. given \in WellFormed
      BY <1>1 DEF LInv
    <3>2. Len(given.fields) = 0 <=> given.fields = << >>
      BY <3>1, FieldType
    <3>. QED  BY <1>1, <2>1, <2>2, <2>4, <3>2 DEF LInv, EndOf, Shaped
  <2>. QED  BY <2>2, <2>3, <2>4
<1>. QED  BY <1>1, Invariance, PTL
==============================================================================
