----------------------------- MODULE MutexProofs -----------------------------
(* Mutual exclusion by an inductive invariant, as Semantics.idr proves it,  *)
(* and the refinement of the critical section it does not state.            *)
EXTENDS Mutex, TLAPS

\* What the induction is over: types, both invariants, a safe past.
IInv ==
    /\ TypeOK
    /\ Inv(st)
    /\ \A i \in DOMAIN derivation : Safe(derivation[i])

LEMMA InvIsSafe ==
    ASSUME NEW s \in St, Inv(s)
    PROVE  Safe(s) /\ HolderCrit(s)
  BY DEF Inv, Coherent, Safe, HolderCrit, Holder, Process

\* What each step makes of the state.
LEMMA StepShape ==
    ASSUME TypeOK, NEW p \in Process, Request(p) \/ Acquire(p) \/ Release(p)
    PROVE  /\ st' \in St
           /\ derivation' = Append(derivation, st)
           /\ Len(derivation) < MaxSteps
           /\ \A q \in Process \ {p} : st'.loc[q] = st.loc[q]
           /\ \/ st.loc[p] = "Idle" /\ st'.loc[p] = "Waiting" /\ st'.lock = st.lock
              \/ st.lock = "Free" /\ st.loc[p] = "Waiting" /\ st'.loc[p] = "Critical" /\ st'.lock = p
              \/ st.lock = p /\ st.loc[p] = "Critical" /\ st'.loc[p] = "Idle" /\ st'.lock = "Free"
<1>1. CASE Request(p)
  BY <1>1 DEF Request, Reach, At, TypeOK, St, Loc, Lock
<1>2. CASE Acquire(p)
  BY <1>2 DEF Acquire, Reach, At, TypeOK, St, Loc, Lock
<1>3. CASE Release(p)
  BY <1>3 DEF Release, Reach, At, TypeOK, St, Loc, Lock
<1>. QED  BY <1>1, <1>2, <1>3

LEMMA InitIInv == Init => IInv
  BY MutexAssumption DEF Init, IInv, TypeOK, St, Loc, Lock, Process, Inv, Coherent

LEMMA StepInv ==
    ASSUME TypeOK, Inv(st), [Next]_vars
    PROVE  Inv(st')
<1>1. CASE UNCHANGED vars
  BY <1>1 DEF vars
<1>2. ASSUME NEW p \in Process, Request(p) \/ Acquire(p) \/ Release(p)
      PROVE  Inv(st')
  BY <1>2, StepShape DEF Inv, Coherent, Process
<1>. QED  BY <1>1, <1>2 DEF Next

LEMMA StepIInv == IInv /\ [Next]_vars => IInv'
<1> SUFFICES ASSUME IInv, [Next]_vars PROVE IInv'
  OBVIOUS
<1>1. Inv(st)'
  BY StepInv DEF IInv
<1>2. CASE UNCHANGED vars
  BY <1>1, <1>2 DEF vars, IInv, TypeOK
<1>3. ASSUME NEW p \in Process, Request(p) \/ Acquire(p) \/ Release(p)
      PROVE  IInv'
  <2>1. /\ st \in St /\ st' \in St /\ derivation \in Seq(St)
        /\ derivation' = Append(derivation, st) /\ Len(derivation) < MaxSteps
    BY <1>3, StepShape DEF IInv, TypeOK
  <2>2. TypeOK'
    BY <2>1, MutexAssumption DEF TypeOK
  <2>3. Safe(st)
    BY <2>1, InvIsSafe DEF IInv
  <2>4. \A i \in DOMAIN derivation' : derivation'[i] = st \/ (i \in DOMAIN derivation /\ derivation'[i] = derivation[i])
    BY <2>1
  <2>5. \A i \in DOMAIN derivation' : Safe(derivation'[i])
    BY <2>3, <2>4 DEF IInv
  <2>. QED  BY <1>1, <2>2, <2>5 DEF IInv
<1>. QED  BY <1>2, <1>3 DEF Next

LEMMA Invariance == Spec => []IInv
<1>. QED  BY InitIInv, StepIInv, PTL DEF Spec

(* safetySound: the processes are never both critical, at any point of a    *)
(* derivation of any length.                                                *)
THEOREM SafetyTheorem == Spec => []SafetySound
<1>1. IInv => SafetySound
  BY InvIsSafe DEF IInv, TypeOK, SafetySound
<1>. QED  BY <1>1, Invariance, PTL

(* combinedOnReachable: both invariants hold in every reachable state.      *)
THEOREM CombinedTheorem == Spec => []CombinedOnReachable
<1>1. IInv => CombinedOnReachable
  BY InvIsSafe DEF IInv, TypeOK, CombinedOnReachable
<1>. QED  BY <1>1, Invariance, PTL

(* holderIsInductive: HolderCrit is kept by every step from any state in    *)
(* which it holds, without Inv.                                             *)
THEOREM HolderTheorem == HolderSpec => []HolderHolds
<1> DEFINE H == TypeOK /\ HolderCrit(st)
<1>1. HolderInit => H
  BY MutexAssumption DEF HolderInit, TypeOK, St
<1>2. H /\ [Next]_vars => H'
  <2> SUFFICES ASSUME H, [Next]_vars PROVE H'
    OBVIOUS
  <2>1. CASE UNCHANGED vars
    BY <2>1 DEF vars, TypeOK
  <2>2. ASSUME NEW p \in Process, Request(p) \/ Acquire(p) \/ Release(p)
        PROVE  H'
    <3>1. /\ st \in St /\ st' \in St /\ derivation \in Seq(St)
          /\ derivation' = Append(derivation, st) /\ Len(derivation) < MaxSteps
      BY <2>2, StepShape DEF TypeOK
    <3>2. TypeOK'
      BY <3>1, MutexAssumption DEF TypeOK
    <3>3. HolderCrit(st')
      BY <2>2, StepShape DEF HolderCrit, Holder, Process
    <3>. QED  BY <3>2, <3>3
  <2>. QED  BY <2>1, <2>2 DEF Next
<1>3. H => HolderHolds
  BY DEF HolderHolds
<1>. QED  BY <1>1, <1>2, <1>3, PTL DEF HolderSpec

(* The two processes with their lock implement a critical section.          *)
THEOREM ImplementsTheorem == Spec => Implements
<1>1. Init => CS!Init
  BY DEF Init, CS!Init, Critical, Process
<1>2. IInv /\ [Next]_vars => [CS!Next]_(Critical(st))
  <2> SUFFICES ASSUME IInv, [Next]_vars PROVE [CS!Next]_(Critical(st))
    OBVIOUS
  <2>1. CASE UNCHANGED vars
    BY <2>1 DEF vars, Critical
  <2>2. ASSUME NEW p \in Process, Request(p) \/ Acquire(p) \/ Release(p)
        PROVE  [CS!Next]_(Critical(st))
    <3>1. CASE st.loc[p] = "Idle" /\ st'.loc[p] = "Waiting"
      BY <2>2, <3>1, StepShape DEF IInv, Critical, Process
    <3>2. CASE st.lock = "Free" /\ st'.loc[p] = "Critical"
      <4>1. Critical(st) = {} /\ Critical(st') = {p}
        BY <2>2, <3>2, StepShape DEF IInv, Inv, Coherent, Critical, Process
      <4>. QED  BY <4>1 DEF CS!Next, CS!Enter
    <3>3. CASE st.lock = p /\ st'.loc[p] = "Idle"
      <4>1. Critical(st) = {p} /\ Critical(st') = {}
        BY <2>2, <3>3, StepShape DEF IInv, Inv, Coherent, Critical, Process
      <4>. QED  BY <4>1 DEF CS!Next, CS!Leave
    <3>. QED  BY <2>2, <3>1, <3>2, <3>3, StepShape DEF IInv
  <2>. QED  BY <2>1, <2>2 DEF Next
<1>. QED  BY <1>1, <1>2, Invariance, PTL DEF Spec, Implements, CS!Spec
==============================================================================
