------------------------------- MODULE Mutex -------------------------------
(***************************************************************************)
(* The state machine of interface/abi/Tlaiser/ABI/Semantics.idr and the    *)
(* two invariants of Invariants.idr: two processes and one lock token.     *)
(* Reachable, the inductive closure of Init under Step, is a derivation: a *)
(* list of states that begins in Init and goes on by Step.                 *)
(***************************************************************************)
EXTENDS Naturals, Sequences

CONSTANT MaxSteps    \* bound: steps of a derivation
ASSUME MutexAssumption == MaxSteps \in Nat

Process == {"P0", "P1"}
Loc == {"Idle", "Waiting", "Critical"}
Lock == {"Free"} \cup Process    \* HeldBy0 and HeldBy1 name the holder
St == [loc : [Process -> Loc], lock : Lock]

VARIABLES
    st,          \* the state reached
    derivation   \* the states before it, oldest first

vars == <<st, derivation>>

------------------------------------------------------------------------------
Init ==
    /\ st = [loc |-> [p \in Process |-> "Idle"], lock |-> "Free"]
    /\ derivation = << >>

\* ReachStep: one more constructor on the derivation.
Reach(t) ==
    /\ Len(derivation) < MaxSteps
    /\ st' = t
    /\ derivation' = Append(derivation, st)
At(p, l) == [st.loc EXCEPT ![p] = l]

Request(p) ==
    /\ st.loc[p] = "Idle"
    /\ Reach([loc |-> At(p, "Waiting"), lock |-> st.lock])

\* (Slip: the lock is not looked at.)
AcquireAnyway(p) ==
    /\ st.loc[p] = "Waiting"
    /\ Reach([loc |-> At(p, "Critical"), lock |-> p])
Acquire(p) ==
    /\ st.loc[p] = "Waiting" /\ st.lock = "Free"
    /\ Reach([loc |-> At(p, "Critical"), lock |-> p])

\* (Slip: the process stays where it is.)
ReleaseStays(p) ==
    /\ st.loc[p] = "Critical" /\ st.lock = p
    /\ Reach([loc |-> st.loc, lock |-> "Free"])
Release(p) ==
    /\ st.loc[p] = "Critical" /\ st.lock = p
    /\ Reach([loc |-> At(p, "Idle"), lock |-> "Free"])

Next == \E p \in Process : Request(p) \/ Acquire(p) \/ Release(p)

Spec == Init /\ [][Next]_vars

------------------------------------------------------------------------------
TypeOK ==
    /\ st \in St
    /\ derivation \in Seq(St)
    /\ Len(derivation) <= MaxSteps

\* The predicates of a state, as the indexed types they are.
Safe(s) == ~(s.loc["P0"] = "Critical" /\ s.loc["P1"] = "Critical")
Coherent(p, s) == s.loc[p] = "Critical" <=> s.lock = p
Inv(s) == \A p \in Process : Coherent(p, s)
Holder(p, s) == s.lock = p => s.loc[p] = "Critical"
HolderCrit(s) == \A p \in Process : Holder(p, s)

(* safetySound and combinedOnReachable: the processes are never both        *)
(* critical, and both invariants hold, in every state of a derivation.      *)
SafetySound == Safe(st) /\ \A i \in DOMAIN derivation : Safe(derivation[i])
CombinedOnReachable == Inv(st) /\ HolderCrit(st)

(* holderIsInductive: without the help of Inv, every step keeps HolderCrit  *)
(* wherever it holds, in states no derivation reaches too.                  *)
HolderHolds == HolderCrit(st)
HolderInit == st \in {s \in St : HolderCrit(s)} /\ derivation = << >>
HolderSpec == HolderInit /\ [][Next]_vars

(* The machine is a critical section: what the locations show is a behaviour *)
(* of the abstract specification.                                           *)
Critical(s) == {p \in Process : s.loc[p] = "Critical"}
CS == INSTANCE CriticalSection WITH inside <- Critical(st)
Implements == CS!Spec
==============================================================================
