---------------------------- MODULE ParserProofs ----------------------------
(* What the validator of module Parser promises, for every machine.  The   *)
(* argument is the usual one for a search: whatever has left the queue has *)
(* its targets visited or pending (Frontier), so that when both are empty  *)
(* the visited set is closed and can only be the reachable set.            *)
EXTENDS Parser, SequenceTheorems, FiniteSetTheorems, TLAPS

(* Elements of a sequence, of Append and of Tail: the facts about the      *)
(* VecDeque and the Vecs that the search relies on.                        *)
LEMMA ElementsType ==
    ASSUME NEW S, NEW s \in Seq(S)
    PROVE  /\ Elements(s) \subseteq S
           /\ \A x : x \in Elements(s) <=> \E i \in 1 .. Len(s) : s[i] = x
           /\ s = << >> <=> Elements(s) = {}
<1>1. DOMAIN s = 1 .. Len(s) /\ Len(s) \in Nat
  BY LenProperties
<1>2. \A i \in 1 .. Len(s) : s[i] \in S
  BY ElementOfSeq
<1>3. s /= << >> => 1 \in 1 .. Len(s)
  BY EmptySeq, <1>1
<1>4. s = << >> => Elements(s) = {}
  BY <1>1, EmptySeq DEF Elements
<1>5. QED
  BY <1>1, <1>2, <1>3, <1>4 DEF Elements

LEMMA ElementsAppend ==
    ASSUME NEW S, NEW s \in Seq(S), NEW e \in S
    PROVE  /\ Append(s, e) \in Seq(S)
           /\ Elements(Append(s, e)) = Elements(s) \cup {e}
<1>1. /\ Append(s, e) \in Seq(S) /\ Len(Append(s, e)) = Len(s) + 1
      /\ \A i \in 1 .. Len(s) : Append(s, e)[i] = s[i]
      /\ Append(s, e)[Len(s) + 1] = e
      /\ Len(s) \in Nat
  OBVIOUS
<1>2. ASSUME NEW x PROVE x \in Elements(Append(s, e)) <=> x \in Elements(s) \cup {e}
  <2>1. x \in Elements(Append(s, e)) <=> \E i \in 1 .. Len(s) + 1 : Append(s, e)[i] = x
    BY <1>1, ElementsType
  <2>2. x \in Elements(s) <=> \E i \in 1 .. Len(s) : s[i] = x
    BY ElementsType
  <2>3. QED
    BY <1>1, <2>1, <2>2
<1>3. QED
  BY <1>1, <1>2

LEMMA ElementsHeadTail ==
    ASSUME NEW S, NEW s \in Seq(S), s /= << >>
    PROVE  /\ Head(s) \in S
           /\ Tail(s) \in Seq(S)
           /\ Elements(s) = {Head(s)} \cup Elements(Tail(s))
<1>1. /\ Head(s) \in S /\ Tail(s) \in Seq(S) /\ Len(Tail(s)) = Len(s) - 1
      /\ \A i \in 1 .. Len(Tail(s)) : Tail(s)[i] = s[i + 1]
  BY HeadTailProperties
<1>2. Head(s) = s[1] /\ Len(s) \in Nat /\ Len(s) >= 1
  BY EmptySeq
<1>3. ASSUME NEW x PROVE x \in Elements(s) <=> x \in {Head(s)} \cup Elements(Tail(s))
  <2>1. x \in Elements(Tail(s)) <=> \E i \in 1 .. Len(s) - 1 : s[i + 1] = x
    BY <1>1, ElementsType
  <2>2. x \in Elements(s) <=> \E i \in 1 .. Len(s) : s[i] = x
    BY ElementsType
  <2>3. ASSUME NEW i \in 1 .. Len(s), i /= 1
        PROVE  i - 1 \in 1 .. Len(s) - 1 /\ (i - 1) + 1 = i
    BY <1>2, <2>3
  <2>4. \A i \in 1 .. Len(s) - 1 : i + 1 \in 1 .. Len(s)
    BY <1>2
  <2>5. QED
    BY <1>2, <2>1, <2>2, <2>3, <2>4
<1>4. QED
  BY <1>1, <1>3

-----------------------------------------------------------------------------
(* The reachable states: the initial one is reachable, a transition leads   *)
(* from a reachable state to a reachable one, and a set that encloses the   *)
(* initial state encloses them all.                                         *)
LEMMA ReachableClosed ==
    ASSUME NEW m \in StateMachine
    PROVE  /\ m.initial_state \in Reachable(m)
           /\ \A i \in DOMAIN m.transitions :
                m.transitions[i].from \in Reachable(m) => m.transitions[i].to \in Reachable(m)
           /\ \A S \in Enclosing(m) : Reachable(m) \subseteq S
<1>1. \A i \in DOMAIN m.transitions : m.transitions[i].to \in Names
  <2>1. m.transitions \in Seq([from : Names, to : Names])
    BY DEF StateMachine
  <2>2. DOMAIN m.transitions = 1 .. Len(m.transitions)
    BY <2>1, LenProperties
  <2>3. \A i \in 1 .. Len(m.transitions) : m.transitions[i] \in [from : Names, to : Names]
    BY <2>1, ElementOfSeq
  <2>4. QED
    BY <2>2, <2>3
<1>2. m.initial_state \in Names
  BY DEF StateMachine
<1>3. QED
  BY <1>1, <1>2 DEF Reachable, Enclosing, Closed

(* The errors StateMachine::validate collects and the identifier checks,    *)
(* taken together, are exactly what makes a machine ill formed.             *)
LEMMA StructureIsWellFormed ==
    ASSUME NEW m \in StateMachine
    PROVE  NoErrors(m) /\ AllIdentifiers(m) <=> WellFormed(m)
<1>1. /\ DOMAIN m.states = 1 .. Len(m.states) /\ Len(m.states) \in Nat
      /\ m.states \in Seq(Names)
  BY LenProperties DEF StateMachine
<1>2. Duplicated(m) <=> ~(\A i, j \in DOMAIN m.states : m.states[i] = m.states[j] => i = j)
  <2>1. \A i, j \in DOMAIN m.states : i /= j => i < j \/ j < i
    BY <1>1
  <2>2. \A i, j \in DOMAIN m.states : i < j => i /= j
    BY <1>1
  <2>3. QED
    BY <2>1, <2>2 DEF Duplicated
<1>3. ~NoInitial(m) => ~NoStates(m)
  BY <1>1, ElementsType DEF NoInitial, NoStates, all_state_names
<1>4. ~Dangling(m) <=>
        /\ Closed(m, all_state_names(m))
        /\ \A i \in DOMAIN m.transitions : m.transitions[i].from \in all_state_names(m)
  BY DEF Dangling, Closed
<1>5. QED
  BY <1>2, <1>3, <1>4 DEF NoErrors, WellFormed, NoInitial

-----------------------------------------------------------------------------
(* The inductive invariant holds where a call begins, whatever the machine. *)
LEMMA StartedIInv == sm \in StateMachine /\ Started => IInv
<1> SUFFICES ASSUME sm \in StateMachine, Started PROVE IInv
  OBVIOUS
<1>1. sm \in StateMachine /\ Len(sm.transitions) \in Nat
  BY LenProperties DEF StateMachine
<1>2. << >> \in Seq(Names) /\ Elements(<< >>) = {}
  BY EmptySeq, ElementsType
<1>3. TypeOK
  BY <1>1, <1>2 DEF Started, TypeOK
<1>4. Phases /\ Frontier /\ OnlyReachable /\ Verdict /\ ReportExact
  BY <1>2 DEF Started, Phases, Frontier, OnlyReachable, Verdict, ReportExact
<1>5. Linked
  BY <1>2 DEF Started, Linked
<1>6. QED
  BY <1>3, <1>4, <1>5 DEF IInv

LEMMA InitIInv == Init => IInv
  BY ParserAssumption, StartedIInv DEF Init

(* Every iteration of the validator preserves it.                           *)
LEMMA StepIInv == IInv /\ [Next]_vars => IInv'
<1> SUFFICES ASSUME IInv, [Next]_vars PROVE IInv'
  OBVIOUS
<1> USE DEF IInv
<1>0. /\ sm \in StateMachine /\ sm.transitions \in Seq([from : Names, to : Names])
      /\ Len(sm.transitions) \in Nat /\ DOMAIN sm.transitions = 1 .. Len(sm.transitions)
      /\ sm.initial_state \in Names
      /\ \A i \in 1 .. Len(sm.transitions) :
            sm.transitions[i].from \in Names /\ sm.transitions[i].to \in Names
  <2>1. sm \in StateMachine /\ sm.transitions \in Seq([from : Names, to : Names])
    BY DEF TypeOK, StateMachine
  <2>2. \A i \in 1 .. Len(sm.transitions) : sm.transitions[i] \in [from : Names, to : Names]
    BY <2>1, ElementOfSeq
  <2>3. QED
    BY <2>1, <2>2, LenProperties DEF StateMachine
<1>1. CASE Structural
  BY <1>1 DEF Structural, search, TypeOK, Phases, Linked, Frontier, OnlyReachable,
              Verdict, ReportExact
<1>2. CASE Identifiers
  BY <1>2 DEF Identifiers, search, TypeOK, Phases, Linked, Frontier, OnlyReachable,
              Verdict, ReportExact
<1>3. CASE Link
  <2> DEFINE t == sm.transitions[next]
  <2>1. /\ pc = "adjacency" /\ next \in 1 .. Len(sm.transitions)
        /\ next' = next + 1 /\ t.from \in Names /\ t.to \in Names
        /\ adjacency' = [adjacency EXCEPT ![t.from] = Append(@, t.to)]
        /\ UNCHANGED <<sm, pc, visited, queue, neighbours, unreachable>>
    BY <1>0, <1>3 DEF Link, TypeOK
  <2>2. /\ adjacency' \in [Names -> Seq(Names)]
        /\ Elements(adjacency'[t.from]) = Elements(adjacency[t.from]) \cup {t.to}
        /\ \A n \in Names : n /= t.from => adjacency'[n] = adjacency[n]
    BY <2>1, ElementsAppend DEF TypeOK
  <2>3. TypeOK'
    <3>1. next' \in 1 .. Len(sm.transitions) + 1
      BY <1>0, <2>1
    <3>2. QED
      BY <2>1, <2>2, <3>1 DEF TypeOK
  <2>4. Linked'
    <3>1. ASSUME NEW i \in 1 .. next' - 1
          PROVE  sm.transitions[i].to \in Elements(adjacency'[sm.transitions[i].from])
      <4>1. i = next \/ i \in 1 .. next - 1
        BY <2>1
      <4>2. i \in 1 .. Len(sm.transitions)
        BY <1>0, <2>1
      <4>3. CASE i = next
        BY <2>2, <4>3
      <4>4. CASE i \in 1 .. next - 1
        <5>1. sm.transitions[i].to \in Elements(adjacency[sm.transitions[i].from])
          BY <4>4 DEF Linked
        <5>2. sm.transitions[i].from \in Names
          BY <1>0, <4>2
        <5>3. QED
          BY <2>2, <5>1, <5>2
      <4>5. QED
        BY <4>1, <4>3, <4>4
    <3>2. ASSUME NEW n \in Names, NEW x \in Elements(adjacency'[n])
          PROVE  \E i \in 1 .. next' - 1 : sm.transitions[i].from = n /\ sm.transitions[i].to = x
      <4>1. \A i \in 1 .. next - 1 : i \in 1 .. next' - 1
        BY <2>1
      <4>2. next \in 1 .. next' - 1
        BY <2>1
      <4>3. CASE x \in Elements(adjacency[n])
        BY <4>1, <4>3 DEF Linked
      <4>4. CASE x \notin Elements(adjacency[n])
        BY <2>1, <2>2, <4>2, <4>4
      <4>5. QED
        BY <4>3, <4>4
    <3>3. QED
      BY <2>1, <3>1, <3>2 DEF Linked
  <2>5. (Phases /\ Frontier /\ OnlyReachable /\ Verdict /\ ReportExact)'
    BY <2>1 DEF Phases, Frontier, OnlyReachable, Verdict, ReportExact, NoErrors,
                AllIdentifiers
  <2>6. QED
    BY <2>3, <2>4, <2>5
<1>4. CASE Seed
  <2>1. /\ pc = "adjacency" /\ next = Len(sm.transitions) + 1 /\ pc' = "search"
        /\ queue' = <<sm.initial_state>> /\ visited' = {sm.initial_state}
        /\ UNCHANGED <<sm, next, adjacency, neighbours, unreachable>>
    BY <1>0, <1>4 DEF Seed, TypeOK
  <2>2. queue' \in Seq(Names) /\ Elements(queue') = {sm.initial_state}
    <3>1. queue' \in Seq(Names) /\ Len(queue') = 1 /\ queue'[1] = sm.initial_state
      BY <1>0, <2>1
    <3>2. \A x : x \in Elements(queue') <=> \E i \in 1 .. Len(queue') : queue'[i] = x
      BY <3>1, ElementsType
    <3>3. \A i : i \in 1 .. 1 <=> i = 1
      OBVIOUS
    <3>4. \A x : x \in Elements(queue') <=> x = sm.initial_state
      BY <3>1, <3>2, <3>3
    <3>5. QED
      BY <3>1, <3>4
  <2>3. TypeOK'
    BY <1>0, <2>1, <2>2 DEF TypeOK
  <2>4. OnlyReachable'
    BY <1>0, <2>1, ReachableClosed DEF OnlyReachable
  <2>5. (Phases /\ Frontier)'
    BY <2>1, <2>2 DEF Phases, Frontier, NoErrors, AllIdentifiers
  <2>6. (Linked /\ Verdict /\ ReportExact)'
    BY <2>1 DEF Linked, Verdict, ReportExact, Phases
  <2>7. QED
    BY <2>3, <2>4, <2>5, <2>6
<1>5. CASE PopOldest
  <2>1. /\ pc = "search" /\ neighbours = << >> /\ queue /= << >>
        /\ neighbours' = adjacency[Head(queue)] /\ queue' = Tail(queue)
        /\ UNCHANGED <<sm, pc, next, adjacency, visited, unreachable>>
    BY <1>5 DEF PopOldest
  <2>2. /\ Head(queue) \in Names /\ queue' \in Seq(Names)
        /\ Elements(queue) = {Head(queue)} \cup Elements(queue')
    BY <2>1, ElementsHeadTail DEF TypeOK
  <2>3. Elements(neighbours) = {}
    BY <2>1, EmptySeq, ElementsType
  <2>4. TypeOK'
    BY <2>1, <2>2 DEF TypeOK
  <2>5. OnlyReachable'
    <3>1. Head(queue) \in Reachable(sm)
      BY <2>2 DEF OnlyReachable, Phases
    <3>2. ASSUME NEW x \in Elements(neighbours') PROVE x \in Reachable(sm)
      <4>1. PICK i \in 1 .. next - 1 :
              sm.transitions[i].from = Head(queue) /\ sm.transitions[i].to = x
        BY <2>1, <2>2 DEF Linked
      <4>2. i \in DOMAIN sm.transitions
        BY <1>0, <2>1 DEF Phases
      <4>3. QED
        BY <1>0, <3>1, <4>1, <4>2, ReachableClosed
    <3>3. QED
      BY <2>1, <3>2 DEF OnlyReachable
  <2>6. Frontier'
    BY <2>1, <2>2, <2>3 DEF Frontier
  <2>7. (Phases /\ Linked /\ Verdict /\ ReportExact)'
    BY <2>1, <2>2 DEF Phases, Linked, Verdict, ReportExact
  <2>8. QED
    BY <2>4, <2>5, <2>6, <2>7
<1>6. CASE Visit
  <2> DEFINE n == Head(neighbours)
  <2>1. /\ pc = "search" /\ neighbours /= << >>
        /\ visited' = visited \cup {n} /\ neighbours' = Tail(neighbours)
        /\ queue' = IF n \in visited THEN queue ELSE Append(queue, n)
        /\ UNCHANGED <<sm, pc, next, adjacency, unreachable>>
    BY <1>6 DEF Visit
  <2>2. /\ n \in Names /\ neighbours' \in Seq(Names)
        /\ Elements(neighbours) = {n} \cup Elements(neighbours')
    BY <2>1, ElementsHeadTail DEF TypeOK
  <2>3. /\ queue' \in Seq(Names)
        /\ Elements(queue') = Elements(queue) \cup (IF n \in visited THEN {} ELSE {n})
    <3>1. CASE n \in visited
      BY <2>1, <3>1 DEF TypeOK
    <3>2. CASE n \notin visited
      BY <2>1, <2>2, <3>2, ElementsAppend DEF TypeOK
    <3>3. QED
      BY <3>1, <3>2
  <2>4. TypeOK'
    BY <2>1, <2>2, <2>3 DEF TypeOK
  <2>5. OnlyReachable' /\ Frontier'
    BY <2>1, <2>2, <2>3 DEF OnlyReachable, Frontier
  <2>6. (Phases /\ Linked /\ Verdict /\ ReportExact)'
    BY <2>1, <2>3 DEF Phases, Linked, Verdict, ReportExact
  <2>7. QED
    BY <2>4, <2>5, <2>6
<1>7. CASE Report
  <2>1. /\ pc = "search" /\ neighbours = << >> /\ queue = << >>
        /\ unreachable' = all_state_names(sm) \ visited
        /\ pc' = IF unreachable' = {} THEN "accepted" ELSE "rejected"
        /\ UNCHANGED <<sm, next, adjacency, visited, queue, neighbours>>
    BY <1>7 DEF Report
  <2>2. Elements(queue) = {} /\ Elements(neighbours) = {}
    BY <2>1, EmptySeq, ElementsType
  <2>3. visited \in Enclosing(sm)
    <3>1. ASSUME NEW i \in DOMAIN sm.transitions, sm.transitions[i].from \in visited
          PROVE  sm.transitions[i].to \in visited
      <4>1. i \in 1 .. next - 1
        BY <1>0, <2>1 DEF Phases
      <4>2. QED
        BY <1>0, <2>2, <3>1, <4>1 DEF Linked, Frontier
    <3>2. QED
      BY <2>1, <3>1 DEF Enclosing, Closed, Phases, TypeOK
  <2>4. visited = Reachable(sm)
    BY <1>0, <2>3, ReachableClosed DEF OnlyReachable
  <2>5. all_state_names(sm) \subseteq Names
    BY <1>0, ElementsType DEF StateMachine, all_state_names
  <2>6. TypeOK'
    BY <2>1, <2>5 DEF TypeOK
  <2>7. (Phases /\ Linked /\ Frontier /\ OnlyReachable)'
    BY <2>1 DEF Phases, Linked, Frontier, OnlyReachable
  <2>8. (Verdict /\ ReportExact)'
    BY <2>1, <2>4 DEF Verdict, ReportExact
  <2>9. QED
    BY <2>6, <2>7, <2>8
<1>8. CASE UNCHANGED vars
  BY <1>8 DEF vars, TypeOK, Phases, Linked, Frontier, OnlyReachable, Verdict, ReportExact
<1>9. QED
  BY <1>1, <1>2, <1>3, <1>4, <1>5, <1>6, <1>7, <1>8 DEF Next

(* The invariant, for every machine and every step of the validator.        *)
THEOREM Invariance == Spec => []IInv
  BY InitIInv, StepIInv, PTL DEF Spec

(* Every variable keeps its type: no index, queue or report goes astray.    *)
THEOREM TypeCorrect == Spec => []TypeOK
<1>1. IInv => TypeOK
  BY DEF IInv
<1>2. QED
  BY <1>1, Invariance, PTL

(* A machine is accepted exactly when its structure and names are sound     *)
(* and each of its states is reachable.                                     *)
THEOREM VerdictIsCorrect == Spec => []VerdictCorrect
<1>1. IInv => VerdictCorrect
  BY StructureIsWellFormed DEF IInv, TypeOK, Phases, Verdict, VerdictCorrect
<1>2. QED
  BY <1>1, Invariance, PTL

(* The states named in the error are the unreachable ones and no others.    *)
THEOREM ReportIsExact == Spec => []ReportExact
<1>1. IInv => ReportExact
  BY DEF IInv
<1>2. QED
  BY <1>1, Invariance, PTL

(* In a machine without structural errors no transition leaves the declared *)
(* states, so whatever is reached is declared.                              *)
LEMMA StaysDeclared ==
    ASSUME IInv, NoErrors(sm)
    PROVE  visited \cup Elements(neighbours) \subseteq all_state_names(sm)
<1>1. NoErrors(sm) /\ sm \in StateMachine
  BY DEF IInv, TypeOK
<1>2. all_state_names(sm) \subseteq Names
  BY <1>1, ElementsType DEF StateMachine, all_state_names
<1>3. all_state_names(sm) \in Enclosing(sm)
  BY <1>1, <1>2 DEF NoErrors, NoInitial, Dangling, Enclosing, Closed
<1>4. QED
  BY <1>1, <1>3, ReachableClosed DEF IInv, OnlyReachable

(* Because the structural check comes first, the search never leaves the    *)
(* declared states, whatever the transitions are.                           *)
THEOREM SearchIsConfined == Spec => []SearchStaysDeclared
<1>1. IInv => SearchStaysDeclared
  BY StaysDeclared DEF SearchStaysDeclared, IInv, Phases
<1>2. QED
  BY <1>1, Invariance, PTL

\* One step of NeverRequeued.
Kept == \A n \in visited \ Elements(queue) : n \notin Elements(queue')

LEMMA StepKept == IInv /\ Next => Kept
<1> SUFFICES ASSUME IInv, Next PROVE Kept
  OBVIOUS
<1>1. CASE Structural \/ Identifiers \/ Link \/ Report
  BY <1>1 DEF Kept, Structural, Identifiers, Link, Report, search
<1>2. CASE Seed
  BY <1>2 DEF Kept, Seed, IInv, Phases
<1>3. CASE PopOldest
  <2>1. queue' = Tail(queue) /\ queue /= << >>
    BY <1>3 DEF PopOldest
  <2>2. Elements(queue') \subseteq Elements(queue)
    BY <2>1, ElementsHeadTail DEF IInv, TypeOK
  <2>3. QED
    BY <2>2 DEF Kept
<1>4. CASE Visit
  <2>1. /\ neighbours /= << >>
        /\ queue' = IF Head(neighbours) \in visited THEN queue
                    ELSE Append(queue, Head(neighbours))
    BY <1>4 DEF Visit
  <2>2. Head(neighbours) \in Names
    BY <2>1, ElementsHeadTail DEF IInv, TypeOK
  <2>3. CASE Head(neighbours) \notin visited
    <3>1. Elements(queue') = Elements(queue) \cup {Head(neighbours)}
      BY <2>1, <2>2, <2>3, ElementsAppend DEF IInv, TypeOK
    <3>2. QED
      BY <2>3, <3>1 DEF Kept
  <2>4. QED
    BY <2>1, <2>3 DEF Kept
<1>5. QED
  BY <1>1, <1>2, <1>3, <1>4 DEF Next

(* insert guards the queue: a name that has left it never comes back.       *)
THEOREM NothingIsRequeued == Spec => NeverRequeued
<1>1. IInv /\ [Next]_vars => [Kept]_vars
  BY StepKept
<1>2. QED
  BY <1>1, Invariance, PTL DEF Spec, NeverRequeued, Kept
-----------------------------------------------------------------------------
(* What is left to do, in three numbers of which the first counts most: the *)
(* phases to come; in the adjacency loop the transitions still to be read,  *)
(* in the search the states not yet visited and the names still queued; and *)
(* the targets still to be examined.                                        *)
Rank ==
    CASE pc = "structural" -> 4
      [] pc = "identifiers" -> 3
      [] pc = "adjacency" -> 2
      [] pc = "search" -> 1
      [] pc \in {"accepted", "rejected"} -> 0
Outstanding ==
    CASE pc = "adjacency" -> Len(sm.transitions) + 1 - next
      [] pc = "search" -> Cardinality(all_state_names(sm) \ visited) + Len(queue)
      [] pc \notin {"adjacency", "search"} -> 0
Nearer ==
    \/ Rank' < Rank
    \/ /\ Rank' = Rank
       /\ \/ Outstanding' < Outstanding
          \/ Outstanding' = Outstanding /\ Len(neighbours') < Len(neighbours)

LEMMA ElementsFinite ==
    ASSUME NEW S, NEW s \in Seq(S)
    PROVE  IsFiniteSet(Elements(s))
<1>1. DOMAIN s = 1 .. Len(s) /\ Len(s) \in Nat
  BY LenProperties
<1>2. s \in [1 .. Len(s) -> Elements(s)]
  BY <1>1, SeqDef DEF Elements
<1>3. s \in Surjection(1 .. Len(s), Elements(s))
  BY <1>1, <1>2 DEF Surjection, Elements
<1>4. IsFiniteSet(1 .. Len(s))
  BY <1>1, FS_Interval
<1>5. QED
  BY <1>3, <1>4, FS_Surjection

(* The three numbers are natural numbers.                                   *)
LEMMA MeasureType ==
    ASSUME IInv
    PROVE  /\ Rank \in 0 .. 4 /\ Outstanding \in Nat /\ Len(neighbours) \in Nat
           /\ IsFiniteSet(all_state_names(sm) \ visited)
           /\ Cardinality(all_state_names(sm) \ visited) \in Nat
           /\ Len(queue) \in Nat /\ Len(sm.transitions) \in Nat /\ next \in Nat
<1>1. TypeOK
  BY DEF IInv
<1>2. /\ Len(neighbours) \in Nat /\ Len(queue) \in Nat /\ Len(sm.transitions) \in Nat
      /\ next \in 1 .. Len(sm.transitions) + 1
  BY <1>1, LenProperties DEF TypeOK, StateMachine
<1>3. IsFiniteSet(all_state_names(sm))
  BY <1>1, ElementsFinite DEF all_state_names, TypeOK, StateMachine
<1>4. /\ IsFiniteSet(all_state_names(sm) \ visited)
      /\ Cardinality(all_state_names(sm) \ visited) \in Nat
  <2>1. all_state_names(sm) \ visited \in SUBSET all_state_names(sm)
    OBVIOUS
  <2>2. QED
    BY <1>3, <2>1, FS_Subset, FS_CardinalityType
<1>5. pc \in {"structural", "identifiers", "adjacency", "search", "accepted", "rejected"}
  BY <1>1 DEF TypeOK
<1>6. Rank \in 0 .. 4
  BY <1>5 DEF Rank
<1>7. Outstanding \in Nat
  BY <1>2, <1>4, <1>5 DEF Outstanding
<1>8. QED
  BY <1>1, <1>2, <1>4, <1>6, <1>7
(* Every step of the validator brings its end nearer: the measure falls in  *)
(* the lexicographic order.  A name is added to the queue only as it leaves *)
(* the states not yet visited, so the search's number falls when a name is  *)
(* popped and never rises.                                                  *)
LEMMA StepNearer == IInv /\ Next => Nearer
<1> SUFFICES ASSUME IInv, Next PROVE Nearer
  OBVIOUS
<1>0. TypeOK /\ Phases /\ IInv'
  BY StepIInv DEF IInv
<1>1. CASE Structural \/ Identifiers
  BY <1>1 DEF Structural, Identifiers, Nearer, Rank
<1>2. CASE Link
  <2>1. /\ pc = "adjacency" /\ pc' = "adjacency" /\ sm' = sm
        /\ next' = next + 1 /\ next <= Len(sm.transitions)
    BY <1>2 DEF Link
  <2>2. /\ Outstanding = Len(sm.transitions) + 1 - next
        /\ Outstanding' = Len(sm.transitions) + 1 - (next + 1)
        /\ Rank' = Rank
    BY <2>1 DEF Outstanding, Rank
  <2>3. QED
    BY <2>1, <2>2, MeasureType DEF Nearer
<1>3. CASE Seed
  BY <1>3 DEF Seed, Nearer, Rank
<1>4. CASE PopOldest
  <2>1. /\ pc = "search" /\ pc' = "search" /\ sm' = sm /\ visited' = visited
        /\ queue /= << >> /\ queue' = Tail(queue)
    BY <1>4 DEF PopOldest
  <2>2. Len(Tail(queue)) = Len(queue) - 1
    BY <1>0, <2>1, HeadTailProperties DEF TypeOK
  <2>3. /\ Outstanding = Cardinality(all_state_names(sm) \ visited) + Len(queue)
        /\ Outstanding' = Cardinality(all_state_names(sm) \ visited) + (Len(queue) - 1)
        /\ Rank' = Rank
    BY <2>1, <2>2 DEF Outstanding, Rank
  <2>4. QED
    BY <2>3, MeasureType DEF Nearer
<1>5. CASE Visit
  <2> DEFINE n == Head(neighbours)
             left == all_state_names(sm) \ visited
  <2>1. /\ pc = "search" /\ pc' = "search" /\ sm' = sm /\ neighbours /= << >>
        /\ visited' = visited \cup {n} /\ neighbours' = Tail(neighbours)
        /\ queue' = IF n \in visited THEN queue ELSE Append(queue, n)
    BY <1>5 DEF Visit
  <2>2. Len(neighbours') = Len(neighbours) - 1
    BY <1>0, <2>1, HeadTailProperties DEF TypeOK
  <2>3. Rank' = Rank
    BY <2>1 DEF Rank
  <2>4. n \in all_state_names(sm) /\ n \in Names
    <3>1. n \in Elements(neighbours) /\ n \in Names
      BY <1>0, <2>1, ElementsHeadTail DEF TypeOK
    <3>2. NoErrors(sm)
      BY <1>0, <2>1 DEF Phases
    <3>3. QED
      BY <3>1, <3>2, StaysDeclared
  <2>5. /\ Outstanding = Cardinality(left) + Len(queue)
        /\ Outstanding' = Cardinality(left \ {n}) + Len(queue')
    <3>1. all_state_names(sm)' \ visited' = left \ {n}
      BY <2>1
    <3>2. all_state_names(sm)' = all_state_names(sm')
      OBVIOUS
    <3>3. QED
      BY <2>1, <3>1 DEF Outstanding
  <2>6. Outstanding' = Outstanding
    <3>1. IsFiniteSet(left) /\ Cardinality(left) \in Nat /\ Len(queue) \in Nat
      BY MeasureType
    <3>2. Cardinality(left \ {n}) = IF n \in left THEN Cardinality(left) - 1 ELSE Cardinality(left)
      BY <3>1, FS_RemoveElement
    <3>3. Len(queue') = IF n \in visited THEN Len(queue) ELSE Len(queue) + 1
      BY <1>0, <2>1, <2>4 DEF TypeOK
    <3>4. n \in left <=> n \notin visited
      BY <2>4
    <3> HIDE DEF left, n
    <3>5. QED
      BY <2>5, <3>1, <3>2, <3>3, <3>4
  <2>7. QED
    BY <2>2, <2>3, <2>6, MeasureType DEF Nearer
<1>6. CASE Report
  BY <1>6 DEF Report, Nearer, Rank
<1>7. QED
  BY <1>1, <1>2, <1>3, <1>4, <1>5, <1>6 DEF Next

(* validate_state_machine cannot run forever: in every behaviour a measure  *)
(* of natural numbers falls with every step, whatever cycles the machine    *)
(* has.  The search of check_reachability is the only loop whose end is not *)
(* in sight from the start.                                                 *)
THEOREM ValidatorMovesOn ==
    Spec => /\ [](Rank \in 0 .. 4 /\ Outstanding \in Nat /\ Len(neighbours) \in Nat)
            /\ [][Nearer]_vars
<1>1. IInv => Rank \in 0 .. 4 /\ Outstanding \in Nat /\ Len(neighbours) \in Nat
  BY MeasureType
<1>2. IInv /\ [Next]_vars => [Nearer]_vars
  BY StepNearer
<1>3. QED
  BY <1>1, <1>2, Invariance, PTL DEF Spec
=============================================================================
