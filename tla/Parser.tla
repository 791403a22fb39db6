------------------------------- MODULE Parser -------------------------------
(***************************************************************************)
(* validate_state_machine of codegen/parser.rs: what decides whether a     *)
(* state machine of the manifest may be turned into a specification.  The  *)
(* structural check of abi/mod.rs comes first, then the identifier checks, *)
(* then the breadth-first search of check_reachability, which is modelled  *)
(* loop iteration by loop iteration.                                       *)
(*                                                                         *)
(* A machine is the part of abi::StateMachine these checks read.  Names    *)
(* are values; which of them pass validate_tla_identifier is the constant  *)
(* LegalNames.                                                             *)
(***************************************************************************)
EXTENDS Naturals, Sequences

CONSTANTS
    Names,       \* strings that may stand for a machine, state or variable
    LegalNames,  \* those that validate_tla_identifier lets through
    Machines     \* the machines under test

StateMachine ==
    [name : Names, states : Seq(Names), initial_state : Names,
     variables : Seq(Names), transitions : Seq([from : Names, to : Names])]

ASSUME ParserAssumption ==
    /\ LegalNames \subseteq Names
    /\ Machines \subseteq StateMachine

VARIABLES
    sm,           \* the machine being validated; never assigned
    pc,           \* the statement validate_state_machine has reached
    next,         \* index of the next transition the adjacency loop reads
    adjacency,    \* name -> targets of its transitions, in their order
    visited,      \* names the search has inserted
    queue,        \* names inserted and not yet popped
    neighbours,   \* targets of the popped name still to be examined
    unreachable   \* the states named by the error, once there is one

vars == <<sm, pc, next, adjacency, visited, queue, neighbours, unreachable>>
search == <<next, adjacency, visited, queue, neighbours, unreachable>>

------------------------------------------------------------------------------
(* What the checks read of a machine. *)

Elements(s) == {s[i] : i \in DOMAIN s}
all_state_names(m) == Elements(m.states)

\* The four kinds of error StateMachine::validate collects.
NoStates(m)    == m.states = << >>
Duplicated(m)  == \E i, j \in DOMAIN m.states : i < j /\ m.states[i] = m.states[j]
NoInitial(m)   == m.initial_state \notin all_state_names(m)
Dangling(m)    == \E i \in DOMAIN m.transitions :
                    \/ m.transitions[i].from \notin all_state_names(m)
                    \/ m.transitions[i].to \notin all_state_names(m)
NoErrors(m) == ~NoStates(m) /\ ~Duplicated(m) /\ ~NoInitial(m) /\ ~Dangling(m)

\* The three loops over names, the machine's own first.
AllIdentifiers(m) ==
    {m.name} \cup all_state_names(m) \cup Elements(m.variables) \subseteq LegalNames

------------------------------------------------------------------------------
\* The locals of a call.
Started ==
    /\ pc = "structural"
    /\ next = 1
    /\ adjacency = [n \in Names |-> << >>]
    /\ visited = {} /\ queue = << >> /\ neighbours = << >>
    /\ unreachable = {}
Init == sm \in Machines /\ Started

\* sm.validate(): any error ends the function.
Structural ==
    /\ pc = "structural"
    /\ pc' = IF NoErrors(sm) THEN "identifiers" ELSE "rejected"
    /\ UNCHANGED <<sm, search>>

\* The calls of validate_tla_identifier; the first failure ends the function.
Identifiers ==
    /\ pc = "identifiers"
    /\ pc' = IF AllIdentifiers(sm) THEN "adjacency" ELSE "rejected"
    /\ UNCHANGED <<sm, search>>

\* One iteration of the loop that pushes each target under its source.
Link ==
    /\ pc = "adjacency" /\ next <= Len(sm.transitions)
    /\ LET t == sm.transitions[next]
       IN  adjacency' = [adjacency EXCEPT ![t.from] = Append(@, t.to)]
    /\ next' = next + 1
    /\ UNCHANGED <<sm, pc, visited, queue, neighbours, unreachable>>

\* The loop has ended: the initial state is queued and marked.
Seed ==
    /\ pc = "adjacency" /\ next > Len(sm.transitions)
    /\ pc' = "search"
    /\ queue' = <<sm.initial_state>>
    /\ visited' = {sm.initial_state}
    /\ UNCHANGED <<sm, next, adjacency, neighbours, unreachable>>

\* front() in place of pop_front(): the name stays queued.
Peek ==
    /\ pc = "search" /\ neighbours = << >> /\ queue /= << >>
    /\ neighbours' = adjacency[Head(queue)]
    /\ UNCHANGED <<sm, pc, next, adjacency, visited, queue, unreachable>>
\* queue.pop_front(): the name's targets are examined next.
PopOldest ==
    /\ pc = "search" /\ neighbours = << >> /\ queue /= << >>
    /\ neighbours' = adjacency[Head(queue)]
    /\ queue' = Tail(queue)
    /\ UNCHANGED <<sm, pc, next, adjacency, visited, unreachable>>

\* Two slips in the inner loop: insert's answer ignored, and a stray break.
VisitUnmarked ==
    /\ pc = "search" /\ neighbours /= << >>
    /\ visited' = visited \cup {Head(neighbours)}
    /\ queue' = Append(queue, Head(neighbours))
    /\ neighbours' = Tail(neighbours)
    /\ UNCHANGED <<sm, pc, next, adjacency, unreachable>>
VisitFirstOnly ==
    /\ pc = "search" /\ neighbours /= << >>
    /\ LET n == Head(neighbours) IN
         /\ visited' = visited \cup {n}
         /\ queue' = IF n \in visited THEN queue ELSE Append(queue, n)
    /\ neighbours' = << >>
    /\ UNCHANGED <<sm, pc, next, adjacency, unreachable>>
\* The inner loop: a name is queued only when insert finds it new.
Visit ==
    /\ pc = "search" /\ neighbours /= << >>
    /\ LET n == Head(neighbours) IN
         /\ visited' = visited \cup {n}
         /\ queue' = IF n \in visited THEN queue ELSE Append(queue, n)
    /\ neighbours' = Tail(neighbours)
    /\ UNCHANGED <<sm, pc, next, adjacency, unreachable>>

\* The search has ended: every declared state must have been visited.
Report ==
    /\ pc = "search" /\ neighbours = << >> /\ queue = << >>
    /\ unreachable' = all_state_names(sm) \ visited
    /\ pc' = IF unreachable' = {} THEN "accepted" ELSE "rejected"
    /\ UNCHANGED <<sm, next, adjacency, visited, queue, neighbours>>

Next ==
    \/ Structural \/ Identifiers
    \/ Link \/ Seed \/ PopOldest \/ Visit
    \/ Report

Spec == Init /\ [][Next]_vars

------------------------------------------------------------------------------
TypeOK ==
    /\ sm \in StateMachine
    /\ pc \in {"structural", "identifiers", "adjacency", "search",
               "accepted", "rejected"}
    /\ next \in 1 .. Len(sm.transitions) + 1
    /\ adjacency \in [Names -> Seq(Names)]
    /\ visited \subseteq Names
    /\ queue \in Seq(Names)
    /\ neighbours \in Seq(Names)
    /\ unreachable \subseteq Names

(* Reachability, said without a search: a set closed under the transitions *)
(* that holds the initial state holds every state a path leads to.         *)
Closed(m, S) ==
    \A i \in DOMAIN m.transitions :
        m.transitions[i].from \in S => m.transitions[i].to \in S
Enclosing(m) ==
    {S \in SUBSET Names : m.initial_state \in S /\ Closed(m, S)}
Reachable(m) == {n \in Names : \A S \in Enclosing(m) : n \in S}

WellFormed(m) ==
    /\ m.initial_state \in all_state_names(m)
    /\ Closed(m, all_state_names(m))
    /\ \A i \in DOMAIN m.transitions : m.transitions[i].from \in all_state_names(m)
    /\ \A i, j \in DOMAIN m.states : m.states[i] = m.states[j] => i = j
    /\ AllIdentifiers(m)

(* The six promises of the doc comment of validate_state_machine: a machine *)
(* is accepted only if its structure and names are sound and every state it *)
(* declares is on a path from the initial one, and a machine that is all of *)
(* that is never rejected.                                                  *)
VerdictCorrect ==
    /\ pc = "accepted" => WellFormed(sm) /\ all_state_names(sm) \subseteq Reachable(sm)
    /\ pc = "rejected" => ~(WellFormed(sm) /\ all_state_names(sm) \subseteq Reachable(sm))

(* The states the error message names are exactly the unreachable ones.    *)
ReportExact ==
    unreachable /= {} => unreachable = all_state_names(sm) \ Reachable(sm)

(* The structural check runs first, so the search never leaves the         *)
(* declared states (adjacency.get never answers None).                     *)
SearchStaysDeclared == visited \subseteq all_state_names(sm)

(* insert guards the queue: a name that has left it does not come back,    *)
(* which is why the loop ends on any cycle.                                *)
NeverRequeued ==
    [][\A n \in visited \ Elements(queue) : n \notin Elements(queue')]_vars

------------------------------------------------------------------------------
(* The inductive invariant behind VerdictCorrect, checked as it is proved. *)

\* What each phase may rely on.
Phases ==
    /\ pc \notin {"structural", "rejected"} => NoErrors(sm)
    /\ pc \in {"adjacency", "search", "accepted"} => AllIdentifiers(sm)
    /\ pc \in {"structural", "identifiers", "adjacency"} => visited = {}
    /\ pc = "search" => next = Len(sm.transitions) + 1 /\ visited /= {}
    /\ visited /= {} => NoErrors(sm) /\ sm.initial_state \in visited
    /\ Elements(queue) \subseteq visited
    /\ pc \notin {"accepted", "rejected"} => unreachable = {}

\* adjacency holds the transitions read so far, and nothing else.
Linked ==
    /\ \A i \in 1 .. next - 1 :
         sm.transitions[i].to \in Elements(adjacency[sm.transitions[i].from])
    /\ \A n \in Names : \A t \in Elements(adjacency[n]) :
         \E i \in 1 .. next - 1 :
            sm.transitions[i].from = n /\ sm.transitions[i].to = t

\* A visited name that is no longer queued has its targets visited or pending.
Frontier ==
    \A n \in visited \ Elements(queue) :
        Elements(adjacency[n]) \subseteq visited \cup Elements(neighbours)

\* Nothing is visited or pending that a path does not lead to.
OnlyReachable == visited \cup Elements(neighbours) \subseteq Reachable(sm)

Verdict ==
    /\ pc = "accepted" => all_state_names(sm) \subseteq Reachable(sm)
    /\ pc = "rejected" => \/ ~NoErrors(sm)
                          \/ ~AllIdentifiers(sm)
                          \/ ~(all_state_names(sm) \subseteq Reachable(sm))

\* Together they are inductive.
IInv ==
    TypeOK /\ Phases /\ Linked /\ Frontier /\ OnlyReachable /\ Verdict /\ ReportExact
==============================================================================
