----------------------------- MODULE GenPlusCal -----------------------------
(***************************************************************************)
(* What the PlusCal algorithm that codegen/pluscal_gen.rs writes for the   *)
(* same machine means.  Its only label is MainLoop, so an iteration of the *)
(* while loop is one atomic step, but its statements take effect one after *)
(* the other: here they do so on a working copy, and the copy becomes the  *)
(* configuration when control is back at the label.  The translator that   *)
(* turns the algorithm into a specification is external: all that is       *)
(* assumed of it is that it refuses an algorithm it cannot parse.          *)
(***************************************************************************)
EXTENDS GenSpec

VARIABLES
    pc,    \* "MainLoop", "body" between the awaits and the next iteration,
           \* or "refused" by the translator
    tr,    \* the transition whose branch of the either was taken
    k,     \* index of the conjunct whose statement comes next
    new    \* the values after the statements executed so far

pvars == <<sm, cfg, pc, tr, k, new>>

\* tla_action_to_pluscal splits the text at every /\, also at one within a
\* right-hand side: the assignment gets the head, the rest is a comment.
Assigns(j) == j.form \in {"assign", "spaced"}
Translatable(m) ==
    \A i \in DOMAIN m.transitions : LET act == m.transitions[i].action IN
        \A j \in DOMAIN act : Assigns(act[j]) => act[j].head /= IllFormed

PInit ==
    /\ Init
    /\ pc = (IF Translatable(sm) THEN "MainLoop" ELSE "refused") /\ k = 1 /\ new = cfg
    /\ tr = [from |-> cfg.state, to |-> cfg.state, guard |-> {}, action |-> << >>]

\* The branches of the either, grouped by source: await state, await the
\* guard, then the first assignment, state := to.
Choose ==
    /\ pc = "MainLoop"
    /\ \E i \in DOMAIN sm.transitions :
         LET t == sm.transitions[i] IN
         /\ cfg.state = t.from /\ cfg \in t.guard
         /\ tr' = t
         /\ new' = [cfg EXCEPT !.state = t.to]
    /\ k' = 1 /\ pc' = "body"
    /\ UNCHANGED <<sm, cfg>>

\* An equality on a primed variable becomes an assignment, any other conjunct
\* a comment.  The expression is evaluated after the assignments before it.
ExecuteNothing(j, c) == c
Execute(j, c) == IF Assigns(j) THEN [c EXCEPT !.val[j.var] = j.head[c]] ELSE c

Statement ==
    /\ pc = "body" /\ k <= Len(tr.action)
    /\ new' = Execute(tr.action[k], new)
    /\ k' = k + 1
    /\ UNCHANGED <<sm, cfg, pc, tr>>

\* Back at the label: the iteration has taken effect.
EndWhile ==
    /\ pc = "body" /\ k > Len(tr.action)
    /\ cfg' = new
    /\ pc' = "MainLoop"
    /\ UNCHANGED <<sm, tr, k, new>>

\* A machine without transitions: the loop skips.
Skip ==
    /\ pc = "MainLoop" /\ sm.transitions = << >>
    /\ UNCHANGED pvars

PNext == Choose \/ Statement \/ EndWhile \/ Skip
PSpec == PInit /\ [][PNext]_pvars

\* --fair algorithm: weak fairness of the iteration, which as one step does
\* not count when it changes nothing.  Here it has begun when it is chosen,
\* and every statement in it interrupts that choice, hence SF.  (Slip: the
\* word is left out.)
Outcome(t, c) ==
    LET copy[j \in 0 .. Len(t.action)] ==
          IF j = 0 THEN [c EXCEPT !.state = t.to] ELSE Execute(t.action[j], copy[j - 1])
    IN  copy[Len(t.action)]
ChooseChange == Choose /\ Outcome(tr', cfg) /= cfg
PUnfairSpec == PSpec
PFairSpec == PSpec /\ WF_pvars(PNext) /\ SF_pvars(ChooseChange)

------------------------------------------------------------------------------
PTypeOK ==
    /\ sm \in Machines
    /\ cfg \in Config /\ new \in Config
    /\ pc \in {"MainLoop", "body", "refused"}
    /\ tr \in Transition
    /\ k \in 1 .. Len(tr.action) + 1

(* The action of a transition is a list of assignments of which none reads  *)
(* the state or a variable assigned before it, and none has a conjunction   *)
(* on its right-hand side.  It is what a user must keep to for the two      *)
(* outputs to mean the same.                                                *)
Assigned(t, j) == {t.action[i].var : i \in 1 .. j - 1}
Independent(t) ==
    /\ \A j \in DOMAIN t.action :
         t.action[j].form = "assign" /\ t.action[j].head = t.action[j].rhs
    /\ \A i, j \in DOMAIN t.action : t.action[i].var = t.action[j].var => i = j
    /\ \A j \in DOMAIN t.action : \A c, d \in Config :
         (\A v \in Var \ Assigned(t, j) : c.val[v] = d.val[v]) =>
            t.action[j].rhs[c] = t.action[j].rhs[d]
IndependentMachine(m) == \A i \in DOMAIN m.transitions : Independent(m.transitions[i])

(* The PlusCal algorithm is the equivalent of the specification: where an   *)
(* iteration ends, the TLA+ action of the same transition allows exactly    *)
(* its result (if the actions are Independent).                             *)
BodyMatches ==
    pc = "body" /\ k = Len(tr.action) + 1 =>
        \A d \in Config : Action(tr, cfg, d) <=> d = new

(* So every behaviour of the algorithm is one of the generated Spec.        *)
Specification == Spec

(* And, being fair, one of FairSpec: the algorithm does not sit, or run     *)
(* empty iterations, where the specification has to move on, so a liveness  *)
(* property of the module holds of the algorithm too.                       *)
FairSpecification == FairSpec

(* What the statements executed so far have done.                           *)
BodyInv ==
    pc = "body" =>
        /\ \E i \in DOMAIN sm.transitions : tr = sm.transitions[i]
        /\ cfg.state = tr.from /\ cfg \in tr.guard
        /\ new.state = tr.to
        /\ \A j \in 1 .. k - 1 : new.val[tr.action[j].var] = tr.action[j].rhs[cfg]
        /\ \A v \in Var \ Assigned(tr, k) : new.val[v] = cfg.val[v]
==============================================================================
