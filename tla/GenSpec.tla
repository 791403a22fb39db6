------------------------------- MODULE GenSpec -------------------------------
(***************************************************************************)
(* What the TLA+ module that codegen/tla_gen.rs writes for a machine       *)
(* means: its Init, its Next and its UNCHANGED clauses, as relations on    *)
(* the valuations of `state` and of the machine's variables.               *)
(*                                                                         *)
(* Guards, initial values and right-hand sides are TLA+ text to the        *)
(* generator; here they are what they denote, a set of configurations or a *)
(* function of one.  The generator does look at the text of an action, to  *)
(* find the primed variables, so a conjunct also has a form:               *)
(*    assign   x' = e       the prime follows the identifier at once       *)
(*    spaced   x ' = e      it does not                                    *)
(*    choice   x' \in S     primed, not an equality                        *)
(*    test     no prime: a condition                                       *)
(* and an equality has a head: what is left of its right-hand side when it *)
(* is cut off at the first /\ in it, as the PlusCal generator does.  Where *)
(* there is no /\ it is the right-hand side.                               *)
(***************************************************************************)
EXTENDS Naturals, Sequences

CONSTANTS
    State,     \* state names; each is a CONSTANT of the generated module
    Var,       \* variable names
    Val,       \* their values
    IllFormed, \* a text that is no expression
    Machines   \* machines parser.rs accepts

Config == [state : State, val : [Var -> Val]]

Conjunct ==
    [form : {"assign", "spaced"}, var : Var, rhs : [Config -> Val],
   head : [Config -> Val] \cup {IllFormed}]
      \cup [form : {"choice"}, var : Var, rhs : [Config -> SUBSET Val]]
      \cup [form : {"test"}, holds : SUBSET Config]

Transition ==
    [from : State, to : State, guard : SUBSET Config, action : Seq(Conjunct)]

StateMachine ==
    [states : SUBSET State, initial_state : State, init : [Var -> Val],
     transitions : Seq(Transition)]

ASSUME GenSpecAssumption ==
    /\ \A m \in Machines :
        /\ m \in StateMachine
        /\ m.initial_state \in m.states
        /\ \A i \in DOMAIN m.transitions :
             m.transitions[i].from \in m.states /\ m.transitions[i].to \in m.states
    /\ IllFormed \notin [Config -> Val]

VARIABLES
    sm,   \* the machine the module was generated from; never assigned
    cfg   \* the values of state and of the variables

vars == <<sm, cfg>>

------------------------------------------------------------------------------
Forms(t, fs) == {k \in DOMAIN t.action : t.action[k].form \in fs}

\* extract_primed_vars: the identifiers a prime follows at once.  (Slips: a
\* scan that stops at the first conjunct, one that finds every variable.)
FirstPrimedVar(t) ==
    {t.action[k].var : k \in {j \in Forms(t, {"assign", "choice"}) : j = 1}}
EveryVar(t) == Var
extract_primed_vars(t) == {t.action[k].var : k \in Forms(t, {"assign", "choice"})}

\* One conjunct of the action body, between a configuration and the next.
Holds(j, c, d) ==
    CASE j.form \in {"assign", "spaced"} -> d.val[j.var] = j.rhs[c]
      [] j.form = "choice"               -> d.val[j.var] \in j.rhs[c]
      [] j.form = "test"                 -> c \in j.holds

\* The operator generate_transition_actions writes for a transition.
Action(t, c, d) ==
    /\ c.state = t.from
    /\ c \in t.guard
    /\ d.state = t.to
    /\ \A k \in DOMAIN t.action : Holds(t.action[k], c, d)
    /\ \A v \in Var \ extract_primed_vars(t) : d.val[v] = c.val[v]

Init ==
    /\ sm \in Machines
    /\ cfg = [state |-> sm.initial_state, val |-> sm.init]

\* The disjunction of the transitions; FALSE when there are none.
Next ==
    /\ cfg' \in Config
    /\ \E i \in DOMAIN sm.transitions : Action(sm.transitions[i], cfg, cfg')
    /\ UNCHANGED sm

Spec == Init /\ [][Next]_vars
FairSpec == Spec /\ WF_vars(Next)

------------------------------------------------------------------------------
(* The TypeInvariant the generated module comes with.                      *)
TypeInvariant == cfg \in Config /\ cfg.state \in sm.states

(* A step of the generated module takes one declared transition, from its  *)
(* source, under its guard, and changes no variable its action leaves out. *)
Takes(t) ==
    /\ cfg.state = t.from /\ cfg'.state = t.to /\ cfg \in t.guard
    /\ \A v \in Var : cfg'.val[v] /= cfg.val[v] =>
         \E k \in DOMAIN t.action : t.action[k].form /= "test" /\ t.action[k].var = v
StepsAreTransitions == [][\E i \in DOMAIN sm.transitions : Takes(sm.transitions[i])]_vars

(* A transition that only assigns, each variable once and with the prime   *)
(* behind the variable, can be taken wherever the machine is at its source *)
(* and its guard holds.                                                    *)
OnlyAssigns(t) ==
    /\ \A k \in DOMAIN t.action : t.action[k].form = "assign"
    /\ \A j, k \in DOMAIN t.action : t.action[j].var = t.action[k].var => j = k
GuardedIsEnabled ==
    \A i \in DOMAIN sm.transitions :
        LET t == sm.transitions[i]
        IN  OnlyAssigns(t) /\ cfg.state = t.from /\ cfg \in t.guard =>
                \E d \in Config : Action(t, cfg, d)

(* A state that every transition out of it leaves, one of them without a   *)
(* guard and only assigning, is left some time: what makes the liveness    *)
(* properties of a manifest checkable at all under FairSpec.  (A loop at   *)
(* the state may be taken for ever instead: the fairness is that of Next   *)
(* and of no single transition.)                                           *)
Departs(s) ==
    /\ \A i \in DOMAIN sm.transitions :
         sm.transitions[i].from = s => sm.transitions[i].to /= s
    /\ \E i \in DOMAIN sm.transitions :
         LET t == sm.transitions[i] IN t.from = s /\ t.guard = Config /\ OnlyAssigns(t)
MovesAlong == \A s \in State : (cfg.state = s /\ Departs(s)) ~> (cfg.state /= s)
==============================================================================
