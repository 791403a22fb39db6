------------------------------ MODULE GenProofs ------------------------------
(* For machines whose actions are independent assignments, the generated    *)
(* PlusCal algorithm implements the generated TLA+ specification, whatever  *)
(* the states, the variables, their values and the number of transitions.   *)
EXTENDS GenPlusCal, SequenceTheorems, TLAPS

AllIndependent == \A m \in Machines : IndependentMachine(m)

\* The invariant of the algorithm, with what it needs of the machine.
GInv ==
    /\ PTypeOK
    /\ IndependentMachine(sm)
    /\ BodyInv

\* What the assumption on Machines says of one of them.
LEMMA MachineType ==
    ASSUME NEW m \in Machines
    PROVE  /\ m.initial_state \in State
           /\ m.init \in [Var -> Val]
           /\ \A i \in DOMAIN m.transitions : m.transitions[i] \in Transition
<1>1. m \in StateMachine /\ m.initial_state \in m.states
  BY GenSpecAssumption
<1>2. m.initial_state \in State /\ m.init \in [Var -> Val]
  BY <1>1 DEF StateMachine
<1>3. m.transitions \in Seq(Transition)
  BY <1>1 DEF StateMachine
<1>4. ASSUME NEW i \in DOMAIN m.transitions
      PROVE  m.transitions[i] \in Transition
  BY <1>3, <1>4, ElementOfSeq, LenProperties
<1>. QED  BY <1>2, <1>4

\* A conjunct of an independent transition is an assignment.
LEMMA ConjunctType ==
    ASSUME NEW t \in Transition, Independent(t), NEW j \in 1 .. Len(t.action)
    PROVE  /\ t.action[j].form = "assign"
           /\ t.action[j].var \in Var
           /\ t.action[j].rhs \in [Config -> Val]
           /\ t.action[j].head = t.action[j].rhs
<1>1. t.action \in Seq(Conjunct)
  BY DEF Transition
<1>2. t.action[j] \in Conjunct
  BY <1>1, ElementOfSeq
<1>3. j \in DOMAIN t.action
  BY <1>1, LenProperties
<1>4. t.action[j].form = "assign" /\ t.action[j].head = t.action[j].rhs
  BY <1>3 DEF Independent
<1>5. t.action[j] \in [form : {"assign", "spaced"}, var : Var, rhs : [Config -> Val],
                       head : [Config -> Val] \cup {IllFormed}]
  BY <1>2, <1>4 DEF Conjunct
<1>. QED  BY <1>4, <1>5

\* Executing such a conjunct updates one variable.
LEMMA ExecuteAssigns ==
    ASSUME NEW t \in Transition, Independent(t), NEW j \in 1 .. Len(t.action),
           NEW c \in Config
    PROVE  /\ Execute(t.action[j], c) \in Config
           /\ Execute(t.action[j], c).state = c.state
           /\ Execute(t.action[j], c).val[t.action[j].var] = t.action[j].rhs[c]
           /\ \A v \in Var \ {t.action[j].var} :
                Execute(t.action[j], c).val[v] = c.val[v]
<1>1. /\ t.action[j].form = "assign"
      /\ t.action[j].var \in Var
      /\ t.action[j].rhs \in [Config -> Val]
      /\ t.action[j].head = t.action[j].rhs
  BY ConjunctType
<1>2. t.action[j].rhs[c] \in Val
  BY <1>1
<1>3. Execute(t.action[j], c)
         = [c EXCEPT !.val = [c.val EXCEPT ![t.action[j].var] = t.action[j].rhs[c]]]
  BY <1>1 DEF Execute, Assigns, Config
<1>. QED  BY <1>1, <1>2, <1>3 DEF Config

LEMMA InitGInv == AllIndependent /\ PInit => GInv
<1> SUFFICES ASSUME AllIndependent, PInit PROVE GInv
  OBVIOUS
<1>1. sm \in Machines
  BY DEF PInit, Init
<1>2. sm.initial_state \in State /\ sm.init \in [Var -> Val]
  BY <1>1, MachineType
<1>3. cfg \in Config /\ cfg.state = sm.initial_state
  BY <1>2 DEF PInit, Init, Config
<1>4. new \in Config /\ pc \in {"MainLoop", "refused"} /\ k = 1
  BY <1>3 DEF PInit
<1>5. tr \in Transition /\ tr.action = << >>
  <2>1. tr = [from |-> cfg.state, to |-> cfg.state, guard |-> {}, action |-> << >>]
    BY DEF PInit
  <2>2. cfg.state \in State
    BY <1>3 DEF Config
  <2>. QED  BY <2>1, <2>2 DEF Transition
<1>6. k \in 1 .. Len(tr.action) + 1
  BY <1>4, <1>5
<1>. QED  BY <1>1, <1>3, <1>4, <1>5, <1>6 DEF GInv, PTypeOK, BodyInv, AllIndependent

LEMMA StepGInv == GInv /\ [PNext]_pvars => GInv'
<1> SUFFICES ASSUME GInv, [PNext]_pvars PROVE GInv'
  OBVIOUS
<1> USE DEF GInv
<1>0. /\ sm \in Machines /\ cfg \in Config /\ new \in Config
      /\ pc \in {"MainLoop", "body", "refused"} /\ tr \in Transition
      /\ k \in 1 .. Len(tr.action) + 1
  BY DEF PTypeOK
<1>1. CASE Choose
  <2>1. PICK i \in DOMAIN sm.transitions :
          /\ cfg.state = sm.transitions[i].from /\ cfg \in sm.transitions[i].guard
          /\ tr' = sm.transitions[i]
          /\ new' = [cfg EXCEPT !.state = sm.transitions[i].to]
    BY <1>1 DEF Choose
  <2>2. /\ pc' = "body" /\ k' = 1
        /\ sm' = sm /\ cfg' = cfg
    BY <1>1 DEF Choose
  <2>3. tr' \in Transition
    BY <1>0, <2>1, MachineType
  <2>4. new' \in Config /\ new'.state = tr'.to /\ new'.val = cfg.val
    BY <1>0, <2>1, <2>3 DEF Config, Transition
  <2>5. k' \in 1 .. Len(tr'.action) + 1
    BY <2>2, <2>3, LenProperties DEF Transition
  <2>6. PTypeOK'
    BY <1>0, <2>2, <2>3, <2>4, <2>5 DEF PTypeOK
  <2>7. BodyInv'
    <3>1. \E l \in DOMAIN sm'.transitions : tr' = sm'.transitions[l]
      BY <2>1, <2>2
    <3>2. \A j \in 1 .. k' - 1 : FALSE
      BY <2>2
    <3>3. cfg'.state = tr'.from /\ cfg' \in tr'.guard
      BY <2>1, <2>2
    <3>. QED  BY <2>2, <2>4, <3>1, <3>2, <3>3 DEF BodyInv
  <2>. QED  BY <2>2, <2>6, <2>7
<1>2. CASE Statement
  <2>1. /\ pc = "body" /\ k <= Len(tr.action)
        /\ new' = Execute(tr.action[k], new)
        /\ k' = k + 1
        /\ sm' = sm /\ cfg' = cfg /\ pc' = pc /\ tr' = tr
    BY <1>2 DEF Statement
  <2>2. /\ \E i \in DOMAIN sm.transitions : tr = sm.transitions[i]
        /\ cfg.state = tr.from /\ cfg \in tr.guard
        /\ new.state = tr.to
        /\ \A j \in 1 .. k - 1 : new.val[tr.action[j].var] = tr.action[j].rhs[cfg]
        /\ \A v \in Var \ Assigned(tr, k) : new.val[v] = cfg.val[v]
    BY <2>1 DEF BodyInv
  <2>3. Independent(tr)
    BY <2>2 DEF IndependentMachine
  <2>4. Len(tr.action) \in Nat /\ DOMAIN tr.action = 1 .. Len(tr.action)
    BY <1>0, LenProperties DEF Transition
  <2>5. k \in 1 .. Len(tr.action)
    BY <1>0, <2>1, <2>4
  <2>6. /\ new' \in Config
        /\ new'.state = new.state
        /\ new'.val[tr.action[k].var] = tr.action[k].rhs[new]
        /\ \A v \in Var \ {tr.action[k].var} : new'.val[v] = new.val[v]
    BY <1>0, <2>1, <2>3, <2>5, ExecuteAssigns
  <2>7. tr.action[k].rhs[new] = tr.action[k].rhs[cfg]
    BY <1>0, <2>2, <2>3, <2>4, <2>5 DEF Independent
  <2>8. PTypeOK'
    <3>1. k' \in 1 .. Len(tr'.action) + 1
      BY <2>1, <2>4, <2>5
    <3>. QED  BY <1>0, <2>1, <2>6, <3>1 DEF PTypeOK
  <2>9. ASSUME NEW j \in 1 .. k' - 1
        PROVE  new'.val[tr.action[j].var] = tr.action[j].rhs[cfg]
    <3>1. CASE j = k
      BY <2>6, <2>7, <3>1
    <3>2. CASE j /= k
      <4>1. j \in 1 .. k - 1 /\ j \in 1 .. Len(tr.action)
        BY <2>1, <2>5, <3>2
      <4>2. tr.action[j].var /= tr.action[k].var
        BY <2>3, <2>4, <2>5, <3>2, <4>1 DEF Independent
      <4>3. tr.action[j].var \in Var
        BY <1>0, <2>3, <4>1, ConjunctType
      <4>. QED  BY <2>2, <2>6, <4>1, <4>2, <4>3
    <3>. QED  BY <3>1, <3>2
  <2>10. ASSUME NEW v \in Var \ Assigned(tr, k')
         PROVE  new'.val[v] = cfg.val[v]
    <3>1. v /= tr.action[k].var
      BY <2>1, <2>5 DEF Assigned
    <3>2. v \in Var \ Assigned(tr, k)
      BY <2>1, <2>5 DEF Assigned
    <3>. QED  BY <2>2, <2>6, <3>1, <3>2
  <2>11. BodyInv'
    <3>1. \A j \in 1 .. k' - 1 : new'.val[tr'.action[j].var] = tr'.action[j].rhs[cfg']
      BY <2>1, <2>9
    <3>2. Assigned(tr, k)' = Assigned(tr, k')
      BY <2>1 DEF Assigned
    <3>3. \A v \in Var \ Assigned(tr', k') : new'.val[v] = cfg'.val[v]
      BY <2>1, <2>10
    <3>4. /\ \E i \in DOMAIN sm'.transitions : tr' = sm'.transitions[i]
          /\ cfg'.state = tr'.from /\ cfg' \in tr'.guard
          /\ new'.state = tr'.to
      BY <2>1, <2>2, <2>6
    <3>. QED  BY <3>1, <3>2, <3>3, <3>4, <2>1 DEF BodyInv
  <2>. QED  BY <2>1, <2>8, <2>11
<1>3. CASE EndWhile
  <2>1. /\ cfg' = new /\ pc' = "MainLoop"
        /\ sm' = sm /\ tr' = tr /\ k' = k /\ new' = new
    BY <1>3 DEF EndWhile
  <2>. QED  BY <1>0, <2>1 DEF PTypeOK, BodyInv
<1>4. CASE Skip \/ UNCHANGED pvars
  <2>1. UNCHANGED <<sm, cfg, pc, tr, k, new>>
    BY <1>4 DEF Skip, pvars
  <2>. QED  BY <1>0, <2>1 DEF PTypeOK, BodyInv, Assigned
<1>. QED  BY <1>1, <1>2, <1>3, <1>4 DEF PNext

\* Where an iteration ends, the action of its transition allows its result
\* and no other.
LEMMA BodyDecides == GInv => BodyMatches
<1> SUFFICES ASSUME GInv, pc = "body", k = Len(tr.action) + 1, NEW d \in Config
             PROVE  Action(tr, cfg, d) <=> d = new
  BY DEF BodyMatches
<1>1. /\ cfg \in Config /\ new \in Config /\ tr \in Transition
      /\ IndependentMachine(sm)
  BY DEF GInv, PTypeOK
<1>2. /\ \E i \in DOMAIN sm.transitions : tr = sm.transitions[i]
      /\ cfg.state = tr.from /\ cfg \in tr.guard
      /\ new.state = tr.to
      /\ \A j \in 1 .. k - 1 : new.val[tr.action[j].var] = tr.action[j].rhs[cfg]
      /\ \A v \in Var \ Assigned(tr, k) : new.val[v] = cfg.val[v]
  BY DEF GInv, BodyInv
<1>3. Independent(tr)
  BY <1>1, <1>2 DEF IndependentMachine
<1>4. Len(tr.action) \in Nat /\ DOMAIN tr.action = 1 .. Len(tr.action)
  BY <1>1, LenProperties DEF Transition
<1>5. k - 1 = Len(tr.action)
  BY <1>4
<1>6. \A j \in DOMAIN tr.action : tr.action[j].form = "assign"
  BY <1>3 DEF Independent
<1>7. extract_primed_vars(tr) = Assigned(tr, k)
  BY <1>4, <1>5, <1>6 DEF extract_primed_vars, Forms, Assigned
<1>8. \A j \in DOMAIN tr.action :
         Holds(tr.action[j], cfg, d) <=> d.val[tr.action[j].var] = tr.action[j].rhs[cfg]
  BY <1>6 DEF Holds
<1>9. ASSUME Action(tr, cfg, d) PROVE d = new
  <2>1. /\ d.state = tr.to
        /\ \A j \in DOMAIN tr.action : Holds(tr.action[j], cfg, d)
        /\ \A v \in Var \ Assigned(tr, k) : d.val[v] = cfg.val[v]
    BY <1>7, <1>9 DEF Action
  <2>2. ASSUME NEW v \in Var PROVE d.val[v] = new.val[v]
    <3>1. CASE v \in Assigned(tr, k)
      <4>1. PICK j \in 1 .. k - 1 : v = tr.action[j].var
        BY <3>1 DEF Assigned
      <4>2. j \in DOMAIN tr.action
        BY <1>4, <1>5
      <4>. QED  BY <1>2, <1>8, <2>1, <4>1, <4>2
    <3>2. CASE v \notin Assigned(tr, k)
      BY <1>2, <2>1, <3>2
    <3>. QED  BY <3>1, <3>2
  <2>3. d.val = new.val
    BY <1>1, <2>2 DEF Config
  <2>. QED  BY <1>1, <1>2, <2>1, <2>3 DEF Config
<1>10. ASSUME d = new PROVE Action(tr, cfg, d)
  <2>1. \A j \in DOMAIN tr.action : Holds(tr.action[j], cfg, d)
    BY <1>2, <1>4, <1>5, <1>8, <1>10
  <2>2. \A v \in Var \ extract_primed_vars(tr) : d.val[v] = cfg.val[v]
    BY <1>2, <1>7, <1>10
  <2>. QED  BY <1>2, <1>10, <2>1, <2>2 DEF Action
<1>. QED  BY <1>9, <1>10

\* An iteration of the loop, seen at the label, is a step of the generated
\* specification; the statements inside it are stutters.
LEMMA StepRefines == GInv /\ [PNext]_pvars => [Next]_vars
<1> SUFFICES ASSUME GInv, [PNext]_pvars PROVE [Next]_vars
  OBVIOUS
<1>1. CASE EndWhile
  <2>1. pc = "body" /\ k > Len(tr.action) /\ cfg' = new /\ sm' = sm
    BY <1>1 DEF EndWhile
  <2>2. new \in Config /\ k \in 1 .. Len(tr.action) + 1 /\ tr \in Transition
    BY DEF GInv, PTypeOK
  <2>3. k = Len(tr.action) + 1
    BY <2>1, <2>2, LenProperties DEF Transition
  <2>4. Action(tr, cfg, new)
    BY <2>1, <2>2, <2>3, BodyDecides DEF BodyMatches
  <2>5. \E i \in DOMAIN sm.transitions : tr = sm.transitions[i]
    BY <2>1 DEF GInv, BodyInv
  <2>. QED  BY <2>1, <2>2, <2>4, <2>5 DEF Next
<1>2. CASE Choose \/ Statement \/ Skip \/ UNCHANGED pvars
  <2>1. UNCHANGED <<sm, cfg>>
    BY <1>2 DEF Choose, Statement, Skip, pvars
  <2>. QED  BY <2>1 DEF vars
<1>. QED  BY <1>1, <1>2 DEF PNext

(* What the statements of an iteration have done so far is what BodyInv     *)
(* says, at every statement of every iteration.                             *)
THEOREM BodyInvariance == AllIndependent /\ PSpec => []BodyInv
<1>1. GInv => BodyInv
  BY DEF GInv
<1>. QED  BY <1>1, InitGInv, StepGInv, PTL DEF PSpec

(* The body of each branch computes the one next configuration the TLA+     *)
(* action of the same transition allows.                                    *)
THEOREM PlusCalBodyIsEquivalent == AllIndependent /\ PSpec => []BodyMatches
<1>. QED  BY InitGInv, StepGInv, BodyDecides, PTL DEF PSpec

(* The PlusCal algorithm implements the specification it is generated with. *)
THEOREM PlusCalImplementsSpec == AllIndependent /\ PSpec => Specification
<1>1. PInit => Init
  BY DEF PInit
<1>. QED  BY <1>1, InitGInv, StepGInv, StepRefines, PTL DEF PSpec, Specification, Spec

------------------------------------------------------------------------------
(* The specification itself, on any machine the parser accepts. *)

SInv == sm \in Machines /\ TypeInvariant

LEMMA InitSInv == Init => SInv
<1> SUFFICES ASSUME Init PROVE SInv
  OBVIOUS
<1>1. sm \in Machines /\ cfg = [state |-> sm.initial_state, val |-> sm.init]
  BY DEF Init
<1>2. sm.initial_state \in State /\ sm.init \in [Var -> Val] /\ sm.initial_state \in sm.states
  BY <1>1, MachineType, GenSpecAssumption
<1>. QED  BY <1>1, <1>2 DEF SInv, TypeInvariant, Config

LEMMA StepSInv == SInv /\ [Next]_vars => SInv'
<1> SUFFICES ASSUME SInv, [Next]_vars PROVE SInv'
  OBVIOUS
<1>1. sm' = sm /\ sm \in Machines
  BY DEF SInv, Next, vars
<1>2. CASE Next
  <2>1. PICK i \in DOMAIN sm.transitions : Action(sm.transitions[i], cfg, cfg')
    BY <1>2 DEF Next
  <2>2. cfg'.state = sm.transitions[i].to
    BY <2>1 DEF Action
  <2>3. sm.transitions[i].to \in sm.states
    BY <1>1, GenSpecAssumption
  <2>. QED  BY <1>1, <1>2, <2>2, <2>3 DEF SInv, TypeInvariant, Next
<1>3. CASE UNCHANGED vars
  BY <1>3 DEF SInv, TypeInvariant, vars
<1>. QED  BY <1>2, <1>3

(* The TypeInvariant every generated configuration has checked can never    *)
(* fail: state stays among the declared states, the variables in their      *)
(* ranges.                                                                  *)
THEOREM TypeInvariantHolds == Spec => []TypeInvariant
<1>1. SInv => TypeInvariant
  BY DEF SInv
<1>. QED  BY <1>1, InitSInv, StepSInv, PTL DEF Spec

(* For every machine, a step of the generated module is one declared        *)
(* transition and its UNCHANGED clause frees no variable.                   *)
THEOREM OnlyDeclaredSteps == Spec => StepsAreTransitions
<1>1. ASSUME Next PROVE \E i \in DOMAIN sm.transitions : Takes(sm.transitions[i])
  <2>1. PICK i \in DOMAIN sm.transitions : Action(sm.transitions[i], cfg, cfg')
    BY <1>1 DEF Next
  <2> DEFINE t == sm.transitions[i]
  <2>2. ASSUME NEW v \in Var, cfg'.val[v] /= cfg.val[v]
        PROVE  \E j \in DOMAIN t.action : t.action[j].form /= "test" /\ t.action[j].var = v
    <3>1. v \in extract_primed_vars(t)
      BY <2>1, <2>2 DEF Action
    <3>2. PICK j \in Forms(t, {"assign", "choice"}) : t.action[j].var = v
      BY <3>1 DEF extract_primed_vars
    <3>. QED  BY <3>2 DEF Forms
  <2>3. cfg.state = t.from /\ cfg'.state = t.to /\ cfg \in t.guard
    BY <2>1 DEF Action
  <2>4. Takes(t)
    BY <2>2, <2>3 DEF Takes
  <2>. QED  BY <2>4
<1>2. [Next]_vars => [\E i \in DOMAIN sm.transitions : Takes(sm.transitions[i])]_vars
  BY <1>1
<1>. QED  BY <1>2, PTL DEF Spec, StepsAreTransitions

\* Carrying out assignments to distinct variables gives a configuration the
\* action allows.
LEMMA AssignsAreEnabled ==
    ASSUME NEW t \in Transition, OnlyAssigns(t), t.to \in State,
           NEW c \in Config, c.state = t.from, c \in t.guard
    PROVE  \E d \in Config : Action(t, c, d)
<1> DEFINE Of(v) == {j \in DOMAIN t.action : t.action[j].var = v}
           Value(v) == IF Of(v) = {} THEN c.val[v] ELSE t.action[CHOOSE j \in Of(v) : TRUE].rhs[c]
           d == [state |-> t.to, val |-> [v \in Var |-> Value(v)]]
<1>1. ASSUME NEW j \in DOMAIN t.action
      PROVE  /\ t.action[j].form = "assign" /\ t.action[j].var \in Var
             /\ t.action[j].rhs[c] \in Val
  <2>1. t.action[j] \in Conjunct
    BY <1>1, ElementOfSeq, LenProperties DEF Transition
  <2>2. t.action[j].form = "assign"
    BY <1>1 DEF OnlyAssigns
  <2>3. t.action[j] \in [form : {"assign", "spaced"}, var : Var, rhs : [Config -> Val],
                         head : [Config -> Val] \cup {IllFormed}]
    BY <2>1, <2>2 DEF Conjunct
  <2>. QED  BY <2>2, <2>3
<1>2. ASSUME NEW v \in Var PROVE Value(v) \in Val
  <2>1. CASE Of(v) = {}
    BY <2>1 DEF Config
  <2>2. CASE Of(v) /= {}
    <3>1. (CHOOSE j \in Of(v) : TRUE) \in DOMAIN t.action
      BY <2>2
    <3>. QED  BY <1>1, <2>2, <3>1
  <2>. QED  BY <2>1, <2>2
<1>3. d \in Config
  BY <1>2 DEF Config
<1>4. ASSUME NEW j \in DOMAIN t.action PROVE Holds(t.action[j], c, d)
  <2>1. j \in Of(t.action[j].var)
    BY <1>4
  <2>2. \A i \in Of(t.action[j].var) : i = j
    BY <1>4 DEF OnlyAssigns
  <2>3. Value(t.action[j].var) = t.action[j].rhs[c]
    BY <2>1, <2>2
  <2>4. d.val[t.action[j].var] = t.action[j].rhs[c]
    BY <1>1, <1>4, <2>3
  <2>. QED  BY <1>1, <1>4, <2>4 DEF Holds
<1>5. ASSUME NEW v \in Var \ extract_primed_vars(t) PROVE d.val[v] = c.val[v]
  <2>1. Of(v) = {}
    BY <1>1, <1>5 DEF extract_primed_vars, Forms
  <2>. QED  BY <2>1
<1>6. d.state = t.to
  OBVIOUS
<1>. HIDE DEF d
<1>7. Action(t, c, d)
  BY <1>4, <1>5, <1>6 DEF Action
<1>. QED  BY <1>3, <1>7

(* Whatever the machine, no transition that only assigns is blocked at its  *)
(* source under its guard: no UNCHANGED clause contradicts its action.      *)
THEOREM NothingIsBlocked == Spec => []GuardedIsEnabled
<1>1. SInv => GuardedIsEnabled
  <2> SUFFICES ASSUME SInv, NEW i \in DOMAIN sm.transitions,
                      OnlyAssigns(sm.transitions[i]), cfg.state = sm.transitions[i].from,
                      cfg \in sm.transitions[i].guard
               PROVE  \E d \in Config : Action(sm.transitions[i], cfg, d)
    BY DEF GuardedIsEnabled
  <2>1. sm.transitions[i] \in Transition /\ cfg \in Config
    BY MachineType DEF SInv, TypeInvariant
  <2>2. sm.transitions[i].to \in State
    BY <2>1 DEF Transition
  <2>. QED  BY <2>1, <2>2, AssignsAreEnabled
<1>. QED  BY <1>1, InitSInv, StepSInv, PTL DEF Spec
==============================================================================
