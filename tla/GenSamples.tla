----------------------------- MODULE GenSamples -----------------------------
(* Machines over two states and two variables with every small action: the *)
(* inputs on which the generated specification and the generated algorithm *)
(* are compared.                                                           *)
EXTENDS GenSpec

\* Right-hand sides: 0, 1, a variable, whether the state is B.
Rhs == {[c \in Config |-> 0], [c \in Config |-> 1],
        [c \in Config |-> c.val["x"]], [c \in Config |-> c.val["y"]],
        [c \in Config |-> IF c.state = "B" THEN 1 ELSE 0]}

Equality(f, v, r) == [form |-> f, var |-> v, rhs |-> r, head |-> r]
Conjuncts(forms) == {Equality(f, v, r) : f \in forms, v \in Var, r \in Rhs}
\* x' = (x /\ y), and x' = IF x THEN FALSE ELSE TRUE /\ y, which is still
\* an expression when it is cut at the /\ (1 stands for TRUE).
Both(u, v) == IF u = 1 /\ v = 1 THEN 1 ELSE 0
Cut == {[form |-> "assign", var |-> "x",
         rhs |-> [c \in Config |-> Both(c.val["x"], c.val["y"])], head |-> IllFormed],
        [form |-> "assign", var |-> "x",
         rhs |-> [c \in Config |-> Both(1 - c.val["x"], c.val["y"])],
         head |-> [c \in Config |-> 1 - c.val["x"]]]}
Others == {[form |-> "choice", var |-> "x", rhs |-> [c \in Config |-> Val]],
           Equality("spaced", "x", [c \in Config |-> 1]),
           [form |-> "test", holds |-> {c \in Config : c.val["y"] = 0}]}
UpToTwo(S) == UNION {[1 .. n -> S] : n \in 0 .. 2}

Guards == {Config, {c \in Config : c.val["x"] = 0}}
Edge(a, b, g, act) == [from |-> a, to |-> b, guard |-> g, action |-> act]

\* One transition of each kind out of A, and one that comes back and flips x.
Flip == Equality("assign", "x", [c \in Config |-> 1 - c.val["x"]])
Back == Edge("B", "A", Config, <<Flip>>)
MachinesWith(actions) ==
    {[states |-> {"A", "B"}, initial_state |-> "A", init |-> i,
      transitions |-> <<Edge("A", b, g, act), Back>>] :
         i \in [Var -> Val], b \in {"A", "B"}, g \in Guards, act \in actions}
\* With a loop at A that changes nothing, to be taken or not.
Idling ==
    {[states |-> {"A", "B"}, initial_state |-> "A", init |-> [v \in Var |-> 0],
      transitions |-> <<Edge("A", "A", Config, << >>), Edge("A", "B", g, << >>), Back>>] : g \in Guards}
Stuck == {[states |-> {"A"}, initial_state |-> "A", init |-> [v \in Var |-> 0],
           transitions |-> << >>]}

AllForms == MachinesWith(UpToTwo(Conjuncts({"assign"}) \cup Cut \cup Others)) \cup Idling \cup Stuck
Swap == <<Equality("assign", "x", [c \in Config |-> c.val["y"]]),
          Equality("assign", "y", [c \in Config |-> c.val["x"]])>>
Swapping == MachinesWith({Swap})
==============================================================================
