-------------------------- MODULE ArtifactsProofs --------------------------
(***************************************************************************)
(* For machines of any size, names of any characters and any added flags:  *)
(* first the order of the sections, which needs no more than what has been *)
(* defined when a section is reached; then induction over numbers and      *)
(* sequences, for the filter and the reading of flags, which are recursive *)
(* functions; then which items every section has, under which names; and   *)
(* last what follows for the configuration, the PlusCal module and the     *)
(* command of the run script.                                              *)
(***************************************************************************)
EXTENDS Artifacts, SequenceTheorems, WellFoundedInduction, TLAPS

Defined(t, n) == \E j \in DOMAIN t : t[j].name = n
IsASequence(s) == s \in Seq(Names(s))

\* What the text t has defined when section s is reached.
Past(s, i) == s \notin {Order[j] : j \in 1 .. i}
Progress(in, t, s) ==
    /\ Past(s, 2) => \A i \in DOMAIN in.machine.states : Defined(t, in.machine.states[i])
    /\ Past(s, 3) => \A i \in DOMAIN Variables(in) : Defined(t, Variables(in)[i])
    /\ Past(s, 5) => Defined(t, <<"Init">>)
    /\ Past(s, 6) => \A i \in DOMAIN in.machine.transitions :
                        Defined(t, ActionName(in.machine.transitions[i]))
    /\ Past(s, 7) => Defined(t, <<"Next">>)
    /\ Past(s, 8) => Defined(t, <<"vars">>)

IInv ==
    /\ input \in Inputs
    /\ IsASequence(text)
    /\ DefinedBeforeUse
    /\ Progress(input, text, section)

LEMMA OrderIs ==
    /\ DOMAIN Order = 1 .. 13
    /\ Following("header") = "constants" /\ Following("constants") = "variables"
    /\ Following("variables") = "type_invariant" /\ Following("type_invariant") = "init"
    /\ Following("init") = "transitions" /\ Following("transitions") = "next"
    /\ Following("next") = "vars" /\ Following("vars") = "spec"
    /\ Following("spec") = "properties" /\ Following("properties") = "footer"
    /\ Following("footer") = "configuration" /\ Following("configuration") = "script"
<1>1. DOMAIN Order = 1 .. 13
  BY DEF Order
<1>2. \A i, j \in 1 .. 13 : Order[i] = Order[j] => i = j
  BY DEF Order
<1>3. \A i \in 1 .. 12 : Following(Order[i]) = Order[i + 1]
  <2> TAKE i \in 1 .. 12
  <2>1. (CHOOSE j \in DOMAIN Order : Order[j] = Order[i]) = i
    BY <1>1, <1>2
  <2>. QED  BY <2>1 DEF Following
<1>4. /\ Order[1] = "header" /\ Order[2] = "constants" /\ Order[3] = "variables"
      /\ Order[4] = "type_invariant" /\ Order[5] = "init" /\ Order[6] = "transitions"
      /\ Order[7] = "next" /\ Order[8] = "vars" /\ Order[9] = "spec"
      /\ Order[10] = "properties" /\ Order[11] = "footer" /\ Order[12] = "configuration"
      /\ Order[13] = "script"
  BY DEF Order
<1>5. /\ Following(Order[1]) = Order[2] /\ Following(Order[2]) = Order[3]
      /\ Following(Order[3]) = Order[4] /\ Following(Order[4]) = Order[5]
      /\ Following(Order[5]) = Order[6] /\ Following(Order[6]) = Order[7]
      /\ Following(Order[7]) = Order[8] /\ Following(Order[8]) = Order[9]
      /\ Following(Order[9]) = Order[10] /\ Following(Order[10]) = Order[11]
      /\ Following(Order[11]) = Order[12] /\ Following(Order[12]) = Order[13]
  BY <1>3
<1>. QED  BY <1>1, <1>4, <1>5

LEMMA FunctionIsSeq ==
    ASSUME NEW n \in Nat, NEW S, NEW f \in [1 .. n -> S]
    PROVE  f \in Seq(S)
BY SeqDef

\* A row of numbered items is a sequence.
LEMMA Rows ==
    ASSUME NEW n \in Nat, NEW row, DOMAIN row = 1 .. n, row = [i \in 1 .. n |-> row[i]]
    PROVE  IsASequence(row)
<1>1. row \in [1 .. n -> Names(row)]
  BY DEF Names
<1>. QED  BY <1>1, FunctionIsSeq DEF IsASequence

LEMMA OneRow ==
    ASSUME NEW item
    PROVE  IsASequence(<<item>>) /\ DOMAIN <<item>> = {1} /\ <<item>>[1] = item
BY DEF IsASequence, Names

\* A section whose items mention only what is there, or an earlier one of them.
LEMMA Written ==
    ASSUME IsASequence(text), DefinedBeforeUse, NEW items, IsASequence(items),
           text' = text \o items,
           \A i \in DOMAIN items : \A n \in items[i].uses :
               n \in Library \/ Defined(text, n) \/ \E j \in 1 .. i - 1 : items[j].name = n
    PROVE  /\ IsASequence(text') /\ DefinedBeforeUse'
           /\ \A n : Defined(text, n) => Defined(text', n)
           /\ \A i \in DOMAIN items : Defined(text', items[i].name)
<1> DEFINE S == Names(text) \cup Names(items)
           m == Len(text)
           l == Len(items)
<1>1. text \in Seq(S) /\ items \in Seq(S)
  BY SeqDef DEF IsASequence
<1>2. /\ m \in Nat /\ l \in Nat /\ DOMAIN text = 1 .. m /\ DOMAIN items = 1 .. l
  BY <1>1, LenProperties
<1>3. /\ text' \in Seq(S) /\ Len(text') = m + l
      /\ \A i \in 1 .. m + l : text'[i] = IF i <= m THEN text[i] ELSE items[i - m]
  BY <1>1, ConcatProperties
<1>4. DOMAIN text' = 1 .. m + l
  BY <1>3, LenProperties
<1>5. \A i \in 1 .. m : text'[i] = text[i]
  BY <1>2, <1>3
<1>6. \A i \in 1 .. l : m + i \in DOMAIN text' /\ text'[m + i] = items[i]
  BY <1>2, <1>3, <1>4
<1>7. IsASequence(text')
  <2>1. text' \in [1 .. m + l -> S]
    BY <1>3, LenProperties
  <2> DEFINE T == {text'[i] : i \in DOMAIN text'}
  <2>2. \A i \in 1 .. m + l : text'[i] \in T
    BY <1>4
  <2>3. text' \in [1 .. m + l -> T]
    BY <2>1, <2>2
  <2>4. m + l \in Nat
    BY <1>2
  <2>5. text' \in Seq(T)
    BY <2>3, <2>4, FunctionIsSeq
  <2>. QED  BY <2>5 DEF IsASequence, Names
<1>8. ASSUME NEW n, Defined(text, n) PROVE Defined(text', n)
  <2>1. PICK j \in DOMAIN text : text[j].name = n
    BY <1>8 DEF Defined
  <2>2. j \in DOMAIN text' /\ text'[j] = text[j]
    BY <1>2, <1>4, <1>5
  <2>. QED  BY <2>1, <2>2 DEF Defined
<1>9. \A i \in DOMAIN items : Defined(text', items[i].name)
  BY <1>2, <1>6 DEF Defined
<1>10. ASSUME NEW i \in DOMAIN text', NEW n \in text'[i].uses, n \notin Library
       PROVE  \E j \in 1 .. i - 1 : text'[j].name = n
  <2>1. CASE i \in 1 .. m
    <3>1. n \in text[i].uses
      BY <1>5, <2>1
    <3>2. PICK j \in 1 .. i - 1 : text[j].name = n
      BY <1>2, <1>10, <2>1, <3>1 DEF DefinedBeforeUse
    <3>3. j \in 1 .. m
      BY <1>2, <2>1
    <3>. QED  BY <1>5, <3>2, <3>3
  <2>2. CASE i \notin 1 .. m
    <3>1. /\ i - m \in DOMAIN items /\ i = m + (i - m) /\ i - m \in 1 .. l
      BY <1>2, <1>4, <2>2
    <3>2. n \in items[i - m].uses
      BY <1>6, <3>1
    <3>3. n \in Library \/ Defined(text, n) \/ \E j \in 1 .. (i - m) - 1 : items[j].name = n
      BY <3>1, <3>2
    <3>4. CASE Defined(text, n)
      <4>1. PICK j \in DOMAIN text : text[j].name = n
        BY <3>4 DEF Defined
      <4>2. j \in 1 .. m /\ j \in 1 .. i - 1
        BY <1>2, <3>1
      <4>. QED  BY <1>5, <4>1, <4>2
    <3>5. CASE \E j \in 1 .. (i - m) - 1 : items[j].name = n
      <4>1. PICK j \in 1 .. (i - m) - 1 : items[j].name = n
        BY <3>5
      <4>2. j \in 1 .. l /\ m + j \in 1 .. i - 1
        BY <1>2, <3>1
      <4>. QED  BY <1>6, <4>1, <4>2
    <3>. QED  BY <1>10, <3>3, <3>4, <3>5
  <2>. QED  BY <2>1, <2>2
<1>11. DefinedBeforeUse'
  BY <1>10 DEF DefinedBeforeUse
<1>. QED  BY <1>7, <1>8, <1>9, <1>11

\* Which sections come after which.
LEMMA Reached ==
    ASSUME NEW s
    PROVE
    /\ Past(s, 2) <=> s \notin {"header", "constants"}
    /\ Past(s, 3) <=> s \notin {"header", "constants", "variables"}
    /\ Past(s, 5) <=> s \notin {"header", "constants", "variables", "type_invariant", "init"}
    /\ Past(s, 6) <=> s \notin {"header", "constants", "variables", "type_invariant", "init",
                                "transitions"}
    /\ Past(s, 7) <=> s \notin {"header", "constants", "variables", "type_invariant", "init",
                                "transitions", "next"}
    /\ Past(s, 8) <=> s \notin {"header", "constants", "variables", "type_invariant", "init",
                                "transitions", "next", "vars"}
<1>1. /\ Order[1] = "header" /\ Order[2] = "constants" /\ Order[3] = "variables"
      /\ Order[4] = "type_invariant" /\ Order[5] = "init" /\ Order[6] = "transitions"
      /\ Order[7] = "next" /\ Order[8] = "vars"
  BY DEF Order
<1>2. /\ 1 .. 2 = {1, 2} /\ 1 .. 3 = {1, 2, 3} /\ 1 .. 5 = {1, 2, 3, 4, 5}
      /\ 1 .. 6 = {1, 2, 3, 4, 5, 6} /\ 1 .. 7 = {1, 2, 3, 4, 5, 6, 7}
      /\ 1 .. 8 = {1, 2, 3, 4, 5, 6, 7, 8}
  OBVIOUS
<1>. QED  BY <1>1, <1>2 DEF Past

LEMMA InitIInv == Init => IInv
<1> SUFFICES ASSUME Init PROVE IInv
  OBVIOUS
<1>1. text = << >> /\ section = "header" /\ input \in Inputs
  BY DEF Init
<1>2. IsASequence(text) /\ DefinedBeforeUse
  BY <1>1 DEF IsASequence, DefinedBeforeUse
<1>3. Progress(input, text, section)
  BY <1>1, Reached DEF Progress
<1>. QED  BY <1>1, <1>2, <1>3 DEF IInv

\* The sequences a machine comes with.
LEMMA InputType ==
    ASSUME NEW in \in Inputs
    PROVE  /\ Len(in.machine.states) \in Nat
           /\ DOMAIN in.machine.states = 1 .. Len(in.machine.states)
           /\ Len(in.machine.transitions) \in Nat
           /\ DOMAIN in.machine.transitions = 1 .. Len(in.machine.transitions)
           /\ Len(in.properties) \in Nat
           /\ DOMAIN in.properties = 1 .. Len(in.properties)
           /\ Len(Variables(in)) \in Nat
           /\ DOMAIN Variables(in) = 1 .. Len(Variables(in))
           /\ 1 \in DOMAIN Variables(in) /\ Variables(in)[1] = <<"state">>
           /\ \E i \in DOMAIN in.machine.states : in.machine.states[i] = in.machine.initial_state
<1>1. /\ in.machine.states \in Seq(Seq(Char)) /\ in.machine.variables \in Seq(Seq(Char))
      /\ in.machine.transitions \in
           Seq([from : Seq(Char), to : Seq(Char), label : {NoLabel} \cup Seq(Char)])
      /\ in.properties \in Seq([name : Seq(Char) \ {<< >>}, kind : Kind])
      /\ \E i \in DOMAIN in.machine.states : in.machine.states[i] = in.machine.initial_state
  BY InputsAssumption
<1>2. "state" \in Char
  BY ArtifactsAssumption DEF Char, Fixed
<1>3. <<<<"state">>>> \in Seq(Seq(Char)) /\ Len(<<<<"state">>>>) = 1
  BY <1>2
<1>4. /\ Variables(in) \in Seq(Seq(Char))
      /\ Len(Variables(in)) = 1 + Len(in.machine.variables)
      /\ Variables(in)[1] = <<"state">>
  BY <1>1, <1>3, ConcatProperties, LenProperties DEF Variables
<1>5. /\ Len(in.machine.states) \in Nat
      /\ DOMAIN in.machine.states = 1 .. Len(in.machine.states)
  BY <1>1, LenProperties
<1>6. /\ Len(in.machine.transitions) \in Nat
      /\ DOMAIN in.machine.transitions = 1 .. Len(in.machine.transitions)
  BY <1>1, LenProperties
<1>7. Len(in.properties) \in Nat /\ DOMAIN in.properties = 1 .. Len(in.properties)
  BY <1>1, LenProperties
<1>8. Len(in.machine.variables) \in Nat
  BY <1>1, LenProperties
<1>9. /\ Len(Variables(in)) \in Nat
      /\ DOMAIN Variables(in) = 1 .. Len(Variables(in))
      /\ 1 \in DOMAIN Variables(in)
  BY <1>4, <1>8, LenProperties
<1>. QED  BY <1>1, <1>4, <1>5, <1>6, <1>7, <1>9

\* The written section, as seen from the next.
LEMMA SectionKeeps ==
    ASSUME IInv, NEW s, NEW items, Write(s, items), IsASequence(items),
           \A i \in DOMAIN items : \A n \in items[i].uses :
               n \in Library \/ Defined(text, n) \/ \E j \in 1 .. i - 1 : items[j].name = n
    PROVE  /\ input' = input /\ section = s /\ section' = Following(s)
           /\ input' \in Inputs /\ IsASequence(text') /\ DefinedBeforeUse'
           /\ \A n : Defined(text, n) => Defined(text', n)
           /\ \A i \in DOMAIN items : Defined(text', items[i].name)
<1>1. /\ input \in Inputs /\ IsASequence(text) /\ DefinedBeforeUse
      /\ section = s /\ text' = text \o items /\ section' = Following(s) /\ input' = input
  BY DEF IInv, Write
<1>. QED  BY <1>1, Written

LEMMA StepIInv == IInv /\ [Next]_avars => IInv'
<1> SUFFICES ASSUME IInv, [Next]_avars PROVE IInv'
  OBVIOUS
<1>0. /\ input \in Inputs /\ IsASequence(text) /\ DefinedBeforeUse
      /\ Progress(input, text, section)
  BY DEF IInv
<1>t. /\ Len(input.machine.states) \in Nat
      /\ DOMAIN input.machine.states = 1 .. Len(input.machine.states)
      /\ Len(input.machine.transitions) \in Nat
      /\ DOMAIN input.machine.transitions = 1 .. Len(input.machine.transitions)
      /\ Len(input.properties) \in Nat
      /\ DOMAIN input.properties = 1 .. Len(input.properties)
      /\ Len(Variables(input)) \in Nat
      /\ DOMAIN Variables(input) = 1 .. Len(Variables(input))
      /\ 1 \in DOMAIN Variables(input) /\ Variables(input)[1] = <<"state">>
      /\ \E i \in DOMAIN input.machine.states :
           input.machine.states[i] = input.machine.initial_state
  BY <1>0, InputType
\* Once all names of the machine are declared, what mentions only them may follow.
<1>u. ASSUME Past(section, 3)
      PROVE  /\ \A n \in User(input) : Defined(text, n)
             /\ \A n \in Names(Variables(input)) : Defined(text, n)
             /\ \A n \in Names(input.machine.states) : Defined(text, n)
             /\ Defined(text, <<"state">>) /\ Defined(text, input.machine.initial_state)
  <2>1. /\ \A i \in DOMAIN input.machine.states : Defined(text, input.machine.states[i])
        /\ \A i \in DOMAIN Variables(input) : Defined(text, Variables(input)[i])
    BY <1>0, <1>u, Reached DEF Progress
  <2>2. /\ \A n \in Names(Variables(input)) : Defined(text, n)
        /\ \A n \in Names(input.machine.states) : Defined(text, n)
    BY <2>1 DEF Names
  <2>. QED  BY <1>t, <2>1, <2>2 DEF User
<1>1. CASE Header
  <2> DEFINE items == generate_module_header(input)
  <2>1. IsASequence(items) /\ DOMAIN items = {}
    BY DEF generate_module_header, IsASequence
  <2>2. Write("header", items)
    BY <1>1 DEF Header
  <2>3. /\ input' = input /\ section' = "constants" /\ input' \in Inputs
        /\ IsASequence(text') /\ DefinedBeforeUse'
    BY <2>1, <2>2, SectionKeeps, OrderIs
  <2>4. Progress(input', text', section')
    BY <2>3, Reached DEF Progress
  <2>. QED  BY <2>3, <2>4 DEF IInv
<1>2. CASE Constants
  <2> DEFINE items == generate_constants(input)
  <2>1. /\ items = [i \in 1 .. Len(input.machine.states) |->
                      Item(input.machine.states[i], "constant", {}, i)]
    BY DEF generate_constants, Numbered
  <2>2. /\ IsASequence(items) /\ DOMAIN items = DOMAIN input.machine.states
        /\ \A i \in DOMAIN items : items[i].name = input.machine.states[i] /\ items[i].uses = {}
    BY <1>t, <2>1, Rows DEF Item
  <2>3. Write("constants", items)
    BY <1>2 DEF Constants
  <2>4. /\ input' = input /\ section' = "variables" /\ input' \in Inputs
        /\ IsASequence(text') /\ DefinedBeforeUse'
        /\ \A i \in DOMAIN items : Defined(text', items[i].name)
    BY <2>2, <2>3, SectionKeeps, OrderIs
  <2>5. Progress(input', text', section')
    BY <2>2, <2>4, Reached DEF Progress
  <2>. QED  BY <2>4, <2>5 DEF IInv
<1>3. CASE VariablesDecl
  <2> DEFINE items == generate_variables(input)
  <2>1. items = [i \in 1 .. Len(Variables(input)) |-> Item(Variables(input)[i], "state", {}, i)]
    BY DEF generate_variables, Numbered
  <2>2. /\ IsASequence(items) /\ DOMAIN items = DOMAIN Variables(input)
        /\ \A i \in DOMAIN items : items[i].name = Variables(input)[i] /\ items[i].uses = {}
    BY <1>t, <2>1, Rows DEF Item
  <2>3. Write("variables", items)
    BY <1>3 DEF VariablesDecl
  <2>4. /\ input' = input /\ section' = "type_invariant" /\ input' \in Inputs
        /\ section = "variables"
        /\ IsASequence(text') /\ DefinedBeforeUse'
        /\ \A n : Defined(text, n) => Defined(text', n)
        /\ \A i \in DOMAIN items : Defined(text', items[i].name)
    BY <2>2, <2>3, SectionKeeps, OrderIs
  <2>5. \A i \in DOMAIN input.machine.states : Defined(text, input.machine.states[i])
    BY <1>0, <2>4, Reached DEF Progress
  <2>6. Progress(input', text', section')
    BY <2>2, <2>4, <2>5, Reached DEF Progress
  <2>. QED  BY <2>4, <2>6 DEF IInv
<1>4. CASE TypeInvariant
  <2> DEFINE items == generate_type_invariant(input)
  <2>1. items = <<Item(<<"TypeInvariant">>, "state", ({<<"state">>} \cup Names(input.machine.states)), 1)>>
    BY DEF generate_type_invariant
  <2>2. /\ IsASequence(items) /\ DOMAIN items = {1} /\ items[1].name = <<"TypeInvariant">>
        /\ items[1].uses = {<<"state">>} \cup Names(input.machine.states)
    BY <2>1, OneRow DEF Item
  <2>3. Write("type_invariant", items)
    BY <1>4 DEF TypeInvariant, generate_type_invariant
  <2>4. section = "type_invariant"
    BY <2>3 DEF Write
  <2>5. \A n \in ({<<"state">>} \cup Names(input.machine.states)) : Defined(text, n)
    BY <1>0, <1>t, <2>4, Reached DEF Progress, Names
  <2>6. /\ input' = input /\ section' = "init" /\ input' \in Inputs
        /\ IsASequence(text') /\ DefinedBeforeUse'
        /\ \A n : Defined(text, n) => Defined(text', n)
        /\ \A i \in DOMAIN items : Defined(text', items[i].name)
    BY <2>2, <2>3, <2>5, SectionKeeps, OrderIs
  <2>7. Progress(input', text', section')
    BY <1>0, <2>4, <2>6, Reached DEF Progress
  <2>. QED  BY <2>6, <2>7 DEF IInv
<1>5. CASE InitPredicate
  <2> DEFINE items == generate_init(input)
  <2>1. items = <<Item(<<"Init">>, "state", (Names(Variables(input)) \cup {input.machine.initial_state}), 1)>>
    BY DEF generate_init
  <2>2. /\ IsASequence(items) /\ DOMAIN items = {1} /\ items[1].name = <<"Init">>
        /\ items[1].uses = Names(Variables(input)) \cup {input.machine.initial_state}
    BY <2>1, OneRow DEF Item
  <2>3. Write("init", items)
    BY <1>5 DEF InitPredicate, generate_init
  <2>4. section = "init"
    BY <2>3 DEF Write
  <2>5. \A n \in (Names(Variables(input)) \cup {input.machine.initial_state}) : Defined(text, n)
    BY <1>0, <1>t, <2>4, Reached DEF Progress, Names
  <2>6. /\ input' = input /\ section' = "transitions" /\ input' \in Inputs
        /\ IsASequence(text') /\ DefinedBeforeUse'
        /\ \A n : Defined(text, n) => Defined(text', n)
        /\ \A i \in DOMAIN items : Defined(text', items[i].name)
    BY <2>2, <2>3, <2>5, SectionKeeps, OrderIs
  <2>7. Progress(input', text', section')
    BY <1>0, <2>2, <2>4, <2>6, Reached DEF Progress
  <2>. QED  BY <2>6, <2>7 DEF IInv
<1>6. CASE Transitions
  <2> DEFINE ts == input.machine.transitions
             items == generate_transition_actions(input)
  <2>1. items = [i \in 1 .. Len(ts) |-> Item(ActionName(ts[i]), "action", User(input), i)]
    BY DEF generate_transition_actions, Numbered
  <2>2. /\ IsASequence(items) /\ DOMAIN items = DOMAIN ts
        /\ \A i \in DOMAIN items : items[i].name = ActionName(ts[i]) /\ items[i].uses = User(input)
    BY <1>t, <2>1, Rows DEF Item
  <2>3. Write("transitions", items)
    BY <1>6 DEF Transitions
  <2>4. section = "transitions"
    BY <2>3 DEF Write
  <2>5. \A n \in User(input) : Defined(text, n)
    BY <1>u, <2>4, Reached
  <2>6. /\ input' = input /\ section' = "next" /\ input' \in Inputs
        /\ IsASequence(text') /\ DefinedBeforeUse'
        /\ \A n : Defined(text, n) => Defined(text', n)
        /\ \A i \in DOMAIN items : Defined(text', items[i].name)
    BY <2>2, <2>3, <2>5, SectionKeeps, OrderIs
  <2>7. Progress(input', text', section')
    BY <1>0, <2>2, <2>4, <2>6, Reached DEF Progress
  <2>. QED  BY <2>6, <2>7 DEF IInv
<1>7. CASE NextRelation
  <2> DEFINE used == {ActionName(input.machine.transitions[i]) : i \in DOMAIN input.machine.transitions}
             items == generate_next(input)
  <2>1. items = <<Item(<<"Next">>, "action", used, 1)>>
    BY DEF generate_next
  <2>2. IsASequence(items) /\ DOMAIN items = {1} /\ items[1].name = <<"Next">> /\ items[1].uses = used
    BY <2>1, OneRow DEF Item
  <2>3. Write("next", items)
    BY <1>7 DEF NextRelation
  <2>4. section = "next"
    BY <2>3 DEF Write
  <2>5. \A n \in used : Defined(text, n)
    BY <1>0, <2>4, Reached DEF Progress
  <2>6. /\ input' = input /\ section' = "vars" /\ input' \in Inputs
        /\ IsASequence(text') /\ DefinedBeforeUse'
        /\ \A n : Defined(text, n) => Defined(text', n)
        /\ \A i \in DOMAIN items : Defined(text', items[i].name)
    BY <2>2, <2>3, <2>5, SectionKeeps, OrderIs
  <2>7. Progress(input', text', section')
    BY <1>0, <2>2, <2>4, <2>6, Reached DEF Progress
  <2>. QED  BY <2>6, <2>7 DEF IInv
<1>8. CASE VarsTuple
  <2> DEFINE used == Names(Variables(input))
             items == generate_vars_tuple(input)
  <2>1. items = <<Item(<<"vars">>, "state", used, 1)>>
    BY DEF generate_vars_tuple
  <2>2. IsASequence(items) /\ DOMAIN items = {1} /\ items[1].name = <<"vars">> /\ items[1].uses = used
    BY <2>1, OneRow DEF Item
  <2>3. Write("vars", items)
    BY <1>8 DEF VarsTuple
  <2>4. section = "vars"
    BY <2>3 DEF Write
  <2>5. \A n \in used : Defined(text, n)
    BY <1>u, <2>4, Reached
  <2>6. /\ input' = input /\ section' = "spec" /\ input' \in Inputs
        /\ IsASequence(text') /\ DefinedBeforeUse'
        /\ \A n : Defined(text, n) => Defined(text', n)
        /\ \A i \in DOMAIN items : Defined(text', items[i].name)
    BY <2>2, <2>3, <2>5, SectionKeeps, OrderIs
  <2>7. Progress(input', text', section')
    BY <1>0, <2>2, <2>4, <2>6, Reached DEF Progress
  <2>. QED  BY <2>6, <2>7 DEF IInv
<1>9. CASE Specification
  <2> DEFINE items == generate_spec(input)
             one == Item(<<"Spec">>, "temporal", {<<"Init">>, <<"Next">>, <<"vars">>}, 1)
             two == Item(<<"FairSpec">>, "temporal", {<<"Spec">>, <<"Next">>, <<"vars">>}, 1)
  <2>1. items = <<one, two>>
    BY DEF generate_spec
  <2>2. /\ IsASequence(items) /\ DOMAIN items = {1, 2}
        /\ items[1].name = <<"Spec">> /\ items[1].uses = {<<"Init">>, <<"Next">>, <<"vars">>}
        /\ items[2].uses = {<<"Spec">>, <<"Next">>, <<"vars">>}
    BY <2>1 DEF Item, IsASequence, Names
  <2>3. Write("spec", items)
    BY <1>9 DEF Specification
  <2>4. section = "spec"
    BY <2>3 DEF Write
  <2>5. Defined(text, <<"Init">>) /\ Defined(text, <<"Next">>) /\ Defined(text, <<"vars">>)
    BY <1>0, <2>4, Reached DEF Progress
  <2>8. ASSUME NEW i \in DOMAIN items, NEW n \in items[i].uses
        PROVE  Defined(text, n) \/ \E j \in 1 .. i - 1 : items[j].name = n
    <3>1. CASE i = 1
      BY <2>2, <2>5, <3>1
    <3>2. CASE i = 2
      <4>1. n = <<"Spec">> \/ Defined(text, n)
        BY <2>2, <2>5, <3>2
      <4>2. 1 \in 1 .. i - 1
        BY <3>2
      <4>. QED  BY <2>2, <4>1, <4>2
    <3>. QED  BY <2>2, <3>1, <3>2
  <2>6. /\ input' = input /\ section' = "properties" /\ input' \in Inputs
        /\ IsASequence(text') /\ DefinedBeforeUse'
        /\ \A n : Defined(text, n) => Defined(text', n)
        /\ \A i \in DOMAIN items : Defined(text', items[i].name)
    BY <2>2, <2>3, <2>8, SectionKeeps, OrderIs
  <2>7. Progress(input', text', section')
    BY <1>0, <2>4, <2>6, Reached DEF Progress
  <2>. QED  BY <2>6, <2>7 DEF IInv
<1>10. CASE Properties
  <2> DEFINE ps == input.properties
             Used(p) == IF p.kind = "fairness" THEN {<<"Next">>, <<"vars">>} ELSE User(input)
             items == generate_properties(input)
  <2>1. items = [i \in 1 .. Len(ps) |->
                   Item(sanitize_identifier(ps[i].name), "temporal", Used(ps[i]), i)]
    BY DEF generate_properties, Numbered
  <2>2. /\ IsASequence(items) /\ DOMAIN items = DOMAIN ps
        /\ \A i \in DOMAIN items : items[i].uses = Used(ps[i])
    BY <1>t, <2>1, Rows DEF Item
  <2>3. Write("properties", items)
    BY <1>10 DEF Properties
  <2>4. section = "properties"
    BY <2>3 DEF Write
  <2>5. /\ \A n \in User(input) : Defined(text, n)
        /\ Defined(text, <<"Next">>) /\ Defined(text, <<"vars">>)
    BY <1>0, <1>u, <2>4, Reached DEF Progress
  <2>8. \A i \in DOMAIN items : \A n \in items[i].uses : Defined(text, n)
    BY <2>2, <2>5
  <2>6. /\ input' = input /\ section' = "footer" /\ input' \in Inputs
        /\ IsASequence(text') /\ DefinedBeforeUse'
        /\ \A n : Defined(text, n) => Defined(text', n)
        /\ \A i \in DOMAIN items : Defined(text', items[i].name)
    BY <2>2, <2>3, <2>8, SectionKeeps, OrderIs
  <2>7. Progress(input', text', section')
    BY <1>0, <2>4, <2>6, Reached DEF Progress
  <2>. QED  BY <2>6, <2>7 DEF IInv
\* The other three files leave the module as it is.
<1>11. ASSUME UNCHANGED <<input, text>>,
              section = section' \/ (section = "footer" /\ section' = "configuration")
                \/ (section = "configuration" /\ section' = "script")
                \/ (section = "script" /\ section' = "done")
       PROVE  IInv'
  <2>1. input' = input /\ text' = text /\ DefinedBeforeUse'
    BY <1>0, <1>11 DEF DefinedBeforeUse
  <2>2. Progress(input, text, section')
    BY <1>0, <1>11, Reached DEF Progress
  <2>. QED  BY <1>0, <2>1, <2>2 DEF IInv
<1>12. CASE PlusCal
  BY <1>11, <1>12, OrderIs DEF PlusCal
<1>13. CASE Configure
  BY <1>11, <1>13, OrderIs DEF Configure
<1>14. CASE RunScript
  BY <1>11, <1>14 DEF RunScript
<1>15. CASE UNCHANGED avars
  BY <1>11, <1>15 DEF avars
<1>. QED  BY <1>1, <1>2, <1>3, <1>4, <1>5, <1>6, <1>7, <1>8, <1>9, <1>10, <1>12, <1>13, <1>14,
             <1>15 DEF Next

\* In the module written for any accepted machine, at every point of the
\* writing, a definition mentions only what stands before it (or a library
\* module provides): the sections of generate_tla_spec are in the right order.
THEOREM NamesComeFirst == Spec => []DefinedBeforeUse
<1>1. Init => IInv
  BY InitIInv
<1>2. IInv /\ [Next]_avars => IInv'
  BY StepIInv
<1>3. IInv => DefinedBeforeUse
  BY DEF IInv
<1>. QED  BY <1>1, <1>2, <1>3, PTL DEF Spec

------------------------------------------------------------------------------
(* Induction, as a fact about a set: of two sets of numbers the first has a  *)
(* least member that is not in the second, or none.                          *)
LEMMA NatSetInduction ==
    ASSUME NEW S, 0 \in S, \A n \in Nat : n \in S => n + 1 \in S
    PROVE  \A n \in Nat : n \in S
<1> DEFINE T == {n \in Nat : n \notin S}
<1>1. SUFFICES ASSUME T /= {} PROVE FALSE
  OBVIOUS
<1>2. PICK m \in T : \A n \in T : <<n, m>> \notin OpToRel(<, Nat)
  BY <1>1, WFMin, NatLessThanWellFounded, Zenon
<1>3. \A n \in T : ~(n < m)
  BY <1>2, Zenon DEF OpToRel
<1>4. m \in Nat /\ m /= 0
  OBVIOUS
<1>5. m - 1 \in Nat /\ m - 1 < m /\ m = (m - 1) + 1
  BY <1>4
<1>6. m - 1 \in S
  BY <1>3, <1>5
<1>. QED  BY <1>5, <1>6

\* The same for sequences: every one is empty or the extension of another.
LEMMA SeqSetInduction ==
    ASSUME NEW S, NEW G, << >> \in G,
           \A s \in Seq(S) : \A e \in S : s \in G => Append(s, e) \in G
    PROVE  \A s \in Seq(S) : s \in G
<1> DEFINE N == {n \in Nat : \A s \in Seq(S) : Len(s) = n => s \in G}
<1>1. 0 \in N
  BY EmptySeq
<1>2. ASSUME NEW n \in Nat, n \in N PROVE n + 1 \in N
  <2> SUFFICES ASSUME NEW s \in Seq(S), Len(s) = n + 1 PROVE s \in G
    OBVIOUS
  <2>1. s /= << >>
    BY EmptySeq
  <2>2. PICK t \in Seq(S), e \in S : s = Append(t, e)
    BY <2>1, SequenceEmptyOrAppend
  <2>3. Len(t) = n
    BY <2>2, AppendProperties, LenProperties
  <2>. QED  BY <1>2, <2>2, <2>3
<1>3. \A n \in Nat : n \in N
  <2> HIDE DEF N
  <2>. QED  BY <1>1, <1>2, NatSetInduction
<1>. QED  BY <1>3, LenProperties

\* A sequence is one of its own elements.
LEMMA NamesOfSeq ==
    ASSUME NEW S, NEW s \in Seq(S)
    PROVE  Names(s) \subseteq S /\ s \in Seq(Names(s))
<1>1. DOMAIN s = 1 .. Len(s) /\ Len(s) \in Nat /\ s \in [1 .. Len(s) -> S]
  BY LenProperties
<1>2. Names(s) \subseteq S
  BY <1>1 DEF Names
<1>3. s \in [1 .. Len(s) -> Names(s)]
  BY <1>1 DEF Names
<1>4. s \in Seq(Names(s))
  BY <1>1, <1>3, SeqDef
<1>. QED  BY <1>2, <1>4

\* The elements of a longer sequence.
LEMMA NamesAppend ==
    ASSUME NEW S, NEW s \in Seq(S), NEW e \in S
    PROVE  Names(Append(s, e)) = Names(s) \cup {e}
<1> DEFINE t == Append(s, e)
<1>1. /\ Len(s) \in Nat /\ DOMAIN s = 1 .. Len(s) /\ DOMAIN t = 1 .. Len(s) + 1
      /\ \A i \in 1 .. Len(s) : t[i] = s[i]
      /\ t[Len(s) + 1] = e
  BY LenProperties, AppendProperties
<1> HIDE DEF t
<1>2. ASSUME NEW x \in Names(t) PROVE x \in Names(s) \cup {e}
  <2>1. PICK i \in 1 .. Len(s) + 1 : x = t[i]
    BY <1>1 DEF Names
  <2>2. i \in 1 .. Len(s) \/ i = Len(s) + 1
    BY <1>1
  <2>. QED  BY <1>1, <2>1, <2>2 DEF Names
<1>3. ASSUME NEW x \in Names(s) \cup {e} PROVE x \in Names(t)
  <2>1. CASE x = e
    <3>1. Len(s) + 1 \in DOMAIN t
      BY <1>1
    <3>. QED  BY <1>1, <2>1, <3>1 DEF Names
  <2>2. CASE x \in Names(s)
    <3>1. PICK i \in 1 .. Len(s) : x = s[i]
      BY <1>1, <2>2 DEF Names
    <3>2. i \in DOMAIN t /\ t[i] = x
      BY <1>1, <3>1
    <3>. QED  BY <3>2 DEF Names
  <2>. QED  BY <1>3, <2>1, <2>2
<1>4. Names(t) = Names(s) \cup {e}
  BY <1>2, <1>3
<1>. QED  BY <1>4 DEF t

LEMMA NamesConcat ==
    ASSUME NEW S, NEW s \in Seq(S), NEW t \in Seq(S)
    PROVE  Names(s \o t) = Names(s) \cup Names(t)
<1> DEFINE u == s \o t
<1>1. /\ Len(s) \in Nat /\ Len(t) \in Nat
      /\ DOMAIN s = 1 .. Len(s) /\ DOMAIN t = 1 .. Len(t)
      /\ DOMAIN u = 1 .. Len(s) + Len(t)
      /\ \A i \in 1 .. Len(s) + Len(t) : u[i] = IF i <= Len(s) THEN s[i] ELSE t[i - Len(s)]
  BY LenProperties, ConcatProperties
<1> HIDE DEF u
<1>2. ASSUME NEW x \in Names(u) PROVE x \in Names(s) \cup Names(t)
  <2>1. PICK i \in 1 .. Len(s) + Len(t) : x = u[i]
    BY <1>1 DEF Names
  <2>2. CASE i <= Len(s)
    <3>1. i \in DOMAIN s /\ x = s[i]
      BY <1>1, <2>1, <2>2
    <3>. QED  BY <3>1 DEF Names
  <2>3. CASE ~(i <= Len(s))
    <3>1. i - Len(s) \in DOMAIN t /\ x = t[i - Len(s)]
      BY <1>1, <2>1, <2>3
    <3>. QED  BY <3>1 DEF Names
  <2>. QED  BY <2>2, <2>3
<1>3. ASSUME NEW x \in Names(s) PROVE x \in Names(u)
  <2>1. PICK i \in 1 .. Len(s) : x = s[i]
    BY <1>1, <1>3 DEF Names
  <2>2. i \in DOMAIN u /\ u[i] = x
    BY <1>1, <2>1
  <2>. QED  BY <2>2 DEF Names
<1>4. ASSUME NEW x \in Names(t) PROVE x \in Names(u)
  <2>1. PICK i \in 1 .. Len(t) : x = t[i]
    BY <1>1, <1>4 DEF Names
  <2>2. Len(s) + i \in DOMAIN u /\ u[Len(s) + i] = x
    BY <1>1, <2>1
  <2>. QED  BY <2>2 DEF Names
<1>5. Names(u) = Names(s) \cup Names(t)
  BY <1>2, <1>3, <1>4
<1>. QED  BY <1>5 DEF u

------------------------------------------------------------------------------
(* Only is a recursive function: that one which satisfies its equation       *)
(* exists is shown first, for one prefix after the other.                    *)
Chosen(k, s, S, n) ==
    IF n = 0 THEN << >> ELSE IF s[n] \in S THEN Append(k[n - 1], s[n]) ELSE k[n - 1]

LEMMA OnlyExists ==
    ASSUME NEW s, NEW S, Len(s) \in Nat
    PROVE  \E k : /\ k = [n \in 0 .. Len(s) |-> Chosen(k, s, S, n)]
                  /\ Only(s, S) = k[Len(s)]
<1> DEFINE Good(m) == \E k : k = [n \in 0 .. m |-> Chosen(k, s, S, n)]
           G == {m \in Nat : Good(m)}
<1>1. 0 \in G
  <2>1. PICK k : k = [n \in 0 .. 0 |-> << >>]
    OBVIOUS
  <2>2. k = [n \in 0 .. 0 |-> Chosen(k, s, S, n)]
    BY <2>1 DEF Chosen
  <2>. QED  BY <2>2
<1>2. ASSUME NEW m \in Nat, m \in G PROVE m + 1 \in G
  <2>1. PICK g : g = [n \in 0 .. m |-> Chosen(g, s, S, n)]
    BY <1>2
  <2> DEFINE h == [n \in 0 .. m + 1 |-> IF n = m + 1 THEN Chosen(g, s, S, n) ELSE g[n]]
  <2>2. ASSUME NEW n \in 0 .. m + 1 PROVE h[n] = Chosen(h, s, S, n)
    <3>1. CASE n = m + 1
      <4>1. h[n] = Chosen(g, s, S, n) /\ n - 1 = m /\ n /= 0 /\ h[m] = g[m]
        BY <3>1
      <4>. QED  BY <4>1 DEF Chosen
    <3>2. CASE n /= m + 1
      <4>1. n \in 0 .. m /\ h[n] = g[n]
        BY <3>2
      <4>2. g[n] = Chosen(g, s, S, n)
        BY <2>1, <4>1
      <4>3. n /= 0 => h[n - 1] = g[n - 1]
        BY <4>1
      <4>. QED  BY <4>1, <4>2, <4>3 DEF Chosen
    <3>. QED  BY <3>1, <3>2
  <2>3. h = [n \in 0 .. m + 1 |-> Chosen(h, s, S, n)]
    BY <2>2
  <2>4. Good(m + 1)
    <3> HIDE DEF h
    <3>. QED  BY <2>3
  <2>. QED  BY <2>4
<1>3. Len(s) \in G
  <2> HIDE DEF G
  <2>. QED  BY <1>1, <1>2, NatSetInduction
<1> DEFINE K == CHOOSE k : k = [n \in 0 .. Len(s) |-> Chosen(k, s, S, n)]
<1>4. K = [n \in 0 .. Len(s) |-> Chosen(K, s, S, n)]
  BY <1>3
<1>5. Only(s, S) = K[Len(s)]
  BY Zenon DEF Only, Chosen
<1>. QED  BY <1>4, <1>5

\* The filter, one element after the other.
LEMMA OnlyEmpty == ASSUME NEW S PROVE Only(<< >>, S) = << >>
<1>1. Len(<< >>) = 0
  OBVIOUS
<1>2. PICK k : k = [n \in 0 .. Len(<< >>) |-> Chosen(k, << >>, S, n)] /\ Only(<< >>, S) = k[Len(<< >>)]
  BY <1>1, OnlyExists
<1>. QED  BY <1>1, <1>2 DEF Chosen

LEMMA OnlyAppend ==
    ASSUME NEW E, NEW s \in Seq(E), NEW e \in E, NEW S
    PROVE  Only(Append(s, e), S) = IF e \in S THEN Append(Only(s, S), e) ELSE Only(s, S)
<1> DEFINE t == Append(s, e)
<1>1. /\ Len(s) \in Nat /\ Len(t) = Len(s) + 1 /\ Len(t) \in Nat /\ t[Len(t)] = e
      /\ \A i \in 1 .. Len(s) : t[i] = s[i]
  BY LenProperties, AppendProperties
<1> HIDE DEF t
<1>2. PICK k : k = [n \in 0 .. Len(s) |-> Chosen(k, s, S, n)] /\ Only(s, S) = k[Len(s)]
  BY <1>1, OnlyExists
<1>3. PICK h : h = [n \in 0 .. Len(t) |-> Chosen(h, t, S, n)] /\ Only(t, S) = h[Len(t)]
  BY <1>1, OnlyExists
<1> DEFINE G == {n \in Nat : n <= Len(s) => h[n] = k[n]}
<1>4. 0 \in G
  BY <1>1, <1>2, <1>3 DEF Chosen
<1>5. ASSUME NEW n \in Nat, n \in G PROVE n + 1 \in G
  <2> SUFFICES ASSUME n + 1 <= Len(s) PROVE h[n + 1] = k[n + 1]
    OBVIOUS
  <2>1. /\ n + 1 \in 1 .. Len(s) /\ n + 1 \in 0 .. Len(t) /\ n + 1 \in 0 .. Len(s)
        /\ (n + 1) - 1 = n /\ n + 1 /= 0 /\ h[n] = k[n]
    BY <1>1, <1>5
  <2>2. h[n + 1] = Chosen(h, t, S, n + 1) /\ k[n + 1] = Chosen(k, s, S, n + 1)
    BY <1>2, <1>3, <2>1
  <2>3. t[n + 1] = s[n + 1]
    BY <1>1, <2>1
  <2>. QED  BY <2>1, <2>2, <2>3 DEF Chosen
<1>6. Len(s) \in G
  <2> HIDE DEF G
  <2>. QED  BY <1>1, <1>4, <1>5, NatSetInduction
<1>7. h[Len(s)] = Only(s, S)
  BY <1>1, <1>2, <1>6
<1>8. h[Len(t)] = Chosen(h, t, S, Len(t)) /\ Len(t) - 1 = Len(s) /\ Len(t) /= 0
  BY <1>1, <1>3
<1>9. Only(t, S) = IF e \in S THEN Append(Only(s, S), e) ELSE Only(s, S)
  BY <1>1, <1>3, <1>7, <1>8 DEF Chosen
<1>. QED  BY <1>9 DEF t

\* What it returns: the elements of s in S, and no others.
LEMMA OnlyNames ==
    ASSUME NEW E, NEW s \in Seq(E), NEW S
    PROVE  Only(s, S) \in Seq(E) /\ Names(Only(s, S)) = Names(s) \cap S
<1> DEFINE G == {x \in Seq(E) : Only(x, S) \in Seq(E) /\ Names(Only(x, S)) = Names(x) \cap S}
<1>1. << >> \in G
  <2>1. << >> \in Seq(E) /\ Names(<< >>) = {}
    BY EmptySeq DEF Names
  <2>. QED  BY <2>1, OnlyEmpty
<1>2. ASSUME NEW x \in Seq(E), NEW e \in E, x \in G PROVE Append(x, e) \in G
  <2>1. /\ Append(x, e) \in Seq(E) /\ Names(Append(x, e)) = Names(x) \cup {e}
        /\ Only(x, S) \in Seq(E) /\ Names(Only(x, S)) = Names(x) \cap S
    BY <1>2, AppendProperties, NamesAppend
  <2>2. CASE e \in S
    <3>1. Only(Append(x, e), S) = Append(Only(x, S), e)
      BY <2>2, OnlyAppend
    <3>2. /\ Append(Only(x, S), e) \in Seq(E)
          /\ Names(Append(Only(x, S), e)) = Names(Only(x, S)) \cup {e}
      BY <2>1, AppendProperties, NamesAppend
    <3>. QED  BY <2>1, <2>2, <3>1, <3>2
  <2>3. CASE e \notin S
    BY <2>1, <2>3, OnlyAppend
  <2>. QED  BY <2>2, <2>3
<1>3. s \in G
  <2> HIDE DEF G
  <2>. QED  BY <1>1, <1>2, SeqSetInduction
<1>. QED  BY <1>3

\* Of S only what is in s matters.
LEMMA OnlySame ==
    ASSUME NEW E, NEW s \in Seq(E), NEW S, NEW T, Names(s) \cap S = Names(s) \cap T
    PROVE  Only(s, S) = Only(s, T)
<1> DEFINE G == {x \in Seq(E) : Names(x) \cap S = Names(x) \cap T => Only(x, S) = Only(x, T)}
<1>1. << >> \in G
  BY OnlyEmpty
<1>2. ASSUME NEW x \in Seq(E), NEW e \in E, x \in G PROVE Append(x, e) \in G
  <2>1. Append(x, e) \in Seq(E) /\ Names(Append(x, e)) = Names(x) \cup {e}
    BY AppendProperties, NamesAppend
  <2> SUFFICES ASSUME Names(Append(x, e)) \cap S = Names(Append(x, e)) \cap T
               PROVE  Only(Append(x, e), S) = Only(Append(x, e), T)
    BY <2>1
  <2>2. Names(x) \cap S = Names(x) \cap T /\ (e \in S <=> e \in T)
    BY <2>1
  <2>3. Only(x, S) = Only(x, T)
    BY <1>2, <2>2
  <2>4. /\ Only(Append(x, e), S) = IF e \in S THEN Append(Only(x, S), e) ELSE Only(x, S)
        /\ Only(Append(x, e), T) = IF e \in T THEN Append(Only(x, T), e) ELSE Only(x, T)
    BY OnlyAppend
  <2>. QED  BY <2>2, <2>3, <2>4
<1>3. s \in G
  <2> HIDE DEF G
  <2>. QED  BY <1>1, <1>2, SeqSetInduction
<1>. QED  BY <1>3

\* The filter of a whole is that of its parts.
LEMMA OnlyConcat ==
    ASSUME NEW E, NEW s \in Seq(E), NEW t \in Seq(E), NEW S
    PROVE  Only(s \o t, S) = Only(s, S) \o Only(t, S)
<1> DEFINE G == {x \in Seq(E) : Only(s \o x, S) = Only(s, S) \o Only(x, S)}
<1>0. Only(s, S) \in Seq(E)
  BY OnlyNames
<1>1. << >> \in G
  <2>1. s \o << >> = s /\ Only(s, S) \o << >> = Only(s, S) /\ << >> \in Seq(E)
    BY <1>0, ConcatEmptySeq, EmptySeq
  <2>2. Only(<< >>, S) = << >>
    BY OnlyEmpty
  <2>. QED  BY <2>1, <2>2
<1>2. ASSUME NEW x \in Seq(E), NEW e \in E, x \in G PROVE Append(x, e) \in G
  <2>1. /\ Append(x, e) \in Seq(E) /\ s \o x \in Seq(E) /\ Only(x, S) \in Seq(E)
        /\ <<e>> \in Seq(E)
    BY AppendProperties, ConcatProperties, OnlyNames
  <2>2. \A a \in Seq(E) : Append(a, e) = a \o <<e>>
    BY AppendIsConcat
  <2>3. s \o Append(x, e) = Append(s \o x, e)
    BY <2>1, <2>2, ConcatAssociative
  <2>4. Only(s \o Append(x, e), S) = IF e \in S THEN Append(Only(s \o x, S), e) ELSE Only(s \o x, S)
    BY <2>1, <2>3, OnlyAppend
  <2>5. Only(s \o x, S) = Only(s, S) \o Only(x, S)
    BY <1>2
  <2>6. Append(Only(s, S) \o Only(x, S), e) = Only(s, S) \o Append(Only(x, S), e)
    <3>1. Only(s, S) \o Only(x, S) \in Seq(E)
      BY <1>0, <2>1, ConcatProperties
    <3>2. (Only(s, S) \o Only(x, S)) \o <<e>> = Only(s, S) \o (Only(x, S) \o <<e>>)
      BY <1>0, <2>1, ConcatAssociative
    <3>3. /\ Append(Only(s, S) \o Only(x, S), e) = (Only(s, S) \o Only(x, S)) \o <<e>>
          /\ Append(Only(x, S), e) = Only(x, S) \o <<e>>
      BY <2>1, <2>2, <3>1
    <3>. QED  BY <3>2, <3>3
  <2>7. Only(Append(x, e), S) = IF e \in S THEN Append(Only(x, S), e) ELSE Only(x, S)
    BY OnlyAppend
  <2>. QED  BY <2>1, <2>4, <2>5, <2>6, <2>7
<1>3. t \in G
  <2> HIDE DEF G
  <2>. QED  BY <1>1, <1>2, SeqSetInduction
<1>. QED  BY <1>3

------------------------------------------------------------------------------
(* The module as a whole: its ten sections.                                  *)
Items(in, k) ==
    CASE k = 1 -> generate_module_header(in)
      [] k = 2 -> generate_constants(in)
      [] k = 3 -> generate_variables(in)
      [] k = 4 -> generate_type_invariant(in)
      [] k = 5 -> generate_init(in)
      [] k = 6 -> generate_transition_actions(in)
      [] k = 7 -> generate_next(in)
      [] k = 8 -> generate_vars_tuple(in)
      [] k = 9 -> generate_spec(in)
      [] k = 10 -> generate_properties(in)
Place(k) == IF k = 14 THEN "done" ELSE Order[k]
Sections(in, k) == UNION {Names(Items(in, j)) : j \in {i \in 1 .. 10 : i < k}}

LEMMA TenSections == \A k \in 1 .. 10 : k \in {1, 2, 3, 4, 5, 6, 7, 8, 9, 10}
OBVIOUS

\* What each section consists of.
LEMMA ConstantItems ==
    ASSUME NEW in \in Inputs
    PROVE  /\ IsASequence(Items(in, 2)) /\ DOMAIN Items(in, 2) = DOMAIN in.machine.states
           /\ \A i \in DOMAIN Items(in, 2) :
                Items(in, 2)[i] = Item(in.machine.states[i], "constant", {}, i)
<1>1. /\ Len(in.machine.states) \in Nat
      /\ DOMAIN in.machine.states = 1 .. Len(in.machine.states)
  BY InputType
<1>2. Items(in, 2) = [i \in 1 .. Len(in.machine.states) |->
                        Item(in.machine.states[i], "constant", {}, i)]
  BY DEF Items, generate_constants, Numbered
<1>. QED  BY <1>1, <1>2, Rows

LEMMA VariableItems ==
    ASSUME NEW in \in Inputs
    PROVE  /\ IsASequence(Items(in, 3)) /\ DOMAIN Items(in, 3) = DOMAIN Variables(in)
           /\ DOMAIN Variables(in) \subseteq Nat
           /\ \A i \in DOMAIN Items(in, 3) :
                Items(in, 3)[i] = Item(Variables(in)[i], "state", {}, i)
<1>1. Len(Variables(in)) \in Nat /\ DOMAIN Variables(in) = 1 .. Len(Variables(in))
  BY InputType
<1>2. Items(in, 3) = [i \in 1 .. Len(Variables(in)) |-> Item(Variables(in)[i], "state", {}, i)]
  BY DEF Items, generate_variables, Numbered
<1>. QED  BY <1>1, <1>2, Rows

LEMMA TransitionItems ==
    ASSUME NEW in \in Inputs
    PROVE  /\ IsASequence(Items(in, 6)) /\ DOMAIN Items(in, 6) = DOMAIN in.machine.transitions
           /\ \A i \in DOMAIN Items(in, 6) :
                Items(in, 6)[i] =
                  Item(ActionName(in.machine.transitions[i]), "action", User(in), i)
<1>1. /\ Len(in.machine.transitions) \in Nat
      /\ DOMAIN in.machine.transitions = 1 .. Len(in.machine.transitions)
  BY InputType
<1>2. Items(in, 6) = [i \in 1 .. Len(in.machine.transitions) |->
                        Item(ActionName(in.machine.transitions[i]), "action", User(in), i)]
  BY DEF Items, generate_transition_actions, Numbered
<1>. QED  BY <1>1, <1>2, Rows

LEMMA PropertyItems ==
    ASSUME NEW in \in Inputs
    PROVE  /\ IsASequence(Items(in, 10)) /\ DOMAIN Items(in, 10) = DOMAIN in.properties
           /\ DOMAIN in.properties = 1 .. Len(in.properties) /\ Len(in.properties) \in Nat
           /\ \A i \in DOMAIN Items(in, 10) :
                /\ Items(in, 10)[i].name = sanitize_identifier(in.properties[i].name)
                /\ Items(in, 10)[i].level = "temporal"
<1> DEFINE Row(i) == Item(sanitize_identifier(in.properties[i].name), "temporal",
                          IF in.properties[i].kind = "fairness"
                            THEN {<<"Next">>, <<"vars">>} ELSE User(in), i)
<1>1. Len(in.properties) \in Nat /\ DOMAIN in.properties = 1 .. Len(in.properties)
  BY InputType
<1>2. Items(in, 10) = [i \in 1 .. Len(in.properties) |-> Row(i)]
  BY DEF Items, generate_properties, Numbered
<1>3. \A i \in 1 .. Len(in.properties) :
        /\ Row(i).name = sanitize_identifier(in.properties[i].name)
        /\ Row(i).level = "temporal"
  BY DEF Item
<1> HIDE DEF Row
<1>. QED  BY <1>1, <1>2, <1>3, Rows

LEMMA SingleItems ==
    ASSUME NEW in
    PROVE  /\ \A k \in {4, 5, 7, 8} : IsASequence(Items(in, k)) /\ DOMAIN Items(in, k) = {1}
           /\ Items(in, 4)[1].name = <<"TypeInvariant">> /\ Items(in, 4)[1].level = "state"
           /\ Items(in, 5)[1].name = <<"Init">> /\ Items(in, 5)[1].level = "state"
           /\ Items(in, 7)[1].name = <<"Next">> /\ Items(in, 7)[1].level = "action"
           /\ Items(in, 7)[1].uses = {ActionName(in.machine.transitions[i]) :
                                        i \in DOMAIN in.machine.transitions}
           /\ Items(in, 8)[1].name = <<"vars">> /\ Items(in, 8)[1].level = "state"
<1>1. /\ IsASequence(Items(in, 4)) /\ DOMAIN Items(in, 4) = {1}
      /\ Items(in, 4)[1].name = <<"TypeInvariant">> /\ Items(in, 4)[1].level = "state"
  BY OneRow DEF Items, generate_type_invariant, Item
<1>2. /\ IsASequence(Items(in, 5)) /\ DOMAIN Items(in, 5) = {1}
      /\ Items(in, 5)[1].name = <<"Init">> /\ Items(in, 5)[1].level = "state"
  BY OneRow DEF Items, generate_init, Item
<1>3. /\ IsASequence(Items(in, 7)) /\ DOMAIN Items(in, 7) = {1}
      /\ Items(in, 7)[1].name = <<"Next">> /\ Items(in, 7)[1].level = "action"
      /\ Items(in, 7)[1].uses = {ActionName(in.machine.transitions[i]) :
                                   i \in DOMAIN in.machine.transitions}
  BY OneRow DEF Items, generate_next, Item
<1>4. /\ IsASequence(Items(in, 8)) /\ DOMAIN Items(in, 8) = {1}
      /\ Items(in, 8)[1].name = <<"vars">> /\ Items(in, 8)[1].level = "state"
  BY OneRow DEF Items, generate_vars_tuple, Item
<1>. QED  BY <1>1, <1>2, <1>3, <1>4

LEMMA SpecItems ==
    ASSUME NEW in
    PROVE  /\ IsASequence(Items(in, 9)) /\ DOMAIN Items(in, 9) = {1, 2}
           /\ Items(in, 9)[1].name = <<"Spec">> /\ Items(in, 9)[1].level = "temporal"
           /\ Items(in, 9)[2].name = <<"FairSpec">> /\ Items(in, 9)[2].level = "temporal"
BY DEF Items, generate_spec, Item, IsASequence, Names

LEMMA NoItems ==
    ASSUME NEW in
    PROVE  IsASequence(Items(in, 1)) /\ DOMAIN Items(in, 1) = {} /\ Items(in, 1) = << >>
BY EmptySeq DEF Items, generate_module_header, IsASequence

LEMMA ItemsAreRows ==
    ASSUME NEW in \in Inputs, NEW k \in 1 .. 10
    PROVE  IsASequence(Items(in, k))
BY TenSections, NoItems, ConstantItems, VariableItems, SingleItems, TransitionItems, SpecItems, PropertyItems

\* The rows of the manifest.
LEMMA TransitionType ==
    ASSUME NEW in \in Inputs, NEW i \in DOMAIN in.machine.transitions
    PROVE  /\ in.machine.transitions[i].from \in Seq(Char)
           /\ in.machine.transitions[i].to \in Seq(Char)
           /\ in.machine.transitions[i].label /= NoLabel =>
                in.machine.transitions[i].label \in Seq(Char)
<1> DEFINE T == [from : Seq(Char), to : Seq(Char), label : {NoLabel} \cup Seq(Char)]
<1>1. in.machine.transitions \in Seq(T)
  BY InputsAssumption
<1>2. in.machine.transitions[i] \in T
  <2> HIDE DEF T
  <2>. QED  BY <1>1, ElementOfSeq, LenProperties
<1>. QED  BY <1>2

LEMMA PropertyType ==
    ASSUME NEW in \in Inputs, NEW i \in DOMAIN in.properties
    PROVE  /\ in.properties[i].name \in Seq(Char) /\ in.properties[i].name /= << >>
           /\ in.properties[i].kind \in Kind
<1> DEFINE P == [name : Seq(Char) \ {<< >>}, kind : Kind]
<1>1. in.properties \in Seq(P)
  BY InputsAssumption
<1>2. in.properties[i] \in P
  <2> HIDE DEF P
  <2>. QED  BY <1>1, ElementOfSeq, LenProperties
<1>. QED  BY <1>2

LEMMA OneIsSeq ==
    ASSUME NEW S, NEW x \in S
    PROVE  <<x>> \in Seq(S) /\ Len(<<x>>) = 1 /\ <<x>>[1] = x
OBVIOUS

\* Concatenation, in the forms needed below.
LEMMA ConcatIsAssociative ==
    \A S : \A x, y, z \in Seq(S) : (x \o y) \o z = x \o (y \o z) /\ x \o y \in Seq(S)
<1> TAKE S
<1> TAKE x \in Seq(S)
<1> TAKE y \in Seq(S)
<1> TAKE z \in Seq(S)
<1>1. (x \o y) \o z = x \o (y \o z)
  BY ConcatAssociative
<1>2. x \o y \in Seq(S)
  BY ConcatProperties
<1>. QED  BY <1>1, <1>2

LEMMA HeadOfConcat ==
    ASSUME NEW S, NEW s \in Seq(S), NEW t \in Seq(S), Len(s) = 1
    PROVE  (s \o t)[1] = s[1]
<1>1. Len(t) \in Nat
  BY LenProperties
<1>2. 1 \in 1 .. Len(s) + Len(t) /\ 1 <= Len(s)
  BY <1>1
<1>. QED  BY <1>2, ConcatProperties

LEMMA WordType ==
    ASSUME NEW w \in Fixed \cup {"_"}
    PROVE  <<w>> \in Seq(Char) /\ Len(<<w>>) = 1 /\ <<w>>[1] = w
<1>1. w \in Char
  BY ArtifactsAssumption DEF Char
<1>. QED  BY <1>1, OneIsSeq, Zenon

LEMMA TransName ==
    ASSUME NEW f \in Seq(Char), NEW g \in Seq(Char)
    PROVE  /\ <<"Trans_">> \o f \o <<"_">> \o g = <<"Trans_">> \o (f \o <<"_">> \o g)
           /\ f \o <<"_">> \o g \in Seq(Char)
           /\ (<<"Trans_">> \o f \o <<"_">> \o g)[1] = "Trans_"
<1>1. /\ <<"Trans_">> \in Seq(Char) /\ <<"_">> \in Seq(Char)
      /\ Len(<<"Trans_">>) = 1 /\ <<"Trans_">>[1] = "Trans_"
  BY WordType DEF Fixed
<1>2. ASSUME NEW w \in Seq(Char), NEW v \in Seq(Char), Len(w) = 1, w[1] = "Trans_"
      PROVE  /\ w \o f \o v \o g = w \o (f \o v \o g)
             /\ f \o v \o g \in Seq(Char)
             /\ (w \o f \o v \o g)[1] = "Trans_"
  <2>1. f \o v \in Seq(Char) /\ (w \o f) \o v = w \o (f \o v)
    BY ConcatIsAssociative
  <2>2. ASSUME NEW e \in Seq(Char)
        PROVE  (w \o e) \o g = w \o (e \o g) /\ e \o g \in Seq(Char) /\ (w \o e)[1] = "Trans_"
    <3>1. (w \o e) \o g = w \o (e \o g) /\ e \o g \in Seq(Char)
      BY ConcatIsAssociative
    <3>2. (w \o e)[1] = "Trans_"
      BY <1>2, HeadOfConcat
    <3>. QED  BY <3>1, <3>2
  <2>3. /\ (w \o (f \o v)) \o g = w \o ((f \o v) \o g)
        /\ (f \o v) \o g \in Seq(Char)
    BY <2>1, <2>2, Zenon
  <2>4. (w \o ((f \o v) \o g))[1] = "Trans_"
    BY <2>2, <2>3, Zenon
  <2>. QED  BY <2>1, <2>3, <2>4, Zenon
<1>. QED  BY <1>1, <1>2, Zenon

------------------------------------------------------------------------------
(* Names: cleaning, and which names the generator makes up.                  *)
LEMMA CleanFacts ==
    ASSUME NEW n \in Seq(Char)
    PROVE  /\ Clean(n) \in Seq(Char) /\ Clean(Clean(n)) = Clean(n)
           /\ n /= << >> => 1 \in DOMAIN n
           /\ n /= << >> /\ n[1] \in Letter => Clean(n)[1] = n[1] /\ Clean(n) /= << >>
           /\ IsIdentifier(n) => Clean(n) = n
<1>1. DOMAIN n = 1 .. Len(n) /\ Len(n) \in Nat /\ \A i \in DOMAIN n : n[i] \in Char
  BY LenProperties, ElementOfSeq
<1>2. "_" \in Char /\ "_" \notin Other /\ Letter \cap Other = {}
  BY ArtifactsAssumption DEF Char
<1>3. Clean(n) \in [1 .. Len(n) -> Char]
  BY <1>1, <1>2 DEF Clean
<1>4. Clean(n) \in Seq(Char)
  BY <1>1, <1>3, SeqDef
<1>5. /\ DOMAIN Clean(n) = DOMAIN n /\ DOMAIN Clean(Clean(n)) = DOMAIN n
      /\ \A i \in DOMAIN n : Clean(n)[i] = IF n[i] \in Other THEN "_" ELSE n[i]
      /\ \A i \in DOMAIN n : Clean(Clean(n))[i] = IF Clean(n)[i] \in Other THEN "_" ELSE Clean(n)[i]
  BY DEF Clean
<1>6. Clean(Clean(n)) = Clean(n)
  <2>1. \A i \in DOMAIN n : Clean(Clean(n))[i] = Clean(n)[i]
    BY <1>2, <1>5
  <2>2. Clean(Clean(n)) = [i \in DOMAIN n |-> Clean(Clean(n))[i]]
    BY DEF Clean
  <2>3. Clean(n) = [i \in DOMAIN n |-> Clean(n)[i]]
    BY DEF Clean
  <2>. QED  BY <2>1, <2>2, <2>3
<1>7. n /= << >> => 1 \in DOMAIN n
  BY <1>1, EmptySeq
<1>8. ASSUME n /= << >>, n[1] \in Letter PROVE Clean(n)[1] = n[1] /\ Clean(n) /= << >>
  <2>1. Clean(n)[1] = n[1]
    BY <1>2, <1>5, <1>7, <1>8
  <2>2. DOMAIN << >> = {}
    OBVIOUS
  <2>. QED  BY <1>5, <1>7, <1>8, <2>1, <2>2
<1>9. ASSUME IsIdentifier(n) PROVE Clean(n) = n
  <2>1. \A i \in DOMAIN n : Clean(n)[i] = n[i]
    BY <1>5, <1>9 DEF IsIdentifier
  <2>2. n = [i \in DOMAIN n |-> n[i]]
    BY <1>1, LenProperties
  <2>. QED  BY <2>1, <2>2 DEF Clean
<1>. QED  BY <1>4, <1>6, <1>7, <1>8, <1>9

\* The three sanitizers agree on names that begin with a letter.
LEMMA LetterFirst ==
    ASSUME NEW n, n /= << >>, n[1] \in Letter
    PROVE  /\ sanitize_identifier(n) = Clean(n) /\ sanitize_cfg_name(n) = Clean(n)
           /\ sanitize_pcal_identifier(n) = Clean(n)
BY DEF sanitize_identifier, sanitize_cfg_name, sanitize_pcal_identifier

\* Whose name an item has: the user's, or one the generator makes up.
ByUser(in, k, i) ==
    \/ k = 2
    \/ k = 3 /\ i /= 1
    \/ k = 6 /\ in.machine.transitions[i].label /= NoLabel
    \/ k = 10
Bearer(k, i) ==
    CASE k = 2 -> <<"state", i>>
      [] k = 3 -> <<"variable", i - 1>>
      [] k = 6 -> <<"transition", i>>
      [] k = 10 -> <<"property", i>>
Word(k, i) ==
    CASE k = 3 -> "state"
      [] k = 4 -> "TypeInvariant"
      [] k = 5 -> "Init"
      [] k = 6 -> "Trans_"
      [] k = 7 -> "Next"
      [] k = 8 -> "vars"
      [] k = 9 -> IF i = 1 THEN "Spec" ELSE "FairSpec"

\* The first variable is the machine's state, the others are the user's.
LEMMA VariablesAre ==
    ASSUME NEW in \in Inputs, NEW i \in DOMAIN Variables(in), i /= 1
    PROVE  i - 1 \in DOMAIN in.machine.variables /\ Variables(in)[i] = in.machine.variables[i - 1]
<1>1. in.machine.variables \in Seq(Seq(Char))
  BY InputsAssumption
<1>2. <<<<"state">>>> \in Seq(Seq(Char)) /\ Len(<<<<"state">>>>) = 1
  <2>1. <<"state">> \in Seq(Char)
    BY WordType DEF Fixed
  <2>. QED  BY <2>1
<1>3. /\ Len(Variables(in)) = 1 + Len(in.machine.variables)
      /\ Variables(in) \in Seq(Seq(Char))
      /\ \A j \in 1 .. 1 + Len(in.machine.variables) :
           Variables(in)[j] = IF j <= 1 THEN <<<<"state">>>>[j] ELSE in.machine.variables[j - 1]
  BY <1>1, <1>2, ConcatProperties DEF Variables
<1>4. i \in 1 .. 1 + Len(in.machine.variables) /\ Len(in.machine.variables) \in Nat
      /\ DOMAIN in.machine.variables = 1 .. Len(in.machine.variables)
  BY <1>1, <1>3, LenProperties
<1>5. i \in 1 .. 1 + Len(in.machine.variables) /\ ~(i <= 1) /\ i - 1 \in 1 .. Len(in.machine.variables)
  BY <1>4
<1>. QED  BY <1>3, <1>4, <1>5

\* If the names are apart, no user's name begins with a word of the generator.
LEMMA UserNamesAre ==
    ASSUME NEW in \in Inputs, Apart(in), NEW k \in 1 .. 10, NEW i \in DOMAIN Items(in, k),
           ByUser(in, k, i)
    PROVE  /\ Bearer(k, i) \in Bearers(in)
           /\ Clean(Items(in, k)[i].name) = Clean(NameOf(in, Bearer(k, i)))
           /\ Items(in, k)[i].name[1] \notin Fixed
           /\ Items(in, k)[i].name \notin Library
           /\ k \in {6, 10} => Items(in, k)[i].name = Clean(NameOf(in, Bearer(k, i)))
<1> DEFINE b == Bearer(k, i)
           n == NameOf(in, b)
           m == Items(in, k)[i].name
<1>0. /\ in.machine.states \in Seq(Seq(Char)) /\ in.machine.variables \in Seq(Seq(Char))
      /\ \A x \in Names(in.machine.states) \cup Names(in.machine.variables) : IsIdentifier(x)
  BY InputsAssumption
<1>a. ASSUME b \in Bearers(in)
      PROVE  n /= << >> /\ n[1] \in Letter \ Fixed /\ Clean(n) \notin Library
  BY <1>a DEF Apart
<1>i. k \in {2, 3, 6, 10}
  BY DEF ByUser
\* A name that is an identifier already is kept.
<1>k. ASSUME b \in Bearers(in), n \in Seq(Char), IsIdentifier(n), m = n
      PROVE  Clean(m) = Clean(n) /\ m[1] \notin Fixed /\ m \notin Library
  BY <1>a, <1>k, CleanFacts
\* Another is cleaned.
<1>c. ASSUME b \in Bearers(in), n \in Seq(Char), m = sanitize_identifier(n)
      PROVE  Clean(m) = Clean(n) /\ m[1] \notin Fixed /\ m \notin Library /\ m = Clean(n)
  <2>1. n /= << >> /\ n[1] \in Letter \ Fixed /\ Clean(n) \notin Library
    BY <1>a, <1>c
  <2>2. m = Clean(n)
    BY <1>c, <2>1, LetterFirst
  <2>3. Clean(n)[1] = n[1] /\ Clean(Clean(n)) = Clean(n)
    BY <1>c, <2>1, CleanFacts
  <2>. QED  BY <2>1, <2>2, <2>3
<1>1. CASE k = 2
  <2>1. i \in DOMAIN in.machine.states /\ m = in.machine.states[i]
    BY <1>1, ConstantItems DEF Item
  <2>2. b = <<"state", i>> /\ b \in Bearers(in) /\ n = in.machine.states[i]
    BY <1>1, <2>1 DEF Bearer, Bearers, NameOf
  <2>3. n \in Seq(Char) /\ IsIdentifier(n)
    BY <1>0, <2>1, <2>2, ElementOfSeq, LenProperties DEF Names
  <2>. QED  BY <1>1, <1>k, <2>1, <2>2, <2>3
<1>2. CASE k = 3
  <2>0. i /= 1
    BY <1>2 DEF ByUser
  <2>1. /\ i \in DOMAIN Variables(in) /\ m = Variables(in)[i]
    BY <1>2, VariableItems DEF Item
  <2>2. i - 1 \in DOMAIN in.machine.variables /\ m = in.machine.variables[i - 1]
    BY <2>0, <2>1, VariablesAre
  <2>3. b = <<"variable", i - 1>> /\ b \in Bearers(in) /\ n = in.machine.variables[i - 1]
    BY <1>2, <2>2 DEF Bearer, Bearers, NameOf
  <2>4. n \in Seq(Char) /\ IsIdentifier(n)
    BY <1>0, <2>2, <2>3, ElementOfSeq, LenProperties DEF Names
  <2>. QED  BY <1>2, <1>k, <2>2, <2>3, <2>4
<1>3. CASE k = 6
  <2> DEFINE t == in.machine.transitions[i]
  <2>1. /\ i \in DOMAIN in.machine.transitions /\ m = ActionName(t) /\ t.label /= NoLabel
    BY <1>3, TransitionItems DEF Item, ByUser
  <2>2. b = <<"transition", i>> /\ b \in Bearers(in) /\ n = t.label
    BY <1>3, <2>1 DEF Bearer, Bearers, NameOf
  <2>4. n \in Seq(Char) /\ m = sanitize_identifier(n)
    BY <2>1, <2>2, TransitionType DEF ActionName
  <2>. QED  BY <1>c, <2>2, <2>4
<1>4. CASE k = 10
  <2>1. i \in DOMAIN in.properties /\ m = sanitize_identifier(in.properties[i].name)
    BY <1>4, PropertyItems
  <2>2. b = <<"property", i>> /\ b \in Bearers(in) /\ n = in.properties[i].name
    BY <1>4, <2>1 DEF Bearer, Bearers, NameOf
  <2>. QED  BY <1>c, <2>1, <2>2, PropertyType
<1>. QED  BY <1>i, <1>1, <1>2, <1>3, <1>4

\* And every name the generator makes up does.
LEMMA MadeUpNames ==
    ASSUME NEW in \in Inputs, NEW k \in 1 .. 10, NEW i \in DOMAIN Items(in, k),
           ~ByUser(in, k, i)
    PROVE  /\ k \in {3, 4, 5, 6, 7, 8, 9}
           /\ Items(in, k)[i].name[1] = Word(k, i) /\ Word(k, i) \in Fixed
           /\ Items(in, k)[i].name \notin Library
           /\ k \in {3, 4, 5, 7, 8} => i = 1
           /\ k = 9 => i \in {1, 2}
           /\ k = 6 => Items(in, 6)[i].name = <<"Trans_">> \o Ends(in.machine.transitions[i])
<1> DEFINE m == Items(in, k)[i].name
<1>1. k \in {3, 4, 5, 6, 7, 8, 9}
  <2>1. k /= 1
    BY NoItems
  <2>. QED  BY <2>1, TenSections DEF ByUser
<1>2. Word(k, i) \in Fixed
  BY <1>1 DEF Word, Fixed
<1>3. ASSUME m[1] = Word(k, i) PROVE m \notin Library
  BY <1>2, <1>3, ArtifactsAssumption
<1>4. CASE k = 3
  <2>1. i = 1 /\ m = Variables(in)[1]
    BY <1>4, VariableItems DEF ByUser, Item
  <2>2. m = <<"state">>
    BY <2>1, InputType
  <2>. QED  BY <1>2, <1>3, <1>4, <2>1, <2>2 DEF Word
<1>5. CASE k \in {4, 5, 7, 8}
  <2>1. i = 1
    BY <1>5, SingleItems
  <2>2. m = <<Word(k, 1)>>
    <3>1. /\ Items(in, 4)[1].name = <<Word(4, 1)>> /\ Items(in, 5)[1].name = <<Word(5, 1)>>
          /\ Items(in, 7)[1].name = <<Word(7, 1)>> /\ Items(in, 8)[1].name = <<Word(8, 1)>>
      <4>1. /\ Word(4, 1) = "TypeInvariant" /\ Word(5, 1) = "Init"
            /\ Word(7, 1) = "Next" /\ Word(8, 1) = "vars"
        BY DEF Word
      <4>. QED  BY <4>1, SingleItems
    <3>. QED  BY <1>5, <2>1, <3>1
  <2>. QED  BY <1>2, <1>3, <1>5, <2>1, <2>2 DEF Word
<1>6. CASE k = 9
  <2>1. i \in {1, 2}
    BY <1>6, SpecItems
  <2>2. m = <<Word(k, i)>>
    BY <1>6, <2>1, SpecItems DEF Word
  <2>. QED  BY <1>2, <1>3, <1>6, <2>1, <2>2
<1>7. CASE k = 6
  <2> DEFINE t == in.machine.transitions[i]
  <2>1. /\ i \in DOMAIN in.machine.transitions /\ m = ActionName(t) /\ t.label = NoLabel
    BY <1>7, TransitionItems DEF Item, ByUser
  <2>3. m = <<"Trans_">> \o t.from \o <<"_">> \o t.to
    BY <2>1 DEF ActionName
  <2>4. /\ <<"Trans_">> \in Seq(Char) /\ <<"_">> \in Seq(Char) /\ t.from \in Seq(Char) /\ t.to \in Seq(Char)
    BY <2>1, TransitionType, WordType DEF Fixed
  <2>6. m = <<"Trans_">> \o Ends(t)
    BY <2>3, <2>4, TransName, Zenon DEF Ends
  <2>7. m[1] = "Trans_"
    <3>1. (<<"Trans_">> \o t.from \o <<"_">> \o t.to)[1] = "Trans_"
      BY <2>4, TransName
    <3>. QED  BY <2>3, <3>1
  <2>. QED  BY <1>2, <1>3, <1>7, <2>6, <2>7 DEF Word
<1>. QED  BY <1>1, <1>2, <1>4, <1>5, <1>6, <1>7

\* No two items of the module have the same name.
LEMMA NamesAreApart ==
    ASSUME NEW in \in Inputs, Apart(in),
           NEW k \in 1 .. 10, NEW i \in DOMAIN Items(in, k),
           NEW l \in 1 .. 10, NEW j \in DOMAIN Items(in, l),
           Items(in, k)[i].name = Items(in, l)[j].name
    PROVE  k = l /\ i = j
<1> DEFINE m == Items(in, k)[i].name
<1>1. CASE ByUser(in, k, i) /\ ByUser(in, l, j)
  <2>1. Bearer(k, i) = Bearer(l, j)
    BY <1>1, UserNamesAre DEF Apart
  <2>2. k \in {2, 3, 6, 10} /\ l \in {2, 3, 6, 10}
    BY <1>1 DEF ByUser
  <2>3. k = l
    BY <2>1, <2>2 DEF Bearer
  <2>4. CASE k = 3
    <3>1. i - 1 = j - 1
      BY <2>1, <2>3, <2>4 DEF Bearer
    <3>2. i \in Nat /\ j \in Nat
      BY <2>3, <2>4, VariableItems
    <3>. QED  BY <2>3, <3>1, <3>2
  <2>5. CASE k /= 3
    BY <2>1, <2>2, <2>3, <2>5 DEF Bearer
  <2>. QED  BY <2>4, <2>5
<1>2. CASE ByUser(in, k, i) /\ ~ByUser(in, l, j)
  BY <1>2, UserNamesAre, MadeUpNames
<1>3. CASE ~ByUser(in, k, i) /\ ByUser(in, l, j)
  BY <1>3, UserNamesAre, MadeUpNames
<1>4. CASE ~ByUser(in, k, i) /\ ~ByUser(in, l, j)
  <2>1. /\ k \in {3, 4, 5, 6, 7, 8, 9} /\ l \in {3, 4, 5, 6, 7, 8, 9}
        /\ Word(k, i) = Word(l, j)
        /\ k \in {3, 4, 5, 7, 8} => i = 1
        /\ l \in {3, 4, 5, 7, 8} => j = 1
        /\ k = 9 => i \in {1, 2}
        /\ l = 9 => j \in {1, 2}
    BY <1>4, MadeUpNames
  <2>2. k = l
    BY <2>1 DEF Word
  <2>3. CASE k = 9
    <3>1. Word(9, 1) = "Spec" /\ Word(9, 2) = "FairSpec"
      BY DEF Word
    <3>. QED  BY <2>1, <2>2, <2>3, <3>1
  <2>4. CASE k = 6
    <3> DEFINE t == in.machine.transitions[i]
               u == in.machine.transitions[j]
    <3>1. /\ i \in DOMAIN in.machine.transitions /\ t.label = NoLabel
          /\ j \in DOMAIN in.machine.transitions /\ u.label = NoLabel
      BY <1>4, <2>2, <2>4, TransitionItems DEF ByUser
    <3>2. <<"Trans_">> \o Ends(t) = <<"Trans_">> \o Ends(u)
      <4>1. /\ Items(in, 6)[i].name = <<"Trans_">> \o Ends(t)
            /\ Items(in, 6)[j].name = <<"Trans_">> \o Ends(u)
        BY <1>4, <2>2, <2>4, MadeUpNames
      <4>. QED  BY <2>2, <2>4, <4>1
    <3>3. Ends(t) = Ends(u)
      <4>3. /\ <<"Trans_">> \in Seq(Char) /\ <<"_">> \in Seq(Char)
            /\ t.from \in Seq(Char) /\ t.to \in Seq(Char) /\ u.from \in Seq(Char) /\ u.to \in Seq(Char)
        BY <3>1, TransitionType, WordType DEF Fixed
      <4>4. Ends(t) \in Seq(Char) /\ Ends(u) \in Seq(Char)
        BY <4>3, ConcatProperties DEF Ends
      <4>5. \A a, b, c \in Seq(Char) : a \o b = a \o c => b = c
        BY ConcatSimplifications
      <4>. QED  BY <3>2, <4>3, <4>4, <4>5
    <3>4. i = j
      BY <3>1, <3>3 DEF Apart
    <3>. QED  BY <2>2, <3>4
  <2>. QED  BY <2>1, <2>2, <2>3, <2>4
<1>. QED  BY <1>1, <1>2, <1>3, <1>4

------------------------------------------------------------------------------
\* Where the writing is, and what is there by then: of the module, and of the
\* other files.
ModuleAt(in, k, t) ==
    /\ IsASequence(t) /\ Names(t) = Sections(in, k)
    /\ PropertiesOf(t) = IF k > 10 THEN PropertiesOf(Items(in, 10)) ELSE << >>
FilesAt(in, k, p, c, s) ==
    /\ p = IF k > 11 THEN generate_pluscal(in) ELSE << >>
    /\ c = IF k > 12 THEN generate_tlc_cfg(in) ELSE << >>
    /\ s = IF k > 13 THEN tlc_command(TlcConfig(in.tlc)) ELSE << >>
Stands(in, k) ==
    section = Place(k) /\ ModuleAt(in, k, text) /\ FilesAt(in, k, pcal, config, script)
WritingInv == input \in Inputs /\ (\E k \in 1 .. 14 : Stands(input, k)) /\ UnambiguousWhenApart

\* The steps take the places in their order, and no two places are one.
LEMMA Places ==
    /\ Place(1) = "header" /\ Place(2) = "constants" /\ Place(3) = "variables"
    /\ Place(4) = "type_invariant" /\ Place(5) = "init" /\ Place(6) = "transitions"
    /\ Place(7) = "next" /\ Place(8) = "vars" /\ Place(9) = "spec"
    /\ Place(10) = "properties" /\ Place(11) = "footer" /\ Place(12) = "configuration"
    /\ Place(13) = "script" /\ Place(14) = "done"
BY DEF Place, Order

LEMMA PlaceIsOne ==
    \A j, k \in 1 .. 14 : Place(j) = Place(k) => j = k
<1>1. \A k \in 1 .. 14 : k \in {1, 2, 3, 4, 5, 6, 7, 8, 9, 10, 11, 12, 13, 14}
  OBVIOUS
<1>. QED  BY <1>1, Places

\* A step writes the section at hand, or one of the three other files.
LEMMA WrittenStep ==
    ASSUME NEW k \in 1 .. 14, section = Place(k), Next
    PROVE  \/ /\ k \in 1 .. 10 /\ text' = text \o Items(input, k)
              /\ section' = Place(k + 1) /\ UNCHANGED <<input, pcal, config, script>>
           \/ k = 11 /\ PlusCal /\ section' = Place(12)
           \/ k = 12 /\ Configure /\ section' = Place(13)
           \/ k = 13 /\ RunScript /\ section' = Place(14)
<1> DEFINE W(j) == /\ text' = text \o Items(input, j)
                   /\ section' = Place(j + 1) /\ UNCHANGED <<input, pcal, config, script>>
<1>w. ASSUME NEW j \in 1 .. 10, Write(Place(j), Items(input, j)), Following(Place(j)) = Place(j + 1)
      PROVE  k = j /\ W(j)
  <2>1. j \in 1 .. 14 /\ section = Place(j)
    BY <1>w DEF Write
  <2>2. k = j
    BY <2>1, PlaceIsOne
  <2>. QED  BY <1>w, <2>2 DEF Write
<1>1. CASE Header
  BY <1>1, <1>w, Places, OrderIs DEF Header, Items
<1>2. CASE Constants
  BY <1>2, <1>w, Places, OrderIs DEF Constants, Items
<1>3. CASE VariablesDecl
  BY <1>3, <1>w, Places, OrderIs DEF VariablesDecl, Items
<1>4. CASE TypeInvariant
  BY <1>4, <1>w, Places, OrderIs DEF TypeInvariant, Items
<1>5. CASE InitPredicate
  <2>1. Write(Place(5), Items(input, 5)) /\ Following(Place(5)) = Place(5 + 1)
    BY <1>5, Places, OrderIs DEF InitPredicate, Items
  <2>. QED  BY <1>w, <2>1
<1>6. CASE Transitions
  BY <1>6, <1>w, Places, OrderIs DEF Transitions, Items
<1>7. CASE NextRelation
  BY <1>7, <1>w, Places, OrderIs DEF NextRelation, Items
<1>8. CASE VarsTuple
  BY <1>8, <1>w, Places, OrderIs DEF VarsTuple, Items
<1>9. CASE Specification
  BY <1>9, <1>w, Places, OrderIs DEF Specification, Items
<1>10. CASE Properties
  BY <1>10, <1>w, Places, OrderIs DEF Properties, Items
<1>11. CASE PlusCal
  <2>1. section = Place(11) /\ section' = Place(12)
    BY <1>11, Places, OrderIs DEF PlusCal
  <2>2. k = 11
    <3>1. 11 \in 1 .. 14 /\ Place(k) = Place(11)
      BY <2>1
    <3>. QED  BY <3>1, PlaceIsOne, Zenon
  <2>. QED  BY <1>11, <2>1, <2>2
<1>12. CASE Configure
  <2>1. section = Place(12) /\ section' = Place(13)
    BY <1>12, Places, OrderIs DEF Configure
  <2>2. k = 12
    <3>1. 12 \in 1 .. 14 /\ Place(k) = Place(12)
      BY <2>1
    <3>. QED  BY <3>1, PlaceIsOne, Zenon
  <2>. QED  BY <1>12, <2>1, <2>2
<1>13. CASE RunScript
  <2>1. section = Place(13) /\ section' = Place(14)
    BY <1>13, Places DEF RunScript
  <2>2. k = 13
    <3>1. 13 \in 1 .. 14 /\ Place(k) = Place(13)
      BY <2>1
    <3>. QED  BY <3>1, PlaceIsOne, Zenon
  <2>. QED  BY <1>13, <2>1, <2>2
<1>. QED  BY <1>1, <1>2, <1>3, <1>4, <1>5, <1>6, <1>7, <1>8, <1>9, <1>10, <1>11, <1>12, <1>13 DEF Next

\* An item of the module is one of a section written by then, and conversely.
LEMMA SectionsAre ==
    ASSUME NEW in, NEW k, NEW x
    PROVE  x \in Sections(in, k) <=>
             \E l \in 1 .. 10 : l < k /\ \E i \in DOMAIN Items(in, l) : x = Items(in, l)[i]
BY DEF Sections, Names

LEMMA OneMore ==
    ASSUME NEW in, NEW k \in 1 .. 10
    PROVE  Sections(in, k + 1) = Sections(in, k) \cup Names(Items(in, k))
<1>1. \A l \in 1 .. 10 : l < k + 1 <=> l < k \/ l = k
  OBVIOUS
<1>. QED  BY <1>1 DEF Sections

\* Behind the last section the module stays as it is.
LEMMA NoMore ==
    ASSUME NEW in, NEW k \in 11 .. 13
    PROVE  Sections(in, k + 1) = Sections(in, k)
<1>1. \A l \in 1 .. 10 : l < k + 1 <=> l < k
  OBVIOUS
<1>. QED  BY <1>1 DEF Sections

LEMMA ModuleStays ==
    ASSUME NEW in, NEW k \in 11 .. 13, NEW t, ModuleAt(in, k, t)
    PROVE  ModuleAt(in, k + 1, t)
<1>1. k > 10 /\ k + 1 > 10
  OBVIOUS
<1>. QED  BY <1>1, NoMore DEF ModuleAt

\* What is not a temporal formula of its own is no property.
LEMMA NoProperties ==
    ASSUME NEW t, IsASequence(t),
           \A d \in Names(t) : d.level /= "temporal" \/ d.name \in {<<"Spec">>, <<"FairSpec">>}
    PROVE  PropertiesOf(t) = << >>
<1> DEFINE S == {d \in Names(t) : d.level = "temporal" /\ d.name \notin {<<"Spec">>, <<"FairSpec">>}}
<1>1. S = {}
  OBVIOUS
<1>2. Only(t, S) \in Seq(Names(t)) /\ Names(Only(t, S)) = {}
  BY <1>1, OnlyNames DEF IsASequence
<1>3. \A r \in Seq(Names(t)) : Names(r) = {} => r = << >>
  <2> TAKE r \in Seq(Names(t))
  <2>1. Len(r) \in Nat /\ DOMAIN r = 1 .. Len(r)
    BY LenProperties
  <2>2. ASSUME r /= << >> PROVE Names(r) /= {}
    <3>1. Len(r) /= 0
      BY <2>2, EmptySeq
    <3>2. 1 \in DOMAIN r
      BY <2>1, <3>1
    <3>. QED  BY <3>2 DEF Names
  <2>. QED  BY <2>2
<1>. QED  BY <1>2, <1>3 DEF PropertiesOf

\* The properties of a whole are those of its parts.
LEMMA PropertiesConcat ==
    ASSUME NEW s, NEW t, IsASequence(s), IsASequence(t)
    PROVE  PropertiesOf(s \o t) = PropertiesOf(s) \o PropertiesOf(t)
<1> DEFINE E == Names(s) \cup Names(t)
           P(d) == d.level = "temporal" /\ d.name \notin {<<"Spec">>, <<"FairSpec">>}
           S == {d \in E : P(d)}
<1>1. s \in Seq(E) /\ t \in Seq(E)
  BY SeqDef DEF IsASequence
<1>2. Names(s \o t) = E /\ s \o t \in Seq(E)
  BY <1>1, NamesConcat, ConcatProperties
<1>3. /\ PropertiesOf(s \o t) = Only(s \o t, {d \in Names(s \o t) : P(d)})
      /\ PropertiesOf(s) = Only(s, {d \in Names(s) : P(d)})
      /\ PropertiesOf(t) = Only(t, {d \in Names(t) : P(d)})
  BY DEF PropertiesOf
<1> HIDE DEF P
<1>4. PropertiesOf(s \o t) = Only(s \o t, S)
  BY <1>2, <1>3
<1>5. PropertiesOf(s) = Only(s, S)
  <2>1. Names(s) \cap {d \in Names(s) : P(d)} = Names(s) \cap S
    OBVIOUS
  <2> DEFINE R == {d \in Names(s) : P(d)}
  <2> HIDE DEF R, S
  <2>. QED  BY <1>1, <1>3, <2>1, OnlySame DEF R
<1>6. PropertiesOf(t) = Only(t, S)
  <2>1. Names(t) \cap {d \in Names(t) : P(d)} = Names(t) \cap S
    OBVIOUS
  <2> DEFINE R == {d \in Names(t) : P(d)}
  <2> HIDE DEF R, S
  <2>. QED  BY <1>1, <1>3, <2>1, OnlySame DEF R
<1>7. Only(s \o t, S) = Only(s, S) \o Only(t, S)
  <2> HIDE DEF S, E
  <2>. QED  BY <1>1, OnlyConcat
<1>. QED  BY <1>4, <1>5, <1>6, <1>7

\* The properties are all in the last section.
LEMMA NotProperties ==
    ASSUME NEW in \in Inputs, NEW k \in 1 .. 9
    PROVE  PropertiesOf(Items(in, k)) = << >>
<1>1. IsASequence(Items(in, k))
  BY ItemsAreRows
<1>2. \A i \in DOMAIN Items(in, k) : \/ Items(in, k)[i].level /= "temporal"
                                     \/ Items(in, k)[i].name \in {<<"Spec">>, <<"FairSpec">>}
  <2>1. CASE k = 1
    BY <2>1, NoItems
  <2>2. CASE k = 2
    BY <2>2, ConstantItems DEF Item
  <2>3. CASE k = 3
    BY <2>3, VariableItems DEF Item
  <2>4. CASE k \in {4, 5, 7, 8}
    BY <2>4, SingleItems
  <2>5. CASE k = 6
    BY <2>5, TransitionItems DEF Item
  <2>6. CASE k = 9
    BY <2>6, SpecItems
  <2>. QED  BY <2>1, <2>2, <2>3, <2>4, <2>5, <2>6
<1>3. \A d \in Names(Items(in, k)) : d.level /= "temporal" \/ d.name \in {<<"Spec">>, <<"FairSpec">>}
  BY <1>2 DEF Names
<1>. QED  BY <1>1, <1>3, NoProperties

\* No item has the name of a library operator.
LEMMA NotTaken ==
    ASSUME NEW in \in Inputs, Apart(in), NEW k \in 1 .. 10, NEW i \in DOMAIN Items(in, k)
    PROVE  Items(in, k)[i].name \notin Library
<1>1. CASE ByUser(in, k, i)
  BY <1>1, UserNamesAre
<1>2. CASE ~ByUser(in, k, i)
  BY <1>2, MadeUpNames
<1>. QED  BY <1>1, <1>2

\* One section more, and still no name is there twice.
LEMMA StillUnambiguous ==
    ASSUME NEW k \in 1 .. 10, input \in Inputs, Apart(input), Unambiguous, IsASequence(text),
           Names(text) = Sections(input, k), text' = text \o Items(input, k)
    PROVE  Unambiguous'
<1> DEFINE items == Items(input, k)
           S == Names(text) \cup Names(items)
           m == Len(text)
           l == Len(items)
<1>0. IsASequence(items)
  BY ItemsAreRows
<1>1. text \in Seq(S) /\ items \in Seq(S)
  BY <1>0, SeqDef DEF IsASequence
<1>2. /\ m \in Nat /\ l \in Nat /\ DOMAIN text = 1 .. m /\ DOMAIN items = 1 .. l
      /\ DOMAIN text' = 1 .. m + l
      /\ \A i \in 1 .. m + l : text'[i] = IF i <= m THEN text[i] ELSE items[i - m]
  BY <1>1, LenProperties, ConcatProperties
\* Where an item of the new text comes from.
<1>3. ASSUME NEW i \in 1 .. m
      PROVE  /\ i \in DOMAIN text /\ text'[i] = text[i]
             /\ \E n \in 1 .. 10 : n < k /\ \E q \in DOMAIN Items(input, n) : text'[i] = Items(input, n)[q]
  <2>1. i \in DOMAIN text /\ text'[i] = text[i]
    BY <1>2
  <2>2. text[i] \in Sections(input, k)
    BY <2>1 DEF Names
  <2>. QED  BY <2>1, <2>2, SectionsAre
<1>4. ASSUME NEW i \in 1 .. m + l, i \notin 1 .. m
      PROVE  i - m \in DOMAIN items /\ text'[i] = items[i - m]
  BY <1>2, <1>4
<1>5. ASSUME NEW i \in 1 .. m, NEW j \in 1 .. m + l, j \notin 1 .. m
      PROVE  text'[i].name /= text'[j].name
  <2>0. PICK n \in 1 .. 10 : n < k /\ \E q \in DOMAIN Items(input, n) : text'[i] = Items(input, n)[q]
    BY <1>3
  <2>1. PICK q \in DOMAIN Items(input, n) : text'[i] = Items(input, n)[q]
    BY <2>0
  <2>2. j - m \in DOMAIN Items(input, k) /\ text'[j] = Items(input, k)[j - m]
    BY <1>4, <1>5
  <2>3. n /= k
    BY <2>0
  <2>4. ASSUME NEW r \in DOMAIN Items(input, k), Items(input, n)[q].name = Items(input, k)[r].name
        PROVE  FALSE
    BY <2>3, <2>4, NamesAreApart
  <2>. QED  BY <2>1, <2>2, <2>4
<1>6. ASSUME NEW i \in DOMAIN text', NEW j \in DOMAIN text', text'[i].name = text'[j].name
      PROVE  i = j
  <2>1. i \in 1 .. m + l /\ j \in 1 .. m + l
    BY <1>2
  <2>2. CASE i \in 1 .. m /\ j \in 1 .. m
    <3>1. /\ i \in DOMAIN text /\ j \in DOMAIN text /\ text[i].name = text[j].name
      BY <1>3, <1>6, <2>2
    <3>. QED  BY <3>1 DEF Unambiguous, Distinct
  <2>3. CASE i \in 1 .. m /\ j \notin 1 .. m
    BY <1>5, <1>6, <2>1, <2>3
  <2>4. CASE i \notin 1 .. m /\ j \in 1 .. m
    BY <1>5, <1>6, <2>1, <2>4
  <2>5. CASE i \notin 1 .. m /\ j \notin 1 .. m
    <3>1. /\ i - m \in DOMAIN items /\ text'[i] = items[i - m]
          /\ j - m \in DOMAIN items /\ text'[j] = items[j - m]
      BY <1>4, <2>1, <2>5
    <3>2. i - m = j - m
      BY <1>6, <3>1, NamesAreApart
    <3>. QED  BY <1>2, <2>1, <3>2
  <2>. QED  BY <2>2, <2>3, <2>4, <2>5
<1>7. ASSUME NEW i \in DOMAIN text' PROVE text'[i].name \notin Library
  <2>1. CASE i \in 1 .. m
    BY <1>3, <2>1 DEF Unambiguous
  <2>2. CASE i \notin 1 .. m
    <3>1. i - m \in DOMAIN items /\ text'[i] = items[i - m]
      BY <1>2, <1>4, <2>2
    <3>. QED  BY <3>1, NotTaken
  <2>. QED  BY <2>1, <2>2
<1>. QED  BY <1>6, <1>7 DEF Unambiguous, Distinct

\* The rest of what is known of the text.
LEMMA TextGrows ==
    ASSUME NEW k \in 1 .. 10, input \in Inputs, IsASequence(text),
           Names(text) = Sections(input, k), text' = text \o Items(input, k)
    PROVE  /\ IsASequence(text') /\ Names(text') = Sections(input, k + 1)
           /\ PropertiesOf(text') = PropertiesOf(text) \o PropertiesOf(Items(input, k))
<1> DEFINE items == Items(input, k)
           S == Names(text) \cup Names(items)
<1>0. IsASequence(items)
  BY ItemsAreRows
<1>1. text \in Seq(S) /\ items \in Seq(S)
  BY <1>0, SeqDef DEF IsASequence
<1>2. Names(text') = S /\ text' \in Seq(S)
  BY <1>1, NamesConcat, ConcatProperties
<1>3. PropertiesOf(text') = PropertiesOf(text) \o PropertiesOf(Items(input, k))
  BY <1>0, PropertiesConcat
<1>. QED  BY <1>2, <1>3, OneMore DEF IsASequence

LEMMA InitWriting == Init => WritingInv
<1> SUFFICES ASSUME Init PROVE WritingInv
  OBVIOUS
<1>1. /\ input \in Inputs /\ section = "header" /\ text = << >> /\ pcal = << >>
      /\ config = << >> /\ script = << >>
  BY DEF Init
<1>2. Names(<< >>) = {} /\ IsASequence(<< >>)
  BY DEF Names, IsASequence
<1>3. Sections(input, 1) = {}
  <2>1. {i \in 1 .. 10 : i < 1} = {}
    OBVIOUS
  <2>. QED  BY <2>1 DEF Sections
<1>4. PropertiesOf(<< >>) = << >>
  BY <1>2, NoProperties
<1>5. Stands(input, 1)
  <2>1. ModuleAt(input, 1, << >>)
    <3>1. ~(1 > 10)
      OBVIOUS
    <3>. QED  BY <1>2, <1>3, <1>4, <3>1, Zenon DEF ModuleAt
  <2>2. FilesAt(input, 1, << >>, << >>, << >>)
    BY DEF FilesAt
  <2>. QED  BY <1>1, <2>1, <2>2, Places DEF Stands
<1>6. Unambiguous
  BY <1>1 DEF Unambiguous, Distinct
<1>. QED  BY <1>1, <1>5, <1>6 DEF WritingInv, UnambiguousWhenApart

LEMMA StepWriting == WritingInv /\ [Next]_avars => WritingInv'
<1> SUFFICES ASSUME WritingInv, [Next]_avars PROVE WritingInv'
  OBVIOUS
<1>0. input \in Inputs /\ (Apart(input) => Unambiguous)
  BY DEF WritingInv, UnambiguousWhenApart
<1>1. PICK k \in 1 .. 14 : Stands(input, k)
  BY DEF WritingInv
<1>2. CASE UNCHANGED avars
  <2>1. Stands(input, k)'
    BY <1>1, <1>2 DEF Stands, avars
  <2>2. UnambiguousWhenApart'
    BY <1>0, <1>2 DEF avars, UnambiguousWhenApart, Unambiguous
  <2>. QED  BY <1>0, <1>2, <2>1, <2>2 DEF avars, WritingInv
<1>3. CASE Next
  <2>1. section = Place(k)
    BY <1>1 DEF Stands
  <2>2. CASE k \in 1 .. 10 /\ text' = text \o Items(input, k)
             /\ section' = Place(k + 1) /\ UNCHANGED <<input, pcal, config, script>>
    <3>1. /\ IsASequence(text') /\ Names(text') = Sections(input, k + 1)
          /\ PropertiesOf(text') = PropertiesOf(text) \o PropertiesOf(Items(input, k))
      BY <1>0, <1>1, <2>2, TextGrows DEF Stands, ModuleAt
    <3>2. PropertiesOf(text) = << >> /\ pcal = << >> /\ config = << >> /\ script = << >>
      BY <1>1, <2>2 DEF Stands, ModuleAt, FilesAt
    <3>3. PropertiesOf(text') = IF k + 1 > 10 THEN PropertiesOf(Items(input, 10)) ELSE << >>
      <4>1. CASE k \in 1 .. 9
        <5>1. PropertiesOf(Items(input, k)) = << >> /\ ~(k + 1 > 10)
          BY <1>0, <4>1, NotProperties
        <5>2. << >> \o << >> = << >>
          OBVIOUS
        <5>. QED  BY <3>1, <3>2, <5>1, <5>2
      <4>2. CASE k = 10
        <5>1. IsASequence(Items(input, 10))
          BY <1>0, ItemsAreRows
        <5>2. PropertiesOf(Items(input, 10)) \in Seq(Names(Items(input, 10)))
          BY <5>1, OnlyNames DEF IsASequence, PropertiesOf
        <5>3. \A S : \A r \in Seq(S) : << >> \o r = r
          BY ConcatEmptySeq
        <5>4. << >> \o PropertiesOf(Items(input, 10)) = PropertiesOf(Items(input, 10))
          BY <5>2, <5>3
        <5>. QED  BY <3>1, <3>2, <4>2, <5>4
      <4>. QED  BY <2>2, <4>1, <4>2
    <3>4. Stands(input, k + 1)'
      <4>1. ~(k + 1 > 11) /\ ~(k + 1 > 12) /\ ~(k + 1 > 13)
        BY <2>2
      <4>2. ModuleAt(input, k + 1, text')
        BY <3>1, <3>3 DEF ModuleAt
      <4>3. FilesAt(input, k + 1, << >>, << >>, << >>)
        BY <4>1 DEF FilesAt
      <4>. QED  BY <2>2, <3>2, <4>2, <4>3 DEF Stands
    <3>5. UnambiguousWhenApart'
      BY <1>0, <1>1, <2>2, StillUnambiguous DEF UnambiguousWhenApart, Stands, ModuleAt
    <3>6. k + 1 \in 1 .. 14
      BY <2>2
    <3>. QED  BY <1>0, <2>2, <3>4, <3>5, <3>6 DEF WritingInv
  <2>3. ASSUME UNCHANGED <<input, text>> PROVE UnambiguousWhenApart' /\ input' \in Inputs
    BY <1>0, <2>3 DEF UnambiguousWhenApart, Unambiguous
  <2>4. CASE k = 11 /\ PlusCal /\ section' = Place(12)
    <3>1. ModuleAt(input, 12, text)
      <4>1. 11 \in 11 .. 13 /\ 11 + 1 = 12 /\ ModuleAt(input, 11, text)
        BY <1>1, <2>4 DEF Stands
      <4>. QED  BY <4>1, ModuleStays
    <3>2. FilesAt(input, 12, generate_pluscal(input), config, script)
      BY <1>1, <2>4 DEF Stands, FilesAt
    <3>3. Stands(input, 12)'
      BY <2>4, <3>1, <3>2 DEF Stands, PlusCal
    <3>. QED  BY <2>3, <2>4, <3>3 DEF WritingInv, PlusCal
  <2>5. CASE k = 12 /\ Configure /\ section' = Place(13)
    <3>1. ModuleAt(input, 13, text)
      <4>1. 12 \in 11 .. 13 /\ 12 + 1 = 13 /\ ModuleAt(input, 12, text)
        BY <1>1, <2>5 DEF Stands
      <4>. QED  BY <4>1, ModuleStays
    <3>2. FilesAt(input, 13, pcal, generate_tlc_cfg(input), script)
      BY <1>1, <2>5 DEF Stands, FilesAt
    <3>3. Stands(input, 13)'
      BY <2>5, <3>1, <3>2 DEF Stands, Configure
    <3>. QED  BY <2>3, <2>5, <3>3 DEF WritingInv, Configure
  <2>6. CASE k = 13 /\ RunScript /\ section' = Place(14)
    <3>1. ModuleAt(input, 14, text)
      <4>1. 13 \in 11 .. 13 /\ 13 + 1 = 14 /\ ModuleAt(input, 13, text)
        BY <1>1, <2>6 DEF Stands
      <4>. QED  BY <4>1, ModuleStays
    <3>2. FilesAt(input, 14, pcal, config, tlc_command(TlcConfig(input.tlc)))
      BY <1>1, <2>6 DEF Stands, FilesAt
    <3>3. Stands(input, 14)'
      BY <2>6, <3>1, <3>2 DEF Stands, RunScript
    <3>. QED  BY <2>3, <2>6, <3>3 DEF WritingInv, RunScript
  <2>. QED  BY <1>3, <2>1, <2>2, <2>4, <2>5, <2>6, WrittenStep
<1>. QED  BY <1>2, <1>3

\* If the names of a manifest are apart, no identifier of the generated module
\* is introduced twice or taken from a library module, at any point of the
\* writing: the names the sections make up, Trans_<from>_<to> among them, meet
\* neither each other nor the user's.
THEOREM NamesAreUnique == Spec => []UnambiguousWhenApart
<1>1. WritingInv => UnambiguousWhenApart
  BY DEF WritingInv
<1>. QED  BY <1>1, InitWriting, StepWriting, PTL DEF Spec

\* An item and its name determine each other, in the module and in the sections.
LEMMA ItemOfSection ==
    ASSUME NEW k \in 1 .. 14, Names(text) = Sections(input, k)
    PROVE  /\ \A j \in DOMAIN text : \E l \in 1 .. 10 :
                \E i \in DOMAIN Items(input, l) : text[j] = Items(input, l)[i]
           /\ k > 10 => \A l \in 1 .. 10 : \A i \in DOMAIN Items(input, l) :
                \E j \in DOMAIN text : text[j] = Items(input, l)[i]
<1>1. ASSUME NEW j \in DOMAIN text
      PROVE  \E l \in 1 .. 10 : \E i \in DOMAIN Items(input, l) : text[j] = Items(input, l)[i]
  <2>1. text[j] \in Sections(input, k)
    BY DEF Names
  <2>. QED  BY <2>1, SectionsAre
<1>2. ASSUME k > 10, NEW l \in 1 .. 10, NEW i \in DOMAIN Items(input, l)
      PROVE  \E j \in DOMAIN text : text[j] = Items(input, l)[i]
  <2>1. l < k
    BY <1>2
  <2>2. Items(input, l)[i] \in Names(text)
    BY <1>2, <2>1, SectionsAre
  <2>. QED  BY <2>2 DEF Names
<1>. QED  BY <1>1, <1>2

\* If the names are apart, the name alone tells which item it is.
LEMMA SameName ==
    ASSUME NEW k \in 1 .. 14, Names(text) = Sections(input, k), input \in Inputs, Apart(input),
           NEW l \in 1 .. 10, NEW i \in DOMAIN Items(input, l),
           NEW j \in DOMAIN text, text[j].name = Items(input, l)[i].name
    PROVE  text[j] = Items(input, l)[i]
<1>1. PICK m \in 1 .. 10 : \E q \in DOMAIN Items(input, m) : text[j] = Items(input, m)[q]
  BY ItemOfSection
<1>2. PICK q \in DOMAIN Items(input, m) : text[j] = Items(input, m)[q]
  BY <1>1
<1>3. Items(input, m)[q].name = Items(input, l)[i].name
  BY <1>2
<1>4. m = l /\ q = i
  BY <1>3, NamesAreApart
<1>. QED  BY <1>2, <1>4

\* So Next mentions the items of all transitions, and only them.
LEMMA NextIsAll == IInv /\ WritingInv => NextIsEveryTransition
<1> SUFFICES ASSUME IInv, WritingInv, Apart(input),
                    NEW k \in DOMAIN text, text[k].name = <<"Next">>
             PROVE  /\ \A n \in text[k].uses : \E j \in 1 .. k - 1 : text[j].name = n
                    /\ {text[j].of : j \in {i \in 1 .. k - 1 : text[i].name \in text[k].uses}}
                         = DOMAIN input.machine.transitions
  BY DEF NextIsEveryTransition
<1> DEFINE ts == input.machine.transitions
<1>1. input \in Inputs /\ IsASequence(text) /\ DefinedBeforeUse
  BY DEF IInv
<1>2. PICK p \in 1 .. 14 : Names(text) = Sections(input, p)
  BY DEF WritingInv, Stands, ModuleAt
<1>3. text[k] = Items(input, 7)[1]
  <2>1. 7 \in 1 .. 10 /\ 1 \in DOMAIN Items(input, 7) /\ Items(input, 7)[1].name = <<"Next">>
    <3>1. 7 \in {4, 5, 7, 8} /\ 7 \in 1 .. 10 /\ 1 \in {1}
      OBVIOUS
    <3>. QED  BY <3>1, SingleItems
  <2>. QED  BY <1>1, <1>2, <2>1, SameName
<1>4. text[k].uses = {ActionName(ts[i]) : i \in DOMAIN ts}
  BY <1>3, SingleItems
<1>5. /\ DOMAIN Items(input, 6) = DOMAIN ts
      /\ \A i \in DOMAIN ts : Items(input, 6)[i].name = ActionName(ts[i]) /\ Items(input, 6)[i].of = i
  BY <1>1, TransitionItems DEF Item
<1>6. DOMAIN text = 1 .. Len(text) /\ Len(text) \in Nat
  BY <1>1, LenProperties DEF IsASequence
<1>7. ASSUME NEW i \in DOMAIN ts, NEW j \in DOMAIN text, text[j].name = ActionName(ts[i])
      PROVE  text[j].of = i
  <2>1. 6 \in 1 .. 10 /\ i \in DOMAIN Items(input, 6) /\ text[j].name = Items(input, 6)[i].name
    BY <1>5, <1>7
  <2>2. text[j] = Items(input, 6)[i]
    BY <1>1, <1>2, <2>1, SameName
  <2>. QED  BY <1>5, <2>2
<1>8. ASSUME NEW n \in text[k].uses PROVE \E j \in 1 .. k - 1 : text[j].name = n
  <2>1. PICK i \in DOMAIN ts : n = ActionName(ts[i])
    BY <1>4, <1>8
  <2>2. 6 \in 1 .. 10 /\ i \in DOMAIN Items(input, 6) /\ n = Items(input, 6)[i].name
    BY <1>5, <2>1
  <2>3. n \notin Library
    BY <1>1, <2>2, NotTaken
  <2>. QED  BY <1>1, <2>3 DEF DefinedBeforeUse
<1>9. ASSUME NEW i \in DOMAIN ts
      PROVE  \E j \in 1 .. k - 1 : text[j].name \in text[k].uses /\ text[j].of = i
  <2>1. ActionName(ts[i]) \in text[k].uses
    BY <1>4
  <2>2. PICK j \in 1 .. k - 1 : text[j].name = ActionName(ts[i])
    BY <1>8, <2>1
  <2>3. j \in DOMAIN text
    BY <1>6, <2>2
  <2>. QED  BY <1>7, <2>1, <2>2, <2>3
<1>10. ASSUME NEW j \in 1 .. k - 1, text[j].name \in text[k].uses
       PROVE  text[j].of \in DOMAIN ts
  <2>1. PICK i \in DOMAIN ts : text[j].name = ActionName(ts[i])
    BY <1>4, <1>10
  <2>2. j \in DOMAIN text
    BY <1>6
  <2>. QED  BY <1>7, <2>1, <2>2
<1>. QED  BY <1>8, <1>9, <1>10

LEMMA StepBoth == IInv /\ WritingInv /\ [Next]_avars => (IInv /\ WritingInv)'
BY StepIInv, StepWriting

\* Then Next mentions one operator for every transition, each defined above it,
\* and what it mentions was made from a transition, whatever their number.
THEOREM NextNamesEveryTransition == Spec => []NextIsEveryTransition
<1>1. Init => IInv /\ WritingInv
  BY InitIInv, InitWriting
<1>. QED  BY <1>1, StepBoth, NextIsAll, PTL DEF Spec

------------------------------------------------------------------------------
(* The configuration.                                                        *)
IsAnEntry(in, e) ==
    \/ e = Entry("SPECIFICATION", "name",
                 {IF TemporalProps(in) /= << >> THEN <<"FairSpec">> ELSE <<"Spec">>})
    \/ \E i \in DOMAIN in.machine.states : e = Entry("CONSTANT", "assignment", {in.machine.states[i]})
    \/ e = Entry("INVARIANT", "name", {<<"TypeInvariant">>})
    \/ \E p \in Names(in.properties) :
         /\ p.kind = "safety"
         /\ e = Entry("INVARIANT", "name", {sanitize_cfg_name(p.name)})
    \/ \E p \in Names(in.properties) :
         /\ p.kind \in {"liveness", "fairness"}
         /\ e = Entry("PROPERTY", "name", {sanitize_cfg_name(p.name)})
    \/ e = Entry("SYMMETRY", "expression", Names(in.machine.states))

\* A row of entries is a sequence, with one entry for each element.
LEMMA EntriesAre ==
    ASSUME NEW E, NEW s \in Seq(E), NEW d
    PROVE  /\ IsASequence(Entries(d, s))
           /\ Names(Entries(d, s)) = {Entry(d, "name", {sanitize_cfg_name(p.name)}) : p \in Names(s)}
<1> DEFINE F(p) == Entry(d, "name", {sanitize_cfg_name(p.name)})
<1>1. Entries(d, s) = [i \in DOMAIN s |-> F(s[i])]
  BY DEF Entries
<1>2. DOMAIN s = 1 .. Len(s) /\ Len(s) \in Nat
  BY LenProperties
<1> HIDE DEF F
<1>3. /\ DOMAIN Entries(d, s) = 1 .. Len(s)
      /\ Entries(d, s) = [i \in 1 .. Len(s) |-> Entries(d, s)[i]]
      /\ \A i \in 1 .. Len(s) : Entries(d, s)[i] = F(s[i])
  BY <1>1, <1>2
<1>4. IsASequence(Entries(d, s))
  BY <1>2, <1>3, Rows
<1>5. Names(Entries(d, s)) = {F(p) : p \in Names(s)}
  BY <1>2, <1>3 DEF Names
<1>. QED  BY <1>4, <1>5 DEF F

\* The elements of a concatenation.
LEMMA ConcatNames ==
    ASSUME NEW s, NEW t, IsASequence(s), IsASequence(t)
    PROVE  IsASequence(s \o t) /\ Names(s \o t) = Names(s) \cup Names(t)
<1> DEFINE S == Names(s) \cup Names(t)
<1>1. s \in Seq(S) /\ t \in Seq(S)
  BY SeqDef DEF IsASequence
<1>2. s \o t \in Seq(S) /\ Names(s \o t) = S
  BY <1>1, NamesConcat, ConcatProperties
<1>. QED  BY <1>2 DEF IsASequence

LEMMA SixParts ==
    ASSUME NEW a, NEW b, NEW c, NEW d, NEW e, NEW f,
           IsASequence(a), IsASequence(b), IsASequence(c), IsASequence(d), IsASequence(e), IsASequence(f)
    PROVE  Names(a \o b \o c \o d \o e \o f)
             = Names(a) \cup Names(b) \cup Names(c) \cup Names(d) \cup Names(e) \cup Names(f)
<1> DEFINE p == a \o b   q == p \o c   r == q \o d   u == r \o e
<1>1. IsASequence(p) /\ Names(p) = Names(a) \cup Names(b)
  BY ConcatNames
<1>2. IsASequence(q) /\ Names(q) = Names(p) \cup Names(c)
  BY <1>1, ConcatNames
<1>3. IsASequence(r) /\ Names(r) = Names(q) \cup Names(d)
  BY <1>2, ConcatNames
<1>4. IsASequence(u) /\ Names(u) = Names(r) \cup Names(e)
  BY <1>3, ConcatNames
<1>5. Names(u \o f) = Names(u) \cup Names(f)
  BY <1>4, ConcatNames
<1> HIDE DEF p, q, r, u
<1>6. Names(u \o f) = Names(a) \cup Names(b) \cup Names(c) \cup Names(d) \cup Names(e) \cup Names(f)
  BY <1>1, <1>2, <1>3, <1>4, <1>5, Zenon
<1>. QED  BY <1>6 DEF p, q, r, u

\* What the configuration contains, and no more.
LEMMA ConfigIs ==
    ASSUME NEW in \in Inputs
    PROVE  /\ \A e \in Names(generate_tlc_cfg(in)) : IsAnEntry(in, e)
           /\ \A s \in Names(in.machine.states) :
                Entry("CONSTANT", "assignment", {s}) \in Names(generate_tlc_cfg(in))
           /\ \A p \in Names(in.properties) :
                Entry(IF p.kind = "safety" THEN "INVARIANT" ELSE "PROPERTY", "name",
                      {sanitize_cfg_name(p.name)}) \in Names(generate_tlc_cfg(in))
<1> DEFINE ss == in.machine.states
           ps == in.properties
           a == <<Entry("SPECIFICATION", "name",
                        {IF TemporalProps(in) /= << >> THEN <<"FairSpec">> ELSE <<"Spec">>})>>
           b == [i \in DOMAIN ss |-> Entry("CONSTANT", "assignment", {ss[i]})]
           c == <<Entry("INVARIANT", "name", {<<"TypeInvariant">>})>>
           d == Entries("INVARIANT", SafetyProps(in))
           e == Entries("PROPERTY", TemporalProps(in))
           f == IF TlcConfig(in.tlc).symmetry /\ Len(ss) > 1
                  THEN <<Entry("SYMMETRY", "expression", Names(ss))>> ELSE << >>
<1>1. /\ Len(ss) \in Nat /\ DOMAIN ss = 1 .. Len(ss)
      /\ Len(ps) \in Nat /\ DOMAIN ps = 1 .. Len(ps)
  BY InputType
<1>2. ps \in Seq(Names(ps)) /\ \A p \in Names(ps) : p.kind \in Kind
  <2>1. ps \in [1 .. Len(ps) -> Names(ps)]
    <3>1. ps \in Seq([name : Seq(Char) \ {<< >>}, kind : Kind])
      BY InputsAssumption
    <3>. QED  BY <3>1, LenProperties DEF Names
  <2>. QED  BY <1>1, <2>1, SeqDef, PropertyType DEF Names
<1>3. /\ SafetyProps(in) \in Seq(Names(ps))
      /\ Names(SafetyProps(in)) = {p \in Names(ps) : p.kind = "safety"}
  <2>1. Names(ps) \cap OfKind(in, {"safety"}) = {p \in Names(ps) : p.kind = "safety"}
    BY DEF OfKind
  <2>. QED  BY <1>2, <2>1, OnlyNames DEF SafetyProps
<1>4. /\ TemporalProps(in) \in Seq(Names(ps))
      /\ Names(TemporalProps(in)) = {p \in Names(ps) : p.kind \in {"liveness", "fairness"}}
  <2>1. Names(ps) \cap OfKind(in, {"liveness", "fairness"})
          = {p \in Names(ps) : p.kind \in {"liveness", "fairness"}}
    BY DEF OfKind
  <2>. QED  BY <1>2, <2>1, OnlyNames DEF TemporalProps
<1>5. IsASequence(a) /\ Names(a) = {Entry("SPECIFICATION", "name",
                        {IF TemporalProps(in) /= << >> THEN <<"FairSpec">> ELSE <<"Spec">>})}
  BY OneRow DEF Names
<1>6. IsASequence(b) /\ Names(b) = {Entry("CONSTANT", "assignment", {s}) : s \in Names(ss)}
  <2> DEFINE F(s) == Entry("CONSTANT", "assignment", {s})
  <2>1. b = [i \in 1 .. Len(ss) |-> F(ss[i])]
    BY <1>1
  <2> HIDE DEF b, F
  <2>2. /\ DOMAIN b = 1 .. Len(ss) /\ b = [i \in 1 .. Len(ss) |-> b[i]]
        /\ \A i \in 1 .. Len(ss) : b[i] = F(ss[i])
    BY <2>1
  <2>3. IsASequence(b)
    BY <1>1, <2>2, Rows
  <2>4. Names(b) = {F(s) : s \in Names(ss)}
    BY <1>1, <2>2 DEF Names
  <2>. QED  BY <2>3, <2>4 DEF F
<1>7. IsASequence(c) /\ Names(c) = {Entry("INVARIANT", "name", {<<"TypeInvariant">>})}
  BY OneRow DEF Names
<1>8. /\ IsASequence(d)
      /\ Names(d) = {Entry("INVARIANT", "name", {sanitize_cfg_name(p.name)}) : p \in Names(SafetyProps(in))}
  BY <1>3, EntriesAre
<1>9. /\ IsASequence(e)
      /\ Names(e) = {Entry("PROPERTY", "name", {sanitize_cfg_name(p.name)}) : p \in Names(TemporalProps(in))}
  BY <1>4, EntriesAre
<1>10. IsASequence(f) /\ Names(f) \subseteq {Entry("SYMMETRY", "expression", Names(ss))}
  <2>1. CASE f = << >>
    BY <2>1, EmptySeq DEF IsASequence, Names
  <2>2. CASE f = <<Entry("SYMMETRY", "expression", Names(ss))>>
    <3>1. \A x : IsASequence(<<x>>) /\ Names(<<x>>) = {x}
      BY OneRow DEF Names
    <3> HIDE DEF f
    <3>. QED  BY <2>2, <3>1, Zenon
  <2>. QED  BY <2>1, <2>2
<1>11. Names(generate_tlc_cfg(in))
         = Names(a) \cup Names(b) \cup Names(c) \cup Names(d) \cup Names(e) \cup Names(f)
  <2>1. generate_tlc_cfg(in) = a \o b \o c \o d \o e \o f
    BY Zenon DEF generate_tlc_cfg
  <2>2. /\ IsASequence(a) /\ IsASequence(b) /\ IsASequence(c)
        /\ IsASequence(d) /\ IsASequence(e) /\ IsASequence(f)
    BY <1>5, <1>6, <1>7, <1>8, <1>9, <1>10
  <2> HIDE DEF a, b, c, d, e, f
  <2>3. Names(a \o b \o c \o d \o e \o f)
          = Names(a) \cup Names(b) \cup Names(c) \cup Names(d) \cup Names(e) \cup Names(f)
    BY <2>2, SixParts
  <2>. QED  BY <2>1, <2>3, Zenon
<1> HIDE DEF a, b, c, d, e, f
<1>12. ASSUME NEW x \in Names(generate_tlc_cfg(in)) PROVE IsAnEntry(in, x)
  <2>1. CASE x \in Names(a)
    BY <1>5, <2>1 DEF IsAnEntry
  <2>2. CASE x \in Names(b)
    <3>1. PICK s \in Names(ss) : x = Entry("CONSTANT", "assignment", {s})
      BY <1>6, <2>2
    <3>2. PICK i \in DOMAIN ss : s = ss[i]
      BY DEF Names
    <3>. QED  BY <3>1, <3>2 DEF IsAnEntry
  <2>3. CASE x \in Names(c)
    BY <1>7, <2>3 DEF IsAnEntry
  <2>4. CASE x \in Names(d)
    BY <1>3, <1>8, <2>4 DEF IsAnEntry
  <2>5. CASE x \in Names(e)
    BY <1>4, <1>9, <2>5 DEF IsAnEntry
  <2>6. CASE x \in Names(f)
    BY <1>10, <2>6 DEF IsAnEntry
  <2>. QED  BY <1>11, <2>1, <2>2, <2>3, <2>4, <2>5, <2>6
<1>13. ASSUME NEW s \in Names(ss)
       PROVE  Entry("CONSTANT", "assignment", {s}) \in Names(generate_tlc_cfg(in))
  BY <1>6, <1>11
<1>14. ASSUME NEW p \in Names(ps)
       PROVE  Entry(IF p.kind = "safety" THEN "INVARIANT" ELSE "PROPERTY", "name",
                    {sanitize_cfg_name(p.name)}) \in Names(generate_tlc_cfg(in))
  <2>1. CASE p.kind = "safety"
    BY <1>3, <1>8, <1>11, <2>1
  <2>2. CASE p.kind /= "safety"
    <3>1. p \in Names(TemporalProps(in))
      BY <1>2, <1>4, <2>2 DEF Kind
    <3>. QED  BY <1>9, <1>11, <2>2, <3>1
  <2>. QED  BY <2>1, <2>2
<1>. QED  BY <1>12, <1>13, <1>14

\* Every item of a section is in the finished module.
LEMMA IsDefined ==
    ASSUME NEW k \in 11 .. 14, Names(text) = Sections(input, k),
           NEW l \in 1 .. 10, NEW i \in DOMAIN Items(input, l), NEW levels,
           Items(input, l)[i].level \in levels
    PROVE  Defines(Items(input, l)[i].name, levels)
<1>1. k \in 1 .. 14 /\ k > 10
  OBVIOUS
<1>2. PICK j \in DOMAIN text : text[j] = Items(input, l)[i]
  BY <1>1, ItemOfSection
<1>. QED  BY <1>2 DEF Defines

\* Names in the configuration: the ones the module has.
LEMMA PropertyIsDefined ==
    ASSUME NEW k \in 11 .. 14, Names(text) = Sections(input, k), input \in Inputs,
           Apart(input), NEW p \in Names(input.properties)
    PROVE  Defines(sanitize_cfg_name(p.name), {"temporal"})
<1>1. PICK i \in DOMAIN input.properties : p = input.properties[i]
  BY DEF Names
<1>2. <<"property", i>> \in Bearers(input) /\ NameOf(input, <<"property", i>>) = p.name
  BY <1>1 DEF Bearers, NameOf
<1>3. p.name /= << >> /\ p.name[1] \in Letter
  BY <1>2 DEF Apart
<1>4. sanitize_cfg_name(p.name) = sanitize_identifier(p.name)
  BY <1>3, LetterFirst
<1>5. /\ i \in DOMAIN Items(input, 10) /\ Items(input, 10)[i].level = "temporal"
      /\ Items(input, 10)[i].name = sanitize_identifier(p.name)
  BY <1>1, PropertyItems
<1>6. 10 \in 1 .. 10 /\ Items(input, 10)[i].level \in {"temporal"}
  BY <1>5
<1>7. Defines(Items(input, 10)[i].name, {"temporal"})
  BY <1>5, <1>6, IsDefined
<1>. QED  BY <1>4, <1>5, <1>7

LEMMA StateIsDefined ==
    ASSUME NEW k \in 11 .. 14, Names(text) = Sections(input, k), input \in Inputs,
           NEW i \in DOMAIN input.machine.states
    PROVE  Defines(input.machine.states[i], {"constant"})
<1>1. /\ i \in DOMAIN Items(input, 2) /\ Items(input, 2)[i].level = "constant"
      /\ Items(input, 2)[i].name = input.machine.states[i]
  BY ConstantItems DEF Item
<1>2. 2 \in 1 .. 10 /\ Items(input, 2)[i].level \in {"constant"}
  BY <1>1
<1>3. Defines(Items(input, 2)[i].name, {"constant"})
  BY <1>1, <1>2, IsDefined
<1>. QED  BY <1>1, <1>3

LEMMA WordIsDefined ==
    ASSUME NEW k \in 11 .. 14, Names(text) = Sections(input, k)
    PROVE  /\ Defines(<<"TypeInvariant">>, {"state"})
           /\ Defines(<<"Spec">>, {"temporal"}) /\ Defines(<<"FairSpec">>, {"temporal"})
<1>1. /\ 4 \in 1 .. 10 /\ 1 \in DOMAIN Items(input, 4)
      /\ Items(input, 4)[1].name = <<"TypeInvariant">> /\ Items(input, 4)[1].level \in {"state"}
  <2>1. 4 \in {4, 5, 7, 8} /\ 4 \in 1 .. 10 /\ 1 \in {1}
    OBVIOUS
  <2>. QED  BY <2>1, SingleItems
<1>2. /\ 9 \in 1 .. 10 /\ 1 \in DOMAIN Items(input, 9) /\ 2 \in DOMAIN Items(input, 9)
      /\ Items(input, 9)[1].name = <<"Spec">> /\ Items(input, 9)[1].level \in {"temporal"}
      /\ Items(input, 9)[2].name = <<"FairSpec">> /\ Items(input, 9)[2].level \in {"temporal"}
  BY SpecItems
<1>3. Defines(Items(input, 4)[1].name, {"state"})
  BY <1>1, IsDefined
<1>4. Defines(Items(input, 9)[1].name, {"temporal"}) /\ Defines(Items(input, 9)[2].name, {"temporal"})
  BY <1>2, IsDefined
<1>. QED  BY <1>1, <1>2, <1>3, <1>4

\* So every possible entry resolves.
LEMMA Resolved ==
    ASSUME NEW k \in 11 .. 14, Names(text) = Sections(input, k), input \in Inputs,
           Apart(input), NEW e, IsAnEntry(input, e)
    PROVE  EntryResolves(e)
<1> DEFINE ss == input.machine.states
           ps == input.properties
<1>1. ASSUME NEW n, Defines(n, {"temporal"}), NEW f PROVE EntryResolves(Entry("SPECIFICATION", f, {n}))
  <2> DEFINE x == Entry("SPECIFICATION", f, {n})
  <2>1. x.directive = "SPECIFICATION" /\ x.names = {n}
    BY DEF Entry
  <2> HIDE DEF x
  <2>2. EntryResolves(x)
    BY <1>1, <2>1 DEF EntryResolves, Refused, LevelFor
  <2>. QED  BY <2>2 DEF x
<1>2. ASSUME NEW n, Defines(n, {"constant"}), NEW f PROVE EntryResolves(Entry("CONSTANT", f, {n}))
  <2> DEFINE x == Entry("CONSTANT", f, {n})
  <2>1. x.directive = "CONSTANT" /\ x.names = {n}
    BY DEF Entry
  <2> HIDE DEF x
  <2>2. EntryResolves(x)
    BY <1>2, <2>1 DEF EntryResolves, Refused, LevelFor
  <2>. QED  BY <2>2 DEF x
<1>3. ASSUME NEW n, NEW f,
             \/ n = <<"TypeInvariant">> /\ Defines(n, {"state"})
             \/ Defines(n, {"temporal"})
      PROVE  /\ EntryResolves(Entry("INVARIANT", f, {n}))
             /\ Defines(n, {"temporal"}) => EntryResolves(Entry("PROPERTY", f, {n}))
  <2> DEFINE x == Entry("INVARIANT", f, {n})
             y == Entry("PROPERTY", f, {n})
  <2>1. x.directive = "INVARIANT" /\ x.names = {n} /\ y.directive = "PROPERTY" /\ y.names = {n}
    BY DEF Entry
  <2> HIDE DEF x, y
  <2>3. Defines(n, {"temporal"}) => Defines(n, {"constant", "temporal"})
    BY DEF Defines
  <2>4. ASSUME n = <<"TypeInvariant">> PROVE EntryResolves(x)
    <3>1. Defines(n, {"state"}) /\ x.names = {<<"TypeInvariant">>}
      BY <2>1, <2>4, WordIsDefined
    <3>. QED  BY <2>1, <3>1, <2>4 DEF EntryResolves, Refused, LevelFor
  <2>5. ASSUME n /= <<"TypeInvariant">> PROVE EntryResolves(x)
    <3>1. x.names /= {<<"TypeInvariant">>} /\ Defines(n, {"constant", "temporal"})
      BY <1>3, <2>1, <2>3, <2>5
    <3>. QED  BY <2>1, <3>1 DEF EntryResolves, Refused
  <2>6. Defines(n, {"temporal"}) => EntryResolves(y)
    BY <2>1 DEF EntryResolves, Refused, LevelFor
  <2>2. EntryResolves(x) /\ (Defines(n, {"temporal"}) => EntryResolves(y))
    BY <2>4, <2>5, <2>6
  <2>. QED  BY <2>2 DEF x, y
<1>4. ASSUME \A n \in Names(ss) : Defines(n, {"constant"}), NEW f
      PROVE  EntryResolves(Entry("SYMMETRY", f, Names(ss)))
  <2> DEFINE x == Entry("SYMMETRY", f, Names(ss))
  <2>1. x.directive = "SYMMETRY" /\ x.names = Names(ss)
    BY DEF Entry
  <2> HIDE DEF x
  <2>2. EntryResolves(x)
    BY <1>4, <2>1 DEF EntryResolves, Refused, Defines
  <2>. QED  BY <2>2 DEF x
<1>5. \A i \in DOMAIN ss : Defines(ss[i], {"constant"})
  BY StateIsDefined
<1>6. CASE e = Entry("SPECIFICATION", "name",
                     {IF TemporalProps(input) /= << >> THEN <<"FairSpec">> ELSE <<"Spec">>})
  <2>1. CASE TemporalProps(input) /= << >>
    BY <1>1, <1>6, <2>1, WordIsDefined
  <2>2. CASE TemporalProps(input) = << >>
    BY <1>1, <1>6, <2>2, WordIsDefined
  <2>. QED  BY <2>1, <2>2
<1>7. CASE \E i \in DOMAIN ss : e = Entry("CONSTANT", "assignment", {ss[i]})
  BY <1>2, <1>5, <1>7
<1>8. CASE e = Entry("INVARIANT", "name", {<<"TypeInvariant">>})
  BY <1>3, <1>8, WordIsDefined
<1>9. CASE \E p \in Names(ps) : e = Entry("INVARIANT", "name", {sanitize_cfg_name(p.name)})
  BY <1>3, <1>9, PropertyIsDefined
<1>10. CASE \E p \in Names(ps) : e = Entry("PROPERTY", "name", {sanitize_cfg_name(p.name)})
  BY <1>3, <1>10, PropertyIsDefined
<1>11. CASE e = Entry("SYMMETRY", "expression", Names(ss))
  BY <1>4, <1>5, <1>11 DEF Names
<1>. QED  BY <1>6, <1>7, <1>8, <1>9, <1>10, <1>11 DEF IsAnEntry

\* When there is a configuration, the module is complete.
LEMMA ConfigWritten ==
    ASSUME WritingInv, config /= << >> \/ section = "done"
    PROVE  /\ input \in Inputs /\ config = generate_tlc_cfg(input)
           /\ \E k \in 11 .. 14 : Names(text) = Sections(input, k)
<1>1. PICK k \in 1 .. 14 : Stands(input, k)
  BY DEF WritingInv
<1>2. k > 12
  <2>1. CASE config /= << >>
    BY <1>1, <2>1 DEF Stands, FilesAt
  <2>2. CASE section = "done"
    <3>1. Place(k) = Place(14) /\ 14 \in 1 .. 14
      BY <1>1, <2>2, Places DEF Stands
    <3>2. k = 14
      BY <3>1, PlaceIsOne, Zenon
    <3>. QED  BY <3>2
  <2>. QED  BY <2>1, <2>2
<1>3. k \in 11 .. 14
  BY <1>2
<1>. QED  BY <1>1, <1>2, <1>3 DEF WritingInv, Stands, FilesAt, ModuleAt

LEMMA ConfigIsRight == WritingInv => ConfigResolves /\ ConfigIsComplete
<1> SUFFICES ASSUME WritingInv PROVE ConfigResolves /\ ConfigIsComplete
  OBVIOUS
<1>1. ASSUME Apart(input), NEW i \in DOMAIN config PROVE EntryResolves(config[i])
  <2>1. config /= << >>
    BY <1>1
  <2>2. /\ input \in Inputs /\ config = generate_tlc_cfg(input)
        /\ \E k \in 11 .. 14 : Names(text) = Sections(input, k)
    BY <2>1, ConfigWritten
  <2>3. IsAnEntry(input, config[i])
    <3>1. config[i] \in Names(generate_tlc_cfg(input))
      BY <2>2 DEF Names
    <3>. QED  BY <2>2, <3>1, ConfigIs
  <2>. QED  BY <1>1, <2>2, <2>3, Resolved
<1>2. ASSUME section = "done", LettersFirst(input) PROVE ConfigIsComplete
  <2>1. input \in Inputs /\ config = generate_tlc_cfg(input)
    BY <1>2, ConfigWritten
  <2>2. ASSUME NEW p \in Names(input.properties)
        PROVE  sanitize_cfg_name(p.name) = sanitize_identifier(p.name)
    <3>1. PICK i \in DOMAIN input.properties : p = input.properties[i]
      BY <2>2 DEF Names
    <3>2. p.name /= << >> /\ p.name[1] \in Letter
      BY <1>2, <2>1, <3>1, PropertyType DEF LettersFirst
    <3>. QED  BY <3>2, LetterFirst
  <2>. QED  BY <2>1, <2>2, ConfigIs DEF ConfigIsComplete
<1>. QED  BY <1>1, <1>2 DEF ConfigResolves, ConfigIsComplete

\* Then all that the configuration names is in the module, although three
\* sanitizers made the names: at the level its directive wants, but for the two
\* kinds of entry that TLC refuses (see EntryResolves).
THEOREM ConfigurationResolves == Spec => []ConfigResolves
BY InitWriting, StepWriting, ConfigIsRight, PTL DEF Spec

\* And for names that begin with letters, the configuration of a finished run
\* gives every constant a value and has every property under its directive.
THEOREM ConfigurationIsComplete == Spec => []ConfigIsComplete
BY InitWriting, StepWriting, ConfigIsRight, PTL DEF Spec

------------------------------------------------------------------------------
(* The PlusCal module.                                                       *)
LEMMA SameInBoth ==
    ASSUME NEW in \in Inputs, LettersFirst(in)
    PROVE  PropertiesOf(generate_pluscal(in)) = PropertiesOf(Items(in, 10))
<1> DEFINE a == generate_constants(in)
           b == generate_variables(in)
           c == Numbered(Len(in.properties),
                         LAMBDA i : [generate_properties(in)[i] EXCEPT
                                       !.name = sanitize_pcal_identifier(in.properties[i].name)])
           d == Items(in, 10)
<1>1. a = Items(in, 2) /\ b = Items(in, 3) /\ d = generate_properties(in)
  BY DEF Items
<1>2. c = d
  <2> DEFINE Row(i) == Item(sanitize_identifier(in.properties[i].name), "temporal",
                            IF in.properties[i].kind = "fairness"
                              THEN {<<"Next">>, <<"vars">>} ELSE User(in), i)
  <2>1. d = [i \in 1 .. Len(in.properties) |-> Row(i)]
    BY <1>1 DEF generate_properties, Numbered
  <2>2. c = [i \in 1 .. Len(in.properties) |->
               [d[i] EXCEPT !.name = sanitize_pcal_identifier(in.properties[i].name)]]
    BY <1>1 DEF Numbered
  <2>3. ASSUME NEW i \in 1 .. Len(in.properties)
        PROVE  sanitize_pcal_identifier(in.properties[i].name) = sanitize_identifier(in.properties[i].name)
    <3>1. i \in DOMAIN in.properties
      BY <2>3, InputType
    <3>2. in.properties[i].name /= << >> /\ in.properties[i].name[1] \in Letter
      BY <3>1, PropertyType DEF LettersFirst
    <3>. QED  BY <3>2, LetterFirst
  <2>4. ASSUME NEW i \in 1 .. Len(in.properties)
        PROVE  [Row(i) EXCEPT !.name = sanitize_identifier(in.properties[i].name)] = Row(i)
    <3>1. ASSUME NEW n, NEW u
          PROVE  [Item(n, "temporal", u, i) EXCEPT !.name = n] = Item(n, "temporal", u, i)
      BY DEF Item
    <3>. QED  BY <3>1
  <2> HIDE DEF Row, c, d
  <2>5. ASSUME NEW i \in 1 .. Len(in.properties)
        PROVE  [d[i] EXCEPT !.name = sanitize_pcal_identifier(in.properties[i].name)] = d[i]
    BY <2>1, <2>3, <2>4
  <2>. QED  BY <2>1, <2>2, <2>5
<1>3. generate_pluscal(in) = (a \o b) \o c
  BY DEF generate_pluscal
<1>4. IsASequence(a) /\ IsASequence(b) /\ IsASequence(d)
  BY <1>1, ItemsAreRows
<1> HIDE DEF a, b, c, d
<1>5. IsASequence(a \o b) /\ PropertiesOf(a \o b) = PropertiesOf(a) \o PropertiesOf(b)
  BY <1>4, ConcatNames, PropertiesConcat
<1>6. PropertiesOf(a) = << >> /\ PropertiesOf(b) = << >>
  BY <1>1, NotProperties
<1>7. << >> \o << >> = << >>
  OBVIOUS
<1>8. PropertiesOf((a \o b) \o d) = PropertiesOf(a \o b) \o PropertiesOf(d)
  <2>1. ASSUME NEW x, IsASequence(x) PROVE PropertiesOf(x \o d) = PropertiesOf(x) \o PropertiesOf(d)
    BY <1>4, <2>1, PropertiesConcat
  <2>. QED  BY <1>5, <2>1, Zenon
<1>9. << >> \o PropertiesOf(d) = PropertiesOf(d)
  <2>1. PropertiesOf(d) \in Seq(Names(d))
    BY <1>4, OnlyNames DEF IsASequence, PropertiesOf
  <2>2. \A S : \A r \in Seq(S) : << >> \o r = r
    BY ConcatEmptySeq
  <2>. QED  BY <2>1, <2>2
<1>10. PropertiesOf(a \o b) = << >>
  BY <1>5, <1>6, <1>7, Zenon
<1>. QED  BY <1>2, <1>3, <1>8, <1>9, <1>10, Zenon DEF d

LEMMA PropertiesAreTheSame == WritingInv => SameProperties
<1> SUFFICES ASSUME WritingInv, section \in {"configuration", "script", "done"}, LettersFirst(input)
             PROVE  PropertiesOf(pcal) = PropertiesOf(text)
  BY DEF SameProperties
<1>1. PICK k \in 1 .. 14 : Stands(input, k)
  BY DEF WritingInv
<1>2. k \in {12, 13, 14}
  <2>1. \E j \in {12, 13, 14} : Place(k) = Place(j)
    BY <1>1, Places DEF Stands
  <2>2. {12, 13, 14} \subseteq 1 .. 14
    OBVIOUS
  <2>. QED  BY <2>1, <2>2, PlaceIsOne, Zenon
<1>3. k > 11 /\ k > 10
  BY <1>2
<1>4. pcal = generate_pluscal(input) /\ PropertiesOf(text) = PropertiesOf(Items(input, 10))
  BY <1>1, <1>3 DEF Stands, ModuleAt, FilesAt
<1>5. input \in Inputs
  BY DEF WritingInv
<1>. QED  BY <1>4, <1>5, SameInBoth

\* For such names the PlusCal module defines the same properties as the TLA+
\* module, in the same order and from the same names.
THEOREM PropertiesAgree == Spec => []SameProperties
BY InitWriting, StepWriting, PropertiesAreTheSame, PTL DEF Spec

------------------------------------------------------------------------------
(* The command line.  IsValue is a recursive function too.                   *)
Taken(k, s, i) == i > 1 /\ s[i - 1] \in Valued /\ ~k[i - 1]

\* Which words are values: the function satisfies its equation.
LEMMA ValueExists ==
    ASSUME NEW s, Len(s) \in Nat
    PROVE  IsValue(s) = [i \in 0 .. Len(s) |-> Taken(IsValue(s), s, i)]
<1> DEFINE Good(m) == \E k : k = [i \in 0 .. m |-> Taken(k, s, i)]
           G == {m \in Nat : Good(m)}
<1>1. 0 \in G
  <2>1. PICK k : k = [i \in 0 .. 0 |-> FALSE]
    OBVIOUS
  <2>2. \A i \in 0 .. 0 : Taken(k, s, i) = FALSE
    BY DEF Taken
  <2>3. k = [i \in 0 .. 0 |-> Taken(k, s, i)]
    BY <2>1, <2>2
  <2>. QED  BY <2>3
<1>2. ASSUME NEW m \in Nat, m \in G PROVE m + 1 \in G
  <2>1. PICK g : g = [i \in 0 .. m |-> Taken(g, s, i)]
    BY <1>2
  <2> DEFINE h == [i \in 0 .. m + 1 |-> IF i = m + 1 THEN Taken(g, s, i) ELSE g[i]]
  <2>2. ASSUME NEW i \in 0 .. m + 1 PROVE h[i] = Taken(h, s, i)
    <3>1. Taken(h, s, i) = Taken(g, s, i)
      <4>1. i > 1 => h[i - 1] = g[i - 1]
        OBVIOUS
      <4> HIDE DEF h
      <4>. QED  BY <4>1 DEF Taken
    <3>2. CASE i = m + 1
      BY <3>1, <3>2
    <3>3. CASE i /= m + 1
      <4>1. i \in 0 .. m
        BY <3>3
      <4>2. h[i] = g[i] /\ g[i] = Taken(g, s, i)
        BY <2>1, <3>3, <4>1
      <4>. QED  BY <3>1, <4>2
    <3>. QED  BY <3>2, <3>3
  <2>3. h = [i \in 0 .. m + 1 |-> Taken(h, s, i)]
    BY <2>2
  <2>4. Good(m + 1)
    <3> HIDE DEF h
    <3>. QED  BY <2>3
  <2>. QED  BY <2>4
<1>3. Len(s) \in G
  <2> HIDE DEF G
  <2>. QED  BY <1>1, <1>2, NatSetInduction
<1> DEFINE K == CHOOSE k : k = [i \in 0 .. Len(s) |-> Taken(k, s, i)]
<1>4. K = [i \in 0 .. Len(s) |-> Taken(K, s, i)]
  BY <1>3
<1>5. IsValue(s) = K
  BY Zenon DEF IsValue, Taken
<1>. QED  BY <1>4, <1>5

LEMMA ValueIs ==
    ASSUME NEW s, Len(s) \in Nat, NEW i \in 0 .. Len(s)
    PROVE  IsValue(s)[i] <=> i > 1 /\ s[i - 1] \in Valued /\ ~IsValue(s)[i - 1]
<1> DEFINE V == IsValue(s)
<1>1. V = [j \in 0 .. Len(s) |-> Taken(V, s, j)]
  BY ValueExists
<1> HIDE DEF V
<1>2. V[i] = Taken(V, s, i)
  BY <1>1
<1>3. V[i] <=> i > 1 /\ s[i - 1] \in Valued /\ ~V[i - 1]
  BY <1>2 DEF Taken
<1>. QED  BY <1>3 DEF V

\* Behind a complete command the words of x are read as they are on their own.
LEMMA ReadAlike ==
    ASSUME NEW s, NEW x, NEW p \in Nat \ {0}, Len(s) \in Nat, Len(x) \in Nat, p + Len(x) < Len(s),
           \A i \in 1 .. Len(x) : s[p + i] = x[i], IsValue(s)[p]
    PROVE  \A i \in 1 .. Len(x) : IsValue(s)[p + i] <=> IsValue(x)[i]
<1> DEFINE V == IsValue(s)
           U == IsValue(x)
           G == {i \in Nat : i + 1 <= Len(x) => (V[p + (i + 1)] <=> U[i + 1])}
<1>v. \A i \in 0 .. Len(s) : V[i] <=> i > 1 /\ s[i - 1] \in Valued /\ ~V[i - 1]
  BY ValueIs
<1>u. \A i \in 0 .. Len(x) : U[i] <=> i > 1 /\ x[i - 1] \in Valued /\ ~U[i - 1]
  BY ValueIs
<1>p. V[p]
  OBVIOUS
<1> HIDE DEF V, U
<1>1. 0 \in G
  <2> SUFFICES ASSUME 1 <= Len(x) PROVE ~V[p + 1] /\ ~U[1]
    OBVIOUS
  <2>1. p + 1 \in 0 .. Len(s) /\ (p + 1) - 1 = p /\ 1 \in 0 .. Len(x) /\ ~(1 > 1)
    OBVIOUS
  <2>. QED  BY <1>v, <1>u, <1>p, <2>1
<1>2. ASSUME NEW i \in Nat, i \in G PROVE i + 1 \in G
  <2> SUFFICES ASSUME (i + 1) + 1 <= Len(x) PROVE V[p + ((i + 1) + 1)] <=> U[(i + 1) + 1]
    OBVIOUS
  <2>1. /\ p + ((i + 1) + 1) \in 0 .. Len(s) /\ (p + ((i + 1) + 1)) - 1 = p + (i + 1)
        /\ p + ((i + 1) + 1) > 1
        /\ (i + 1) + 1 \in 0 .. Len(x) /\ ((i + 1) + 1) - 1 = i + 1 /\ (i + 1) + 1 > 1
        /\ i + 1 \in 1 .. Len(x)
    OBVIOUS
  <2>2. V[p + (i + 1)] <=> U[i + 1]
    BY <1>2, <2>1
  <2>3. s[p + (i + 1)] = x[i + 1]
    BY <2>1
  <2>4. V[p + ((i + 1) + 1)] <=> s[p + (i + 1)] \in Valued /\ ~V[p + (i + 1)]
    BY <1>v, <2>1
  <2>5. U[(i + 1) + 1] <=> x[i + 1] \in Valued /\ ~U[i + 1]
    BY <1>u, <2>1
  <2>. QED  BY <2>2, <2>3, <2>4, <2>5
<1>3. \A i \in Nat : i \in G
  <2> HIDE DEF G
  <2>. QED  BY <1>1, <1>2, NatSetInduction
<1>4. ASSUME NEW i \in 1 .. Len(x) PROVE V[p + i] <=> U[i]
  <2>1. i - 1 \in Nat /\ (i - 1) + 1 = i /\ i <= Len(x)
    OBVIOUS
  <2>2. i - 1 \in G
    BY <1>3, <2>1
  <2>. QED  BY <2>1, <2>2
<1>. QED  BY <1>4 DEF V, U

LEMMA ConcatAt ==
    ASSUME NEW s, NEW t, IsASequence(s), IsASequence(t)
    PROVE  /\ IsASequence(s \o t) /\ Len(s) \in Nat /\ Len(t) \in Nat
           /\ Len(s \o t) = Len(s) + Len(t) /\ DOMAIN (s \o t) = 1 .. Len(s) + Len(t)
           /\ \A i \in 1 .. Len(s) : (s \o t)[i] = s[i]
           /\ \A i \in 1 .. Len(t) : (s \o t)[Len(s) + i] = t[i]
<1> DEFINE S == Names(s) \cup Names(t)
           u == s \o t
<1>1. s \in Seq(S) /\ t \in Seq(S)
  BY SeqDef DEF IsASequence
<1>2. /\ Len(s) \in Nat /\ Len(t) \in Nat /\ u \in Seq(S) /\ Len(u) = Len(s) + Len(t)
      /\ DOMAIN u = 1 .. Len(s) + Len(t)
      /\ \A i \in 1 .. Len(s) + Len(t) : u[i] = IF i <= Len(s) THEN s[i] ELSE t[i - Len(s)]
  BY <1>1, LenProperties, ConcatProperties
<1>3. IsASequence(u)
  BY ConcatNames
<1> HIDE DEF u
<1>4. \A i \in 1 .. Len(s) : u[i] = s[i]
  BY <1>2
<1>5. \A i \in 1 .. Len(t) : u[Len(s) + i] = t[i]
  BY <1>2
<1>. QED  BY <1>2, <1>3, <1>4, <1>5 DEF u

\* The words of the command, x being the added flags: p of them come before x.
Shape(s, x, p, w, m) ==
    /\ p \in {2, 4} /\ Len(x) \in Nat /\ DOMAIN x = 1 .. Len(x)
    /\ Len(s) = p + Len(x) + 3 /\ DOMAIN s = 1 .. p + Len(x) + 3
    /\ s[1] = "-workers" /\ s[2] = w
    /\ p = 4 => s[3] = "-maxSetSize" /\ s[4] = m
    /\ \A i \in 1 .. Len(x) : s[p + i] = x[i]
    /\ s[p + Len(x) + 1] = "-config" /\ s[p + Len(x) + 2] = "X.cfg" /\ s[p + Len(x) + 3] = "X.tla"

\* Two and three words.
LEMMA Two ==
    ASSUME NEW a, NEW b
    PROVE  IsASequence(<<a, b>>) /\ Len(<<a, b>>) = 2 /\ <<a, b>>[1] = a /\ <<a, b>>[2] = b
BY DEF IsASequence, Names

LEMMA Three ==
    ASSUME NEW a, NEW b, NEW c
    PROVE  /\ IsASequence(<<a, b, c>>) /\ Len(<<a, b, c>>) = 3
           /\ <<a, b, c>>[1] = a /\ <<a, b, c>>[2] = b /\ <<a, b, c>>[3] = c
BY DEF IsASequence, Names

\* tlc_command puts the words in this order.
LEMMA CommandShape ==
    ASSUME NEW c, IsASequence(c.extra_flags)
    PROVE  Shape(tlc_command(c), c.extra_flags, IF c.max_states = "0" THEN 2 ELSE 4,
                 c.workers, c.max_states)
<1> DEFINE x == c.extra_flags
           a == <<"-workers", c.workers>>
           b == Limit(c)
           d == <<"-config", "X.cfg", "X.tla">>
           p == IF c.max_states = "0" THEN 2 ELSE 4
           h == a \o b
           g == h \o x
           s == g \o d
<1>1. tlc_command(c) = s
  BY DEF tlc_command
<1>2. /\ IsASequence(h) /\ Len(h) = p /\ h[1] = "-workers" /\ h[2] = c.workers
      /\ p = 4 => h[3] = "-maxSetSize" /\ h[4] = c.max_states
  <2>a. IsASequence(a) /\ Len(a) = 2 /\ a[1] = "-workers" /\ a[2] = c.workers
    BY Two
  <2>1. CASE c.max_states = "0"
    <3>1. b = << >> /\ p = 2
      BY <2>1 DEF Limit
    <3>2. h = a
      <4>1. \A S : \A q \in Seq(S) : q \o << >> = q
        BY ConcatEmptySeq
      <4>2. a \in Seq(Names(a))
        BY <2>a DEF IsASequence
      <4>. QED  BY <3>1, <4>1, <4>2
    <3>. QED  BY <2>a, <3>1, <3>2
  <2>2. CASE c.max_states /= "0"
    <3>1. b = <<"-maxSetSize", c.max_states>> /\ p = 4
      BY <2>2 DEF Limit
    <3>2. IsASequence(b) /\ Len(b) = 2 /\ b[1] = "-maxSetSize" /\ b[2] = c.max_states
      BY <3>1, Two
    <3> HIDE DEF a, b
    <3>5. /\ IsASequence(h) /\ Len(h) = Len(a) + Len(b)
          /\ \A i \in 1 .. Len(a) : h[i] = a[i]
          /\ \A i \in 1 .. Len(b) : h[Len(a) + i] = b[i]
      <4>1. IsASequence(a) /\ IsASequence(b)
        BY <2>a, <3>2
      <4>. QED  BY <4>1, ConcatAt
    <3>3. /\ IsASequence(h) /\ Len(h) = 4 /\ \A i \in 1 .. 2 : h[i] = a[i]
          /\ \A i \in 1 .. 2 : h[2 + i] = b[i]
      <4> HIDE DEF h
      <4>. QED  BY <2>a, <3>2, <3>5
    <3>4. h[1] = a[1] /\ h[2] = a[2] /\ h[3] = b[1] /\ h[4] = b[2]
      BY <3>3
    <3>. QED  BY <2>a, <3>1, <3>2, <3>3, <3>4
  <2>. QED  BY <2>1, <2>2
<1>3. IsASequence(d) /\ Len(d) = 3 /\ d[1] = "-config" /\ d[2] = "X.cfg" /\ d[3] = "X.tla"
  BY Three
<1>4. p \in {2, 4}
  OBVIOUS
<1> HIDE DEF a, b, d, p, h
<1>5. /\ IsASequence(g) /\ Len(x) \in Nat /\ Len(g) = p + Len(x)
      /\ \A i \in 1 .. p : g[i] = h[i]
      /\ \A i \in 1 .. Len(x) : g[p + i] = x[i]
  BY <1>2, ConcatAt
<1>x. DOMAIN x = 1 .. Len(x)
  BY LenProperties DEF IsASequence
<1> HIDE DEF x, g
<1>6. /\ Len(s) = p + Len(x) + 3 /\ DOMAIN s = 1 .. p + Len(x) + 3
      /\ \A i \in 1 .. p + Len(x) : s[i] = g[i]
      /\ \A i \in 1 .. 3 : s[p + Len(x) + i] = d[i]
  <2>1. /\ Len(s) = Len(g) + Len(d) /\ DOMAIN s = 1 .. Len(g) + Len(d)
        /\ \A i \in 1 .. Len(g) : s[i] = g[i]
        /\ \A i \in 1 .. Len(d) : s[Len(g) + i] = d[i]
    <3>1. IsASequence(g) /\ IsASequence(d)
      BY <1>3, <1>5
    <3>. QED  BY <3>1, ConcatAt
  <2> HIDE DEF s
  <2>. QED  BY <1>3, <1>5, <2>1
<1> HIDE DEF s
<1>7. s[1] = g[1] /\ s[2] = g[2] /\ g[1] = h[1] /\ g[2] = h[2]
  BY <1>4, <1>5, <1>6
<1>8. p = 4 => s[3] = g[3] /\ s[4] = g[4] /\ g[3] = h[3] /\ g[4] = h[4]
  BY <1>4, <1>5, <1>6
<1>9. \A i \in 1 .. Len(x) : s[p + i] = x[i]
  BY <1>4, <1>5, <1>6
<1>10. s[p + Len(x) + 1] = d[1] /\ s[p + Len(x) + 2] = d[2] /\ s[p + Len(x) + 3] = d[3]
  BY <1>6
<1>11. Shape(s, x, p, c.workers, c.max_states)
  BY <1>2, <1>3, <1>4, <1>5, <1>x, <1>6, <1>7, <1>8, <1>9, <1>10 DEF Shape
<1>. QED  BY <1>1, <1>11 DEF p, x

\* Which words of the command are values: those behind the generator's own
\* flags, and what is one among the added flags.
LEMMA CommandValues ==
    ASSUME NEW s, NEW x, NEW p, NEW w, NEW m, Shape(s, x, p, w, m), Complete(x)
    PROVE  /\ ~IsValue(s)[1] /\ IsValue(s)[2]
           /\ p = 4 => ~IsValue(s)[3] /\ IsValue(s)[4]
           /\ \A i \in 1 .. Len(x) : IsValue(s)[p + i] <=> IsValue(x)[i]
           /\ ~IsValue(s)[p + Len(x) + 1] /\ IsValue(s)[p + Len(x) + 2]
           /\ ~IsValue(s)[p + Len(x) + 3]
<1> DEFINE V == IsValue(s)
           n == Len(x)
<1>0. /\ p \in {2, 4} /\ n \in Nat /\ Len(s) = p + n + 3 /\ Len(s) \in Nat
  BY DEF Shape
<1>v. \A i \in 0 .. Len(s) : V[i] <=> i > 1 /\ s[i - 1] \in Valued /\ ~V[i - 1]
  BY <1>0, ValueIs
<1>w. "-workers" \in Valued /\ "-maxSetSize" \in Valued /\ "-config" \in Valued
  BY DEF Valued
<1> HIDE DEF V
<1>1. ~V[1] /\ V[2]
  <2>1. 1 \in 0 .. Len(s) /\ 2 \in 0 .. Len(s) /\ 2 - 1 = 1 /\ ~(1 > 1) /\ 2 > 1
    BY <1>0
  <2>. QED  BY <1>v, <1>w, <2>1 DEF Shape
<1>2. p = 4 => ~V[3] /\ V[4]
  <2> SUFFICES ASSUME p = 4 PROVE ~V[3] /\ V[4]
    OBVIOUS
  <2>1. 3 \in 0 .. Len(s) /\ 4 \in 0 .. Len(s) /\ 3 - 1 = 2 /\ 4 - 1 = 3 /\ 4 > 1
    BY <1>0
  <2>2. ~V[3]
    BY <1>v, <1>1, <2>1
  <2>3. s[3] = "-maxSetSize"
    BY DEF Shape
  <2>. QED  BY <1>v, <1>w, <2>1, <2>2, <2>3
<1>3. V[p]
  BY <1>0, <1>1, <1>2
<1>4. \A i \in 1 .. n : V[p + i] <=> IsValue(x)[i]
  <2>1. /\ p \in Nat \ {0} /\ p + n < Len(s) /\ \A i \in 1 .. n : s[p + i] = x[i]
    BY <1>0 DEF Shape
  <2>. QED  BY <1>0, <1>3, <2>1, ReadAlike DEF V
<1>5. ~V[p + n + 1]
  <2>1. p + n + 1 \in 0 .. Len(s) /\ (p + n + 1) - 1 = p + n
    BY <1>0
  <2>2. CASE n = 0
    <3>1. p + n = p
      BY <1>0, <2>2
    <3>. QED  BY <1>v, <1>3, <2>1, <3>1
  <2>3. CASE n /= 0
    <3>1. n \in 1 .. n /\ s[p + n] = x[n]
      BY <1>0, <2>3 DEF Shape
    <3>2. x /= << >>
      BY <1>0, <2>3
    <3>3. ~(x[n] \in Valued /\ ~IsValue(x)[n])
      BY <3>2 DEF Complete
    <3>. QED  BY <1>v, <1>4, <2>1, <3>1, <3>3
  <2>. QED  BY <2>2, <2>3
<1>6. V[p + n + 2] /\ ~V[p + n + 3]
  <2>1. /\ p + n + 2 \in 0 .. Len(s) /\ (p + n + 2) - 1 = p + n + 1 /\ p + n + 2 > 1
        /\ p + n + 3 \in 0 .. Len(s) /\ (p + n + 3) - 1 = p + n + 2
    BY <1>0
  <2>2. s[p + n + 1] = "-config"
    BY DEF Shape
  <2>. QED  BY <1>v, <1>w, <1>5, <2>1, <2>2
<1>. QED  BY <1>1, <1>2, <1>4, <1>5, <1>6 DEF V

\* Each word is one of the generator's or one of the added.
LEMMA WordsAre ==
    ASSUME NEW p \in {2, 4}, NEW n \in Nat, NEW j \in 1 .. p + n + 3
    PROVE  \/ j = 1 \/ j = 2 \/ (p = 4 /\ j = 3) \/ (p = 4 /\ j = 4)
           \/ \E i \in 1 .. n : j = p + i
           \/ j = p + n + 1 \/ j = p + n + 2 \/ j = p + n + 3
<1>1. CASE j <= p
  BY <1>1
<1>2. CASE j > p /\ j <= p + n
  <2>1. j - p \in 1 .. n /\ j = p + (j - p)
    BY <1>2
  <2>. QED  BY <2>1
<1>3. CASE j > p + n
  BY <1>3
<1>. QED  BY <1>1, <1>2, <1>3

LEMMA GivenIs ==
    ASSUME NEW s, NEW x, NEW p, NEW w, NEW m, Shape(s, x, p, w, m), Complete(x), NEW f \in Valued,
           NEW j
    PROVE  j \in Given(s, f) <=>
             \/ j = 1 /\ f = "-workers"
             \/ j = 3 /\ p = 4 /\ f = "-maxSetSize"
             \/ \E i \in Given(x, f) : j = p + i
             \/ j = p + Len(x) + 1 /\ f = "-config"
<1> DEFINE V == IsValue(s)
           n == Len(x)
<1>0. /\ p \in {2, 4} /\ n \in Nat /\ DOMAIN x = 1 .. n
      /\ DOMAIN s = 1 .. p + n + 3
      /\ s[1] = "-workers" /\ (p = 4 => s[3] = "-maxSetSize")
      /\ \A i \in 1 .. n : s[p + i] = x[i]
      /\ s[p + n + 1] = "-config" /\ s[p + n + 3] = "X.tla"
  BY DEF Shape
<1>v. /\ ~V[1] /\ V[2]
      /\ p = 4 => ~V[3] /\ V[4]
      /\ \A i \in 1 .. n : V[p + i] <=> IsValue(x)[i]
      /\ ~V[p + n + 1] /\ V[p + n + 2] /\ ~V[p + n + 3]
  BY CommandValues
<1>f. f /= "X.tla"
  BY DEF Valued
<1>g. /\ \A i : i \in Given(s, f) <=> i \in DOMAIN s /\ s[i] = f /\ ~V[i]
      /\ \A i : i \in Given(x, f) <=> i \in DOMAIN x /\ x[i] = f /\ ~IsValue(x)[i]
  BY DEF Given
<1> HIDE DEF V
<1>1. ASSUME j \in Given(s, f)
      PROVE  \/ j = 1 /\ f = "-workers"
             \/ j = 3 /\ p = 4 /\ f = "-maxSetSize"
             \/ \E i \in Given(x, f) : j = p + i
             \/ j = p + n + 1 /\ f = "-config"
  <2>1. j \in 1 .. p + n + 3 /\ s[j] = f /\ ~V[j]
    BY <1>0, <1>1, <1>g
  <2>2. CASE \E i \in 1 .. n : j = p + i
    BY <1>0, <1>v, <1>g, <2>1, <2>2
  <2>3. CASE j = 1 \/ j = 2 \/ (p = 4 /\ j = 3) \/ (p = 4 /\ j = 4)
    BY <1>0, <1>v, <2>1, <2>3
  <2>4. CASE j = p + n + 1 \/ j = p + n + 2 \/ j = p + n + 3
    BY <1>0, <1>v, <1>f, <2>1, <2>4
  <2>. QED  BY <1>0, <2>1, <2>2, <2>3, <2>4, WordsAre
<1>2. ASSUME j = 1 /\ f = "-workers" PROVE j \in Given(s, f)
  BY <1>0, <1>v, <1>g, <1>2
<1>3. ASSUME j = 3 /\ p = 4 /\ f = "-maxSetSize" PROVE j \in Given(s, f)
  BY <1>0, <1>v, <1>g, <1>3
<1>4. ASSUME NEW i \in Given(x, f), j = p + i PROVE j \in Given(s, f)
  <2>1. i \in 1 .. n /\ x[i] = f /\ ~IsValue(x)[i]
    BY <1>0, <1>g
  <2>2. j \in DOMAIN s /\ s[j] = x[i] /\ (V[j] <=> IsValue(x)[i])
    BY <1>0, <1>v, <1>4, <2>1
  <2>. QED  BY <1>g, <2>1, <2>2
<1>5. ASSUME j = p + n + 1 /\ f = "-config" PROVE j \in Given(s, f)
  BY <1>0, <1>v, <1>g, <1>5
<1>. QED  BY <1>1, <1>2, <1>3, <1>4, <1>5

\* Some position is the last.
LEMMA Greatest ==
    ASSUME NEW n \in Nat, NEW T, T \subseteq 1 .. n, T /= {}
    PROVE  \E i \in T : \A j \in T : j <= i
<1> DEFINE Good(m) == \A S \in SUBSET (1 .. m) : S /= {} => \E i \in S : \A j \in S : j <= i
           G == {m \in Nat : Good(m)}
<1>1. 0 \in G
  <2>1. \A S \in SUBSET (1 .. 0) : S = {}
    OBVIOUS
  <2>. QED  BY <2>1
<1>2. ASSUME NEW m \in Nat, m \in G PROVE m + 1 \in G
  <2> SUFFICES ASSUME NEW S \in SUBSET (1 .. m + 1), S /= {} PROVE \E i \in S : \A j \in S : j <= i
    OBVIOUS
  <2>1. CASE m + 1 \in S
    <3>1. \A j \in S : j <= m + 1
      OBVIOUS
    <3>. QED  BY <2>1, <3>1
  <2>2. CASE m + 1 \notin S
    <3>1. S \in SUBSET (1 .. m)
      <4>1. \A j \in 1 .. m + 1 : j = m + 1 \/ j \in 1 .. m
        OBVIOUS
      <4>. QED  BY <2>2, <4>1
    <3>. QED  BY <1>2, <3>1
  <2>. QED  BY <2>1, <2>2
<1>3. n \in G
  <2> HIDE DEF G
  <2>. QED  BY <1>1, <1>2, NatSetInduction
<1>. QED  BY <1>3

\* The last occurrence of a flag is the one that counts.
LEMMA SettingIs ==
    ASSUME NEW ws, NEW f, Given(ws, f) \subseteq Nat,
           NEW i \in Given(ws, f), \A j \in Given(ws, f) : j <= i
    PROVE  Setting(ws, f) = ws[1 + i]
<1> DEFINE c == CHOOSE k \in Given(ws, f) : \A j \in Given(ws, f) : j <= k
<1>1. c \in Given(ws, f) /\ \A j \in Given(ws, f) : j <= c
  OBVIOUS
<1>2. c = i
  <2> HIDE DEF c
  <2>1. c <= i /\ i <= c /\ c \in Nat /\ i \in Nat
    BY <1>1
  <2>. QED  BY <2>1
<1>. QED  BY <1>2 DEF Setting

\* An added flag that takes a value counts, and has the value it has on its own.
LEMMA AddedCounts ==
    ASSUME NEW s, NEW x, NEW p, NEW w, NEW m, Shape(s, x, p, w, m), Complete(x),
           NEW f \in {"-workers", "-maxSetSize"}, Given(x, f) /= {}
    PROVE  Setting(s, f) = Setting(x, f)
<1> DEFINE n == Len(x)
<1>0. /\ p \in {2, 4} /\ n \in Nat /\ DOMAIN x = 1 .. n /\ DOMAIN s = 1 .. p + n + 3
      /\ \A i \in 1 .. n : s[p + i] = x[i]
  BY DEF Shape
<1>1. Given(x, f) \subseteq 1 .. n /\ Given(s, f) \subseteq Nat /\ f \in Valued /\ f /= "-config"
  BY <1>0 DEF Given, Valued
<1>2. PICK i \in Given(x, f) : \A j \in Given(x, f) : j <= i
  BY <1>0, <1>1, Greatest
<1>3. Given(x, f) \subseteq Nat
  BY <1>0, <1>1
<1>4. Setting(x, f) = x[1 + i]
  BY <1>2, <1>3, SettingIs
<1>5. i \in 1 .. n /\ x[i] = f /\ ~IsValue(x)[i]
  BY <1>0 DEF Given
<1>6. i + 1 \in 1 .. n
  <2>1. x /= << >>
    BY <1>0, <1>5
  <2>2. i /= n
    BY <1>1, <1>5, <2>1 DEF Complete
  <2>3. n \in Nat /\ i \in 1 .. n
    BY <1>0, <1>5
  <2> HIDE DEF n
  <2>. QED  BY <2>2, <2>3
<1>7. p + i \in Given(s, f)
  BY <1>1, GivenIs
<1>8. ASSUME NEW j \in Given(s, f) PROVE j <= p + i
  <2>1. j = 1 \/ (j = 3 /\ p = 4) \/ (\E k \in Given(x, f) : j = p + k)
    BY <1>1, GivenIs
  <2>2. CASE \E k \in Given(x, f) : j = p + k
    BY <1>0, <1>1, <1>2, <1>5, <2>2
  <2>3. CASE j = 1 \/ (j = 3 /\ p = 4)
    BY <1>0, <1>5, <2>3
  <2>. QED  BY <2>1, <2>2, <2>3
<1>9. Setting(s, f) = s[1 + (p + i)]
  BY <1>1, <1>7, <1>8, SettingIs
<1>10. s[1 + (p + i)] = x[1 + i]
  <2>1. 1 + (p + i) = p + (i + 1) /\ 1 + i = i + 1
    BY <1>0, <1>5
  <2>. QED  BY <1>0, <1>6, <2>1
<1>. QED  BY <1>4, <1>9, <1>10

\* What TLC reads from such a command.
LEMMA CommandRead ==
    ASSUME NEW s, NEW x, NEW p, NEW w, NEW m, Shape(s, x, p, w, m), Complete(x)
    PROVE  /\ \E i \in DOMAIN s : Modules(s) = {i} /\ s[i] = "X.tla"
           /\ Setting(s, "-config") = "X.cfg"
           /\ Given(x, "-workers") = {} => Setting(s, "-workers") = w
           /\ Given(x, "-maxSetSize") = {} =>
                IF p = 2 THEN Given(s, "-maxSetSize") = {} ELSE Setting(s, "-maxSetSize") = m
<1> DEFINE n == Len(x)
           V == IsValue(s)
<1>0. /\ p \in {2, 4} /\ n \in Nat /\ DOMAIN x = 1 .. n
      /\ DOMAIN s = 1 .. p + n + 3
      /\ s[1] = "-workers" /\ s[2] = w
      /\ (p = 4 => s[3] = "-maxSetSize" /\ s[4] = m)
      /\ \A i \in 1 .. n : s[p + i] = x[i]
      /\ s[p + n + 1] = "-config" /\ s[p + n + 2] = "X.cfg" /\ s[p + n + 3] = "X.tla"
  BY DEF Shape
<1>v. /\ ~V[1] /\ V[2]
      /\ p = 4 => ~V[3] /\ V[4]
      /\ \A i \in 1 .. n : V[p + i] <=> IsValue(x)[i]
      /\ ~V[p + n + 1] /\ V[p + n + 2] /\ ~V[p + n + 3]
  BY CommandValues
<1>w. /\ "-workers" \in Valued /\ "-maxSetSize" \in Valued /\ "-config" \in Valued
      /\ "-workers" \in Flags /\ "-maxSetSize" \in Flags /\ "-config" \in Flags /\ "X.tla" \notin Flags
  BY DEF Flags, Valued
<1>g. \A f \in Valued : Given(s, f) \subseteq Nat
  BY <1>0 DEF Given
<1>1. Modules(s) = {p + n + 3}
  <2>m. \A i : i \in Modules(s) <=> i \in DOMAIN s /\ s[i] \notin Flags /\ ~V[i]
    BY DEF Modules
  <2>x. \A i \in 1 .. n : x[i] \in Flags \/ IsValue(x)[i]
    BY <1>0 DEF Complete, Modules
  <2> HIDE DEF V
  <2>1. p + n + 3 \in Modules(s)
    <3>1. p + n + 3 \in DOMAIN s
      BY <1>0
    <3>. QED  BY <1>0, <1>v, <1>w, <2>m, <3>1
  <2>2. ASSUME NEW j \in Modules(s) PROVE j = p + n + 3
    <3>1. j \in 1 .. p + n + 3 /\ s[j] \notin Flags /\ ~V[j]
      BY <1>0, <2>m
    <3>2. CASE \E i \in 1 .. n : j = p + i
      BY <1>0, <1>v, <2>x, <3>1, <3>2
    <3>3. CASE j = 1 \/ j = 2 \/ (p = 4 /\ j = 3) \/ (p = 4 /\ j = 4)
      BY <1>0, <1>v, <1>w, <3>1, <3>3
    <3>4. CASE j = p + n + 1 \/ j = p + n + 2 \/ j = p + n + 3
      BY <1>0, <1>v, <1>w, <3>1, <3>4
    <3>. QED  BY <1>0, <3>1, <3>2, <3>3, <3>4, WordsAre
  <2>. QED  BY <2>1, <2>2
<1>2. \E i \in DOMAIN s : Modules(s) = {i} /\ s[i] = "X.tla"
  <2>1. p + n + 3 \in DOMAIN s
    BY <1>0
  <2>. QED  BY <1>0, <1>1, <2>1
<1>3. Setting(s, "-config") = "X.cfg"
  <2>1. p + n + 1 \in Given(s, "-config")
    BY <1>w, GivenIs
  <2>2. ASSUME NEW j \in Given(s, "-config") PROVE j <= p + n + 1
    <3>1. j = p + n + 1 \/ \E i \in Given(x, "-config") : j = p + i
      BY <1>w, GivenIs
    <3>2. Given(x, "-config") \subseteq 1 .. n
      BY <1>0 DEF Given
    <3>. QED  BY <1>0, <3>1, <3>2
  <2>3. Setting(s, "-config") = s[1 + (p + n + 1)]
    BY <1>g, <1>w, <2>1, <2>2, SettingIs
  <2>4. 1 + (p + n + 1) = p + n + 2
    BY <1>0
  <2>. QED  BY <1>0, <2>3, <2>4
<1>4. ASSUME Given(x, "-workers") = {} PROVE Setting(s, "-workers") = w
  <2>1. \A j : j \in Given(s, "-workers") <=> j = 1
    BY <1>4, <1>w, GivenIs
  <2>2. Setting(s, "-workers") = s[1 + 1]
    BY <1>g, <1>w, <2>1, SettingIs
  <2>. QED  BY <1>0, <2>2
<1>5. ASSUME Given(x, "-maxSetSize") = {}
      PROVE  IF p = 2 THEN Given(s, "-maxSetSize") = {} ELSE Setting(s, "-maxSetSize") = m
  <2>1. \A j : j \in Given(s, "-maxSetSize") <=> j = 3 /\ p = 4
    BY <1>5, <1>w, GivenIs
  <2>2. CASE p = 2
    BY <2>1, <2>2
  <2>3. CASE p = 4
    <3>1. Setting(s, "-maxSetSize") = s[1 + 3]
      BY <1>g, <1>w, <2>1, <2>3, SettingIs
    <3>. QED  BY <1>0, <2>3, <3>1
  <2>. QED  BY <1>0, <2>2, <2>3
<1>. QED  BY <1>2, <1>3, <1>4, <1>5

\* A table whose extra flags are words gives a configuration with them.
LEMMA TableIs ==
    ASSUME NEW in \in Inputs
    PROVE  /\ TlcConfig(in.tlc).extra_flags = Field(in.tlc, "extra_flags", << >>)
           /\ TlcConfig(in.tlc).workers = Field(in.tlc, "workers", "4")
           /\ TlcConfig(in.tlc).max_states = Field(in.tlc, "max_states", "0")
           /\ IsASequence(TlcConfig(in.tlc).extra_flags)
<1>1. /\ TlcConfig(in.tlc).extra_flags = Field(in.tlc, "extra_flags", << >>)
      /\ TlcConfig(in.tlc).workers = Field(in.tlc, "workers", "4")
      /\ TlcConfig(in.tlc).max_states = Field(in.tlc, "max_states", "0")
  BY DEF TlcConfig, default_workers
<1>2. IsASequence(Field(in.tlc, "extra_flags", << >>))
  <2>1. CASE "extra_flags" \in DOMAIN in.tlc
    <3>1. in.tlc["extra_flags"] \in Seq(STRING)
      BY <2>1, InputsAssumption
    <3>2. IsASequence(in.tlc["extra_flags"])
      BY <3>1, NamesOfSeq DEF IsASequence
    <3>. QED  BY <2>1, <3>2 DEF Field
  <2>2. CASE "extra_flags" \notin DOMAIN in.tlc
    <3>1. IsASequence(<< >>)
      BY DEF IsASequence, Names
    <3>. QED  BY <2>2, <3>1 DEF Field
  <2>. QED  BY <2>1, <2>2
<1>. QED  BY <1>1, <1>2

LEMMA CommandIsRight == WritingInv => CommandIsRead
<1> DEFINE x == Field(input.tlc, "extra_flags", << >>)
           w == Field(input.tlc, "workers", "4")
           m == Field(input.tlc, "max_states", "0")
           p == IF m = "0" THEN 2 ELSE 4
           Wanted(f, key, default) ==
             IF Given(x, f) /= {} THEN Setting(x, f) ELSE Field(input.tlc, key, default)
           limit == Wanted("-maxSetSize", "max_states", "0")
<1> SUFFICES ASSUME WritingInv, section = "done", Complete(x)
             PROVE  /\ \E i \in DOMAIN script : Modules(script) = {i} /\ script[i] = "X.tla"
                    /\ Setting(script, "-config") = "X.cfg"
                    /\ Setting(script, "-workers") = Wanted("-workers", "workers", "4")
                    /\ IF limit = "0" /\ Given(x, "-maxSetSize") = {}
                         THEN Given(script, "-maxSetSize") = {}
                         ELSE Setting(script, "-maxSetSize") = limit
  BY Zenon DEF CommandIsRead
<1>1. PICK k \in 1 .. 14 : Stands(input, k)
  BY DEF WritingInv
<1>2. k > 13
  <2>1. Place(k) = Place(14) /\ 14 \in 1 .. 14
    BY <1>1, Places DEF Stands
  <2>2. k = 14
    BY <2>1, PlaceIsOne, Zenon
  <2>. QED  BY <2>2
<1>3. script = tlc_command(TlcConfig(input.tlc)) /\ input \in Inputs
  BY <1>1, <1>2 DEF Stands, FilesAt, WritingInv
<1>4. Shape(script, x, p, w, m)
  <2> DEFINE c == TlcConfig(input.tlc)
  <2>1. /\ c.extra_flags = x /\ c.workers = w /\ c.max_states = m /\ IsASequence(c.extra_flags)
    BY <1>3, TableIs
  <2>2. Shape(tlc_command(c), c.extra_flags, IF c.max_states = "0" THEN 2 ELSE 4, c.workers, c.max_states)
    BY <2>1, CommandShape
  <2> HIDE DEF c, x, w, m
  <2>. QED  BY <1>3, <2>1, <2>2 DEF c
<1> HIDE DEF x, p
<1>5. /\ \E i \in DOMAIN script : Modules(script) = {i} /\ script[i] = "X.tla"
      /\ Setting(script, "-config") = "X.cfg"
      /\ Given(x, "-workers") = {} => Setting(script, "-workers") = w
      /\ Given(x, "-maxSetSize") = {} =>
           IF p = 2 THEN Given(script, "-maxSetSize") = {} ELSE Setting(script, "-maxSetSize") = m
  BY <1>4, CommandRead
<1>6. \A f \in {"-workers", "-maxSetSize"} : Given(x, f) /= {} => Setting(script, f) = Setting(x, f)
  BY <1>4, AddedCounts
<1>7. Setting(script, "-workers") = Wanted("-workers", "workers", "4")
  BY <1>5, <1>6
<1>8. IF limit = "0" /\ Given(x, "-maxSetSize") = {}
        THEN Given(script, "-maxSetSize") = {}
        ELSE Setting(script, "-maxSetSize") = limit
  <2>1. CASE Given(x, "-maxSetSize") /= {}
    BY <1>6, <2>1
  <2>2. CASE Given(x, "-maxSetSize") = {}
    <3>1. limit = m
      BY <2>2
    <3>2. p = 2 <=> m = "0"
      BY DEF p
    <3>. QED  BY <1>5, <2>2, <3>1, <3>2
  <2>. QED  BY <2>1, <2>2
<1>. QED  BY <1>5, <1>7, <1>8

\* Whatever complete flags the manifest adds, the command of the run script
\* starts TLC on the machine's module and configuration, and an added flag
\* wins over a field of the table, and that over its default.
THEOREM TheCommandIsRead == Spec => []CommandIsRead
BY InitWriting, StepWriting, CommandIsRight, PTL DEF Spec
==============================================================================
