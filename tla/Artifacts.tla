------------------------------ MODULE Artifacts ------------------------------
(***************************************************************************)
(* The text the generators write for one accepted machine, down to what a  *)
(* TLA+ tool would resolve: which identifiers it declares or defines, in   *)
(* which order, at which level, from which others; and which of them the   *)
(* TLC configuration names.  One action per section of the module, then    *)
(* the other three files; of the run script, the command that starts TLC.  *)
(*                                                                         *)
(* A name is a sequence of characters, and a word that only ever occurs    *)
(* whole counts as a letter.                                               *)
(***************************************************************************)
EXTENDS Naturals, Sequences

CONSTANTS
    Letter,    \* characters a TLA+ identifier may begin with
    Digit,
    Other,     \* characters it may not contain
    Library,   \* identifiers of Naturals, Sequences and TLC
    Inputs,    \* [machine, properties, tlc]
    NoLabel    \* a transition without a label

\* The words the generators put into identifiers.
Fixed == {"state", "vars", "Init", "Next", "Spec", "FairSpec", "TypeInvariant",
          "Trans_", "Action_", "Prop_", "UnnamedAction"}
Char == Letter \cup Digit \cup Other \cup {"_"}
Kind == {"safety", "liveness", "fairness"}

\* The parser lets only these through as names of states and variables.
IsIdentifier(n) ==
    n /= << >> /\ n[1] \in Letter /\ \A i \in DOMAIN n : n[i] \in Char \ Other
Names(s) == {s[i] : i \in DOMAIN s}

ASSUME ArtifactsAssumption ==
    /\ Fixed \subseteq Letter
    /\ Letter \cap (Digit \cup Other \cup {"_"}) = {}
    /\ "_" \notin Digit \cup Other /\ Digit \cap Other = {}
    /\ Library \subseteq Seq(Char)
    /\ \A n \in Library : IsIdentifier(n) /\ n[1] \notin Fixed
\* The machines are accepted, so the initial state is declared; validate has
\* found no property without a name.
ASSUME InputsAssumption ==
    \A in \in Inputs :
        /\ in.machine.states \in Seq(Seq(Char)) /\ in.machine.variables \in Seq(Seq(Char))
        /\ \A n \in Names(in.machine.states) \cup Names(in.machine.variables) : IsIdentifier(n)
        /\ \E i \in DOMAIN in.machine.states : in.machine.states[i] = in.machine.initial_state
        /\ in.machine.transitions \in
             Seq([from : Seq(Char), to : Seq(Char), label : {NoLabel} \cup Seq(Char)])
        /\ in.properties \in Seq([name : Seq(Char) \ {<< >>}, kind : Kind])
        /\ "extra_flags" \in DOMAIN in.tlc => in.tlc["extra_flags"] \in Seq(STRING)

VARIABLES
    input,    \* what is being generated; never assigned
    section,  \* the section generate_tla_spec writes next
    text,     \* what it has written: items in their order
    pcal,     \* what generate_pluscal has written
    config,   \* the entries of the .cfg file
    script    \* the words of the command in the run script, from -jar on

avars == <<input, section, text, pcal, config, script>>

------------------------------------------------------------------------------
(* Identifiers. *)

Clean(n) == [i \in DOMAIN n |-> IF n[i] \in Other THEN "_" ELSE n[i]]

\* tla_gen: a first character that is not a letter is replaced, and kept only
\* behind the prefix, when it is a digit.
sanitize_identifier(n) ==
    IF n = << >> THEN <<"UnnamedAction">>
    ELSE IF n[1] \in Letter THEN Clean(n)
    ELSE <<"Action_">> \o (IF n[1] \in Digit THEN <<n[1]>> ELSE << >>) \o Tail(Clean(n))

\* tlc_gen, and pluscal_gen with the same body: the prefix comes on top.
PrefixEvery(n) == <<"Prop_">> \o Clean(n)
sanitize_cfg_name(n) ==
    IF n = << >> \/ n[1] \notin Letter THEN <<"Prop_">> \o Clean(n) ELSE Clean(n)
KeepOthers(n) == IF n = << >> \/ n[1] \notin Letter THEN <<"Prop_">> \o n ELSE n
sanitize_pcal_identifier(n) ==
    IF n = << >> \/ n[1] \notin Letter THEN <<"Prop_">> \o Clean(n) ELSE Clean(n)

\* (Slip: the target is left out of the name.)
NamedBySource(t) ==
    IF t.label = NoLabel THEN <<"Trans_">> \o t.from ELSE sanitize_identifier(t.label)
ActionName(t) ==
    IF t.label = NoLabel THEN <<"Trans_">> \o t.from \o <<"_">> \o t.to
    ELSE sanitize_identifier(t.label)

------------------------------------------------------------------------------
(* One declared or defined identifier: its level, the identifiers its body  *)
(* mentions, and the index of what it was made from, where there are many.  *)
Item(n, level, uses, of) == [name |-> n, level |-> level, uses |-> uses, of |-> of]

Numbered(n, F(_)) == [i \in 1 .. n |-> F(i)]

\* The names a manifest of this machine speaks of.
Variables(in) == <<<<"state">>>> \o in.machine.variables
User(in) == Names(in.machine.states) \cup Names(Variables(in))

\* Nothing but the EXTENDS clause and a comment.
generate_module_header(in) == << >>
generate_constants(in) ==
    Numbered(Len(in.machine.states), LAMBDA i : Item(in.machine.states[i], "constant", {}, i))
generate_variables(in) ==
    Numbered(Len(Variables(in)), LAMBDA i : Item(Variables(in)[i], "state", {}, i))
generate_type_invariant(in) ==
    <<Item(<<"TypeInvariant">>, "state", {<<"state">>} \cup Names(in.machine.states), 1)>>
generate_init(in) ==
    <<Item(<<"Init">>, "state", Names(Variables(in)) \cup {in.machine.initial_state}, 1)>>
generate_transition_actions(in) ==
    Numbered(Len(in.machine.transitions),
             LAMBDA i : Item(ActionName(in.machine.transitions[i]), "action", User(in), i))
\* (Slip: the first disjunct, which is written differently, is forgotten.)
NextSkipsFirst(in) ==
    <<Item(<<"Next">>, "action",
           {ActionName(in.machine.transitions[i]) : i \in DOMAIN in.machine.transitions \ {1}}, 1)>>
generate_next(in) ==
    <<Item(<<"Next">>, "action",
           {ActionName(in.machine.transitions[i]) : i \in DOMAIN in.machine.transitions}, 1)>>
generate_vars_tuple(in) == <<Item(<<"vars">>, "state", Names(Variables(in)), 1)>>
generate_spec(in) ==
    <<Item(<<"Spec">>, "temporal", {<<"Init">>, <<"Next">>, <<"vars">>}, 1),
      Item(<<"FairSpec">>, "temporal", {<<"Spec">>, <<"Next">>, <<"vars">>}, 1)>>
\* [] or <> around the formula; a fairness formula as it is.
generate_properties(in) ==
    Numbered(Len(in.properties),
             LAMBDA i : Item(sanitize_identifier(in.properties[i].name), "temporal",
                             IF in.properties[i].kind = "fairness"
                               THEN {<<"Next">>, <<"vars">>} ELSE User(in), i))

\* The order of generate_tla_spec, and one with the specification too early.
SpecFirst ==
    <<"header", "constants", "variables", "type_invariant", "init", "transitions",
      "next", "spec", "vars", "properties", "footer", "configuration", "script">>
Order ==
    <<"header", "constants", "variables", "type_invariant", "init", "transitions",
      "next", "vars", "spec", "properties", "footer", "configuration", "script">>
Following(s) == Order[(CHOOSE i \in DOMAIN Order : Order[i] = s) + 1]

------------------------------------------------------------------------------
Init ==
    /\ input \in Inputs
    /\ section = "header" /\ text = << >> /\ pcal = << >>
    /\ config = << >> /\ script = << >>

Write(s, items) ==
    /\ section = s
    /\ text' = text \o items
    /\ section' = Following(s)
    /\ UNCHANGED <<input, pcal, config, script>>

Header        == Write("header", generate_module_header(input))
Constants     == Write("constants", generate_constants(input))
VariablesDecl == Write("variables", generate_variables(input))
TypeInvariant == Write("type_invariant", generate_type_invariant(input))
InitPredicate == Write("init", generate_init(input))
Transitions   == Write("transitions", generate_transition_actions(input))
NextRelation  == Write("next", generate_next(input))
VarsTuple     == Write("vars", generate_vars_tuple(input))
Specification == Write("spec", generate_spec(input))
Properties    == Write("properties", generate_properties(input))

\* The footer ends the module; generate_pluscal writes its own, in which the
\* algorithm declares the variables.
generate_pluscal(in) ==
    generate_constants(in) \o generate_variables(in)
      \o Numbered(Len(in.properties),
                  LAMBDA i : [generate_properties(in)[i] EXCEPT
                                !.name = sanitize_pcal_identifier(in.properties[i].name)])
PlusCal ==
    /\ section = "footer"
    /\ pcal' = generate_pluscal(input)
    /\ section' = Following("footer")
    /\ UNCHANGED <<input, text, config, script>>

\* serde: a key of the [tlc] table that is no field of TlcConfig is ignored,
\* a field without a key gets its default.  Numbers are written as they read.
default_workers == "4"
Field(table, key, default) == IF key \in DOMAIN table THEN table[key] ELSE default
TlcConfig(table) ==
    [workers |-> Field(table, "workers", default_workers),
     max_states |-> Field(table, "max_states", "0"),
     symmetry |-> Field(table, "symmetry", FALSE),
     extra_flags |-> Field(table, "extra_flags", << >>)]

Entry(directive, form, names) == [directive |-> directive, form |-> form, names |-> names]
Entries(directive, ps) ==
    [i \in DOMAIN ps |-> Entry(directive, "name", {sanitize_cfg_name(ps[i].name)})]

\* filter: the elements of s that are in S, in their order.
Only(s, S) ==
    LET kept[n \in 0 .. Len(s)] ==
            IF n = 0 THEN << >>
            ELSE IF s[n] \in S THEN Append(kept[n - 1], s[n]) ELSE kept[n - 1]
    IN  kept[Len(s)]
OfKind(in, kinds) == {p \in Names(in.properties) : p.kind \in kinds}

\* (Slip: fairness properties are forgotten.)
LivenessOnly(in) == Only(in.properties, OfKind(in, {"liveness"}))
TemporalProps(in) == Only(in.properties, OfKind(in, {"liveness", "fairness"}))
SafetyProps(in) == Only(in.properties, OfKind(in, {"safety"}))

generate_tlc_cfg(in) ==
    <<Entry("SPECIFICATION", "name",
            {IF TemporalProps(in) /= << >> THEN <<"FairSpec">> ELSE <<"Spec">>})>>
    \o [i \in DOMAIN in.machine.states |->
          Entry("CONSTANT", "assignment", {in.machine.states[i]})]
    \o <<Entry("INVARIANT", "name", {<<"TypeInvariant">>})>>
    \o Entries("INVARIANT", SafetyProps(in))
    \o Entries("PROPERTY", TemporalProps(in))
    \o (IF TlcConfig(in.tlc).symmetry /\ Len(in.machine.states) > 1
          THEN <<Entry("SYMMETRY", "expression", Names(in.machine.states))>> ELSE << >>)

Configure ==
    /\ section = "configuration"
    /\ config' = generate_tlc_cfg(input)
    /\ section' = Following("configuration")
    /\ UNCHANGED <<input, text, pcal, script>>

\* Each setting pushed behind the last, X being the machine.  (Slip: the
\* additional flags come last.)
Limit(c) == IF c.max_states = "0" THEN << >> ELSE <<"-maxSetSize", c.max_states>>
FlagsLast(c) ==
    <<"-workers", c.workers>> \o Limit(c) \o <<"-config", "X.cfg", "X.tla">> \o c.extra_flags
tlc_command(c) ==
    <<"-workers", c.workers>> \o Limit(c) \o c.extra_flags \o <<"-config", "X.cfg", "X.tla">>

RunScript ==
    /\ section = "script"
    /\ script' = tlc_command(TlcConfig(input.tlc))
    /\ section' = "done"
    /\ UNCHANGED <<input, text, pcal, config>>

Next ==
    \/ Header \/ Constants \/ VariablesDecl \/ TypeInvariant \/ InitPredicate
    \/ Transitions \/ NextRelation \/ VarsTuple \/ Specification \/ Properties
    \/ PlusCal \/ Configure \/ RunScript

Spec == Init /\ [][Next]_avars

------------------------------------------------------------------------------
(* Every identifier is declared or defined before the first definition that *)
(* mentions it, at every point of the module.                               *)
DefinedBeforeUse ==
    \A i \in DOMAIN text : \A n \in text[i].uses :
        n \in Library \/ \E j \in 1 .. i - 1 : text[j].name = n

(* What the parser does not check and a user has to keep to: once cleaned,  *)
(* the names of states, variables, labelled transitions and properties are  *)
(* distinct and not taken, and so are the ends of the other transitions.    *)
Bearers(in) ==
    ({"state"} \X DOMAIN in.machine.states) \cup ({"variable"} \X DOMAIN in.machine.variables)
      \cup ({"transition"} \X {i \in DOMAIN in.machine.transitions :
                                in.machine.transitions[i].label /= NoLabel})
      \cup ({"property"} \X DOMAIN in.properties)
NameOf(in, b) ==
    CASE b[1] = "state" -> in.machine.states[b[2]]
      [] b[1] = "variable" -> in.machine.variables[b[2]]
      [] b[1] = "transition" -> in.machine.transitions[b[2]].label
      [] b[1] = "property" -> in.properties[b[2]].name
Ends(t) == t.from \o <<"_">> \o t.to
Distinct(s) == \A i, j \in DOMAIN s : s[i] = s[j] => i = j
Apart(in) ==
    /\ \A b, c \in Bearers(in) : Clean(NameOf(in, b)) = Clean(NameOf(in, c)) => b = c
    /\ \A b \in Bearers(in) :
         LET n == NameOf(in, b)
         IN  n /= << >> /\ n[1] \in Letter \ Fixed /\ Clean(n) \notin Library
    /\ \A i, j \in DOMAIN in.machine.transitions :
         LET t == in.machine.transitions[i]
             u == in.machine.transitions[j]
         IN  t.label = NoLabel /\ u.label = NoLabel /\ Ends(t) = Ends(u) => i = j

(* No identifier of the module is introduced twice, or taken from a library *)
(* module.                                                                  *)
Unambiguous ==
    /\ Distinct([i \in DOMAIN text |-> text[i].name])
    /\ \A i \in DOMAIN text : text[i].name \notin Library
UnambiguousWhenApart == Apart(input) => Unambiguous

(* Each transition becomes an operator of its own, and the operators Next   *)
(* mentions are exactly those.                                              *)
NextIsEveryTransition ==
    Apart(input) =>
        \A k \in DOMAIN text : text[k].name = <<"Next">> =>
            /\ \A n \in text[k].uses : \E j \in 1 .. k - 1 : text[j].name = n
            /\ {text[j].of : j \in {i \in 1 .. k - 1 : text[i].name \in text[k].uses}}
                 = DOMAIN input.machine.transitions

(* What the configuration names is in the module: a constant where it is    *)
(* given a value, a state predicate as the type invariant, a temporal       *)
(* formula as the specification and as a property.  Of the two kinds of     *)
(* entry that TLC refuses only the names are asked for: an INVARIANT that   *)
(* is a property of the manifest is temporal (InvariantsAreStatePredicates), *)
(* and the SYMMETRY set is an expression where a name is wanted.            *)
Defines(n, levels) == \E j \in DOMAIN text : text[j].name = n /\ text[j].level \in levels
\* No property name begins with a digit or a sign.
LettersFirst(in) == \A i \in DOMAIN in.properties : in.properties[i].name[1] \in Letter
Refused(e) ==
    \/ e.directive = "INVARIANT" /\ e.names /= {<<"TypeInvariant">>}
    \/ e.directive = "SYMMETRY"
LevelFor(e) ==
    CASE e.directive = "CONSTANT" -> "constant"
      [] e.directive = "INVARIANT" -> "state"
      [] OTHER -> "temporal"
EntryResolves(e) ==
    \A n \in e.names :
        Defines(n, IF Refused(e) THEN {"constant", "temporal"} ELSE {LevelFor(e)})
ConfigResolves ==
    Apart(input) => \A i \in DOMAIN config : EntryResolves(config[i])

(* And nothing of the module is left out: each constant gets a value, each  *)
(* property of the manifest is checked by the directive for its kind.       *)
ConfigIsComplete ==
    section = "done" /\ LettersFirst(input) =>
        /\ \A s \in Names(input.machine.states) : Entry("CONSTANT", "assignment", {s}) \in Names(config)
        /\ \A p \in Names(input.properties) :
             Entry(IF p.kind = "safety" THEN "INVARIANT" ELSE "PROPERTY", "name",
                   {sanitize_identifier(p.name)}) \in Names(config)

(* The PlusCal module defines the properties under the names the TLA+       *)
(* module gives them.                                                       *)
PropertiesOf(t) ==
    Only(t, {d \in Names(t) : d.level = "temporal" /\ d.name \notin {<<"Spec">>, <<"FairSpec">>}})
SameProperties ==
    section \in {"configuration", "script", "done"} /\ LettersFirst(input) =>
        PropertiesOf(pcal) = PropertiesOf(text)

(* What TLC makes of such a line of words: a flag that takes a value takes   *)
(* the word behind it, the last flag of a kind counts, the rest are modules. *)
Valued == {"-workers", "-maxSetSize", "-config", "-depth"}
Flags == Valued \cup {"-deadlock"}
IsValue(ws) ==
    LET taken[i \in 0 .. Len(ws)] == i > 1 /\ ws[i - 1] \in Valued /\ ~taken[i - 1]
    IN  taken
Given(ws, f) == {i \in DOMAIN ws : ws[i] = f /\ ~IsValue(ws)[i]}
Setting(ws, f) == ws[1 + (CHOOSE i \in Given(ws, f) : \A j \in Given(ws, f) : j <= i)]
Modules(ws) == {i \in DOMAIN ws : ws[i] \notin Flags /\ ~IsValue(ws)[i]}
Complete(ws) ==
    Modules(ws) = {} /\ (ws /= << >> => ~(ws[Len(ws)] \in Valued /\ ~IsValue(ws)[Len(ws)]))

(* Whatever flags the manifest adds, as long as each has its value, TLC is   *)
(* started on the module and the configuration of the machine; an added flag *)
(* comes before a field of the table, and that before its default.           *)
CommandIsRead ==
    LET extra == Field(input.tlc, "extra_flags", << >>)
        Wanted(f, key, default) ==
            IF Given(extra, f) /= {} THEN Setting(extra, f) ELSE Field(input.tlc, key, default)
    IN  section = "done" /\ Complete(extra) =>
            /\ \E i \in DOMAIN script : Modules(script) = {i} /\ script[i] = "X.tla"
            /\ Setting(script, "-config") = "X.cfg"
            /\ Setting(script, "-workers") = Wanted("-workers", "workers", "4")
            /\ LET limit == Wanted("-maxSetSize", "max_states", "0")
               IN  IF limit = "0" /\ Given(extra, "-maxSetSize") = {}
                     THEN Given(script, "-maxSetSize") = {}
                     ELSE Setting(script, "-maxSetSize") = limit

(* "Max states limit (if set)": a limit set in the table, with the key that  *)
(* the template of init uses, reaches the command.                           *)
LimitIsPassed ==
    section = "done" =>
        \A key \in {"max_states", "max-states"} \cap DOMAIN input.tlc :
            input.tlc[key] /= "0" => Given(script, "-maxSetSize") /= {}

(* "INVARIANT: safety properties (checked as state invariants)": TLC takes  *)
(* no temporal formula for an invariant.                                    *)
InvariantsAreStatePredicates ==
    \A i \in DOMAIN config : config[i].directive = "INVARIANT" =>
        \A n \in config[i].names : ~Defines(n, {"temporal"})
==============================================================================
