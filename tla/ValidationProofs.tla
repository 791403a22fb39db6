-------------------------- MODULE ValidationProofs --------------------------
(* Why a whole manifest is judged rightly: each call of the validator       *)
(* starts with fresh locals, so the invariant of module Parser holds in     *)
(* every call, and each pass leaves behind it what the next one relies on.  *)
EXTENDS Validation, ParserProofs

(* The entry of a machine and what to_abi makes of it have the same faults. *)
LEMMA AbiType ==
    ASSUME NEW c \in StateMachineConfig
    PROVE  /\ to_abi(c) \in StateMachine
           /\ to_abi(c).states = c.states /\ to_abi(c).initial_state = c.initial_state
           /\ to_abi(c).name = c.name
           /\ Elements(to_abi(c).variables) = {v.name : v \in Elements(c.variables)}
           /\ DOMAIN to_abi(c).transitions = DOMAIN c.transitions
           /\ \A i \in DOMAIN c.transitions :
                /\ to_abi(c).transitions[i].from = c.transitions[i].from
                /\ to_abi(c).transitions[i].to = c.transitions[i].to
           /\ c.states \in Seq(Names) /\ c.initial_state \in Names
<1>1. /\ c.variables \in Seq(VariableConfig) /\ c.transitions \in Seq(TransitionConfig)
      /\ c.states \in Seq(Names) /\ c.initial_state \in Names /\ c.name \in Names
  BY DEF StateMachineConfig
<1> DEFINE vs == [i \in DOMAIN c.variables |-> c.variables[i].name]
           ts == [i \in DOMAIN c.transitions |->
                    [from |-> c.transitions[i].from, to |-> c.transitions[i].to]]
<1>2. vs \in Seq(Names)
  <2>1. /\ DOMAIN c.variables = 1 .. Len(c.variables) /\ Len(c.variables) \in Nat
        /\ \A i \in 1 .. Len(c.variables) : c.variables[i] \in VariableConfig
    BY <1>1, ElementOfSeq, LenProperties
  <2>2. \A i \in 1 .. Len(c.variables) : c.variables[i].name \in Names
    BY <2>1 DEF VariableConfig
  <2>3. vs \in [1 .. Len(c.variables) -> Names]
    BY <2>1, <2>2
  <2>4. QED
    BY <2>1, <2>3, SeqDef
<1>3. ts \in Seq([from : Names, to : Names])
  <2>1. /\ DOMAIN c.transitions = 1 .. Len(c.transitions) /\ Len(c.transitions) \in Nat
        /\ \A i \in 1 .. Len(c.transitions) : c.transitions[i] \in TransitionConfig
    BY <1>1, ElementOfSeq, LenProperties
  <2>2. \A i \in 1 .. Len(c.transitions) : c.transitions[i].from \in Names /\ c.transitions[i].to \in Names
    BY <2>1 DEF TransitionConfig
  <2>3. ts \in [1 .. Len(c.transitions) -> [from : Names, to : Names]]
    BY <2>1, <2>2
  <2>4. QED
    BY <2>1, <2>3, SeqDef
<1>4. to_abi(c) = [name |-> c.name, states |-> c.states, initial_state |-> c.initial_state,
                   variables |-> vs, transitions |-> ts]
  BY DEF to_abi
<1>5. Elements(vs) = {v.name : v \in Elements(c.variables)}
  BY DEF Elements
<1> HIDE DEF vs, ts
<1>6. to_abi(c).variables = vs /\ to_abi(c).transitions = ts
  BY <1>4
<1>7. to_abi(c) \in StateMachine
  BY <1>1, <1>2, <1>3, <1>4 DEF StateMachine
<1>8. DOMAIN ts = DOMAIN c.transitions
      /\ \A i \in DOMAIN c.transitions :
           ts[i].from = c.transitions[i].from /\ ts[i].to = c.transitions[i].to
  BY DEF ts
<1>9. QED
  BY <1>1, <1>4, <1>5, <1>6, <1>7, <1>8

LEMMA StructureOfAbi ==
    ASSUME NEW c \in StateMachineConfig
    PROVE  NoErrors(to_abi(c)) <=> Structured(c)
<1>1. all_state_names(to_abi(c)) = Elements(c.states)
  BY AbiType DEF all_state_names
<1>2. Dangling(to_abi(c)) <=>
        ~(\A t \in Elements(c.transitions) : {t.from, t.to} \subseteq Elements(c.states))
  BY <1>1, AbiType DEF Dangling, Elements
<1>3. Duplicated(to_abi(c)) <=>
        ~(\A i, j \in DOMAIN c.states : c.states[i] = c.states[j] => i = j)
  <2>1. DOMAIN c.states = 1 .. Len(c.states) /\ Len(c.states) \in Nat
    BY AbiType, LenProperties
  <2>2. \A i, j \in DOMAIN c.states : /\ i /= j => i < j \/ j < i
                                      /\ i < j => i /= j
    BY <2>1
  <2>3. to_abi(c).states = c.states
    BY AbiType
  <2>4. QED
    BY <2>2, <2>3 DEF Duplicated
<1>4. NoInitial(to_abi(c)) <=> c.initial_state \notin Elements(c.states)
  BY <1>1, AbiType DEF NoInitial
<1>5. c.initial_state \in Elements(c.states) => ~NoStates(to_abi(c))
  BY AbiType, ElementsType DEF NoStates
<1>6. QED
  BY <1>2, <1>3, <1>4, <1>5 DEF NoErrors, Structured

LEMMA SoundnessOfAbi ==
    ASSUME NEW c \in StateMachineConfig
    PROVE  Sound(c) <=> /\ NoErrors(to_abi(c)) /\ AllIdentifiers(to_abi(c))
                        /\ all_state_names(to_abi(c)) \subseteq Reachable(to_abi(c))
<1> DEFINE m == to_abi(c)
           A == Elements(c.states)
           Leaves(S) == \A t \in Elements(c.transitions) : t.from \in S => t.to \in S
<1>1. all_state_names(m) = A /\ m.initial_state = c.initial_state /\ A \subseteq Names
  BY AbiType, ElementsType DEF all_state_names
<1>2. AllIdentifiers(m) <=>
        {c.name} \cup A \cup {v.name : v \in Elements(c.variables)} \subseteq LegalNames
  BY <1>1, AbiType DEF AllIdentifiers
<1>3. NoErrors(m) <=> Structured(c)
  BY StructureOfAbi
<1>4. \A S : Closed(m, S) <=> Leaves(S)
  BY AbiType DEF Closed, Elements
<1>5. ASSUME Structured(c)
      PROVE  A \subseteq Reachable(m) <=>
               \A S \in SUBSET A : c.initial_state \in S /\ Leaves(S) => S = A
  <2>1. \A t \in Elements(c.transitions) : t.from \in A /\ t.to \in A
    BY <1>5 DEF Structured
  <2>2. c.initial_state \in A
    BY <1>5 DEF Structured
  <2> HIDE DEF m, A, Leaves
  <2>3. ASSUME A \subseteq Reachable(m), NEW S \in SUBSET A, c.initial_state \in S, Leaves(S)
        PROVE  S = A
    BY <1>1, <1>4, <2>3 DEF Reachable, Enclosing
  <2>4. ASSUME \A S \in SUBSET A : c.initial_state \in S /\ Leaves(S) => S = A,
               NEW n \in A, NEW S \in Enclosing(m)
        PROVE  n \in S
    <3>1. c.initial_state \in S /\ Leaves(S)
      BY <1>1, <1>4 DEF Enclosing
    <3>2. c.initial_state \in S \cap A /\ Leaves(S \cap A)
      BY <2>1, <2>2, <3>1 DEF Leaves
    <3>3. S \cap A = A
      BY <2>4, <3>2
    <3>4. QED
      BY <3>3
  <2>5. QED
    BY <1>1, <2>3, <2>4 DEF Reachable
<1>6. Sound(c) <=>
        /\ Structured(c)
        /\ {c.name} \cup A \cup {v.name : v \in Elements(c.variables)} \subseteq LegalNames
        /\ \A S \in SUBSET A : c.initial_state \in S /\ Leaves(S) => S = A
  BY DEF Sound
<1> HIDE DEF m, A, Leaves
<1>7. Sound(c) <=> NoErrors(m) /\ AllIdentifiers(m) /\ all_state_names(m) \subseteq Reachable(m)
  BY <1>1, <1>2, <1>3, <1>5, <1>6
<1>8. QED
  BY <1>7 DEF m

-----------------------------------------------------------------------------
(* A call starts in a state that satisfies the invariant of module Parser.  *)
LEMMA CallIInv == (sm \in StateMachine /\ Started)' => IInv'
  BY StartedIInv, PTL

LEMMA FreshCall ==
    ASSUME NEW c \in StateMachineConfig, Call(to_abi(c))
    PROVE  IInv' /\ sm' = to_abi(c) /\ pc' = "structural"
<1>1. sm' = to_abi(c) /\ pc' = "structural" /\ Started'
  BY DEF Call, Started
<1>2. to_abi(c) \in StateMachine
  BY AbiType
<1>3. QED
  BY <1>1, <1>2, CallIInv

LEMMA ManifestType ==
    ASSUME VTypeOK
    PROVE  /\ manifest.project \in Text
           /\ machines \in Seq(StateMachineConfig) /\ properties \in Seq(PropertyConfig)
           /\ DOMAIN machines = 1 .. Len(machines) /\ Len(machines) \in Nat
           /\ DOMAIN properties = 1 .. Len(properties) /\ Len(properties) \in Nat
           /\ \A i \in DOMAIN machines : machines[i] \in StateMachineConfig
           /\ machines /= << >> => 1 \in DOMAIN machines
<1>1. /\ machines \in Seq(StateMachineConfig) /\ properties \in Seq(PropertyConfig)
      /\ manifest.project \in Text
  BY DEF VTypeOK, Manifest, machines, properties
<1>2. /\ DOMAIN machines = 1 .. Len(machines) /\ Len(machines) \in Nat
      /\ DOMAIN properties = 1 .. Len(properties) /\ Len(properties) \in Nat
  BY <1>1, LenProperties
<1>3. \A i \in 1 .. Len(machines) : machines[i] \in StateMachineConfig
  BY <1>1, ElementOfSeq
<1>4. machines /= << >> => 1 \in 1 .. Len(machines)
  BY <1>1, <1>2, EmptySeq
<1>5. QED
  BY <1>1, <1>2, <1>3, <1>4

LEMMA InitVInv == VInit => VInv
<1> SUFFICES ASSUME VInit PROVE VInv
  OBVIOUS
<1>1. VTypeOK
  <2>1. manifest \in Manifest
    BY ValidationAssumption DEF VInit
  <2>2. at = 1 /\ stage = "project" /\ outDir = FALSE /\ cmd \in {"validate", "generate"}
    BY DEF VInit
  <2>3. at \in Nat \ {0}
    BY <2>2
  <2>4. outDir \in BOOLEAN
    BY <2>2, Zenon
  <2>5. QED
    BY <2>1, <2>2, <2>3, <2>4, Zenon DEF VTypeOK
<1>2. sm \in StateMachine
  <2>1. CASE machines = << >>
    <3>1. sm = CHOOSE m \in Machines : TRUE
      BY <2>1 DEF VInit
    <3>2. \E m \in Machines : TRUE
      BY ValidationAssumption
    <3>3. sm \in Machines
      BY <3>1, <3>2
    <3>4. QED
      BY <3>3, ParserAssumption
  <2>2. CASE machines /= << >>
    <3>1. sm = to_abi(machines[1]) /\ machines[1] \in StateMachineConfig
      BY <1>1, <2>2, ManifestType DEF VInit
    <3>2. QED
      BY <3>1, AbiType
  <2>3. QED
    BY <2>1, <2>2
<1>3. IInv
  BY <1>2, StartedIInv DEF VInit
<1>4. Shallow /\ DeepPass /\ BlamesFirst
  BY DEF VInit, Started, Shallow, DeepPass, BlamesFirst
<1>5. QED
  BY <1>1, <1>3, <1>4 DEF VInv

(* What the search says of a machine of the manifest when it has returned.  *)
LEMMA Returned ==
    ASSUME IInv, NEW c \in StateMachineConfig, sm = to_abi(c)
    PROVE  /\ pc = "accepted" => Sound(c)
           /\ pc = "rejected" => ~Sound(c)
  BY SoundnessOfAbi DEF IInv, Phases, Verdict

LEMMA StepVInv == VInv /\ [VNext]_vvars => VInv'
<1> SUFFICES ASSUME VInv, [VNext]_vvars PROVE VInv'
  OBVIOUS
<1>0. VTypeOK /\ IInv /\ Shallow /\ DeepPass /\ BlamesFirst
  BY DEF VInv
<1>m. /\ DOMAIN machines = 1 .. Len(machines) /\ Len(machines) \in Nat
      /\ DOMAIN properties = 1 .. Len(properties) /\ Len(properties) \in Nat
      /\ \A i \in DOMAIN machines : machines[i] \in StateMachineConfig
      /\ machines /= << >> => 1 \in DOMAIN machines
      /\ at \in Nat \ {0}
  BY <1>0, ManifestType DEF VTypeOK
<1>u. UNCHANGED vars => IInv'
  BY <1>0, StepIInv
<1>1. CASE Project
  <2>1. /\ stage = "project" /\ at' = 1 /\ UNCHANGED <<manifest, cmd, outDir, vars>>
        /\ stage' = IF manifest.project = NoText \/ machines = << >> THEN "failed" ELSE "machines"
    BY <1>1 DEF Project, Goto, command
  <2>2. IInv' /\ VTypeOK'
    BY <1>0, <2>1, <1>u DEF VTypeOK
  <2>3. ~outDir /\ pc' = pc /\ stage' \in {"failed", "machines"}
    BY <1>0, <2>1 DEF Shallow, vars
  <2>4. Shallow'
    BY <1>0, <1>m, <2>1, <2>3 DEF Shallow, machines, properties, AllStructured, AllGood
  <2>5. DeepPass'
    BY <2>1, <2>3 DEF DeepPass
  <2>6. BlamesFirst'
    BY <1>m, <2>1, <2>3 DEF BlamesFirst, Sound, machines
  <2>7. QED
    BY <2>2, <2>4, <2>5, <2>6 DEF VInv
<1>2. CASE MachineLoop
  <2>1. stage = "machines" /\ UNCHANGED <<manifest, cmd, outDir, vars>>
    BY <1>2 DEF MachineLoop, command
  <2>2. \/ at > Len(machines) /\ stage' = "properties" /\ at' = 1
        \/ /\ at <= Len(machines) /\ NoErrors(to_abi(machines[at]))
           /\ at' = at + 1 /\ stage' = stage
        \/ /\ at <= Len(machines) /\ ~NoErrors(to_abi(machines[at]))
           /\ stage' = "failed" /\ at' = at
    BY <1>2 DEF MachineLoop, Goto
  <2>3. IInv' /\ VTypeOK'
    BY <1>0, <1>m, <2>1, <2>2, <1>u DEF VTypeOK
  <2>4. ~outDir /\ pc' = pc /\ ~outDir' /\ machines' = machines /\ properties' = properties
    BY <1>0, <2>1 DEF Shallow, vars, machines, properties
  <2>5. \A i \in DOMAIN machines : i < at => Structured(machines[i])
    BY <1>0, <2>1 DEF Shallow
  <2>6. at <= Len(machines) => /\ at \in DOMAIN machines
                              /\ NoErrors(to_abi(machines[at])) <=> Structured(machines[at])
    BY <1>m, StructureOfAbi
  <2>7. stage' = "machines" => \A i \in DOMAIN machines : i < at' => Structured(machines[i])
    BY <1>m, <2>1, <2>2, <2>5, <2>6
  <2>8. stage' = "properties" => AllStructured /\ at' = 1
    BY <1>m, <2>1, <2>2, <2>5 DEF AllStructured
  <2>9. stage' = "failed" => ~Structured(machines[at]) /\ at' = at
    BY <2>1, <2>2, <2>6
  <2>10. stage' \in {"machines", "properties", "failed"}
    BY <2>1, <2>2
  <2>11. Shallow'
    BY <1>0, <1>m, <2>1, <2>4, <2>7, <2>8, <2>10 DEF Shallow, AllStructured, AllGood
  <2>12. DeepPass'
    BY <2>4 DEF DeepPass
  <2>13. BlamesFirst'
    BY <1>m, <2>4, <2>5, <2>9 DEF BlamesFirst, Sound
  <2>14. QED
    BY <2>3, <2>11, <2>12, <2>13 DEF VInv
<1>3. CASE PropertyLoop
  <2>1. stage = "properties" /\ UNCHANGED <<manifest, cmd, outDir, vars>>
    BY <1>3 DEF PropertyLoop, command
  <2>2. \/ /\ at > Len(properties) /\ at' = 1
           /\ stage' = IF cmd = "generate" THEN "mkdir" ELSE "passed"
        \/ /\ at <= Len(properties) /\ GoodProperty(properties[at])
           /\ at' = at + 1 /\ stage' = stage
        \/ /\ at <= Len(properties) /\ stage' = "failed" /\ at' = at
    BY <1>3 DEF PropertyLoop, Goto
  <2>3. IInv' /\ VTypeOK'
    BY <1>0, <1>m, <2>1, <2>2, <1>u DEF VTypeOK
  <2>4. /\ ~outDir /\ pc' = pc /\ ~outDir'
        /\ machines' = machines /\ properties' = properties /\ cmd' = cmd
    BY <1>0, <2>1 DEF Shallow, vars, machines, properties
  <2>5. \A i \in DOMAIN properties : i < at => GoodProperty(properties[i])
    BY <1>0, <2>1 DEF Shallow
  <2>6. stage' = "properties" => \A i \in DOMAIN properties : i < at' => GoodProperty(properties[i])
    BY <1>m, <2>1, <2>2, <2>5
  <2>7. stage' \in {"mkdir", "passed"} => AllGood
    BY <1>m, <2>1, <2>2, <2>5 DEF AllGood, Elements
  <2>8. /\ stage' \in {"properties", "mkdir", "passed", "failed"}
        /\ stage' = "mkdir" => cmd = "generate"
        /\ stage' = "passed" => cmd /= "generate"
    BY <2>1, <2>2
  <2>9. AllStructured
    BY <1>0, <2>1 DEF Shallow
  <2>10. Shallow'
    <3>1. manifest.project /= NoText /\ machines /= << >> /\ pc = "structural"
      BY <1>0, <2>1, <2>4 DEF Shallow
    <3>2. AllStructured' /\ (AllGood' <=> AllGood)
      BY <2>4, <2>9 DEF AllStructured, AllGood
    <3>3. QED
      BY <2>1, <2>4, <2>6, <2>7, <2>8, <3>1, <3>2 DEF Shallow
  <2>11. DeepPass'
    BY <2>4 DEF DeepPass
  <2>12. BlamesFirst'
    BY <2>4, <2>9 DEF BlamesFirst, AllStructured
  <2>13. QED
    BY <2>3, <2>10, <2>11, <2>12 DEF VInv
<1>4. CASE MakeDir
  <2>1. /\ stage = "mkdir" /\ outDir' = TRUE /\ stage' = "deep" /\ at' = 1
        /\ Call(to_abi(machines[1])) /\ manifest' = manifest /\ cmd' = cmd
    BY <1>4 DEF MakeDir, Goto, command
  <2>2. /\ manifest.project /= NoText /\ machines /= << >>
        /\ AllStructured /\ AllGood /\ cmd = "generate"
    BY <1>0, <2>1 DEF Shallow
  <2>3. 1 \in DOMAIN machines /\ machines[1] \in StateMachineConfig
    BY <1>m, <2>2
  <2>4. IInv' /\ sm' = to_abi(machines[1])
    BY <2>1, <2>3, FreshCall
  <2>5. machines' = machines /\ properties' = properties
    BY <2>1 DEF machines, properties
  <2>6. VTypeOK'
    BY <1>0, <2>1 DEF VTypeOK
  <2>7. Shallow'
    BY <2>1, <2>2, <2>5 DEF Shallow, AllStructured, AllGood
  <2>8. DeepPass'
    BY <1>m, <2>1, <2>3, <2>4, <2>5 DEF DeepPass
  <2>9. BlamesFirst'
    BY <2>1 DEF BlamesFirst
  <2>10. QED
    BY <2>4, <2>6, <2>7, <2>8, <2>9 DEF VInv
<1>5. CASE Deep
  <2>1. stage = "deep" /\ Next /\ UNCHANGED <<manifest, cmd, stage, at, outDir>>
    BY <1>5 DEF Deep, command
  <2>2. IInv' /\ sm' = sm
    BY <1>0, <2>1, StepIInv DEF Next, Structural, Identifiers, Link, Seed, PopOldest, Visit, Report
  <2>3. machines' = machines /\ properties' = properties
    BY <2>1 DEF machines, properties
  <2>4. VTypeOK'
    BY <1>0, <2>1 DEF VTypeOK
  <2>5. Shallow'
    BY <1>0, <2>1, <2>3 DEF Shallow, AllStructured, AllGood
  <2>6. DeepPass'
    BY <1>0, <2>1, <2>2, <2>3 DEF DeepPass
  <2>7. BlamesFirst'
    BY <2>1 DEF BlamesFirst
  <2>8. QED
    BY <2>2, <2>4, <2>5, <2>6, <2>7 DEF VInv
<1>6. CASE NextMachine
  <2>1. /\ stage = "deep" /\ pc = "accepted" /\ at < Len(machines) /\ at' = at + 1
        /\ Call(to_abi(machines[at + 1])) /\ UNCHANGED <<manifest, cmd, stage, outDir>>
    BY <1>6 DEF NextMachine, command
  <2>2. outDir
    BY <1>0, <2>1 DEF Shallow
  <2>3. /\ at + 1 \in DOMAIN machines /\ machines[at + 1] \in StateMachineConfig
        /\ at \in DOMAIN machines /\ machines[at] \in StateMachineConfig
        /\ sm = to_abi(machines[at])
    BY <1>0, <1>m, <2>1, <2>2 DEF DeepPass
  <2>4. Sound(machines[at])
    BY <1>0, <2>1, <2>3, Returned
  <2>5. IInv' /\ sm' = to_abi(machines[at + 1])
    BY <2>1, <2>3, FreshCall
  <2>6. machines' = machines /\ properties' = properties
    BY <2>1 DEF machines, properties
  <2>7. VTypeOK'
    BY <1>0, <1>m, <2>1 DEF VTypeOK
  <2>8. Shallow'
    BY <1>0, <2>1, <2>2, <2>6 DEF Shallow, AllStructured, AllGood
  <2>9. DeepPass'
    <3>1. \A i \in DOMAIN machines : i < at => Sound(machines[i])
      BY <1>0, <2>2 DEF DeepPass
    <3>2. \A i \in DOMAIN machines : i < at + 1 => i < at \/ i = at
      BY <1>m
    <3>3. \A i \in DOMAIN machines : i < at + 1 => Sound(machines[i])
      BY <2>4, <3>1, <3>2
    <3>4. QED
      BY <2>1, <2>3, <2>5, <2>6, <3>3 DEF DeepPass
  <2>10. BlamesFirst'
    BY <2>1 DEF BlamesFirst
  <2>11. QED
    BY <2>5, <2>7, <2>8, <2>9, <2>10 DEF VInv
<1>7. CASE Return
  <2>1. /\ stage = "deep" /\ UNCHANGED <<manifest, cmd, at, outDir, vars>>
        /\ stage' = IF pc = "accepted" THEN "passed" ELSE "failed"
        /\ pc = "rejected" \/ (pc = "accepted" /\ at >= Len(machines))
    BY <1>7 DEF Return, command
  <2>2. outDir /\ AllStructured /\ AllGood /\ cmd = "generate"
        /\ manifest.project /= NoText /\ machines /= << >>
    BY <1>0, <2>1 DEF Shallow
  <2>3. /\ at \in DOMAIN machines /\ machines[at] \in StateMachineConfig
        /\ sm = to_abi(machines[at])
        /\ \A i \in DOMAIN machines : i < at => Sound(machines[i])
    BY <1>0, <1>m, <2>2 DEF DeepPass
  <2>4. /\ pc = "accepted" => Sound(machines[at])
        /\ pc = "rejected" => ~Sound(machines[at])
    BY <1>0, <2>3, Returned
  <2>5. IInv' /\ sm' = sm /\ pc' = pc
    BY <2>1, <1>u DEF vars
  <2>6. machines' = machines /\ properties' = properties
    BY <2>1 DEF machines, properties
  <2>7. VTypeOK'
    BY <1>0, <2>1 DEF VTypeOK
  <2>8. Shallow'
    BY <2>1, <2>2, <2>6 DEF Shallow, AllStructured, AllGood
  <2>9. DeepPass'
    <3>1. pc = "accepted" => at = Len(machines)
      <4>1. pc = "accepted" => at >= Len(machines)
        BY <2>1
      <4>2. at \in 1 .. Len(machines)
        BY <1>m, <2>3
      <4>3. at \in Nat /\ Len(machines) \in Nat
        BY <1>m
      <4>4. at <= Len(machines)
        BY <4>2, <4>3
      <4>5. at >= Len(machines) => at = Len(machines)
        BY <4>3, <4>4
      <4>6. QED
        BY <4>1, <4>5
    <3>2. /\ stage' = "passed" => pc = "accepted"
          /\ stage' = "failed" => pc = "rejected"
      BY <2>1
    <3>3. at' = at
      BY <2>1
    <3>4. QED
      BY <2>3, <2>5, <2>6, <3>1, <3>2, <3>3 DEF DeepPass
  <2>10. BlamesFirst'
    <3>1. stage' = "failed" => ~Sound(machines[at])
      BY <2>1, <2>4
    <3>2. at' = at /\ outDir' /\ sm' = to_abi(machines[at])
      BY <2>1, <2>2, <2>3, <2>5
    <3>3. \A i \in 1 .. at - 1 : i \in DOMAIN machines /\ i < at
      BY <1>m, <2>3
    <3>4. QED
      BY <2>3, <2>6, <3>1, <3>2, <3>3 DEF BlamesFirst
  <2>11. QED
    BY <2>5, <2>7, <2>8, <2>9, <2>10 DEF VInv
<1>8. CASE UNCHANGED vvars
  <2>1. UNCHANGED <<manifest, cmd, stage, at, outDir, vars>>
    BY <1>8 DEF vvars
  <2>2. IInv' /\ sm' = sm /\ pc' = pc /\ machines' = machines /\ properties' = properties
    BY <2>1, <1>u DEF vars, machines, properties
  <2>3. VTypeOK' /\ Shallow'
    BY <1>0, <2>1, <2>2 DEF VTypeOK, Shallow, AllStructured, AllGood
  <2>4. DeepPass' /\ BlamesFirst'
    BY <1>0, <2>1, <2>2 DEF DeepPass, BlamesFirst
  <2>5. QED
    BY <2>2, <2>3, <2>4 DEF VInv
<1>9. QED
  BY <1>1, <1>2, <1>3, <1>4, <1>5, <1>6, <1>7, <1>8 DEF VNext

(* The invariant, for manifests with any number of machines of any size.    *)
THEOREM VInvariance == VSpec => []VInv
  BY InitVInv, StepVInv, PTL DEF VSpec

(* Every call of the validator, the first or a later one, decides rightly.  *)
THEOREM EveryVerdictIsCorrect == VSpec => []VerdictCorrect
<1>1. VInv => VerdictCorrect
  BY StructureIsWellFormed DEF VInv, IInv, TypeOK, Phases, Verdict, VerdictCorrect
<1>2. QED
  BY <1>1, VInvariance, PTL

(* No search of any call queues a name again that has left its queue.       *)
THEOREM NoCallRequeues == VSpec => NeverRequeued
<1>1. VInv /\ [VNext]_vvars => [Kept]_vars
  <2> SUFFICES ASSUME VInv, VNext, ~UNCHANGED vars PROVE Kept
    BY DEF vvars
  <2>1. CASE Deep
    BY <2>1, StepKept DEF Deep, VInv
  <2>2. ASSUME NEW m, Call(m) PROVE Kept
    <3>1. queue' = << >>
      BY <2>2 DEF Call
    <3>2. QED
      BY <3>1 DEF Kept, Elements
  <2>3. CASE MakeDir \/ NextMachine
    BY <2>2, <2>3 DEF MakeDir, NextMachine
  <2>4. QED
    BY <2>1, <2>3 DEF VNext, Project, MachineLoop, PropertyLoop, Return, command
<1>2. QED
  BY <1>1, VInvariance, PTL DEF VSpec, NeverRequeued, Kept

(* Every report names the unreachable states of the machine of its call.    *)
THEOREM EveryReportIsExact == VSpec => []ReportExact
<1>1. VInv => ReportExact
  BY DEF VInv, IInv
<1>2. QED
  BY <1>1, VInvariance, PTL

(* What generate rejects after validate has accepted is never structural.   *)
THEOREM DeepFaultsOnly == VSpec => []OnlyDeepFaults
<1>1. VInv => OnlyDeepFaults
  <2> SUFFICES ASSUME VInv PROVE OnlyDeepFaults
    OBVIOUS
  <2>0. VTypeOK /\ IInv /\ Shallow /\ DeepPass
    BY DEF VInv
  <2>1. outDir => \A i \in DOMAIN machines : Structured(machines[i])
    BY <2>0 DEF Shallow, AllStructured
  <2>2. ASSUME pc /= "structural" PROVE NoErrors(sm)
    <3>1. outDir
      BY <2>0, <2>2 DEF Shallow
    <3>2. /\ at \in DOMAIN machines /\ machines[at] \in StateMachineConfig
          /\ sm = to_abi(machines[at])
      BY <2>0, <3>1, ManifestType DEF DeepPass
    <3>3. QED
      BY <2>1, <3>1, <3>2, StructureOfAbi
  <2>3. QED
    BY <2>1, <2>2 DEF OnlyDeepFaults
<1>2. QED
  BY <1>1, VInvariance, PTL

(* The machine that is blamed is the first one at fault.                    *)
THEOREM BlameIsRight == VSpec => []BlamesFirst
<1>1. VInv => BlamesFirst
  BY DEF VInv
<1>2. QED
  BY <1>1, VInvariance, PTL

-----------------------------------------------------------------------------
(* The refinement of module Cli: what its one-step decisions evaluate to.   *)
LEMMA CliDecides ==
    ASSUME VTypeOK
    PROVE  /\ C!validate(JudgedManifest) <=>
                manifest.project /= NoText /\ machines /= << >> /\ AllStructured /\ AllGood
           /\ C!AllAccepted(JudgedManifest) <=> \A i \in DOMAIN machines : Sound(machines[i])
<1> DEFINE js == [i \in DOMAIN machines |-> Judged(machines[i])]
<1>1. /\ JudgedManifest.named <=> manifest.project /= NoText
      /\ JudgedManifest.state_machines = js
      /\ JudgedManifest.properties <=> AllGood
  BY DEF JudgedManifest, AllGood
<1>2. js = << >> <=> machines = << >>
  <2>1. /\ DOMAIN machines = 1 .. Len(machines) /\ Len(machines) \in Nat
        /\ machines \in Seq(StateMachineConfig)
    BY ManifestType
  <2>2. js = << >> => DOMAIN js = {}
    OBVIOUS
  <2>3. machines = << >> => js = << >>
    BY <2>1
  <2>4. machines /= << >> => 1 \in DOMAIN js
    BY <2>1, EmptySeq
  <2>5. QED
    BY <2>2, <2>3, <2>4
<1>3. \A i \in DOMAIN machines : js[i].verdict =
        IF ~Structured(machines[i]) THEN "structural"
        ELSE IF Sound(machines[i]) THEN "accepted" ELSE "deep"
  BY DEF Judged
<1>4. DOMAIN js = DOMAIN machines
  OBVIOUS
<1> HIDE DEF js
<1>5. \A i \in DOMAIN machines : /\ js[i].verdict /= "structural" <=> Structured(machines[i])
                                 /\ js[i].verdict = "accepted" <=> Sound(machines[i])
  BY <1>3 DEF Sound
<1>6. QED
  BY <1>1, <1>2, <1>4, <1>5 DEF C!validate, C!AllAccepted, C!Accepted, AllStructured

LEMMA CliPcIs ==
    /\ stage \in {"project", "machines", "properties"} => CliPc = "validate"
    /\ stage = "mkdir" => CliPc = "mkdir"
    /\ stage = "deep" => CliPc = "check"
    /\ stage = "passed" => CliPc = IF cmd = "generate" THEN "open" ELSE "ok"
    /\ stage = "failed" => CliPc = "failed"
  BY DEF CliPc

(* The loops of validate and of generate_all decide what module Cli has     *)
(* each of them decide in one step.                                         *)
THEOREM LoopsFollowCli == VSpec => FollowsCli
<1> DEFINE Decision == C!Validate("p") \/ C!MakeDir("p") \/ C!Check("p")
<1>1. VInv /\ VInv' /\ [VNext]_vvars => [Decision]_(C!vars)
  <2> SUFFICES ASSUME VInv, VInv', [VNext]_vvars PROVE [Decision]_(C!vars)
    OBVIOUS
  <2>0. VTypeOK /\ Shallow /\ DeepPass /\ VTypeOK'
    BY DEF VInv
  <2>1. manifest' = manifest /\ cmd' = cmd
    BY DEF VNext, vvars, Project, MachineLoop, PropertyLoop, MakeDir, Deep, NextMachine, Return,
           command
  <2>2. JudgedManifest' = JudgedManifest /\ machines' = machines
    BY <2>1 DEF JudgedManifest, machines, properties
  <2>3. outDir' = outDir /\ CliPc' = CliPc => UNCHANGED C!vars
    BY <2>1, <2>2 DEF C!vars
  <2>4. CliPc' = IF stage' \in {"project", "machines", "properties"} THEN "validate"
                 ELSE IF stage' = "mkdir" THEN "mkdir"
                 ELSE IF stage' = "deep" THEN "check"
                 ELSE IF stage' = "failed" THEN "failed"
                 ELSE IF cmd = "generate" THEN "open" ELSE "ok"
    BY <2>0, <2>1 DEF CliPc, VTypeOK
  <2>5. ASSUME outDir' = outDir, CliPc = "validate",
               CliPc' = IF ~C!validate(JudgedManifest) THEN "failed"
                        ELSE IF cmd = "generate" THEN "mkdir" ELSE "ok"
        PROVE  Decision
    BY <2>1, <2>2, <2>5 DEF C!Validate, C!Goto, C!disk
  <2>6. CASE Project
    <3>1. stage = "project" /\ outDir' = outDir
          /\ stage' = IF manifest.project = NoText \/ machines = << >> THEN "failed" ELSE "machines"
      BY <2>6 DEF Project, Goto
    <3>2. CliPc = "validate"
      BY <3>1, CliPcIs
    <3>3. CASE manifest.project = NoText \/ machines = << >>
      BY <2>0, <2>4, <2>5, <3>1, <3>2, <3>3, CliDecides
    <3>4. CASE ~(manifest.project = NoText \/ machines = << >>)
      BY <2>3, <2>4, <3>1, <3>2, <3>4
    <3>5. QED
      BY <3>3, <3>4
  <2>7. CASE MachineLoop
    <3>1. stage = "machines" /\ outDir' = outDir
      BY <2>7 DEF MachineLoop
    <3>2. CliPc = "validate"
      BY <3>1, CliPcIs
    <3>3. \/ stage' \in {"machines", "properties"}
          \/ /\ at <= Len(machines) /\ ~NoErrors(to_abi(machines[at])) /\ stage' = "failed"
      BY <2>7 DEF MachineLoop, Goto
    <3>4. CASE stage' \in {"machines", "properties"}
      BY <2>3, <2>4, <3>1, <3>2, <3>4
    <3>5. CASE at <= Len(machines) /\ ~NoErrors(to_abi(machines[at])) /\ stage' = "failed"
      <4>1. at \in DOMAIN machines /\ machines[at] \in StateMachineConfig
        BY <2>0, <3>5, ManifestType DEF VTypeOK
      <4>2. ~AllStructured
        BY <3>5, <4>1, StructureOfAbi DEF AllStructured
      <4>3. QED
        BY <2>0, <2>4, <2>5, <3>1, <3>2, <3>5, <4>2, CliDecides
    <3>6. QED
      BY <3>3, <3>4, <3>5
  <2>8. CASE PropertyLoop
    <3>1. stage = "properties" /\ outDir' = outDir /\ cmd \in {"validate", "generate"}
      BY <2>0, <2>8 DEF PropertyLoop, VTypeOK
    <3>2. CliPc = "validate"
      BY <3>1, CliPcIs
    <3>3. \/ stage' = "properties"
          \/ at > Len(properties) /\ stage' = IF cmd = "generate" THEN "mkdir" ELSE "passed"
          \/ /\ at <= Len(properties) /\ ~GoodProperty(properties[at]) /\ stage' = "failed"
      BY <2>8 DEF PropertyLoop, Goto
    <3>4. CASE stage' = "properties"
      BY <2>3, <2>4, <3>1, <3>2, <3>4
    <3>5. CASE at > Len(properties) /\ stage' = IF cmd = "generate" THEN "mkdir" ELSE "passed"
      <4>1. stage' \in {"mkdir", "passed"}
        BY <3>5
      <4>2. /\ manifest.project /= NoText /\ machines /= << >> /\ AllStructured
        BY <2>0, <3>1 DEF Shallow
      <4>3. AllGood
        BY <4>1, <2>0, <2>1, VInv' DEF VInv, Shallow, AllGood, properties
      <4>4. C!validate(JudgedManifest)
        BY <2>0, <4>2, <4>3, CliDecides
      <4>5. CliPc' = IF cmd = "generate" THEN "mkdir" ELSE "ok"
        BY <2>4, <3>5
      <4>6. QED
        BY <2>5, <3>1, <3>2, <4>4, <4>5
    <3>6. CASE at <= Len(properties) /\ ~GoodProperty(properties[at]) /\ stage' = "failed"
      <4>1. at \in DOMAIN properties
        BY <2>0, <3>6, ManifestType DEF VTypeOK
      <4>2. ~AllGood
        BY <3>6, <4>1 DEF AllGood, Elements
      <4>3. QED
        BY <2>0, <2>4, <2>5, <3>1, <3>2, <3>6, <4>2, CliDecides
    <3>7. QED
      BY <3>3, <3>4, <3>5, <3>6
  <2>9. CASE MakeDir
    <3>1. stage = "mkdir" /\ outDir' = TRUE /\ stage' = "deep"
      BY <2>9 DEF MakeDir, Goto
    <3>2. CliPc = "mkdir" /\ CliPc' = "check"
      BY <2>4, <3>1, CliPcIs
    <3>3. QED
      BY <2>1, <2>2, <3>1, <3>2 DEF C!MakeDir, C!Goto
  <2>10. CASE Deep \/ NextMachine
    BY <2>3, <2>10 DEF Deep, NextMachine, CliPc, command
  <2>11. CASE Return
    <3>1. /\ stage = "deep" /\ outDir' = outDir /\ at' = at /\ UNCHANGED vars
          /\ pc = "rejected" \/ (pc = "accepted" /\ at >= Len(machines))
          /\ stage' = IF pc = "accepted" THEN "passed" ELSE "failed"
      BY <2>11 DEF Return
    <3>2. outDir /\ cmd = "generate"
      BY <2>0, <3>1 DEF Shallow
    <3>3. /\ at \in DOMAIN machines /\ machines[at] \in StateMachineConfig
          /\ sm = to_abi(machines[at])
          /\ \A i \in DOMAIN machines : i < at => Sound(machines[i])
      BY <2>0, <3>2, ManifestType DEF DeepPass
    <3>4. /\ pc = "accepted" => Sound(machines[at])
          /\ pc = "rejected" => ~Sound(machines[at])
      BY <3>3, Returned DEF VInv
    <3>5. \A i \in DOMAIN machines : at >= Len(machines) => i < at \/ i = at
      BY <2>0, ManifestType DEF VTypeOK
    <3>6. C!AllAccepted(JudgedManifest) <=> pc = "accepted"
      BY <2>0, <3>1, <3>3, <3>4, <3>5, CliDecides
    <3>7. CliPc = "check" /\ CliPc' = IF pc = "accepted" THEN "open" ELSE "failed"
      BY <2>4, <3>1, <3>2, CliPcIs
    <3>8. QED
      BY <2>1, <2>2, <3>1, <3>6, <3>7 DEF C!Check, C!Goto, C!disk
  <2>12. CASE UNCHANGED vvars
    BY <2>3, <2>12 DEF vvars, CliPc
  <2>13. QED
    BY <2>6, <2>7, <2>8, <2>9, <2>10, <2>11, <2>12 DEF VNext
<1>2. QED
  BY <1>1, VInvariance, PTL DEF VSpec, FollowsCli, Decision
-----------------------------------------------------------------------------
(* What is left of the command: the loops to come, the turns the present    *)
(* loop still has, and what is left of the call it is in.                   *)
StageRank ==
    CASE stage = "project" -> 5
      [] stage = "machines" -> 4
      [] stage = "properties" -> 3
      [] stage = "mkdir" -> 2
      [] stage = "deep" -> 1
      [] stage \in {"passed", "failed"} -> 0
Turns ==
    CASE stage \in {"machines", "deep"} -> Len(machines) + 1 - at
      [] stage = "properties" -> Len(properties) + 1 - at
      [] stage \notin {"machines", "properties", "deep"} -> 0
CommandNearer ==
    \/ StageRank' < StageRank
    \/ /\ StageRank' = StageRank
       /\ \/ Turns' < Turns
          \/ Turns' = Turns /\ stage = "deep" /\ Nearer

(* The turns are a natural number: no loop runs past its end.               *)
InSight == VInv /\ Turns \in Nat

LEMMA InitInSight == VInit => InSight
<1> SUFFICES ASSUME VInit PROVE Turns \in Nat
  BY InitVInv DEF InSight
<1>1. stage = "project"
  BY DEF VInit
<1>2. QED
  BY <1>1 DEF Turns

(* A step of the command ends a loop, a turn of it, or brings the end of    *)
(* the call nearer.                                                         *)
LEMMA StepInSight == InSight /\ VNext => Turns' \in Nat /\ CommandNearer
<1> SUFFICES ASSUME InSight, VNext PROVE Turns' \in Nat /\ CommandNearer
  OBVIOUS
<1>0. VInv /\ VTypeOK /\ Shallow /\ DeepPass /\ IInv /\ VInv' /\ DeepPass' /\ Shallow'
  BY StepVInv DEF InSight, VInv
<1>m. /\ Len(machines) \in Nat /\ Len(properties) \in Nat /\ at \in Nat
      /\ DOMAIN machines = 1 .. Len(machines)
  BY <1>0, ManifestType DEF VTypeOK
<1>1. machines' = machines /\ properties' = properties
  BY DEF VNext, vvars, Project, MachineLoop, PropertyLoop, MakeDir, Deep, NextMachine, Return,
         command, machines, properties
<1>2. CASE Project
  <2>1. /\ stage = "project" /\ at' = 1 /\ stage' \in {"failed", "machines"}
    BY <1>2 DEF Project, Goto
  <2>2. QED
    BY <1>1, <1>m, <2>1 DEF Turns, StageRank, CommandNearer
<1>3. CASE MachineLoop
  <2>1. /\ stage = "machines"
        /\ \/ stage' \in {"properties", "failed"} /\ (stage' = "properties" => at' = 1)
           \/ at <= Len(machines) /\ stage' = "machines" /\ at' = at + 1
    BY <1>3 DEF MachineLoop, Goto
  <2>2. QED
    BY <1>1, <1>m, <2>1 DEF Turns, StageRank, CommandNearer
<1>4. CASE PropertyLoop
  <2>1. /\ stage = "properties"
        /\ \/ stage' \in {"mkdir", "passed", "failed"}
           \/ at <= Len(properties) /\ stage' = "properties" /\ at' = at + 1
    BY <1>4 DEF PropertyLoop, Goto
  <2>2. QED
    BY <1>1, <1>m, <2>1 DEF Turns, StageRank, CommandNearer
<1>5. CASE MakeDir
  <2>1. stage = "mkdir" /\ stage' = "deep" /\ at' = 1
    BY <1>5 DEF MakeDir, Goto
  <2>2. QED
    BY <1>1, <1>m, <2>1 DEF Turns, StageRank, CommandNearer
<1>6. CASE Deep
  <2>1. stage = "deep" /\ stage' = "deep" /\ at' = at /\ Next
    BY <1>6 DEF Deep
  <2>2. Nearer
    BY <1>0, <2>1, StepNearer
  <2>3. Turns' = Turns /\ StageRank' = StageRank
    BY <1>1, <2>1 DEF Turns, StageRank
  <2>4. QED
    BY <2>1, <2>2, <2>3 DEF CommandNearer, InSight
<1>7. CASE NextMachine
  <2>1. stage = "deep" /\ stage' = "deep" /\ at < Len(machines) /\ at' = at + 1
    BY <1>7 DEF NextMachine, command
  <2>2. QED
    BY <1>1, <1>m, <2>1 DEF Turns, StageRank, CommandNearer
<1>8. CASE Return
  <2>1. stage = "deep" /\ stage' \in {"passed", "failed"}
    BY <1>8 DEF Return
  <2>2. QED
    BY <2>1 DEF Turns, StageRank, CommandNearer
<1>9. QED
  BY <1>2, <1>3, <1>4, <1>5, <1>6, <1>7, <1>8 DEF VNext

(* validate and generate cannot run forever, however many machines the      *)
(* manifest has: with every step the command has fewer loops before it, or  *)
(* as many and fewer turns, or as many of both and a call whose measure     *)
(* (ValidatorMovesOn) falls.  All of them are natural numbers, and only     *)
(* Ends itself, that the next step is taken, is left to fairness.           *)
THEOREM CommandMovesOn ==
    VSpec => /\ [](StageRank \in 0 .. 5 /\ Turns \in Nat /\ Rank \in 0 .. 4
                    /\ Outstanding \in Nat /\ Len(neighbours) \in Nat)
             /\ [][CommandNearer]_vvars
<1>1. InSight /\ [VNext]_vvars => InSight'
  <2> SUFFICES ASSUME InSight, [VNext]_vvars PROVE InSight'
    OBVIOUS
  <2>1. VInv'
    BY StepVInv DEF InSight
  <2>2. CASE VNext
    BY <2>1, <2>2, StepInSight DEF InSight
  <2>3. CASE UNCHANGED vvars
    BY <2>1, <2>3 DEF InSight, vvars, Turns, machines, properties
  <2>4. QED
    BY <2>2, <2>3
<1>2. InSight => /\ StageRank \in 0 .. 5 /\ Turns \in Nat /\ Rank \in 0 .. 4
                 /\ Outstanding \in Nat /\ Len(neighbours) \in Nat
  <2> SUFFICES ASSUME InSight PROVE StageRank \in 0 .. 5
    BY MeasureType DEF InSight, VInv
  <2>1. stage \in {"project", "machines", "properties", "mkdir", "deep", "passed", "failed"}
    BY DEF InSight, VInv, VTypeOK
  <2>2. QED
    BY <2>1 DEF StageRank
<1>3. InSight /\ [VNext]_vvars => [CommandNearer]_vvars
  BY StepInSight
<1>4. QED
  BY <1>1, <1>2, <1>3, InitInSight, PTL DEF VSpec
=============================================================================
