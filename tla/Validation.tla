----------------------------- MODULE Validation -----------------------------
(***************************************************************************)
(* How validate and generate judge a whole manifest: manifest::validate    *)
(* with its loops over machines and properties, then the first loop of     *)
(* codegen::generate_all, which calls validate_state_machine (module       *)
(* Parser) on one machine after the other, each call with local variables  *)
(* of its own.  Nothing is written before it has ended.                    *)
(***************************************************************************)
EXTENDS Parser

CONSTANTS
    Text,      \* strings that are not looked into
    NoText,    \* the empty one
    Manifests  \* the manifests under test

\* What serde makes of the entries of tlaiser.toml.
TransitionConfig == [from : Names, to : Names, guard : Text]
VariableConfig == [name : Names, init : Text]
StateMachineConfig ==
    [name : Names, states : Seq(Names), initial_state : Names,
     transitions : Seq(TransitionConfig), variables : Seq(VariableConfig)]
PropertyConfig == [name : Text, kind : Text, formula : Text]
valid_kinds == {"safety", "liveness", "fairness"}
Manifest ==
    [project : Text, state_machines : Seq(StateMachineConfig),
     properties : Seq(PropertyConfig)]

\* StateMachineConfig::to_abi.
to_abi(c) ==
    [name |-> c.name, states |-> c.states, initial_state |-> c.initial_state,
     variables |-> [i \in DOMAIN c.variables |-> c.variables[i].name],
     transitions |-> [i \in DOMAIN c.transitions |->
                        [from |-> c.transitions[i].from, to |-> c.transitions[i].to]]]

ASSUME ValidationAssumption ==
    /\ NoText \in Text /\ valid_kinds \subseteq Text
    /\ Manifests \subseteq Manifest
    /\ Machines /= {}

VARIABLES
    manifest,  \* as load_manifest returned it; never assigned
    cmd,       \* "validate" or "generate"; never assigned
    stage,     \* the loop the command is in
    at,        \* index of the machine or property it looks at
    outDir     \* whether generate_all has made the output directory

vvars == <<manifest, cmd, stage, at, outDir, vars>>
command == <<manifest, cmd>>

------------------------------------------------------------------------------
machines == manifest.state_machines
properties == manifest.properties

\* Until the first call there is no sm: with no machine to show, it is any.
VInit ==
    /\ manifest \in Manifests /\ cmd \in {"validate", "generate"}
    /\ stage = "project" /\ at = 1 /\ outDir = FALSE
    /\ sm = IF machines = << >> THEN CHOOSE m \in Machines : TRUE ELSE to_abi(machines[1])
    /\ Started

Goto(s) == stage' = s /\ at' = 1

\* validate: the project is named and there is a machine.
Project ==
    /\ stage = "project"
    /\ Goto(IF manifest.project = NoText \/ machines = << >> THEN "failed" ELSE "machines")
    /\ UNCHANGED <<command, outDir, vars>>

\* Its loop over the machines: the first whose structure is wrong ends it.
\* (Slip: the last one is not looked at.)
AllButLast ==
    /\ stage = "machines"
    /\ \/ /\ at >= Len(machines) /\ Goto("properties")
       \/ /\ at < Len(machines) /\ NoErrors(to_abi(machines[at]))
          /\ at' = at + 1 /\ UNCHANGED stage
       \/ /\ at < Len(machines) /\ ~NoErrors(to_abi(machines[at]))
          /\ stage' = "failed" /\ UNCHANGED at
    /\ UNCHANGED <<command, outDir, vars>>
MachineLoop ==
    /\ stage = "machines"
    /\ \/ /\ at > Len(machines) /\ Goto("properties")
       \/ /\ at <= Len(machines) /\ NoErrors(to_abi(machines[at]))
          /\ at' = at + 1 /\ UNCHANGED stage
       \/ /\ at <= Len(machines) /\ ~NoErrors(to_abi(machines[at]))
          /\ stage' = "failed" /\ UNCHANGED at
    /\ UNCHANGED <<command, outDir, vars>>

\* Its loop over the properties, after which validate has returned.
GoodProperty(p) == p.name /= NoText /\ p.kind \in valid_kinds /\ p.formula /= NoText
PropertyLoop ==
    /\ stage = "properties"
    /\ \/ /\ at > Len(properties)
          /\ Goto(IF cmd = "generate" THEN "mkdir" ELSE "passed")
       \/ /\ at <= Len(properties) /\ GoodProperty(properties[at])
          /\ at' = at + 1 /\ UNCHANGED stage
       \/ /\ at <= Len(properties) /\ ~GoodProperty(properties[at])
          /\ stage' = "failed" /\ UNCHANGED at
    /\ UNCHANGED <<command, outDir, vars>>

\* validate_state_machine is called: its locals are new.
Call(m) ==
    /\ sm' = m /\ pc' = "structural" /\ next' = 1
    /\ adjacency' = [n \in Names |-> << >>]
    /\ visited' = {} /\ queue' = << >> /\ neighbours' = << >> /\ unreachable' = {}

\* fs::create_dir_all, and the first turn of generate_all's loop.
MakeDir ==
    /\ stage = "mkdir"
    /\ outDir' = TRUE
    /\ Goto("deep") /\ Call(to_abi(machines[1]))
    /\ UNCHANGED command

\* The call runs.
Deep ==
    /\ stage = "deep" /\ Next
    /\ UNCHANGED <<command, stage, at, outDir>>

\* It has returned.  (Slip: an error does not end the loop.)
IgnoreError ==
    /\ stage = "deep" /\ pc \in {"accepted", "rejected"}
    /\ IF at < Len(machines)
         THEN at' = at + 1 /\ Call(to_abi(machines[at + 1])) /\ UNCHANGED stage
         ELSE stage' = (IF pc = "accepted" THEN "passed" ELSE "failed") /\ UNCHANGED <<at, vars>>
    /\ UNCHANGED <<command, outDir>>
NextMachine ==
    /\ stage = "deep" /\ pc = "accepted" /\ at < Len(machines)
    /\ at' = at + 1 /\ Call(to_abi(machines[at + 1]))
    /\ UNCHANGED <<command, stage, outDir>>
Return ==
    /\ stage = "deep" /\ \/ pc = "rejected"
                         \/ pc = "accepted" /\ at >= Len(machines)
    /\ stage' = IF pc = "accepted" THEN "passed" ELSE "failed"
    /\ UNCHANGED <<command, at, outDir, vars>>

VNext ==
    \/ Project \/ MachineLoop \/ PropertyLoop
    \/ MakeDir \/ Deep \/ NextMachine \/ Return

VSpec == VInit /\ [][VNext]_vvars

\* One thread, and nothing to wait for.
VFairSpec == VSpec /\ WF_vvars(VNext)

------------------------------------------------------------------------------
(* Whatever the manifest, the command comes to an end.                     *)
Ends == <>(stage \in {"passed", "failed"})

(* A machine as its documentation wants it, said of the manifest entry: a  *)
(* set of states that holds the initial one and that no transition leaves  *)
(* can only be all of them.                                                *)
Structured(c) ==
    /\ c.initial_state \in Elements(c.states)
    /\ \A i, j \in DOMAIN c.states : c.states[i] = c.states[j] => i = j
    /\ \A t \in Elements(c.transitions) : {t.from, t.to} \subseteq Elements(c.states)
Sound(c) ==
    /\ Structured(c)
    /\ {c.name} \cup Elements(c.states) \cup {v.name : v \in Elements(c.variables)} \subseteq LegalNames
    /\ \A S \in SUBSET Elements(c.states) :
         (c.initial_state \in S /\ \A t \in Elements(c.transitions) : t.from \in S => t.to \in S)
            => S = Elements(c.states)

\* The manifest as module Cli has it: every machine with its verdict.
Judged(c) ==
    [name |-> c.name, body |-> 0,
     verdict |-> IF ~Structured(c) THEN "structural" ELSE IF Sound(c) THEN "accepted" ELSE "deep"]
JudgedManifest ==
    [named |-> manifest.project /= NoText,
     state_machines |-> [i \in DOMAIN machines |-> Judged(machines[i])],
     properties |-> \A p \in Elements(properties) : GoodProperty(p)]
CliPc ==
    CASE stage \in {"project", "machines", "properties"} -> "validate"
      [] stage = "mkdir" -> "mkdir"
      [] stage = "deep" -> "check"
      [] stage = "passed" -> IF cmd = "generate" THEN "open" ELSE "ok"
      [] stage = "failed" -> "failed"
C == INSTANCE Cli WITH
        Proc <- {"p"}, Stem <- Names, PlusCalOf <- [n \in Names |-> n],
        Machine <- {}, Manifests <- {}, Template <- "template",
        Absent <- "absent", Hole <- "hole", Length <- << >>, MaxStarts <- 1, MaxEdits <- 0,
        toml <- "absent", files <- << >>, outDir <- outDir, cmd <- [p \in {"p"} |-> cmd],
        pc <- [p \in {"p"} |-> CliPc], loaded <- [p \in {"p"} |-> JudgedManifest],
        mi <- [p \in {"p"} |-> 1], ki <- [p \in {"p"} |-> 1], written <- [p \in {"p"} |-> 0],
        starts <- 1, edits <- 0

(* Module Cli gives every machine its verdict and decides in one step each: *)
(* this is what the loops do, machine after machine and search after search *)
(* (only the two decisions and the directory are steps of Cli, all the      *)
(* iterations between them stutter).                                        *)
FollowsCli == [][C!Validate("p") \/ C!MakeDir("p") \/ C!Check("p")]_(C!vars)

(* What generate rejects although validate accepts it: an identifier or an *)
(* unreachable state, never the structure, for by the time the directory   *)
(* exists all machines have passed that check.  The second structural      *)
(* check, inside the call, finds nothing.                                  *)
OnlyDeepFaults ==
    /\ outDir => \A i \in DOMAIN machines : Structured(machines[i])
    /\ pc /= "structural" => NoErrors(sm)

(* The machine an error names is the first that the pass it comes from     *)
(* could object to, and later machines have not been looked at.            *)
BlamesFirst ==
    stage = "failed" /\ at \in DOMAIN machines /\ (outDir \/ ~Structured(machines[at])) =>
        /\ \A i \in 1 .. at - 1 : IF outDir THEN Sound(machines[i]) ELSE Structured(machines[i])
        /\ ~Sound(machines[at])
        /\ outDir => sm = to_abi(machines[at])

------------------------------------------------------------------------------
(* What the command has behind it at each point: with IInv of module Parser *)
(* it is inductive, and it implies the three properties above.              *)
VTypeOK ==
    /\ manifest \in Manifest /\ cmd \in {"validate", "generate"}
    /\ stage \in {"project", "machines", "properties", "mkdir", "deep", "passed", "failed"}
    /\ at \in Nat \ {0} /\ outDir \in BOOLEAN

AllStructured == \A i \in DOMAIN machines : Structured(machines[i])
AllGood == \A p \in Elements(properties) : GoodProperty(p)
Shallow ==
    /\ stage \notin {"project", "failed"} => manifest.project /= NoText /\ machines /= << >>
    /\ stage = "machines" => \A i \in DOMAIN machines : i < at => Structured(machines[i])
    /\ stage = "properties" => \A i \in DOMAIN properties : i < at => GoodProperty(properties[i])
    /\ stage \in {"properties", "mkdir", "deep", "passed"} => AllStructured
    /\ stage \in {"mkdir", "deep", "passed"} => AllGood
    /\ ~outDir => pc = "structural"
    /\ stage = "mkdir" \/ outDir => cmd = "generate"
    /\ outDir => stage \in {"deep", "passed", "failed"} /\ AllStructured
    /\ stage = "deep" \/ (stage = "passed" /\ cmd = "generate") => outDir
DeepPass ==
    outDir =>
        /\ at \in DOMAIN machines /\ sm = to_abi(machines[at])
        /\ \A i \in DOMAIN machines : i < at => Sound(machines[i])
        /\ stage = "passed" => pc = "accepted" /\ at = Len(machines)
        /\ stage = "failed" => pc = "rejected"
VInv == VTypeOK /\ IInv /\ Shallow /\ DeepPass /\ BlamesFirst
==============================================================================
