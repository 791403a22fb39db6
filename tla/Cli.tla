--------------------------------- MODULE Cli ---------------------------------
(***************************************************************************)
(* The commands of the tlaiser binary (main.rs) over one project: the      *)
(* manifest file, the output directory, and the invocations that read and  *)
(* write them, one at a time or side by side.  A machine carries the       *)
(* verdict the validators give it (module Parser says which verdict that   *)
(* is); its body stands for whatever else its artifacts are made from.     *)
(*                                                                         *)
(* fs::write opens and truncates, and then writes its text from the start, *)
(* perhaps in several writes, at an offset of its own: a file is a sequence *)
(* of pieces, and two writers of one path can leave the tail of one text   *)
(* behind the other, or a gap.  An invocation may stop at any point: an    *)
(* I/O error that ? hands up and a killed process look the same on disk.   *)
(***************************************************************************)
EXTENDS Naturals, Sequences

CONSTANTS
    Proc,        \* invocations that may run side by side
    Stem,        \* file names without extension
    PlusCalOf,   \* format!("{}PlusCal", name), as a map on Stem
    Machine,     \* [name, body, verdict]
    Manifests,   \* what the user may have in tlaiser.toml
    Absent,      \* no such file
    Hole,        \* what a write beyond the end of a file leaves before it
    Length,      \* in how many pieces a text is written
    Template,    \* the manifest init_manifest writes
    MaxStarts,   \* bound: invocations of the binary
    MaxEdits     \* bound: edits of tlaiser.toml

Verdict == {"accepted", "structural", "deep"}
Path == [stem : Stem, ext : {"tla", "cfg", "sh"}]
Artifact == [kind : {"tla", "pcal", "cfg", "sh"}, machine : Machine]

ASSUME CliAssumption ==
    /\ PlusCalOf \in [Stem -> Stem]
    /\ Machine \subseteq [name : Stem, body : Nat, verdict : Verdict]
    /\ Manifests \subseteq [named : BOOLEAN, state_machines : Seq(Machine), properties : BOOLEAN]
    /\ Template \in Manifests
    /\ MaxStarts \in Nat /\ MaxEdits \in Nat
    /\ Length \in [Artifact \cup Manifests -> Nat \ {0}]
    /\ Hole \notin Artifact \cup Manifests
    /\ Absent \notin Seq(Artifact \cup Manifests \cup {Hole})

VARIABLES
    toml,     \* tlaiser.toml: Absent, or pieces of manifests
    files,    \* the output directory: path -> Absent, or pieces of artifacts
    outDir,   \* whether the output directory exists
    cmd,      \* the subcommand each invocation runs
    pc,       \* where it is
    loaded,   \* the manifest it has parsed
    mi,       \* index of the machine it is generating
    ki,       \* which of the machine's four files comes next
    written,  \* how many pieces of the file it has open are written
    starts, edits

vars == <<toml, files, outDir, cmd, pc, loaded, mi, ki, written, starts, edits>>
disk == <<toml, files, outDir>>

------------------------------------------------------------------------------
(* A text as a file, and what becomes of a file f (truncated: << >>) when   *)
(* piece i of the text x is written to it.                                  *)
FileOf(x) == [i \in 1 .. Length[x] |-> x]
Put(f, i, x) ==
    [j \in 1 .. (IF i > Len(f) THEN i ELSE Len(f)) |->
        IF j = i THEN x ELSE IF j <= Len(f) THEN f[j] ELSE Hole]
\* One text and nothing else; and the texts that have pieces in f.
Whole(f) == f \notin {Absent, << >>} /\ f[1] /= Hole /\ f = FileOf(f[1])
Pieces(f) == IF f = Absent THEN {} ELSE {f[i] : i \in DOMAIN f} \ {Hole}

TlaPath(s) == [stem |-> s, ext |-> "tla"]
CfgPath(s) == [stem |-> s, ext |-> "cfg"]
ShPath(s)  == [stem |-> s, ext |-> "sh"]

(* The four files of a machine, in the order generate_all writes them; and  *)
(* a version that writes the run script first.                              *)
ScriptFirst(m) ==
    << [path |-> ShPath(m.name), kind |-> "sh"],
       [path |-> TlaPath(m.name), kind |-> "tla"],
       [path |-> TlaPath(PlusCalOf[m.name]), kind |-> "pcal"],
       [path |-> CfgPath(m.name), kind |-> "cfg"] >>
Outputs(m) ==
    << [path |-> TlaPath(m.name), kind |-> "tla"],
       [path |-> TlaPath(PlusCalOf[m.name]), kind |-> "pcal"],
       [path |-> CfgPath(m.name), kind |-> "cfg"],
       [path |-> ShPath(m.name), kind |-> "sh"] >>

Accepted(m) == m.verdict = "accepted"

\* manifest::validate: the project is named, there is a machine, each passes
\* abi validate, the properties are named, of a known kind and not empty.
validate(man) ==
    /\ man.named
    /\ man.state_machines /= << >>
    /\ \A i \in DOMAIN man.state_machines : man.state_machines[i].verdict /= "structural"
    /\ man.properties
\* generate_all's first loop, with parser::validate_state_machine; and the
\* same loop leaving at the first machine it accepts.
AnyAccepted(man) ==
    man.state_machines = << >> \/ \E i \in DOMAIN man.state_machines : Accepted(man.state_machines[i])
AllAccepted(man) ==
    \A i \in DOMAIN man.state_machines : Accepted(man.state_machines[i])

------------------------------------------------------------------------------
Init ==
    /\ toml \in {FileOf(m) : m \in Manifests} \cup {Absent} /\ outDir = FALSE
    /\ files = [q \in Path |-> Absent]
    /\ cmd = [p \in Proc |-> "none"]
    /\ pc = [p \in Proc |-> "ok"]
    /\ loaded = [p \in Proc |-> Template]
    /\ mi = [p \in Proc |-> 1] /\ ki = [p \in Proc |-> 1] /\ written = [p \in Proc |-> 0]
    /\ starts = 0 /\ edits = 0

Goto(p, s) == pc' = [pc EXCEPT ![p] = s]
Ended(p) == pc[p] \in {"ok", "failed"}

\* The shell starts a subcommand; "show" is build or info.
Start(p) ==
    /\ Ended(p) /\ starts < MaxStarts
    /\ starts' = starts + 1
    /\ \E c \in {"init", "validate", "generate", "run", "show"} :
         /\ cmd' = [cmd EXCEPT ![p] = c]
         /\ Goto(p, IF c = "init" THEN "exists" ELSE "load")
    /\ UNCHANGED <<disk, loaded, mi, ki, written, edits>>

\* The user saves another manifest, over what is there or where there is none.
Edit ==
    /\ edits < MaxEdits
    /\ edits' = edits + 1
    /\ toml' \in {FileOf(m) : m \in Manifests} \ {toml}
    /\ UNCHANGED <<files, outDir, cmd, pc, loaded, mi, ki, written, starts>>

\* load_manifest: a missing file is not read, an empty one not parsed, and
\* what a torn one parses to, if it does, is anybody's guess.  run prints one
\* TLC command for each machine and returns, build and info print what nobody
\* reads on.
Load(p) ==
    /\ pc[p] = "load"
    /\ \/ \E m \in Manifests :
             /\ IF Whole(toml) THEN m = toml[1] ELSE toml \notin {Absent, << >>}
             /\ loaded' = IF cmd[p] = "show" THEN loaded ELSE [loaded EXCEPT ![p] = m]
             /\ Goto(p, IF cmd[p] \in {"validate", "generate"} THEN "validate" ELSE "ok")
       \/ ~Whole(toml) /\ UNCHANGED loaded /\ Goto(p, "failed")
    /\ UNCHANGED <<disk, cmd, mi, ki, written, starts, edits>>

Validate(p) ==
    /\ pc[p] = "validate"
    /\ Goto(p, IF ~validate(loaded[p]) THEN "failed"
               ELSE IF cmd[p] = "generate" THEN "mkdir" ELSE "ok")
    /\ UNCHANGED <<disk, cmd, loaded, mi, ki, written, starts, edits>>

\* fs::create_dir_all
MakeDir(p) ==
    /\ pc[p] = "mkdir"
    /\ outDir' = TRUE
    /\ Goto(p, "check")
    /\ UNCHANGED <<toml, files, cmd, loaded, mi, ki, written, starts, edits>>

\* Every machine is validated before any file is written.
Check(p) ==
    /\ pc[p] = "check"
    /\ Goto(p, IF AllAccepted(loaded[p]) THEN "open" ELSE "failed")
    /\ mi' = [mi EXCEPT ![p] = 1] /\ ki' = [ki EXCEPT ![p] = 1]
    /\ UNCHANGED <<disk, cmd, loaded, written, starts, edits>>

Current(p) == loaded[p].state_machines[mi[p]]
Output(p) == Outputs(Current(p))[ki[p]]
Product(p) == [kind |-> Output(p).kind, machine |-> Current(p)]

\* File::create, the first half of fs::write: the file is created or truncated.
Open(p) ==
    /\ pc[p] = "open" /\ mi[p] <= Len(loaded[p].state_machines)
    /\ files' = [files EXCEPT ![Output(p).path] = << >>]
    /\ written' = [written EXCEPT ![p] = 0]
    /\ Goto(p, "fill")
    /\ UNCHANGED <<toml, outDir, cmd, loaded, mi, ki, starts, edits>>

\* One write of write_all, at the writer's own offset.
PutNext(p) ==
    /\ pc[p] = "fill"
    /\ files' = [files EXCEPT ![Output(p).path] = Put(@, written[p] + 1, Product(p))]
    /\ written' = [written EXCEPT ![p] = @ + 1]
    /\ UNCHANGED <<toml, outDir, cmd, loaded, starts, edits>>
FillPart(p) ==
    /\ PutNext(p) /\ written[p] + 1 < Length[Product(p)]
    /\ UNCHANGED <<pc, mi, ki>>
\* The last one, after which the loops go on.  (Slip at the end of the inner
\* loop: the machine counter is not moved on.)
FillSameMachine(p) ==
    /\ PutNext(p) /\ written[p] + 1 >= Length[Product(p)]
    /\ ki' = [ki EXCEPT ![p] = IF @ = 4 THEN 1 ELSE @ + 1] /\ UNCHANGED mi
    /\ Goto(p, "open")
Fill(p) ==
    /\ PutNext(p) /\ written[p] + 1 >= Length[Product(p)]
    /\ ki' = [ki EXCEPT ![p] = IF @ = 4 THEN 1 ELSE @ + 1]
    /\ mi' = [mi EXCEPT ![p] = IF ki[p] = 4 THEN @ + 1 ELSE @]
    /\ Goto(p, "open")

\* The last machine is taken for the end of the list.
FinishEarly(p) ==
    /\ pc[p] = "open" /\ mi[p] >= Len(loaded[p].state_machines)
    /\ Goto(p, "ok")
    /\ UNCHANGED <<disk, cmd, loaded, mi, ki, written, starts, edits>>
Finish(p) ==
    /\ pc[p] = "open" /\ mi[p] > Len(loaded[p].state_machines)
    /\ Goto(p, "ok")
    /\ UNCHANGED <<disk, cmd, loaded, mi, ki, written, starts, edits>>

\* init_manifest: the check, and a version without it.
Unchecked(p) ==
    /\ pc[p] = "exists"
    /\ Goto(p, "create")
    /\ UNCHANGED <<disk, cmd, loaded, mi, ki, written, starts, edits>>
Exists(p) ==
    /\ pc[p] = "exists"
    /\ Goto(p, IF toml = Absent THEN "create" ELSE "failed")
    /\ UNCHANGED <<disk, cmd, loaded, mi, ki, written, starts, edits>>

\* std::fs::write of the template: truncated, then written piece by piece
\* over what is there by then.
Create(p) ==
    /\ pc[p] = "create"
    /\ toml' = << >>
    /\ written' = [written EXCEPT ![p] = 0]
    /\ Goto(p, "template")
    /\ UNCHANGED <<files, outDir, cmd, loaded, mi, ki, starts, edits>>
WriteTemplate(p) ==
    /\ pc[p] = "template"
    /\ toml' = Put(toml, written[p] + 1, Template)
    /\ written' = [written EXCEPT ![p] = @ + 1]
    /\ Goto(p, IF written[p] + 1 < Length[Template] THEN "template" ELSE "ok")
    /\ UNCHANGED <<files, outDir, cmd, loaded, mi, ki, starts, edits>>

\* An I/O error, or the process is killed.
Stop(p) ==
    /\ ~Ended(p)
    /\ Goto(p, "failed")
    /\ UNCHANGED <<disk, cmd, loaded, mi, ki, written, starts, edits>>

Work(p) ==
    \/ Load(p) \/ Validate(p)
    \/ MakeDir(p) \/ Check(p) \/ Open(p) \/ FillPart(p) \/ Fill(p) \/ Finish(p)
    \/ Exists(p) \/ Create(p) \/ WriteTemplate(p)

Next == Edit \/ \E p \in Proc : Start(p) \/ Work(p) \/ Stop(p)

Spec == Init /\ [][Next]_vars

------------------------------------------------------------------------------
TypeOK ==
    /\ toml \in Seq(Manifests \cup {Hole}) \cup {Absent}
    /\ files \in [Path -> Seq(Artifact \cup {Hole}) \cup {Absent}]
    /\ outDir \in BOOLEAN
    /\ cmd \in [Proc -> {"none", "init", "validate", "generate", "run", "show"}]
    /\ pc \in [Proc -> {"load", "validate", "mkdir", "check", "open", "fill",
                        "exists", "create", "template", "ok", "failed"}]
    /\ loaded \in [Proc -> Manifests]
    /\ mi \in [Proc -> Nat \ {0}]
    /\ ki \in [Proc -> 1 .. 4]
    /\ written \in [Proc -> Nat]
    /\ starts \in 0 .. MaxStarts /\ edits \in 0 .. MaxEdits

(* What an invocation has behind it at each point; with it, OnlyAcceptedOnDisk *)
(* and ScriptLast are inductive.                                             *)
Phases ==
    \A p \in Proc :
        /\ pc[p] \in {"mkdir", "check", "open", "fill"} =>
              cmd[p] = "generate" /\ validate(loaded[p])
        /\ pc[p] \in {"open", "fill"} => AllAccepted(loaded[p])
        /\ pc[p] = "fill" => mi[p] <= Len(loaded[p].state_machines)
        /\ pc[p] \in {"open", "fill"} /\ mi[p] <= Len(loaded[p].state_machines) =>
              \A k \in 1 .. 4 : k < ki[p] \/ (k = ki[p] /\ pc[p] = "fill") =>
                  files[Outputs(Current(p))[k].path] /= Absent
        /\ pc[p] = "template" => toml /= Absent

\* x is what an accepted machine's artifact at the path q is made of.
Genuine(x, q) ==
    /\ Accepted(x.machine)
    /\ \E k \in 1 .. 4 : Outputs(x.machine)[k] = [path |-> q, kind |-> x.kind]

(* All machines are validated before the first write, on the manifest as it *)
(* was loaded: whatever invocations overlap, whatever the user saves in the *)
(* meantime and wherever a run stops, every piece of every file on disk     *)
(* was generated from a machine the parser accepts, for the path it is at.  *)
(* (A file need not be one text: overlapping generates may mix two.)        *)
OnlyAcceptedOnDisk == \A q \in Path : \A x \in Pieces(files[q]) : Genuine(x, q)

(* A manifest with one bad machine costs nothing: no file of the output     *)
(* directory is created or truncated on its account, not even those of the  *)
(* good machines listed before the bad one.                                 *)
RejectedTouchesNothing ==
    [][files' /= files =>
        \E p \in Proc : /\ pc[p] \in {"open", "fill"} /\ cmd[p] = "generate"
                        /\ validate(loaded[p])
                        /\ \A i \in DOMAIN loaded[p].state_machines :
                             Accepted(loaded[p].state_machines[i])]_vars

(* The run script is written last: where there is one, the specification,   *)
(* the PlusCal module and the configuration have been created too, even if  *)
(* a generate was stopped half way.                                         *)
ScriptLast ==
    \A s \in Stem : files[ShPath(s)] /= Absent =>
        /\ files[TlaPath(s)] /= Absent
        /\ files[TlaPath(PlusCalOf[s])] /= Absent
        /\ files[CfgPath(s)] /= Absent

(* What is inductive of the above.                                          *)
IInv == TypeOK /\ Phases /\ OnlyAcceptedOnDisk /\ ScriptLast
==============================================================================
