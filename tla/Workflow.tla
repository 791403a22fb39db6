------------------------------- MODULE Workflow -------------------------------
(***************************************************************************)
(* The project in use: the invocations of module Cli, and the shells in    *)
(* which the user runs what they leave behind, a run script or a command   *)
(* that `tlaiser run` has printed.  The script is the text that            *)
(* generate_run_script emits (set -euo pipefail, the search for the tools, *)
(* tlc_command, the last echo), taken at its meaning; bash reads so short  *)
(* a file at once.  TLC is external: it reads the configuration, then the  *)
(* module, from the files as they are at that moment, and may object to    *)
(* what they say.                                                          *)
(***************************************************************************)
EXTENDS Cli

CONSTANT Shell  \* where scripts run

ASSUME WorkflowAssumption == Absent \notin Proc

VARIABLES
    sh,     \* what each shell is at
    name,   \* the machine its command names
    read,   \* the configuration and the module that TLC has read in it
    \* History, never read by an action:
    owner,  \* the generate that writes alone since its first file, or Absent
    good,   \* the manifest of the last generate, if that wrote alone and ended well
    clean,  \* good was there when the shell started, and no file opened since
    late    \* the init that others have overtaken since they found no manifest

shells == <<sh, name, read>>
history == <<owner, good, clean, late>>
wvars == <<vars, shells, history>>

Nothing == [cfg |-> Absent, tla |-> Absent]

WInit ==
    /\ Init
    /\ sh = [s \in Shell |-> "idle"]
    /\ name = [s \in Shell |-> Absent] /\ read = [s \in Shell |-> Nothing]
    /\ owner = Absent /\ good = Absent /\ late = {}
    /\ clean = [s \in Shell |-> FALSE]

------------------------------------------------------------------------------
(* The invocations, and what the history makes of their steps.             *)

Writing(p) == pc[p] \in {"open", "fill"}

WOpen(p) ==
    /\ Open(p)
    /\ owner' = IF \E q \in Proc \ {p} : Writing(q) THEN Absent
                ELSE IF mi[p] = 1 /\ ki[p] = 1 THEN p
                ELSE IF owner = p THEN p ELSE Absent
    /\ good' = Absent /\ clean' = [s \in Shell |-> FALSE]
    /\ UNCHANGED <<shells, late>>
WFinish(p) ==
    /\ Finish(p)
    /\ good' = IF owner = p THEN loaded[p] ELSE Absent
    /\ UNCHANGED <<shells, owner, clean, late>>
WExists(p) ==
    /\ Exists(p) /\ late' = late \ {p}
    /\ UNCHANGED <<shells, owner, good, clean>>
WCreate(p) ==
    /\ Create(p) /\ late' = late \cup {q \in Proc \ {p} : pc[q] = "create"}
    /\ UNCHANGED <<shells, owner, good, clean>>
WEdit ==
    /\ Edit /\ late' = late \cup {q \in Proc : pc[q] \in {"create", "template"}}
    /\ UNCHANGED <<shells, owner, good, clean>>
WWork(p) ==
    \/ WOpen(p) \/ WFinish(p) \/ WExists(p) \/ WCreate(p)
    \/ /\ \/ Load(p) \/ Validate(p) \/ MakeDir(p) \/ Check(p)
          \/ FillPart(p) \/ Fill(p) \/ WriteTemplate(p)
       /\ UNCHANGED <<shells, history>>
Outside ==
    \/ WEdit
    \/ (\E p \in Proc : Start(p) \/ Stop(p)) /\ UNCHANGED <<shells, history>>

------------------------------------------------------------------------------
(* The shells. *)

At(s, l) == sh' = [sh EXCEPT ![s] = l]
Begin(s, n) ==
    /\ sh[s] = "idle"
    /\ name' = [name EXCEPT ![s] = n]
    /\ clean' = [clean EXCEPT ![s] = good /= Absent]
    /\ UNCHANGED <<vars, read, owner, good, late>>
\* The prompt is back, whatever the exit status.
Prompt(s) ==
    /\ At(s, "idle")
    /\ name' = [name EXCEPT ![s] = Absent] /\ read' = [read EXCEPT ![s] = Nothing]
    /\ clean' = [clean EXCEPT ![s] = FALSE]
    /\ UNCHANGED <<vars, owner, good, late>>

\* Neither one text nor nothing.
Torn(f) == f \notin {Absent, << >>} /\ ~Whole(f)

\* bash run_tlc_X.sh: a truncated script does nothing, and that successfully.
\* A torn one may do as much, fail, or get as far as the search for the tools.
RunScript(s) ==
    \E x \in Stem : LET f == files[ShPath(x)] IN
        \/ f = << >> /\ At(s, "silent") /\ Begin(s, x)
        \/ Torn(f) /\ (At(s, "silent") \/ At(s, "unread")) /\ Begin(s, x)
        \/ \E y \in Pieces(f) : At(s, "tools") /\ Begin(s, y.machine.name)

\* [[ ! -f "$TLA2TOOLS" ]]: exit 1, or go on.
FindTools(s) ==
    /\ sh[s] = "tools"
    /\ \/ At(s, "config") /\ UNCHANGED <<vars, name, read, history>>
       \/ Prompt(s)

\* tlc_command as `tlaiser run` has printed it, for each machine of the
\* manifest as it was loaded: not validated, perhaps never generated.
RunPrinted(s) ==
    \E p \in Proc :
        /\ cmd[p] = "run" /\ pc[p] = "ok"
        /\ \E i \in DOMAIN loaded[p].state_machines :
             At(s, "config") /\ Begin(s, loaded[p].state_machines[i].name)

\* -config X.cfg X.tla, in the output directory or elsewhere.  A file that is
\* missing or empty is an error, and so is a PlusCal algorithm in place of
\* the module: untranslated it defines no Spec.  A torn file may do: TLC reads
\* no further than the closing line.
Usable(q, kind) == Whole(files[q]) /\ files[q][1].kind = kind
Read(s, kind, q, next) ==
    /\ \/ /\ Usable(q, kind) \/ Torn(files[q])
          /\ At(s, next) /\ read' = [read EXCEPT ![s][kind] = files[q]]
       \/ ~Usable(q, kind) /\ At(s, "unread") /\ UNCHANGED read
    /\ UNCHANGED <<vars, name, history>>
ReadConfig(s) ==
    /\ sh[s] = "config"
    /\ Prompt(s) \/ Read(s, "cfg", CfgPath(name[s]), "module")
ReadModule(s) ==
    /\ sh[s] = "module"
    /\ Read(s, "tla", TlaPath(name[s]), "checking")

\* TLC ends, and with it (set -e) the script, or after "TLC completed."; or
\* there was nothing to do.
TlcEnds(s) ==
    /\ sh[s] \in {"checking", "silent", "unread"}
    /\ Prompt(s)

Shells(s) ==
    \/ RunScript(s) \/ FindTools(s) \/ RunPrinted(s)
    \/ ReadConfig(s) \/ ReadModule(s) \/ TlcEnds(s)

WNext == Outside \/ (\E p \in Proc : WWork(p)) \/ (\E s \in Shell : Shells(s))

WSpec == WInit /\ [][WNext]_wvars

------------------------------------------------------------------------------
(* A started command comes back or is stopped, however slowly it runs and   *)
(* whatever others do to its files: each of its steps brings it to a later  *)
(* phase, closer to the end of its last file (so that none is written twice *)
(* and no machine is skipped over and over), or to the next piece of the    *)
(* file it has open.                                                        *)
Phase(l) ==
    CASE l \in {"load", "exists"} -> 5
      [] l \in {"validate", "create"} -> 4
      [] l \in {"mkdir", "template"} -> 3
      [] l = "check" -> 2
      [] l \in {"open", "fill"} -> 1
      [] l \in {"ok", "failed"} -> 0
Left(p) ==
    8 * (Len(loaded[p].state_machines) + 1 - mi[p]) - 2 * ki[p] + (IF pc[p] = "open" THEN 2 ELSE 1)
Size(p) == IF pc[p] = "fill" THEN Length[Product(p)] ELSE Length[Template]
MovesOn ==
    [][\A p \in Proc : ~Ended(p) =>
          \/ Phase(pc'[p]) < Phase(pc[p])
          \/ Writing(p) /\ Writing(p)' /\ 0 <= Left(p)' /\ Left(p)' < Left(p)
          \/ /\ UNCHANGED <<pc[p], mi[p], ki[p], loaded[p]>>
             /\ \/ written'[p] = written[p]
                \/ written[p] < written'[p] /\ written'[p] < Size(p)]_wvars

(* A generate that wrote alone and ended well leaves at each path the       *)
(* artifact of the last machine that claims the path, whatever was there    *)
(* before and however earlier invocations ended; and it stays so until a    *)
(* file is opened again.                                                    *)
LastClaim(man, q, i, k) ==
    /\ Outputs(man.state_machines[i])[k].path = q
    /\ \A j \in DOMAIN man.state_machines : \A l \in 1 .. 4 :
         j > i \/ (j = i /\ l > k) => Outputs(man.state_machines[j])[l].path /= q
SuccessIsComplete ==
    good /= Absent =>
        \A i \in DOMAIN good.state_machines : \A k \in 1 .. 4 :
            LET o == Outputs(good.state_machines[i])[k]
            IN  LastClaim(good, o.path, i, k) =>
                    files[o.path] = FileOf([kind |-> o.kind, machine |-> good.state_machines[i]])

(* init never destroys a manifest ("tlaiser.toml already exists"): the      *)
(* manifest that is there stays as it is, except for what the user saves,   *)
(* and for an init that had found none and was overtaken, by another init   *)
(* or by the user, before it had written its template.                      *)
ManifestSurvives ==
    [][Whole(toml) /\ toml' /= toml =>
          \/ edits' /= edits
          \/ \E p \in late : /\ pc[p] \in {"create", "template"}
                            /\ <<pc[p], written[p]>>' /= <<pc[p], written[p]>>]_wvars

(* Neither run nor the script validates anything, and the files may be      *)
(* older than the manifest, half rewritten or of two generates at once:     *)
(* still, every piece TLC reads comes from an accepted machine and belongs  *)
(* at that path, and what is one text is the module or the configuration of *)
(* the machine that was named.                                              *)
CheckedIsAccepted ==
    \A s \in Shell :
        /\ sh[s] = "checking" => read[s].tla /= Absent /\ read[s].cfg /= Absent
        /\ \A k \in {"cfg", "tla"} :
              /\ \A x \in Pieces(read[s][k]) : Genuine(x, [stem |-> name[s], ext |-> k])
              /\ Whole(read[s][k]) =>
                    read[s][k][1].kind = k /\ read[s][k][1].machine.name = name[s]

(* After such a generate, the script and the printed command of any machine *)
(* of its manifest do something, find their files, and TLC reads module and *)
(* configuration of that machine, if no two machines share a file and no    *)
(* file is opened in between.  (Of a machine that is no longer in the       *)
(* manifest nothing of the kind holds: its files are left as they were.)    *)
Apart(man) ==
    \A i, j \in DOMAIN man.state_machines : \A k, l \in 1 .. 4 :
        Outputs(man.state_machines[i])[k].path = Outputs(man.state_machines[j])[l].path
            => i = j /\ k = l
CleanRunIsCoherent ==
    \A s \in Shell : clean[s] /\ Apart(good) =>
        \A i \in DOMAIN good.state_machines :
            LET m == good.state_machines[i] IN name[s] = m.name =>
                /\ sh[s] \notin {"silent", "unread"}
                /\ sh[s] \in {"module", "checking"} =>
                      read[s].cfg = FileOf([kind |-> "cfg", machine |-> m])
                /\ sh[s] = "checking" => read[s].tla = FileOf([kind |-> "tla", machine |-> m])

------------------------------------------------------------------------------
(* The inductive invariant behind CheckedIsAccepted and MovesOn.            *)
\* At every moment, of a shell at l with name n and read r.
ShellInv(l, n, r) ==
    /\ l \in {"idle", "tools", "config", "module", "checking", "silent", "unread"}
    /\ n \in Stem \cup {Absent}
    /\ l = "idle" => r = Nothing
    /\ l /= "idle" => n \in Stem
    /\ l = "module" => r.cfg /= Absent
    /\ l = "checking" => r.tla /= Absent /\ r.cfg /= Absent
    /\ \A k \in {"cfg", "tla"} :
          /\ \A x \in Pieces(r[k]) : Genuine(x, [stem |-> n, ext |-> k])
          /\ Whole(r[k]) => r[k][1].kind = k /\ r[k][1].machine.name = n
ShellsOK ==
    /\ DOMAIN sh = Shell /\ DOMAIN name = Shell /\ DOMAIN read = Shell
    /\ \A s \in Shell : DOMAIN read[s] = {"cfg", "tla"} /\ ShellInv(sh[s], name[s], read[s])
InRange ==
    \A p \in Proc :
        /\ pc[p] = "open" => mi[p] <= Len(loaded[p].state_machines) + 1
        /\ pc[p] \in {"fill", "template"} => written[p] < Size(p)
WInv == IInv /\ ShellsOK /\ InRange
==============================================================================
