------------------------------ MODULE CliProofs ------------------------------
(* For any number of invocations, any manifests and any output names: what  *)
(* generate_all's order (validate everything, then write, script last)      *)
(* guarantees about the output directory.                                   *)
EXTENDS Workflow, SequenceTheorems, TLAPS

(* Paths of one stem with different extensions are different files.         *)
LEMMA PathsApart ==
    \A s, t \in Stem :
        /\ TlaPath(s) \in Path /\ CfgPath(s) \in Path /\ ShPath(s) \in Path
        /\ ShPath(s) /= TlaPath(t) /\ ShPath(s) /= CfgPath(t)
        /\ ShPath(s) = ShPath(t) => s = t
  BY DEF Path, TlaPath, CfgPath, ShPath

(* The four outputs of a machine: their paths exist, and the fourth is the  *)
(* run script, at a name of its own.                                        *)
LEMMA OutputsType ==
    ASSUME NEW m \in Machine
    PROVE  /\ \A k \in 1 .. 4 : Outputs(m)[k].path \in Path
           /\ \A k \in 1 .. 4 : Outputs(m)[k].kind \in {"tla", "pcal", "cfg", "sh"}
           /\ \A k \in 1 .. 4 :
                Outputs(m)[k] = [path |-> Outputs(m)[k].path, kind |-> Outputs(m)[k].kind]
           /\ Outputs(m)[1].path = TlaPath(m.name)
           /\ Outputs(m)[2].path = TlaPath(PlusCalOf[m.name])
           /\ Outputs(m)[3].path = CfgPath(m.name)
           /\ Outputs(m)[4].path = ShPath(m.name)
           /\ m.name \in Stem
<1>1. m.name \in Stem /\ PlusCalOf[m.name] \in Stem
  BY CliAssumption
<1>2. \A k \in 1 .. 4 : k = 1 \/ k = 2 \/ k = 3 \/ k = 4
  OBVIOUS
<1>3. QED
  BY <1>1, <1>2, PathsApart DEF Outputs

(* The machine an invocation is generating is one of its manifest's, and    *)
(* its next output has a path.                                              *)
LEMMA CurrentType ==
    ASSUME TypeOK, NEW p \in Proc, mi[p] <= Len(loaded[p].state_machines)
    PROVE  /\ Current(p) \in Machine
           /\ Output(p).path \in Path
           /\ AllAccepted(loaded[p]) => Accepted(Current(p))
<1>1. loaded[p].state_machines \in Seq(Machine) /\ mi[p] \in Nat \ {0} /\ ki[p] \in 1 .. 4
  BY CliAssumption DEF TypeOK
<1>2. mi[p] \in 1 .. Len(loaded[p].state_machines)
  BY <1>1, LenProperties
<1>3. DOMAIN loaded[p].state_machines = 1 .. Len(loaded[p].state_machines)
  BY <1>1, LenProperties
<1>4. Current(p) \in Machine
  BY <1>1, <1>2, ElementOfSeq DEF Current
<1>5. QED
  BY <1>1, <1>2, <1>3, <1>4, OutputsType DEF Output, Current, AllAccepted

(* Files are sequences, and so never Absent.                                *)
LEMMA FilesAreNotAbsent ==
    ASSUME NEW S, S \subseteq Artifact \cup Manifests, NEW f \in Seq(S \cup {Hole})
    PROVE  f /= Absent
<1>1. Len(f) \in Nat /\ f \in [1 .. Len(f) -> Artifact \cup Manifests \cup {Hole}]
  BY LenProperties
<1>2. f \in Seq(Artifact \cup Manifests \cup {Hole})
  BY <1>1, SeqDef
<1>3. QED
  BY <1>2, CliAssumption

(* A text as a file: whole, and of its own pieces only.                     *)
LEMMA TextIsWhole ==
    ASSUME NEW S, S \subseteq Artifact \cup Manifests, NEW x \in S
    PROVE  /\ FileOf(x) \in Seq(S \cup {Hole}) /\ FileOf(x) /= Absent /\ FileOf(x) /= << >>
           /\ FileOf(x)[1] = x /\ Whole(FileOf(x)) /\ Pieces(FileOf(x)) = {x}
<1>1. Length[x] \in Nat \ {0} /\ x /= Hole
  BY CliAssumption
<1>2. FileOf(x) \in [1 .. Length[x] -> S \cup {Hole}] /\ DOMAIN FileOf(x) = 1 .. Length[x]
  BY DEF FileOf
<1>3. FileOf(x) \in Seq(S \cup {Hole})
  BY <1>1, <1>2, SeqDef
<1>4. FileOf(x) /= Absent
  BY <1>3, FilesAreNotAbsent
<1>5. 1 \in 1 .. Length[x] /\ \A i \in 1 .. Length[x] : FileOf(x)[i] = x
  BY <1>1 DEF FileOf
<1>6. FileOf(x) /= << >>
  BY <1>1, <1>2, <1>3, EmptySeq, LenProperties
<1>7. Pieces(FileOf(x)) = {x}
  BY <1>1, <1>2, <1>4, <1>5 DEF Pieces
<1>8. QED
  BY <1>1, <1>3, <1>4, <1>5, <1>6, <1>7 DEF Whole

(* What a write does to the pieces of a file.                               *)
LEMMA PutType ==
    ASSUME NEW S, S \subseteq Artifact \cup Manifests, NEW f \in Seq(S \cup {Hole}),
           NEW i \in Nat \ {0}, NEW x \in S
    PROVE  /\ Put(f, i, x) \in Seq(S \cup {Hole}) /\ Put(f, i, x) /= Absent
           /\ Pieces(Put(f, i, x)) \subseteq Pieces(f) \cup {x}
<1> DEFINE n == IF i > Len(f) THEN i ELSE Len(f)
           g == Put(f, i, x)
<1>1. Len(f) \in Nat /\ f \in [1 .. Len(f) -> S \cup {Hole}] /\ DOMAIN f = 1 .. Len(f)
  BY LenProperties
<1>2. n \in Nat
  BY <1>1
<1>3. /\ DOMAIN g = 1 .. n
      /\ \A j \in 1 .. n : g[j] = IF j = i THEN x ELSE IF j <= Len(f) THEN f[j] ELSE Hole
  BY DEF Put
<1>4. g \in [1 .. n -> S \cup {Hole}]
  <2>1. \A j \in 1 .. n : g[j] \in S \cup {Hole}
    BY <1>1, <1>2, <1>3
  <2>2. g = [j \in 1 .. n |-> g[j]]
    BY DEF Put
  <2>3. QED
    BY <2>1, <2>2
<1>5. g \in Seq(S \cup {Hole})
  BY <1>2, <1>4, SeqDef
<1>6. g /= Absent /\ f /= Absent
  BY <1>5, FilesAreNotAbsent
<1>7. Pieces(g) \subseteq Pieces(f) \cup {x}
  <2> SUFFICES ASSUME NEW j \in 1 .. n, g[j] /= Hole PROVE g[j] \in Pieces(f) \cup {x}
    BY <1>3, <1>6 DEF Pieces
  <2>1. g[j] = x \/ (j \in 1 .. Len(f) /\ g[j] = f[j])
    BY <1>1, <1>2, <1>3
  <2>2. QED
    BY <1>1, <1>6, <2>1 DEF Pieces
<1>8. QED
  BY <1>5, <1>6, <1>7

(* Both, for the two kinds of files there are.                              *)
LEMMA ManifestFiles ==
    /\ \A m \in Manifests : FileOf(m) \in Seq(Manifests \cup {Hole}) /\ FileOf(m) /= Absent
    /\ \A f \in Seq(Manifests \cup {Hole}) : \A i \in Nat \ {0} : \A m \in Manifests :
          Put(f, i, m) \in Seq(Manifests \cup {Hole}) /\ Put(f, i, m) /= Absent
<1>1. Manifests \subseteq Artifact \cup Manifests
  OBVIOUS
<1>2. \A m \in Manifests : FileOf(m) \in Seq(Manifests \cup {Hole}) /\ FileOf(m) /= Absent
  BY <1>1, TextIsWhole
<1>3. ASSUME NEW f \in Seq(Manifests \cup {Hole}), NEW i \in Nat \ {0}, NEW m \in Manifests
      PROVE  Put(f, i, m) \in Seq(Manifests \cup {Hole}) /\ Put(f, i, m) /= Absent
  BY <1>1, PutType, Zenon
<1>4. QED
  BY <1>2, <1>3

LEMMA ArtifactFiles ==
    ASSUME NEW f \in Seq(Artifact \cup {Hole}), NEW i \in Nat \ {0}, NEW x \in Artifact
    PROVE  /\ Put(f, i, x) \in Seq(Artifact \cup {Hole}) /\ Put(f, i, x) /= Absent
           /\ Pieces(Put(f, i, x)) \subseteq Pieces(f) \cup {x}
<1>1. Artifact \subseteq Artifact \cup Manifests
  OBVIOUS
<1>2. QED
  BY <1>1, PutType, Zenon

\* A file just opened holds the first 0 pieces of any text.
LEMMA NoPieces == \A x : << >> = [j \in 1 .. 0 |-> x]
<1> TAKE x
<1> DEFINE f == [j \in 1 .. 0 |-> x]
<1>1. f \in [1 .. 0 -> {x}] /\ f \in Seq({x}) /\ DOMAIN f = 1 .. 0
  BY SeqDef
<1>2. Len(f) = 0
  BY <1>1, LenProperties
<1>3. QED
  BY <1>1, <1>2, EmptySeq

(* The next piece of a text behind those before it.                         *)
LEMMA PutNextPiece ==
    ASSUME NEW w \in Nat, NEW x
    PROVE  Put([j \in 1 .. w |-> x], w + 1, x) = [j \in 1 .. w + 1 |-> x]
<1> DEFINE f == [j \in 1 .. w |-> x]
<1>1. f \in [1 .. w -> {x}] /\ f \in Seq({x}) /\ DOMAIN f = 1 .. w
  BY SeqDef
<1>2. Len(f) = w
  BY <1>1, LenProperties
<1>3. \A j \in 1 .. w + 1 : j = w + 1 \/ (j <= w /\ f[j] = x)
  OBVIOUS
<1>4. (IF w + 1 > w THEN w + 1 ELSE w) = w + 1
  OBVIOUS
<1>5. Put(f, w + 1, x) = [j \in 1 .. w + 1 |-> IF j = w + 1 THEN x ELSE IF j <= w THEN f[j] ELSE Hole]
  BY <1>2, <1>4 DEF Put
<1>6. QED
  BY <1>3, <1>5

LEMMA InitIInv == Init => IInv
<1> SUFFICES ASSUME Init PROVE IInv
  OBVIOUS
<1>1. TypeOK
  <2>1. 0 \in 0 .. MaxStarts /\ 0 \in 0 .. MaxEdits /\ Template \in Manifests
    BY CliAssumption
  <2>2. /\ files \in [Path -> Seq(Artifact \cup {Hole}) \cup {Absent}]
        /\ loaded \in [Proc -> Manifests] /\ written \in [Proc -> Nat]
    BY <2>1 DEF Init
  <2>3. mi \in [Proc -> Nat \ {0}] /\ ki \in [Proc -> 1 .. 4]
    BY DEF Init
  <2>4. cmd \in [Proc -> {"none", "init", "validate", "generate", "run", "show"}]
    BY DEF Init
  <2>5. pc \in [Proc -> {"load", "validate", "mkdir", "check", "open", "fill",
                         "exists", "create", "template", "ok", "failed"}]
    BY DEF Init
  <2>6. toml \in Seq(Manifests \cup {Hole}) \cup {Absent}
    BY ManifestFiles DEF Init
  <2>7. QED
    BY <2>1, <2>2, <2>3, <2>4, <2>5, <2>6 DEF Init, TypeOK
<1>2. Phases
  BY DEF Init, Phases
<1>3. OnlyAcceptedOnDisk /\ ScriptLast
  BY PathsApart DEF Init, OnlyAcceptedOnDisk, ScriptLast, Pieces
<1>4. QED
  BY <1>1, <1>2, <1>3 DEF IInv

(* Steps that leave the output directory and every loop counter alone only  *)
(* have to respect the phases.                                              *)
LEMMA Quiet ==
    ASSUME IInv, TypeOK', UNCHANGED <<files, mi, ki>>, NEW p \in Proc,
           \A q \in Proc \ {p} : /\ pc'[q] = pc[q] /\ cmd'[q] = cmd[q]
                                 /\ loaded'[q] = loaded[q],
           pc'[p] \in {"mkdir", "check"} => cmd'[p] = "generate" /\ validate(loaded'[p]),
           pc'[p] \notin {"open", "fill"},
           pc'[p] = "template" \/ toml /= Absent => toml' /= Absent
    PROVE  IInv'
<1>1. Phases'
  <2> SUFFICES ASSUME NEW q \in Proc
      PROVE  /\ pc'[q] \in {"mkdir", "check", "open", "fill"} =>
                  cmd'[q] = "generate" /\ validate(loaded'[q])
             /\ pc'[q] \in {"open", "fill"} => AllAccepted(loaded'[q])
             /\ pc'[q] = "fill" => mi'[q] <= Len(loaded'[q].state_machines)
             /\ pc'[q] \in {"open", "fill"} /\ mi'[q] <= Len(loaded'[q].state_machines) =>
                  \A k \in 1 .. 4 : k < ki'[q] \/ (k = ki'[q] /\ pc'[q] = "fill") =>
                      files'[Outputs(loaded'[q].state_machines[mi'[q]])[k].path] /= Absent
             /\ pc'[q] = "template" => toml' /= Absent
    BY DEF Phases, Current
  <2>1. CASE q = p
    BY <2>1
  <2>2. CASE q /= p
    BY <2>2 DEF IInv, Phases, Current
  <2>3. QED
    BY <2>1, <2>2
<1>2. QED
  BY <1>1 DEF IInv, OnlyAcceptedOnDisk, ScriptLast

(* One write of a generate adds a piece of its own artifact to a file that  *)
(* is there.                                                                *)
LEMMA PutKeeps ==
    ASSUME IInv, NEW p \in Proc, PutNext(p)
    PROVE  /\ files' \in [Path -> Seq(Artifact \cup {Hole}) \cup {Absent}]
           /\ written' \in [Proc -> Nat]
           /\ \A q \in Path : files'[q] = Absent <=> files[q] = Absent
           /\ OnlyAcceptedOnDisk' /\ ScriptLast'
<1> DEFINE o == Output(p).path
           f == Put(files[o], written[p] + 1, Product(p))
<1>0. TypeOK /\ Phases /\ OnlyAcceptedOnDisk /\ ScriptLast
  BY DEF IInv
<1>1. pc[p] = "fill" /\ files' = [files EXCEPT ![o] = f] /\ written' = [written EXCEPT ![p] = @ + 1]
  BY DEF PutNext
<1>2. /\ mi[p] <= Len(loaded[p].state_machines) /\ AllAccepted(loaded[p])
      /\ ki[p] \in 1 .. 4 /\ files[o] /= Absent
  BY <1>0, <1>1 DEF Phases, TypeOK, Output
<1>3. /\ Current(p) \in Machine /\ o \in Path /\ Accepted(Current(p))
      /\ Output(p).kind \in {"tla", "pcal", "cfg", "sh"}
      /\ Output(p) = Outputs(Current(p))[ki[p]]
      /\ Output(p) = [path |-> o, kind |-> Output(p).kind]
  BY <1>0, <1>2, CurrentType, OutputsType DEF Output
<1>4. Product(p) \in Artifact /\ Genuine(Product(p), o)
  BY <1>2, <1>3 DEF Product, Artifact, Genuine
<1>5. files[o] \in Seq(Artifact \cup {Hole}) /\ written[p] + 1 \in Nat \ {0}
  BY <1>0, <1>2, <1>3 DEF TypeOK
<1>6. /\ f \in Seq(Artifact \cup {Hole}) /\ f /= Absent
      /\ Pieces(f) \subseteq Pieces(files[o]) \cup {Product(p)}
  <2> DEFINE old == files[o]
             at == written[p] + 1
             new == Product(p)
  <2>1. old \in Seq(Artifact \cup {Hole}) /\ at \in Nat \ {0} /\ new \in Artifact
    BY <1>4, <1>5
  <2> HIDE DEF old, at, new
  <2>2. /\ Put(old, at, new) \in Seq(Artifact \cup {Hole}) /\ Put(old, at, new) /= Absent
        /\ Pieces(Put(old, at, new)) \subseteq Pieces(old) \cup {new}
    BY <2>1, ArtifactFiles
  <2>3. QED
    BY <2>2 DEF old, at, new
<1> HIDE DEF f
<1>7. files' \in [Path -> Seq(Artifact \cup {Hole}) \cup {Absent}] /\ written' \in [Proc -> Nat]
  <2> DEFINE F == Seq(Artifact \cup {Hole}) \cup {Absent}
  <2>1. files \in [Path -> F] /\ f \in F /\ written \in [Proc -> Nat]
    BY <1>0, <1>6 DEF TypeOK
  <2> HIDE DEF F
  <2>2. files' \in [Path -> F]
    BY <1>1, <2>1
  <2>3. written' \in [Proc -> Nat]
    BY <1>1, <2>1
  <2>4. QED
    BY <2>2, <2>3 DEF F
<1>8. files'[o] = f /\ \A q \in Path : q /= o => files'[q] = files[q]
  BY <1>0, <1>1, <1>3 DEF TypeOK
<1>9. \A q \in Path : files'[q] = Absent <=> files[q] = Absent
  BY <1>2, <1>6, <1>8
<1>10. OnlyAcceptedOnDisk'
  <2> SUFFICES ASSUME NEW q \in Path, NEW x \in Pieces(files'[q]) PROVE Genuine(x, q)
    BY DEF OnlyAcceptedOnDisk
  <2>1. CASE q = o
    BY <1>0, <1>3, <1>4, <1>6, <1>8, <2>1 DEF OnlyAcceptedOnDisk
  <2>2. CASE q /= o
    BY <1>0, <1>8, <2>2 DEF OnlyAcceptedOnDisk
  <2>3. QED
    BY <2>1, <2>2
<1>11. ScriptLast'
  <2>1. \A s \in Stem : /\ ShPath(s) \in Path /\ TlaPath(s) \in Path /\ CfgPath(s) \in Path
                        /\ TlaPath(PlusCalOf[s]) \in Path
    BY CliAssumption, PathsApart
  <2>2. QED
    BY <1>0, <1>9, <2>1 DEF ScriptLast
<1>12. QED
  BY <1>7, <1>9, <1>10, <1>11

LEMMA StepIInv == IInv /\ [Next]_vars => IInv'
<1> SUFFICES ASSUME IInv, [Next]_vars PROVE IInv'
  OBVIOUS
<1>0. TypeOK /\ Phases /\ OnlyAcceptedOnDisk /\ ScriptLast
  BY DEF IInv
<1>1. ASSUME NEW p \in Proc, Start(p) PROVE IInv'
  <2>1. TypeOK'
    <3>1. starts' \in 0 .. MaxStarts
      BY <1>0, <1>1, CliAssumption DEF Start, TypeOK
    <3>2. PICK c \in {"init", "validate", "generate", "run", "show"} :
            /\ cmd' = [cmd EXCEPT ![p] = c]
            /\ pc' = [pc EXCEPT ![p] = IF c = "init" THEN "exists" ELSE "load"]
      BY <1>1 DEF Start, Goto
    <3>3. /\ cmd' \in [Proc -> {"none", "init", "validate", "generate", "run", "show"}]
          /\ pc' \in [Proc -> {"load", "validate", "mkdir", "check", "open", "fill",
                               "exists", "create", "template", "ok", "failed"}]
      BY <1>0, <3>2 DEF TypeOK
    <3>4. QED
      BY <1>0, <1>1, <3>1, <3>3 DEF Start, disk, TypeOK
  <2>2. /\ UNCHANGED <<files, mi, ki>>
        /\ \A q \in Proc \ {p} : pc'[q] = pc[q] /\ cmd'[q] = cmd[q] /\ loaded'[q] = loaded[q]
        /\ pc'[p] \in {"exists", "load"} /\ toml' = toml
    BY <1>0, <1>1 DEF Start, disk, Goto, TypeOK
  <2>3. QED
    BY <2>1, <2>2, Quiet
<1>2. CASE Edit
  <2>1. /\ edits' \in 0 .. MaxEdits
        /\ toml' \in Seq(Manifests \cup {Hole}) /\ toml' /= Absent
    <3>1. PICK m \in Manifests : toml' = FileOf(m)
      BY <1>2 DEF Edit
    <3>2. edits' \in 0 .. MaxEdits
      BY <1>0, <1>2, CliAssumption DEF Edit, TypeOK
    <3>3. QED
      BY <3>1, <3>2, ManifestFiles
  <2>2. UNCHANGED <<files, outDir, cmd, pc, loaded, mi, ki, written, starts>>
    BY <1>2 DEF Edit
  <2>3. TypeOK'
    BY <1>0, <2>1, <2>2 DEF TypeOK
  <2>4. (Phases /\ OnlyAcceptedOnDisk /\ ScriptLast)'
    BY <1>0, <2>1, <2>2 DEF Phases, Current, OnlyAcceptedOnDisk, ScriptLast
  <2>5. QED
    BY <2>3, <2>4 DEF IInv
<1>3. ASSUME NEW p \in Proc, Load(p) PROVE IInv'
  <2>1. TypeOK'
    <3>1. loaded' \in [Proc -> Manifests]
      BY <1>0, <1>3 DEF Load, TypeOK
    <3>2. pc' \in [Proc -> {"load", "validate", "mkdir", "check", "open", "fill",
                           "exists", "create", "template", "ok", "failed"}]
      BY <1>0, <1>3 DEF Load, Goto, TypeOK
    <3>3. QED
      BY <1>0, <1>3, <3>1, <3>2 DEF Load, disk, TypeOK
  <2>2. /\ UNCHANGED <<files, mi, ki>>
        /\ \A q \in Proc \ {p} : pc'[q] = pc[q] /\ cmd'[q] = cmd[q] /\ loaded'[q] = loaded[q]
        /\ pc'[p] \in {"validate", "ok", "failed"} /\ toml' = toml
    BY <1>0, <1>3 DEF Load, disk, Goto, TypeOK
  <2>3. QED
    BY <2>1, <2>2, Quiet
<1>4. ASSUME NEW p \in Proc, Validate(p) PROVE IInv'
  <2>1. TypeOK'
    BY <1>0, <1>4 DEF Validate, disk, Goto, TypeOK
  <2>2. /\ UNCHANGED <<files, mi, ki, cmd, loaded>>
        /\ \A q \in Proc \ {p} : pc'[q] = pc[q]
        /\ pc'[p] \in {"mkdir", "ok", "failed"} /\ toml' = toml
        /\ pc'[p] = "mkdir" => validate(loaded[p]) /\ cmd[p] = "generate"
    BY <1>0, <1>4 DEF Validate, disk, Goto, TypeOK
  <2>3. QED
    BY <2>1, <2>2, Quiet
<1>5. ASSUME NEW p \in Proc, MakeDir(p) PROVE IInv'
  <2>1. TypeOK'
    BY <1>0, <1>5 DEF MakeDir, Goto, TypeOK
  <2>2. /\ UNCHANGED <<files, mi, ki, cmd, loaded>>
        /\ \A q \in Proc \ {p} : pc'[q] = pc[q]
        /\ pc'[p] = "check" /\ validate(loaded[p]) /\ cmd[p] = "generate" /\ toml' = toml
    BY <1>0, <1>5 DEF MakeDir, Goto, TypeOK, Phases
  <2>3. QED
    BY <2>1, <2>2, Quiet
<1>6. ASSUME NEW p \in Proc, Check(p) PROVE IInv'
  <2>1. TypeOK'
    BY <1>0, <1>6 DEF Check, disk, Goto, TypeOK
  <2>2. /\ UNCHANGED <<toml, files, cmd, loaded>>
        /\ \A q \in Proc \ {p} : pc'[q] = pc[q] /\ mi'[q] = mi[q] /\ ki'[q] = ki[q]
        /\ ki'[p] = 1 /\ pc'[p] \in {"open", "failed"}
        /\ pc'[p] = "open" => AllAccepted(loaded[p])
        /\ validate(loaded[p]) /\ cmd[p] = "generate"
    BY <1>0, <1>6 DEF Check, disk, Goto, TypeOK, Phases
  <2>3. Phases'
    BY <1>0, <2>2 DEF Phases, Current
  <2>4. QED
    BY <1>0, <2>1, <2>2, <2>3 DEF IInv, OnlyAcceptedOnDisk, ScriptLast
<1>7. ASSUME NEW p \in Proc, Open(p) PROVE IInv'
  <2>1. /\ mi[p] <= Len(loaded[p].state_machines) /\ pc[p] = "open"
        /\ files' = [files EXCEPT ![Output(p).path] = << >>]
        /\ pc' = [pc EXCEPT ![p] = "fill"] /\ written' = [written EXCEPT ![p] = 0]
        /\ UNCHANGED <<toml, outDir, cmd, loaded, mi, ki, starts, edits>>
    BY <1>7 DEF Open, Goto
  <2>2. Current(p) \in Machine /\ Output(p).path \in Path
    BY <1>0, <2>1, CurrentType
  <2>3. TypeOK'
    <3>1. files' \in [Path -> Seq(Artifact \cup {Hole}) \cup {Absent}]
      BY <1>0, <2>1, <2>2 DEF TypeOK
    <3>2. pc' \in [Proc -> {"load", "validate", "mkdir", "check", "open", "fill",
                             "exists", "create", "template", "ok", "failed"}]
          /\ written' \in [Proc -> Nat]
      BY <1>0, <2>1 DEF TypeOK
    <3>3. QED
      BY <1>0, <2>1, <3>1, <3>2 DEF TypeOK
  <2>10. << >> \in Seq(Artifact \cup {Hole}) /\ << >> /= Absent
    <3>1. << >> \in Seq(Artifact \cup {Hole})
      OBVIOUS
    <3>2. QED
      BY <3>1, FilesAreNotAbsent
  <2>4. \A q \in Path : /\ files[q] /= Absent => files'[q] /= Absent
                        /\ q /= Output(p).path => files'[q] = files[q]
    BY <1>0, <2>1, <2>2, <2>10 DEF TypeOK
  <2>5. files'[Output(p).path] = << >> /\ files'[Output(p).path] /= Absent
    BY <1>0, <2>1, <2>2, <2>10 DEF TypeOK
  <2>6. OnlyAcceptedOnDisk'
    <3>1. Pieces(<< >>) = {}
      BY <2>10 DEF Pieces
    <3>2. QED
      BY <1>0, <2>4, <2>5, <3>1 DEF OnlyAcceptedOnDisk
  <2>7. Phases'
    <3> SUFFICES ASSUME NEW q \in Proc
        PROVE  /\ pc'[q] \in {"mkdir", "check", "open", "fill"} =>
                    cmd'[q] = "generate" /\ validate(loaded'[q])
               /\ pc'[q] \in {"open", "fill"} => AllAccepted(loaded'[q])
               /\ pc'[q] = "fill" => mi'[q] <= Len(loaded'[q].state_machines)
               /\ pc'[q] \in {"open", "fill"} /\ mi'[q] <= Len(loaded'[q].state_machines) =>
                    \A k \in 1 .. 4 : k < ki'[q] \/ (k = ki'[q] /\ pc'[q] = "fill") =>
                        files'[Outputs(loaded'[q].state_machines[mi'[q]])[k].path] /= Absent
               /\ pc'[q] = "template" => toml' /= Absent
      BY DEF Phases, Current
    <3>1. ASSUME mi[q] <= Len(loaded[q].state_machines)
          PROVE  \A k \in 1 .. 4 : Outputs(Current(q))[k].path \in Path
      BY <1>0, <3>1, CurrentType, OutputsType
    <3>2. CASE q = p
      BY <1>0, <2>1, <2>4, <2>5, <3>1, <3>2 DEF Phases, Current, Output, TypeOK
    <3>3. CASE q /= p
      <4>1. pc'[q] = pc[q] /\ UNCHANGED <<toml, cmd, loaded, mi, ki>>
        BY <1>0, <2>1, <3>3 DEF TypeOK
      <4>2. ASSUME pc[q] \in {"open", "fill"}, mi[q] <= Len(loaded[q].state_machines),
                   NEW k \in 1 .. 4, k < ki[q] \/ (k = ki[q] /\ pc[q] = "fill")
            PROVE  files'[Outputs(Current(q))[k].path] /= Absent
        BY <1>0, <2>4, <3>1, <4>2 DEF Phases
      <4>3. QED
        BY <1>0, <4>1, <4>2 DEF Phases, Current
    <3>4. QED
      BY <3>2, <3>3
  <2>8. ScriptLast'
    <3> SUFFICES ASSUME NEW s \in Stem, files'[ShPath(s)] /= Absent
        PROVE  /\ files'[TlaPath(s)] /= Absent
               /\ files'[TlaPath(PlusCalOf[s])] /= Absent
               /\ files'[CfgPath(s)] /= Absent
      BY DEF ScriptLast
    <3>1. /\ PlusCalOf[s] \in Stem /\ ShPath(s) \in Path /\ TlaPath(s) \in Path
          /\ TlaPath(PlusCalOf[s]) \in Path /\ CfgPath(s) \in Path
      BY CliAssumption, PathsApart
    <3>2. CASE files[ShPath(s)] /= Absent
      BY <1>0, <2>4, <3>1, <3>2 DEF ScriptLast
    <3>3. CASE files[ShPath(s)] = Absent
      <4>1. ShPath(s) = Output(p).path
        BY <2>4, <3>1, <3>3
      <4>2. ki[p] = 4 /\ s = Current(p).name
        <5>1. ki[p] \in 1 .. 4 /\ ShPath(s) = Outputs(Current(p))[ki[p]].path
          BY <1>0, <4>1 DEF TypeOK, Output
        <5>2. /\ Current(p).name \in Stem /\ PlusCalOf[Current(p).name] \in Stem
              /\ Outputs(Current(p))[1].path = TlaPath(Current(p).name)
              /\ Outputs(Current(p))[2].path = TlaPath(PlusCalOf[Current(p).name])
              /\ Outputs(Current(p))[3].path = CfgPath(Current(p).name)
              /\ Outputs(Current(p))[4].path = ShPath(Current(p).name)
          BY <2>2, OutputsType, CliAssumption
        <5>3. ki[p] = 1 \/ ki[p] = 2 \/ ki[p] = 3 \/ ki[p] = 4
          BY <5>1
        <5>4. CASE ki[p] = 4
          BY <5>1, <5>2, <5>4, PathsApart
        <5>5. CASE ki[p] /= 4
          BY <5>1, <5>2, <5>3, <5>5, PathsApart
        <5>6. QED
          BY <5>4, <5>5
      <4>3. \A k \in 1 .. 3 : files[Outputs(Current(p))[k].path] /= Absent
        BY <1>0, <2>1, <4>2 DEF Phases
      <4>4. /\ files[TlaPath(s)] /= Absent /\ files[CfgPath(s)] /= Absent
            /\ files[TlaPath(PlusCalOf[s])] /= Absent
        <5>1. 1 \in 1 .. 3 /\ 2 \in 1 .. 3 /\ 3 \in 1 .. 3
          OBVIOUS
        <5>2. /\ Outputs(Current(p))[1].path = TlaPath(s)
              /\ Outputs(Current(p))[2].path = TlaPath(PlusCalOf[s])
              /\ Outputs(Current(p))[3].path = CfgPath(s)
          BY <2>2, <4>2, OutputsType
        <5>3. QED
          BY <4>3, <5>1, <5>2
      <4>5. QED
        BY <2>4, <3>1, <4>4
    <3>4. QED
      BY <3>2, <3>3
  <2>9. QED
    BY <2>3, <2>6, <2>7, <2>8 DEF IInv
<1>8. ASSUME NEW p \in Proc, FillPart(p) PROVE IInv'
  <2>1. /\ PutNext(p) /\ UNCHANGED <<pc, mi, ki>>
        /\ UNCHANGED <<toml, outDir, cmd, loaded, starts, edits>>
    BY <1>8 DEF FillPart, PutNext
  <2>2. /\ files' \in [Path -> Seq(Artifact \cup {Hole}) \cup {Absent}] /\ written' \in [Proc -> Nat]
        /\ \A q \in Path : files'[q] = Absent <=> files[q] = Absent
        /\ OnlyAcceptedOnDisk' /\ ScriptLast'
    BY <2>1, PutKeeps
  <2>3. TypeOK'
    BY <1>0, <2>1, <2>2 DEF TypeOK
  <2>4. Phases'
    <3>1. ASSUME NEW q \in Proc, pc[q] \in {"open", "fill"}, mi[q] <= Len(loaded[q].state_machines),
                 NEW k \in 1 .. 4, k < ki[q] \/ (k = ki[q] /\ pc[q] = "fill")
          PROVE  files'[Outputs(Current(q))[k].path] /= Absent
      <4>1. Outputs(Current(q))[k].path \in Path
        BY <1>0, <3>1, CurrentType, OutputsType
      <4>2. QED
        BY <1>0, <2>2, <3>1, <4>1 DEF Phases
    <3>2. QED
      BY <1>0, <2>1, <3>1 DEF Phases, Current
  <2>5. QED
    BY <2>2, <2>3, <2>4 DEF IInv
<1>9. ASSUME NEW p \in Proc, Fill(p) PROVE IInv'
  <2>1. /\ pc[p] = "fill" /\ PutNext(p)
        /\ ki' = [ki EXCEPT ![p] = IF @ = 4 THEN 1 ELSE @ + 1]
        /\ mi' = [mi EXCEPT ![p] = IF ki[p] = 4 THEN @ + 1 ELSE @]
        /\ pc' = [pc EXCEPT ![p] = "open"]
        /\ UNCHANGED <<toml, outDir, cmd, loaded, starts, edits>>
    BY <1>9 DEF Fill, PutNext, Goto
  <2>2. /\ mi[p] <= Len(loaded[p].state_machines) /\ AllAccepted(loaded[p])
        /\ \A k \in 1 .. 4 : k <= ki[p] => files[Outputs(Current(p))[k].path] /= Absent
        /\ ki[p] \in 1 .. 4 /\ mi[p] \in Nat \ {0}
    BY <1>0, <2>1 DEF Phases, TypeOK
  <2>3. Current(p) \in Machine
    BY <1>0, <2>2, CurrentType
  <2>4. /\ files' \in [Path -> Seq(Artifact \cup {Hole}) \cup {Absent}] /\ written' \in [Proc -> Nat]
        /\ \A q \in Path : files'[q] = Absent <=> files[q] = Absent
        /\ OnlyAcceptedOnDisk' /\ ScriptLast'
    BY <2>1, PutKeeps
  <2>5. TypeOK'
    <3>1. /\ ki' \in [Proc -> 1 .. 4] /\ mi' \in [Proc -> Nat \ {0}]
          /\ pc' \in [Proc -> {"load", "validate", "mkdir", "check", "open", "fill",
                               "exists", "create", "template", "ok", "failed"}]
      BY <1>0, <2>1, <2>2 DEF TypeOK
    <3>2. QED
      BY <1>0, <2>1, <2>4, <3>1 DEF TypeOK
  <2>6. Phases'
    <3> SUFFICES ASSUME NEW q \in Proc
        PROVE  /\ pc'[q] \in {"mkdir", "check", "open", "fill"} =>
                    cmd'[q] = "generate" /\ validate(loaded'[q])
               /\ pc'[q] \in {"open", "fill"} => AllAccepted(loaded'[q])
               /\ pc'[q] = "fill" => mi'[q] <= Len(loaded'[q].state_machines)
               /\ pc'[q] \in {"open", "fill"} /\ mi'[q] <= Len(loaded'[q].state_machines) =>
                    \A k \in 1 .. 4 : k < ki'[q] \/ (k = ki'[q] /\ pc'[q] = "fill") =>
                        files'[Outputs(loaded'[q].state_machines[mi'[q]])[k].path] /= Absent
               /\ pc'[q] = "template" => toml' /= Absent
      BY DEF Phases, Current
    <3>1. CASE q = p
      <4>1. pc'[q] = "open" /\ loaded'[q] = loaded[q] /\ cmd'[q] = cmd[q]
        BY <1>0, <2>1, <3>1 DEF TypeOK
      <4>2. CASE ki[p] = 4
        <5>1. \A k \in 1 .. 4 : ~(k < 1)
          OBVIOUS
        <5>2. ki'[q] = 1
          BY <1>0, <2>1, <3>1, <4>2 DEF TypeOK
        <5>3. QED
          BY <1>0, <2>1, <2>2, <3>1, <4>1, <5>1, <5>2 DEF Phases
      <4>3. CASE ki[p] /= 4
        <5>1. ki'[q] = ki[p] + 1 /\ mi'[q] = mi[p]
          BY <1>0, <2>1, <3>1, <4>3 DEF TypeOK
        <5>2. \A k \in 1 .. 4 : k < ki[p] + 1 => k <= ki[p]
          BY <2>2
        <5>3. ASSUME NEW k \in 1 .. 4, k <= ki[p]
              PROVE  files'[Outputs(Current(p))[k].path] /= Absent
          <6>1. Outputs(Current(p))[k].path \in Path
            BY <2>3, OutputsType
          <6>2. QED
            BY <2>2, <2>4, <5>3, <6>1
        <5>4. QED
          BY <1>0, <2>1, <2>2, <3>1, <4>1, <5>1, <5>2, <5>3 DEF Phases, Current
      <4>4. QED
        BY <4>2, <4>3
    <3>2. CASE q /= p
      <4>1. ASSUME mi[q] <= Len(loaded[q].state_machines)
            PROVE  \A k \in 1 .. 4 : Outputs(Current(q))[k].path \in Path
        BY <1>0, <4>1, CurrentType, OutputsType
      <4>2. pc'[q] = pc[q] /\ mi'[q] = mi[q] /\ ki'[q] = ki[q] /\ UNCHANGED <<toml, cmd, loaded>>
        BY <1>0, <2>1, <3>2 DEF TypeOK
      <4>3. ASSUME pc[q] \in {"open", "fill"}, mi[q] <= Len(loaded[q].state_machines),
                   NEW k \in 1 .. 4, k < ki[q] \/ (k = ki[q] /\ pc[q] = "fill")
            PROVE  files'[Outputs(Current(q))[k].path] /= Absent
        BY <1>0, <2>4, <4>1, <4>3 DEF Phases
      <4>4. QED
        BY <1>0, <4>2, <4>3 DEF Phases, Current
    <3>3. QED
      BY <3>1, <3>2
  <2>7. QED
    BY <2>4, <2>5, <2>6 DEF IInv
<1>10. ASSUME NEW p \in Proc, WriteTemplate(p) PROVE IInv'
  <2>1. /\ pc[p] = "template" /\ toml' = Put(toml, written[p] + 1, Template)
        /\ UNCHANGED <<files, outDir, cmd, loaded, mi, ki, starts, edits>>
    BY <1>10 DEF WriteTemplate
  <2>2. toml \in Seq(Manifests \cup {Hole}) /\ written[p] + 1 \in Nat \ {0}
    BY <1>0, <2>1 DEF TypeOK, Phases
  <2>3. toml' \in Seq(Manifests \cup {Hole}) /\ toml' /= Absent
    BY <2>1, <2>2, ManifestFiles, CliAssumption
  <2>4. /\ pc' \in [Proc -> {"load", "validate", "mkdir", "check", "open", "fill",
                             "exists", "create", "template", "ok", "failed"}]
        /\ written' \in [Proc -> Nat]
        /\ pc'[p] \in {"template", "ok"} /\ \A q \in Proc \ {p} : pc'[q] = pc[q]
    BY <1>0, <1>10 DEF WriteTemplate, Goto, TypeOK
  <2>5. TypeOK'
    BY <1>0, <2>1, <2>3, <2>4 DEF TypeOK
  <2>6. QED
    BY <2>1, <2>3, <2>4, <2>5, Quiet
<1>11. ASSUME NEW p \in Proc, Create(p) PROVE IInv'
  <2>1. /\ toml' = << >> /\ written' = [written EXCEPT ![p] = 0] /\ pc' = [pc EXCEPT ![p] = "template"]
        /\ UNCHANGED <<files, outDir, cmd, loaded, mi, ki, starts, edits>>
    BY <1>11 DEF Create, Goto
  <2>2. toml' \in Seq(Manifests \cup {Hole}) /\ toml' /= Absent
    <3>1. << >> \in Seq(Manifests \cup {Hole})
      OBVIOUS
    <3>2. QED
      BY <2>1, <3>1, FilesAreNotAbsent
  <2>3. /\ pc' \in [Proc -> {"load", "validate", "mkdir", "check", "open", "fill",
                             "exists", "create", "template", "ok", "failed"}]
        /\ written' \in [Proc -> Nat]
        /\ pc'[p] = "template" /\ \A q \in Proc \ {p} : pc'[q] = pc[q]
    BY <1>0, <2>1 DEF TypeOK
  <2>4. TypeOK'
    BY <1>0, <2>1, <2>2, <2>3 DEF TypeOK
  <2>5. QED
    BY <2>1, <2>2, <2>3, <2>4, Quiet
<1>12. ASSUME NEW p \in Proc, Finish(p) \/ Exists(p) \/ Stop(p)
      PROVE  IInv'
  <2>1. TypeOK'
    BY <1>0, <1>12 DEF Finish, Exists, Stop, disk, Goto, TypeOK
  <2>2. /\ UNCHANGED <<toml, files, mi, ki, cmd, loaded>>
        /\ \A q \in Proc \ {p} : pc'[q] = pc[q]
        /\ pc'[p] \in {"ok", "failed", "create"}
    BY <1>0, <1>12 DEF Finish, Exists, Stop, disk, Goto, TypeOK
  <2>3. QED
    BY <2>1, <2>2, Quiet
<1>13. CASE UNCHANGED vars
  BY <1>0, <1>13 DEF vars, IInv, TypeOK, Phases, Current, OnlyAcceptedOnDisk, ScriptLast
<1>14. QED
  BY <1>1, <1>2, <1>3, <1>4, <1>5, <1>6, <1>7, <1>8, <1>9, <1>10, <1>11, <1>12, <1>13 DEF Next, Work

THEOREM Invariance == Spec => []IInv
  BY InitIInv, StepIInv, PTL DEF Spec

(* Whatever overlaps, is edited or is stopped, the output directory holds   *)
(* only artifacts of accepted machines, each at its own path.               *)
THEOREM OutputIsAccepted == Spec => []OnlyAcceptedOnDisk
<1>1. IInv => OnlyAcceptedOnDisk
  BY DEF IInv
<1>2. QED
  BY <1>1, Invariance, PTL

(* A run script never exists without the files it runs.                     *)
THEOREM ScriptIsLast == Spec => []ScriptLast
<1>1. IInv => ScriptLast
  BY DEF IInv
<1>2. QED
  BY <1>1, Invariance, PTL

(* Only a generate whose manifest is accepted as a whole touches the output.*)
THEOREM RejectedIsHarmless == Spec => RejectedTouchesNothing
<1>1. IInv /\ [Next]_vars =>
        [files' /= files =>
          \E p \in Proc : /\ pc[p] \in {"open", "fill"} /\ cmd[p] = "generate"
                          /\ validate(loaded[p])
                          /\ \A i \in DOMAIN loaded[p].state_machines :
                               Accepted(loaded[p].state_machines[i])]_vars
  BY DEF IInv, Phases, AllAccepted, Next, Work, Start, Edit, Load, Validate, MakeDir, Check,
         Open, FillPart, Fill, PutNext, Finish, Exists, Create, WriteTemplate, Stop, disk, vars
<1>2. QED
  BY <1>1, Invariance, PTL DEF Spec, RejectedTouchesNothing

-----------------------------------------------------------------------------
(* The project in use (module Workflow).                                    *)

(* A shell only reads: every step of the workflow is one of module Cli, or  *)
(* leaves the project as it is.                                             *)
LEMMA ShellsOnlyRead == \A s \in Shell : Shells(s) => UNCHANGED vars
  BY DEF Shells, RunScript, FindTools, RunPrinted, ReadConfig, ReadModule, TlcEnds,
         Begin, Prompt, Read

LEMMA StepOfCli == [WNext]_wvars => [Next]_vars
<1> SUFFICES ASSUME [WNext]_wvars PROVE [Next]_vars
  OBVIOUS
<1>1. CASE Outside
  BY <1>1 DEF Outside, WEdit, Next
<1>2. ASSUME NEW p \in Proc, WWork(p) PROVE Next
  BY <1>2 DEF WWork, WOpen, WFinish, WExists, WCreate, Next, Work
<1>3. ASSUME NEW s \in Shell, Shells(s) PROVE UNCHANGED vars
  BY <1>3, ShellsOnlyRead
<1>4. CASE UNCHANGED wvars
  BY <1>4 DEF wvars
<1>5. QED
  BY <1>1, <1>2, <1>3, <1>4 DEF WNext

(* Whatever is run in the shells, the invocations behave as module Cli says *)
(* they do, and so what is proved of them holds of the project in use.      *)
THEOREM WorkflowIsCli == WSpec => Spec
<1>1. WInit => Init
  BY DEF WInit
<1>2. QED
  BY <1>1, StepOfCli, PTL DEF WSpec, Spec

(* What is at the path a command names: pieces that belong there, and if it *)
(* is one text of the kind wanted, the one of the machine of that name.     *)
LEMMA FoundIsAccepted ==
    ASSUME IInv, NEW n \in Stem, NEW k \in {"cfg", "tla"}
    PROVE  LET q == [stem |-> n, ext |-> k]
           IN  /\ \A x \in Pieces(files[q]) : Genuine(x, q)
               /\ Usable(q, k) => files[q][1].machine.name = n
<1> DEFINE q == [stem |-> n, ext |-> k]
<1>1. q \in Path /\ TypeOK /\ OnlyAcceptedOnDisk
  BY DEF Path, IInv
<1>2. \A x \in Pieces(files[q]) : Genuine(x, q)
  BY <1>1 DEF OnlyAcceptedOnDisk
<1>3. ASSUME Usable(q, k) PROVE files[q][1].machine.name = n
  <2> DEFINE x == files[q][1]
  <2>1. /\ files[q] \in Seq(Artifact \cup {Hole}) /\ files[q] /= << >> /\ files[q] /= Absent
        /\ x /= Hole /\ x.kind = k
    BY <1>1, <1>3 DEF TypeOK, Usable, Whole
  <2>2. 1 \in 1 .. Len(files[q]) /\ DOMAIN files[q] = 1 .. Len(files[q])
    BY <2>1, EmptySeq, LenProperties
  <2>3. x \in Pieces(files[q]) /\ x \in Artifact
    BY <2>1, <2>2, ElementOfSeq DEF Pieces
  <2>4. x.machine \in Machine
    BY <2>3 DEF Artifact
  <2>5. PICK l \in 1 .. 4 : Outputs(x.machine)[l] = [path |-> q, kind |-> k]
    BY <1>2, <2>1, <2>3 DEF Genuine
  <2>6. l = 1 \/ l = 2 \/ l = 3 \/ l = 4
    BY <2>5
  <2>7. l = 1 \/ l = 3
    BY <2>5, <2>6 DEF Outputs
  <2>8. q = TlaPath(x.machine.name) \/ q = CfgPath(x.machine.name)
    <3>1. Outputs(x.machine)[l].path = q
      BY <2>5
    <3>2. /\ Outputs(x.machine)[1].path = TlaPath(x.machine.name)
          /\ Outputs(x.machine)[3].path = CfgPath(x.machine.name)
      BY DEF Outputs
    <3>3. QED
      BY <2>7, <3>1, <3>2
  <2>9. QED
    BY <2>8 DEF TlaPath, CfgPath
<1>4. QED
  BY <1>2, <1>3

LEMMA WInitInv == WInit => WInv
<1> SUFFICES ASSUME WInit PROVE WInv
  OBVIOUS
<1>1. IInv
  BY InitIInv DEF WInit
<1>2. ShellsOK
  BY DEF WInit, ShellsOK, ShellInv, Nothing, Pieces, Whole
<1>3. InRange
  BY DEF WInit, Init, InRange
<1>4. QED
  BY <1>1, <1>2, <1>3 DEF WInv

(* A shell's step changes that shell only, so it is enough to look at its   *)
(* new place, name and files.                                               *)
LEMMA OneShell ==
    ASSUME ShellsOK, NEW s \in Shell,
           \/ name' = name
           \/ \E n : name' = [name EXCEPT ![s] = n],
           \/ read' = read
           \/ \E r : read' = [read EXCEPT ![s] = r],
           \E l : sh' = [sh EXCEPT ![s] = l],
           DOMAIN read'[s] = {"cfg", "tla"}, ShellInv(sh'[s], name'[s], read'[s])
    PROVE  ShellsOK'
<1>1. /\ DOMAIN sh' = Shell /\ DOMAIN name' = Shell /\ DOMAIN read' = Shell
      /\ \A t \in Shell \ {s} : sh'[t] = sh[t] /\ name'[t] = name[t] /\ read'[t] = read[t]
  BY DEF ShellsOK
<1>2. ASSUME NEW t \in Shell
      PROVE  DOMAIN read'[t] = {"cfg", "tla"} /\ ShellInv(sh'[t], name'[t], read'[t])
  <2>1. CASE t = s
    BY <2>1
  <2>2. CASE t /= s
    BY <1>1, <2>2 DEF ShellsOK
  <2>3. QED
    BY <2>1, <2>2
<1>3. QED
  BY <1>1, <1>2 DEF ShellsOK

LEMMA ReadKeepsShells ==
    ASSUME IInv, ShellsOK, NEW s \in Shell, NEW kind \in {"cfg", "tla"}, NEW next,
           name[s] \in Stem, sh[s] /= "idle",
           Read(s, kind, [stem |-> name[s], ext |-> kind], next),
           (next = "module" /\ kind = "cfg") \/ (next = "checking" /\ kind = "tla"),
           next = "checking" => read[s].cfg /= Absent
    PROVE  ShellsOK'
<1> DEFINE q == [stem |-> name[s], ext |-> kind]
<1>0. /\ DOMAIN sh = Shell /\ DOMAIN name = Shell /\ DOMAIN read = Shell
      /\ DOMAIN read[s] = {"cfg", "tla"} /\ ShellInv(sh[s], name[s], read[s])
      /\ name' = name
  BY DEF ShellsOK, Read
<1>1. CASE (Usable(q, kind) \/ Torn(files[q])) /\ At(s, next) /\ read' = [read EXCEPT ![s][kind] = files[q]]
  <2> DEFINE r == [read[s] EXCEPT ![kind] = files[q]]
  <2>1. sh' = [sh EXCEPT ![s] = next] /\ read' = [read EXCEPT ![s] = r]
    BY <1>1 DEF At
  <2>2. /\ DOMAIN r = {"cfg", "tla"} /\ r[kind] = files[q]
        /\ \A k \in {"cfg", "tla"} : k /= kind => r[k] = read[s][k]
    BY <1>0
  <2> HIDE DEF r
  <2>3. /\ \A x \in Pieces(files[q]) : Genuine(x, q)
        /\ Whole(files[q]) => files[q][1].kind = kind /\ files[q][1].machine.name = name[s]
        /\ files[q] /= Absent
    <3>1. /\ Whole(files[q]) => files[q][1].kind = kind /\ Usable(q, kind)
          /\ files[q] /= Absent
      BY <1>1 DEF Usable, Torn, Whole
    <3>2. /\ \A x \in Pieces(files[q]) : Genuine(x, q)
          /\ Usable(q, kind) => files[q][1].machine.name = name[s]
      BY FoundIsAccepted
    <3>3. QED
      BY <3>1, <3>2
  <2>4. ShellInv(next, name[s], r)
    <3>1. ASSUME NEW k \in {"cfg", "tla"}
          PROVE  /\ \A x \in Pieces(r[k]) : Genuine(x, [stem |-> name[s], ext |-> k])
                 /\ Whole(r[k]) => r[k][1].kind = k /\ r[k][1].machine.name = name[s]
      <4>1. CASE k = kind
        BY <2>2, <2>3, <4>1
      <4>2. CASE k /= kind
        BY <1>0, <2>2, <4>2 DEF ShellInv
      <4>3. QED
        BY <4>1, <4>2
    <3>2. /\ next \in {"module", "checking"}
          /\ next = "module" => r.cfg /= Absent
          /\ next = "checking" => r.tla /= Absent /\ r.cfg /= Absent
      BY <2>2, <2>3
    <3>3. QED
      BY <3>1, <3>2 DEF ShellInv
  <2>5. sh'[s] = next /\ name'[s] = name[s] /\ read'[s] = r
    BY <1>0, <2>1
  <2>6. QED
    BY <1>0, <2>1, <2>2, <2>4, <2>5, OneShell
<1>2. CASE At(s, "unread") /\ UNCHANGED read
  <2>1. sh' = [sh EXCEPT ![s] = "unread"] /\ read' = read
    BY <1>2 DEF At
  <2>2. sh'[s] = "unread" /\ name'[s] = name[s] /\ read'[s] = read[s]
    BY <1>0, <2>1
  <2>3. ShellInv("unread", name[s], read[s])
    BY <1>0 DEF ShellInv
  <2>4. QED
    BY <1>0, <2>1, <2>2, <2>3, OneShell
<1>3. QED
  BY <1>1, <1>2 DEF Read

LEMMA PromptKeepsShells ==
    ASSUME ShellsOK, NEW s \in Shell, Prompt(s) PROVE ShellsOK'
<1>1. /\ sh' = [sh EXCEPT ![s] = "idle"] /\ name' = [name EXCEPT ![s] = Absent]
      /\ read' = [read EXCEPT ![s] = Nothing]
  BY DEF Prompt, At
<1>2. sh'[s] = "idle" /\ name'[s] = Absent /\ read'[s] = Nothing
  BY <1>1 DEF ShellsOK
<1>3. ShellInv("idle", Absent, Nothing) /\ DOMAIN Nothing = {"cfg", "tla"}
  BY DEF ShellInv, Nothing, Pieces, Whole
<1>4. QED
  BY <1>1, <1>2, <1>3, OneShell

LEMMA BeginKeepsShells ==
    ASSUME ShellsOK, NEW s \in Shell, NEW l \in {"tools", "config", "silent", "unread"}, NEW n \in Stem,
           At(s, l), Begin(s, n)
    PROVE  ShellsOK'
<1>1. /\ sh' = [sh EXCEPT ![s] = l] /\ name' = [name EXCEPT ![s] = n]
      /\ read' = read /\ sh[s] = "idle"
  BY DEF Begin, At
<1>2. sh'[s] = l /\ name'[s] = n /\ read'[s] = Nothing
  BY <1>1 DEF ShellsOK, ShellInv
<1>3. ShellInv(l, n, Nothing) /\ DOMAIN Nothing = {"cfg", "tla"}
  BY DEF ShellInv, Nothing, Pieces, Whole
<1>4. QED
  BY <1>1, <1>2, <1>3, OneShell

LEMMA ShellsStep ==
    ASSUME IInv, ShellsOK, NEW s \in Shell, Shells(s) PROVE ShellsOK'
<1>0. TypeOK /\ ShellInv(sh[s], name[s], read[s])
  BY DEF IInv, ShellsOK
<1>1. CASE RunScript(s)
  <2>1. PICK x \in Stem :
            \/ At(s, "silent") /\ Begin(s, x)
            \/ At(s, "unread") /\ Begin(s, x)
            \/ \E y \in Pieces(files[ShPath(x)]) : At(s, "tools") /\ Begin(s, y.machine.name)
    BY <1>1 DEF RunScript
  <2>2. ASSUME NEW y \in Pieces(files[ShPath(x)])
        PROVE  y.machine.name \in Stem
    <3>1. files[ShPath(x)] \in Seq(Artifact \cup {Hole}) /\ y /= Hole
          /\ \E i \in DOMAIN files[ShPath(x)] : y = files[ShPath(x)][i]
      BY <1>0, <2>2, PathsApart DEF TypeOK, Pieces
    <3>2. y \in Artifact
      BY <3>1, ElementOfSeq, LenProperties
    <3>3. QED
      BY <3>2, OutputsType DEF Artifact
  <2>3. QED
    BY <2>1, <2>2, BeginKeepsShells
<1>2. CASE FindTools(s)
  <2>1. CASE Prompt(s)
    BY <2>1, PromptKeepsShells
  <2>2. CASE At(s, "config") /\ UNCHANGED <<vars, name, read, history>>
    <3>1. sh' = [sh EXCEPT ![s] = "config"] /\ name' = name /\ read' = read /\ sh[s] = "tools"
      BY <1>2, <2>2 DEF At, FindTools
    <3>2. sh'[s] = "config" /\ name'[s] = name[s] /\ read'[s] = read[s]
      BY <3>1 DEF ShellsOK
    <3>3. ShellInv("config", name[s], read[s]) /\ DOMAIN read[s] = {"cfg", "tla"}
      BY <1>0, <3>1 DEF ShellInv, ShellsOK
    <3>4. QED
      BY <3>1, <3>2, <3>3, OneShell
  <2>3. QED
    BY <1>2, <2>1, <2>2 DEF FindTools
<1>3. CASE RunPrinted(s)
  <2>1. PICK p \in Proc : \E i \in DOMAIN loaded[p].state_machines :
            At(s, "config") /\ Begin(s, loaded[p].state_machines[i].name)
    BY <1>3 DEF RunPrinted
  <2>2. PICK i \in DOMAIN loaded[p].state_machines :
            At(s, "config") /\ Begin(s, loaded[p].state_machines[i].name)
    BY <2>1
  <2>3. loaded[p].state_machines \in Seq(Machine)
    BY <1>0, CliAssumption DEF TypeOK
  <2>4. loaded[p].state_machines[i] \in Machine
    BY <2>3, ElementOfSeq, LenProperties
  <2>5. loaded[p].state_machines[i].name \in Stem
    BY <2>4, OutputsType
  <2>6. QED
    BY <2>2, <2>5, BeginKeepsShells
<1>4. CASE ReadConfig(s)
  <2>1. sh[s] = "config" /\ name[s] \in Stem
    BY <1>0, <1>4 DEF ReadConfig, ShellInv
  <2>2. Prompt(s) \/ Read(s, "cfg", CfgPath(name[s]), "module")
    BY <1>4 DEF ReadConfig
  <2>3. CASE Prompt(s)
    BY <2>3, PromptKeepsShells
  <2>4. CASE Read(s, "cfg", CfgPath(name[s]), "module")
    <3>1. Read(s, "cfg", [stem |-> name[s], ext |-> "cfg"], "module")
      BY <2>4 DEF CfgPath
    <3>2. sh[s] /= "idle" /\ "module" /= "checking" /\ "cfg" \in {"cfg", "tla"} /\ IInv
      BY <1>0, <2>1
    <3>3. QED
      BY <1>0, <2>1, <3>1, <3>2, ReadKeepsShells
  <2>5. QED
    BY <2>2, <2>3, <2>4
<1>5. CASE ReadModule(s)
  <2>1. sh[s] = "module" /\ name[s] \in Stem /\ read[s].cfg /= Absent
    BY <1>0, <1>5 DEF ReadModule, ShellInv
  <2>2. Read(s, "tla", TlaPath(name[s]), "checking")
    BY <1>5 DEF ReadModule
  <2>3. QED
    BY <2>1, <2>2, ReadKeepsShells DEF TlaPath
<1>6. CASE TlcEnds(s)
  BY <1>6, PromptKeepsShells DEF TlcEnds
<1>7. QED
  BY <1>1, <1>2, <1>3, <1>4, <1>5, <1>6 DEF Shells

(* An artifact is written in at least one piece.                            *)
LEMMA ProductType ==
    ASSUME TypeOK, NEW p \in Proc, mi[p] <= Len(loaded[p].state_machines)
    PROVE  /\ Product(p) \in Artifact /\ Length[Product(p)] \in Nat \ {0}
           /\ Length[Template] \in Nat \ {0}
<1>1. Current(p) \in Machine /\ ki[p] \in 1 .. 4
  BY CurrentType DEF TypeOK
<1>2. Output(p).kind \in {"tla", "pcal", "cfg", "sh"}
  BY <1>1, OutputsType DEF Output
<1>3. QED
  BY <1>1, <1>2, CliAssumption DEF Product, Artifact

(* One invocation's step leaves the others where they are, and keeps its    *)
(* machine counter within one of the list's end and its offset within the   *)
(* text.                                                                    *)
LEMMA OwnStep ==
    ASSUME IInv, InRange, NEW p \in Proc, Start(p) \/ Work(p) \/ Stop(p)
    PROVE  /\ \A q \in Proc \ {p} : /\ pc'[q] = pc[q] /\ loaded'[q] = loaded[q]
                                    /\ mi'[q] = mi[q] /\ ki'[q] = ki[q]
                                    /\ written'[q] = written[q]
           /\ pc'[p] = "open" => mi'[p] <= Len(loaded'[p].state_machines) + 1
           /\ pc'[p] \in {"fill", "template"} => written'[p] < Size(p)'
<1>0. TypeOK /\ Phases
  BY DEF IInv
<1>1. /\ loaded[p].state_machines \in Seq(Machine) /\ Len(loaded[p].state_machines) \in Nat
      /\ mi[p] \in Nat
  BY <1>0, CliAssumption, LenProperties DEF TypeOK
<1>2. \A q \in Proc \ {p} : /\ pc'[q] = pc[q] /\ loaded'[q] = loaded[q]
                            /\ mi'[q] = mi[q] /\ ki'[q] = ki[q] /\ written'[q] = written[q]
  BY <1>0 DEF TypeOK, Start, Stop, Work, Goto, disk, Load, Validate, MakeDir, Check, Open, FillPart,
              Fill, PutNext, Finish, Exists, Create, WriteTemplate
<1> DEFINE InList == pc'[p] = "open" => mi'[p] <= Len(loaded'[p].state_machines) + 1
           InText == pc'[p] \in {"fill", "template"} => written'[p] < Size(p)'
<1>3. CASE Check(p)
  <2>1. mi'[p] = 1 /\ loaded' = loaded /\ pc'[p] \in {"open", "failed"}
    BY <1>0, <1>3 DEF TypeOK, Check, Goto
  <2>2. InList /\ InText
    BY <1>1, <2>1
  <2>3. QED
    BY <1>2, <2>2
<1>4. CASE Fill(p)
  <2>1. mi'[p] = (IF ki[p] = 4 THEN mi[p] + 1 ELSE mi[p]) /\ loaded' = loaded /\ pc'[p] = "open"
    BY <1>0, <1>4 DEF TypeOK, Fill, PutNext, Goto
  <2>2. mi[p] <= Len(loaded[p].state_machines)
    BY <1>0, <1>4 DEF Phases, Fill, PutNext
  <2>3. InList /\ InText
    BY <1>1, <2>1, <2>2
  <2>4. QED
    BY <1>2, <2>3
<1>5. CASE FillPart(p)
  <2>1. /\ pc[p] = "fill" /\ UNCHANGED <<pc, loaded, mi, ki>>
        /\ written'[p] = written[p] + 1 /\ written[p] + 1 < Length[Product(p)]
    BY <1>0, <1>5 DEF TypeOK, FillPart, PutNext
  <2>2. Size(p)' = Length[Product(p)]
    BY <2>1 DEF Size, Product, Output, Current
  <2>3. InList /\ InText
    BY <2>1, <2>2
  <2>4. QED
    BY <1>2, <2>3
<1>6. CASE Open(p)
  <2>1. /\ mi[p] <= Len(loaded[p].state_machines) /\ UNCHANGED <<loaded, mi, ki>>
        /\ pc'[p] = "fill" /\ written'[p] = 0
    BY <1>0, <1>6 DEF TypeOK, Open, Goto
  <2>2. Size(p)' = Length[Product(p)]
    BY <2>1 DEF Size, Product, Output, Current
  <2>3. InList /\ InText
    BY <1>0, <2>1, <2>2, ProductType
  <2>4. QED
    BY <1>2, <2>3
<1>7. CASE Create(p) \/ WriteTemplate(p)
  <2>1. /\ pc'[p] \in {"template", "ok"}
        /\ pc'[p] = "template" => written'[p] = 0 \/ written'[p] < Length[Template]
    BY <1>0, <1>7 DEF TypeOK, Create, WriteTemplate, Goto
  <2>2. Length[Template] \in Nat \ {0}
    BY CliAssumption
  <2>3. pc'[p] = "template" => Size(p)' = Length[Template]
    BY DEF Size
  <2>4. InList /\ InText
    BY <2>1, <2>2, <2>3
  <2>5. QED
    BY <1>2, <2>4
<1>8. CASE \/ Start(p) \/ Stop(p) \/ Load(p) \/ Validate(p) \/ MakeDir(p) \/ Finish(p)
           \/ Exists(p)
  <2>1. pc'[p] \notin {"open", "fill", "template"}
    BY <1>0, <1>8 DEF TypeOK, Start, Stop, Goto, Load, Validate, MakeDir, Finish, Exists
  <2>2. QED
    BY <1>2, <2>1
<1>9. QED
  BY <1>3, <1>4, <1>5, <1>6, <1>7, <1>8 DEF Work

\* So InRange is kept.
LEMMA InRangeStep ==
    ASSUME IInv, InRange, NEW p \in Proc, Start(p) \/ Work(p) \/ Stop(p)
    PROVE  InRange'
<1> SUFFICES ASSUME NEW q \in Proc
             PROVE  /\ pc'[q] = "open" => mi'[q] <= Len(loaded'[q].state_machines) + 1
                    /\ pc'[q] \in {"fill", "template"} => written'[q] < Size(q)'
  BY DEF InRange
<1>1. CASE q = p
  BY <1>1, OwnStep
<1>2. CASE q /= p
  <2>1. /\ pc'[q] = pc[q] /\ loaded'[q] = loaded[q] /\ mi'[q] = mi[q] /\ ki'[q] = ki[q]
        /\ written'[q] = written[q]
    BY <1>2, OwnStep
  <2>2. Size(q)' = Size(q)
    BY <2>1 DEF Size, Product, Output, Current
  <2>3. QED
    BY <2>1, <2>2 DEF InRange
<1>3. QED
  BY <1>1, <1>2

LEMMA WStepInv == WInv /\ [WNext]_wvars => WInv'
<1> SUFFICES ASSUME WInv, [WNext]_wvars PROVE WInv'
  OBVIOUS
<1>0. IInv /\ ShellsOK /\ InRange
  BY DEF WInv
<1>1. IInv'
  BY <1>0, StepIInv, StepOfCli
<1>2. ASSUME NEW s \in Shell, Shells(s) PROVE WInv'
  <2>1. UNCHANGED vars /\ ShellsOK'
    BY <1>0, <1>2, ShellsOnlyRead, ShellsStep
  <2>2. InRange'
    BY <1>0, <2>1 DEF InRange, Size, Product, Output, Current, vars
  <2>3. QED
    BY <1>1, <2>1, <2>2 DEF WInv
<1>3. CASE UNCHANGED wvars
  BY <1>0, <1>1, <1>3 DEF WInv, wvars, vars, shells, InRange, Size, Product, Output, Current,
                          ShellsOK, ShellInv
<1>4. ASSUME NEW p \in Proc, WWork(p) PROVE WInv'
  <2>1. UNCHANGED shells /\ Work(p)
    BY <1>4 DEF WWork, WOpen, WFinish, WExists, WCreate, Work
  <2>2. InRange'
    BY <1>0, <2>1, InRangeStep
  <2>3. QED
    BY <1>0, <1>1, <2>1, <2>2 DEF WInv, shells, ShellsOK, ShellInv
<1>5. CASE Outside
  <2>1. UNCHANGED shells /\ (Edit \/ \E p \in Proc : Start(p) \/ Stop(p))
    BY <1>5 DEF Outside, WEdit
  <2>2. InRange'
    <3>1. CASE Edit
      BY <1>0, <3>1 DEF Edit, InRange, Size, Product, Output, Current
    <3>2. ASSUME NEW p \in Proc, Start(p) \/ Stop(p) PROVE InRange'
      BY <1>0, <3>2, InRangeStep
    <3>3. QED
      BY <2>1, <3>1, <3>2
  <2>3. QED
    BY <1>0, <1>1, <2>1, <2>2 DEF WInv, shells, ShellsOK, ShellInv
<1>6. QED
  BY <1>2, <1>3, <1>4, <1>5 DEF WNext

LEMMA WInvariance == WSpec => []WInv
  BY WInitInv, WStepInv, PTL DEF WSpec

(* Whatever overlaps and whatever is stale, TLC is only given what has been *)
(* accepted, under the name it was asked for.                               *)
THEOREM OnlyAcceptedIsChecked == WSpec => []CheckedIsAccepted
<1>1. WInv => CheckedIsAccepted
  BY DEF WInv, ShellsOK, ShellInv, CheckedIsAccepted
<1>2. QED
  BY <1>1, WInvariance, PTL

LEMMA PhaseValues ==
    /\ Phase("load") = 5 /\ Phase("exists") = 5 /\ Phase("validate") = 4 /\ Phase("create") = 4
    /\ Phase("mkdir") = 3 /\ Phase("template") = 3 /\ Phase("check") = 2
    /\ Phase("open") = 1 /\ Phase("fill") = 1 /\ Phase("ok") = 0 /\ Phase("failed") = 0
  BY DEF Phase

LEMMA Countdown ==
    ASSUME NEW n \in Nat, NEW m \in Nat, NEW k \in 1 .. 4, m <= n
    PROVE  LET before == 8 * (n + 1 - m) - 2 * k
           IN  /\ 0 <= before + 1 /\ before + 1 < before + 2
               /\ k = 4 => /\ 0 <= 8 * (n + 1 - (m + 1)) - 2 * 1 + 2
                           /\ 8 * (n + 1 - (m + 1)) - 2 * 1 + 2 < before + 1
               /\ k /= 4 => /\ 0 <= 8 * (n + 1 - m) - 2 * (k + 1) + 2
                            /\ 8 * (n + 1 - m) - 2 * (k + 1) + 2 < before + 1
  OBVIOUS

\* What MovesOn says of one invocation.
Closer(p) ==
    \/ Phase(pc'[p]) < Phase(pc[p])
    \/ Writing(p) /\ Writing(p)' /\ 0 <= Left(p)' /\ Left(p)' < Left(p)
    \/ /\ UNCHANGED <<pc[p], mi[p], ki[p], loaded[p]>>
       /\ \/ written'[p] = written[p]
          \/ written[p] < written'[p] /\ written'[p] < Size(p)

LEMMA WorkIsCloser ==
    ASSUME IInv, InRange, NEW p \in Proc, Work(p) \/ Stop(p) PROVE Closer(p)
<1>0. TypeOK /\ Phases
  BY DEF IInv
<1>1. /\ Len(loaded[p].state_machines) \in Nat /\ mi[p] \in Nat /\ ki[p] \in 1 .. 4
      /\ pc[p] \in {"load", "validate", "mkdir", "check", "open", "fill",
                    "exists", "create", "template", "ok", "failed"}
  BY <1>0, CliAssumption, LenProperties DEF TypeOK
<1>2. CASE Stop(p)
  <2>1. pc'[p] = "failed" /\ pc[p] \notin {"ok", "failed"}
    BY <1>0, <1>2 DEF TypeOK, Stop, Goto, Ended
  <2>2. Phase(pc[p]) \in {1, 2, 3, 4, 5}
    BY <1>1, <2>1, PhaseValues
  <2>3. QED
    BY <2>1, <2>2, PhaseValues DEF Closer
<1>3. CASE Load(p)
  BY <1>0, <1>3, PhaseValues DEF TypeOK, Load, Goto, Closer
<1>4. CASE Validate(p)
  BY <1>0, <1>4, PhaseValues DEF TypeOK, Validate, Goto, Closer
<1>5. CASE MakeDir(p)
  BY <1>0, <1>5, PhaseValues DEF TypeOK, MakeDir, Goto, Closer
<1>6. CASE Check(p)
  BY <1>0, <1>6, PhaseValues DEF TypeOK, Check, Goto, Closer
<1>7. CASE Open(p)
  <2>1. /\ pc[p] = "open" /\ pc'[p] = "fill" /\ mi[p] <= Len(loaded[p].state_machines)
        /\ UNCHANGED <<loaded, mi, ki>>
    BY <1>0, <1>7 DEF TypeOK, Open, Goto
  <2>2. Writing(p) /\ Writing(p)'
    BY <2>1 DEF Writing
  <2>3. /\ Left(p) = 8 * (Len(loaded[p].state_machines) + 1 - mi[p]) - 2 * ki[p] + 2
        /\ Left(p)' = 8 * (Len(loaded[p].state_machines) + 1 - mi[p]) - 2 * ki[p] + 1
    BY <2>1 DEF Left
  <2>4. 0 <= Left(p)' /\ Left(p)' < Left(p)
    BY <1>1, <2>1, <2>3, Countdown
  <2>5. QED
    BY <2>2, <2>4 DEF Closer
<1>8. CASE Fill(p)
  <2>1. /\ pc[p] = "fill" /\ pc'[p] = "open" /\ mi[p] <= Len(loaded[p].state_machines)
        /\ loaded' = loaded
        /\ mi'[p] = IF ki[p] = 4 THEN mi[p] + 1 ELSE mi[p]
        /\ ki'[p] = IF ki[p] = 4 THEN 1 ELSE ki[p] + 1
    BY <1>0, <1>8 DEF TypeOK, Phases, Fill, PutNext, Goto
  <2>2. Writing(p) /\ Writing(p)'
    BY <2>1 DEF Writing
  <2>3. /\ Left(p) = 8 * (Len(loaded[p].state_machines) + 1 - mi[p]) - 2 * ki[p] + 1
        /\ Left(p)' = 8 * (Len(loaded[p].state_machines) + 1 - mi'[p]) - 2 * ki'[p] + 2
    BY <2>1 DEF Left
  <2>4. 0 <= Left(p)' /\ Left(p)' < Left(p)
    BY <1>1, <2>1, <2>3, Countdown
  <2>5. QED
    BY <2>2, <2>4 DEF Closer
<1>9. CASE Finish(p)
  BY <1>0, <1>9, PhaseValues DEF TypeOK, Finish, Goto, Closer
<1>10. CASE Exists(p) \/ Create(p)
  BY <1>0, <1>10, PhaseValues DEF TypeOK, Exists, Create, Goto, Closer
<1>11. CASE FillPart(p)
  BY <1>0, <1>11 DEF TypeOK, FillPart, PutNext, Size, Closer
<1>12. CASE WriteTemplate(p)
  <2>1. /\ pc[p] = "template" /\ UNCHANGED <<loaded, mi, ki>> /\ written'[p] = written[p] + 1
        /\ written[p] \in Nat
        /\ pc'[p] = IF written[p] + 1 < Length[Template] THEN "template" ELSE "ok"
    BY <1>0, <1>12 DEF TypeOK, WriteTemplate, Goto
  <2>2. Size(p) = Length[Template]
    BY <2>1 DEF Size
  <2>3. QED
    BY <2>1, <2>2, PhaseValues DEF Closer
<1>13. QED
  BY <1>2, <1>3, <1>4, <1>5, <1>6, <1>7, <1>8, <1>9, <1>10, <1>11, <1>12 DEF Work

(* Every invocation takes finitely many steps, without any assumption about *)
(* how it is scheduled: a measure that nobody else touches goes down.       *)
THEOREM EveryInvocationMovesOn == WSpec => MovesOn
<1>1. WInv /\ [WNext]_wvars =>
        [\A p \in Proc : ~Ended(p) => Closer(p)]_wvars
  <2> SUFFICES ASSUME WInv, WNext, NEW p \in Proc, ~Ended(p) PROVE Closer(p)
    BY DEF Closer
  <2>0. IInv /\ InRange
    BY DEF WInv
  <2>1. ASSUME NEW q \in Proc, Start(q) \/ Work(q) \/ Stop(q) PROVE Closer(p)
    <3>1. CASE q = p
      BY <2>0, <2>1, <3>1, WorkIsCloser DEF Start
    <3>2. CASE q /= p
      <4>1. /\ pc'[p] = pc[p] /\ loaded'[p] = loaded[p] /\ mi'[p] = mi[p] /\ ki'[p] = ki[p]
            /\ written'[p] = written[p]
        BY <2>0, <2>1, <3>2, OwnStep
      <4>2. QED
        BY <4>1 DEF Closer
    <3>3. QED
      BY <3>1, <3>2
  <2>2. CASE Outside
    <3>1. CASE Edit
      BY <3>1 DEF Edit, Closer
    <3>2. QED
      BY <2>1, <2>2, <3>1 DEF Outside, WEdit
  <2>3. ASSUME NEW q \in Proc, WWork(q) PROVE Closer(p)
    BY <2>1, <2>3 DEF WWork, WOpen, WFinish, WExists, WCreate, Work
  <2>4. ASSUME NEW s \in Shell, Shells(s) PROVE Closer(p)
    BY <2>4, ShellsOnlyRead DEF vars, Closer
  <2>5. QED
    BY <2>2, <2>3, <2>4 DEF WNext
<1>2. QED
  BY <1>1, WInvariance, PTL DEF WSpec, MovesOn, Closer

------------------------------------------------------------------------------
(* A generate that writes alone, from its first file to the last.            *)
\* The file k of machine i of a manifest, and what belongs there.
FilePath(man, i, k) == Outputs(man.state_machines[i])[k].path
Content(man, i, k) ==
    [kind |-> Outputs(man.state_machines[i])[k].kind, machine |-> man.state_machines[i]]
Later(i, k, j, l) == j > i \/ (j = i /\ l > k)

\* What an invocation that writes has finished, and what it has opened.
Finished(p, i, k) == i < mi[p] \/ (i = mi[p] /\ k < ki[p])
Opened(p, i, k) == Finished(p, i, k) \/ (pc[p] = "fill" /\ i = mi[p] /\ k = ki[p])
Complete(p) ==
    \A i \in DOMAIN loaded[p].state_machines : \A k \in 1 .. 4 :
        /\ Finished(p, i, k)
        /\ \A j \in DOMAIN loaded[p].state_machines : \A l \in 1 .. 4 :
             Later(i, k, j, l) /\ Opened(p, j, l) =>
                FilePath(loaded[p], j, l) /= FilePath(loaded[p], i, k)
        => files[FilePath(loaded[p], i, k)] = FileOf(Content(loaded[p], i, k))
\* What it has put down of the file it has open.
Begun(p) ==
    pc[p] = "fill" => files[Output(p).path] = [j \in 1 .. written[p] |-> Product(p)]
NothingOpened(p) == pc[p] /= "fill" /\ (pc[p] = "open" => mi[p] = 1 /\ ki[p] = 1)

\* The owner has the directory to itself, and so has had who ended well.
Owned ==
    \A p \in Proc : owner = p =>
        /\ Writing(p) => Complete(p) /\ Begun(p)
        /\ \A q \in Proc \ {p} : NothingOpened(q)
GoodStays ==
    good /= Absent => /\ good \in Manifests /\ SuccessIsComplete
                      /\ \A p \in Proc : NothingOpened(p)
HInv ==
    /\ Owned /\ GoodStays
    /\ DOMAIN clean = Shell /\ \A s \in Shell : clean[s] => good /= Absent

\* An init that nobody has overtaken still finds no manifest, and while it
\* writes there is nothing but the template in the file.
OneInit ==
    \A p \in Proc \ late :
        /\ pc[p] = "create" => toml = Absent
        /\ pc[p] = "template" =>
              Len(toml) <= Length[Template] /\ \A x \in Pieces(toml) : x = Template

LEMMA HistoryStarts == WInit => HInv /\ OneInit
  BY WorkflowAssumption DEF WInit, Init, HInv, Owned, GoodStays, OneInit

\* Entries of a manifest are numbered from one.
LEMMA EntriesAreCounted ==
    ASSUME TypeOK, NEW p \in Proc
    PROVE  /\ Len(loaded[p].state_machines) \in Nat
           /\ DOMAIN loaded[p].state_machines = 1 .. Len(loaded[p].state_machines)
           /\ loaded[p] \in Manifests /\ mi[p] \in Nat \ {0} /\ ki[p] \in 1 .. 4
<1>1. /\ loaded[p] \in Manifests /\ loaded[p].state_machines \in Seq(Machine)
      /\ mi[p] \in Nat \ {0} /\ ki[p] \in 1 .. 4
  BY CliAssumption DEF TypeOK
<1>2. QED
  BY <1>1, LenProperties

\* An invocation that is at its first file has none behind it.
LEMMA NothingIsComplete ==
    ASSUME NEW man \in Manifests, NEW i \in DOMAIN man.state_machines, NEW k \in 1 .. 4
    PROVE  ~(i < 1 \/ (i = 1 /\ k < 1))
<1>1. man.state_machines \in Seq(Machine)
  BY CliAssumption
<1>2. i \in Nat \ {0}
  BY <1>1, LenProperties
<1>3. QED
  BY <1>2

\* What a step leaves alone stays complete.
LEMMA CompleteStays ==
    ASSUME NEW p \in Proc, files' = files, loaded'[p] = loaded[p], mi'[p] = mi[p],
           ki'[p] = ki[p], pc'[p] = pc[p], written'[p] = written[p]
    PROVE  (Complete(p)' <=> Complete(p)) /\ (Begun(p)' <=> Begun(p))
<1>1. Complete(p)' <=> Complete(p)
  BY DEF Complete, Finished, Opened, FilePath, Content, Later
<1>2. Product(p)' = Product(p) /\ Output(p)' = Output(p)
  BY DEF Product, Output, Current
<1>3. Begun(p)' <=> Begun(p)
  BY <1>2 DEF Begun
<1>4. QED
  BY <1>1, <1>3

LEMMA QuietHistory ==
    ASSUME TypeOK', HInv, UNCHANGED <<files, owner, good, clean>>, NEW p \in Proc,
           \A q \in Proc \ {p} : /\ pc'[q] = pc[q] /\ loaded'[q] = loaded[q]
                                 /\ mi'[q] = mi[q] /\ ki'[q] = ki[q]
                                 /\ written'[q] = written[q],
           pc'[p] /= "fill", pc'[p] = "open" => mi'[p] = 1 /\ ki'[p] = 1
    PROVE  HInv'
<1>1. NothingOpened(p)'
  BY DEF NothingOpened
<1>2. \A q \in Proc \ {p} : NothingOpened(q) => NothingOpened(q)'
  BY DEF NothingOpened
<1>3. ASSUME NEW o \in Proc, owner' = o
      PROVE  /\ Writing(o)' => Complete(o)' /\ Begun(o)'
             /\ \A q \in Proc \ {o} : NothingOpened(q)'
  <2>1. CASE o = p
    <3>1. ASSUME Writing(o)' PROVE Complete(o)'
      <4>1. loaded'[p] \in Manifests /\ mi'[p] = 1 /\ ki'[p] = 1
        BY <2>1, <3>1 DEF Writing, TypeOK
      <4>2. ASSUME NEW i \in DOMAIN loaded'[p].state_machines, NEW k \in 1 .. 4
            PROVE  ~Finished(p, i, k)'
        BY <4>1, NothingIsComplete DEF Finished
      <4>3. QED
        BY <2>1, <4>2 DEF Complete
    <3>2. QED
      BY <1>2, <1>3, <2>1, <3>1 DEF HInv, Owned, Begun
  <2>2. CASE o /= p
    <3>1. Writing(o)' => Writing(o)
      BY <2>2 DEF Writing
    <3>2. (Complete(o)' <=> Complete(o)) /\ (Begun(o)' <=> Begun(o))
      BY <2>2, CompleteStays
    <3>3. QED
      BY <1>1, <1>2, <1>3, <2>2, <3>1, <3>2 DEF HInv, Owned
  <2>3. QED
    BY <2>1, <2>2
<1>4. Owned'
  BY <1>3 DEF Owned
<1>5. GoodStays'
  <2>1. GoodStays
    BY DEF HInv
  <2>2. SuccessIsComplete' <=> SuccessIsComplete
    BY DEF SuccessIsComplete, LastClaim
  <2>3. (\A q \in Proc : NothingOpened(q)) => \A q \in Proc : NothingOpened(q)'
    BY <1>1, <1>2
  <2>4. QED
    BY <2>1, <2>2, <2>3 DEF GoodStays
<1>6. QED
  BY <1>4, <1>5 DEF HInv

\* Where an invocation is, in terms of its manifest.
LEMMA OutputIsCurrent ==
    ASSUME TypeOK, NEW p \in Proc, mi[p] <= Len(loaded[p].state_machines)
    PROVE  /\ mi[p] \in DOMAIN loaded[p].state_machines
           /\ Output(p).path = FilePath(loaded[p], mi[p], ki[p])
           /\ Product(p) = Content(loaded[p], mi[p], ki[p])
           /\ \A i \in DOMAIN loaded[p].state_machines : \A k \in 1 .. 4 :
                FilePath(loaded[p], i, k) \in Path
<1>1. mi[p] \in DOMAIN loaded[p].state_machines
  BY EntriesAreCounted
<1>2. loaded[p].state_machines \in Seq(Machine)
  BY CliAssumption DEF TypeOK
<1>3. \A i \in DOMAIN loaded[p].state_machines : loaded[p].state_machines[i] \in Machine
  BY <1>2, EntriesAreCounted, ElementOfSeq
<1>4. \A i \in DOMAIN loaded[p].state_machines : \A k \in 1 .. 4 :
         FilePath(loaded[p], i, k) \in Path
  BY <1>3, OutputsType DEF FilePath
<1>5. QED
  BY <1>1, <1>4 DEF Output, Current, FilePath, Content, Product

LEMMA OpenHistory ==
    ASSUME IInv, HInv, NEW p \in Proc, WOpen(p) PROVE HInv'
<1> DEFINE man == loaded[p]
<1>0. TypeOK /\ Phases
  BY DEF IInv
<1>1. /\ pc[p] = "open" /\ mi[p] <= Len(man.state_machines)
      /\ files' = [files EXCEPT ![Output(p).path] = << >>]
      /\ UNCHANGED <<loaded, mi, ki>>
      /\ pc' = [pc EXCEPT ![p] = "fill"] /\ written' = [written EXCEPT ![p] = 0]
  BY DEF WOpen, Open, Goto
<1>2. /\ pc'[p] = "fill" /\ written'[p] = 0 /\ \A q \in Proc \ {p} : pc'[q] = pc[q]
  BY <1>0, <1>1 DEF TypeOK
<1>3. good' = Absent /\ clean' = [s \in Shell |-> FALSE]
  BY DEF WOpen
<1>4. ASSUME NEW o \in Proc, owner' = o
      PROVE  /\ o = p /\ \A q \in Proc \ {p} : ~Writing(q)
             /\ (mi[p] = 1 /\ ki[p] = 1) \/ owner = p
  BY <1>4, WorkflowAssumption DEF WOpen
<1>5. ASSUME (mi[p] = 1 /\ ki[p] = 1) \/ owner = p
      PROVE  Complete(p)
  <2>1. Writing(p)
    BY <1>1 DEF Writing
  <2>2. CASE mi[p] = 1 /\ ki[p] = 1
    <3>1. ASSUME NEW i \in DOMAIN man.state_machines, NEW k \in 1 .. 4 PROVE ~Finished(p, i, k)
      BY <1>0, <2>2, NothingIsComplete DEF Finished, TypeOK
    <3>2. QED
      BY <3>1 DEF Complete
  <2>3. CASE owner = p
    BY <2>1, <2>3 DEF HInv, Owned
  <2>4. QED
    BY <1>5, <2>2, <2>3
<1>6. ASSUME Complete(p) PROVE Complete(p)'
  <2>1. \A j, l : /\ Finished(p, j, l)' <=> Finished(p, j, l)
                  /\ Opened(p, j, l) => Opened(p, j, l)'
    BY <1>1, <1>2 DEF Finished, Opened
  <2>2. \A j, l : j = mi[p] /\ l = ki[p] => Opened(p, j, l)'
    BY <1>1, <1>2 DEF Opened
  <2>3. mi[p] \in DOMAIN man.state_machines /\ ki[p] \in 1 .. 4
    BY <1>0, <1>1, OutputIsCurrent, EntriesAreCounted
  <2>4. ASSUME NEW i \in DOMAIN man.state_machines, NEW k \in 1 .. 4, Finished(p, i, k),
               \A j \in DOMAIN man.state_machines : \A l \in 1 .. 4 :
                   Later(i, k, j, l) /\ Opened(p, j, l)' => FilePath(man, j, l) /= FilePath(man, i, k)
        PROVE  files'[FilePath(man, i, k)] = FileOf(Content(man, i, k))
    <3>1. files[FilePath(man, i, k)] = FileOf(Content(man, i, k))
      BY <1>6, <2>1, <2>4 DEF Complete
    <3>2. Later(i, k, mi[p], ki[p])
      BY <2>4 DEF Finished, Later
    <3>3. FilePath(man, mi[p], ki[p]) /= FilePath(man, i, k)
      BY <2>2, <2>3, <2>4, <3>2
    <3>4. Output(p).path /= FilePath(man, i, k) /\ FilePath(man, i, k) \in Path
      BY <1>0, <1>1, <3>3, OutputIsCurrent
    <3>5. QED
      BY <1>0, <1>1, <3>1, <3>4 DEF TypeOK
  <2>5. QED
    <3> SUFFICES ASSUME NEW i \in DOMAIN loaded'[p].state_machines, NEW k \in 1 .. 4,
                        Finished(p, i, k)',
                        \A j \in DOMAIN loaded'[p].state_machines : \A l \in 1 .. 4 :
                            Later(i, k, j, l) /\ Opened(p, j, l)' =>
                               FilePath(loaded'[p], j, l) /= FilePath(loaded'[p], i, k)
                 PROVE  files'[FilePath(loaded'[p], i, k)] = FileOf(Content(loaded'[p], i, k))
      BY DEF Complete
    <3>1. loaded'[p] = man
      BY <1>1
    <3>2. QED
      BY <2>1, <2>4, <3>1
<1>7. Owned'
  <2>1. ASSUME NEW o \in Proc, owner' = o
        PROVE  Complete(o)' /\ Begun(o)' /\ \A q \in Proc \ {o} : NothingOpened(q)'
    <3>1. o = p /\ Complete(p)'
      BY <1>4, <1>5, <1>6, <2>1
    <3>3. Begun(p)'
      <4>1. Output(p)' = Output(p) /\ Output(p).path \in Path
        BY <1>0, <1>1, CurrentType DEF Output, Current
      <4>2. files'[Output(p).path] = << >>
        BY <1>0, <1>1, <4>1 DEF TypeOK
      <4>3. << >> = [j \in 1 .. 0 |-> Product(p)']
        BY NoPieces
      <4>4. QED
        BY <1>2, <4>1, <4>2, <4>3 DEF Begun
    <3>2. \A q \in Proc \ {p} : pc'[q] \notin {"open", "fill"}
      BY <1>2, <1>4, <2>1 DEF Writing
    <3>4. QED
      BY <3>1, <3>2, <3>3 DEF NothingOpened
  <2>2. QED
    BY <2>1 DEF Owned
<1>8. QED
  BY <1>3, <1>7 DEF HInv, GoodStays

\* One write of the owner's, in the middle of a file or at its end.
LEMMA PutHistory ==
    ASSUME IInv, HInv, NEW p \in Proc, PutNext(p)
    PROVE  /\ good = Absent /\ \A o \in Proc : owner = o => o = p
           /\ files'[Output(p).path] = Put(files[Output(p).path], written[p] + 1, Product(p))
           /\ \A q \in Path : q /= Output(p).path => files'[q] = files[q]
           /\ owner = p => files'[Output(p).path] = [j \in 1 .. written[p] + 1 |-> Product(p)]
<1> DEFINE o == Output(p).path
<1>0. TypeOK /\ Phases
  BY DEF IInv
<1>1. /\ pc[p] = "fill" /\ mi[p] <= Len(loaded[p].state_machines)
      /\ files' = [files EXCEPT ![o] = Put(files[o], written[p] + 1, Product(p))]
  BY <1>0 DEF PutNext, Phases
<1>2. good = Absent
  BY <1>1 DEF HInv, GoodStays, NothingOpened
<1>3. ASSUME NEW q \in Proc, owner = q PROVE q = p
  BY <1>1, <1>3 DEF HInv, Owned, NothingOpened
<1>4. o \in Path /\ Product(p) \in Artifact /\ written[p] \in Nat
  BY <1>0, <1>1, CurrentType, ProductType DEF TypeOK
<1>5. /\ files'[o] = Put(files[o], written[p] + 1, Product(p))
      /\ \A q \in Path : q /= o => files'[q] = files[q]
  BY <1>0, <1>1, <1>4 DEF TypeOK
<1>6. ASSUME owner = p PROVE files'[o] = [j \in 1 .. written[p] + 1 |-> Product(p)]
  <2>1. files[o] = [j \in 1 .. written[p] |-> Product(p)]
    BY <1>1, <1>6 DEF HInv, Owned, Writing, Begun
  <2>2. Put(files[o], written[p] + 1, Product(p)) = [j \in 1 .. written[p] + 1 |-> Product(p)]
    <3>1. Put([j \in 1 .. written[p] |-> Product(p)], written[p] + 1, Product(p))
             = [j \in 1 .. written[p] + 1 |-> Product(p)]
      BY <1>4, PutNextPiece, Zenon
    <3>2. QED
      BY <2>1, <3>1, Zenon
  <2>3. QED
    BY <1>5, <2>2
<1>7. QED
  BY <1>2, <1>3, <1>5, <1>6

LEMMA FillPartHistory ==
    ASSUME IInv, HInv, NEW p \in Proc, FillPart(p), UNCHANGED <<owner, good, clean>> PROVE HInv'
<1> DEFINE man == loaded[p]
<1>0. TypeOK /\ Phases
  BY DEF IInv
<1>1. /\ PutNext(p) /\ pc[p] = "fill" /\ mi[p] <= Len(man.state_machines)
      /\ UNCHANGED <<loaded, pc, mi, ki>> /\ written'[p] = written[p] + 1
  BY <1>0 DEF FillPart, PutNext, Phases, TypeOK
<1>2. /\ good = Absent /\ \A o \in Proc : owner = o => o = p
      /\ \A q \in Path : q /= Output(p).path => files'[q] = files[q]
      /\ owner = p => files'[Output(p).path] = [j \in 1 .. written[p] + 1 |-> Product(p)]
  BY <1>1, PutHistory
<1>3. /\ mi[p] \in DOMAIN man.state_machines /\ ki[p] \in 1 .. 4
      /\ Output(p).path = FilePath(man, mi[p], ki[p])
      /\ \A i \in DOMAIN man.state_machines : \A k \in 1 .. 4 : FilePath(man, i, k) \in Path
  BY <1>0, <1>1, OutputIsCurrent, EntriesAreCounted
<1>4. ASSUME Complete(p) PROVE Complete(p)'
  <2>1. \A i, k : (Finished(p, i, k)' <=> Finished(p, i, k)) /\ (Opened(p, i, k)' <=> Opened(p, i, k))
    BY <1>1 DEF Finished, Opened
  <2>2. ASSUME NEW i \in DOMAIN man.state_machines, NEW k \in 1 .. 4, Finished(p, i, k),
               \A j \in DOMAIN man.state_machines : \A l \in 1 .. 4 :
                   Later(i, k, j, l) /\ Opened(p, j, l) => FilePath(man, j, l) /= FilePath(man, i, k)
        PROVE  files'[FilePath(man, i, k)] = FileOf(Content(man, i, k))
    <3>1. files[FilePath(man, i, k)] = FileOf(Content(man, i, k))
      BY <1>4, <2>2 DEF Complete
    <3>2. Later(i, k, mi[p], ki[p]) /\ Opened(p, mi[p], ki[p])
      BY <1>1, <2>2 DEF Finished, Later, Opened
    <3>3. FilePath(man, i, k) /= Output(p).path
      BY <1>3, <2>2, <3>2
    <3>4. QED
      BY <1>2, <1>3, <3>1, <3>3
  <2>3. QED
    <3> SUFFICES ASSUME NEW i \in DOMAIN loaded'[p].state_machines, NEW k \in 1 .. 4,
                        Finished(p, i, k)',
                        \A j \in DOMAIN loaded'[p].state_machines : \A l \in 1 .. 4 :
                            Later(i, k, j, l) /\ Opened(p, j, l)' =>
                               FilePath(loaded'[p], j, l) /= FilePath(loaded'[p], i, k)
                 PROVE  files'[FilePath(loaded'[p], i, k)] = FileOf(Content(loaded'[p], i, k))
      BY DEF Complete
    <3>1. loaded'[p] = man
      BY <1>1
    <3>2. QED
      BY <2>1, <2>2, <3>1
<1>5. Owned'
  <2>1. ASSUME NEW o \in Proc, owner' = o
        PROVE  Complete(o)' /\ Begun(o)' /\ \A q \in Proc \ {o} : NothingOpened(q)'
    <3>1. o = p /\ owner = p /\ Complete(p)
      BY <1>1, <1>2, <2>1 DEF HInv, Owned, Writing
    <3>2. \A q \in Proc \ {p} : NothingOpened(q)'
      BY <1>1, <2>1, <3>1 DEF HInv, Owned, NothingOpened
    <3>3. Output(p)' = Output(p) /\ Product(p)' = Product(p)
      BY <1>1 DEF Output, Product, Current
    <3>4. Begun(p)'
      BY <1>1, <1>2, <3>1, <3>3 DEF Begun
    <3>5. QED
      BY <1>4, <3>1, <3>2, <3>4
  <2>2. QED
    BY <2>1 DEF Owned
<1>6. QED
  BY <1>2, <1>5 DEF HInv, GoodStays

LEMMA FillHistory ==
    ASSUME IInv, HInv, InRange, NEW p \in Proc, Fill(p), UNCHANGED <<owner, good, clean>>
    PROVE  HInv'
<1> DEFINE man == loaded[p]
<1>0. TypeOK /\ Phases
  BY DEF IInv
<1>1. /\ pc[p] = "fill" /\ mi[p] <= Len(man.state_machines) /\ loaded' = loaded
      /\ PutNext(p)
  BY <1>0 DEF Fill, PutNext, Phases
<1>2. /\ pc'[p] = "open"
      /\ \A q \in Proc \ {p} : pc'[q] = pc[q] /\ mi'[q] = mi[q] /\ ki'[q] = ki[q]
      /\ mi'[p] = IF ki[p] = 4 THEN mi[p] + 1 ELSE mi[p]
      /\ ki'[p] = IF ki[p] = 4 THEN 1 ELSE ki[p] + 1
  BY <1>0 DEF TypeOK, Fill, PutNext, Goto
<1>3. /\ mi[p] \in DOMAIN man.state_machines /\ ki[p] \in 1 .. 4 /\ mi[p] \in Nat \ {0}
      /\ DOMAIN man.state_machines \subseteq Nat
  BY <1>0, <1>1, OutputIsCurrent, EntriesAreCounted
<1>4. /\ good = Absent /\ \A q \in Path : q /= Output(p).path => files'[q] = files[q]
      /\ owner = p => files'[Output(p).path] = [j \in 1 .. written[p] + 1 |-> Product(p)]
  BY <1>1, PutHistory
<1>5. ASSUME NEW o \in Proc, owner = o PROVE o = p
  BY <1>1, <1>5, PutHistory
\* What is written is the whole text.
<1>6. owner = p => files'[Output(p).path] = FileOf(Product(p))
  <2>1. written[p] < Length[Product(p)] /\ written[p] + 1 >= Length[Product(p)]
    BY <1>1 DEF InRange, Size, Fill
  <2>2. written[p] + 1 = Length[Product(p)]
    BY <1>0, <1>1, <2>1, ProductType DEF TypeOK
  <2>3. QED
    BY <1>4, <2>2 DEF FileOf
<1>7. ASSUME Complete(p), owner = p PROVE Complete(p)'
  <2>1. ASSUME NEW j \in DOMAIN man.state_machines, NEW l \in 1 .. 4
        PROVE  /\ Opened(p, j, l) <=> Finished(p, j, l)'
               /\ Opened(p, j, l)' <=> Finished(p, j, l)'
               /\ Finished(p, j, l)' <=> (Finished(p, j, l) \/ (j = mi[p] /\ l = ki[p]))
    BY <1>1, <1>2, <1>3 DEF Opened, Finished
  <2>2. \A j, l : j = mi[p] /\ l = ki[p] => Opened(p, j, l)'
    BY <1>3, <2>1
  <2>3. ASSUME NEW i \in DOMAIN man.state_machines, NEW k \in 1 .. 4, Finished(p, i, k)',
               \A j \in DOMAIN man.state_machines : \A l \in 1 .. 4 :
                   Later(i, k, j, l) /\ Opened(p, j, l)' => FilePath(man, j, l) /= FilePath(man, i, k)
        PROVE  files'[FilePath(man, i, k)] = FileOf(Content(man, i, k))
    <3>1. CASE i = mi[p] /\ k = ki[p]
      BY <1>0, <1>1, <1>7, <1>6, <3>1, OutputIsCurrent
    <3>2. CASE Finished(p, i, k)
      <4>1. files[FilePath(man, i, k)] = FileOf(Content(man, i, k))
        BY <1>7, <2>1, <2>3, <3>2 DEF Complete
      <4>2. Later(i, k, mi[p], ki[p])
        BY <3>2 DEF Finished, Later
      <4>3. FilePath(man, mi[p], ki[p]) /= FilePath(man, i, k)
        BY <1>3, <2>2, <2>3, <4>2
      <4>4. Output(p).path /= FilePath(man, i, k) /\ FilePath(man, i, k) \in Path
        BY <1>0, <1>1, <4>3, OutputIsCurrent
      <4>5. QED
        BY <1>4, <4>1, <4>4
    <3>3. QED
      BY <2>1, <2>3, <3>1, <3>2
  <2>4. QED
    <3> SUFFICES ASSUME NEW i \in DOMAIN loaded'[p].state_machines, NEW k \in 1 .. 4,
                        Finished(p, i, k)',
                        \A j \in DOMAIN loaded'[p].state_machines : \A l \in 1 .. 4 :
                            Later(i, k, j, l) /\ Opened(p, j, l)' =>
                               FilePath(loaded'[p], j, l) /= FilePath(loaded'[p], i, k)
                 PROVE  files'[FilePath(loaded'[p], i, k)] = FileOf(Content(loaded'[p], i, k))
      BY DEF Complete
    <3>1. loaded'[p] = man
      BY <1>1
    <3>2. QED
      BY <2>3, <3>1
<1>8. Owned'
  <2>1. ASSUME NEW o \in Proc, owner' = o
        PROVE  Complete(o)' /\ Begun(o)' /\ \A q \in Proc \ {o} : NothingOpened(q)'
    <3>1. o = p /\ owner = p /\ Complete(p)
      BY <1>1, <1>5, <2>1 DEF HInv, Owned, Writing
    <3>2. \A q \in Proc \ {p} : NothingOpened(q)'
      BY <1>2, <2>1, <3>1 DEF HInv, Owned, NothingOpened
    <3>3. Begun(p)'
      BY <1>2 DEF Begun
    <3>4. QED
      BY <1>7, <3>1, <3>2, <3>3
  <2>2. QED
    BY <2>1 DEF Owned
<1>9. QED
  BY <1>4, <1>8 DEF HInv, GoodStays

\* The clean generate is over before another one ends.
LEMMA FinishFindsNothing ==
    ASSUME IInv, HInv, NEW p \in Proc, Finish(p)
    PROVE  good = Absent /\ \A s \in Shell : ~clean[s]
<1>1. /\ pc[p] = "open" /\ mi[p] > Len(loaded[p].state_machines)
      /\ loaded[p].state_machines /= << >>
  BY DEF IInv, Phases, Finish, validate
<1>2. loaded[p].state_machines \in Seq(Machine)
  BY CliAssumption DEF IInv, TypeOK
<1>3. Len(loaded[p].state_machines) >= 1
  BY <1>1, <1>2, EmptySeq, LenProperties
<1>4. QED
  BY <1>1, <1>3 DEF HInv, GoodStays, NothingOpened

LEMMA FinishHistory ==
    ASSUME IInv, HInv, NEW p \in Proc, WFinish(p) PROVE HInv'
<1> DEFINE man == loaded[p]
<1>0. TypeOK /\ Phases
  BY DEF IInv
<1>1. /\ pc[p] = "open" /\ mi[p] > Len(man.state_machines) /\ Finish(p)
      /\ UNCHANGED <<files, loaded, mi, ki, written, owner, clean>>
      /\ pc'[p] = "ok" /\ \A q \in Proc \ {p} : pc'[q] = pc[q]
      /\ good' = IF owner = p THEN man ELSE Absent
  BY <1>0 DEF WFinish, Finish, Goto, disk, TypeOK
<1>2. NothingOpened(p)' /\ \A q \in Proc \ {p} : NothingOpened(q) => NothingOpened(q)'
  BY <1>1 DEF NothingOpened
<1>3. ASSUME NEW o \in Proc, owner' = o
      PROVE  /\ Writing(o)' => Complete(o)' /\ Begun(o)'
             /\ \A q \in Proc \ {o} : NothingOpened(q)'
  <2>1. Writing(o)' => o /= p /\ Writing(o)
    BY <1>1 DEF Writing
  <2>2. o /= p => (Complete(o)' <=> Complete(o)) /\ (Begun(o)' <=> Begun(o))
    BY <1>1, CompleteStays
  <2>3. QED
    BY <1>1, <1>2, <1>3, <2>1, <2>2 DEF HInv, Owned
<1>4. GoodStays'
  <2>1. CASE owner = p
    <3>1. Complete(p) /\ man \in Manifests
      BY <1>0, <1>1, <2>1, EntriesAreCounted DEF HInv, Owned, Writing
    <3>2. \A i \in DOMAIN man.state_machines : \A k \in 1 .. 4 : Finished(p, i, k)
      BY <1>0, <1>1, EntriesAreCounted DEF Finished
    <3>3. ASSUME NEW i \in DOMAIN man.state_machines, NEW k \in 1 .. 4,
                 LastClaim(man, FilePath(man, i, k), i, k)
          PROVE  files[FilePath(man, i, k)] = FileOf(Content(man, i, k))
      <4>1. \A j \in DOMAIN man.state_machines : \A l \in 1 .. 4 :
               Later(i, k, j, l) => FilePath(man, j, l) /= FilePath(man, i, k)
        BY <3>3 DEF LastClaim, FilePath, Later
      <4>2. QED
        BY <3>1, <3>2, <4>1 DEF Complete
    <3>4. SuccessIsComplete'
      BY <1>1, <2>1, <3>3 DEF SuccessIsComplete, LastClaim, FilePath, Content
    <3>5. \A q \in Proc : NothingOpened(q)'
      BY <1>2, <2>1 DEF HInv, Owned
    <3>6. QED
      BY <1>1, <2>1, <3>1, <3>4, <3>5 DEF GoodStays
  <2>2. CASE owner /= p
    BY <1>1, <2>2 DEF GoodStays
  <2>3. QED
    BY <2>1, <2>2
<1>5. Owned'
  BY <1>3 DEF Owned
<1>6. DOMAIN clean' = Shell /\ \A s \in Shell : ~clean'[s]
  BY <1>0, <1>1, FinishFindsNothing DEF HInv
<1>7. QED
  BY <1>4, <1>5, <1>6 DEF HInv

LEMMA SameHistory ==
    ASSUME HInv, UNCHANGED <<files, loaded, mi, ki, written, pc, owner, good>>,
           DOMAIN clean' = Shell, \A s \in Shell : clean'[s] => good' /= Absent
    PROVE  HInv'
<1>1. \A p \in Proc : /\ Complete(p)' <=> Complete(p)
                      /\ Begun(p)' <=> Begun(p)
                      /\ Writing(p)' <=> Writing(p)
                      /\ NothingOpened(p)' <=> NothingOpened(p)
  BY CompleteStays DEF Writing, NothingOpened
<1>2. Owned'
  BY <1>1 DEF HInv, Owned
<1>3. GoodStays'
  BY <1>1 DEF HInv, GoodStays, SuccessIsComplete, LastClaim
<1>4. QED
  BY <1>2, <1>3 DEF HInv

\* What a shell does to the history: whether its own run is a clean one.
LEMMA ShellsHistory ==
    ASSUME HInv, NEW s \in Shell, Shells(s)
    PROVE  /\ UNCHANGED <<vars, owner, good, late>>
           /\ DOMAIN clean' = Shell
           /\ \A t \in Shell \ {s} : clean'[t] = clean[t]
           /\ clean'[s] => good /= Absent
<1>1. UNCHANGED vars
  BY ShellsOnlyRead
<1>2. /\ UNCHANGED <<owner, good, late>>
      /\ \/ clean' = clean
         \/ clean' = [clean EXCEPT ![s] = FALSE]
         \/ clean' = [clean EXCEPT ![s] = good /= Absent]
  BY DEF Shells, RunScript, FindTools, RunPrinted, ReadConfig, ReadModule, TlcEnds,
         Begin, Prompt, Read, history
<1>3. DOMAIN clean = Shell /\ (clean[s] => good /= Absent)
  BY DEF HInv
<1>4. CASE clean' = clean
  BY <1>1, <1>2, <1>3, <1>4
<1>5. CASE clean' = [clean EXCEPT ![s] = FALSE]
  BY <1>1, <1>2, <1>3, <1>5
<1>6. CASE clean' = [clean EXCEPT ![s] = good /= Absent]
  BY <1>1, <1>2, <1>3, <1>6
<1>7. QED
  BY <1>2, <1>4, <1>5, <1>6

\* Steps of an invocation that neither open, fill nor finish.
QuietStep(p) ==
    \/ Start(p) \/ Stop(p) \/ Load(p) \/ Validate(p) \/ MakeDir(p) \/ Check(p)
    \/ Exists(p) \/ Create(p) \/ WriteTemplate(p)

LEMMA QuietStepHistory ==
    ASSUME IInv, IInv', HInv, InRange, NEW p \in Proc, QuietStep(p), UNCHANGED <<owner, good, clean>>
    PROVE  HInv'
<1>0. TypeOK /\ TypeOK'
  BY DEF IInv
<1>1. files' = files
  BY DEF QuietStep, Start, Stop, Load, Validate, MakeDir, Check, Exists, Create, WriteTemplate, disk
<1>2. pc'[p] /= "fill" /\ (pc'[p] = "open" => mi'[p] = 1 /\ ki'[p] = 1)
  <2>1. CASE Check(p)
    BY <1>0, <2>1 DEF TypeOK, Check, Goto
  <2>2. CASE Start(p) \/ Stop(p) \/ Load(p) \/ Validate(p) \/ MakeDir(p)
    BY <1>0, <2>2 DEF TypeOK, Start, Stop, Load, Validate, MakeDir, Goto
  <2>3. CASE Exists(p) \/ Create(p) \/ WriteTemplate(p)
    BY <1>0, <2>3 DEF TypeOK, Exists, Create, WriteTemplate, Goto
  <2>4. QED
    BY <2>1, <2>2, <2>3 DEF QuietStep
<1>3. \A q \in Proc \ {p} : /\ pc'[q] = pc[q] /\ loaded'[q] = loaded[q]
                            /\ mi'[q] = mi[q] /\ ki'[q] = ki[q] /\ written'[q] = written[q]
  BY OwnStep DEF QuietStep, Work
<1>4. QED
  BY <1>0, <1>1, <1>2, <1>3, QuietHistory

LEMMA HistoryStep == WInv /\ HInv /\ [WNext]_wvars => HInv'
<1> SUFFICES ASSUME WInv, HInv, [WNext]_wvars PROVE HInv'
  OBVIOUS
<1>0. IInv /\ IInv' /\ InRange
  BY StepIInv, StepOfCli DEF WInv
<1>1. ASSUME NEW s \in Shell, Shells(s) PROVE HInv'
  <2>1. /\ UNCHANGED <<files, loaded, mi, ki, written, pc, owner, good>> /\ DOMAIN clean' = Shell
        /\ \A t \in Shell : clean'[t] => good' /= Absent
    BY <1>1, ShellsHistory DEF HInv, vars
  <2>2. QED
    BY <2>1, SameHistory
<1>2. CASE UNCHANGED wvars
  BY <1>2, SameHistory DEF wvars, vars, history, HInv
<1>3. CASE WEdit
  BY <1>3, SameHistory DEF WEdit, Edit, HInv
<1>4. ASSUME NEW p \in Proc, QuietStep(p), UNCHANGED <<owner, good, clean>> PROVE HInv'
  BY <1>0, <1>4, QuietStepHistory
<1>5. ASSUME NEW p \in Proc, WWork(p) PROVE HInv'
  <2>1. CASE WOpen(p)
    BY <1>0, <2>1, OpenHistory
  <2>2. CASE WFinish(p)
    BY <1>0, <2>2, FinishHistory
  <2>3. CASE WExists(p) \/ WCreate(p)
    BY <1>4, <2>3 DEF WExists, WCreate, QuietStep
  <2>4. CASE (FillPart(p) \/ Fill(p)) /\ UNCHANGED history
    BY <1>0, <2>4, FillPartHistory, FillHistory DEF history
  <2>5. CASE QuietStep(p) /\ UNCHANGED history
    BY <1>4, <2>5 DEF history
  <2>6. QED
    BY <1>5, <2>1, <2>2, <2>3, <2>4, <2>5 DEF WWork, QuietStep
<1>6. CASE Outside
  BY <1>3, <1>4, <1>6 DEF Outside, history, QuietStep
<1>7. QED
  BY <1>1, <1>2, <1>5, <1>6 DEF WNext

LEMMA HistoryInvariance == WSpec => [](WInv /\ HInv)
<1>1. WInit => HInv
  BY HistoryStarts
<1>2. QED
  BY <1>1, HistoryStep, WInvariance, PTL DEF WSpec

(* A generate that wrote alone and ended well, over whatever was there, has *)
(* left the files of its manifest at every path, until one is opened again: *)
(* whatever number of machines, invocations, stops and edits.               *)
THEOREM SuccessLasts == WSpec => []SuccessIsComplete
<1>1. WInv /\ HInv => SuccessIsComplete
  BY DEF HInv, GoodStays, SuccessIsComplete
<1>2. QED
  BY <1>1, HistoryInvariance, PTL

------------------------------------------------------------------------------
(* The shells behind such a generate.                                        *)

\* CleanRunIsCoherent of one shell: c its flag, g the good manifest.
Coherent(c, g, l, n, r) ==
    c /\ Apart(g) =>
        \A i \in DOMAIN g.state_machines : n = g.state_machines[i].name =>
            /\ l \notin {"silent", "unread"}
            /\ l \in {"module", "checking"} =>
                  r.cfg = FileOf([kind |-> "cfg", machine |-> g.state_machines[i]])
            /\ l = "checking" => r.tla = FileOf([kind |-> "tla", machine |-> g.state_machines[i]])

LEMMA CoherentShells ==
    CleanRunIsCoherent <=> \A s \in Shell : Coherent(clean[s], good, sh[s], name[s], read[s])
  BY DEF CleanRunIsCoherent, Coherent

\* Where no two machines share a file, each file is what its machine wants.
LEMMA GoodFiles ==
    ASSUME HInv, good /= Absent, Apart(good), NEW i \in DOMAIN good.state_machines
    PROVE  LET m == good.state_machines[i]
           IN  /\ files[TlaPath(m.name)] = FileOf([kind |-> "tla", machine |-> m])
               /\ Usable(TlaPath(m.name), "tla")
               /\ files[CfgPath(m.name)] = FileOf([kind |-> "cfg", machine |-> m])
               /\ Usable(CfgPath(m.name), "cfg")
               /\ Whole(files[ShPath(m.name)])
<1> DEFINE m == good.state_machines[i]
<1> DEFINE it(k) == [kind |-> Outputs(m)[k].kind, machine |-> m]
<1>1. good \in Manifests /\ SuccessIsComplete
  BY DEF HInv, GoodStays
<1>2. good.state_machines \in Seq(Machine)
  BY <1>1, CliAssumption
<1>3. DOMAIN good.state_machines \subseteq Nat /\ m \in Machine
  BY <1>2, LenProperties, ElementOfSeq
<1>4. ASSUME NEW k \in 1 .. 4 PROVE files[Outputs(m)[k].path] = FileOf(it(k))
  <2>1. LastClaim(good, Outputs(m)[k].path, i, k)
    BY <1>3 DEF Apart, LastClaim
  <2>2. QED
    BY <1>1, <2>1 DEF SuccessIsComplete
<1>5. \A k \in 1 .. 4 : it(k) \in Artifact
  BY <1>3, OutputsType DEF Artifact
<1>6. \A k \in 1 .. 4 : Whole(FileOf(it(k))) /\ FileOf(it(k))[1] = it(k)
  BY <1>5, TextIsWhole
<1>7. /\ Outputs(m)[1].path = TlaPath(m.name) /\ Outputs(m)[1].kind = "tla"
      /\ Outputs(m)[3].path = CfgPath(m.name) /\ Outputs(m)[3].kind = "cfg"
      /\ Outputs(m)[4].path = ShPath(m.name)
  BY DEF Outputs
<1>8. files[TlaPath(m.name)] = FileOf(it(1)) /\ it(1) = [kind |-> "tla", machine |-> m]
  BY <1>4, <1>7
<1>9. files[CfgPath(m.name)] = FileOf(it(3)) /\ it(3) = [kind |-> "cfg", machine |-> m]
  BY <1>4, <1>7
<1>10. Whole(files[ShPath(m.name)])
  BY <1>4, <1>6, <1>7
<1>11. Usable(TlaPath(m.name), "tla") /\ Usable(CfgPath(m.name), "cfg")
  <2> HIDE DEF it
  <2>1. it(1).kind = "tla" /\ it(3).kind = "cfg"
    BY <1>8, <1>9
  <2>2. QED
    BY <1>6, <1>8, <1>9, <2>1 DEF Usable
<1>12. QED
  BY <1>8, <1>9, <1>10, <1>11

LEMMA ShellCoherent ==
    ASSUME WInv, HInv, CleanRunIsCoherent, NEW s \in Shell, Shells(s)
    PROVE  Coherent(clean'[s], good, sh'[s], name'[s], read'[s])
<1> SUFFICES ASSUME clean'[s], Apart(good), NEW i \in DOMAIN good.state_machines,
                    name'[s] = good.state_machines[i].name
             PROVE  /\ sh'[s] \notin {"silent", "unread"}
                    /\ sh'[s] \in {"module", "checking"} =>
                          read'[s].cfg = FileOf([kind |-> "cfg", machine |-> good.state_machines[i]])
                    /\ sh'[s] = "checking" =>
                          read'[s].tla = FileOf([kind |-> "tla", machine |-> good.state_machines[i]])
  BY DEF Coherent
<1> DEFINE m == good.state_machines[i]
           cfg == FileOf([kind |-> "cfg", machine |-> m])
           tla == FileOf([kind |-> "tla", machine |-> m])
<1>0. /\ DOMAIN sh = Shell /\ DOMAIN name = Shell /\ DOMAIN read = Shell /\ DOMAIN clean = Shell
      /\ DOMAIN read[s] = {"cfg", "tla"} /\ good /= Absent
  BY ShellsHistory DEF WInv, ShellsOK, HInv
<1>1. /\ files[TlaPath(m.name)] = tla /\ Usable(TlaPath(m.name), "tla")
      /\ files[CfgPath(m.name)] = cfg /\ Usable(CfgPath(m.name), "cfg")
      /\ Whole(files[ShPath(m.name)])
  BY <1>0, GoodFiles
<1> HIDE DEF cfg, tla
<1>2. ASSUME Prompt(s) PROVE FALSE
  BY <1>0, <1>2 DEF Prompt
<1>3. CASE RunScript(s)
  <2>1. PICK x \in Stem :
            \/ (files[ShPath(x)] = << >> \/ Torn(files[ShPath(x)])) /\ Begin(s, x)
            \/ At(s, "tools")
    BY <1>3 DEF RunScript
  <2>2. CASE (files[ShPath(x)] = << >> \/ Torn(files[ShPath(x)])) /\ Begin(s, x)
    <3>1. x = m.name
      BY <1>0, <2>2 DEF Begin
    <3>2. QED
      BY <1>1, <2>2, <3>1 DEF Whole, Torn
  <2>3. CASE At(s, "tools")
    BY <1>0, <2>3 DEF At
  <2>4. QED
    BY <2>1, <2>2, <2>3
<1>4. CASE FindTools(s) \/ RunPrinted(s)
  <2>1. At(s, "config")
    BY <1>2, <1>4 DEF FindTools, RunPrinted
  <2>2. QED
    BY <1>0, <2>1 DEF At
<1>5. ASSUME UNCHANGED <<clean, name>>
      PROVE  /\ clean[s] /\ name[s] = m.name
             /\ sh[s] \in {"module", "checking"} => read[s].cfg = cfg
  BY <1>5 DEF CleanRunIsCoherent, cfg
<1>6. CASE ReadConfig(s)
  <2>1. Read(s, "cfg", CfgPath(name[s]), "module")
    BY <1>2, <1>6 DEF ReadConfig
  <2>2. name[s] = m.name
    BY <1>5, <2>1 DEF Read, history
  <2>3. At(s, "module") /\ read' = [read EXCEPT ![s]["cfg"] = files[CfgPath(m.name)]]
    BY <1>1, <2>1, <2>2 DEF Read
  <2>4. sh'[s] = "module" /\ read'[s].cfg = cfg
    BY <1>0, <1>1, <2>3 DEF At
  <2>5. QED
    BY <2>4 DEF cfg
<1>7. CASE ReadModule(s)
  <2>1. Read(s, "tla", TlaPath(name[s]), "checking") /\ sh[s] = "module"
    BY <1>7 DEF ReadModule
  <2>2. name[s] = m.name /\ read[s].cfg = cfg
    BY <1>5, <2>1 DEF Read, history
  <2>3. At(s, "checking") /\ read' = [read EXCEPT ![s]["tla"] = files[TlaPath(m.name)]]
    BY <1>1, <2>1, <2>2 DEF Read
  <2>4. sh'[s] = "checking" /\ read'[s].tla = tla /\ read'[s].cfg = cfg
    BY <1>0, <1>1, <2>2, <2>3 DEF At
  <2>5. QED
    BY <2>4 DEF cfg, tla
<1>8. CASE TlcEnds(s)
  BY <1>2, <1>8 DEF TlcEnds
<1>9. QED
  BY <1>3, <1>4, <1>6, <1>7, <1>8 DEF Shells

LEMMA CoherentStep == WInv /\ HInv /\ CleanRunIsCoherent /\ [WNext]_wvars => CleanRunIsCoherent'
<1> SUFFICES ASSUME WInv, HInv, CleanRunIsCoherent, [WNext]_wvars PROVE CleanRunIsCoherent'
  OBVIOUS
<1>0. \A s \in Shell : Coherent(clean[s], good, sh[s], name[s], read[s])
  BY CoherentShells
<1>1. ASSUME NEW s \in Shell, Shells(s) PROVE CleanRunIsCoherent'
  <2>1. /\ DOMAIN sh = Shell /\ DOMAIN name = Shell /\ DOMAIN read = Shell
        /\ good' = good /\ \A t \in Shell \ {s} : clean'[t] = clean[t]
    BY <1>1, ShellsHistory DEF WInv, ShellsOK
  <2>2. \A t \in Shell \ {s} : sh'[t] = sh[t] /\ name'[t] = name[t] /\ read'[t] = read[t]
    BY <1>1, <2>1 DEF Shells, RunScript, FindTools, RunPrinted, ReadConfig, ReadModule, TlcEnds,
                      Begin, Prompt, Read, At
  <2>3. Coherent(clean'[s], good, sh'[s], name'[s], read'[s])
    BY <1>1, ShellCoherent
  <2>4. \A t \in Shell : Coherent(clean'[t], good', sh'[t], name'[t], read'[t])
    BY <1>0, <2>1, <2>2, <2>3
  <2>5. QED
    BY <2>4 DEF CleanRunIsCoherent, Coherent
<1>2. ASSUME UNCHANGED <<shells, clean>>, good' = good \/ \A s \in Shell : ~clean'[s]
      PROVE  CleanRunIsCoherent'
  BY <1>2 DEF shells, CleanRunIsCoherent
<1>3. ASSUME NEW p \in Proc, WOpen(p) PROVE CleanRunIsCoherent'
  BY <1>3 DEF WOpen, CleanRunIsCoherent
<1>4. ASSUME NEW p \in Proc, WFinish(p) PROVE CleanRunIsCoherent'
  <2>1. UNCHANGED <<shells, clean>> /\ \A s \in Shell : ~clean[s]
    BY <1>4, FinishFindsNothing DEF WFinish, WInv
  <2>2. QED
    BY <1>2, <2>1
<1>5. CASE UNCHANGED <<shells, good, clean>>
  BY <1>2, <1>5
<1>6. QED
  BY <1>1, <1>3, <1>4, <1>5 DEF WNext, Outside, WWork, WExists, WCreate, WEdit, wvars, history

(* What a clean run gives TLC to read are the two files of one generate, of *)
(* the machine that was named: for any number of shells and invocations.    *)
THEOREM CleanRunsAreCoherent == WSpec => []CleanRunIsCoherent
<1>1. WInit => CleanRunIsCoherent
  BY DEF WInit, CleanRunIsCoherent
<1>2. QED
  BY <1>1, CoherentStep, HistoryInvariance, PTL DEF WSpec

------------------------------------------------------------------------------
(* init.                                                                     *)

\* The template and its pieces in a file.
LEMMA TemplateFits ==
    /\ Template \in Manifests /\ Template /= Hole /\ Length[Template] \in Nat \ {0}
    /\ Len(<< >>) = 0 /\ Absent /= << >>
<1>1. << >> \in Seq(Artifact \cup Manifests \cup {Hole})
  BY EmptySeq
<1>2. QED
  BY <1>1, EmptySeq, CliAssumption

LEMMA PutPartial ==
    ASSUME NEW f \in Seq(Manifests \cup {Hole}), f /= Absent, NEW i \in Nat \ {0},
           i <= Length[Template], Len(f) <= Length[Template],
           \A x \in Pieces(f) : x = Template
    PROVE  LET g == Put(f, i, Template)
           IN  Len(g) <= Length[Template] /\ \A x \in Pieces(g) : x = Template
<1> DEFINE n == IF i > Len(f) THEN i ELSE Len(f)
           g == Put(f, i, Template)
<1>1. Len(f) \in Nat /\ DOMAIN f = 1 .. Len(f)
  BY LenProperties
<1>2. n \in Nat /\ n <= Length[Template]
  BY <1>1
<1>3. g = [j \in 1 .. n |-> IF j = i THEN Template ELSE IF j <= Len(f) THEN f[j] ELSE Hole]
  BY DEF Put
<1> HIDE DEF n, g
<1>4. g \in Seq(Manifests \cup {Hole}) /\ DOMAIN g = 1 .. n
  <2>1. \A j \in 1 .. n : g[j] \in Manifests \cup {Hole}
    BY <1>1, <1>2, <1>3, TemplateFits
  <2>2. QED
    BY <1>2, <1>3, <2>1, SeqDef
<1>5. Len(g) = n
  BY <1>2, <1>4, LenProperties
<1>6. \A j \in 1 .. n : g[j] = Template \/ g[j] = Hole \/ g[j] \in Pieces(f)
  BY <1>1, <1>2, <1>3 DEF Pieces
<1>7. \A x \in Pieces(g) : x = Template
  BY <1>4, <1>6 DEF Pieces
<1>8. QED
  BY <1>2, <1>5, <1>7 DEF g

LEMMA WholeIsText ==
    ASSUME Whole(toml), TypeOK, \A x \in Pieces(toml) : x = Template
    PROVE  toml = FileOf(Template)
<1>1. toml \in Seq(Manifests \cup {Hole}) /\ toml /= << >> /\ toml[1] /= Hole /\ toml = FileOf(toml[1])
  BY DEF Whole, TypeOK
<1>2. 1 \in DOMAIN toml
  BY <1>1, EmptySeq, LenProperties
<1>3. toml[1] = Template
  BY <1>1, <1>2 DEF Pieces, Whole
<1>4. QED
  BY <1>1, <1>3

\* Writing a text over itself.
LEMMA PutInside ==
    ASSUME NEW i \in 1 .. Length[Template]
    PROVE  Put(FileOf(Template), i, Template) = FileOf(Template)
<1> DEFINE n == Length[Template]
<1>1. n \in Nat \ {0}
  BY TemplateFits
<1>2. FileOf(Template) = [j \in 1 .. n |-> Template] /\ Len(FileOf(Template)) = n
  BY <1>1 DEF FileOf
<1>3. QED
  BY <1>1, <1>2 DEF Put

LEMMA ShellsKeepLate == \A s \in Shell : Shells(s) => late' = late
  BY DEF Shells, RunScript, FindTools, RunPrinted, ReadConfig, ReadModule, TlcEnds,
         Begin, Prompt, Read, history

LEMMA OneInitStep == WInv /\ OneInit /\ [WNext]_wvars => OneInit'
<1> SUFFICES ASSUME WInv, OneInit, [WNext]_wvars PROVE OneInit'
  OBVIOUS
<1>0. TypeOK /\ Phases /\ InRange
  BY DEF WInv, IInv
<1> DEFINE Partial(f) == Len(f) <= Length[Template] /\ \A x \in Pieces(f) : x = Template
<1>1. \A p \in Proc \ late : /\ pc[p] = "create" => toml = Absent
                             /\ pc[p] = "template" => Partial(toml)
  BY DEF OneInit
<1>2. ASSUME UNCHANGED <<pc, toml, late>> PROVE OneInit'
  BY <1>1, <1>2 DEF OneInit
<1>3. ASSUME NEW p \in Proc, pc'[p] \notin {"create", "template"}, UNCHANGED <<toml, late>>,
             \A q \in Proc \ {p} : pc'[q] = pc[q]
      PROVE  OneInit'
  BY <1>1, <1>3 DEF OneInit
<1>4. CASE WEdit
  BY <1>4 DEF WEdit, Edit, OneInit
<1>5. ASSUME NEW p \in Proc, WExists(p) PROVE OneInit'
  <2>1. /\ toml' = toml /\ late' = late \ {p} /\ \A q \in Proc \ {p} : pc'[q] = pc[q]
        /\ pc'[p] = IF toml = Absent THEN "create" ELSE "failed"
    BY <1>0, <1>5 DEF WExists, Exists, Goto, disk, TypeOK
  <2>2. QED
    BY <1>1, <2>1 DEF OneInit
<1>6. ASSUME NEW p \in Proc, WCreate(p) PROVE OneInit'
  <2>1. /\ toml' = << >> /\ late' = late \cup {q \in Proc \ {p} : pc[q] = "create"}
        /\ pc'[p] = "template" /\ \A q \in Proc \ {p} : pc'[q] = pc[q]
    BY <1>0, <1>6 DEF WCreate, Create, Goto, TypeOK
  <2>2. Partial(<< >>)
    BY TemplateFits DEF Pieces
  <2>3. QED
    BY <2>1, <2>2 DEF OneInit
<1>7. ASSUME NEW p \in Proc, WriteTemplate(p), UNCHANGED history PROVE OneInit'
  <2>1. /\ toml' = Put(toml, written[p] + 1, Template) /\ late' = late /\ pc[p] = "template"
        /\ \A q \in Proc \ {p} : pc'[q] = pc[q]
        /\ pc'[p] \in {"template", "ok"}
    BY <1>0, <1>7 DEF WriteTemplate, Goto, TypeOK, history
  <2>2. toml /= Absent /\ toml \in Seq(Manifests \cup {Hole})
    BY <1>0, <2>1 DEF Phases, TypeOK
  <2>3. written[p] + 1 \in Nat \ {0} /\ written[p] + 1 <= Length[Template]
    <3>1. written[p] \in Nat /\ written[p] < Size(p)
      BY <1>0, <2>1 DEF InRange, TypeOK
    <3>2. Size(p) = Length[Template]
      BY <2>1 DEF Size
    <3>3. QED
      BY <3>1, <3>2, TemplateFits
  <2>4. Partial(toml) => Partial(toml')
    BY <2>1, <2>2, <2>3, PutPartial
  <2>5. \A q \in Proc \ late : pc[q] = "template" => Partial(toml')
    BY <1>1, <2>4
  <2>6. \A q \in Proc \ late : pc[q] /= "create"
    BY <1>1, <2>2
  <2>7. QED
    BY <2>1, <2>5, <2>6 DEF OneInit
<1>8. ASSUME NEW p \in Proc,
             \/ Start(p) \/ Stop(p) \/ Load(p) \/ Validate(p) \/ MakeDir(p) \/ Check(p)
             \/ Open(p) \/ FillPart(p) \/ Fill(p) \/ Finish(p),
             late' = late
      PROVE  OneInit'
  <2>1. toml' = toml
    BY <1>8 DEF Start, Stop, Load, Validate, MakeDir, Check, Open, FillPart, Fill, PutNext, Finish, disk
  <2>2. /\ \A q \in Proc \ {p} : pc'[q] = pc[q]
        /\ pc'[p] \notin {"create", "template"}
    BY <1>0, <1>8 DEF Start, Stop, Load, Validate, MakeDir, Check, Open, FillPart, Fill, PutNext,
                      Finish, Goto, TypeOK
  <2>3. QED
    BY <1>3, <1>8, <2>1, <2>2
<1>9. ASSUME NEW s \in Shell, Shells(s) PROVE OneInit'
  BY <1>2, <1>9, ShellsOnlyRead, ShellsKeepLate DEF vars
<1>10. CASE UNCHANGED wvars
  BY <1>2, <1>10 DEF wvars, vars, history
<1>11. ASSUME NEW p \in Proc, WWork(p) PROVE OneInit'
  BY <1>5, <1>6, <1>7, <1>8, <1>11 DEF WWork, WOpen, WFinish, history
<1>12. CASE Outside
  BY <1>4, <1>8, <1>12 DEF Outside, history
<1>13. QED
  BY <1>9, <1>10, <1>11, <1>12 DEF WNext

\* One step of ManifestSurvives.
Survives ==
    Whole(toml) /\ toml' /= toml =>
        \/ edits' /= edits
        \/ \E p \in late : /\ pc[p] \in {"create", "template"}
                          /\ <<pc[p], written[p]>>' /= <<pc[p], written[p]>>

(* Commands, shells and the user together change a manifest that is there   *)
(* only as the user saves it, or by an init that had found none and has     *)
(* been overtaken: for any number of invocations, in any order.             *)
THEOREM InitDestroysNothing == WSpec => ManifestSurvives
<1>1. WInv /\ OneInit /\ [WNext]_wvars => [Survives]_wvars
  <2> SUFFICES ASSUME WInv, OneInit, WNext, Whole(toml), toml' /= toml
               PROVE  \/ edits' /= edits
                      \/ \E p \in late : /\ pc[p] \in {"create", "template"}
                                        /\ <<pc[p], written[p]>>' /= <<pc[p], written[p]>>
    BY DEF Survives
  <2>0. TypeOK /\ InRange /\ toml /= Absent
    BY DEF WInv, IInv, Whole
  <2>1. ASSUME NEW p \in Proc, Create(p)
        PROVE  p \in late /\ pc[p] = "create" /\ pc'[p] /= pc[p]
    BY <2>0, <2>1 DEF OneInit, Create, Goto, TypeOK
  <2>2. ASSUME NEW p \in Proc, WriteTemplate(p)
        PROVE  p \in late /\ pc[p] = "template" /\ written'[p] /= written[p]
    <3>1. pc[p] = "template" /\ written'[p] /= written[p]
      BY <2>0, <2>2 DEF WriteTemplate, TypeOK
    <3>2. written[p] + 1 \in 1 .. Length[Template]
      <4>1. written[p] \in Nat /\ written[p] < Size(p)
        BY <2>0, <3>1 DEF InRange, TypeOK
      <4>2. Size(p) = Length[Template]
        BY <3>1 DEF Size
      <4>3. QED
        BY <4>1, <4>2, TemplateFits
    <3>3. CASE p \notin late
      <4>1. \A x \in Pieces(toml) : x = Template
        BY <3>1, <3>3 DEF OneInit
      <4>2. toml = FileOf(Template)
        BY <2>0, <4>1, WholeIsText
      <4>3. toml' = toml
        BY <2>2, <3>2, <4>2, PutInside DEF WriteTemplate
      <4>4. QED
        BY <4>3
    <3>4. QED
      BY <3>1, <3>3
  <2>3. CASE WEdit
    BY <2>0, <2>3 DEF WEdit, Edit, TypeOK
  <2>4. ASSUME NEW p \in Proc,
               \/ Start(p) \/ Stop(p) \/ Load(p) \/ Validate(p) \/ MakeDir(p) \/ Check(p)
               \/ Open(p) \/ FillPart(p) \/ Fill(p) \/ Finish(p) \/ Exists(p)
        PROVE  FALSE
    BY <2>4 DEF Start, Stop, Load, Validate, MakeDir, Check, Open, FillPart, Fill, PutNext,
                Finish, Exists, disk
  <2>5. ASSUME NEW s \in Shell, Shells(s) PROVE FALSE
    BY <2>5, ShellsOnlyRead DEF vars
  <2>6. ASSUME NEW p \in Proc, WWork(p) PROVE Create(p) \/ WriteTemplate(p)
    BY <2>4, <2>6 DEF WWork, WOpen, WFinish, WExists, WCreate
  <2>7. QED
    BY <2>1, <2>2, <2>3, <2>4, <2>5, <2>6 DEF WNext, Outside
<1>2. WInit => OneInit
  BY HistoryStarts
<1>3. QED
  BY <1>1, <1>2, OneInitStep, WInvariance, PTL DEF WSpec, ManifestSurvives, Survives
==============================================================================
