----------------------------- MODULE MCArtifacts -----------------------------
(* Accepted machines over a few short names, which meet once cleaned, start *)
(* with what is no letter, or are taken by the generated module itself.     *)
EXTENDS Artifacts, SequencesExt

MCLetter == Fixed \cup {"A", "B", "x", "y", "N"}
MCLibrary == {<<"N">>}

MCLabels == {NoLabel, <<"x">>, <<"x", "-">>, <<"x", "_">>, <<"7", "x">>,
             <<"-", "x">>, << >>, <<"Init">>, <<"N">>}
A == <<"A">>
B == <<"B">>
AB == <<"A", "_", "B">>
T(f, t, l) == [from |-> f, to |-> t, label |-> l]
MCTransitions ==
    {<<T(A, B, l)>> : l \in MCLabels}
      \cup {<<T(A, B, l), T(e[1], e[2], k)>> :
              l \in MCLabels, k \in MCLabels, e \in {<<A, B>>, <<B, A>>}}
M(ss, vs, ts) == [states |-> ss, initial_state |-> ss[1], variables |-> vs, transitions |-> ts]
MCMachines == {M(<<A, B>>, vs, ts) : vs \in {<< >>, <<<<"y">>>>}, ts \in MCTransitions}

\* Three states of which two joined read like the third.
Joined == M(<<A, AB, B>>, << >>, <<T(A, B, NoLabel), T(A, AB, NoLabel), T(AB, B, NoLabel),
                                   T(B, A, NoLabel)>>)
Plain == M(<<A, B>>, <<<<"y">>>>, <<T(A, B, NoLabel), T(B, A, <<"x">>)>>)
Lone == M(<<A>>, << >>, << >>)

MCProperty == [name : {<<"x">>, <<"B", "-">>, <<"y", "7">>, <<"7", "y">>, <<"-">>}, kind : Kind]
UpTo(k, S) == UNION {[1 .. n -> S] : n \in 0 .. k}
In(ms, ps, tables) == [machine : ms, properties : ps, tlc : tables]

NoTable == << >>
Symmetric == [symmetry |-> TRUE]
\* Tables with or without each field, and with the key the template has.
Table(keys, w, n, fs) ==
    [key \in keys |-> CASE key = "workers" -> w
                       [] key \in {"max_states", "max-states"} -> n
                       [] key = "extra_flags" -> fs]
MCFlags == UNION {[1 .. n -> {"-deadlock", "-depth", "-workers", "-config", "-maxSetSize", "7"}] : n \in 0 .. 3}
Tables ==
    {Table(keys, "2", n, fs) :
        keys \in SUBSET {"workers", "max_states", "max-states", "extra_flags"},
        n \in {"0", "9"}, fs \in MCFlags}

MCInputs == In(MCMachines, UpTo(1, MCProperty), {NoTable})
              \cup In({Joined, Plain, Lone}, UpTo(2, MCProperty), {NoTable, Symmetric})
              \cup In({Lone}, {<< >>}, Tables)
==============================================================================
