------------------------------ MODULE MCWorkflow ------------------------------
(* A project with machines Foo and FooPlusCal.  The second has the name    *)
(* under which the first one's PlusCal module is saved, so a manifest with *)
(* both makes two machines share a file.                                   *)
EXTENDS Workflow, TLC

MCStem == {"Foo", "FooPlusCal", "FooPlusCalPlusCal", "Other"}
MCPlusCalOf == [s \in MCStem |->
    CASE s = "Foo" -> "FooPlusCal" [] s = "FooPlusCal" -> "FooPlusCalPlusCal" [] OTHER -> "Other"]

M(n, b, v) == [name |-> n, body |-> b, verdict |-> v]
MCMachine ==
    {M("Foo", 0, "accepted"), M("Foo", 1, "accepted"), M("FooPlusCal", 0, "accepted"),
     M("Foo", 2, "deep"), M("FooPlusCal", 2, "structural")}
Man(ms) == [named |-> TRUE, state_machines |-> ms, properties |-> TRUE]

MCTemplate == Man(<<M("Foo", 0, "accepted")>>)
MCManifests ==
    {MCTemplate,
     Man(<<M("Foo", 1, "accepted"), M("FooPlusCal", 0, "accepted")>>),  \* share a file
     Man(<<M("FooPlusCal", 0, "accepted"), M("Foo", 2, "deep")>>),      \* good, then bad
     Man(<<M("Foo", 0, "accepted"), M("Foo", 1, "accepted")>>),         \* one name twice
     Man(<<M("FooPlusCal", 2, "structural")>>)}

\* Two pieces for the specification and the script of Foo with body 1, as for
\* the template, and three for the manifest that Foo is in: each can be the
\* longer or the shorter one where two texts meet.  One write for the rest.
MCLength ==
    [x \in [kind : {"tla", "pcal", "cfg", "sh"}, machine : MCMachine] \cup MCManifests |->
        IF x \in MCManifests THEN (IF x = MCTemplate THEN 2 ELSE IF Len(x.state_machines) = 2 THEN 3 ELSE 1)
        ELSE IF x.kind \in {"tla", "sh"} /\ x.machine = M("Foo", 1, "accepted") THEN 2 ELSE 1]

MCSymmetry == Permutations(Proc)
==============================================================================
