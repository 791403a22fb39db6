---------------------------- MODULE MCGenPlusCal ----------------------------
(* The generated algorithm, on the sample machines whose actions are        *)
(* independent and on some whose actions are not.                           *)
EXTENDS GenPlusCal, GenSamples

MCIndependent ==
    MachinesWith({act \in UpToTwo(Conjuncts({"assign"}) \cup Cut) :
                    Independent([action |-> act])}) \cup Idling \cup Stuck
==============================================================================
