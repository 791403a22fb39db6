--------------------------- MODULE CriticalSection ---------------------------
(* What the machine of Tlaiser/ABI/Semantics.idr promises: processes enter  *)
(* a section one at a time and leave it.                                    *)
CONSTANT Process
VARIABLE inside    \* the processes in the section

Init == inside = {}
Enter(p) == inside = {} /\ inside' = {p}
Leave(p) == inside = {p} /\ inside' = {}
Next == \E p \in Process : Enter(p) \/ Leave(p)
Spec == Init /\ [][Next]_inside

MutualExclusion == \A p, q \in inside : p = q
==============================================================================
