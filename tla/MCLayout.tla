------------------------------ MODULE MCLayout ------------------------------
(* The layouts of the interface, vectors of fields as C places them, and    *)
(* vectors of any fields.                                                   *)
EXTENDS Layout

CONSTANT Offsets      \* offsets of a field in a vector of any fields

L(fs, align) == [fields |-> fs, align |-> align]

MCNumVars == 0 .. 4
Calculated == {l.given : l \in Interface}

\* Up to three fields, each of its own size and at the next aligned offset.
Sized == {1, 2, 4, 8}
At(o, s) == MkField(alignUp(o, s), s, s)
Placed ==
    {L(<<At(0, s)>>, 8) : s \in Sized}
      \cup {L(<<At(0, s), At(s, t)>>, 8) : s \in Sized, t \in Sized}
      \cup {L(<<At(0, s), At(s, t), At(End(At(s, t)), u)>>, 8) :
              s \in Sized, t \in Sized, u \in Sized}

\* Up to two fields anywhere: overlapping, unordered, not aligned, and of
\* alignment zero where that is never divided by.
AnyField == [offset : Offsets, size : {0, 3, 4}, alignment : {0, 1, 2, 4}]
Anywhere ==
    {l \in {L(fs, a) : fs \in UNION {[1 .. n -> AnyField] : n \in 0 .. 2}, a \in {0, 1, 4}} :
        Callable(l)}

MCLayouts == Calculated \cup Placed \cup Anywhere
==============================================================================
