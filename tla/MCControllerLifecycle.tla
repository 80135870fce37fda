------------------------- MODULE MCControllerLifecycle -------------------------
(* Small instances of ControllerLifecycle for TLC.                          *)
EXTENDS ControllerLifecycle

CONSTANTS n1, n2, n3, c1, c2, t1, t2

\* Erased, written without recursion for the proofs, is the selection it stands for.
ASSUME ErasedSelects ==
    \A s \in BoundedSeq(Nodes, 4), n \in Nodes : Erased(s, n) = SelectSeq(s, LAMBDA m : m # n)
=============================================================================
