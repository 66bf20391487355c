------------------------------- MODULE MCOpLock -------------------------------
(***************************************************************************)
(* OpLock on small instances.                                              *)
(***************************************************************************)
EXTENDS OpLock, TLC

CONSTANTS c1, c2, c3, t1, ka, kb

\* Calls of the same kind are interchangeable, and so are the keys.
Symmetry == Permutations(Try) \cup Permutations(Call \ Try) \cup Permutations(Key)
===============================================================================
