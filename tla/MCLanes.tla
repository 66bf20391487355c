------------------------------ MODULE MCLanes ------------------------------
(* Two branches with a database each, an app on the first of them, and a   *)
(* range one port wider than what they can hold at once.                   *)
EXTENDS Lanes, TLC

CONSTANTS b1, b2, d1, d2, a1, r1

OnWhich == d1 :> b1 @@ d2 :> b2 @@ a1 :> b1
=============================================================================
