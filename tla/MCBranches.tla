------------------------------ MODULE MCBranches ------------------------------
(***************************************************************************)
(* Two projects whose refs collide: the branch x of p and the default      *)
(* branch of q have one ref, as "a" / "b-main" and "a-b" / "main" do.      *)
(***************************************************************************)
EXTENDS Branches, TLC

CONSTANTS p, q, main, x, y, z, s1, s2, s3

MCRef ==
    [r \in Project |->
        IF r = p THEN main :> s1 @@ x :> s2 @@ y :> s3 @@ z :> s3
        ELSE main :> s2 @@ x :> s3 @@ y :> s3 @@ z :> s3]

OneClone == {<<p, x>>}

\* Branch ids are minted at random.
Ids == Permutations(Branch)
===============================================================================
