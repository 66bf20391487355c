-------------------------------- MODULE Filters --------------------------------
(***************************************************************************)
(* list.filter(...), with the elements that pass given as a set: as a      *)
(* recursive function it can be reasoned about.                            *)
(***************************************************************************)
EXTENDS Naturals, Sequences

\* The elements of list that are in T, in their order.
Filtered(list, T) ==
    LET upTo[n \in 0 .. Len(list)] ==
            IF n = 0 THEN <<>>
            ELSE IF list[n] \in T THEN Append(upTo[n - 1], list[n]) ELSE upTo[n - 1]
    IN  upTo[Len(list)]
=============================================================================
