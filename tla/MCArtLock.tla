------------------------------ MODULE MCArtLock -------------------------------
(* An instance of ArtLock for TLC: two inserts into a node4, one among its *)
(* keys and one behind them, and an insert together with a collection, both *)
(* in a node that has room and in one that is full.                        *)
EXTENDS ArtLock, TLC

CONSTANTS i1, i2, gc, s1

Places == (i1 :> 6) @@ (i2 :> 3) @@ (gc :> 4)

Pairs == {[threads |-> {i1, i2}, load |-> {4, 5}, targets |-> {5}],
          [threads |-> {i1, gc}, load |-> {2, 4, 5}, targets |-> {4, 5}],
          [threads |-> {i1, i2}, load |-> {2, 4, 5, 7}, targets |-> {5}],
          [threads |-> {i2, gc}, load |-> {2, 4, 5, 7}, targets |-> {4, 5}]}
================================================================================
