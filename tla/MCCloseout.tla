---------------------------- MODULE MCCloseout ----------------------------
(* Preflight and the two batch jobs for TLC: an account on which an        *)
(* earlier preflight has left its position behind, and the user has an     *)
(* order pending.                                                          *)
EXTENDS Closeout

Orphan == [ticket |-> 1, own |-> TRUE, stop |-> FirstStop, target |-> TRUE]

LeftBehind == {Orphan}

UsersOrders == {2}
=============================================================================
