----------------------------- MODULE MCSessions -----------------------------
(* Two users, one of whom may log in again while the old session ends. *)
EXTENDS Sessions
CONSTANTS u1, u2, a1, a2, b1
MCUsers == {u1, u2}
MCIds == {a1, a2, b1}
MCOwner == [i \in MCIds |-> IF i = b1 THEN u2 ELSE u1]
MCTwoIds == {a1, b1}
MCTwoOwner == [i \in MCTwoIds |-> IF i = b1 THEN u2 ELSE u1]
=============================================================================
