---------------------------- MODULE MCLockScreen ----------------------------
(* Two external lockers that compete, on two outputs. *)
EXTENDS LockScreen
CONSTANTS l1, l2, o1, o2
MCLocks == {l1, l2}
MCOutputs == {o1, o2}
=============================================================================
