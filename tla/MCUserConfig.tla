---------------------------- MODULE MCUserConfig ----------------------------
(***************************************************************************)
(* UserConfig for TLC: two ordinary users and the greeter's user.          *)
(***************************************************************************)
EXTENDS UserConfig, TLC

CONSTANTS alice, bob, dde

MCUsers == {alice, bob, dde}
=============================================================================
