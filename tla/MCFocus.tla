------------------------------ MODULE MCFocus ------------------------------
(***************************************************************************)
(* Focus on small instances: two windows, one or two seats, with or        *)
(* without layer surfaces and popups.                                      *)
(***************************************************************************)
EXTENDS Focus, TLC

CONSTANTS s1, s2, p1

NoPopup  == <<>>
OnePopup == s1 :> p1
=============================================================================
