---------------------------- MODULE SmsCreditsMC ----------------------------
(***************************************************************************)
(* SmsCredits for TLC: two message rows, which is an attempt and its       *)
(* retry, or two requests that compete for the same units.                 *)
(***************************************************************************)
EXTENDS SmsCredits

MCSegments == {1, 2}
MCTopUps == {2}
=============================================================================
