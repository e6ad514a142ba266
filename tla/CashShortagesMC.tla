--------------------------- MODULE CashShortagesMC ---------------------------
(* CashShortages with two handovers and two requests.                       *)
EXTENDS CashShortages, TLC

MCRequests == Permutations(Requests)
=============================================================================
