--------------------------- MODULE SmsPurchasesMC ---------------------------
(* SmsPurchases with a job and one or two purchases and requests.           *)
EXTENDS SmsPurchases, TLC
=============================================================================
