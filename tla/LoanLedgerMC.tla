---------------------------- MODULE LoanLedgerMC ----------------------------
(* LoanLedger on a loan of two units with two payments, two requests and    *)
(* two runs of the fines job.                                               *)
EXTENDS LoanLedger, TLC

MCActors == Permutations(Requests) \cup Permutations(Workers)
=============================================================================
