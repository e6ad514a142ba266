----------------------------- MODULE BranchDayMC -----------------------------
(* BranchDay on small instances: one or two days of one branch.             *)
EXTENDS BranchDay, TLC

MCRecords == {<<2, "topUp">>}
MCRace == {<<1, "expense">>, <<1, "salary">>}
=============================================================================
