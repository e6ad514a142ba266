--------------------------- MODULE UploadQueueMC ---------------------------
(***************************************************************************)
(* Small instances of UploadQueue.  A scenario lists the operations in the *)
(* order of their createdAt; the constants are read off that list.         *)
(***************************************************************************)
EXTENDS UploadQueue, TLC

CONSTANTS
  p1, p2,          \* phones
  loanA, loanB,
  shell, profile,  \* the SyncService instances of agent_shell.dart and
                   \* agent_profile_screen.dart
  r1, r2,
  Scenario

MCOperations == DOMAIN Scenario
MCDeviceOf == [o \in DOMAIN Scenario |-> Scenario[o].device]
MCKind == [o \in DOMAIN Scenario |-> Scenario[o].kind]
MCLoanOf == [o \in DOMAIN Scenario |-> Scenario[o].loan]
MCAmount == [o \in DOMAIN Scenario |-> Scenario[o].amount]
MCLocalId == [o \in DOMAIN Scenario |-> Scenario[o].id]
MCPrincipal == [l \in {loanA, loanB} |-> 4]

work(device, kind, loan, amount, id) ==
  [device |-> device, kind |-> kind, loan |-> loan, amount |-> amount, id |-> id]

\* One phone: two repayments of a loan that are together more than is owed, and two
\* payouts that are together more than its principal.
OnePhone == <<work(p1, "repayment", loanA, 2, "a"),
              work(p1, "repayment", loanA, 3, "b"),
              work(p1, "disbursement", loanA, 4, "c"),
              work(p1, "disbursement", loanA, 1, "d")>>

\* Two phones that pay out one loan; one of them goes on with another customer.
TwoPhones == <<work(p1, "disbursement", loanA, 4, "a"),
               work(p2, "disbursement", loanA, 1, "b"),
               work(p2, "repayment", loanA, 2, "c"),
               work(p2, "application", loanB, 1, "d")>>

\* The two repayments, the two payouts; the two payouts, what follows them.
InPairs == {{1, 2}, {3, 4}}

\* Two repayments recorded in the same millisecond on two phones.
SameInstant == <<work(p1, "repayment", loanA, 2, "offline_1"),
                 work(p2, "repayment", loanB, 3, "offline_1")>>

\* Two officers apply for the same customer.
TwoApplications == <<work(p1, "application", loanA, 1, "a"),
                     work(p2, "application", loanA, 1, "b")>>

\* SyncService instances: one per phone, or two on the first one.
OnePerPhone == p1 :> p1 @@ p2 :> p2
BothOnP1 == shell :> p1 @@ profile :> p1

\* Used in runs that check safety only, where PhoneOf does not tell the services
\* apart.
Alike == Permutations({shell, profile}) \cup Permutations({r1, r2})
=============================================================================
