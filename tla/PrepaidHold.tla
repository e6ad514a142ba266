---------------------------- MODULE PrepaidHold ----------------------------
(***************************************************************************)
(* What a prepaid branch wallet promises its owner, with nothing of how    *)
(* the service keeps the promise: the price of a message is taken out of   *)
(* the balance once, before the message is handed to the provider, and it  *)
(* is then either kept for good or given back in full, once.               *)
(***************************************************************************)
EXTENDS Integers

CONSTANTS Messages, Segments, TopUps

VARIABLES
  balance,   \* units the branch can still spend
  account,   \* per message: "none", "held", "charged" or "returned"
  price      \* per message: the units it costs

vars == <<balance, account, price>>

Init ==
  /\ balance = 0
  /\ account = [m \in Messages |-> "none"]
  /\ price = [m \in Messages |-> 0]

TopUp(u) ==
  /\ balance' = balance + u
  /\ UNCHANGED <<account, price>>

\* A message is priced before anything is held for it.
Quote(m, u) ==
  /\ account[m] = "none"
  /\ price' = [price EXCEPT ![m] = u]
  /\ UNCHANGED <<balance, account>>

Hold(m) ==
  /\ account[m] = "none"
  /\ balance >= price[m]
  /\ balance' = balance - price[m]
  /\ account' = [account EXCEPT ![m] = "held"]
  /\ UNCHANGED price

Charge(m) ==
  /\ account[m] = "held"
  /\ account' = [account EXCEPT ![m] = "charged"]
  /\ UNCHANGED <<balance, price>>

Return(m) ==
  /\ account[m] = "held"
  /\ balance' = balance + price[m]
  /\ account' = [account EXCEPT ![m] = "returned"]
  /\ UNCHANGED price

Next ==
  \/ \E u \in TopUps : TopUp(u)
  \/ \E m \in Messages : \/ \E u \in Segments : Quote(m, u)
                         \/ Hold(m)
                         \/ Charge(m)
                         \/ Return(m)

Spec == Init /\ [][Next]_vars
=============================================================================
