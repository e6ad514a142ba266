----------------------------- MODULE SmsCredits -----------------------------
(***************************************************************************)
(* The prepaid SMS wallet of one branch and the requests that spend it     *)
(* (services/api/src/modules/sms-credits/sms-credits.service.ts).          *)
(*                                                                         *)
(* A send request runs as a chain of separate database calls: it inserts a *)
(* message row, takes the units in a transaction, marks the row RESERVED,  *)
(* calls the provider and books the answer.  It can die between any two of *)
(* them.  A cron job returns the units of rows whose reservation is past   *)
(* its expiry; it lists the rows first and releases them one by one later. *)
(* Users retry messages that failed.                                       *)
(*                                                                         *)
(* Time is abstract: overdue[m] says that reservationExpiresAt has passed. *)
(***************************************************************************)
EXTENDS Integers, FiniteSets, Functions

CONSTANTS
  Messages,          \* rows of sms_messages that may come to exist
  NoMessage,         \* the parent of a first attempt
  Segments,          \* how many units a message may need
  TopUps,            \* how many units a purchase or a grant may add
  MaxPurchased,      \* bound on the units ever added
  SendOutlivesHold   \* may a provider call last longer than the reservation?

ASSUME SegmentsAssumption == Segments \subseteq Nat \ {0}
ASSUME TopUpsAssumption == TopUps \subseteq Nat \ {0}
ASSUME MessagesAssumption == IsFiniteSet(Messages)
ASSUME NoMessageAssumption == NoMessage \notin Messages
ASSUME MaxPurchasedAssumption == MaxPurchased \in Nat
ASSUME SendOutlivesHoldAssumption == SendOutlivesHold \in BOOLEAN

VARIABLES
  availableUnits, reservedUnits, lifetimePurchased, lifetimeUsed,
               \* the branch_sms_wallets row
  entries,     \* per message: how many ledger entries of each type name it
  status,      \* per message: sms_messages.status, "ABSENT" before the insert
  units,       \* per message: segmentsRequired
  parent,      \* per message: parentMessageId
  overdue,     \* per message: reservationExpiresAt <= now
  stage,       \* per message: how far the request that inserted it has come
  delivered,   \* per message: did the provider really send it (unknown to the API)
  listed,      \* rows the cron has listed and not yet released
  retrying     \* messages whose retry request has passed its checks

wallet == <<availableUnits, reservedUnits, lifetimePurchased, lifetimeUsed>>
vars == <<wallet, entries, status, units, parent, overdue, stage, delivered,
          listed, retrying>>

Holding == {"RESERVED", "PROVIDER_UNCERTAIN"}
\* Mutant: an uncertain message may be retried at once.
RetryableInDoubt == {"PROVIDER_FAILED", "BLOCKED_PROVIDER_UNAVAILABLE",
                     "FAILED_VALIDATION", "FAILED_INSUFFICIENT_CREDITS",
                     "RELEASED", "PROVIDER_UNCERTAIN"}
Retryable == {"PROVIDER_FAILED", "BLOCKED_PROVIDER_UNAVAILABLE",
              "FAILED_VALIDATION", "FAILED_INSUFFICIENT_CREDITS", "RELEASED"}
Active == {"PENDING_VALIDATION"} \cup Holding
Status == {"ABSENT", "PROVIDER_ACCEPTED"} \cup Active \cup Retryable

Answers == {"accepted", "rejected", "ambiguous"}
Running == {"inserted", "reserved", "marked"} \cup Answers
Stages == {"none", "over"} \cup Running

NoEntries == [reserve |-> 0, release |-> 0, debit |-> 0]

Init ==
  /\ availableUnits = 0
  /\ reservedUnits = 0
  /\ lifetimePurchased = 0
  /\ lifetimeUsed = 0
  /\ entries = [m \in Messages |-> NoEntries]
  /\ status = [m \in Messages |-> "ABSENT"]
  /\ units = [m \in Messages |-> 0]
  /\ parent = [m \in Messages |-> NoMessage]
  /\ overdue = [m \in Messages |-> FALSE]
  /\ stage = [m \in Messages |-> "none"]
  /\ delivered = [m \in Messages |-> FALSE]
  /\ listed = {}
  /\ retrying = {}

-----------------------------------------------------------------------------
(* The wallet.  Every change is one transaction under the row lock.        *)

\* A credited purchase or the Pro welcome grant.
TopUp(u) ==
  /\ lifetimePurchased + u <= MaxPurchased
  /\ availableUnits' = availableUnits + u
  /\ lifetimePurchased' = lifetimePurchased + u
  /\ UNCHANGED <<reservedUnits, lifetimeUsed, entries, status, units, parent,
                 overdue, stage, delivered, listed, retrying>>

\* Mutant: the balance is not looked at under the lock.
ReserveUnchecked(m) == availableUnits >= 0

CanReserve(m) == availableUnits >= units[m]

TakeUnits(m) ==
  /\ availableUnits' = availableUnits - units[m]
  /\ reservedUnits' = reservedUnits + units[m]
  /\ UNCHANGED <<lifetimePurchased, lifetimeUsed>>
  /\ entries' = [entries EXCEPT ![m].reserve = @ + 1]

ReturnUnits(m) ==
  /\ availableUnits' = availableUnits + units[m]
  /\ reservedUnits' = reservedUnits - units[m]
  /\ UNCHANGED <<lifetimePurchased, lifetimeUsed>>
  /\ entries' = [entries EXCEPT ![m].release = @ + 1]

\* Mutants: the debit leaves the reserve in place; the used total goes down.
DebitKeepsReserve(m) ==
  /\ lifetimeUsed' = lifetimeUsed + units[m]
  /\ UNCHANGED <<availableUnits, reservedUnits, lifetimePurchased>>
  /\ entries' = [entries EXCEPT ![m].debit = @ + 1]

DebitLowersUsed(m) ==
  /\ reservedUnits' = reservedUnits - units[m]
  /\ lifetimeUsed' = lifetimeUsed - units[m]
  /\ UNCHANGED <<availableUnits, lifetimePurchased>>
  /\ entries' = [entries EXCEPT ![m].debit = @ + 1]

DebitUnits(m) ==
  /\ reservedUnits' = reservedUnits - units[m]
  /\ lifetimeUsed' = lifetimeUsed + units[m]
  /\ UNCHANGED <<availableUnits, lifetimePurchased>>
  /\ entries' = [entries EXCEPT ![m].debit = @ + 1]

\* releaseRejectedReservation: the row is read again under its lock, and the
\* units go back only if the row still holds them.
\* Mutant: a row another writer has settled meanwhile is released all the same.
ReleasedOnlyIf(m, final) == status[m] = final

AlreadyReleased(m, final) == status[m] \in {"PROVIDER_ACCEPTED", final}

ReleaseReservation(m, final) ==
  \/ /\ AlreadyReleased(m, final)
     /\ UNCHANGED <<wallet, entries, status, overdue>>
  \/ /\ ~AlreadyReleased(m, final)
     /\ status' = [status EXCEPT ![m] = final]
     /\ overdue' = [overdue EXCEPT ![m] = FALSE]
     /\ IF status[m] \in Holding
        THEN ReturnUnits(m)
        ELSE UNCHANGED <<wallet, entries>>

-----------------------------------------------------------------------------
(* One send request, a step per database or provider call.                 *)

Advance(m, s) == stage' = [stage EXCEPT ![m] = s]

Insert(m, u, p) ==
  /\ status[m] = "ABSENT"
  /\ status' = [status EXCEPT ![m] = "PENDING_VALIDATION"]
  /\ units' = [units EXCEPT ![m] = u]
  /\ parent' = [parent EXCEPT ![m] = p]
  /\ Advance(m, "inserted")
  /\ UNCHANGED <<wallet, entries, overdue, delivered, listed>>

\* A new message.  A caller that repeats an idempotency key finds the row
\* and changes nothing.
StartSend(m, u) ==
  /\ Insert(m, u, NoMessage)
  /\ UNCHANGED retrying

InvalidPhone(m) ==
  /\ stage[m] = "inserted"
  /\ status' = [status EXCEPT ![m] = "FAILED_VALIDATION"]
  /\ Advance(m, "over")
  /\ UNCHANGED <<wallet, entries, units, parent, overdue, delivered, listed,
                 retrying>>

ReserveUnits(m) ==
  /\ stage[m] = "inserted"
  /\ CanReserve(m)
  /\ TakeUnits(m)
  /\ Advance(m, "reserved")
  /\ UNCHANGED <<status, units, parent, overdue, delivered, listed, retrying>>

RefuseForCredits(m) ==
  /\ stage[m] = "inserted"
  /\ ~CanReserve(m)
  /\ status' = [status EXCEPT ![m] = "FAILED_INSUFFICIENT_CREDITS"]
  /\ Advance(m, "over")
  /\ UNCHANGED <<wallet, entries, units, parent, overdue, delivered, listed,
                 retrying>>

\* A separate update, after the transaction that took the units.
MarkReserved(m) ==
  /\ stage[m] = "reserved"
  /\ status' = [status EXCEPT ![m] = "RESERVED"]
  /\ Advance(m, "marked")
  /\ UNCHANGED <<wallet, entries, units, parent, overdue, delivered, listed,
                 retrying>>

\* Mutant: the row is marked and its units are forgotten.
BlockedKeepsUnits(m) ==
  /\ stage[m] = "marked"
  /\ status' = [status EXCEPT ![m] = "BLOCKED_PROVIDER_UNAVAILABLE"]
  /\ Advance(m, "over")
  /\ UNCHANGED <<wallet, entries, overdue, units, parent, delivered, listed, retrying>>

ProviderUnavailable(m) ==
  /\ stage[m] = "marked"
  /\ ReleaseReservation(m, "BLOCKED_PROVIDER_UNAVAILABLE")
  /\ Advance(m, "over")
  /\ UNCHANGED <<units, parent, delivered, listed, retrying>>

\* The provider call.  An ambiguous answer (a network error, a reply that
\* cannot be read) leaves open whether the message went out.
CallProvider(m, answer, sent) ==
  /\ stage[m] = "marked"
  /\ answer = "accepted" => sent
  /\ answer = "rejected" => ~sent
  /\ delivered' = [delivered EXCEPT ![m] = sent]
  /\ Advance(m, answer)
  /\ UNCHANGED <<wallet, entries, status, units, parent, overdue, listed,
                 retrying>>

\* settleAcceptedReservation reads no message status.
Settle(m) ==
  /\ stage[m] = "accepted"
  /\ DebitUnits(m)
  /\ status' = [status EXCEPT ![m] = "PROVIDER_ACCEPTED"]
  /\ overdue' = [overdue EXCEPT ![m] = FALSE]
  /\ Advance(m, "over")
  /\ UNCHANGED <<units, parent, delivered, listed, retrying>>

ReleaseRejected(m) ==
  /\ stage[m] = "rejected"
  /\ ReleaseReservation(m, "PROVIDER_FAILED")
  /\ Advance(m, "over")
  /\ UNCHANGED <<units, parent, delivered, listed, retrying>>

\* Mutant: an ambiguous answer is booked like a rejection.
UncertainAsRejected(m) ==
  /\ stage[m] = "ambiguous"
  /\ ReleaseReservation(m, "PROVIDER_FAILED")
  /\ Advance(m, "over")
  /\ UNCHANGED <<units, parent, delivered, listed, retrying>>

\* An unconditional update, with a new expiry.
HoldUncertain(m) ==
  /\ stage[m] = "ambiguous"
  /\ status' = [status EXCEPT ![m] = "PROVIDER_UNCERTAIN"]
  /\ overdue' = [overdue EXCEPT ![m] = FALSE]
  /\ Advance(m, "over")
  /\ UNCHANGED <<wallet, entries, units, parent, delivered, listed, retrying>>

\* The process stops, or a database call throws.
RequestDies(m) ==
  /\ stage[m] \in Running
  /\ Advance(m, "over")
  /\ UNCHANGED <<wallet, entries, status, units, parent, overdue, delivered,
                 listed, retrying>>

-----------------------------------------------------------------------------
(* The cron job, and the passing of time it looks at.                      *)

HoldExpires(m) ==
  /\ status[m] \in Holding
  /\ ~overdue[m]
  /\ SendOutlivesHold \/ stage[m] \notin Running
  /\ overdue' = [overdue EXCEPT ![m] = TRUE]
  /\ UNCHANGED <<wallet, entries, status, units, parent, stage, delivered,
                 listed, retrying>>

\* Mutants: the expiry is not compared; uncertain rows are not listed.
StaleAtOnce == {m \in Messages : status[m] \in Holding}
StaleReservedOnly == {m \in Messages : status[m] = "RESERVED" /\ overdue[m]}

\* The rows the cron lists; its limit of 100 rows is left out.
Stale == {m \in Messages : status[m] \in Holding /\ overdue[m]}

ListStale ==
  /\ ~(Stale \subseteq listed)
  /\ listed' = listed \cup Stale
  /\ UNCHANGED <<wallet, entries, status, units, parent, overdue, stage,
                 delivered, retrying>>

ReleaseListed(m) ==
  /\ m \in listed
  /\ ReleaseReservation(m, "RELEASED")
  /\ listed' = listed \ {m}
  /\ UNCHANGED <<units, parent, stage, delivered, retrying>>

\* A row's release fails, or the process stops: the row is left for a later run.
ReleaseFails(m) ==
  /\ m \in listed
  /\ listed' = listed \ {m}
  /\ UNCHANGED <<wallet, entries, status, units, parent, overdue, stage,
                 delivered, retrying>>

-----------------------------------------------------------------------------
(* Retrying by hand: the checks read the rows, the insert comes later.     *)

HasActiveChild(p) ==
  \E c \in Messages : parent[c] = p /\ status[c] \in Active

CheckRetry(p) ==
  /\ p \notin retrying
  /\ status[p] \in Retryable
  /\ ~HasActiveChild(p)
  /\ retrying' = retrying \cup {p}
  /\ UNCHANGED <<wallet, entries, status, units, parent, overdue, stage,
                 delivered, listed>>

\* The key retry_<id>_<n> is unique and n follows from the parent, so a
\* second attempt on the same parent finds the first one and inserts nothing.
StartRetry(p, c, u) ==
  /\ p \in retrying
  /\ \A other \in Messages : parent[other] # p
  /\ Insert(c, u, p)
  /\ retrying' = retrying \ {p}

RetryFindsKey(p) ==
  /\ p \in retrying
  /\ \E other \in Messages : parent[other] = p
  /\ retrying' = retrying \ {p}
  /\ UNCHANGED <<wallet, entries, status, units, parent, overdue, stage,
                 delivered, listed>>

-----------------------------------------------------------------------------
Request(m) ==
  \/ \E u \in Segments : StartSend(m, u)
  \/ InvalidPhone(m)
  \/ ReserveUnits(m)
  \/ RefuseForCredits(m)
  \/ MarkReserved(m)
  \/ ProviderUnavailable(m)
  \/ \E answer \in Answers, sent \in BOOLEAN : CallProvider(m, answer, sent)
  \/ Settle(m)
  \/ ReleaseRejected(m)
  \/ HoldUncertain(m)
  \/ RequestDies(m)

Cron(m) ==
  \/ HoldExpires(m)
  \/ ReleaseListed(m)
  \/ ReleaseFails(m)

Retry(m) ==
  \/ CheckRetry(m)
  \/ \E c \in Messages, u \in Segments : StartRetry(m, c, u)
  \/ RetryFindsKey(m)

Next ==
  \/ \E u \in TopUps : TopUp(u)
  \/ ListStale
  \/ \E m \in Messages : Request(m) \/ Cron(m) \/ Retry(m)

\* A request that is not cut off goes on; time passes; the cron runs every
\* five minutes and its release of a row does not fail for ever.
Fairness ==
  /\ \A m \in Messages : /\ WF_vars(HoldExpires(m))
                         /\ SF_vars(ReleaseListed(m))
                         /\ WF_vars(MarkReserved(m) \/ RequestDies(m))
                         /\ WF_vars(\/ Settle(m) \/ ReleaseRejected(m)
                                    \/ HoldUncertain(m) \/ RequestDies(m))
                         /\ WF_vars(\/ ProviderUnavailable(m) \/ RequestDies(m)
                                    \/ \E a \in Answers, sent \in BOOLEAN :
                                         CallProvider(m, a, sent))
  /\ WF_vars(ListStale)

Spec == Init /\ [][Next]_vars
FairSpec == Spec /\ Fairness
-----------------------------------------------------------------------------
(* Properties.                                                             *)

Counts == [reserve : Nat, release : Nat, debit : Nat]

\* The shape of the state.
TypeOK ==
  /\ availableUnits \in Int /\ reservedUnits \in Int
  /\ lifetimePurchased \in Nat /\ lifetimeUsed \in Nat
  /\ entries \in [Messages -> Counts]
  /\ status \in [Messages -> Status]
  /\ units \in [Messages -> Nat]
  /\ parent \in [Messages -> Messages \cup {NoMessage}]
  /\ overdue \in [Messages -> BOOLEAN]
  /\ stage \in [Messages -> Stages]
  /\ delivered \in [Messages -> BOOLEAN]
  /\ listed \subseteq Messages
  /\ retrying \subseteq Messages

\* Units are only moved between the two balances and the used total, never
\* made or lost, whatever dies or is late (sms-wallet-math.ts, reconciles).
WalletReconciles ==
  availableUnits + reservedUnits + lifetimeUsed = lifetimePurchased

\* What the ledger says of a message: units taken and not yet returned or used.
OpenEntries(m) == entries[m].reserve - entries[m].release - entries[m].debit

\* The units the ledger shows open, message by message.
OpenUnits == [m \in Messages |-> units[m] * OpenEntries(m)]

\* The wallet's reservedUnits are the units of the messages whose reservation
\* the ledger still shows open: no release or debit ever acts on another
\* message's units, and no balance goes below zero.
ReservedMatchesLedger ==
  /\ reservedUnits = SumFunctionOnSet(OpenUnits, Messages)
  /\ reservedUnits >= 0
  /\ availableUnits >= 0

\* A row that says it holds units holds them exactly once, a row in a final
\* status holds none, and it was charged exactly if it was accepted, however
\* the request, the cron and a crash interleave.
StatusMatchesLedger ==
  \A m \in Messages :
    /\ status[m] \in Holding => OpenEntries(m) = 1
    /\ status[m] \in Retryable \cup {"PROVIDER_ACCEPTED"} => OpenEntries(m) = 0
    /\ entries[m].debit = (IF status[m] = "PROVIDER_ACCEPTED" THEN 1 ELSE 0)

\* While one attempt of a message is still under way or in doubt, no later
\* attempt of it is: a retry never races the attempt it repeats.
OneLiveAttempt ==
  \A c \in Messages :
    (parent[c] # NoMessage /\ status[c] \in Active) => status[parent[c]] \notin Active

Ended(m) == stage[m] = "over" /\ status[m] # "PENDING_VALIDATION"
InDoubt(m) == status[m] \in Holding \cup {"RELEASED"}

\* A message reaches the phone without a charge, or is sent again after it has
\* reached the phone, only if its attempt ended in doubt: an ambiguous answer,
\* or a request that died after the provider call.
FreeOrRepeatedOnlyInDoubt ==
  \A m \in Messages : delivered[m] =>
    /\ Ended(m) => (status[m] = "PROVIDER_ACCEPTED" \/ InDoubt(m))
    /\ (\E c \in Messages : parent[c] = m) => status[m] = "RELEASED"

\* A settled message stays settled: neither a late cron release nor any other
\* write takes it back to a status that returns units or can be retried.
AcceptedIsFinal ==
  [][\A m \in Messages :
       status[m] = "PROVIDER_ACCEPTED" => status'[m] = "PROVIDER_ACCEPTED"]_vars

\* A reservation a row shows is settled or returned in the end.
HoldsAreResolved ==
  \A m \in Messages : status[m] \in Holding ~> OpenEntries(m) = 0

\* Units taken for a message are in the end charged or returned, also when
\* the request fails before the provider is called ("Control #8 - failed
\* pre-submission releases reserved units").
ReservedUnitsComeBack ==
  \A m \in Messages : OpenEntries(m) = 1 ~> OpenEntries(m) = 0

\* The wallet seen from outside: one hold per message, then one end of it.
Account(m) ==
  IF entries[m].debit > 0 THEN "charged"
  ELSE IF entries[m].release > 0 THEN "returned"
  ELSE IF entries[m].reserve > 0 THEN "held" ELSE "none"

Promise == INSTANCE PrepaidHold WITH
  balance <- availableUnits,
  account <- [m \in Messages |-> Account(m)],
  price <- units

\* Every behaviour of the service is one the abstract wallet allows: a message
\* is charged at most once, returned at most once, and never both.
ImplementsPromise == Promise!Spec
=============================================================================
