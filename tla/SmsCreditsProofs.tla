-------------------------- MODULE SmsCreditsProofs --------------------------
(***************************************************************************)
(* Proofs about SmsCredits, for any number of messages and any sizes.      *)
(*                                                                         *)
(* What does not depend on time is proved for every value of               *)
(* SendOutlivesHold: the state keeps its shape, the units reconcile, an    *)
(* accepted message stays accepted.  The rest needs a provider call to end *)
(* before its reservation expires, and rests on LifeCycle: what each stage *)
(* of a request means for the row and for the ledger.  The sum of what the *)
(* ledger shows open follows each step by the lemmas of SumTheorems.       *)
(***************************************************************************)
EXTENDS SmsCredits, SumTheorems

\* The wallet row is only a name for its four columns.
USE DEF wallet

-----------------------------------------------------------------------------
(* Type correctness.                                                       *)

\* A ledger entry of any type leaves a record of counts.
LEMMA EntriesType ==
  ASSUME TypeOK, NEW m \in Messages
  PROVE  /\ [entries EXCEPT ![m].reserve = @ + 1] \in [Messages -> Counts]
         /\ [entries EXCEPT ![m].release = @ + 1] \in [Messages -> Counts]
         /\ [entries EXCEPT ![m].debit = @ + 1] \in [Messages -> Counts]
<1>1. entries \in [Messages -> Counts] /\ entries[m] \in Counts
  BY DEF TypeOK
<1>2. /\ [entries[m] EXCEPT !.reserve = @ + 1] \in Counts
      /\ [entries[m] EXCEPT !.release = @ + 1] \in Counts
      /\ [entries[m] EXCEPT !.debit = @ + 1] \in Counts
  BY <1>1 DEF Counts
<1>3. QED BY <1>1, <1>2

\* A release of a reservation keeps the shape of what it writes.
LEMMA ReleaseType ==
  ASSUME TypeOK, NEW m \in Messages, NEW final \in Status,
         ReleaseReservation(m, final)
  PROVE  /\ availableUnits' \in Int /\ reservedUnits' \in Int
         /\ lifetimePurchased' \in Nat /\ lifetimeUsed' \in Nat
         /\ entries' \in [Messages -> Counts]
         /\ status' \in [Messages -> Status]
         /\ overdue' \in [Messages -> BOOLEAN]
<1>1. CASE AlreadyReleased(m, final)
  BY <1>1 DEF ReleaseReservation, TypeOK
<1>2. CASE ~AlreadyReleased(m, final)
  <2>1. /\ status' = [status EXCEPT ![m] = final]
        /\ overdue' = [overdue EXCEPT ![m] = FALSE]
        /\ IF status[m] \in Holding
           THEN ReturnUnits(m)
           ELSE UNCHANGED <<wallet, entries>>
    BY <1>2 DEF ReleaseReservation
  <2>2. CASE status[m] \in Holding
    <3>1. entries' \in [Messages -> Counts]
      BY <2>1, <2>2, EntriesType DEF ReturnUnits
    <3>2. QED
      BY <2>1, <2>2, <3>1 DEF TypeOK, ReturnUnits
  <2>3. CASE status[m] \notin Holding
    BY <2>1, <2>3 DEF TypeOK
  <2>4. QED BY <2>2, <2>3
<1>3. QED BY <1>1, <1>2

\* The state has its type: the counters of the ledger and the used total are
\* never negative, every status written is one the schema knows.
THEOREM TypeCorrect == Spec => []TypeOK
<1>1. Init => TypeOK
  BY DEF Init, TypeOK, Counts, NoEntries, Status, Active, Holding, Stages
<1>2. TypeOK /\ [Next]_vars => TypeOK'
  <2> SUFFICES ASSUME TypeOK, [Next]_vars PROVE TypeOK'
    OBVIOUS
  <2>1. ASSUME NEW u \in TopUps, TopUp(u) PROVE TypeOK'
    BY <2>1, TopUpsAssumption DEF TypeOK, TopUp
  <2>2. ASSUME ListStale PROVE TypeOK'
    BY <2>2 DEF TypeOK, ListStale, Stale
  <2>3. ASSUME NEW m \in Messages, Request(m) PROVE TypeOK'
    <3>1. ASSUME NEW u \in Segments, StartSend(m, u) PROVE TypeOK'
      BY <3>1, SegmentsAssumption
         DEF TypeOK, StartSend, Insert, Advance, Status, Active, Stages, Running
    <3>2. ASSUME InvalidPhone(m) PROVE TypeOK'
      BY <3>2 DEF TypeOK, InvalidPhone, Advance, Status, Retryable, Stages
    <3>3. ASSUME ReserveUnits(m) PROVE TypeOK'
      <4>1. entries' \in [Messages -> Counts]
        BY <3>3, EntriesType DEF ReserveUnits, TakeUnits
      <4>2. QED
        BY <3>3, <4>1 DEF TypeOK, ReserveUnits, TakeUnits, Advance, Stages, Running
    <3>4. ASSUME RefuseForCredits(m) PROVE TypeOK'
      BY <3>4 DEF TypeOK, RefuseForCredits, Advance, Status, Retryable, Stages
    <3>5. ASSUME MarkReserved(m) PROVE TypeOK'
      BY <3>5 DEF TypeOK, MarkReserved, Advance, Status, Active, Holding, Stages, Running
    <3>6. ASSUME ProviderUnavailable(m) PROVE TypeOK'
      <4>1. "BLOCKED_PROVIDER_UNAVAILABLE" \in Status
        BY DEF Status, Retryable
      <4>2. QED
        BY <3>6, <4>1, ReleaseType DEF TypeOK, ProviderUnavailable, Advance, Stages
    <3>7. ASSUME NEW a \in Answers, NEW sent \in BOOLEAN, CallProvider(m, a, sent)
          PROVE TypeOK'
      BY <3>7 DEF TypeOK, CallProvider, Advance, Stages, Running
    <3>8. ASSUME Settle(m) PROVE TypeOK'
      <4>1. entries' \in [Messages -> Counts]
        BY <3>8, EntriesType DEF Settle, DebitUnits
      <4>2. QED
        BY <3>8, <4>1 DEF TypeOK, Settle, DebitUnits, Advance, Status, Stages
    <3>9. ASSUME ReleaseRejected(m) PROVE TypeOK'
      <4>1. "PROVIDER_FAILED" \in Status
        BY DEF Status, Retryable
      <4>2. QED
        BY <3>9, <4>1, ReleaseType DEF TypeOK, ReleaseRejected, Advance, Stages
    <3>10. ASSUME HoldUncertain(m) PROVE TypeOK'
      BY <3>10 DEF TypeOK, HoldUncertain, Advance, Status, Active, Holding, Stages
    <3>11. ASSUME RequestDies(m) PROVE TypeOK'
      BY <3>11 DEF TypeOK, RequestDies, Advance, Stages
    <3>12. QED
      BY <2>3, <3>1, <3>2, <3>3, <3>4, <3>5, <3>6, <3>7, <3>8, <3>9, <3>10, <3>11
         DEF Request
  <2>4. ASSUME NEW m \in Messages, Cron(m) PROVE TypeOK'
    <3>1. ASSUME HoldExpires(m) PROVE TypeOK'
      BY <3>1 DEF TypeOK, HoldExpires
    <3>2. ASSUME ReleaseListed(m) PROVE TypeOK'
      <4>1. "RELEASED" \in Status
        BY DEF Status, Retryable
      <4>2. QED
        BY <3>2, <4>1, ReleaseType DEF TypeOK, ReleaseListed
    <3>3. ASSUME ReleaseFails(m) PROVE TypeOK'
      BY <3>3 DEF TypeOK, ReleaseFails
    <3>4. QED BY <2>4, <3>1, <3>2, <3>3 DEF Cron
  <2>5. ASSUME NEW p \in Messages, Retry(p) PROVE TypeOK'
    <3>1. ASSUME CheckRetry(p) PROVE TypeOK'
      BY <3>1 DEF TypeOK, CheckRetry
    <3>2. ASSUME NEW c \in Messages, NEW u \in Segments, StartRetry(p, c, u)
          PROVE TypeOK'
      BY <3>2, SegmentsAssumption
         DEF TypeOK, StartRetry, Insert, Advance, Status, Active, Stages, Running
    <3>3. ASSUME RetryFindsKey(p) PROVE TypeOK'
      BY <3>3 DEF TypeOK, RetryFindsKey
    <3>4. QED BY <2>5, <3>1, <3>2, <3>3 DEF Retry
  <2>6. ASSUME UNCHANGED vars PROVE TypeOK'
    BY <2>6 DEF TypeOK, vars
  <2>7. QED BY <2>1, <2>2, <2>3, <2>4, <2>5, <2>6 DEF Next
<1>3. QED BY <1>1, <1>2, PTL DEF Spec

-----------------------------------------------------------------------------
(* The units reconcile.                                                    *)

\* Returning units moves them between the two balances.
LEMMA ReleaseReconciles ==
  ASSUME TypeOK, WalletReconciles, NEW m \in Messages, NEW final,
         ReleaseReservation(m, final)
  PROVE  WalletReconciles'
BY DEF TypeOK, WalletReconciles, ReleaseReservation, ReturnUnits

\* Available, reserved and used units add up to the units ever bought in every state, whatever dies and
\* however late a provider answers.
THEOREM Reconciled == Spec => []WalletReconciles
<1>1. Init => WalletReconciles
  BY DEF Init, WalletReconciles
<1>2. TypeOK /\ WalletReconciles /\ [Next]_vars => WalletReconciles'
  <2> SUFFICES ASSUME TypeOK, WalletReconciles, [Next]_vars
               PROVE  WalletReconciles'
    OBVIOUS
  <2>1. ASSUME NEW u \in TopUps, TopUp(u) PROVE WalletReconciles'
    BY <2>1, TopUpsAssumption DEF TypeOK, WalletReconciles, TopUp
  <2>2. ASSUME UNCHANGED wallet PROVE WalletReconciles'
    BY <2>2 DEF WalletReconciles
  <2>3. ASSUME NEW m \in Messages, Request(m) PROVE WalletReconciles'
    <3>1. CASE ReserveUnits(m)
      BY <3>1 DEF TypeOK, WalletReconciles, ReserveUnits, TakeUnits
    <3>2. CASE ProviderUnavailable(m)
      BY <3>2, ReleaseReconciles DEF ProviderUnavailable
    <3>3. CASE Settle(m)
      BY <3>3 DEF TypeOK, WalletReconciles, Settle, DebitUnits
    <3>4. CASE ReleaseRejected(m)
      BY <3>4, ReleaseReconciles DEF ReleaseRejected
    <3>5. QED
      BY <2>2, <2>3, <3>1, <3>2, <3>3, <3>4
         DEF Request, StartSend, Insert, InvalidPhone, RefuseForCredits,
             MarkReserved, CallProvider, HoldUncertain, RequestDies
  <2>4. ASSUME NEW m \in Messages, Cron(m) PROVE WalletReconciles'
    <3>1. CASE ReleaseListed(m)
      BY <3>1, ReleaseReconciles DEF ReleaseListed
    <3>2. QED BY <2>2, <2>4, <3>1 DEF Cron, HoldExpires, ReleaseFails
  <2>5. QED
    BY <2>1, <2>2, <2>3, <2>4
       DEF Next, ListStale, Retry, CheckRetry, StartRetry, Insert, RetryFindsKey, vars
<1>3. QED BY <1>1, <1>2, TypeCorrect, PTL DEF Spec
-----------------------------------------------------------------------------
(* The life of a message, when no provider call outlasts its reservation.  *)

\* What the ledger holds of a message.
Booked(m, r, x, d) == entries[m] = [reserve |-> r, release |-> x, debit |-> d]

\* What a stage of the request, and a status once the request is over, say of
\* the ledger.  A request that died after it took the units and before it
\* marked the row is the second disjunct of the first line.
RunningInv(m) ==
  /\ status[m] = "ABSENT" <=> stage[m] = "none"
  /\ stage[m] = "none" => Booked(m, 0, 0, 0)
  /\ stage[m] = "inserted" => status[m] = "PENDING_VALIDATION" /\ Booked(m, 0, 0, 0)
  /\ stage[m] = "reserved" => status[m] = "PENDING_VALIDATION" /\ Booked(m, 1, 0, 0)
  /\ stage[m] \in {"marked"} \cup Answers => status[m] = "RESERVED" /\ Booked(m, 1, 0, 0)

OverInv(m) ==
  stage[m] = "over" =>
    \/ status[m] = "PENDING_VALIDATION" /\ (Booked(m, 0, 0, 0) \/ Booked(m, 1, 0, 0))
    \/ status[m] \in Holding /\ Booked(m, 1, 0, 0)
    \/ status[m] = "PROVIDER_ACCEPTED" /\ Booked(m, 1, 0, 1)
    \/ /\ status[m] \in {"PROVIDER_FAILED", "BLOCKED_PROVIDER_UNAVAILABLE", "RELEASED"}
       /\ Booked(m, 1, 1, 0)
    \/ /\ status[m] \in {"FAILED_VALIDATION", "FAILED_INSUFFICIENT_CREDITS"}
       /\ Booked(m, 0, 0, 0)

\* The cron only ever sees requests that are over and rows that still hold.
CronInv(m) ==
  overdue[m] \/ m \in listed => stage[m] = "over" /\ status[m] \in Holding

DeliveredInv(m) ==
  delivered[m] =>
    \/ stage[m] \in {"accepted", "ambiguous"}
    \/ stage[m] = "over" /\ status[m] \in {"PROVIDER_ACCEPTED", "RELEASED"} \cup Holding

MessageInv(m) == RunningInv(m) /\ OverInv(m) /\ CronInv(m) /\ DeliveredInv(m)

LifeCycle == \A m \in Messages : MessageInv(m)

\* A step leaves alone all that the life cycle says of message n.
Untouched(n) ==
  /\ entries'[n] = entries[n] /\ status'[n] = status[n]
  /\ overdue'[n] = overdue[n] /\ stage'[n] = stage[n]
  /\ delivered'[n] = delivered[n]
  /\ n \in listed' => n \in listed

LEMMA UntouchedKeeps ==
  ASSUME NEW n \in Messages, MessageInv(n), Untouched(n)
  PROVE  MessageInv(n)'
BY DEF MessageInv, RunningInv, OverInv, CronInv, DeliveredInv, Booked, Untouched

\* How a ledger entry changes what is booked.
LEMMA BookedSteps ==
  ASSUME TypeOK, NEW m \in Messages
  PROVE  /\ Booked(m, 0, 0, 0) /\ TakeUnits(m) => Booked(m, 1, 0, 0)'
         /\ Booked(m, 1, 0, 0) /\ ReturnUnits(m) => Booked(m, 1, 1, 0)'
         /\ Booked(m, 1, 0, 0) /\ DebitUnits(m) => Booked(m, 1, 0, 1)'
BY DEF TypeOK, Booked, TakeUnits, ReturnUnits, DebitUnits

\* A release of a row that holds its units returns them and ends the hold.
LEMMA ReleaseOfHold ==
  ASSUME TypeOK, NEW m \in Messages, status[m] \in Holding, Booked(m, 1, 0, 0),
         NEW final \in {"PROVIDER_FAILED", "BLOCKED_PROVIDER_UNAVAILABLE", "RELEASED"},
         ReleaseReservation(m, final)
  PROVE  /\ status' = [status EXCEPT ![m] = final]
         /\ overdue' = [overdue EXCEPT ![m] = FALSE]
         /\ ReturnUnits(m)
         /\ Booked(m, 1, 1, 0)'
<1>1. ~AlreadyReleased(m, final)
  BY DEF AlreadyReleased, Holding
<1>2. /\ status' = [status EXCEPT ![m] = final]
      /\ overdue' = [overdue EXCEPT ![m] = FALSE]
      /\ ReturnUnits(m)
  BY <1>1 DEF ReleaseReservation
<1>3. QED BY <1>2, BookedSteps

\* The life cycle is inductive.
LEMMA LifeCycleStep ==
  ASSUME ~SendOutlivesHold, TypeOK, LifeCycle, [Next]_vars
  PROVE  LifeCycle'
<1> USE DEF MessageInv
<1>1. SUFFICES ASSUME NEW n \in Messages PROVE MessageInv(n)'
  BY DEF LifeCycle
<1>2. MessageInv(n)
  BY DEF LifeCycle
<1>3. ASSUME NEW u \in TopUps, TopUp(u) PROVE MessageInv(n)'
  BY <1>2, <1>3, UntouchedKeeps DEF TopUp, Untouched
<1>4. ASSUME ListStale PROVE MessageInv(n)'
  BY <1>2, <1>4
     DEF ListStale, Stale, RunningInv, OverInv, CronInv, DeliveredInv, Booked
<1>5. ASSUME NEW m \in Messages, Request(m) PROVE MessageInv(n)'
  <2>1. CASE n # m
    <3>1. Untouched(n)
      BY <1>5, <2>1
         DEF TypeOK, Request, StartSend, Insert, InvalidPhone, ReserveUnits, TakeUnits,
             RefuseForCredits, MarkReserved, ProviderUnavailable, CallProvider,
             Settle, DebitUnits, ReleaseRejected, HoldUncertain, RequestDies,
             ReleaseReservation, ReturnUnits, Advance, Untouched
    <3>2. QED BY <1>2, <3>1, UntouchedKeeps
  <2>2. CASE n = m
    <3>1. ASSUME NEW u \in Segments, StartSend(m, u) PROVE MessageInv(m)'
      BY <1>2, <2>2, <3>1
         DEF TypeOK, StartSend, Insert, Advance, RunningInv, OverInv, CronInv,
             DeliveredInv, Booked, Holding, Answers
    <3>2. ASSUME InvalidPhone(m) PROVE MessageInv(m)'
      BY <1>2, <2>2, <3>2
         DEF TypeOK, InvalidPhone, Advance, RunningInv, OverInv, CronInv,
             DeliveredInv, Booked, Holding, Answers
    <3>3. ASSUME ReserveUnits(m) PROVE MessageInv(m)'
      <4>1. Booked(m, 1, 0, 0)'
        BY <1>2, <2>2, <3>3, BookedSteps DEF ReserveUnits, RunningInv
      <4>2. QED
        BY <1>2, <2>2, <3>3, <4>1
           DEF TypeOK, ReserveUnits, Advance, RunningInv, OverInv, CronInv,
               DeliveredInv, Holding, Answers
    <3>4. ASSUME RefuseForCredits(m) PROVE MessageInv(m)'
      BY <1>2, <2>2, <3>4
         DEF TypeOK, RefuseForCredits, Advance, RunningInv, OverInv, CronInv,
             DeliveredInv, Booked, Holding, Answers
    <3>5. ASSUME MarkReserved(m) PROVE MessageInv(m)'
      BY <1>2, <2>2, <3>5
         DEF TypeOK, MarkReserved, Advance, RunningInv, OverInv, CronInv,
             DeliveredInv, Booked, Holding, Answers
    <3>6. ASSUME ProviderUnavailable(m) PROVE MessageInv(m)'
      <4>1. /\ status' = [status EXCEPT ![m] = "BLOCKED_PROVIDER_UNAVAILABLE"]
            /\ overdue' = [overdue EXCEPT ![m] = FALSE]
            /\ Booked(m, 1, 1, 0)'
        BY <1>2, <2>2, <3>6, ReleaseOfHold DEF ProviderUnavailable, RunningInv, Holding
      <4>2. QED
        BY <1>2, <2>2, <3>6, <4>1
           DEF TypeOK, ProviderUnavailable, Advance, RunningInv, OverInv, CronInv,
               DeliveredInv, Holding, Answers
    <3>7. ASSUME NEW a \in Answers, NEW sent \in BOOLEAN, CallProvider(m, a, sent)
          PROVE  MessageInv(m)'
      BY <1>2, <2>2, <3>7
         DEF TypeOK, CallProvider, Advance, RunningInv, OverInv, CronInv,
             DeliveredInv, Booked, Holding, Answers
    <3>8. ASSUME Settle(m) PROVE MessageInv(m)'
      <4>1. Booked(m, 1, 0, 1)'
        BY <1>2, <2>2, <3>8, BookedSteps DEF Settle, RunningInv, Answers
      <4>2. QED
        BY <1>2, <2>2, <3>8, <4>1
           DEF TypeOK, Settle, Advance, RunningInv, OverInv, CronInv,
               DeliveredInv, Holding, Answers
    <3>9. ASSUME ReleaseRejected(m) PROVE MessageInv(m)'
      <4>1. /\ status' = [status EXCEPT ![m] = "PROVIDER_FAILED"]
            /\ overdue' = [overdue EXCEPT ![m] = FALSE]
            /\ Booked(m, 1, 1, 0)'
        BY <1>2, <2>2, <3>9, ReleaseOfHold
           DEF ReleaseRejected, RunningInv, Holding, Answers
      <4>2. QED
        BY <1>2, <2>2, <3>9, <4>1
           DEF TypeOK, ReleaseRejected, Advance, RunningInv, OverInv, CronInv,
               DeliveredInv, Holding, Answers
    <3>10. ASSUME HoldUncertain(m) PROVE MessageInv(m)'
      BY <1>2, <2>2, <3>10
         DEF TypeOK, HoldUncertain, Advance, RunningInv, OverInv, CronInv,
             DeliveredInv, Booked, Holding, Answers
    <3>11. ASSUME RequestDies(m) PROVE MessageInv(m)'
      BY <1>2, <2>2, <3>11
         DEF TypeOK, RequestDies, Advance, Running, RunningInv, OverInv, CronInv,
             DeliveredInv, Booked, Holding, Answers
    <3>12. QED
      BY <1>5, <2>2, <3>1, <3>2, <3>3, <3>4, <3>5, <3>6, <3>7, <3>8, <3>9, <3>10,
         <3>11 DEF Request
  <2>3. QED BY <2>1, <2>2
<1>6. ASSUME NEW m \in Messages, Cron(m) PROVE MessageInv(n)'
  <2>1. CASE HoldExpires(m)
    BY <1>2, <2>1
       DEF TypeOK, HoldExpires, RunningInv, OverInv, CronInv, DeliveredInv, Booked,
           Running, Holding, Stages
  <2>2. CASE ReleaseListed(m)
    <3>1. CASE n # m
      <4>1. Untouched(n)
        BY <2>2, <3>1 DEF TypeOK, ReleaseListed, ReleaseReservation, ReturnUnits, Untouched
      <4>2. QED BY <1>2, <4>1, UntouchedKeeps
    <3>2. CASE n = m
      <4>1. status[m] \in Holding /\ stage[m] = "over" /\ Booked(m, 1, 0, 0)
        BY <1>2, <2>2, <3>2 DEF ReleaseListed, CronInv, OverInv, Holding
      <4>2. /\ status' = [status EXCEPT ![m] = "RELEASED"]
            /\ overdue' = [overdue EXCEPT ![m] = FALSE]
            /\ Booked(m, 1, 1, 0)'
        BY <2>2, <4>1, ReleaseOfHold DEF ReleaseListed
      <4>3. QED
        BY <1>2, <2>2, <3>2, <4>1, <4>2
           DEF TypeOK, ReleaseListed, RunningInv, OverInv, CronInv, DeliveredInv,
               Holding, Answers
    <3>3. QED BY <3>1, <3>2
  <2>3. CASE ReleaseFails(m)
    BY <1>2, <2>3, UntouchedKeeps DEF ReleaseFails, Untouched
  <2>4. QED BY <1>6, <2>1, <2>2, <2>3 DEF Cron
<1>7. ASSUME NEW p \in Messages, Retry(p) PROVE MessageInv(n)'
  <2>1. ASSUME NEW c \in Messages, NEW u \in Segments, StartRetry(p, c, u)
        PROVE  MessageInv(n)'
    <3>1. CASE n # c
      BY <1>2, <2>1, <3>1, UntouchedKeeps
         DEF TypeOK, StartRetry, Insert, Advance, Untouched
    <3>2. CASE n = c
      BY <1>2, <2>1, <3>2
         DEF TypeOK, StartRetry, Insert, Advance, RunningInv, OverInv, CronInv,
             DeliveredInv, Booked, Holding, Answers
    <3>3. QED BY <3>1, <3>2
  <2>2. CASE CheckRetry(p)
    BY <1>2, <2>2, UntouchedKeeps DEF CheckRetry, Untouched
  <2>3. CASE RetryFindsKey(p)
    BY <1>2, <2>3, UntouchedKeeps DEF RetryFindsKey, Untouched
  <2>4. QED BY <1>7, <2>1, <2>2, <2>3 DEF Retry
<1>8. ASSUME UNCHANGED vars PROVE MessageInv(n)'
  BY <1>2, <1>8, UntouchedKeeps DEF vars, Untouched
<1>9. QED BY <1>3, <1>4, <1>5, <1>6, <1>7, <1>8 DEF Next
-----------------------------------------------------------------------------
(* Consequences of the life cycle.                                         *)

LEMMA InitLifeCycle == Init => LifeCycle
BY DEF Init, LifeCycle, MessageInv, RunningInv, OverInv, CronInv, DeliveredInv,
       Booked, NoEntries, Answers

LEMMA LifeCycleHolds ==
  ASSUME ~SendOutlivesHold
  PROVE  Spec => []LifeCycle
<1>1. TypeOK /\ LifeCycle /\ [Next]_vars => LifeCycle'
  BY LifeCycleStep
<1>2. QED BY <1>1, InitLifeCycle, TypeCorrect, PTL DEF Spec

\* A row that shows a hold holds its units once, every other finished row holds
\* none, and a message is debited exactly if it was accepted.
THEOREM StatusAndLedgerAgree ==
  ASSUME ~SendOutlivesHold
  PROVE  Spec => []StatusMatchesLedger
<1>1. TypeOK /\ LifeCycle => StatusMatchesLedger
  <2> SUFFICES ASSUME TypeOK, LifeCycle, NEW m \in Messages
               PROVE  /\ status[m] \in Holding => OpenEntries(m) = 1
                      /\ status[m] \in Retryable \cup {"PROVIDER_ACCEPTED"}
                           => OpenEntries(m) = 0
                      /\ entries[m].debit =
                           (IF status[m] = "PROVIDER_ACCEPTED" THEN 1 ELSE 0)
    BY DEF StatusMatchesLedger
  <2>1. MessageInv(m)
    BY DEF LifeCycle
  <2>2. CASE stage[m] = "over"
    BY <2>1, <2>2 DEF MessageInv, OverInv, Booked, OpenEntries, Holding, Retryable
  <2>3. CASE stage[m] # "over"
    BY <2>1, <2>3
       DEF TypeOK, MessageInv, RunningInv, Booked, OpenEntries, Holding, Retryable,
           Stages, Running
  <2>4. QED BY <2>2, <2>3
<1>2. QED BY <1>1, LifeCycleHolds, TypeCorrect, PTL

\* A row whose attempt has failed for good keeps its status.
LEMMA RetryableStays ==
  ASSUME ~SendOutlivesHold, TypeOK, LifeCycle, [Next]_vars,
         NEW n \in Messages, status[n] \in Retryable
  PROVE  status'[n] = status[n]
<1>1. stage[n] = "over" /\ n \notin listed
  BY DEF TypeOK, LifeCycle, MessageInv, RunningInv, CronInv, Retryable, Holding,
         Stages, Running
<1>2. ASSUME NEW m \in Messages, Request(m) PROVE status'[n] = status[n]
  BY <1>1, <1>2
     DEF TypeOK, Request, StartSend, Insert, InvalidPhone, ReserveUnits,
         RefuseForCredits, MarkReserved, ProviderUnavailable, CallProvider,
         Settle, ReleaseRejected, HoldUncertain, RequestDies,
         ReleaseReservation, Retryable
<1>3. ASSUME NEW m \in Messages, Cron(m) PROVE status'[n] = status[n]
  BY <1>1, <1>3
     DEF TypeOK, Cron, HoldExpires, ReleaseListed, ReleaseReservation, ReleaseFails
<1>4. ASSUME NEW p \in Messages, Retry(p) PROVE status'[n] = status[n]
  BY <1>4 DEF TypeOK, Retry, CheckRetry, StartRetry, Insert, RetryFindsKey, Retryable
<1>5. QED
  BY <1>2, <1>3, <1>4 DEF Next, TopUp, ListStale, vars

\* The checks of a retry, made before the new row is inserted, still hold when
\* it is: a row that has an attempt after it, or is about to get one, has failed.
RetryInv ==
  /\ \A p \in retrying : status[p] \in Retryable
  /\ \A c \in Messages : parent[c] # NoMessage => status[parent[c]] \in Retryable

LEMMA RetryInvStep ==
  ASSUME ~SendOutlivesHold, TypeOK, LifeCycle, RetryInv, [Next]_vars
  PROVE  RetryInv'
<1>1. ASSUME NEW p \in Messages, status[p] \in Retryable
      PROVE  status'[p] \in Retryable
  BY <1>1, RetryableStays
<1>2. CASE UNCHANGED <<parent, retrying>>
  BY <1>1, <1>2 DEF RetryInv, TypeOK
<1>3. ASSUME NEW m \in Messages, NEW u \in Segments, StartSend(m, u)
      PROVE  RetryInv'
  BY <1>1, <1>3 DEF RetryInv, TypeOK, StartSend, Insert
<1>4. ASSUME NEW p \in Messages, CheckRetry(p) PROVE RetryInv'
  BY <1>1, <1>4 DEF RetryInv, TypeOK, CheckRetry
<1>5. ASSUME NEW p \in Messages, NEW c \in Messages, NEW u \in Segments,
             StartRetry(p, c, u)
      PROVE  RetryInv'
  BY <1>1, <1>5 DEF RetryInv, TypeOK, StartRetry, Insert
<1>6. ASSUME NEW p \in Messages, RetryFindsKey(p) PROVE RetryInv'
  BY <1>1, <1>6 DEF RetryInv, TypeOK, RetryFindsKey
<1>7. QED
  BY <1>2, <1>3, <1>4, <1>5, <1>6
     DEF Next, TopUp, ListStale, Request, InvalidPhone, ReserveUnits,
         RefuseForCredits, MarkReserved, ProviderUnavailable, CallProvider, Settle,
         ReleaseRejected, HoldUncertain, RequestDies, Cron, HoldExpires,
         ReleaseListed, ReleaseFails, Retry, vars

\* An attempt that is live or in doubt has no later attempt that is.
THEOREM RetriesNeverOverlap ==
  ASSUME ~SendOutlivesHold
  PROVE  Spec => []OneLiveAttempt
<1>1. Init => RetryInv
  BY DEF Init, RetryInv
<1>2. TypeOK /\ LifeCycle /\ RetryInv /\ [Next]_vars => RetryInv'
  BY RetryInvStep
<1>3. RetryInv => OneLiveAttempt
  BY DEF RetryInv, OneLiveAttempt, Retryable, Active, Holding
<1>4. QED BY <1>1, <1>2, <1>3, LifeCycleHolds, TypeCorrect, PTL DEF Spec

\* A message reaches a phone unpaid, or once more by a retry, only if the
\* answer to its attempt was in doubt.
THEOREM UnpaidOnlyInDoubt ==
  ASSUME ~SendOutlivesHold
  PROVE  Spec => []FreeOrRepeatedOnlyInDoubt
<1>1. Init => RetryInv
  BY DEF Init, RetryInv
<1>2. TypeOK /\ LifeCycle /\ RetryInv /\ [Next]_vars => RetryInv'
  BY RetryInvStep
<1>3. TypeOK /\ LifeCycle /\ RetryInv => FreeOrRepeatedOnlyInDoubt
  <2> SUFFICES ASSUME TypeOK, LifeCycle, RetryInv, NEW m \in Messages, delivered[m]
               PROVE  /\ Ended(m) => status[m] = "PROVIDER_ACCEPTED" \/ InDoubt(m)
                      /\ (\E c \in Messages : parent[c] = m) => status[m] = "RELEASED"
    BY DEF FreeOrRepeatedOnlyInDoubt
  <2>1. MessageInv(m)
    BY DEF LifeCycle
  <2>2. Ended(m) => status[m] = "PROVIDER_ACCEPTED" \/ InDoubt(m)
    BY <2>1 DEF MessageInv, DeliveredInv, Ended, InDoubt
  <2>3. ASSUME NEW c \in Messages, parent[c] = m PROVE status[m] = "RELEASED"
    <3>1. status[m] \in Retryable
      BY <2>3, NoMessageAssumption DEF RetryInv
    <3>2. QED
      BY <2>1, <3>1
         DEF MessageInv, RunningInv, DeliveredInv, Retryable, Holding, Answers
  <2>4. QED BY <2>2, <2>3
<1>4. QED BY <1>1, <1>2, <1>3, LifeCycleHolds, TypeCorrect, PTL DEF Spec

-----------------------------------------------------------------------------
(* Facts that hold however late a provider answers.                        *)

\* Only a request that is over has an accepted row.
AcceptedIsOver ==
  \A m \in Messages : status[m] = "PROVIDER_ACCEPTED" => stage[m] = "over"

\* One step keeps AcceptedIsOver, and an accepted row accepted.
LEMMA AcceptedStep ==
  ASSUME TypeOK, AcceptedIsOver, [Next]_vars, NEW n \in Messages
  PROVE  /\ status'[n] = "PROVIDER_ACCEPTED" => stage'[n] = "over"
         /\ status[n] = "PROVIDER_ACCEPTED" => status'[n] = "PROVIDER_ACCEPTED"
<1>1. status[n] = "PROVIDER_ACCEPTED" => stage[n] = "over"
  BY DEF AcceptedIsOver
<1>2. ASSUME NEW m \in Messages, Request(m)
      PROVE  /\ status'[n] = "PROVIDER_ACCEPTED" => stage'[n] = "over"
             /\ status[n] = "PROVIDER_ACCEPTED" => status'[n] = "PROVIDER_ACCEPTED"
  BY <1>1, <1>2
     DEF TypeOK, Request, StartSend, Insert, InvalidPhone, ReserveUnits,
         RefuseForCredits, MarkReserved, ProviderUnavailable, CallProvider,
         Settle, ReleaseRejected, HoldUncertain, RequestDies, Advance,
         ReleaseReservation, AlreadyReleased
<1>3. ASSUME NEW m \in Messages, Cron(m)
      PROVE  /\ status'[n] = "PROVIDER_ACCEPTED" => stage'[n] = "over"
             /\ status[n] = "PROVIDER_ACCEPTED" => status'[n] = "PROVIDER_ACCEPTED"
  BY <1>1, <1>3
     DEF TypeOK, Cron, HoldExpires, ReleaseListed, ReleaseReservation,
         AlreadyReleased, ReleaseFails
<1>4. ASSUME NEW p \in Messages, Retry(p)
      PROVE  /\ status'[n] = "PROVIDER_ACCEPTED" => stage'[n] = "over"
             /\ status[n] = "PROVIDER_ACCEPTED" => status'[n] = "PROVIDER_ACCEPTED"
  BY <1>1, <1>4 DEF TypeOK, Retry, CheckRetry, StartRetry, Insert, Advance, RetryFindsKey
<1>5. QED
  BY <1>1, <1>2, <1>3, <1>4 DEF Next, TopUp, ListStale, vars

\* No late release, retry or second answer takes an accepted message back.
THEOREM AcceptedStays == Spec => AcceptedIsFinal
<1>1. Init => AcceptedIsOver
  BY DEF Init, AcceptedIsOver
<1>2. TypeOK /\ AcceptedIsOver /\ [Next]_vars => AcceptedIsOver'
  BY AcceptedStep DEF AcceptedIsOver
<1>3. TypeOK /\ AcceptedIsOver /\ [Next]_vars =>
        [\A m \in Messages :
           status[m] = "PROVIDER_ACCEPTED" => status'[m] = "PROVIDER_ACCEPTED"]_vars
  BY AcceptedStep
<1>4. QED BY <1>1, <1>2, <1>3, TypeCorrect, PTL DEF Spec, AcceptedIsFinal

-----------------------------------------------------------------------------
(* The reserved units are what the ledger shows open.                      *)

\* What is booked of a message decides the units it holds.
LEMMA OpenUnitsOf ==
  ASSUME TypeOK, NEW m \in Messages
  PROVE  /\ Booked(m, 0, 0, 0) => OpenUnits[m] = 0
         /\ Booked(m, 1, 0, 0) => OpenUnits[m] = units[m]
         /\ Booked(m, 1, 1, 0) => OpenUnits[m] = 0
         /\ Booked(m, 1, 0, 1) => OpenUnits[m] = 0
<1>1. units[m] \in Nat
  BY DEF TypeOK
<1>2. \A k \in {0, 1} : OpenEntries(m) = k => OpenUnits[m] = units[m] * k
  BY DEF OpenUnits
<1>3. units[m] * 0 = 0 /\ units[m] * 1 = units[m]
  BY <1>1
<1>4. /\ Booked(m, 0, 0, 0) => OpenEntries(m) = 0
      /\ Booked(m, 1, 0, 0) => OpenEntries(m) = 1
      /\ Booked(m, 1, 1, 0) => OpenEntries(m) = 0
      /\ Booked(m, 1, 0, 1) => OpenEntries(m) = 0
  BY DEF Booked, OpenEntries
<1> QED
  BY <1>2, <1>3, <1>4

LEMMA OpenUnitsNext ==
  ASSUME TypeOK', NEW m \in Messages
  PROVE  /\ Booked(m, 0, 0, 0)' => OpenUnits'[m] = 0
         /\ Booked(m, 1, 0, 0)' => OpenUnits'[m] = units'[m]
         /\ Booked(m, 1, 1, 0)' => OpenUnits'[m] = 0
         /\ Booked(m, 1, 0, 1)' => OpenUnits'[m] = 0
<1>1. units'[m] \in Nat
  BY DEF TypeOK
<1>2. \A k \in {0, 1} : OpenEntries(m)' = k => OpenUnits'[m] = units'[m] * k
  BY DEF OpenUnits
<1>3. units'[m] * 0 = 0 /\ units'[m] * 1 = units'[m]
  BY <1>1
<1>4. /\ Booked(m, 0, 0, 0)' => OpenEntries(m)' = 0
      /\ Booked(m, 1, 0, 0)' => OpenEntries(m)' = 1
      /\ Booked(m, 1, 1, 0)' => OpenEntries(m)' = 0
      /\ Booked(m, 1, 0, 1)' => OpenEntries(m)' = 0
  BY DEF Booked, OpenEntries
<1> QED
  BY <1>2, <1>3, <1>4

\* No message holds a negative number of units.
LEMMA OpenUnitsNat ==
  ASSUME TypeOK, LifeCycle, NEW m \in Messages
  PROVE  OpenUnits[m] \in Nat
<1>1. \/ Booked(m, 0, 0, 0) \/ Booked(m, 1, 0, 0)
      \/ Booked(m, 1, 1, 0) \/ Booked(m, 1, 0, 1)
  <2>1. RunningInv(m) /\ OverInv(m) /\ stage[m] \in Stages
    BY DEF LifeCycle, MessageInv, TypeOK
  <2> QED
    BY <2>1 DEF RunningInv, OverInv, Stages, Running
<1>2. units[m] \in Nat
  BY DEF TypeOK
<1> QED
  BY <1>1, <1>2, OpenUnitsOf

OpenTotal == SumFunctionOnSet(OpenUnits, Messages)

\* What ReservedMatchesLedger needs of the step before: the sum and the guard of
\* the reservation.  That no sum is negative follows from the life cycle.
HeldInv == reservedUnits = OpenTotal /\ availableUnits >= 0

\* The total follows a change of the entries or of the size of one message.
LEMMA OpenTotalChanges ==
  ASSUME TypeOK, TypeOK', NEW m \in Messages,
         \A n \in Messages \ {m} : entries'[n] = entries[n] /\ units'[n] = units[n]
  PROVE  OpenTotal' = OpenTotal - OpenUnits[m] + OpenUnits'[m]
<1>1. \A n \in Messages : OpenUnits[n] \in Int /\ OpenUnits'[n] \in Int
  <2>1. SUFFICES ASSUME NEW n \in Messages
                 PROVE  OpenUnits[n] \in Int /\ OpenUnits'[n] \in Int
    OBVIOUS
  <2>2. OpenEntries(n) \in Int /\ OpenEntries(n)' \in Int
    BY DEF OpenEntries, TypeOK, Counts
  <2>3. units[n] \in Int /\ units'[n] \in Int
    BY DEF TypeOK
  <2> QED
    BY <2>2, <2>3 DEF OpenUnits
<1>2. \A n \in Messages \ {m} : OpenUnits[n] = OpenUnits'[n]
  BY DEF OpenUnits, OpenEntries
<1>3. SumFunctionOnSet(OpenUnits', Messages)
        = SumFunctionOnSet(OpenUnits, Messages) - OpenUnits[m] + OpenUnits'[m]
  BY <1>1, <1>2, MessagesAssumption, SumChanged
<1> QED
  BY <1>3 DEF OpenTotal

LEMMA OpenTotalStays ==
  ASSUME UNCHANGED <<entries, units>>
  PROVE  OpenTotal' = OpenTotal
BY DEF OpenTotal, OpenUnits, OpenEntries

\* A hold that ends gives its units back.
LEMMA ReleaseKeepsHeld ==
  ASSUME TypeOK, TypeOK', HeldInv, NEW m \in Messages,
         status[m] \in Holding, Booked(m, 1, 0, 0), UNCHANGED units,
         NEW final \in {"PROVIDER_FAILED", "BLOCKED_PROVIDER_UNAVAILABLE", "RELEASED"},
         ReleaseReservation(m, final)
  PROVE  HeldInv'
<1>1. ReturnUnits(m) /\ Booked(m, 1, 1, 0)'
  BY ReleaseOfHold
<1>2. OpenUnits[m] = units[m] /\ OpenUnits'[m] = 0
  BY <1>1, OpenUnitsOf, OpenUnitsNext
<1>3. \A n \in Messages \ {m} : entries'[n] = entries[n] /\ units'[n] = units[n]
  BY <1>1 DEF ReturnUnits, TypeOK
<1>4. OpenTotal' = OpenTotal - OpenUnits[m] + OpenUnits'[m]
  BY <1>3, OpenTotalChanges
<1>5. /\ availableUnits' = availableUnits + units[m]
      /\ reservedUnits' = reservedUnits - units[m]
  BY <1>1 DEF ReturnUnits
<1>6. units[m] \in Nat /\ availableUnits \in Int /\ reservedUnits \in Int
  BY DEF TypeOK
<1> QED
  BY <1>2, <1>4, <1>5, <1>6 DEF HeldInv

LEMMA HeldStep ==
  ASSUME ~SendOutlivesHold, TypeOK, LifeCycle, TypeOK', HeldInv,
         [Next]_vars
  PROVE  HeldInv'
<1>1. ASSUME UNCHANGED <<availableUnits, reservedUnits, entries, units>>
      PROVE  HeldInv'
  BY <1>1, OpenTotalStays DEF HeldInv
<1>2. ASSUME NEW u \in TopUps, TopUp(u) PROVE HeldInv'
  <2>1. OpenTotal' = OpenTotal
    BY <1>2, OpenTotalStays DEF TopUp
  <2> QED
    BY <1>2, <2>1, TopUpsAssumption DEF HeldInv, TopUp, TypeOK
<1>3. ASSUME NEW m \in Messages, NEW u \in Segments, NEW p, Insert(m, u, p)
      PROVE  HeldInv'
  <2>1. Booked(m, 0, 0, 0) /\ Booked(m, 0, 0, 0)'
    BY <1>3 DEF Insert, LifeCycle, MessageInv, RunningInv, Booked
  <2>2. OpenUnits[m] = 0 /\ OpenUnits'[m] = 0
    BY <2>1, OpenUnitsOf, OpenUnitsNext
  <2>3. \A n \in Messages \ {m} : entries'[n] = entries[n] /\ units'[n] = units[n]
    BY <1>3 DEF Insert, TypeOK
  <2>4. OpenTotal' = OpenTotal - OpenUnits[m] + OpenUnits'[m]
    BY <2>3, OpenTotalChanges
  <2> QED
    BY <1>3, <2>2, <2>4 DEF HeldInv, Insert, TypeOK
<1>4. ASSUME NEW m \in Messages, Request(m) PROVE HeldInv'
  <2>1. MessageInv(m)
    BY DEF LifeCycle
  <2>2. ASSUME NEW u \in Segments, StartSend(m, u) PROVE HeldInv'
    BY <1>3, <2>2 DEF StartSend
  <2>3. ASSUME ReserveUnits(m) PROVE HeldInv'
    <3>1. Booked(m, 0, 0, 0) /\ Booked(m, 1, 0, 0)'
      BY <2>1, <2>3, BookedSteps DEF ReserveUnits, MessageInv, RunningInv
    <3>2. OpenUnits[m] = 0 /\ OpenUnits'[m] = units[m]
      BY <2>3, <3>1, OpenUnitsOf, OpenUnitsNext DEF ReserveUnits
    <3>3. \A n \in Messages \ {m} : entries'[n] = entries[n] /\ units'[n] = units[n]
      BY <2>3 DEF ReserveUnits, TakeUnits, TypeOK
    <3>4. OpenTotal' = OpenTotal - OpenUnits[m] + OpenUnits'[m]
      BY <3>3, OpenTotalChanges
    <3>5. /\ availableUnits' = availableUnits - units[m]
          /\ reservedUnits' = reservedUnits + units[m]
          /\ availableUnits >= units[m]
      BY <2>3 DEF ReserveUnits, TakeUnits, CanReserve
    <3>6. units[m] \in Nat /\ availableUnits \in Int /\ reservedUnits \in Int
      BY DEF TypeOK
    <3> QED
      BY <3>2, <3>4, <3>5, <3>6 DEF HeldInv
  <2>4. ASSUME ProviderUnavailable(m) PROVE HeldInv'
    BY <2>1, <2>4, ReleaseKeepsHeld
       DEF ProviderUnavailable, MessageInv, RunningInv, Holding
  <2>5. ASSUME Settle(m) PROVE HeldInv'
    <3>1. Booked(m, 1, 0, 0) /\ Booked(m, 1, 0, 1)'
      BY <2>1, <2>5, BookedSteps DEF Settle, MessageInv, RunningInv, Answers
    <3>2. OpenUnits[m] = units[m] /\ OpenUnits'[m] = 0
      BY <3>1, OpenUnitsOf, OpenUnitsNext
    <3>3. \A n \in Messages \ {m} : entries'[n] = entries[n] /\ units'[n] = units[n]
      BY <2>5 DEF Settle, DebitUnits, TypeOK
    <3>4. OpenTotal' = OpenTotal - OpenUnits[m] + OpenUnits'[m]
      BY <3>3, OpenTotalChanges
    <3>5. availableUnits' = availableUnits /\ reservedUnits' = reservedUnits - units[m]
      BY <2>5 DEF Settle, DebitUnits
    <3>6. units[m] \in Nat /\ reservedUnits \in Int
      BY DEF TypeOK
    <3> QED
      BY <3>2, <3>4, <3>5, <3>6 DEF HeldInv
  <2>6. ASSUME ReleaseRejected(m) PROVE HeldInv'
    BY <2>1, <2>6, ReleaseKeepsHeld
       DEF ReleaseRejected, MessageInv, RunningInv, Holding, Answers
  <2> QED
    BY <1>1, <1>4, <2>2, <2>3, <2>4, <2>5, <2>6
       DEF Request, InvalidPhone, RefuseForCredits, MarkReserved, CallProvider,
           HoldUncertain, RequestDies
<1>5. ASSUME NEW m \in Messages, Cron(m) PROVE HeldInv'
  <2>1. ASSUME ReleaseListed(m) PROVE HeldInv'
    <3>1. status[m] \in Holding /\ Booked(m, 1, 0, 0)
      BY <2>1 DEF ReleaseListed, LifeCycle, MessageInv, CronInv, OverInv, Holding
    <3> QED
      BY <2>1, <3>1, ReleaseKeepsHeld DEF ReleaseListed
  <2> QED
    BY <1>1, <1>5, <2>1 DEF Cron, HoldExpires, ReleaseFails
<1>6. ASSUME NEW p \in Messages, Retry(p) PROVE HeldInv'
  BY <1>1, <1>3, <1>6 DEF Retry, CheckRetry, StartRetry, RetryFindsKey
<1> QED
  BY <1>1, <1>2, <1>4, <1>5, <1>6 DEF Next, ListStale, vars

\* The wallet's reserved units are at every moment the units of the messages whose
\* reservation the ledger shows open, summed over any number of messages, and
\* neither balance goes below zero: no release or debit, late or repeated, acts on
\* units another message holds.
THEOREM ReservedIsOpen ==
  ASSUME ~SendOutlivesHold
  PROVE  Spec => []ReservedMatchesLedger
<1>1. Init => HeldInv
  <2>1. SUFFICES ASSUME Init PROVE HeldInv
    OBVIOUS
  <2>2. \A m \in Messages : OpenUnits[m] = 0
    BY <2>1 DEF Init, OpenUnits, OpenEntries, NoEntries
  <2>3. OpenTotal = 0
    BY <2>2, MessagesAssumption, SumOfZeros DEF OpenTotal
  <2> QED
    BY <2>1, <2>3 DEF Init, HeldInv
<1>2. TypeOK /\ LifeCycle /\ TypeOK' /\ HeldInv /\ [Next]_vars => HeldInv'
  BY HeldStep
<1>3. TypeOK /\ LifeCycle /\ HeldInv => ReservedMatchesLedger
  <2>1. SUFFICES ASSUME TypeOK, LifeCycle, HeldInv PROVE ReservedMatchesLedger
    OBVIOUS
  <2>2. \A m \in Messages : OpenUnits[m] \in Nat
    BY <2>1, OpenUnitsNat
  <2>3. OpenTotal \in Nat
    BY <2>2, MessagesAssumption, SumNat DEF OpenTotal
  <2> QED
    BY <2>1, <2>3 DEF HeldInv, ReservedMatchesLedger, OpenTotal
<1>4. QED BY <1>1, <1>2, <1>3, LifeCycleHolds, TypeCorrect, PTL DEF Spec

-----------------------------------------------------------------------------
(* The service implements the abstract wallet.                             *)

\* What is booked of a message decides its account.
LEMMA AccountOf ==
  ASSUME NEW m \in Messages
  PROVE  /\ Booked(m, 0, 0, 0) => Account(m) = "none"
         /\ Booked(m, 1, 0, 0) => Account(m) = "held"
         /\ Booked(m, 1, 1, 0) => Account(m) = "returned"
         /\ Booked(m, 1, 0, 1) => Account(m) = "charged"
BY DEF Booked, Account

\* The state before any message is the abstract wallet's first state.
LEMMA PromiseInit == Init => Promise!Init
BY DEF Init, Promise!Init, NoEntries, Account

\* The account of a message other than m does not change when its entries do not.
LEMMA OtherAccounts ==
  ASSUME TypeOK, NEW m \in Messages,
         \A n \in Messages : n # m => entries'[n] = entries[n],
         NEW a, Account(m)' = a
  PROVE  [n \in Messages |-> Account(n)]' = [[n \in Messages |-> Account(n)] EXCEPT ![m] = a]
BY DEF Account

\* Returning the units of a message that holds them is the abstract Return.
LEMMA ReleaseIsReturn ==
  ASSUME TypeOK, NEW m \in Messages, status[m] \in Holding, Booked(m, 1, 0, 0),
         NEW final \in {"PROVIDER_FAILED", "BLOCKED_PROVIDER_UNAVAILABLE", "RELEASED"},
         ReleaseReservation(m, final), UNCHANGED units
  PROVE  Promise!Return(m)
<1>1. ReturnUnits(m) /\ Booked(m, 1, 1, 0)'
  BY ReleaseOfHold
<1>2. Account(m) = "held" /\ Account(m)' = "returned"
  BY <1>1, AccountOf DEF Booked, Account
<1>3. \A n \in Messages : n # m => entries'[n] = entries[n]
  BY <1>1 DEF TypeOK, ReturnUnits
<1>4. QED
  BY <1>1, <1>2, <1>3, OtherAccounts DEF ReturnUnits, Promise!Return

\* Every step of the service is a step of the abstract wallet or leaves it alone.
LEMMA PromiseStep ==
  ASSUME ~SendOutlivesHold, TypeOK, LifeCycle, [Next]_vars
  PROVE  [Promise!Next]_(Promise!vars)
<1>1. ASSUME UNCHANGED <<availableUnits, entries, units>>
      PROVE  UNCHANGED Promise!vars
  BY <1>1 DEF Promise!vars, Account
<1>2. ASSUME NEW u \in TopUps, TopUp(u) PROVE Promise!Next
  BY <1>2 DEF TopUp, Promise!Next, Promise!TopUp, Account
<1>3. ASSUME NEW m \in Messages, NEW u \in Segments, NEW p, Insert(m, u, p)
      PROVE  Promise!Next
  <2>1. Booked(m, 0, 0, 0)
    BY <1>3 DEF Insert, LifeCycle, MessageInv, RunningInv
  <2>2. Promise!Quote(m, u)
    BY <1>3, <2>1, AccountOf DEF Insert, Promise!Quote, Account
  <2>3. QED BY <2>2 DEF Promise!Next
<1>4. ASSUME NEW m \in Messages, Request(m)
      PROVE  Promise!Next \/ UNCHANGED Promise!vars
  <2>0. MessageInv(m)
    BY DEF LifeCycle
  <2>1. ASSUME NEW u \in Segments, StartSend(m, u) PROVE Promise!Next
    BY <1>3, <2>1 DEF StartSend
  <2>2. ASSUME ReserveUnits(m) PROVE Promise!Next
    <3>1. Booked(m, 0, 0, 0) /\ Booked(m, 1, 0, 0)'
      BY <2>0, <2>2, BookedSteps DEF ReserveUnits, MessageInv, RunningInv
    <3>2. Account(m) = "none" /\ Account(m)' = "held"
      BY <3>1, AccountOf DEF Booked, Account
    <3>3. \A n \in Messages : n # m => entries'[n] = entries[n]
      BY <2>2 DEF TypeOK, ReserveUnits, TakeUnits
    <3>4. Promise!Hold(m)
      BY <2>2, <3>2, <3>3, OtherAccounts
         DEF ReserveUnits, CanReserve, TakeUnits, Promise!Hold
    <3>5. QED BY <3>4 DEF Promise!Next
  <2>3. ASSUME ProviderUnavailable(m) PROVE Promise!Next
    <3>1. Promise!Return(m)
      BY <2>0, <2>3, ReleaseIsReturn
         DEF ProviderUnavailable, MessageInv, RunningInv, Holding
    <3>2. QED BY <3>1 DEF Promise!Next
  <2>4. ASSUME Settle(m) PROVE Promise!Next
    <3>1. Booked(m, 1, 0, 0) /\ Booked(m, 1, 0, 1)'
      BY <2>0, <2>4, BookedSteps DEF Settle, MessageInv, RunningInv, Answers
    <3>2. Account(m) = "held" /\ Account(m)' = "charged"
      BY <3>1, AccountOf DEF Booked, Account
    <3>3. \A n \in Messages : n # m => entries'[n] = entries[n]
      BY <2>4 DEF TypeOK, Settle, DebitUnits
    <3>4. Promise!Charge(m)
      BY <2>4, <3>2, <3>3, OtherAccounts DEF Settle, DebitUnits, Promise!Charge
    <3>5. QED BY <3>4 DEF Promise!Next
  <2>5. ASSUME ReleaseRejected(m) PROVE Promise!Next
    <3>1. Promise!Return(m)
      BY <2>0, <2>5, ReleaseIsReturn
         DEF ReleaseRejected, MessageInv, RunningInv, Holding, Answers
    <3>2. QED BY <3>1 DEF Promise!Next
  <2>6. QED
    BY <1>1, <1>4, <2>1, <2>2, <2>3, <2>4, <2>5
       DEF Request, InvalidPhone, RefuseForCredits, MarkReserved, CallProvider,
           HoldUncertain, RequestDies
<1>5. ASSUME NEW m \in Messages, Cron(m)
      PROVE  Promise!Next \/ UNCHANGED Promise!vars
  <2>1. ASSUME ReleaseListed(m) PROVE Promise!Next
    <3>1. status[m] \in Holding /\ Booked(m, 1, 0, 0)
      BY <2>1 DEF ReleaseListed, LifeCycle, MessageInv, CronInv, OverInv, Holding
    <3>2. Promise!Return(m)
      BY <2>1, <3>1, ReleaseIsReturn DEF ReleaseListed
    <3>3. QED BY <3>2 DEF Promise!Next
  <2>2. QED BY <1>1, <1>5, <2>1 DEF Cron, HoldExpires, ReleaseFails
<1>6. ASSUME NEW p \in Messages, Retry(p)
      PROVE  Promise!Next \/ UNCHANGED Promise!vars
  BY <1>1, <1>3, <1>6 DEF Retry, CheckRetry, StartRetry, RetryFindsKey
<1>7. QED
  BY <1>1, <1>2, <1>4, <1>5, <1>6 DEF Next, ListStale, vars

\* Every behaviour of the service is a behaviour of the abstract wallet: a
\* message is held for at most once, and then charged or returned, never both.
THEOREM PromiseKept ==
  ASSUME ~SendOutlivesHold
  PROVE  Spec => ImplementsPromise
<1>1. TypeOK /\ LifeCycle /\ [Next]_vars => [Promise!Next]_(Promise!vars)
  BY PromiseStep
<1>2. QED
  BY <1>1, PromiseInit, LifeCycleHolds, TypeCorrect, PTL
     DEF Spec, ImplementsPromise, Promise!Spec
=============================================================================
