---------------------------- MODULE SmsPurchases ----------------------------
(***************************************************************************)
(* The purchases of SMS bundles of one branch and who settles them:        *)
(* checkouts, webhooks, redirects of the browser, polling jobs, merchant   *)
(* payments confirmed by hand, and payments of the former provider         *)
(* (services/api/src/modules/billing, sms-credits).                        *)
(*                                                                         *)
(* Each handler reads the purchase, asks the provider and writes a status, *)
(* in separate statements; only the crediting itself locks the row.  What  *)
(* the provider has to say of an attempt to pay is external.               *)
(***************************************************************************)
EXTENDS Integers

CONSTANTS
  Purchases,      \* rows of sms_purchases, of one bundle
  Requests,       \* API requests under way at a time
  Jobs,           \* polling jobs
  MaxAttempts,    \* bound on the attempts to pay at one checkout
  MaxDeliveries   \* bound on the requests that are begun and the jobs that stop

Attempts == 1..MaxAttempts
Actors == Requests \cup Jobs

ASSUME BoundAssumption ==
  /\ Purchases # {} /\ MaxAttempts \in Nat \ {0} /\ MaxDeliveries \in Nat
ASSUME ActorAssumption == Requests \cap Jobs = {}

VARIABLES
  provider,   \* per purchase: "flutterwave", "pesapal" or "manual"
  status,     \* per purchase: SmsPurchaseStatus, "NONE" before it is created
  ext,        \* per purchase: externalTransactionId, 0 for none
  expired,    \* per purchase: expiresAt has passed
  credits,    \* per purchase: how often its units were added to the wallet
  outcome,    \* external, per purchase and attempt: what the provider says
  stage,      \* per actor: the step it takes next
  at,         \* per actor: the purchase it is about
  attempt,    \* per actor: the attempt it is about, 0 for none
  next,       \* per actor: the status it is about to write
  deliveries, \* requests begun, and jobs stopped, so far
  outdated,   \* history: actors whose purchase was credited since they began
  overturned  \* history: purchases whose status was overwritten once credited

row == <<provider, status, ext, expired, credits>>
actor == <<stage, at, attempt, next, outdated>>
vars == <<row, outcome, actor, deliveries, overturned>>

-----------------------------------------------------------------------------
Open == {"PAYMENT_PENDING", "AWAITING_PAYMENT"}
Pending == Open \cup {"PAYMENT_CONFIRMED", "CREDIT_PROCESSING", "MANUAL_REVIEW"}
Tried(p) == {a \in Attempts : outcome[p][a] # "none"}
Latest(p) == IF Tried(p) = {} THEN 0
             ELSE CHOOSE a \in Tried(p) : \A b \in Tried(p) : b <= a

\* What a verification answers to the question whether an attempt succeeded; the
\* amount is compared after that.
Successful(p, a) == outcome[p][a] \in {"paid", "short"}

Go(x, step, p, a, st) ==
  /\ stage' = [stage EXCEPT ![x] = step]
  /\ at' = [at EXCEPT ![x] = p]
  /\ attempt' = [attempt EXCEPT ![x] = a]
  /\ next' = [next EXCEPT ![x] = st]

Enter(x, step, p, a, st) == Go(x, step, p, a, st) /\ UNCHANGED outdated
Proceed(x, step) == Enter(x, step, at[x], attempt[x], next[x])

NoPurchase == CHOOSE p \in Purchases : TRUE
End(x) == Go(x, "idle", NoPurchase, 0, "NONE")
Finish(x) == End(x) /\ outdated' = outdated \ {x}

Arrive(h) ==
  /\ stage[h] = "idle" /\ deliveries < MaxDeliveries
  /\ deliveries' = deliveries + 1

\* A status is written whatever the status is by now.
SetStatus(p, st) ==
  /\ status' = [status EXCEPT ![p] = st]
  /\ overturned' = overturned \cup (IF status[p] = "CREDITED" THEN {p} ELSE {})

-----------------------------------------------------------------------------
(* Checkout.                                                               *)

\* What is past its time is expired. A purchase that is open is paid first, or given
\* up when its link is missing or of another environment; a new one is made when there
\* is none, or when it is older than five minutes.
StartPurchase(h, p) ==
  LET stale == {q \in Purchases : status[q] \in Open /\ expired[q]}
      fresh == {q \in Purchases : status[q] \in Open /\ ~expired[q]}
  IN  /\ Arrive(h)
      /\ status[p] = "NONE" /\ provider[p] = "flutterwave"
      /\ status' = [q \in Purchases |-> IF q \in stale THEN "EXPIRED" ELSE status[q]]
      /\ \/ Enter(h, "create", p, 0, "NONE")
         \/ \E q \in fresh : Enter(h, "replace", q, 0, "NONE")
         \/ (\E q \in fresh : status[q] = "AWAITING_PAYMENT") /\ UNCHANGED actor
      /\ UNCHANGED <<provider, ext, expired, credits, outcome, overturned>>

Replace(h, p) ==
  /\ stage[h] = "replace"
  /\ status[p] = "NONE" /\ provider[p] = "flutterwave"
  /\ SetStatus(at[h], "PAYMENT_FAILED")
  /\ Enter(h, "create", p, 0, "NONE")
  /\ UNCHANGED <<provider, ext, expired, credits, outcome, deliveries>>

Create(h) ==
  /\ stage[h] = "create" /\ status[at[h]] = "NONE"
  /\ status' = [status EXCEPT ![at[h]] = "PAYMENT_PENDING"]
  /\ Proceed(h, "checkout")
  /\ UNCHANGED <<provider, ext, expired, credits, outcome, deliveries, overturned>>

\* The provider makes a page to pay at, or does not.
Checkout(h) ==
  /\ stage[h] = "checkout"
  /\ \/ SetStatus(at[h], "AWAITING_PAYMENT")
     \/ SetStatus(at[h], "PAYMENT_FAILED")
  /\ Finish(h)
  /\ UNCHANGED <<provider, ext, expired, credits, outcome, deliveries>>

-----------------------------------------------------------------------------
(* A verified answer of the provider is applied.                           *)

\* Mutant: the amount that was paid is not compared.
ApplyAny(x, p, a) ==
  IF status[p] = "CREDITED" THEN Finish(x) ELSE Enter(x, "confirm", p, a, "NONE")

Apply(x, p, a) ==
  IF outcome[p][a] = "short" \/ status[p] = "CREDITED" THEN Finish(x)
  ELSE Enter(x, "confirm", p, a, "NONE")

Fail(x, p, a) == Enter(x, "fail", p, a, "PAYMENT_FAILED")

\* The hook names an attempt, which is verified; no attempt is stored on failure.
Webhook(h, p, a) ==
  /\ Arrive(h)
  /\ provider[p] = "flutterwave" /\ outcome[p][a] # "none"
  /\ IF Successful(p, a) THEN Apply(h, p, a) ELSE Fail(h, p, 0)
  /\ UNCHANGED <<row, outcome, overturned>>

\* The browser comes back with the attempt, or with nothing but "cancelled".
Redirect(h, p) ==
  /\ Arrive(h)
  /\ provider[p] = "flutterwave" /\ status[p] # "NONE"
  /\ \/ \E a \in Tried(p) :
          IF Successful(p, a) THEN Apply(h, p, a) ELSE Fail(h, p, a)
     \/ Fail(h, p, 0)
  /\ UNCHANGED <<row, outcome, overturned>>

\* The latest attempt is looked up unless the purchase is settled.
LookUp(x, p) ==
  LET a == Latest(p)
  IN  IF status[p] \in {"CREDITED", "REVERSED"} THEN Finish(x)
      ELSE IF a # 0 /\ Successful(p, a) THEN Apply(x, p, a)
      ELSE IF a # 0 /\ outcome[p][a] = "cancelled" THEN Fail(x, p, a)
      ELSE IF next[x] = "EXPIRED" THEN Proceed(x, "write")
      ELSE Finish(x)

Reconcile(h, p) ==
  /\ Arrive(h)
  /\ provider[p] = "flutterwave" /\ status[p] # "NONE"
  /\ LookUp(h, p)
  /\ UNCHANGED <<row, outcome, overturned>>

\* Mutant: a purchase shows as credited before its units are in the wallet.
ConfirmCredited(x) ==
  /\ stage[x] = "confirm"
  /\ SetStatus(at[x], "CREDITED")
  /\ ext' = [ext EXCEPT ![at[x]] = attempt[x]]
  /\ Proceed(x, "credit")
  /\ UNCHANGED <<provider, expired, credits, outcome, deliveries>>

Confirm(x) ==
  /\ stage[x] = "confirm"
  /\ SetStatus(at[x], "PAYMENT_CONFIRMED")
  /\ ext' = [ext EXCEPT ![at[x]] = attempt[x]]
  /\ Proceed(x, "credit")
  /\ UNCHANGED <<provider, expired, credits, outcome, deliveries>>

\* Mutant: under the lock the status is not looked at again.
CreditAgain(x) ==
  LET p == at[x]
  IN  /\ stage[x] = "credit"
      /\ IF ext[p] \notin {0, attempt[x]}
         THEN UNCHANGED <<status, ext, credits>>
         ELSE /\ status' = [status EXCEPT ![p] = "CREDITED"]
              /\ ext' = [ext EXCEPT ![p] = attempt[x]]
              /\ credits' = [credits EXCEPT ![p] = @ + 1]
      /\ End(x)
      /\ outdated' = {y \in Actors \ {x} :
           y \in outdated \/ (credits'[p] > credits[p] /\ stage[y] # "idle" /\ at[y] = p)}
      /\ UNCHANGED <<provider, expired, outcome, deliveries, overturned>>

\* The row is locked: a purchase that is credited by now is left alone, and so is
\* one that is linked to another transaction.
Credit(x) ==
  LET p == at[x]
  IN  /\ stage[x] = "credit"
      /\ IF status[p] = "CREDITED" \/ ext[p] \notin {0, attempt[x]}
         THEN UNCHANGED <<status, ext, credits>>
         ELSE /\ status' = [status EXCEPT ![p] = "CREDITED"]
              /\ ext' = [ext EXCEPT ![p] = attempt[x]]
              /\ credits' = [credits EXCEPT ![p] = @ + 1]
      /\ End(x)
      /\ outdated' = {y \in Actors \ {x} :
           y \in outdated \/ (credits'[p] > credits[p] /\ stage[y] # "idle" /\ at[y] = p)}
      /\ UNCHANGED <<provider, expired, outcome, deliveries, overturned>>

\* Mutant: a failure is written without looking at the purchase.
FailUnread(x) ==
  /\ stage[x] = "fail"
  /\ Proceed(x, "write")
  /\ UNCHANGED <<row, outcome, deliveries, overturned>>

\* The purchase is read once more before a failure is written.
FailRead(x) ==
  /\ stage[x] = "fail"
  /\ IF status[at[x]] = "CREDITED" THEN Finish(x) ELSE Proceed(x, "write")
  /\ UNCHANGED <<row, outcome, deliveries, overturned>>

WriteStatus(x) ==
  /\ stage[x] = "write"
  /\ SetStatus(at[x], next[x])
  /\ ext' = IF attempt[x] = 0 THEN ext ELSE [ext EXCEPT ![at[x]] = attempt[x]]
  /\ Finish(x)
  /\ UNCHANGED <<provider, expired, credits, outcome, deliveries>>

-----------------------------------------------------------------------------
(* Polling jobs.                                                           *)

\* Mutant: purchases that are confirmed and not yet credited are not listed.
PollOpenOnly(j, p) ==
  /\ stage[j] = "idle"
  /\ provider[p] = "flutterwave" /\ status[p] \in Open
  /\ Enter(j, "poll", p, 0, IF expired[p] THEN "EXPIRED" ELSE "NONE")
  /\ UNCHANGED <<row, outcome, deliveries, overturned>>

\* Every five minutes: what is not settled, with its status and time as listed.  The
\* window of 48 hours and the limit of 100 rows are left out.
PollOpen(j, p) ==
  /\ stage[j] = "idle"
  /\ provider[p] = "flutterwave" /\ status[p] \in Open \cup {"PAYMENT_CONFIRMED"}
  /\ Enter(j, "poll", p, 0,
           IF expired[p] /\ status[p] \in Open THEN "EXPIRED" ELSE "NONE")
  /\ UNCHANGED <<row, outcome, deliveries, overturned>>

\* Every hour: what failed in the last two days.
PollTerminal(j, p) ==
  /\ stage[j] = "idle"
  /\ provider[p] = "flutterwave"
  /\ status[p] \in {"PAYMENT_FAILED", "CANCELLED_BY_USER", "EXPIRED"}
  /\ Enter(j, "poll", p, 0, "NONE")
  /\ UNCHANGED <<row, outcome, deliveries, overturned>>

Poll(j) ==
  /\ stage[j] = "poll"
  /\ LookUp(j, at[j])
  /\ UNCHANGED <<row, outcome, deliveries, overturned>>

-----------------------------------------------------------------------------
(* Payments confirmed by hand, and payments of the former provider.        *)

\* The console, or a reply to the mail, confirms or rejects what is pending; the
\* manager who submitted the payment may cancel it.
Manual(h, p, decision) ==
  /\ Arrive(h)
  /\ provider[p] = "manual" /\ status[p] \in Pending
  /\ \/ decision = "confirm" /\ Enter(h, "credit", p, 1, "NONE")
     \/ decision = "reject" /\ Enter(h, "write", p, 0, "PAYMENT_FAILED")
     \/ decision = "cancel" /\ Enter(h, "write", p, 0, "CANCELLED_BY_USER")
  /\ UNCHANGED <<row, outcome, overturned>>

\* A notification: the purchase is read first, the provider is asked after that.
PesapalNotified(h, p) ==
  /\ Arrive(h)
  /\ provider[p] = "pesapal" /\ status[p] # "CREDITED"
  /\ Enter(h, "ask", p, 0, "NONE")
  /\ UNCHANGED <<row, outcome, overturned>>

PesapalAnswers(h) ==
  LET p == at[h]
      a == Latest(p)
      said == IF a = 0 THEN "pending" ELSE outcome[p][a]
      Write(st) == Enter(h, "write", p, 0, st)
  IN  /\ stage[h] = "ask"
      /\ \/ said = "paid" /\ Enter(h, "credit", p, a, "NONE")
         \/ said = "short" /\ Write("PAYMENT_MISMATCH")
         \/ said \in {"failed", "cancelled"} /\ Write("PAYMENT_FAILED")
         \/ said = "reversed" /\ Write("REVERSED")
         \/ said = "pending" /\ Write("AWAITING_PAYMENT")
      /\ UNCHANGED <<row, outcome, deliveries, overturned>>

-----------------------------------------------------------------------------
(* Time, failures, and the provider.                                       *)

\* A request or a job ends early.
Stop(x) ==
  /\ stage[x] # "idle"
  /\ Finish(x)
  /\ IF x \in Jobs THEN deliveries < MaxDeliveries /\ deliveries' = deliveries + 1
                   ELSE UNCHANGED deliveries
  /\ UNCHANGED <<row, outcome, overturned>>

Expire(p) ==
  /\ provider[p] = "flutterwave" /\ status[p] # "NONE" /\ ~expired[p]
  /\ expired' = [expired EXCEPT ![p] = TRUE]
  /\ UNCHANGED <<provider, status, ext, credits, outcome, actor, deliveries, overturned>>

\* A customer pays at a page that was made; a purchase is paid at most once.
Payable(p) ==
  /\ status[p] \notin {"NONE", "PAYMENT_PENDING"} /\ provider[p] # "manual"
  /\ \A a \in Tried(p) : outcome[p][a] \in {"failed", "cancelled"}

Attempt(p) ==
  /\ Payable(p) /\ Latest(p) < MaxAttempts
  /\ outcome' = [outcome EXCEPT ![p][Latest(p) + 1] = "pending"]
  /\ UNCHANGED <<row, actor, deliveries, overturned>>

Conclude(p) ==
  LET a == Latest(p)
  IN  /\ a # 0
      /\ \E result \in {"paid", "short", "failed", "cancelled", "reversed"} :
           /\ outcome[p][a] = (IF result = "reversed" THEN "paid" ELSE "pending")
           /\ result = "reversed" => provider[p] = "pesapal"
           /\ outcome' = [outcome EXCEPT ![p][a] = result]
      /\ UNCHANGED <<row, actor, deliveries, overturned>>

-----------------------------------------------------------------------------
\* Purchases at the present provider are yet to be made, one of the former provider
\* is under way and a merchant payment has been submitted.
Init ==
  /\ provider \in [Purchases -> {"flutterwave", "pesapal", "manual"}]
  /\ status = [p \in Purchases |->
       IF provider[p] = "flutterwave" THEN "NONE" ELSE "AWAITING_PAYMENT"]
  /\ ext = [p \in Purchases |-> 0]
  /\ expired = [p \in Purchases |-> FALSE]
  /\ credits = [p \in Purchases |-> 0]
  /\ outcome = [p \in Purchases |-> [a \in Attempts |-> "none"]]
  /\ stage = [x \in Actors |-> "idle"]
  /\ at = [x \in Actors |-> NoPurchase]
  /\ attempt = [x \in Actors |-> 0]
  /\ next = [x \in Actors |-> "NONE"]
  /\ deliveries = 0
  /\ overturned = {} /\ outdated = {}

Settling(x) == Confirm(x) \/ Credit(x) \/ FailRead(x) \/ WriteStatus(x)

Next ==
  \/ \E p \in Purchases : Expire(p) \/ Attempt(p) \/ Conclude(p)
  \/ \E h \in Requests, p \in Purchases :
       \/ StartPurchase(h, p) \/ Replace(h, p) \/ Redirect(h, p) \/ Reconcile(h, p)
       \/ PesapalNotified(h, p)
       \/ \E a \in Attempts : Webhook(h, p, a)
       \/ \E decision \in {"confirm", "reject", "cancel"} : Manual(h, p, decision)
  \/ \E h \in Requests : Create(h) \/ Checkout(h) \/ PesapalAnswers(h)
  \/ \E j \in Jobs, p \in Purchases : PollOpen(j, p) \/ PollTerminal(j, p)
  \/ \E j \in Jobs : Poll(j)
  \/ \E x \in Actors : Settling(x) \/ Stop(x)

Spec == Init /\ [][Next]_vars

\* The jobs come round to every purchase that is listed again and again, and a step
\* of theirs that can be taken is taken; no more than MaxDeliveries of them stop.
FairSpec ==
  /\ Spec
  /\ \A j \in Jobs :
       /\ \A p \in Purchases : SF_vars(PollOpen(j, p) \/ PollTerminal(j, p))
       /\ WF_vars(Poll(j) \/ Settling(j))
-----------------------------------------------------------------------------
(* Properties.                                                             *)

Statuses == Pending \cup
  {"NONE", "CREDITED", "PAYMENT_FAILED", "PAYMENT_MISMATCH", "EXPIRED", "REVERSED",
   "CANCELLED_BY_USER"}
Stages == {"idle", "create", "replace", "checkout", "confirm", "credit", "fail", "write",
           "poll", "ask"}

\* Rows keep their columns' values; nothing is ever written to a purchase that was
\* not made, and one that shows CREDITED has been credited.
TypeOK ==
  /\ provider \in [Purchases -> {"flutterwave", "pesapal", "manual"}]
  /\ status \in [Purchases -> Statuses]
  /\ ext \in [Purchases -> 0..MaxAttempts]
  /\ expired \in [Purchases -> BOOLEAN]
  /\ credits \in [Purchases -> Nat]
  /\ outcome \in [Purchases -> [Attempts ->
       {"none", "pending", "paid", "short", "failed", "cancelled", "reversed"}]]
  /\ stage \in [Actors -> Stages] /\ at \in [Actors -> Purchases]
  /\ attempt \in [Actors -> 0..MaxAttempts] /\ next \in [Actors -> Statuses]
  /\ deliveries \in 0..MaxDeliveries
  /\ overturned \subseteq Purchases /\ outdated \subseteq Actors
  /\ \A p \in Purchases : status[p] = "CREDITED" => credits[p] > 0

\* However answers, redirects, jobs and crashes interleave, units are added only for
\* a purchase that a person confirmed or the provider was paid for in full: an answer
\* that is old when it is acted on never credits an unpaid purchase.
CreditedOnlyIfPaid ==
  \A p \in Purchases : credits[p] > 0 =>
    \/ provider[p] = "manual"
    \/ \E a \in Attempts : outcome[p][a] \in {"paid", "reversed"}

\* A purchase is credited a second time only after something wrote its status once
\* it was credited (creditPurchaseOnce).
CreditedOnceUnlessOverturned ==
  \A p \in Purchases : credits[p] <= 1 \/ p \in overturned

\* A purchase is credited once.
CreditedOnce == \A p \in Purchases : credits[p] <= 1

\* The status of a credited purchase is overwritten only by a request or a job that
\* had begun before the purchase was credited; whoever begins later leaves it alone,
\* be it a webhook sent again, a redirect that says "cancelled" or a rejection.
OnlyTheOutdatedOverturn ==
  [][\A p \in Purchases : status[p] = "CREDITED" /\ status'[p] # "CREDITED" =>
       \E x \in outdated : at[x] = p /\ stage'[x] # stage[x]]_vars

\* A purchase that was paid in full gets its units in the end, also when webhooks
\* are lost, requests die between confirming and crediting, or its status has become
\* failed or expired: the jobs find it again.
PaidIsCredited ==
  \A p \in Purchases :
    (provider[p] = "flutterwave" /\ \E a \in Attempts : outcome[p][a] = "paid")
      ~> credits[p] > 0
=============================================================================
