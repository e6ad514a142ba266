----------------------------- MODULE LoanLedger -----------------------------
(***************************************************************************)
(* One loan: repayments at the counter, their voiding and correction, the  *)
(* requests for a correction and the owner's say in them, and overdue      *)
(* fines (services/api/src/modules/collections, loan-products).            *)
(*                                                                         *)
(* Every money operation reads the loan, computes the next balance from it *)
(* and writes that balance in a transaction of its own, so each is two     *)
(* steps or more and several may be under way.  Payments are numbered in   *)
(* the order of their date; all belong to one business day.                *)
(***************************************************************************)
EXTENDS Integers, FiniteSets, FiniteSetsExt

CONSTANTS
  Requests,      \* API requests under way at a time
  Workers,       \* runs of the fines job: the nightly one and manual ones
  MaxPayments,   \* bound on the rows of repayments
  MaxCorrections,\* bound on the rows of correction requests
  MaxPeriods,    \* bound on the overdue periods that pass
  MaxOperations, \* bound on the API requests and the runs of the fines job
  Amounts,       \* what a customer pays
  Principal, Interest, Fine

Payments == 1..MaxPayments
Corrections == 1..MaxCorrections
Periods == 1..MaxPeriods

ASSUME BoundAssumption ==
  /\ MaxPayments \in Nat /\ MaxCorrections \in Nat /\ MaxPeriods \in Nat
  /\ MaxOperations \in Nat
ASSUME MoneyAssumption ==
  /\ Amounts \subseteq Nat \ {0}
  /\ Principal \in Nat \ {0} /\ Interest \in Nat /\ Fine \in Nat \ {0}
ASSUME ActorAssumption == Requests \cap Workers = {}

VARIABLES
  age,         \* the payments' day: 0 today, 1 yesterday while today is not yet
               \* being reconciled, 2 otherwise
  report,      \* status of that day's report
  balance, loanStatus, finesTotal,   \* the loan row
  fined,       \* periods that have a loan_fines row
  state,       \* per payment: "none", "live" or "voided"
  amount,
  alloc,       \* per payment: its fees, interest and principal parts
  correction,  \* per correction request: its row
  stage,       \* per request: the step it takes next
  begun,       \* operations begun so far
  held,        \* per request: what it has read or computed
  left,        \* per worker: the periods it still has to look at
  period,      \* per worker: the period its transaction is about, 0 for none
  seen,        \* per worker: the loan as its transaction read it
  outdated,    \* per actor: what changed since it was read
  spoilt,      \* history: which of balance, fines and parts go by an outdated reading
  voidEdited   \* history: a voided payment was corrected

loan == <<balance, loanStatus, finesTotal>>
rows == <<state, amount, alloc>>
job == <<left, period, seen>>
work == <<stage, held, begun>>
vars == <<age, report, loan, fined, rows, correction, work,
          job, outdated, spoilt, voidEdited>>

-----------------------------------------------------------------------------
(* Money.                                                                  *)

NoParts == [fees |-> 0, interest |-> 0, principal |-> 0]
Lesser(a, b) == IF a < b THEN a ELSE b

\* Fines first, then interest, then principal.
Allocate(a, rest) ==
  LET fees == Lesser(a, rest.fees)
      interest == Lesser(a - fees, rest.interest)
  IN  [fees |-> fees, interest |-> interest,
       principal |-> Lesser(a - fees - interest, rest.principal)]

Less(rest, parts) ==
  [fees |-> rest.fees - parts.fees, interest |-> rest.interest - parts.interest,
   principal |-> rest.principal - parts.principal]

Debt == [fees |-> finesTotal, interest |-> Interest, principal |-> Principal]
Live == {p \in Payments : state[p] = "live"}

\* Mutant: what earlier payments have covered is not looked at.
WholeDebt == Debt

\* What each payment has covered of the fines, the interest and the principal.
Fees == [p \in Payments |-> alloc[p].fees]
Interests == [p \in Payments |-> alloc[p].interest]
Principals == [p \in Payments |-> alloc[p].principal]

\* What the live payments have not yet covered, never below zero.
Uncovered ==
  [fees |-> Max({0, finesTotal - SumFunctionOnSet(Fees, Live)}),
   interest |-> Max({0, Interest - SumFunctionOnSet(Interests, Live)}),
   principal |-> Max({0, Principal - SumFunctionOnSet(Principals, Live)})]

\* The parts of the payments in set S with amounts amt, one after the other.
Rebuilt(S, amt) ==
  LET rest[p \in 0..MaxPayments] ==
        IF p = 0 THEN Debt
        ELSE IF p \in S THEN Less(rest[p - 1], Allocate(amt[p], rest[p - 1]))
        ELSE rest[p - 1]
  IN  [p \in Payments |->
         IF p \in S THEN Allocate(amt[p], rest[p - 1]) ELSE alloc[p]]

\* Mutant: a loan that is paid off stays as it is when money is given back.
StatusKept(bal, old) == IF bal <= 0 THEN "CLOSED" ELSE old

\* A loan with nothing left to pay is closed, one that owes again is current.
StatusFor(bal, old) ==
  IF bal <= 0 THEN "CLOSED"
  ELSE IF old \in {"CLOSED", "SUBMITTED"} THEN "CURRENT" ELSE old

-----------------------------------------------------------------------------
(* Who is under way, and on what they have read.                           *)

Actors == Requests \cup Workers
Idle == [payment |-> 0, request |-> 0, amount |-> 0, parts |-> NoParts,
         balance |-> 0, status |-> "CURRENT", officer |-> FALSE]
NotSeen == [balance |-> 0, fines |-> 0]

\* Whether actor x goes by what it has read of the loan (its payments or its
\* fines), or of the report.
ReliesOn(x, what) ==
  IF x \in Workers THEN what # "report" /\ period[x] # 0
  ELSE stage[x] \in {"void", "correct"}
         \cup (IF what = "report" THEN {} ELSE {"record", "gate", "check"})

Begin(h, step, what) ==
  /\ begun < MaxOperations /\ begun' = begun + 1
  /\ stage[h] = "idle"
  /\ stage' = [stage EXCEPT ![h] = step]
  /\ held' = [held EXCEPT ![h] = what]
  /\ outdated' = [outdated EXCEPT ![h] = {}]

Finish(h) ==
  /\ stage' = [stage EXCEPT ![h] = "idle"]
  /\ held' = [held EXCEPT ![h] = Idle]
  /\ UNCHANGED begun

\* Actor x changes the loan; what the others have read of it is out of date.
Outdate(x, what) ==
  outdated' = [y \in Actors |->
    IF y = x THEN {} ELSE IF ReliesOn(y, what) THEN outdated[y] \cup {what} ELSE outdated[y]]

WriteLoan(x, bal, st, what) ==
  /\ balance' = bal /\ loanStatus' = st
  /\ Outdate(x, what)

\* A balance computed from an outdated loan is written over a newer one.
Spoils(x) == IF outdated[x] \cap {"payments", "fines"} = {} THEN {} ELSE {"balance"}

\* Sent or already approved: the corrections make no difference between the two.
WithOwner(r) == r = "SENT_TO_OWNER"

-----------------------------------------------------------------------------
(* A repayment at the counter.                                             *)

StartRecord(h, a) ==
  /\ loanStatus # "CLOSED" /\ a <= balance
  /\ age = 0 \/ report = "RETURNED_TO_MANAGER"
  /\ Begin(h, "record",
       [payment |-> 0, request |-> 0, amount |-> a,
        parts |-> Allocate(a, Uncovered), balance |-> balance - a,
        status |-> IF balance - a <= 0 THEN "CLOSED"
                   ELSE IF loanStatus = "SUBMITTED" THEN "CURRENT"
                   ELSE loanStatus,
        officer |-> FALSE])
  /\ UNCHANGED <<age, report, loan, fined, rows, correction, job,
                 spoilt, voidEdited>>

CommitRecord(h) ==
  /\ stage[h] = "record"
  /\ \E p \in Payments :
       /\ state[p] = "none" /\ \A q \in 1..(p - 1) : state[q] # "none"
       /\ state' = [state EXCEPT ![p] = "live"]
       /\ amount' = [amount EXCEPT ![p] = held[h].amount]
       /\ alloc' = [alloc EXCEPT ![p] = held[h].parts]
  /\ WriteLoan(h, held[h].balance, held[h].status, "payments")
  /\ spoilt' = spoilt \cup Spoils(h)
                 \cup (IF "payments" \in outdated[h] THEN {"parts"} ELSE {})
  /\ Finish(h)
  /\ UNCHANGED <<age, report, finesTotal, fined, correction, job, voidEdited>>

-----------------------------------------------------------------------------
(* A payment is voided by a manager.                                       *)

StartVoid(h, p) ==
  /\ state[p] = "live" /\ ~WithOwner(report)
  /\ Begin(h, "void",
       [payment |-> p, request |-> 0, amount |-> amount[p], parts |-> NoParts,
        balance |-> balance + amount[p],
        status |-> StatusFor(balance + amount[p], loanStatus), officer |-> FALSE])
  /\ UNCHANGED <<age, report, loan, fined, rows, correction, job,
                 spoilt, voidEdited>>

Cancelled(p) ==
  [c \in Corrections |->
    IF correction[c].payment = p /\ correction[c].status = "PENDING"
    THEN [correction[c] EXCEPT !.status = "CANCELLED", !.canEdit = FALSE]
    ELSE correction[c]]

\* Mutant: the amount is not given back to the balance.
CommitVoidAlone(h) ==
  /\ stage[h] = "void"
  /\ state' = [state EXCEPT ![held[h].payment] = "voided"]
  /\ alloc' = Rebuilt(Live \ {held[h].payment}, amount)
  /\ correction' = Cancelled(held[h].payment)
  /\ WriteLoan(h, balance, loanStatus, "payments")
  /\ spoilt' = (spoilt \ {"parts"}) \cup Spoils(h)
  /\ Finish(h)
  /\ UNCHANGED <<age, report, finesTotal, fined, amount, job, voidEdited>>

CommitVoid(h) ==
  /\ stage[h] = "void"
  /\ state' = [state EXCEPT ![held[h].payment] = "voided"]
  /\ alloc' = Rebuilt(Live \ {held[h].payment}, amount)
  /\ correction' = Cancelled(held[h].payment)
  /\ WriteLoan(h, held[h].balance, held[h].status, "payments")
  /\ spoilt' = (spoilt \ {"parts"}) \cup Spoils(h)
  /\ Finish(h)
  /\ UNCHANGED <<age, report, finesTotal, fined, amount, job, voidEdited>>

-----------------------------------------------------------------------------
(* A payment is corrected, by a manager or by the officer it was given to. *)

\* The row is read with its loan; a voided payment is not refused.
StartCorrection(h, p, c, a, officer) ==
  /\ state[p] # "none"
  /\ officer => c # 0
  /\ Begin(h, "gate",
       [payment |-> p, request |-> c, amount |-> a, parts |-> NoParts,
        balance |-> balance + amount[p] - a,
        status |-> StatusFor(balance + amount[p] - a, loanStatus),
        officer |-> officer])
  /\ UNCHANGED <<age, report, loan, fined, rows, correction, job,
                 spoilt, voidEdited>>

\* What is with the owner is open to a request the owner has authorized.
Opens(c) == WithOwner(report) => c # 0 /\ correction[c].authorized

\* Mutant: the report stays with the owner.
LeftWithOwner == report

\* A report the owner has is returned to the manager first.
Reopened == IF WithOwner(report) THEN "RETURNED_TO_MANAGER" ELSE report

Gate(h) ==
  /\ stage[h] = "gate"
  /\ Opens(held[h].request)
  /\ report' = Reopened
  /\ stage' = [stage EXCEPT ![h] = "check"]
  /\ UNCHANGED <<age, loan, fined, rows, correction, held, begun, job,
                 outdated, spoilt, voidEdited>>

\* Mutant: the corrected amount may exceed what was owed.
CheckRequestOnly(h) ==
  LET c == held[h].request
  IN  /\ stage[h] = "check"
      /\ c # 0 => correction[c].payment = held[h].payment
      /\ held[h].officer =>
           /\ correction[c].status = "APPROVED"
           /\ correction[c].canEdit /\ ~correction[c].applied
      /\ c # 0 => correction[c].status \notin {"REJECTED", "CANCELLED"}
      /\ Opens(c)
      /\ report' = Reopened
      /\ stage' = [stage EXCEPT ![h] = "correct"]
      /\ UNCHANGED <<age, loan, fined, rows, correction, held, begun,
                     job, outdated, spoilt, voidEdited>>

\* The request must be for this payment, and for an officer approved and unused.
\* Then the gate is passed again, for the day the payment is moved to: the same.
CheckRequest(h) ==
  LET c == held[h].request
  IN  /\ stage[h] = "check"
      /\ held[h].balance >= 0
      /\ c # 0 => correction[c].payment = held[h].payment
      /\ held[h].officer =>
           /\ correction[c].status = "APPROVED"
           /\ correction[c].canEdit /\ ~correction[c].applied
      /\ c # 0 => correction[c].status \notin {"REJECTED", "CANCELLED"}
      /\ Opens(c)
      /\ report' = Reopened
      /\ stage' = [stage EXCEPT ![h] = "correct"]
      /\ UNCHANGED <<age, loan, fined, rows, correction, held, begun,
                     job, outdated, spoilt, voidEdited>>

\* The parts are rebuilt over all payments, the voided ones included.  An officer
\* may edit again: the request said so when it was checked.
CommitCorrection(h) ==
  LET p == held[h].payment
      c == held[h].request
      amt == [amount EXCEPT ![p] = held[h].amount]
  IN  /\ stage[h] = "correct"
      /\ amount' = amt
      /\ alloc' = Rebuilt({q \in Payments : state[q] # "none"}, amt)
      /\ correction' =
           IF c = 0 THEN correction
           ELSE [correction EXCEPT ![c] =
                  [payment |-> p, status |-> "APPROVED", applied |-> TRUE,
                   canEdit |-> held[h].officer,
                   authorized |-> @.authorized]]
      /\ voidEdited' = (voidEdited \/ state[p] = "voided")
      /\ WriteLoan(h, held[h].balance, held[h].status, "payments")
      /\ spoilt' = (spoilt \ {"parts"}) \cup Spoils(h)
      /\ Finish(h)
      /\ UNCHANGED <<age, report, finesTotal, fined, state, job>>

\* A request ends early: it is refused at its next check, or the server stops.
Stop(h) ==
  /\ stage[h] # "idle"
  /\ Finish(h)
  /\ outdated' = [outdated EXCEPT ![h] = {}]
  /\ UNCHANGED <<age, report, loan, fined, rows, correction, job,
                 spoilt, voidEdited>>

-----------------------------------------------------------------------------
(* Correction requests.                                                    *)

NoRequest == [payment |-> 0, status |-> "NONE", canEdit |-> FALSE,
              applied |-> FALSE, authorized |-> FALSE]

\* The day must be today's or yesterday's.  Only what the same person has asked
\* for before is given back as it is; another may ask for the same payment.
CreateRequest(p) ==
  /\ state[p] # "none" /\ age # 2
  /\ \E c \in Corrections :
       /\ correction[c] = NoRequest
       /\ \A d \in 1..(c - 1) : correction[d] # NoRequest
       /\ correction' = [correction EXCEPT ![c] =
            [NoRequest EXCEPT !.payment = p, !.status = "PENDING"]]
  /\ UNCHANGED <<age, report, loan, fined, rows, work, job,
                 outdated, spoilt, voidEdited>>

\* The review finds the request pending, and the owner asked where that is due.
StartReview(h, c, decision, canEdit) ==
  /\ correction[c].status = "PENDING"
  /\ decision = "APPROVED" /\ WithOwner(report) => correction[c].authorized
  /\ Begin(h, "review",
       [payment |-> 0, request |-> c, amount |-> 0, parts |-> NoParts, balance |-> 0,
        status |-> decision, officer |-> canEdit /\ decision = "APPROVED"])
  /\ UNCHANGED <<age, report, loan, fined, rows, correction, job,
                 spoilt, voidEdited>>

CommitReview(h) ==
  /\ stage[h] = "review"
  /\ correction' = [correction EXCEPT ![held[h].request] =
       [@ EXCEPT !.status = held[h].status, !.canEdit = held[h].officer]]
  /\ Finish(h)
  /\ outdated' = [outdated EXCEPT ![h] = {}]
  /\ UNCHANGED <<age, report, loan, fined, rows, job, spoilt, voidEdited>>

\* The owner authorizes a pending request; the report is returned after that.
Authorize(h, c) ==
  /\ correction[c].status = "PENDING" /\ WithOwner(report)
  /\ correction' = [correction EXCEPT ![c] = [@ EXCEPT !.authorized = TRUE]]
  /\ Begin(h, "return", Idle)
  /\ UNCHANGED <<age, report, loan, fined, rows, job, spoilt, voidEdited>>

ReturnReport(h) ==
  /\ stage[h] = "return"
  /\ report' = "RETURNED_TO_MANAGER"
  /\ Finish(h)
  /\ outdated' = [outdated EXCEPT ![h] = {}]
  /\ UNCHANGED <<age, loan, fined, rows, correction, job, spoilt, voidEdited>>

-----------------------------------------------------------------------------
(* Fines.                                                                  *)

\* The job reads the loan and its fines and lists the periods without one, out
\* of the n that have passed by now.
StartFines(w, n) ==
  /\ left[w] = {} /\ period[w] = 0
  /\ balance > 0 /\ loanStatus # "CLOSED"
  /\ begun < MaxOperations /\ begun' = begun + 1
  /\ left' = [left EXCEPT ![w] = (1..n) \ fined]
  /\ UNCHANGED <<age, report, loan, fined, rows, correction, stage, held,
                 period, seen, outdated, spoilt, voidEdited>>

\* The transaction of the next period reads the loan again; it has nothing to
\* do if the loan owes nothing by now or the period has its fine.
ReadForFine(w) ==
  /\ left[w] # {} /\ period[w] = 0
  /\ LET k == Min(left[w])
     IN  IF balance > 0 /\ k \notin fined
         THEN /\ period' = [period EXCEPT ![w] = k]
              /\ seen' = [seen EXCEPT ![w] = [balance |-> balance, fines |-> finesTotal]]
              /\ outdated' = [outdated EXCEPT ![w] = {}]
              /\ UNCHANGED left
         ELSE /\ left' = [left EXCEPT ![w] = @ \ {k}]
              /\ UNCHANGED <<period, seen, outdated>>
  /\ UNCHANGED <<age, report, loan, fined, rows, correction, work,
                 spoilt, voidEdited>>

NextPeriod(w) ==
  /\ left' = [left EXCEPT ![w] = @ \ {period[w]}]
  /\ period' = [period EXCEPT ![w] = 0]
  /\ seen' = [seen EXCEPT ![w] = NotSeen]

\* The unique index on loan and period refuses a second fine.  The loan owed
\* something when it was read, so it is never one the code would leave CLOSED.
ApplyFine(w) ==
  /\ period[w] # 0 /\ period[w] \notin fined
  /\ NextPeriod(w)
  /\ fined' = fined \cup {period[w]}
  /\ finesTotal' = seen[w].fines + Fine
  /\ WriteLoan(w, seen[w].balance + Fine, "IN_ARREARS", "fines")
  /\ spoilt' = spoilt \cup Spoils(w)
                 \cup (IF "fines" \in outdated[w] THEN {"fines"} ELSE {})
  /\ UNCHANGED <<age, report, rows, correction, work, voidEdited>>

\* Mutant: the loan is written before the fine's row, and not in one transaction.
FineFailsLate(w) ==
  /\ period[w] # 0 /\ period[w] \notin fined
  /\ NextPeriod(w)
  /\ finesTotal' = seen[w].fines + Fine
  /\ WriteLoan(w, seen[w].balance + Fine, "IN_ARREARS", "fines")
  /\ spoilt' = spoilt \cup Spoils(w)
                 \cup (IF "fines" \in outdated[w] THEN {"fines"} ELSE {})
  /\ UNCHANGED <<age, report, fined, rows, correction, work, voidEdited>>

\* The transaction fails, on that index or for another reason; the job goes on.
FineFails(w) ==
  /\ period[w] # 0
  /\ NextPeriod(w)
  /\ outdated' = [outdated EXCEPT ![w] = {}]
  /\ UNCHANGED <<age, report, loan, fined, rows, correction, work,
                 spoilt, voidEdited>>

JobDies(w) ==
  /\ left[w] # {}
  /\ left' = [left EXCEPT ![w] = {}]
  /\ period' = [period EXCEPT ![w] = 0]
  /\ seen' = [seen EXCEPT ![w] = NotSeen]
  /\ outdated' = [outdated EXCEPT ![w] = {}]
  /\ UNCHANGED <<age, report, loan, fined, rows, correction, work,
                 spoilt, voidEdited>>

-----------------------------------------------------------------------------
(* The calendar, and the day's report as the branch and the owner move it. *)

DayPasses ==
  /\ age < 2 /\ age' = age + 1
  /\ UNCHANGED <<report, loan, fined, rows, correction, work, job, outdated,
                 spoilt, voidEdited>>

ReportMoves ==
  /\ \/ report \in {"NONE", "RETURNED_TO_MANAGER"} /\ report' = "SENT_TO_OWNER"
     \/ report = "SENT_TO_OWNER" /\ report' = "RETURNED_TO_MANAGER"
  /\ outdated' = [y \in Actors |->
       IF ReliesOn(y, "report") THEN outdated[y] \cup {"report"} ELSE outdated[y]]
  /\ UNCHANGED <<age, loan, fined, rows, correction, work, job,
                 spoilt, voidEdited>>

-----------------------------------------------------------------------------
\* A loan on which one payment, or none, was recorded with nothing else under way.
Init ==
  /\ age = 0 /\ report = "NONE"
  /\ finesTotal = 0 /\ fined = {}
  /\ \E a \in {0} \cup Amounts :
       /\ a < Principal + Interest
       /\ a > 0 => MaxPayments > 0
       /\ balance = Principal + Interest - a
       /\ loanStatus \in IF a = 0 THEN {"SUBMITTED", "CURRENT"} ELSE {"CURRENT"}
       /\ state = [p \in Payments |-> IF p = 1 /\ a > 0 THEN "live" ELSE "none"]
       /\ amount = [p \in Payments |-> IF p = 1 THEN a ELSE 0]
       /\ alloc = [p \in Payments |-> IF p = 1 THEN Allocate(a, Debt) ELSE NoParts]
  /\ correction = [c \in Corrections |-> NoRequest]
  /\ stage = [h \in Requests |-> "idle"]
  /\ held = [h \in Requests |-> Idle]
  /\ begun = 0
  /\ left = [w \in Workers |-> {}]
  /\ period = [w \in Workers |-> 0]
  /\ seen = [w \in Workers |-> NotSeen]
  /\ outdated = [x \in Actors |-> {}]
  /\ spoilt = {} /\ voidEdited = FALSE

Next ==
  \/ DayPasses
  \/ ReportMoves
  \/ \E p \in Payments : CreateRequest(p)
  \/ \E h \in Requests :
       \/ \E a \in Amounts : StartRecord(h, a)
       \/ \E p \in Payments : StartVoid(h, p)
       \/ \E p \in Payments, c \in 0..MaxCorrections, a \in Amounts, officer \in BOOLEAN :
            StartCorrection(h, p, c, a, officer)
       \/ \E c \in Corrections, canEdit \in BOOLEAN :
            StartReview(h, c, "APPROVED", canEdit)
       \/ \E c \in Corrections : StartReview(h, c, "REJECTED", FALSE)
       \/ \E c \in Corrections : Authorize(h, c)
       \/ CommitRecord(h) \/ CommitVoid(h) \/ Gate(h) \/ CheckRequest(h)
       \/ CommitCorrection(h) \/ CommitReview(h) \/ ReturnReport(h) \/ Stop(h)
  \/ \E w \in Workers :
       \/ \E n \in Periods : StartFines(w, n)
       \/ ReadForFine(w) \/ ApplyFine(w) \/ FineFails(w) \/ JobDies(w)

Spec == Init /\ [][Next]_vars
-----------------------------------------------------------------------------
(* Properties.                                                             *)

LoanStatuses == {"SUBMITTED", "CURRENT", "IN_ARREARS", "CLOSED"}
Parts == [fees : Nat, interest : Nat, principal : Nat]
Work == [payment : 0..MaxPayments, request : 0..MaxCorrections, amount : Nat,
         parts : Parts, balance : Int,
         status : LoanStatuses \cup {"APPROVED", "REJECTED"}, officer : BOOLEAN]

\* The rows have their columns' values; no balance is ever negative.
TypeOK ==
  /\ age \in 0..2
  /\ report \in {"NONE", "SENT_TO_OWNER", "RETURNED_TO_MANAGER"}
  /\ balance \in Nat /\ loanStatus \in LoanStatuses /\ finesTotal \in Nat
  /\ fined \subseteq Periods
  /\ state \in [Payments -> {"none", "live", "voided"}]
  /\ amount \in [Payments -> Nat]
  /\ alloc \in [Payments -> Parts]
  /\ correction \in [Corrections ->
       [payment : 0..MaxPayments, applied : BOOLEAN, canEdit : BOOLEAN,
        authorized : BOOLEAN,
        status : {"NONE", "PENDING", "APPROVED", "REJECTED", "CANCELLED"}]]
  /\ stage \in [Requests -> {"idle", "record", "void", "gate", "check", "correct",
                             "review", "return"}]
  /\ held \in [Requests -> Work]
  /\ begun \in 0..MaxOperations
  /\ left \in [Workers -> SUBSET Periods]
  /\ period \in [Workers -> 0..MaxPeriods]
  /\ seen \in [Workers -> [balance : Nat, fines : Nat]]
  /\ outdated \in [Actors -> SUBSET {"payments", "fines", "report"}]
  /\ spoilt \subseteq {"balance", "fines", "parts"} /\ voidEdited \in BOOLEAN

Paid == SumFunctionOnSet(amount, Live)
Owed == Principal + Interest + finesTotal - Paid

\* Whatever is recorded, voided, corrected and fined in whatever order, the
\* balance is the debt less the live payments, unless a balance was written that
\* was computed from an outdated one, or a voided payment was corrected
\* (recordRepayment, voidRepayment, applyRepaymentCorrection, applyFinePeriod).
BalanceMatchesRepayments == "balance" \notin spoilt /\ ~voidEdited => balance = Owed

\* A correction is void and record anew in one ("same net effect as void +
\* re-record", applyRepaymentCorrection), so it too leaves the balance what the
\* debt and the live payments make it.
CorrectionIsVoidAndRecord == "balance" \notin spoilt => balance = Owed

\* Runs of the fines job that overlap, fail and die fine each period at most once:
\* the total never exceeds what the fined periods add up to, and it is exactly
\* that until two runs fine two periods from the same reading, one of which is
\* then missing from the total (LoanFinesService, the unique index of loan_fines).
FinesAddUp ==
  /\ finesTotal <= Fine * Cardinality(fined)
  /\ "fines" \notin spoilt => finesTotal = Fine * Cardinality(fined)

\* A loan is closed exactly when nothing is owed on it, however its writers
\* interleave: fully paid loans get no fines, reopened ones get them again.
ClosedExactlyWhenPaid == loanStatus = "CLOSED" <=> balance = 0

\* No payment is split into more than its amount, and no more of the interest or
\* of the principal is booked as paid than there is of it, nor of the fines while
\* their total misses none.  Only a recording that split its amount before another
\* payment was written may book the same part twice, and the next void or correction
\* puts that right, also where the balance is wrong by then
\* (recordRepayment, rebuildLoanRepaymentState).
PartsFitTheDebt ==
  /\ \A p \in Live :
       alloc[p].fees + alloc[p].interest + alloc[p].principal <= amount[p]
  /\ "parts" \notin spoilt =>
       /\ SumFunctionOnSet(Interests, Live) <= Interest
       /\ SumFunctionOnSet(Principals, Live) <= Principal
       /\ "fines" \notin spoilt => SumFunctionOnSet(Fees, Live) <= finesTotal

\* A payment on a day whose report is with the owner is voided or corrected only
\* if the report was sent after the request had looked at it for the last time:
\* otherwise the owner authorized it and the report came back first
\* (assertRepaymentOpenForCorrection, called twice by a correction).
ReportWithOwnerIsSettled ==
  [][\A p \in Payments :
       state[p] # "none" /\ <<amount, state>>' # <<amount, state>>
         /\ <<amount[p], state[p]>>' # <<amount[p], state[p]>> /\ WithOwner(report)
       => \E h \in Requests : held[h].payment = p /\ "report" \in outdated[h]]_vars
=============================================================================
