------------------------- MODULE RepaymentSchedule -------------------------
(***************************************************************************)
(* What a borrower is asked for from day to day: the due dates of a loan,  *)
(* what each of the two schedules of collection-schedule.ts expects today, *)
(* and how the day's payments are judged                                   *)
(* (services/api/src/modules/collections, loan-products, loans).           *)
(*                                                                         *)
(* The schedule is stored nowhere: it is computed from the loan and its    *)
(* payments whenever a screen asks.  From the dated payments when they add *)
(* up to what was paid, and from that total alone otherwise, as for a loan *)
(* taken over from another system or a caller that loads no payments.      *)
(* Days are numbered from 1 January; amounts are in the smallest unit the  *)
(* code rounds to.                                                         *)
(***************************************************************************)
EXTENDS Integers, Sequences, FiniteSets, FiniteSetsExt, Functions

CONSTANTS
  Loans,        \* agreements: total, start, duration, cadence, imported
  Amounts,      \* what a borrower may pay, beside exactly what is asked
  MonthLengths, \* the calendar
  Week,         \* days in a week
  FinePeriod, Fine,
  MaxPayments,  \* bound on the days with a payment
  After         \* bound on the days after maturity

\* Loans begin, end and are looked at within the calendar; one taken over has
\* not been paid more than it is worth.
ASSUME ScheduleAssumptions ==
  /\ MonthLengths \in Seq(Nat \ {0})
  /\ Week \in Nat \ {0} /\ FinePeriod \in Nat \ {0} /\ Fine \in Nat
  /\ After \in Nat
  /\ \A l \in Loans :
       /\ l.total \in Nat /\ l.imported \in 0..l.total
       /\ l.start \in Nat \ {0, 1} /\ l.duration \in Nat \ {0}
       /\ l.start + l.duration - 1 + After <= SumFunction(MonthLengths)

VARIABLES
  loan,     \* the agreement, with its due dates, which every call computes anew
  today,
  paid,     \* per day: the repayments of that day together
  balance,  \* the loan row
  fined,    \* periods that have a loan_fines row
  missed    \* history: a day ended with something still expected

vars == <<loan, today, paid, balance, fined, missed>>

-----------------------------------------------------------------------------
(* Money and the calendar.                                                 *)

Pos(x) == IF x > 0 THEN x ELSE 0
Lesser(a, b) == IF a < b THEN a ELSE b

\* A quotient of amounts, rounded half up.
RoundDiv(a, b) == (2 * a + b) \div (2 * b)

LastDay == SumFunction(MonthLengths)
Days == 1..LastDay
FirstOf(m) == 1 + SumFunctionOnSet(MonthLengths, 1..m - 1)
MonthOf(d) == Max({m \in DOMAIN MonthLengths : FirstOf(m) <= d})

\* The same day k months on, or the last day of a month that is too short.
AddMonths(d, k) ==
  LET m == MonthOf(d)
  IN  FirstOf(m + k) + Lesser(d - FirstOf(m), MonthLengths[m + k] - 1)

-----------------------------------------------------------------------------
(* The due dates.                                                          *)

Maturity(l) == l.start + l.duration - 1

Interval(l) == CASE l.cadence = "WEEKLY" -> Week
                 [] l.cadence = "BIWEEKLY" -> 2 * Week
                 [] OTHER -> 1

\* The days of the cadence up to maturity.  None but a lump sum goes without
\* the first one here.
OnCadence(l) ==
  LET end == Maturity(l)
  IN  CASE l.cadence = "LUMP_SUM" -> {end}
        [] l.cadence = "MONTHLY" ->
             LET later == 0..Len(MonthLengths) - MonthOf(l.start)
             IN  {d \in {AddMonths(l.start, k) : k \in later} : d <= end}
        [] OTHER -> {d \in l.start..end : (d - l.start) % Interval(l) = 0}

\* Maturity is a due date; in a cadence of weeks it stands for the day before, which
\* can only be the last date the cadence gives.
DueDates(l) ==
  LET on == OnCadence(l)
      moved == IF l.cadence \in {"WEEKLY", "BIWEEKLY"}
               THEN on \ {Maturity(l) - 1} ELSE on
  IN  moved \cup {Maturity(l)}

\* The due dates in order.
InOrder(S) ==
  [n \in 1..Cardinality(S) |->
     CHOOSE d \in S : Cardinality({e \in S : e <= d}) = n]

ScheduledDates(l) == InOrder(DueDates(l))

Contractual(l) == RoundDiv(l.total, Len(l.dates))

FineDueDate == loan.start + loan.duration

\* The periods that are due after maturity and not fined.
MissingFinePeriods(asOf) ==
  IF balance <= 0 THEN {}
  ELSE 1..(asOf - FineDueDate) \div FinePeriod \ fined

-----------------------------------------------------------------------------
(* The schedule from dated payments.                                       *)

\* Paid on the days of S.
Total(rows, S) == SumFunctionOnSet(rows, S)

\* Mutant: what a payment leaves of the due amount is forgiven.
Forgive(w, amount, dueNow) ==
  [w EXCEPT !.balance = @ - Lesser(@, amount),
            !.arrears = IF amount > 0 THEN 0 ELSE dueNow]

\* A payment lowers the balance and what is due now; none is kept in hand.
ApplyPayment(w, amount, dueNow) ==
  LET applied == Lesser(w.balance, amount)
  IN  [w EXCEPT !.balance = @ - applied, !.arrears = Pos(dueNow - applied)]

\* Mutant: the last instalment is like the others.
ScheduledAlike(w, n, N) == w.instalment

\* What the n-th of N due dates asks for beside the arrears.
Scheduled(w, n, N) ==
  IF n = N THEN Pos(w.balance - w.arrears) ELSE w.instalment

\* The n-th of N due dates: before is paid since the last one, same that day.
\* Only a payment beyond what is due on a due date reshapes the instalments.
OnDueDate(w, n, N, before, same) ==
  LET v == ApplyPayment(w, before, w.arrears)
      scheduled == Scheduled(v, n, N)
      due == v.arrears + scheduled
      end == ApplyPayment(v, same, due)
  IN  [end EXCEPT
         !.scheduled = scheduled,
         !.carried = v.arrears,
         !.instalment = IF Lesser(v.balance, same) > due /\ n < N
                        THEN RoundDiv(Pos(end.balance - end.arrears), N - n)
                        ELSE @]

\* How a loan stands after a due date.
Standing == [balance : Nat, arrears : Nat, instalment : Nat, scheduled : Nat,
             carried : Nat]

\* The first day after k due dates.
DayAfter(l, k) == IF k = 0 THEN 1 ELSE l.dates[k] + 1

AtStart(l) ==
  [balance |-> l.total, arrears |-> 0, instalment |-> Contractual(l),
   scheduled |-> 0, carried |-> 0]

\* What is paid between the due date before the n-th and that one.
Between(l, rows, n) == Total(rows, DayAfter(l, n - 1)..l.dates[n] - 1)

\* The n-th due date, rows being paid per day.
Step(l, rows, n) ==
  [w \in Standing |->
     OnDueDate(w, n, Len(l.dates), Between(l, rows, n), rows[l.dates[n]])]

\* The walk over the due dates: at[n] after n of them.
Walk(l, rows) ==
  LET at[n \in 0..Len(l.dates)] ==
        IF n = 0 THEN AtStart(l) ELSE Step(l, rows, n)[at[n - 1]]
  IN  at

Came(l, asOf) == {n \in DOMAIN l.dates : l.dates[n] <= asOf}

Recalculated(l, rows, asOf) ==
  LET k == Cardinality(Came(l, asOf))
      dueDay == k > 0 /\ l.dates[k] = asOf
      late == Total(rows, DayAfter(l, k)..asOf)
      next == IF k < Len(l.dates) THEN l.dates[k + 1] ELSE Maturity(l)
      answer[w \in Standing] ==
        LET now == ApplyPayment(w, late, w.arrears)
            expected == Lesser(now.balance, now.arrears)
            carried == IF dueDay THEN w.carried ELSE 0
        IN  [expectedToday |-> expected,
             scheduledToday |-> IF dueDay THEN w.scheduled ELSE 0,
             carriedForward |-> carried,
             dueIsToday |-> now.balance > 0 /\ expected > 0,
             label |-> IF now.balance = 0 THEN "Paid up"
                       ELSE IF expected = 0
                       THEN IF next <= asOf THEN "Due today" ELSE "Due in days"
                       ELSE IF carried > 0 \/ asOf > Maturity(l) THEN "Overdue"
                       ELSE "Due today"]
  IN  answer[Walk(l, rows)[k]]

-----------------------------------------------------------------------------
(* The schedule from the total paid.                                       *)

\* Mutant: the day's own instalment counts as arrears.
CarriedWhole(l, expected) == expected

\* Arrears are what is expected beside the normal instalment.
CarriedForward(l, expected) ==
  IF expected = 0 THEN 0 ELSE Pos(expected - Contractual(l))

\* What is to be paid by the n-th due date.
ExpectedFor(l, n) ==
  IF n <= 0 THEN 0
  ELSE IF n >= Len(l.dates) THEN l.total
  ELSE Lesser(l.total, Contractual(l) * n)

Cumulative(l, bal, paidAmount, asOf) ==
  LET N == Len(l.dates)
      k == Cardinality(Came(l, asOf))
      dueDay == k > 0 /\ l.dates[k] = asOf
      expected == Lesser(bal, Pos(ExpectedFor(l, k) - paidAmount))
      carried == CarriedForward(l, expected)
      covered == IF Contractual(l) = 0 THEN 0
                 ELSE Lesser(N, paidAmount \div Contractual(l))
      next == IF Max({covered, k}) < N THEN l.dates[Max({covered, k}) + 1]
              ELSE Maturity(l)
  IN  [expectedToday |-> expected,
       scheduledToday |->
         IF dueDay THEN Pos(ExpectedFor(l, k) - ExpectedFor(l, k - 1)) ELSE 0,
       carriedForward |-> carried,
       dueIsToday |-> bal > 0 /\ expected > 0
                      /\ (dueDay \/ carried > 0 \/ asOf > Maturity(l)),
       label |-> IF bal = 0 THEN "Paid up"
                 ELSE IF k = 0 THEN "Due in days"
                 ELSE IF asOf > Maturity(l) \/ carried > 0 THEN "Overdue"
                 ELSE IF expected > 0 \/ next <= asOf THEN "Due today"
                 ELSE "Due in days"]

\* Which of the two a caller with these rows gets.  A unit is a cent; a difference of
\* just one passes for none, where floating point may decide either way.
CollectionSchedule(l, rows, bal, paidAmount, asOf) ==
  LET dated == Total(rows, 1..LastDay)
  IN  IF dated - paidAmount \in -1..1 THEN Recalculated(l, rows, asOf)
      ELSE Cumulative(l, bal, paidAmount, asOf)

-----------------------------------------------------------------------------
(* What the screens show of the loan.                                      *)

\* Paid towards the debt, told from what is outstanding.
PaidAmount == Pos(loan.total + Fine * Cardinality(fined) - balance)

\* Mutant: the morning's total keeps what was paid today.
PaidBeforeKept == Pos(PaidAmount)

PaidBefore == Pos(PaidAmount - paid[today])

\* The detail of the loan now, and as it stood this morning.
Detail == CollectionSchedule(loan, paid, balance, PaidAmount, today)
Morning == CollectionSchedule(loan, [paid EXCEPT ![today] = 0],
             balance + paid[today], PaidBefore, today)

\* The morning of the due list: it keeps the rows of today.
ListMorning ==
  CollectionSchedule(loan, paid, balance + paid[today], PaidBefore, today)

\* A part of what the day expects does not cover it, though the comment over
\* DueDayCoverage has any payment count the day as attended.
FullyCovered(m) == m.expectedToday <= paid[today]

\* A borrower's place in the day's collection, given the morning's schedule.
Coverage(m) ==
  LET covered == FullyCovered(m)
  IN  IF m.label = "Overdue" \/ m.carriedForward > 0
      THEN IF covered THEN "overdue_paid" ELSE "overdue_unpaid"
      ELSE IF \/ m.dueIsToday \/ m.expectedToday > 0 \/ m.scheduledToday > 0
              \/ m.label = "Due today"
      THEN IF covered THEN "due_paid" ELSE "due_unpaid"
      ELSE "none"

-----------------------------------------------------------------------------

Init ==
  /\ \E l \in Loans :
       loan = [total |-> l.total, start |-> l.start, duration |-> l.duration,
               imported |-> l.imported, dates |-> ScheduledDates(l)]
  /\ today = loan.start - 1
  /\ paid = [d \in Days |-> 0]
  /\ balance = loan.total - loan.imported
  /\ fined = {}
  /\ missed = FALSE

\* A repayment at the counter, no more than is outstanding.
Pay(a) ==
  /\ a \in 1..balance
  /\ paid[today] = 0 => Cardinality({d \in Days : paid[d] > 0}) < MaxPayments
  /\ paid' = [paid EXCEPT ![today] = @ + a]
  /\ balance' = balance - a
  /\ UNCHANGED <<loan, today, fined, missed>>

\* The fines job comes by: every period that is due and not yet fined.
ApplyFines ==
  LET missing == MissingFinePeriods(today)
  IN  /\ missing # {}
      /\ fined' = fined \cup missing
      /\ balance' = balance + Fine * Cardinality(missing)
      /\ UNCHANGED <<loan, today, paid, missed>>

NextDay ==
  /\ today < Maturity(loan) + After
  /\ today' = today + 1
  /\ missed' = (missed \/ Detail.expectedToday > 0)
  /\ UNCHANGED <<loan, paid, balance, fined>>

Next ==
  \/ \E a \in Amounts \cup {Detail.expectedToday} : Pay(a)
  \/ ApplyFines
  \/ NextDay

Spec == Init /\ [][Next]_vars

-----------------------------------------------------------------------------
(* Properties.                                                             *)

\* What the fines have added to the debt.
Fines == Fine * Cardinality(fined)

\* From maturity on the whole debt but the fines is expected, whatever the
\* cadence, the rounding, the advances and the schedule it is computed by:
\* no cent of a loan is left that no day asks for.  One taken over with a single
\* unit paid passes for dated, and is asked for that unit again.
WholeDebtDueAtMaturity ==
  LET unseen == IF loan.imported = 1 THEN 1 ELSE 0
  IN  today >= Maturity(loan) =>
        Detail.expectedToday = Pos(balance - Fines + unseen)

\* A borrower who owes but has met every day's expectation is never shown
\* arrears: not for an advance, a short period or a payment between due dates.
\* Loans whose payments are not all dated may show what rounding has left.
ArrearsOnlyAfterMissing ==
  LET left == IF loan.imported = 0 THEN 0
              ELSE Pos(loan.total - Contractual(loan) * Len(loan.dates))
  IN  ~missed /\ balance > 0 => Detail.carriedForward <= left

\* In the loan list a borrower counts as unpaid for the day exactly while the
\* detail of the loan, computed again after each payment, still asks for something:
\* a part of what is expected leaves the day unpaid (classifyDueDayCoverage and
\* its test "keeps a partial same-day payment due until the full obligation is
\* covered"), not attended as the comment over DueDayCoverage says.
UnpaidWhileDue ==
  Coverage(Morning) \in {"due_unpaid", "overdue_unpaid"}
    <=> Detail.expectedToday > 0

\* A payment takes its amount off what is expected today and shifts nothing
\* else onto the day, whatever it does to the instalments to come.
PaymentSettlesTheDay ==
  [][paid' # paid =>
       Detail'.expectedToday
         = Pos(Detail.expectedToday - (balance - balance'))]_vars

\* As the tests of classifyDueDayCoverage have it, who has paid a part of what
\* is due is unpaid - in the due list too (violated).
DueListUnpaidWhileDue ==
  Detail.expectedToday > 0 =>
    Coverage(ListMorning) \in {"due_unpaid", "overdue_unpaid"}
=============================================================================
