# REMBEH: models, checks and proofs

REMBEH runs the daily business of a microfinance lender: officers collect
repayments, in the field often without a connection; a branch opens a business
day, keeps its cash book, counts the till and reports to the owner; customers
get SMS messages paid from a prepaid wallet. Money moves in all of them, through
code that runs as chains of separate database calls, with other requests, phones
that lose their connection, callbacks of payment providers and crons in between.
This directory models that code in TLA+, checks it with TLC and proves part of it
with TLAPS.

| module | what it is |
|---|---|
| `UploadQueue` | offline work of phones and its upload: phone, network and server together |
| `BranchDay` | the business days of a branch, their corrections and the owner's reports |
| `LoanLedger` | one loan: payments at the counter, voids, corrections under request, fines |
| `RepaymentSchedule` | what a borrower is asked for from day to day, by two schedules |
| `CashShortages` | handovers that come up short, charged to an employee, merged and paid |
| `SmsPurchases` | purchases of SMS bundles and everyone who settles them |
| `SmsCredits` | the SMS wallet, send requests, retries and the expiry cron |
| `PrepaidHold` | abstract: what a prepaid wallet promises; `SmsCredits` implements it |
| `UploadQueueProofs`, `BranchDayProofs`, `LoanLedgerProofs`, `RepaymentScheduleProofs`, `CashShortagesProofs`, `SmsPurchasesProofs`, `SmsCreditsProofs` | theorems, for every value of the constants |
| `SumTheorems` | facts about sums over finite sets, which the proofs about money cite |
| `...MC` | the instances TLC checks |

Paths below are relative to `src/services/api/src/modules` (API) or
`src/apps/mobile/lib` (phone).

## Inventory

### Offline upload queue (phone `core/sync`, `core/database`; API `sync`)
- State: rows of `pending_operations` on the phone (status, retry count,
  createdAt, localId); the upload that runs in each `SyncService`; on the server
  the tables it writes, and whatever a handler has read and not yet written.
- Operations: record work, `performFullSync` (read open rows, send in batches of
  50, book the answer row by row, delete old uploaded rows),
  `processOperationQueue` (duplicate check, validation, insert, balance).
- Interactions: HTTP with a client timeout that does not stop the server's
  handler; two `SyncService` instances live on one phone (`agent_shell.dart`,
  `agent_profile_screen.dart`); the online application writes the same tables.
- Hard: lost answers and retries, concurrent handlers, read-then-write balances,
  app deaths between booking two rows, rows booked by an identifier that need
  not be unique, five retries and no more.
- Right means: nothing booked as uploaded is missing on the server; no amount is
  deducted twice; the balance is the principal less the repayments; no more is
  paid out than the principal; work shown as failed is not on the server; all
  work settles.

### Branch days (API `operations`, `salaries`)
- State: one row per branch and date (status, opening, closing), the cash book
  (expenses, bankings, top-ups, salary payments), the count, the report with its
  snapshot, the shortage of a close.
- Operations: opening by hand, by cron or by reading a day; deletion of empty
  days; records, counts, submission, confirmation and its undo, approval, return,
  correction that is carried into later days.
- Interactions: each request ends in `getToday`, which opens, deletes and
  reports days itself; corrected repayments refresh the report.
- Hard: the calendar moves between requests; days depend on each other through
  their openings; a submission is a chain of reads and writes without a lock, and
  may stop between any two of them.
- Right means: the owner's report says what the books say; each day opens with
  what the last one closed with; a shortage is what its report shows; a day does
  not stay half closed; paid money stays on its day.

### Repayments at the counter, corrections and fines (API `collections`, `loan-products`)
- State: the loan row (balance, status, total of fines), repayment rows with the
  parts they pay, correction requests, one row per fined period.
- Operations: `recordRepayment`, `voidRepayment`, `applyRepaymentCorrection`, the
  request, review and owner authorization of a correction, `runForTenant` of the
  fines, by night or by hand.
- Interactions: a correction of a day whose report the owner holds returns that
  report; a void cancels the open requests for its payment.
- Hard: the balance is computed from a loan read before the transaction that
  writes it; a correction passes several checks before it writes; two runs of the
  fines job at a time.
- Right means: balance and repayments agree; a loan is closed exactly if it owes
  nothing; a period is fined once; what the owner holds does not change behind
  her back.

### Repayment schedule and due list (API `collections/collection-schedule.ts`, `loans`)
- State: none of its own; computed from the loan and its payments at each call.
- Operations: due dates per cadence; the schedule from dated payments and the one
  from the total paid; the coverage of a due day in the loan list and the due
  list; the fine periods that are missing.
- Hard: rounding, months of different length, advances that reshape instalments,
  two schedules that have to agree, screens that call them with different rows.
- Right means: the instalments add up to the debt; arrears show only for who
  missed something; a day is judged alike everywhere.

### Cash shortages (API `cash-shortages`, handovers of `operations`)
- State: rows with source, original and outstanding amount, status; payments.
- Operations: charge a handover that is short, merge open rows, pay, settle out of
  a salary, align a row with a revised handover or a refreshed day.
- Hard: outstanding amounts are read before the write; merged rows lose their
  source; what was paid is derived from the row it is derived for.
- Right means: outstanding = original - payments; a handover is charged once;
  payments do not disappear.

### SMS bundle purchases (API `billing`, `payments`, `sms-credits`)
- State: the purchase row (provider, status, transaction, expiry) and the wallet.
- Operations: checkout, webhook, redirect of the browser, reconcile on demand, two
  polling jobs, manual merchant payments, notifications of the former provider.
- Interactions: Flutterwave and Pesapal (external) answer late, twice or never.
- Hard: each handler reads, asks the provider and writes in separate statements;
  only the crediting locks the row.
- Right means: what is credited was paid, once; what was paid is credited in the
  end.

### SMS credits wallet (API `sms-credits`)
- State: the wallet row, ledger entries, message rows with status, expiry and
  parent.
- Operations: send (insert, reserve, mark, call, settle or release or hold),
  retry, the five-minute cron that lists stale rows and releases them, top-ups.
- Interactions: the provider (external); the cron and a user's retry act on rows
  a send request is still working on.
- Hard: a request may die between any two of its calls; the provider may have
  sent a message whose answer is lost; the cron acts on a list that has aged.
- Right means: units are neither made nor lost; the reserve is what the ledger
  shows open; a message is charged once, exactly if accepted; retries never
  overlap the attempt they repeat; a reservation ends.

### How they interact
`SmsPurchases` ends in the top-ups of `SmsCredits` (`creditPurchaseOnce`).
`BranchDay` has the shortage of a close, `CashShortages` those charged to an
employee; `refreshDayAfterRepaymentCorrection`, which a correction of `LoanLedger`
ends in, is `Revise`, `Carry`, `Rebuild` in the first and `StartRefresh` in the
second. The queue of `UploadQueue` and the counter of `LoanLedger` write the same
loans by different code. `RepaymentSchedule` computes from what either has
written. Each module is checked on its own: together they would be beyond TLC,
and what one needs of another (units are added, a day is refreshed, a report moves)
is an action of it that may happen at any time.

## How the models correspond to the code

### UploadQueue
`queue[d][o]` is the row of operation `o` on phone `d`; `upload[s]` the
`uploadPendingQueue` a service runs (rows left, the batch sent, the answer being
booked); `handler[r]` a `processOperationQueue` that runs on the server, one
database call per step; `stored`, `balance`, `activated`, `applied` the server's
tables. `StartUpload` and `NextBatch` send, `GiveUp` is the client's timeout
after which the handler goes on for nobody, `AppDies` and `ServerDies` cut either
side off between two steps, `StepFails` makes one database call throw. `SaveResult`
books a result on the row the code finds for it: the first of the batch with the
result's localId (`RowFor`), which is another's if localIds repeat.

Three sets of operations are history and appear in premises. `stale`: written from a
balance, or a remainder to pay out, that another handler has changed since it was
read. `cut`: repayments whose handler ended after the insert and before it wrote the
balance. `doubted`: operations sent while an earlier try was under way or not booked
yet, and those a call failed for after they were stored.

Abstractions: operations are numbered in the order of createdAt; payloads are the
loan, the amount and the localId; a removed uploaded row is a status of its own;
pending and failed rows are read in one step (two SELECTs in the code); an insert that
commits and then throws is covered for repayments, where the balance call follows it.
`Workloads` bounds which operations one behaviour records.

### BranchDay
`todo[r]` is the list of steps that request `r` still has to take, each one read
or one transaction; `Begin...` holds the checks a handler makes before it writes,
the steps hold the writes, and what a request has read travels in its step. All
recorded amounts are one unit of cash; counts are 0 or 1. Each kind of record is
made at most once a day. `status` "NONE" is a day without a row. `before` is the
status the audit log keeps for the ten seconds of the undo; it matters only while
the report is sent. `salary` "adrift" is a payment whose day was deleted. Days
past `LastDay` are outside the model: what would open or carry into them does
nothing. `Stop(r)` ends a request between any two calls (a call that throws, a
server that goes down); `MaxStops` bounds how many do.

`outdated` and `overtaken` are history. A day becomes overtaken when a request
changes it although another has changed it since the first one began, or when a
correction stops before it came to a day whose report was not returned: nobody
will come back to it. `ReportMatchesBooks` speaks of all the other days. A
returned day is never overtaken by a stop, as it is refreshed when it is sent
again; that is what the property shows.

Left out: floats and handovers, loans and collections of the day, editing an
expense, notes, shortages charged to a person, permissions, and payments on the
shortage of a close: once something is paid, a correction that clears the shortage
keeps the paid amount as its original (`cash-shortages.service.ts:897`), and it no
longer matches the report; `ShortageMatchesReport` is about shortages nobody has
paid on. Reads that follow each other are one step where the code has several: the
day, its count and its books of a submission (`BeginSubmit`), what a report shows and
its creation (`EnsureReport`, `ReportClose`), the day that `Rebuild` computes from,
which the code has read a few statements earlier. What changes in between is inside
what `outdated` and `overtaken` excuse.

### LoanLedger
`balance`, `loanStatus`, `finesTotal` are the loan row; `state`, `amount`, `alloc`
the repayments; `correction` the request rows. `Start...` is what a handler reads
and computes, `held[h]` what it carries, `Commit...` its transaction. Between them
a correction takes the steps `Gate` (`assertRepaymentOpenForCorrection`, which may
return the report) and `CheckRequest`, which passes the same gate again. A fine is a read and a write of a
transaction of its own (`ReadForFine`, `ApplyFine`); the unique index refuses the
second row of a period (`FineFails`). `age` and `report` are the business day of
the payments as the corrections see it.

`outdated` is what of payments, fines and report has changed since an actor read it.
`spoilt` says which of three things go by an outdated reading: the `balance` that was
written, the total of the `fines`, and the `parts` a recording has split its amount
into, until the next void or correction computes all parts anew. `voidEdited` says
that a voided payment was corrected. The properties with these in their premises say
exactly in which case the code does not hold, each for itself: two money operations
at a time, two runs of the fines job that fine different periods, and a correction of
a voided payment. A second person may ask for a correction of a payment that has a
pending request, as in the code. `ApplyFine` writes IN_ARREARS; that it would leave a
CLOSED loan alone cannot be met, since a closed loan gets no fine. Amounts are small
integers; allocation is fines, interest, principal in
that order as in the code.

### RepaymentSchedule
`loan` is the agreement with its due dates (computed once here, at each call in
the code), `paid` the repayments per day, `balance` and `fined` what
is stored. `Recalculated` is `computeRecalculatedSchedule` as a walk over the due
dates, `Cumulative` the other branch of `computeCollectionSchedule`,
`CollectionSchedule` the choice between the two. `Detail`, `Morning` and
`ListMorning` are the calls the loan detail, the loan list and the due list make.
A week has three days and the months have 7, 4, 7 and 6: what matters is that a
period is longer than one day and a month shorter than the one before it. A
loan taken over from another system (`imported`) is one whose payments do not
add up, and takes the cumulative schedule throughout, unless what was paid on it is
the one unit by which the code lets them differ. Amounts are in the smallest unit
the code rounds to, so its floating-point tolerances (0.01 between what is dated and
what is paid, 0.001 in the coverage of a day) are exact: a difference of just one unit
passes, where floating point may decide either way. Of a cadence of weeks the day
before maturity is dropped; the code drops it if it is the last date, which it is. The operators of a schedule take the agreement and the rows as
parameters, as the function in the code does, and a step of the walk is a function
on `Standing`. Due dates of fines (start + duration) and maturity (start
+ duration - 1) differ by a day, as in the code.

### CashShortages
`short[f]` is what handover `f` lacks, `row` the table, `paid` the payments by
row. `StartHandover` and `WriteFloat` are `recordAgentReturnInternal` of a first or
a revised handover; `FindSource`, `ReadOpenRows`, `ChargeNewRow`, `MovePayments`,
`ChargeOpenRow` are `createShortage` call by call; `FindForSync` and `Align`
`syncExistingShortageToVariance`. `read` and `seen` keep what a request has read.
History: `overwritten` (a row written from an outdated read), `forgotten` (an
amount set below what had been paid), `merged` (the sources whose charge went into
the row of another, or whose row went into another's), `crossed` (the handovers two
requests were at at a time). The last two are sets, so that `ChargedOnce` speaks of
every handover for itself. `Init` allows a row per handover, as rows from before the merging was
introduced, and two charges at a time, leave them; `Earlier` is what they lack.

### SmsPurchases
An actor is a request or a polling job; `stage`, `at`, `attempt`, `next` are the
step it takes next, the purchase, the attempt to pay and the status it is about to
write. `Confirm` and `Credit` are the two writes of a successful answer, `FailRead`
and `WriteStatus` those of a failure; only `Credit` looks at the row under a lock.
`outcome` is external: what the provider says of each attempt. A customer tries
again only after an attempt has failed. Webhooks may come at any time, twice or
never. One purchase has one bundle; the 48 hours of the recovery job and its limit
of 100 rows are left out, and one job runs at a time. `outdated` are actors whose purchase was credited since
they began.

### SmsCredits and PrepaidHold
`stage[m]` is how far the request of message `m` has come, `status[m]` what its
row says, `entries[m]` how many ledger entries of each type name it. Each wallet
change is one action, as it is one transaction under the row lock. `delivered`
records what the provider really did. Time is one bit per message: its
reservation has expired. `PrepaidHold` states the promise without any of that:
units of a message are taken once, then kept or given back, once. `SmsCredits`
implements it with the account of a message read off its ledger entries.
`SendOutlivesHold` says whether a provider call may last longer than the
reservation; the provider is external.

## Runs

| run | bounds | shows |
|---|---|---|
| `sync` | 2 services of one phone, 2 repayments or 2 payouts of a loan, 2 requests, batches of 2, all faults, 1 retry, symmetry of services and requests | what is uploaded is stored, no double deduction; balances, payouts and work given up are right under every interleaving, loss and death, but for the operations `stale`, `cut` and `doubted` name |
| `sync_settles` | 2 phones with 2 payouts of one loan, or one phone with a repayment and an application; batches of 1, 2 requests, timeouts, 2 retries | all work settles (liveness) |
| `branch_day` | 2 days, 1 request at a time, one of which stops; counts of 0 and 1, a top-up on the second day | `ReportMatchesBooks`, `ShortageMatchesReport` through returns, recounts, undos and a correction that reaches the next day |
| `branch_day_overlap` | 1 day, 2 requests, an expense that may be voided, a salary, counts of 0 | reports and books part only on overtaken days; a day that is being closed ends up closed and reported (liveness) |
| `ledger` | 2 payments, 2 requests, 2 runs of the fines job at a time, 2 periods, 1 correction request, 3 operations, runs of the job included | balance, fines and parts are right, each until it goes by an outdated reading; the fines never exceed the fined periods, `ClosedExactlyWhenPaid` and `ReportWithOwnerIsSettled` hold always |
| `ledger_voided` | 2 payments, 1 request, 1 run of the fines job, 1 period, 3 operations | counterexample to `CorrectionIsVoidAndRecord`: a voided payment is corrected |
| `terms` | 9 agreements over every cadence, payments on 2 days, 3 days past maturity | the schedule adds up, arrears need a missed day, the loan list judges the day as the detail does, a payment settles its day |
| `terms_due_list` | the same | counterexample to `DueListUnpaidWhileDue`: the due list changes schedules during the day |
| `shortages` | 2 handovers, 2 rows, 2 requests, 3 operations | outstanding amounts, statuses and payments agree, each with the exception the property names; a handover that was neither merged nor crossed is charged once, whatever becomes of others |
| `sms_purchases` | 2 purchases of any provider, 2 requests, 1 job, 1 attempt, 2 deliveries | credited only if paid; a second credit needs an overwritten status, and only who began before overwrites; paid is credited (liveness) |
| `sms_purchases_twice` | 1 purchase, 1 request, 1 job | counterexample to `CreditedOnce`: PAYMENT_CONFIRMED is written over CREDITED |
| `sms_credits` | 2 rows, 1 or 2 units each, 4 units bought in twos | all invariants, `HoldsAreResolved`, and that `PrepaidHold` is implemented, when provider calls end before the hold |

The longest are `branch_day` (1.5 million states), `shortages` (0.8 million), `ledger`
and `sync` (0.6 million each), one to two minutes each, and `sync_settles` (65
thousand states, whose liveness takes up to three).

Why the bounds are enough. Two services and two requests are what it takes for
two handlers to hold the same operation, and one retry what it takes to give up;
a second one lets a refused payout be sent again, which liveness is about. Two
repayments of 2 and 3 on a balance of 4 meet its lower end, two payouts of 4 and 1
compete for a principal of 4.
Two days are what it takes for a closing to be carried into a closed day; the first
is corrected by a recount, the second has the top-up. In the overlapping run one
day is enough for two submissions, records and corrections to cross; its counts are
all 0 against an opening of 1, so that a day closes short until the expense or the
salary is booked. No day is deleted in it: the races with deletion are modelled
(`DeleteDay`, `WhatWorksWithout`) and not checked, and neither are two recounts that
cross. Bankings and expenses are the same steps but for the void. On one loan, two operations at a time are what it takes to
overwrite a balance, a void and a correction of one payment what it takes to
cross; principal, interest and fine of one unit each are distinguished by the
parts they are paid in, and amounts of 1 and 2 both leave and close the loan. Two runs
of the fines job over two periods fine the same period (one is refused by the index)
or one each (one is lost from the total); the third operation is a payment or a void
beside them.
Two shortage rows are what it takes to merge, three operations a charge, a
payment and a revision. Two purchases are what it takes for a new one to replace
an old one; two requests beside the job what it takes for two writers to cross in
any of their steps. Two message rows are an attempt and its retry, or two requests
for the last units; with prices of 1 and 2 and four units bought, the wallet both
suffices and runs out. The agreements of `terms` put maturity on, next to and away
from the last day of the cadence and one period below a week; two of them are taken
over, by one unit and by more.

Symmetry is used in safety runs only. Deadlock checking is off in all runs: phones,
branches and counters may stop when there is nothing left to do within the bounds.

### Where the code does not hold
Three runs end in a counterexample; `PROJECT.json` quotes the lines. The following
are met by the models and have no run of their own; a property in the modules, if
one is named, can be put into a cfg to see it.

- Two handlers of `updateLoanBalance` that read the same balance lose a deduction, and
  two of `createLoanDisbursement` pay out more than the principal: in the run `sync`,
  `BalanceMatchesRepayments` and `DisbursedWithinPrincipal` of `UploadQueue` without
  their premise on `stale`. A handler that ends between insert and balance leaves the
  deduction out for good (`cut`). Work shown as failed may be stored if it was sent
  while an earlier try ran, or if a call failed for it after its insert
  (`GivenUpIsNotStored` without `doubted`). A localId is the clock
  and need not be unique (`SameInstant`, `UploadedIsStored`); queued applications
  carry no customerId (`TwoApplications`, `OnePendingApplication`).
- Tomorrow may be loaded before today exists: `OpeningIsPreviousClosing` of
  `BranchDay`. A day with nothing but a salary is deleted as empty:
  `SalaryStaysOnItsDay`. A stop between close and shortage leaves no shortage; a
  closing corrected to 0 lets the next opening fall back to the old ceiling column;
  the cash a salary is checked against leaves bankings out.
- Two money operations on one loan at a time lose one of them (`"balance" \notin
  spoilt` in `LoanLedger`). Two recordings at a time split their amounts by the same
  earlier payments and book the same interest, or other part, twice
  (`collections.service.ts:2978-3018`, `"parts"`), until a void or correction computes
  the parts anew. Two runs of the fines job that fine different periods lose one from
  the total (`"fines"`). `recordRepayment` has no key for repeated requests.
- The comment over `DueDayCoverage` (`collection-schedule.ts:206-212`) says "Any payment
  on a due day counts that day's due as attended". The function below it (line 240)
  asks for the whole of what the morning expected, and so does its test
  (`collection-schedule.spec.ts:618`, "keeps a partial same-day payment due until the
  full obligation is covered"). The model follows the code; `UnpaidWhileDue` says that
  in the loan list who has paid a part is still unpaid, against that comment.
- Two payments of a shortage at a time lose one from the outstanding amount
  (`overwritten` of `CashShortages`). An amount set below what was paid on it forgets the payment
  (`PaymentsArePreserved` of `CashShortages`); a merged row loses its source, so
  that its handover may be charged again; two requests at one handover charge it
  twice.
- The schedule from dated payments knows no fines: a loan that owes only its fines
  asks for nothing. A loan taken over with just one unit paid passes for dated, and
  is asked for that unit again (the exception in `WholeDebtDueAtMaturity`).
- Only the latest transaction of a reference is looked up at the provider, so a
  payment that a later, failed attempt hides is found by its webhook alone; one
  attempt is therefore the bound under which `PaidIsCredited` is checked.
- A death between reserve and mark keeps units reserved for good:
  `ReservedUnitsComeBack` of `SmsCredits`. With provider calls that outlast the hold
  (`SendOutlivesHold`) units still add up (proved) and the ledger no longer agrees.

## Fairness

- Sync (`sync_settles`): a service syncs again and again while it can (strong fairness of
  `StartUpload` and `NextBatch`, since the server's request slots come and go;
  `SyncService` has a timer and a connectivity trigger), an upload that has an
  answer books it, and a handler runs to its end (weak fairness). Nothing is
  assumed of failures; `RecordedWorkSettles` is conditional on the timeouts coming
  to an end (`<>[][no GiveUp]`).
- Branch day: a request that has begun takes its steps (weak fairness of
  `Continue`), and none of them stops in the run with liveness. Nobody has to make
  a request: a day that is being closed is closed by the very request that began.
- Purchases: the jobs are crons that list every purchase due to them again and
  again (strong fairness per purchase, since a job is busy in between), and a job
  takes its steps (weak fairness). At most `MaxDeliveries` of them stop half way.
  Nothing is assumed of requests, webhooks or the customer.
- SMS: a request either goes on or dies, a hold expires in the end, the cron runs
  (`@Cron` every five minutes) and the release of a listed row does not fail for
  ever (strong fairness; the code catches a failure and lists the row again). The limit of
  100 rows per run of the cron is not modelled.

## Proofs

Each theorem holds for all values of the constants under the named assumptions on
them, which TLC evaluates in the runs, and under the hypotheses it names itself.
Every invariant below was checked by TLC on a small instance before it was proved.

`SumTheorems`: what is added to, taken out of or changed in a finite set is added
to, taken out of or changed in its sum (`SumPutIn`, `SumTakenOut`, `SumChanged`,
`SumMonotone`, `SumAdded`). The library's induction over finite sets cannot be
applied here; each fact is proved by contradiction instead, from a smallest set for
which it fails (`SmallestSet`, which follows from the well-foundedness of `<`). The
models add up with `SumFunctionOnSet` so that these lemmas apply.

`UploadQueueProofs` (any phones, services, requests, operations, localIds, batches):
- `UploadedStays`: every fault; assumes that different operations have different
  localIds (`DistinctIds`; scenario `SameInstant` shows it is needed). The invariant
  has three parts: `Shape` (types), `Routed` (a service is served by at most one
  request, which works on the very batch the service waits for) and `OnServer` (an
  operation that a handler or an answer calls processed is stored). Without `Routed`
  an answer could belong to an older batch.
- `QueueIsTyped`, `RepaymentsDeductedOnce`: every fault and any number of handlers.
  `OneByOne` says that no two handlers have the same repayment half done (stored,
  not yet deducted) and `NotBelow` that no balance, and no balance a handler has
  read, lies below the principal less the repayments that are not half done.
- `BalancesMatchRepayments`, `DisbursementsFitPrincipal`: every fault, any number of
  handlers and services, no further assumption. `Exact` says of a loan none of whose
  repayments is `stale` that its balance is exactly what `NotBelow` bounds; a handler
  whose reading another changes is about to be stale, so one that is not writes what
  is right. `PaidOut` is the property with what a handler about to disburse has read.
- `GivenUpStaysOut`: every fault, several services per phone; assumes `DistinctIds`
  alone. It is the long one: `Undone` says that an operation that is an error in a
  handler, in an answer or for good and is not `doubted` is not stored, not being
  worked on and not waiting in a later batch (`RefusedRest`), that only its own phone
  has open rows of it (`AtHome`), and that what is not doubted is not sent twice
  before its result is booked (`SentOnce`).

`BranchDayProofs` (any requests, days, records and stops):
- `DaysAreTyped`. A type invariant, but not one that holds step by step: a day is
  closed with an amount that was read several steps before, an opening carried from
  there. `PlansTyped` says of every step a request still has to take that it has the
  amounts it needs and that they are amounts; only then is a closed day never
  without a balance.
- `ReportsMatchTheBooks`, `ShortagesMatchTheReports`. Both properties speak of a
  quiet branch, so the invariant has to say what is true in between. `DaysInv` says
  of each day that is not overtaken that where its report or its shortage differs
  from its books, some request still has a step before it that will write what the
  books say (`Mended`, `Aligned`); only a report that lies with the manager after a
  return may simply differ. `Sound` says that what a request checked and read before
  a step still holds when it comes to it, unless another changed that day since
  (the day is then in `outdated`); a confirmation of a returned report also needs
  that the request itself has put the report right or still will (`PutRight`).
  `Ordered` says which steps may follow which, so that a request that reaches its
  confirmation has no correction left before it and one that books the shortage has
  closed the day. There is a lemma per action; `StepStaysSound`, `SoundAfter` and
  `UntouchedDayStays` treat the requests and days a step does not touch once for all.
  A stop is the reason for the exception in the property: the steps it drops may have
  been the ones a day's invariant relied on.

`LoanLedgerProofs` (any payments, requests, workers, periods and amounts):
`LoanClosesWhenPaid`, `FinesMatchTheirTotal`, `OwnersReportIsSettled`. None of the
three properties is inductive. `Computed` says of what each request has in hand
that its status says CLOSED exactly if its balance leaves nothing: whatever is
written over whatever, status and balance come from one computation. `Current`
says that the fines a worker has read are no more than the fined periods add up to,
and are the ones on the loan or it counts as outdated. `Informed` says that a request past its gate that meets a sent report
knows it was sent since.

The second half of the module is about the money: `LedgerIsTyped`, `BalanceIsTheDebt`,
`PartsStayWithinTheDebt`. `Exact` says what a request that has not become outdated
is about to write: the balance less its amount, the balance with the old amount put
back. `PartsFit` says of the parts a recording carries that they do not exceed its
amount and, unless another payment was written since, what the debt leaves uncovered;
that needs nothing of the balance. After a void or a correction all parts
are computed anew, by a function that recurses over the payments (`Rebuilt`);
that they fit the debt together is proved from the first payment up to which they
would not.

`RepaymentScheduleProofs` (any loans, calendar, amounts, fines and payments, under
`ScheduleAssumptions`: a loan begins after the first day of the calendar and is
looked at within it, and was not taken over with more paid than it is worth).
- What recurses is a function over the number of due dates, so that what `Walk` and
  the sums compute can be proved, each fact from the first due date where it would
  fail. `WalksExist` shows that there is such a function at all; `WalkPaid`,
  `WalkEnd` and `WalkSame` that it takes every payment off the debt once, ends with
  all that is left, and does not look at payments after the date it stands at.
- The due dates: `InOrderLists` (a finite set of days in order, each once) and
  `AddMonthsLater` (a month on is a later day, though the day may not exist in the
  next month) give `LoansAreDated`: they rise to maturity in every cadence.
- `Overnight` is how a loan stands before a day, and `OvernightNext` what the day
  makes of it. In its terms `LessThePaymentsOfTheDay` says of both schedules, and of
  the choice between them, that what is expected now is what was expected in the
  morning less what was paid since. `UnpaidExactlyWhileDue` and
  `PaymentTakesItsAmountOff` follow.
- The invariant (`ScheduleInvariant`) has three parts. `TermsKept`: the agreement has
  its due dates. `DebtAddsUp`: the balance is the debt with its fines less the
  payments, without which the choice between the schedules could change from one day
  to the next; no fine comes before maturity has passed. `MetSoFar`: who has missed
  nothing was left overnight with nothing due, or has paid what the dates up to
  yesterday add up to. `WholeDebtIsExpected` and `NoArrearsWithoutMissing` rest on it.

`CashShortagesProofs` (any handovers, days, rows, requests, amounts and histories):
- `ShortagesAreTyped`, `ClearedMeansSettled`: no amount is negative and a row is
  cleared exactly if nothing is outstanding, whatever is written over.
- `OutstandingIsOwed`: `FreshInv` says that what a request has read of a row, and
  what it has moved off it, is what the row holds, or the request counts as outdated.
- `PaymentsAreKept`, an action property: the sum of all payments falls only in the
  step the property names.
- `HandoversChargedOnce`, for every handover that is neither in `merged` nor in
  `crossed`, whatever became of the others: a row keeps its source as long as it lives
  (`SourceInv`), no two requests are at that handover (`AloneInv`), it has a row once
  it has been charged, and none while a request waits to charge it (`ChargeInv`). A row
  with its source goes only into another's, and a charge of it into a row that is not
  its own puts it on record (`SourcesKept`, `ChargesOnlyWithRow`).

`SmsPurchasesProofs` (any purchases, requests, jobs and attempts): `TypeCorrect`,
`CreditsArePaidFor`, `SecondCreditNeedsOverwriting`, `NewcomersLeaveCreditedAlone`.
`Typed` is the shape; what an actor is about to write is never CREDITED. The rest is
one invariant per actor, `ActorInv`: who is about to confirm or credit has an
attempt that was paid in full behind it (`Backed`), who is about to write on a
credited purchase began before it was credited (`Aware`), and an idle actor has
nothing in hand (`Rested`). `RowStep` sums up what any step can do to a row, so
that the actors who did not move are treated once.

`SmsCreditsProofs` (any messages, prices and top-ups):
- `TypeCorrect`, `Reconciled`: inductive as they are.
- `StatusAndLedgerAgree`, `RetriesNeverOverlap`, `UnpaidOnlyInDoubt`,
  `ReservedIsOpen`, `PromiseKept` assume that provider calls end before their hold
  does (`~SendOutlivesHold`). They rest on `LifeCycle`, which ties the stage of a
  request, the status of its row and its ledger entries to each other: the status
  alone is not inductive, because a row is PENDING_VALIDATION both before its
  units are taken and after. `RetryInv` adds what a child says of its parent;
  `ReservedIsOpen` adds up the open units of any number of messages.
- `AcceptedStays` needs no such assumption: an accepted row's request is over.
- `PromiseKept` is the refinement: each step is a step of `PrepaidHold` or
  leaves its variables unchanged.

Only model-checked: the liveness properties, which are out of the prover's reach.
Every invariant and every action property that a passing run checks is proved.

## Not modelled

- Agent floats beyond what they are short of: the guard that keeps a day from
  closing before every float came back.
- Activation and expiry of branch subscriptions (`billing`): the payment side is the
  one `SmsPurchases` has, the rest is an hourly pass over dates.
- Snapshot download and branch relay of the phone (`core/sync/download_service.dart`,
  `core/branch_relay`): each is a protocol of its own and next in the plan.
- Sessions (`auth`, `common/auth`, phone `core/auth`), media upload.
- Loan terms and pricing: single formulas, each with its unit tests;
  `RepaymentSchedule` starts from their results.
- Application review, reminders, notifications, onboarding, customers, control
  centre, realtime, storage, app update, marketing, web console, website and
  scripts: forms, reads and single-row updates, or delivery to outside services. By
  lines they are most of the repository. `PROJECT.json` gives the reason for each.

## Plan

1. `SnapshotDownload` and `BranchRelay` over `UploadQueue`.
2. An overlapping instance of `BranchDay` with deletions, which needs a smaller
   state (one kind of record, no salary); floats in its guard to close.
3. `AuthSession`.

## Running

`tlc -config UploadQueue.cfg UploadQueueMC` (and likewise each pair in
`PROJECT.json`), `tlapm SmsPurchasesProofs.tla` (and likewise each `...Proofs`).
The definitions commented as "Mutant" are plausible errors that show each property
can fail; no behaviour uses them.
