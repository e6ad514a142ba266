------------------------------ MODULE BranchDay ------------------------------
(***************************************************************************)
(* The business days of one branch: opening, the cash book, the count, the *)
(* close, the report to the owner and its correction                       *)
(* (services/api/src/modules/operations; salaries/salaries.repository.ts). *)
(*                                                                         *)
(* Every request is a chain of separate database calls and ends by loading *)
(* a day, which itself opens days, deletes empty ones and creates missing  *)
(* reports.  todo[r] is what request r still has to do; each step is one   *)
(* read or one transaction.  All amounts but counts are one unit of cash.  *)
(***************************************************************************)
EXTENDS Integers, Sequences, FiniteSets, FiniteSetsExt

CONSTANTS
  Requests,       \* requests the server works on at a time
  LastDay,        \* bound on the calendar
  Counts,         \* what a manager may count in the till
  Records,        \* bound: the records that are made, as pairs of a day and a kind
  OpeningCash,    \* what may be entered as cash when the first day is opened
  MaxStops        \* bound on the requests that stop half way

Days == 1..LastDay
None == -1
Kinds == {"expense", "banking", "topUp"}

ASSUME CalendarAssumption == LastDay \in Nat \ {0} /\ MaxStops \in Nat
ASSUME CashAssumption ==
  /\ Counts \subseteq Nat /\ OpeningCash \subseteq Nat
  /\ Records \subseteq Days \X (Kinds \cup {"salary"})

VARIABLES
  today,
  status,      \* per day: "NONE" (no row), "OPEN", "CLOSING" or "CLOSED"
  opening,     \* per day: previousClosingBalance
  legacy,      \* per day: openingFloatAvailable
  closing,     \* per day: closingBalance, None until closed
  count,       \* per day: countedCash of the reconciliation, None until counted
  rows,        \* per day and kind: "none", "booked" or "voided"
  salary,      \* per day: "none", "paid", or "adrift" once its day is gone
  report,      \* per day: the report's status and, while it is sent, the one before
  snapshot,    \* per day: expected and counted cash in the report
  shortage,    \* per day: the BRANCH_CLOSE shortage nobody is charged with
  todo,        \* per request: the steps it still has to take
  stops,       \* requests that have stopped half way
  outdated,    \* history, per request: days others have changed since it began
  overtaken    \* history: days changed by a request that was outdated, or whose
               \* refresh stopped while their report was not returned

day == <<status, opening, legacy, closing>>
papers == <<report, snapshot, shortage>>
memory == <<stops, outdated, overtaken>>
vars == <<today, day, count, rows, salary, papers, todo, memory>>

NoReport == [status |-> "NONE", before |-> "NONE"]
NoSnapshot == [expected |-> None, counted |-> None]

Init ==
  /\ today = 1
  /\ status = [d \in Days |-> "NONE"]
  /\ opening = [d \in Days |-> 0]
  /\ legacy = [d \in Days |-> 0]
  /\ closing = [d \in Days |-> None]
  /\ count = [d \in Days |-> None]
  /\ rows = [d \in Days |-> [k \in Kinds |-> "none"]]
  /\ salary = [d \in Days |-> "none"]
  /\ report = [d \in Days |-> NoReport]
  /\ snapshot = [d \in Days |-> NoSnapshot]
  /\ shortage = [d \in Days |-> None]
  /\ todo = [r \in Requests |-> <<>>]
  /\ stops = 0 /\ outdated = [r \in Requests |-> {}] /\ overtaken = {}

-----------------------------------------------------------------------------
(* What the code computes of a day.                                        *)

Submitted == {"SENT_TO_OWNER", "OWNER_APPROVED"}
WithManager == {"MANAGER_REVIEW", "RETURNED_TO_MANAGER"}

Booked(d, k) == IF rows[d][k] = "booked" THEN 1 ELSE 0

\* The opening cash of a row that has none is the old ceiling column.
CashAtOpening(d) ==
  LET computed == opening[d] + Booked(d, "topUp")
  IN  IF computed > 0 \/ legacy[d] = 0 THEN computed ELSE legacy[d]

Expected(d) ==
  CashAtOpening(d) - Booked(d, "expense") - Booked(d, "banking")
    - (IF salary[d] = "paid" THEN 1 ELSE 0)

ShortageOf(variance) == IF variance < 0 THEN -variance ELSE 0

Returned(d) == status[d] = "CLOSED" /\ report[d].status = "RETURNED_TO_MANAGER"
AcceptsRecords(d) == status[d] = "OPEN" \/ Returned(d)
CanBeCounted(d) == status[d] \in {"OPEN", "CLOSING"} \/ Returned(d)

NoRecords(d) == \A k \in Kinds : rows[d][k] = "none"

\* Salaries are not looked at.
IsEmptyUnclosed(d) ==
  /\ status[d] \in {"OPEN", "CLOSING"} /\ closing[d] = None
  /\ NoRecords(d) /\ report[d] = NoReport
IsEmptyClosed(d) ==
  status[d] = "CLOSED" /\ NoRecords(d) /\ report[d] = NoReport

UnclosedBefore(d) == {e \in 1..(d - 1) : status[e] \in {"OPEN", "CLOSING"}}
ClosedBefore(d) == {e \in 1..(d - 1) : closing[e] # None /\ ~IsEmptyClosed(e)}
ExistingAfter(d) == {e \in (d + 1)..LastDay : status[e] # "NONE"}

Openable(d) == d \in {today, today + 1}

-----------------------------------------------------------------------------
(* Requests and their steps.                                               *)

\* A step, its day, and the amounts the request has read for it.
StepWith(name, d, read) == [name |-> name, day |-> d, read |-> read]
Step(name, d) == StepWith(name, d, <<>>)

Begin(r, steps) == todo[r] = <<>> /\ todo' = [todo EXCEPT ![r] = steps]
At(r, name, d) ==
  todo[r] # <<>> /\ Head(todo[r]).name = name /\ Head(todo[r]).day = d
Read(r, i) == Head(todo[r]).read[i]
Then(r, steps) == todo' = [todo EXCEPT ![r] = steps \o Tail(@)]
Fail(r) == todo' = [todo EXCEPT ![r] = <<>>]

OpenSteps(d, how) ==
  IF d \in Days THEN <<Step("retire", d), Step(how, d)>> ELSE <<>>
LoadDay(d) == IF d \in Days THEN <<Step("load", d)>> ELSE <<>>
Refresh(d) == <<Step("revise", d)>>

\* Mutant: a returned report is sent again as it is.
ConfirmAsItIs(d) == <<>>

RefreshIfReturned(d) ==
  IF report[d].status = "RETURNED_TO_MANAGER" THEN Refresh(d) ELSE <<>>

ConfirmSteps(d) == <<Step("confirm", d)>> \o OpenSteps(d + 1, "openNext") \o LoadDay(d + 1)

BeginOpen(r, d, cash, added) ==
  /\ Openable(d)
  /\ Begin(r, <<Step("retire", d), StepWith("openByHand", d, <<cash, added>>)>> \o LoadDay(d))
  /\ UNCHANGED <<today, day, count, rows, salary, papers>>

BeginRecord(r, d, k) ==
  /\ <<d, k>> \in Records
  /\ AcceptsRecords(d)
  /\ rows[d][k] = "none"
  /\ k # "topUp" => Expected(d) >= 1
  /\ Begin(r, <<Step(k, d)>> \o LoadDay(d))
  /\ UNCHANGED <<today, day, count, rows, salary, papers>>

BeginVoid(r, d) ==
  /\ rows[d]["expense"] = "booked"
  /\ AcceptsRecords(d)
  /\ Begin(r, <<Step("void", d)>> \o (IF Returned(d) THEN Refresh(d) ELSE <<>>) \o LoadDay(d))
  /\ UNCHANGED <<today, day, count, rows, salary, papers>>

\* startReconciliation only creates the draft that this fills in.
BeginCount(r, d, n) ==
  /\ CanBeCounted(d)
  /\ Begin(r, <<StepWith("count", d, <<n>>)>> \o LoadDay(d))
  /\ UNCHANGED <<today, day, count, rows, salary, papers>>

\* Mutant: a day is submitted without a count.
SubmitUncounted(r, d) ==
  /\ status[d] \in {"OPEN", "CLOSING"}
  /\ Begin(r, (IF status[d] = "OPEN" THEN <<Step("mark", d)>> ELSE <<>>)
                \o <<StepWith("close", d, <<count[d]>>),
                     StepWith("shortage", d, <<count[d] - Expected(d)>>),
                     Step("report", d)>>)
  /\ UNCHANGED <<today, day, count, rows, salary, papers>>

\* The day, its count and its books are three reads in the code, one here: what changes
\* between them counts as changed before or after all three.
BeginSubmit(r, d) ==
  /\ status[d] \in {"OPEN", "CLOSING"}
  /\ count[d] # None
  /\ Begin(r, (IF status[d] = "OPEN" THEN <<Step("mark", d)>> ELSE <<>>)
                \o <<StepWith("close", d, <<count[d]>>),
                     StepWith("shortage", d, <<count[d] - Expected(d)>>),
                     Step("report", d)>>)
  /\ UNCHANGED <<today, day, count, rows, salary, papers>>

BeginConfirm(r, d) ==
  /\ report[d].status \in WithManager
  /\ count[d] # None
  /\ Begin(r, RefreshIfReturned(d) \o ConfirmSteps(d))
  /\ UNCHANGED <<today, day, count, rows, salary, papers>>

BeginApprove(r, d) ==
  /\ report[d].status = "SENT_TO_OWNER"
  /\ Begin(r, <<Step("approve", d)>> \o LoadDay(d))
  /\ UNCHANGED <<today, day, count, rows, salary, papers>>

\* Also the authorised rollback of an approved report.
BeginReturn(r, d) ==
  /\ report[d].status \in Submitted
  /\ Begin(r, <<Step("return", d)>> \o LoadDay(d))
  /\ UNCHANGED <<today, day, count, rows, salary, papers>>

View(r, d) ==
  /\ Begin(r, LoadDay(d))
  /\ UNCHANGED <<today, day, count, rows, salary, papers>>

Cron(r) ==
  /\ Begin(r, OpenSteps(today, "openNext"))
  /\ UNCHANGED <<today, day, count, rows, salary, papers>>

\* One transaction, within ten seconds of the confirm.
Undo(r, d) ==
  /\ report[d].status = "SENT_TO_OWNER"
  /\ report[d].before \in WithManager
  /\ Begin(r, LoadDay(d))
  /\ report' = [report EXCEPT ![d] = [status |-> @.before, before |-> "NONE"]]
  /\ UNCHANGED <<today, day, count, rows, salary, snapshot, shortage>>

\* One transaction under the row lock, on the latest open day.
PaySalary(r, d) ==
  /\ todo[r] = <<>>
  /\ <<d, "salary">> \in Records
  /\ status[d] = "OPEN"
  /\ \A e \in ExistingAfter(d) : status[e] # "OPEN"
  /\ salary[d] = "none"
  /\ CashAtOpening(d) - Booked(d, "expense") >= 1
  /\ salary' = [salary EXCEPT ![d] = "paid"]
  /\ UNCHANGED <<today, day, count, rows, papers, todo>>

ReverseSalary(r, d) ==
  /\ todo[r] = <<>>
  /\ status[d] = "OPEN"
  /\ salary[d] = "paid"
  /\ salary' = [salary EXCEPT ![d] = "none"]
  /\ UNCHANGED <<today, day, count, rows, papers, todo>>

Midnight ==
  /\ today < LastDay
  /\ today' = today + 1
  /\ UNCHANGED <<day, count, rows, salary, papers, todo>>

-----------------------------------------------------------------------------
(* Opening days, and deleting those on which nothing was recorded.         *)

\* getToday.
Load(r, d) ==
  /\ At(r, "load", d)
  /\ Then(r, (IF Openable(d) THEN OpenSteps(d, "openFirst") ELSE <<>>) \o <<Step("ensure", d)>>)
  /\ UNCHANGED <<today, day, count, rows, salary, papers>>

\* The oldest unclosed day is looked at; one that is empty is deleted, and
\* then the next one is looked at.
Retire(r, d) ==
  /\ At(r, "retire", d)
  /\ IF UnclosedBefore(d) # {} /\ IsEmptyUnclosed(Min(UnclosedBefore(d)))
     THEN Then(r, <<Step("delete", Min(UnclosedBefore(d))), Step("retire", d)>>)
     ELSE Then(r, <<>>)
  /\ UNCHANGED <<today, day, count, rows, salary, papers>>

\* Steps that name the row of their day, and fail once it is deleted: their request
\* ends where it comes to the first of them.
RowSteps == Kinds \cup {"void", "count", "mark", "close", "confirm", "approve",
                             "return", "delete"}
FailingSteps(steps, d) ==
  {i \in DOMAIN steps : steps[i].name \in RowSteps /\ steps[i].day = d}
WhatWorksWithout(d, steps) ==
  IF FailingSteps(steps, d) = {} THEN steps
  ELSE SubSeq(steps, 1, Min(FailingSteps(steps, d)) - 1)

\* The row goes with its records, draft and report; salaries lose their day.
DeleteDay(r, d) ==
  /\ At(r, "delete", d)
  /\ status' = [status EXCEPT ![d] = "NONE"]
  /\ opening' = [opening EXCEPT ![d] = 0]
  /\ legacy' = [legacy EXCEPT ![d] = 0]
  /\ closing' = [closing EXCEPT ![d] = None]
  /\ count' = [count EXCEPT ![d] = None]
  /\ rows' = [rows EXCEPT ![d] = [k \in Kinds |-> "none"]]
  /\ salary' = [salary EXCEPT ![d] = IF @ = "paid" THEN "adrift" ELSE @]
  /\ report' = [report EXCEPT ![d] = NoReport]
  /\ snapshot' = [snapshot EXCEPT ![d] = NoSnapshot]
  /\ shortage' = [shortage EXCEPT ![d] = None]
  /\ todo' = [q \in Requests |->
       IF q = r THEN Tail(todo[r]) ELSE WhatWorksWithout(d, todo[q])]
  /\ UNCHANGED <<today>>

Previous(d) == IF ClosedBefore(d) = {} THEN 0 ELSE Max(ClosedBefore(d))

MayOpen(d) ==
  /\ status[d] = "NONE"
  /\ UnclosedBefore(d) = {}
  /\ Previous(d) # 0 => report[Previous(d)].status \in Submitted

\* autoOpenBranchIfEligible gives up quietly, openBranch with an error.
\* Without an earlier day the first one opens only by hand or when looked at.
Decide(r, d, how) ==
  /\ At(r, how, d)
  /\ IF MayOpen(d) /\ (Previous(d) # 0 \/ how # "openNext")
     THEN Then(r, <<StepWith("create", d,
            <<IF Previous(d) # 0 THEN closing[Previous(d)]
              ELSE IF how = "openByHand" THEN Read(r, 1) ELSE 0,
              IF how = "openByHand" THEN Read(r, 2) ELSE 0>>)>>)
     ELSE IF how = "openByHand" THEN Fail(r) ELSE Then(r, <<>>)
  /\ UNCHANGED <<today, day, count, rows, salary, papers>>

CreateDay(r, d) ==
  /\ At(r, "create", d)
  /\ status[d] = "NONE"
  /\ status' = [status EXCEPT ![d] = "OPEN"]
  /\ opening' = [opening EXCEPT ![d] = Read(r, 1)]
  /\ legacy' = [legacy EXCEPT ![d] = Read(r, 1) + Read(r, 2)]
  /\ rows' = [rows EXCEPT ![d] = [k \in Kinds |->
       IF k = "topUp" /\ Read(r, 2) = 1 THEN "booked" ELSE "none"]]
  /\ Then(r, <<>>)
  /\ UNCHANGED <<today, closing, count, salary, papers>>

\* The date is unique.
CreateRefused(r, d) ==
  /\ At(r, "create", d)
  /\ status[d] # "NONE"
  /\ Fail(r)
  /\ UNCHANGED <<today, day, count, rows, salary, papers>>

-----------------------------------------------------------------------------
(* The cash book, the count and the close.                                 *)

InsertRow(r, d, k) ==
  /\ At(r, k, d)
  /\ rows' = [rows EXCEPT ![d][k] = "booked"]
  /\ legacy' = [legacy EXCEPT ![d] = @ + (IF k = "topUp" THEN 1 ELSE 0)]
  /\ Then(r, <<>>)
  /\ UNCHANGED <<today, status, opening, closing, count, salary, papers>>

VoidRow(r, d) ==
  /\ At(r, "void", d)
  /\ rows' = [rows EXCEPT ![d]["expense"] = "voided"]
  /\ Then(r, <<>>)
  /\ UNCHANGED <<today, day, count, salary, papers>>

WriteCount(r, d) ==
  /\ At(r, "count", d)
  /\ count' = [count EXCEPT ![d] = Read(r, 1)]
  /\ Then(r, <<>>)
  /\ UNCHANGED <<today, day, rows, salary, papers>>

MarkClosing(r, d) ==
  /\ At(r, "mark", d)
  /\ status' = [status EXCEPT ![d] = "CLOSING"]
  /\ Then(r, <<>>)
  /\ UNCHANGED <<today, opening, legacy, closing, count, rows, salary, papers>>

\* Mutant: a day that has its closing balance is not closed again.
CloseOnce(r, d) ==
  /\ At(r, "close", d)
  /\ IF closing[d] # None THEN UNCHANGED <<status, closing>>
     ELSE /\ status' = [status EXCEPT ![d] = "CLOSED"]
          /\ closing' = [closing EXCEPT ![d] = Read(r, 1)]
  /\ Then(r, <<>>)
  /\ UNCHANGED <<today, opening, legacy, count, rows, salary, papers>>

\* closeBranch looks at no status.
CloseDay(r, d) ==
  /\ At(r, "close", d)
  /\ status' = [status EXCEPT ![d] = "CLOSED"]
  /\ closing' = [closing EXCEPT ![d] = Read(r, 1)]
  /\ Then(r, <<>>)
  /\ UNCHANGED <<today, opening, legacy, count, rows, salary, papers>>

\* createShortage for a shortage that is charged to nobody.
CreateShortage(r, d) ==
  /\ At(r, "shortage", d)
  /\ shortage' = [shortage EXCEPT ![d] =
       IF Read(r, 1) < 0 /\ @ = None THEN ShortageOf(Read(r, 1)) ELSE @]
  /\ Then(r, <<>>)
  /\ UNCHANGED <<today, day, count, rows, salary, report, snapshot>>

-----------------------------------------------------------------------------
(* The report.                                                             *)

WriteReport(d) ==
  IF report[d] # NoReport THEN UNCHANGED <<report, snapshot>>
  ELSE /\ report' = [report EXCEPT ![d] = [status |-> "MANAGER_REVIEW", before |-> "NONE"]]
       /\ snapshot' = [snapshot EXCEPT ![d] = [expected |-> Expected(d), counted |-> count[d]]]

\* The report of a day that is loaded while it is closed; what it shows is read just
\* before it is created, in the same step here and in ReportClose.
EnsureReport(r, d) ==
  /\ At(r, "ensure", d)
  /\ IF status[d] = "CLOSED" THEN WriteReport(d) ELSE UNCHANGED <<report, snapshot>>
  /\ Then(r, <<>>)
  /\ UNCHANGED <<today, day, count, rows, salary, shortage>>

ReportClose(r, d) ==
  /\ At(r, "report", d)
  /\ IF status[d] = "NONE"
     THEN Then(r, LoadDay(d)) /\ UNCHANGED <<report, snapshot>>
     ELSE /\ WriteReport(d)
          /\ Then(r, IF report'[d].status \in WithManager THEN ConfirmSteps(d) ELSE LoadDay(d))
  /\ UNCHANGED <<today, day, count, rows, salary, shortage>>

SetReport(r, name, d, new) ==
  /\ At(r, name, d)
  /\ report' = [report EXCEPT ![d] = new]
  /\ Then(r, <<>>)
  /\ UNCHANGED <<today, day, count, rows, salary, snapshot, shortage>>

\* None of the three looks again at the status that was checked before.
ConfirmReport(r, d) ==
  SetReport(r, "confirm", d, [status |-> "SENT_TO_OWNER", before |-> report[d].status])
ApproveReport(r, d) ==
  SetReport(r, "approve", d, [status |-> "OWNER_APPROVED", before |-> "NONE"])
ReturnReport(r, d) ==
  SetReport(r, "return", d, [status |-> "RETURNED_TO_MANAGER", before |-> "NONE"])

-----------------------------------------------------------------------------
(* refreshDayAfterRepaymentCorrection.                                     *)

Revise(r, d) ==
  /\ At(r, "revise", d)
  /\ IF status[d] \in {"NONE", "OPEN"}
     THEN Then(r, <<>>) /\ UNCHANGED closing
     ELSE IF status[d] = "CLOSED" /\ count[d] \notin {None, closing[d]}
     THEN /\ closing' = [closing EXCEPT ![d] = count[d]]
          /\ Then(r, <<StepWith("carry", d, <<count[d]>>)>>)
     ELSE Then(r, <<Step("rebuild", d)>>) /\ UNCHANGED closing
  /\ UNCHANGED <<today, status, opening, legacy, count, rows, salary, papers>>

\* Mutant: the next day's opening is changed, its report is not.
CarryOnly(r, d) ==
  /\ At(r, "carry", d)
  /\ opening' = IF ExistingAfter(d) = {} THEN opening
                ELSE [opening EXCEPT ![Min(ExistingAfter(d))] = Read(r, 1)]
  /\ Then(r, <<Step("rebuild", d)>>)
  /\ UNCHANGED <<today, status, legacy, closing, count, rows, salary, papers>>

\* The next day's opening becomes the new closing; if that day is not open
\* any more, it is refreshed as well, after this one.
Carry(r, d) ==
  /\ At(r, "carry", d)
  /\ IF ExistingAfter(d) = {}
     THEN Then(r, <<Step("rebuild", d)>>) /\ UNCHANGED opening
     ELSE LET next == Min(ExistingAfter(d))
          IN  /\ opening' = [opening EXCEPT ![next] = Read(r, 1)]
              /\ Then(r, <<Step("rebuild", d)>>
                          \o (IF status[next] = "OPEN" THEN <<>> ELSE Refresh(next)))
  /\ UNCHANGED <<today, status, legacy, closing, count, rows, salary, papers>>

\* Mutant: the report is rebuilt, the shortage stays.
RebuildReportOnly(r, d) ==
  /\ At(r, "rebuild", d)
  /\ Then(r, <<StepWith("snapshot", d, <<Expected(d), count[d]>>)>>)
  /\ UNCHANGED <<today, day, count, rows, salary, papers>>

\* Expected and closing cash as they are now; the code computes them from the day as it
\* was read a few statements before.
Rebuild(r, d) ==
  /\ At(r, "rebuild", d)
  /\ Then(r, <<StepWith("snapshot", d, <<Expected(d), count[d]>>)>>
              \o (IF closing[d] = None THEN <<>>
                  ELSE <<StepWith("sync", d, <<closing[d] - Expected(d)>>)>>))
  /\ UNCHANGED <<today, day, count, rows, salary, papers>>

WriteSnapshot(r, d) ==
  /\ At(r, "snapshot", d)
  /\ snapshot' = IF report[d] = NoReport THEN snapshot
                 ELSE [snapshot EXCEPT ![d] = [expected |-> Read(r, 1),
                                               counted |-> Read(r, 2)]]
  /\ Then(r, <<>>)
  /\ UNCHANGED <<today, day, count, rows, salary, report, shortage>>

\* Only a shortage that exists is kept in step.  Payments on it are left out: the code
\* keeps what has been paid as the amount of a shortage that the correction clears.
SyncShortage(r, d) ==
  /\ At(r, "sync", d)
  /\ shortage' = [shortage EXCEPT ![d] =
       IF @ = None THEN None ELSE ShortageOf(Read(r, 1))]
  /\ Then(r, <<>>)
  /\ UNCHANGED <<today, day, count, rows, salary, report, snapshot>>

-----------------------------------------------------------------------------
Ask(r, d) ==
  \/ \E cash \in OpeningCash, added \in {0} \cup {1 : x \in Records \cap {<<d, "topUp">>}} :
       BeginOpen(r, d, cash, added)
  \/ \E k \in Kinds : BeginRecord(r, d, k)
  \/ BeginVoid(r, d)
  \/ \E n \in Counts : BeginCount(r, d, n)
  \/ BeginSubmit(r, d)
  \/ BeginConfirm(r, d)
  \/ BeginApprove(r, d)
  \/ BeginReturn(r, d)
  \/ View(r, d)
  \/ Undo(r, d)
  \/ PaySalary(r, d)
  \/ ReverseSalary(r, d)

Work(r, d) ==
  \/ Load(r, d)
  \/ Retire(r, d)
  \/ DeleteDay(r, d)
  \/ \E how \in {"openNext", "openFirst", "openByHand"} : Decide(r, d, how)
  \/ CreateDay(r, d)
  \/ CreateRefused(r, d)
  \/ \E k \in Kinds : InsertRow(r, d, k)
  \/ VoidRow(r, d)
  \/ WriteCount(r, d)
  \/ MarkClosing(r, d)
  \/ CloseDay(r, d)
  \/ CreateShortage(r, d)
  \/ EnsureReport(r, d)
  \/ ReportClose(r, d)
  \/ ConfirmReport(r, d)
  \/ ApproveReport(r, d)
  \/ ReturnReport(r, d)
  \/ Revise(r, d)
  \/ Carry(r, d)
  \/ Rebuild(r, d)
  \/ WriteSnapshot(r, d)
  \/ SyncShortage(r, d)

\* Days of which a step changes what other requests have judged, or anything.
Judged(d) == <<status[d], opening[d], legacy[d], closing[d], count[d], rows[d], salary[d],
               report[d]>>
Changed == {d \in Days : Judged(d)' # Judged(d)}
Written == Changed \cup {d \in Days : <<snapshot[d], shortage[d]>>' # <<snapshot[d], shortage[d]>>}

Remember(r) ==
  /\ outdated' = [q \in Requests |->
       IF todo'[q] = <<>> \/ todo[q] = <<>> THEN {}
       ELSE IF q = r THEN outdated[q] ELSE outdated[q] \cup Changed]
  /\ overtaken' = overtaken \cup (outdated[r] \cap Written)
  /\ UNCHANGED stops

Continue(r) == todo[r] # <<>> /\ Work(r, Head(todo[r]).day) /\ Remember(r)

\* The server goes down or a call fails: the steps that are left are not taken.
Stop(r) ==
  /\ todo[r] # <<>> /\ stops < MaxStops
  /\ stops' = stops + 1
  /\ todo' = [todo EXCEPT ![r] = <<>>]
  /\ outdated' = [outdated EXCEPT ![r] = {}]
  /\ overtaken' = overtaken \cup
       {d \in Days : report[d].status # "RETURNED_TO_MANAGER" /\
          \E i \in DOMAIN todo[r] : todo[r][i].day = d
            /\ todo[r][i].name \in {"revise", "rebuild", "snapshot", "sync"}}
  /\ UNCHANGED <<today, day, count, rows, salary, papers>>

Next ==
  \/ Midnight /\ UNCHANGED memory
  \/ \E r \in Requests :
       \/ (Cron(r) \/ \E d \in Days : Ask(r, d)) /\ Remember(r)
       \/ Continue(r)
       \/ Stop(r)

Spec == Init /\ [][Next]_vars

\* A request that has begun takes its steps.
FairSpec == Spec /\ \A r \in Requests : WF_vars(Continue(r))
-----------------------------------------------------------------------------
(* Properties.                                                             *)

Cash == Nat \cup {None}

\* The shape of the state; no shortage is negative, no day is closed without a balance.
TypeOK ==
  /\ today \in Days
  /\ status \in [Days -> {"NONE", "OPEN", "CLOSING", "CLOSED"}]
  /\ opening \in [Days -> Nat] /\ legacy \in [Days -> Nat]
  /\ closing \in [Days -> Cash] /\ count \in [Days -> Cash]
  /\ rows \in [Days -> [Kinds -> {"none", "booked", "voided"}]]
  /\ salary \in [Days -> {"none", "paid", "adrift"}]
  /\ \A d \in Days : /\ report[d].status \in {"NONE"} \cup WithManager \cup Submitted
                      /\ report[d].before \in {"NONE"} \cup WithManager \cup Submitted
                      /\ snapshot[d].expected \in Int /\ snapshot[d].counted \in Cash
  /\ shortage \in [Days -> Cash]
  /\ \A d \in Days : status[d] = "CLOSED" => closing[d] # None
  /\ stops \in 0..MaxStops /\ outdated \in [Requests -> SUBSET Days]
  /\ overtaken \subseteq Days
  /\ \A r \in Requests : \A i \in DOMAIN todo[r] : todo[r][i].day \in Days

Quiet == \A r \in Requests : todo[r] = <<>>

\* A report that lies with the owner shows what the books of its day say, and
\* the day closed with the cash that was counted: also after the owner sent
\* it back, after recounts and voided expenses, after an undone submission,
\* and after an earlier day was corrected. They part only where a request acted on
\* a day that another had changed since, or where a correction stopped before it
\* came to a day whose report had not been returned; a day that was returned is put
\* right when it is sent again.
ReportMatchesBooks ==
  Quiet => \A d \in Days \ overtaken : report[d].status \in Submitted =>
    /\ snapshot[d] = [expected |-> Expected(d), counted |-> count[d]]
    /\ closing[d] = count[d]

\* The shortage booked for a close is the one its report shows, through every
\* correction, as long as nothing is paid on it (syncExistingShortageToVariance).
ShortageMatchesReport ==
  Quiet => \A d \in Days \ overtaken :
    (report[d].status \in Submitted /\ shortage[d] # None) =>
      shortage[d] = ShortageOf(snapshot[d].counted - snapshot[d].expected)

\* A day that a submission has begun to close ends up closed with its report, or is
\* gone, however submissions, views and corrections overlap.
SubmittedDaysAreReported ==
  \A d \in Days :
    status[d] \in {"CLOSING", "CLOSED"}
      ~> \/ status[d] = "CLOSED" /\ report[d] # NoReport
         \/ status[d] = "NONE"

\* "opening balance comes from the previous closing balance" (migration
\* 20260728174500_operation_opening_balance_correction).
OpeningIsPreviousClosing ==
  Quiet => \A d, e \in Days :
    (/\ status[d] = "CLOSED" /\ report[d].status \in Submitted
     /\ d < e /\ status[e] # "NONE"
     /\ \A b \in (d + 1)..(e - 1) : status[b] = "NONE") => opening[e] = closing[d]

\* A salary that was paid "stays in the day's cash records"
\* (salaries.repository.ts).
SalaryStaysOnItsDay == \A d \in Days : salary[d] # "adrift"
=============================================================================
