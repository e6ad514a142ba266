--------------------------- MODULE BranchDayProofs ---------------------------
(***************************************************************************)
(* Proofs about BranchDay, for any number of requests and days, whatever   *)
(* stops half way.                                                         *)
(*                                                                         *)
(* Shape is TypeOK with what it rests on: that every step which is still   *)
(* to be taken carries the amounts its request has read.  A day is only    *)
(* closed with a count, so what is closed, carried into the next day or    *)
(* opened with is never a missing amount.                                  *)
(*                                                                         *)
(* Kept is what the reports and shortages rest on.  Ordered: in which      *)
(* order a request's steps stand.  Sound: what a request checked and read  *)
(* before a step still holds when the step comes, unless another request   *)
(* has changed its day since.  DaysInv: a day whose papers differ from its *)
(* books has a step left, in some request, that will put them right.       *)
(***************************************************************************)
EXTENDS BranchDay, SumTheorems, SequenceTheorems

Statuses == {"NONE", "OPEN", "CLOSING", "CLOSED"}
Standings == {"NONE"} \cup WithManager \cup Submitted
ReportType == [status : Standings, before : Standings]
SnapshotType == [expected : Int, counted : Cash]

PlansOf(names, reads) == [name : names, day : Days, read : reads]

\* The steps a request may have before it, each with what was read for it.
Plan ==
  PlansOf(Kinds \cup {"retire", "load", "ensure", "openNext", "openFirst", "delete", "void",
                      "mark", "report", "confirm", "approve", "return", "revise", "rebuild"},
          {<<>>})
    \cup PlansOf({"create", "openByHand"}, Nat \X {0, 1})
    \cup PlansOf({"count", "close", "carry"}, {<<n>> : n \in Nat})
    \cup PlansOf({"shortage", "sync"}, {<<n>> : n \in Int})
    \cup PlansOf({"snapshot"}, Int \X Cash)

DaysTyped ==
  /\ today \in Days
  /\ status \in [Days -> Statuses]
  /\ opening \in [Days -> Nat] /\ legacy \in [Days -> Nat]
  /\ closing \in [Days -> Cash]
  /\ \A d \in Days : status[d] = "CLOSED" => closing[d] # None

BooksTyped ==
  /\ count \in [Days -> Cash]
  /\ rows \in [Days -> [Kinds -> {"none", "booked", "voided"}]]
  /\ salary \in [Days -> {"none", "paid", "adrift"}]

PapersTyped ==
  /\ report \in [Days -> ReportType]
  /\ snapshot \in [Days -> SnapshotType]
  /\ shortage \in [Days -> Cash]

PlansTyped == todo \in [Requests -> Seq(Plan)]

MemoryTyped ==
  /\ stops \in 0..MaxStops /\ outdated \in [Requests -> SUBSET Days]
  /\ overtaken \subseteq Days

Shape == DaysTyped /\ BooksTyped /\ PapersTyped /\ PlansTyped

-----------------------------------------------------------------------------
(* Days and amounts.                                                       *)

LEMMA DayNumbers == 1 \in Days /\ Days \subseteq Nat /\ \A d \in Days : 1 <= d /\ d <= LastDay
BY CalendarAssumption DEF Days

LEMMA EarliestDay ==
  ASSUME NEW S \in SUBSET Days, S # {}
  PROVE  Min(S) \in S /\ \A d \in S : Min(S) <= d
<1>1. \E n \in S : \A m \in S : n <= m
  BY DayNumbers, LeastNumber
<1> QED
  BY <1>1 DEF Min

LEMMA LatestDay ==
  ASSUME NEW S \in SUBSET Days, S # {}
  PROVE  Max(S) \in S /\ \A d \in S : d <= Max(S)
<1> DEFINE N == {LastDay - d : d \in S}
<1>1. N \in SUBSET Nat /\ N # {}
  <2>1. \A d \in Days : LastDay - d \in Nat
    BY CalendarAssumption DEF Days
  <2> QED
    BY <2>1
<1>2. PICK n \in N : \A m \in N : n <= m
  <2> HIDE DEF N
  <2> QED
    BY <1>1, LeastNumber
<1>3. PICK d \in S : n = LastDay - d
  BY <1>2
<1>4. \A e \in S : d >= e
  <2> SUFFICES ASSUME NEW e \in S PROVE d >= e
    OBVIOUS
  <2>1. LastDay - d <= LastDay - e
    BY <1>2, <1>3
  <2> QED
    BY <2>1, DayNumbers, CalendarAssumption
<1>5. \E m \in S : \A e \in S : m >= e
  BY <1>4
<1>6. Max(S) \in S /\ \A e \in S : Max(S) >= e
  BY <1>5 DEF Max
<1> QED
  BY <1>6, DayNumbers

LEMMA NextAndPrevious ==
  ASSUME DaysTyped, NEW d \in Days
  PROVE  /\ UnclosedBefore(d) # {} => Min(UnclosedBefore(d)) \in Days
         /\ ExistingAfter(d) # {} => Min(ExistingAfter(d)) \in Days
         /\ Previous(d) # 0 => Previous(d) \in Days /\ closing[Previous(d)] \in Nat
<1>1. /\ UnclosedBefore(d) \in SUBSET Days /\ ExistingAfter(d) \in SUBSET Days
      /\ ClosedBefore(d) \in SUBSET Days
  <2>1. 1..(d - 1) \subseteq Days /\ (d + 1)..LastDay \subseteq Days
    BY CalendarAssumption DEF Days
  <2> QED
    BY <2>1 DEF UnclosedBefore, ExistingAfter, ClosedBefore
<1>2. UnclosedBefore(d) # {} => Min(UnclosedBefore(d)) \in Days
  BY <1>1, EarliestDay
<1>3. ExistingAfter(d) # {} => Min(ExistingAfter(d)) \in Days
  BY <1>1, EarliestDay
<1>4. ClosedBefore(d) # {} => Max(ClosedBefore(d)) \in ClosedBefore(d)
  BY <1>1, LatestDay
<1>5. \A e \in ClosedBefore(d) : e \in Days /\ closing[e] \in Nat
  BY <1>1 DEF ClosedBefore, DaysTyped, Cash
<1> QED
  BY <1>2, <1>3, <1>4, <1>5 DEF Previous

LEMMA AmountsAreNumbers ==
  ASSUME DaysTyped, BooksTyped, NEW d \in Days
  PROVE  /\ Expected(d) \in Int /\ CashAtOpening(d) \in Nat
         /\ count[d] # None => count[d] \in Nat
         /\ closing[d] # None => closing[d] \in Nat
<1>1. opening[d] \in Nat /\ legacy[d] \in Nat /\ closing[d] \in Cash /\ count[d] \in Cash
  BY DEF DaysTyped, BooksTyped
<1>2. \A k : Booked(d, k) \in {0, 1}
  BY DEF Booked
<1>3. CashAtOpening(d) \in Nat
  BY <1>1, <1>2 DEF CashAtOpening
<1>4. Expected(d) \in Int
  BY <1>2, <1>3 DEF Expected
<1> QED
  BY <1>1, <1>3, <1>4 DEF Cash

LEMMA ShortageIsANumber ==
  ASSUME NEW n \in Int
  PROVE  ShortageOf(n) \in Nat
BY DEF ShortageOf

-----------------------------------------------------------------------------
(* The steps that are still to be taken.                                   *)

LEMMA PlanOfStep ==
  ASSUME NEW d \in Days
  PROVE  /\ \A name \in Kinds \cup {"retire", "load", "ensure", "openNext", "openFirst",
              "delete", "void", "mark", "report", "confirm", "approve", "return", "revise",
              "rebuild"} : Step(name, d) \in Plan
         /\ \A name \in {"create", "openByHand"}, n \in Nat, m \in {0, 1} :
              StepWith(name, d, <<n, m>>) \in Plan
         /\ \A name \in {"count", "close", "carry"}, n \in Nat :
              StepWith(name, d, <<n>>) \in Plan
         /\ \A name \in {"shortage", "sync"}, n \in Int : StepWith(name, d, <<n>>) \in Plan
         /\ \A n \in Int, m \in Cash : StepWith("snapshot", d, <<n, m>>) \in Plan
BY DEF Plan, PlansOf, Step, StepWith

\* What was read for a step is of its kind.
LEMMA ReadOfStep ==
  ASSUME NEW s \in Plan
  PROVE  /\ s.day \in Days
         /\ s.name \in {"create", "openByHand"} => s.read[1] \in Nat /\ s.read[2] \in {0, 1}
         /\ s.name \in {"count", "close", "carry"} => s.read[1] \in Nat
         /\ s.name \in {"shortage", "sync"} => s.read[1] \in Int
         /\ s.name = "snapshot" => s.read[1] \in Int /\ s.read[2] \in Cash
BY DEF Plan, PlansOf, Kinds

LEMMA OneStep ==
  ASSUME NEW s \in Plan
  PROVE  <<s>> \in Seq(Plan)
OBVIOUS

LEMMA StandardSteps ==
  ASSUME NEW d \in Int
  PROVE  /\ OpenSteps(d, "openNext") \in Seq(Plan) /\ OpenSteps(d, "openFirst") \in Seq(Plan)
         /\ LoadDay(d) \in Seq(Plan)
         /\ d \in Days => Refresh(d) \in Seq(Plan) /\ ConfirmSteps(d) \in Seq(Plan)
<1>1. ASSUME NEW e \in Int, NEW how \in {"openNext", "openFirst"}
      PROVE  OpenSteps(e, how) \in Seq(Plan)
  <2>1. CASE e \in Days
    <3>1. Step("retire", e) \in Plan /\ Step(how, e) \in Plan
      BY <2>1, PlanOfStep
    <3> QED
      BY <2>1, <3>1 DEF OpenSteps
  <2> QED
    BY <2>1 DEF OpenSteps
<1>2. ASSUME NEW e \in Int PROVE LoadDay(e) \in Seq(Plan)
  <2>1. CASE e \in Days
    <3>1. Step("load", e) \in Plan
      BY <2>1, PlanOfStep
    <3> QED
      BY <2>1, <3>1 DEF LoadDay
  <2> QED
    BY <2>1 DEF LoadDay
<1>3. ASSUME d \in Days PROVE Refresh(d) \in Seq(Plan) /\ ConfirmSteps(d) \in Seq(Plan)
  <2>1. Step("revise", d) \in Plan /\ Step("confirm", d) \in Plan
    BY <1>3, PlanOfStep
  <2>2. Refresh(d) \in Seq(Plan) /\ <<Step("confirm", d)>> \in Seq(Plan)
    BY <2>1 DEF Refresh
  <2>3. OpenSteps(d + 1, "openNext") \in Seq(Plan) /\ LoadDay(d + 1) \in Seq(Plan)
    BY <1>1, <1>2
  <2> QED
    BY <2>2, <2>3, ConcatProperties DEF ConfirmSteps
<1> QED
  BY <1>1, <1>2, <1>3

LEMMA BeginKeepsPlans ==
  ASSUME PlansTyped, NEW r \in Requests, NEW steps \in Seq(Plan), Begin(r, steps)
  PROVE  PlansTyped'
BY DEF PlansTyped, Begin

\* The step a request is at, and what is left after it.
LEMMA StepAt ==
  ASSUME PlansTyped, NEW r \in Requests, todo[r] # <<>>
  PROVE  Head(todo[r]) \in Plan /\ Tail(todo[r]) \in Seq(Plan)
BY HeadTailProperties DEF PlansTyped

LEMMA ThenKeepsPlans ==
  ASSUME PlansTyped, NEW r \in Requests, todo[r] # <<>>, NEW steps \in Seq(Plan),
         Then(r, steps)
  PROVE  PlansTyped'
<1>1. steps \o Tail(todo[r]) \in Seq(Plan)
  BY StepAt, ConcatProperties
<1> QED
  BY <1>1 DEF PlansTyped, Then

LEMMA NothingMoreKeepsPlans ==
  ASSUME PlansTyped, NEW r \in Requests, todo[r] # <<>>, Then(r, <<>>) \/ Fail(r)
  PROVE  PlansTyped'
<1>1. <<>> \in Seq(Plan)
  OBVIOUS
<1>2. CASE Then(r, <<>>)
  BY <1>1, <1>2, ThenKeepsPlans
<1>3. CASE Fail(r)
  BY <1>1, <1>3 DEF PlansTyped, Fail
<1> QED
  BY <1>2, <1>3

-----------------------------------------------------------------------------
(* Requests begin.                                                         *)

Data == <<today, day, count, rows, salary, papers>>

LEMMA DataKept ==
  ASSUME DaysTyped, BooksTyped, PapersTyped, UNCHANGED Data
  PROVE  DaysTyped' /\ BooksTyped' /\ PapersTyped'
BY DEF DaysTyped, BooksTyped, PapersTyped, Data, day, papers

\* What is not cash is only looked at.
LEMMA BeginsKeepShape ==
  ASSUME Shape, NEW r \in Requests, NEW d \in Days,
         \/ \E cash \in OpeningCash, added \in {0, 1} : BeginOpen(r, d, cash, added)
         \/ \E k \in Kinds : BeginRecord(r, d, k)
         \/ BeginVoid(r, d)
         \/ \E n \in Counts : BeginCount(r, d, n)
         \/ BeginConfirm(r, d) \/ BeginApprove(r, d) \/ BeginReturn(r, d) \/ View(r, d)
         \/ Cron(r)
  PROVE  Shape'
<1>1. d \in Int /\ today \in Days /\ today \in Int
  BY DayNumbers DEF Shape, DaysTyped
<1>2. LoadDay(d) \in Seq(Plan) /\ Refresh(d) \in Seq(Plan) /\ ConfirmSteps(d) \in Seq(Plan)
  BY <1>1, StandardSteps
<1>3. ASSUME NEW first \in Plan PROVE <<first>> \o LoadDay(d) \in Seq(Plan)
  BY <1>2, <1>3, OneStep, ConcatProperties
<1> HIDE DEF Shape
<1>4. \E steps \in Seq(Plan) : Begin(r, steps) /\ UNCHANGED Data
  <2>1. ASSUME NEW cash \in OpeningCash, NEW added \in {0, 1}, BeginOpen(r, d, cash, added)
        PROVE  \E steps \in Seq(Plan) : Begin(r, steps) /\ UNCHANGED Data
    <3>1. Step("retire", d) \in Plan /\ StepWith("openByHand", d, <<cash, added>>) \in Plan
      BY PlanOfStep, CashAssumption
    <3>2. <<Step("retire", d), StepWith("openByHand", d, <<cash, added>>)>> \in Seq(Plan)
      BY <3>1
    <3>3. <<Step("retire", d), StepWith("openByHand", d, <<cash, added>>)>> \o LoadDay(d)
            \in Seq(Plan)
      BY <3>2, <1>2, ConcatProperties
    <3> QED
      BY <2>1, <3>3 DEF BeginOpen, Data
  <2>2. ASSUME NEW k \in Kinds, BeginRecord(r, d, k)
        PROVE  \E steps \in Seq(Plan) : Begin(r, steps) /\ UNCHANGED Data
    <3>1. Step(k, d) \in Plan
      BY PlanOfStep
    <3> QED
      BY <2>2, <3>1, <1>3 DEF BeginRecord, Data
  <2>3. ASSUME BeginVoid(r, d)
        PROVE  \E steps \in Seq(Plan) : Begin(r, steps) /\ UNCHANGED Data
    <3> DEFINE refresh == IF Returned(d) THEN Refresh(d) ELSE <<>>
    <3>1. Step("void", d) \in Plan
      BY PlanOfStep
    <3>2. refresh \in Seq(Plan)
      BY <1>2
    <3>3. <<Step("void", d)>> \o refresh \in Seq(Plan)
      BY <3>1, <3>2, OneStep, ConcatProperties
    <3>4. (<<Step("void", d)>> \o refresh) \o LoadDay(d) \in Seq(Plan)
      BY <3>3, <1>2, ConcatProperties
    <3> QED
      BY <2>3, <3>4 DEF BeginVoid, Data
  <2>4. ASSUME NEW n \in Counts, BeginCount(r, d, n)
        PROVE  \E steps \in Seq(Plan) : Begin(r, steps) /\ UNCHANGED Data
    <3>1. StepWith("count", d, <<n>>) \in Plan
      BY PlanOfStep, CashAssumption
    <3> QED
      BY <2>4, <3>1, <1>3 DEF BeginCount, Data
  <2>5. ASSUME BeginConfirm(r, d)
        PROVE  \E steps \in Seq(Plan) : Begin(r, steps) /\ UNCHANGED Data
    <3>1. RefreshIfReturned(d) \in Seq(Plan)
      BY <1>2 DEF RefreshIfReturned
    <3>2. RefreshIfReturned(d) \o ConfirmSteps(d) \in Seq(Plan)
      BY <3>1, <1>2, ConcatProperties
    <3> QED
      BY <2>5, <3>2 DEF BeginConfirm, Data
  <2>6. ASSUME BeginApprove(r, d) \/ BeginReturn(r, d)
        PROVE  \E steps \in Seq(Plan) : Begin(r, steps) /\ UNCHANGED Data
    <3>1. Step("approve", d) \in Plan /\ Step("return", d) \in Plan
      BY PlanOfStep
    <3> QED
      BY <2>6, <3>1, <1>3 DEF BeginApprove, BeginReturn, Data
  <2>7. ASSUME View(r, d)
        PROVE  \E steps \in Seq(Plan) : Begin(r, steps) /\ UNCHANGED Data
    BY <2>7, <1>2 DEF View, Data
  <2>8. ASSUME Cron(r)
        PROVE  \E steps \in Seq(Plan) : Begin(r, steps) /\ UNCHANGED Data
    <3>1. OpenSteps(today, "openNext") \in Seq(Plan)
      BY <1>1, StandardSteps
    <3> QED
      BY <2>8, <3>1 DEF Cron, Data
  <2> QED
    BY <2>1, <2>2, <2>3, <2>4, <2>5, <2>6, <2>7, <2>8
<1> QED
  BY <1>4, DataKept, BeginKeepsPlans DEF Shape

\* A day is only submitted with a count, which is what it will close with.
LEMMA SubmitKeepsShape ==
  ASSUME Shape, NEW r \in Requests, NEW d \in Days, BeginSubmit(r, d)
  PROVE  Shape'
<1> DEFINE mark == IF status[d] = "OPEN" THEN <<Step("mark", d)>> ELSE <<>>
           close == StepWith("close", d, <<count[d]>>)
           book == StepWith("shortage", d, <<count[d] - Expected(d)>>)
           last == Step("report", d)
<1>1. count[d] \in Nat /\ Expected(d) \in Int
  BY AmountsAreNumbers DEF BeginSubmit, Shape
<1>2. Step("mark", d) \in Plan /\ last \in Plan
  BY PlanOfStep
<1>3. close \in Plan
  BY <1>1, PlanOfStep
<1>4. book \in Plan
  <2>1. count[d] - Expected(d) \in Int
    BY <1>1
  <2> QED
    BY <2>1, PlanOfStep
<1>5. Begin(r, mark \o <<close, book, last>>) /\ UNCHANGED Data
  BY DEF BeginSubmit, Data
<1> HIDE DEF close, book, last
<1>6. mark \in Seq(Plan) /\ <<close, book, last>> \in Seq(Plan)
  BY <1>2, <1>3, <1>4
<1>7. mark \o <<close, book, last>> \in Seq(Plan)
  <2> HIDE DEF mark
  <2> QED
    BY <1>6, ConcatProperties
<1> QED
  BY <1>5, <1>7, DataKept, BeginKeepsPlans DEF Shape

LEMMA DirectKeepsShape ==
  ASSUME Shape, NEW r \in Requests, NEW d \in Days,
         Undo(r, d) \/ PaySalary(r, d) \/ ReverseSalary(r, d)
  PROVE  Shape'
<1>1. CASE Undo(r, d)
  <2>1. LoadDay(d) \in Seq(Plan)
    BY DayNumbers, StandardSteps
  <2>2. PlansTyped'
    BY <1>1, <2>1, BeginKeepsPlans DEF Undo, Shape
  <2>3. DaysTyped' /\ BooksTyped'
    BY <1>1 DEF Undo, Shape, DaysTyped, BooksTyped, day
  <2>4. PapersTyped'
    <3>1. [status |-> report[d].before, before |-> "NONE"] \in ReportType
      BY DEF Shape, PapersTyped, ReportType, Standings
    <3>2. /\ report' = [report EXCEPT ![d] = [status |-> report[d].before, before |-> "NONE"]]
          /\ UNCHANGED <<snapshot, shortage>>
      BY <1>1 DEF Undo, Shape, PapersTyped
    <3> QED
      BY <3>1, <3>2 DEF Shape, PapersTyped
  <2> QED
    BY <2>2, <2>3, <2>4 DEF Shape
<1>2. CASE PaySalary(r, d) \/ ReverseSalary(r, d)
  <2>1. PlansTyped' /\ DaysTyped' /\ PapersTyped'
    BY <1>2 DEF PaySalary, ReverseSalary, Shape, PlansTyped, DaysTyped, PapersTyped, day, papers
  <2>2. BooksTyped'
    BY <1>2 DEF PaySalary, ReverseSalary, Shape, BooksTyped
  <2> QED
    BY <2>1, <2>2 DEF Shape
<1> QED
  BY <1>1, <1>2

-----------------------------------------------------------------------------
(* Requests take their steps.                                              *)

LEMMA AtStep ==
  ASSUME PlansTyped, NEW r \in Requests, NEW d, NEW name, At(r, name, d)
  PROVE  /\ todo[r] # <<>> /\ Head(todo[r]) \in Plan
         /\ Head(todo[r]).name = name /\ Head(todo[r]).day = d
BY StepAt DEF At

\* Steps that read, and put further steps before the ones that are left.
LEMMA ReadsKeepShape ==
  ASSUME Shape, NEW r \in Requests, NEW d \in Days,
         \/ Load(r, d) \/ Retire(r, d)
         \/ \E how \in {"openNext", "openFirst", "openByHand"} : Decide(r, d, how)
         \/ CreateRefused(r, d) \/ Rebuild(r, d)
  PROVE  Shape'
<1>1. DaysTyped /\ BooksTyped /\ PlansTyped /\ PapersTyped
  BY DEF Shape
<1> HIDE DEF Shape
<1>2. d \in Int /\ <<>> \in Seq(Plan)
  BY DayNumbers
<1>3. /\ UNCHANGED Data /\ todo[r] # <<>>
      /\ Fail(r) \/ \E steps \in Seq(Plan) : Then(r, steps)
  <2> DEFINE Goal == /\ UNCHANGED Data /\ todo[r] # <<>>
                     /\ Fail(r) \/ \E steps \in Seq(Plan) : Then(r, steps)
  <2>1. ASSUME Load(r, d) PROVE Goal
    <3>1. Step("ensure", d) \in Plan
      BY PlanOfStep
    <3>2. <<Step("ensure", d)>> \in Seq(Plan)
      BY <3>1, OneStep
    <3> DEFINE open == IF Openable(d) THEN OpenSteps(d, "openFirst") ELSE <<>>
    <3>3. open \in Seq(Plan)
      BY <1>2, StandardSteps
    <3>4. open \o <<Step("ensure", d)>> \in Seq(Plan)
      <4> HIDE DEF open
      <4> QED
        BY <3>2, <3>3, ConcatProperties
    <3>5. Then(r, open \o <<Step("ensure", d)>>) /\ UNCHANGED Data /\ todo[r] # <<>>
      BY <2>1 DEF Load, Data, At
    <3> QED
      BY <3>4, <3>5
  <2>2. ASSUME Retire(r, d) PROVE Goal
    <3>1. CASE UnclosedBefore(d) # {} /\ IsEmptyUnclosed(Min(UnclosedBefore(d)))
      <4> DEFINE e == Min(UnclosedBefore(d))
      <4>1. e \in Days
        BY <1>1, <3>1, NextAndPrevious
      <4>2. Then(r, <<Step("delete", e), Step("retire", d)>>)
            /\ UNCHANGED Data /\ todo[r] # <<>>
        BY <2>2, <3>1 DEF Retire, Data, At
      <4> HIDE DEF e
      <4>3. Step("delete", e) \in Plan /\ Step("retire", d) \in Plan
        BY <4>1, PlanOfStep
      <4>4. <<Step("delete", e), Step("retire", d)>> \in Seq(Plan)
        BY <4>3
      <4> QED
        BY <4>2, <4>4
    <3>2. CASE ~ (UnclosedBefore(d) # {} /\ IsEmptyUnclosed(Min(UnclosedBefore(d))))
      <4>1. Then(r, <<>>) /\ UNCHANGED Data /\ todo[r] # <<>>
        BY <2>2, <3>2 DEF Retire, Data, At
      <4> QED
        BY <4>1, <1>2
    <3> QED
      BY <3>1, <3>2
  <2>3. ASSUME NEW how \in {"openNext", "openFirst", "openByHand"}, Decide(r, d, how)
        PROVE  Goal
    <3>1. /\ UNCHANGED Data /\ todo[r] # <<>>
          /\ how = "openByHand" => Read(r, 1) \in Nat /\ Read(r, 2) \in {0, 1}
      BY <1>1, <2>3, AtStep, ReadOfStep DEF Decide, Data, At, Read
    <3> DEFINE cash == IF Previous(d) # 0 THEN closing[Previous(d)]
                       ELSE IF how = "openByHand" THEN Read(r, 1) ELSE 0
               added == IF how = "openByHand" THEN Read(r, 2) ELSE 0
    <3>2. cash \in Nat /\ added \in {0, 1}
      BY <1>1, <3>1, NextAndPrevious
    <3>3. \/ Then(r, <<StepWith("create", d, <<cash, added>>)>>)
          \/ Then(r, <<>>) \/ Fail(r)
      BY <2>3 DEF Decide
    <3> HIDE DEF cash, added
    <3>4. <<StepWith("create", d, <<cash, added>>)>> \in Seq(Plan)
      BY <3>2, PlanOfStep, OneStep
    <3> QED
      BY <3>1, <3>3, <3>4, <1>2
  <2>4. ASSUME CreateRefused(r, d) PROVE Goal
    BY <2>4 DEF CreateRefused, Data, At
  <2>5. ASSUME Rebuild(r, d) PROVE Goal
    <3> DEFINE write == StepWith("snapshot", d, <<Expected(d), count[d]>>)
               sync == StepWith("sync", d, <<closing[d] - Expected(d)>>)
               after == IF closing[d] = None THEN <<>> ELSE <<sync>>
    <3>1. Expected(d) \in Int /\ count[d] \in Cash
          /\ (closing[d] # None => closing[d] - Expected(d) \in Int)
      BY <1>1, AmountsAreNumbers DEF BooksTyped
    <3>2. write \in Plan
      BY <3>1, PlanOfStep
    <3>3. closing[d] # None => sync \in Plan
      BY <3>1, PlanOfStep
    <3>4. Then(r, <<write>> \o after) /\ UNCHANGED Data /\ todo[r] # <<>>
      BY <2>5 DEF Rebuild, Data, At
    <3> HIDE DEF write, sync
    <3>5. <<write>> \in Seq(Plan) /\ after \in Seq(Plan)
      BY <3>2, <3>3
    <3>6. <<write>> \o after \in Seq(Plan)
      <4> HIDE DEF after
      <4> QED
        BY <3>5, ConcatProperties
    <3> QED
      BY <3>4, <3>6
  <2> HIDE DEF Goal
  <2>6. Goal
    BY <2>1, <2>2, <2>3, <2>4, <2>5
  <2> QED
    BY <2>6 DEF Goal
<1>4. PlansTyped'
  BY <1>1, <1>3, ThenKeepsPlans, NothingMoreKeepsPlans
<1> QED
  BY <1>1, <1>3, <1>4, DataKept DEF Shape

\* Steps that write the row of their day, its records or its count.
LEMMA DayStepsKeepShape ==
  ASSUME Shape, NEW r \in Requests, NEW d \in Days,
         \/ CreateDay(r, d) \/ MarkClosing(r, d) \/ CloseDay(r, d)
         \/ \E k \in Kinds : InsertRow(r, d, k)
         \/ VoidRow(r, d) \/ WriteCount(r, d)
  PROVE  Shape'
<1>1. DaysTyped /\ BooksTyped /\ PlansTyped /\ PapersTyped
  BY DEF Shape
<1>2. todo[r] # <<>> /\ Then(r, <<>>) /\ UNCHANGED papers
  BY DEF CreateDay, MarkClosing, CloseDay, InsertRow, VoidRow, WriteCount, At, papers
<1>3. PlansTyped'
  BY <1>1, <1>2, NothingMoreKeepsPlans
<1>4. PapersTyped'
  BY <1>1, <1>2 DEF PapersTyped, papers
<1>5. DaysTyped' /\ BooksTyped'
  <2> DEFINE Goal == DaysTyped' /\ BooksTyped'
  <2>1. ASSUME CreateDay(r, d) PROVE Goal
    <3>1. Read(r, 1) \in Nat /\ Read(r, 2) \in {0, 1} /\ Read(r, 1) + Read(r, 2) \in Nat
      BY <1>1, <2>1, AtStep, ReadOfStep DEF CreateDay, Read
    <3>2. DaysTyped'
      BY <1>1, <2>1, <3>1 DEF CreateDay, DaysTyped, Statuses
    <3>3. BooksTyped'
      BY <1>1, <2>1 DEF CreateDay, BooksTyped
    <3> QED
      BY <3>2, <3>3
  <2>2. ASSUME MarkClosing(r, d) PROVE Goal
    BY <1>1, <2>2 DEF MarkClosing, DaysTyped, BooksTyped, Statuses
  <2>3. ASSUME CloseDay(r, d) PROVE Goal
    <3>1. Read(r, 1) \in Nat
      BY <1>1, <2>3, AtStep, ReadOfStep DEF CloseDay, Read
    <3> QED
      BY <1>1, <2>3, <3>1 DEF CloseDay, DaysTyped, BooksTyped, Statuses, Cash, None
  <2>4. ASSUME NEW k \in Kinds, InsertRow(r, d, k) PROVE Goal
    <3>1. rows' = [rows EXCEPT ![d][k] = "booked"]
          /\ legacy' = [legacy EXCEPT ![d] = @ + (IF k = "topUp" THEN 1 ELSE 0)]
          /\ UNCHANGED <<today, status, opening, closing, count, salary>>
      BY <2>4 DEF InsertRow
    <3>2. legacy' \in [Days -> Nat]
      BY <1>1, <3>1 DEF DaysTyped
    <3>3. DaysTyped'
      BY <1>1, <3>1, <3>2 DEF DaysTyped
    <3>4. BooksTyped'
      BY <1>1, <3>1 DEF BooksTyped
    <3> QED
      BY <3>3, <3>4
  <2>5. ASSUME VoidRow(r, d) PROVE Goal
    <3>1. rows' \in [Days -> [Kinds -> {"none", "booked", "voided"}]]
      BY <1>1, <2>5 DEF VoidRow, BooksTyped, Kinds
    <3> QED
      BY <1>1, <2>5, <3>1 DEF VoidRow, DaysTyped, BooksTyped, day
  <2>6. ASSUME WriteCount(r, d) PROVE Goal
    <3>1. Read(r, 1) \in Nat
      BY <1>1, <2>6, AtStep, ReadOfStep DEF WriteCount, Read
    <3> QED
      BY <1>1, <2>6, <3>1 DEF WriteCount, DaysTyped, BooksTyped, Cash, day
  <2> HIDE DEF Goal
  <2>7. Goal
    BY <2>1, <2>2, <2>3, <2>4, <2>5, <2>6
  <2> QED
    BY <2>7 DEF Goal
<1> QED
  BY <1>3, <1>4, <1>5 DEF Shape

\* What a request can still do without a day: its steps up to the first that fails.
LEMMA LeftWithout ==
  ASSUME NEW d, NEW steps \in Seq(Plan)
  PROVE  \E n \in 0..Len(steps) :
           /\ WhatWorksWithout(d, steps) = SubSeq(steps, 1, n)
           /\ WhatWorksWithout(d, steps) \in Seq(Plan)
           /\ n # Len(steps) => steps[n + 1].name \in RowSteps /\ steps[n + 1].day = d
<1> DEFINE failing == FailingSteps(steps, d)
<1>1. failing \in SUBSET Nat /\ failing \in SUBSET (1..Len(steps)) /\ Len(steps) \in Nat
  BY DEF FailingSteps
<1>2. ASSUME NEW n \in 0..Len(steps) PROVE SubSeq(steps, 1, n) \in Seq(Plan)
  BY <1>1, <1>2, SubSeqProperties
<1>3. CASE failing = {}
  <2>1. WhatWorksWithout(d, steps) = steps
    BY <1>3 DEF WhatWorksWithout
  <2>2. steps = SubSeq(steps, 1, Len(steps)) /\ Len(steps) \in 0..Len(steps)
    BY <1>1, SubSeqProperties
  <2> QED
    BY <2>1, <2>2
<1>4. CASE failing # {}
  <2>1. \E n \in failing : \A m \in failing : n <= m
    BY <1>1, <1>4, LeastNumber
  <2>2. Min(failing) \in failing
    BY <2>1 DEF Min
  <2> DEFINE n == Min(failing) - 1
  <2>3. n \in 0..Len(steps) /\ n + 1 = Min(failing)
    BY <1>1, <2>2
  <2>4. WhatWorksWithout(d, steps) = SubSeq(steps, 1, n)
    BY <1>4 DEF WhatWorksWithout
  <2>5. steps[n + 1].name \in RowSteps /\ steps[n + 1].day = d
    BY <2>2, <2>3 DEF FailingSteps
  <2> HIDE DEF n
  <2> QED
    BY <1>2, <2>3, <2>4, <2>5
<1> QED
  BY <1>3, <1>4

LEMMA DeleteKeepsShape ==
  ASSUME Shape, NEW r \in Requests, NEW d \in Days, DeleteDay(r, d)
  PROVE  Shape'
<1>1. DaysTyped /\ BooksTyped /\ PlansTyped /\ PapersTyped
  BY DEF Shape
<1>2. todo[r] # <<>> /\ Tail(todo[r]) \in Seq(Plan) /\ <<>> \in Seq(Plan)
  BY <1>1, StepAt DEF DeleteDay, At
<1>3. PlansTyped'
  <2>1. \A q \in Requests : WhatWorksWithout(d, todo[q]) \in Seq(Plan)
    BY <1>1, LeftWithout DEF PlansTyped
  <2> QED
    BY <1>1, <1>2, <2>1 DEF DeleteDay, PlansTyped
<1>4. DaysTyped'
  BY <1>1 DEF DeleteDay, DaysTyped, Statuses, Cash
<1>5. BooksTyped'
  <2>1. count' \in [Days -> Cash]
    BY <1>1 DEF DeleteDay, BooksTyped, Cash
  <2>2. rows' \in [Days -> [Kinds -> {"none", "booked", "voided"}]]
    BY <1>1 DEF DeleteDay, BooksTyped
  <2>3. salary' \in [Days -> {"none", "paid", "adrift"}]
    BY <1>1 DEF DeleteDay, BooksTyped
  <2> QED
    BY <2>1, <2>2, <2>3 DEF BooksTyped
<1>6. PapersTyped'
  <2>1. NoReport \in ReportType /\ NoSnapshot \in SnapshotType /\ None \in Cash
    BY DEF NoReport, NoSnapshot, ReportType, SnapshotType, Standings, Cash, None
  <2>2. /\ report' = [report EXCEPT ![d] = NoReport]
        /\ snapshot' = [snapshot EXCEPT ![d] = NoSnapshot]
        /\ shortage' = [shortage EXCEPT ![d] = None]
    BY DEF DeleteDay
  <2> QED
    BY <1>1, <2>1, <2>2 DEF PapersTyped
<1> QED
  BY <1>3, <1>4, <1>5, <1>6 DEF Shape

LEMMA WriteReportKeepsPapers ==
  ASSUME Shape, NEW d \in Days,
         WriteReport(d) \/ UNCHANGED <<report, snapshot>>
  PROVE  report' \in [Days -> ReportType] /\ snapshot' \in [Days -> SnapshotType]
<1>1. Expected(d) \in Int /\ count[d] \in Cash
  BY AmountsAreNumbers DEF Shape, BooksTyped
<1>2. [expected |-> Expected(d), counted |-> count[d]] \in SnapshotType
  BY <1>1 DEF SnapshotType
<1>3. [status |-> "MANAGER_REVIEW", before |-> "NONE"] \in ReportType
  BY DEF ReportType, Standings, WithManager
<1> HIDE DEF ReportType, SnapshotType
<1> QED
  BY <1>2, <1>3 DEF WriteReport, Shape, PapersTyped

\* Steps that write the report or the shortage of their day.
LEMMA PaperStepsKeepShape ==
  ASSUME Shape, NEW r \in Requests, NEW d \in Days,
         \/ CreateShortage(r, d) \/ EnsureReport(r, d) \/ ReportClose(r, d)
         \/ ConfirmReport(r, d) \/ ApproveReport(r, d) \/ ReturnReport(r, d)
         \/ WriteSnapshot(r, d) \/ SyncShortage(r, d)
  PROVE  Shape'
<1>1. DaysTyped /\ BooksTyped /\ PlansTyped /\ PapersTyped
  BY DEF Shape
<1>2. todo[r] # <<>> /\ UNCHANGED <<today, day, count, rows, salary>>
  BY DEF CreateShortage, EnsureReport, ReportClose, ConfirmReport, ApproveReport, ReturnReport,
         SetReport, WriteSnapshot, SyncShortage, At
<1>3. DaysTyped' /\ BooksTyped'
  BY <1>1, <1>2 DEF DaysTyped, BooksTyped, day
<1>4. PlansTyped'
  <2>1. CASE ReportClose(r, d)
    <3>1. LoadDay(d) \in Seq(Plan) /\ ConfirmSteps(d) \in Seq(Plan)
      BY DayNumbers, StandardSteps
    <3>2. Then(r, LoadDay(d)) \/ Then(r, ConfirmSteps(d))
      BY <2>1 DEF ReportClose
    <3> QED
      BY <1>1, <1>2, <3>1, <3>2, ThenKeepsPlans
  <2>2. CASE ~ ReportClose(r, d)
    <3>1. Then(r, <<>>)
      BY <2>2 DEF CreateShortage, EnsureReport, ConfirmReport, ApproveReport, ReturnReport,
                  SetReport, WriteSnapshot, SyncShortage
    <3> QED
      BY <1>1, <1>2, <3>1, NothingMoreKeepsPlans
  <2> QED
    BY <2>1, <2>2
<1>5. PapersTyped'
  <2>1. ASSUME CreateShortage(r, d) \/ SyncShortage(r, d) PROVE PapersTyped'
    <3>1. Read(r, 1) \in Int
      BY <1>1, <2>1, AtStep, ReadOfStep DEF CreateShortage, SyncShortage, Read
    <3>2. ShortageOf(Read(r, 1)) \in Nat
      BY <3>1, ShortageIsANumber
    <3>3. UNCHANGED <<report, snapshot>>
      BY <2>1 DEF CreateShortage, SyncShortage
    <3>4. \E n \in Cash : shortage' = [shortage EXCEPT ![d] = n]
      BY <1>1, <2>1, <3>2 DEF CreateShortage, SyncShortage, PapersTyped, Cash
    <3> QED
      BY <1>1, <3>3, <3>4 DEF PapersTyped
  <2>2. ASSUME EnsureReport(r, d) \/ ReportClose(r, d) PROVE PapersTyped'
    <3>1. UNCHANGED shortage /\ (WriteReport(d) \/ UNCHANGED <<report, snapshot>>)
      BY <2>2 DEF EnsureReport, ReportClose
    <3> QED
      BY <1>1, <3>1, WriteReportKeepsPapers DEF PapersTyped
  <2>3. ASSUME ConfirmReport(r, d) \/ ApproveReport(r, d) \/ ReturnReport(r, d)
        PROVE  PapersTyped'
    <3>1. report[d].status \in Standings
      BY <1>1 DEF PapersTyped, ReportType
    <3>2. /\ [status |-> "SENT_TO_OWNER", before |-> report[d].status] \in ReportType
          /\ [status |-> "OWNER_APPROVED", before |-> "NONE"] \in ReportType
          /\ [status |-> "RETURNED_TO_MANAGER", before |-> "NONE"] \in ReportType
      BY <3>1 DEF ReportType, Standings, Submitted, WithManager
    <3>3. UNCHANGED <<snapshot, shortage>>
      BY <2>3 DEF ConfirmReport, ApproveReport, ReturnReport, SetReport
    <3>4. \E new \in ReportType : report' = [report EXCEPT ![d] = new]
      BY <2>3, <3>2 DEF ConfirmReport, ApproveReport, ReturnReport, SetReport
    <3> HIDE DEF ReportType, SnapshotType
    <3> QED
      BY <1>1, <3>3, <3>4 DEF PapersTyped
  <2>4. ASSUME WriteSnapshot(r, d) PROVE PapersTyped'
    <3>1. Read(r, 1) \in Int /\ Read(r, 2) \in Cash
      BY <1>1, <2>4, AtStep, ReadOfStep DEF WriteSnapshot, Read
    <3>2. [expected |-> Read(r, 1), counted |-> Read(r, 2)] \in SnapshotType
      BY <3>1 DEF SnapshotType
    <3>3. UNCHANGED <<report, shortage>>
      BY <2>4 DEF WriteSnapshot
    <3>4. \/ UNCHANGED snapshot
          \/ snapshot' = [snapshot EXCEPT ![d] = [expected |-> Read(r, 1),
                                                  counted |-> Read(r, 2)]]
      BY <2>4 DEF WriteSnapshot
    <3> HIDE DEF ReportType, SnapshotType
    <3> QED
      BY <1>1, <3>2, <3>3, <3>4 DEF PapersTyped
  <2> QED
    BY <2>1, <2>2, <2>3, <2>4
<1> QED
  BY <1>3, <1>4, <1>5 DEF Shape

\* The correction that carries a new closing into the next day.
LEMMA CorrectionKeepsShape ==
  ASSUME Shape, NEW r \in Requests, NEW d \in Days, Revise(r, d) \/ Carry(r, d)
  PROVE  Shape'
<1>1. DaysTyped /\ BooksTyped /\ PlansTyped /\ PapersTyped
  BY DEF Shape
<1>2. todo[r] # <<>> /\ UNCHANGED <<today, status, legacy, count, rows, salary, papers>>
  BY DEF Revise, Carry, At
<1>3. BooksTyped' /\ PapersTyped'
  BY <1>1, <1>2 DEF BooksTyped, PapersTyped, papers
<1>4. Step("rebuild", d) \in Plan
  BY PlanOfStep
<1>5. <<Step("rebuild", d)>> \in Seq(Plan) /\ <<>> \in Seq(Plan)
  BY <1>4, OneStep
<1>6. CASE Revise(r, d)
  <2>1. CASE status[d] \in {"NONE", "OPEN"}
    <3>1. Then(r, <<>>) /\ UNCHANGED <<closing, opening>>
      BY <1>6, <2>1 DEF Revise
    <3> QED
      BY <1>1, <1>2, <1>3, <1>5, <3>1, ThenKeepsPlans DEF Shape, DaysTyped
  <2>2. CASE /\ status[d] \notin {"NONE", "OPEN"}
             /\ status[d] = "CLOSED" /\ count[d] \notin {None, closing[d]}
    <3>1. /\ closing' = [closing EXCEPT ![d] = count[d]]
          /\ Then(r, <<StepWith("carry", d, <<count[d]>>)>>) /\ UNCHANGED opening
      BY <1>6, <2>2 DEF Revise
    <3>2. count[d] \in Nat /\ count[d] # None
      BY <1>1, <2>2, AmountsAreNumbers
    <3>3. StepWith("carry", d, <<count[d]>>) \in Plan
      BY <3>2, PlanOfStep
    <3>4. <<StepWith("carry", d, <<count[d]>>)>> \in Seq(Plan)
      BY <3>3, OneStep
    <3>5. PlansTyped'
      BY <1>1, <1>2, <3>1, <3>4, ThenKeepsPlans
    <3>6. DaysTyped'
      BY <1>1, <1>2, <3>1, <3>2 DEF DaysTyped, Cash
    <3> QED
      BY <1>3, <3>5, <3>6 DEF Shape
  <2>3. CASE /\ status[d] \notin {"NONE", "OPEN"}
             /\ ~ (status[d] = "CLOSED" /\ count[d] \notin {None, closing[d]})
    <3>1. Then(r, <<Step("rebuild", d)>>) /\ UNCHANGED <<closing, opening>>
      BY <1>6, <2>3 DEF Revise
    <3> QED
      BY <1>1, <1>2, <1>3, <1>5, <3>1, ThenKeepsPlans DEF Shape, DaysTyped
  <2> QED
    BY <2>1, <2>2, <2>3
<1>7. CASE Carry(r, d)
  <2>1. CASE ExistingAfter(d) = {}
    <3>1. Then(r, <<Step("rebuild", d)>>) /\ UNCHANGED <<closing, opening>>
      BY <1>7, <2>1 DEF Carry
    <3> QED
      BY <1>1, <1>2, <1>3, <1>5, <3>1, ThenKeepsPlans DEF Shape, DaysTyped
  <2>2. CASE ExistingAfter(d) # {}
    <3> DEFINE next == Min(ExistingAfter(d))
               after == IF status[next] = "OPEN" THEN <<>> ELSE Refresh(next)
    <3>1. next \in Days
      BY <1>1, <2>2, NextAndPrevious
    <3>2. /\ opening' = [opening EXCEPT ![next] = Read(r, 1)] /\ UNCHANGED closing
          /\ Then(r, <<Step("rebuild", d)>> \o after)
      BY <1>7, <2>2 DEF Carry
    <3>3. Read(r, 1) \in Nat
      BY <1>1, <1>7, AtStep, ReadOfStep DEF Carry, Read
    <3> HIDE DEF next
    <3>4. after \in Seq(Plan)
      BY <1>5, <3>1, DayNumbers, StandardSteps
    <3>5. <<Step("rebuild", d)>> \o after \in Seq(Plan)
      <4> HIDE DEF after
      <4> QED
        BY <1>5, <3>4, ConcatProperties
    <3>6. PlansTyped'
      BY <1>1, <1>2, <3>2, <3>5, ThenKeepsPlans
    <3>7. DaysTyped'
      BY <1>1, <1>2, <3>1, <3>2, <3>3 DEF DaysTyped
    <3> QED
      BY <1>3, <3>6, <3>7 DEF Shape
  <2> QED
    BY <2>1, <2>2
<1> QED
  BY <1>6, <1>7

-----------------------------------------------------------------------------
(* The shape of the state.                                                 *)

\* The days changed by a step are remembered for the requests that work.
LEMMA RememberKeepsMemory ==
  ASSUME MemoryTyped, NEW r \in Requests, Remember(r)
  PROVE  MemoryTyped'
<1>1. Changed \subseteq Days /\ Written \subseteq Days
  BY DEF Changed, Written
<1>2. outdated' \in [Requests -> SUBSET Days]
  <2>1. \A q \in Requests :
          (IF todo'[q] = <<>> \/ todo[q] = <<>> THEN {}
           ELSE IF q = r THEN outdated[q] ELSE outdated[q] \cup Changed) \in SUBSET Days
    BY <1>1 DEF MemoryTyped
  <2> HIDE DEF Changed
  <2> QED
    BY <2>1 DEF Remember
<1>3. overtaken' \subseteq Days
  BY <1>1 DEF Remember, MemoryTyped
<1> QED
  BY <1>2, <1>3 DEF Remember, MemoryTyped

LEMMA WorkKeepsShape ==
  ASSUME Shape, NEW r \in Requests, NEW d \in Days, Work(r, d)
  PROVE  Shape'
<1>1. CASE Load(r, d) \/ Retire(r, d) \/ CreateRefused(r, d) \/ Rebuild(r, d)
           \/ \E how \in {"openNext", "openFirst", "openByHand"} : Decide(r, d, how)
  BY <1>1, ReadsKeepShape
<1>2. CASE \/ CreateDay(r, d) \/ MarkClosing(r, d) \/ CloseDay(r, d) \/ VoidRow(r, d)
           \/ WriteCount(r, d) \/ \E k \in Kinds : InsertRow(r, d, k)
  BY <1>2, DayStepsKeepShape
<1>3. CASE \/ CreateShortage(r, d) \/ EnsureReport(r, d) \/ ReportClose(r, d)
           \/ ConfirmReport(r, d) \/ ApproveReport(r, d) \/ ReturnReport(r, d)
           \/ WriteSnapshot(r, d) \/ SyncShortage(r, d)
  BY <1>3, PaperStepsKeepShape
<1>4. CASE Revise(r, d) \/ Carry(r, d)
  BY <1>4, CorrectionKeepsShape
<1>5. CASE DeleteDay(r, d)
  BY <1>5, DeleteKeepsShape
<1> QED
  BY <1>1, <1>2, <1>3, <1>4, <1>5 DEF Work

LEMMA AskKeepsShape ==
  ASSUME Shape, NEW r \in Requests, Cron(r) \/ \E d \in Days : Ask(r, d)
  PROVE  Shape'
<1>1. CASE Cron(r)
  BY <1>1, DayNumbers, BeginsKeepShape
<1>2. ASSUME NEW d \in Days, Ask(r, d) PROVE Shape'
  <2>1. CASE BeginSubmit(r, d)
    BY <2>1, SubmitKeepsShape
  <2>2. CASE Undo(r, d) \/ PaySalary(r, d) \/ ReverseSalary(r, d)
    BY <2>2, DirectKeepsShape
  <2>3. CASE \/ \E cash \in OpeningCash, added \in {0, 1} : BeginOpen(r, d, cash, added)
             \/ \E k \in Kinds : BeginRecord(r, d, k)
             \/ BeginVoid(r, d)
             \/ \E n \in Counts : BeginCount(r, d, n)
             \/ BeginConfirm(r, d) \/ BeginApprove(r, d) \/ BeginReturn(r, d) \/ View(r, d)
    BY <2>3, BeginsKeepShape
  <2>4. {0} \cup {1 : x \in Records \cap {<<d, "topUp">>}} \subseteq {0, 1}
    OBVIOUS
  <2> QED
    BY <1>2, <2>1, <2>2, <2>3, <2>4 DEF Ask
<1> QED
  BY <1>1, <1>2

LEMMA StepKeepsShape ==
  ASSUME Shape, MemoryTyped, [Next]_vars
  PROVE  Shape' /\ MemoryTyped'
<1>1. CASE UNCHANGED vars
  BY <1>1 DEF vars, Shape, MemoryTyped, DaysTyped, BooksTyped, PapersTyped, PlansTyped,
              day, papers, memory
<1>2. CASE Midnight /\ UNCHANGED memory
  <2>1. today' \in Days
    BY <1>2, DayNumbers, CalendarAssumption DEF Midnight, Shape, DaysTyped, Days
  <2> QED
    BY <1>2, <2>1 DEF Midnight, Shape, MemoryTyped, DaysTyped, BooksTyped, PapersTyped,
                      PlansTyped, day, papers, memory
<1>3. ASSUME NEW r \in Requests, Cron(r) \/ \E d \in Days : Ask(r, d), Remember(r)
      PROVE  Shape' /\ MemoryTyped'
  BY <1>3, AskKeepsShape, RememberKeepsMemory
<1>4. ASSUME NEW r \in Requests, Continue(r) PROVE Shape' /\ MemoryTyped'
  <2>1. Head(todo[r]) \in Plan /\ Head(todo[r]).day \in Days
    BY <1>4, StepAt, ReadOfStep DEF Continue, Shape
  <2> QED
    BY <1>4, <2>1, WorkKeepsShape, RememberKeepsMemory DEF Continue
<1>5. ASSUME NEW r \in Requests, Stop(r) PROVE Shape' /\ MemoryTyped'
  <2>1. DaysTyped' /\ BooksTyped' /\ PapersTyped'
    BY <1>5, DataKept DEF Stop, Shape, Data
  <2>2. PlansTyped'
    <3>1. <<>> \in Seq(Plan)
      OBVIOUS
    <3> QED
      BY <1>5, <3>1 DEF Stop, Shape, PlansTyped
  <2>3. stops' \in 0..MaxStops
    BY <1>5, CalendarAssumption DEF Stop, MemoryTyped
  <2>4. outdated' \in [Requests -> SUBSET Days]
    BY <1>5 DEF Stop, MemoryTyped
  <2>5. overtaken' \subseteq Days
    BY <1>5 DEF Stop, MemoryTyped
  <2> QED
    BY <2>1, <2>2, <2>3, <2>4, <2>5 DEF Shape, MemoryTyped
<1> QED
  BY <1>1, <1>2, <1>3, <1>4, <1>5 DEF Next

LEMMA InitHasShape == Init => Shape /\ MemoryTyped
<1> SUFFICES ASSUME Init PROVE Shape /\ MemoryTyped
  OBVIOUS
<1>1. DaysTyped
  BY DayNumbers DEF Init, DaysTyped, Statuses, Cash
<1>2. BooksTyped
  BY DEF Init, BooksTyped, Cash
<1>3. PapersTyped
  BY DEF Init, PapersTyped, ReportType, SnapshotType, Standings, NoReport, NoSnapshot, Cash, None
<1>4. PlansTyped
  BY DEF Init, PlansTyped
<1>5. MemoryTyped
  BY CalendarAssumption DEF Init, MemoryTyped
<1> QED
  BY <1>1, <1>2, <1>3, <1>4, <1>5 DEF Shape

LEMMA ShapeIsTypeOK == Shape /\ MemoryTyped => TypeOK
<1> SUFFICES ASSUME Shape, MemoryTyped PROVE TypeOK
  OBVIOUS
<1>1. \A d \in Days : /\ report[d].status \in {"NONE"} \cup WithManager \cup Submitted
                      /\ report[d].before \in {"NONE"} \cup WithManager \cup Submitted
                      /\ snapshot[d].expected \in Int /\ snapshot[d].counted \in Cash
  BY DEF Shape, PapersTyped, ReportType, SnapshotType, Standings
<1>2. \A r \in Requests : \A i \in DOMAIN todo[r] : todo[r][i].day \in Days
  <2> SUFFICES ASSUME NEW r \in Requests, NEW i \in DOMAIN todo[r]
               PROVE  todo[r][i].day \in Days
    OBVIOUS
  <2>1. todo[r][i] \in Plan
    BY DEF Shape, PlansTyped
  <2> QED
    BY <2>1, ReadOfStep
<1> QED
  BY <1>1, <1>2 DEF TypeOK, Shape, DaysTyped, BooksTyped, PapersTyped, MemoryTyped, Statuses

LEMMA ShapeHolds == Spec => [](Shape /\ MemoryTyped)
<1>1. Init => Shape /\ MemoryTyped
  BY InitHasShape
<1>2. (Shape /\ MemoryTyped) /\ [Next]_vars => (Shape /\ MemoryTyped)'
  BY StepKeepsShape
<1> QED
  BY <1>1, <1>2, PTL DEF Spec

\* TypeOK of a branch's days: whatever overlaps and whatever stops half way, no day is
\* closed without a counted balance, none is opened with a missing or negative amount, and
\* no shortage is negative (submitReconciliation, closeBranch, createOperation,
\* reviseNextOperationOpeningBalance).
THEOREM DaysAreTyped == Spec => []TypeOK
<1>1. Shape /\ MemoryTyped => TypeOK
  BY ShapeIsTypeOK
<1> QED
  BY <1>1, ShapeHolds, PTL

-----------------------------------------------------------------------------
(* What a request still has to do, and in which order.                     *)

Entries(steps) == {steps[i] : i \in DOMAIN steps}
Left(r) == Entries(todo[r])
Rest(r) == Entries(Tail(todo[r]))

\* The steps that end a request: they look at nothing the request has read before.
Late == {"retire", "openNext", "openFirst", "openByHand", "load", "ensure"}
Refreshes == {"revise", "carry", "rebuild", "snapshot", "sync"}

\* Which step may come after which.
Follows(x, y) ==
  \/ y.name \in Late /\ x.name \notin {"mark", "close", "shortage", "report"}
  \/ y.name = "revise" /\ x.name \in Refreshes
  \/ y.name = "revise" /\ x.name = "void" /\ y.day = x.day
  \/ y.name = "confirm" /\ x.name \in Refreshes /\ y.day <= x.day
  \/ y.name = "sync" /\ x.name = "snapshot" /\ y.day = x.day
  \/ y.name = "close" /\ x.name = "mark" /\ y.day = x.day
  \/ y.name = "shortage" /\ x.name \in {"mark", "close"} /\ y.day = x.day
  \/ y.name = "report" /\ x.name \in {"mark", "close", "shortage"} /\ y.day = x.day

InOrder(steps) == \A i, j \in DOMAIN steps : i < j => Follows(steps[i], steps[j])
Ordered == \A r \in Requests : InOrder(todo[r])

LEMMA EntriesOfConcat ==
  ASSUME NEW s \in Seq(Plan), NEW t \in Seq(Plan)
  PROVE  Entries(s \o t) = Entries(s) \cup Entries(t)
<1>1. s \o t \in Seq(Plan) /\ Len(s \o t) = Len(s) + Len(t)
      /\ \A i \in 1..(Len(s) + Len(t)) :
           (s \o t)[i] = IF i <= Len(s) THEN s[i] ELSE t[i - Len(s)]
  BY ConcatProperties
<1>2. /\ DOMAIN s = 1..Len(s) /\ DOMAIN t = 1..Len(t) /\ Len(s) \in Nat /\ Len(t) \in Nat
      /\ DOMAIN (s \o t) = 1..(Len(s) + Len(t))
  BY <1>1, LenProperties
<1> HIDE DEF Plan
<1>3. ASSUME NEW x \in Entries(s \o t) PROVE x \in Entries(s) \cup Entries(t)
  <2>1. PICK i \in 1..(Len(s) + Len(t)) : x = (s \o t)[i]
    BY <1>2, <1>3 DEF Entries
  <2>2. CASE i <= Len(s)
    <3>1. x = s[i] /\ i \in DOMAIN s
      BY <1>1, <1>2, <2>1, <2>2
    <3> QED
      BY <3>1 DEF Entries
  <2>3. CASE ~ (i <= Len(s))
    <3>1. x = t[i - Len(s)] /\ i - Len(s) \in DOMAIN t
      BY <1>1, <1>2, <2>1, <2>3
    <3> QED
      BY <3>1 DEF Entries
  <2> QED
    BY <2>2, <2>3
<1>4. ASSUME NEW x \in Entries(s) PROVE x \in Entries(s \o t)
  <2>1. PICK i \in 1..Len(s) : x = s[i]
    BY <1>2, <1>4 DEF Entries
  <2>2. i \in DOMAIN (s \o t) /\ x = (s \o t)[i]
    BY <1>1, <1>2, <2>1
  <2> QED
    BY <2>2 DEF Entries
<1>5. ASSUME NEW x \in Entries(t) PROVE x \in Entries(s \o t)
  <2>1. PICK i \in 1..Len(t) : x = t[i]
    BY <1>2, <1>5 DEF Entries
  <2>2. i + Len(s) \in DOMAIN (s \o t) /\ x = (s \o t)[i + Len(s)]
    BY <1>1, <1>2, <2>1
  <2> QED
    BY <2>2 DEF Entries
<1> QED
  BY <1>3, <1>4, <1>5

LEMMA OrderOfConcat ==
  ASSUME NEW s \in Seq(Plan), NEW t \in Seq(Plan), InOrder(s), InOrder(t),
         \A x \in Entries(s), y \in Entries(t) : Follows(x, y)
  PROVE  InOrder(s \o t)
<1>1. s \o t \in Seq(Plan) /\ Len(s \o t) = Len(s) + Len(t)
      /\ \A i \in 1..(Len(s) + Len(t)) :
           (s \o t)[i] = IF i <= Len(s) THEN s[i] ELSE t[i - Len(s)]
  BY ConcatProperties
<1>2. /\ DOMAIN s = 1..Len(s) /\ DOMAIN t = 1..Len(t) /\ Len(s) \in Nat /\ Len(t) \in Nat
      /\ DOMAIN (s \o t) = 1..(Len(s) + Len(t))
  BY <1>1, LenProperties
<1>3. SUFFICES ASSUME NEW i \in 1..(Len(s) + Len(t)), NEW j \in 1..(Len(s) + Len(t)), i < j
               PROVE  Follows((s \o t)[i], (s \o t)[j])
  BY <1>2 DEF InOrder
<1>4. CASE j <= Len(s)
  <2>1. i \in DOMAIN s /\ j \in DOMAIN s /\ (s \o t)[i] = s[i] /\ (s \o t)[j] = s[j]
    BY <1>1, <1>2, <1>3, <1>4
  <2>2. Follows(s[i], s[j])
    BY <1>3, <2>1 DEF InOrder
  <2> QED
    BY <2>1, <2>2
<1>5. CASE i > Len(s)
  <2>1. /\ i - Len(s) \in DOMAIN t /\ j - Len(s) \in DOMAIN t /\ i - Len(s) < j - Len(s)
        /\ (s \o t)[i] = t[i - Len(s)] /\ (s \o t)[j] = t[j - Len(s)]
    BY <1>1, <1>2, <1>3, <1>5
  <2>2. Follows(t[i - Len(s)], t[j - Len(s)])
    BY <2>1 DEF InOrder
  <2> QED
    BY <2>1, <2>2
<1>6. CASE i <= Len(s) /\ j > Len(s)
  <2>1. /\ i \in DOMAIN s /\ j - Len(s) \in DOMAIN t
        /\ (s \o t)[i] = s[i] /\ (s \o t)[j] = t[j - Len(s)]
    BY <1>1, <1>2, <1>3, <1>6
  <2>2. s[i] \in Entries(s) /\ t[j - Len(s)] \in Entries(t)
    BY <2>1 DEF Entries
  <2>3. Follows(s[i], t[j - Len(s)])
    BY <2>2
  <2> QED
    BY <2>1, <2>3
<1> QED
  BY <1>2, <1>3, <1>4, <1>5, <1>6

LEMMA FewSteps ==
  ASSUME NEW x, NEW y
  PROVE  /\ Entries(<<>>) = {} /\ Entries(<<x>>) = {x} /\ Entries(<<x, y>>) = {x, y}
         /\ InOrder(<<>>) /\ InOrder(<<x>>)
         /\ Follows(x, y) => InOrder(<<x, y>>)
<1>1. DOMAIN <<>> = {} /\ DOMAIN <<x>> = {1} /\ DOMAIN <<x, y>> = {1, 2}
  OBVIOUS
<1>2. <<x>>[1] = x /\ <<x, y>>[1] = x /\ <<x, y>>[2] = y
  OBVIOUS
<1>3. Entries(<<>>) = {} /\ Entries(<<x>>) = {x} /\ Entries(<<x, y>>) = {x, y}
  BY <1>1, <1>2 DEF Entries
<1>4. InOrder(<<>>) /\ InOrder(<<x>>)
  BY <1>1 DEF InOrder
<1>5. Follows(x, y) => InOrder(<<x, y>>)
  <2> HIDE DEF Follows
  <2> QED
    BY <1>1, <1>2 DEF InOrder
<1> QED
  BY <1>3, <1>4, <1>5

\* The step a request is at comes before all the others.
LEMMA HeadAndRest ==
  ASSUME PlansTyped, NEW r \in Requests, todo[r] # <<>>
  PROVE  /\ Left(r) = {Head(todo[r])} \cup Rest(r) /\ Head(todo[r]) \in Plan
         /\ Rest(r) \subseteq Plan /\ Tail(todo[r]) \in Seq(Plan)
         /\ Ordered => InOrder(Tail(todo[r]))
         /\ Ordered => \A t \in Rest(r) : Follows(Head(todo[r]), t)
<1> DEFINE s == todo[r]
<1>1. s \in Seq(Plan) /\ s # <<>>
  BY DEF PlansTyped
<1>2. /\ Head(s) \in Plan /\ Tail(s) \in Seq(Plan) /\ Len(Tail(s)) = Len(s) - 1
      /\ \A i \in 1..Len(Tail(s)) : Tail(s)[i] = s[i + 1]
  <2> HIDE DEF s, Plan
  <2> QED
    BY <1>1, HeadTailProperties
<1>3. DOMAIN s = 1..Len(s) /\ Len(s) \in Nat \ {0} /\ Head(s) = s[1]
      /\ DOMAIN Tail(s) = 1..(Len(s) - 1)
  <2> HIDE DEF s, Plan
  <2> QED
    BY <1>1, <1>2, LenProperties, EmptySeq
<1>4. \A i \in 1..(Len(s) - 1) : Tail(s)[i] = s[i + 1] /\ i + 1 \in DOMAIN s
  BY <1>2, <1>3
<1>5. \A i \in DOMAIN s : i = 1 \/ (i - 1 \in DOMAIN Tail(s) /\ s[i] = Tail(s)[i - 1])
  <2> HIDE DEF s, Plan
  <2> QED
    BY <1>3, <1>4
<1> HIDE DEF s, Plan
<1>6. Entries(s) = {Head(s)} \cup Entries(Tail(s))
  <2>1. ASSUME NEW x \in Entries(s) PROVE x \in {Head(s)} \cup Entries(Tail(s))
    BY <2>1, <1>3, <1>5 DEF Entries
  <2>2. Head(s) \in Entries(s)
    BY <1>3 DEF Entries
  <2>3. ASSUME NEW x \in Entries(Tail(s)) PROVE x \in Entries(s)
    BY <2>3, <1>3, <1>4 DEF Entries
  <2> QED
    BY <2>1, <2>2, <2>3
<1>7. Entries(Tail(s)) \subseteq Plan
  BY <1>2 DEF Entries
<1>8. ASSUME InOrder(s) PROVE InOrder(Tail(s)) /\ \A t \in Entries(Tail(s)) : Follows(Head(s), t)
  <2>1. ASSUME NEW i \in DOMAIN Tail(s), NEW j \in DOMAIN Tail(s), i < j
        PROVE  Follows(Tail(s)[i], Tail(s)[j])
    <3>1. i + 1 \in DOMAIN s /\ j + 1 \in DOMAIN s /\ i + 1 < j + 1
          /\ Tail(s)[i] = s[i + 1] /\ Tail(s)[j] = s[j + 1]
      BY <2>1, <1>3, <1>4
    <3>2. Follows(s[i + 1], s[j + 1])
      BY <3>1, <1>8 DEF InOrder
    <3> QED
      BY <3>1, <3>2
  <2>2. ASSUME NEW t \in Entries(Tail(s)) PROVE Follows(Head(s), t)
    <3>1. PICK i \in DOMAIN Tail(s) : t = Tail(s)[i]
      BY <2>2 DEF Entries
    <3>2. 1 \in DOMAIN s /\ i + 1 \in DOMAIN s /\ 1 < i + 1 /\ t = s[i + 1] /\ Head(s) = s[1]
      BY <3>1, <1>3, <1>4
    <3>3. Follows(s[1], s[i + 1])
      BY <3>2, <1>8 DEF InOrder
    <3> QED
      BY <3>2, <3>3
  <2> QED
    BY <2>1, <2>2 DEF InOrder
<1>9. Ordered => InOrder(s)
  BY DEF Ordered, s
<1> QED
  BY <1>2, <1>6, <1>7, <1>8, <1>9 DEF Left, Rest, s

\* A request leaves the steps in `gone` and puts those in `new` before the rest; what it
\* may drop of the rest are the steps that end it.
Moves(r, gone, rest, new) ==
  /\ Left(r) = gone \cup rest
  /\ new \subseteq Left(r)' /\ Left(r)' \subseteq new \cup rest
  /\ \A t \in rest : t.name \in Late \/ t \in Left(r)'
  /\ \A q \in Requests \ {r} : Left(q)' = Left(q)

LEMMA AfterThen ==
  ASSUME PlansTyped, NEW r \in Requests, todo[r] # <<>>, NEW steps \in Seq(Plan),
         Then(r, steps)
  PROVE  /\ Moves(r, {Head(todo[r])}, Rest(r), Entries(steps))
         /\ (Ordered /\ InOrder(steps)
              /\ \A x \in Entries(steps), t \in Rest(r) : Follows(x, t)) => Ordered'
<1>1. Tail(todo[r]) \in Seq(Plan) /\ Left(r) = {Head(todo[r])} \cup Rest(r)
      /\ (Ordered => InOrder(Tail(todo[r])))
  BY HeadAndRest
<1>2. todo' = [todo EXCEPT ![r] = steps \o Tail(todo[r])]
  BY DEF Then
<1>3. todo'[r] = steps \o Tail(todo[r]) /\ \A q \in Requests \ {r} : todo'[q] = todo[q]
  BY <1>2 DEF PlansTyped
<1>4. Left(r)' = Entries(steps) \cup Rest(r)
  <2>1. Left(r)' = Entries(steps \o Tail(todo[r]))
    BY <1>3 DEF Left, Entries
  <2>2. Entries(steps \o Tail(todo[r])) = Entries(steps) \cup Entries(Tail(todo[r]))
    BY <1>1, EntriesOfConcat
  <2> QED
    BY <2>1, <2>2 DEF Rest
<1>5. \A q \in Requests \ {r} : Left(q)' = Left(q)
  BY <1>3 DEF Left, Entries
<1>6. ASSUME Ordered, InOrder(steps), \A x \in Entries(steps), t \in Rest(r) : Follows(x, t)
      PROVE  Ordered'
  <2>1. InOrder(steps \o Tail(todo[r]))
    BY <1>1, <1>6, OrderOfConcat DEF Rest
  <2>2. InOrder(todo[r])'
    BY <1>3, <2>1 DEF InOrder
  <2>3. ASSUME NEW q \in Requests \ {r} PROVE InOrder(todo[q])'
    <3>1. InOrder(todo[q]) /\ todo'[q] = todo[q]
      BY <1>3, <1>6 DEF Ordered
    <3> QED
      BY <3>1 DEF InOrder
  <2> QED
    BY <2>2, <2>3 DEF Ordered
<1> QED
  BY <1>1, <1>4, <1>5, <1>6 DEF Moves

LEMMA AfterNothing ==
  ASSUME PlansTyped, NEW r \in Requests, todo[r] # <<>>, Ordered, Then(r, <<>>)
  PROVE  Moves(r, {Head(todo[r])}, Rest(r), {}) /\ Ordered'
<1>1. <<>> \in Seq(Plan)
  OBVIOUS
<1>2. Entries(<<>>) = {} /\ InOrder(<<>>)
  BY FewSteps
<1> QED
  BY <1>1, <1>2, AfterThen

LEMMA AfterFail ==
  ASSUME PlansTyped, NEW r \in Requests, todo[r] # <<>>, Ordered, Fail(r),
         \A t \in Rest(r) : t.name \in Late
  PROVE  Moves(r, {Head(todo[r])}, Rest(r), {}) /\ Ordered'
<1>1. Left(r) = {Head(todo[r])} \cup Rest(r)
  BY HeadAndRest
<1>2. todo'[r] = <<>> /\ \A q \in Requests \ {r} : todo'[q] = todo[q]
  BY DEF PlansTyped, Fail
<1>3. Left(r)' = {} /\ \A q \in Requests \ {r} : Left(q)' = Left(q)
  BY <1>2 DEF Left, Entries
<1>4. ASSUME NEW q \in Requests PROVE InOrder(todo[q])'
  BY <1>2 DEF Ordered, InOrder
<1> QED
  BY <1>1, <1>3, <1>4 DEF Moves, Ordered

LEMMA AfterBegin ==
  ASSUME PlansTyped, NEW r \in Requests, NEW steps \in Seq(Plan), Begin(r, steps), Ordered,
         InOrder(steps)
  PROVE  Moves(r, {}, {}, Entries(steps)) /\ Ordered' /\ todo[r] = <<>>
<1>1. todo[r] = <<>> /\ todo'[r] = steps /\ \A q \in Requests \ {r} : todo'[q] = todo[q]
  BY DEF PlansTyped, Begin
<1>2. Left(r)' = Entries(steps) /\ \A q \in Requests \ {r} : Left(q)' = Left(q)
  BY <1>1 DEF Left, Entries
<1>3. Left(r) = {}
  BY <1>1 DEF Left, Entries
<1>4. ASSUME NEW q \in Requests PROVE InOrder(todo[q])'
  BY <1>1 DEF Ordered, InOrder
<1> QED
  BY <1>1, <1>2, <1>3, <1>4 DEF Moves, Ordered

-----------------------------------------------------------------------------
(* What a step relies on, and what is true of a day.                       *)

Books(d) == [expected |-> Expected(d), counted |-> count[d]]
IsReturned(d) == report[d].status = "RETURNED_TO_MANAGER"
OwedOf(d) == ShortageOf(count[d] - Expected(d))

Has(r, d, names) == \E x \in Left(r) : x.day = d /\ x.name \in names

\* A returned report that is about to be sent again says what the books say, or will.
PutRight(r, d) ==
  \/ Has(r, d, {"revise"})
  \/ /\ closing[d] = count[d]
     /\ snapshot[d] = Books(d) \/ Has(r, d, {"carry", "rebuild", "snapshot"})
     /\ shortage[d] \in {None, OwedOf(d)} \/ Has(r, d, {"carry", "rebuild", "sync"})

\* What was checked and read before a step still holds.
SoundStep(r, x) ==
  /\ x.name \in Kinds \cup {"void"} => AcceptsRecords(x.day)
  /\ x.name = "count" => CanBeCounted(x.day)
  /\ x.name = "mark" => status[x.day] = "OPEN"
  /\ x.name = "close" => x.read = <<count[x.day]>> /\ status[x.day] \in {"OPEN", "CLOSING"}
  /\ x.name = "shortage" => x.read = <<count[x.day] - Expected(x.day)>>
  /\ x.name \in {"mark", "close", "shortage", "report"} =>
       report[x.day] = NoReport /\ count[x.day] # None
  /\ x.name \in {"shortage", "report"} =>
       status[x.day] = "CLOSED" \/ Has(r, x.day, {"close"})
  /\ x.name \in {"approve", "return"} => report[x.day].status \in Submitted
  /\ x.name = "snapshot" => x.read = <<Expected(x.day), count[x.day]>>
  /\ x.name = "sync" => x.read = <<closing[x.day] - Expected(x.day)>>
  /\ x.name = "confirm" => /\ report[x.day].status \in WithManager
                           /\ IsReturned(x.day) => PutRight(r, x.day)

Sound == \A r \in Requests : \A x \in Left(r) :
  x.day \notin outdated[r] \cup overtaken => SoundStep(r, x)

\* A step that will bring the report of a day, or its shortage, in line with the books.
Mends(x, d) ==
  /\ x.day = d
  /\ \/ x.name \in {"revise", "rebuild"}
     \/ x.name = "snapshot" /\ x.read = <<Expected(d), count[d]>>
Aligns(x, d) ==
  /\ x.day = d
  /\ \/ x.name \in {"revise", "rebuild"}
     \/ x.name = "sync" /\ x.read = <<closing[d] - Expected(d)>>

Mended(d) == snapshot[d] = Books(d) \/ \E q \in Requests : \E x \in Left(q) : Mends(x, d)
Aligned(d) ==
  shortage[d] \in {None, OwedOf(d)} \/ \E q \in Requests : \E x \in Left(q) : Aligns(x, d)

DayInv(d) ==
  /\ report[d] # NoReport => status[d] = "CLOSED"
  /\ report[d].status = "NONE" => report[d] = NoReport
  /\ status[d] = "CLOSED" => count[d] # None
  /\ status[d] = "CLOSED" /\ ~ IsReturned(d) => closing[d] = count[d]
  /\ shortage[d] # None => status[d] = "CLOSED"
  /\ report[d].status \in {"MANAGER_REVIEW"} \cup Submitted => Mended(d)
  /\ status[d] = "CLOSED" /\ ~ IsReturned(d) => Aligned(d)
DaysInv == \A d \in Days \ overtaken : DayInv(d)

Kept == Shape /\ MemoryTyped /\ Ordered /\ Sound /\ DaysInv

-----------------------------------------------------------------------------
(* What a step of one request means for the others.                        *)

LEMMA SameJudged ==
  ASSUME NEW d \in Days, d \notin Changed
  PROVE  /\ status'[d] = status[d] /\ opening'[d] = opening[d] /\ legacy'[d] = legacy[d]
         /\ closing'[d] = closing[d] /\ count'[d] = count[d] /\ rows'[d] = rows[d]
         /\ salary'[d] = salary[d] /\ report'[d] = report[d]
<1>1. Judged(d)' = Judged(d)
  BY DEF Changed
<1> QED
  BY <1>1 DEF Judged

LEMMA SameExpected ==
  ASSUME NEW d \in Days, opening'[d] = opening[d], legacy'[d] = legacy[d],
         rows'[d] = rows[d], salary'[d] = salary[d]
  PROVE  Expected(d)' = Expected(d)
<1>1. \A k : Booked(d, k)' = Booked(d, k)
  BY DEF Booked
<1>2. CashAtOpening(d)' = CashAtOpening(d)
  BY <1>1 DEF CashAtOpening
<1> QED
  BY <1>1, <1>2 DEF Expected

LEMMA SomeStepIsLeft ==
  ASSUME NEW r \in Requests, NEW x
  PROVE  (x \in Left(r) => todo[r] # <<>>) /\ (x \in Left(r)' => todo'[r] # <<>>)
BY DEF Left, Entries

\* A day that is up to date for a request after another's step.
LEMMA StillCurrent ==
  ASSUME NEW r \in Requests, NEW q \in Requests, Remember(r), todo[q] # <<>>, todo'[q] # <<>>,
         NEW d, d \notin outdated'[q] \cup overtaken'
  PROVE  /\ d \notin outdated[q] \cup overtaken
         /\ q # r => d \notin Changed
         /\ d \in Written => d \notin outdated[r]
<1>1. outdated'[q] = IF q = r THEN outdated[q] ELSE outdated[q] \cup Changed
  BY DEF Remember
<1>2. overtaken' = overtaken \cup (outdated[r] \cap Written)
  BY DEF Remember
<1> HIDE DEF Changed, Written
<1> QED
  BY <1>1, <1>2

\* The papers of a returned day are only written with what its books say.
PapersStay(d) ==
  IsReturned(d) =>
    /\ snapshot'[d] \in {snapshot[d], Books(d)}
    /\ closing[d] = count[d] => shortage'[d] \in {shortage[d], None, OwedOf(d)}

LEMMA StepStaysSound ==
  ASSUME NEW q \in Requests, NEW x \in Plan, x \in Left(q), x \in Left(q)',
         x.day \notin Changed, SoundStep(q, x),
         \A y \in Left(q) : y \in Left(q)' \/ Follows(x, y),
         PapersStay(x.day)
  PROVE  SoundStep(q, x)'
<1> DEFINE d == x.day
<1>1. d \in Days
  BY ReadOfStep
<1>2. /\ status'[d] = status[d] /\ opening'[d] = opening[d] /\ legacy'[d] = legacy[d]
      /\ closing'[d] = closing[d] /\ count'[d] = count[d] /\ rows'[d] = rows[d]
      /\ salary'[d] = salary[d] /\ report'[d] = report[d]
  <2> HIDE DEF Changed
  <2> QED
    BY <1>1, SameJudged
<1>3. Expected(d)' = Expected(d)
  BY <1>1, <1>2, SameExpected
<1>4. /\ AcceptsRecords(d)' <=> AcceptsRecords(d)
      /\ CanBeCounted(d)' <=> CanBeCounted(d)
      /\ IsReturned(d)' <=> IsReturned(d)
  BY <1>2 DEF AcceptsRecords, CanBeCounted, Returned, IsReturned
<1>5. Books(d)' = Books(d) /\ OwedOf(d)' = OwedOf(d)
  BY <1>2, <1>3 DEF Books, OwedOf, ShortageOf
<1>6. x.name \in {"shortage", "report"} /\ Has(q, d, {"close"}) => Has(q, d, {"close"})'
  <2> SUFFICES ASSUME x.name \in {"shortage", "report"}, Has(q, d, {"close"})
               PROVE  Has(q, d, {"close"})'
    OBVIOUS
  <2>1. PICK y \in Left(q) : y.day = d /\ y.name = "close"
    BY DEF Has
  <2>2. ~ Follows(x, y)
    BY <2>1 DEF Follows, Late
  <2> QED
    BY <2>1, <2>2 DEF Has
<1>7. x.name = "confirm" /\ IsReturned(d) => PutRight(q, d)'
  <2> SUFFICES ASSUME x.name = "confirm", IsReturned(d) PROVE PutRight(q, d)'
    OBVIOUS
  <2>1. PutRight(q, d)
    BY DEF SoundStep
  <2>2. ASSUME NEW names \in SUBSET Refreshes, Has(q, d, names) PROVE Has(q, d, names)'
    <3>1. PICK y \in Left(q) : y.day = d /\ y.name \in names
      BY <2>2 DEF Has
    <3>2. ~ Follows(x, y)
      BY <2>2, <3>1 DEF Follows, Late, Refreshes
    <3> QED
      BY <3>1, <3>2 DEF Has
  <2>3. /\ {"revise"} \in SUBSET Refreshes
        /\ {"carry", "rebuild", "snapshot"} \in SUBSET Refreshes
        /\ {"carry", "rebuild", "sync"} \in SUBSET Refreshes
    BY DEF Refreshes
  <2>4. CASE Has(q, d, {"revise"})
    BY <2>2, <2>3, <2>4 DEF PutRight
  <2>5. CASE ~ Has(q, d, {"revise"})
    <3>1. closing[d] = count[d]
      BY <2>1, <2>5 DEF PutRight
    <3>2. /\ snapshot'[d] \in {snapshot[d], Books(d)}
          /\ shortage'[d] \in {shortage[d], None, OwedOf(d)}
      BY <3>1 DEF PapersStay
    <3>3. snapshot'[d] = Books(d) \/ Has(q, d, {"carry", "rebuild", "snapshot"})'
      BY <2>1, <2>2, <2>3, <2>5, <3>2 DEF PutRight
    <3>4. shortage'[d] \in {None, OwedOf(d)} \/ Has(q, d, {"carry", "rebuild", "sync"})'
      BY <2>1, <2>2, <2>3, <2>5, <3>2 DEF PutRight
    <3> QED
      BY <1>2, <1>5, <3>1, <3>3, <3>4 DEF PutRight
  <2> QED
    BY <2>4, <2>5
<1> HIDE DEF d
<1> QED
  BY <1>2, <1>3, <1>4, <1>6, <1>7 DEF SoundStep, d

LEMMA StepsArePlans ==
  ASSUME PlansTyped, NEW q \in Requests
  PROVE  Left(q) \subseteq Plan
<1>1. todo[q] \in Seq(Plan)
  BY DEF PlansTyped
<1> QED
  BY <1>1 DEF Left, Entries

LEMMA SoundAfter ==
  ASSUME PlansTyped, Sound, NEW r \in Requests, Remember(r),
         NEW gone, NEW rest, NEW new, Moves(r, gone, rest, new),
         \A d \in Days \ (overtaken' \cup Changed) : PapersStay(d),
         \A x \in new : x.day \notin outdated'[r] \cup overtaken' => SoundStep(r, x)',
         \A x \in rest : (/\ x \in Left(r)' /\ x.day \notin outdated'[r] \cup overtaken'
                          /\ SoundStep(r, x)) => SoundStep(r, x)'
  PROVE  Sound'
<1> SUFFICES ASSUME NEW q \in Requests, NEW x \in Left(q)',
                    x.day \notin outdated'[q] \cup overtaken'
             PROVE  SoundStep(q, x)'
  BY DEF Sound
<1>1. CASE q = r
  <2>1. CASE x \in new
    BY <1>1, <2>1
  <2>2. CASE x \in rest
    <3>1. x \in Left(r) /\ todo[r] # <<>> /\ todo'[r] # <<>>
      BY <1>1, <2>2, SomeStepIsLeft DEF Moves
    <3>2. x.day \notin outdated[r] \cup overtaken
      BY <1>1, <3>1, StillCurrent
    <3>3. SoundStep(r, x)
      BY <3>1, <3>2 DEF Sound
    <3> QED
      BY <1>1, <2>2, <3>3
  <2> QED
    BY <1>1, <2>1, <2>2 DEF Moves
<1>2. CASE q # r
  <2>1. Left(q)' = Left(q)
    BY <1>2 DEF Moves
  <2>2. x \in Left(q) /\ todo[q] # <<>> /\ todo'[q] # <<>>
    BY <2>1, SomeStepIsLeft
  <2>3. x.day \notin outdated[q] \cup overtaken /\ x.day \notin Changed
    <3> HIDE DEF Changed
    <3> QED
      BY <1>2, <2>2, StillCurrent
  <2>4. x \in Plan /\ x.day \in Days
    BY <2>2, StepsArePlans, ReadOfStep
  <2>5. SoundStep(q, x)
    BY <2>2, <2>3 DEF Sound
  <2>6. PapersStay(x.day)
    BY <2>3, <2>4
  <2> QED
    BY <2>1, <2>2, <2>3, <2>4, <2>5, <2>6, StepStaysSound
<1> QED
  BY <1>1, <1>2

\* No step is dropped that would bring the papers of a day in line.
MendingKept(d) ==
  \A q \in Requests : \A x \in Left(q) :
    (x.day = d /\ x.name \in {"revise", "rebuild", "snapshot"}) => x \in Left(q)'
AligningKept(d) ==
  \A q \in Requests : \A x \in Left(q) :
    (x.day = d /\ x.name \in {"revise", "rebuild", "sync"}) => x \in Left(q)'
RefreshesKept(d) == MendingKept(d) /\ AligningKept(d)

LEMMA MoveKeepsRefreshes ==
  ASSUME NEW r \in Requests, NEW gone, NEW rest, NEW new, Moves(r, gone, rest, new), NEW d
  PROVE  /\ (\A x \in gone : x.day # d \/ x.name \notin {"revise", "rebuild", "snapshot"})
              => MendingKept(d)
         /\ (\A x \in gone : x.day # d \/ x.name \notin {"revise", "rebuild", "sync"})
              => AligningKept(d)
<1>1. \A q \in Requests : \A x \in Left(q) :
        x.name \in Refreshes => x \in gone \/ x \in Left(q)'
  <2> SUFFICES ASSUME NEW q \in Requests, NEW x \in Left(q), x.name \in Refreshes
               PROVE  x \in gone \/ x \in Left(q)'
    OBVIOUS
  <2>1. x.name \notin Late
    BY DEF Late, Refreshes
  <2> QED
    BY <2>1 DEF Moves
<1>2. /\ {"revise", "rebuild", "snapshot"} \subseteq Refreshes
      /\ {"revise", "rebuild", "sync"} \subseteq Refreshes
  BY DEF Refreshes
<1>3. \A q \in Requests : \A x \in Left(q) :
        x.name \in Refreshes => x \in Left(q)' \/ (q = r /\ x \in gone)
  BY <1>1 DEF Moves
<1> QED
  BY <1>2, <1>3 DEF MendingKept, AligningKept

LEMMA MendedStays ==
  ASSUME NEW d \in Days, MendingKept(d), Mended(d), snapshot'[d] = snapshot[d],
         count'[d] = count[d], Expected(d)' = Expected(d)
  PROVE  Mended(d)'
<1>1. CASE snapshot[d] = Books(d)
  BY <1>1 DEF Mended, Books
<1>2. CASE snapshot[d] # Books(d)
  <2>1. PICK q \in Requests : \E x \in Left(q) : Mends(x, d)
    BY <1>2 DEF Mended
  <2>2. PICK x \in Left(q) : Mends(x, d)
    BY <2>1
  <2>3. x \in Left(q)' /\ Mends(x, d)'
    BY <2>2 DEF MendingKept, Mends
  <2> QED
    BY <2>3 DEF Mended
<1> QED
  BY <1>1, <1>2

LEMMA AlignedStays ==
  ASSUME NEW d \in Days, AligningKept(d), Aligned(d), shortage'[d] = shortage[d],
         count'[d] = count[d], closing'[d] = closing[d], Expected(d)' = Expected(d)
  PROVE  Aligned(d)'
<1>1. CASE shortage[d] \in {None, OwedOf(d)}
  <2>1. OwedOf(d)' = OwedOf(d)
    BY DEF OwedOf, ShortageOf
  <2> QED
    BY <1>1, <2>1 DEF Aligned
<1>2. CASE shortage[d] \notin {None, OwedOf(d)}
  <2>1. PICK q \in Requests : \E x \in Left(q) : Aligns(x, d)
    BY <1>2 DEF Aligned
  <2>2. PICK x \in Left(q) : Aligns(x, d)
    BY <2>1
  <2>3. x \in Left(q)' /\ Aligns(x, d)'
    BY <2>2 DEF AligningKept, Aligns
  <2> QED
    BY <2>3 DEF Aligned
<1> QED
  BY <1>1, <1>2

LEMMA SamePapers ==
  ASSUME NEW d \in Days, d \notin Written
  PROVE  d \notin Changed /\ snapshot'[d] = snapshot[d] /\ shortage'[d] = shortage[d]
<1>1. d \notin Changed
  BY DEF Written
<1>2. <<snapshot[d], shortage[d]>>' = <<snapshot[d], shortage[d]>>
  BY DEF Written
<1> HIDE DEF Changed
<1> QED
  BY <1>1, <1>2

LEMMA OtherDayStays ==
  ASSUME NEW d \in Days, d \notin Written, DayInv(d),
         report[d].status \in {"MANAGER_REVIEW"} \cup Submitted /\ Mended(d) => Mended(d)',
         status[d] = "CLOSED" /\ ~ IsReturned(d) /\ Aligned(d) => Aligned(d)'
  PROVE  DayInv(d)'
<1>1. d \notin Changed
  BY SamePapers
<1>2. /\ status'[d] = status[d] /\ closing'[d] = closing[d] /\ count'[d] = count[d]
      /\ report'[d] = report[d] /\ shortage'[d] = shortage[d]
  BY <1>1, SameJudged, SamePapers
<1>3. IsReturned(d)' <=> IsReturned(d)
  BY <1>2 DEF IsReturned
<1> QED
  BY <1>2, <1>3 DEF DayInv

LEMMA UntouchedDayStays ==
  ASSUME NEW d \in Days, d \notin Written, DayInv(d), RefreshesKept(d)
  PROVE  DayInv(d)'
<1>1. d \notin Changed /\ snapshot'[d] = snapshot[d] /\ shortage'[d] = shortage[d]
  BY SamePapers
<1>2. closing'[d] = closing[d] /\ count'[d] = count[d] /\ Expected(d)' = Expected(d)
  BY <1>1, SameJudged, SameExpected
<1> QED
  BY <1>1, <1>2, MendedStays, AlignedStays, OtherDayStays DEF RefreshesKept

-----------------------------------------------------------------------------
(* Steps that write one day and add nothing to what is left.               *)

LEMMA StepAtHand ==
  ASSUME Shape, MemoryTyped, Sound, NEW r \in Requests, todo[r] # <<>>, Remember(r),
         NEW d, Head(todo[r]).day = d, d \notin overtaken',
         d \in Written \/ d \notin outdated[r]
  PROVE  SoundStep(r, Head(todo[r]))
<1>1. Head(todo[r]) \in Left(r)
  BY HeadAndRest DEF Shape
<1>2. d \notin outdated[r] \cup overtaken
  BY DEF Remember
<1> QED
  BY <1>1, <1>2 DEF Sound

LEMMA PlainStep ==
  ASSUME Kept, NEW r \in Requests, NEW d \in Days, todo[r] # <<>>, Remember(r),
         Head(todo[r]).day = d, Head(todo[r]).name \notin Refreshes,
         Then(r, <<>>), Written \subseteq {d},
         (d \notin overtaken' /\ d \notin Changed) => PapersStay(d),
         (/\ d \in Written /\ d \notin overtaken' /\ DayInv(d) /\ RefreshesKept(d)
          /\ SoundStep(r, Head(todo[r]))) => DayInv(d)',
         \A x \in Rest(r) :
           (/\ x.name \in {"close", "shortage", "report"} /\ x.day = d /\ d \notin overtaken'
            /\ SoundStep(r, Head(todo[r])) /\ SoundStep(r, x)) => SoundStep(r, x)'
  PROVE  Ordered' /\ Sound' /\ DaysInv'
<1> DEFINE h == Head(todo[r])
<1>1. Moves(r, {h}, Rest(r), {}) /\ Ordered'
  BY AfterNothing DEF Kept, Shape
<1>2. \A e \in Days \ {d} : e \notin Written
  BY DEF Written
<1>3. \A e \in Days \ {d} : PapersStay(e)
  BY <1>2, SamePapers DEF PapersStay
<1>4. ASSUME NEW x \in Rest(r), x \in Left(r)', x.day \notin outdated'[r] \cup overtaken',
             SoundStep(r, x)
      PROVE  SoundStep(r, x)'
  <2>1. Follows(h, x)
    BY HeadAndRest DEF Kept, Shape
  <2>2. CASE x.name \in Late \cup {"revise"}
    BY <2>2 DEF SoundStep, Late, Kinds
  <2>3. CASE x.name \notin Late \cup {"revise"}
    <3>1. x.name \in {"close", "shortage", "report"} /\ x.day = d
      BY <2>1, <2>3 DEF Follows, Refreshes
    <3>2. todo'[r] # <<>>
      BY <1>4, SomeStepIsLeft
    <3>3. d \notin outdated[r]
      BY <1>4, <3>1, <3>2, StillCurrent
    <3>4. SoundStep(r, h)
      BY <1>4, <3>1, <3>3, StepAtHand DEF Kept
    <3> QED
      BY <1>4, <3>1, <3>4
  <2> QED
    BY <2>2, <2>3
<1>5. Sound'
  <2>1. \A e \in Days \ (overtaken' \cup Changed) : PapersStay(e)
    BY <1>3
  <2> HIDE DEF Changed, h
  <2>2. PlansTyped /\ Sound
    BY DEF Kept, Shape
  <2> QED
    BY <1>1, <1>4, <2>1, <2>2, SoundAfter
<1>6. DaysInv'
  <2> SUFFICES ASSUME NEW e \in Days, e \notin overtaken' PROVE DayInv(e)'
    BY DEF DaysInv
  <2>1. DayInv(e)
    BY DEF Kept, DaysInv, Remember
  <2>2. RefreshesKept(e)
    <3>1. h.name \notin {"revise", "rebuild", "snapshot"} \cup {"revise", "rebuild", "sync"}
      BY DEF Refreshes
    <3> HIDE DEF h
    <3> QED
      BY <1>1, <3>1, MoveKeepsRefreshes DEF RefreshesKept
  <2>3. CASE e \in Written
    <3>1. e = d
      BY <2>3
    <3>2. SoundStep(r, h)
      BY <2>3, <3>1, StepAtHand DEF Kept
    <3> HIDE DEF Written
    <3> QED
      BY <2>1, <2>2, <2>3, <3>1, <3>2
  <2>4. CASE e \notin Written
    BY <2>1, <2>2, <2>4, UntouchedDayStays
  <2> QED
    BY <2>3, <2>4
<1> QED
  BY <1>1, <1>5, <1>6

\* A step that writes nothing but one day.
OnlyDay(d) ==
  \A e \in Days \ {d} :
    /\ status'[e] = status[e] /\ opening'[e] = opening[e] /\ legacy'[e] = legacy[e]
    /\ closing'[e] = closing[e] /\ count'[e] = count[e] /\ rows'[e] = rows[e]
    /\ salary'[e] = salary[e] /\ report'[e] = report[e]
    /\ snapshot'[e] = snapshot[e] /\ shortage'[e] = shortage[e]

LEMMA OneDayWritten ==
  ASSUME NEW d, OnlyDay(d)
  PROVE  Written \subseteq {d}
<1> SUFFICES ASSUME NEW e \in Days \ {d} PROVE e \notin Written
  BY DEF Written, Changed
<1>1. Judged(e)' = Judged(e)
  BY DEF OnlyDay, Judged
<1>2. <<snapshot[e], shortage[e]>>' = <<snapshot[e], shortage[e]>>
  BY DEF OnlyDay
<1> QED
  BY <1>1, <1>2 DEF Written, Changed

\* Whether a day with these papers needs anything brought in line.
LEMMA NothingToMend ==
  ASSUME NEW d \in Days, DayInv(d), shortage'[d] = shortage[d], report'[d] = report[d],
         \/ report[d] = NoReport /\ shortage[d] = None /\ status'[d] # "CLOSED"
         \/ IsReturned(d) /\ status'[d] = status[d] /\ count'[d] # None
  PROVE  DayInv(d)'
<1>1. CASE report[d] = NoReport /\ shortage[d] = None /\ status'[d] # "CLOSED"
  BY <1>1 DEF DayInv, NoReport, Submitted
<1>2. CASE IsReturned(d) /\ status'[d] = status[d] /\ count'[d] # None
  BY <1>2 DEF DayInv, IsReturned, NoReport, Submitted
<1> QED
  BY <1>1, <1>2

LEMMA RecordStepKeeps ==
  ASSUME Kept, NEW r \in Requests, NEW d \in Days, Remember(r),
         VoidRow(r, d) \/ WriteCount(r, d) \/ \E k \in Kinds : InsertRow(r, d, k)
  PROVE  Ordered' /\ Sound' /\ DaysInv'
<1> DEFINE h == Head(todo[r])
<1>1. DaysTyped /\ BooksTyped /\ PapersTyped /\ PlansTyped
  BY DEF Kept, Shape
<1>2. todo[r] # <<>> /\ h \in Plan /\ h.name \in Kinds \cup {"void", "count"} /\ h.day = d
  BY <1>1, HeadAndRest DEF VoidRow, WriteCount, InsertRow, At
<1>3. /\ Then(r, <<>>)
      /\ UNCHANGED <<status, opening, closing, salary, report, snapshot, shortage>>
  BY DEF VoidRow, WriteCount, InsertRow, papers, day
<1>4. OnlyDay(d) /\ (h.name # "count" => count'[d] = count[d])
  <2>1. CASE VoidRow(r, d)
    BY <1>1, <1>3, <2>1 DEF VoidRow, OnlyDay, day, BooksTyped, DaysTyped, At, Kinds
  <2>2. CASE WriteCount(r, d)
    BY <1>1, <1>3, <2>2 DEF WriteCount, OnlyDay, day, BooksTyped, DaysTyped, At
  <2>3. ASSUME NEW k \in Kinds, InsertRow(r, d, k)
        PROVE  OnlyDay(d) /\ (h.name # "count" => count'[d] = count[d])
    BY <1>1, <1>3, <2>3 DEF InsertRow, OnlyDay, BooksTyped, DaysTyped
  <2> QED
    BY <2>1, <2>2, <2>3
<1>5. h.name = "count" => count'[d] \in Nat
  <2>1. h.name = "count" => WriteCount(r, d)
    BY DEF VoidRow, InsertRow, At, Kinds
  <2>2. h.name = "count" => h.read[1] \in Nat
    BY <1>2, ReadOfStep
  <2> QED
    BY <1>1, <2>1, <2>2 DEF WriteCount, BooksTyped, Read
<1>6. ASSUME DayInv(d), SoundStep(r, h) PROVE DayInv(d)'
  <2>1. status[d] \in {"OPEN", "CLOSING"} \/ (IsReturned(d) /\ status[d] = "CLOSED")
    BY <1>2, <1>6 DEF SoundStep, AcceptsRecords, CanBeCounted, Returned, IsReturned
  <2>2. CASE status[d] \in {"OPEN", "CLOSING"}
    <3>1. report[d] = NoReport /\ shortage[d] = None /\ status'[d] # "CLOSED"
      BY <1>3, <1>6, <2>2 DEF DayInv
    <3> QED
      BY <1>3, <1>6, <3>1, NothingToMend
  <2>3. CASE IsReturned(d) /\ status[d] = "CLOSED"
    <3>1. count'[d] # None
      <4>1. count[d] # None
        BY <1>6, <2>3 DEF DayInv
      <4> QED
        BY <1>4, <1>5, <4>1 DEF None
    <3> QED
      BY <1>3, <1>6, <2>3, <3>1, NothingToMend
  <2> QED
    BY <2>1, <2>2, <2>3
<1>7. PapersStay(d)
  BY <1>3 DEF PapersStay
<1>8. Written \subseteq {d}
  BY <1>4, OneDayWritten
<1>9. h.name \notin Refreshes
  BY <1>2 DEF Kinds, Refreshes
<1>10. \A x \in Rest(r) : x.name \notin {"close", "shortage", "report"}
  <2>1. \A x \in Rest(r) : Follows(h, x)
    BY <1>1, <1>2, HeadAndRest DEF Kept
  <2> QED
    BY <1>2, <2>1 DEF Follows, Late, Kinds
<1> HIDE DEF Kept, Written
<1> QED
  BY <1>2, <1>3, <1>6, <1>7, <1>8, <1>9, <1>10, PlainStep

LEMMA CreateKeeps ==
  ASSUME Kept, NEW r \in Requests, NEW d \in Days, Remember(r), CreateDay(r, d)
  PROVE  Ordered' /\ Sound' /\ DaysInv'
<1> DEFINE h == Head(todo[r])
<1>1. DaysTyped /\ BooksTyped /\ PapersTyped /\ PlansTyped
  BY DEF Kept, Shape
<1>2. todo[r] # <<>> /\ h.name = "create" /\ h.day = d
  BY DEF CreateDay, At
<1>3. Then(r, <<>>) /\ UNCHANGED <<closing, count, salary, report, snapshot, shortage>>
  BY DEF CreateDay, papers
<1>4. OnlyDay(d) /\ status[d] = "NONE" /\ status'[d] = "OPEN"
  BY <1>1, <1>3 DEF CreateDay, OnlyDay, DaysTyped, BooksTyped
<1>5. ASSUME DayInv(d) PROVE DayInv(d)'
  <2>1. report[d] = NoReport /\ shortage[d] = None /\ status'[d] # "CLOSED"
    BY <1>4, <1>5 DEF DayInv
  <2> QED
    BY <1>3, <1>5, <2>1, NothingToMend
<1>6. PapersStay(d)
  BY <1>3 DEF PapersStay
<1>7. Written \subseteq {d}
  BY <1>4, OneDayWritten
<1>8. h.name \notin Refreshes
  BY <1>2 DEF Refreshes
<1>9. \A x \in Rest(r) : x.name \notin {"close", "shortage", "report"}
  <2>1. \A x \in Rest(r) : Follows(h, x)
    BY <1>1, <1>2, HeadAndRest DEF Kept
  <2> QED
    BY <1>2, <2>1 DEF Follows, Late
<1> HIDE DEF Kept, Written
<1> QED
  BY <1>2, <1>3, <1>5, <1>6, <1>7, <1>8, <1>9, PlainStep

\* The count a submission found is the one its day closes with.
LEMMA CloseKeeps ==
  ASSUME Kept, NEW r \in Requests, NEW d \in Days, Remember(r),
         MarkClosing(r, d) \/ CloseDay(r, d)
  PROVE  Ordered' /\ Sound' /\ DaysInv'
<1> DEFINE h == Head(todo[r])
<1>1. DaysTyped /\ BooksTyped /\ PapersTyped /\ PlansTyped
  BY DEF Kept, Shape
<1>2. todo[r] # <<>> /\ h.name \in {"mark", "close"} /\ h.day = d
  BY DEF MarkClosing, CloseDay, At
<1>3. Then(r, <<>>)
      /\ UNCHANGED <<opening, legacy, count, rows, salary, report, snapshot, shortage>>
  BY DEF MarkClosing, CloseDay, papers
<1>4. /\ OnlyDay(d)
      /\ h.name = "mark" => status'[d] = "CLOSING" /\ closing'[d] = closing[d]
      /\ h.name = "close" => status'[d] = "CLOSED" /\ closing'[d] = h.read[1]
  <2>1. CASE MarkClosing(r, d)
    BY <1>1, <1>3, <2>1 DEF MarkClosing, OnlyDay, DaysTyped, At
  <2>2. CASE CloseDay(r, d)
    BY <1>1, <1>3, <2>2 DEF CloseDay, OnlyDay, DaysTyped, At, Read
  <2> QED
    BY <2>1, <2>2
<1>5. ASSUME DayInv(d), SoundStep(r, h) PROVE DayInv(d)'
  <2>1. status[d] \in {"OPEN", "CLOSING"} /\ report[d] = NoReport /\ count[d] # None
    BY <1>2, <1>5 DEF SoundStep
  <2>2. shortage[d] = None
    BY <1>5, <2>1 DEF DayInv
  <2>3. CASE h.name = "mark"
    <3>1. status'[d] # "CLOSED"
      BY <1>4, <2>3
    <3> QED
      BY <1>3, <1>5, <2>1, <2>2, <3>1, NothingToMend
  <2>4. CASE h.name = "close"
    <3>1. closing'[d] = count[d]
      <4>1. h.read = <<count[d]>>
        BY <1>2, <1>5, <2>4 DEF SoundStep
      <4> HIDE DEF h
      <4> QED
        BY <1>4, <2>4, <4>1
    <3>2. Aligned(d)'
      BY <1>3, <2>2 DEF Aligned
    <3>3. status'[d] = "CLOSED" /\ report'[d] = NoReport /\ count'[d] # None
          /\ shortage'[d] = None /\ closing'[d] = count'[d]
      BY <1>3, <1>4, <2>1, <2>2, <2>4, <3>1
    <3>4. report'[d].status \notin {"MANAGER_REVIEW"} \cup Submitted
      BY <3>3 DEF NoReport, Submitted
    <3> QED
      BY <3>2, <3>3, <3>4 DEF DayInv
  <2> QED
    BY <1>2, <2>3, <2>4
<1>6. ASSUME NEW x \in Rest(r), x.name \in {"close", "shortage", "report"}, x.day = d,
             SoundStep(r, h), SoundStep(r, x)
      PROVE  SoundStep(r, x)'
  <2>1. Follows(h, x)
    BY <1>1, <1>2, HeadAndRest DEF Kept
  <2>2. Expected(d)' = Expected(d)
    BY <1>3, SameExpected
  <2>3. Moves(r, {h}, Rest(r), {})
    BY <1>1, <1>2, <1>3, AfterNothing DEF Kept
  <2>4. CASE h.name = "mark"
    <3>1. status'[d] = "CLOSING" /\ status[d] = "OPEN"
      BY <1>2, <1>4, <1>6, <2>4 DEF SoundStep
    <3>2. x.name \in {"shortage", "report"} => Has(r, d, {"close"})'
      <4> SUFFICES ASSUME x.name \in {"shortage", "report"} PROVE Has(r, d, {"close"})'
        OBVIOUS
      <4>1. PICK y \in Left(r) : y.day = d /\ y.name = "close"
        BY <1>6, <3>1 DEF SoundStep, Has
      <4>2. y \in Left(r)'
        BY <2>3, <2>4, <4>1 DEF Moves, Late
      <4> QED
        BY <4>1, <4>2 DEF Has
    <3> QED
      BY <1>3, <1>6, <2>2, <3>1, <3>2 DEF SoundStep, Kinds
  <2>5. CASE h.name = "close"
    <3>1. status'[d] = "CLOSED" /\ x.name # "close"
      BY <1>4, <2>1, <2>5 DEF Follows, Late
    <3> QED
      BY <1>3, <1>6, <2>2, <3>1 DEF SoundStep, Kinds
  <2> QED
    BY <1>2, <2>4, <2>5
<1>7. PapersStay(d)
  BY <1>3 DEF PapersStay
<1>8. Written \subseteq {d}
  BY <1>4, OneDayWritten
<1>9. h.name \notin Refreshes
  BY <1>2 DEF Refreshes
<1> HIDE DEF Kept, Written
<1> QED
  BY <1>2, <1>3, <1>5, <1>6, <1>7, <1>8, <1>9, PlainStep

\* A shortage is booked for the difference the books still show.
LEMMA ShortageKeeps ==
  ASSUME Kept, NEW r \in Requests, NEW d \in Days, Remember(r), CreateShortage(r, d)
  PROVE  Ordered' /\ Sound' /\ DaysInv'
<1> DEFINE h == Head(todo[r])
<1>1. DaysTyped /\ BooksTyped /\ PapersTyped /\ PlansTyped
  BY DEF Kept, Shape
<1>2. todo[r] # <<>> /\ h.name = "shortage" /\ h.day = d /\ Left(r) = {h} \cup Rest(r)
      /\ \A x \in Rest(r) : Follows(h, x)
  BY <1>1, HeadAndRest DEF CreateShortage, At, Kept
<1>3. Then(r, <<>>) /\ UNCHANGED <<day, count, rows, salary, report, snapshot>>
  BY DEF CreateShortage
<1>4. /\ OnlyDay(d)
      /\ shortage'[d] = IF h.read[1] < 0 /\ shortage[d] = None THEN ShortageOf(h.read[1])
                        ELSE shortage[d]
  BY <1>1, <1>3 DEF CreateShortage, OnlyDay, PapersTyped, day, Read
<1>5. ASSUME SoundStep(r, h)
      PROVE  /\ h.read[1] = count[d] - Expected(d) /\ report[d] = NoReport /\ count[d] # None
             /\ status[d] = "CLOSED"
  <2>1. h.read = <<count[d] - Expected(d)>>
    BY <1>2, <1>5 DEF SoundStep
  <2>2. h.read[1] = count[d] - Expected(d)
    <3> HIDE DEF h
    <3> QED
      BY <2>1
  <2>3. ~ Has(r, d, {"close"})
    BY <1>2 DEF Has, Follows, Late
  <2> QED
    BY <1>2, <1>5, <2>2, <2>3 DEF SoundStep
<1>6. ASSUME DayInv(d), RefreshesKept(d), SoundStep(r, h) PROVE DayInv(d)'
  <2>1. Expected(d)' = Expected(d) /\ count'[d] = count[d] /\ closing'[d] = closing[d]
        /\ status'[d] = status[d] /\ report'[d] = report[d] /\ snapshot'[d] = snapshot[d]
    BY <1>3, SameExpected DEF day
  <2>2. Aligned(d)'
    <3>1. CASE shortage'[d] = shortage[d]
      <4>1. Aligned(d)
        BY <1>5, <1>6 DEF DayInv, IsReturned, NoReport
      <4> QED
        BY <1>6, <2>1, <3>1, <4>1, AlignedStays DEF RefreshesKept
    <3>2. CASE shortage'[d] # shortage[d]
      <4>1. shortage'[d] = OwedOf(d)
        BY <1>4, <1>5, <1>6, <3>2 DEF OwedOf
      <4>2. OwedOf(d)' = OwedOf(d)
        BY <2>1 DEF OwedOf, ShortageOf
      <4> QED
        BY <4>1, <4>2 DEF Aligned
    <3> QED
      BY <3>1, <3>2
  <2>3. report[d].status \notin {"MANAGER_REVIEW"} \cup Submitted /\ ~ IsReturned(d)
    BY <1>5, <1>6 DEF NoReport, Submitted, IsReturned
  <2> QED
    BY <1>5, <1>6, <2>1, <2>2, <2>3 DEF DayInv, IsReturned
<1>7. ASSUME NEW x \in Rest(r), x.name \in {"close", "shortage", "report"}, x.day = d,
             SoundStep(r, h), SoundStep(r, x)
      PROVE  SoundStep(r, x)'
  <2>1. x.name = "report"
    BY <1>2, <1>7 DEF Follows, Late
  <2> QED
    BY <1>3, <1>5, <1>7, <2>1 DEF SoundStep, Kinds, day
<1>8. Written \subseteq {d}
  BY <1>4, OneDayWritten
<1>9. ASSUME d \notin overtaken' PROVE PapersStay(d)
  <2>1. CASE d \notin Written
    BY <2>1, SamePapers DEF PapersStay
  <2>2. CASE d \in Written
    <3>1. SoundStep(r, h)
      BY <1>2, <1>9, <2>2, StepAtHand DEF Kept
    <3> QED
      BY <1>5, <3>1 DEF PapersStay, IsReturned, NoReport
  <2> QED
    BY <2>1, <2>2
<1>10. h.name \notin Refreshes
  BY <1>2 DEF Refreshes
<1> HIDE DEF Kept, Written
<1> QED
  BY <1>2, <1>3, <1>6, <1>7, <1>8, <1>9, <1>10, PlainStep

\* A new report says what the books of its day say.
LEMMA NewReport ==
  ASSUME Shape, NEW d \in Days, DayInv(d), RefreshesKept(d), status[d] = "CLOSED",
         report[d] = NoReport, WriteReport(d), UNCHANGED <<day, count, rows, salary, shortage>>
  PROVE  DayInv(d)'
<1>1. report \in [Days -> ReportType] /\ snapshot \in [Days -> SnapshotType]
  BY DEF Shape, PapersTyped
<1>2. /\ report'[d] = [status |-> "MANAGER_REVIEW", before |-> "NONE"]
      /\ snapshot'[d] = Books(d)
  BY <1>1 DEF WriteReport, Books
<1>3. Expected(d)' = Expected(d) /\ count'[d] = count[d] /\ closing'[d] = closing[d]
      /\ status'[d] = status[d] /\ shortage'[d] = shortage[d]
  BY SameExpected DEF day
<1>4. ~ IsReturned(d) /\ ~ IsReturned(d)'
  BY <1>2 DEF IsReturned, NoReport
<1>5. Books(d)' = Books(d)
  BY <1>3 DEF Books
<1>6. Mended(d)'
  BY <1>2, <1>5 DEF Mended
<1>7. Aligned(d)'
  BY <1>3, <1>4, AlignedStays DEF DayInv, RefreshesKept
<1> QED
  BY <1>2, <1>3, <1>4, <1>6, <1>7 DEF DayInv

LEMMA EnsureKeeps ==
  ASSUME Kept, NEW r \in Requests, NEW d \in Days, Remember(r), EnsureReport(r, d)
  PROVE  Ordered' /\ Sound' /\ DaysInv'
<1> DEFINE h == Head(todo[r])
<1>1. Shape /\ DaysTyped /\ BooksTyped /\ PapersTyped /\ PlansTyped
  BY DEF Kept, Shape
<1>2. todo[r] # <<>> /\ h.name = "ensure" /\ h.day = d /\ \A x \in Rest(r) : Follows(h, x)
  BY <1>1, HeadAndRest DEF EnsureReport, At, Kept
<1>3. Then(r, <<>>) /\ UNCHANGED <<day, count, rows, salary, shortage>>
  BY DEF EnsureReport
<1>4. \/ UNCHANGED <<report, snapshot>>
      \/ status[d] = "CLOSED" /\ report[d] = NoReport /\ WriteReport(d)
  BY DEF EnsureReport, WriteReport
<1>5. OnlyDay(d)
  BY <1>1, <1>3, <1>4 DEF WriteReport, OnlyDay, PapersTyped, day
<1>6. UNCHANGED <<report, snapshot>> => d \notin Written
  BY <1>3 DEF Written, Changed, Judged, day
<1>7. PapersStay(d)
  <2>1. IsReturned(d) => UNCHANGED <<report, snapshot>>
    BY <1>4 DEF IsReturned, NoReport
  <2> QED
    BY <1>3, <2>1 DEF PapersStay
<1>8. Written \subseteq {d}
  BY <1>5, OneDayWritten
<1>9. h.name \notin Refreshes /\ \A x \in Rest(r) : x.name \notin {"close", "shortage", "report"}
  BY <1>2 DEF Refreshes, Follows, Late
<1>10. d \in Written /\ DayInv(d) /\ RefreshesKept(d) => DayInv(d)'
  <2> HIDE DEF Written
  <2> QED
    BY <1>1, <1>3, <1>4, <1>6, NewReport
<1> HIDE DEF Kept, Written
<1> QED
  BY <1>2, <1>3, <1>7, <1>8, <1>9, <1>10, PlainStep

\* What a returned report lacked has been put right when it is sent again.
LEMMA SetReportKeeps ==
  ASSUME Kept, NEW r \in Requests, NEW d \in Days, Remember(r),
         ConfirmReport(r, d) \/ ApproveReport(r, d) \/ ReturnReport(r, d)
  PROVE  Ordered' /\ Sound' /\ DaysInv'
<1> DEFINE h == Head(todo[r])
<1>1. DaysTyped /\ BooksTyped /\ PapersTyped /\ PlansTyped
  BY DEF Kept, Shape
<1>2. todo[r] # <<>> /\ h.name \in {"confirm", "approve", "return"} /\ h.day = d
      /\ Left(r) = {h} \cup Rest(r) /\ \A x \in Rest(r) : Follows(h, x)
  BY <1>1, HeadAndRest DEF ConfirmReport, ApproveReport, ReturnReport, SetReport, At, Kept
<1>3. Then(r, <<>>) /\ UNCHANGED <<day, count, rows, salary, snapshot, shortage>>
  BY DEF ConfirmReport, ApproveReport, ReturnReport, SetReport
<1>4. /\ OnlyDay(d)
      /\ report'[d] # NoReport /\ report'[d].status # "NONE"
      /\ h.name = "return" => IsReturned(d)'
      /\ h.name # "return" => report'[d].status \in Submitted /\ ~ IsReturned(d)'
  <2>1. CASE ConfirmReport(r, d)
    BY <1>1, <1>3, <2>1 DEF ConfirmReport, SetReport, OnlyDay, PapersTyped, day, NoReport, At,
                            Submitted, IsReturned
  <2>2. CASE ApproveReport(r, d)
    BY <1>1, <1>3, <2>2 DEF ApproveReport, SetReport, OnlyDay, PapersTyped, day, NoReport, At,
                            Submitted, IsReturned
  <2>3. CASE ReturnReport(r, d)
    BY <1>1, <1>3, <2>3 DEF ReturnReport, SetReport, OnlyDay, PapersTyped, day, NoReport, At,
                            Submitted, IsReturned
  <2> QED
    BY <2>1, <2>2, <2>3
<1>5. ASSUME DayInv(d), RefreshesKept(d), SoundStep(r, h) PROVE DayInv(d)'
  <2>1. Expected(d)' = Expected(d) /\ count'[d] = count[d] /\ closing'[d] = closing[d]
        /\ status'[d] = status[d] /\ shortage'[d] = shortage[d] /\ snapshot'[d] = snapshot[d]
    BY <1>3, SameExpected DEF day
  <2>2. report[d].status \in WithManager \cup Submitted
    BY <1>2, <1>5 DEF SoundStep
  <2>3. status[d] = "CLOSED" /\ count[d] # None
    BY <1>5, <2>2 DEF DayInv, NoReport, WithManager, Submitted
  <2>4. CASE h.name = "return"
    <3>1. report'[d].status \notin {"MANAGER_REVIEW"} \cup Submitted /\ IsReturned(d)'
      BY <1>4, <2>4 DEF IsReturned, Submitted
    <3> QED
      BY <1>4, <2>1, <2>3, <3>1 DEF DayInv
  <2>5. CASE h.name # "return"
    <3>1. closing[d] = count[d] /\ Mended(d) /\ Aligned(d)
      <4>1. CASE ~ IsReturned(d)
        <5>1. report[d].status \in {"MANAGER_REVIEW"} \cup Submitted
          BY <2>2, <4>1 DEF IsReturned, WithManager
        <5> QED
          BY <1>5, <2>3, <4>1, <5>1 DEF DayInv
      <4>2. CASE IsReturned(d)
        <5>1. h.name = "confirm"
          BY <1>2, <1>5, <2>5, <4>2 DEF SoundStep, IsReturned, Submitted
        <5>2. PutRight(r, d)
          BY <1>2, <1>5, <4>2, <5>1 DEF SoundStep
        <5>3. /\ ~ Has(r, d, {"revise"}) /\ ~ Has(r, d, {"carry", "rebuild", "snapshot"})
              /\ ~ Has(r, d, {"carry", "rebuild", "sync"})
          BY <1>2, <5>1 DEF Has, Follows, Late, Refreshes
        <5> QED
          BY <5>2, <5>3 DEF PutRight, Mended, Aligned
      <4> QED
        BY <4>1, <4>2
    <3>2. Mended(d)' /\ Aligned(d)'
      BY <1>5, <2>1, <3>1, MendedStays, AlignedStays DEF RefreshesKept
    <3> QED
      BY <1>4, <2>1, <2>3, <2>5, <3>1, <3>2 DEF DayInv
  <2> QED
    BY <2>4, <2>5
<1>6. PapersStay(d)
  BY <1>3 DEF PapersStay
<1>7. Written \subseteq {d}
  BY <1>4, OneDayWritten
<1>8. h.name \notin Refreshes /\ \A x \in Rest(r) : x.name \notin {"close", "shortage", "report"}
  BY <1>2 DEF Refreshes, Follows, Late
<1> HIDE DEF Kept, Written
<1> QED
  BY <1>2, <1>3, <1>5, <1>6, <1>7, <1>8, PlainStep

-----------------------------------------------------------------------------
(* The steps of a correction.                                              *)

LEMMA ConfirmStaysSound ==
  ASSUME NEW r \in Requests, NEW x, x.name = "confirm", SoundStep(r, x),
         report'[x.day] = report[x.day],
         PutRight(r, x.day) /\ IsReturned(x.day) => PutRight(r, x.day)'
  PROVE  SoundStep(r, x)'
<1>1. IsReturned(x.day)' <=> IsReturned(x.day)
  BY DEF IsReturned
<1> QED
  BY <1>1 DEF SoundStep, Kinds

\* What a report lacks is still put right when the step at hand is about another day.
LEMMA OtherConfirm ==
  ASSUME NEW r \in Requests, NEW h, NEW rest, NEW new, Moves(r, {h}, rest, new),
         NEW e \in Days, h.day # e, e \notin Written, PutRight(r, e)
  PROVE  PutRight(r, e)'
<1>1. ASSUME NEW names \in SUBSET Refreshes, Has(r, e, names) PROVE Has(r, e, names)'
  <2>1. PICK y \in Left(r) : y.day = e /\ y.name \in names
    BY <1>1 DEF Has
  <2>2. y \in Left(r)'
    BY <1>1, <2>1 DEF Moves, Late, Refreshes
  <2> QED
    BY <2>1, <2>2 DEF Has
<1>2. /\ {"revise"} \in SUBSET Refreshes
      /\ {"carry", "rebuild", "snapshot"} \in SUBSET Refreshes
      /\ {"carry", "rebuild", "sync"} \in SUBSET Refreshes
  BY DEF Refreshes
<1>3. e \notin Changed /\ snapshot'[e] = snapshot[e] /\ shortage'[e] = shortage[e]
  BY SamePapers
<1>4. closing'[e] = closing[e] /\ count'[e] = count[e] /\ Expected(e)' = Expected(e)
  BY <1>3, SameJudged, SameExpected
<1>5. Books(e)' = Books(e) /\ OwedOf(e)' = OwedOf(e)
  BY <1>4 DEF Books, OwedOf, ShortageOf
<1> QED
  BY <1>1, <1>2, <1>3, <1>4, <1>5 DEF PutRight

LEMMA RefreshSound ==
  ASSUME Kept, NEW r \in Requests, NEW d \in Days, todo[r] # <<>>, Remember(r),
         Head(todo[r]).day = d, Head(todo[r]).name \in Refreshes,
         NEW new, Moves(r, {Head(todo[r])}, Rest(r), new),
         \A e \in Days \ (overtaken' \cup Changed) : PapersStay(e),
         \A x \in new : x.day \notin outdated'[r] \cup overtaken' => SoundStep(r, x)',
         UNCHANGED report, \A e \in Days : e < d => e \notin Written,
         (/\ d \notin overtaken' \cup outdated[r] /\ DayInv(d) /\ IsReturned(d)
          /\ PutRight(r, d)) => PutRight(r, d)',
         \A x \in Rest(r) : (/\ x.name = "sync" /\ x.day = d /\ Head(todo[r]).name = "snapshot"
                             /\ SoundStep(r, x)) => SoundStep(r, x)'
  PROVE  Sound'
<1> DEFINE h == Head(todo[r])
<1>1. PlansTyped /\ Sound /\ Ordered /\ DaysInv
  BY DEF Kept, Shape
<1>2. \A x \in Rest(r) : Follows(h, x) /\ x.day \in Days
  BY <1>1, HeadAndRest, ReadOfStep
<1>3. ASSUME NEW x \in Rest(r), x \in Left(r)', x.day \notin outdated'[r] \cup overtaken',
             SoundStep(r, x)
      PROVE  SoundStep(r, x)'
  <2>1. CASE x.name \in Late \cup {"revise"}
    BY <2>1 DEF SoundStep, Late, Kinds
  <2>2. CASE x.name = "sync"
    <3>1. x.day = d /\ h.name = "snapshot"
      BY <1>2, <2>2 DEF Follows, Late
    <3> QED
      BY <1>3, <2>2, <3>1
  <2>3. CASE x.name = "confirm"
    <3>1. x.day \in Days /\ x.day <= d
      BY <1>2, <2>3 DEF Follows, Late
    <3>2. PutRight(r, x.day) /\ IsReturned(x.day) => PutRight(r, x.day)'
      <4> SUFFICES ASSUME PutRight(r, x.day), IsReturned(x.day) PROVE PutRight(r, x.day)'
        OBVIOUS
      <4>1. CASE x.day = d
        <5>1. todo'[r] # <<>>
          BY <1>3, SomeStepIsLeft
        <5>2. d \notin outdated[r] \cup overtaken
          BY <1>3, <4>1, <5>1, StillCurrent
        <5>3. DayInv(d)
          BY <1>1, <5>2 DEF DaysInv
        <5> QED
          BY <1>3, <4>1, <5>2, <5>3
      <4>2. CASE x.day # d
        <5>1. x.day < d
          BY <3>1, <4>2 DEF Days
        <5>2. x.day \notin Written
          BY <3>1, <5>1
        <5> HIDE DEF Written, h
        <5> QED
          BY <3>1, <4>2, <5>2, OtherConfirm
      <4> QED
        BY <4>1, <4>2
    <3> QED
      BY <1>3, <2>3, <3>2, ConfirmStaysSound
  <2> QED
    BY <1>2, <2>1, <2>2, <2>3 DEF Follows, Refreshes
<1> HIDE DEF Changed, h
<1> QED
  BY <1>1, <1>3, SoundAfter DEF h

\* What may follow a step of a correction may follow the steps it is replaced by.
LEMMA RefreshOrder ==
  ASSUME NEW x, NEW y, NEW t, x.name \in Refreshes \ {"snapshot"}, y.name \in Refreshes,
         x.day \in Int, y.day \in Int, t.day \in Int, x.day <= y.day, Follows(x, t)
  PROVE  Follows(y, t)
BY DEF Follows, Refreshes, Late

LEMMA RefreshStart ==
  ASSUME Kept, NEW r \in Requests, NEW d \in Days,
         Revise(r, d) \/ Carry(r, d) \/ Rebuild(r, d)
  PROVE  /\ todo[r] # <<>> /\ Head(todo[r]).day = d
         /\ Head(todo[r]).name \in {"revise", "carry", "rebuild"}
         /\ Head(todo[r]).name \in Refreshes \ {"snapshot"}
         /\ UNCHANGED <<status, legacy, count, rows, salary, report, snapshot, shortage>>
         /\ \A y : (y.name \in Refreshes /\ y.day \in Int /\ d <= y.day)
              => \A t \in Rest(r) : Follows(y, t)
<1> DEFINE h == Head(todo[r])
<1>1. PlansTyped /\ Ordered
  BY DEF Kept, Shape
<1>2. todo[r] # <<>> /\ h.day = d /\ h.name \in {"revise", "carry", "rebuild"}
  BY DEF Revise, Carry, Rebuild, At
<1>3. UNCHANGED <<status, legacy, count, rows, salary, report, snapshot, shortage>>
  BY DEF Revise, Carry, Rebuild, papers, day
<1>4. \A t \in Rest(r) : Follows(h, t) /\ t.day \in Int
  <2>1. \A t \in Rest(r) : Follows(h, t) /\ t \in Plan
    BY <1>1, <1>2, HeadAndRest
  <2>2. \A t \in Plan : t.day \in Int
    BY ReadOfStep DEF Days
  <2> QED
    BY <2>1, <2>2
<1>5. h.name \in Refreshes \ {"snapshot"} /\ d \in Int
  BY <1>2, DayNumbers DEF Refreshes
<1> HIDE DEF h
<1>6. ASSUME NEW y, y.name \in Refreshes, y.day \in Int, d <= y.day, NEW t \in Rest(r)
      PROVE  Follows(y, t)
  BY <1>2, <1>4, <1>5, <1>6, RefreshOrder
<1> QED
  BY <1>2, <1>3, <1>5, <1>6 DEF h

LEMMA ReviseKeeps ==
  ASSUME Kept, NEW r \in Requests, NEW d \in Days, Remember(r), Revise(r, d)
  PROVE  Ordered' /\ Sound' /\ DaysInv'
<1> DEFINE h == Head(todo[r])
           carry == StepWith("carry", d, <<count[d]>>)
           rebuild == Step("rebuild", d)
           Quiets == status[d] \in {"NONE", "OPEN"}
           Carries == ~ Quiets /\ status[d] = "CLOSED" /\ count[d] \notin {None, closing[d]}
           Rebuilds == ~ Quiets /\ ~ Carries
           steps == IF Quiets THEN <<>> ELSE IF Carries THEN <<carry>> ELSE <<rebuild>>
<1>1. Shape /\ DaysTyped /\ BooksTyped /\ PapersTyped /\ PlansTyped /\ Ordered /\ DaysInv
  BY DEF Kept, Shape
<1>2. /\ todo[r] # <<>> /\ h.day = d /\ h.name = "revise" /\ h.name \in Refreshes
      /\ UNCHANGED <<status, opening, legacy, count, rows, salary, report, snapshot, shortage>>
  BY RefreshStart DEF Revise, At
<1>3. \A y : (y.name \in Refreshes /\ y.day = d) => \A t \in Rest(r) : Follows(y, t)
  BY RefreshStart, DayNumbers
<1>4. Then(r, steps) /\ (~ Carries => UNCHANGED closing)
      /\ (Carries => closing' = [closing EXCEPT ![d] = count[d]])
  BY DEF Revise
<1>5. /\ carry.name = "carry" /\ carry.day = d /\ rebuild.name = "rebuild" /\ rebuild.day = d
      /\ rebuild \in Plan /\ (Carries => carry \in Plan)
  <2>1. Carries => count[d] \in Nat
    BY <1>1, AmountsAreNumbers
  <2> QED
    BY <2>1, PlanOfStep DEF StepWith, Step
<1> HIDE DEF carry, rebuild, h
<1>6. /\ steps \in Seq(Plan) /\ InOrder(steps)
      /\ Entries(steps) = IF Quiets THEN {} ELSE IF Carries THEN {carry} ELSE {rebuild}
  <2>1. ASSUME NEW x PROVE Entries(<<>>) = {} /\ Entries(<<x>>) = {x} /\ InOrder(<<>>) /\ InOrder(<<x>>)
    BY FewSteps
  <2>2. <<>> \in Seq(Plan) /\ <<rebuild>> \in Seq(Plan) /\ (Carries => <<carry>> \in Seq(Plan))
    BY <1>5, OneStep
  <2> HIDE DEF Quiets, Carries
  <2> QED
    BY <2>1, <2>2
<1>7. \A x \in Entries(steps) : x.day = d /\ x.name \in {"carry", "rebuild"}
  BY <1>5, <1>6
<1>8. \A x \in Entries(steps), t \in Rest(r) : Follows(x, t)
  BY <1>3, <1>7 DEF Refreshes
<1> DEFINE new == Entries(steps)
<1>9. Moves(r, {h}, Rest(r), new) /\ Ordered'
  <2> HIDE DEF steps
  <2> QED
    BY <1>1, <1>2, <1>4, <1>6, <1>8, AfterThen DEF h
<1>10. ~ Quiets => \E x \in Left(r)' : x.day = d /\ x.name = IF Carries THEN "carry" ELSE "rebuild"
  BY <1>5, <1>6, <1>9 DEF Moves
<1>11. OnlyDay(d)
  BY <1>1, <1>2, <1>4 DEF OnlyDay, DaysTyped
<1>12. Written \subseteq {d}
  BY <1>11, OneDayWritten
<1>13. Expected(d)' = Expected(d)
  BY <1>2, SameExpected
<1> HIDE DEF steps
<1>14. ASSUME DayInv(d), IsReturned(d), PutRight(r, d) PROVE PutRight(r, d)'
  <2>1. status[d] = "CLOSED" /\ count[d] # None
    BY <1>14 DEF DayInv, IsReturned, NoReport
  <2>2. closing'[d] = count'[d]
    BY <1>1, <1>2, <1>4, <2>1 DEF DaysTyped
  <2>3. Has(r, d, {"carry", "rebuild", "snapshot"})' /\ Has(r, d, {"carry", "rebuild", "sync"})'
    BY <1>10, <2>1 DEF Has
  <2> QED
    BY <2>2, <2>3 DEF PutRight
<1>15. Sound'
  <2>1. \A e \in Days : PapersStay(e)
    BY <1>2 DEF PapersStay
  <2>2. \A x \in new : SoundStep(r, x)'
    BY <1>7 DEF SoundStep, Kinds
  <2>3. \A e \in Days : e < d => e \notin Written
    BY <1>12, DayNumbers
  <2> HIDE DEF Written, Changed, new, Kept
  <2> QED
    BY <1>2, <1>9, <1>14, <2>1, <2>2, <2>3, RefreshSound DEF h
<1>16. DaysInv'
  <2> SUFFICES ASSUME NEW e \in Days, e \notin overtaken' PROVE DayInv(e)'
    BY DEF DaysInv
  <2>1. DayInv(e)
    BY <1>1 DEF DaysInv, Remember
  <2>2. CASE e # d
    <3>1. RefreshesKept(e)
      <4> HIDE DEF new
      <4> QED
        BY <1>2, <1>9, <2>2, MoveKeepsRefreshes DEF RefreshesKept
    <3>2. e \notin Written
      BY <1>12, <2>2
    <3> QED
      BY <2>1, <3>1, <3>2, UntouchedDayStays
  <2>3. CASE e = d /\ Quiets
    <3>1. report[d] = NoReport /\ shortage[d] = None /\ status'[d] # "CLOSED"
      BY <1>2, <2>1, <2>3 DEF DayInv
    <3> QED
      BY <1>2, <2>1, <2>3, <3>1, NothingToMend
  <2>4. CASE e = d /\ Carries
    <3>1. IsReturned(d) /\ count'[d] # None
      BY <1>2, <2>1, <2>4 DEF DayInv
    <3> QED
      BY <1>2, <2>1, <2>4, <3>1, NothingToMend
  <2>5. CASE e = d /\ Rebuilds
    <3>1. PICK x \in Left(r)' : x.day = d /\ x.name = "rebuild"
      BY <1>10, <2>5
    <3>2. Mended(d)' /\ Aligned(d)'
      BY <3>1 DEF Mended, Aligned, Mends, Aligns
    <3>3. closing'[d] = closing[d]
      BY <1>4, <2>5
    <3> QED
      BY <1>2, <2>1, <2>5, <3>2, <3>3 DEF DayInv, IsReturned
  <2> QED
    BY <2>2, <2>3, <2>4, <2>5
<1> QED
  BY <1>9, <1>15, <1>16

LEMMA CarryKeeps ==
  ASSUME Kept, NEW r \in Requests, NEW d \in Days, Remember(r), Carry(r, d)
  PROVE  Ordered' /\ Sound' /\ DaysInv'
<1> DEFINE h == Head(todo[r])
           next == Min(ExistingAfter(d))
           Reaches == ExistingAfter(d) # {}
           rebuild == Step("rebuild", d)
           after == IF Reaches /\ status[next] # "OPEN" THEN Refresh(next) ELSE <<>>
           steps == <<rebuild>> \o after
<1>1. Shape /\ DaysTyped /\ BooksTyped /\ PapersTyped /\ PlansTyped /\ Ordered /\ DaysInv
  BY DEF Kept, Shape
<1>2. /\ todo[r] # <<>> /\ h.day = d /\ h.name = "carry" /\ h.name \in Refreshes
      /\ UNCHANGED <<status, legacy, closing, count, rows, salary, report, snapshot, shortage>>
  BY RefreshStart DEF Carry, At
<1>3. \A y : (y.name \in Refreshes /\ y.day \in Int /\ d <= y.day)
               => \A t \in Rest(r) : Follows(y, t)
  BY RefreshStart
<1>4. Reaches => next \in Days /\ next > d /\ status[next] # "NONE"
  <2>1. ExistingAfter(d) \in SUBSET Days
    BY CalendarAssumption DEF ExistingAfter, Days
  <2>2. Reaches => next \in ExistingAfter(d)
    BY <2>1, EarliestDay
  <2> HIDE DEF next, Reaches
  <2> QED
    BY <2>1, <2>2 DEF ExistingAfter, Days
<1>5. Then(r, steps)
  <2>1. CASE ~ Reaches
    <3>1. steps = <<rebuild>>
      BY <2>1
    <3> QED
      BY <2>1, <3>1 DEF Carry
  <2>2. CASE Reaches
    BY <2>2 DEF Carry
  <2> QED
    BY <2>1, <2>2
<1>6. (~ Reaches => UNCHANGED opening)
      /\ (Reaches => \E n : opening' = [opening EXCEPT ![next] = n])
  BY DEF Carry
<1>7. /\ rebuild.name = "rebuild" /\ rebuild.day = d /\ rebuild \in Plan
      /\ after \in Seq(Plan) /\ InOrder(after)
      /\ \A x \in Entries(after) :
           Reaches /\ status[next] # "OPEN" /\ x.name = "revise" /\ x.day = next
      /\ Reaches /\ status[next] # "OPEN"
           => \E x \in Entries(after) : x.name = "revise" /\ x.day = next
  <2> DEFINE revise == Step("revise", next)
  <2>1. /\ rebuild.name = "rebuild" /\ rebuild.day = d /\ rebuild \in Plan
        /\ revise.name = "revise" /\ revise.day = next
        /\ Reaches => revise \in Plan
    BY <1>4, PlanOfStep DEF StepWith, Step
  <2>2. after = IF Reaches /\ status[next] # "OPEN" THEN <<revise>> ELSE <<>>
    BY DEF Refresh
  <2>3. ASSUME NEW x PROVE Entries(<<>>) = {} /\ Entries(<<x>>) = {x} /\ InOrder(<<>>) /\ InOrder(<<x>>)
    BY FewSteps
  <2>4. <<>> \in Seq(Plan) /\ (Reaches => <<revise>> \in Seq(Plan))
    BY <2>1, OneStep
  <2> HIDE DEF after, revise, next, Reaches, rebuild
  <2>5. CASE Reaches /\ status[next] # "OPEN"
    BY <2>1, <2>2, <2>3, <2>4, <2>5
  <2>6. CASE ~ (Reaches /\ status[next] # "OPEN")
    BY <2>1, <2>2, <2>3, <2>4, <2>6
  <2> QED
    BY <2>5, <2>6
<1> HIDE DEF h, next, Reaches, rebuild, after
<1>8. /\ <<rebuild>> \in Seq(Plan) /\ InOrder(<<rebuild>>) /\ Entries(<<rebuild>>) = {rebuild}
  BY <1>7, FewSteps, OneStep
<1>9. \A x \in Entries(after) : Follows(rebuild, x)
  BY <1>7 DEF Follows, Refreshes
<1>10. /\ steps \in Seq(Plan) /\ InOrder(steps) /\ Entries(steps) = {rebuild} \cup Entries(after)
  BY <1>7, <1>8, <1>9, ConcatProperties, OrderOfConcat, EntriesOfConcat
<1> DEFINE new == Entries(steps)
<1>11. \A x \in new : x.name \in {"rebuild", "revise"} /\ x.day \in Int /\ d <= x.day
  BY <1>4, <1>7, <1>10 DEF Days
<1>12. \A x \in new, t \in Rest(r) : Follows(x, t)
  BY <1>3, <1>11 DEF Refreshes
<1>13. Moves(r, {h}, Rest(r), new) /\ Ordered'
  <2> HIDE DEF steps
  <2> QED
    BY <1>1, <1>2, <1>5, <1>10, <1>12, AfterThen DEF h
<1>14. rebuild \in Left(r)' /\ Entries(after) \subseteq Left(r)'
  BY <1>10, <1>13 DEF Moves
<1> HIDE DEF steps
<1>15. \A e \in Days : (Reaches => e # next) => e \notin Written
  <2> SUFFICES ASSUME NEW e \in Days, Reaches => e # next PROVE e \notin Written
    OBVIOUS
  <2>1. opening'[e] = opening[e]
    BY <1>1, <1>6 DEF DaysTyped
  <2>2. Judged(e)' = Judged(e)
    BY <1>2, <2>1 DEF Judged
  <2> QED
    BY <1>2, <2>2 DEF Written, Changed
<1>16. d \notin Written /\ \A e \in Days : e < d => e \notin Written
  BY <1>4, <1>15 DEF Days
<1>17. ASSUME PutRight(r, d) PROVE PutRight(r, d)'
  <2>1. CASE Has(r, d, {"revise"})
    <3>1. PICK y \in Left(r) : y.day = d /\ y.name = "revise"
      BY <2>1 DEF Has
    <3>2. y \in Left(r)'
      BY <1>2, <1>13, <3>1 DEF Moves, Late
    <3> QED
      BY <3>1, <3>2 DEF PutRight, Has
  <2>2. CASE ~ Has(r, d, {"revise"})
    <3>1. closing[d] = count[d]
      BY <1>17, <2>2 DEF PutRight
    <3>2. Has(r, d, {"carry", "rebuild", "snapshot"})' /\ Has(r, d, {"carry", "rebuild", "sync"})'
      BY <1>7, <1>14 DEF Has
    <3> QED
      BY <1>2, <3>1, <3>2 DEF PutRight
  <2> QED
    BY <2>1, <2>2
<1>18. Sound'
  <2>1. \A e \in Days : PapersStay(e)
    BY <1>2 DEF PapersStay
  <2>2. \A x \in new : SoundStep(r, x)'
    BY <1>11 DEF SoundStep, Kinds
  <2> HIDE DEF Written, Changed, new, Kept
  <2> QED
    BY <1>2, <1>13, <1>16, <1>17, <2>1, <2>2, RefreshSound DEF h
<1>19. DaysInv'
  <2> SUFFICES ASSUME NEW e \in Days, e \notin overtaken' PROVE DayInv(e)'
    BY DEF DaysInv
  <2>1. DayInv(e)
    BY <1>1 DEF DaysInv, Remember
  <2>2. CASE e # d /\ (Reaches => e # next)
    <3>1. RefreshesKept(e)
      <4> HIDE DEF new
      <4> QED
        BY <1>2, <1>13, <2>2, MoveKeepsRefreshes DEF RefreshesKept
    <3> QED
      BY <1>15, <2>1, <2>2, <3>1, UntouchedDayStays
  <2>3. CASE e = d
    <3>1. Mended(d)' /\ Aligned(d)'
      BY <1>7, <1>14 DEF Mended, Aligned, Mends, Aligns
    <3> QED
      BY <1>16, <2>1, <2>3, <3>1, OtherDayStays
  <2>4. CASE Reaches /\ e = next /\ status[next] = "OPEN"
    <3>1. report[e] = NoReport /\ shortage[e] = None /\ status'[e] # "CLOSED"
      BY <1>2, <2>1, <2>4 DEF DayInv
    <3> QED
      BY <1>2, <2>1, <3>1, NothingToMend
  <2>5. CASE Reaches /\ e = next /\ status[next] # "OPEN"
    <3>1. Mended(e)' /\ Aligned(e)'
      BY <1>7, <1>14, <2>5 DEF Mended, Aligned, Mends, Aligns
    <3> QED
      BY <1>2, <2>1, <3>1 DEF DayInv, IsReturned
  <2> QED
    BY <2>2, <2>3, <2>4, <2>5
<1> QED
  BY <1>13, <1>18, <1>19

LEMMA RebuildKeeps ==
  ASSUME Kept, NEW r \in Requests, NEW d \in Days, Remember(r), Rebuild(r, d)
  PROVE  Ordered' /\ Sound' /\ DaysInv'
<1> DEFINE h == Head(todo[r])
           write == StepWith("snapshot", d, <<Expected(d), count[d]>>)
           sync == StepWith("sync", d, <<closing[d] - Expected(d)>>)
           after == IF closing[d] = None THEN <<>> ELSE <<sync>>
           steps == <<write>> \o after
<1>1. Shape /\ DaysTyped /\ BooksTyped /\ PapersTyped /\ PlansTyped /\ Ordered /\ DaysInv
  BY DEF Kept, Shape
<1>2. /\ todo[r] # <<>> /\ h.day = d /\ h.name = "rebuild" /\ h.name \in Refreshes
      /\ UNCHANGED <<status, opening, legacy, closing, count, rows, salary, report, snapshot, shortage>>
  BY RefreshStart DEF Rebuild, At, day
<1>3. \A y : (y.name \in Refreshes /\ y.day = d) => \A t \in Rest(r) : Follows(y, t)
  BY RefreshStart, DayNumbers
<1>4. Then(r, steps)
  BY DEF Rebuild
<1>5. /\ write.name = "snapshot" /\ write.day = d /\ write.read = <<Expected(d), count[d]>>
      /\ sync.name = "sync" /\ sync.day = d /\ sync.read = <<closing[d] - Expected(d)>>
  BY DEF StepWith
<1>6. write \in Plan /\ (closing[d] # None => sync \in Plan)
  <2>1. /\ Expected(d) \in Int /\ count[d] \in Cash
        /\ closing[d] # None => closing[d] - Expected(d) \in Int
    BY <1>1, AmountsAreNumbers DEF BooksTyped
  <2> QED
    BY <2>1, PlanOfStep
<1> HIDE DEF h, write, sync
<1>7. /\ after \in Seq(Plan) /\ InOrder(after)
      /\ Entries(after) = IF closing[d] = None THEN {} ELSE {sync}
      /\ <<write>> \in Seq(Plan) /\ InOrder(<<write>>) /\ Entries(<<write>>) = {write}
  <2>1. ASSUME NEW x PROVE Entries(<<>>) = {} /\ Entries(<<x>>) = {x} /\ InOrder(<<>>) /\ InOrder(<<x>>)
    BY FewSteps
  <2>2. <<>> \in Seq(Plan) /\ <<write>> \in Seq(Plan) /\ (closing[d] # None => <<sync>> \in Seq(Plan))
    BY <1>6, OneStep
  <2> QED
    BY <2>1, <2>2
<1> HIDE DEF after
<1>8. \A x \in Entries(after) : Follows(write, x)
  BY <1>5, <1>7 DEF Follows
<1>9. steps \in Seq(Plan) /\ InOrder(steps) /\ Entries(steps) = {write} \cup Entries(after)
  BY <1>7, <1>8, ConcatProperties, OrderOfConcat, EntriesOfConcat
<1> DEFINE new == Entries(steps)
<1>10. \A x \in new, t \in Rest(r) : Follows(x, t)
  BY <1>3, <1>5, <1>7, <1>9 DEF Refreshes
<1>11. Moves(r, {h}, Rest(r), new) /\ Ordered'
  <2> HIDE DEF steps
  <2> QED
    BY <1>1, <1>2, <1>4, <1>9, <1>10, AfterThen DEF h
<1>12. write \in Left(r)' /\ (closing[d] # None => sync \in Left(r)')
  BY <1>7, <1>9, <1>11 DEF Moves
<1> HIDE DEF steps
<1>13. \A e \in Days : e \notin Written
  BY <1>2 DEF Written, Changed, Judged
<1>14. Expected(d)' = Expected(d)
  BY <1>2, SameExpected
<1>15. ASSUME DayInv(d), IsReturned(d), PutRight(r, d) PROVE PutRight(r, d)'
  <2>1. CASE Has(r, d, {"revise"})
    <3>1. PICK y \in Left(r) : y.day = d /\ y.name = "revise"
      BY <2>1 DEF Has
    <3>2. y \in Left(r)'
      BY <1>2, <1>11, <3>1 DEF Moves, Late
    <3> QED
      BY <3>1, <3>2 DEF PutRight, Has
  <2>2. CASE ~ Has(r, d, {"revise"})
    <3>1. closing[d] = count[d] /\ count[d] # None
      BY <1>15, <2>2 DEF PutRight, DayInv, IsReturned, NoReport
    <3>2. Has(r, d, {"carry", "rebuild", "snapshot"})' /\ Has(r, d, {"carry", "rebuild", "sync"})'
      BY <1>5, <1>12, <3>1 DEF Has
    <3> QED
      BY <1>2, <3>1, <3>2 DEF PutRight
  <2> QED
    BY <2>1, <2>2
<1>16. Sound'
  <2>1. \A e \in Days : PapersStay(e)
    BY <1>2 DEF PapersStay
  <2>2. \A x \in new : SoundStep(r, x)'
    <3> SUFFICES ASSUME NEW x \in new PROVE SoundStep(r, x)'
      OBVIOUS
    <3>1. /\ x.day = d
          /\ \/ x.name = "snapshot" /\ x.read = <<Expected(d), count[d]>>
             \/ x.name = "sync" /\ x.read = <<closing[d] - Expected(d)>>
      BY <1>5, <1>7, <1>9
    <3> QED
      BY <1>2, <1>14, <3>1 DEF SoundStep, Kinds
  <2> HIDE DEF Written, Changed, new, Kept
  <2> QED
    BY <1>2, <1>11, <1>13, <1>15, <2>1, <2>2, RefreshSound DEF h
<1>17. DaysInv'
  <2> SUFFICES ASSUME NEW e \in Days, e \notin overtaken' PROVE DayInv(e)'
    BY DEF DaysInv
  <2>1. DayInv(e)
    BY <1>1 DEF DaysInv, Remember
  <2>2. CASE e # d
    <3>1. RefreshesKept(e)
      <4> HIDE DEF new
      <4> QED
        BY <1>2, <1>11, <2>2, MoveKeepsRefreshes DEF RefreshesKept
    <3> QED
      BY <1>13, <2>1, <3>1, UntouchedDayStays
  <2>3. CASE e = d
    <3>1. Mended(d)'
      BY <1>2, <1>5, <1>12, <1>14 DEF Mended, Mends
    <3>2. status[d] = "CLOSED" => Aligned(d)'
      <4>1. status[d] = "CLOSED" => sync \in Left(r)'
        BY <1>1, <1>12 DEF DaysTyped
      <4> QED
        BY <1>2, <1>5, <1>14, <4>1 DEF Aligned, Aligns
    <3> QED
      BY <1>13, <2>1, <2>3, <3>1, <3>2, OtherDayStays
  <2> QED
    BY <2>2, <2>3
<1> QED
  BY <1>11, <1>16, <1>17

LEMMA SnapshotKeeps ==
  ASSUME Kept, NEW r \in Requests, NEW d \in Days, Remember(r), WriteSnapshot(r, d)
  PROVE  Ordered' /\ Sound' /\ DaysInv'
<1> DEFINE h == Head(todo[r])
<1>1. Shape /\ DaysTyped /\ BooksTyped /\ PapersTyped /\ PlansTyped /\ Ordered /\ DaysInv
  BY DEF Kept, Shape
<1>2. /\ todo[r] # <<>> /\ h.day = d /\ h.name = "snapshot" /\ h.name \in Refreshes
      /\ Left(r) = {h} \cup Rest(r) /\ Then(r, <<>>)
      /\ UNCHANGED <<status, opening, legacy, closing, count, rows, salary, report, shortage>>
  BY <1>1, HeadAndRest DEF WriteSnapshot, At, day, Refreshes
<1>3. snapshot' = IF report[d] = NoReport THEN snapshot
                  ELSE [snapshot EXCEPT ![d] = [expected |-> h.read[1], counted |-> h.read[2]]]
  BY DEF WriteSnapshot, Read
<1>4. Moves(r, {h}, Rest(r), {}) /\ Ordered'
  BY <1>1, <1>2, AfterNothing
<1>5. OnlyDay(d)
  BY <1>1, <1>2, <1>3 DEF OnlyDay, PapersTyped
<1>6. Written \subseteq {d}
  BY <1>5, OneDayWritten
<1>7. Expected(d)' = Expected(d) /\ Books(d)' = Books(d) /\ OwedOf(d)' = OwedOf(d)
  <2>1. Expected(d)' = Expected(d)
    BY <1>2, SameExpected
  <2> QED
    BY <1>2, <2>1 DEF Books, OwedOf, ShortageOf
\* What it writes, if nothing has changed since it was read.
<1>8. ASSUME h.read = <<Expected(d), count[d]>>, report[d] # NoReport
      PROVE  snapshot'[d] = Books(d)
  <2>1. h.read[1] = Expected(d) /\ h.read[2] = count[d]
    <3> HIDE DEF h
    <3> QED
      BY <1>8
  <2> QED
    BY <1>1, <1>3, <1>8, <2>1 DEF Books, PapersTyped
<1>9. SoundStep(r, h) => h.read = <<Expected(d), count[d]>>
  BY <1>2 DEF SoundStep
<1>10. ASSUME NEW e \in Days \ overtaken' PROVE PapersStay(e)
  <2>1. CASE e \notin Written
    BY <2>1, SamePapers DEF PapersStay
  <2>2. CASE e \in Written
    <3>1. e = d
      BY <1>6, <2>2
    <3>2. SoundStep(r, h)
      BY <1>1, <1>2, <1>10, <2>2, <3>1, StepAtHand DEF Kept
    <3>3. IsReturned(d) => report[d] # NoReport
      BY DEF IsReturned, NoReport
    <3> QED
      BY <1>2, <1>8, <1>9, <3>1, <3>2, <3>3 DEF PapersStay
  <2> QED
    BY <2>1, <2>2
<1>11. ASSUME NEW x \in Rest(r), x.name = "sync", x.day = d, SoundStep(r, x)
       PROVE  SoundStep(r, x)'
  BY <1>2, <1>7, <1>11 DEF SoundStep, Kinds
<1>12. ASSUME d \notin overtaken' \cup outdated[r], IsReturned(d), PutRight(r, d)
       PROVE  PutRight(r, d)'
  <2>1. SoundStep(r, h)
    BY <1>1, <1>2, <1>12, StepAtHand DEF Kept
  <2>2. snapshot'[d] = Books(d)'
    BY <1>7, <1>8, <1>9, <1>12, <2>1 DEF IsReturned, NoReport
  <2>3. \A y \in Left(r) : y.name \in {"revise", "carry", "rebuild", "sync"} => y \in Left(r)'
    BY <1>2, <1>4 DEF Moves, Late
  <2>4. /\ Has(r, d, {"revise"}) => Has(r, d, {"revise"})'
        /\ Has(r, d, {"carry", "rebuild", "sync"}) => Has(r, d, {"carry", "rebuild", "sync"})'
    BY <2>3 DEF Has
  <2> QED
    BY <1>2, <1>7, <1>12, <2>2, <2>4 DEF PutRight
<1>13. Sound'
  <2>1. \A e \in Days : e < d => e \notin Written
    BY <1>6 DEF Days
  <2> HIDE DEF Written, Changed, Kept, h
  <2> QED
    BY <1>2, <1>4, <1>10, <1>11, <1>12, <2>1, RefreshSound DEF h
<1>14. DaysInv'
  <2> SUFFICES ASSUME NEW e \in Days, e \notin overtaken' PROVE DayInv(e)'
    BY DEF DaysInv
  <2>1. DayInv(e)
    BY <1>1 DEF DaysInv, Remember
  <2>2. CASE e # d
    <3>1. RefreshesKept(e)
      BY <1>2, <1>4, <2>2, MoveKeepsRefreshes DEF RefreshesKept
    <3>2. e \notin Written
      BY <1>6, <2>2
    <3> QED
      BY <2>1, <3>1, <3>2, UntouchedDayStays
  <2>3. CASE e = d
    <3>1. AligningKept(d)
      BY <1>2, <1>4, MoveKeepsRefreshes
    <3>2. Aligned(d) => Aligned(d)'
      BY <1>2, <1>7, <3>1, AlignedStays
    <3>3. ASSUME report[d].status \in {"MANAGER_REVIEW"} \cup Submitted, Mended(d)
          PROVE  Mended(d)'
      <4>1. report[d] # NoReport
        BY <3>3 DEF NoReport, Submitted
      <4>2. CASE SoundStep(r, h)
        BY <1>7, <1>8, <1>9, <4>1, <4>2 DEF Mended
      <4>3. CASE Mends(h, d)
        BY <1>2, <1>7, <1>8, <4>1, <4>3 DEF Mended, Mends
      <4>4. CASE ~ SoundStep(r, h) /\ ~ Mends(h, d)
        <5>1. d \notin Written
          BY <1>1, <1>2, <2>3, <4>4, StepAtHand DEF Kept
        <5>2. snapshot'[d] = snapshot[d]
          BY <5>1, SamePapers
        <5>3. CASE snapshot[d] = Books(d)
          BY <1>7, <5>2, <5>3 DEF Mended
        <5>4. CASE snapshot[d] # Books(d)
          <6>1. PICK q \in Requests : \E x \in Left(q) : Mends(x, d)
            BY <3>3, <5>4 DEF Mended
          <6>2. PICK x \in Left(q) : Mends(x, d)
            BY <6>1
          <6>3. x \in Left(q)'
            BY <1>2, <1>4, <4>4, <6>2 DEF Moves, Mends, Late
          <6>4. Mends(x, d)'
            BY <1>2, <1>7, <6>2 DEF Mends
          <6> QED
            BY <6>3, <6>4 DEF Mended
        <5> QED
          BY <5>3, <5>4
      <4> QED
        BY <4>2, <4>3, <4>4
    <3> QED
      BY <1>2, <2>1, <2>3, <3>2, <3>3 DEF DayInv, IsReturned
  <2> QED
    BY <2>2, <2>3
<1> QED
  BY <1>4, <1>13, <1>14

LEMMA SyncKeeps ==
  ASSUME Kept, NEW r \in Requests, NEW d \in Days, Remember(r), SyncShortage(r, d)
  PROVE  Ordered' /\ Sound' /\ DaysInv'
<1> DEFINE h == Head(todo[r])
<1>1. Shape /\ DaysTyped /\ BooksTyped /\ PapersTyped /\ PlansTyped /\ Ordered /\ DaysInv
  BY DEF Kept, Shape
<1>2. /\ todo[r] # <<>> /\ h.day = d /\ h.name = "sync" /\ h.name \in Refreshes
      /\ Left(r) = {h} \cup Rest(r) /\ Then(r, <<>>)
      /\ UNCHANGED <<status, opening, legacy, closing, count, rows, salary, report, snapshot>>
  BY <1>1, HeadAndRest DEF SyncShortage, At, day, Refreshes
<1>3. shortage' = [shortage EXCEPT ![d] = IF shortage[d] = None THEN None
                                         ELSE ShortageOf(h.read[1])]
  BY <1>1 DEF SyncShortage, Read, PapersTyped
<1>4. Moves(r, {h}, Rest(r), {}) /\ Ordered'
  BY <1>1, <1>2, AfterNothing
<1>5. OnlyDay(d) /\ (shortage'[d] # None => shortage[d] # None)
  BY <1>1, <1>2, <1>3 DEF OnlyDay, PapersTyped
<1>6. Written \subseteq {d}
  BY <1>5, OneDayWritten
<1>7. Expected(d)' = Expected(d) /\ Books(d)' = Books(d) /\ OwedOf(d)' = OwedOf(d)
  <2>1. Expected(d)' = Expected(d)
    BY <1>2, SameExpected
  <2> QED
    BY <1>2, <2>1 DEF Books, OwedOf, ShortageOf
<1>8. ASSUME h.read = <<closing[d] - Expected(d)>>, closing[d] = count[d]
      PROVE  shortage'[d] \in {None, OwedOf(d)}
  <2>1. h.read[1] = count[d] - Expected(d)
    <3> HIDE DEF h
    <3> QED
      BY <1>8
  <2> QED
    BY <1>1, <1>3, <2>1 DEF OwedOf, PapersTyped
<1>9. SoundStep(r, h) => h.read = <<closing[d] - Expected(d)>>
  BY <1>2 DEF SoundStep
<1>10. ASSUME NEW e \in Days \ overtaken' PROVE PapersStay(e)
  <2>1. CASE e \notin Written
    BY <2>1, SamePapers DEF PapersStay
  <2>2. CASE e \in Written
    <3>1. e = d
      BY <1>6, <2>2
    <3>2. SoundStep(r, h)
      BY <1>1, <1>2, <1>10, <2>2, <3>1, StepAtHand DEF Kept
    <3> QED
      BY <1>2, <1>8, <1>9, <3>1, <3>2 DEF PapersStay
  <2> QED
    BY <2>1, <2>2
<1>11. ASSUME d \notin overtaken' \cup outdated[r], PutRight(r, d)
       PROVE  PutRight(r, d)'
  <2>1. SoundStep(r, h)
    BY <1>1, <1>2, <1>11, StepAtHand DEF Kept
  <2>2. closing[d] = count[d] => shortage'[d] \in {None, OwedOf(d)'}
    BY <1>7, <1>8, <1>9, <2>1
  <2>3. \A y \in Left(r) : y.name \in {"revise", "carry", "rebuild", "snapshot"} => y \in Left(r)'
    BY <1>2, <1>4 DEF Moves, Late
  <2>4. /\ Has(r, d, {"revise"}) => Has(r, d, {"revise"})'
        /\ Has(r, d, {"carry", "rebuild", "snapshot"})
             => Has(r, d, {"carry", "rebuild", "snapshot"})'
    BY <2>3 DEF Has
  <2> QED
    BY <1>2, <1>7, <1>11, <2>2, <2>4 DEF PutRight
<1>12. Sound'
  <2>1. \A e \in Days : e < d => e \notin Written
    BY <1>6 DEF Days
  <2>2. h.name # "snapshot"
    BY <1>2
  <2> HIDE DEF Written, Changed, Kept, h
  <2> QED
    BY <1>2, <1>4, <1>10, <1>11, <2>1, <2>2, RefreshSound DEF h
<1>13. DaysInv'
  <2> SUFFICES ASSUME NEW e \in Days, e \notin overtaken' PROVE DayInv(e)'
    BY DEF DaysInv
  <2>1. DayInv(e)
    BY <1>1 DEF DaysInv, Remember
  <2>2. CASE e # d
    <3>1. RefreshesKept(e)
      BY <1>2, <1>4, <2>2, MoveKeepsRefreshes DEF RefreshesKept
    <3>2. e \notin Written
      BY <1>6, <2>2
    <3> QED
      BY <2>1, <3>1, <3>2, UntouchedDayStays
  <2>3. CASE e = d
    <3>1. MendingKept(d)
      BY <1>2, <1>4, MoveKeepsRefreshes
    <3>2. Mended(d) => Mended(d)'
      BY <1>2, <1>7, <3>1, MendedStays
    <3>3. ASSUME status[d] = "CLOSED", ~ IsReturned(d), Aligned(d)
          PROVE  Aligned(d)'
      <4>1. closing[d] = count[d]
        BY <2>1, <2>3, <3>3 DEF DayInv
      <4>2. CASE SoundStep(r, h)
        BY <1>7, <1>8, <1>9, <4>1, <4>2 DEF Aligned
      <4>3. CASE Aligns(h, d)
        BY <1>2, <1>7, <1>8, <4>1, <4>3 DEF Aligned, Aligns
      <4>4. CASE ~ SoundStep(r, h) /\ ~ Aligns(h, d)
        <5>1. d \notin Written
          BY <1>1, <1>2, <2>3, <4>4, StepAtHand DEF Kept
        <5>2. shortage'[d] = shortage[d]
          BY <5>1, SamePapers
        <5>3. CASE shortage[d] \in {None, OwedOf(d)}
          BY <1>7, <5>2, <5>3 DEF Aligned
        <5>4. CASE shortage[d] \notin {None, OwedOf(d)}
          <6>1. PICK q \in Requests : \E x \in Left(q) : Aligns(x, d)
            BY <3>3, <5>4 DEF Aligned
          <6>2. PICK x \in Left(q) : Aligns(x, d)
            BY <6>1
          <6>3. x \in Left(q)'
            BY <1>2, <1>4, <4>4, <6>2 DEF Moves, Aligns, Late
          <6>4. Aligns(x, d)'
            BY <1>2, <1>7, <6>2 DEF Aligns
          <6> QED
            BY <6>3, <6>4 DEF Aligned
        <5> QED
          BY <5>3, <5>4
      <4> QED
        BY <4>2, <4>3, <4>4
    <3> QED
      BY <1>2, <1>5, <2>1, <2>3, <3>2, <3>3 DEF DayInv, IsReturned
  <2> QED
    BY <2>2, <2>3
<1> QED
  BY <1>4, <1>12, <1>13

-----------------------------------------------------------------------------
(* Steps that open days and look at them.                                  *)

LEMMA LateSteps ==
  ASSUME NEW d \in Int, NEW how \in {"openNext", "openFirst"}
  PROVE  /\ OpenSteps(d, how) \in Seq(Plan) /\ InOrder(OpenSteps(d, how))
         /\ LoadDay(d) \in Seq(Plan) /\ InOrder(LoadDay(d))
         /\ \A x \in Entries(OpenSteps(d, how)) \cup Entries(LoadDay(d)) : x.name \in Late
<1>1. OpenSteps(d, how) \in Seq(Plan) /\ LoadDay(d) \in Seq(Plan)
  BY StandardSteps
<1> DEFINE retire == Step("retire", d)
           open == Step(how, d)
           load == Step("load", d)
<1>2. /\ OpenSteps(d, how) = IF d \in Days THEN <<retire, open>> ELSE <<>>
      /\ LoadDay(d) = IF d \in Days THEN <<load>> ELSE <<>>
  BY DEF OpenSteps, LoadDay
<1>3. /\ retire.name = "retire" /\ open.name = how /\ load.name = "load"
  BY DEF Step, StepWith
<1> HIDE DEF retire, open, load
<1>4. Follows(retire, open) /\ retire.name \in Late /\ open.name \in Late /\ load.name \in Late
  BY <1>3 DEF Follows, Late
<1>5. /\ Entries(<<retire, open>>) = {retire, open} /\ InOrder(<<retire, open>>)
      /\ Entries(<<>>) = {} /\ InOrder(<<>>)
  BY <1>4, FewSteps
<1>6. Entries(<<load>>) = {load} /\ InOrder(<<load>>)
  BY FewSteps
<1> QED
  BY <1>1, <1>2, <1>4, <1>5, <1>6

LEMMA LateAfter ==
  ASSUME NEW s \in Seq(Plan), NEW t \in Seq(Plan), InOrder(s), InOrder(t),
         \A x \in Entries(s) : x.name \notin {"mark", "close", "shortage", "report"},
         \A x \in Entries(t) : x.name \in Late
  PROVE  s \o t \in Seq(Plan) /\ InOrder(s \o t) /\ Entries(s \o t) = Entries(s) \cup Entries(t)
<1>1. \A x \in Entries(s), y \in Entries(t) : Follows(x, y)
  BY DEF Follows
<1> QED
  BY <1>1, ConcatProperties, OrderOfConcat, EntriesOfConcat

LEMMA ReadStep ==
  ASSUME Kept, NEW r \in Requests, todo[r] # <<>>, Remember(r), UNCHANGED Data,
         Head(todo[r]).name \in Late \cup {"create"},
         NEW new, Moves(r, {Head(todo[r])}, Rest(r), new),
         \A x \in new : x.name \in Late \cup {"create", "delete"}
  PROVE  Sound' /\ DaysInv'
<1> DEFINE h == Head(todo[r])
<1>1. PlansTyped /\ Ordered /\ Sound /\ DaysInv
  BY DEF Kept, Shape
<1>2. \A x \in Rest(r) : x.name \in Late
  <2>1. \A x \in Rest(r) : Follows(h, x)
    BY <1>1, HeadAndRest
  <2> QED
    BY <2>1 DEF Follows, Late, Refreshes
<1>3. ASSUME NEW x, x.name \in Late \cup {"create", "delete"} PROVE SoundStep(r, x)'
  BY <1>3 DEF SoundStep, Late, Kinds
<1>4. \A e \in Days : e \notin Written
  BY DEF Written, Changed, Judged, Data, day, papers
<1>5. \A e \in Days : PapersStay(e)
  BY DEF PapersStay, Data, papers
<1>6. Sound'
  <2> HIDE DEF Changed, h
  <2> QED
    BY <1>1, <1>2, <1>3, <1>5, SoundAfter
<1>7. ASSUME NEW e \in Days, e \notin overtaken' PROVE DayInv(e)'
  <2>1. DayInv(e)
    BY <1>1, <1>7 DEF DaysInv, Remember
  <2>2. h.name \notin {"revise", "rebuild", "snapshot"} \cup {"revise", "rebuild", "sync"}
    BY DEF Late
  <2>3. RefreshesKept(e)
    <3> HIDE DEF h
    <3> QED
      BY <2>2, MoveKeepsRefreshes DEF RefreshesKept, h
  <2> QED
    BY <1>4, <2>1, <2>3, UntouchedDayStays
<1> QED
  BY <1>6, <1>7 DEF DaysInv

LEMMA ReadsKeep ==
  ASSUME Kept, NEW r \in Requests, NEW d \in Days, Remember(r),
         \/ Load(r, d) \/ Retire(r, d) \/ CreateRefused(r, d)
         \/ \E how \in {"openNext", "openFirst", "openByHand"} : Decide(r, d, how)
  PROVE  Ordered' /\ Sound' /\ DaysInv'
<1> DEFINE h == Head(todo[r])
<1>1. Shape /\ DaysTyped /\ PlansTyped /\ Ordered
  BY DEF Kept, Shape
<1>2. /\ todo[r] # <<>> /\ UNCHANGED Data /\ h.day = d
      /\ h.name \in {"load", "retire", "create", "openNext", "openFirst", "openByHand"}
  BY DEF Load, Retire, CreateRefused, Decide, At, Data
<1>3. \A t \in Rest(r) : t.name \in Late
  <2>1. \A t \in Rest(r) : Follows(h, t)
    BY <1>1, <1>2, HeadAndRest
  <2> QED
    BY <1>2, <2>1 DEF Follows, Late, Refreshes
\* Each either ends or puts steps before the rest that only read, open or delete.
<1>4. \/ Fail(r)
      \/ \E steps \in Seq(Plan) :
           /\ Then(r, steps) /\ InOrder(steps)
           /\ \A x \in Entries(steps) : x.name \in Late \cup {"create", "delete"}
  <2> DEFINE Goal == \/ Fail(r)
                     \/ \E steps \in Seq(Plan) :
                          /\ Then(r, steps) /\ InOrder(steps)
                          /\ \A x \in Entries(steps) : x.name \in Late \cup {"create", "delete"}
  <2>1. ASSUME NEW x \in Plan, NEW y \in Plan,
               x.name \in Late \cup {"create", "delete"}, y.name \in Late \cup {"create", "delete"},
               \/ Then(r, <<>>) \/ Then(r, <<x>>)
               \/ Then(r, <<x, y>>) /\ y.name \in Late
        PROVE  Goal
    <3>1. <<>> \in Seq(Plan) /\ <<x>> \in Seq(Plan) /\ <<x, y>> \in Seq(Plan)
      OBVIOUS
    <3>2. y.name \in Late => Follows(x, y)
      BY <2>1 DEF Follows, Late
    <3>3. /\ Entries(<<>>) = {} /\ Entries(<<x>>) = {x} /\ Entries(<<x, y>>) = {x, y}
          /\ InOrder(<<>>) /\ InOrder(<<x>>) /\ (y.name \in Late => InOrder(<<x, y>>))
      BY <3>2, FewSteps
    <3>4. CASE Then(r, <<>>)
      BY <3>1, <3>3, <3>4
    <3>5. CASE Then(r, <<x>>)
      BY <2>1, <3>1, <3>3, <3>5
    <3>6. CASE Then(r, <<x, y>>) /\ y.name \in Late
      BY <2>1, <3>1, <3>3, <3>6
    <3> QED
      BY <2>1, <3>4, <3>5, <3>6
  <2>2. ASSUME NEW name, NEW e, NEW read
        PROVE  StepWith(name, e, read).name = name /\ Step(name, e).name = name
    BY DEF StepWith, Step
  <2>3. ASSUME Load(r, d) PROVE Goal
    <3> DEFINE open == IF Openable(d) THEN OpenSteps(d, "openFirst") ELSE <<>>
               ensure == Step("ensure", d)
    <3>1. ensure \in Plan /\ ensure.name \in Late
      BY <2>2, PlanOfStep DEF Late
    <3>2. d \in Int
      BY DEF Days
    <3>3. /\ OpenSteps(d, "openFirst") \in Seq(Plan) /\ InOrder(OpenSteps(d, "openFirst"))
          /\ \A x \in Entries(OpenSteps(d, "openFirst")) : x.name \in Late
      BY <3>2, LateSteps
    <3>4. <<>> \in Seq(Plan)
      OBVIOUS
    <3>5. Entries(<<>>) = {} /\ InOrder(<<>>) /\ Entries(<<ensure>>) = {ensure} /\ InOrder(<<ensure>>)
      BY FewSteps
    <3>6. open \in Seq(Plan) /\ InOrder(open) /\ \A x \in Entries(open) : x.name \in Late
      BY <3>3, <3>4, <3>5
    <3>7. <<ensure>> \in Seq(Plan)
      BY <3>1, OneStep
    <3>8. Then(r, open \o <<ensure>>)
      BY <2>3 DEF Load
    <3> HIDE DEF open, ensure
    <3>9. /\ open \o <<ensure>> \in Seq(Plan) /\ InOrder(open \o <<ensure>>)
          /\ Entries(open \o <<ensure>>) = Entries(open) \cup Entries(<<ensure>>)
      <4>1. \A x \in Entries(open) : x.name \notin {"mark", "close", "shortage", "report"}
        BY <3>6 DEF Late
      <4>2. \A x \in Entries(<<ensure>>) : x.name \in Late
        BY <3>1, <3>5
      <4> QED
        BY <3>5, <3>6, <3>7, <4>1, <4>2, LateAfter
    <3> QED
      BY <3>1, <3>5, <3>6, <3>8, <3>9
  <2>4. ASSUME Retire(r, d) PROVE Goal
    <3> DEFINE e == Min(UnclosedBefore(d))
               delete == Step("delete", e)
               retire == Step("retire", d)
    <3>1. retire \in Plan /\ retire.name \in Late
      BY <2>2, PlanOfStep DEF Late
    <3>2. ASSUME UnclosedBefore(d) # {} /\ IsEmptyUnclosed(e) PROVE Goal
      <4>1. e \in Days
        BY <1>1, <3>2, NextAndPrevious
      <4>2. delete \in Plan /\ delete.name = "delete"
        BY <2>2, <4>1, PlanOfStep
      <4>3. Then(r, <<delete, retire>>)
        BY <2>4, <3>2 DEF Retire
      <4> HIDE DEF delete, retire, Goal
      <4> QED
        BY <2>1, <3>1, <4>2, <4>3
    <3>3. ASSUME ~ (UnclosedBefore(d) # {} /\ IsEmptyUnclosed(e)) PROVE Goal
      <4>1. Then(r, <<>>)
        BY <2>4, <3>3 DEF Retire
      <4> HIDE DEF retire, Goal
      <4> QED
        BY <2>1, <3>1, <4>1
    <3> HIDE DEF Goal
    <3> QED
      BY <3>2, <3>3
  <2>5. ASSUME NEW how \in {"openNext", "openFirst", "openByHand"}, Decide(r, d, how)
        PROVE  Goal
    <3>1. how = "openByHand" => Read(r, 1) \in Nat /\ Read(r, 2) \in {0, 1}
      BY <1>1, <2>5, AtStep, ReadOfStep DEF Decide, Read
    <3> DEFINE cash == IF Previous(d) # 0 THEN closing[Previous(d)]
                       ELSE IF how = "openByHand" THEN Read(r, 1) ELSE 0
               added == IF how = "openByHand" THEN Read(r, 2) ELSE 0
    <3>2. cash \in Nat /\ added \in {0, 1}
      BY <1>1, <3>1, NextAndPrevious
    <3> DEFINE create == StepWith("create", d, <<cash, added>>)
    <3>3. Then(r, <<create>>) \/ Then(r, <<>>) \/ Fail(r)
      BY <2>5 DEF Decide
    <3> HIDE DEF cash, added
    <3>4. create \in Plan /\ create.name = "create"
      BY <2>2, <3>2, PlanOfStep
    <3> HIDE DEF create
    <3>5. CASE Fail(r)
      BY <3>5
    <3>6. CASE Then(r, <<create>>) \/ Then(r, <<>>)
      <4> HIDE DEF Goal
      <4> QED
        BY <2>1, <3>4, <3>6
    <3> QED
      BY <3>3, <3>5, <3>6
  <2>6. ASSUME CreateRefused(r, d) PROVE Goal
    BY <2>6 DEF CreateRefused
  <2> HIDE DEF Goal
  <2>7. Goal
    BY <2>3, <2>4, <2>5, <2>6
  <2> QED
    BY <2>7 DEF Goal
<1>5. \E new : /\ Moves(r, {h}, Rest(r), new) /\ Ordered'
               /\ \A x \in new : x.name \in Late \cup {"create", "delete"}
  <2>1. CASE Fail(r)
    <3>1. Moves(r, {h}, Rest(r), {}) /\ Ordered'
      BY <1>1, <1>2, <1>3, <2>1, AfterFail
    <3> QED
      BY <3>1
  <2>2. CASE ~ Fail(r)
    <3>1. PICK steps \in Seq(Plan) :
            /\ Then(r, steps) /\ InOrder(steps)
            /\ \A x \in Entries(steps) : x.name \in Late \cup {"create", "delete"}
      BY <1>4, <2>2
    <3>2. \A x \in Entries(steps), t \in Rest(r) : Follows(x, t)
      BY <1>3, <3>1 DEF Follows, Late
    <3> QED
      BY <1>1, <1>2, <3>1, <3>2, AfterThen
  <2> QED
    BY <2>1, <2>2
<1>6. h.name \in Late \cup {"create"}
  BY <1>2 DEF Late
<1> HIDE DEF Kept
<1> QED
  BY <1>2, <1>5, <1>6, ReadStep

-----------------------------------------------------------------------------
(* The report of a close, and its confirmation.                            *)

LEMMA ConfirmOrder ==
  ASSUME NEW d \in Days
  PROVE  /\ ConfirmSteps(d) \in Seq(Plan) /\ InOrder(ConfirmSteps(d))
         /\ \A x \in Entries(ConfirmSteps(d)) : x = Step("confirm", d) \/ x.name \in Late
<1> DEFINE confirm == Step("confirm", d)
           open == OpenSteps(d + 1, "openNext")
           load == LoadDay(d + 1)
<1>1. d + 1 \in Int
  BY DEF Days
<1>2. /\ open \in Seq(Plan) /\ InOrder(open) /\ load \in Seq(Plan) /\ InOrder(load)
      /\ \A x \in Entries(open) \cup Entries(load) : x.name \in Late
  BY <1>1, LateSteps
<1>3. confirm \in Plan /\ confirm.name = "confirm"
  BY PlanOfStep DEF Step, StepWith
<1>4. ConfirmSteps(d) = (<<confirm>> \o open) \o load
  BY DEF ConfirmSteps
<1> HIDE DEF confirm, open, load
<1>5. <<confirm>> \in Seq(Plan) /\ Entries(<<confirm>>) = {confirm} /\ InOrder(<<confirm>>)
  BY <1>3, OneStep, FewSteps
<1>6. /\ <<confirm>> \o open \in Seq(Plan) /\ InOrder(<<confirm>> \o open)
      /\ Entries(<<confirm>> \o open) = {confirm} \cup Entries(open)
  <2>1. \A x \in Entries(<<confirm>>) : x.name \notin {"mark", "close", "shortage", "report"}
    BY <1>3, <1>5
  <2> QED
    BY <1>2, <1>5, <2>1, LateAfter
<1>7. /\ ConfirmSteps(d) \in Seq(Plan) /\ InOrder(ConfirmSteps(d))
      /\ Entries(ConfirmSteps(d)) = ({confirm} \cup Entries(open)) \cup Entries(load)
  <2>1. \A x \in Entries(<<confirm>> \o open) :
          x.name \notin {"mark", "close", "shortage", "report"}
    BY <1>2, <1>3, <1>6 DEF Late
  <2>2. \A x \in Entries(load) : x.name \in Late
    BY <1>2
  <2> QED
    BY <1>2, <1>4, <1>6, <2>1, <2>2, LateAfter
<1> QED
  BY <1>2, <1>7 DEF confirm

\* The close of a day that nobody has changed writes its report and sends it as it is.
LEMMA ReportCloseKeeps ==
  ASSUME Kept, NEW r \in Requests, NEW d \in Days, Remember(r), ReportClose(r, d)
  PROVE  Ordered' /\ Sound' /\ DaysInv'
<1> DEFINE h == Head(todo[r])
<1>1. Shape /\ DaysTyped /\ BooksTyped /\ PapersTyped /\ PlansTyped /\ Ordered /\ Sound /\ DaysInv
  BY DEF Kept, Shape
<1>2. todo[r] # <<>> /\ h.name = "report" /\ h.day = d /\ Left(r) = {h} \cup Rest(r)
      /\ \A x \in Rest(r) : Follows(h, x)
  BY <1>1, HeadAndRest DEF ReportClose, At
<1>3. Rest(r) = {}
  BY <1>2 DEF Follows, Refreshes
<1>4. UNCHANGED <<today, day, count, rows, salary, shortage>>
  BY DEF ReportClose
<1>5. \/ UNCHANGED <<report, snapshot>>
      \/ report[d] = NoReport /\ status[d] # "NONE" /\ WriteReport(d)
  BY DEF ReportClose, WriteReport
<1>6. ASSUME SoundStep(r, h)
      PROVE  /\ report[d] = NoReport /\ status[d] = "CLOSED" /\ WriteReport(d)
             /\ report'[d] = [status |-> "MANAGER_REVIEW", before |-> "NONE"]
  <2>1. ~ Has(r, d, {"close"})
    BY <1>2, <1>3 DEF Has
  <2>2. report[d] = NoReport /\ status[d] = "CLOSED"
    BY <1>2, <1>6, <2>1 DEF SoundStep
  <2>3. WriteReport(d)
    BY <2>2 DEF ReportClose
  <2> QED
    BY <1>1, <2>2, <2>3 DEF WriteReport, PapersTyped
<1>7. \E steps \in Seq(Plan) :
        /\ Then(r, steps) /\ InOrder(steps)
        /\ \A x \in Entries(steps) :
             \/ x.name \in Late
             \/ x = Step("confirm", d) /\ report'[d].status \in WithManager
  <2>1. d \in Int
    BY DEF Days
  <2>2. CASE Then(r, LoadDay(d))
    BY <2>1, <2>2, LateSteps
  <2>3. CASE Then(r, ConfirmSteps(d)) /\ report'[d].status \in WithManager
    BY <2>3, ConfirmOrder
  <2> QED
    BY <2>2, <2>3 DEF ReportClose
<1>8. PICK steps \in Seq(Plan) :
        /\ Then(r, steps) /\ InOrder(steps)
        /\ \A x \in Entries(steps) :
             \/ x.name \in Late
             \/ x = Step("confirm", d) /\ report'[d].status \in WithManager
  BY <1>7
<1>9. Moves(r, {h}, Rest(r), Entries(steps)) /\ Ordered'
  BY <1>1, <1>2, <1>3, <1>8, AfterThen
<1>10. OnlyDay(d)
  BY <1>1, <1>4, <1>5 DEF WriteReport, OnlyDay, PapersTyped, day
<1>11. Written \subseteq {d}
  BY <1>10, OneDayWritten
<1>12. \A e \in Days : PapersStay(e)
  <2> SUFFICES ASSUME NEW e \in Days, IsReturned(e)
               PROVE  snapshot'[e] = snapshot[e] /\ shortage'[e] = shortage[e]
    BY DEF PapersStay
  <2>1. CASE UNCHANGED <<report, snapshot>>
    BY <1>4, <2>1
  <2>2. CASE report[d] = NoReport
    <3>1. e # d
      BY <2>2 DEF IsReturned, NoReport
    <3> QED
      BY <1>10, <3>1 DEF OnlyDay
  <2> QED
    BY <1>5, <2>1, <2>2
<1>13. ASSUME NEW x \in Entries(steps), x.day \notin outdated'[r] \cup overtaken'
       PROVE  SoundStep(r, x)'
  <2>1. CASE x.name \in Late
    BY <2>1 DEF SoundStep, Late, Kinds
  <2>2. CASE x = Step("confirm", d)
    <3>1. x.name = "confirm" /\ x.day = d
      BY <2>2 DEF Step, StepWith
    <3>2. x \in Left(r)'
      BY <1>9 DEF Moves
    <3>3. todo'[r] # <<>>
      BY <3>2, SomeStepIsLeft
    <3>4. d \notin outdated[r] \cup overtaken
      BY <1>2, <1>13, <3>1, <3>3, StillCurrent
    <3>5. h \in Left(r)
      BY <1>2
    <3>6. SoundStep(r, h)
      BY <1>1, <1>2, <3>4, <3>5 DEF Sound
    <3>7. report'[d].status = "MANAGER_REVIEW"
      BY <1>6, <3>6
    <3> HIDE DEF h
    <3> QED
      BY <3>1, <3>7 DEF SoundStep, WithManager, IsReturned, Kinds
  <2> QED
    BY <1>8, <2>1, <2>2
<1>14. Sound'
  <2> HIDE DEF Changed, h
  <2> QED
    BY <1>1, <1>3, <1>9, <1>12, <1>13, SoundAfter
<1>15. ASSUME NEW e \in Days, e \notin overtaken' PROVE DayInv(e)'
  <2>1. DayInv(e)
    BY <1>1, <1>15 DEF DaysInv, Remember
  <2>2. RefreshesKept(e)
    <3>1. h.name \notin {"revise", "rebuild", "snapshot"} \cup {"revise", "rebuild", "sync"}
      BY <1>2
    <3> HIDE DEF h
    <3> QED
      BY <1>9, <3>1, MoveKeepsRefreshes DEF RefreshesKept
  <2>3. CASE e \in Written
    <3>1. e = d
      BY <1>11, <2>3
    <3>2. SoundStep(r, h)
      BY <1>1, <1>2, <1>15, <2>3, <3>1, StepAtHand DEF Kept
    <3> HIDE DEF Written
    <3> QED
      BY <1>1, <1>4, <1>6, <2>1, <2>2, <3>1, <3>2, NewReport
  <2>4. CASE e \notin Written
    BY <2>1, <2>2, <2>4, UntouchedDayStays
  <2> QED
    BY <2>3, <2>4
<1> QED
  BY <1>9, <1>14, <1>15 DEF DaysInv

-----------------------------------------------------------------------------
(* A day is deleted.                                                       *)

\* What a request loses when its day is deleted comes after all it keeps.
LEMMA EntriesWithout ==
  ASSUME NEW d, NEW steps \in Seq(Plan), InOrder(steps)
  PROVE  /\ Entries(WhatWorksWithout(d, steps)) \subseteq Entries(steps)
         /\ InOrder(WhatWorksWithout(d, steps))
         /\ \A y \in Entries(steps) \ Entries(WhatWorksWithout(d, steps)) :
              /\ \A x \in Entries(WhatWorksWithout(d, steps)) : Follows(x, y)
              /\ \E x \in Entries(steps) : /\ x.name \in RowSteps /\ x.day = d
                                           /\ x = y \/ Follows(x, y)
<1> DEFINE w == WhatWorksWithout(d, steps)
<1>1. PICK n \in 0..Len(steps) :
        /\ w = SubSeq(steps, 1, n) /\ w \in Seq(Plan)
        /\ n # Len(steps) => steps[n + 1].name \in RowSteps /\ steps[n + 1].day = d
  BY LeftWithout
<1>2. DOMAIN steps = 1..Len(steps) /\ Len(steps) \in Nat
  BY LenProperties
<1> DEFINE last == Len(steps)
<1>3. /\ n \in Nat /\ last \in Nat /\ n <= last /\ DOMAIN steps = 1..last
      /\ n # last => steps[n + 1].name \in RowSteps /\ steps[n + 1].day = d
  <2>1. last \in Nat /\ n \in 0..last /\ DOMAIN steps = 1..last
    BY <1>1, <1>2
  <2>2. n # last => steps[n + 1].name \in RowSteps /\ steps[n + 1].day = d
    BY <1>1
  <2> HIDE DEF last
  <2> QED
    BY <2>1, <2>2
<1> HIDE DEF w, Plan, last
<1>4. DOMAIN w = 1..n /\ \A i \in 1..n : w[i] = steps[i] /\ i \in DOMAIN steps
  <2>1. \A i \in 1..n : steps[i] \in Plan
    BY <1>3
  <2>2. /\ Len(SubSeq(steps, 1, n)) = IF 1 <= n THEN n - 1 + 1 ELSE 0
        /\ \A i \in 1..(n - 1 + 1) : SubSeq(steps, 1, n)[i] = steps[1 + i - 1]
    BY <1>3, <2>1, SubSeqProperties
  <2>3. SubSeq(steps, 1, n) \in Seq(Plan)
    BY <1>1
  <2>4. Len(SubSeq(steps, 1, n)) = n
    BY <1>3, <2>2
  <2>5. DOMAIN SubSeq(steps, 1, n) = 1..n
    BY <2>3, <2>4, LenProperties
  <2> QED
    BY <1>1, <1>3, <2>2, <2>5
<1>5. Entries(w) \subseteq Entries(steps)
  BY <1>4 DEF Entries
<1>6. InOrder(w)
  BY <1>3, <1>4 DEF InOrder
<1>7. ASSUME NEW y \in Entries(steps) \ Entries(w)
      PROVE  /\ \A x \in Entries(w) : Follows(x, y)
             /\ \E x \in Entries(steps) : /\ x.name \in RowSteps /\ x.day = d
                                          /\ x = y \/ Follows(x, y)
  <2>1. PICK j \in 1..last : y = steps[j]
    BY <1>3 DEF Entries
  <2>2. j > n
    <3>1. j <= n => y \in Entries(w)
      BY <1>3, <1>4, <2>1 DEF Entries
    <3> QED
      BY <1>3, <2>1, <3>1
  <2>3. ASSUME NEW x \in Entries(w) PROVE Follows(x, y)
    <3>1. PICK i \in 1..n : x = w[i]
      BY <1>4 DEF Entries
    <3>2. i \in DOMAIN steps /\ j \in DOMAIN steps /\ i < j /\ x = steps[i]
      BY <1>3, <1>4, <2>2, <3>1
    <3> QED
      BY <2>1, <3>2 DEF InOrder
  <2>4. n + 1 \in DOMAIN steps /\ n # last
    BY <1>3, <2>1, <2>2
  <2>5. steps[n + 1] = y \/ Follows(steps[n + 1], y)
    <3>1. CASE j = n + 1
      BY <2>1, <3>1
    <3>2. CASE j # n + 1
      <4>1. n + 1 < j /\ j \in DOMAIN steps
        BY <1>3, <2>1, <2>2, <3>2
      <4> QED
        BY <2>1, <2>4, <4>1 DEF InOrder
    <3> QED
      BY <3>1, <3>2
  <2>6. steps[n + 1] \in Entries(steps)
    BY <2>4 DEF Entries
  <2> QED
    BY <1>3, <2>3, <2>4, <2>5, <2>6
<1> QED
  BY <1>5, <1>6, <1>7 DEF w

LEMMA DeleteKeeps ==
  ASSUME Kept, NEW r \in Requests, NEW d \in Days, Remember(r), DeleteDay(r, d)
  PROVE  Ordered' /\ Sound' /\ DaysInv'
<1> DEFINE h == Head(todo[r])
<1>1. DaysTyped /\ BooksTyped /\ PapersTyped /\ PlansTyped /\ Ordered /\ Sound /\ DaysInv
  BY DEF Kept, Shape
<1>2. todo[r] # <<>> /\ h.name = "delete" /\ h.day = d /\ Left(r) = {h} \cup Rest(r)
      /\ InOrder(Tail(todo[r])) /\ \A x \in Rest(r) : Follows(h, x)
  BY <1>1, HeadAndRest DEF DeleteDay, At
<1>3. \A x \in Rest(r) : x.name \in Late
  BY <1>2 DEF Follows, Refreshes
<1>4. /\ OnlyDay(d)
      /\ status'[d] = "NONE" /\ report'[d] = NoReport /\ shortage'[d] = None
  BY <1>1 DEF DeleteDay, OnlyDay, DaysTyped, BooksTyped, PapersTyped
<1>5. /\ todo'[r] = Tail(todo[r])
      /\ \A q \in Requests \ {r} : todo'[q] = WhatWorksWithout(d, todo[q])
  BY <1>1 DEF DeleteDay, PlansTyped
<1>6. Left(r)' = Rest(r)
  BY <1>5 DEF Left, Rest, Entries
<1>7. ASSUME NEW q \in Requests \ {r}
      PROVE  /\ Left(q)' \subseteq Left(q) /\ InOrder(todo[q])'
             /\ \A y \in Left(q) \ Left(q)' :
                  /\ \A x \in Left(q)' : Follows(x, y)
                  /\ \E x \in Left(q) : /\ x.name \in RowSteps /\ x.day = d
                                        /\ x = y \/ Follows(x, y)
  <2> DEFINE w == WhatWorksWithout(d, todo[q])
  <2>1. todo[q] \in Seq(Plan) /\ InOrder(todo[q])
    BY <1>1 DEF PlansTyped, Ordered
  <2>2. /\ Entries(w) \subseteq Entries(todo[q]) /\ InOrder(w)
        /\ \A y \in Entries(todo[q]) \ Entries(w) :
             /\ \A x \in Entries(w) : Follows(x, y)
             /\ \E x \in Entries(todo[q]) : /\ x.name \in RowSteps /\ x.day = d
                                            /\ x = y \/ Follows(x, y)
    BY <2>1, EntriesWithout
  <2>3. todo'[q] = w
    BY <1>5
  <2> HIDE DEF w
  <2>4. Left(q)' = Entries(w)
    BY <2>3 DEF Left, Entries
  <2>5. InOrder(todo[q])'
    BY <2>2, <2>3 DEF InOrder
  <2> QED
    BY <2>2, <2>4, <2>5 DEF Left
<1>8. Ordered'
  <2>1. InOrder(todo[r])'
    BY <1>2, <1>5 DEF InOrder
  <2> QED
    BY <1>7, <2>1 DEF Ordered
<1>9. \A e \in Days \ {d} : e \notin Written /\ e \notin Changed
  BY <1>4, OneDayWritten DEF Written
<1>10. ASSUME NEW q \in Requests, NEW x \in Left(q)', x.day \notin outdated'[q] \cup overtaken'
       PROVE  SoundStep(q, x)'
  <2>1. CASE q = r
    BY <1>3, <1>6, <2>1 DEF SoundStep, Late, Kinds
  <2>2. CASE q # r
    <3>1. x \in Left(q) /\ todo[q] # <<>> /\ todo'[q] # <<>>
      BY <1>7, <2>2, SomeStepIsLeft
    <3>2. x.day \notin outdated[q] \cup overtaken /\ x.day \notin Changed
      <4> HIDE DEF Changed
      <4> QED
        BY <1>10, <2>2, <3>1, StillCurrent
    <3>3. x \in Plan /\ x.day \in Days
      BY <1>1, <3>1, StepsArePlans, ReadOfStep
    <3>4. SoundStep(q, x)
      BY <1>1, <3>1, <3>2 DEF Sound
    <3>5. \A y \in Left(q) : y \in Left(q)' \/ Follows(x, y)
      BY <1>7, <2>2
    <3>6. PapersStay(x.day)
      <4>1. CASE x.day = d
        <5>1. report'[d] = report[d]
          BY <3>2, <3>3, <4>1, SameJudged
        <5> QED
          BY <1>4, <4>1, <5>1 DEF PapersStay, IsReturned, NoReport
      <4>2. CASE x.day # d
        BY <1>4, <3>3, <4>2 DEF PapersStay, OnlyDay
      <4> QED
        BY <4>1, <4>2
    <3> HIDE DEF Changed
    <3> QED
      BY <3>1, <3>2, <3>3, <3>4, <3>5, <3>6, StepStaysSound
  <2> QED
    BY <2>1, <2>2
<1>11. ASSUME NEW e \in Days, e # d PROVE RefreshesKept(e)
  <2> SUFFICES ASSUME NEW q \in Requests, NEW y \in Left(q), y.day = e,
                      y.name \in {"revise", "rebuild", "snapshot", "sync"}
               PROVE  y \in Left(q)'
    BY DEF RefreshesKept, MendingKept, AligningKept
  <2>1. CASE q = r
    BY <1>2, <1>6, <2>1
  <2>2. CASE q # r
    <3> SUFFICES ASSUME y \notin Left(q)' PROVE FALSE
      OBVIOUS
    <3>1. PICK x \in Left(q) : x.name \in RowSteps /\ x.day = d /\ (x = y \/ Follows(x, y))
      BY <1>7, <2>2
    <3> QED
      BY <1>11, <3>1 DEF Follows, RowSteps, Refreshes, Late, Kinds
  <2> QED
    BY <2>1, <2>2
<1>12. ASSUME NEW e \in Days, e \notin overtaken' PROVE DayInv(e)'
  <2>1. CASE e = d
    BY <1>4, <2>1 DEF DayInv, NoReport, Submitted, IsReturned
  <2>2. CASE e # d
    <3>1. DayInv(e)
      BY <1>1, <1>12 DEF DaysInv, Remember
    <3> QED
      BY <1>9, <1>11, <2>2, <3>1, UntouchedDayStays
  <2> QED
    BY <2>1, <2>2
<1> QED
  BY <1>8, <1>10, <1>12 DEF Sound, DaysInv

-----------------------------------------------------------------------------
(* Requests begin with what they have checked.                             *)

\* A step of a request that did nothing before it.
LEMMA AsideKeeps ==
  ASSUME Kept, NEW r \in Requests, NEW d \in Days, Remember(r), NEW new,
         Moves(r, {}, {}, new), Ordered', Written \subseteq {d},
         d \notin Changed => PapersStay(d),
         \A x \in new : x.day \notin overtaken => SoundStep(r, x)',
         d \in Written /\ DayInv(d) /\ RefreshesKept(d) => DayInv(d)'
  PROVE  Ordered' /\ Sound' /\ DaysInv'
<1>1. PlansTyped /\ Sound /\ DaysInv /\ overtaken \subseteq overtaken'
  BY DEF Kept, Shape, Remember
<1>2. \A e \in Days \ {d} : e \notin Written
  BY DEF Written
<1>3. \A e \in Days \ (overtaken' \cup Changed) : PapersStay(e)
  <2>1. \A e \in Days \ {d} : PapersStay(e)
    BY <1>2, SamePapers DEF PapersStay
  <2> HIDE DEF Changed
  <2> QED
    BY <2>1
<1>4. Sound'
  <2>1. \A x \in new : x.day \notin outdated'[r] \cup overtaken' => SoundStep(r, x)'
    BY <1>1
  <2> HIDE DEF Changed
  <2> QED
    BY <1>1, <1>3, <2>1, SoundAfter
<1>5. ASSUME NEW e \in Days, e \notin overtaken' PROVE DayInv(e)'
  <2>1. DayInv(e)
    BY <1>1, <1>5 DEF DaysInv
  <2>2. RefreshesKept(e)
    BY MoveKeepsRefreshes DEF RefreshesKept
  <2>3. CASE e = d /\ d \in Written
    BY <2>1, <2>2, <2>3
  <2>4. CASE e \notin Written
    BY <2>1, <2>2, <2>4, UntouchedDayStays
  <2> QED
    BY <1>2, <2>3, <2>4
<1> QED
  BY <1>4, <1>5 DEF DaysInv

LEMMA BeginKeeps ==
  ASSUME Kept, NEW r \in Requests, Remember(r), UNCHANGED Data,
         NEW steps \in Seq(Plan), Begin(r, steps), InOrder(steps),
         \A x \in Entries(steps) : x.day \notin overtaken => SoundStep(r, x)'
  PROVE  Ordered' /\ Sound' /\ DaysInv'
<1>1. 1 \in Days
  BY DayNumbers
<1>2. Moves(r, {}, {}, Entries(steps)) /\ Ordered'
  BY AfterBegin DEF Kept, Shape
<1>3. Written = {}
  BY DEF Written, Changed, Judged, Data, day, papers
<1>4. PapersStay(1)
  BY DEF PapersStay, Data, papers
<1> HIDE DEF Written, Changed, Kept
<1> QED
  BY <1>1, <1>2, <1>3, <1>4, AsideKeeps

\* What is checked for a step before its request begins.
Checked(x) ==
  \/ x.name \in Late \cup {"revise"}
  \/ x.name \in Kinds \cup {"void"} /\ AcceptsRecords(x.day)
  \/ x.name = "count" /\ CanBeCounted(x.day)
  \/ x.name \in {"approve", "return"} /\ report[x.day].status \in Submitted

LEMMA CheckedIsSound ==
  ASSUME UNCHANGED Data, NEW r, NEW x, Checked(x)
  PROVE  SoundStep(r, x)'
<1>1. /\ status' = status /\ report' = report
      /\ AcceptsRecords(x.day)' <=> AcceptsRecords(x.day)
      /\ CanBeCounted(x.day)' <=> CanBeCounted(x.day)
  BY DEF Data, day, papers, AcceptsRecords, CanBeCounted, Returned
<1>2. CASE x.name \in Late \cup {"revise"}
  BY <1>2 DEF SoundStep, Late, Kinds
<1>3. CASE x.name \in Kinds \cup {"void"} /\ AcceptsRecords(x.day)
  BY <1>1, <1>3 DEF SoundStep, Kinds
<1>4. CASE x.name = "count" /\ CanBeCounted(x.day)
  BY <1>1, <1>4 DEF SoundStep, Kinds
<1>5. CASE x.name \in {"approve", "return"} /\ report[x.day].status \in Submitted
  BY <1>1, <1>5 DEF SoundStep, Kinds
<1> QED
  BY <1>2, <1>3, <1>4, <1>5 DEF Checked

LEMMA CheckedKeeps ==
  ASSUME Kept, NEW r \in Requests, NEW d \in Days, Remember(r), UNCHANGED Data,
         NEW first \in Seq(Plan), InOrder(first), \A x \in Entries(first) : Checked(x),
         Begin(r, first \o LoadDay(d))
  PROVE  Ordered' /\ Sound' /\ DaysInv'
<1> DEFINE load == LoadDay(d)
<1>1. d \in Int
  BY DEF Days
<1>2. load \in Seq(Plan) /\ InOrder(load) /\ \A x \in Entries(load) : x.name \in Late
  BY <1>1, LateSteps
<1>3. \A x \in Entries(first) : x.name \notin {"mark", "close", "shortage", "report"}
  BY DEF Checked, Late, Kinds
<1>4. Begin(r, first \o load)
  OBVIOUS
<1> HIDE DEF load
<1>5. /\ first \o load \in Seq(Plan) /\ InOrder(first \o load)
      /\ Entries(first \o load) = Entries(first) \cup Entries(load)
  BY <1>2, <1>3, LateAfter
<1>6. \A x \in Entries(first \o load) : SoundStep(r, x)'
  <2>1. \A x \in Entries(load) : Checked(x)
    BY <1>2 DEF Checked
  <2> QED
    BY <1>5, <2>1, CheckedIsSound
<1> HIDE DEF Kept
<1> QED
  BY <1>4, <1>5, <1>6, BeginKeeps

LEMMA BeginsKeep ==
  ASSUME Kept, NEW r \in Requests, NEW d \in Days, Remember(r),
         \/ \E cash \in OpeningCash, added \in {0, 1} : BeginOpen(r, d, cash, added)
         \/ \E k \in Kinds : BeginRecord(r, d, k)
         \/ BeginVoid(r, d)
         \/ \E n \in Counts : BeginCount(r, d, n)
         \/ BeginApprove(r, d) \/ BeginReturn(r, d) \/ View(r, d)
  PROVE  Ordered' /\ Sound' /\ DaysInv'
<1> DEFINE Goal == UNCHANGED Data /\ \E first \in Seq(Plan) :
                     /\ InOrder(first) /\ \A x \in Entries(first) : Checked(x)
                     /\ Begin(r, first \o LoadDay(d))
<1>1. ASSUME NEW x \in Plan, Checked(x), UNCHANGED Data, Begin(r, <<x>> \o LoadDay(d))
      PROVE  Goal
  <2>1. <<x>> \in Seq(Plan)
    BY OneStep
  <2>2. InOrder(<<x>>) /\ Entries(<<x>>) = {x}
    BY FewSteps
  <2> QED
    BY <1>1, <2>1, <2>2
<1>2. ASSUME NEW x \in Plan, NEW y \in Plan, Checked(x), Checked(y), Follows(x, y),
             UNCHANGED Data, Begin(r, <<x, y>> \o LoadDay(d))
      PROVE  Goal
  <2>1. <<x, y>> \in Seq(Plan)
    OBVIOUS
  <2>2. InOrder(<<x, y>>) /\ Entries(<<x, y>>) = {x, y}
    BY <1>2, FewSteps
  <2> QED
    BY <1>2, <2>1, <2>2
<1>3. ASSUME NEW name, NEW read
      PROVE  /\ StepWith(name, d, read).name = name /\ StepWith(name, d, read).day = d
             /\ Step(name, d).name = name /\ Step(name, d).day = d
  BY DEF StepWith, Step
<1>4. ASSUME NEW cash \in OpeningCash, NEW added \in {0, 1}, BeginOpen(r, d, cash, added)
      PROVE  Goal
  <2> DEFINE x == Step("retire", d)
             y == StepWith("openByHand", d, <<cash, added>>)
  <2>1. x \in Plan /\ y \in Plan
    BY PlanOfStep, CashAssumption
  <2>2. x.name = "retire" /\ y.name = "openByHand"
    BY <1>3
  <2>3. Begin(r, <<x, y>> \o LoadDay(d)) /\ UNCHANGED Data
    BY <1>4 DEF BeginOpen, Data
  <2> HIDE DEF x, y, Goal
  <2>4. Checked(x) /\ Checked(y) /\ Follows(x, y)
    BY <2>2 DEF Checked, Late, Follows
  <2> QED
    BY <1>2, <2>1, <2>3, <2>4
<1>5. ASSUME NEW k \in Kinds, BeginRecord(r, d, k) PROVE Goal
  <2> DEFINE x == Step(k, d)
  <2>1. x \in Plan /\ x.name = k /\ x.day = d
    BY <1>3, PlanOfStep
  <2>2. Begin(r, <<x>> \o LoadDay(d)) /\ UNCHANGED Data /\ AcceptsRecords(d)
    BY <1>5 DEF BeginRecord, Data
  <2> HIDE DEF x, Goal
  <2> QED
    BY <1>1, <2>1, <2>2 DEF Checked
<1>6. ASSUME BeginVoid(r, d) PROVE Goal
  <2> DEFINE x == Step("void", d)
             y == Step("revise", d)
             refresh == IF Returned(d) THEN <<y>> ELSE <<>>
  <2>1. x \in Plan /\ x.name = "void" /\ x.day = d /\ y \in Plan /\ y.name = "revise" /\ y.day = d
    BY <1>3, PlanOfStep
  <2>2. Begin(r, (<<x>> \o refresh) \o LoadDay(d)) /\ UNCHANGED Data /\ AcceptsRecords(d)
    BY <1>6 DEF BeginVoid, Data, Refresh
  <2> HIDE DEF x, y
  <2>3. Checked(x) /\ Checked(y) /\ Follows(x, y)
    BY <2>1, <2>2 DEF Checked, Follows
  <2>4. <<x>> \in Seq(Plan) /\ <<y>> \in Seq(Plan) /\ <<>> \in Seq(Plan)
    BY <2>1, OneStep
  <2>5. /\ InOrder(<<x>>) /\ InOrder(<<y>>) /\ InOrder(<<>>)
        /\ Entries(<<x>>) = {x} /\ Entries(<<y>>) = {y} /\ Entries(<<>>) = {}
    BY FewSteps
  <2>6. refresh \in Seq(Plan) /\ InOrder(refresh) /\ Entries(refresh) \subseteq {y}
    BY <2>4, <2>5
  <2> HIDE DEF refresh
  <2>7. /\ <<x>> \o refresh \in Seq(Plan) /\ InOrder(<<x>> \o refresh)
        /\ Entries(<<x>> \o refresh) \subseteq {x, y}
    <3>1. \A a \in Entries(<<x>>), b \in Entries(refresh) : Follows(a, b)
      BY <2>3, <2>5, <2>6
    <3>2. Entries(<<x>> \o refresh) = Entries(<<x>>) \cup Entries(refresh)
      BY <2>4, <2>6, EntriesOfConcat
    <3> QED
      BY <2>4, <2>5, <2>6, <3>1, <3>2, ConcatProperties, OrderOfConcat
  <2> QED
    BY <2>2, <2>3, <2>7
<1>7. ASSUME NEW n \in Counts, BeginCount(r, d, n) PROVE Goal
  <2> DEFINE x == StepWith("count", d, <<n>>)
  <2>1. x \in Plan /\ x.name = "count" /\ x.day = d
    BY <1>3, PlanOfStep, CashAssumption
  <2>2. Begin(r, <<x>> \o LoadDay(d)) /\ UNCHANGED Data /\ CanBeCounted(d)
    BY <1>7 DEF BeginCount, Data
  <2> HIDE DEF x, Goal
  <2> QED
    BY <1>1, <2>1, <2>2 DEF Checked
<1>8. ASSUME NEW name \in {"approve", "return"}, report[d].status \in Submitted, UNCHANGED Data,
             Begin(r, <<Step(name, d)>> \o LoadDay(d))
      PROVE  Goal
  <2> DEFINE x == Step(name, d)
  <2>1. x \in Plan /\ x.name = name /\ x.day = d
    BY <1>3, PlanOfStep
  <2>2. Begin(r, <<x>> \o LoadDay(d))
    BY <1>8
  <2> HIDE DEF x, Goal
  <2> QED
    BY <1>1, <1>8, <2>1, <2>2 DEF Checked
<1>9. ASSUME View(r, d) PROVE Goal
  <2>1. <<>> \in Seq(Plan)
    OBVIOUS
  <2>2. InOrder(<<>>) /\ Entries(<<>>) = {}
    BY FewSteps
  <2>3. <<>> \o LoadDay(d) = LoadDay(d)
    <3>1. LoadDay(d) \in Seq(Plan)
      BY DayNumbers, StandardSteps
    <3> HIDE DEF Plan
    <3> QED
      BY <3>1, ConcatEmptySeq
  <2> QED
    BY <1>9, <2>1, <2>2, <2>3 DEF View, Data
<1>10. BeginApprove(r, d) => /\ report[d].status \in Submitted /\ UNCHANGED Data
                             /\ Begin(r, <<Step("approve", d)>> \o LoadDay(d))
  BY DEF BeginApprove, Data, Submitted
<1>11. BeginReturn(r, d) => /\ report[d].status \in Submitted /\ UNCHANGED Data
                            /\ Begin(r, <<Step("return", d)>> \o LoadDay(d))
  BY DEF BeginReturn, Data
<1> HIDE DEF Goal
<1>12. Goal
  BY <1>4, <1>5, <1>6, <1>7, <1>8, <1>9, <1>10, <1>11
<1> HIDE DEF Kept
<1> QED
  BY <1>12, CheckedKeeps DEF Goal

\* Sending a returned report begins with putting it right.
LEMMA ConfirmBegins ==
  ASSUME Kept, NEW r \in Requests, NEW d \in Days, Remember(r), BeginConfirm(r, d)
  PROVE  Ordered' /\ Sound' /\ DaysInv'
<1> DEFINE refresh == RefreshIfReturned(d)
           confirm == ConfirmSteps(d)
           revise == Step("revise", d)
<1>1. revise \in Plan /\ revise.name = "revise" /\ revise.day = d
  BY PlanOfStep DEF Step, StepWith
<1>2. /\ confirm \in Seq(Plan) /\ InOrder(confirm)
      /\ \A x \in Entries(confirm) : x = Step("confirm", d) \/ x.name \in Late
  BY ConfirmOrder
<1>3. Step("confirm", d).name = "confirm" /\ Step("confirm", d).day = d
  BY DEF Step, StepWith
<1>4. refresh = IF IsReturned(d) THEN <<revise>> ELSE <<>>
  BY DEF RefreshIfReturned, Refresh, IsReturned
<1>5. Begin(r, refresh \o confirm) /\ UNCHANGED Data /\ report[d].status \in WithManager
  BY DEF BeginConfirm, Data
<1> HIDE DEF refresh, confirm, revise
<1>6. /\ refresh \in Seq(Plan) /\ InOrder(refresh)
      /\ Entries(refresh) = IF IsReturned(d) THEN {revise} ELSE {}
  <2>1. <<>> \in Seq(Plan) /\ <<revise>> \in Seq(Plan)
    BY <1>1, OneStep
  <2>2. InOrder(<<>>) /\ InOrder(<<revise>>) /\ Entries(<<>>) = {} /\ Entries(<<revise>>) = {revise}
    BY FewSteps
  <2> QED
    BY <1>4, <2>1, <2>2
<1>7. \A x \in Entries(refresh), y \in Entries(confirm) : Follows(x, y)
  <2>1. d \in Int
    BY DEF Days
  <2> SUFFICES ASSUME NEW y \in Entries(confirm) PROVE Follows(revise, y)
    BY <1>6
  <2> QED
    BY <1>1, <1>2, <1>3, <2>1 DEF Follows, Refreshes
<1>8. /\ refresh \o confirm \in Seq(Plan) /\ InOrder(refresh \o confirm)
      /\ Entries(refresh \o confirm) = Entries(refresh) \cup Entries(confirm)
  BY <1>2, <1>6, <1>7, ConcatProperties, OrderOfConcat, EntriesOfConcat
<1>9. Left(r)' = Entries(refresh) \cup Entries(confirm)
  BY <1>5, <1>8, AfterBegin DEF Kept, Shape, Moves
<1>10. ASSUME NEW x \in Entries(refresh \o confirm) PROVE SoundStep(r, x)'
  <2>1. CASE x.name \in Late \cup {"revise"}
    BY <1>5, <2>1, CheckedIsSound DEF Checked
  <2>2. CASE x = Step("confirm", d)
    <3>1. x.name = "confirm" /\ x.day = d
      BY <1>3, <2>2
    <3>2. report'[d] = report[d]
      BY <1>5 DEF Data, papers
    <3>3. IsReturned(d)' => PutRight(r, d)'
      <4> SUFFICES ASSUME IsReturned(d)' PROVE PutRight(r, d)'
        OBVIOUS
      <4>1. IsReturned(d)
        BY <3>2 DEF IsReturned
      <4>2. revise \in Left(r)'
        BY <1>6, <1>9, <4>1
      <4> QED
        BY <1>1, <4>2 DEF PutRight, Has
    <3> QED
      BY <1>5, <3>1, <3>2, <3>3 DEF SoundStep, Kinds
  <2> QED
    BY <1>1, <1>2, <1>6, <1>8, <1>10, <2>1, <2>2
<1> HIDE DEF Kept
<1> QED
  BY <1>5, <1>8, <1>10, BeginKeeps

\* A submission reads the count, and what it differs from the books, before it writes.
LEMMA SubmitBegins ==
  ASSUME Kept, NEW r \in Requests, NEW d \in Days, Remember(r), BeginSubmit(r, d)
  PROVE  Ordered' /\ Sound' /\ DaysInv'
<1> DEFINE mark == Step("mark", d)
           first == IF status[d] = "OPEN" THEN <<mark>> ELSE <<>>
           close == StepWith("close", d, <<count[d]>>)
           book == StepWith("shortage", d, <<count[d] - Expected(d)>>)
           last == Step("report", d)
           three == <<close, book, last>>
<1>1. Shape /\ DaysInv
  BY DEF Kept
<1>2. /\ status[d] \in {"OPEN", "CLOSING"} /\ count[d] # None
      /\ Begin(r, first \o three) /\ UNCHANGED Data
  BY DEF BeginSubmit, Data
<1>3. count[d] \in Nat /\ Expected(d) \in Int
  BY <1>1, <1>2, AmountsAreNumbers DEF Shape
<1>4. mark \in Plan /\ close \in Plan /\ book \in Plan /\ last \in Plan
  <2>1. count[d] - Expected(d) \in Int
    BY <1>3
  <2> QED
    BY <1>3, <2>1, PlanOfStep
<1>5. /\ mark.name = "mark" /\ mark.day = d
      /\ close.name = "close" /\ close.day = d /\ close.read = <<count[d]>>
      /\ book.name = "shortage" /\ book.day = d /\ book.read = <<count[d] - Expected(d)>>
      /\ last.name = "report" /\ last.day = d
  BY DEF Step, StepWith
<1> HIDE DEF mark, close, book, last
<1>6. three \in Seq(Plan) /\ Entries(three) = {close, book, last} /\ InOrder(three)
  <2>1. three \in Seq(Plan)
    BY <1>4
  <2>2. /\ DOMAIN three = {1, 2, 3}
        /\ three[1] = close /\ three[2] = book /\ three[3] = last
    OBVIOUS
  <2>3. Follows(close, book) /\ Follows(close, last) /\ Follows(book, last)
    BY <1>5 DEF Follows
  <2> HIDE DEF three
  <2> QED
    BY <2>1, <2>2, <2>3 DEF Entries, InOrder
<1>7. first \in Seq(Plan) /\ InOrder(first) /\ Entries(first) = IF status[d] = "OPEN" THEN {mark} ELSE {}
  <2>1. <<>> \in Seq(Plan) /\ <<mark>> \in Seq(Plan)
    BY <1>4, OneStep
  <2>2. InOrder(<<>>) /\ InOrder(<<mark>>) /\ Entries(<<>>) = {} /\ Entries(<<mark>>) = {mark}
    BY FewSteps
  <2> QED
    BY <2>1, <2>2
<1> HIDE DEF first, three
<1>8. \A x \in Entries(first), y \in Entries(three) : Follows(x, y)
  BY <1>5, <1>6, <1>7 DEF Follows
<1>9. /\ first \o three \in Seq(Plan) /\ InOrder(first \o three)
      /\ Entries(first \o three) = Entries(first) \cup Entries(three)
  BY <1>6, <1>7, <1>8, ConcatProperties, OrderOfConcat, EntriesOfConcat
<1>10. close \in Left(r)'
  BY <1>1, <1>2, <1>6, <1>9, AfterBegin DEF Kept, Shape, Moves
<1>11. Has(r, d, {"close"})'
  BY <1>5, <1>10 DEF Has
<1>12. /\ status'[d] = status[d] /\ count'[d] = count[d] /\ report'[d] = report[d]
       /\ Expected(d)' = Expected(d)
  BY <1>2, SameExpected DEF Data, day, papers
<1>13. ASSUME d \notin overtaken PROVE report[d] = NoReport
  BY <1>1, <1>2, <1>13 DEF DaysInv, DayInv
<1>14. ASSUME NEW x \in Entries(first \o three), x.day \notin overtaken PROVE SoundStep(r, x)'
  <2>1. \/ x = mark /\ status[d] = "OPEN"
        \/ x = close \/ x = book \/ x = last
    BY <1>6, <1>7, <1>9, <1>14
  <2>2. d \notin overtaken /\ report'[d] = NoReport /\ x.day = d
    BY <1>5, <1>12, <1>13, <1>14, <2>1
  <2>3. CASE x = mark /\ status[d] = "OPEN"
    BY <1>2, <1>5, <1>12, <2>2, <2>3 DEF SoundStep, Kinds
  <2>4. CASE x = close
    BY <1>2, <1>5, <1>12, <2>2, <2>4 DEF SoundStep, Kinds
  <2>5. CASE x = book
    BY <1>2, <1>5, <1>11, <1>12, <2>2, <2>5 DEF SoundStep, Kinds
  <2>6. CASE x = last
    BY <1>2, <1>5, <1>11, <1>12, <2>2, <2>6 DEF SoundStep, Kinds
  <2> QED
    BY <2>1, <2>3, <2>4, <2>5, <2>6
<1> HIDE DEF Kept
<1> QED
  BY <1>2, <1>9, <1>14, BeginKeeps

\* Requests that are one transaction, and the cron.
LEMMA DirectKeeps ==
  ASSUME Kept, NEW r \in Requests, NEW d \in Days, Remember(r),
         Undo(r, d) \/ PaySalary(r, d) \/ ReverseSalary(r, d)
  PROVE  Ordered' /\ Sound' /\ DaysInv'
<1>1. Shape /\ DaysTyped /\ BooksTyped /\ PapersTyped /\ PlansTyped /\ Ordered
  BY DEF Kept, Shape
<1>2. OnlyDay(d)
  BY <1>1 DEF Undo, PaySalary, ReverseSalary, OnlyDay, BooksTyped, PapersTyped, day, papers
<1>3. Written \subseteq {d}
  BY <1>2, OneDayWritten
<1>4. PapersStay(d)
  BY DEF PapersStay, Undo, PaySalary, ReverseSalary, papers
<1>5. CASE Undo(r, d)
  <2>1. d \in Int
    BY DEF Days
  <2>2. /\ LoadDay(d) \in Seq(Plan) /\ InOrder(LoadDay(d))
        /\ \A x \in Entries(LoadDay(d)) : x.name \in Late
    BY <2>1, LateSteps
  <2>3. Begin(r, LoadDay(d)) /\ UNCHANGED <<day, count, rows, salary, snapshot, shortage>>
    BY <1>5 DEF Undo
  <2>4. Moves(r, {}, {}, Entries(LoadDay(d))) /\ Ordered'
    BY <1>1, <2>2, <2>3, AfterBegin
  <2>5. \A x \in Entries(LoadDay(d)) : SoundStep(r, x)'
    BY <2>2 DEF SoundStep, Late, Kinds
  <2>6. ASSUME DayInv(d), RefreshesKept(d) PROVE DayInv(d)'
    <3>1. /\ report[d].status = "SENT_TO_OWNER" /\ report[d] # NoReport
          /\ report'[d].status \in WithManager /\ report'[d] # NoReport
      BY <1>1, <1>5 DEF Undo, PapersTyped, NoReport, WithManager
    <3>2. Expected(d)' = Expected(d) /\ count'[d] = count[d] /\ closing'[d] = closing[d]
          /\ status'[d] = status[d] /\ shortage'[d] = shortage[d] /\ snapshot'[d] = snapshot[d]
      BY <2>3, SameExpected DEF day
    <3>3. Mended(d) /\ Aligned(d)
      BY <2>6, <3>1 DEF DayInv, Submitted, IsReturned
    <3>4. Mended(d)' /\ Aligned(d)'
      BY <2>6, <3>2, <3>3, MendedStays, AlignedStays DEF RefreshesKept
    <3> QED
      BY <2>6, <3>1, <3>2, <3>4 DEF DayInv, WithManager, Submitted, IsReturned
  <2> HIDE DEF Written, Changed, Kept
  <2> QED
    BY <1>3, <1>4, <2>4, <2>5, <2>6, AsideKeeps
<1>6. CASE PaySalary(r, d) \/ ReverseSalary(r, d)
  <2>1. /\ todo[r] = <<>> /\ todo' = todo /\ status[d] = "OPEN"
        /\ UNCHANGED <<day, count, rows, papers>>
    BY <1>6 DEF PaySalary, ReverseSalary
  <2>2. Moves(r, {}, {}, {})
    BY <2>1 DEF Moves, Left, Entries
  <2>3. Ordered'
    BY <1>1, <2>1 DEF Ordered, InOrder
  <2>4. ASSUME DayInv(d) PROVE DayInv(d)'
    <3>1. report[d] = NoReport /\ shortage[d] = None
      BY <2>1, <2>4 DEF DayInv
    <3> QED
      BY <2>1, <2>4, <3>1, NothingToMend DEF day, papers
  <2> HIDE DEF Written, Changed, Kept
  <2> QED
    BY <1>3, <1>4, <2>2, <2>3, <2>4, AsideKeeps
<1> QED
  BY <1>5, <1>6

LEMMA CronKeeps ==
  ASSUME Kept, NEW r \in Requests, Remember(r), Cron(r)
  PROVE  Ordered' /\ Sound' /\ DaysInv'
<1> DEFINE steps == OpenSteps(today, "openNext")
<1>1. today \in Int
  BY DEF Kept, Shape, DaysTyped, Days
<1>2. steps \in Seq(Plan) /\ InOrder(steps) /\ \A x \in Entries(steps) : x.name \in Late
  BY <1>1, LateSteps
<1>3. Begin(r, steps) /\ UNCHANGED Data
  BY DEF Cron, Data
<1> HIDE DEF steps, Kept
<1>4. \A x \in Entries(steps) : SoundStep(r, x)'
  BY <1>2 DEF SoundStep, Late, Kinds
<1> QED
  BY <1>2, <1>3, <1>4, BeginKeeps

\* What is left undone where a request stops counts against the days it was about.
LEMMA StopKeeps ==
  ASSUME Kept, NEW r \in Requests, Stop(r)
  PROVE  Ordered' /\ Sound' /\ DaysInv'
<1>1. Shape /\ PlansTyped /\ Ordered /\ Sound /\ DaysInv /\ MemoryTyped
  BY DEF Kept, Shape
<1>2. /\ todo'[r] = <<>> /\ \A q \in Requests \ {r} : todo'[q] = todo[q]
      /\ \A q \in Requests \ {r} : outdated'[q] = outdated[q]
      /\ overtaken \subseteq overtaken'
  BY <1>1 DEF Stop, PlansTyped, MemoryTyped
<1>3. UNCHANGED <<today, day, count, rows, salary, papers>>
  BY DEF Stop
<1>4. Left(r)' = {} /\ \A q \in Requests \ {r} : Left(q)' = Left(q)
  BY <1>2 DEF Left, Entries
<1>5. Ordered'
  <2>1. ASSUME NEW q \in Requests PROVE InOrder(todo[q])'
    BY <1>1, <1>2 DEF Ordered, InOrder
  <2> QED
    BY <2>1 DEF Ordered
<1>6. \A e \in Days : e \notin Written /\ e \notin Changed
  BY <1>3 DEF Written, Changed, Judged, day, papers
<1>7. ASSUME NEW q \in Requests, NEW x \in Left(q)', x.day \notin outdated'[q] \cup overtaken'
      PROVE  SoundStep(q, x)'
  <2>1. q # r /\ x \in Left(q)
    BY <1>4
  <2>2. x.day \notin outdated[q] \cup overtaken
    BY <1>2, <1>7, <2>1
  <2>3. x \in Plan /\ x.day \in Days
    BY <1>1, <2>1, StepsArePlans, ReadOfStep
  <2>4. SoundStep(q, x)
    BY <1>1, <2>1, <2>2 DEF Sound
  <2>5. Left(q)' = Left(q) /\ x.day \notin Changed
    BY <1>4, <1>6, <2>1, <2>3
  <2>6. PapersStay(x.day)
    BY <1>3 DEF PapersStay, papers
  <2> HIDE DEF Changed
  <2> QED
    BY <2>1, <2>3, <2>4, <2>5, <2>6, StepStaysSound
<1>8. ASSUME NEW e \in Days, e \notin overtaken' PROVE DayInv(e)'
  <2>1. DayInv(e)
    BY <1>1, <1>2, <1>8 DEF DaysInv
  <2>2. CASE IsReturned(e)
    <3>1. report[e] # NoReport /\ status'[e] = status[e] /\ count'[e] # None
      BY <1>3, <2>1, <2>2 DEF DayInv, IsReturned, NoReport, day
    <3> QED
      BY <1>3, <2>1, <2>2, <3>1, NothingToMend DEF papers
  <2>3. CASE ~ IsReturned(e)
    <3>1. \A x \in Left(r) : x.day # e \/ x.name \notin {"revise", "rebuild", "snapshot", "sync"}
      <4> SUFFICES ASSUME NEW x \in Left(r), x.day = e,
                          x.name \in {"revise", "rebuild", "snapshot", "sync"}
                   PROVE  FALSE
        OBVIOUS
      <4>1. PICK i \in DOMAIN todo[r] : x = todo[r][i]
        BY DEF Left, Entries
      <4>2. e \in overtaken'
        BY <2>3, <4>1 DEF Stop, IsReturned
      <4> QED
        BY <1>8, <4>2
    <3>2. RefreshesKept(e)
      BY <1>4, <3>1 DEF RefreshesKept, MendingKept, AligningKept
    <3> QED
      BY <1>6, <2>1, <3>2, UntouchedDayStays
  <2> QED
    BY <2>2, <2>3
<1> QED
  BY <1>5, <1>7, <1>8 DEF Sound, DaysInv

-----------------------------------------------------------------------------
(* The books, the reports and the shortages.                               *)

LEMMA WorkKeeps ==
  ASSUME Kept, NEW r \in Requests, NEW d \in Days, Work(r, d), Remember(r)
  PROVE  Ordered' /\ Sound' /\ DaysInv'
<1>1. CASE \/ Load(r, d) \/ Retire(r, d) \/ CreateRefused(r, d)
           \/ \E how \in {"openNext", "openFirst", "openByHand"} : Decide(r, d, how)
  BY <1>1, ReadsKeep
<1>2. CASE DeleteDay(r, d)
  BY <1>2, DeleteKeeps
<1>3. CASE CreateDay(r, d)
  BY <1>3, CreateKeeps
<1>4. CASE VoidRow(r, d) \/ WriteCount(r, d) \/ \E k \in Kinds : InsertRow(r, d, k)
  BY <1>4, RecordStepKeeps
<1>5. CASE MarkClosing(r, d) \/ CloseDay(r, d)
  BY <1>5, CloseKeeps
<1>6. CASE CreateShortage(r, d)
  BY <1>6, ShortageKeeps
<1>7. CASE EnsureReport(r, d)
  BY <1>7, EnsureKeeps
<1>8. CASE ReportClose(r, d)
  BY <1>8, ReportCloseKeeps
<1>9. CASE ConfirmReport(r, d) \/ ApproveReport(r, d) \/ ReturnReport(r, d)
  BY <1>9, SetReportKeeps
<1>10. CASE Revise(r, d)
  BY <1>10, ReviseKeeps
<1>11. CASE Carry(r, d)
  BY <1>11, CarryKeeps
<1>12. CASE Rebuild(r, d)
  BY <1>12, RebuildKeeps
<1>13. CASE WriteSnapshot(r, d)
  BY <1>13, SnapshotKeeps
<1>14. CASE SyncShortage(r, d)
  BY <1>14, SyncKeeps
<1> QED
  BY <1>1, <1>2, <1>3, <1>4, <1>5, <1>6, <1>7, <1>8, <1>9, <1>10, <1>11, <1>12, <1>13, <1>14
     DEF Work

LEMMA AskKeeps ==
  ASSUME Kept, NEW r \in Requests, NEW d \in Days, Ask(r, d), Remember(r)
  PROVE  Ordered' /\ Sound' /\ DaysInv'
<1>1. CASE BeginSubmit(r, d)
  BY <1>1, SubmitBegins
<1>2. CASE BeginConfirm(r, d)
  BY <1>2, ConfirmBegins
<1>3. CASE Undo(r, d) \/ PaySalary(r, d) \/ ReverseSalary(r, d)
  BY <1>3, DirectKeeps
<1>4. CASE \/ \E cash \in OpeningCash, added \in {0, 1} : BeginOpen(r, d, cash, added)
           \/ \E k \in Kinds : BeginRecord(r, d, k)
           \/ BeginVoid(r, d)
           \/ \E n \in Counts : BeginCount(r, d, n)
           \/ BeginApprove(r, d) \/ BeginReturn(r, d) \/ View(r, d)
  BY <1>4, BeginsKeep
<1>5. {0} \cup {1 : x \in Records \cap {<<d, "topUp">>}} \subseteq {0, 1}
  OBVIOUS
<1> QED
  BY <1>1, <1>2, <1>3, <1>4, <1>5 DEF Ask

LEMMA StepKeeps ==
  ASSUME Kept, [Next]_vars
  PROVE  Kept'
<1>1. Shape /\ MemoryTyped /\ PlansTyped
  BY DEF Kept, Shape
<1>2. Shape' /\ MemoryTyped'
  BY <1>1, StepKeepsShape
<1>3. ASSUME UNCHANGED <<day, count, rows, salary, papers, todo, outdated, overtaken>>
      PROVE  Ordered' /\ Sound' /\ DaysInv'
  <2>1. \A q \in Requests : Left(q)' = Left(q)
    BY <1>3 DEF Left, Entries
  <2>2. Ordered'
    BY <1>3 DEF Kept, Ordered, InOrder
  <2>3. \A e \in Days : e \notin Written /\ e \notin Changed
    BY <1>3 DEF Written, Changed, Judged, day, papers
  <2>4. ASSUME NEW q \in Requests, NEW x \in Left(q)', x.day \notin outdated'[q] \cup overtaken'
        PROVE  SoundStep(q, x)'
    <3>1. x \in Left(q) /\ Left(q)' = Left(q) /\ x.day \notin outdated[q] \cup overtaken
      BY <1>3, <2>1, <2>4
    <3>2. x \in Plan /\ x.day \in Days
      BY <1>1, <3>1, StepsArePlans, ReadOfStep
    <3>3. SoundStep(q, x)
      BY <3>1 DEF Kept, Sound
    <3>4. PapersStay(x.day) /\ x.day \notin Changed
      BY <1>3, <2>3, <3>2 DEF PapersStay, papers
    <3> HIDE DEF Changed, Kept
    <3> QED
      BY <3>1, <3>2, <3>3, <3>4, StepStaysSound
  <2>5. ASSUME NEW e \in Days, e \notin overtaken' PROVE DayInv(e)'
    <3>1. DayInv(e)
      BY <1>3, <2>5 DEF Kept, DaysInv
    <3>2. RefreshesKept(e)
      BY <2>1 DEF RefreshesKept, MendingKept, AligningKept
    <3> QED
      BY <2>3, <3>1, <3>2, UntouchedDayStays
  <2> QED
    BY <2>2, <2>4, <2>5 DEF Sound, DaysInv
<1>4. ASSUME UNCHANGED vars \/ (Midnight /\ UNCHANGED memory)
      PROVE  Ordered' /\ Sound' /\ DaysInv'
  <2>1. UNCHANGED <<day, count, rows, salary, papers, todo, outdated, overtaken>>
    <3>1. CASE UNCHANGED vars
      BY <3>1 DEF vars, memory
    <3>2. CASE Midnight /\ UNCHANGED memory
      BY <3>2 DEF Midnight, memory
    <3> QED
      BY <1>4, <3>1, <3>2
  <2> QED
    BY <1>3, <2>1
<1>5. ASSUME NEW r \in Requests, Cron(r) \/ \E d \in Days : Ask(r, d), Remember(r)
      PROVE  Ordered' /\ Sound' /\ DaysInv'
  <2> HIDE DEF Kept
  <2> QED
    BY <1>5, CronKeeps, AskKeeps
<1>6. ASSUME NEW r \in Requests, Continue(r) PROVE Ordered' /\ Sound' /\ DaysInv'
  <2>1. Head(todo[r]) \in Plan /\ Head(todo[r]).day \in Days
    BY <1>1, <1>6, StepAt, ReadOfStep DEF Continue
  <2> HIDE DEF Kept
  <2> QED
    BY <1>6, <2>1, WorkKeeps DEF Continue
<1>7. ASSUME NEW r \in Requests, Stop(r) PROVE Ordered' /\ Sound' /\ DaysInv'
  <2> HIDE DEF Kept
  <2> QED
    BY <1>7, StopKeeps
<1>8. Ordered' /\ Sound' /\ DaysInv'
  <2> HIDE DEF Kept
  <2> QED
    BY <1>4, <1>5, <1>6, <1>7 DEF Next
<1> QED
  BY <1>2, <1>8 DEF Kept

LEMMA InitKept == Init => Kept
<1> SUFFICES ASSUME Init PROVE Kept
  OBVIOUS
<1>1. Shape /\ MemoryTyped
  BY InitHasShape
<1>2. \A q \in Requests : todo[q] = <<>>
  BY DEF Init
<1>3. Ordered /\ Sound
  BY <1>2 DEF Ordered, InOrder, Sound, Left, Entries
<1>4. ASSUME NEW e \in Days PROVE DayInv(e)
  <2>1. report[e] = NoReport /\ shortage[e] = None /\ status[e] = "NONE"
    BY DEF Init
  <2> QED
    BY <2>1 DEF DayInv, NoReport, Submitted
<1> QED
  BY <1>1, <1>3, <1>4 DEF Kept, DaysInv

LEMMA AlwaysKept == Spec => []Kept
<1> QED
  BY InitKept, StepKeeps, PTL DEF Spec

\* Once nothing is left to do, nothing is left to be put right.
LEMMA QuietDays ==
  ASSUME Kept, Quiet, NEW d \in Days \ overtaken, report[d].status \in Submitted
  PROVE  /\ snapshot[d] = Books(d) /\ closing[d] = count[d]
         /\ shortage[d] \in {None, OwedOf(d)}
<1>1. DayInv(d)
  BY DEF Kept, DaysInv
<1>2. \A q \in Requests : Left(q) = {}
  BY DEF Quiet, Left, Entries
<1>3. report[d] # NoReport /\ ~ IsReturned(d)
  BY DEF NoReport, Submitted, IsReturned
<1>4. status[d] = "CLOSED" /\ closing[d] = count[d] /\ Mended(d) /\ Aligned(d)
  BY <1>1, <1>3 DEF DayInv
<1> QED
  BY <1>2, <1>4 DEF Mended, Aligned

\* ReportMatchesBooks: a report that lies with the owner shows what the cash book and the
\* count of its day say, and the day closed with the cash that was counted, through every
\* interleaving of submissions, returns, recounts, voided expenses and corrections of an
\* earlier day, unless a request acted on what another had changed or a correction stopped
\* (createReportIfAbsent, refreshDayAfterRepaymentCorrection, confirmReport).
THEOREM ReportsMatchTheBooks == Spec => []ReportMatchesBooks
<1>1. Kept => ReportMatchesBooks
  BY QuietDays DEF ReportMatchesBooks, Books
<1> QED
  BY <1>1, AlwaysKept, PTL

\* ShortageMatchesReport: the shortage booked when the day was closed stays the one its
\* report shows, through every correction, as long as nothing is paid on it
\* (closeBranch, syncExistingShortageToVariance).
THEOREM ShortagesMatchTheReports == Spec => []ShortageMatchesReport
<1>1. ASSUME Kept, Quiet, NEW d \in Days \ overtaken, report[d].status \in Submitted,
             shortage[d] # None
      PROVE  shortage[d] = ShortageOf(snapshot[d].counted - snapshot[d].expected)
  <2>1. snapshot[d] = Books(d) /\ shortage[d] = OwedOf(d)
    BY <1>1, QuietDays
  <2> QED
    BY <2>1 DEF Books, OwedOf
<1>2. Kept => ShortageMatchesReport
  BY <1>1 DEF ShortageMatchesReport
<1> QED
  BY <1>2, AlwaysKept, PTL
=============================================================================
