------------------------ MODULE SmsPurchasesProofs -------------------------
(***************************************************************************)
(* What holds of the purchases for any number of them, of requests, of     *)
(* jobs and of attempts to pay.                                            *)
(***************************************************************************)
EXTENDS SmsPurchases, WellFoundedInduction, TLAPS

-----------------------------------------------------------------------------
(* The shape of the state, one variable at a time.                         *)

Results == {"none", "pending", "paid", "short", "failed", "cancelled", "reversed"}
Writable == Statuses \ {"CREDITED"}

RowTyped ==
  /\ provider \in [Purchases -> {"flutterwave", "pesapal", "manual"}]
  /\ status \in [Purchases -> Statuses]
  /\ ext \in [Purchases -> 0..MaxAttempts]
  /\ expired \in [Purchases -> BOOLEAN]
  /\ credits \in [Purchases -> Nat]

\* Who is under way is about to write anything but CREDITED.
ActorTyped ==
  /\ stage \in [Actors -> Stages]
  /\ at \in [Actors -> Purchases]
  /\ attempt \in [Actors -> 0..MaxAttempts]
  /\ next \in [Actors -> Writable]

OutcomeTyped == outcome \in [Purchases -> [Attempts -> Results]]

HistoryTyped == overturned \subseteq Purchases /\ outdated \subseteq Actors

Typed == RowTyped /\ ActorTyped /\ OutcomeTyped /\ HistoryTyped
         /\ deliveries \in 0..MaxDeliveries

LEMMA NoPurchaseType == NoPurchase \in Purchases
  BY BoundAssumption DEF NoPurchase

\* The latest of the attempts is one that was made, if there is any.
LEMMA LatestType ==
  ASSUME NEW p \in Purchases
  PROVE  /\ Latest(p) \in 0..MaxAttempts
         /\ Latest(p) # 0 => Latest(p) \in Tried(p)
         /\ \A b \in Tried(p) : b <= Latest(p)
<1>1. Tried(p) \subseteq 1..MaxAttempts /\ MaxAttempts \in Nat
  BY BoundAssumption DEF Tried, Attempts
<1>2. CASE Tried(p) = {}
  BY <1>1, <1>2 DEF Latest
<1>3. CASE Tried(p) # {}
  <2> DEFINE After == {MaxAttempts - a : a \in Tried(p)}
  <2>1. After \in SUBSET Nat /\ After # {}
    BY <1>1, <1>3
  <2>2. PICK n \in After : \A m \in After : n <= m
    <3>1. PICK n \in After : \A m \in After : ~ (<<m, n>> \in OpToRel(<, Nat))
      BY <2>1, NatLessThanWellFounded, WFMin
    <3> HIDE DEF After
    <3>2. \A m \in After : ~ (m < n)
      BY <3>1, <2>1 DEF OpToRel
    <3> QED
      BY <3>2, <2>1
  <2>3. PICK a \in Tried(p) : n = MaxAttempts - a
    BY <2>2
  <2>4. \A b \in Tried(p) : b <= a
    <3>1. TAKE b \in Tried(p)
    <3>2. MaxAttempts - b \in After
      OBVIOUS
    <3>3. n <= MaxAttempts - b
      BY <2>2, <3>2
    <3> QED
      BY <3>3, <2>3, <1>1
  <2>5. Latest(p) \in Tried(p) /\ \A b \in Tried(p) : b <= Latest(p)
    BY <2>4, <1>3 DEF Latest
  <2> QED
    BY <2>5, <1>1
<1> QED
  BY <1>2, <1>3

LEMMA GoTyped ==
  ASSUME ActorTyped, NEW x \in Actors, NEW step \in Stages, NEW p \in Purchases,
         NEW a \in 0..MaxAttempts, NEW st \in Writable, Go(x, step, p, a, st)
  PROVE  ActorTyped'
<1>1. stage' \in [Actors -> Stages]
  BY DEF ActorTyped, Go
<1>2. at' \in [Actors -> Purchases]
  BY DEF ActorTyped, Go
<1>3. attempt' \in [Actors -> 0..MaxAttempts]
  BY DEF ActorTyped, Go
<1>4. next' \in [Actors -> Writable]
  BY DEF ActorTyped, Go
<1> QED
  BY <1>1, <1>2, <1>3, <1>4 DEF ActorTyped

LEMMA EnterTyped ==
  ASSUME Typed, NEW x \in Actors, NEW step \in Stages, NEW p \in Purchases,
         NEW a \in 0..MaxAttempts, NEW st \in Writable, Enter(x, step, p, a, st)
  PROVE  ActorTyped' /\ outdated' \subseteq Actors
BY GoTyped DEF Enter, Typed, HistoryTyped

LEMMA ProceedTyped ==
  ASSUME Typed, NEW x \in Actors, NEW step \in Stages, Proceed(x, step)
  PROVE  ActorTyped' /\ outdated' \subseteq Actors
<1>1. at[x] \in Purchases /\ attempt[x] \in 0..MaxAttempts /\ next[x] \in Writable
  BY DEF Typed, ActorTyped
<1> QED
  BY <1>1, EnterTyped DEF Proceed

LEMMA EndTyped ==
  ASSUME Typed, NEW x \in Actors, End(x)
  PROVE  ActorTyped'
<1>1. "idle" \in Stages /\ "NONE" \in Writable /\ 0 \in 0..MaxAttempts
  BY BoundAssumption DEF Stages, Writable, Statuses
<1> QED
  BY <1>1, GoTyped, NoPurchaseType DEF End, Typed

LEMMA FinishTyped ==
  ASSUME Typed, NEW x \in Actors, Finish(x)
  PROVE  ActorTyped' /\ outdated' \subseteq Actors
BY EndTyped DEF Finish, Typed, HistoryTyped

LEMMA SetStatusTyped ==
  ASSUME Typed, NEW p \in Purchases, NEW st \in Statuses, SetStatus(p, st)
  PROVE  status' \in [Purchases -> Statuses] /\ overturned' \subseteq Purchases
BY DEF SetStatus, Typed, RowTyped, HistoryTyped

\* Steps that end by acting on an answer.
LEMMA ApplyTyped ==
  ASSUME Typed, NEW x \in Actors, NEW p \in Purchases, NEW a \in 0..MaxAttempts,
         Apply(x, p, a)
  PROVE  ActorTyped' /\ outdated' \subseteq Actors
<1>1. "confirm" \in Stages /\ "NONE" \in Writable
  BY DEF Stages, Writable, Statuses
<1> QED
  BY <1>1, FinishTyped, EnterTyped DEF Apply

LEMMA FailTyped ==
  ASSUME Typed, NEW x \in Actors, NEW p \in Purchases, NEW a \in 0..MaxAttempts,
         Fail(x, p, a)
  PROVE  ActorTyped' /\ outdated' \subseteq Actors
<1>1. "fail" \in Stages /\ "PAYMENT_FAILED" \in Writable
  BY DEF Stages, Writable, Statuses
<1> QED
  BY <1>1, EnterTyped DEF Fail

LEMMA LookUpTyped ==
  ASSUME Typed, NEW x \in Actors, NEW p \in Purchases, LookUp(x, p)
  PROVE  ActorTyped' /\ outdated' \subseteq Actors
<1>1. Latest(p) \in 0..MaxAttempts
  BY LatestType
<1>2. "write" \in Stages
  BY DEF Stages
<1> QED
  BY <1>1, <1>2, FinishTyped, ApplyTyped, FailTyped, ProceedTyped DEF LookUp

\* Steps that leave the rows and the provider alone.
LEMMA OnlyActorsTyped ==
  ASSUME Typed, ActorTyped', outdated' \subseteq Actors,
         deliveries' \in 0..MaxDeliveries, UNCHANGED <<row, outcome, overturned>>
  PROVE  Typed'
<1>1. RowTyped'
  BY DEF Typed, RowTyped, row
<1>2. OutcomeTyped'
  BY DEF Typed, OutcomeTyped
<1> QED
  BY <1>1, <1>2 DEF Typed, HistoryTyped

LEMMA ArriveTyped ==
  ASSUME Typed, NEW h, Arrive(h)
  PROVE  deliveries' \in 0..MaxDeliveries
BY BoundAssumption DEF Typed, Arrive

\* Steps that write a status, and nothing else of a row but the attempt.
LEMMA WrittenTyped ==
  ASSUME Typed, ActorTyped', outdated' \subseteq Actors,
         status' \in [Purchases -> Statuses], ext' \in [Purchases -> 0..MaxAttempts],
         overturned' \subseteq Purchases,
         UNCHANGED <<provider, expired, credits, outcome, deliveries>>
  PROVE  Typed'
<1>1. RowTyped'
  BY DEF Typed, RowTyped
<1>2. OutcomeTyped'
  BY DEF Typed, OutcomeTyped
<1> QED
  BY <1>1, <1>2 DEF Typed, HistoryTyped

-----------------------------------------------------------------------------
(* Every step keeps the shape.                                             *)

LEMMA StartPurchaseTyped ==
  ASSUME Typed, NEW h \in Requests, NEW p \in Purchases, StartPurchase(h, p)
  PROVE  Typed'
<1> DEFINE stale == {q \in Purchases : status[q] \in Open /\ expired[q]}
<1>1. h \in Actors /\ {"create", "replace"} \subseteq Stages /\ "NONE" \in Writable
      /\ 0 \in 0..MaxAttempts /\ "EXPIRED" \in Statuses
  BY BoundAssumption DEF Actors, Stages, Writable, Statuses
<1>2. ActorTyped' /\ outdated' \subseteq Actors
  <2>1. CASE Enter(h, "create", p, 0, "NONE")
    BY <2>1, <1>1, EnterTyped
  <2>2. CASE \E q \in Purchases : Enter(h, "replace", q, 0, "NONE")
    BY <2>2, <1>1, EnterTyped
  <2>3. CASE UNCHANGED actor
    BY <2>3 DEF actor, Typed, ActorTyped, HistoryTyped
  <2> QED
    BY <2>1, <2>2, <2>3 DEF StartPurchase
<1>3. status' \in [Purchases -> Statuses]
  <2>1. status' = [q \in Purchases |-> IF q \in stale THEN "EXPIRED" ELSE status[q]]
    BY DEF StartPurchase
  <2> HIDE DEF stale
  <2> QED
    BY <2>1, <1>1 DEF Typed, RowTyped
<1>4. RowTyped' /\ OutcomeTyped'
  BY <1>3 DEF StartPurchase, Typed, RowTyped, OutcomeTyped
<1>5. deliveries' \in 0..MaxDeliveries
  BY ArriveTyped DEF StartPurchase
<1> QED
  BY <1>2, <1>4, <1>5 DEF StartPurchase, Typed, HistoryTyped

LEMMA CreditTyped ==
  ASSUME Typed, NEW x \in Actors, Credit(x)
  PROVE  Typed'
<1>1. at[x] \in Purchases /\ attempt[x] \in 0..MaxAttempts /\ "CREDITED" \in Statuses
  BY DEF Typed, ActorTyped, Statuses
<1>2. ActorTyped'
  BY EndTyped DEF Credit
<1>3. status' \in [Purchases -> Statuses]
  BY <1>1 DEF Credit, Typed, RowTyped
<1>4. ext' \in [Purchases -> 0..MaxAttempts]
  BY <1>1 DEF Credit, Typed, RowTyped
<1>5. credits' \in [Purchases -> Nat]
  BY <1>1 DEF Credit, Typed, RowTyped
<1>6. outdated' \subseteq Actors
  BY DEF Credit
<1>7. RowTyped' /\ OutcomeTyped'
  BY <1>3, <1>4, <1>5 DEF Credit, Typed, RowTyped, OutcomeTyped
<1> QED
  BY <1>2, <1>6, <1>7 DEF Credit, Typed, HistoryTyped

LEMMA OutcomeStepTyped ==
  ASSUME Typed, NEW p \in Purchases, Attempt(p) \/ Conclude(p)
  PROVE  Typed'
<1>1. Latest(p) \in 0..MaxAttempts
  BY LatestType
<1>2. outcome' \in [Purchases -> [Attempts -> Results]]
  <2>1. ASSUME NEW a, NEW r \in Results, outcome' = [outcome EXCEPT ![p][a] = r]
        PROVE  outcome' \in [Purchases -> [Attempts -> Results]]
    <3>1. outcome \in [Purchases -> [Attempts -> Results]]
      BY DEF Typed, OutcomeTyped
    <3>2. [outcome[p] EXCEPT ![a] = r] \in [Attempts -> Results]
      BY <3>1
    <3> QED
      BY <2>1, <3>1, <3>2
  <2>2. CASE Attempt(p)
    <3>1. "pending" \in Results
      BY DEF Results
    <3> QED
      BY <2>1, <2>2, <3>1 DEF Attempt
  <2>3. CASE Conclude(p)
    <3>1. PICK r \in {"paid", "short", "failed", "cancelled", "reversed"} :
            outcome' = [outcome EXCEPT ![p][Latest(p)] = r]
      BY <2>3 DEF Conclude
    <3>2. r \in Results
      BY <3>1 DEF Results
    <3> QED
      BY <2>1, <3>1, <3>2
  <2> QED
    BY <2>2, <2>3
<1>3. UNCHANGED <<row, actor, deliveries, overturned>>
  BY DEF Attempt, Conclude
<1>4. RowTyped'
  BY <1>3 DEF Typed, RowTyped, row
<1>5. ActorTyped' /\ HistoryTyped'
  BY <1>3 DEF Typed, ActorTyped, HistoryTyped, actor
<1> QED
  BY <1>2, <1>3, <1>4, <1>5 DEF Typed, OutcomeTyped

LEMMA RequestTyped ==
  ASSUME Typed, NEW h \in Requests, NEW p \in Purchases,
         \/ Redirect(h, p) \/ Reconcile(h, p) \/ PesapalNotified(h, p)
         \/ \E a \in Attempts : Webhook(h, p, a)
         \/ \E decision \in {"confirm", "reject", "cancel"} : Manual(h, p, decision)
  PROVE  Typed'
<1>1. h \in Actors /\ 0 \in 0..MaxAttempts /\ 1 \in 0..MaxAttempts
      /\ \A a \in Attempts : a \in 0..MaxAttempts
  BY BoundAssumption DEF Actors, Attempts
<1>2. {"credit", "write", "ask"} \subseteq Stages
      /\ {"NONE", "PAYMENT_FAILED", "CANCELLED_BY_USER"} \subseteq Writable
  BY DEF Stages, Writable, Statuses
<1>3. ActorTyped' /\ outdated' \subseteq Actors
  <2>1. CASE Redirect(h, p)
    <3>1. \A a \in Tried(p) : a \in 0..MaxAttempts
      BY <1>1 DEF Tried
    <3> QED
      BY <2>1, <3>1, <1>1, ApplyTyped, FailTyped DEF Redirect
  <2>2. CASE Reconcile(h, p)
    BY <2>2, <1>1, LookUpTyped DEF Reconcile
  <2>3. CASE PesapalNotified(h, p)
    BY <2>3, <1>1, <1>2, EnterTyped DEF PesapalNotified
  <2>4. CASE \E a \in Attempts : Webhook(h, p, a)
    BY <2>4, <1>1, ApplyTyped, FailTyped DEF Webhook
  <2>5. CASE \E decision \in {"confirm", "reject", "cancel"} : Manual(h, p, decision)
    BY <2>5, <1>1, <1>2, EnterTyped DEF Manual
  <2> QED
    BY <2>1, <2>2, <2>3, <2>4, <2>5
<1>4. Arrive(h) /\ UNCHANGED <<row, outcome, overturned>>
  BY DEF Redirect, Reconcile, PesapalNotified, Webhook, Manual
<1> QED
  BY <1>3, <1>4, ArriveTyped, OnlyActorsTyped

LEMMA JobTyped ==
  ASSUME Typed, NEW j \in Jobs, NEW p \in Purchases,
         PollOpen(j, p) \/ PollTerminal(j, p) \/ Poll(j)
  PROVE  Typed'
<1>1. j \in Actors /\ 0 \in 0..MaxAttempts /\ "poll" \in Stages
      /\ {"NONE", "EXPIRED"} \subseteq Writable
  BY BoundAssumption DEF Actors, Stages, Writable, Statuses
<1>2. ActorTyped' /\ outdated' \subseteq Actors
  <2>1. CASE PollOpen(j, p)
    BY <2>1, <1>1, EnterTyped DEF PollOpen
  <2>2. CASE PollTerminal(j, p)
    BY <2>2, <1>1, EnterTyped DEF PollTerminal
  <2>3. CASE Poll(j)
    <3>1. at[j] \in Purchases
      BY <1>1 DEF Typed, ActorTyped
    <3> QED
      BY <2>3, <3>1, <1>1, LookUpTyped DEF Poll
  <2> QED
    BY <2>1, <2>2, <2>3
<1>3. UNCHANGED <<row, outcome, deliveries, overturned>>
  BY DEF PollOpen, PollTerminal, Poll
<1> QED
  BY <1>2, <1>3, OnlyActorsTyped DEF Typed

LEMMA WritingTyped ==
  ASSUME Typed, NEW h \in Actors, NEW p \in Purchases,
         Replace(h, p) \/ Create(h) \/ Checkout(h) \/ Confirm(h) \/ WriteStatus(h)
  PROVE  Typed'
<1>1. at[h] \in Purchases /\ attempt[h] \in 0..MaxAttempts /\ next[h] \in Statuses
  BY DEF Typed, ActorTyped, Writable
<1>2. {"create", "checkout", "credit"} \subseteq Stages /\ "NONE" \in Writable
      /\ 0 \in 0..MaxAttempts
      /\ {"PAYMENT_PENDING", "PAYMENT_FAILED", "AWAITING_PAYMENT", "PAYMENT_CONFIRMED"}
           \subseteq Statuses
  BY BoundAssumption DEF Stages, Writable, Statuses, Pending, Open
<1>3. ext \in [Purchases -> 0..MaxAttempts] /\ status \in [Purchases -> Statuses]
      /\ overturned \subseteq Purchases
  BY DEF Typed, RowTyped, HistoryTyped
<1>4. CASE Replace(h, p)
  <2>1. ActorTyped' /\ outdated' \subseteq Actors
    BY <1>1, <1>2, <1>4, EnterTyped DEF Replace
  <2>2. status' \in [Purchases -> Statuses] /\ overturned' \subseteq Purchases
    BY <1>1, <1>2, <1>4, SetStatusTyped DEF Replace
  <2> QED
    BY <2>1, <2>2, <1>3, <1>4, WrittenTyped DEF Replace
<1>5. CASE Create(h)
  <2>1. ActorTyped' /\ outdated' \subseteq Actors
    BY <1>2, <1>5, ProceedTyped DEF Create
  <2>2. status' \in [Purchases -> Statuses]
    BY <1>1, <1>2, <1>3, <1>5 DEF Create
  <2> QED
    BY <2>1, <2>2, <1>3, <1>5, WrittenTyped DEF Create
<1>6. CASE Checkout(h)
  <2>1. ActorTyped' /\ outdated' \subseteq Actors
    BY <1>6, FinishTyped DEF Checkout
  <2>2. status' \in [Purchases -> Statuses] /\ overturned' \subseteq Purchases
    BY <1>1, <1>2, <1>6, SetStatusTyped DEF Checkout
  <2> QED
    BY <2>1, <2>2, <1>3, <1>6, WrittenTyped DEF Checkout
<1>7. CASE Confirm(h)
  <2>1. ActorTyped' /\ outdated' \subseteq Actors
    BY <1>2, <1>7, ProceedTyped DEF Confirm
  <2>2. status' \in [Purchases -> Statuses] /\ overturned' \subseteq Purchases
    BY <1>1, <1>2, <1>7, SetStatusTyped DEF Confirm
  <2>3. ext' \in [Purchases -> 0..MaxAttempts]
    BY <1>1, <1>3, <1>7 DEF Confirm
  <2> QED
    BY <2>1, <2>2, <2>3, <1>7, WrittenTyped DEF Confirm
<1>8. CASE WriteStatus(h)
  <2>1. ActorTyped' /\ outdated' \subseteq Actors
    BY <1>8, FinishTyped DEF WriteStatus
  <2>2. status' \in [Purchases -> Statuses] /\ overturned' \subseteq Purchases
    BY <1>1, <1>8, SetStatusTyped DEF WriteStatus
  <2>3. ext' \in [Purchases -> 0..MaxAttempts]
    BY <1>1, <1>3, <1>8 DEF WriteStatus
  <2> QED
    BY <2>1, <2>2, <2>3, <1>8, WrittenTyped DEF WriteStatus
<1> QED
  BY <1>4, <1>5, <1>6, <1>7, <1>8

LEMMA OtherTyped ==
  ASSUME Typed, NEW x \in Actors,
         FailRead(x) \/ PesapalAnswers(x) \/ Stop(x)
  PROVE  Typed'
<1>1. "write" \in Stages /\ "credit" \in Stages /\ at[x] \in Purchases
  BY DEF Typed, ActorTyped, Stages
<1>2. CASE FailRead(x)
  <2>1. ActorTyped' /\ outdated' \subseteq Actors
    BY <1>1, <1>2, FinishTyped, ProceedTyped DEF FailRead
  <2> QED
    BY <2>1, <1>2, OnlyActorsTyped DEF FailRead, Typed
<1>3. CASE PesapalAnswers(x)
  <2>1. Latest(at[x]) \in 0..MaxAttempts /\ 0 \in 0..MaxAttempts
    BY <1>1, LatestType, BoundAssumption
  <2>2. {"NONE", "PAYMENT_MISMATCH", "PAYMENT_FAILED", "REVERSED", "AWAITING_PAYMENT"}
          \subseteq Writable
    BY DEF Writable, Statuses, Pending, Open
  <2>3. ActorTyped' /\ outdated' \subseteq Actors
    BY <2>1, <2>2, <1>1, <1>3, EnterTyped DEF PesapalAnswers
  <2> QED
    BY <2>3, <1>3, OnlyActorsTyped DEF PesapalAnswers, Typed
<1>4. CASE Stop(x)
  <2>1. ActorTyped' /\ outdated' \subseteq Actors
    BY <1>4, FinishTyped DEF Stop
  <2>2. deliveries' \in 0..MaxDeliveries
    BY <1>4, BoundAssumption DEF Stop, Typed
  <2> QED
    BY <2>1, <2>2, <1>4, OnlyActorsTyped DEF Stop
<1> QED
  BY <1>2, <1>3, <1>4

LEMMA TypedInit == Init => Typed
<1> SUFFICES ASSUME Init PROVE Typed
  OBVIOUS
<1>1. 0 \in 0..MaxAttempts /\ 0 \in 0..MaxDeliveries /\ "idle" \in Stages
      /\ {"NONE", "AWAITING_PAYMENT"} \subseteq Writable /\ "none" \in Results
  BY BoundAssumption DEF Stages, Writable, Statuses, Pending, Open, Results
<1>2. RowTyped
  BY <1>1 DEF Init, RowTyped, Writable
<1>3. ActorTyped
  BY <1>1, NoPurchaseType DEF Init, ActorTyped
<1>4. OutcomeTyped
  BY <1>1 DEF Init, OutcomeTyped
<1> QED
  BY <1>1, <1>2, <1>3, <1>4 DEF Init, Typed, HistoryTyped

LEMMA TypedStep == Typed /\ [Next]_vars => Typed'
<1> SUFFICES ASSUME Typed, [Next]_vars PROVE Typed'
  OBVIOUS
<1>1. \A x : x \in Requests \/ x \in Jobs => x \in Actors
  BY DEF Actors
<1>2. CASE UNCHANGED vars
  <2>1. ActorTyped' /\ outdated' \subseteq Actors
    BY <1>2 DEF vars, actor, Typed, ActorTyped, HistoryTyped
  <2> QED
    BY <2>1, <1>2, OnlyActorsTyped DEF vars, Typed
<1>3. CASE \E p \in Purchases : Attempt(p) \/ Conclude(p)
  BY <1>3, OutcomeStepTyped
<1>4. ASSUME NEW p \in Purchases, Expire(p) PROVE Typed'
  <2>1. ActorTyped' /\ HistoryTyped'
    BY <1>4 DEF Expire, actor, Typed, ActorTyped, HistoryTyped
  <2>2. RowTyped' /\ OutcomeTyped'
    BY <1>4 DEF Expire, Typed, RowTyped, OutcomeTyped
  <2> QED
    BY <2>1, <2>2, <1>4 DEF Expire, Typed
<1>5. ASSUME NEW h \in Requests, NEW p \in Purchases,
             StartPurchase(h, p) \/ Replace(h, p) \/ Redirect(h, p)
             \/ Reconcile(h, p) \/ PesapalNotified(h, p)
             \/ (\E a \in Attempts : Webhook(h, p, a))
             \/ \E decision \in {"confirm", "reject", "cancel"} : Manual(h, p, decision)
      PROVE Typed'
  BY <1>1, <1>5, StartPurchaseTyped, WritingTyped, RequestTyped
<1>6. ASSUME NEW h \in Requests, Create(h) \/ Checkout(h) \/ PesapalAnswers(h)
      PROVE Typed'
  BY <1>1, <1>6, WritingTyped, OtherTyped, NoPurchaseType
<1>7. ASSUME NEW j \in Jobs, NEW p \in Purchases,
             PollOpen(j, p) \/ PollTerminal(j, p) \/ Poll(j)
      PROVE Typed'
  BY <1>7, JobTyped
<1>8. ASSUME NEW x \in Actors, Settling(x) \/ Stop(x) PROVE Typed'
  BY <1>8, WritingTyped, OtherTyped, CreditTyped, NoPurchaseType DEF Settling
<1> QED
  BY <1>2, <1>3, <1>4, <1>5, <1>6, <1>7, <1>8, NoPurchaseType DEF Next

-----------------------------------------------------------------------------
(* What a step does to a row.                                              *)

\* The stages in which the next step writes a status without looking at it.
Writing == {"replace", "create", "checkout", "confirm", "ask", "write"}

\* A row is credited by a request or a job that is crediting it, and loses CREDITED
\* only to one that writes; nothing else shows it as credited.
Overwritten(p) ==
  /\ p \in overturned'
  /\ \E x \in Actors : stage[x] \in Writing /\ at[x] = p /\ stage'[x] # stage[x]

RowStep(p) ==
  /\ overturned \subseteq overturned'
  /\ \/ /\ credits'[p] = credits[p]
        /\ status'[p] = "CREDITED" => status[p] = "CREDITED"
        /\ status[p] = "CREDITED" /\ status'[p] # "CREDITED" => Overwritten(p)
     \/ /\ credits'[p] = credits[p] + 1
        /\ status[p] # "CREDITED" /\ status'[p] = "CREDITED"
        /\ \E x \in Actors : stage[x] = "credit" /\ at[x] = p

LEMMA RowKept ==
  ASSUME UNCHANGED <<status, credits>>, overturned \subseteq overturned', NEW p
  PROVE  RowStep(p)
BY DEF RowStep

\* Writing a status that is not CREDITED, by one whose turn it is.
LEMMA SetStatusRow ==
  ASSUME Typed, NEW x \in Actors, NEW st \in Writable, SetStatus(at[x], st),
         stage[x] \in Writing, stage'[x] # stage[x], UNCHANGED credits,
         NEW p \in Purchases
  PROVE  RowStep(p)
<1>1. st # "CREDITED" /\ at[x] \in Purchases
  BY DEF Writable, Typed, ActorTyped
<1>2. status'[p] = IF p = at[x] THEN st ELSE status[p]
  BY <1>1 DEF SetStatus, Typed, RowTyped
<1>3. overturned \subseteq overturned'
  BY DEF SetStatus
<1>4. status[p] = "CREDITED" /\ status'[p] # "CREDITED" => Overwritten(p)
  <2>1. SUFFICES ASSUME status[p] = "CREDITED", status'[p] # "CREDITED"
                 PROVE  Overwritten(p)
    OBVIOUS
  <2>2. p = at[x]
    BY <1>2, <2>1
  <2>3. p \in overturned'
    BY <2>1, <2>2 DEF SetStatus
  <2> QED
    BY <2>2, <2>3 DEF Overwritten
<1> QED
  BY <1>1, <1>2, <1>3, <1>4 DEF RowStep

\* What an actor that moves is at afterwards, and that no other moves.
LEMMA Moved ==
  ASSUME Typed, NEW x \in Actors, NEW step, NEW p, NEW a, NEW st, Go(x, step, p, a, st)
  PROVE  /\ stage'[x] = step /\ at'[x] = p /\ next'[x] = st
         /\ \A y \in Actors \ {x} :
              stage'[y] = stage[y] /\ at'[y] = at[y] /\ next'[y] = next[y]
BY DEF Go, Typed, ActorTyped

LEMMA CreditRow ==
  ASSUME Typed, NEW x \in Actors, Credit(x), NEW p \in Purchases
  PROVE  RowStep(p)
<1>1. at[x] \in Purchases /\ credits[p] \in Nat
  BY DEF Typed, ActorTyped, RowTyped
<1>2. overturned \subseteq overturned' /\ stage[x] = "credit"
  BY DEF Credit
<1>3. CASE status[at[x]] = "CREDITED" \/ ext[at[x]] \notin {0, attempt[x]}
  BY <1>2, <1>3, RowKept DEF Credit
<1>4. CASE ~ (status[at[x]] = "CREDITED" \/ ext[at[x]] \notin {0, attempt[x]})
  <2>1. /\ status'[p] = IF p = at[x] THEN "CREDITED" ELSE status[p]
        /\ credits'[p] = IF p = at[x] THEN credits[p] + 1 ELSE credits[p]
    BY <1>1, <1>4 DEF Credit, Typed, RowTyped
  <2> QED
    BY <2>1, <1>2, <1>4 DEF RowStep
<1> QED
  BY <1>3, <1>4

LEMMA RowSteps ==
  ASSUME Typed, [Next]_vars, NEW p \in Purchases
  PROVE  RowStep(p)
<1>1. \A x : x \in Requests \/ x \in Jobs => x \in Actors
  BY DEF Actors
<1>2. {"PAYMENT_FAILED", "AWAITING_PAYMENT", "PAYMENT_CONFIRMED"} \subseteq Writable
  BY DEF Writable, Statuses, Pending, Open
<1>3. \A x \in Actors : next[x] \in Writable
  BY DEF Typed, ActorTyped
<1>4. CASE UNCHANGED vars
  BY <1>4, RowKept DEF vars, row
<1>5. ASSUME NEW q \in Purchases, Expire(q) \/ Attempt(q) \/ Conclude(q)
      PROVE  RowStep(p)
  BY <1>5, RowKept DEF Expire, Attempt, Conclude, row
<1>6. ASSUME NEW h \in Requests, NEW q \in Purchases, StartPurchase(h, q)
      PROVE  RowStep(p)
  <2>1. status'[p] = status[p] \/ (status'[p] = "EXPIRED" /\ status[p] \in Open)
    BY <1>6 DEF StartPurchase
  <2> QED
    BY <2>1, <1>6 DEF StartPurchase, RowStep, Open
<1>7. ASSUME NEW h \in Requests, NEW q \in Purchases, Replace(h, q)
      PROVE  RowStep(p)
  <2>1. stage[h] = "replace" /\ stage'[h] = "create"
    BY <1>1, <1>7, Moved DEF Replace, Enter
  <2> QED
    BY <2>1, <1>1, <1>2, <1>7, SetStatusRow DEF Replace, Writing
<1>8. ASSUME NEW h \in Requests, NEW q \in Purchases,
             \/ Redirect(h, q) \/ Reconcile(h, q) \/ PesapalNotified(h, q)
             \/ \E a \in Attempts : Webhook(h, q, a)
             \/ \E decision \in {"confirm", "reject", "cancel"} : Manual(h, q, decision)
      PROVE  RowStep(p)
  <2>1. UNCHANGED <<row, overturned>>
    BY <1>8 DEF Redirect, Reconcile, PesapalNotified, Webhook, Manual
  <2> QED
    BY <2>1, RowKept DEF row
<1>9. ASSUME NEW h \in Requests, Create(h) PROVE RowStep(p)
  <2>1. at[h] \in Purchases /\ status[at[h]] = "NONE"
    BY <1>1, <1>9 DEF Create, Typed, ActorTyped
  <2>2. status'[p] = IF p = at[h] THEN "PAYMENT_PENDING" ELSE status[p]
    BY <1>9, <2>1 DEF Create, Typed, RowTyped
  <2> QED
    BY <2>1, <2>2, <1>9 DEF Create, RowStep
<1>10. ASSUME NEW h \in Requests, Checkout(h) PROVE RowStep(p)
  <2>1. stage[h] = "checkout" /\ stage'[h] = "idle"
    BY <1>1, <1>10, Moved DEF Checkout, Finish, End
  <2> QED
    BY <2>1, <1>1, <1>2, <1>10, SetStatusRow DEF Checkout, Writing
<1>11. ASSUME NEW j \in Jobs, NEW q \in Purchases,
              PollOpen(j, q) \/ PollTerminal(j, q) \/ Poll(j)
       PROVE  RowStep(p)
  BY <1>11, RowKept DEF PollOpen, PollTerminal, Poll, row
<1>12. ASSUME NEW x \in Actors, Confirm(x) PROVE RowStep(p)
  <2>1. stage[x] = "confirm" /\ stage'[x] = "credit"
    BY <1>12, Moved DEF Confirm, Proceed, Enter
  <2> QED
    BY <2>1, <1>2, <1>12, SetStatusRow DEF Confirm, Writing
<1>13. ASSUME NEW x \in Actors, WriteStatus(x) PROVE RowStep(p)
  <2>1. stage[x] = "write" /\ stage'[x] = "idle"
    BY <1>13, Moved DEF WriteStatus, Finish, End
  <2> QED
    BY <2>1, <1>3, <1>13, SetStatusRow DEF WriteStatus, Writing
<1>14. ASSUME NEW x \in Actors, FailRead(x) \/ PesapalAnswers(x) \/ Stop(x)
       PROVE  RowStep(p)
  <2>1. UNCHANGED <<row, overturned>>
    BY <1>14 DEF FailRead, PesapalAnswers, Stop
  <2> QED
    BY <2>1, RowKept DEF row
<1> QED
  BY <1>1, <1>4, <1>5, <1>6, <1>7, <1>8, <1>9, <1>10, <1>11, <1>12, <1>13, <1>14,
     CreditRow DEF Next, Settling

-----------------------------------------------------------------------------
(* What an actor that is under way stands for.                             *)

Bought(p) ==
  \/ provider[p] = "manual"
  \/ \E a \in Attempts : outcome[p][a] \in {"paid", "reversed"}

\* Who is about to confirm or to credit has seen the payment, and whoever is about to
\* write to a purchase that is credited had begun before that.
Backed == \A x \in Actors : stage[x] \in {"confirm", "credit"} => Bought(at[x])
Aware ==
  \A x \in Actors : stage[x] \in Writing /\ status[at[x]] = "CREDITED" => x \in outdated
Rested == \A x \in Actors : stage[x] = "idle" => next[x] = "NONE"

ActorInv == Backed /\ Aware /\ Rested

\* A step leaves an actor backed and aware.
Kept(y) ==
  /\ stage'[y] \in {"confirm", "credit"} => Bought(at'[y])
  /\ stage'[y] \in Writing /\ status'[at'[y]] = "CREDITED" => y \in outdated'
  /\ stage'[y] = "idle" => next'[y] = "NONE"

\* What was bought stays so: the answer about a paid attempt changes to reversed only,
\* and there is no further attempt after it.
LEMMA BoughtStays ==
  ASSUME Typed, [Next]_vars, NEW p \in Purchases, Bought(p)
  PROVE  Bought(p)'
<1>1. provider' = provider
  BY DEF Next, Settling, vars, row, Expire, Attempt, Conclude, StartPurchase, Replace,
         Redirect, Reconcile, PesapalNotified, Webhook, Manual, Create, Checkout,
         PesapalAnswers, PollOpen, PollTerminal, Poll, Confirm, Credit, FailRead,
         WriteStatus, Stop
<1>2. \/ outcome' = outcome
      \/ \E q \in Purchases : Attempt(q) \/ Conclude(q)
  BY DEF Next, Settling, vars, row, Expire, StartPurchase, Replace,
         Redirect, Reconcile, PesapalNotified, Webhook, Manual, Create, Checkout,
         PesapalAnswers, PollOpen, PollTerminal, Poll, Confirm, Credit, FailRead,
         WriteStatus, Stop
<1>3. CASE provider[p] = "manual"
  BY <1>1, <1>3 DEF Bought
<1>4. ASSUME NEW a \in Attempts, outcome[p][a] \in {"paid", "reversed"}
      PROVE  outcome'[p][a] \in {"paid", "reversed"}
  <2>1. a \in Tried(p) /\ outcome \in [Purchases -> [Attempts -> Results]]
    BY <1>4 DEF Tried, Typed, OutcomeTyped
  <2>2. CASE outcome' = outcome
    BY <1>4, <2>2
  <2>3. ASSUME NEW q \in Purchases, Attempt(q) PROVE outcome'[p][a] = outcome[p][a]
    <3>1. q # p
      BY <1>4, <2>1, <2>3 DEF Attempt, Payable
    <3> QED
      BY <2>1, <2>3, <3>1 DEF Attempt
  <2>4. ASSUME NEW q \in Purchases, Conclude(q)
        PROVE  outcome'[p][a] \in {"paid", "reversed"}
    <3>1. PICK r \in {"paid", "short", "failed", "cancelled", "reversed"} :
            /\ outcome[q][Latest(q)] = (IF r = "reversed" THEN "paid" ELSE "pending")
            /\ outcome' = [outcome EXCEPT ![q][Latest(q)] = r]
      BY <2>4 DEF Conclude
    <3>2. CASE q = p /\ a = Latest(q)
      BY <3>1, <3>2, <1>4, <2>1
    <3>3. CASE ~ (q = p /\ a = Latest(q))
      BY <3>1, <3>3, <1>4, <2>1
    <3> QED
      BY <3>2, <3>3
  <2> QED
    BY <1>2, <1>4, <2>2, <2>3, <2>4
<1> QED
  BY <1>3, <1>4 DEF Bought

\* One that moves to a stage it may be in, and credits nothing, keeps every actor so.
LEMMA OneMoves ==
  ASSUME Typed, ActorInv, NEW x \in Actors, NEW step, NEW p \in Purchases, NEW a, NEW st,
         Go(x, step, p, a, st), outdated \ {x} \subseteq outdated',
         \A q \in Purchases : status'[q] = "CREDITED" => status[q] = "CREDITED",
         step \in {"confirm", "credit"} => Bought(p),
         step \in Writing /\ status'[p] = "CREDITED" => x \in outdated',
         step = "idle" => st = "NONE", NEW y \in Actors
  PROVE  Kept(y)
<1>1. CASE y = x
  BY <1>1, Moved DEF Kept
<1>2. CASE y # x
  <2>1. stage'[y] = stage[y] /\ at'[y] = at[y] /\ next'[y] = next[y]
        /\ at[y] \in Purchases
    BY <1>2, Moved DEF Typed, ActorTyped
  <2> QED
    BY <1>2, <2>1 DEF Kept, ActorInv, Backed, Aware, Rested
<1> QED
  BY <1>1, <1>2

LEMMA NoneMoves ==
  ASSUME Typed, ActorInv, UNCHANGED actor,
         \A q \in Purchases : status'[q] = "CREDITED" => status[q] = "CREDITED",
         NEW y \in Actors
  PROVE  Kept(y)
<1>1. stage' = stage /\ at' = at /\ next' = next /\ outdated' = outdated
      /\ at[y] \in Purchases
  BY DEF actor, Typed, ActorTyped
<1> QED
  BY <1>1 DEF Kept, ActorInv, Backed, Aware, Rested

LEMMA FinishKept ==
  ASSUME Typed, ActorInv, NEW x \in Actors, Finish(x),
         \A q \in Purchases : status'[q] = "CREDITED" => status[q] = "CREDITED",
         NEW y \in Actors
  PROVE  Kept(y)
<1>1. "idle" \notin Writing
  BY DEF Writing
<1> QED
  BY <1>1, OneMoves, NoPurchaseType DEF Finish, End

\* A verified answer that is applied, and a failure that is to be written.
LEMMA ApplyKept ==
  ASSUME Typed, ActorInv, NEW x \in Actors, NEW p \in Purchases, NEW a \in Attempts,
         Successful(p, a), Apply(x, p, a), UNCHANGED status, NEW y \in Actors
  PROVE  Kept(y)
<1>1. CASE Finish(x)
  BY <1>1, FinishKept
<1>2. CASE /\ outcome[p][a] # "short" /\ status[p] # "CREDITED"
           /\ Enter(x, "confirm", p, a, "NONE")
  <2>1. Bought(p)
    BY <1>2 DEF Bought, Successful
  <2> QED
    BY <1>2, <2>1, OneMoves DEF Enter
<1> QED
  BY <1>1, <1>2 DEF Apply

LEMMA EnterReading ==
  ASSUME Typed, ActorInv, NEW x \in Actors, NEW step, NEW p \in Purchases, NEW a, NEW st,
         Enter(x, step, p, a, st), step \in {"fail", "poll"} \/ (step \in Writing
         /\ step # "confirm" /\ status[p] # "CREDITED"),
         UNCHANGED status, NEW y \in Actors
  PROVE  Kept(y)
<1>1. step \notin {"confirm", "credit"} /\ (step \in Writing => status'[p] # "CREDITED")
      /\ step # "idle"
  BY DEF Writing
<1> QED
  BY <1>1, OneMoves DEF Enter

LEMMA LookUpKept ==
  ASSUME Typed, ActorInv, NEW x \in Actors, NEW p \in Purchases, LookUp(x, p),
         stage[x] = "poll" => at[x] = p, stage[x] = "poll" \/ next[x] # "EXPIRED",
         UNCHANGED status, NEW y \in Actors
  PROVE  Kept(y)
<1> DEFINE a == Latest(p)
<1>1. a # 0 => a \in Attempts
  BY LatestType DEF Tried
<1>2. CASE status[p] \in {"CREDITED", "REVERSED"}
  BY <1>2, FinishKept DEF LookUp
<1>3. CASE status[p] \notin {"CREDITED", "REVERSED"}
  <2>1. CASE a # 0 /\ Successful(p, a)
    <3>1. Apply(x, p, a)
      BY <1>3, <2>1 DEF LookUp
    <3> QED
      BY <1>1, <2>1, <3>1, ApplyKept
  <2>2. CASE ~ (a # 0 /\ Successful(p, a)) /\ (a # 0 /\ outcome[p][a] = "cancelled")
    <3>1. Fail(x, p, a)
      BY <1>3, <2>2 DEF LookUp
    <3> QED
      BY <3>1, EnterReading DEF Fail
  <2>3. CASE /\ ~ (a # 0 /\ Successful(p, a)) /\ ~ (a # 0 /\ outcome[p][a] = "cancelled")
             /\ next[x] = "EXPIRED"
    <3>1. Proceed(x, "write") /\ at[x] = p
      BY <1>3, <2>3 DEF LookUp
    <3> QED
      BY <1>3, <3>1, EnterReading DEF Proceed, Writing
  <2>4. CASE /\ ~ (a # 0 /\ Successful(p, a)) /\ ~ (a # 0 /\ outcome[p][a] = "cancelled")
             /\ next[x] # "EXPIRED"
    <3>1. Finish(x)
      BY <1>3, <2>4 DEF LookUp
    <3> QED
      BY <3>1, FinishKept
  <2> QED
    BY <2>1, <2>2, <2>3, <2>4
<1> QED
  BY <1>2, <1>3

\* Crediting makes everyone outdated who is under way for the purchase.
LEMMA CreditKept ==
  ASSUME Typed, ActorInv, NEW x \in Actors, Credit(x), NEW y \in Actors
  PROVE  Kept(y)
<1>1. at[x] \in Purchases /\ at[y] \in Purchases
  BY DEF Typed, ActorTyped
<1>2. End(x)
  BY DEF Credit
<1>3. CASE y = x
  BY <1>2, <1>3, Moved DEF End, Kept, Writing
<1>4. CASE y # x
  <2>1. stage'[y] = stage[y] /\ at'[y] = at[y] /\ next'[y] = next[y]
    BY <1>2, <1>4, Moved DEF End
  <2>2. y \in outdated => y \in outdated'
    BY <1>4 DEF Credit
  <2>3. SUFFICES ASSUME stage[y] \in Writing, status'[at[y]] = "CREDITED"
                 PROVE  y \in outdated'
    BY <2>1 DEF Kept, ActorInv, Backed, Rested
  <2>4. CASE status[at[y]] = "CREDITED"
    BY <2>2, <2>3, <2>4 DEF ActorInv, Aware
  <2>5. CASE status[at[y]] # "CREDITED"
    <3>1. at[y] = at[x] /\ credits' = [credits EXCEPT ![at[x]] = @ + 1]
      BY <1>1, <2>3, <2>5 DEF Credit, Typed, RowTyped
    <3>2. credits'[at[x]] > credits[at[x]]
      BY <1>1, <3>1 DEF Typed, RowTyped
    <3>3. stage[y] # "idle"
      BY <2>3 DEF Writing
    <3> QED
      BY <1>4, <3>1, <3>2, <3>3 DEF Credit
  <2> QED
    BY <2>4, <2>5
<1> QED
  BY <1>3, <1>4

LEMMA RequestKept ==
  ASSUME Typed, ActorInv, NEW h \in Requests, NEW p \in Purchases, NEW y \in Actors,
         \/ Redirect(h, p) \/ Reconcile(h, p) \/ PesapalNotified(h, p)
         \/ \E a \in Attempts : Webhook(h, p, a)
         \/ \E decision \in {"confirm", "reject", "cancel"} : Manual(h, p, decision)
  PROVE  Kept(y)
<1>1. h \in Actors /\ stage[h] = "idle" /\ next[h] = "NONE"
  BY DEF Actors, Redirect, Reconcile, PesapalNotified, Webhook, Manual, Arrive, ActorInv,
         Rested
<1>2. UNCHANGED status
  BY DEF Redirect, Reconcile, PesapalNotified, Webhook, Manual, row
<1>3. CASE Redirect(h, p)
  <2>1. \A a \in Tried(p) : a \in Attempts
    BY DEF Tried
  <2> QED
    BY <1>1, <1>2, <1>3, <2>1, ApplyKept, EnterReading DEF Redirect, Fail
<1>4. CASE Reconcile(h, p)
  BY <1>1, <1>2, <1>4, LookUpKept DEF Reconcile
<1>5. CASE PesapalNotified(h, p)
  BY <1>1, <1>2, <1>5, EnterReading DEF PesapalNotified, Writing
<1>6. CASE \E a \in Attempts : Webhook(h, p, a)
  BY <1>1, <1>2, <1>6, ApplyKept, EnterReading DEF Webhook, Fail
<1>7. ASSUME NEW decision \in {"confirm", "reject", "cancel"}, Manual(h, p, decision)
      PROVE  Kept(y)
  <2>1. status[p] # "CREDITED" /\ Bought(p)
    BY <1>7 DEF Manual, Pending, Open, Bought
  <2>2. CASE Enter(h, "credit", p, 1, "NONE")
    BY <1>1, <1>2, <2>1, <2>2, OneMoves DEF Enter, Writing
  <2>3. CASE \E st : Enter(h, "write", p, 0, st)
    BY <1>1, <1>2, <2>1, <2>3, EnterReading DEF Writing
  <2> QED
    BY <1>7, <2>2, <2>3 DEF Manual
<1> QED
  BY <1>3, <1>4, <1>5, <1>6, <1>7

LEMMA SettlingKept ==
  ASSUME Typed, ActorInv, NEW x \in Actors, Settling(x) \/ Stop(x), NEW y \in Actors
  PROVE  Kept(y)
<1>1. at[x] \in Purchases /\ next[x] # "CREDITED"
  BY DEF Typed, ActorTyped, Writable
<1>2. CASE Confirm(x)
  <2>1. \A q \in Purchases : status'[q] = "CREDITED" => status[q] = "CREDITED"
    BY <1>1, <1>2 DEF Confirm, SetStatus, Typed, RowTyped
  <2>2. Bought(at[x])
    BY <1>2 DEF Confirm, ActorInv, Backed
  <2> QED
    BY <1>1, <1>2, <2>1, <2>2, OneMoves DEF Confirm, Proceed, Enter, Writing
<1>3. CASE FailRead(x)
  BY <1>1, <1>3, FinishKept, EnterReading DEF FailRead, Proceed, Writing, row
<1>4. CASE WriteStatus(x)
  <2>1. \A q \in Purchases : status'[q] = "CREDITED" => status[q] = "CREDITED"
    BY <1>1, <1>4 DEF WriteStatus, SetStatus, Typed, RowTyped
  <2> QED
    BY <1>4, <2>1, FinishKept DEF WriteStatus
<1>5. CASE Stop(x)
  BY <1>5, FinishKept DEF Stop, row
<1> QED
  BY <1>2, <1>3, <1>4, <1>5, CreditKept DEF Settling

LEMMA CheckoutKept ==
  ASSUME Typed, ActorInv, NEW h \in Requests, NEW p \in Purchases, NEW y \in Actors,
         StartPurchase(h, p) \/ Replace(h, p) \/ Create(h) \/ Checkout(h)
  PROVE  Kept(y)
<1>1. h \in Actors /\ at[h] \in Purchases
  BY DEF Actors, Typed, ActorTyped
<1>2. \A q \in Purchases : status'[q] = "CREDITED" => status[q] = "CREDITED"
  BY <1>1 DEF StartPurchase, Replace, Create, Checkout, SetStatus, Typed, RowTyped
<1>3. CASE StartPurchase(h, p)
  <2>1. CASE Enter(h, "create", p, 0, "NONE")
    BY <1>1, <1>2, <1>3, <2>1, OneMoves DEF StartPurchase, Enter
  <2>2. ASSUME NEW q \in Purchases, status[q] \in Open, Enter(h, "replace", q, 0, "NONE")
        PROVE  Kept(y)
    <3>1. status'[q] # "CREDITED"
      BY <1>2, <2>2 DEF Open
    <3> QED
      BY <1>1, <1>2, <2>2, <3>1, OneMoves DEF Enter
  <2>3. CASE UNCHANGED actor
    BY <1>2, <2>3, NoneMoves
  <2> QED
    BY <1>3, <2>1, <2>2, <2>3 DEF StartPurchase
<1>4. CASE Replace(h, p)
  <2>1. status'[p] # "CREDITED"
    BY <1>2, <1>4 DEF Replace
  <2> QED
    BY <1>1, <1>2, <1>4, <2>1, OneMoves DEF Replace, Enter
<1>5. CASE Create(h)
  <2>1. status'[at[h]] # "CREDITED"
    BY <1>1, <1>2, <1>5 DEF Create
  <2> QED
    BY <1>1, <1>2, <1>5, <2>1, OneMoves DEF Create, Proceed, Enter
<1>6. CASE Checkout(h)
  BY <1>1, <1>2, <1>6, FinishKept DEF Checkout
<1> QED
  BY <1>3, <1>4, <1>5, <1>6

LEMMA PesapalKept ==
  ASSUME Typed, ActorInv, NEW h \in Requests, PesapalAnswers(h), NEW y \in Actors
  PROVE  Kept(y)
<1> DEFINE p == at[h]
           a == Latest(p)
<1>1. h \in Actors /\ p \in Purchases /\ UNCHANGED status /\ stage[h] = "ask"
  BY DEF Actors, Typed, ActorTyped, PesapalAnswers, row
<1>2. CASE (IF a = 0 THEN "pending" ELSE outcome[p][a]) = "paid"
           /\ Enter(h, "credit", p, a, "NONE")
  <2>1. a \in Attempts /\ outcome[p][a] = "paid"
    BY <1>1, <1>2, LatestType DEF Tried
  <2>2. Bought(p)
    BY <2>1 DEF Bought
  <2> QED
    BY <1>1, <1>2, <2>2, OneMoves DEF Enter, Writing
<1>3. ASSUME NEW st, Enter(h, "write", p, 0, st) PROVE Kept(y)
  <2>1. status'[p] = "CREDITED" => h \in outdated'
    BY <1>1, <1>3 DEF Enter, ActorInv, Aware, Writing
  <2> QED
    BY <1>1, <1>3, <2>1, OneMoves DEF Enter
<1> QED
  BY <1>2, <1>3 DEF PesapalAnswers

LEMMA ActorStep ==
  ASSUME Typed, ActorInv, [Next]_vars, NEW y \in Actors
  PROVE  Kept(y)
<1>1. CASE UNCHANGED vars
  BY <1>1, NoneMoves DEF vars, row
<1>2. CASE \E p \in Purchases : Expire(p) \/ Attempt(p) \/ Conclude(p)
  BY <1>2, NoneMoves DEF Expire, Attempt, Conclude, row
<1>3. ASSUME NEW j \in Jobs, NEW p \in Purchases,
             PollOpen(j, p) \/ PollTerminal(j, p) \/ Poll(j)
      PROVE  Kept(y)
  <2>1. j \in Actors /\ at[j] \in Purchases /\ UNCHANGED status
    BY <1>3 DEF Actors, Typed, ActorTyped, PollOpen, PollTerminal, Poll, row
  <2> QED
    BY <1>3, <2>1, EnterReading, LookUpKept DEF PollOpen, PollTerminal, Poll
<1>4. \A x : x \in Requests \/ x \in Jobs => x \in Actors
  BY DEF Actors
<1> QED
  BY <1>1, <1>2, <1>3, <1>4, NoPurchaseType, CheckoutKept, RequestKept, PesapalKept,
     SettlingKept DEF Next

-----------------------------------------------------------------------------
(* The invariant, and what follows.                                        *)

\* A purchase that was never overwritten is credited exactly when it says so.
CreditInv ==
  \A p \in Purchases :
    /\ credits[p] > 0 => Bought(p)
    /\ status[p] = "CREDITED" => credits[p] > 0
    /\ p \in overturned \/ (credits[p] <= 1 /\ (credits[p] = 1 => status[p] = "CREDITED"))

IInv == Typed /\ ActorInv /\ CreditInv

LEMMA InvInit == Init => IInv
<1> SUFFICES ASSUME Init PROVE IInv
  OBVIOUS
<1>1. Typed
  BY TypedInit
<1>2. ActorInv
  BY DEF Init, ActorInv, Backed, Aware, Rested, Writing
<1>3. CreditInv
  <2>1. \A p \in Purchases : credits[p] = 0 /\ status[p] # "CREDITED"
    BY DEF Init
  <2>2. ASSUME NEW p \in Purchases
        PROVE  ~ (credits[p] > 0) /\ credits[p] <= 1 /\ credits[p] # 1
    <3>1. credits[p] = 0
      BY <2>1
    <3> QED
      BY <3>1
  <2> QED
    BY <2>1, <2>2 DEF CreditInv
<1> QED
  BY <1>1, <1>2, <1>3 DEF IInv

LEMMA InvStep == IInv /\ [Next]_vars => IInv'
<1> SUFFICES ASSUME IInv, [Next]_vars PROVE IInv'
  OBVIOUS
<1>1. Typed /\ ActorInv /\ CreditInv /\ Typed'
  BY TypedStep DEF IInv
<1>2. \A y \in Actors : Kept(y) /\ at'[y] \in Purchases
  BY <1>1, ActorStep DEF Typed, ActorTyped
<1>3. \A p \in Purchases : Bought(p) => Bought(p)'
  BY <1>1, BoughtStays
<1>4. Backed'
  <2> SUFFICES ASSUME NEW y \in Actors, stage'[y] \in {"confirm", "credit"}
               PROVE  Bought(at[y])'
    BY DEF Backed
  <2>1. Bought(at'[y]) /\ at'[y] \in Purchases
    BY <1>2 DEF Kept
  <2>2. \A p \in Purchases : Bought(p) =>
          provider'[p] = "manual" \/ \E a \in Attempts : outcome'[p][a] \in {"paid", "reversed"}
    BY <1>3 DEF Bought
  <2>3. provider'[at'[y]] = "manual"
        \/ \E a \in Attempts : outcome'[at'[y]][a] \in {"paid", "reversed"}
    BY <2>1, <2>2
  <2> QED
    BY <2>3 DEF Bought
<1>5. Aware' /\ Rested'
  BY <1>2 DEF Kept, Aware, Rested
<1>6. CreditInv'
  <2> SUFFICES ASSUME NEW p \in Purchases
               PROVE  /\ credits'[p] > 0 => Bought(p)'
                      /\ status'[p] = "CREDITED" => credits'[p] > 0
                      /\ \/ p \in overturned'
                         \/ (credits'[p] <= 1 /\ (credits'[p] = 1 => status'[p] = "CREDITED"))
    BY DEF CreditInv
  <2>1. RowStep(p) /\ credits[p] \in Nat
    BY <1>1, RowSteps DEF Typed, RowTyped
  <2>2. credits'[p] > 0 => Bought(p)
    BY <1>1, <2>1 DEF RowStep, CreditInv, ActorInv, Backed
  <2>3. status'[p] = "CREDITED" => credits'[p] > 0
    BY <1>1, <2>1 DEF RowStep, CreditInv
  <2>4. \/ p \in overturned'
        \/ (credits'[p] <= 1 /\ (credits'[p] = 1 => status'[p] = "CREDITED"))
    BY <1>1, <2>1 DEF RowStep, CreditInv, Overwritten
  <2> QED
    BY <1>3, <2>2, <2>3, <2>4
<1> QED
  BY <1>1, <1>4, <1>5, <1>6 DEF IInv, ActorInv

THEOREM Invariance == Spec => []IInv
BY InvInit, InvStep, PTL DEF Spec

\* Whatever answers, jobs, confirmations and crashes do to a purchase, its row keeps
\* its shape, and it shows CREDITED only once its units are in the wallet
\* (sms-credits.repository.ts, billing.service.ts).
THEOREM TypeCorrect == Spec => []TypeOK
<1>1. IInv => TypeOK
  BY DEF IInv, Typed, RowTyped, ActorTyped, OutcomeTyped, HistoryTyped, CreditInv, TypeOK,
         Results, Writable
<1> QED
  BY <1>1, Invariance, PTL

\* For any number of requests, jobs and attempts: no units without a payment
\* (verifyAndApply..., syncPurchaseStatus, confirmManual... in billing.service.ts).
THEOREM CreditsArePaidFor == Spec => []CreditedOnlyIfPaid
<1>1. IInv => CreditedOnlyIfPaid
  BY DEF IInv, CreditInv, CreditedOnlyIfPaid, Bought
<1> QED
  BY <1>1, Invariance, PTL

\* The lock of creditPurchaseOnce is enough as long as nobody overwrites the status: a
\* second crediting takes a status that was overwritten after the first.
THEOREM SecondCreditNeedsOverwriting == Spec => []CreditedOnceUnlessOverturned
<1>1. IInv => CreditedOnceUnlessOverturned
  BY DEF IInv, CreditInv, CreditedOnceUnlessOverturned
<1> QED
  BY <1>1, Invariance, PTL

\* The reads before each write (markSmsPurchaseFailed, the jobs' filters) keep whoever
\* begins after a purchase was credited from overwriting it, for any number of actors.
THEOREM NewcomersLeaveCreditedAlone == Spec => OnlyTheOutdatedOverturn
<1>1. IInv /\ [Next]_vars =>
        [\A p \in Purchases : status[p] = "CREDITED" /\ status'[p] # "CREDITED" =>
           \E x \in outdated : at[x] = p /\ stage'[x] # stage[x]]_vars
  <2> SUFFICES ASSUME IInv, [Next]_vars, NEW p \in Purchases, status[p] = "CREDITED",
                      status'[p] # "CREDITED"
               PROVE  \E x \in outdated : at[x] = p /\ stage'[x] # stage[x]
    OBVIOUS
  <2>1. Overwritten(p)
    BY RowSteps DEF IInv, RowStep
  <2>2. PICK x \in Actors : stage[x] \in Writing /\ at[x] = p /\ stage'[x] # stage[x]
    BY <2>1 DEF Overwritten
  <2>3. x \in outdated
    BY <2>2 DEF IInv, ActorInv, Aware
  <2> QED
    BY <2>2, <2>3
<1> QED
  BY <1>1, Invariance, PTL DEF Spec, OnlyTheOutdatedOverturn
=============================================================================
