------------------------- MODULE CashShortagesProofs -------------------------
(***************************************************************************)
(* Proofs about CashShortages, for any number of requests, days and rows.  *)
(***************************************************************************)
EXTENDS CashShortages, SumTheorems

-----------------------------------------------------------------------------
(* Numbers.                                                                *)

LEMMA MaxOfTwo ==
  ASSUME NEW x \in Int, NEW y \in Int
  PROVE  /\ Max({x, y}) \in {x, y} /\ Max({x, y}) >= x /\ Max({x, y}) >= y
<1>1. \E m \in {x, y} : \A n \in {x, y} : m >= n
  BY DEF Max
<1> QED
  BY <1>1 DEF Max

LEMMA MinOfTwo ==
  ASSUME NEW x \in Int, NEW y \in Int
  PROVE  /\ Min({x, y}) \in {x, y} /\ Min({x, y}) <= x /\ Min({x, y}) <= y
<1>1. \E m \in {x, y} : \A n \in {x, y} : m <= n
  BY DEF Min
<1> QED
  BY <1>1 DEF Min

\* What is not kept from falling below zero stays as it is.
LEMMA NotBelowZero ==
  ASSUME NEW x \in Int
  PROVE  Max({0, x}) \in Nat /\ Max({0, x}) = (IF x > 0 THEN x ELSE 0)
<1>1. Max({0, x}) \in {0, x} /\ Max({0, x}) >= 0 /\ Max({0, x}) >= x
  BY MaxOfTwo
<1> QED
  BY <1>1

LEMMA DaysOfHandovers ==
  0 \in Days /\ 1 \in Days /\ Handovers \subseteq Days
<1>1. Max({1, MaxHandovers}) \in Int /\ Max({1, MaxHandovers}) >= 1
      /\ Max({1, MaxHandovers}) >= MaxHandovers
  BY MaxOfTwo, BoundAssumption
<1> QED
  BY <1>1, BoundAssumption DEF Days, Handovers

\* There are finitely many rows, and what they are short adds up to a number.
LEMMA RowSets ==
  ASSUME NEW S \in SUBSET Rows
  PROVE  IsFiniteSet(S)
<1>1. IsFiniteSet(Rows)
  BY BoundAssumption, FS_Interval DEF Rows
<1> QED
  BY <1>1, FS_Subset

LEMMA TableSums ==
  ASSUME NEW table \in [Rows -> Row], NEW S \in SUBSET Rows
  PROVE  OriginalOf(table, S) \in Nat /\ OutstandingOf(table, S) \in Nat
<1>1. IsFiniteSet(S)
  BY RowSets
<1>2. \A r \in S : table[r].original \in Nat /\ table[r].outstanding \in Nat
  BY DEF Row
<1>3. SumFunctionOnSet([r \in S |-> table[r].original], S) \in Nat
  BY <1>1, <1>2, SumNat
<1>4. SumFunctionOnSet([r \in S |-> table[r].outstanding], S) \in Nat
  BY <1>1, <1>2, SumNat
<1> QED
  BY <1>3, <1>4 DEF OriginalOf, OutstandingOf

-----------------------------------------------------------------------------
(* Type correctness, in four parts.                                        *)

Steps == {"idle", "float", "sync", "align", "find", "open", "charge", "merge",
          "join", "pay"}
Input == [source : {Manual} \cup Handovers, amount : Nat, day : Days,
          revises : BOOLEAN, creates : BOOLEAN]

DayTyped == returned \subseteq Handovers /\ short \in [Handovers -> Int]
RowsTyped == row \in [Rows -> Row] /\ paid \in [Rows -> Nat]
WorkTyped ==
  /\ stage \in [Requests -> Steps] /\ held \in [Requests -> Input]
  /\ read \in [Requests -> SUBSET Rows] /\ seen \in [Requests -> [Rows -> Row]]
  /\ moved \in [Requests -> [Rows -> Nat]] /\ begun \in 0..MaxOperations
HistoryTyped ==
  /\ outdated \subseteq Requests
  /\ overwritten \in BOOLEAN /\ forgotten \in BOOLEAN
  /\ charges \in [Handovers -> Nat]
  /\ merged \subseteq {Manual} \cup Handovers /\ crossed \subseteq Handovers

LEMMA TypedParts == TypeOK <=> DayTyped /\ RowsTyped /\ WorkTyped /\ HistoryTyped
BY DEF TypeOK, DayTyped, RowsTyped, WorkTyped, HistoryTyped, Steps, Input

LEMMA TypedNext ==
  DayTyped' /\ RowsTyped' /\ WorkTyped' /\ HistoryTyped' => TypeOK'
BY DEF TypeOK, DayTyped, RowsTyped, WorkTyped, HistoryTyped, Steps, Input

LEMMA NoRowTyped == NoRow \in Row /\ Deleted \in Row
BY DaysOfHandovers DEF NoRow, Deleted, Row, Manual

LEMMA IdleTyped == Idle \in Input
BY DaysOfHandovers DEF Idle, Input, Manual

LEMMA WithTyped ==
  ASSUME NEW r \in Row, NEW original \in Nat, NEW outstanding \in Int, NEW date \in Days
  PROVE  With(r, original, outstanding, date) \in Row
<1>1. Max({0, outstanding}) \in Nat
  BY NotBelowZero
<1>2. StatusFor(original, outstanding) \in {"OPEN", "PARTIALLY_PAID", "CLEARED"}
  BY DEF StatusFor
<1>3. r.source \in {Manual} \cup Handovers
  BY DEF Row
<1> QED
  BY <1>1, <1>2, <1>3 DEF With, Row

\* A request takes its next step with rows it has read.
LEMMA EnterTyped ==
  ASSUME RowsTyped, WorkTyped, NEW h \in Requests, NEW step \in Steps,
         NEW input \in Input, NEW S \in SUBSET Rows, Enter(h, step, input, S)
  PROVE  WorkTyped'
<1>1. [r \in Rows |-> IF r \in S THEN row[r] ELSE NoRow] \in [Rows -> Row]
  BY NoRowTyped DEF RowsTyped
<1>2. [r \in Rows |-> 0] \in [Rows -> Nat]
  OBVIOUS
<1> QED
  BY <1>1, <1>2 DEF Enter, WorkTyped

LEMMA BeginTyped ==
  ASSUME RowsTyped, WorkTyped, NEW h \in Requests, NEW step \in Steps,
         NEW input \in Input, NEW S \in SUBSET Rows, Begin(h, step, input, S)
  PROVE  WorkTyped'
<1>1. [r \in Rows |-> IF r \in S THEN row[r] ELSE NoRow] \in [Rows -> Row]
  BY NoRowTyped DEF RowsTyped
<1>2. [r \in Rows |-> 0] \in [Rows -> Nat]
  OBVIOUS
<1>3. begun' \in 0..MaxOperations
  BY BoundAssumption DEF Begin, WorkTyped
<1> QED
  BY <1>1, <1>2, <1>3 DEF Begin, WorkTyped

LEMMA FinishTyped ==
  ASSUME RowsTyped, WorkTyped, NEW h \in Requests, Finish(h)
  PROVE  WorkTyped'
<1>1. "idle" \in Steps /\ {} \in SUBSET Rows
  BY DEF Steps
<1> QED
  BY <1>1, IdleTyped, EnterTyped DEF Finish

\* What a revised handover refreshes its day with.
Revised(h) == [held[h] EXCEPT !.revises = FALSE, !.creates = FALSE,
                              !.amount = Max({0, short[held[h].source]})]

LEMMA DoneTyped ==
  ASSUME DayTyped, RowsTyped, WorkTyped, NEW h \in Requests, Done(h),
         held[h].revises => held[h].source \in Handovers
  PROVE  WorkTyped'
<1>1. CASE held[h].revises
  <2>1. short[held[h].source] \in Int
    BY <1>1 DEF DayTyped
  <2>2. Max({0, short[held[h].source]}) \in Nat
    BY <2>1, NotBelowZero
  <2>3. Revised(h) \in Input
    BY <2>2 DEF WorkTyped, Revised, Input
  <2>4. "sync" \in Steps /\ {} \in SUBSET Rows
    BY DEF Steps
  <2>5. Enter(h, "sync", Revised(h), {})
    BY <1>1 DEF Done, Revised
  <2> QED
    BY <2>3, <2>4, <2>5, EnterTyped
<1>2. CASE ~ held[h].revises
  BY <1>2, FinishTyped DEF Done
<1> QED
  BY <1>1, <1>2

LEMMA WriteTyped ==
  ASSUME HistoryTyped, NEW h \in Requests, NEW S, Write(h, S)
  PROVE  outdated' \subseteq Requests /\ overwritten' \in BOOLEAN
<1>1. outdated' \subseteq Requests
  BY DEF HistoryTyped, Write
<1>2. overwritten' \in BOOLEAN
  BY DEF Write
<1> QED
  BY <1>1, <1>2

\* Only the handover of a day is ever revised.
RevisedInv == \A h \in Requests : held[h].revises => held[h].source \in Handovers

\* What the type of the requests rests on.
Typed == TypeOK /\ RevisedInv

LEMMA EnterRevised ==
  ASSUME WorkTyped, RevisedInv, NEW h \in Requests, NEW step, NEW input, NEW S,
         Enter(h, step, input, S) \/ Begin(h, step, input, S),
         input.revises => input.source \in Handovers
  PROVE  RevisedInv'
BY DEF WorkTyped, RevisedInv, Enter, Begin

LEMMA DoneRevised ==
  ASSUME WorkTyped, RevisedInv, NEW h \in Requests, Done(h) \/ Finish(h)
  PROVE  RevisedInv'
<1>1. Idle.revises = FALSE
  BY DEF Idle
<1>2. CASE Finish(h)
  BY <1>1, <1>2, EnterRevised DEF Finish
<1>3. CASE Done(h)
  <2>1. CASE held[h].revises
    <3>1. Revised(h).revises = FALSE
      BY DEF Revised, WorkTyped, Input
    <3>2. Enter(h, "sync", Revised(h), {})
      BY <2>1, <1>3 DEF Done, Revised
    <3> QED
      BY <3>1, <3>2, EnterRevised
  <2>2. CASE ~ held[h].revises
    BY <1>2, <1>3, <2>2 DEF Done
  <2> QED
    BY <2>1, <2>2
<1> QED
  BY <1>2, <1>3

LEMMA TypedSplit ==
  /\ Typed => DayTyped /\ RowsTyped /\ WorkTyped /\ HistoryTyped /\ RevisedInv
  /\ DayTyped' /\ RowsTyped' /\ WorkTyped' /\ HistoryTyped' /\ RevisedInv' => Typed'
BY TypedParts, TypedNext DEF Typed

LEMMA AmountsAreNumbers ==
  /\ \A a \in Amounts : a \in Nat /\ a > 0
  /\ \A a \in Earlier : a \in Nat /\ a > 0
BY AmountAssumption

\* A new request: what it is given, and the rows it reads first.
LEMMA BeginsTyped ==
  ASSUME Typed, NEW h \in Requests, NEW step \in Steps, NEW input \in Input,
         NEW S \in SUBSET Rows, Begin(h, step, input, S), ~ input.revises
  PROVE  WorkTyped' /\ RevisedInv' /\ outdated' \subseteq Requests
<1>1. RowsTyped /\ WorkTyped /\ RevisedInv /\ HistoryTyped
  BY TypedSplit
<1>2. WorkTyped'
  BY <1>1, BeginTyped
<1>3. RevisedInv'
  BY <1>1, EnterRevised
<1>4. outdated' \subseteq Requests
  BY <1>1 DEF Begin, HistoryTyped
<1> QED
  BY <1>2, <1>3, <1>4

LEMMA EntersTyped ==
  ASSUME Typed, NEW h \in Requests, NEW step \in Steps, NEW S \in SUBSET Rows,
         Enter(h, step, held[h], S)
  PROVE  WorkTyped' /\ RevisedInv'
<1>1. RowsTyped /\ WorkTyped /\ RevisedInv /\ held[h] \in Input
  BY TypedSplit DEF WorkTyped
<1>2. WorkTyped'
  BY <1>1, EnterTyped
<1>3. RevisedInv'
  BY <1>1, EnterRevised DEF RevisedInv
<1> QED
  BY <1>2, <1>3

LEMMA FinishesTyped ==
  ASSUME Typed, NEW h \in Requests, Finish(h)
  PROVE  WorkTyped' /\ RevisedInv'
BY TypedSplit, FinishTyped, DoneRevised

LEMMA DonesTyped ==
  ASSUME Typed, NEW h \in Requests, Done(h)
  PROVE  WorkTyped' /\ RevisedInv'
<1>1. DayTyped /\ RowsTyped /\ WorkTyped /\ RevisedInv
  BY TypedSplit
<1>2. WorkTyped'
  BY <1>1, DoneTyped DEF RevisedInv
<1>3. RevisedInv'
  BY <1>1, DoneRevised
<1> QED
  BY <1>2, <1>3

LEMMA CrossTyped ==
  ASSUME HistoryTyped, NEW f \in Handovers, Cross(f)
  PROVE  crossed' \subseteq Handovers
BY DEF Cross, HistoryTyped

\* The requests that only begin.
LEMMA StartsTyped ==
  ASSUME Typed, NEW h \in Requests
  PROVE  /\ \A f \in Handovers, a \in {0} \cup Amounts :
              StartHandover(h, f, a) \/ StartRefresh(h, f, a) => Typed'
         /\ \A a \in Amounts : StartManual(h, a) \/ StartSettle(h, a) => Typed'
         /\ \A r \in Rows, a \in Amounts : StartPayment(h, r, a) => Typed'
         /\ StartList(h) => Typed'
<1>0. DayTyped /\ RowsTyped /\ WorkTyped /\ HistoryTyped /\ RevisedInv
  BY TypedSplit
<1>1. ASSUME NEW f \in Handovers, NEW a \in {0} \cup Amounts, StartHandover(h, f, a)
      PROVE  Typed'
  <2> DEFINE input == [source |-> f, amount |-> a, day |-> f,
                       revises |-> f \in returned, creates |-> TRUE]
  <2>1. a \in Nat /\ f \in Days /\ (f \in returned) \in BOOLEAN
    BY AmountsAreNumbers, DaysOfHandovers
  <2>2. input \in Input
    BY <2>1 DEF Input
  <2>3. Begin(h, "float", input, {})
    BY <1>1 DEF StartHandover
  <2>4. "float" \in Steps /\ {} \in SUBSET Rows /\ input.source \in Handovers
    BY DEF Steps
  <2> HIDE DEF input
  <2>5. WorkTyped' /\ RevisedInv'
    BY <1>0, <2>2, <2>3, <2>4, BeginTyped, EnterRevised
  <2>6. HistoryTyped'
    <3>1. outdated' \subseteq Requests
      BY <1>0, <2>3 DEF Begin, HistoryTyped
    <3>2. crossed' \subseteq Handovers
      BY <1>0, <1>1, CrossTyped DEF StartHandover
    <3> QED
      BY <1>0, <1>1, <3>1, <3>2 DEF StartHandover, HistoryTyped
  <2>7. DayTyped' /\ RowsTyped'
    BY <1>0, <1>1 DEF StartHandover, DayTyped, RowsTyped, day, rows
  <2> QED
    BY <2>5, <2>6, <2>7, TypedSplit
<1>2. ASSUME NEW f \in Handovers, NEW a \in {0} \cup Amounts, StartRefresh(h, f, a)
      PROVE  Typed'
  <2> DEFINE input == [source |-> f, amount |-> a, day |-> f,
                       revises |-> FALSE, creates |-> FALSE]
  <2>1. a \in Nat /\ f \in Days
    BY AmountsAreNumbers, DaysOfHandovers
  <2>2. input \in Input /\ ~ input.revises
    BY <2>1 DEF Input
  <2>3. Begin(h, "sync", input, {})
    BY <1>2 DEF StartRefresh
  <2>4. "sync" \in Steps /\ {} \in SUBSET Rows
    BY DEF Steps
  <2> HIDE DEF input
  <2>5. WorkTyped' /\ RevisedInv' /\ outdated' \subseteq Requests
    BY <2>2, <2>3, <2>4, BeginsTyped
  <2>6. HistoryTyped'
    <3>1. crossed' \subseteq Handovers
      BY <1>0, <1>2, CrossTyped DEF StartRefresh
    <3> QED
      BY <1>0, <1>2, <2>5, <3>1 DEF StartRefresh, HistoryTyped
  <2>7. DayTyped' /\ RowsTyped'
    BY <1>0, <1>2, <2>1 DEF StartRefresh, DayTyped, RowsTyped, rows
  <2> QED
    BY <2>5, <2>6, <2>7, TypedSplit
<1>3. ASSUME NEW step \in Steps, NEW input \in Input, NEW S \in SUBSET Rows,
             ~ input.revises, Begin(h, step, input, S), UNCHANGED <<day, rows, history>>
      PROVE  Typed'
  <2>1. WorkTyped' /\ RevisedInv' /\ outdated' \subseteq Requests
    BY <1>3, BeginsTyped
  <2>2. DayTyped' /\ RowsTyped' /\ HistoryTyped'
    BY <1>0, <1>3, <2>1 DEF DayTyped, RowsTyped, HistoryTyped, day, rows, history
  <2> QED
    BY <2>1, <2>2, TypedSplit
<1>4. /\ {} \in SUBSET Rows /\ OpenRows \in SUBSET Rows
      /\ {"open", "pay", "merge"} \subseteq Steps
      /\ Idle \in Input /\ ~ Idle.revises
  BY IdleTyped DEF Steps, OpenRows, Live, Idle
<1>5. ASSUME NEW a \in Amounts
      PROVE  /\ [Idle EXCEPT !.amount = a] \in Input
             /\ ~ [Idle EXCEPT !.amount = a].revises
  BY <1>4, AmountsAreNumbers DEF Input
<1>6. ASSUME NEW a \in Amounts, StartManual(h, a) PROVE Typed'
  <2> DEFINE input == [source |-> Manual, amount |-> a, day |-> 1,
                       revises |-> FALSE, creates |-> TRUE]
  <2>1. input \in Input /\ ~ input.revises
    BY AmountsAreNumbers, DaysOfHandovers DEF Input
  <2> QED
    BY <1>3, <1>4, <1>6, <2>1 DEF StartManual
<1>7. ASSUME NEW a \in Amounts, StartSettle(h, a) PROVE Typed'
  BY <1>3, <1>4, <1>5, <1>7 DEF StartSettle
<1>8. ASSUME NEW r \in Rows, NEW a \in Amounts, StartPayment(h, r, a) PROVE Typed'
  <2>1. {r} \in SUBSET Rows
    OBVIOUS
  <2> QED
    BY <1>3, <1>4, <1>5, <1>8, <2>1 DEF StartPayment
<1>9. ASSUME StartList(h) PROVE Typed'
  BY <1>3, <1>4, <1>9 DEF StartList
<1> QED
  BY <1>1, <1>2, <1>6, <1>7, <1>8, <1>9

\* The steps that write no row.
LEMMA ReadsTyped ==
  ASSUME Typed, NEW h \in Requests,
         \/ WriteFloat(h) \/ FindForSync(h) \/ FindSource(h) \/ ReadOpenRows(h)
         \/ MovePayments(h) \/ Stop(h)
  PROVE  Typed'
<1>0. DayTyped /\ RowsTyped /\ WorkTyped /\ HistoryTyped /\ RevisedInv
  BY TypedSplit
<1>1. ASSUME UNCHANGED <<day, rows, history>>, WorkTyped', RevisedInv',
             outdated' \subseteq outdated
      PROVE  Typed'
  <2>1. DayTyped' /\ RowsTyped' /\ HistoryTyped'
    BY <1>0, <1>1 DEF DayTyped, RowsTyped, HistoryTyped, day, rows, history
  <2> QED
    BY <1>1, <2>1, TypedSplit
<1>2. /\ {} \in SUBSET Rows /\ OpenRows \in SUBSET Rows
      /\ {"sync", "find", "open", "align", "charge", "join"} \subseteq Steps
  BY DEF Steps, OpenRows, Live
<1>3. CASE WriteFloat(h)
  <2>1. WorkTyped' /\ RevisedInv'
    <3>1. \/ Enter(h, "sync", held[h], {}) \/ Enter(h, "find", held[h], {})
          \/ Finish(h)
      BY <1>3 DEF WriteFloat
    <3> QED
      BY <1>2, <3>1, EntersTyped, FinishesTyped
  <2>2. DayTyped' /\ RowsTyped' /\ HistoryTyped'
    <3>1. held[h].amount \in Int
      BY <1>0 DEF WorkTyped, Input
    <3> QED
      BY <1>0, <1>3, <3>1
         DEF WriteFloat, DayTyped, RowsTyped, HistoryTyped, rows, history
  <2> QED
    BY <2>1, <2>2, TypedSplit
<1>4. CASE FindForSync(h)
  <2>1. WorkTyped' /\ RevisedInv'
    <3>1. CASE Enter(h, "find", held[h], {}) \/ Done(h)
      BY <1>2, <3>1, EntersTyped, DonesTyped
    <3>2. ASSUME NEW r \in RowsOf(held[h].source), Enter(h, "align", held[h], {r})
          PROVE  WorkTyped' /\ RevisedInv'
      <4>1. {r} \in SUBSET Rows
        BY DEF RowsOf, Live
      <4> QED
        BY <1>2, <3>2, <4>1, EntersTyped
    <3> QED
      BY <1>4, <3>1, <3>2 DEF FindForSync
  <2>2. UNCHANGED <<day, rows, history>> /\ outdated' \subseteq outdated
    BY <1>4 DEF FindForSync
  <2> QED
    BY <1>1, <2>1, <2>2
<1>5. CASE FindSource(h)
  <2>1. UNCHANGED <<day, rows, outdated, history>>
        /\ (Done(h) \/ Enter(h, "open", held[h], {}))
    BY <1>5 DEF FindSource
  <2> QED
    BY <1>1, <1>2, <2>1, EntersTyped, DonesTyped
<1>6. CASE ReadOpenRows(h)
  <2>1. WorkTyped' /\ RevisedInv'
    BY <1>2, <1>6, EntersTyped DEF ReadOpenRows
  <2>2. UNCHANGED <<day, rows, history>> /\ outdated' \subseteq outdated
    BY <1>6 DEF ReadOpenRows
  <2> QED
    BY <1>1, <2>1, <2>2
<1>7. CASE MovePayments(h)
  <2>1. WorkTyped' /\ RevisedInv'
    BY <1>0, <1>2, <1>7 DEF MovePayments, WorkTyped, RevisedInv, RowsTyped
  <2>2. UNCHANGED <<day, rows, history>> /\ outdated' \subseteq outdated
    BY <1>7 DEF MovePayments
  <2> QED
    BY <1>1, <2>1, <2>2
<1>8. CASE Stop(h)
  BY <1>1, <1>8, FinishesTyped DEF Stop
<1> QED
  BY <1>3, <1>4, <1>5, <1>6, <1>7, <1>8

\* A row aligned with what was missing.
LEMMA AlignedTyped ==
  ASSUME NEW r \in Row, NEW needed \in Nat
  PROVE  Aligned(r, needed) \in Row
<1>1. /\ r.original \in Nat /\ r.outstanding \in Nat /\ r.date \in Days
  BY DEF Row
<1>2. Max({0, r.original - r.outstanding}) \in Nat
  BY <1>1, NotBelowZero
<1>3. With(r, needed, needed - (r.original - r.outstanding), r.date) \in Row
  BY <1>1, WithTyped
<1>4. With(r, Max({0, r.original - r.outstanding}), 0, r.date) \in Row
  BY <1>1, <1>2, WithTyped
<1> QED
  BY <1>3, <1>4 DEF Aligned

LEMMA AlignTyped ==
  ASSUME Typed, NEW h \in Requests, Align(h)
  PROVE  Typed'
<1>0. DayTyped /\ RowsTyped /\ WorkTyped /\ HistoryTyped /\ RevisedInv
  BY TypedSplit
<1>1. WorkTyped' /\ RevisedInv'
  BY DonesTyped DEF Align
<1>2. DayTyped'
  BY <1>0 DEF Align, DayTyped, day
<1>3. PICK r \in read[h] :
        /\ r \in Live
        /\ \/ UNCHANGED <<rows, outdated, overwritten, forgotten>>
           \/ /\ row' = [row EXCEPT ![r] =
                           [Aligned(seen[h][r], held[h].amount) EXCEPT !.date = row[r].date]]
              /\ forgotten' = (forgotten \/ Aligned(seen[h][r], held[h].amount).original < paid[r])
              /\ Write(h, {r})
              /\ UNCHANGED paid
  BY DEF Align
<1>4. RowsTyped' /\ HistoryTyped'
  <2>1. CASE UNCHANGED <<rows, outdated, overwritten, forgotten>>
    BY <1>0, <2>1 DEF Align, RowsTyped, HistoryTyped, rows
  <2>2. CASE /\ row' = [row EXCEPT ![r] =
                          [Aligned(seen[h][r], held[h].amount) EXCEPT !.date = row[r].date]]
             /\ forgotten' = (forgotten \/ Aligned(seen[h][r], held[h].amount).original < paid[r])
             /\ Write(h, {r})
             /\ UNCHANGED paid
    <3>1. r \in Rows /\ seen[h][r] \in Row /\ held[h].amount \in Nat /\ row[r] \in Row
      BY <1>0, <1>3 DEF WorkTyped, RowsTyped, Input, Live
    <3>2. Aligned(seen[h][r], held[h].amount) \in Row
      BY <3>1, AlignedTyped
    <3>3. [Aligned(seen[h][r], held[h].amount) EXCEPT !.date = row[r].date] \in Row
      BY <3>1, <3>2 DEF Row
    <3>4. RowsTyped'
      BY <1>0, <2>2, <3>3 DEF RowsTyped
    <3>5. forgotten' \in BOOLEAN
      BY <2>2
    <3>6. outdated' \subseteq Requests /\ overwritten' \in BOOLEAN
      BY <1>0, <2>2, WriteTyped
    <3>7. HistoryTyped'
      BY <1>0, <3>5, <3>6 DEF Align, HistoryTyped
    <3> QED
      BY <3>4, <3>7
  <2> QED
    BY <1>3, <2>1, <2>2
<1> QED
  BY <1>1, <1>2, <1>4, TypedSplit

LEMMA CountedTyped ==
  ASSUME HistoryTyped, NEW f, Counted(f)
  PROVE  charges' \in [Handovers -> Nat]
BY DEF HistoryTyped, Counted

LEMMA ChargeNewRowTyped ==
  ASSUME Typed, NEW h \in Requests, ChargeNewRow(h)
  PROVE  Typed'
<1>0. DayTyped /\ RowsTyped /\ WorkTyped /\ HistoryTyped /\ RevisedInv
  BY TypedSplit
<1>1. WorkTyped' /\ RevisedInv'
  BY DonesTyped DEF ChargeNewRow
<1>2. PICK r \in Rows :
        row' = [row EXCEPT ![r] =
            [state |-> "live", source |-> held[h].source, original |-> held[h].amount,
             outstanding |-> held[h].amount, date |-> held[h].day, status |-> "OPEN"]]
  BY DEF ChargeNewRow
<1>3. [state |-> "live", source |-> held[h].source, original |-> held[h].amount,
       outstanding |-> held[h].amount, date |-> held[h].day, status |-> "OPEN"] \in Row
  BY <1>0 DEF WorkTyped, Input, Row
<1>4. RowsTyped'
  BY <1>0, <1>2, <1>3 DEF ChargeNewRow, RowsTyped
<1>5. charges' \in [Handovers -> Nat]
  BY <1>0, CountedTyped DEF ChargeNewRow
<1>6. DayTyped' /\ HistoryTyped'
  BY <1>0, <1>5 DEF ChargeNewRow, DayTyped, HistoryTyped, day
<1> QED
  BY <1>1, <1>4, <1>6, TypedSplit

\* What a join leaves in a row, and what it leaves booked on it.
Joined(h, p, extra, date, r) ==
  IF r = p THEN With(row[p], OriginalOf(seen[h], read[h]) + extra,
                     OutstandingOf(seen[h], read[h]) + extra, date)
  ELSE IF r \in read[h] THEN Deleted ELSE row[r]

Brought(h, p) == SumFunctionOnSet(moved[h], read[h] \ {p})

JoinedPaid(h, p, r) ==
  IF r = p THEN paid[p] + Brought(h, p)
  ELSE IF r \in read[h] THEN 0 ELSE paid[r]

\* The sources whose charge or row goes into row p with another source.
Absorbed(h, p) ==
  {row[r].source : r \in read[h] \ {p}} \cup ({held[h].source} \ {row[p].source})

LEMMA JoinIntoIs ==
  ASSUME NEW h, NEW p, NEW extra, NEW date, JoinInto(h, p, extra, date)
  PROVE  /\ read[h] \subseteq Live /\ (stage[h] = "join" \/ read[h] = {p})
         /\ row' = [r \in Rows |-> Joined(h, p, extra, date, r)]
         /\ paid' = [r \in Rows |-> JoinedPaid(h, p, r)]
         /\ merged' = merged \cup Absorbed(h, p) /\ Write(h, read[h])
BY DEF JoinInto, Joined, JoinedPaid, Brought, Absorbed

LEMMA BroughtTyped ==
  ASSUME WorkTyped, NEW h \in Requests, NEW p
  PROVE  Brought(h, p) \in Nat
<1>1. read[h] \ {p} \in SUBSET Rows /\ \A r \in Rows : moved[h][r] \in Nat
  BY DEF WorkTyped
<1>2. IsFiniteSet(read[h] \ {p})
  BY <1>1, RowSets
<1>3. \A r \in read[h] \ {p} : moved[h][r] \in Nat
  BY <1>1
<1> QED
  BY <1>2, <1>3, SumNat DEF Brought

LEMMA AbsorbedTyped ==
  ASSUME Typed, NEW h \in Requests, NEW p
  PROVE  Absorbed(h, p) \subseteq {Manual} \cup Handovers
<1>1. /\ read[h] \subseteq Rows /\ held[h].source \in {Manual} \cup Handovers
      /\ \A r \in Rows : row[r].source \in {Manual} \cup Handovers
  BY TypedSplit DEF WorkTyped, RowsTyped, Input, Row
<1> QED
  BY <1>1 DEF Absorbed

LEMMA JoinTyped ==
  ASSUME Typed, NEW h \in Requests, NEW p, NEW extra \in Nat, NEW date,
         p \in Rows => date \in Days,
         JoinInto(h, p, extra, date)
  PROVE  RowsTyped' /\ outdated' \subseteq Requests /\ overwritten' \in BOOLEAN
<1>0. RowsTyped /\ WorkTyped /\ HistoryTyped
  BY TypedSplit
<1>1. seen[h] \in [Rows -> Row] /\ read[h] \in SUBSET Rows
  BY <1>0 DEF WorkTyped
<1>2. OriginalOf(seen[h], read[h]) \in Nat /\ OutstandingOf(seen[h], read[h]) \in Nat
  BY <1>1, TableSums
<1>3. ASSUME NEW r \in Rows
      PROVE  Joined(h, p, extra, date, r) \in Row /\ JoinedPaid(h, p, r) \in Nat
  <2>1. row[r] \in Row /\ paid[r] \in Nat
    BY <1>0 DEF RowsTyped
  <2>2. CASE r = p
    <3>1. /\ OriginalOf(seen[h], read[h]) + extra \in Nat
          /\ OutstandingOf(seen[h], read[h]) + extra \in Int
      BY <1>2
    <3>2. With(row[p], OriginalOf(seen[h], read[h]) + extra,
               OutstandingOf(seen[h], read[h]) + extra, date) \in Row
      BY <2>1, <2>2, <3>1, WithTyped
    <3>3. Brought(h, p) \in Nat
      BY <1>0, BroughtTyped
    <3> QED
      BY <2>1, <2>2, <3>2, <3>3 DEF Joined, JoinedPaid
  <2>3. CASE r # p
    BY <2>1, <2>3, NoRowTyped DEF Joined, JoinedPaid
  <2> QED
    BY <2>2, <2>3
<1>4. RowsTyped'
  <2>1. /\ row' = [r \in Rows |-> Joined(h, p, extra, date, r)]
        /\ paid' = [r \in Rows |-> JoinedPaid(h, p, r)]
    BY DEF JoinInto, Joined, JoinedPaid, Brought
  <2> QED
    BY <1>3, <2>1 DEF RowsTyped
<1>5. Write(h, read[h])
  BY JoinIntoIs
<1> QED
  BY <1>0, <1>4, <1>5, WriteTyped

LEMMA MergesTyped ==
  ASSUME Typed, NEW h \in Requests, ChargeOpenRow(h) \/ MergeListed(h)
  PROVE  Typed'
<1>0. DayTyped /\ RowsTyped /\ WorkTyped /\ HistoryTyped /\ RevisedInv
  BY TypedSplit
<1> DEFINE p == Primary(seen[h], read[h])
<1>1. CASE ChargeOpenRow(h)
  <2>1. JoinInto(h, p, held[h].amount, held[h].day)
    BY <1>1 DEF ChargeOpenRow
  <2>2. held[h].amount \in Nat /\ held[h].day \in Days
    BY <1>0 DEF WorkTyped, Input
  <2> HIDE DEF p
  <2>3. RowsTyped' /\ outdated' \subseteq Requests /\ overwritten' \in BOOLEAN
    BY <2>1, <2>2, JoinTyped
  <2>4. charges' \in [Handovers -> Nat]
    BY <1>0, <1>1, CountedTyped DEF ChargeOpenRow
  <2>5. merged' \subseteq {Manual} \cup Handovers
    BY <1>0, <2>1, JoinIntoIs, AbsorbedTyped DEF HistoryTyped
  <2>6. DayTyped' /\ HistoryTyped'
    BY <1>0, <1>1, <2>3, <2>4, <2>5 DEF ChargeOpenRow, DayTyped, HistoryTyped, day
  <2>7. WorkTyped' /\ RevisedInv'
    BY <1>1, DonesTyped DEF ChargeOpenRow
  <2> QED
    BY <2>3, <2>6, <2>7, TypedSplit
<1>2. CASE MergeListed(h)
  <2>1. JoinInto(h, p, 0, row[p].date)
    BY <1>2 DEF MergeListed
  <2> HIDE DEF p
  <2>2. p \in Rows => row[p].date \in Days
    BY <1>0 DEF RowsTyped, Row
  <2>3. RowsTyped' /\ outdated' \subseteq Requests /\ overwritten' \in BOOLEAN
    BY <2>1, <2>2, JoinTyped
  <2>5. merged' \subseteq {Manual} \cup Handovers
    BY <1>0, <2>1, JoinIntoIs, AbsorbedTyped DEF HistoryTyped
  <2>6. DayTyped' /\ HistoryTyped'
    BY <1>0, <1>2, <2>3, <2>5 DEF MergeListed, DayTyped, HistoryTyped, day
  <2>7. WorkTyped' /\ RevisedInv'
    BY <1>2, FinishesTyped DEF MergeListed
  <2> QED
    BY <2>3, <2>6, <2>7, TypedSplit
<1> QED
  BY <1>1, <1>2

\* No more of a payment falls on a row than the request has seen open on it.
LEMMA AppliedFits ==
  ASSUME WorkTyped, NEW h \in Requests, NEW r \in Rows
  PROVE  Applied(h, r) \in Nat /\ Applied(h, r) <= seen[h][r].outstanding
<1> DEFINE before == {q \in read[h] : Precedes(seen[h], q, r)}
           rest == held[h].amount - OutstandingOf(seen[h], before)
<1>1. /\ seen[h] \in [Rows -> Row] /\ before \in SUBSET Rows
      /\ held[h].amount \in Nat /\ seen[h][r].outstanding \in Nat
  BY DEF WorkTyped, Input, Row
<1>2. Applied(h, r) = Min({seen[h][r].outstanding, Max({0, rest})})
  BY DEF Applied
<1> HIDE DEF before
<1>3. rest \in Int
  BY <1>1, TableSums
<1> HIDE DEF rest
<1>4. Max({0, rest}) \in Nat
  BY <1>3, NotBelowZero
<1> DEFINE open == seen[h][r].outstanding
           left == Max({0, rest})
<1> HIDE DEF open, left
<1>5. open \in Int /\ left \in Int
  BY <1>1, <1>4 DEF open, left
<1>6. Min({open, left}) \in {open, left} /\ Min({open, left}) <= open
  BY <1>5, MinOfTwo
<1> QED
  BY <1>1, <1>2, <1>4, <1>6 DEF open, left

\* What a payment leaves in a row, and what it leaves booked on it.
Reached(h) == {r \in read[h] : Applied(h, r) > 0}
LeftOpen(h, r) == seen[h][r].outstanding - Applied(h, r)

PaidRow(h, r) ==
  IF r \in Reached(h)
  THEN [row[r] EXCEPT !.outstanding = LeftOpen(h, r),
          !.status = IF LeftOpen(h, r) <= 0 THEN "CLEARED" ELSE "PARTIALLY_PAID"]
  ELSE row[r]

LEMMA CommitPaymentIs ==
  ASSUME NEW h, CommitPayment(h)
  PROVE  /\ stage[h] = "pay" /\ Reached(h) \subseteq Live
         /\ row' = [r \in Rows |-> PaidRow(h, r)]
         /\ paid' = [r \in Rows |-> IF r \in Reached(h) THEN paid[r] + Applied(h, r)
                                    ELSE paid[r]]
         /\ Write(h, Reached(h)) /\ Finish(h)
         /\ UNCHANGED <<day, forgotten, charges, merged, crossed>>
BY DEF CommitPayment, Reached, LeftOpen, PaidRow

LEMMA CommitPaymentTyped ==
  ASSUME Typed, NEW h \in Requests, CommitPayment(h)
  PROVE  Typed'
<1>0. DayTyped /\ RowsTyped /\ WorkTyped /\ HistoryTyped /\ RevisedInv
  BY TypedSplit
<1>1. ASSUME NEW r \in Rows
      PROVE  PaidRow(h, r) \in Row /\ paid[r] \in Nat /\ Applied(h, r) \in Nat
  <2>1. row[r] \in Row /\ paid[r] \in Nat /\ seen[h][r].outstanding \in Nat
    BY <1>0 DEF RowsTyped, WorkTyped, Row
  <2>2. Applied(h, r) \in Nat /\ Applied(h, r) <= seen[h][r].outstanding
    BY <1>0, AppliedFits
  <2>3. LeftOpen(h, r) \in Nat
    BY <2>1, <2>2 DEF LeftOpen
  <2>4. (IF LeftOpen(h, r) <= 0 THEN "CLEARED" ELSE "PARTIALLY_PAID")
          \in {"OPEN", "PARTIALLY_PAID", "CLEARED"}
    OBVIOUS
  <2>5. PaidRow(h, r) \in Row
    BY <2>1, <2>3, <2>4 DEF PaidRow, Row
  <2> QED
    BY <2>1, <2>2, <2>5
<1>2. RowsTyped'
  BY <1>1, CommitPaymentIs DEF RowsTyped
<1>3. outdated' \subseteq Requests /\ overwritten' \in BOOLEAN
  BY <1>0, CommitPaymentIs, WriteTyped
<1>4. DayTyped' /\ HistoryTyped'
  BY <1>0, <1>3, CommitPaymentIs DEF DayTyped, HistoryTyped, day
<1>5. WorkTyped' /\ RevisedInv'
  BY CommitPaymentIs, FinishesTyped
<1> QED
  BY <1>2, <1>4, <1>5, TypedSplit

LEMMA TypedStep ==
  ASSUME Typed, [Next]_vars
  PROVE  Typed'
<1>0. DayTyped /\ RowsTyped /\ WorkTyped /\ HistoryTyped /\ RevisedInv
  BY TypedSplit
<1>1. ASSUME NEW f \in Handovers, ReportMoves(f) PROVE Typed'
  <2>1. DayTyped' /\ RowsTyped' /\ WorkTyped' /\ HistoryTyped' /\ RevisedInv'
    BY <1>0, <1>1
       DEF ReportMoves, DayTyped, RowsTyped, WorkTyped, HistoryTyped, RevisedInv,
           rows, work, history
  <2> QED
    BY <2>1, TypedSplit
<1>2. CASE UNCHANGED vars
  <2>1. DayTyped' /\ RowsTyped' /\ WorkTyped' /\ HistoryTyped' /\ RevisedInv'
    BY <1>0, <1>2
       DEF vars, DayTyped, RowsTyped, WorkTyped, HistoryTyped, RevisedInv,
           day, rows, work, history
  <2> QED
    BY <2>1, TypedSplit
<1> QED
  BY <1>1, <1>2, StartsTyped, ReadsTyped, AlignTyped, ChargeNewRowTyped, MergesTyped,
     CommitPaymentTyped DEF Next

LEMMA InitTyped == Init => Typed
<1> SUFFICES ASSUME Init PROVE Typed
OBVIOUS
<1>1. PICK last \in 0..Min({MaxHandovers, MaxRows}), a \in Earlier :
        /\ short = [f \in Handovers |-> IF f <= last THEN a ELSE -1]
        /\ charges = [f \in Handovers |-> IF f <= last THEN 1 ELSE 0]
        /\ row = [r \in Rows |->
             IF r <= last
             THEN [state |-> "live", source |-> r, original |-> a, outstanding |-> a,
                   date |-> r, status |-> "OPEN"]
             ELSE NoRow]
  BY DEF Init
<1>2. a \in Nat
  BY AmountsAreNumbers
<1>3. Min({MaxHandovers, MaxRows}) \in Nat /\ Min({MaxHandovers, MaxRows}) <= MaxHandovers
  <2>1. MaxHandovers \in Int /\ MaxRows \in Int
    BY BoundAssumption
  <2>2. /\ Min({MaxHandovers, MaxRows}) \in {MaxHandovers, MaxRows}
        /\ Min({MaxHandovers, MaxRows}) <= MaxHandovers
    BY <2>1, MinOfTwo
  <2> QED
    BY <2>2, BoundAssumption
<1>4. ASSUME NEW r \in Rows, r <= last
      PROVE  r \in Handovers /\ r \in Days
  BY <1>3, <1>4, BoundAssumption, DaysOfHandovers DEF Rows, Handovers
<1>5. row \in [Rows -> Row]
  BY <1>1, <1>2, <1>4, NoRowTyped DEF Row
<1>6. RowsTyped
  BY <1>5 DEF RowsTyped, Init
<1>7. DayTyped
  BY <1>1, <1>2 DEF DayTyped, Init
<1>8. WorkTyped
  BY IdleTyped, NoRowTyped, BoundAssumption DEF WorkTyped, Init, Steps
<1>9. HistoryTyped
  BY <1>1 DEF HistoryTyped, Init
<1>10. RevisedInv
  BY DEF RevisedInv, Init, Idle
<1> QED
  BY <1>6, <1>7, <1>8, <1>9, <1>10, TypedParts DEF Typed

\* Rows, payments and requests keep their types, and no amount ever becomes
\* negative, for any number of requests, days, rows and amounts.
THEOREM ShortagesAreTyped == Spec => []TypeOK
<1>1. Typed /\ [Next]_vars => Typed'
  BY TypedStep
<1>2. Typed => TypeOK
  BY DEF Typed
<1> QED
  BY <1>1, <1>2, InitTyped, PTL DEF Spec

-----------------------------------------------------------------------------
(* Where a request stands after its step, and what that leaves of others.  *)

\* A step of h leaves the work of the other requests alone.
OnlyOf(h) ==
  \A g \in Requests \ {h} :
    /\ stage'[g] = stage[g] /\ held'[g] = held[g] /\ read'[g] = read[g]
    /\ seen'[g] = seen[g] /\ moved'[g] = moved[g]

\* What the request holds at the step it has come to.
Came(h, step, input, S) ==
  /\ stage'[h] = step /\ held'[h] = input /\ read'[h] = S
  /\ \A r \in S : seen'[h][r] = row[r]

LEMMA EnterCame ==
  ASSUME WorkTyped, NEW h \in Requests, NEW step, NEW input, NEW S \in SUBSET Rows,
         Enter(h, step, input, S) \/ Begin(h, step, input, S)
  PROVE  Came(h, step, input, S) /\ OnlyOf(h)
<1>1. CASE Enter(h, step, input, S)
  BY <1>1 DEF Enter, WorkTyped, Came, OnlyOf
<1>2. CASE Begin(h, step, input, S)
  BY <1>2 DEF Begin, WorkTyped, Came, OnlyOf
<1> QED
  BY <1>1, <1>2

LEMMA FinishCame ==
  ASSUME WorkTyped, NEW h \in Requests, Finish(h)
  PROVE  Came(h, "idle", Idle, {}) /\ OnlyOf(h)
<1>1. {} \in SUBSET Rows
  OBVIOUS
<1> QED
  BY <1>1, EnterCame DEF Finish

LEMMA DoneCame ==
  ASSUME WorkTyped, NEW h \in Requests, Done(h)
  PROVE  /\ \/ Came(h, "idle", Idle, {})
            \/ held[h].revises /\ Came(h, "sync", Revised(h), {})
         /\ OnlyOf(h)
<1>1. CASE held[h].revises
  <2>1. Enter(h, "sync", Revised(h), {}) /\ {} \in SUBSET Rows
    BY <1>1 DEF Done, Revised
  <2> QED
    BY <1>1, <2>1, EnterCame
<1>2. CASE ~ held[h].revises
  BY <1>2, FinishCame DEF Done
<1> QED
  BY <1>1, <1>2

\* What a request is done with leaves it with nothing read and nothing to charge.
LEMMA DoneRests ==
  ASSUME WorkTyped, NEW h \in Requests, Done(h) \/ Finish(h)
  PROVE  /\ stage'[h] \in {"idle", "sync"} /\ read'[h] = {}
         /\ stage'[h] = "sync" => held'[h].source = held[h].source
         /\ OnlyOf(h)
<1>1. Revised(h).source = held[h].source
  BY DEF Revised, WorkTyped, Input
<1> QED
  BY <1>1, DoneCame, FinishCame DEF Came

\* The five steps that write rows, seen from outside: the rows of S are written, and
\* the request is done.
Writes(h, S) ==
  /\ S \subseteq Live
  /\ \A r \in Rows \ S : row'[r] = row[r] /\ paid'[r] = paid[r]
  /\ \A r \in S : row'[r].state # "none"
  /\ Write(h, S)
  /\ Done(h) \/ Finish(h)

LEMMA AlignIs ==
  ASSUME Typed, NEW h \in Requests, Align(h)
  PROVE  \/ UNCHANGED <<row, paid, outdated, overwritten, forgotten>>
         \/ \E r \in read[h] :
              LET new == Aligned(seen[h][r], held[h].amount)
              IN  /\ row' = [row EXCEPT ![r] = [new EXCEPT !.date = row[r].date]]
                  /\ paid' = paid
                  /\ forgotten' = (forgotten \/ new.original < paid[r])
                  /\ Writes(h, {r})
<1>1. PICK r \in read[h] :
        /\ r \in Live
        /\ \/ UNCHANGED <<rows, outdated, overwritten, forgotten>>
           \/ /\ row' = [row EXCEPT ![r] =
                           [Aligned(seen[h][r], held[h].amount) EXCEPT !.date = row[r].date]]
              /\ forgotten' = (forgotten \/ Aligned(seen[h][r], held[h].amount).original < paid[r])
              /\ Write(h, {r})
              /\ UNCHANGED paid
  BY DEF Align
<1>2. CASE UNCHANGED <<rows, outdated, overwritten, forgotten>>
  BY <1>2 DEF rows
<1>3. CASE /\ row' = [row EXCEPT ![r] =
                        [Aligned(seen[h][r], held[h].amount) EXCEPT !.date = row[r].date]]
           /\ forgotten' = (forgotten \/ Aligned(seen[h][r], held[h].amount).original < paid[r])
           /\ Write(h, {r})
           /\ UNCHANGED paid
  <2> DEFINE new == Aligned(seen[h][r], held[h].amount)
  <2>1. /\ row \in [Rows -> Row] /\ r \in Rows /\ seen[h][r] \in Row
        /\ held[h].amount \in Nat
    BY <1>1, TypedSplit DEF RowsTyped, WorkTyped, Live, Input
  <2>2. new \in Row
    BY <2>1, AlignedTyped
  <2>3. new.state = "live"
    BY DEF Aligned, With
  <2> HIDE DEF new
  <2>4. row' = [row EXCEPT ![r] = [new EXCEPT !.date = row[r].date]]
    BY <1>3 DEF new
  <2>5. row'[r].state # "none"
    BY <2>1, <2>2, <2>3, <2>4 DEF Row
  <2>6. \A q \in Rows \ {r} : row'[q] = row[q] /\ paid'[q] = paid[q]
    BY <1>3, <2>1, <2>4
  <2>7. Writes(h, {r})
    BY <1>1, <1>3, <2>5, <2>6 DEF Writes, Align
  <2> QED
    BY <1>3, <2>4, <2>7 DEF new
<1> QED
  BY <1>1, <1>2, <1>3

LEMMA JoinWrites ==
  ASSUME Typed, NEW h \in Requests, NEW p \in read[h], NEW extra, NEW date,
         JoinInto(h, p, extra, date), Done(h) \/ Finish(h)
  PROVE  Writes(h, read[h])
<1>1. /\ read[h] \subseteq Live
      /\ row' = [r \in Rows |-> Joined(h, p, extra, date, r)]
      /\ paid' = [r \in Rows |-> JoinedPaid(h, p, r)]
      /\ Write(h, read[h])
  BY DEF JoinInto, Joined, JoinedPaid, Brought
<1>2. row \in [Rows -> Row] /\ paid \in [Rows -> Nat] /\ read[h] \subseteq Rows
  BY TypedSplit DEF RowsTyped, WorkTyped
<1>3. ASSUME NEW r \in Rows \ read[h] PROVE row'[r] = row[r] /\ paid'[r] = paid[r]
  BY <1>1, <1>2, <1>3 DEF Joined, JoinedPaid
<1>4. ASSUME NEW r \in read[h] PROVE row'[r].state # "none"
  <2>1. CASE r = p
    BY <1>1, <1>2, <2>1 DEF Joined, With
  <2>2. CASE r # p
    BY <1>1, <1>2, <2>2 DEF Joined, Deleted, NoRow
  <2> QED
    BY <2>1, <2>2
<1> QED
  BY <1>1, <1>3, <1>4 DEF Writes

LEMMA CommitWrites ==
  ASSUME Typed, NEW h \in Requests, CommitPayment(h)
  PROVE  Writes(h, Reached(h))
<1>1. /\ Reached(h) \subseteq Live
      /\ row' = [r \in Rows |-> PaidRow(h, r)]
      /\ paid' = [r \in Rows |-> IF r \in Reached(h) THEN paid[r] + Applied(h, r)
                                 ELSE paid[r]]
      /\ Write(h, Reached(h)) /\ Finish(h)
  BY DEF CommitPayment, Reached, LeftOpen, PaidRow
<1>2. row \in [Rows -> Row] /\ Live \subseteq Rows
  BY TypedSplit DEF RowsTyped, Live
<1>3. ASSUME NEW r \in Rows \ Reached(h) PROVE row'[r] = row[r] /\ paid'[r] = paid[r]
  BY <1>1, <1>3 DEF PaidRow
<1>4. ASSUME NEW r \in Reached(h) PROVE row'[r].state # "none"
  <2>1. r \in Rows /\ row[r].state = "live" /\ row[r] \in Row
    BY <1>1, <1>2 DEF Live
  <2>2. row'[r] = PaidRow(h, r)
    BY <1>1, <2>1
  <2>3. PaidRow(h, r).state = row[r].state
    BY <2>1 DEF PaidRow, Row
  <2> QED
    BY <2>1, <2>2, <2>3
<1> QED
  BY <1>1, <1>3, <1>4 DEF Writes

-----------------------------------------------------------------------------
(* What a request that is not outdated has read is what there is.          *)

\* The oldest of some rows is one of them.
LEMMA PrimaryIsRead ==
  ASSUME NEW table \in [Rows -> Row], NEW S \in SUBSET Rows, S # {}
  PROVE  Primary(table, S) \in S
<1>1. /\ \A r \in S : r \in Nat /\ table[r].date \in Nat
  <2>1. Days \subseteq Nat
    BY DEF Days
  <2>2. \A r \in S : r \in Nat
    BY BoundAssumption DEF Rows
  <2>3. \A r \in S : table[r] \in Row
    OBVIOUS
  <2>4. \A r \in S : table[r].date \in Days
    BY <2>3 DEF Row
  <2> QED
    BY <2>1, <2>2, <2>4
<1>2. PICK d \in {table[r].date : r \in S} :
        \A e \in {table[r].date : r \in S} : d <= e
  <2> DEFINE dates == {table[r].date : r \in S}
  <2>1. dates \in SUBSET Nat /\ dates # {}
    BY <1>1
  <2> HIDE DEF dates
  <2>2. \E d \in dates : \A e \in dates : d <= e
    BY <2>1, LeastNumber
  <2> QED
    BY <2>2 DEF dates
<1>3. PICK r \in {q \in S : table[q].date = d} :
        \A q \in {t \in S : table[t].date = d} : r <= q
  <2> DEFINE oldest == {q \in S : table[q].date = d}
  <2>1. oldest \in SUBSET Nat /\ oldest # {}
    BY <1>1, <1>2
  <2> HIDE DEF oldest
  <2>2. \E r \in oldest : \A q \in oldest : r <= q
    BY <2>1, LeastNumber
  <2> QED
    BY <2>2 DEF oldest
<1>4. ASSUME NEW q \in S \ {r} PROVE Precedes(table, r, q)
  <2>1. d <= table[q].date /\ table[r].date = d /\ r \in Nat /\ q \in Nat
        /\ table[q].date \in Nat /\ d \in Nat
    BY <1>1, <1>2, <1>3
  <2>2. table[q].date = d => r <= q
    BY <1>3
  <2>3. r # q
    OBVIOUS
  <2> QED
    BY <2>1, <2>2, <2>3 DEF Precedes
<1>5. \E p \in S : \A q \in S \ {p} : Precedes(table, p, q)
  BY <1>3, <1>4
<1> QED
  BY <1>5 DEF Primary

\* The rows a request has read exist; while none of them is written since, what it
\* has seen of them and what it has moved off them is what they hold.
Fresh(h) ==
  /\ \A r \in read[h] : row[r].state # "none"
  /\ h \notin outdated => \A r \in read[h] : seen[h][r] = row[r]
  /\ h \notin outdated /\ stage[h] = "join" => \A r \in read[h] : moved[h][r] = paid[r]
  /\ stage[h] = "join" => read[h] # {}

FreshInv ==
  /\ \A h \in Requests : Fresh(h)
  /\ \A r \in Rows : row[r].state = "none" => paid[r] = 0

\* Of the requests that have read none of the rows that are written, nothing changes;
\* those that have become outdated.
LEMMA WritesKeepFresh ==
  ASSUME Typed, FreshInv, NEW h \in Requests, NEW S, Writes(h, S)
  PROVE  FreshInv'
<1>0. WorkTyped /\ RowsTyped /\ HistoryTyped
  BY TypedSplit
<1>1. read'[h] = {} /\ stage'[h] # "join" /\ OnlyOf(h)
  BY <1>0, DoneRests DEF Writes
<1>2. Fresh(h)'
  BY <1>1 DEF Fresh
<1>3. ASSUME NEW g \in Requests \ {h} PROVE Fresh(g)'
  <2>1. Fresh(g) /\ read[g] \in SUBSET Rows
    BY <1>0 DEF FreshInv, WorkTyped
  <2>2. /\ stage'[g] = stage[g] /\ read'[g] = read[g]
        /\ seen'[g] = seen[g] /\ moved'[g] = moved[g]
    BY <1>1 DEF OnlyOf
  <2>3. \A r \in read[g] : row'[r].state # "none"
    BY <2>1 DEF Fresh, Writes
  <2>4. g \notin outdated' => g \notin outdated /\ read[g] \cap S = {}
    BY DEF Writes, Write
  <2>5. g \notin outdated' => \A r \in read[g] : row'[r] = row[r] /\ paid'[r] = paid[r]
    BY <2>1, <2>4 DEF Writes
  <2> QED
    BY <2>1, <2>2, <2>3, <2>4, <2>5 DEF Fresh
<1>4. ASSUME NEW r \in Rows, row'[r].state = "none" PROVE paid'[r] = 0
  BY <1>4 DEF Writes, FreshInv
<1> QED
  BY <1>2, <1>3, <1>4 DEF FreshInv

\* A request that goes on: the rows it reads now are as it reads them.
LEMMA CameKeepsFresh ==
  ASSUME Typed, FreshInv, NEW h \in Requests, NEW step, NEW input, NEW S \in SUBSET Live,
         Came(h, step, input, S), OnlyOf(h), UNCHANGED rows, step # "join",
         outdated \subseteq outdated' \cup {h}
  PROVE  FreshInv'
<1>1. Fresh(h)'
  BY DEF Came, Fresh, rows, Live
<1>2. ASSUME NEW g \in Requests \ {h} PROVE Fresh(g)'
  BY DEF FreshInv, Fresh, OnlyOf, rows
<1>3. \A r \in Rows : row'[r].state = "none" => paid'[r] = 0
  BY DEF FreshInv, rows
<1> QED
  BY <1>1, <1>2, <1>3 DEF FreshInv

\* A step that writes no row but may read some.
LEMMA EntersFresh ==
  ASSUME Typed, FreshInv, NEW h \in Requests, UNCHANGED rows,
         outdated \subseteq outdated' \cup {h},
         \/ \E step \in Steps \ {"join"}, S \in SUBSET Live :
              Enter(h, step, held[h], S)
         \/ \E step \in Steps \ {"join"}, S \in SUBSET Live : \E input :
              Begin(h, step, input, S)
         \/ Done(h) \/ Finish(h)
  PROVE  FreshInv'
<1>0. WorkTyped /\ SUBSET Live \subseteq SUBSET Rows
  BY TypedSplit DEF Live
<1>1. ASSUME NEW step \in Steps \ {"join"}, NEW input, NEW S \in SUBSET Live,
             Enter(h, step, input, S) \/ Begin(h, step, input, S)
      PROVE  FreshInv'
  <2>1. Came(h, step, input, S) /\ OnlyOf(h)
    BY <1>0, <1>1, EnterCame
  <2> QED
    BY <2>1, CameKeepsFresh
<1>2. CASE Done(h) \/ Finish(h)
  <2>1. OnlyOf(h) /\ {} \in SUBSET Live
    BY <1>0, <1>2, DoneRests
  <2>2. \/ Came(h, "idle", Idle, {}) \/ Came(h, "sync", Revised(h), {})
    BY <1>0, <1>2, DoneCame, FinishCame
  <2> QED
    BY <2>1, <2>2, CameKeepsFresh
<1> QED
  BY <1>1, <1>2

LEMMA FreshStep ==
  ASSUME Typed, FreshInv, [Next]_vars
  PROVE  FreshInv'
<1>0. WorkTyped /\ RowsTyped /\ HistoryTyped
  BY TypedSplit
<1>1. CASE \/ UNCHANGED vars
           \/ \E f \in Handovers : ReportMoves(f)
  BY <1>1 DEF FreshInv, Fresh, ReportMoves, vars, rows, work
<1>2. ASSUME NEW h \in Requests,
             \/ \E f \in Handovers, a \in {0} \cup Amounts :
                  StartHandover(h, f, a) \/ StartRefresh(h, f, a)
             \/ \E a \in Amounts : StartManual(h, a) \/ StartSettle(h, a)
             \/ \E r \in Rows, a \in Amounts : StartPayment(h, r, a)
             \/ StartList(h)
      PROVE  FreshInv'
  <2>1. /\ UNCHANGED rows
        /\ \E step \in Steps \ {"join"}, S \in SUBSET Live : \E input : Begin(h, step, input, S)
    <3>1. {} \in SUBSET Live /\ OpenRows \in SUBSET Live
          /\ {"float", "sync", "open", "pay", "merge"} \subseteq Steps \ {"join"}
      BY DEF OpenRows, Steps
    <3>2. \/ UNCHANGED rows /\ \E input : Begin(h, "float", input, {})
          \/ UNCHANGED rows /\ \E input : Begin(h, "sync", input, {})
          \/ UNCHANGED rows /\ \E input : Begin(h, "open", input, {})
          \/ UNCHANGED rows /\ \E input : Begin(h, "pay", input, OpenRows)
          \/ UNCHANGED rows /\ \E r \in Live : \E input : Begin(h, "pay", input, {r})
          \/ UNCHANGED rows /\ \E input : Begin(h, "merge", input, OpenRows)
      BY <1>2
         DEF StartHandover, StartRefresh, StartManual, StartSettle, StartPayment, StartList
    <3>3. \A r \in Live : {r} \in SUBSET Live
      OBVIOUS
    <3>4. {"float", "sync", "open", "pay", "merge"} \subseteq Steps \ {"join"}
      BY <3>1
    <3> QED
      BY <3>1, <3>2, <3>3, <3>4
  <2>2. outdated \subseteq outdated' \cup {h}
    BY <2>1 DEF Begin
  <2> QED
    BY <2>1, <2>2, EntersFresh
<1>3. ASSUME NEW h \in Requests,
             WriteFloat(h) \/ FindForSync(h) \/ FindSource(h) \/ ReadOpenRows(h) \/ Stop(h)
      PROVE  FreshInv'
  <2>1. {} \in SUBSET Live /\ OpenRows \in SUBSET Live
        /\ {"sync", "find", "align", "open", "charge"} \subseteq Steps \ {"join"}
    BY DEF OpenRows, Steps
  <2>2. \A f : \A r \in RowsOf(f) : {r} \in SUBSET Live
    BY DEF RowsOf
  <2>3. /\ UNCHANGED rows /\ outdated \subseteq outdated' \cup {h}
        /\ \/ \E step \in Steps \ {"join"}, S \in SUBSET Live : Enter(h, step, held[h], S)
           \/ Done(h) \/ Finish(h)
    BY <1>3, <2>1, <2>2 DEF WriteFloat, FindForSync, FindSource, ReadOpenRows, Stop
  <2> QED
    BY <2>3, EntersFresh
<1>4. ASSUME NEW h \in Requests, MovePayments(h) PROVE FreshInv'
  <2>1. /\ read' = read /\ seen' = seen /\ row' = row /\ paid' = paid
        /\ outdated' = outdated /\ read[h] \subseteq Live
        /\ moved' = [moved EXCEPT ![h] = paid] /\ stage' = [stage EXCEPT ![h] = "join"]
    BY <1>4 DEF MovePayments, rows
  <2>2. read[h] # {}
    <3>1. Cardinality(read[h]) > 1
      BY <1>4 DEF MovePayments
    <3> QED
      BY <3>1, FS_EmptySet
  <2>3. Fresh(h)'
    BY <1>0, <2>1, <2>2 DEF FreshInv, Fresh, WorkTyped
  <2>4. \A g \in Requests \ {h} : Fresh(g)'
    BY <1>0, <2>1 DEF FreshInv, Fresh, WorkTyped
  <2> QED
    BY <2>1, <2>3, <2>4 DEF FreshInv
<1>5. ASSUME NEW h \in Requests, Align(h) PROVE FreshInv'
  <2>1. CASE UNCHANGED <<row, paid, outdated, overwritten, forgotten>>
    <3>1. Done(h) /\ UNCHANGED rows /\ outdated \subseteq outdated' \cup {h}
      BY <1>5, <2>1 DEF Align, rows
    <3> QED
      BY <3>1, EntersFresh
  <2>2. ASSUME NEW S, Writes(h, S) PROVE FreshInv'
    BY <2>2, WritesKeepFresh
  <2> QED
    BY <1>5, <2>1, <2>2, AlignIs
<1>6. ASSUME NEW h \in Requests, ChargeNewRow(h) PROVE FreshInv'
  <2>1. PICK r \in Rows :
          /\ row[r].state = "none"
          /\ row' = [row EXCEPT ![r] =
               [state |-> "live", source |-> held[h].source, original |-> held[h].amount,
                outstanding |-> held[h].amount, date |-> held[h].day, status |-> "OPEN"]]
    BY <1>6 DEF ChargeNewRow
  <2>2. paid' = paid /\ outdated' = outdated /\ Done(h)
    BY <1>6 DEF ChargeNewRow
  <2>3. \A q \in Rows \ {r} : row'[q] = row[q]
    BY <1>0, <2>1 DEF RowsTyped
  <2>4. row'[r].state = "live"
    BY <1>0, <2>1 DEF RowsTyped
  <2>5. read'[h] = {} /\ stage'[h] # "join" /\ OnlyOf(h)
    BY <1>0, <2>2, DoneRests
  <2>6. Fresh(h)'
    BY <2>5 DEF Fresh
  <2>7. ASSUME NEW g \in Requests \ {h} PROVE Fresh(g)'
    <3>1. Fresh(g) /\ read[g] \in SUBSET Rows
      BY <1>0 DEF FreshInv, WorkTyped
    <3>2. \A q \in read[g] : row'[q] = row[q]
      BY <2>1, <2>3, <3>1 DEF Fresh
    <3>3. /\ stage'[g] = stage[g] /\ read'[g] = read[g]
          /\ seen'[g] = seen[g] /\ moved'[g] = moved[g]
      BY <2>5 DEF OnlyOf
    <3> QED
      BY <2>2, <3>1, <3>2, <3>3 DEF Fresh
  <2>8. ASSUME NEW q \in Rows, row'[q].state = "none" PROVE paid'[q] = 0
    BY <2>2, <2>3, <2>4, <2>8 DEF FreshInv
  <2> QED
    BY <2>6, <2>7, <2>8 DEF FreshInv
<1>7. ASSUME NEW h \in Requests, ChargeOpenRow(h) \/ MergeListed(h) PROVE FreshInv'
  <2>1. read[h] # {} /\ (Done(h) \/ Finish(h))
    BY <1>7 DEF ChargeOpenRow, MergeListed, FreshInv, Fresh
  <2>2. Primary(seen[h], read[h]) \in read[h]
    BY <1>0, <2>1, PrimaryIsRead DEF WorkTyped
  <2>3. \E extra, date : JoinInto(h, Primary(seen[h], read[h]), extra, date)
    BY <1>7 DEF ChargeOpenRow, MergeListed
  <2>4. Writes(h, read[h])
    BY <2>1, <2>2, <2>3, JoinWrites
  <2> QED
    BY <2>4, WritesKeepFresh
<1>8. ASSUME NEW h \in Requests, CommitPayment(h) PROVE FreshInv'
  BY <1>8, CommitWrites, WritesKeepFresh
<1> QED
  BY <1>1, <1>2, <1>3, <1>4, <1>5, <1>6, <1>7, <1>8 DEF Next

LEMMA FreshHolds == Spec => [](Typed /\ FreshInv)
<1>1. Init => FreshInv
  <2>1. ASSUME Init PROVE /\ \A h \in Requests : read[h] = {} /\ stage[h] = "idle"
                          /\ \A r \in Rows : paid[r] = 0
    BY <2>1 DEF Init
  <2> QED
    BY <2>1 DEF FreshInv, Fresh
<1>2. Typed /\ FreshInv /\ [Next]_vars => Typed' /\ FreshInv'
  BY TypedStep, FreshStep
<1> QED
  BY <1>1, <1>2, InitTyped, PTL DEF Spec

-----------------------------------------------------------------------------
(* What is outstanding is what has not been paid.                          *)

\* A merge by a request that has read what there is keeps the sums.
LEMMA JoinSums ==
  ASSUME Typed, FreshInv, NEW h \in Requests, h \notin outdated,
         NEW p \in read[h], stage[h] = "join" \/ read[h] = {p}
  PROVE  Brought(h, p) = SumFunctionOnSet(paid, read[h] \ {p})
         /\ SumFunctionOnSet(paid, read[h]) = paid[p] + Brought(h, p)
<1>1. /\ read[h] \in SUBSET Rows /\ IsFiniteSet(read[h]) /\ Fresh(h)
      /\ \A r \in Rows : paid[r] \in Nat
  BY TypedSplit, RowSets DEF WorkTyped, RowsTyped, FreshInv
<1>2. IsFiniteSet(read[h] \ {p})
  BY <1>1, FS_RemoveElement
<1>3. Brought(h, p) = SumFunctionOnSet(paid, read[h] \ {p})
  <2>1. CASE stage[h] = "join"
    <3>1. \A r \in read[h] \ {p} : moved[h][r] = paid[r]
      BY <1>1, <2>1 DEF Fresh
    <3> QED
      BY <1>2, <3>1, SumSame DEF Brought
  <2>2. CASE read[h] = {p}
    <3>1. read[h] \ {p} = {}
      BY <2>2
    <3> QED
      BY <3>1, SumEmpty DEF Brought
  <2> QED
    BY <2>1, <2>2
<1>4. \A r \in read[h] : paid[r] \in Int
  BY <1>1
<1>5. SumFunctionOnSet(paid, read[h]) = paid[p] + SumFunctionOnSet(paid, read[h] \ {p})
  BY <1>1, <1>4, SumTakenOut
<1> QED
  BY <1>3, <1>5

Unpaid == \A r \in Live : row[r].outstanding = row[r].original - paid[r]

LEMMA JoinKeepsUnpaid ==
  ASSUME Typed, FreshInv, Unpaid, NEW h \in Requests, h \notin outdated,
         NEW p \in read[h], NEW extra \in Nat, NEW date, JoinInto(h, p, extra, date)
  PROVE  Unpaid'
<1>1. /\ read[h] \subseteq Live /\ (stage[h] = "join" \/ read[h] = {p})
      /\ row' = [r \in Rows |-> Joined(h, p, extra, date, r)]
      /\ paid' = [r \in Rows |-> JoinedPaid(h, p, r)]
  BY DEF JoinInto, Joined, JoinedPaid, Brought
<1>2. /\ read[h] \in SUBSET Rows /\ IsFiniteSet(read[h]) /\ Fresh(h)
      /\ row \in [Rows -> Row] /\ seen[h] \in [Rows -> Row]
      /\ \A r \in Rows : paid[r] \in Nat
  BY TypedSplit, RowSets DEF WorkTyped, RowsTyped, FreshInv
<1>3. /\ Brought(h, p) \in Nat
      /\ SumFunctionOnSet(paid, read[h]) = paid[p] + Brought(h, p)
  BY <1>1, JoinSums, BroughtTyped, TypedSplit
<1>4. OriginalOf(seen[h], read[h])
        = OutstandingOf(seen[h], read[h]) + SumFunctionOnSet(paid, read[h])
  <2> DEFINE f == [r \in read[h] |-> seen[h][r].outstanding]
             g == [r \in read[h] |-> seen[h][r].original]
  <2>1. \A r \in read[h] : f[r] \in Int /\ paid[r] \in Int /\ g[r] = f[r] + paid[r]
    <3> SUFFICES ASSUME NEW r \in read[h]
                 PROVE  f[r] \in Int /\ paid[r] \in Int /\ g[r] = f[r] + paid[r]
      OBVIOUS
    <3>1. r \in Live /\ r \in Rows /\ seen[h][r] = row[r]
      BY <1>1, <1>2 DEF Fresh
    <3>2. row[r].outstanding \in Nat /\ row[r].original \in Nat /\ paid[r] \in Nat
      BY <1>2, <3>1 DEF Row
    <3>3. row[r].outstanding = row[r].original - paid[r]
      BY <3>1 DEF Unpaid
    <3> QED
      BY <3>1, <3>2, <3>3
  <2> HIDE DEF f, g
  <2>2. SumFunctionOnSet(g, read[h])
          = SumFunctionOnSet(f, read[h]) + SumFunctionOnSet(paid, read[h])
    BY <1>2, <2>1, SumAdded
  <2> QED
    BY <2>2 DEF f, g, OriginalOf, OutstandingOf
<1>5. OriginalOf(seen[h], read[h]) \in Nat /\ OutstandingOf(seen[h], read[h]) \in Nat
  BY <1>2, TableSums
<1>6. ASSUME NEW r \in Rows, row'[r].state = "live"
      PROVE  row'[r].outstanding = row'[r].original - paid'[r]
  <2>1. row'[r] = Joined(h, p, extra, date, r) /\ paid'[r] = JoinedPaid(h, p, r)
    BY <1>1
  <2>2. CASE r = p
    <3>1. /\ row'[r].original = OriginalOf(seen[h], read[h]) + extra
          /\ row'[r].outstanding = Max({0, OutstandingOf(seen[h], read[h]) + extra})
          /\ paid'[r] = paid[p] + Brought(h, p)
      BY <2>1, <2>2 DEF Joined, JoinedPaid, With
    <3>2. OutstandingOf(seen[h], read[h]) + extra \in Int
          /\ OutstandingOf(seen[h], read[h]) + extra >= 0
      BY <1>5
    <3>3. Max({0, OutstandingOf(seen[h], read[h]) + extra})
            = OutstandingOf(seen[h], read[h]) + extra
      BY <3>2, NotBelowZero
    <3>4. paid[p] \in Nat
      BY <1>2
    <3> QED
      BY <1>3, <1>4, <1>5, <3>1, <3>3, <3>4
  <2>3. CASE r # p /\ r \in read[h]
    <3>1. row'[r].state = "deleted"
      BY <2>1, <2>3 DEF Joined, Deleted, NoRow
    <3> QED
      BY <1>6, <3>1
  <2>4. CASE r # p /\ r \notin read[h]
    BY <1>6, <2>1, <2>4 DEF Joined, JoinedPaid, Unpaid, Live
  <2> QED
    BY <2>2, <2>3, <2>4
<1> QED
  BY <1>6 DEF Unpaid, Live

\* A row is aligned with what its payments leave of what was missing.
LEMMA AlignedUnpaidStays ==
  ASSUME NEW r \in Row, NEW needed \in Nat, NEW booked \in Nat,
         r.outstanding = r.original - booked,
         ~ (Aligned(r, needed).original < booked)
  PROVE  Aligned(r, needed).outstanding = Aligned(r, needed).original - booked
<1>1. r.original \in Nat /\ r.outstanding \in Nat /\ r.original - r.outstanding = booked
  BY DEF Row
<1>2. CASE needed > 0
  <2>1. Aligned(r, needed) = With(r, needed, needed - booked, r.date)
    BY <1>1, <1>2 DEF Aligned
  <2>2. /\ Aligned(r, needed).original = needed
        /\ Aligned(r, needed).outstanding = Max({0, needed - booked})
    BY <2>1 DEF With
  <2>3. Max({0, needed - booked}) = needed - booked
    <3>1. needed - booked \in Int /\ needed - booked >= 0
      BY <2>2
    <3> QED
      BY <3>1, NotBelowZero
  <2> QED
    BY <2>2, <2>3
<1>3. CASE ~ (needed > 0)
  <2>1. Aligned(r, needed) = With(r, Max({0, booked}), 0, r.date)
    BY <1>1, <1>3 DEF Aligned
  <2>2. Max({0, booked}) = booked /\ Max({0, 0}) = 0
    BY NotBelowZero
  <2> QED
    BY <2>1, <2>2 DEF With
<1> QED
  BY <1>2, <1>3

\* The steps that write no row.
Reads ==
  \/ UNCHANGED vars
  \/ \E f \in Handovers : ReportMoves(f)
  \/ \E h \in Requests :
       \/ \E f \in Handovers, a \in {0} \cup Amounts :
            StartHandover(h, f, a) \/ StartRefresh(h, f, a)
       \/ \E a \in Amounts : StartManual(h, a) \/ StartSettle(h, a)
       \/ \E r \in Rows, a \in Amounts : StartPayment(h, r, a)
       \/ StartList(h)
       \/ WriteFloat(h) \/ FindForSync(h) \/ FindSource(h)
       \/ ReadOpenRows(h) \/ MovePayments(h) \/ Stop(h)

LEMMA ReadsChangeNoRow ==
  ASSUME Reads
  PROVE  UNCHANGED <<row, paid, overwritten, forgotten, charges, merged>>
<1>1. ASSUME NEW h \in Requests,
             \/ \E f \in Handovers, a \in {0} \cup Amounts :
                  StartHandover(h, f, a) \/ StartRefresh(h, f, a)
             \/ \E a \in Amounts : StartManual(h, a) \/ StartSettle(h, a)
             \/ \E r \in Rows, a \in Amounts : StartPayment(h, r, a)
             \/ StartList(h)
      PROVE  UNCHANGED <<row, paid, overwritten, forgotten, charges, merged>>
  BY <1>1
     DEF StartHandover, StartRefresh, StartManual, StartSettle, StartPayment,
         StartList, rows, history
<1>2. ASSUME NEW h \in Requests,
             \/ WriteFloat(h) \/ FindForSync(h) \/ FindSource(h)
             \/ ReadOpenRows(h) \/ MovePayments(h) \/ Stop(h)
      PROVE  UNCHANGED <<row, paid, overwritten, forgotten, charges, merged>>
  BY <1>2
     DEF WriteFloat, FindForSync, FindSource, ReadOpenRows, MovePayments, Stop,
         rows, history
<1>3. CASE UNCHANGED vars \/ \E f \in Handovers : ReportMoves(f)
  BY <1>3 DEF ReportMoves, vars, rows, history
<1> QED
  BY <1>1, <1>2, <1>3 DEF Reads

LEMMA ReadsOrWrites ==
  ASSUME [Next]_vars
  PROVE  \/ Reads
         \/ \E h \in Requests : Align(h) \/ ChargeNewRow(h) \/ ChargeOpenRow(h)
                                \/ MergeListed(h) \/ CommitPayment(h)
BY DEF Next, Reads

\* A merge is one of the rows that were read into the oldest of them.
LEMMA MergeJoins ==
  ASSUME Typed, FreshInv, NEW h \in Requests, ChargeOpenRow(h) \/ MergeListed(h)
  PROVE  \E p \in read[h], extra \in Nat : \E date : JoinInto(h, p, extra, date)
<1>1. read[h] # {}
  BY DEF ChargeOpenRow, MergeListed, FreshInv, Fresh
<1>2. Primary(seen[h], read[h]) \in read[h] /\ held[h].amount \in Nat
  BY <1>1, PrimaryIsRead, TypedSplit DEF WorkTyped, Input
<1>3. \/ JoinInto(h, Primary(seen[h], read[h]), held[h].amount, held[h].day)
      \/ JoinInto(h, Primary(seen[h], read[h]), 0, row[Primary(seen[h], read[h])].date)
  BY DEF ChargeOpenRow, MergeListed
<1> QED
  BY <1>2, <1>3

LEMMA UnpaidStep ==
  ASSUME Typed, FreshInv, OutstandingIsUnpaid, [Next]_vars
  PROVE  OutstandingIsUnpaid'
<1>1. SUFFICES ASSUME ~ overwritten', ~ forgotten' PROVE Unpaid'
  BY DEF OutstandingIsUnpaid, Unpaid
<1>2. ~ overwritten /\ ~ forgotten => Unpaid
  BY DEF OutstandingIsUnpaid, Unpaid
<1>3. /\ row \in [Rows -> Row] /\ \A r \in Rows : paid[r] \in Nat /\ row[r] \in Row
  BY TypedSplit DEF RowsTyped
<1>4. CASE Reads
  <2>1. UNCHANGED <<row, paid, overwritten, forgotten>>
    BY <1>4, ReadsChangeNoRow
  <2> QED
    BY <1>1, <1>2, <2>1 DEF Unpaid, Live
<1>5. ASSUME NEW h \in Requests, Align(h) PROVE Unpaid'
  <2>1. CASE UNCHANGED <<row, paid, outdated, overwritten, forgotten>>
    BY <1>1, <1>2, <2>1 DEF Unpaid, Live
  <2>2. ASSUME NEW r \in read[h], NEW new, new = Aligned(seen[h][r], held[h].amount),
               row' = [row EXCEPT ![r] = [new EXCEPT !.date = row[r].date]],
               paid' = paid, forgotten' = (forgotten \/ new.original < paid[r]),
               Writes(h, {r})
        PROVE  Unpaid'
    <3>1. ~ overwritten /\ h \notin outdated /\ ~ forgotten /\ ~ (new.original < paid[r])
      BY <1>1, <2>2 DEF Writes, Write
    <3>2. r \in Rows /\ r \in Live /\ seen[h][r] = row[r] /\ held[h].amount \in Nat
      BY <2>2, <3>1, TypedSplit DEF Writes, FreshInv, Fresh, WorkTyped, Input
    <3>3. row[r].outstanding = row[r].original - paid[r]
      BY <1>2, <3>1, <3>2 DEF Unpaid
    <3>4. new.outstanding = new.original - paid[r]
      BY <1>3, <2>2, <3>1, <3>2, <3>3, AlignedUnpaidStays
    <3>5. new \in Row
      BY <1>3, <2>2, <3>2, AlignedTyped
    <3>6. row'[r].outstanding = row'[r].original - paid'[r]
      BY <1>3, <2>2, <3>2, <3>4, <3>5 DEF Row
    <3>7. \A q \in Rows \ {r} : row'[q] = row[q] /\ paid'[q] = paid[q]
      BY <2>2 DEF Writes
    <3> QED
      BY <1>2, <3>1, <3>6, <3>7 DEF Unpaid, Live
  <2> QED
    BY <1>5, <2>1, <2>2, AlignIs
<1>6. ASSUME NEW h \in Requests, ChargeNewRow(h) PROVE Unpaid'
  <2>1. PICK r \in Rows :
          /\ row[r].state = "none"
          /\ row' = [row EXCEPT ![r] =
               [state |-> "live", source |-> held[h].source, original |-> held[h].amount,
                outstanding |-> held[h].amount, date |-> held[h].day, status |-> "OPEN"]]
    BY <1>6 DEF ChargeNewRow
  <2>2. paid' = paid /\ overwritten' = overwritten /\ forgotten' = forgotten
    BY <1>6 DEF ChargeNewRow
  <2>3. paid[r] = 0 /\ held[h].amount \in Nat
    BY <2>1, TypedSplit DEF FreshInv, WorkTyped, Input
  <2>4. row'[r].outstanding = row'[r].original - paid'[r]
    BY <1>3, <2>1, <2>2, <2>3
  <2>5. \A q \in Rows \ {r} : row'[q] = row[q]
    BY <1>3, <2>1
  <2> QED
    BY <1>1, <1>2, <2>2, <2>4, <2>5 DEF Unpaid, Live
<1>7. ASSUME NEW h \in Requests, ChargeOpenRow(h) \/ MergeListed(h) PROVE Unpaid'
  <2>1. PICK p \in read[h], extra \in Nat : \E date : JoinInto(h, p, extra, date)
    BY <1>7, MergeJoins
  <2>2. PICK date : JoinInto(h, p, extra, date)
    BY <2>1
  <2>3. ~ overwritten /\ h \notin outdated
    BY <1>1, <2>2 DEF JoinInto, Write
  <2>4. ~ forgotten
    BY <1>1, <1>7 DEF ChargeOpenRow, MergeListed
  <2> QED
    BY <1>2, <2>2, <2>3, <2>4, JoinKeepsUnpaid
<1>8. ASSUME NEW h \in Requests, CommitPayment(h) PROVE Unpaid'
  <2>1. /\ row' = [r \in Rows |-> PaidRow(h, r)]
        /\ paid' = [r \in Rows |-> IF r \in Reached(h) THEN paid[r] + Applied(h, r)
                                   ELSE paid[r]]
        /\ Reached(h) \subseteq Live /\ Write(h, Reached(h)) /\ forgotten' = forgotten
    BY <1>8 DEF CommitPayment, Reached, LeftOpen, PaidRow
  <2>2. ~ overwritten /\ h \notin outdated /\ ~ forgotten
    BY <1>1, <2>1 DEF Write
  <2>3. ASSUME NEW r \in Reached(h)
        PROVE  row'[r].outstanding = row'[r].original - paid'[r]
    <3>1. r \in Rows /\ r \in Live /\ r \in read[h] /\ seen[h][r] = row[r]
      BY <2>1, <2>2 DEF Reached, Live, FreshInv, Fresh
    <3>2. row[r].outstanding = row[r].original - paid[r]
      BY <1>2, <2>2, <3>1 DEF Unpaid
    <3>3. Applied(h, r) \in Nat
      BY <3>1, AppliedFits, TypedSplit
    <3>4. row[r].outstanding \in Nat /\ row[r].original \in Nat /\ paid[r] \in Nat
          /\ row[r] \in Row
      BY <1>3, <3>1 DEF Row
    <3>5. /\ PaidRow(h, r).outstanding = row[r].outstanding - Applied(h, r)
          /\ PaidRow(h, r).original = row[r].original
      BY <3>1, <3>4 DEF PaidRow, LeftOpen, Row
    <3>6. row'[r] = PaidRow(h, r) /\ paid'[r] = paid[r] + Applied(h, r)
      BY <2>1, <3>1
    <3> QED
      BY <3>2, <3>3, <3>4, <3>5, <3>6
  <2>4. ASSUME NEW r \in Rows \ Reached(h)
        PROVE  row'[r] = row[r] /\ paid'[r] = paid[r]
    BY <2>1, <2>4 DEF PaidRow
  <2> QED
    BY <1>2, <2>2, <2>3, <2>4 DEF Unpaid, Live
<1> QED
  BY <1>4, <1>5, <1>6, <1>7, <1>8, ReadsOrWrites

\* However charges, merges, corrections and payments interleave, what is outstanding
\* on a row is its amount less the payments booked on it, until a row is written from
\* an outdated read or lowered below what had been paid on it.
THEOREM OutstandingIsOwed == Spec => []OutstandingIsUnpaid
<1>1. Init => OutstandingIsUnpaid
  <2> SUFFICES ASSUME Init, NEW r \in Live
               PROVE  row[r].outstanding = row[r].original - paid[r]
    BY DEF OutstandingIsUnpaid
  <2>1. r \in Rows /\ row[r].state = "live" /\ paid[r] = 0
    BY DEF Init, Live
  <2>2. PICK a \in Earlier : row[r].outstanding = a /\ row[r].original = a
    BY <2>1 DEF Init, NoRow
  <2>3. a \in Nat
    BY AmountsAreNumbers
  <2> QED
    BY <2>1, <2>2, <2>3
<1>2. Typed /\ FreshInv /\ OutstandingIsUnpaid /\ [Next]_vars => OutstandingIsUnpaid'
  BY UnpaidStep
<1> QED
  BY <1>1, <1>2, FreshHolds, PTL DEF Spec

-----------------------------------------------------------------------------
(* Payments are kept.                                                      *)

LEMMA JoinKeepsPayments ==
  ASSUME Typed, FreshInv, NEW h \in Requests, h \notin outdated \/ stage[h] # "join",
         NEW p \in read[h], NEW extra, NEW date, JoinInto(h, p, extra, date)
  PROVE  PaymentsBooked' = PaymentsBooked
<1>1. /\ stage[h] = "join" \/ read[h] = {p}
      /\ paid' = [r \in Rows |-> JoinedPaid(h, p, r)]
  BY DEF JoinInto, JoinedPaid, Brought
<1>2. /\ read[h] \in SUBSET Rows /\ IsFiniteSet(read[h]) /\ Fresh(h) /\ IsFiniteSet(Rows)
      /\ IsFiniteSet(read[h] \ {p}) /\ IsFiniteSet(Rows \ read[h])
      /\ \A r \in Rows : paid[r] \in Nat
  BY TypedSplit, RowSets DEF WorkTyped, RowsTyped, FreshInv
<1>3. Brought(h, p) \in Nat
  BY BroughtTyped, TypedSplit
<1>4. SumFunctionOnSet(paid, read[h]) = paid[p] + Brought(h, p)
  <2>1. CASE h \notin outdated
    BY <1>1, <2>1, JoinSums
  <2>2. CASE read[h] = {p}
    <3>1. read[h] \ {p} = {} /\ paid[p] \in Int
      BY <1>2, <2>2
    <3>2. Brought(h, p) = 0
      BY <3>1, SumEmpty DEF Brought
    <3>3. SumFunctionOnSet(paid, read[h]) = paid[p]
      BY <2>2, <3>1, SumOne
    <3> QED
      BY <3>1, <3>2, <3>3
  <2> QED
    BY <1>1, <2>1, <2>2
<1>5. /\ \A r \in Rows : paid[r] \in Int /\ paid'[r] \in Int
      /\ paid'[p] = paid[p] + Brought(h, p)
      /\ \A r \in read[h] \ {p} : paid'[r] = 0
      /\ \A r \in Rows \ read[h] : paid'[r] = paid[r]
  BY <1>1, <1>2, <1>3 DEF JoinedPaid
<1>6. SumFunctionOnSet(paid', read[h]) = SumFunctionOnSet(paid, read[h])
  <2>1. SumFunctionOnSet(paid', read[h] \ {p}) = 0
    BY <1>2, <1>5, SumOfZeros
  <2>2. \A r \in read[h] : paid'[r] \in Int
    BY <1>2, <1>5
  <2>3. SumFunctionOnSet(paid', read[h])
          = paid'[p] + SumFunctionOnSet(paid', read[h] \ {p})
    BY <1>2, <2>2, SumTakenOut
  <2> QED
    BY <1>2, <1>3, <1>4, <1>5, <2>1, <2>3
<1>7. SumFunctionOnSet(paid', Rows \ read[h]) = SumFunctionOnSet(paid, Rows \ read[h])
  BY <1>2, <1>5, SumSame
<1>8. SumFunctionOnSet(paid, Rows)
        = SumFunctionOnSet(paid, read[h]) + SumFunctionOnSet(paid, Rows \ read[h])
  BY <1>2, <1>5, SumSplit
<1>9. SumFunctionOnSet(paid', Rows)
        = SumFunctionOnSet(paid', read[h]) + SumFunctionOnSet(paid', Rows \ read[h])
  BY <1>2, <1>5, SumSplit
<1> QED
  BY <1>6, <1>7, <1>8, <1>9 DEF PaymentsBooked

LEMMA PaymentsStep ==
  ASSUME Typed, FreshInv, [Next]_vars
  PROVE  \/ PaymentsBooked' >= PaymentsBooked
         \/ \E h \in outdated : stage[h] = "join" /\ stage'[h] # "join"
<1>1. PaymentsBooked \in Int
  <2>1. \A r \in Rows : paid[r] \in Int
    BY TypedSplit DEF RowsTyped
  <2> QED
    BY <2>1, RowSets, SumInt DEF PaymentsBooked
<1>2. ASSUME paid' = paid PROVE PaymentsBooked' >= PaymentsBooked
  BY <1>1, <1>2 DEF PaymentsBooked
<1>3. CASE Reads
  BY <1>2, <1>3, ReadsChangeNoRow
<1>4. ASSUME NEW h \in Requests, Align(h) \/ ChargeNewRow(h)
      PROVE  PaymentsBooked' >= PaymentsBooked
  BY <1>2, <1>4 DEF Align, ChargeNewRow, rows
<1>5. ASSUME NEW h \in Requests, ChargeOpenRow(h) \/ MergeListed(h)
      PROVE  \/ PaymentsBooked' >= PaymentsBooked
             \/ \E g \in outdated : stage[g] = "join" /\ stage'[g] # "join"
  <2>1. PICK p \in read[h], extra \in Nat : \E date : JoinInto(h, p, extra, date)
    BY <1>5, MergeJoins
  <2>2. CASE h \notin outdated \/ stage[h] # "join"
    BY <1>1, <2>1, <2>2, JoinKeepsPayments
  <2>3. CASE h \in outdated /\ stage[h] = "join"
    <3>1. Done(h) \/ Finish(h)
      BY <1>5 DEF ChargeOpenRow, MergeListed
    <3>2. stage'[h] # "join"
      BY <3>1, DoneRests, TypedSplit
    <3> QED
      BY <2>3, <3>2
  <2> QED
    BY <2>2, <2>3
<1>6. ASSUME NEW h \in Requests, CommitPayment(h)
      PROVE  PaymentsBooked' >= PaymentsBooked
  <2>1. paid' = [r \in Rows |-> IF r \in Reached(h) THEN paid[r] + Applied(h, r)
                                ELSE paid[r]]
    BY <1>6 DEF CommitPayment, Reached
  <2>2. ASSUME NEW r \in Rows
        PROVE  paid[r] \in Int /\ paid'[r] \in Int /\ paid[r] <= paid'[r]
    <3>1. paid[r] \in Nat /\ Applied(h, r) \in Nat
      BY AppliedFits, TypedSplit DEF RowsTyped
    <3> QED
      BY <2>1, <3>1
  <2>3. IsFiniteSet(Rows)
    BY RowSets
  <2>4. SumFunctionOnSet(paid, Rows) <= SumFunctionOnSet(paid', Rows)
    BY <2>2, <2>3, SumMonotone
  <2>5. SumFunctionOnSet(paid', Rows) \in Int
    BY <2>2, <2>3, SumInt
  <2> QED
    BY <1>1, <2>4, <2>5 DEF PaymentsBooked
<1> QED
  BY <1>3, <1>4, <1>5, <1>6, ReadsOrWrites

\* What has been paid in all never becomes less, except by a merge of rows whose
\* payments were moved before a later one was booked on them.
THEOREM PaymentsAreKept == Spec => PaymentsOnlyGrow
<1>1. Typed /\ FreshInv /\ [Next]_vars =>
        [\/ PaymentsBooked' >= PaymentsBooked
         \/ \E h \in outdated : stage[h] = "join" /\ stage'[h] # "join"]_vars
  BY PaymentsStep
<1> QED
  BY <1>1, FreshHolds, PTL DEF Spec, PaymentsOnlyGrow

-----------------------------------------------------------------------------
(* A row is cleared exactly when nothing is outstanding on it.             *)

\* Nothing is charged that is not missing.
AmountInv ==
  \A h \in Requests : stage[h] \in {"find", "open", "charge"} => held[h].amount > 0

LEMMA CameKeepsAmount ==
  ASSUME AmountInv, NEW h \in Requests, NEW step, NEW input, NEW S,
         Came(h, step, input, S), OnlyOf(h),
         step \in {"find", "open", "charge"} => input.amount > 0
  PROVE  AmountInv'
BY DEF AmountInv, Came, OnlyOf

LEMMA AmountStep ==
  ASSUME Typed, AmountInv, [Next]_vars
  PROVE  AmountInv'
<1>0. WorkTyped
  BY TypedSplit
<1>1. ASSUME NEW h \in Requests, NEW step, NEW input, NEW S \in SUBSET Rows,
             Enter(h, step, input, S) \/ Begin(h, step, input, S),
             step \in {"find", "open", "charge"} => input.amount > 0
      PROVE  AmountInv'
  BY <1>0, <1>1, EnterCame, CameKeepsAmount
<1>2. ASSUME NEW h \in Requests, Done(h) \/ Finish(h) PROVE AmountInv'
  <2>1. stage'[h] \in {"idle", "sync"} /\ OnlyOf(h)
    BY <1>0, <1>2, DoneRests
  <2> QED
    BY <2>1 DEF AmountInv, OnlyOf
<1>3. {} \in SUBSET Rows /\ OpenRows \in SUBSET Rows
      /\ \A r \in Live : {r} \in SUBSET Rows
  BY DEF OpenRows, Live
<1>4. CASE UNCHANGED vars \/ \E f \in Handovers : ReportMoves(f)
  BY <1>4 DEF AmountInv, ReportMoves, vars, work
<1>5. ASSUME NEW h \in Requests,
             \/ \E f \in Handovers, a \in {0} \cup Amounts :
                  StartHandover(h, f, a) \/ StartRefresh(h, f, a)
             \/ \E a \in Amounts : StartSettle(h, a)
             \/ \E r \in Rows, a \in Amounts : StartPayment(h, r, a)
             \/ StartList(h)
      PROVE  AmountInv'
  <2>1. \/ \E input : Begin(h, "float", input, {})
        \/ \E input : Begin(h, "sync", input, {})
        \/ \E input : Begin(h, "pay", input, OpenRows)
        \/ \E r \in Live : \E input : Begin(h, "pay", input, {r})
        \/ \E input : Begin(h, "merge", input, OpenRows)
    BY <1>5 DEF StartHandover, StartRefresh, StartSettle, StartPayment, StartList
  <2> QED
    BY <1>1, <1>3, <2>1
<1>6. ASSUME NEW h \in Requests, NEW a \in Amounts, StartManual(h, a) PROVE AmountInv'
  <2> DEFINE input == [source |-> Manual, amount |-> a, day |-> 1,
                       revises |-> FALSE, creates |-> TRUE]
  <2>1. input.amount > 0
    BY AmountsAreNumbers
  <2>2. Begin(h, "open", input, {})
    BY <1>6 DEF StartManual
  <2> HIDE DEF input
  <2> QED
    BY <1>1, <1>3, <2>1, <2>2
<1>7. ASSUME NEW h \in Requests,
             \/ WriteFloat(h) \/ FindForSync(h) \/ FindSource(h) \/ ReadOpenRows(h)
      PROVE  AmountInv'
  <2>1. \/ Enter(h, "sync", held[h], {})
        \/ Enter(h, "find", held[h], {}) /\ held[h].amount > 0
        \/ \E r \in RowsOf(held[h].source) : Enter(h, "align", held[h], {r})
        \/ Enter(h, "open", held[h], {}) /\ stage[h] = "find"
        \/ Enter(h, "charge", held[h], OpenRows) /\ stage[h] = "open"
        \/ Done(h) \/ Finish(h)
    BY <1>7 DEF WriteFloat, FindForSync, FindSource, ReadOpenRows
  <2>2. stage[h] \in {"find", "open"} => held[h].amount > 0
    BY DEF AmountInv
  <2>3. CASE Enter(h, "find", held[h], {}) /\ held[h].amount > 0
    BY <1>1, <1>3, <2>3
  <2>4. CASE Enter(h, "open", held[h], {}) /\ stage[h] = "find"
    BY <1>1, <1>3, <2>2, <2>4
  <2>5. CASE Enter(h, "charge", held[h], OpenRows) /\ stage[h] = "open"
    BY <1>1, <1>3, <2>2, <2>5
  <2>6. CASE Enter(h, "sync", held[h], {})
    BY <1>1, <1>3, <2>6
  <2>7. ASSUME NEW r \in RowsOf(held[h].source), Enter(h, "align", held[h], {r})
        PROVE  AmountInv'
    <3>1. {r} \in SUBSET Rows
      BY DEF RowsOf, Live
    <3> QED
      BY <1>1, <2>7, <3>1
  <2> QED
    BY <1>2, <2>1, <2>3, <2>4, <2>5, <2>6, <2>7
<1>8. ASSUME NEW h \in Requests, MovePayments(h) PROVE AmountInv'
  BY <1>0, <1>8 DEF AmountInv, MovePayments, WorkTyped
<1>9. ASSUME NEW h \in Requests,
             \/ Align(h) \/ ChargeNewRow(h) \/ ChargeOpenRow(h) \/ MergeListed(h)
             \/ CommitPayment(h) \/ Stop(h)
      PROVE  AmountInv'
  <2>1. Done(h) \/ Finish(h)
    BY <1>9 DEF Align, ChargeNewRow, ChargeOpenRow, MergeListed, CommitPayment, Stop
  <2> QED
    BY <1>2, <2>1
<1> QED
  BY <1>4, <1>5, <1>6, <1>7, <1>8, <1>9 DEF Next

Settled(r) == r.status = "CLEARED" <=> r.outstanding = 0

LEMMA WithSettled ==
  ASSUME NEW r, NEW original \in Int, NEW outstanding \in Int, NEW date
  PROVE  Settled(With(r, original, outstanding, date))
<1>1. Max({0, outstanding}) = (IF outstanding > 0 THEN outstanding ELSE 0)
  BY NotBelowZero
<1>2. /\ With(r, original, outstanding, date).status = StatusFor(original, outstanding)
      /\ With(r, original, outstanding, date).outstanding = Max({0, outstanding})
  BY DEF With
<1> QED
  BY <1>1, <1>2 DEF Settled, StatusFor

LEMMA SettledStep ==
  ASSUME Typed, FreshInv, AmountInv, ClearedExactlyWhenSettled, [Next]_vars
  PROVE  ClearedExactlyWhenSettled'
<1>1. SUFFICES ASSUME NEW r \in Rows, row'[r].state = "live" PROVE Settled(row'[r])
  BY DEF ClearedExactlyWhenSettled, Settled, Live
<1>2. row[r].state = "live" => Settled(row[r])
  BY DEF ClearedExactlyWhenSettled, Settled, Live
<1>3. row \in [Rows -> Row] /\ row[r] \in Row
  BY TypedSplit DEF RowsTyped
<1>4. CASE row'[r] = row[r]
  BY <1>1, <1>2, <1>4
<1>5. ASSUME NEW h \in Requests, Align(h) PROVE Settled(row'[r])
  <2>1. CASE UNCHANGED <<row, paid, outdated, overwritten, forgotten>>
    BY <1>4, <2>1
  <2>2. ASSUME NEW q \in read[h], NEW new, new = Aligned(seen[h][q], held[h].amount),
               row' = [row EXCEPT ![q] = [new EXCEPT !.date = row[q].date]]
        PROVE  Settled(row'[r])
    <3>1. q \in Rows /\ seen[h][q] \in Row /\ held[h].amount \in Nat
      BY TypedSplit DEF WorkTyped, Input
    <3>2. new \in Row
      BY <2>2, <3>1, AlignedTyped
    <3>3. Settled(new)
      <4>1. seen[h][q].original \in Nat /\ seen[h][q].outstanding \in Nat
        BY <3>1 DEF Row
      <4> DEFINE settled == seen[h][q].original - seen[h][q].outstanding
      <4>2. settled \in Int /\ Max({0, settled}) \in Nat
        BY <4>1, NotBelowZero
      <4>3. new = IF held[h].amount > 0
                  THEN With(seen[h][q], held[h].amount, held[h].amount - settled,
                            seen[h][q].date)
                  ELSE With(seen[h][q], Max({0, settled}), 0, seen[h][q].date)
        BY <2>2 DEF Aligned
      <4> HIDE DEF settled
      <4>4. held[h].amount \in Int /\ held[h].amount - settled \in Int
            /\ Max({0, settled}) \in Int
        BY <3>1, <4>2
      <4>5. Settled(With(seen[h][q], held[h].amount, held[h].amount - settled,
                         seen[h][q].date))
        BY <4>4, WithSettled
      <4>6. Settled(With(seen[h][q], Max({0, settled}), 0, seen[h][q].date))
        BY <4>4, WithSettled
      <4> QED
        BY <4>3, <4>5, <4>6
    <3>4. CASE r = q
      BY <1>3, <2>2, <3>2, <3>3, <3>4 DEF Settled, Row
    <3>5. CASE r # q
      BY <1>3, <1>4, <2>2, <3>5
    <3> QED
      BY <3>4, <3>5
  <2> QED
    BY <1>5, <2>1, <2>2, AlignIs
<1>6. ASSUME NEW h \in Requests, ChargeNewRow(h) PROVE Settled(row'[r])
  <2>1. PICK q \in Rows :
          row' = [row EXCEPT ![q] =
            [state |-> "live", source |-> held[h].source, original |-> held[h].amount,
             outstanding |-> held[h].amount, date |-> held[h].day, status |-> "OPEN"]]
    BY <1>6 DEF ChargeNewRow
  <2>2. held[h].amount > 0 /\ held[h].amount \in Nat
    BY <1>6, TypedSplit DEF ChargeNewRow, AmountInv, WorkTyped, Input
  <2> QED
    BY <1>3, <1>4, <2>1, <2>2 DEF Settled
<1>7. ASSUME NEW h \in Requests, ChargeOpenRow(h) \/ MergeListed(h)
      PROVE  Settled(row'[r])
  <2>1. PICK p \in read[h], extra \in Nat : \E date : JoinInto(h, p, extra, date)
    BY <1>7, MergeJoins
  <2>2. PICK date : row' = [q \in Rows |-> Joined(h, p, extra, date, q)]
    BY <2>1 DEF JoinInto, Joined
  <2>3. row'[r] = Joined(h, p, extra, date, r)
    BY <2>2
  <2>4. CASE r = p
    <3>1. OriginalOf(seen[h], read[h]) \in Nat /\ OutstandingOf(seen[h], read[h]) \in Nat
      BY TableSums, TypedSplit DEF WorkTyped
    <3>2. /\ OriginalOf(seen[h], read[h]) + extra \in Int
          /\ OutstandingOf(seen[h], read[h]) + extra \in Int
      BY <3>1
    <3> QED
      BY <2>3, <2>4, <3>2, WithSettled DEF Joined
  <2>5. CASE r # p /\ r \in read[h]
    <3>1. row'[r].state = "deleted"
      BY <2>3, <2>5 DEF Joined, Deleted, NoRow
    <3> QED
      BY <1>1, <3>1
  <2>6. CASE r # p /\ r \notin read[h]
    BY <1>4, <2>3, <2>6 DEF Joined
  <2> QED
    BY <2>4, <2>5, <2>6
<1>8. ASSUME NEW h \in Requests, CommitPayment(h) PROVE Settled(row'[r])
  <2>1. row' = [q \in Rows |-> PaidRow(h, q)]
    BY <1>8 DEF CommitPayment, Reached, LeftOpen, PaidRow
  <2>2. CASE r \in Reached(h)
    <3>1. Applied(h, r) \in Nat /\ Applied(h, r) <= seen[h][r].outstanding
      BY AppliedFits, TypedSplit
    <3>2. seen[h][r].outstanding \in Nat
      BY TypedSplit DEF WorkTyped, Row
    <3>3. LeftOpen(h, r) \in Nat
      BY <3>1, <3>2 DEF LeftOpen
    <3>4. /\ PaidRow(h, r).outstanding = LeftOpen(h, r)
          /\ PaidRow(h, r).status
               = (IF LeftOpen(h, r) <= 0 THEN "CLEARED" ELSE "PARTIALLY_PAID")
      BY <1>3, <2>2 DEF PaidRow, Row
    <3>5. row'[r] = PaidRow(h, r)
      BY <2>1
    <3> QED
      BY <3>3, <3>4, <3>5 DEF Settled
  <2>3. CASE r \notin Reached(h)
    BY <1>4, <2>1, <2>3 DEF PaidRow
  <2> QED
    BY <2>2, <2>3
<1>9. CASE Reads
  <2>1. row' = row
    BY <1>9, ReadsChangeNoRow
  <2> QED
    BY <1>4, <2>1
<1> QED
  BY <1>5, <1>6, <1>7, <1>8, <1>9, ReadsOrWrites

\* Whatever is read too early and written late, a row is cleared exactly if nothing
\* is outstanding on it: no debt is hidden from the lists of open shortages.
THEOREM ClearedMeansSettled == Spec => []ClearedExactlyWhenSettled
<1>1. Init => AmountInv
  BY DEF Init, AmountInv
<1>2. Init => ClearedExactlyWhenSettled
  <2> SUFFICES ASSUME Init, NEW r \in Live PROVE Settled(row[r])
    BY DEF ClearedExactlyWhenSettled, Settled
  <2>1. r \in Rows /\ row[r].state = "live"
    BY DEF Live
  <2>2. PICK a \in Earlier : row[r].outstanding = a /\ row[r].status = "OPEN"
    BY <2>1 DEF Init, NoRow
  <2>3. a > 0
    BY AmountsAreNumbers
  <2> QED
    BY <2>2, <2>3 DEF Settled
<1>3. Typed /\ FreshInv /\ AmountInv /\ ClearedExactlyWhenSettled /\ [Next]_vars
        => AmountInv' /\ ClearedExactlyWhenSettled'
  BY AmountStep, SettledStep
<1> QED
  BY <1>1, <1>2, <1>3, FreshHolds, PTL DEF Spec

-----------------------------------------------------------------------------
(* A handover is charged once.                                             *)

\* A request keeps what it has read, reads again what there is, or lets it go.
LEMMA ReadStep ==
  ASSUME Typed, [Next]_vars, NEW g \in Requests
  PROVE  \/ read'[g] = read[g] /\ seen'[g] = seen[g]
         \/ read'[g] = {}
         \/ UNCHANGED row /\ \A r \in read'[g] : seen'[g][r] = row[r]
<1> DEFINE Goal == \/ read'[g] = read[g] /\ seen'[g] = seen[g]
                   \/ read'[g] = {}
                   \/ UNCHANGED row /\ \A r \in read'[g] : seen'[g][r] = row[r]
<1>0. WorkTyped
  BY TypedSplit
<1>1. ASSUME NEW h \in Requests, NEW step, NEW input, NEW S \in SUBSET Rows,
             Enter(h, step, input, S) \/ Begin(h, step, input, S), UNCHANGED row
      PROVE  Goal
  <2>1. Came(h, step, input, S) /\ OnlyOf(h)
    BY <1>0, <1>1, EnterCame
  <2> QED
    BY <1>1, <2>1 DEF Came, OnlyOf
<1>2. ASSUME NEW h \in Requests, Done(h) \/ Finish(h) PROVE Goal
  <2>1. read'[h] = {} /\ OnlyOf(h)
    BY <1>0, <1>2, DoneRests
  <2> QED
    BY <2>1 DEF OnlyOf
<1>3. {} \in SUBSET Rows /\ OpenRows \in SUBSET Rows /\ Live \subseteq Rows
  BY DEF OpenRows, Live
<1>4. ASSUME UNCHANGED vars \/ \E f \in Handovers : ReportMoves(f) PROVE Goal
  BY <1>4 DEF ReportMoves, vars, work
<1>5. ASSUME NEW h \in Requests,
             \/ \E f \in Handovers, a \in {0} \cup Amounts :
                  StartHandover(h, f, a) \/ StartRefresh(h, f, a)
             \/ \E a \in Amounts : StartManual(h, a) \/ StartSettle(h, a)
             \/ \E r \in Rows, a \in Amounts : StartPayment(h, r, a)
             \/ StartList(h)
      PROVE  Goal
  <2>1. /\ UNCHANGED row
        /\ \/ \E step, input : Begin(h, step, input, {})
           \/ \E step, input : Begin(h, step, input, OpenRows)
           \/ \E r \in Live : \E step, input : Begin(h, step, input, {r})
    BY <1>5
       DEF StartHandover, StartRefresh, StartManual, StartSettle, StartPayment,
           StartList, rows
  <2>2. \A r \in Live : {r} \in SUBSET Rows
    BY <1>3
  <2> HIDE DEF Goal
  <2> QED
    BY <1>1, <1>3, <2>1, <2>2
<1>6. ASSUME NEW h \in Requests,
             \/ WriteFloat(h) \/ FindForSync(h) \/ FindSource(h) \/ ReadOpenRows(h)
      PROVE  Goal
  <2>1. /\ UNCHANGED row
        /\ \/ \E step : Enter(h, step, held[h], {})
           \/ \E step : Enter(h, step, held[h], OpenRows)
           \/ \E r \in Live : \E step : Enter(h, step, held[h], {r})
           \/ Done(h) \/ Finish(h)
    BY <1>6 DEF WriteFloat, FindForSync, FindSource, ReadOpenRows, RowsOf, rows
  <2>2. \A r \in Live : {r} \in SUBSET Rows
    BY <1>3
  <2> HIDE DEF Goal
  <2> QED
    BY <1>1, <1>2, <1>3, <2>1, <2>2
<1>7. ASSUME NEW h \in Requests, MovePayments(h) PROVE Goal
  BY <1>7 DEF MovePayments
<1>8. ASSUME NEW h \in Requests,
             \/ Align(h) \/ ChargeNewRow(h) \/ ChargeOpenRow(h) \/ MergeListed(h)
             \/ CommitPayment(h) \/ Stop(h)
      PROVE  Goal
  <2>1. Done(h) \/ Finish(h)
    BY <1>8 DEF Align, ChargeNewRow, ChargeOpenRow, MergeListed, CommitPayment, Stop
  <2> HIDE DEF Goal
  <2> QED
    BY <1>2, <2>1
<1> HIDE DEF Goal
<1>9. Goal
  BY <1>4, <1>5, <1>6, <1>7, <1>8 DEF Next
<1> QED
  BY <1>9 DEF Goal

\* A row keeps its source as long as it lives, however old the read is that a request
\* writes it from.
SourceInv ==
  \A h \in Requests : \A r \in read[h] :
    row[r].state = "live" => seen[h][r].source = row[r].source

SourceKept(r) ==
  /\ row[r].state # "none"
  /\ row'[r].state = "live"
  => row[r].state = "live" /\ row'[r].source = row[r].source

\* A row that is written lives on, with its source; one that goes has its source
\* on record as merged.
LEMMA SourcesKept ==
  ASSUME Typed, FreshInv, SourceInv, [Next]_vars, NEW r \in Rows
  PROVE  /\ SourceKept(r)
         /\ row[r].source \notin merged' /\ row[r].state = "live" => row'[r].state = "live"
<1> DEFINE Goal == /\ SourceKept(r)
                   /\ row[r].source \notin merged' /\ row[r].state = "live"
                      => row'[r].state = "live"
<1>0. row \in [Rows -> Row] /\ row[r] \in Row
  BY TypedSplit DEF RowsTyped
<1>1. ASSUME row'[r] = row[r] PROVE Goal
  BY <1>1 DEF SourceKept
<1>2. ASSUME NEW h \in Requests, Align(h) PROVE Goal
  <2>1. CASE UNCHANGED <<row, paid, outdated, overwritten, forgotten>>
    BY <1>1, <2>1
  <2>2. ASSUME NEW q \in read[h], NEW new, new = Aligned(seen[h][q], held[h].amount),
               row' = [row EXCEPT ![q] = [new EXCEPT !.date = row[q].date]],
               Writes(h, {q})
        PROVE  Goal
    <3>1. q \in Rows /\ row[q].state = "live" /\ seen[h][q].source = row[q].source
          /\ seen[h][q] \in Row /\ held[h].amount \in Nat
      BY <2>2, TypedSplit DEF Writes, SourceInv, WorkTyped, Input, Live
    <3>2. new \in Row
      BY <2>2, <3>1, AlignedTyped
    <3>3. new.state = "live" /\ new.source = row[q].source
      BY <2>2, <3>1 DEF Aligned, With
    <3>4. CASE r = q
      <4>1. row'[r].state = "live" /\ row'[r].source = row[r].source
        BY <1>0, <2>2, <3>1, <3>2, <3>3, <3>4 DEF Row
      <4> QED
        BY <3>1, <3>4, <4>1 DEF SourceKept
    <3>5. CASE r # q
      BY <1>0, <1>1, <2>2, <3>5
    <3> QED
      BY <3>4, <3>5
  <2> HIDE DEF Goal
  <2> QED
    BY <1>2, <2>1, <2>2, AlignIs
<1>3. ASSUME NEW h \in Requests, ChargeNewRow(h) PROVE Goal
  <2>1. PICK q \in Rows :
          /\ row[q].state = "none"
          /\ row' = [row EXCEPT ![q] =
               [state |-> "live", source |-> held[h].source, original |-> held[h].amount,
                outstanding |-> held[h].amount, date |-> held[h].day, status |-> "OPEN"]]
    BY <1>3 DEF ChargeNewRow
  <2>2. CASE r = q
    BY <2>1, <2>2 DEF SourceKept
  <2>3. CASE r # q
    BY <1>0, <1>1, <2>1, <2>3
  <2> QED
    BY <2>2, <2>3
<1>4. ASSUME NEW h \in Requests, ChargeOpenRow(h) \/ MergeListed(h) PROVE Goal
  <2>1. PICK p \in read[h], extra \in Nat : \E date : JoinInto(h, p, extra, date)
    BY <1>4, MergeJoins
  <2>2. PICK date : /\ row' = [q \in Rows |-> Joined(h, p, extra, date, q)]
                    /\ read[h] \subseteq Live /\ merged' = merged \cup Absorbed(h, p)
    BY <2>1 DEF JoinInto, Joined, Absorbed
  <2>3. row'[r] = Joined(h, p, extra, date, r)
    BY <2>2
  <2>4. CASE r = p
    <3>1. /\ row'[r].source = row[r].source
          /\ row[r].state = "live" /\ row'[r].state = "live"
      BY <2>2, <2>3, <2>4 DEF Joined, With, Live
    <3> QED
      BY <3>1 DEF SourceKept
  <2>5. CASE r # p /\ r \in read[h]
    <3>1. row'[r].state = "deleted"
      BY <2>3, <2>5 DEF Joined, Deleted, NoRow
    <3>2. row[r].source \in merged'
      BY <2>2, <2>5 DEF Absorbed
    <3> QED
      BY <3>1, <3>2 DEF SourceKept
  <2>6. CASE r # p /\ r \notin read[h]
    BY <1>1, <2>3, <2>6 DEF Joined
  <2> QED
    BY <2>4, <2>5, <2>6
<1>5. ASSUME NEW h \in Requests, CommitPayment(h) PROVE Goal
  <2>1. row' = [q \in Rows |-> PaidRow(h, q)]
    BY <1>5 DEF CommitPayment, Reached, LeftOpen, PaidRow
  <2>2. row'[r].state = row[r].state /\ row'[r].source = row[r].source
    BY <1>0, <2>1 DEF PaidRow, Row
  <2> QED
    BY <2>2 DEF SourceKept
<1>6. ASSUME Reads PROVE Goal
  <2>1. row' = row
    BY <1>6, ReadsChangeNoRow
  <2> QED
    BY <1>1, <2>1
<1> HIDE DEF Goal
<1>7. Goal
  BY <1>2, <1>3, <1>4, <1>5, <1>6, ReadsOrWrites
<1> QED
  BY <1>7 DEF Goal

LEMMA SourceStep ==
  ASSUME Typed, FreshInv, SourceInv, [Next]_vars
  PROVE  SourceInv'
<1>1. SUFFICES ASSUME NEW h \in Requests, NEW r \in read'[h], row'[r].state = "live"
               PROVE  seen'[h][r].source = row'[r].source
  BY DEF SourceInv
<1>2. CASE read'[h] = read[h] /\ seen'[h] = seen[h]
  <2>1. r \in Rows /\ row[r].state # "none"
    BY <1>1, <1>2, TypedSplit DEF FreshInv, Fresh, WorkTyped
  <2>2. row[r].state = "live" /\ row'[r].source = row[r].source
    BY <1>1, <2>1, SourcesKept DEF SourceKept
  <2> QED
    BY <1>1, <1>2, <2>2 DEF SourceInv
<1>3. CASE read'[h] = {}
  BY <1>1, <1>3
<1>4. CASE UNCHANGED row /\ \A q \in read'[h] : seen'[h][q] = row[q]
  BY <1>1, <1>4
<1> QED
  BY <1>2, <1>3, <1>4, ReadStep

\* One request at a time is at a handover that is not on record as crossed.
AloneInv ==
  \A g, h \in Requests :
    stage[g] # "idle" /\ stage[h] # "idle" /\ held[g].source = held[h].source
      /\ held[g].source \in Handovers \ crossed => g = h

\* A step of h that leaves it at no handover, or at the one it was at.
Stays(h) ==
  \/ stage'[h] = "idle"
  \/ held'[h].source = Manual
  \/ stage[h] # "idle" /\ held'[h].source = held[h].source

LEMMA StaysAlone ==
  ASSUME AloneInv, NEW h \in Requests, OnlyOf(h), Stays(h), crossed' = crossed
  PROVE  AloneInv'
<1>1. Manual \notin Handovers
  BY DEF Manual, Handovers
<1> QED
  BY <1>1 DEF AloneInv, OnlyOf, Stays

LEMMA AloneStep ==
  ASSUME Typed, AloneInv, [Next]_vars
  PROVE  AloneInv'
<1>0. WorkTyped
  BY TypedSplit
<1>1. CASE UNCHANGED vars \/ \E f \in Handovers : ReportMoves(f)
  BY <1>1 DEF AloneInv, ReportMoves, vars, work, history
<1>2. ASSUME NEW h \in Requests, NEW f \in Handovers, NEW step, NEW input,
             Begin(h, step, input, {}), input.source = f, Cross(f)
      PROVE  AloneInv'
  <2>1. Came(h, step, input, {}) /\ OnlyOf(h)
    BY <1>0, <1>2, EnterCame
  <2>2. crossed \subseteq crossed'
    BY <1>2 DEF Cross
  <2>3. f \notin crossed' => \A g \in Requests : stage[g] # "idle" => held[g].source # f
    BY <1>2 DEF Cross, At
  <2> QED
    BY <1>2, <2>1, <2>2, <2>3 DEF AloneInv, Came, OnlyOf
<1>3. ASSUME NEW h \in Requests, NEW f \in Handovers, NEW a \in {0} \cup Amounts,
             StartHandover(h, f, a) \/ StartRefresh(h, f, a)
      PROVE  AloneInv'
  <2>1. CASE StartHandover(h, f, a)
    <3> DEFINE input == [source |-> f, amount |-> a, day |-> f,
                         revises |-> f \in returned, creates |-> TRUE]
    <3>1. Begin(h, "float", input, {}) /\ input.source = f /\ Cross(f)
      BY <2>1 DEF StartHandover
    <3> HIDE DEF input
    <3> QED
      BY <1>2, <3>1
  <2>2. CASE StartRefresh(h, f, a)
    <3> DEFINE input == [source |-> f, amount |-> a, day |-> f,
                         revises |-> FALSE, creates |-> FALSE]
    <3>1. Begin(h, "sync", input, {}) /\ input.source = f /\ Cross(f)
      BY <2>2 DEF StartRefresh
    <3> HIDE DEF input
    <3> QED
      BY <1>2, <3>1
  <2> QED
    BY <1>3, <2>1, <2>2
<1>4. ASSUME NEW h \in Requests, NEW step, NEW input, NEW S \in SUBSET Rows,
             Begin(h, step, input, S), input.source = Manual, crossed' = crossed
      PROVE  AloneInv'
  <2>1. Came(h, step, input, S) /\ OnlyOf(h)
    BY <1>0, <1>4, EnterCame
  <2> QED
    BY <1>4, <2>1, StaysAlone DEF Came, Stays
<1>5. ASSUME NEW h \in Requests,
             \/ \E a \in Amounts : StartManual(h, a) \/ StartSettle(h, a)
             \/ \E r \in Rows, a \in Amounts : StartPayment(h, r, a)
             \/ StartList(h)
      PROVE  AloneInv'
  <2>1. /\ crossed' = crossed
        /\ \/ \E a \in Amounts :
                \/ Begin(h, "open", [source |-> Manual, amount |-> a, day |-> 1,
                                     revises |-> FALSE, creates |-> TRUE], {})
                \/ Begin(h, "pay", [Idle EXCEPT !.amount = a], OpenRows)
                \/ \E r \in Live : Begin(h, "pay", [Idle EXCEPT !.amount = a], {r})
           \/ Begin(h, "merge", Idle, OpenRows)
    BY <1>5 DEF StartManual, StartSettle, StartPayment, StartList, history
  <2>2. \A a \in Amounts :
          /\ [Idle EXCEPT !.amount = a].source = Manual
          /\ [source |-> Manual, amount |-> a, day |-> 1,
              revises |-> FALSE, creates |-> TRUE].source = Manual
    BY DEF Idle
  <2>3. Idle.source = Manual
    BY DEF Idle
  <2>4. {} \in SUBSET Rows /\ OpenRows \in SUBSET Rows /\ \A r \in Live : {r} \in SUBSET Rows
    BY DEF OpenRows, Live
  <2>5. ASSUME NEW a \in Amounts,
               Begin(h, "open", [source |-> Manual, amount |-> a, day |-> 1,
                                 revises |-> FALSE, creates |-> TRUE], {})
        PROVE  AloneInv'
    BY <1>4, <2>1, <2>2, <2>4, <2>5
  <2>6. ASSUME NEW a \in Amounts, Begin(h, "pay", [Idle EXCEPT !.amount = a], OpenRows)
        PROVE  AloneInv'
    BY <1>4, <2>1, <2>2, <2>4, <2>6
  <2>7. ASSUME NEW a \in Amounts, NEW r \in Live,
               Begin(h, "pay", [Idle EXCEPT !.amount = a], {r})
        PROVE  AloneInv'
    <3>1. {r} \in SUBSET Rows
      BY <2>4
    <3> QED
      BY <1>4, <2>1, <2>2, <2>7, <3>1
  <2>8. CASE Begin(h, "merge", Idle, OpenRows)
    BY <1>4, <2>1, <2>3, <2>4, <2>8
  <2> QED
    BY <2>1, <2>5, <2>6, <2>7, <2>8
<1>6. ASSUME NEW h \in Requests, NEW step, NEW S \in SUBSET Rows,
             Enter(h, step, held[h], S), stage[h] # "idle", crossed' = crossed
      PROVE  AloneInv'
  <2>1. Came(h, step, held[h], S) /\ OnlyOf(h)
    BY <1>0, <1>6, EnterCame
  <2> QED
    BY <1>6, <2>1, StaysAlone DEF Came, Stays
<1>7. ASSUME NEW h \in Requests, Done(h) \/ Finish(h), stage[h] # "idle",
             crossed' = crossed
      PROVE  AloneInv'
  <2>1. /\ OnlyOf(h) /\ stage'[h] \in {"idle", "sync"}
        /\ stage'[h] = "sync" => held'[h].source = held[h].source
    BY <1>0, <1>7, DoneRests
  <2> QED
    BY <1>7, <2>1, StaysAlone DEF Stays
<1>8. ASSUME NEW h \in Requests,
             \/ WriteFloat(h) \/ FindForSync(h) \/ FindSource(h) \/ ReadOpenRows(h)
      PROVE  AloneInv'
  <2>1. /\ stage[h] # "idle" /\ crossed' = crossed
        /\ \/ \E step : Enter(h, step, held[h], {})
           \/ \E step : Enter(h, step, held[h], OpenRows)
           \/ \E r \in Live : \E step : Enter(h, step, held[h], {r})
           \/ Done(h) \/ Finish(h)
    BY <1>8 DEF WriteFloat, FindForSync, FindSource, ReadOpenRows, RowsOf, history
  <2>2. {} \in SUBSET Rows /\ OpenRows \in SUBSET Rows /\ \A r \in Live : {r} \in SUBSET Rows
    BY DEF OpenRows, Live
  <2> QED
    BY <1>6, <1>7, <2>1, <2>2
<1>9. ASSUME NEW h \in Requests, MovePayments(h) PROVE AloneInv'
  <2>1. OnlyOf(h) /\ Stays(h) /\ crossed' = crossed
    BY <1>0, <1>9 DEF MovePayments, OnlyOf, Stays, WorkTyped, history
  <2> QED
    BY <2>1, StaysAlone
<1>10. ASSUME NEW h \in Requests,
             \/ Align(h) \/ ChargeNewRow(h) \/ ChargeOpenRow(h) \/ MergeListed(h)
             \/ CommitPayment(h) \/ Stop(h)
      PROVE  AloneInv'
  <2>1. /\ Done(h) \/ Finish(h)
        /\ stage[h] # "idle" /\ crossed' = crossed
    BY <1>10
       DEF Align, ChargeNewRow, ChargeOpenRow, MergeListed, CommitPayment, Stop, history
  <2> QED
    BY <1>7, <2>1
<1> QED
  BY <1>1, <1>3, <1>5, <1>8, <1>9, <1>10 DEF Next

\* A request waits to charge a source from when it has found no row of it.
Charging == {"open", "charge", "merge", "join"}
Waiting(g) == stage[g] \in Charging /\ held[g].source \in Handovers

LEMMA WaitingStep ==
  ASSUME Typed, [Next]_vars, NEW g \in Requests, Waiting(g)'
  PROVE  /\ held'[g].source = held[g].source
         /\ Waiting(g) \/ RowsOf(held[g].source) = {}
<1> DEFINE Goal == /\ held'[g].source = held[g].source
                   /\ Waiting(g) \/ RowsOf(held[g].source) = {}
<1>0. WorkTyped
  BY TypedSplit
<1>1. stage'[g] \in Charging /\ held'[g].source \in Handovers
  BY DEF Waiting
<1>2. ASSUME stage'[g] = stage[g] /\ held'[g] = held[g] PROVE Goal
  BY <1>1, <1>2 DEF Waiting
<1>3. Manual \notin Handovers /\ Idle.source = Manual
  BY DEF Manual, Handovers, Idle
<1>4. ASSUME NEW h \in Requests, NEW step, NEW input, NEW S \in SUBSET Rows,
             Enter(h, step, input, S) \/ Begin(h, step, input, S),
             step \notin Charging \/ input.source = Manual
      PROVE  Goal
  <2>1. Came(h, step, input, S) /\ OnlyOf(h)
    BY <1>0, <1>4, EnterCame
  <2>2. g # h
    BY <1>1, <1>3, <1>4, <2>1 DEF Came
  <2> QED
    BY <1>2, <2>1, <2>2 DEF OnlyOf
<1>5. ASSUME NEW h \in Requests, Done(h) \/ Finish(h) PROVE Goal
  <2>1. stage'[h] \in {"idle", "sync"} /\ OnlyOf(h)
    BY <1>0, <1>5, DoneRests
  <2>2. g # h
    BY <1>1, <2>1 DEF Charging
  <2> QED
    BY <1>2, <2>1, <2>2 DEF OnlyOf
<1>6. {} \in SUBSET Rows /\ OpenRows \in SUBSET Rows /\ Live \subseteq Rows
  BY DEF OpenRows, Live
<1>7. ASSUME UNCHANGED vars \/ \E f \in Handovers : ReportMoves(f) PROVE Goal
  BY <1>2, <1>7 DEF ReportMoves, vars, work
<1>8. ASSUME NEW h \in Requests,
             \/ \E f \in Handovers, a \in {0} \cup Amounts :
                  StartHandover(h, f, a) \/ StartRefresh(h, f, a)
             \/ \E a \in Amounts : StartManual(h, a) \/ StartSettle(h, a)
             \/ \E r \in Rows, a \in Amounts : StartPayment(h, r, a)
             \/ StartList(h)
      PROVE  Goal
  <2>1. CASE \E f \in Handovers, a \in {0} \cup Amounts :
               StartHandover(h, f, a) \/ StartRefresh(h, f, a)
    <3>1. \/ \E input : Begin(h, "float", input, {})
          \/ \E input : Begin(h, "sync", input, {})
      BY <2>1 DEF StartHandover, StartRefresh
    <3>2. {"float", "sync"} \cap Charging = {}
      BY DEF Charging
    <3> HIDE DEF Goal
    <3> QED
      BY <1>4, <1>6, <3>1, <3>2
  <2>2. \A r \in Live : {r} \in SUBSET Rows
    BY <1>6
  <2>3. CASE \E a \in Amounts : StartManual(h, a)
    <3>1. \E input : Begin(h, "open", input, {}) /\ input.source = Manual
      BY <2>3 DEF StartManual
    <3> HIDE DEF Goal
    <3> QED
      BY <1>4, <1>6, <3>1
  <2>4. CASE \/ \E a \in Amounts : StartSettle(h, a)
             \/ \E r \in Rows, a \in Amounts : StartPayment(h, r, a)
             \/ StartList(h)
    <3>1. \/ \E input : Begin(h, "pay", input, OpenRows)
          \/ Begin(h, "merge", Idle, OpenRows)
          \/ \E r \in Live : \E input : Begin(h, "pay", input, {r})
      BY <2>4 DEF StartSettle, StartPayment, StartList
    <3>2. "pay" \notin Charging
      BY DEF Charging
    <3> HIDE DEF Goal
    <3> QED
      BY <1>3, <1>4, <1>6, <2>2, <3>1, <3>2
  <2> QED
    BY <1>8, <2>1, <2>3, <2>4
<1>9. ASSUME NEW h \in Requests, WriteFloat(h) \/ FindForSync(h) PROVE Goal
  <2>1. \/ Enter(h, "sync", held[h], {}) \/ Enter(h, "find", held[h], {})
        \/ \E r \in Live : Enter(h, "align", held[h], {r})
        \/ Done(h) \/ Finish(h)
    BY <1>9 DEF WriteFloat, FindForSync, RowsOf
  <2>2. \A r \in Live : {r} \in SUBSET Rows
    BY <1>6
  <2>3. {"sync", "find", "align"} \cap Charging = {}
    BY DEF Charging
  <2> HIDE DEF Goal
  <2> QED
    BY <1>4, <1>5, <1>6, <2>1, <2>2, <2>3
<1>10. ASSUME NEW h \in Requests, FindSource(h) PROVE Goal
  <2>1. CASE Enter(h, "open", held[h], {}) /\ RowsOf(held[h].source) = {}
    <3>1. Came(h, "open", held[h], {}) /\ OnlyOf(h)
      BY <1>0, <1>6, <2>1, EnterCame
    <3>2. CASE g = h
      BY <2>1, <3>1, <3>2 DEF Came
    <3>3. CASE g # h
      BY <1>2, <3>1, <3>3 DEF OnlyOf
    <3> QED
      BY <3>2, <3>3
  <2>2. CASE Done(h)
    BY <1>5, <2>2
  <2> QED
    BY <1>10, <2>1, <2>2 DEF FindSource
<1>11. ASSUME NEW h \in Requests, ReadOpenRows(h) PROVE Goal
  <2>1. Came(h, "charge", held[h], OpenRows) /\ OnlyOf(h) /\ stage[h] = "open"
    BY <1>0, <1>6, <1>11, EnterCame DEF ReadOpenRows
  <2>2. CASE g = h
    BY <1>1, <2>1, <2>2 DEF Came, Waiting, Charging
  <2>3. CASE g # h
    BY <1>2, <2>1, <2>3 DEF OnlyOf
  <2> QED
    BY <2>2, <2>3
<1>12. ASSUME NEW h \in Requests, MovePayments(h) PROVE Goal
  <2>1. /\ stage[h] \in {"charge", "merge"} /\ OnlyOf(h) /\ held' = held
    BY <1>0, <1>12 DEF MovePayments, OnlyOf, WorkTyped
  <2>2. CASE g = h
    BY <1>1, <2>1, <2>2 DEF Waiting, Charging
  <2>3. CASE g # h
    BY <1>2, <2>1, <2>3 DEF OnlyOf
  <2> QED
    BY <2>2, <2>3
<1>13. ASSUME NEW h \in Requests,
              \/ Align(h) \/ ChargeNewRow(h) \/ ChargeOpenRow(h) \/ MergeListed(h)
              \/ CommitPayment(h) \/ Stop(h)
       PROVE  Goal
  <2>1. Done(h) \/ Finish(h)
    BY <1>13 DEF Align, ChargeNewRow, ChargeOpenRow, MergeListed, CommitPayment, Stop
  <2> HIDE DEF Goal
  <2> QED
    BY <1>5, <2>1
<1> HIDE DEF Goal
<1>14. Goal
  BY <1>7, <1>8, <1>9, <1>10, <1>11, <1>12, <1>13 DEF Next
<1> QED
  BY <1>14 DEF Goal

\* Charging handover f gives it a row; unless f is merged, nothing else gives it one,
\* and nothing else counts a charge of it but one it waits for while it has a row.
ChargesRow(h, f) ==
  /\ ChargeNewRow(h) /\ held[h].source = f
  /\ charges'[f] = charges[f] + 1 /\ RowsOf(f)' # {}

LEMMA ChargesOnlyWithRow ==
  ASSUME Typed, FreshInv, SourceInv, [Next]_vars, NEW f \in Handovers,
         f \notin merged'
  PROVE  \/ \E h \in Requests : ChargesRow(h, f)
         \/ RowsOf(f) # {} /\ \E h \in Requests : Waiting(h) /\ held[h].source = f
         \/ charges'[f] = charges[f] /\ RowsOf(f)' = RowsOf(f)
<1> DEFINE Goal == \/ \E h \in Requests : ChargesRow(h, f)
                   \/ /\ RowsOf(f) # {}
                      /\ \E h \in Requests : Waiting(h) /\ held[h].source = f
                   \/ charges'[f] = charges[f] /\ RowsOf(f)' = RowsOf(f)
<1>0. row \in [Rows -> Row] /\ charges \in [Handovers -> Nat]
  BY TypedSplit DEF RowsTyped, HistoryTyped
<1>1. ASSUME charges'[f] = charges[f],
             \A r \in Rows : row[r].state = "none" => row'[r] = row[r]
      PROVE  Goal
  <2>1. ASSUME NEW r \in Rows
        PROVE  row'[r].state = "live" /\ row'[r].source = f
               <=> row[r].state = "live" /\ row[r].source = f
    <3>1. CASE row[r].state = "none"
      BY <1>1, <3>1
    <3>2. CASE row[r].state # "none"
      BY <3>2, SourcesKept DEF SourceKept
    <3> QED
      BY <3>1, <3>2
  <2> QED
    BY <1>1, <2>1 DEF RowsOf, Live
<1>2. ASSUME Reads PROVE Goal
  <2>1. row' = row /\ charges' = charges
    BY <1>2, ReadsChangeNoRow
  <2> QED
    BY <1>1, <2>1
<1>3. ASSUME NEW h \in Requests, Align(h) PROVE Goal
  <2>1. charges' = charges
    BY <1>3 DEF Align
  <2>2. row' = row \/ \E r \in read[h] : Writes(h, {r})
    BY <1>3, AlignIs
  <2>3. \A r \in Rows : row[r].state = "none" => row'[r] = row[r]
    BY <2>2 DEF Writes, Live
  <2> QED
    BY <1>1, <2>1, <2>3
<1>4. ASSUME NEW h \in Requests, CommitPayment(h) PROVE Goal
  <2>1. charges' = charges
    BY <1>4 DEF CommitPayment
  <2>2. Writes(h, Reached(h))
    BY <1>4, CommitWrites
  <2>3. \A r \in Rows : row[r].state = "none" => row'[r] = row[r]
    BY <2>2 DEF Writes, Live
  <2> QED
    BY <1>1, <2>1, <2>3
<1>5. ASSUME NEW h \in Requests, ChargeOpenRow(h) \/ MergeListed(h) PROVE Goal
  <2>1. PICK p \in read[h], extra \in Nat : \E date : JoinInto(h, p, extra, date)
    BY <1>5, MergeJoins
  <2>2. PICK date : /\ row' = [q \in Rows |-> Joined(h, p, extra, date, q)]
                    /\ read[h] \subseteq Live /\ merged' = merged \cup Absorbed(h, p)
    BY <2>1 DEF JoinInto, Joined, Absorbed
  <2>3. ASSUME NEW r \in Rows, row[r].state = "none" PROVE row'[r] = row[r]
    BY <2>1, <2>2, <2>3 DEF Joined, Live
  <2>4. CASE charges'[f] = charges[f]
    BY <1>1, <2>3, <2>4
  <2>5. CASE charges'[f] # charges[f]
    <3>1. ChargeOpenRow(h) /\ held[h].source = f
      BY <1>0, <1>5, <2>5 DEF ChargeOpenRow, MergeListed, Counted
    <3>2. Waiting(h)
      BY <3>1 DEF ChargeOpenRow, Waiting, Charging
    <3>3. row[p].source = f
      BY <2>2, <3>1 DEF Absorbed
    <3>4. p \in RowsOf(f)
      BY <2>1, <2>2, <3>3 DEF RowsOf
    <3> QED
      BY <3>1, <3>2, <3>4
  <2> QED
    BY <2>4, <2>5
<1>6. ASSUME NEW h \in Requests, ChargeNewRow(h) PROVE Goal
  <2>1. PICK q \in Rows :
          /\ row[q].state = "none"
          /\ row' = [row EXCEPT ![q] =
               [state |-> "live", source |-> held[h].source, original |-> held[h].amount,
                outstanding |-> held[h].amount, date |-> held[h].day, status |-> "OPEN"]]
    BY <1>6 DEF ChargeNewRow
  <2>2. Counted(held[h].source)
    BY <1>6 DEF ChargeNewRow
  <2>3. row'[q].state = "live" /\ row'[q].source = held[h].source
    BY <1>0, <2>1
  <2>4. \A r \in Rows \ {q} : row'[r] = row[r]
    BY <1>0, <2>1
  <2>5. CASE held[h].source = f
    <3>1. charges'[f] = charges[f] + 1
      BY <2>2, <2>5 DEF Counted
    <3>2. q \in RowsOf(f)'
      BY <2>3, <2>5 DEF RowsOf, Live
    <3> QED
      BY <1>6, <2>5, <3>1, <3>2 DEF ChargesRow
  <2>6. CASE held[h].source # f
    <3>1. charges'[f] = charges[f]
      BY <1>0, <2>2, <2>6 DEF Counted
    <3>2. \A r \in Rows : row'[r].state = "live" /\ row'[r].source = f
                          <=> row[r].state = "live" /\ row[r].source = f
      BY <2>1, <2>3, <2>4, <2>6
    <3> QED
      BY <3>1, <3>2 DEF RowsOf, Live
  <2> QED
    BY <2>5, <2>6
<1> HIDE DEF Goal
<1>7. Goal
  BY <1>2, <1>3, <1>4, <1>5, <1>6, ReadsOrWrites
<1> QED
  BY <1>7 DEF Goal

\* A handover that has been charged has a row, and none waits to charge a handover
\* that has one, unless that handover is on record as merged or crossed.
ChargeInv ==
  \A f \in Handovers \ (merged \cup crossed) :
    /\ charges[f] <= 1 /\ (charges[f] = 1 => RowsOf(f) # {})
    /\ \A h \in Requests : Waiting(h) /\ held[h].source = f => RowsOf(f) = {}

\* What went wrong with a handover is on record for good.
LEMMA HistoryStays ==
  ASSUME [Next]_vars
  PROVE  merged \subseteq merged' /\ crossed \subseteq crossed'
<1>1. ASSUME NEW h \in Requests, NEW f \in Handovers, NEW a \in {0} \cup Amounts,
             StartHandover(h, f, a) \/ StartRefresh(h, f, a)
      PROVE  merged \subseteq merged' /\ crossed \subseteq crossed'
  <2>1. merged' = merged /\ Cross(f)
    BY <1>1 DEF StartHandover, StartRefresh
  <2> QED
    BY <2>1 DEF Cross
<1>2. ASSUME NEW h \in Requests,
             \/ \E a \in Amounts : StartManual(h, a) \/ StartSettle(h, a)
             \/ \E r \in Rows, a \in Amounts : StartPayment(h, r, a)
             \/ StartList(h)
      PROVE  merged' = merged /\ crossed' = crossed
  BY <1>2 DEF StartManual, StartSettle, StartPayment, StartList, history
<1>3. ASSUME NEW h \in Requests,
             \/ WriteFloat(h) \/ FindForSync(h) \/ FindSource(h) \/ ReadOpenRows(h)
             \/ MovePayments(h) \/ Stop(h)
      PROVE  merged' = merged /\ crossed' = crossed
  BY <1>3
     DEF WriteFloat, FindForSync, FindSource, ReadOpenRows, MovePayments, Stop, history
<1>4. ASSUME NEW h \in Requests, Align(h) \/ ChargeNewRow(h) \/ CommitPayment(h)
      PROVE  merged' = merged /\ crossed' = crossed
  BY <1>4 DEF Align, ChargeNewRow, CommitPayment
<1>5. ASSUME NEW h \in Requests, ChargeOpenRow(h) \/ MergeListed(h)
      PROVE  merged \subseteq merged' /\ crossed' = crossed
  BY <1>5 DEF ChargeOpenRow, MergeListed, JoinInto
<1>6. CASE UNCHANGED vars \/ \E f \in Handovers : ReportMoves(f)
  BY <1>6 DEF ReportMoves, vars, history
<1> QED
  BY <1>1, <1>2, <1>3, <1>4, <1>5, <1>6 DEF Next

LEMMA ChargeStep ==
  ASSUME Typed, FreshInv, SourceInv, AloneInv, ChargeInv, [Next]_vars
  PROVE  ChargeInv'
<1>1. SUFFICES ASSUME NEW f \in Handovers, f \notin merged', f \notin crossed'
               PROVE  /\ charges'[f] <= 1 /\ (charges'[f] = 1 => RowsOf(f)' # {})
                      /\ \A h \in Requests :
                           Waiting(h)' /\ held'[h].source = f => RowsOf(f)' = {}
  BY DEF ChargeInv
<1>2. f \notin merged \cup crossed
  BY <1>1, HistoryStays
<1>3. /\ charges[f] <= 1 /\ (charges[f] = 1 => RowsOf(f) # {})
      /\ \A h \in Requests : Waiting(h) /\ held[h].source = f => RowsOf(f) = {}
  BY <1>2 DEF ChargeInv
<1>4. charges[f] \in Nat
  BY TypedSplit DEF HistoryTyped
\* Who charges f waited for it, so it had no row and had not been charged.
<1>5. ASSUME NEW h \in Requests, ChargesRow(h, f)
      PROVE  RowsOf(f) = {} /\ charges[f] = 0
  <2>1. Waiting(h) /\ held[h].source = f
    BY <1>5 DEF ChargesRow, ChargeNewRow, Waiting, Charging
  <2> QED
    BY <1>3, <1>4, <2>1
<1>6. \/ \E h \in Requests : ChargesRow(h, f)
      \/ charges'[f] = charges[f] /\ RowsOf(f)' = RowsOf(f)
  BY <1>1, <1>3, ChargesOnlyWithRow
<1>7. charges'[f] <= 1 /\ (charges'[f] = 1 => RowsOf(f)' # {})
  <2>1. CASE \E h \in Requests : ChargesRow(h, f)
    BY <1>5, <2>1 DEF ChargesRow
  <2>2. CASE charges'[f] = charges[f] /\ RowsOf(f)' = RowsOf(f)
    BY <1>3, <2>2
  <2> QED
    BY <1>6, <2>1, <2>2
<1>8. ASSUME NEW g \in Requests, Waiting(g)', held'[g].source = f
      PROVE  RowsOf(f)' = {}
  <2>1. held[g].source = f /\ (Waiting(g) \/ RowsOf(f) = {})
    BY <1>8, WaitingStep
  <2>2. RowsOf(f) = {}
    BY <1>3, <2>1
  <2>3. ASSUME NEW h \in Requests, ChargesRow(h, f) PROVE FALSE
    <3>1. stage[h] = "charge" /\ held[h].source = f
      BY <2>3 DEF ChargesRow, ChargeNewRow
    <3>2. stage'[h] \in {"idle", "sync"}
      BY <2>3, DoneRests, TypedSplit DEF ChargesRow, ChargeNewRow
    <3>3. stage'[g] \in Charging
      BY <1>8 DEF Waiting
    <3>4. g # h
      BY <3>2, <3>3 DEF Charging
    <3>5. stage[g] = stage'[g]
      BY <2>3, <3>4, DoneRests, TypedSplit DEF ChargesRow, ChargeNewRow, OnlyOf
    <3>6. stage[g] # "idle"
      BY <3>3, <3>5 DEF Charging
    <3> QED
      BY <1>2, <2>1, <3>1, <3>4, <3>6 DEF AloneInv
  <2> QED
    BY <1>6, <2>2, <2>3
<1> QED
  BY <1>7, <1>8

\* A handover is charged at most once, however its report, its revisions, refreshes
\* and stopped requests follow each other and whatever becomes of other handovers,
\* unless this one was charged to the row of another source, its own row was merged
\* into one, or two requests were at it at a time (recordAgentReturnInternal,
\* createShortage, syncExistingShortageToVariance).
THEOREM HandoversChargedOnce == Spec => []ChargedOnce
<1>1. ASSUME Init PROVE SourceInv /\ AloneInv /\ ChargeInv
  <2>1. \A h \in Requests : read[h] = {} /\ stage[h] = "idle"
    BY <1>1 DEF Init
  <2>2. PICK last \in 0..Min({MaxHandovers, MaxRows}), a \in Earlier :
          /\ charges = [f \in Handovers |-> IF f <= last THEN 1 ELSE 0]
          /\ row = [r \in Rows |->
               IF r <= last
               THEN [state |-> "live", source |-> r, original |-> a, outstanding |-> a,
                     date |-> r, status |-> "OPEN"]
               ELSE NoRow]
    BY <1>1 DEF Init
  <2>3. MaxHandovers \in Int /\ MaxRows \in Int
    BY BoundAssumption
  <2>4. last \in Int /\ last <= MaxRows
    BY <2>3, MinOfTwo
  <2>5. ASSUME NEW f \in Handovers
        PROVE  charges[f] <= 1 /\ (charges[f] = 1 => RowsOf(f) # {})
    <3>1. f \in Int /\ 1 <= f
      BY <2>3 DEF Handovers
    <3>2. charges[f] = IF f <= last THEN 1 ELSE 0
      BY <2>2
    <3>3. CASE f <= last
      <4>1. f \in Rows
        BY <2>3, <2>4, <3>1, <3>3 DEF Rows
      <4>2. row[f].state = "live" /\ row[f].source = f
        BY <2>2, <3>3, <4>1
      <4>3. f \in RowsOf(f)
        BY <4>1, <4>2 DEF RowsOf, Live
      <4> QED
        BY <3>2, <3>3, <4>3
    <3>4. CASE ~ (f <= last)
      BY <3>2, <3>4
    <3> QED
      BY <3>3, <3>4
  <2> QED
    BY <2>1, <2>5 DEF SourceInv, AloneInv, ChargeInv, Waiting, Charging
<1>2. Typed /\ FreshInv /\ SourceInv /\ AloneInv /\ ChargeInv /\ [Next]_vars
      => SourceInv' /\ AloneInv' /\ ChargeInv'
  BY SourceStep, AloneStep, ChargeStep
<1>3. ChargeInv => ChargedOnce
  BY DEF ChargeInv, ChargedOnce
<1> QED
  BY <1>1, <1>2, <1>3, FreshHolds, PTL DEF Spec
=============================================================================
