---------------------------- MODULE CashShortages ----------------------------
(***************************************************************************)
(* The cash shortages of one employee: handovers that come up short, the   *)
(* rows they are charged to, the merging of those rows, payments, and what *)
(* a report returned for correction changes (services/api/src/modules/     *)
(* cash-shortages, operations).                                            *)
(*                                                                         *)
(* A shortage row is found by the handover it came from and written with   *)
(* amounts computed from what was read before; none of it is locked.       *)
(* Handovers are numbered by their day, rows in the order of creation.     *)
(***************************************************************************)
EXTENDS Integers, FiniteSets, FiniteSetsExt, Functions

CONSTANTS
  Requests,       \* API requests under way at a time
  MaxHandovers,   \* bound on the days with a handover
  MaxRows,        \* bound on the shortage rows ever created
  MaxOperations,  \* bound on the operations that are begun
  Amounts,        \* what is missing, what is paid
  Earlier         \* what was missing on the days before the first request

Handovers == 1..MaxHandovers
Rows == 1..MaxRows
Manual == 0       \* the source of a shortage typed in by hand

ASSUME BoundAssumption ==
  MaxHandovers \in Nat /\ MaxRows \in Nat /\ MaxOperations \in Nat
ASSUME AmountAssumption == Amounts \subseteq Nat \ {0} /\ Earlier \subseteq Amounts

VARIABLES
  returned,    \* days whose report has been returned to the manager
  short,       \* per handover: what was missing, -1 before it is recorded
  row,         \* per shortage row: the row
  paid,        \* per row: the sum of the payments booked on it
  stage,       \* per request: the step it takes next
  held,        \* per request: its input
  read,        \* per request: the rows it has read
  seen,        \* per request: those rows as it read them
  moved,       \* per request: the payments it has moved, by the row they were on
  begun,       \* operations begun so far
  outdated,    \* requests some row of which was written since it was read
  overwritten, \* history: a row was written by such a request
  forgotten,   \* history: a row's original was set below what had been paid
  charges,     \* history: how often each handover was charged
  merged,      \* history: sources whose charge went into the row of another, or
               \* whose row went into another
  crossed      \* history: handovers two requests were at at a time

day == <<returned, short>>
rows == <<row, paid>>
work == <<stage, held, read, seen, moved, begun>>
history == <<overwritten, forgotten, charges, merged, crossed>>
vars == <<day, rows, work, outdated, history>>

-----------------------------------------------------------------------------
(* Rows.                                                                   *)

NoRow == [state |-> "none", source |-> Manual, original |-> 0, outstanding |-> 0,
          date |-> 0, status |-> "OPEN"]
Deleted == [NoRow EXCEPT !.state = "deleted"]
Live == {r \in Rows : row[r].state = "live"}
OpenRows == {r \in Live : row[r].status # "CLEARED" /\ row[r].outstanding > 0}
RowsOf(f) == {r \in Live : row[r].source = f}

\* The oldest day first, then the row created first.
Precedes(table, q, r) ==
  \/ table[q].date < table[r].date
  \/ table[q].date = table[r].date /\ q < r

Primary(table, S) == CHOOSE r \in S : \A q \in S \ {r} : Precedes(table, r, q)

OriginalOf(table, S) == SumFunctionOnSet([r \in S |-> table[r].original], S)
OutstandingOf(table, S) == SumFunctionOnSet([r \in S |-> table[r].outstanding], S)

\* Mutant: a row that is partly paid shows as open again after a merge.
StatusOpened(original, outstanding) ==
  IF outstanding <= 0 THEN "OPEN"
  ELSE IF outstanding < original THEN "PARTIALLY_PAID" ELSE "OPEN"

StatusFor(original, outstanding) ==
  IF outstanding <= 0 THEN "CLEARED"
  ELSE IF outstanding < original THEN "PARTIALLY_PAID" ELSE "OPEN"

\* Mutant: what is outstanding is not kept from falling below zero.
WithBelow0(r, original, outstanding, date) ==
  [state |-> "live", source |-> r.source, original |-> original,
   outstanding |-> outstanding, date |-> date,
   status |-> StatusFor(original, outstanding)]

With(r, original, outstanding, date) ==
  [state |-> "live", source |-> r.source, original |-> original,
   outstanding |-> Max({0, outstanding}), date |-> date,
   status |-> StatusFor(original, outstanding)]

-----------------------------------------------------------------------------
(* Requests.                                                               *)

Idle == [source |-> Manual, amount |-> 0, day |-> 0, revises |-> FALSE, creates |-> FALSE]

Enter(h, step, input, S) ==
  /\ stage' = [stage EXCEPT ![h] = step]
  /\ held' = [held EXCEPT ![h] = input]
  /\ read' = [read EXCEPT ![h] = S]
  /\ seen' = [seen EXCEPT ![h] = [r \in Rows |-> IF r \in S THEN row[r] ELSE NoRow]]
  /\ moved' = [moved EXCEPT ![h] = [r \in Rows |-> 0]]
  /\ UNCHANGED begun

Begin(h, step, input, S) ==
  /\ stage[h] = "idle" /\ begun < MaxOperations /\ begun' = begun + 1
  /\ stage' = [stage EXCEPT ![h] = step]
  /\ held' = [held EXCEPT ![h] = input]
  /\ read' = [read EXCEPT ![h] = S]
  /\ seen' = [seen EXCEPT ![h] = [r \in Rows |-> IF r \in S THEN row[r] ELSE NoRow]]
  /\ moved' = [moved EXCEPT ![h] = [r \in Rows |-> 0]]
  /\ outdated' = outdated \ {h}

Finish(h) == Enter(h, "idle", Idle, {})

\* A revised handover ends with the refresh of its day, every other request here.
Done(h) ==
  IF held[h].revises
  THEN Enter(h, "sync", [held[h] EXCEPT !.revises = FALSE, !.creates = FALSE,
                                        !.amount = Max({0, short[held[h].source]})], {})
  ELSE Finish(h)

\* Request h writes the rows of S, which the others may have read.
Write(h, S) ==
  /\ overwritten' = (overwritten \/ h \in outdated)
  /\ outdated' = (outdated \ {h})
       \cup {g \in Requests \ {h} : read[g] \cap S # {}}

\* What another request is doing about handover f.
At(f) == {h \in Requests : stage[h] # "idle" /\ held[h].source = f}
Cross(f) == crossed' = IF At(f) = {} THEN crossed ELSE crossed \cup {f}

-----------------------------------------------------------------------------
(* A handover, first or revised, and the refresh of its day.               *)

\* The report is looked at, and the float unless the report is returned.
StartHandover(h, f, missing) ==
  /\ short[f] = -1 \/ f \in returned
  /\ Begin(h, "float", [source |-> f, amount |-> missing, day |-> f,
                        revises |-> f \in returned, creates |-> TRUE], {})
  /\ Cross(f)
  /\ UNCHANGED <<day, rows, overwritten, forgotten, charges, merged>>

\* The cash handed over is written; what is missing is charged after that.
WriteFloat(h) ==
  /\ stage[h] = "float"
  /\ short' = [short EXCEPT ![held[h].source] = held[h].amount]
  /\ IF held[h].revises THEN Enter(h, "sync", held[h], {})
     ELSE IF held[h].amount > 0 THEN Enter(h, "find", held[h], {})
     ELSE Finish(h)
  /\ UNCHANGED <<returned, rows, outdated, history>>

\* A corrected repayment changes what handover f should have been; the day is
\* refreshed, which never creates a shortage.
StartRefresh(h, f, missing) ==
  /\ short[f] # -1
  /\ short' = [short EXCEPT ![f] = missing]
  /\ Begin(h, "sync", [source |-> f, amount |-> missing, day |-> f,
                       revises |-> FALSE, creates |-> FALSE], {})
  /\ Cross(f)
  /\ UNCHANGED <<returned, rows, overwritten, forgotten, charges, merged>>

\* The row of the handover is looked up by its source.
FindForSync(h) ==
  /\ stage[h] = "sync"
  /\ \/ /\ RowsOf(held[h].source) = {}
        /\ IF held[h].creates /\ held[h].amount > 0
           THEN Enter(h, "find", held[h], {}) ELSE Done(h)
        /\ UNCHANGED outdated
     \/ \E r \in RowsOf(held[h].source) :
          /\ Enter(h, "align", held[h], {r})
          /\ outdated' = outdated \ {h}
  /\ UNCHANGED <<day, rows, history>>

\* Mutant: the row is aligned without what has been paid.
AlignedUnpaid(r, needed) == With(r, needed, needed, r.date)

\* What was paid is what the row says: its original less its outstanding.
Aligned(r, needed) ==
  LET settled == r.original - r.outstanding
  IN  IF needed > 0 THEN With(r, needed, needed - settled, r.date)
      ELSE With(r, Max({0, settled}), 0, r.date)

Align(h) ==
  /\ stage[h] = "align"
  /\ \E r \in read[h] :
       LET new == Aligned(seen[h][r], held[h].amount)
       IN  /\ r \in Live
           /\ IF held[h].amount > 0 /\ new = seen[h][r]
              THEN UNCHANGED <<rows, outdated, overwritten, forgotten>>
              ELSE /\ row' = [row EXCEPT ![r] = [new EXCEPT !.date = row[r].date]]
                   /\ forgotten' = (forgotten \/ new.original < paid[r])
                   /\ Write(h, {r})
                   /\ UNCHANGED paid
  /\ Done(h)
  /\ UNCHANGED <<day, charges, merged, crossed>>

-----------------------------------------------------------------------------
(* A shortage is charged.                                                  *)

\* A shortage from before the system was used.
StartManual(h, amount) ==
  /\ Begin(h, "open", [source |-> Manual, amount |-> amount, day |-> 1,
                       revises |-> FALSE, creates |-> TRUE], {})
  /\ UNCHANGED <<day, rows, history>>

\* A source that has its row is not charged again.
FindSource(h) ==
  /\ stage[h] = "find"
  /\ IF RowsOf(held[h].source) # {} THEN Done(h) ELSE Enter(h, "open", held[h], {})
  /\ UNCHANGED <<day, rows, outdated, history>>

ReadOpenRows(h) ==
  /\ stage[h] = "open"
  /\ Enter(h, "charge", held[h], OpenRows)
  /\ outdated' = outdated \ {h}
  /\ UNCHANGED <<day, rows, history>>

Counted(f) ==
  charges' = [g \in Handovers |-> IF g = f THEN charges[g] + 1 ELSE charges[g]]

\* Nothing was open: the shortage gets a row of its own.
ChargeNewRow(h) ==
  /\ stage[h] = "charge" /\ read[h] = {}
  /\ \E r \in Rows :
       /\ row[r].state = "none" /\ \A q \in 1..(r - 1) : row[q].state # "none"
       /\ row' = [row EXCEPT ![r] =
            [state |-> "live", source |-> held[h].source, original |-> held[h].amount,
             outstanding |-> held[h].amount, date |-> held[h].day, status |-> "OPEN"]]
  /\ Counted(held[h].source)
  /\ Done(h)
  /\ UNCHANGED <<day, paid, outdated, overwritten, forgotten, merged, crossed>>

\* Mutant: the payments of the rows that go are not moved to the one that stays.
MovePaymentsNever(h) ==
  /\ stage[h] \in {"charge", "merge"}
  /\ Cardinality(read[h]) > 1 /\ read[h] \subseteq Live
  /\ stage' = [stage EXCEPT ![h] = "join"]
  /\ UNCHANGED <<day, rows, held, read, seen, begun, moved, outdated, history>>

\* Of several rows the payments are moved first; the rows are deleted after that.
MovePayments(h) ==
  /\ stage[h] \in {"charge", "merge"}
  /\ Cardinality(read[h]) > 1 /\ read[h] \subseteq Live
  /\ stage' = [stage EXCEPT ![h] = "join"]
  /\ moved' = [moved EXCEPT ![h] = paid]
  /\ UNCHANGED <<day, rows, held, read, seen, begun, outdated, history>>

\* Mutant: the row that stays takes the source of the charge.
JoinIntoRenamed(h, p, extra, date) ==
  LET S == read[h]
  IN  /\ S \subseteq Live
      /\ stage[h] = "join" \/ S = {p}
      /\ row' = [r \in Rows |->
           IF r = p THEN [With(row[p], OriginalOf(seen[h], S) + extra,
                               OutstandingOf(seen[h], S) + extra, date)
                          EXCEPT !.source = held[h].source]
           ELSE IF r \in S THEN Deleted ELSE row[r]]
      /\ paid' = [r \in Rows |->
           IF r = p THEN paid[p] + SumFunctionOnSet(moved[h], S \ {p})
           ELSE IF r \in S THEN 0 ELSE paid[r]]
      /\ merged' = merged \cup {row[r].source : r \in S \ {p}}
                        \cup ({held[h].source} \ {row[p].source})
      /\ Write(h, S)

\* The rows that were read become row p with the amount extra on top; a payment
\* that reached one of the others after the move is deleted with it.
JoinInto(h, p, extra, date) ==
  LET S == read[h]
  IN  /\ S \subseteq Live
      /\ stage[h] = "join" \/ S = {p}
      /\ row' = [r \in Rows |->
           IF r = p THEN With(row[p], OriginalOf(seen[h], S) + extra,
                              OutstandingOf(seen[h], S) + extra, date)
           ELSE IF r \in S THEN Deleted ELSE row[r]]
      /\ paid' = [r \in Rows |->
           IF r = p THEN paid[p] + SumFunctionOnSet(moved[h], S \ {p})
           ELSE IF r \in S THEN 0 ELSE paid[r]]
      /\ merged' = merged \cup {row[r].source : r \in S \ {p}}
                        \cup ({held[h].source} \ {row[p].source})
      /\ Write(h, S)

\* What was open is merged into its oldest row, whose source stays as it is.
ChargeOpenRow(h) ==
  /\ stage[h] \in {"charge", "join"} /\ held[h].creates /\ read[h] # {}
  /\ JoinInto(h, Primary(seen[h], read[h]), held[h].amount, held[h].day)
  /\ Counted(held[h].source)
  /\ Done(h)
  /\ UNCHANGED <<day, forgotten, crossed>>

\* Listing the shortages merges what is open first.
StartList(h) ==
  /\ Cardinality(OpenRows) > 1
  /\ Begin(h, "merge", Idle, OpenRows)
  /\ UNCHANGED <<day, rows, history>>

MergeListed(h) ==
  LET p == Primary(seen[h], read[h])
  IN  /\ stage[h] = "join" /\ ~held[h].creates
      /\ JoinInto(h, p, 0, row[p].date)
      /\ Finish(h)
      /\ UNCHANGED <<day, forgotten, charges, crossed>>

-----------------------------------------------------------------------------
(* Payments.                                                               *)

StartPayment(h, r, amount) ==
  /\ r \in Live /\ row[r].status # "CLEARED" /\ amount <= row[r].outstanding
  /\ Begin(h, "pay", [Idle EXCEPT !.amount = amount], {r})
  /\ UNCHANGED <<day, rows, history>>

\* A payment of all that is open, by the employee or out of a salary.
StartSettle(h, amount) ==
  /\ OpenRows # {} /\ amount <= OutstandingOf(row, OpenRows)
  /\ Begin(h, "pay", [Idle EXCEPT !.amount = amount], OpenRows)
  /\ UNCHANGED <<day, rows, history>>

\* The part of an amount that falls on row r when the oldest are paid first.
Applied(h, r) ==
  LET before == {q \in read[h] : Precedes(seen[h], q, r)}
  IN  Min({seen[h][r].outstanding,
           Max({0, held[h].amount - OutstandingOf(seen[h], before)})})

CommitPayment(h) ==
  LET S == {r \in read[h] : Applied(h, r) > 0}
      left(r) == seen[h][r].outstanding - Applied(h, r)
  IN  /\ stage[h] = "pay" /\ S \subseteq Live
      /\ row' = [r \in Rows |->
           IF r \in S
           THEN [row[r] EXCEPT !.outstanding = left(r),
                   !.status = IF left(r) <= 0 THEN "CLEARED" ELSE "PARTIALLY_PAID"]
           ELSE row[r]]
      /\ paid' = [r \in Rows |-> IF r \in S THEN paid[r] + Applied(h, r) ELSE paid[r]]
      /\ Write(h, S)
      /\ Finish(h)
      /\ UNCHANGED <<day, forgotten, charges, merged, crossed>>

-----------------------------------------------------------------------------
\* A request ends early: a row it means to write is gone, or the server stops.
Stop(h) ==
  /\ stage[h] # "idle"
  /\ Finish(h)
  /\ UNCHANGED <<day, rows, outdated, history>>

\* The owner returns the report of a day, the manager sends it again.
ReportMoves(f) ==
  /\ returned' = IF f \in returned THEN returned \ {f} ELSE returned \cup {f}
  /\ UNCHANGED <<short, rows, work, outdated, history>>

\* The handovers of the first days may each have a row: shortages were not always
\* merged, and two that are charged at the same time are not.
Init ==
  /\ returned = {}
  /\ \E last \in 0..Min({MaxHandovers, MaxRows}), a \in Earlier :
       /\ short = [f \in Handovers |-> IF f <= last THEN a ELSE -1]
       /\ charges = [f \in Handovers |-> IF f <= last THEN 1 ELSE 0]
       /\ row = [r \in Rows |->
            IF r <= last
            THEN [state |-> "live", source |-> r, original |-> a, outstanding |-> a,
                  date |-> r, status |-> "OPEN"]
            ELSE NoRow]
  /\ paid = [r \in Rows |-> 0]
  /\ stage = [h \in Requests |-> "idle"]
  /\ held = [h \in Requests |-> Idle]
  /\ read = [h \in Requests |-> {}]
  /\ seen = [h \in Requests |-> [r \in Rows |-> NoRow]]
  /\ moved = [h \in Requests |-> [r \in Rows |-> 0]]
  /\ begun = 0
  /\ outdated = {}
  /\ overwritten = FALSE /\ forgotten = FALSE /\ merged = {} /\ crossed = {}

Next ==
  \/ \E f \in Handovers : ReportMoves(f)
  \/ \E h \in Requests :
       \/ \E f \in Handovers, a \in {0} \cup Amounts :
            StartHandover(h, f, a) \/ StartRefresh(h, f, a)
       \/ \E a \in Amounts : StartManual(h, a) \/ StartSettle(h, a)
       \/ \E r \in Rows, a \in Amounts : StartPayment(h, r, a)
       \/ StartList(h)
       \/ WriteFloat(h) \/ FindForSync(h) \/ Align(h) \/ FindSource(h)
       \/ ReadOpenRows(h) \/ ChargeNewRow(h) \/ MovePayments(h) \/ ChargeOpenRow(h)
       \/ MergeListed(h) \/ CommitPayment(h) \/ Stop(h)

Spec == Init /\ [][Next]_vars
-----------------------------------------------------------------------------
(* Properties.                                                             *)

Days == 0..Max({1, MaxHandovers})

Row == [state : {"none", "live", "deleted"}, source : {Manual} \cup Handovers,
        original : Nat, outstanding : Nat, date : Days,
        status : {"OPEN", "PARTIALLY_PAID", "CLEARED"}]

\* Rows have their columns' values, and no amount ever becomes negative.
TypeOK ==
  /\ returned \subseteq Handovers
  /\ short \in [Handovers -> Int]
  /\ row \in [Rows -> Row] /\ paid \in [Rows -> Nat]
  /\ stage \in [Requests -> {"idle", "float", "sync", "align", "find", "open",
                             "charge", "merge", "join", "pay"}]
  /\ held \in [Requests -> [source : {Manual} \cup Handovers, amount : Nat, day : Days,
                            revises : BOOLEAN, creates : BOOLEAN]]
  /\ read \in [Requests -> SUBSET Rows]
  /\ seen \in [Requests -> [Rows -> Row]]
  /\ moved \in [Requests -> [Rows -> Nat]]
  /\ begun \in 0..MaxOperations
  /\ outdated \subseteq Requests
  /\ overwritten \in BOOLEAN /\ forgotten \in BOOLEAN
  /\ charges \in [Handovers -> Nat]
  /\ merged \subseteq {Manual} \cup Handovers /\ crossed \subseteq Handovers

\* Through charges, merges, corrections and payments in any order, what is
\* outstanding on a row is its amount less the payments booked on it, unless a row
\* was written from an outdated read or lowered below what had been paid on it.
OutstandingIsUnpaid ==
  ~overwritten /\ ~forgotten =>
    \A r \in Live : row[r].outstanding = row[r].original - paid[r]

\* "Physical cash / payments already recorded are preserved" when a shortage is
\* aligned (syncExistingShortageToVariance): a payment counts for good.
PaymentsArePreserved ==
  ~overwritten =>
    \A r \in Live : row[r].outstanding = Max({0, row[r].original - paid[r]})

\* Whatever is read too early, a row is cleared exactly if nothing is outstanding
\* on it: what is still owed is never hidden from the lists of open shortages.
ClearedExactlyWhenSettled ==
  \A r \in Live : row[r].status = "CLEARED" <=> row[r].outstanding = 0

\* A handover is charged at most once however often its report is returned, it is
\* revised, its day refreshed and requests stop half way, whatever becomes of other
\* handovers and rows, unless this one was charged to the row of another source, its own
\* row was merged into one, or two requests were at it at a time
\* (recordAgentReturnInternal, createShortage).
ChargedOnce ==
  \A f \in Handovers : f \notin merged \cup crossed => charges[f] <= 1

PaymentsBooked == SumFunctionOnSet(paid, Rows)

\* A payment is lost only when the rows it belongs to are merged by a request that
\* had read them before it was booked (createShortage, consolidateOpenDuplicates).
PaymentsOnlyGrow ==
  [][\/ PaymentsBooked' >= PaymentsBooked
     \/ \E h \in outdated : stage[h] = "join" /\ stage'[h] # "join"]_vars
=============================================================================
