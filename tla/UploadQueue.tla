---------------------------- MODULE UploadQueue ----------------------------
(***************************************************************************)
(* Field phones record work offline in their pending_operations table and  *)
(* upload it to the server when there is a connection                      *)
(* (apps/mobile/lib/core/sync and database/repositories,                   *)
(* services/api/src/modules/sync/sync.service.ts).                         *)
(*                                                                         *)
(* A phone reads its open rows, sends them in batches and books the answer *)
(* row by row.  The server takes the operations of a batch one by one,     *)
(* each in several database calls; handlers of different requests run      *)
(* concurrently.  A phone that gives up on a request does not stop its     *)
(* handler.  Everything is retried, and told apart by its localId only.    *)
(***************************************************************************)
EXTENDS Integers, Sequences, FiniteSets, FiniteSetsExt, Functions

CONSTANTS
  Devices,
  Services,     \* SyncService instances; a phone may have more than one
  Requests,     \* upload requests the server can be working on at a time
  Loans,
  Operations,   \* 1..n, numbered in the order of their createdAt
  DeviceOf,     \* the phone that records an operation
  PhoneOf,      \* the phone a SyncService runs on
  Kind,         \* "application", "repayment" or "disbursement"
  LoanOf,       \* the loan (for an application: the customer) it is about
  Amount,
  LocalId,      \* the localId its phone gives it
  Principal,    \* the principal of a loan, which is also its first balance
  BatchSize,    \* 50 in the code
  MaxRetries,   \* 5 in the code
  Workloads,    \* sets of operations: a behaviour records from one of them (a bound)
  OnlineCustomers, \* who may get a loan through the online application
  Faults        \* which of "step", "server", "app" may fail

Kinds == {"application", "repayment", "disbursement"}

ASSUME OperationsAssumption ==
  /\ Operations \subseteq Nat /\ IsFiniteSet(Operations)
  /\ DeviceOf \in [Operations -> Devices]
  /\ PhoneOf \in [Services -> Devices]
  /\ Services \cap {"nobody", "gone"} = {}
  /\ Kind \in [Operations -> Kinds]
  /\ LoanOf \in [Operations -> Loans]
  /\ Amount \in [Operations -> Nat \ {0}]
  /\ Principal \in [Loans -> Nat]
  /\ OnlineCustomers \subseteq Loans
ASSUME BoundsAssumption ==
  /\ BatchSize \in Nat \ {0} /\ MaxRetries \in Nat \ {0}
  /\ Faults \subseteq {"step", "server", "app"}

VARIABLES
  queue,       \* per phone and operation: the pending_operations row
  upload,      \* per SyncService: the uploadPendingQueue that runs
  handler,     \* per request: the processOperationQueue that runs
  seen,        \* per request: the amount its handler has read
  stored,      \* operations that have a row in the server's tables
  balance,     \* per loan: the balance column
  activated,   \* loans that are fully disbursed (status CURRENT)
  applied,     \* customers whom a SUBMITTED application names by customerId
  stale,       \* history: operations written from a reading that was out of date
  cut,         \* history: repayments whose handler ended before it wrote the balance
  doubted      \* history: operations tried twice at a time, or reported as an
               \* error although they are stored

tables == <<stored, balance, activated, applied>>
history == <<stale, cut, doubted>>
vars == <<queue, upload, handler, seen, tables, history>>

NoRow == [status |-> "NONE", retries |-> 0]
IdleUpload == [phase |-> "idle", left |-> <<>>, batch |-> <<>>, answer |-> <<>>]
Outcomes == {"processed", "conflict", "error"}
NothingDone == [outcome \in Outcomes |-> <<>>]
FreeHandler == [for |-> "nobody", todo |-> <<>>, done |-> NothingDone,
                step |-> "check"]

Init ==
  /\ queue = [d \in Devices |-> [o \in Operations |-> NoRow]]
  /\ upload = [s \in Services |-> IdleUpload]
  /\ handler = [r \in Requests |-> FreeHandler]
  /\ seen = [r \in Requests |-> 0]
  /\ stored = {}
  /\ balance = Principal
  /\ activated = {}
  /\ applied = {}
  /\ stale = {} /\ cut = {} /\ doubted = {}

-----------------------------------------------------------------------------
(* The phone.                                                              *)

SetRow(d, o, status, retries) ==
  queue' = [queue EXCEPT ![d][o] = [status |-> status, retries |-> retries]]

\* The officer records work without a connection.
Record(o) ==
  /\ queue[DeviceOf[o]][o] = NoRow
  /\ \E work \in Workloads :
       {o} \cup {p \in Operations : queue[DeviceOf[p]][p] # NoRow} \subseteq work
  /\ SetRow(DeviceOf[o], o, "PENDING", 0)
  /\ UNCHANGED <<upload, handler, seen, tables, history>>

PendingRows(d) == {o \in Operations : queue[d][o].status = "PENDING"}
FailedRows(d) == {o \in Operations : /\ queue[d][o].status = "FAILED"
                                     /\ queue[d][o].retries < MaxRetries}

\* ORDER BY created_at: the one ascending sequence of these operations.
Ordered(ops) == {order \in [1..Cardinality(ops) -> ops] :
                   \A i, j \in DOMAIN order : i < j => order[i] < order[j]}

\* A row that was read keeps the retry count it was read with.
RowsRead(d, order) ==
  [i \in DOMAIN order |-> [op |-> order[i], retries |-> queue[d][order[i]].retries]]

FirstBatch(rows) == SubSeq(rows, 1, IF Len(rows) < BatchSize THEN Len(rows) ELSE BatchSize)
AfterBatch(rows) == SubSeq(rows, BatchSize + 1, Len(rows))

OpsOf(rows) == {rows[i].op : i \in DOMAIN rows}

\* A request still has the operation before it.
InWork(o) == \E r \in Requests : \E i \in DOMAIN handler[r].todo : handler[r].todo[i] = o

\* What upload t has not booked yet.
Unbooked(t) ==
  OpsOf(upload[t].left) \cup OpsOf(upload[t].answer)
    \cup (IF upload[t].phase = "waiting" THEN OpsOf(upload[t].batch) ELSE {})

\* One POST of a batch: the server starts to work on it.
Send(s, r, rows) ==
  /\ handler[r] = FreeHandler
  /\ rows # <<>>
  /\ upload' = [upload EXCEPT ![s] = [phase |-> "waiting", left |-> AfterBatch(rows),
                                      batch |-> FirstBatch(rows), answer |-> <<>>]]
  /\ handler' = [handler EXCEPT
       ![r] = [for |-> s, todo |-> [i \in DOMAIN FirstBatch(rows) |-> FirstBatch(rows)[i].op],
               done |-> NothingDone, step |-> "check"]]
  /\ doubted' = doubted \cup {o \in OpsOf(rows) :
       InWork(o) \/ \E t \in Services \ {s} : o \in Unbooked(t)}
  /\ UNCHANGED <<queue, seen, tables, stale, cut>>

\* uploadPendingQueue reads the open rows once, before the first batch.
StartUpload(s, r) ==
  /\ upload[s].phase = "idle"
  /\ LET d == PhoneOf[s]
     IN  \E pending \in Ordered(PendingRows(d)), failed \in Ordered(FailedRows(d)) :
           Send(s, r, RowsRead(d, pending) \o RowsRead(d, failed))

NextBatch(s, r) ==
  /\ upload[s].phase = "saving"
  /\ upload[s].answer = <<>>
  /\ Send(s, r, upload[s].left)

\* No answer: the 60 s timeout, a lost connection, a non-200 status.  The rows
\* stay as they are, and the handler is not told.
GiveUp(s) ==
  /\ upload[s].phase = "waiting"
  /\ upload' = [upload EXCEPT ![s] = IdleUpload]
  /\ handler' = [r \in Requests |->
       IF handler[r].for = s THEN [handler[r] EXCEPT !.for = "gone"] ELSE handler[r]]
  /\ UNCHANGED <<queue, seen, tables, history>>

\* The first row of the batch with the localId of operation o, which is all that an
\* answer tells of it.
RowFor(s, o) ==
  LET batch == upload[s].batch
  IN  batch[Min({i \in DOMAIN batch : LocalId[batch[i].op] = LocalId[o]})]

\* The results of u's batch that are still to be booked.
Booking(u, results) ==
  [phase |-> "saving", left |-> u.left, batch |-> u.batch, answer |-> results]

\* Mutant: results are matched to the batch by position, not by localId.
SaveByPosition(s) ==
  /\ upload[s].phase = "saving"
  /\ upload[s].answer # <<>>
  /\ LET result == Head(upload[s].answer)
         d == PhoneOf[s]
         row == upload[s].batch[Len(upload[s].batch) - Len(upload[s].answer) + 1]
     IN  CASE result.outcome = "processed" -> SetRow(d, row.op, "UPLOADED", queue[d][row.op].retries)
           [] result.outcome = "conflict"  -> SetRow(d, row.op, "CONFLICT", queue[d][row.op].retries)
           [] result.outcome = "error"     -> SetRow(d, row.op, "FAILED", row.retries + 1)
  /\ upload' = [upload EXCEPT ![s] = Booking(@, Tail(@.answer))]
  /\ UNCHANGED <<handler, seen, tables, history>>

\* Mutant: a failed try is not counted.
SaveUncounted(s) ==
  /\ upload[s].phase = "saving"
  /\ upload[s].answer # <<>>
  /\ LET result == Head(upload[s].answer)
         d == PhoneOf[s]
         row == RowFor(s, result.op)
     IN  CASE result.outcome = "processed" -> SetRow(d, row.op, "UPLOADED", queue[d][row.op].retries)
           [] result.outcome = "conflict"  -> SetRow(d, row.op, "CONFLICT", queue[d][row.op].retries)
           [] result.outcome = "error"     -> SetRow(d, row.op, "FAILED", row.retries)
  /\ upload' = [upload EXCEPT ![s] = Booking(@, Tail(@.answer))]
  /\ UNCHANGED <<handler, seen, tables, history>>

\* _processUploadResults books one result, in its own database write.
SaveResult(s) ==
  /\ upload[s].phase = "saving"
  /\ upload[s].answer # <<>>
  /\ LET result == Head(upload[s].answer)
         d == PhoneOf[s]
         row == RowFor(s, result.op)
     IN  CASE result.outcome = "processed" -> SetRow(d, row.op, "UPLOADED", queue[d][row.op].retries)
           [] result.outcome = "conflict"  -> SetRow(d, row.op, "CONFLICT", queue[d][row.op].retries)
           [] result.outcome = "error"     -> SetRow(d, row.op, "FAILED", row.retries + 1)
  /\ upload' = [upload EXCEPT ![s] = Booking(@, Tail(@.answer))]
  /\ UNCHANGED <<handler, seen, tables, history>>

\* All batches are booked.  cleanupUploaded drops rows uploaded long ago.
FinishUpload(s, old) ==
  /\ upload[s].phase = "saving"
  /\ upload[s].answer = <<>> /\ upload[s].left = <<>>
  /\ \A o \in old : queue[PhoneOf[s]][o].status = "UPLOADED"
  /\ queue' = [queue EXCEPT ![PhoneOf[s]] =
       [o \in Operations |-> IF o \in old THEN [@[o] EXCEPT !.status = "DELETED"] ELSE @[o]]]
  /\ upload' = [upload EXCEPT ![s] = IdleUpload]
  /\ UNCHANGED <<handler, seen, tables, history>>

\* The app is closed while it books the answer.
AppDies(s) ==
  /\ "app" \in Faults
  /\ upload[s].phase = "saving"
  /\ upload' = [upload EXCEPT ![s] = IdleUpload]
  /\ UNCHANGED <<queue, handler, seen, tables, history>>

-----------------------------------------------------------------------------
(* The server: processOperationQueue, one operation after the other.       *)

Working(r) == handler[r].for # "nobody" /\ handler[r].todo # <<>>
Current(r) == Head(handler[r].todo)

At(r, step) == Working(r) /\ handler[r].step = step

GoTo(r, step, amount) ==
  /\ handler' = [handler EXCEPT ![r].step = step]
  /\ seen' = [seen EXCEPT ![r] = amount]

\* The operation is reported, and the handler turns to the next one.
Report(r, outcome) ==
  /\ handler' = [handler EXCEPT
       ![r] = [for |-> @.for, todo |-> Tail(@.todo), step |-> "check",
               done |-> [handler[r].done EXCEPT ![outcome] = Append(@, Current(r))]]]
  /\ seen' = [seen EXCEPT ![r] = 0]

\* Mutant: repayments are not looked up.
SameIdNoPayments(o) == {p \in stored : LocalId[p] = LocalId[o] /\ Kind[p] # "repayment"}

\* Rows that carry the same localId, in any of the three tables.
SameId(o) == {p \in stored : LocalId[p] = LocalId[o]}

\* Mutant: local_id is not unique.
TakenNever(o) == FALSE

\* local_id is unique in each table.
Taken(o) == \E p \in stored : LocalId[p] = LocalId[o] /\ Kind[p] = Kind[o]

AfterCheck(o) == IF Kind[o] = "repayment" THEN "insert" ELSE "validate"

CheckDuplicate(r) ==
  /\ At(r, "check")
  /\ IF SameId(Current(r)) # {}
     THEN Report(r, "processed")
     ELSE GoTo(r, AfterCheck(Current(r)), 0)
  /\ UNCHANGED <<queue, upload, tables, history>>

Repayments(l) == {o \in stored : Kind[o] = "repayment" /\ LoanOf[o] = l}
Disbursements(l) == {o \in stored : Kind[o] = "disbursement" /\ LoanOf[o] = l}
Total(ops) == SumFunctionOnSet(Amount, ops)

Above0(n) == IF n > 0 THEN n ELSE 0

\* Mutant: earlier disbursements are not counted.
RemainingWithoutEarlier(l) == Principal[l]

Remaining(l) == Above0(Principal[l] - Total(Disbursements(l)))

\* createLoanApplication looks for a pending application by customerId.  The
\* rows it creates itself carry none, so it only finds those made online.
ValidateApplication(r) ==
  /\ At(r, "validate") /\ Kind[Current(r)] = "application"
  /\ IF LoanOf[Current(r)] \in applied
     THEN Report(r, "conflict")
     ELSE GoTo(r, "insert", 0)
  /\ UNCHANGED <<queue, upload, tables, history>>

\* createLoanDisbursement: the loan still waits for money, and for this much.
ValidateDisbursement(r) ==
  /\ At(r, "validate") /\ Kind[Current(r)] = "disbursement"
  /\ LET l == LoanOf[Current(r)]
     IN  IF l \in activated \/ Amount[Current(r)] > Remaining(l)
         THEN Report(r, "error")
         ELSE GoTo(r, "insert", Remaining(l))
  /\ UNCHANGED <<queue, upload, tables, history>>

\* Mutant: a repayment is stored without updating the balance.
InsertOnly(r) ==
  LET o == Current(r)
  IN  /\ At(r, "insert")
      /\ ~Taken(o)
      /\ stored' = stored \cup {o}
      /\ activated' = IF Kind[o] = "disbursement" /\ Amount[o] >= seen[r]
                      THEN activated \cup {LoanOf[o]} ELSE activated
      /\ Report(r, "processed")
      /\ UNCHANGED <<queue, upload, balance, applied, history>>

Insert(r) ==
  LET o == Current(r)
  IN  /\ At(r, "insert")
      /\ ~Taken(o)
      /\ stored' = stored \cup {o}
      /\ activated' = IF Kind[o] = "disbursement" /\ Amount[o] >= seen[r]
                      THEN activated \cup {LoanOf[o]} ELSE activated
      /\ IF Kind[o] = "repayment" THEN GoTo(r, "readBalance", 0) ELSE Report(r, "processed")
      /\ stale' = IF Kind[o] = "disbursement" /\ seen[r] # Remaining(LoanOf[o])
                  THEN stale \cup {o} ELSE stale
      /\ UNCHANGED <<queue, upload, balance, applied, cut, doubted>>

\* The unique index refuses the row: an error, not a duplicate.
InsertRefused(r) ==
  /\ At(r, "insert")
  /\ Taken(Current(r))
  /\ Report(r, "error")
  /\ UNCHANGED <<queue, upload, tables, history>>

\* updateLoanBalance reads the balance and writes it in a second call.
ReadBalance(r) ==
  /\ At(r, "readBalance")
  /\ GoTo(r, "writeBalance", balance[LoanOf[Current(r)]])
  /\ UNCHANGED <<queue, upload, tables, history>>

\* Another has changed the balance since it was read.
StaleBalance(r) == IF seen[r] # balance[LoanOf[Current(r)]] THEN {Current(r)} ELSE {}

\* Mutant: no Math.max(0, ...).
WriteBalanceBelow0(r) ==
  /\ At(r, "writeBalance")
  /\ balance' = [balance EXCEPT ![LoanOf[Current(r)]] = seen[r] - Amount[Current(r)]]
  /\ Report(r, "processed")
  /\ stale' = stale \cup StaleBalance(r)
  /\ UNCHANGED <<queue, upload, stored, activated, applied, cut, doubted>>

WriteBalance(r) ==
  /\ At(r, "writeBalance")
  /\ balance' = [balance EXCEPT ![LoanOf[Current(r)]] =
                   Above0(seen[r] - Amount[Current(r)])]
  /\ Report(r, "processed")
  /\ stale' = stale \cup StaleBalance(r)
  /\ UNCHANGED <<queue, upload, stored, activated, applied, cut, doubted>>

\* The handler has stored a repayment and not yet taken it off the balance.
HalfWay(r) == Working(r) /\ handler[r].step \in {"readBalance", "writeBalance"}

\* The repayment that r leaves half done.
CutOff(r) == IF HalfWay(r) THEN {Current(r)} ELSE {}

\* A database call throws: the operation is an error, the next one goes on.
StepFails(r) ==
  /\ "step" \in Faults
  /\ Working(r)
  /\ Report(r, "error")
  /\ cut' = cut \cup CutOff(r)
  /\ doubted' = doubted \cup ({Current(r)} \cap stored)
  /\ UNCHANGED <<queue, upload, tables, stale>>

\* The process dies with the request.
ServerDies(r) ==
  /\ "server" \in Faults
  /\ Working(r)
  /\ handler' = [handler EXCEPT ![r] = FreeHandler]
  /\ seen' = [seen EXCEPT ![r] = 0]
  /\ upload' = [s \in Services |-> IF handler[r].for = s THEN IdleUpload ELSE upload[s]]
  /\ cut' = cut \cup CutOff(r)
  /\ UNCHANGED <<queue, tables, stale, doubted>>

Results(ops, outcome) == [i \in DOMAIN ops |-> [op |-> ops[i], outcome |-> outcome]]

\* The answer lists what was processed, then the conflicts, then the errors.
Answer(done) ==
  Results(done["processed"], "processed") \o Results(done["conflict"], "conflict")
    \o Results(done["error"], "error")

Reply(r) ==
  /\ handler[r].for # "nobody" /\ handler[r].todo = <<>>
  /\ upload' = [s \in Services |->
       IF handler[r].for = s
       THEN Booking(upload[s], Answer(handler[r].done)) ELSE upload[s]]
  /\ handler' = [handler EXCEPT ![r] = FreeHandler]
  /\ UNCHANGED <<queue, seen, tables, history>>

\* The online application, once submitted, names its customer.
SubmitOnline(c) ==
  /\ c \in OnlineCustomers \ applied
  /\ applied' = applied \cup {c}
  /\ UNCHANGED <<queue, upload, handler, seen, stored, balance, activated, history>>

-----------------------------------------------------------------------------
Phone(s) ==
  \/ \E r \in Requests : StartUpload(s, r) \/ NextBatch(s, r)
  \/ GiveUp(s)
  \/ SaveResult(s)
  \/ \E old \in SUBSET Operations : FinishUpload(s, old)
  \/ AppDies(s)

HandlerStep(r) ==
  \/ CheckDuplicate(r)
  \/ ValidateApplication(r)
  \/ ValidateDisbursement(r)
  \/ Insert(r)
  \/ InsertRefused(r)
  \/ ReadBalance(r)
  \/ WriteBalance(r)

Server(r) ==
  \/ HandlerStep(r)
  \/ StepFails(r)
  \/ ServerDies(r)
  \/ Reply(r)

Next ==
  \/ \E o \in Operations : Record(o)
  \/ \E s \in Services : Phone(s)
  \/ \E r \in Requests : Server(r)
  \/ \E c \in OnlineCustomers : SubmitOnline(c)

Spec == Init /\ [][Next]_vars

\* A service syncs again and again while there are open rows, and saves the
\* answers it gets; a request the server has taken is worked off.
Fairness ==
  /\ \A s \in Services :
       /\ SF_vars(\E r \in Requests : StartUpload(s, r))
       /\ SF_vars(\E r \in Requests : NextBatch(s, r))
       /\ WF_vars(SaveResult(s))
       /\ WF_vars(\E old \in SUBSET Operations : FinishUpload(s, old))
  /\ \A r \in Requests : WF_vars(HandlerStep(r)) /\ WF_vars(Reply(r))

FairSpec == Spec /\ Fairness

-----------------------------------------------------------------------------
(* Correctness.                                                            *)

Row(o) == queue[DeviceOf[o]][o]
Booked(o) == Row(o).status \in {"UPLOADED", "DELETED"}
GivenUp(o) == Row(o).status = "FAILED" /\ Row(o).retries >= MaxRetries

\* The repayment's row is written, its loan's balance is not.
HalfDone(o) == \E r \in Requests : HalfWay(r) /\ Current(r) = o

\* The repayments that have been taken off the balance.
Deducted(l) == {o \in Repayments(l) : o \notin cut /\ ~HalfDone(o)}

RowType == [status : {"NONE", "PENDING", "UPLOADED", "FAILED", "CONFLICT", "DELETED"},
            retries : Nat]
ResultType == [op : Operations, outcome : Outcomes]
ReadRowType == [op : Operations, retries : Nat]

\* Every variable has its type; a balance is never negative (sync.service.ts
\* writes Math.max(0, newBalance)).
TypeOK ==
  /\ queue \in [Devices -> [Operations -> RowType]]
  /\ upload \in [Services -> [phase : {"idle", "waiting", "saving"},
                              left : Seq(ReadRowType), batch : Seq(ReadRowType),
                              answer : Seq(ResultType)]]
  /\ handler \in [Requests -> [for : Services \cup {"nobody", "gone"},
                               todo : Seq(Operations),
                               done : [Outcomes -> Seq(Operations)],
                               step : {"check", "validate", "insert", "readBalance",
                                       "writeBalance"}]]
  /\ seen \in [Requests -> Nat]
  /\ stored \subseteq Operations
  /\ balance \in [Loans -> Nat]
  /\ activated \subseteq Loans
  /\ applied \subseteq OnlineCustomers
  /\ stale \subseteq Operations /\ cut \subseteq Operations /\ doubted \subseteq Operations

\* What a phone books as uploaded (and later deletes) is on the server, itself
\* and not only something with its localId: no officer's work is dropped
\* (_processUploadResults, checkDuplicateOperation).
UploadedIsStored == \A o \in Operations : Booked(o) => o \in stored

\* However often a repayment is sent, and by however many requests at a time,
\* its amount leaves the balance at most once (checkDuplicateOperation, the
\* unique local_id, updateLoanBalance).
NoDoubleDeduction ==
  \A l \in Loans : balance[l] >= Principal[l] - Total(Repayments(l))

\* The balance of a loan is its principal less the repayments the server has, however
\* often and by however many requests they are sent.  Missing are the one a handler
\* has stored and is about to take off, and those whose handler ended in between; and
\* nothing is said of a loan once two handlers have read the same balance and both
\* written it, when one deduction is lost (createRepayment, updateLoanBalance).
BalanceMatchesRepayments ==
  \A l \in Loans :
    stale \cap Repayments(l) = {} => balance[l] = Above0(Principal[l] - Total(Deducted(l)))

\* No more is disbursed than the principal, and a loan turns CURRENT exactly when the
\* disbursements reach it, until one is stored that was checked against a remainder
\* that another has changed since (createLoanDisbursement).
DisbursedWithinPrincipal ==
  \A l \in Loans : stale \cap Disbursements(l) = {} =>
    /\ Total(Disbursements(l)) <= Principal[l]
    /\ l \in activated <=> /\ Disbursements(l) # {}
                          /\ Total(Disbursements(l)) = Principal[l]

\* Work a phone shows as failed for good is not on the server, so that entering it
\* again does not double it, unless it was sent while an earlier try of it was under
\* way or not booked yet, or a call failed for it after it was stored
\* (getFailedOperations stops at retry_count 5, checkDuplicateOperation).
GivenUpIsNotStored ==
  \A o \in Operations : GivenUp(o) /\ o \notin doubted => o \notin stored

\* A customer with a pending application gets no second one from the queue
\* (createLoanApplication checks "for duplicate NIN").
OnePendingApplication ==
  \A o, p \in stored : /\ Kind[o] = "application" /\ Kind[p] = "application"
                       /\ LoanOf[o] = LoanOf[p]
                       => o = p

\* Once requests are answered in time, all recorded work settles: it is booked,
\* or the phone shows it as a conflict or as failed for good
\* (performFullSync retries, every result of a batch is booked).
RecordedWorkSettles ==
  <>[][\A s \in Services : ~GiveUp(s)]_vars
    => \A o \in Operations :
         (Row(o).status = "PENDING")
           ~> (Booked(o) \/ Row(o).status = "CONFLICT" \/ GivenUp(o))
=============================================================================
