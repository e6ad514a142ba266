------------------------- MODULE UploadQueueProofs -------------------------
(***************************************************************************)
(* Proofs about UploadQueue, for any number of phones, services, requests  *)
(* and operations, whatever fails unless a theorem says otherwise.         *)
(*                                                                         *)
(* Routed says which request works for which service and that an answer is *)
(* only about the batch it was asked for.  OnServer says that what is      *)
(* reported as processed is stored, at every hand it passes through: the   *)
(* handler, the answer, the row.  OneByOne, NotBelow and Exact follow a    *)
(* repayment between its insert and the write of the balance, PaidOut a    *)
(* disbursement between its validation and its insert.  Undone follows an  *)
(* operation that is an error the way OnServer follows one that is         *)
(* processed.                                                              *)
(***************************************************************************)
EXTENDS UploadQueue, SumTheorems, SequenceTheorems

\* The columns only sums and balances depend on are left out of the shape.
Shape ==
  /\ queue \in [Devices -> [Operations -> RowType]]
  /\ upload \in [Services -> [phase : {"idle", "waiting", "saving"},
                              left : Seq(ReadRowType), batch : Seq(ReadRowType),
                              answer : Seq(ResultType)]]
  /\ handler \in [Requests -> [for : Services \cup {"nobody", "gone"},
                               todo : Seq(Operations),
                               done : [Outcomes -> Seq(Operations)],
                               step : {"check", "validate", "insert", "readBalance",
                                       "writeBalance"}]]

BatchOps(s) == {upload[s].batch[i].op : i \in DOMAIN upload[s].batch}

OpsIn(ops, S) == \A i \in DOMAIN ops : ops[i] \in S

\* A request works for a service that waits for it, on that service's batch.
Serves(r, s) ==
  /\ upload[s].phase = "waiting"
  /\ OpsIn(handler[r].todo, BatchOps(s))
  /\ \A outcome \in Outcomes : OpsIn(handler[r].done[outcome], BatchOps(s))

Routed ==
  /\ \A s \in Services, r, q \in Requests :
       handler[r].for = s /\ handler[q].for = s => r = q
  /\ \A s \in Services, r \in Requests : handler[r].for = s => Serves(r, s)
  /\ \A s \in Services : \A i \in DOMAIN upload[s].answer :
       upload[s].answer[i].op \in BatchOps(s)

OnServer ==
  /\ stored \subseteq Operations
  /\ \A r \in Requests :
       /\ OpsIn(handler[r].done["processed"], stored)
       /\ handler[r].step \in {"readBalance", "writeBalance"} /\ handler[r].todo # <<>>
            => Current(r) \in stored
  /\ \A s \in Services : \A i \in DOMAIN upload[s].answer :
       upload[s].answer[i].outcome = "processed" => upload[s].answer[i].op \in stored
  /\ \A d \in Devices, o \in Operations :
       queue[d][o].status \in {"UPLOADED", "DELETED"} => o \in stored

-----------------------------------------------------------------------------
(* The shape of the state.                                                 *)

\* Rows read from a phone's table, in any order, are a sequence of rows.
LEMMA RowsReadType ==
  ASSUME Shape, NEW d \in Devices,
         NEW ops \in SUBSET Operations, NEW order \in Ordered(ops)
  PROVE  RowsRead(d, order) \in Seq(ReadRowType)
<1>1. IsFiniteSet(ops)
  BY FS_Subset, OperationsAssumption
<1>2. Cardinality(ops) \in Nat
  BY <1>1, FS_CardinalityType
<1>3. order \in [1..Cardinality(ops) -> Operations]
  BY DEF Ordered
<1>4. \A i \in 1..Cardinality(ops) :
        [op |-> order[i], retries |-> queue[d][order[i]].retries] \in ReadRowType
  <2>1. ASSUME NEW o \in Operations PROVE queue[d][o].retries \in Nat
    <3>1. queue[d][o] \in RowType
      BY DEF Shape
    <3>2. QED BY <3>1 DEF RowType
  <2>2. QED BY <1>3, <2>1 DEF ReadRowType
<1>5. RowsRead(d, order) = [i \in 1..Cardinality(ops) |->
        [op |-> order[i], retries |-> queue[d][order[i]].retries]]
  BY <1>3 DEF RowsRead
<1>6. RowsRead(d, order) \in [1..Cardinality(ops) -> ReadRowType]
  BY <1>4, <1>5
<1>7. QED BY <1>2, <1>6

\* Cutting a sequence of rows into a batch and the rest leaves two such
\* sequences, and the request that is sent carries the batch's operations.
LEMMA BatchType ==
  ASSUME NEW rows \in Seq(ReadRowType)
  PROVE  /\ FirstBatch(rows) \in Seq(ReadRowType)
         /\ AfterBatch(rows) \in Seq(ReadRowType)
         /\ [i \in DOMAIN FirstBatch(rows) |-> FirstBatch(rows)[i].op] \in Seq(Operations)
<1>1. FirstBatch(rows) \in Seq(ReadRowType)
  BY BoundsAssumption, SubSeqProperties DEF FirstBatch
<1>2. AfterBatch(rows) \in Seq(ReadRowType)
  BY BoundsAssumption, SubSeqProperties DEF AfterBatch
<1>3. /\ DOMAIN FirstBatch(rows) = 1..Len(FirstBatch(rows))
      /\ Len(FirstBatch(rows)) \in Nat
      /\ \A i \in DOMAIN FirstBatch(rows) : FirstBatch(rows)[i].op \in Operations
  <2>1. \A i \in DOMAIN FirstBatch(rows) : FirstBatch(rows)[i] \in ReadRowType
    BY <1>1
  <2>2. QED BY <1>1, <2>1 DEF ReadRowType
<1>4. QED BY <1>1, <1>2, <1>3

\* What is read at the start of an upload is a sequence of rows.
LEMMA StartRows ==
  ASSUME Shape, NEW s \in Services, NEW r \in Requests, StartUpload(s, r)
  PROVE  \E rows \in Seq(ReadRowType) : Send(s, r, rows)
<1>1. PhoneOf[s] \in Devices
  BY OperationsAssumption
<1>2. PICK pending \in Ordered(PendingRows(PhoneOf[s])),
           failed \in Ordered(FailedRows(PhoneOf[s])) :
        Send(s, r, RowsRead(PhoneOf[s], pending) \o RowsRead(PhoneOf[s], failed))
  BY DEF StartUpload
<1>3. /\ PendingRows(PhoneOf[s]) \in SUBSET Operations
      /\ FailedRows(PhoneOf[s]) \in SUBSET Operations
  BY DEF PendingRows, FailedRows
<1>4. /\ RowsRead(PhoneOf[s], pending) \in Seq(ReadRowType)
      /\ RowsRead(PhoneOf[s], failed) \in Seq(ReadRowType)
  BY <1>1, <1>3, RowsReadType
<1>5. QED BY <1>2, <1>4, ConcatProperties

\* A result is booked on a row of the batch that carries its localId.
LEMMA RowForInBatch ==
  ASSUME Shape, NEW s \in Services, NEW o \in BatchOps(s)
  PROVE  /\ RowFor(s, o) \in ReadRowType /\ RowFor(s, o).op \in Operations \cap BatchOps(s)
         /\ RowFor(s, o).retries \in Nat /\ LocalId[RowFor(s, o).op] = LocalId[o]
<1> DEFINE batch == upload[s].batch
           alike == {i \in DOMAIN batch : LocalId[batch[i].op] = LocalId[o]}
<1>1. batch \in Seq(ReadRowType) /\ DOMAIN batch \subseteq Nat
  BY DEF Shape
<1>2. alike \in SUBSET Nat /\ alike # {}
  BY <1>1 DEF BatchOps
<1> HIDE DEF alike
<1>3. Min(alike) \in alike
  BY <1>2, LeastNumber DEF Min
<1>4. RowFor(s, o) = batch[Min(alike)]
  BY DEF RowFor, alike
<1>5. Min(alike) \in DOMAIN batch /\ LocalId[batch[Min(alike)].op] = LocalId[o]
  BY <1>3 DEF alike
<1>6. batch[Min(alike)] \in ReadRowType
  BY <1>1, <1>5
<1>7. batch[Min(alike)].op \in BatchOps(s)
  BY <1>5 DEF BatchOps
<1> QED
  BY <1>4, <1>5, <1>6, <1>7 DEF ReadRowType

\* What a handler may report of its work.
Reportable(done) == {result \in ResultType :
  \E j \in DOMAIN done[result.outcome] : done[result.outcome][j] = result.op}

\* The answer of a handler: results of what it did, and of nothing else.
LEMMA AnswerContent ==
  ASSUME NEW done \in [Outcomes -> Seq(Operations)]
  PROVE  Answer(done) \in Seq(Reportable(done))
<1>1. ASSUME NEW outcome \in Outcomes
      PROVE  Results(done[outcome], outcome) \in Seq(Reportable(done))
  <2>1. /\ DOMAIN done[outcome] = 1..Len(done[outcome])
        /\ Len(done[outcome]) \in Nat
        /\ \A i \in DOMAIN done[outcome] : done[outcome][i] \in Operations
    OBVIOUS
  <2>2. ASSUME NEW i \in DOMAIN done[outcome]
        PROVE  [op |-> done[outcome][i], outcome |-> outcome] \in Reportable(done)
    BY <2>1 DEF Reportable, ResultType
  <2>3. Results(done[outcome], outcome) =
          [i \in 1..Len(done[outcome]) |-> [op |-> done[outcome][i], outcome |-> outcome]]
    BY <2>1 DEF Results
  <2>4. Results(done[outcome], outcome) \in [1..Len(done[outcome]) -> Reportable(done)]
    BY <2>1, <2>2, <2>3
  <2>5. QED BY <2>1, <2>4
<1>2. "processed" \in Outcomes /\ "conflict" \in Outcomes /\ "error" \in Outcomes
  BY DEF Outcomes
<1> DEFINE P == Results(done["processed"], "processed")
           C == Results(done["conflict"], "conflict")
           E == Results(done["error"], "error")
<1>3. /\ P \in Seq(Reportable(done)) /\ C \in Seq(Reportable(done))
      /\ E \in Seq(Reportable(done))
  BY <1>1, <1>2
<1>4. P \o C \o E \in Seq(Reportable(done))
  <2> HIDE DEF P, C, E
  <2>1. P \o C \in Seq(Reportable(done))
    BY <1>3
  <2>2. QED BY <1>3, <2>1
<1>5. QED BY <1>4 DEF Answer

-----------------------------------------------------------------------------
(* Every step keeps the shape and the routing.                             *)

RoutedShape == Shape /\ Routed

\* Sending a batch starts the one request that works for the service.
LEMMA SendRouted ==
  ASSUME RoutedShape, NEW s \in Services, NEW r \in Requests,
         NEW rows \in Seq(ReadRowType), Send(s, r, rows), upload[s].phase # "waiting"
  PROVE  RoutedShape'
<1> DEFINE batch == FirstBatch(rows)
           todo == [i \in DOMAIN batch |-> batch[i].op]
<1>1. /\ batch \in Seq(ReadRowType) /\ AfterBatch(rows) \in Seq(ReadRowType)
      /\ todo \in Seq(Operations)
  BY BatchType
<1>2. /\ upload' = [upload EXCEPT ![s] = [phase |-> "waiting", left |-> AfterBatch(rows),
                                          batch |-> batch, answer |-> <<>>]]
      /\ handler' = [handler EXCEPT ![r] = [for |-> s, todo |-> todo, done |-> NothingDone,
                                            step |-> "check"]]
      /\ queue' = queue
  BY DEF Send
<1>3. NothingDone \in [Outcomes -> Seq(Operations)]
      /\ \A outcome \in Outcomes : NothingDone[outcome] = <<>>
  BY DEF NothingDone
<1> HIDE DEF batch, todo
<1>4. Shape'
  <2>1. queue' \in [Devices -> [Operations -> RowType]]
    BY <1>2 DEF RoutedShape, Shape
  <2>2. upload' \in [Services -> [phase : {"idle", "waiting", "saving"},
                                 left : Seq(ReadRowType), batch : Seq(ReadRowType),
                                 answer : Seq(ResultType)]]
    BY <1>1, <1>2 DEF RoutedShape, Shape
  <2>3. handler' \in [Requests -> [for : Services \cup {"nobody", "gone"},
                                  todo : Seq(Operations),
                                  done : [Outcomes -> Seq(Operations)],
                                  step : {"check", "validate", "insert", "readBalance",
                                          "writeBalance"}]]
    BY <1>1, <1>2, <1>3 DEF RoutedShape, Shape
  <2>4. QED BY <2>1, <2>2, <2>3 DEF Shape
<1>5. \A t \in Services : t # s => /\ upload'[t] = upload[t]
                                   /\ (BatchOps(t))' = BatchOps(t)
  BY <1>2 DEF RoutedShape, Shape, BatchOps
<1>6. /\ upload'[s].phase = "waiting" /\ upload'[s].answer = <<>>
      /\ (BatchOps(s))' = {batch[i].op : i \in DOMAIN batch}
  BY <1>2 DEF RoutedShape, Shape, BatchOps
<1>7. \A q \in Requests : q # r => handler'[q] = handler[q] /\ handler[q].for # s
  BY <1>2 DEF RoutedShape, Shape, Routed, Serves
<1>8. /\ handler'[r].for = s /\ handler'[r].todo = todo /\ handler'[r].done = NothingDone
      /\ handler[r].for = "nobody"
  BY <1>2 DEF RoutedShape, Shape, Send, FreeHandler
<1>9. (Serves(r, s))'
  BY <1>3, <1>6, <1>8 DEF Serves, OpsIn, todo
<1>10. Routed'
  <2>1. ASSUME NEW t \in Services, NEW q \in Requests, handler'[q].for = t
        PROVE  (Serves(q, t))'
    <3>1. CASE q = r
      BY <2>1, <3>1, <1>8, <1>9
    <3>2. CASE q # r
      <4>1. handler'[q] = handler[q] /\ t # s
        BY <2>1, <3>2, <1>7
      <4>2. Serves(q, t)
        BY <2>1, <4>1 DEF RoutedShape, Routed
      <4>3. QED BY <4>1, <4>2, <1>5 DEF Serves
    <3>3. QED BY <3>1, <3>2
  <2>2. ASSUME NEW t \in Services, NEW p \in Requests, NEW q \in Requests,
               handler'[p].for = t, handler'[q].for = t
        PROVE  p = q
    BY <2>2, <1>7, <1>8 DEF RoutedShape, Routed
  <2>3. ASSUME NEW t \in Services, NEW i \in DOMAIN upload'[t].answer
        PROVE  upload'[t].answer[i].op \in (BatchOps(t))'
    BY <2>3, <1>5, <1>6 DEF RoutedShape, Routed
  <2>4. QED BY <2>1, <2>2, <2>3 DEF Routed
<1>11. QED BY <1>4, <1>10 DEF RoutedShape

\* A service that stops waiting or booking while no request works for it.
LEMMA ResetRouted ==
  ASSUME RoutedShape, NEW s \in Services,
         upload' = [upload EXCEPT ![s] = IdleUpload],
         queue' \in [Devices -> [Operations -> RowType]],
         handler' = handler, upload[s].phase = "saving"
  PROVE  RoutedShape'
<1>1. \A r \in Requests : handler[r].for # s
  BY DEF RoutedShape, Routed, Serves
<1>2. Shape'
  BY DEF RoutedShape, Shape, IdleUpload
<1>3. \A t \in Services : t # s => upload'[t] = upload[t] /\ (BatchOps(t))' = BatchOps(t)
  BY DEF RoutedShape, Shape, BatchOps
<1>4. upload'[s].answer = <<>>
  BY DEF RoutedShape, Shape, IdleUpload
<1>5. Routed'
  BY <1>1, <1>3, <1>4 DEF RoutedShape, Routed, Serves
<1>6. QED BY <1>2, <1>5 DEF RoutedShape

\* A handler that turns to another step of the same operation.
LEMMA GoToRouted ==
  ASSUME RoutedShape, NEW r \in Requests, NEW amount,
         NEW step \in {"check", "validate", "insert", "readBalance", "writeBalance"},
         GoTo(r, step, amount), queue' = queue, upload' = upload
  PROVE  RoutedShape'
<1>1. handler' = [handler EXCEPT ![r].step = step]
  BY DEF GoTo
<1>2. Shape'
  BY <1>1 DEF RoutedShape, Shape
<1>3. \A q \in Requests : /\ handler'[q].for = handler[q].for
                          /\ handler'[q].todo = handler[q].todo
                          /\ handler'[q].done = handler[q].done
  BY <1>1 DEF RoutedShape, Shape
<1>4. Routed'
  BY <1>3 DEF RoutedShape, Routed, Serves, BatchOps, OpsIn
<1>5. QED BY <1>2, <1>4 DEF RoutedShape

\* What reporting an operation does to the handler that does it.
LEMMA ReportEffect ==
  ASSUME Shape, NEW r \in Requests, NEW outcome \in Outcomes,
         Working(r), Report(r, outcome)
  PROVE  /\ handler' \in [Requests -> [for : Services \cup {"nobody", "gone"},
                                       todo : Seq(Operations),
                                       done : [Outcomes -> Seq(Operations)],
                                       step : {"check", "validate", "insert",
                                               "readBalance", "writeBalance"}]]
         /\ Current(r) \in Operations
         /\ handler'[r].for = handler[r].for
         /\ handler'[r].step = "check"
         /\ handler'[r].todo = Tail(handler[r].todo)
         /\ handler'[r].done = [handler[r].done EXCEPT ![outcome] = Append(@, Current(r))]
         /\ \A q \in Requests : q # r => handler'[q] = handler[q]
<1> DEFINE H == handler[r]
<1>1. /\ H.for \in Services \cup {"nobody", "gone"} /\ H.todo \in Seq(Operations)
      /\ H.done \in [Outcomes -> Seq(Operations)]
      /\ H = [for |-> H.for, todo |-> H.todo, done |-> H.done, step |-> H.step]
  BY DEF Shape
<1>2. Current(r) \in Operations /\ Tail(H.todo) \in Seq(Operations)
  BY <1>1, HeadTailProperties DEF Working, Current
<1>3. handler' = [handler EXCEPT
        ![r] = [for |-> H.for, todo |-> Tail(H.todo), step |-> "check",
                done |-> [H.done EXCEPT ![outcome] = Append(@, Current(r))]]]
  BY <1>1 DEF Report, Shape
<1>4. [H.done EXCEPT ![outcome] = Append(@, Current(r))] \in [Outcomes -> Seq(Operations)]
  BY <1>1, <1>2
<1> HIDE DEF H
<1>5. QED BY <1>1, <1>2, <1>3, <1>4 DEF H, Shape

\* A reported operation stays within the batch.
LEMMA ReportRouted ==
  ASSUME RoutedShape, NEW r \in Requests, NEW outcome \in Outcomes,
         Working(r), Report(r, outcome), queue' = queue, upload' = upload
  PROVE  RoutedShape'
<1>1. Shape /\ Routed
  BY DEF RoutedShape
<1> DEFINE done == handler[r].done
<1>0. /\ Current(r) \in Operations
      /\ handler'[r].for = handler[r].for
      /\ handler'[r].todo = Tail(handler[r].todo)
      /\ handler'[r].done = [done EXCEPT ![outcome] = Append(@, Current(r))]
      /\ \A q \in Requests : q # r => handler'[q] = handler[q]
      /\ done \in [Outcomes -> Seq(Operations)]
  BY <1>1, ReportEffect DEF Shape
<1>2. Shape'
  BY <1>1, ReportEffect DEF Shape
<1>3. ASSUME NEW s \in Services, handler[r].for = s
      PROVE  /\ upload[s].phase = "waiting"
             /\ OpsIn(Tail(handler[r].todo), BatchOps(s))
             /\ \A o \in Outcomes : OpsIn(handler'[r].done[o], BatchOps(s))
  <2>1. Serves(r, s)
    BY <1>1, <1>3 DEF Routed
  <2>2. handler[r].todo \in Seq(Operations) /\ handler[r].todo # <<>>
    BY <1>1 DEF Shape, Working
  <2>3. Current(r) \in BatchOps(s) /\ OpsIn(Tail(handler[r].todo), BatchOps(s))
    BY <2>1, <2>2 DEF Serves, OpsIn, Current
  <2>4. ASSUME NEW o \in Outcomes
        PROVE  OpsIn(handler'[r].done[o], BatchOps(s))
    <3>1. OpsIn(handler[r].done[o], BatchOps(s)) /\ handler[r].done[o] \in Seq(Operations)
      BY <1>1, <2>1 DEF Serves, Shape
    <3>2. CASE o = outcome
      <4>1. handler'[r].done[o] = Append(handler[r].done[o], Current(r))
        BY <1>0, <3>2
      <4>2. QED BY <1>0, <3>1, <4>1, <2>3 DEF OpsIn
    <3>3. CASE o # outcome
      <4>1. handler'[r].done[o] = handler[r].done[o]
        BY <1>0, <3>3
      <4>2. QED BY <3>1, <4>1
    <3>4. QED BY <3>2, <3>3
  <2>5. QED BY <2>1, <2>3, <2>4 DEF Serves
<1>4. Routed'
  <2>1. \A q \in Requests : handler'[q].for = handler[q].for
    BY <1>0
  <2>2. ASSUME NEW s \in Services, NEW q \in Requests, handler'[q].for = s
        PROVE  (Serves(q, s))'
    <3>1. (BatchOps(s))' = BatchOps(s)
      BY DEF BatchOps
    <3>2. CASE q = r
      BY <1>0, <1>3, <2>2, <3>1, <3>2 DEF Serves
    <3>3. CASE q # r
      <4>1. handler'[q] = handler[q]
        BY <1>0, <3>3
      <4>2. Serves(q, s)
        BY <1>1, <2>1, <2>2 DEF Routed
      <4>3. QED BY <3>1, <4>1, <4>2 DEF Serves
    <3>4. QED BY <3>2, <3>3
  <2>3. QED BY <1>1, <2>1, <2>2 DEF Routed, BatchOps
<1>5. QED BY <1>2, <1>4 DEF RoutedShape

\* A row written with a status of the table.
LEMMA SetRowType ==
  ASSUME Shape, NEW d \in Devices, NEW o \in Operations, NEW retries \in Nat,
         NEW status \in {"NONE", "PENDING", "UPLOADED", "FAILED", "CONFLICT", "DELETED"},
         SetRow(d, o, status, retries)
  PROVE  queue' \in [Devices -> [Operations -> RowType]]
<1>1. [status |-> status, retries |-> retries] \in RowType
  BY DEF RowType
<1>2. queue' = [queue EXCEPT ![d][o] = [status |-> status, retries |-> retries]]
  BY DEF SetRow
<1>3. QED BY <1>1, <1>2 DEF Shape

\* The result that is booked next: its operation is one of the batch.
LEMMA NextResult ==
  ASSUME RoutedShape, NEW s \in Services, upload[s].answer # <<>>
  PROVE  /\ Head(upload[s].answer) \in ResultType
         /\ Head(upload[s].answer) = upload[s].answer[1] /\ 1 \in DOMAIN upload[s].answer
         /\ Head(upload[s].answer).op \in Operations \cap BatchOps(s)
         /\ Head(upload[s].answer).outcome \in Outcomes
<1>1. upload[s].answer \in Seq(ResultType)
  BY DEF RoutedShape, Shape
<1>2. /\ Head(upload[s].answer) = upload[s].answer[1] /\ 1 \in DOMAIN upload[s].answer
      /\ Head(upload[s].answer) \in ResultType
  BY <1>1
<1>3. upload[s].answer[1].op \in BatchOps(s)
  BY <1>2 DEF RoutedShape, Routed
<1>4. QED BY <1>2, <1>3 DEF ResultType

\* What booking a result writes.
LEMMA SaveEffect ==
  ASSUME RoutedShape, NEW s \in Services, SaveResult(s)
  PROVE  LET result == Head(upload[s].answer)
         IN  /\ queue' \in [Devices -> [Operations -> RowType]]
             /\ \A d \in Devices, o \in Operations :
                  queue'[d][o].status \in {"UPLOADED", "DELETED"} =>
                    \/ queue[d][o].status \in {"UPLOADED", "DELETED"}
                    \/ o = RowFor(s, result.op).op /\ result.outcome = "processed"
<1> DEFINE result == Head(upload[s].answer)
           dev == PhoneOf[s]
           row == RowFor(s, result.op)
<1>1. /\ row.op \in Operations /\ result.outcome \in Outcomes
      /\ dev \in Devices /\ row.retries \in Nat /\ Shape
  BY NextResult, RowForInBatch, OperationsAssumption DEF SaveResult, RoutedShape
<1>2. queue[dev][row.op].retries \in Nat
  <2>1. queue[dev][row.op] \in RowType
    BY <1>1 DEF Shape
  <2>2. QED BY <2>1 DEF RowType
<1>3. \E status \in {"UPLOADED", "CONFLICT", "FAILED"}, retries \in Nat :
        /\ SetRow(dev, row.op, status, retries)
        /\ status = "UPLOADED" => result.outcome = "processed"
  <2>1. CASE result.outcome = "processed"
    BY <2>1, <1>2 DEF SaveResult
  <2>2. CASE result.outcome = "conflict"
    BY <2>2, <1>2 DEF SaveResult
  <2>3. CASE result.outcome = "error"
    <3>1. SetRow(dev, row.op, "FAILED", row.retries + 1)
      BY <2>3 DEF SaveResult
    <3>2. row.retries + 1 \in Nat
      BY <1>1
    <3>3. QED BY <3>1, <3>2
  <2>4. QED BY <1>1, <2>1, <2>2, <2>3 DEF Outcomes
<1> HIDE DEF result, dev, row
<1>4. PICK status \in {"UPLOADED", "CONFLICT", "FAILED"}, retries \in Nat :
        /\ SetRow(dev, row.op, status, retries)
        /\ status = "UPLOADED" => result.outcome = "processed"
  BY <1>3
<1>5. queue' \in [Devices -> [Operations -> RowType]]
  BY <1>1, <1>4, SetRowType
<1>6. ASSUME NEW d \in Devices, NEW o \in Operations,
             queue'[d][o].status \in {"UPLOADED", "DELETED"}
      PROVE  \/ queue[d][o].status \in {"UPLOADED", "DELETED"}
             \/ o = row.op /\ result.outcome = "processed"
  <2>1. CASE d = dev /\ o = row.op
    <3>1. queue'[d][o].status = status
      BY <1>1, <1>4, <2>1 DEF SetRow, Shape
    <3>2. QED BY <1>4, <1>6, <2>1, <3>1
  <2>2. CASE ~(d = dev /\ o = row.op)
    <3>1. queue'[d][o] = queue[d][o]
      BY <1>1, <1>4, <2>2 DEF SetRow, Shape
    <3>2. QED BY <1>6, <3>1
  <2>3. QED BY <2>1, <2>2
<1>7. QED BY <1>5, <1>6 DEF result, row

LEMMA SaveRouted ==
  ASSUME RoutedShape, NEW s \in Services, SaveResult(s)
  PROVE  RoutedShape'
<1>1. /\ Shape /\ Routed /\ handler' = handler
      /\ upload' = [upload EXCEPT ![s] = Booking(@, Tail(@.answer))]
      /\ upload[s].answer \in Seq(ResultType) /\ upload[s].answer # <<>>
  BY DEF SaveResult, RoutedShape, Shape
<1>2. /\ Tail(upload[s].answer) \in Seq(ResultType)
      /\ \A i \in DOMAIN Tail(upload[s].answer) :
           /\ i + 1 \in DOMAIN upload[s].answer
           /\ Tail(upload[s].answer)[i] = upload[s].answer[i + 1]
  BY <1>1
<1>3. Shape'
  <2>1. queue' \in [Devices -> [Operations -> RowType]]
    BY SaveEffect
  <2>2. upload' \in [Services -> [phase : {"idle", "waiting", "saving"},
                                 left : Seq(ReadRowType), batch : Seq(ReadRowType),
                                 answer : Seq(ResultType)]]
    BY <1>1, <1>2 DEF Shape, Booking
  <2>3. QED BY <1>1, <2>1, <2>2 DEF Shape
<1>4. \A t \in Services : upload'[t].batch = upload[t].batch /\ upload'[t].phase = upload[t].phase
  BY <1>1 DEF Shape, Booking, SaveResult
<1>5. /\ upload'[s].answer = Tail(upload[s].answer)
      /\ \A t \in Services : t # s => upload'[t].answer = upload[t].answer
  BY <1>1 DEF Shape, Booking
<1>6. Routed'
  <2>1. \A t \in Services : (BatchOps(t))' = BatchOps(t)
    BY <1>4 DEF BatchOps
  <2>2. \A t \in Services : \A i \in DOMAIN upload'[t].answer :
          upload'[t].answer[i].op \in (BatchOps(t))'
    <3>1. \A t \in Services : \A i \in DOMAIN upload[t].answer :
            upload[t].answer[i].op \in BatchOps(t)
      BY <1>1 DEF Routed
    <3>2. \A i \in DOMAIN upload'[s].answer : upload'[s].answer[i].op \in BatchOps(s)
      BY <1>2, <1>5, <3>1
    <3>3. QED BY <1>5, <2>1, <3>1, <3>2
  <2>3. ASSUME NEW t \in Services, NEW q \in Requests, handler'[q].for = t
        PROVE  (Serves(q, t))'
    <3>1. Serves(q, t)
      BY <1>1, <2>3 DEF Routed
    <3>2. QED BY <1>1, <1>4, <2>1, <3>1 DEF Serves
  <2>4. QED BY <1>1, <2>2, <2>3 DEF Routed
<1>7. QED BY <1>3, <1>6 DEF RoutedShape

LEMMA GiveUpRouted ==
  ASSUME RoutedShape, NEW s \in Services, GiveUp(s)
  PROVE  RoutedShape'
<1>1. /\ Shape /\ Routed /\ queue' = queue
      /\ upload' = [upload EXCEPT ![s] = IdleUpload]
      /\ handler' = [r \in Requests |-> IF handler[r].for = s
                       THEN [handler[r] EXCEPT !.for = "gone"] ELSE handler[r]]
  BY DEF GiveUp, RoutedShape
<1>2. Shape'
  <2>1. upload' \in [Services -> [phase : {"idle", "waiting", "saving"},
                                 left : Seq(ReadRowType), batch : Seq(ReadRowType),
                                 answer : Seq(ResultType)]]
    BY <1>1 DEF Shape, IdleUpload
  <2>2. handler' \in [Requests -> [for : Services \cup {"nobody", "gone"},
                                  todo : Seq(Operations),
                                  done : [Outcomes -> Seq(Operations)],
                                  step : {"check", "validate", "insert", "readBalance",
                                          "writeBalance"}]]
    BY <1>1 DEF Shape
  <2>3. QED BY <1>1, <2>1, <2>2 DEF Shape
<1>3. \A r \in Requests : /\ handler'[r].for \in Services =>
                               handler'[r] = handler[r] /\ handler[r].for # s
  BY <1>1, OperationsAssumption DEF Shape
<1>4. /\ upload'[s].answer = <<>>
      /\ \A t \in Services : t # s => upload'[t] = upload[t] /\ (BatchOps(t))' = BatchOps(t)
  BY <1>1 DEF Shape, IdleUpload, BatchOps
<1>5. Routed'
  <2>1. ASSUME NEW t \in Services, NEW q \in Requests, handler'[q].for = t
        PROVE  (Serves(q, t))'
    <3>1. handler'[q] = handler[q] /\ t # s
      BY <1>3, <2>1
    <3>2. Serves(q, t)
      BY <1>1, <2>1, <3>1 DEF Routed
    <3>3. QED BY <1>4, <3>1, <3>2 DEF Serves
  <2>2. \A t \in Services : \A i \in DOMAIN upload'[t].answer :
          upload'[t].answer[i].op \in (BatchOps(t))'
    BY <1>1, <1>4 DEF Routed
  <2>3. QED BY <1>1, <1>3, <2>1, <2>2 DEF Routed
<1>6. QED BY <1>2, <1>5 DEF RoutedShape

\* A request that ends leaves its slot free and every other one as it is.
LEMMA FreeRouted ==
  ASSUME Shape, NEW r \in Requests, handler' = [handler EXCEPT ![r] = FreeHandler]
  PROVE  /\ handler' \in [Requests -> [for : Services \cup {"nobody", "gone"},
                                       todo : Seq(Operations),
                                       done : [Outcomes -> Seq(Operations)],
                                       step : {"check", "validate", "insert",
                                               "readBalance", "writeBalance"}]]
         /\ handler'[r] = FreeHandler
         /\ handler'[r].for \notin Services
         /\ \A q \in Requests : q # r => handler'[q] = handler[q]
<1>1. FreeHandler \in [for : Services \cup {"nobody", "gone"}, todo : Seq(Operations),
                       done : [Outcomes -> Seq(Operations)],
                       step : {"check", "validate", "insert", "readBalance", "writeBalance"}]
  BY DEF FreeHandler, NothingDone
<1>2. FreeHandler.for \notin Services
  BY OperationsAssumption DEF FreeHandler
<1>3. QED BY <1>1, <1>2 DEF Shape

LEMMA ServerDiesRouted ==
  ASSUME RoutedShape, NEW r \in Requests, ServerDies(r)
  PROVE  RoutedShape'
<1>1. /\ Shape /\ Routed /\ queue' = queue
      /\ handler' = [handler EXCEPT ![r] = FreeHandler]
      /\ upload' = [s \in Services |-> IF handler[r].for = s THEN IdleUpload ELSE upload[s]]
  BY DEF ServerDies, RoutedShape
<1>2. Shape'
  <2>1. IdleUpload \in [phase : {"idle", "waiting", "saving"},
                        left : Seq(ReadRowType), batch : Seq(ReadRowType),
                        answer : Seq(ResultType)]
    BY DEF IdleUpload
  <2>2. QED BY <1>1, <2>1, FreeRouted DEF Shape
<1>3. \A q \in Requests : handler'[q].for \in Services =>
        q # r /\ handler'[q] = handler[q] /\ handler[q].for # handler[r].for
  BY <1>1, FreeRouted DEF Routed
<1>4. \A s \in Services : IF handler[r].for = s
                          THEN upload'[s].answer = <<>>
                          ELSE upload'[s] = upload[s] /\ (BatchOps(s))' = BatchOps(s)
  BY <1>1 DEF IdleUpload, BatchOps
<1>5. Routed'
  BY <1>1, <1>3, <1>4 DEF Routed, Serves
<1>6. QED BY <1>2, <1>5 DEF RoutedShape

\* What a service receives: results about its own batch.
LEMMA ReplyEffect ==
  ASSUME RoutedShape, NEW r \in Requests, Reply(r)
  PROVE  /\ handler' = [handler EXCEPT ![r] = FreeHandler]
         /\ Answer(handler[r].done) \in Seq(Reportable(handler[r].done))
         /\ Answer(handler[r].done) \in Seq(ResultType)
         /\ \A s \in Services :
              IF handler[r].for = s
              THEN /\ upload'[s].phase = "saving" /\ upload'[s].batch = upload[s].batch
                   /\ upload'[s].answer = Answer(handler[r].done)
              ELSE upload'[s] = upload[s]
         /\ upload' \in [Services -> [phase : {"idle", "waiting", "saving"},
                                      left : Seq(ReadRowType), batch : Seq(ReadRowType),
                                      answer : Seq(ResultType)]]
<1>1. /\ Shape
      /\ handler' = [handler EXCEPT ![r] = FreeHandler]
      /\ upload' = [s \in Services |->
           IF handler[r].for = s
           THEN Booking(upload[s], Answer(handler[r].done)) ELSE upload[s]]
  BY DEF Reply, RoutedShape
<1>2. handler[r].done \in [Outcomes -> Seq(Operations)]
  BY <1>1 DEF Shape
<1>3. Answer(handler[r].done) \in Seq(Reportable(handler[r].done))
  BY <1>2, AnswerContent
<1>4. Reportable(handler[r].done) \subseteq ResultType
  BY DEF Reportable
<1>5. Answer(handler[r].done) \in Seq(ResultType)
  BY <1>3, <1>4, SeqMonotonic
<1>6. QED BY <1>1, <1>3, <1>5 DEF Shape, Booking

LEMMA ReplyRouted ==
  ASSUME RoutedShape, NEW r \in Requests, Reply(r)
  PROVE  RoutedShape'
<1>1. Shape /\ Routed /\ queue' = queue
  BY DEF Reply, RoutedShape
<1>2. Shape'
  BY <1>1, FreeRouted, ReplyEffect DEF Shape
<1>3. \A q \in Requests : handler'[q].for \in Services =>
        q # r /\ handler'[q] = handler[q] /\ handler[q].for # handler[r].for
  BY <1>1, FreeRouted, ReplyEffect DEF Routed
<1>4. \A s \in Services : (BatchOps(s))' = BatchOps(s)
  BY ReplyEffect DEF BatchOps
<1>5. ASSUME NEW s \in Services, NEW i \in DOMAIN upload'[s].answer
      PROVE  upload'[s].answer[i].op \in (BatchOps(s))'
  <2>1. CASE handler[r].for = s
    <3>1. upload'[s].answer = Answer(handler[r].done)
      BY <2>1, ReplyEffect
    <3>2. Answer(handler[r].done)[i] \in Reportable(handler[r].done)
      BY <3>1, <1>5, ReplyEffect
    <3>3. Serves(r, s)
      BY <1>1, <2>1 DEF Routed
    <3>4. QED BY <1>4, <3>1, <3>2, <3>3 DEF Reportable, ResultType, Serves, OpsIn
  <2>2. CASE handler[r].for # s
    BY <1>1, <1>4, <1>5, <2>2, ReplyEffect DEF Routed
  <2>3. QED BY <2>1, <2>2
<1>6. ASSUME NEW s \in Services, NEW q \in Requests, handler'[q].for = s
      PROVE  (Serves(q, s))'
  <2>1. handler'[q] = handler[q] /\ handler[r].for # s
    BY <1>3, <1>6
  <2>2. Serves(q, s)
    BY <1>1, <1>6, <2>1 DEF Routed
  <2>3. upload'[s] = upload[s]
    BY <2>1, ReplyEffect
  <2>4. QED BY <1>4, <2>1, <2>2, <2>3 DEF Serves
<1>7. QED BY <1>1, <1>2, <1>3, <1>5, <1>6 DEF RoutedShape, Routed

\* A step that touches neither the uploads nor the handlers.
LEMMA RowsOnly ==
  ASSUME RoutedShape, queue' \in [Devices -> [Operations -> RowType]],
         upload' = upload, handler' = handler
  PROVE  RoutedShape'
<1>1. Shape'
  BY DEF RoutedShape, Shape
<1>2. \A s \in Services : (BatchOps(s))' = BatchOps(s)
  BY DEF BatchOps
<1>3. ASSUME NEW s \in Services, NEW r \in Requests, handler'[r].for = s
      PROVE  (Serves(r, s))'
  <2>1. Serves(r, s)
    BY <1>3 DEF RoutedShape, Routed
  <2>2. QED BY <1>2, <2>1 DEF Serves
<1>4. Routed'
  BY <1>2, <1>3 DEF RoutedShape, Routed
<1>5. QED BY <1>1, <1>4 DEF RoutedShape

\* The state keeps its shape, each service has at most one request that works
\* for it, and an answer is about the batch it was asked for.
LEMMA StepRouted == RoutedShape /\ [Next]_vars => RoutedShape'
<1> SUFFICES ASSUME RoutedShape, [Next]_vars PROVE RoutedShape'
  OBVIOUS
<1>0. Shape
  BY DEF RoutedShape
<1>1. ASSUME NEW o \in Operations, Record(o) PROVE RoutedShape'
  <2>1. queue' \in [Devices -> [Operations -> RowType]]
    BY <1>0, <1>1, SetRowType, OperationsAssumption DEF Record
  <2>2. upload' = upload /\ handler' = handler
    BY <1>1 DEF Record
  <2>3. QED BY <2>1, <2>2, RowsOnly
<1>2. ASSUME NEW s \in Services, Phone(s) PROVE RoutedShape'
  <2>1. ASSUME NEW r \in Requests, StartUpload(s, r) PROVE RoutedShape'
    BY <1>0, <2>1, StartRows, SendRouted DEF StartUpload
  <2>2. ASSUME NEW r \in Requests, NextBatch(s, r) PROVE RoutedShape'
    <3>1. upload[s].left \in Seq(ReadRowType)
      BY <1>0 DEF Shape
    <3>2. QED BY <2>2, <3>1, SendRouted DEF NextBatch
  <2>3. ASSUME GiveUp(s) PROVE RoutedShape'
    BY <2>3, GiveUpRouted
  <2>4. ASSUME SaveResult(s) PROVE RoutedShape'
    BY <2>4, SaveRouted
  <2>5. ASSUME NEW old \in SUBSET Operations, FinishUpload(s, old) PROVE RoutedShape'
    <3>1. \A d \in Devices, o \in Operations :
            [queue[d][o] EXCEPT !.status = "DELETED"] \in RowType
      <4>1. \A row \in RowType : [row EXCEPT !.status = "DELETED"] \in RowType
        BY DEF RowType
      <4>2. QED BY <1>0, <4>1 DEF Shape
    <3>2. queue' \in [Devices -> [Operations -> RowType]]
      <4> DEFINE d == PhoneOf[s]
                 kept == [o \in Operations |-> IF o \in old
                            THEN [queue[d][o] EXCEPT !.status = "DELETED"] ELSE queue[d][o]]
      <4>1. d \in Devices
        BY OperationsAssumption
      <4>2. kept \in [Operations -> RowType]
        BY <1>0, <3>1, <4>1 DEF Shape
      <4>3. queue' = [queue EXCEPT ![d] = kept]
        BY <1>0, <2>5, <4>1 DEF FinishUpload, Shape
      <4> HIDE DEF kept, d
      <4>4. QED BY <1>0, <4>1, <4>2, <4>3 DEF Shape
    <3>3. QED BY <2>5, <3>2, ResetRouted DEF FinishUpload
  <2>6. ASSUME AppDies(s) PROVE RoutedShape'
    BY <1>0, <2>6, ResetRouted DEF AppDies, Shape
  <2>7. QED BY <1>2, <2>1, <2>2, <2>3, <2>4, <2>5, <2>6 DEF Phone
<1>3. ASSUME NEW r \in Requests, Server(r) PROVE RoutedShape'
  <2>0. "processed" \in Outcomes /\ "conflict" \in Outcomes /\ "error" \in Outcomes
    BY DEF Outcomes
  <2>1. ASSUME CheckDuplicate(r) PROVE RoutedShape'
    BY <2>0, <2>1, GoToRouted, ReportRouted DEF CheckDuplicate, At, AfterCheck
  <2>2. ASSUME ValidateApplication(r) PROVE RoutedShape'
    BY <2>0, <2>2, GoToRouted, ReportRouted DEF ValidateApplication, At
  <2>3. ASSUME ValidateDisbursement(r) PROVE RoutedShape'
    BY <2>0, <2>3, GoToRouted, ReportRouted DEF ValidateDisbursement, At
  <2>4. ASSUME Insert(r) PROVE RoutedShape'
    BY <2>0, <2>4, GoToRouted, ReportRouted DEF Insert, At
  <2>5. ASSUME InsertRefused(r) PROVE RoutedShape'
    BY <2>0, <2>5, ReportRouted DEF InsertRefused, At
  <2>6. ASSUME ReadBalance(r) PROVE RoutedShape'
    BY <2>6, GoToRouted DEF ReadBalance
  <2>7. ASSUME WriteBalance(r) PROVE RoutedShape'
    BY <2>0, <2>7, ReportRouted DEF WriteBalance, At
  <2>8. ASSUME StepFails(r) PROVE RoutedShape'
    BY <2>0, <2>8, ReportRouted DEF StepFails
  <2>9. ASSUME ServerDies(r) PROVE RoutedShape'
    BY <2>9, ServerDiesRouted
  <2>10. ASSUME Reply(r) PROVE RoutedShape'
    BY <2>10, ReplyRouted
  <2>11. QED
    BY <1>3, <2>1, <2>2, <2>3, <2>4, <2>5, <2>6, <2>7, <2>8, <2>9, <2>10
       DEF Server, HandlerStep
<1>4. ASSUME NEW c \in OnlineCustomers, SubmitOnline(c) PROVE RoutedShape'
  BY <1>0, <1>4, RowsOnly DEF SubmitOnline, Shape
<1>5. CASE UNCHANGED vars
  BY <1>0, <1>5, RowsOnly DEF vars, Shape
<1>6. QED BY <1>1, <1>2, <1>3, <1>4, <1>5 DEF Next

LEMMA InitRouted == Init => RoutedShape
<1> SUFFICES ASSUME Init PROVE RoutedShape
  OBVIOUS
<1>1. NoRow \in RowType
  BY DEF NoRow, RowType
<1>2. IdleUpload \in [phase : {"idle", "waiting", "saving"},
                      left : Seq(ReadRowType), batch : Seq(ReadRowType),
                      answer : Seq(ResultType)]
  BY DEF IdleUpload
<1>3. FreeHandler \in [for : Services \cup {"nobody", "gone"}, todo : Seq(Operations),
                       done : [Outcomes -> Seq(Operations)],
                       step : {"check", "validate", "insert", "readBalance", "writeBalance"}]
  BY DEF FreeHandler, NothingDone
<1>4. Shape
  BY <1>1, <1>2, <1>3 DEF Init, Shape
<1>5. (\A r \in Requests : handler[r].for \notin Services)
      /\ \A s \in Services : upload[s].answer = <<>>
  BY OperationsAssumption DEF Init, FreeHandler, IdleUpload
<1>6. QED BY <1>4, <1>5 DEF RoutedShape, Routed

-----------------------------------------------------------------------------
(* What is reported as processed is stored.                                *)

\* A handler that turns to another step: it updates a balance only for a
\* repayment that is stored.
LEMMA GoToOnServer ==
  ASSUME Shape, OnServer, NEW r \in Requests, NEW amount, NEW step, GoTo(r, step, amount),
         queue' = queue, upload' = upload, stored \subseteq stored', stored' \subseteq Operations,
         step \in {"readBalance", "writeBalance"} => Current(r) \in stored'
  PROVE  OnServer'
<1>1. /\ \A q \in Requests : /\ handler'[q].todo = handler[q].todo
                             /\ handler'[q].done = handler[q].done
                             /\ q # r => handler'[q].step = handler[q].step
      /\ handler'[r].step = step
  BY DEF GoTo, Shape
<1>2. \A q \in Requests : (Current(q))' = Current(q)
  BY <1>1 DEF Current
<1>3. QED BY <1>1, <1>2 DEF OnServer, OpsIn

\* A handler that reports an operation as processed has stored it.
LEMMA ReportOnServer ==
  ASSUME Shape, OnServer, NEW r \in Requests, NEW outcome \in Outcomes,
         Working(r), Report(r, outcome),
         queue' = queue, upload' = upload, stored \subseteq stored', stored' \subseteq Operations,
         outcome = "processed" => Current(r) \in stored'
  PROVE  OnServer'
<1> DEFINE done == handler[r].done
<1>1. /\ handler'[r].step = "check"
      /\ handler'[r].done = [done EXCEPT ![outcome] = Append(@, Current(r))]
      /\ \A q \in Requests : q # r => handler'[q] = handler[q]
      /\ done \in [Outcomes -> Seq(Operations)] /\ Current(r) \in Operations
  BY ReportEffect DEF Shape
<1>2. OpsIn(done["processed"], stored) /\ "processed" \in Outcomes
  BY DEF OnServer, Outcomes
<1>3. OpsIn(handler'[r].done["processed"], stored')
  <2>1. CASE outcome = "processed"
    <3>1. handler'[r].done["processed"] = Append(done["processed"], Current(r))
      BY <1>1, <2>1
    <3>2. done["processed"] \in Seq(Operations)
      BY <1>1, <1>2
    <3>3. QED BY <1>1, <1>2, <2>1, <3>1, <3>2 DEF OpsIn
  <2>2. CASE outcome # "processed"
    <3>1. handler'[r].done["processed"] = done["processed"]
      BY <1>1, <1>2, <2>2
    <3>2. QED BY <1>2, <3>1 DEF OpsIn
  <2>3. QED BY <2>1, <2>2
<1>4. ASSUME NEW q \in Requests
      PROVE  /\ OpsIn(handler'[q].done["processed"], stored')
             /\ handler'[q].step \in {"readBalance", "writeBalance"} /\ handler'[q].todo # <<>>
                  => (Current(q))' \in stored'
  <2>1. CASE q = r
    BY <1>1, <1>3, <2>1
  <2>2. CASE q # r
    <3>1. handler'[q] = handler[q]
      BY <1>1, <2>2
    <3>2. (Current(q))' = Current(q)
      BY <3>1 DEF Current
    <3>3. QED BY <3>1, <3>2 DEF OnServer, OpsIn
  <2>3. QED BY <2>1, <2>2
<1>5. QED BY <1>4 DEF OnServer

\* The rows, the answers or the handlers change, not the tables, and no new
\* handler, answer or row claims that something was processed.
LEMMA ReplyOnServer ==
  ASSUME RoutedShape, OnServer, NEW r \in Requests, Reply(r)
  PROVE  OnServer'
<1>1. /\ Shape /\ queue' = queue /\ stored' = stored
  BY DEF Reply, RoutedShape, tables
<1>2. \A q \in Requests : q # r => handler'[q] = handler[q] /\ (Current(q))' = Current(q)
  BY <1>1, FreeRouted, ReplyEffect DEF Current
<1>3. handler'[r].todo = <<>> /\ handler'[r].done["processed"] = <<>>
  BY <1>1, FreeRouted, ReplyEffect DEF FreeHandler, NothingDone, Outcomes
<1>4. ASSUME NEW s \in Services, NEW i \in DOMAIN upload'[s].answer,
             upload'[s].answer[i].outcome = "processed"
      PROVE  upload'[s].answer[i].op \in stored
  <2>1. CASE handler[r].for = s
    <3>1. upload'[s].answer = Answer(handler[r].done)
      BY <2>1, ReplyEffect
    <3>2. Answer(handler[r].done)[i] \in Reportable(handler[r].done)
      BY <3>1, <1>4, ReplyEffect
    <3>3. OpsIn(handler[r].done["processed"], stored)
      BY DEF OnServer
    <3>4. QED BY <1>4, <3>1, <3>2, <3>3 DEF Reportable, OpsIn
  <2>2. CASE handler[r].for # s
    BY <1>4, <2>2, ReplyEffect DEF OnServer
  <2>3. QED BY <2>1, <2>2
<1>5. \A q \in Requests :
        /\ OpsIn(handler'[q].done["processed"], stored')
        /\ handler'[q].step \in {"readBalance", "writeBalance"} /\ handler'[q].todo # <<>>
             => (Current(q))' \in stored'
  BY <1>1, <1>2, <1>3 DEF OnServer, OpsIn
<1>6. QED BY <1>1, <1>4, <1>5 DEF OnServer

\* Two operations never carry the same localId.
DistinctIds == \A o, p \in Operations : LocalId[o] = LocalId[p] => o = p

LEMMA StepOnServer ==
  ASSUME DistinctIds
  PROVE  RoutedShape /\ OnServer /\ [Next]_vars => OnServer'
<1> SUFFICES ASSUME RoutedShape, OnServer, [Next]_vars PROVE OnServer'
  OBVIOUS
<1>0. Shape /\ stored \subseteq Operations
  BY DEF RoutedShape, OnServer
<1>a. ASSUME handler' = handler PROVE \A q \in Requests : (Current(q))' = Current(q)
  BY <1>a DEF Current
<1>1. ASSUME NEW o \in Operations, Record(o) PROVE OnServer'
  <2>1. /\ upload' = upload /\ handler' = handler /\ stored' = stored
        /\ queue' = [queue EXCEPT ![DeviceOf[o]][o] = [status |-> "PENDING", retries |-> 0]]
    BY <1>1 DEF Record, SetRow, tables
  <2>2. \A d \in Devices, p \in Operations :
          queue'[d][p] = queue[d][p] \/ queue'[d][p].status = "PENDING"
    BY <1>0, <2>1 DEF Shape
  <2>3. QED BY <1>a, <2>1, <2>2 DEF OnServer, OpsIn
<1>2. ASSUME NEW s \in Services, Phone(s) PROVE OnServer'
  <2>1. ASSUME NEW r \in Requests, NEW rows, Send(s, r, rows) PROVE OnServer'
    <3>1. /\ queue' = queue /\ stored' = stored
          /\ \A q \in Requests : q # r => handler'[q] = handler[q]
          /\ handler'[r].step = "check" /\ handler'[r].done = NothingDone
          /\ upload'[s].answer = <<>>
          /\ \A t \in Services : t # s => upload'[t] = upload[t]
      BY <1>0, <2>1 DEF Send, Shape, tables
    <3>2. NothingDone["processed"] = <<>>
      BY DEF NothingDone, Outcomes
    <3>3. \A q \in Requests : q # r => (Current(q))' = Current(q)
      BY <3>1 DEF Current
    <3>4. QED BY <3>1, <3>2, <3>3 DEF OnServer, OpsIn
  <2>2. ASSUME NEW r \in Requests, StartUpload(s, r) PROVE OnServer'
    BY <1>0, <2>1, <2>2, StartRows
  <2>3. ASSUME NEW r \in Requests, NextBatch(s, r) PROVE OnServer'
    BY <2>1, <2>3 DEF NextBatch
  <2>4. ASSUME GiveUp(s) PROVE OnServer'
    <3>1. /\ queue' = queue /\ stored' = stored
          /\ \A q \in Requests : /\ handler'[q].todo = handler[q].todo
                                 /\ handler'[q].done = handler[q].done
                                 /\ handler'[q].step = handler[q].step
          /\ \A t \in Services : upload'[t] = upload[t] \/ upload'[t].answer = <<>>
      BY <1>0, <2>4 DEF GiveUp, Shape, tables, IdleUpload
    <3>2. \A q \in Requests : (Current(q))' = Current(q)
      BY <3>1 DEF Current
    <3>3. QED BY <3>1, <3>2 DEF OnServer, OpsIn
  <2>5. ASSUME SaveResult(s) PROVE OnServer'
    <3>1. /\ handler' = handler /\ stored' = stored
          /\ upload[s].answer # <<>> /\ upload[s].answer \in Seq(ResultType)
          /\ upload'[s].answer = Tail(upload[s].answer)
          /\ \A t \in Services : t # s => upload'[t] = upload[t]
      BY <1>0, <2>5 DEF SaveResult, Shape, tables, Booking
    <3>2. \A i \in DOMAIN upload'[s].answer : /\ i + 1 \in DOMAIN upload[s].answer
                                              /\ upload'[s].answer[i] = upload[s].answer[i + 1]
      BY <3>1
    <3>3. ASSUME NEW t \in Services, NEW i \in DOMAIN upload'[t].answer,
                 upload'[t].answer[i].outcome = "processed"
          PROVE  upload'[t].answer[i].op \in stored
      BY <3>1, <3>2, <3>3 DEF OnServer
    <3>4. /\ Head(upload[s].answer).outcome = "processed" => Head(upload[s].answer).op \in stored
          /\ RowFor(s, Head(upload[s].answer).op).op = Head(upload[s].answer).op
      BY <1>0, <3>1, NextResult, RowForInBatch DEF OnServer, DistinctIds
    <3>5. \A d \in Devices, o \in Operations :
            queue'[d][o].status \in {"UPLOADED", "DELETED"} => o \in stored
      BY <2>5, <3>4, SaveEffect DEF OnServer
    <3>6. QED BY <1>a, <3>1, <3>3, <3>5 DEF OnServer, OpsIn
  <2>6. ASSUME NEW old \in SUBSET Operations, FinishUpload(s, old) PROVE OnServer'
    <3>1. /\ handler' = handler /\ stored' = stored
          /\ \A t \in Services : upload'[t] = upload[t] \/ upload'[t].answer = <<>>
      BY <1>0, <2>6 DEF FinishUpload, Shape, tables, IdleUpload
    <3>2. \A d \in Devices, o \in Operations :
            queue'[d][o] = queue[d][o] \/ queue[d][o].status = "UPLOADED"
      BY <1>0, <2>6, OperationsAssumption DEF FinishUpload, Shape
    <3>3. QED BY <1>a, <3>1, <3>2 DEF OnServer, OpsIn
  <2>7. ASSUME AppDies(s) PROVE OnServer'
    <3>1. /\ handler' = handler /\ stored' = stored /\ queue' = queue
          /\ \A t \in Services : upload'[t] = upload[t] \/ upload'[t].answer = <<>>
      BY <1>0, <2>7 DEF AppDies, Shape, tables, IdleUpload
    <3>2. QED BY <1>a, <3>1 DEF OnServer, OpsIn
  <2>8. QED BY <1>2, <2>2, <2>3, <2>4, <2>5, <2>6, <2>7 DEF Phone
<1>3. ASSUME NEW r \in Requests, Server(r) PROVE OnServer'
  <2>0. "processed" \in Outcomes /\ "conflict" \in Outcomes /\ "error" \in Outcomes
    BY DEF Outcomes
  <2>a. ASSUME Working(r) PROVE Current(r) \in Operations
    BY <1>0, <2>a, HeadTailProperties DEF Working, Current, Shape
  <2>1. ASSUME CheckDuplicate(r) PROVE OnServer'
    <3>1. Working(r) /\ queue' = queue /\ upload' = upload /\ stored' = stored
      BY <2>1 DEF CheckDuplicate, At, tables
    <3>2. CASE SameId(Current(r)) # {}
      <4>1. Current(r) \in stored
        BY <1>0, <2>a, <3>1, <3>2 DEF SameId, DistinctIds
      <4>2. QED BY <1>0, <2>0, <2>1, <3>1, <3>2, <4>1, ReportOnServer DEF CheckDuplicate
    <3>3. CASE SameId(Current(r)) = {}
      BY <1>0, <2>1, <3>1, <3>3, GoToOnServer DEF CheckDuplicate, AfterCheck
    <3>4. QED BY <3>2, <3>3
  <2>2. ASSUME ValidateApplication(r) PROVE OnServer'
    BY <1>0, <2>0, <2>2, GoToOnServer, ReportOnServer DEF ValidateApplication, At, tables
  <2>3. ASSUME ValidateDisbursement(r) PROVE OnServer'
    BY <1>0, <2>0, <2>3, GoToOnServer, ReportOnServer DEF ValidateDisbursement, At, tables
  <2>4. ASSUME Insert(r) PROVE OnServer'
    <3>1. /\ Working(r) /\ queue' = queue /\ upload' = upload
          /\ stored' = stored \cup {Current(r)}
      BY <2>4 DEF Insert, At
    <3>2. stored' \subseteq Operations
      BY <1>0, <2>a, <3>1
    <3>3. QED BY <1>0, <2>0, <2>4, <3>1, <3>2, GoToOnServer, ReportOnServer DEF Insert
  <2>5. ASSUME InsertRefused(r) PROVE OnServer'
    BY <1>0, <2>0, <2>5, ReportOnServer DEF InsertRefused, At, tables
  <2>6. ASSUME ReadBalance(r) PROVE OnServer'
    <3>1. Current(r) \in stored
      BY <2>6 DEF ReadBalance, At, Working, OnServer
    <3>2. QED BY <1>0, <2>6, <3>1, GoToOnServer DEF ReadBalance, tables
  <2>7. ASSUME WriteBalance(r) PROVE OnServer'
    <3>1. Current(r) \in stored
      BY <2>7 DEF WriteBalance, At, Working, OnServer
    <3>2. QED BY <1>0, <2>0, <2>7, <3>1, ReportOnServer DEF WriteBalance, At
  <2>8. ASSUME StepFails(r) PROVE OnServer'
    BY <1>0, <2>0, <2>8, ReportOnServer DEF StepFails, tables
  <2>9. ASSUME ServerDies(r) PROVE OnServer'
    <3>1. /\ queue' = queue /\ stored' = stored
          /\ handler' = [handler EXCEPT ![r] = FreeHandler]
          /\ \A t \in Services : upload'[t] = upload[t] \/ upload'[t].answer = <<>>
      BY <2>9 DEF ServerDies, tables, IdleUpload
    <3>2. /\ handler'[r].todo = <<>> /\ handler'[r].done["processed"] = <<>>
          /\ \A q \in Requests : q # r => handler'[q] = handler[q] /\ (Current(q))' = Current(q)
      BY <1>0, <3>1, FreeRouted DEF FreeHandler, NothingDone, Outcomes, Current
    <3>3. QED BY <3>1, <3>2 DEF OnServer, OpsIn
  <2>10. ASSUME Reply(r) PROVE OnServer'
    BY <2>10, ReplyOnServer
  <2>11. QED
    BY <1>3, <2>1, <2>2, <2>3, <2>4, <2>5, <2>6, <2>7, <2>8, <2>9, <2>10
       DEF Server, HandlerStep
<1>4. ASSUME NEW c \in OnlineCustomers, SubmitOnline(c) PROVE OnServer'
  BY <1>a, <1>4 DEF SubmitOnline, OnServer, OpsIn
<1>5. CASE UNCHANGED vars
  BY <1>a, <1>5 DEF vars, tables, OnServer, OpsIn
<1>6. QED BY <1>1, <1>2, <1>3, <1>4, <1>5 DEF Next

\* If two operations never carry the same localId, what a phone books as
\* uploaded is on the server, whatever is retried, lost, repeated or run at the
\* same time (_processUploadResults, checkDuplicateOperation).
THEOREM UploadedStays ==
  ASSUME DistinctIds
  PROVE  Spec => []UploadedIsStored
<1>1. Init => RoutedShape /\ OnServer
  <2>1. Init => OnServer
    BY DEF Init, OnServer, OpsIn, FreeHandler, NothingDone, Outcomes, IdleUpload, NoRow
  <2>2. QED BY <2>1, InitRouted
<1>2. RoutedShape /\ OnServer /\ [Next]_vars => (RoutedShape /\ OnServer)'
  BY StepRouted, StepOnServer
<1>3. RoutedShape /\ OnServer => UploadedIsStored
  BY OperationsAssumption DEF OnServer, UploadedIsStored, Booked, Row
<1>4. QED BY <1>1, <1>2, <1>3, PTL DEF Spec

-----------------------------------------------------------------------------
(* What is repaid and disbursed adds up.                                   *)

LEMMA TotalsAreNumbers ==
  ASSUME NEW ops \in SUBSET Operations
  PROVE  Total(ops) \in Nat /\ IsFiniteSet(ops) /\ \A o \in ops : Amount[o] \in Nat \ {0}
<1>1. IsFiniteSet(ops) /\ \A o \in ops : Amount[o] \in Nat \ {0}
  BY FS_Subset, OperationsAssumption
<1> QED
  BY <1>1, SumNat DEF Total

LEMMA TotalWithOneMore ==
  ASSUME NEW ops \in SUBSET Operations, NEW o \in Operations, o \notin ops
  PROVE  Total(ops \cup {o}) = Total(ops) + Amount[o]
<1>1. IsFiniteSet(ops) /\ \A p \in ops \cup {o} : Amount[p] \in Int
  BY TotalsAreNumbers, OperationsAssumption
<1> QED
  BY <1>1, SumPutIn DEF Total

LEMMA TotalOfPart ==
  ASSUME NEW ops \in SUBSET Operations, NEW part \in SUBSET ops
  PROVE  Total(part) <= Total(ops)
<1>1. IsFiniteSet(ops) /\ \A o \in ops : Amount[o] \in Nat
  BY TotalsAreNumbers
<1> QED
  BY <1>1, SumOfPart DEF Total

LEMMA RemainingIsNumber ==
  ASSUME stored \subseteq Operations, NEW l \in Loans
  PROVE  Remaining(l) \in Nat
<1>1. Disbursements(l) \in SUBSET Operations
  BY DEF Disbursements
<1>2. Total(Disbursements(l)) \in Nat /\ Principal[l] \in Nat
  BY <1>1, TotalsAreNumbers, OperationsAssumption
<1> QED
  BY <1>2 DEF Remaining, Above0

-----------------------------------------------------------------------------
(* Which steps matter to the balances.                                     *)

\* The request goes on with what it was at.
Keeps(q) ==
  /\ handler'[q].todo = handler[q].todo /\ handler'[q].step = handler[q].step
  /\ handler'[q].for = "nobody" <=> handler[q].for = "nobody"
  /\ seen'[q] = seen[q]

\* The request has not begun to work on an operation.
Rests(q) == ~ Working(q) \/ handler[q].step = "check"

\* The request has come to a step of the operation it was at.
CameTo(r, step, amount) ==
  /\ Working(r)' /\ Current(r)' = Current(r)
  /\ handler'[r].step = step /\ seen'[r] = amount

OthersKeep(r) == \A q \in Requests \ {r} : Keeps(q)

LEMMA GoToCame ==
  ASSUME Shape, seen \in [Requests -> Nat], NEW r \in Requests, NEW step, NEW amount,
         Working(r), GoTo(r, step, amount)
  PROVE  CameTo(r, step, amount) /\ OthersKeep(r)
BY DEF Shape, Working, Current, GoTo, CameTo, OthersKeep, Keeps

LEMMA ReportRests ==
  ASSUME Shape, seen \in [Requests -> Nat], NEW r \in Requests,
         NEW outcome \in Outcomes, Working(r), Report(r, outcome)
  PROVE  Rests(r)' /\ OthersKeep(r)
<1>1. seen' = [seen EXCEPT ![r] = 0]
  BY DEF Report
<1> QED
  BY <1>1, ReportEffect DEF Rests, OthersKeep, Keeps

\* The request leaves its operation, which may be half done.
Drops(q) == Rests(q)' /\ CutOff(q) \subseteq cut'

Money == <<stored, balance, activated, stale>>

\* Nothing happens to the money, and what is cut off is what a request leaves.
LeavesMoney ==
  /\ UNCHANGED Money /\ cut \subseteq cut'
  /\ \A q \in Requests : Keeps(q) \/ Drops(q)
  /\ \A o \in cut' \ cut : \E q \in Requests : Rests(q)' /\ o \in CutOff(q)

\* The six steps of a handler that read or write what the balances are made of.
MoneyStep(r) ==
  \/ CheckDuplicate(r) \/ ValidateApplication(r) \/ ValidateDisbursement(r)
  \/ Insert(r) \/ ReadBalance(r) \/ WriteBalance(r)

LEMMA OtherSteps ==
  ASSUME RoutedShape, seen \in [Requests -> Nat], [Next]_vars
  PROVE  \/ \E r \in Requests : MoneyStep(r)
         \/ LeavesMoney
<1> DEFINE Goal == (\E r \in Requests : MoneyStep(r)) \/ LeavesMoney
<1>0. Shape
  BY DEF RoutedShape
<1>1. ASSUME handler' = handler, seen' = seen, UNCHANGED Money, cut' = cut PROVE Goal
  BY <1>1 DEF Keeps, LeavesMoney
<1>2. ASSUME NEW r \in Requests, Rests(r)', OthersKeep(r), UNCHANGED Money,
             cut' = cut \cup CutOff(r)
      PROVE  Goal
  BY <1>2 DEF OthersKeep, Drops, LeavesMoney
<1>3. ASSUME NEW o \in Operations, Record(o) PROVE Goal
  BY <1>1, <1>3 DEF Record, tables, history, Money
<1>4. ASSUME NEW s \in Services, Phone(s) PROVE Goal
  <2>1. ASSUME NEW r \in Requests, NEW rows, Send(s, r, rows) PROVE Goal
    <3>1. /\ handler' = [handler EXCEPT
               ![r] = [for |-> s, todo |-> [i \in DOMAIN FirstBatch(rows) |->
                                             FirstBatch(rows)[i].op],
                       done |-> NothingDone, step |-> "check"]]
          /\ seen' = seen /\ UNCHANGED Money /\ cut' = cut
      BY <2>1 DEF Send, tables, Money
    <3>2. Rests(r)' /\ OthersKeep(r)
      BY <1>0, <3>1 DEF Shape, Rests, OthersKeep, Keeps
    <3>3. CutOff(r) = {}
      BY <2>1 DEF Send, FreeHandler, CutOff, HalfWay, Working
    <3> QED
      BY <1>2, <3>1, <3>2, <3>3
  <2>2. ASSUME GiveUp(s) PROVE Goal
    <3>1. /\ handler' = [r \in Requests |-> IF handler[r].for = s
                          THEN [handler[r] EXCEPT !.for = "gone"] ELSE handler[r]]
          /\ seen' = seen /\ UNCHANGED Money /\ cut' = cut
      BY <2>2 DEF GiveUp, tables, history, Money
    <3>2. s # "nobody"
      BY OperationsAssumption
    <3>3. \A q \in Requests : Keeps(q)
      BY <1>0, <3>1, <3>2 DEF Shape, Keeps
    <3> QED
      BY <3>1, <3>3 DEF LeavesMoney
  <2>3. ASSUME \/ SaveResult(s) \/ AppDies(s)
               \/ \E old \in SUBSET Operations : FinishUpload(s, old)
        PROVE  Goal
    BY <1>1, <2>3 DEF SaveResult, AppDies, FinishUpload, tables, history, Money
  <2>4. ASSUME NEW r \in Requests, StartUpload(s, r) \/ NextBatch(s, r) PROVE Goal
    <3>1. \E rows : Send(s, r, rows)
      BY <2>4 DEF StartUpload, NextBatch
    <3> HIDE DEF Goal
    <3> QED
      BY <2>1, <3>1
  <2> HIDE DEF Goal
  <2> QED
    BY <1>4, <2>2, <2>3, <2>4 DEF Phone
<1>5. ASSUME NEW r \in Requests, Server(r) PROVE Goal
  <2>1. ASSUME MoneyStep(r) PROVE Goal
    BY <2>1
  <2>2. ASSUME InsertRefused(r) \/ StepFails(r) PROVE Goal
    <3>1. Working(r) /\ Report(r, "error") /\ UNCHANGED Money /\ "error" \in Outcomes
      BY <2>2 DEF InsertRefused, StepFails, At, tables, history, Money, Outcomes
    <3>2. cut' = cut \cup CutOff(r)
      BY <2>2 DEF InsertRefused, StepFails, At, HalfWay, CutOff, history
    <3> QED
      BY <1>0, <1>2, <3>1, <3>2, ReportRests
  <2>3. ASSUME ServerDies(r) \/ Reply(r) PROVE Goal
    <3>1. /\ handler' = [handler EXCEPT ![r] = FreeHandler] /\ UNCHANGED Money
          /\ \A q \in Requests \ {r} : seen'[q] = seen[q]
      BY <2>3 DEF ServerDies, Reply, tables, history, Money
    <3>2. Rests(r)' /\ OthersKeep(r)
      BY <1>0, <3>1 DEF Shape, FreeHandler, Rests, OthersKeep, Keeps
    <3>3. cut' = cut \cup CutOff(r)
      BY <2>3 DEF ServerDies, Reply, HalfWay, CutOff, Working, history
    <3> QED
      BY <1>2, <3>1, <3>2, <3>3
  <2> HIDE DEF Goal
  <2> QED
    BY <1>5, <2>1, <2>2, <2>3 DEF Server, HandlerStep, MoneyStep
<1>6. ASSUME NEW c \in OnlineCustomers, SubmitOnline(c) PROVE Goal
  BY <1>1, <1>6 DEF SubmitOnline, history, Money
<1>7. ASSUME UNCHANGED vars PROVE Goal
  BY <1>1, <1>7 DEF vars, tables, history, Money
<1> HIDE DEF Goal
<1>8. Goal
  BY <1>3, <1>4, <1>5, <1>6, <1>7 DEF Next
<1> QED
  BY <1>8 DEF Goal

-----------------------------------------------------------------------------
(* Every variable has its type.                                            *)

MoneyTyped ==
  /\ seen \in [Requests -> Nat]
  /\ stored \subseteq Operations
  /\ balance \in [Loans -> Nat]
  /\ activated \subseteq Loans
  /\ applied \subseteq OnlineCustomers
  /\ stale \subseteq Operations /\ cut \subseteq Operations /\ doubted \subseteq Operations

LEMMA TypedParts == TypeOK <=> Shape /\ MoneyTyped
BY DEF TypeOK, Shape, MoneyTyped

LEMMA CurrentIsOperation ==
  ASSUME Shape, NEW r \in Requests, Working(r)
  PROVE  /\ Current(r) \in Operations /\ LoanOf[Current(r)] \in Loans
         /\ Amount[Current(r)] \in Nat \ {0}
<1>1. Current(r) \in Operations
  BY HeadTailProperties DEF Working, Current, Shape
<1> QED
  BY <1>1, OperationsAssumption

LEMMA MoneyTypedStep ==
  ASSUME Shape, MoneyTyped, [Next]_vars
  PROVE  MoneyTyped'
<1>1. ASSUME UNCHANGED <<seen, stored, balance, activated>>,
             UNCHANGED history, applied' \subseteq OnlineCustomers
      PROVE  MoneyTyped'
  BY <1>1 DEF history, MoneyTyped
<1>2. ASSUME NEW r \in Requests, NEW step, NEW amount \in Nat, GoTo(r, step, amount)
      PROVE  seen' \in [Requests -> Nat]
  BY <1>2 DEF GoTo, MoneyTyped
<1>3. ASSUME NEW r \in Requests, NEW outcome, Report(r, outcome)
      PROVE  seen' \in [Requests -> Nat]
  BY <1>3 DEF Report, MoneyTyped
<1>4. ASSUME NEW o \in Operations, Record(o) PROVE MoneyTyped'
  BY <1>1, <1>4 DEF Record, tables, MoneyTyped
<1>5. ASSUME NEW s \in Services, Phone(s) PROVE MoneyTyped'
  <2>1. ASSUME NEW r \in Requests, NEW rows \in Seq(ReadRowType), Send(s, r, rows)
        PROVE  MoneyTyped'
    <3>1. \A o \in OpsOf(rows) : o \in Operations
      <4>1. \A i \in DOMAIN rows : rows[i] \in ReadRowType
        OBVIOUS
      <4> QED
        BY <4>1 DEF OpsOf, ReadRowType
    <3>2. doubted' \subseteq Operations
      BY <2>1, <3>1 DEF Send, MoneyTyped
    <3> QED
      BY <2>1, <3>2 DEF Send, tables, MoneyTyped
  <2>2. ASSUME NEW r \in Requests, StartUpload(s, r) PROVE MoneyTyped'
    BY <2>1, <2>2, StartRows
  <2>3. ASSUME NEW r \in Requests, NextBatch(s, r) PROVE MoneyTyped'
    <3>1. upload[s].left \in Seq(ReadRowType)
      BY DEF Shape
    <3> QED
      BY <2>1, <2>3, <3>1 DEF NextBatch
  <2>4. ASSUME \/ GiveUp(s) \/ SaveResult(s) \/ AppDies(s)
               \/ \E old \in SUBSET Operations : FinishUpload(s, old)
        PROVE  MoneyTyped'
    <3>1. UNCHANGED <<seen, tables, history>>
      BY <2>4 DEF GiveUp, SaveResult, FinishUpload, AppDies
    <3> QED
      BY <1>1, <3>1 DEF tables, MoneyTyped
  <2> QED
    BY <1>5, <2>2, <2>3, <2>4 DEF Phone
<1>6. ASSUME NEW r \in Requests, CheckDuplicate(r) \/ ValidateApplication(r)
                                 \/ InsertRefused(r)
      PROVE  MoneyTyped'
  <2>1. /\ UNCHANGED <<tables, history>>
        /\ (\E step : GoTo(r, step, 0)) \/ (\E outcome : Report(r, outcome))
    BY <1>6 DEF CheckDuplicate, ValidateApplication, InsertRefused
  <2> QED
    BY <1>2, <1>3, <2>1 DEF tables, history, MoneyTyped
<1>7. ASSUME NEW r \in Requests, ValidateDisbursement(r) PROVE MoneyTyped'
  <2>1. /\ UNCHANGED <<tables, history>>
        /\ Report(r, "error") \/ GoTo(r, "insert", Remaining(LoanOf[Current(r)]))
    BY <1>7 DEF ValidateDisbursement
  <2>2. Remaining(LoanOf[Current(r)]) \in Nat
    BY <1>7, CurrentIsOperation, RemainingIsNumber
       DEF ValidateDisbursement, At, MoneyTyped
  <2> QED
    BY <1>2, <1>3, <2>1, <2>2 DEF tables, history, MoneyTyped
<1>8. ASSUME NEW r \in Requests, Insert(r) PROVE MoneyTyped'
  <2>1. GoTo(r, "readBalance", 0) \/ Report(r, "processed")
    BY <1>8 DEF Insert
  <2>2. Current(r) \in Operations /\ LoanOf[Current(r)] \in Loans
    BY <1>8, CurrentIsOperation DEF Insert, At
  <2>3. seen' \in [Requests -> Nat]
    BY <1>2, <1>3, <2>1
  <2>4. stale' \subseteq Operations
    BY <1>8, <2>2 DEF Insert, MoneyTyped
  <2> QED
    BY <1>8, <2>2, <2>3, <2>4 DEF Insert, MoneyTyped
<1>9. ASSUME NEW r \in Requests, ReadBalance(r) PROVE MoneyTyped'
  <2>1. LoanOf[Current(r)] \in Loans
    BY <1>9, CurrentIsOperation DEF ReadBalance, At
  <2>2. balance[LoanOf[Current(r)]] \in Nat
    BY <2>1 DEF MoneyTyped
  <2> QED
    BY <1>2, <1>9, <2>2 DEF ReadBalance, tables, history, MoneyTyped
<1>10. ASSUME NEW r \in Requests, WriteBalance(r) PROVE MoneyTyped'
  <2>1. /\ LoanOf[Current(r)] \in Loans /\ Amount[Current(r)] \in Nat /\ seen[r] \in Nat
        /\ Current(r) \in Operations
    BY <1>10, CurrentIsOperation DEF WriteBalance, At, MoneyTyped
  <2>2. Above0(seen[r] - Amount[Current(r)]) \in Nat
    BY <2>1 DEF Above0
  <2>3. seen' \in [Requests -> Nat]
    BY <1>3, <1>10 DEF WriteBalance
  <2>4. stale' \subseteq Operations
    BY <1>10, <2>1 DEF WriteBalance, StaleBalance, MoneyTyped
  <2> QED
    BY <1>10, <2>2, <2>3, <2>4 DEF WriteBalance, MoneyTyped
<1>11. ASSUME NEW r \in Requests, StepFails(r) \/ ServerDies(r) PROVE MoneyTyped'
  <2>1. Current(r) \in Operations
    BY <1>11, CurrentIsOperation DEF StepFails, ServerDies
  <2>2. cut' \subseteq Operations /\ doubted' \subseteq Operations /\ stale' = stale
    BY <1>11, <2>1 DEF StepFails, ServerDies, CutOff, MoneyTyped
  <2>3. seen' \in [Requests -> Nat]
    <3>1. (\E outcome : Report(r, outcome)) \/ seen' = [seen EXCEPT ![r] = 0]
      BY <1>11 DEF StepFails, ServerDies
    <3> QED
      BY <1>3, <3>1 DEF MoneyTyped
  <2> QED
    BY <1>11, <2>2, <2>3 DEF StepFails, ServerDies, tables, MoneyTyped
<1>12. ASSUME NEW r \in Requests, Reply(r) PROVE MoneyTyped'
  BY <1>1, <1>12 DEF Reply, tables, MoneyTyped
<1>13. ASSUME NEW c \in OnlineCustomers, SubmitOnline(c) PROVE MoneyTyped'
  BY <1>1, <1>13 DEF SubmitOnline, MoneyTyped
<1>14. CASE UNCHANGED vars
  BY <1>1, <1>14 DEF vars, tables, MoneyTyped
<1> QED
  BY <1>4, <1>5, <1>6, <1>7, <1>8, <1>9, <1>10, <1>11, <1>12, <1>13, <1>14
     DEF Next, Server, HandlerStep

Typed == RoutedShape /\ MoneyTyped

LEMMA TypedHolds == Spec => []Typed
<1>1. Init => Typed
  <2>1. Init => MoneyTyped
    BY OperationsAssumption DEF Init, MoneyTyped
  <2> QED
    BY <2>1, InitRouted DEF Typed
<1>2. Typed /\ [Next]_vars => Typed'
  BY StepRouted, MoneyTypedStep DEF Typed, RoutedShape
<1> QED
  BY <1>1, <1>2, PTL DEF Spec

\* Rows, requests and tables keep their types, and no balance falls below zero,
\* whatever is repaid at the same time (updateLoanBalance).
THEOREM QueueIsTyped == Spec => []TypeOK
<1>1. Typed => TypeOK
  BY TypedParts DEF Typed, RoutedShape
<1> QED
  BY <1>1, TypedHolds, PTL

-----------------------------------------------------------------------------
(* A repayment leaves the balance at most once.                            *)

\* Two handlers never have the same repayment half done, and none has one that another
\* has left: its row is written once.
OneByOne ==
  /\ cut \subseteq stored
  /\ \A r \in Requests : HalfWay(r) =>
       /\ Current(r) \in stored /\ Kind[Current(r)] = "repayment"
       /\ Current(r) \notin cut
  /\ \A r, q \in Requests :
       HalfWay(r) /\ HalfWay(q) /\ Current(r) = Current(q) => r = q

\* Neither a balance nor one a handler has read is lower than what has been deducted.
Least(l) == Principal[l] - Total(Deducted(l))

NotBelow ==
  /\ \A l \in Loans : balance[l] >= Least(l)
  /\ \A r \in Requests : HalfWay(r) /\ handler[r].step = "writeBalance" =>
       seen[r] >= Least(LoanOf[Current(r)])

LEMMA KeptHalfway ==
  ASSUME NEW q, Keeps(q)
  PROVE  /\ HalfWay(q)' <=> HalfWay(q)
         /\ Current(q)' = Current(q)
BY DEF Keeps, HalfWay, Working, Current

LEMMA RestsNotHalfway ==
  ASSUME NEW q, Rests(q)'
  PROVE  ~ HalfWay(q)'
BY DEF Rests, HalfWay

\* What a money step does to its own request: it rests, it turns to another step of
\* its operation, or it is done with it.
LEMMA MoneyStepEffect ==
  ASSUME Typed, NEW r \in Requests, MoneyStep(r)
  PROVE  /\ Working(r) /\ OthersKeep(r) /\ Current(r) \in Operations
         /\ \/ /\ Rests(r)' /\ ~ ReadBalance(r)
               /\ ~ (Insert(r) /\ Kind[Current(r)] = "repayment")
            \/ CheckDuplicate(r) /\ CameTo(r, AfterCheck(Current(r)), 0)
            \/ ValidateApplication(r) /\ CameTo(r, "insert", 0)
            \/ ValidateDisbursement(r)
                 /\ CameTo(r, "insert", Remaining(LoanOf[Current(r)]))
            \/ Insert(r) /\ Kind[Current(r)] = "repayment" /\ CameTo(r, "readBalance", 0)
            \/ ReadBalance(r)
                 /\ CameTo(r, "writeBalance", balance[LoanOf[Current(r)]])
<1>1. Shape /\ seen \in [Requests -> Nat]
  BY DEF Typed, RoutedShape, MoneyTyped
<1>2. Working(r)
  BY DEF MoneyStep, CheckDuplicate, ValidateApplication, ValidateDisbursement, Insert,
         ReadBalance, WriteBalance, At
<1>3. /\ \A step, amount : GoTo(r, step, amount)
           => CameTo(r, step, amount) /\ OthersKeep(r)
      /\ \A outcome \in Outcomes : Report(r, outcome) => Rests(r)' /\ OthersKeep(r)
  BY <1>1, <1>2, GoToCame, ReportRests
<1>4. {"processed", "conflict", "error"} \subseteq Outcomes
  BY DEF Outcomes
<1>5. Current(r) \in Operations
  BY <1>1, <1>2, CurrentIsOperation
<1>6. CASE CheckDuplicate(r)
  BY <1>2, <1>3, <1>4, <1>5, <1>6 DEF CheckDuplicate, Insert, ReadBalance, At
<1>7. CASE ValidateApplication(r)
  BY <1>2, <1>3, <1>4, <1>5, <1>7 DEF ValidateApplication, Insert, ReadBalance, At
<1>8. CASE ValidateDisbursement(r)
  BY <1>2, <1>3, <1>4, <1>5, <1>8 DEF ValidateDisbursement, Insert, ReadBalance, At
<1>9. CASE Insert(r)
  BY <1>2, <1>3, <1>4, <1>5, <1>9 DEF Insert, ReadBalance, At
<1>10. CASE ReadBalance(r)
  BY <1>2, <1>3, <1>4, <1>5, <1>10 DEF ReadBalance
<1>11. CASE WriteBalance(r)
  BY <1>2, <1>3, <1>4, <1>5, <1>11 DEF WriteBalance, Insert, ReadBalance, At
<1> QED
  BY <1>6, <1>7, <1>8, <1>9, <1>10, <1>11 DEF MoneyStep

\* A money step cuts nothing off and takes no row away.
LEMMA MoneyStepTables ==
  ASSUME NEW r \in Requests, MoneyStep(r)
  PROVE  cut' = cut /\ stored \subseteq stored'
BY DEF MoneyStep, CheckDuplicate, ValidateApplication, ValidateDisbursement, Insert,
       ReadBalance, WriteBalance, tables, history

LEMMA OneByOneStep ==
  ASSUME Typed, OneByOne, [Next]_vars
  PROVE  OneByOne'
<1>1. CASE LeavesMoney
  <2>1. ASSUME NEW q \in Requests, HalfWay(q)'
        PROVE  Keeps(q) /\ HalfWay(q) /\ Current(q)' = Current(q)
    BY <1>1, <2>1, KeptHalfway, RestsNotHalfway DEF LeavesMoney, Drops
  <2>2. cut' \subseteq stored'
    BY <1>1 DEF LeavesMoney, Money, CutOff, OneByOne
  <2>3. ASSUME NEW q \in Requests, HalfWay(q)' PROVE Current(q)' \notin cut'
    <3>1. SUFFICES ASSUME Current(q) \in cut' \ cut PROVE FALSE
      BY <2>1, <2>3 DEF OneByOne
    <3>2. PICK p \in Requests : Rests(p)' /\ Current(q) \in CutOff(p)
      BY <1>1, <3>1 DEF LeavesMoney
    <3>3. p = q
      BY <2>1, <2>3, <3>2 DEF CutOff, OneByOne
    <3> QED
      BY <2>3, <3>2, <3>3, RestsNotHalfway
  <2> QED
    BY <1>1, <2>1, <2>2, <2>3 DEF OneByOne, LeavesMoney, Money
<1>2. ASSUME NEW r \in Requests, MoneyStep(r) PROVE OneByOne'
  <2>1. \A q \in Requests \ {r} : (HalfWay(q)' <=> HalfWay(q)) /\ Current(q)' = Current(q)
    BY <1>2, MoneyStepEffect, KeptHalfway DEF OthersKeep
  <2>2. stored \subseteq stored' /\ cut' = cut
    BY <1>2, MoneyStepTables
  <2>3. HalfWay(r)' => /\ Current(r)' \in stored' /\ Kind[Current(r)'] = "repayment"
                       /\ Current(r)' \notin cut
                       /\ \A q \in Requests \ {r} :
                            HalfWay(q) => Current(q) # Current(r)'
    <3>1. CASE Insert(r) /\ Kind[Current(r)] = "repayment" /\ CameTo(r, "readBalance", 0)
      <4>1. Current(r) \notin stored /\ Current(r) \in stored'
        BY <3>1 DEF Insert, Taken
      <4>2. Current(r)' = Current(r)
        BY <3>1 DEF CameTo
      <4> QED
        BY <3>1, <4>1, <4>2 DEF OneByOne
    <3>2. CASE ReadBalance(r)
                 /\ CameTo(r, "writeBalance", balance[LoanOf[Current(r)]])
      <4>1. HalfWay(r) /\ Current(r)' = Current(r)
        BY <3>2 DEF ReadBalance, At, HalfWay, CameTo
      <4> QED
        BY <2>2, <4>1 DEF OneByOne
    <3>3. CASE \/ CameTo(r, AfterCheck(Current(r)), 0) \/ CameTo(r, "insert", 0)
               \/ CameTo(r, "insert", Remaining(LoanOf[Current(r)]))
      BY <3>3 DEF CameTo, AfterCheck, HalfWay
    <3>4. CASE Rests(r)'
      BY <3>4, RestsNotHalfway
    <3> QED
      BY <1>2, <3>1, <3>2, <3>3, <3>4, MoneyStepEffect
  <2> QED
    BY <2>1, <2>2, <2>3 DEF OneByOne
<1> QED
  BY <1>1, <1>2, OtherSteps DEF Typed, MoneyTyped

\* What has been deducted stays deducted: a repayment is stored before a handler has
\* it half done, and taken up by no other.
LEMMA DeductedStays ==
  ASSUME Typed, OneByOne, [Next]_vars, NEW l \in Loans
  PROVE  Deducted(l) \subseteq Deducted(l)'
<1>1. SUFFICES ASSUME NEW o \in Deducted(l) PROVE o \in Deducted(l)'
  OBVIOUS
<1>2. o \in stored /\ Kind[o] = "repayment" /\ LoanOf[o] = l /\ o \notin cut
      /\ \A r \in Requests : ~ (HalfWay(r) /\ Current(r) = o)
  BY DEF Deducted, Repayments, HalfDone
<1>3. stored \subseteq stored' /\ o \notin cut'
      /\ \A r \in Requests : ~ (HalfWay(r)' /\ Current(r)' = o)
  <2>1. CASE LeavesMoney
    <3>1. stored \subseteq stored' /\ o \notin cut'
      BY <1>2, <2>1 DEF LeavesMoney, Money, CutOff
    <3>2. \A r \in Requests : ~ (HalfWay(r)' /\ Current(r)' = o)
      BY <1>2, <2>1, KeptHalfway, RestsNotHalfway DEF LeavesMoney, Drops
    <3> QED
      BY <3>1, <3>2
  <2>2. ASSUME NEW r \in Requests, MoneyStep(r)
        PROVE  stored \subseteq stored' /\ o \notin cut'
               /\ \A q \in Requests : ~ (HalfWay(q)' /\ Current(q)' = o)
    <3>1. stored \subseteq stored' /\ o \notin cut'
      BY <1>2, <2>2, MoneyStepTables
    <3>2. \A q \in Requests \ {r} : ~ (HalfWay(q)' /\ Current(q)' = o)
      BY <1>2, <2>2, MoneyStepEffect, KeptHalfway DEF OthersKeep
    <3>3. ~ (HalfWay(r)' /\ Current(r)' = o)
      <4>1. CASE Insert(r) /\ CameTo(r, "readBalance", 0)
        <5>1. Current(r) \notin stored /\ Current(r)' = Current(r)
          BY <4>1 DEF Insert, Taken, CameTo
        <5> QED
          BY <1>2, <5>1
      <4>2. CASE ReadBalance(r)
                   /\ CameTo(r, "writeBalance", balance[LoanOf[Current(r)]])
        BY <1>2, <4>2 DEF ReadBalance, At, HalfWay, CameTo
      <4>3. CASE \/ CameTo(r, AfterCheck(Current(r)), 0) \/ CameTo(r, "insert", 0)
                 \/ CameTo(r, "insert", Remaining(LoanOf[Current(r)]))
        BY <4>3 DEF CameTo, AfterCheck, HalfWay
      <4>4. CASE Rests(r)'
        BY <4>4, RestsNotHalfway
      <4> QED
        BY <2>2, <4>1, <4>2, <4>3, <4>4, MoneyStepEffect
    <3> QED
      BY <3>1, <3>2, <3>3
  <2> QED
    BY <2>1, <2>2, OtherSteps DEF Typed, MoneyTyped
<1>4. ~ HalfDone(o)'
  BY <1>3 DEF HalfDone, HalfWay
<1> QED
  BY <1>2, <1>3, <1>4 DEF Deducted, Repayments

LEMMA DeductedAreOperations ==
  ASSUME stored \subseteq Operations, NEW l \in Loans
  PROVE  Deducted(l) \in SUBSET Operations /\ Total(Deducted(l)) \in Nat /\ Least(l) \in Int
<1>1. Deducted(l) \in SUBSET Operations
  BY DEF Deducted, Repayments
<1>2. Total(Deducted(l)) \in Nat /\ Principal[l] \in Nat
  BY <1>1, TotalsAreNumbers, OperationsAssumption
<1> QED
  BY <1>1, <1>2 DEF Least

LEMMA DeductedNext ==
  ASSUME stored' \subseteq Operations, NEW l \in Loans
  PROVE  Deducted(l)' \in SUBSET Operations /\ Total(Deducted(l)') \in Nat
         /\ Least(l)' = Principal[l] - Total(Deducted(l)') /\ Least(l)' \in Int
<1>1. Deducted(l)' \in SUBSET Operations
  BY DEF Deducted, Repayments
<1>2. Total(Deducted(l)') \in Nat /\ Principal[l] \in Nat
  BY <1>1, TotalsAreNumbers, OperationsAssumption
<1>3. Least(l)' = Principal[l] - Total(Deducted(l)')
  BY DEF Least, Total
<1> QED
  BY <1>1, <1>2, <1>3

LEMMA LeastFalls ==
  ASSUME Typed, OneByOne, [Next]_vars, NEW l \in Loans
  PROVE  Least(l)' <= Least(l)
<1>1. stored \subseteq Operations /\ stored' \subseteq Operations
  BY MoneyTypedStep DEF Typed, RoutedShape, MoneyTyped
<1>2. Total(Deducted(l)) <= Total(Deducted(l)')
  <2>1. Deducted(l) \in SUBSET (Deducted(l)') /\ Deducted(l)' \in SUBSET Operations
    BY <1>1, DeductedStays, DeductedNext
  <2> QED
    BY <2>1, TotalOfPart
<1>3. Principal[l] \in Nat
  BY OperationsAssumption
<1> QED
  BY <1>1, <1>2, <1>3, DeductedAreOperations, DeductedNext DEF Least

LEMMA NotBelowStep ==
  ASSUME Typed, OneByOne, NotBelow, [Next]_vars
  PROVE  NotBelow'
<1>0. /\ stored \subseteq Operations /\ stored' \subseteq Operations
      /\ seen \in [Requests -> Nat] /\ balance \in [Loans -> Nat]
  BY MoneyTypedStep DEF Typed, RoutedShape, MoneyTyped
<1>1. \A l \in Loans : Least(l) \in Int /\ Least(l)' \in Int /\ Least(l)' <= Least(l)
  BY <1>0, DeductedAreOperations, DeductedNext, LeastFalls
\* A request that was writing a balance read one that is still high enough.
<1>2. ASSUME NEW q \in Requests, Keeps(q), HalfWay(q)', handler'[q].step = "writeBalance"
      PROVE  seen'[q] >= Least(LoanOf[Current(q)])'
  <2>1. /\ HalfWay(q) /\ Current(q)' = Current(q) /\ handler[q].step = "writeBalance"
        /\ seen'[q] = seen[q]
    BY <1>2, KeptHalfway DEF Keeps
  <2>2. LoanOf[Current(q)] \in Loans
    BY <2>1, CurrentIsOperation DEF HalfWay, Typed, RoutedShape
  <2>3. PICK l \in Loans : l = LoanOf[Current(q)]
    BY <2>2
  <2>4. seen[q] >= Least(l) /\ seen[q] \in Int
    BY <1>0, <2>1, <2>3 DEF NotBelow
  <2>5. seen'[q] >= Least(l)'
    BY <1>1, <2>1, <2>4
  <2>6. Least(LoanOf[Current(q)])' = Least(l)'
    BY <2>1, <2>3 DEF Least, Deducted, Repayments
  <2> QED
    BY <2>5, <2>6
<1>3. CASE LeavesMoney
  <2>1. \A l \in Loans : balance'[l] >= Least(l)'
    BY <1>0, <1>1, <1>3 DEF LeavesMoney, Money, NotBelow
  <2>2. ASSUME NEW q \in Requests, HalfWay(q)', handler'[q].step = "writeBalance"
        PROVE  seen'[q] >= Least(LoanOf[Current(q)])'
    BY <1>2, <1>3, <2>2, RestsNotHalfway DEF LeavesMoney, Drops
  <2> QED
    BY <2>1, <2>2 DEF NotBelow
<1>4. ASSUME NEW r \in Requests, MoneyStep(r), ~ WriteBalance(r) PROVE NotBelow'
  <2>1. balance' = balance
    BY <1>4
       DEF MoneyStep, CheckDuplicate, ValidateApplication, ValidateDisbursement, Insert,
           ReadBalance, tables
  <2>2. \A l \in Loans : balance'[l] >= Least(l)'
    BY <1>0, <1>1, <2>1 DEF NotBelow
  <2>3. ASSUME HalfWay(r)', handler'[r].step = "writeBalance"
        PROVE  seen'[r] >= Least(LoanOf[Current(r)])'
    <3>1. CameTo(r, "writeBalance", balance[LoanOf[Current(r)]])
      BY <1>4, <2>3, MoneyStepEffect, RestsNotHalfway DEF CameTo, AfterCheck
    <3>2. LoanOf[Current(r)] \in Loans
      BY <1>4, MoneyStepEffect, CurrentIsOperation DEF Typed, RoutedShape
    <3>3. PICK l \in Loans : l = LoanOf[Current(r)]
      BY <3>2
    <3>4. seen'[r] >= Least(l)'
      BY <2>1, <2>2, <3>1, <3>3 DEF CameTo
    <3>5. Least(LoanOf[Current(r)])' = Least(l)'
      BY <3>1, <3>3 DEF CameTo, Least, Deducted, Repayments
    <3> QED
      BY <3>4, <3>5
  <2>4. ASSUME NEW q \in Requests, HalfWay(q)', handler'[q].step = "writeBalance"
        PROVE  seen'[q] >= Least(LoanOf[Current(q)])'
    BY <1>2, <1>4, <2>3, <2>4, MoneyStepEffect DEF OthersKeep
  <2> QED
    BY <2>2, <2>4 DEF NotBelow
\* The repayment comes off the balance that was read: from now on it is deducted.
<1>5. ASSUME NEW r \in Requests, WriteBalance(r) PROVE NotBelow'
  <2>1. PICK o \in Operations : o = Current(r)
    BY <1>5, MoneyStepEffect DEF MoneyStep
  <2>2. PICK l \in Loans : l = LoanOf[o]
    BY OperationsAssumption
  <2>3. HalfWay(r) /\ handler[r].step = "writeBalance" /\ Rests(r)' /\ OthersKeep(r)
        /\ stored' = stored /\ cut' = cut
    <3>1. Rests(r)' /\ OthersKeep(r)
      BY <1>5, MoneyStepEffect
         DEF MoneyStep, WriteBalance, CheckDuplicate, ValidateApplication,
             ValidateDisbursement, Insert, ReadBalance, At
    <3> QED
      BY <1>5, <3>1 DEF WriteBalance, At, HalfWay
  <2>4. o \in stored /\ Kind[o] = "repayment" /\ o \notin cut
    BY <2>1, <2>3 DEF OneByOne
  <2>5. o \notin Deducted(l)
    BY <2>1, <2>3 DEF Deducted, HalfDone
  <2>6. o \in Deducted(l)'
    <3>1. \A q \in Requests : ~ (HalfWay(q)' /\ Current(q)' = o)
      BY <2>1, <2>3, KeptHalfway, RestsNotHalfway DEF OneByOne, OthersKeep
    <3>2. ~ HalfDone(o)'
      BY <3>1 DEF HalfDone, HalfWay
    <3> QED
      BY <2>2, <2>3, <2>4, <3>2 DEF Deducted, Repayments
  <2>7. Least(l)' <= Least(l) - Amount[o]
    <3>1. Deducted(l) \cup {o} \in SUBSET (Deducted(l)')
      BY <2>6, DeductedStays
    <3>2. Total(Deducted(l) \cup {o}) <= Total(Deducted(l)')
      BY <1>0, <3>1, DeductedNext, TotalOfPart
    <3>3. Total(Deducted(l) \cup {o}) = Total(Deducted(l)) + Amount[o]
      BY <1>0, <2>5, DeductedAreOperations, TotalWithOneMore
    <3>4. Principal[l] \in Nat /\ Amount[o] \in Nat /\ Total(Deducted(l)) \in Nat
          /\ Total(Deducted(l)') \in Nat
      BY <1>0, OperationsAssumption, DeductedAreOperations, DeductedNext
    <3>5. Least(l)' = Principal[l] - Total(Deducted(l)')
          /\ Least(l) = Principal[l] - Total(Deducted(l))
      BY <1>0, DeductedNext DEF Least
    <3> QED
      BY <3>2, <3>3, <3>4, <3>5
  <2>8. balance' = [balance EXCEPT ![l] = Above0(seen[r] - Amount[o])]
    BY <1>5, <2>1, <2>2 DEF WriteBalance
  <2>9. balance'[l] >= Least(l)'
    <3>1. seen[r] >= Least(l) /\ seen[r] \in Int /\ Amount[o] \in Int
      BY <1>0, <2>1, <2>2, <2>3, OperationsAssumption DEF NotBelow
    <3>2. balance'[l] = Above0(seen[r] - Amount[o])
      BY <1>0, <2>8
    <3>3. Above0(seen[r] - Amount[o]) >= seen[r] - Amount[o]
      BY <3>1 DEF Above0
    <3>4. Above0(seen[r] - Amount[o]) \in Int
      BY <3>1 DEF Above0
    <3> QED
      BY <1>1, <2>7, <3>1, <3>2, <3>3, <3>4
  <2>10. \A k \in Loans : balance'[k] >= Least(k)'
    <3>1. \A k \in Loans \ {l} : balance'[k] = balance[k]
      BY <1>0, <2>8
    <3> QED
      BY <1>0, <1>1, <2>9, <3>1 DEF NotBelow
  <2>11. ASSUME NEW q \in Requests, HalfWay(q)', handler'[q].step = "writeBalance"
         PROVE  seen'[q] >= Least(LoanOf[Current(q)])'
    BY <1>2, <2>3, <2>11, RestsNotHalfway DEF OthersKeep
  <2> QED
    BY <2>10, <2>11 DEF NotBelow
<1> QED
  BY <1>3, <1>4, <1>5, OtherSteps DEF Typed, MoneyTyped

LEMMA OneByOneHolds == Spec => [](Typed /\ OneByOne /\ NotBelow)
<1>1. Init => OneByOne /\ NotBelow
  <2>1. ASSUME Init
        PROVE  /\ \A r \in Requests : ~ HalfWay(r)
               /\ \A l \in Loans : balance[l] >= Least(l)
    <3>1. \A r \in Requests : ~ HalfWay(r)
      BY <2>1 DEF Init, FreeHandler, HalfWay, Working
    <3>2. ASSUME NEW l \in Loans PROVE balance[l] >= Least(l)
      <4>1. Principal[l] \in Nat /\ balance[l] = Principal[l] /\ stored \subseteq Operations
        BY <2>1, OperationsAssumption DEF Init
      <4>2. Total(Deducted(l)) \in Nat
        BY <4>1, DeductedAreOperations
      <4> QED
        BY <4>1, <4>2 DEF Least
    <3> QED
      BY <3>1, <3>2
  <2> QED
    BY <2>1 DEF Init, OneByOne, NotBelow
<1>2. Typed /\ OneByOne /\ NotBelow /\ [Next]_vars => OneByOne' /\ NotBelow'
  BY OneByOneStep, NotBelowStep
<1> QED
  BY <1>1, <1>2, TypedHolds, PTL DEF Spec

\* However often a repayment is sent, by however many services, and whatever fails or
\* is written over, its amount leaves the balance at most once (checkDuplicateOperation,
\* the unique local_id, updateLoanBalance).
THEOREM RepaymentsDeductedOnce == Spec => []NoDoubleDeduction
<1>1. Typed /\ NotBelow => NoDoubleDeduction
  <2>1. ASSUME Typed, NotBelow, NEW l \in Loans
        PROVE  balance[l] >= Principal[l] - Total(Repayments(l))
    <3>1. Repayments(l) \in SUBSET Operations /\ Deducted(l) \in SUBSET Repayments(l)
      BY <2>1 DEF Typed, MoneyTyped, Repayments, Deducted
    <3>2. Total(Deducted(l)) <= Total(Repayments(l))
      BY <3>1, TotalOfPart
    <3>3. /\ Total(Repayments(l)) \in Nat /\ Total(Deducted(l)) \in Nat
          /\ Principal[l] \in Nat /\ balance[l] \in Nat
      BY <2>1, <3>1, TotalsAreNumbers, OperationsAssumption DEF Typed, MoneyTyped
    <3>4. balance[l] >= Principal[l] - Total(Deducted(l))
      BY <2>1 DEF NotBelow, Least
    <3> QED
      BY <3>2, <3>3, <3>4
  <2> QED
    BY <2>1 DEF NoDoubleDeduction
<1> QED
  BY <1>1, OneByOneHolds, PTL

-----------------------------------------------------------------------------
(* The balance of a loan, while none is written from an old reading.       *)

\* What is deducted changes only when a balance is written.
LEMMA DeductedOnly ==
  ASSUME Typed, OneByOne, [Next]_vars, NEW l \in Loans,
         NEW o \in Deducted(l)' \ Deducted(l)
  PROVE  \E r \in Requests : WriteBalance(r) /\ Current(r) = o
<1>1. /\ o \in stored' /\ Kind[o] = "repayment" /\ LoanOf[o] = l /\ o \notin cut'
      /\ \A r \in Requests : ~ (HalfWay(r)' /\ Current(r)' = o)
  BY DEF Deducted, Repayments, HalfDone, HalfWay
<1>2. o \in stored /\ o \notin cut => \E r \in Requests : HalfWay(r) /\ Current(r) = o
  BY <1>1 DEF Deducted, Repayments, HalfDone
<1>3. ASSUME LeavesMoney PROVE FALSE
  <2>1. o \in stored /\ o \notin cut
    BY <1>1, <1>3 DEF LeavesMoney, Money
  <2>2. PICK q \in Requests : HalfWay(q) /\ Current(q) = o
    BY <1>2, <2>1
  <2>3. o \in CutOff(q)
    BY <2>2 DEF CutOff
  <2> QED
    BY <1>1, <1>3, <2>2, <2>3, KeptHalfway DEF LeavesMoney, Drops
<1>4. ASSUME NEW r \in Requests, MoneyStep(r), ~ WriteBalance(r) PROVE FALSE
  <2>0. o \notin cut
    BY <1>1, <1>4, MoneyStepTables
  <2>1. CASE o \in stored
    <3>1. PICK q \in Requests : HalfWay(q) /\ Current(q) = o
      BY <1>2, <2>0, <2>1
    <3>2. CASE q = r
      <4>1. ReadBalance(r)
        BY <1>4, <3>1, <3>2
           DEF MoneyStep, CheckDuplicate, ValidateApplication, ValidateDisbursement,
               Insert, At, HalfWay
      <4>2. CameTo(r, "writeBalance", balance[LoanOf[Current(r)]])
        BY <1>4, <4>1, MoneyStepEffect
           DEF CheckDuplicate, ValidateApplication, ValidateDisbursement, Insert,
               ReadBalance, At
      <4> QED
        BY <1>1, <3>1, <3>2, <4>2 DEF CameTo, HalfWay
    <3>3. CASE q # r
      BY <1>1, <1>4, <3>1, <3>3, MoneyStepEffect, KeptHalfway DEF OthersKeep
    <3> QED
      BY <3>2, <3>3
  <2>2. CASE o \notin stored
    <3>1. Insert(r) /\ Current(r) = o
      BY <1>1, <1>4, <2>2
         DEF MoneyStep, CheckDuplicate, ValidateApplication, ValidateDisbursement, Insert,
             ReadBalance, tables
    <3>2. CameTo(r, "readBalance", 0)
      BY <1>1, <1>4, <3>1, MoneyStepEffect
         DEF CheckDuplicate, ValidateApplication, ValidateDisbursement, Insert,
             ReadBalance, At
    <3> QED
      BY <1>1, <3>1, <3>2 DEF CameTo, HalfWay
  <2> QED
    BY <2>1, <2>2
<1>5. ASSUME NEW r \in Requests, WriteBalance(r)
      PROVE  \E q \in Requests : WriteBalance(q) /\ Current(q) = o
  <2>1. o \in stored /\ o \notin cut
    BY <1>1, <1>5, MoneyStepTables DEF WriteBalance, MoneyStep
  <2>2. PICK q \in Requests : HalfWay(q) /\ Current(q) = o
    BY <1>2, <2>1
  <2>3. q = r
    BY <1>1, <1>5, <2>2, MoneyStepEffect, KeptHalfway DEF OthersKeep, MoneyStep
  <2> QED
    BY <1>5, <2>2, <2>3
<1> QED
  BY <1>3, <1>4, <1>5, OtherSteps DEF Typed, MoneyTyped

\* The balance is what is left after the deductions, each of which was made from the
\* balance as it stood.
Exact == \A l \in Loans : stale \cap Repayments(l) = {} => balance[l] = Above0(Least(l))

LEMMA ExactStep ==
  ASSUME Typed, OneByOne, Exact, [Next]_vars
  PROVE  Exact'
<1>0. /\ stored \subseteq Operations /\ stored' \subseteq Operations
      /\ seen \in [Requests -> Nat] /\ balance \in [Loans -> Nat]
  BY MoneyTypedStep DEF Typed, RoutedShape, MoneyTyped
<1>1. stored \subseteq stored' /\ stale \subseteq stale'
  <2>1. CASE LeavesMoney
    BY <2>1 DEF LeavesMoney, Money
  <2>2. ASSUME NEW r \in Requests, MoneyStep(r)
        PROVE  stored \subseteq stored' /\ stale \subseteq stale'
    BY <2>2
       DEF MoneyStep, CheckDuplicate, ValidateApplication, ValidateDisbursement, Insert,
           ReadBalance, WriteBalance, tables, history
  <2> QED
    BY <2>1, <2>2, OtherSteps DEF Typed, MoneyTyped
<1>2. ASSUME NEW l \in Loans, (stale \cap Repayments(l))' = {}
      PROVE  balance[l] = Above0(Least(l))
  <2>1. stale \cap Repayments(l) = {}
    BY <1>1, <1>2 DEF Repayments
  <2> QED
    BY <2>1 DEF Exact
<1>3. ASSUME NEW l \in Loans, (stale \cap Repayments(l))' = {},
             Deducted(l)' = Deducted(l), balance'[l] = balance[l]
      PROVE  balance'[l] = Above0(Least(l)')
  <2>1. Least(l)' = Least(l)
    BY <1>0, <1>3, DeductedNext DEF Least
  <2> QED
    BY <1>2, <1>3, <2>1
<1>4. CASE \A r \in Requests : ~ WriteBalance(r)
  <2>1. balance' = balance
    <3>1. CASE LeavesMoney
      BY <3>1 DEF LeavesMoney, Money
    <3>2. ASSUME NEW r \in Requests, MoneyStep(r) PROVE balance' = balance
      BY <1>4, <3>2
         DEF MoneyStep, CheckDuplicate, ValidateApplication, ValidateDisbursement, Insert,
             ReadBalance, tables
    <3> QED
      BY <3>1, <3>2, OtherSteps DEF Typed, MoneyTyped
  <2>2. ASSUME NEW l \in Loans PROVE Deducted(l)' = Deducted(l)
    BY <1>4, DeductedStays, DeductedOnly
  <2>3. ASSUME NEW l \in Loans, (stale \cap Repayments(l))' = {}
        PROVE  balance'[l] = Above0(Least(l)')
    BY <1>3, <2>1, <2>2, <2>3
  <2> QED
    BY <2>3 DEF Exact, Above0
<1>5. ASSUME NEW r \in Requests, WriteBalance(r) PROVE Exact'
  <2>1. PICK o \in Operations : o = Current(r)
    BY <1>5, MoneyStepEffect DEF MoneyStep
  <2>2. PICK m \in Loans : m = LoanOf[o]
    BY OperationsAssumption
  <2>3. HalfWay(r) /\ handler[r].step = "writeBalance" /\ Rests(r)' /\ OthersKeep(r)
    <3>1. Rests(r)' /\ OthersKeep(r)
      BY <1>5, MoneyStepEffect
         DEF MoneyStep, WriteBalance, CheckDuplicate, ValidateApplication,
             ValidateDisbursement, Insert, ReadBalance, At
    <3> QED
      BY <1>5, <3>1 DEF WriteBalance, At, HalfWay
  <2>4. ASSUME NEW q \in Requests, WriteBalance(q) PROVE q = r
    <3>1. SUFFICES ASSUME q # r PROVE FALSE
      OBVIOUS
    <3>2. OthersKeep(q)
      BY <2>4, MoneyStepEffect DEF MoneyStep
    <3> QED
      BY <2>3, <3>1, <3>2, KeptHalfway, RestsNotHalfway DEF OthersKeep
  <2>5. balance' = [balance EXCEPT ![m] = Above0(seen[r] - Amount[o])]
    BY <1>5, <2>1, <2>2 DEF WriteBalance
  <2>6. o \in Repayments(m) /\ o \notin Deducted(m) /\ stored' = stored /\ o \notin cut'
    BY <1>5, <2>1, <2>2, <2>3
       DEF WriteBalance, OneByOne, Repayments, Deducted, HalfDone
  <2>7. ~ HalfDone(o)'
    <3>1. \A q \in Requests : ~ (HalfWay(q)' /\ Current(q)' = o)
      BY <2>1, <2>3, KeptHalfway, RestsNotHalfway DEF OneByOne, OthersKeep
    <3> QED
      BY <3>1 DEF HalfDone, HalfWay
  <2>8. Deducted(m)' = Deducted(m) \cup {o}
    <3>1. o \in Deducted(m)'
      BY <2>6, <2>7 DEF Deducted, Repayments
    <3>2. Deducted(m)' \ Deducted(m) \subseteq {o}
      BY <2>1, <2>4, DeductedOnly
    <3> QED
      BY <3>1, <3>2, DeductedStays
  <2>9. ASSUME (stale \cap Repayments(m))' = {} PROVE balance'[m] = Above0(Least(m)')
    <3>1. seen[r] = balance[m]
      <4>1. o \in Repayments(m)'
        BY <2>6 DEF Repayments
      <4>2. o \notin stale'
        BY <2>9, <4>1
      <4> QED
        BY <1>5, <2>1, <2>2, <4>2 DEF WriteBalance, StaleBalance
    <3>2. Total(Deducted(m) \cup {o}) = Total(Deducted(m)) + Amount[o]
      BY <1>0, <2>6, DeductedAreOperations, TotalWithOneMore
    <3>3. Least(m)' = Least(m) - Amount[o]
      <4>1. Least(m)' = Principal[m] - Total(Deducted(m)')
        BY <1>0, DeductedNext
      <4>2. Principal[m] \in Nat /\ Amount[o] \in Nat /\ Total(Deducted(m)) \in Nat
        BY <1>0, OperationsAssumption, DeductedAreOperations
      <4> QED
        BY <2>8, <3>2, <4>1, <4>2 DEF Least
    <3>4. balance'[m] = Above0(Above0(Least(m)) - Amount[o])
      BY <1>0, <1>2, <2>5, <2>9, <3>1
    <3>5. Least(m) \in Int /\ Amount[o] \in Nat
      BY <1>0, DeductedAreOperations, OperationsAssumption
    <3> QED
      BY <3>3, <3>4, <3>5 DEF Above0
  <2>10. ASSUME NEW k \in Loans, k # m, (stale \cap Repayments(k))' = {}
         PROVE  balance'[k] = Above0(Least(k)')
    <3>1. Deducted(k)' = Deducted(k)
      <4>1. Deducted(k)' \ Deducted(k) \subseteq {o}
        BY <2>1, <2>4, DeductedOnly
      <4>2. o \notin Deducted(k)'
        BY <2>2, <2>10 DEF Deducted, Repayments
      <4> QED
        BY <4>1, <4>2, DeductedStays
    <3>2. balance'[k] = balance[k]
      BY <1>0, <2>5, <2>10
    <3> QED
      BY <1>3, <2>10, <3>1, <3>2
  <2>11. ASSUME NEW k \in Loans, (stale \cap Repayments(k))' = {}
         PROVE  balance'[k] = Above0(Least(k)')
    BY <2>9, <2>10, <2>11
  <2> QED
    BY <2>11 DEF Exact, Above0
<1> QED
  BY <1>4, <1>5

\* However many requests the server works on at a time, and whatever fails: the balance
\* of a loan is its principal less the repayments that are stored, but for those half
\* done or cut off, as long as none of them was taken off a balance that another had
\* changed since it was read (createRepayment, updateLoanBalance).
THEOREM BalancesMatchRepayments == Spec => []BalanceMatchesRepayments
<1>1. Init => Exact
  <2>1. ASSUME Init, NEW l \in Loans PROVE balance[l] = Above0(Least(l))
    <3>1. Principal[l] \in Nat /\ balance[l] = Principal[l] /\ Deducted(l) = {}
      BY <2>1, OperationsAssumption DEF Init, Deducted, Repayments
    <3>2. Total({}) = 0
      BY SumEmpty DEF Total
    <3> QED
      BY <3>1, <3>2 DEF Least, Above0
  <2> QED
    BY <2>1 DEF Exact
<1>2. Typed /\ OneByOne /\ Exact /\ [Next]_vars => Exact'
  BY ExactStep
<1>3. Exact => BalanceMatchesRepayments
  BY DEF Exact, Least, BalanceMatchesRepayments
<1> QED
  BY <1>1, <1>2, <1>3, OneByOneHolds, PTL DEF Spec

-----------------------------------------------------------------------------
(* What is disbursed, while none is checked against an old reading.        *)

\* What is disbursed stays within the principal, and a handler about to disburse has
\* found that enough remains.
PaidOut ==
  /\ DisbursedWithinPrincipal
  /\ \A r \in Requests : At(r, "insert") /\ Kind[Current(r)] = "disbursement" =>
       Amount[Current(r)] <= seen[r]

LEMMA DisbursementsInserted ==
  ASSUME Typed, PaidOut, NEW r \in Requests, Insert(r)
  PROVE  DisbursedWithinPrincipal'
<1> DEFINE o == Current(r)
<1>0. /\ o \in Operations /\ stored \subseteq Operations /\ At(r, "insert")
      /\ o \notin stored /\ stored' = stored \cup {o}
      /\ activated' = IF Kind[o] = "disbursement" /\ Amount[o] >= seen[r]
                      THEN activated \cup {LoanOf[o]} ELSE activated
      /\ stale' = IF Kind[o] = "disbursement" /\ seen[r] # Remaining(LoanOf[o])
                  THEN stale \cup {o} ELSE stale
      /\ seen[r] \in Nat
  BY MoneyStepEffect DEF MoneyStep, Typed, MoneyTyped, Insert, Taken
<1>a. Kind[o] = "disbursement" => Amount[o] <= seen[r]
  BY <1>0 DEF PaidOut
<1> HIDE DEF o
<1>1. ASSUME NEW l \in Loans
      PROVE  /\ Disbursements(l) \in SUBSET Operations
             /\ Total(Disbursements(l)) \in Nat /\ Principal[l] \in Nat
  <2>1. Disbursements(l) \in SUBSET Operations
    BY <1>0 DEF Disbursements
  <2> QED
    BY <2>1, TotalsAreNumbers, OperationsAssumption
<1>2. ASSUME NEW l \in Loans, (stale \cap Disbursements(l))' = {}
      PROVE  /\ Total(Disbursements(l)) <= Principal[l]
             /\ l \in activated <=> /\ Disbursements(l) # {}
                                    /\ Total(Disbursements(l)) = Principal[l]
  <2>1. stale \cap Disbursements(l) = {}
    BY <1>0, <1>2 DEF Disbursements
  <2> QED
    BY <2>1 DEF PaidOut, DisbursedWithinPrincipal
<1>3. ASSUME NEW l \in Loans, (stale \cap Disbursements(l))' = {},
             ~ (Kind[o] = "disbursement" /\ LoanOf[o] = l)
      PROVE  Disbursements(l)' = Disbursements(l) /\ (l \in activated' <=> l \in activated)
  BY <1>0, <1>3 DEF Disbursements
<1>4. ASSUME NEW l \in Loans, (stale \cap Disbursements(l))' = {},
             Kind[o] = "disbursement", LoanOf[o] = l
      PROVE  /\ Total(Disbursements(l)') <= Principal[l]
             /\ Disbursements(l)' # {}
             /\ l \in activated' <=> Total(Disbursements(l)') = Principal[l]
  <2>1. Disbursements(l)' = Disbursements(l) \cup {o} /\ o \notin Disbursements(l)
    BY <1>0, <1>4 DEF Disbursements
  <2>2. seen[r] = Remaining(l)
    BY <1>0, <1>4, <2>1
  <2>3. Total(Disbursements(l) \cup {o}) = Total(Disbursements(l)) + Amount[o]
    BY <1>0, <1>1, <2>1, TotalWithOneMore
  <2>4. Amount[o] \in Nat \ {0} /\ Amount[o] <= seen[r]
    BY <1>0, <1>a, <1>4, OperationsAssumption
  <2>5. seen[r] = Principal[l] - Total(Disbursements(l))
    BY <1>1, <2>2, <2>4 DEF Remaining, Above0
  <2>6. l \notin activated
    BY <1>1, <1>2, <1>4, <2>4, <2>5
  <2>7. l \in activated' <=> Amount[o] >= seen[r]
    BY <1>0, <1>4, <2>6
  <2> QED
    BY <1>0, <1>1, <2>1, <2>3, <2>4, <2>5, <2>7
<1>5. ASSUME NEW l \in Loans, (stale \cap Disbursements(l))' = {}
      PROVE  /\ Total(Disbursements(l)') <= Principal[l]
             /\ l \in activated' <=> /\ Disbursements(l)' # {}
                                     /\ Total(Disbursements(l)') = Principal[l]
  <2>1. CASE Kind[o] = "disbursement" /\ LoanOf[o] = l
    BY <1>4, <1>5, <2>1
  <2>2. CASE ~ (Kind[o] = "disbursement" /\ LoanOf[o] = l)
    BY <1>2, <1>3, <1>5, <2>2
  <2> QED
    BY <2>1, <2>2
<1> QED
  BY <1>5 DEF DisbursedWithinPrincipal, Total

LEMMA PaidOutStep ==
  ASSUME Typed, PaidOut, [Next]_vars
  PROVE  PaidOut'
<1>1. ASSUME stored' = stored, activated' = activated, stale \subseteq stale'
      PROVE  DisbursedWithinPrincipal'
  <2>1. \A l \in Loans : Disbursements(l)' = Disbursements(l)
    BY <1>1 DEF Disbursements
  <2>2. ASSUME NEW l \in Loans, (stale \cap Disbursements(l))' = {}
        PROVE  stale \cap Disbursements(l) = {}
    BY <1>1, <2>1, <2>2
  <2> QED
    BY <1>1, <2>1, <2>2 DEF PaidOut, DisbursedWithinPrincipal, Total
<1>2. ASSUME NEW q \in Requests, Keeps(q), At(q, "insert")',
             Kind[Current(q)'] = "disbursement"
      PROVE  Amount[Current(q)'] <= seen'[q]
  <2>1. /\ At(q, "insert") /\ Current(q)' = Current(q) /\ seen'[q] = seen[q]
    BY <1>2 DEF Keeps, At, Working, Current
  <2> QED
    BY <1>2, <2>1 DEF PaidOut
<1>3. CASE LeavesMoney
  <2>1. \A q \in Requests : At(q, "insert")' => Keeps(q)
    BY <1>3 DEF LeavesMoney, Drops, Rests, At
  <2> QED
    BY <1>1, <1>2, <1>3, <2>1 DEF PaidOut, LeavesMoney, Money
<1>4. ASSUME NEW r \in Requests, MoneyStep(r) PROVE PaidOut'
  <2>1. DisbursedWithinPrincipal'
    <3>1. CASE Insert(r)
      BY <3>1, DisbursementsInserted
    <3>2. CASE ~ Insert(r)
      <4>1. stored' = stored /\ activated' = activated /\ stale \subseteq stale'
        BY <1>4, <3>2
           DEF MoneyStep, CheckDuplicate, ValidateApplication, ValidateDisbursement,
               ReadBalance, WriteBalance, tables, history
      <4> QED
        BY <1>1, <4>1
    <3> QED
      BY <3>1, <3>2
  <2>2. ASSUME At(r, "insert")', Kind[Current(r)'] = "disbursement"
        PROVE  Amount[Current(r)'] <= seen'[r]
    <3>1. ValidateDisbursement(r) /\ CameTo(r, "insert", Remaining(LoanOf[Current(r)]))
      <4>1. ~ Rests(r)'
        BY <2>2 DEF Rests, At
      <4>2. CASE CheckDuplicate(r) /\ CameTo(r, AfterCheck(Current(r)), 0)
        BY <2>2, <4>2 DEF CameTo, AfterCheck, At
      <4>3. CASE ValidateApplication(r) /\ CameTo(r, "insert", 0)
        BY <2>2, <4>3 DEF ValidateApplication, CameTo
      <4> QED
        BY <1>4, <2>2, <4>1, <4>2, <4>3, MoneyStepEffect DEF CameTo, At
    <3>2. ~ (Amount[Current(r)] > Remaining(LoanOf[Current(r)]))
      <4>1. ~ Report(r, "error")
        BY <1>4, <2>2, <3>1, ReportRests
           DEF Typed, RoutedShape, MoneyTyped, ValidateDisbursement, At, Rests, Outcomes
      <4> QED
        BY <3>1, <4>1 DEF ValidateDisbursement
    <3>3. /\ Current(r) \in Operations /\ LoanOf[Current(r)] \in Loans
          /\ Amount[Current(r)] \in Nat
      BY <1>4, MoneyStepEffect, OperationsAssumption
    <3>4. Remaining(LoanOf[Current(r)]) \in Nat
      BY <3>3, RemainingIsNumber DEF Typed, MoneyTyped
    <3> QED
      BY <3>1, <3>2, <3>3, <3>4 DEF CameTo
  <2>3. \A q \in Requests \ {r} : Keeps(q)
    BY <1>4, MoneyStepEffect DEF OthersKeep
  <2> QED
    BY <1>2, <2>1, <2>2, <2>3 DEF PaidOut
<1> QED
  BY <1>3, <1>4, OtherSteps DEF Typed, MoneyTyped

\* However many requests the server works on at a time, and whatever fails: no more is
\* disbursed than the principal, and a loan turns CURRENT exactly when all of it is, as
\* long as no disbursement is stored whose check read a remainder that another
\* disbursement has changed since (createLoanDisbursement).
THEOREM DisbursementsFitPrincipal == Spec => []DisbursedWithinPrincipal
<1>1. Init => PaidOut
  <2>1. ASSUME Init PROVE PaidOut
    <3>1. \A r \in Requests : ~ At(r, "insert")
      BY <2>1 DEF Init, FreeHandler, At, Working
    <3>2. ASSUME NEW l \in Loans
          PROVE  Principal[l] \in Nat /\ Disbursements(l) = {} /\ l \notin activated
      BY <2>1, OperationsAssumption DEF Init, Disbursements
    <3>3. Total({}) = 0
      BY SumEmpty DEF Total
    <3>4. DisbursedWithinPrincipal
      BY <3>2, <3>3 DEF DisbursedWithinPrincipal
    <3> QED
      BY <3>1, <3>4 DEF PaidOut
  <2> QED
    BY <2>1
<1>2. Typed /\ PaidOut /\ [Next]_vars => PaidOut'
  BY PaidOutStep
<1>3. PaidOut => DisbursedWithinPrincipal
  BY DEF PaidOut
<1> QED
  BY <1>1, <1>2, <1>3, TypedHolds, PTL DEF Spec

-----------------------------------------------------------------------------
(* Work given up is not on the server.                                     *)

RowsDistinct(rowsRead) ==
  \A i, j \in DOMAIN rowsRead : rowsRead[i].op = rowsRead[j].op => i = j

\* The operation is an error in the list of a handler whose service still waits for it,
\* in an answer or for good.
ErrorIn(done, o) == \E i \in DOMAIN done["error"] : done["error"][i] = o
ErrorOf(answer, o) ==
  \E i \in DOMAIN answer : answer[i].op = o /\ answer[i].outcome = "error"
Refused(o) ==
  \/ GivenUp(o)
  \/ \E r \in Requests : handler[r].for \in Services /\ ErrorIn(handler[r].done, o)
  \/ \E s \in Services : ErrorOf(upload[s].answer, o)

\* Only the phone that recorded an operation has a row of it and sends it.
OpenRowsAtHome == \A d \in Devices, o \in Operations :
  queue[d][o].status \in {"PENDING", "FAILED"} => d = DeviceOf[o]
AtHome ==
  /\ OpenRowsAtHome
  /\ \A s \in Services :
       /\ \A o \in OpsOf(upload[s].batch) \cup OpsOf(upload[s].left) :
            DeviceOf[o] = PhoneOf[s]
       /\ upload[s].phase # "saving" => upload[s].answer = <<>>

\* What is not in doubt is not sent twice before its result is booked.
SentOnce ==
  /\ \A s \in Services : RowsDistinct(upload[s].left)
  /\ \A r, q \in Requests : \A i \in DOMAIN handler[r].todo, j \in DOMAIN handler[q].todo :
       /\ handler[r].todo[i] = handler[q].todo[j]
       /\ handler[r].todo[i] \notin doubted
       => r = q /\ i = j
  /\ \A o \in Operations \ doubted : InWork(o) =>
       \A s \in Services : o \notin OpsOf(upload[s].left)

\* What is an error and not in doubt is not stored, and not under way any more.
RefusedRest ==
  /\ \A o \in Operations \ doubted : Refused(o) =>
       /\ o \notin stored /\ ~ InWork(o)
       /\ \A s \in Services : o \notin OpsOf(upload[s].left)
  /\ \A r \in Requests :
       Working(r) /\ handler[r].step \in {"validate", "insert"} /\ Current(r) \notin doubted
         => Current(r) \notin stored

Undone == AtHome /\ SentOnce /\ RefusedRest

\* Cutting off a batch parts the operations.
LEMMA BatchesPart ==
  ASSUME NEW rows \in Seq(ReadRowType), RowsDistinct(rows)
  PROVE  /\ OpsOf(FirstBatch(rows)) \cup OpsOf(AfterBatch(rows)) \subseteq OpsOf(rows)
         /\ OpsOf(FirstBatch(rows)) \cap OpsOf(AfterBatch(rows)) = {}
         /\ RowsDistinct(FirstBatch(rows)) /\ RowsDistinct(AfterBatch(rows))
<1> DEFINE n == Len(rows)
           k == IF n < BatchSize THEN n ELSE BatchSize
<1>1. n \in Nat /\ DOMAIN rows = 1..n /\ BatchSize \in Nat \ {0} /\ k \in 0..n
  BY BoundsAssumption
<1>2. ASSUME NEW m \in 1..(n + 1), NEW l \in Int, l <= n
      PROVE  /\ DOMAIN SubSeq(rows, m, l) = 1..(l - m + 1)
             /\ \A i \in DOMAIN SubSeq(rows, m, l) :
                  SubSeq(rows, m, l)[i] = rows[m + i - 1] /\ m + i - 1 \in DOMAIN rows
  BY <1>1, <1>2
<1>3. /\ DOMAIN FirstBatch(rows) = 1..k
      /\ \A i \in DOMAIN FirstBatch(rows) :
           FirstBatch(rows)[i] = rows[i] /\ i \in DOMAIN rows
  <2>1. FirstBatch(rows) = SubSeq(rows, 1, k)
    BY DEF FirstBatch
  <2> HIDE DEF n, k
  <2> QED
    BY <1>1, <1>2, <2>1 DEF n
<1>4. /\ DOMAIN AfterBatch(rows) = 1..(n - BatchSize)
      /\ \A i \in DOMAIN AfterBatch(rows) :
           /\ AfterBatch(rows)[i] = rows[BatchSize + i]
           /\ BatchSize + i \in DOMAIN rows /\ BatchSize + i > k
  <2>1. CASE BatchSize + 1 \in 1..(n + 1)
    <3>1. AfterBatch(rows) = SubSeq(rows, BatchSize + 1, n)
      BY DEF AfterBatch
    <3> QED
      BY <1>1, <1>2, <2>1, <3>1
  <2>2. CASE BatchSize + 1 \notin 1..(n + 1)
    <3>1. AfterBatch(rows) = <<>>
      BY <1>1, <2>2, SubSeqEmpty DEF AfterBatch
    <3> QED
      BY <1>1, <2>2, <3>1
  <2> QED
    BY <2>1, <2>2
<1> HIDE DEF n, k
<1>5. RowsDistinct(FirstBatch(rows))
  BY <1>3 DEF RowsDistinct
<1>6. RowsDistinct(AfterBatch(rows))
  BY <1>1, <1>4 DEF RowsDistinct
<1>7. \A i \in DOMAIN FirstBatch(rows), j \in DOMAIN AfterBatch(rows) :
        FirstBatch(rows)[i].op # AfterBatch(rows)[j].op
  BY <1>1, <1>3, <1>4 DEF RowsDistinct
<1> QED
  BY <1>3, <1>4, <1>5, <1>6, <1>7 DEF OpsOf

\* What is read at the start of an upload is open work of this phone, each row once.
LEMMA StartsWithOpenWork ==
  ASSUME Shape, AtHome, NEW s \in Services, NEW r \in Requests, StartUpload(s, r)
  PROVE  \E rows \in Seq(ReadRowType) :
           /\ Send(s, r, rows) /\ RowsDistinct(rows)
           /\ \A o \in OpsOf(rows) :
                o \in Operations /\ DeviceOf[o] = PhoneOf[s] /\ ~ GivenUp(o)
<1> DEFINE d == PhoneOf[s]
<1>1. d \in Devices
  BY OperationsAssumption
<1>2. PICK pending \in Ordered(PendingRows(d)), failed \in Ordered(FailedRows(d)) :
        Send(s, r, RowsRead(d, pending) \o RowsRead(d, failed))
  BY DEF StartUpload
<1>3. PendingRows(d) \in SUBSET Operations /\ FailedRows(d) \in SUBSET Operations
  BY DEF PendingRows, FailedRows
<1> DEFINE first == RowsRead(d, pending)
           second == RowsRead(d, failed)
           rows == first \o second
<1>4. first \in Seq(ReadRowType) /\ second \in Seq(ReadRowType)
  BY <1>1, <1>3, RowsReadType
<1>5. ASSUME NEW ops \in SUBSET Operations, NEW order \in Ordered(ops)
      PROVE  \A i, j \in DOMAIN order :
               /\ order[i] \in ops
               /\ order[i] = order[j] => i = j
  <2>1. IsFiniteSet(ops) /\ Cardinality(ops) \in Nat
    BY FS_Subset, FS_CardinalityType, OperationsAssumption
  <2>2. DOMAIN order = 1..Cardinality(ops) /\ \A i \in DOMAIN order : order[i] \in ops
    BY DEF Ordered
  <2>3. \A i, j \in DOMAIN order : i < j => order[i] < order[j]
    BY DEF Ordered
  <2>4. \A i \in DOMAIN order : order[i] \in Nat
    BY <2>2, OperationsAssumption
  <2> QED
    BY <2>1, <2>2, <2>3, <2>4
<1>6. ASSUME NEW ops \in SUBSET Operations, NEW order \in Ordered(ops)
      PROVE  /\ DOMAIN RowsRead(d, order) = DOMAIN order
             /\ \A i \in DOMAIN order : RowsRead(d, order)[i].op = order[i]
  BY DEF RowsRead
<1>7. /\ \A i \in DOMAIN first : first[i].op \in PendingRows(d)
      /\ \A i \in DOMAIN second : second[i].op \in FailedRows(d)
      /\ RowsDistinct(first) /\ RowsDistinct(second)
  BY <1>3, <1>5, <1>6 DEF RowsDistinct
<1>8. PendingRows(d) \cap FailedRows(d) = {}
  BY DEF PendingRows, FailedRows
<1>9. \A o \in PendingRows(d) \cup FailedRows(d) : DeviceOf[o] = d /\ ~ GivenUp(o)
  <2> SUFFICES ASSUME NEW o \in PendingRows(d) \cup FailedRows(d)
               PROVE  DeviceOf[o] = d /\ ~ GivenUp(o)
    OBVIOUS
  <2>1. o \in Operations /\ queue[d][o] \in RowType
    BY <1>1 DEF PendingRows, FailedRows, Shape
  <2>2. DeviceOf[o] = d
    BY <1>1, <2>1 DEF PendingRows, FailedRows, AtHome, OpenRowsAtHome
  <2>3. queue[d][o].retries \in Nat /\ MaxRetries \in Nat
    BY <2>1, BoundsAssumption DEF RowType
  <2> QED
    BY <2>1, <2>2, <2>3 DEF PendingRows, FailedRows, GivenUp, Row
<1> HIDE DEF d, first, second
<1>10. /\ rows \in Seq(ReadRowType)
       /\ Len(first) \in Nat /\ Len(second) \in Nat
       /\ DOMAIN first = 1..Len(first) /\ DOMAIN second = 1..Len(second)
       /\ DOMAIN rows = 1..(Len(first) + Len(second))
       /\ \A i \in DOMAIN rows : rows[i] = IF i <= Len(first) THEN first[i]
                                           ELSE second[i - Len(first)]
  BY <1>4, ConcatProperties
<1> HIDE DEF rows
<1>11. \A i \in DOMAIN rows :
         \/ i \in DOMAIN first /\ rows[i] = first[i]
         \/ i - Len(first) \in DOMAIN second /\ rows[i] = second[i - Len(first)]
              /\ i > Len(first)
  BY <1>10
<1>12. RowsDistinct(rows)
  <2> SUFFICES ASSUME NEW i \in DOMAIN rows, NEW j \in DOMAIN rows, rows[i].op = rows[j].op
               PROVE  i = j
    BY DEF RowsDistinct
  <2>1. CASE i \in DOMAIN first /\ rows[i] = first[i]
             /\ j \in DOMAIN first /\ rows[j] = first[j]
    BY <1>7, <2>1 DEF RowsDistinct
  <2>2. CASE /\ i - Len(first) \in DOMAIN second /\ rows[i] = second[i - Len(first)]
             /\ j - Len(first) \in DOMAIN second /\ rows[j] = second[j - Len(first)]
    <3>1. i - Len(first) = j - Len(first)
      BY <1>7, <2>2 DEF RowsDistinct
    <3> QED
      BY <1>10, <3>1
  <2>3. CASE \/ /\ i \in DOMAIN first /\ rows[i] = first[i]
                /\ j - Len(first) \in DOMAIN second /\ rows[j] = second[j - Len(first)]
             \/ /\ j \in DOMAIN first /\ rows[j] = first[j]
                /\ i - Len(first) \in DOMAIN second /\ rows[i] = second[i - Len(first)]
    BY <1>7, <1>8, <2>3
  <2> QED
    BY <1>11, <2>1, <2>2, <2>3
<1>13. \A o \in OpsOf(rows) : o \in PendingRows(d) \cup FailedRows(d)
  BY <1>7, <1>11 DEF OpsOf
<1>14. Send(s, r, rows)
  BY <1>2 DEF rows, first, second, d
<1> QED
  BY <1>3, <1>9, <1>10, <1>12, <1>13, <1>14 DEF d

\* A step that sends nothing and reports nothing.
Eases ==
  /\ \A s \in Services :
       /\ upload'[s].left \in {upload[s].left, <<>>}
       /\ upload'[s].batch \in {upload[s].batch, <<>>}
       /\ upload'[s].phase # "saving" => upload'[s].answer = <<>>
  /\ \A r \in Requests :
       \/ handler'[r].todo = <<>>
       \/ /\ handler'[r].todo = handler[r].todo /\ handler'[r].step = handler[r].step
          /\ handler'[r].for = "nobody" <=> handler[r].for = "nobody"
  /\ OpenRowsAtHome' /\ stored' = stored /\ doubted' = doubted
  /\ \A o \in Operations : Refused(o)' => Refused(o)

LEMMA EasesKeepsUndone ==
  ASSUME Undone, Eases
  PROVE  Undone'
<1>1. \A s \in Services : OpsOf(upload'[s].left) \subseteq OpsOf(upload[s].left)
                          /\ OpsOf(upload'[s].batch) \subseteq OpsOf(upload[s].batch)
                          /\ RowsDistinct(upload'[s].left)
  BY DEF Eases, Undone, SentOnce, OpsOf, RowsDistinct
<1>2. \A o : InWork(o)' => InWork(o)
  BY DEF Eases, InWork
<1>3. AtHome'
  BY <1>1 DEF Eases, Undone, AtHome
<1>4. SentOnce'
  <2>1. \A q \in Requests : handler'[q].todo = handler[q].todo \/ handler'[q].todo = <<>>
    BY DEF Eases
  <2>2. \A r, q \in Requests :
          \A i \in DOMAIN handler'[r].todo, j \in DOMAIN handler'[q].todo :
            /\ handler'[r].todo[i] = handler'[q].todo[j]
            /\ handler'[r].todo[i] \notin doubted'
            => r = q /\ i = j
    BY <2>1 DEF Eases, Undone, SentOnce
  <2>3. \A o \in Operations \ doubted' : InWork(o)' =>
          \A s \in Services : o \notin OpsOf(upload'[s].left)
    BY <1>1, <1>2 DEF Eases, Undone, SentOnce
  <2> QED
    BY <1>1, <2>2, <2>3 DEF SentOnce, OpsOf, RowsDistinct
<1>5. RefusedRest'
  <2>1. \A r \in Requests : Working(r)' => /\ Working(r) /\ Current(r)' = Current(r)
                                           /\ handler'[r].step = handler[r].step
    BY DEF Eases, Working, Current
  <2> QED
    BY <1>1, <1>2, <2>1 DEF Eases, Undone, RefusedRest
<1> QED
  BY <1>3, <1>4, <1>5 DEF Undone

LEMMA NothingNewRefused ==
  ASSUME \A o \in Operations : GivenUp(o)' =>
           GivenUp(o) \/ \E s \in Services : ErrorOf(upload[s].answer, o),
         \A r \in Requests, o \in Operations :
           handler'[r].for \in Services /\ ErrorIn(handler'[r].done, o)
             => handler[r].for \in Services /\ ErrorIn(handler[r].done, o),
         \A s \in Services, o \in Operations : ErrorOf(upload'[s].answer, o) =>
           \/ ErrorOf(upload[s].answer, o)
           \/ \E r \in Requests : handler[r].for \in Services /\ ErrorIn(handler[r].done, o)
  PROVE  \A o \in Operations : Refused(o)' => Refused(o)
<1> SUFFICES ASSUME NEW o \in Operations, Refused(o)' PROVE Refused(o)
  OBVIOUS
<1>1. \/ GivenUp(o)'
      \/ \E r \in Requests : handler'[r].for \in Services /\ ErrorIn(handler'[r].done, o)
      \/ \E s \in Services : ErrorOf(upload'[s].answer, o)
  BY DEF Refused, ErrorIn, ErrorOf
<1> QED
  BY <1>1 DEF Refused

LEMMA NoErrors == \A o : ~ ErrorOf(<<>>, o) /\ ~ ErrorIn(NothingDone, o)
BY DEF ErrorOf, ErrorIn, NothingDone, Outcomes

\* A service that goes back to the start, or on with the answer it has.
LEMMA ResetEases ==
  ASSUME Typed, Undone, queue' = queue, stored' = stored, doubted' = doubted,
         \A s \in Services : upload'[s] = upload[s] \/ upload'[s] = IdleUpload,
         \A r \in Requests :
           \/ handler'[r] = FreeHandler
           \/ /\ handler'[r].todo = handler[r].todo /\ handler'[r].step = handler[r].step
              /\ handler'[r].for = "nobody" <=> handler[r].for = "nobody"
              /\ handler'[r].for \in Services => handler[r].for \in Services
              /\ handler'[r].done = handler[r].done
  PROVE  Eases
<1>1. \A o \in Operations : Refused(o)' => Refused(o)
  <2>1. \A o \in Operations : GivenUp(o)' => GivenUp(o)
    BY DEF GivenUp, Row
  <2>2. \A r \in Requests, o \in Operations :
          handler'[r].for \in Services /\ ErrorIn(handler'[r].done, o)
            => handler[r].for \in Services /\ ErrorIn(handler[r].done, o)
    BY NoErrors DEF FreeHandler
  <2>3. \A s \in Services, o \in Operations :
          ErrorOf(upload'[s].answer, o) => ErrorOf(upload[s].answer, o)
    BY NoErrors DEF IdleUpload
  <2> QED
    BY <2>1, <2>2, <2>3, NothingNewRefused
<1>2. OpenRowsAtHome'
  BY DEF Undone, AtHome, OpenRowsAtHome
<1>3. \A s \in Services :
        /\ upload'[s].left \in {upload[s].left, <<>>}
        /\ upload'[s].batch \in {upload[s].batch, <<>>}
        /\ upload'[s].phase # "saving" => upload'[s].answer = <<>>
  BY DEF IdleUpload, Undone, AtHome
<1>4. \A r \in Requests :
        \/ handler'[r].todo = <<>>
        \/ /\ handler'[r].todo = handler[r].todo /\ handler'[r].step = handler[r].step
           /\ handler'[r].for = "nobody" <=> handler[r].for = "nobody"
  BY DEF FreeHandler
<1> QED
  BY <1>1, <1>2, <1>3, <1>4 DEF Eases

\* A step that changes rows of the phone, none of them to given up work but for the
\* error that is booked.
LEMMA RowsEase ==
  ASSUME Typed, Undone, stored' = stored, handler' = handler, doubted' = doubted,
         OpenRowsAtHome',
         \A o \in Operations : GivenUp(o)' =>
           GivenUp(o) \/ \E s \in Services : ErrorOf(upload[s].answer, o),
         \A s \in Services : \/ upload'[s] = upload[s] \/ upload'[s] = IdleUpload
                             \/ /\ upload[s].phase = "saving" /\ upload[s].answer # <<>>
                                /\ upload'[s] = Booking(upload[s], Tail(upload[s].answer))
  PROVE  Eases
<1>1. ASSUME NEW s \in Services
      PROVE  /\ upload'[s].left \in {upload[s].left, <<>>}
             /\ upload'[s].batch \in {upload[s].batch, <<>>}
             /\ upload'[s].phase # "saving" => upload'[s].answer = <<>>
  <2>1. CASE upload'[s] = upload[s]
    BY <2>1 DEF Undone, AtHome
  <2>2. CASE upload'[s] = IdleUpload
    BY <2>2 DEF IdleUpload
  <2>3. CASE upload'[s] = Booking(upload[s], Tail(upload[s].answer))
    BY <2>3 DEF Booking
  <2> QED
    BY <2>1, <2>2, <2>3
<1>2. ASSUME NEW s \in Services, NEW o \in Operations, ErrorOf(upload'[s].answer, o)
      PROVE  ErrorOf(upload[s].answer, o)
  <2>1. CASE upload'[s] = upload[s]
    BY <1>2, <2>1
  <2>2. CASE upload'[s] = IdleUpload
    BY <1>2, <2>2, NoErrors DEF IdleUpload
  <2>3. CASE /\ upload[s].phase = "saving" /\ upload[s].answer # <<>>
             /\ upload'[s] = Booking(upload[s], Tail(upload[s].answer))
    <3>1. /\ upload[s].answer \in Seq(ResultType)
          /\ upload'[s].answer = Tail(upload[s].answer)
      BY <2>3 DEF Typed, RoutedShape, Shape, Booking
    <3>2. \A i \in DOMAIN Tail(upload[s].answer) :
            /\ i + 1 \in DOMAIN upload[s].answer
            /\ Tail(upload[s].answer)[i] = upload[s].answer[i + 1]
      BY <2>3, <3>1
    <3> QED
      BY <1>2, <3>1, <3>2 DEF ErrorOf
  <2> QED
    BY <2>1, <2>2, <2>3
<1>3. \A o \in Operations : Refused(o)' => Refused(o)
  BY <1>2, NothingNewRefused
<1> QED
  BY <1>1, <1>3 DEF Eases

LEMMA PhoneEases ==
  ASSUME DistinctIds, Typed, Undone, NEW s \in Services,
         \/ GiveUp(s) \/ AppDies(s) \/ SaveResult(s)
         \/ \E old \in SUBSET Operations : FinishUpload(s, old)
  PROVE  Eases
<1>1. Shape /\ RoutedShape /\ PhoneOf[s] \in Devices /\ s # "nobody"
  BY OperationsAssumption DEF Typed, RoutedShape
<1>2. CASE GiveUp(s) \/ AppDies(s)
  <2>1. /\ upload' = [upload EXCEPT ![s] = IdleUpload] /\ queue' = queue /\ stored' = stored
        /\ doubted' = doubted
        /\ \/ handler' = handler
           \/ handler' = [r \in Requests |-> IF handler[r].for = s
                THEN [handler[r] EXCEPT !.for = "gone"] ELSE handler[r]]
    BY <1>2 DEF GiveUp, AppDies, tables, history
  <2>2. \A t \in Services : upload'[t] = upload[t] \/ upload'[t] = IdleUpload
    BY <1>1, <2>1 DEF Shape
  <2>3. \A r \in Requests :
          /\ handler'[r].todo = handler[r].todo /\ handler'[r].step = handler[r].step
          /\ handler'[r].for = "nobody" <=> handler[r].for = "nobody"
          /\ handler'[r].for \in Services => handler[r].for \in Services
          /\ handler'[r].done = handler[r].done
    BY <1>1, <2>1, OperationsAssumption DEF Shape
  <2> QED
    BY <2>1, <2>2, <2>3, ResetEases
<1>3. CASE SaveResult(s)
  <2> DEFINE result == Head(upload[s].answer)
             o == result.op
             d == PhoneOf[s]
  <2>1. /\ upload' = [upload EXCEPT ![s] = Booking(@, Tail(@.answer))]
        /\ handler' = handler /\ stored' = stored /\ doubted' = doubted
        /\ upload[s].phase = "saving" /\ upload[s].answer # <<>>
    BY <1>3 DEF SaveResult, tables, history
  <2>2. /\ o \in Operations /\ o \in BatchOps(s) /\ result = upload[s].answer[1]
        /\ 1 \in DOMAIN upload[s].answer /\ result.outcome \in Outcomes
    BY <1>1, <2>1, NextResult
  <2>3. DeviceOf[o] = d
    BY <2>2 DEF Undone, AtHome, OpsOf, BatchOps
  <2>a. RowFor(s, o).op = o
    BY <1>1, <2>2, RowForInBatch DEF DistinctIds
  <2>4. \E status \in {"UPLOADED", "CONFLICT", "FAILED"} : \E retries :
          /\ queue' = [queue EXCEPT ![d][o] = [status |-> status, retries |-> retries]]
          /\ status = "FAILED" => result.outcome = "error"
    BY <1>3, <2>2, <2>a DEF SaveResult, SetRow, Outcomes
  <2> HIDE DEF o, d, result
  <2>5. PICK status \in {"UPLOADED", "CONFLICT", "FAILED"} :
          /\ \E retries :
               queue' = [queue EXCEPT ![d][o] = [status |-> status, retries |-> retries]]
          /\ status = "FAILED" => result.outcome = "error"
    BY <2>4
  <2>6. \A e \in Devices, p \in Operations :
          IF e = d /\ p = o THEN queue'[e][p].status = status ELSE queue'[e][p] = queue[e][p]
    BY <1>1, <2>2, <2>5 DEF Shape, d
  <2>7. OpenRowsAtHome'
    <3>1. \A e \in Devices, p \in Operations :
            queue'[e][p].status \in {"PENDING", "FAILED"} => e = DeviceOf[p]
      BY <2>3, <2>6 DEF Undone, AtHome, OpenRowsAtHome
    <3> QED
      BY <3>1 DEF OpenRowsAtHome
  <2>8. ASSUME NEW p \in Operations, GivenUp(p)'
        PROVE  GivenUp(p) \/ \E t \in Services : ErrorOf(upload[t].answer, p)
    <3>1. CASE p # o
      <4>1. queue'[DeviceOf[p]][p] = queue[DeviceOf[p]][p]
        BY <2>6, <3>1, OperationsAssumption
      <4> QED
        BY <2>8, <4>1 DEF GivenUp, Row
    <3>2. CASE p = o
      <4>1. queue'[DeviceOf[p]][p].status = status
        BY <1>1, <2>3, <2>6, <3>2 DEF d
      <4>2. result.outcome = "error"
        BY <2>5, <2>8, <4>1 DEF GivenUp, Row
      <4> QED
        BY <2>2, <3>2, <4>2 DEF ErrorOf, o, result
    <3> QED
      BY <3>1, <3>2
  <2>9. \A t \in Services : \/ upload'[t] = upload[t] \/ upload'[t] = IdleUpload
                            \/ /\ upload[t].phase = "saving" /\ upload[t].answer # <<>>
                               /\ upload'[t] = Booking(upload[t], Tail(upload[t].answer))
    BY <1>1, <2>1 DEF Shape
  <2> QED
    BY <2>1, <2>7, <2>8, <2>9, RowsEase
<1>4. ASSUME NEW old \in SUBSET Operations, FinishUpload(s, old) PROVE Eases
  <2>1. /\ upload' = [upload EXCEPT ![s] = IdleUpload] /\ handler' = handler
        /\ stored' = stored /\ doubted' = doubted /\ \A o \in old : queue[PhoneOf[s]][o].status = "UPLOADED"
        /\ queue' = [queue EXCEPT ![PhoneOf[s]] =
             [o \in Operations |-> IF o \in old THEN [@[o] EXCEPT !.status = "DELETED"]
                                   ELSE @[o]]]
    BY <1>4 DEF FinishUpload, tables, history
  <2>2. ASSUME NEW e \in Devices, NEW p \in Operations, queue'[e][p] # queue[e][p]
        PROVE  queue'[e][p].status = "DELETED"
    <3>1. e = PhoneOf[s] /\ p \in old
      BY <1>1, <2>1, <2>2 DEF Shape
    <3>2. queue'[e][p] = [queue[e][p] EXCEPT !.status = "DELETED"]
      BY <1>1, <2>1, <3>1 DEF Shape
    <3>3. queue[e][p] \in RowType
      BY <1>1 DEF Shape
    <3> QED
      BY <3>2, <3>3 DEF RowType
  <2>3. OpenRowsAtHome'
    <3>1. \A e \in Devices, p \in Operations :
            queue'[e][p].status \in {"PENDING", "FAILED"} => e = DeviceOf[p]
      BY <2>2 DEF Undone, AtHome, OpenRowsAtHome
    <3> QED
      BY <3>1 DEF OpenRowsAtHome
  <2>4. \A p \in Operations : GivenUp(p)' => GivenUp(p)
    <3>1. \A p \in Operations : DeviceOf[p] \in Devices
      BY OperationsAssumption
    <3> QED
      BY <2>2, <3>1 DEF GivenUp, Row
  <2>5. \A t \in Services : upload'[t] = upload[t] \/ upload'[t] = IdleUpload
    BY <1>1, <2>1 DEF Shape
  <2> QED
    BY <2>1, <2>3, <2>4, <2>5, RowsEase
<1> QED
  BY <1>2, <1>3, <1>4

\* The answer repeats the errors of the handler.
LEMMA ServerEndEases ==
  ASSUME Typed, Undone, NEW r \in Requests, ServerDies(r) \/ Reply(r)
  PROVE  Eases
<1>1. Shape /\ RoutedShape
  BY DEF Typed, RoutedShape
<1>2. CASE ServerDies(r)
  <2>1. /\ \A s \in Services : upload'[s] = upload[s] \/ upload'[s] = IdleUpload
        /\ queue' = queue /\ stored' = stored /\ doubted' = doubted
    BY <1>2 DEF ServerDies, tables
  <2>2. \A q \in Requests : handler'[q] = FreeHandler \/ handler'[q] = handler[q]
    BY <1>1, <1>2 DEF ServerDies, Shape
  <2> QED
    BY <2>1, <2>2, ResetEases
<1>3. CASE Reply(r)
  <2>1. /\ queue' = queue /\ stored' = stored /\ doubted' = doubted
        /\ handler' = [handler EXCEPT ![r] = FreeHandler]
        /\ upload' = [s \in Services |->
             IF handler[r].for = s
             THEN Booking(upload[s], Answer(handler[r].done)) ELSE upload[s]]
    BY <1>3 DEF Reply, tables, history
  <2>2. Answer(handler[r].done) \in Seq(Reportable(handler[r].done))
    BY <1>1, <1>3, ReplyEffect
  <2>3. \A o \in Operations :
          ErrorOf(Answer(handler[r].done), o) => ErrorIn(handler[r].done, o)
    <3>1. \A i \in DOMAIN Answer(handler[r].done) :
            Answer(handler[r].done)[i] \in Reportable(handler[r].done)
      BY <2>2
    <3> QED
      BY <3>1 DEF ErrorOf, ErrorIn, Reportable
  <2>4. \A s \in Services, o \in Operations : ErrorOf(upload'[s].answer, o) =>
          \/ ErrorOf(upload[s].answer, o)
          \/ \E q \in Requests : handler[q].for \in Services /\ ErrorIn(handler[q].done, o)
    BY <2>1, <2>3 DEF Booking
  <2>5. \A q \in Requests : handler'[q] = FreeHandler \/ handler'[q] = handler[q]
    BY <1>1, <2>1 DEF Shape
  <2>6. \A q \in Requests, o \in Operations :
          handler'[q].for \in Services /\ ErrorIn(handler'[q].done, o)
            => handler[q].for \in Services /\ ErrorIn(handler[q].done, o)
    BY <2>5, NoErrors DEF FreeHandler
  <2>7. \A o \in Operations : GivenUp(o)' => GivenUp(o)
    BY <2>1 DEF GivenUp, Row
  <2>8. \A o \in Operations : Refused(o)' => Refused(o)
    BY <2>4, <2>6, <2>7, NothingNewRefused
  <2>9. \A s \in Services :
          /\ upload'[s].left \in {upload[s].left, <<>>}
          /\ upload'[s].batch \in {upload[s].batch, <<>>}
          /\ upload'[s].phase # "saving" => upload'[s].answer = <<>>
    BY <2>1 DEF Booking, Undone, AtHome
  <2>10. \A q \in Requests :
           \/ handler'[q].todo = <<>>
           \/ /\ handler'[q].todo = handler[q].todo /\ handler'[q].step = handler[q].step
              /\ handler'[q].for = "nobody" <=> handler[q].for = "nobody"
    BY <2>5 DEF FreeHandler
  <2>11. OpenRowsAtHome'
    BY <2>1 DEF Undone, AtHome, OpenRowsAtHome
  <2> QED
    BY <2>1, <2>8, <2>9, <2>10, <2>11 DEF Eases
<1> QED
  BY <1>2, <1>3

LEMMA RecordEases ==
  ASSUME Typed, Undone, NEW o \in Operations, Record(o)
  PROVE  Eases
<1>1. Shape /\ DeviceOf[o] \in Devices
  BY OperationsAssumption DEF Typed, RoutedShape
<1>2. /\ queue' = [queue EXCEPT ![DeviceOf[o]][o] = [status |-> "PENDING", retries |-> 0]]
      /\ upload' = upload /\ handler' = handler /\ stored' = stored /\ doubted' = doubted
  BY DEF Record, SetRow, tables, history
<1>3. \A e \in Devices, p \in Operations :
        IF e = DeviceOf[o] /\ p = o THEN queue'[e][p].status = "PENDING"
        ELSE queue'[e][p] = queue[e][p]
  BY <1>1, <1>2 DEF Shape
<1>4. OpenRowsAtHome'
  <2>1. \A e \in Devices, p \in Operations :
          queue'[e][p].status \in {"PENDING", "FAILED"} => e = DeviceOf[p]
    BY <1>3 DEF Undone, AtHome, OpenRowsAtHome
  <2> QED
    BY <2>1 DEF OpenRowsAtHome
<1>5. \A p \in Operations : GivenUp(p)' => GivenUp(p)
  <2>1. \A p \in Operations : DeviceOf[p] \in Devices
    BY OperationsAssumption
  <2> QED
    BY <1>3, <2>1 DEF GivenUp, Row
<1> QED
  BY <1>2, <1>4, <1>5, RowsEase

\* A batch is open work of its phone; what of it another request or service still has
\* is in doubt from now on.
LEMMA SendKeepsUndone ==
  ASSUME Typed, Undone,
         NEW s \in Services, NEW r \in Requests, NEW rows \in Seq(ReadRowType),
         Send(s, r, rows), RowsDistinct(rows), upload[s].phase # "waiting",
         \A o \in OpsOf(rows) :
           /\ o \in Operations /\ DeviceOf[o] = PhoneOf[s]
           /\ o \notin doubted => ~ GivenUp(o)
  PROVE  Undone'
<1>1. Shape /\ RoutedShape
  BY DEF Typed, RoutedShape
<1> DEFINE batch == FirstBatch(rows)
           rest == AfterBatch(rows)
           todo == [i \in DOMAIN batch |-> batch[i].op]
<1>2. /\ upload' = [upload EXCEPT ![s] = [phase |-> "waiting", left |-> rest,
                                          batch |-> batch, answer |-> <<>>]]
      /\ handler' = [handler EXCEPT ![r] = [for |-> s, todo |-> todo, done |-> NothingDone,
                                            step |-> "check"]]
      /\ queue' = queue /\ stored' = stored /\ handler[r] = FreeHandler
      /\ doubted \subseteq doubted'
      /\ \A o \in OpsOf(rows) : o \notin doubted' =>
           ~ InWork(o) /\ \A t \in Services \ {s} : o \notin Unbooked(t)
  BY DEF Send, tables
<1>3. /\ OpsOf(batch) \cup OpsOf(rest) \subseteq OpsOf(rows)
      /\ OpsOf(batch) \cap OpsOf(rest) = {}
      /\ RowsDistinct(batch) /\ RowsDistinct(rest)
  BY BatchesPart
<1>4. /\ DOMAIN todo = DOMAIN batch /\ \A i \in DOMAIN batch : todo[i] = batch[i].op
  OBVIOUS
<1> HIDE DEF batch, rest, todo
<1>5. /\ upload'[s].left = rest /\ upload'[s].batch = batch
      /\ upload'[s].answer = <<>> /\ upload'[s].phase = "waiting"
      /\ \A t \in Services \ {s} : upload'[t] = upload[t]
  BY <1>1, <1>2 DEF Shape
<1>6. /\ handler'[r].todo = todo /\ handler'[r].step = "check"
      /\ handler'[r].done = NothingDone
      /\ \A q \in Requests \ {r} : handler'[q] = handler[q]
  BY <1>1, <1>2 DEF Shape
<1>7. handler[r].todo = <<>>
  BY <1>2 DEF FreeHandler
<1>8. \A o : InWork(o)' => InWork(o) \/ o \in OpsOf(batch)
  BY <1>4, <1>6 DEF InWork, OpsOf
<1>9. \A t \in Services \ {s}, o \in OpsOf(rows) \ doubted' : o \notin OpsOf(upload[t].left)
  BY <1>2 DEF Unbooked
<1>10. AtHome'
  <2>1. OpenRowsAtHome'
    BY <1>2 DEF Undone, AtHome, OpenRowsAtHome
  <2> QED
    BY <1>3, <1>5, <2>1 DEF Undone, AtHome
<1>11. SentOnce'
  <2>1. \A t \in Services : RowsDistinct(upload'[t].left)
    BY <1>3, <1>5 DEF Undone, SentOnce
  <2>2. ASSUME NEW p \in Requests, NEW q \in Requests,
               NEW i \in DOMAIN handler'[p].todo, NEW j \in DOMAIN handler'[q].todo,
               handler'[p].todo[i] = handler'[q].todo[j],
               handler'[p].todo[i] \notin doubted'
        PROVE  p = q /\ i = j
    <3>1. \A k \in DOMAIN todo : todo[k] \in OpsOf(rows)
      BY <1>3, <1>4 DEF OpsOf
    <3>2. ASSUME NEW u \in Requests, u # r, NEW k \in DOMAIN handler'[u].todo
          PROVE  InWork(handler'[u].todo[k])
      BY <1>6, <3>2 DEF InWork
    <3>3. CASE p = r /\ q = r
      BY <1>3, <1>4, <1>6, <2>2, <3>3 DEF RowsDistinct
    <3>4. CASE p = r /\ q # r
      <4>1. handler'[p].todo[i] \in OpsOf(rows) /\ InWork(handler'[p].todo[i])
        BY <1>6, <2>2, <3>1, <3>2, <3>4
      <4> QED
        BY <1>2, <2>2, <4>1
    <3>5. CASE p # r /\ q = r
      <4>1. handler'[p].todo[i] \in OpsOf(rows) /\ InWork(handler'[p].todo[i])
        BY <1>6, <2>2, <3>1, <3>2, <3>5
      <4> QED
        BY <1>2, <2>2, <4>1
    <3>6. CASE p # r /\ q # r
      BY <1>2, <1>6, <2>2, <3>6 DEF Undone, SentOnce
    <3> QED
      BY <3>3, <3>4, <3>5, <3>6
  <2>3. ASSUME NEW o \in Operations \ doubted', InWork(o)', NEW t \in Services
        PROVE  o \notin OpsOf(upload'[t].left)
    <3>1. CASE o \in OpsOf(rows)
      <4>1. o \in OpsOf(batch)
        BY <1>2, <1>8, <2>3, <3>1
      <4> QED
        BY <1>3, <1>5, <1>9, <3>1, <4>1
    <3>2. CASE o \notin OpsOf(rows)
      <4>1. InWork(o) /\ o \notin doubted
        BY <1>2, <1>3, <1>8, <2>3, <3>2
      <4>2. o \notin OpsOf(upload[t].left)
        BY <4>1 DEF Undone, SentOnce
      <4> QED
        BY <1>3, <1>5, <3>2, <4>2
    <3> QED
      BY <3>1, <3>2
  <2> QED
    BY <2>1, <2>2, <2>3 DEF SentOnce, OpsOf, RowsDistinct
<1>12. RefusedRest'
  <2>1. ASSUME NEW o \in Operations \ doubted', Refused(o)'
        PROVE  Refused(o) /\ o \notin OpsOf(rows)
    <3>1. ~ ErrorIn(handler'[r].done, o) /\ ~ ErrorOf(upload'[s].answer, o)
      BY <1>5, <1>6, NoErrors
    <3>2. \/ GivenUp(o)'
          \/ \E q \in Requests : handler'[q].for \in Services /\ ErrorIn(handler'[q].done, o)
          \/ \E t \in Services : ErrorOf(upload'[t].answer, o)
      BY <2>1 DEF Refused, ErrorIn, ErrorOf
    <3>3. GivenUp(o)' => GivenUp(o)
      BY <1>2 DEF GivenUp, Row
    <3>4. \/ GivenUp(o)
          \/ \E q \in Requests : handler[q].for \in Services /\ ErrorIn(handler[q].done, o)
          \/ \E t \in Services \ {s} : ErrorOf(upload[t].answer, o)
      BY <1>5, <1>6, <3>1, <3>2, <3>3
    <3>5. ASSUME NEW t \in Services \ {s}, ErrorOf(upload[t].answer, o)
          PROVE  o \in Unbooked(t)
      BY <3>5 DEF ErrorOf, Unbooked, OpsOf
    <3>6. ASSUME NEW q \in Requests, handler[q].for \in Services,
                 ErrorIn(handler[q].done, o)
          PROVE  \E t \in Services \ {s} : o \in Unbooked(t)
      <4> DEFINE t == handler[q].for
      <4>1. Serves(q, t)
        BY <3>6 DEF Typed, RoutedShape, Routed
      <4>2. upload[t].phase = "waiting" /\ t # s
        BY <4>1 DEF Serves
      <4>3. o \in BatchOps(t)
        BY <3>6, <4>1 DEF Serves, OpsIn, ErrorIn, Outcomes
      <4>4. o \in Unbooked(t)
        BY <4>2, <4>3 DEF Unbooked, BatchOps, OpsOf
      <4> QED
        BY <3>6, <4>2, <4>4
    <3>7. Refused(o)
      BY <3>4 DEF Refused
    <3>8. ASSUME o \in OpsOf(rows) PROVE FALSE
      BY <1>2, <2>1, <3>4, <3>5, <3>6, <3>8
    <3> QED
      BY <3>7, <3>8
  <2>2. ASSUME NEW o \in Operations \ doubted', Refused(o)'
        PROVE  /\ o \notin stored' /\ ~ InWork(o)'
               /\ \A t \in Services : o \notin OpsOf(upload'[t].left)
    <3>1. Refused(o) /\ o \notin OpsOf(rows) /\ o \notin doubted
      BY <1>2, <2>1, <2>2
    <3>2. o \notin stored /\ ~ InWork(o) /\ \A t \in Services : o \notin OpsOf(upload[t].left)
      BY <3>1 DEF Undone, RefusedRest
    <3> QED
      BY <1>2, <1>3, <1>5, <1>8, <3>1, <3>2
  <2>3. ASSUME NEW q \in Requests, Working(q)', handler'[q].step \in {"validate", "insert"},
               Current(q)' \notin doubted'
        PROVE  Current(q)' \notin stored'
    <3>1. q # r
      BY <1>6, <2>3
    <3>2. Working(q) /\ Current(q)' = Current(q) /\ handler[q].step = handler'[q].step
      BY <1>6, <2>3, <3>1 DEF Working, Current
    <3> QED
      BY <1>2, <2>3, <3>2 DEF Undone, RefusedRest
  <2> QED
    BY <2>2, <2>3 DEF RefusedRest, OpsOf
<1> QED
  BY <1>10, <1>11, <1>12 DEF Undone

LEMMA CurrentInWork ==
  ASSUME Shape, NEW r \in Requests, Working(r)
  PROVE  /\ Current(r) \in Operations /\ InWork(Current(r))
         /\ Current(r) = handler[r].todo[1] /\ 1 \in DOMAIN handler[r].todo
<1>1. handler[r].todo \in Seq(Operations) /\ handler[r].todo # <<>>
  BY DEF Shape, Working
<1>2. Current(r) = handler[r].todo[1] /\ 1 \in DOMAIN handler[r].todo
  BY <1>1 DEF Current
<1> QED
  BY <1>1, <1>2 DEF InWork

\* No other request turns to an operation that is not in doubt.
LEMMA OneTurnsToIt ==
  ASSUME Shape, SentOnce, NEW r \in Requests, NEW q \in Requests, Working(r), Working(q),
         Current(q) = Current(r), Current(r) \notin doubted
  PROVE  q = r
<1>1. /\ Current(r) = handler[r].todo[1] /\ 1 \in DOMAIN handler[r].todo
      /\ Current(q) = handler[q].todo[1] /\ 1 \in DOMAIN handler[q].todo
  BY CurrentInWork
<1> QED
  BY <1>1 DEF SentOnce

\* The handler goes on with its operation, which it may have stored.
LEMMA GoToKeepsUndone ==
  ASSUME Typed, Undone, NEW r \in Requests, Working(r),
         NEW step, NEW amount, GoTo(r, step, amount), queue' = queue, upload' = upload,
         doubted' = doubted, stored' \in {stored, stored \cup {Current(r)}},
         step \in {"validate", "insert"} /\ Current(r) \notin doubted
           => Current(r) \notin stored'
  PROVE  Undone'
<1>1. Shape /\ Current(r) \in Operations /\ InWork(Current(r))
  BY CurrentInWork DEF Typed, RoutedShape
<1>2. /\ handler'[r].todo = handler[r].todo /\ handler'[r].step = step
      /\ handler'[r].done = handler[r].done /\ handler'[r].for = handler[r].for
      /\ \A q \in Requests \ {r} : handler'[q] = handler[q]
  BY <1>1 DEF GoTo, Shape
<1>3. AtHome'
  BY DEF Undone, AtHome, OpenRowsAtHome
<1>4. \A q \in Requests : handler'[q].todo = handler[q].todo
  BY <1>2
<1>5. \A o : InWork(o)' <=> InWork(o)
  BY <1>4 DEF InWork
<1>6. SentOnce'
  <2>1. \A p, q \in Requests :
          \A i \in DOMAIN handler'[p].todo, j \in DOMAIN handler'[q].todo :
            /\ handler'[p].todo[i] = handler'[q].todo[j]
            /\ handler'[p].todo[i] \notin doubted'
            => p = q /\ i = j
    BY <1>4 DEF Undone, SentOnce
  <2>2. \A o \in Operations \ doubted' : InWork(o)' =>
          \A s \in Services : o \notin OpsOf(upload'[s].left)
    BY <1>5 DEF Undone, SentOnce
  <2>3. \A s \in Services : RowsDistinct(upload'[s].left)
    BY DEF Undone, SentOnce
  <2> QED
    BY <2>1, <2>2, <2>3 DEF SentOnce, OpsOf, RowsDistinct
<1>7. \A o \in Operations : Refused(o)' => Refused(o)
  <2>1. \A o \in Operations : GivenUp(o)' => GivenUp(o)
    BY DEF GivenUp, Row
  <2>2. \A q \in Requests, o \in Operations :
          handler'[q].for \in Services /\ ErrorIn(handler'[q].done, o)
            => handler[q].for \in Services /\ ErrorIn(handler[q].done, o)
    BY <1>2
  <2> QED
    BY <2>1, <2>2, NothingNewRefused
<1>8. RefusedRest'
  <2>1. ASSUME NEW o \in Operations \ doubted', Refused(o)'
        PROVE  /\ o \notin stored' /\ ~ InWork(o)'
               /\ \A s \in Services : o \notin OpsOf(upload'[s].left)
    BY <1>1, <1>5, <1>7, <2>1 DEF Undone, RefusedRest
  <2>2. ASSUME NEW q \in Requests, Working(q)', handler'[q].step \in {"validate", "insert"},
               Current(q)' \notin doubted'
        PROVE  Current(q)' \notin stored'
    <3>1. Current(q)' = Current(q)
      BY <1>4 DEF Current
    <3>2. CASE q = r
      BY <1>2, <2>2, <3>1, <3>2
    <3>3. CASE q # r
      <4>1. Working(q) /\ handler[q].step \in {"validate", "insert"} /\ Current(q) \notin doubted
        BY <1>2, <2>2, <3>1, <3>3 DEF Working
      <4>2. Current(q) \notin stored
        BY <4>1 DEF Undone, RefusedRest
      <4>3. Current(q) # Current(r)
        BY <1>1, <3>3, <4>1, OneTurnsToIt DEF Undone
      <4> QED
        BY <3>1, <4>2, <4>3
    <3> QED
      BY <3>2, <3>3
  <2> QED
    BY <2>1, <2>2 DEF RefusedRest, OpsOf
<1> QED
  BY <1>3, <1>6, <1>8 DEF Undone

\* The handler reports its operation; as an error only what is not stored, or in doubt.
LEMMA ReportKeepsUndone ==
  ASSUME Typed, Undone, NEW r \in Requests, Working(r),
         NEW outcome \in Outcomes, Report(r, outcome), queue' = queue, upload' = upload,
         doubted \subseteq doubted', stored' \in {stored, stored \cup {Current(r)}},
         outcome = "error" /\ Current(r) \notin doubted' => Current(r) \notin stored'
  PROVE  Undone'
<1> DEFINE o1 == Current(r)
<1>1. Shape /\ o1 \in Operations /\ InWork(o1) /\ o1 = handler[r].todo[1]
      /\ 1 \in DOMAIN handler[r].todo
  BY CurrentInWork DEF Typed, RoutedShape
<1>2. /\ handler'[r].todo = Tail(handler[r].todo) /\ handler'[r].step = "check"
      /\ handler'[r].for = handler[r].for
      /\ handler'[r].done = [handler[r].done EXCEPT ![outcome] = Append(@, o1)]
      /\ \A q \in Requests \ {r} : handler'[q] = handler[q]
  BY <1>1, ReportEffect
<1> HIDE DEF o1
<1>3. handler[r].todo \in Seq(Operations) /\ handler[r].todo # <<>>
      /\ handler[r].done \in [Outcomes -> Seq(Operations)]
  BY <1>1 DEF Shape, Working
<1>4. \A i \in DOMAIN Tail(handler[r].todo) :
        /\ i # 0 /\ i \in Int /\ i + 1 \in DOMAIN handler[r].todo
        /\ Tail(handler[r].todo)[i] = handler[r].todo[i + 1]
  BY <1>3
<1>a. \A i \in DOMAIN handler'[r].todo :
        /\ i + 1 \in DOMAIN handler[r].todo /\ handler'[r].todo[i] = handler[r].todo[i + 1]
        /\ i \in Int /\ i + 1 # 1
  BY <1>2, <1>4
<1>5. ASSUME NEW o, InWork(o)' PROVE InWork(o)
  <2>1. PICK q \in Requests : \E i \in DOMAIN handler'[q].todo : handler'[q].todo[i] = o
    BY <1>5 DEF InWork
  <2>2. CASE q = r
    BY <1>a, <2>1, <2>2 DEF InWork
  <2>3. CASE q # r
    BY <1>2, <2>1, <2>3 DEF InWork
  <2> QED
    BY <2>2, <2>3
<1>b. \A o \in Operations \ doubted' : o = o1 => ~ InWork(o)'
  <2> SUFFICES ASSUME o1 \notin doubted', NEW q \in Requests,
                      NEW i \in DOMAIN handler'[q].todo, handler'[q].todo[i] = o1
               PROVE  FALSE
    BY DEF InWork
  <2>1. CASE q = r
    BY <1>1, <1>a, <2>1 DEF Undone, SentOnce
  <2>2. CASE q # r
    BY <1>1, <1>2, <2>2 DEF Undone, SentOnce
  <2> QED
    BY <2>1, <2>2
<1>6. AtHome'
  BY DEF Undone, AtHome, OpenRowsAtHome
<1>7. SentOnce'
  <2>1. ASSUME NEW p \in Requests, NEW q \in Requests,
               NEW i \in DOMAIN handler'[p].todo, NEW j \in DOMAIN handler'[q].todo,
               handler'[p].todo[i] = handler'[q].todo[j],
               handler'[p].todo[i] \notin doubted'
        PROVE  p = q /\ i = j
    <3> DEFINE shift(u) == IF u = r THEN 1 ELSE 0
    <3>1. ASSUME NEW u \in Requests, NEW k \in DOMAIN handler'[u].todo
          PROVE  /\ k + shift(u) \in DOMAIN handler[u].todo
                 /\ handler'[u].todo[k] = handler[u].todo[k + shift(u)]
                 /\ k \in Int
      <4>1. CASE u = r
        BY <1>a, <4>1
      <4>2. CASE u # r
        <5>1. handler'[u] = handler[u] /\ handler[u].todo \in Seq(Operations)
          BY <1>1, <1>2, <4>2 DEF Shape
        <5>2. k \in Int /\ k + 0 = k
          BY <5>1
        <5> QED
          BY <4>2, <5>1, <5>2
      <4> QED
        BY <4>1, <4>2
    <3> HIDE DEF shift
    <3>2. p = q /\ i + shift(p) = j + shift(q)
      BY <2>1, <3>1 DEF Undone, SentOnce
    <3> QED
      BY <3>1, <3>2 DEF shift
  <2>2. \A o \in Operations \ doubted' : InWork(o)' =>
          \A s \in Services : o \notin OpsOf(upload'[s].left)
    BY <1>5 DEF Undone, SentOnce
  <2>3. \A s \in Services : RowsDistinct(upload'[s].left)
    BY DEF Undone, SentOnce
  <2> QED
    BY <2>1, <2>2, <2>3 DEF SentOnce, OpsOf, RowsDistinct
<1>8. ASSUME NEW o \in Operations, Refused(o)'
      PROVE  Refused(o) \/ (o = o1 /\ outcome = "error")
  <2>1. \/ GivenUp(o)'
        \/ \E q \in Requests : handler'[q].for \in Services /\ ErrorIn(handler'[q].done, o)
        \/ \E s \in Services : ErrorOf(upload'[s].answer, o)
    BY <1>8 DEF Refused, ErrorIn, ErrorOf
  <2>2. GivenUp(o)' => GivenUp(o)
    BY DEF GivenUp, Row
  <2>3. ASSUME ErrorIn(handler'[r].done, o)
        PROVE  ErrorIn(handler[r].done, o) \/ (o = o1 /\ outcome = "error")
    <3>1. CASE outcome # "error"
      <4>1. handler'[r].done["error"] = handler[r].done["error"]
        BY <1>2, <1>3, <3>1 DEF Outcomes
      <4> QED
        BY <2>3, <4>1 DEF ErrorIn
    <3>2. CASE outcome = "error"
      <4> DEFINE errors == handler[r].done["error"]
      <4>1. errors \in Seq(Operations) /\ handler'[r].done["error"] = Append(errors, o1)
        BY <1>2, <1>3, <3>2 DEF Outcomes
      <4>2. PICK i \in DOMAIN Append(errors, o1) : Append(errors, o1)[i] = o
        BY <2>3, <4>1 DEF ErrorIn
      <4> HIDE DEF errors
      <4>3. o = o1 \/ (i \in DOMAIN errors /\ errors[i] = o)
        BY <1>1, <4>1, <4>2
      <4> QED
        BY <3>2, <4>3 DEF ErrorIn, errors
    <3> QED
      BY <3>1, <3>2
  <2>4. ASSUME NEW q \in Requests, handler'[q].for \in Services, ErrorIn(handler'[q].done, o)
        PROVE  Refused(o) \/ (o = o1 /\ outcome = "error")
    <3>1. CASE q = r
      BY <1>2, <2>3, <2>4, <3>1 DEF Refused
    <3>2. CASE q # r
      <4>1. handler'[q] = handler[q]
        BY <1>2, <3>2
      <4> QED
        BY <2>4, <4>1 DEF Refused
    <3> QED
      BY <3>1, <3>2
  <2> QED
    BY <2>1, <2>2, <2>4 DEF Refused
<1>9. RefusedRest'
  <2>1. ASSUME NEW o \in Operations \ doubted', Refused(o)'
        PROVE  /\ o \notin stored' /\ ~ InWork(o)'
               /\ \A s \in Services : o \notin OpsOf(upload'[s].left)
    <3>1. CASE Refused(o)
      <4>1. /\ o \notin stored /\ ~ InWork(o)
            /\ \A s \in Services : o \notin OpsOf(upload[s].left)
        BY <2>1, <3>1 DEF Undone, RefusedRest
      <4> QED
        BY <1>1, <1>5, <4>1 DEF o1
    <3>2. CASE o = o1 /\ outcome = "error"
      <4>1. \A s \in Services : o \notin OpsOf(upload[s].left)
        BY <1>1, <2>1, <3>2 DEF Undone, SentOnce
      <4> QED
        BY <1>b, <2>1, <3>2, <4>1 DEF o1
    <3> QED
      BY <1>8, <2>1, <3>1, <3>2
  <2>2. ASSUME NEW q \in Requests, Working(q)', handler'[q].step \in {"validate", "insert"},
               Current(q)' \notin doubted'
        PROVE  Current(q)' \notin stored'
    <3>1. q # r
      BY <1>2, <2>2
    <3>2. Current(q)' = Current(q) /\ Working(q) /\ handler[q].step = handler'[q].step
      BY <1>2, <2>2, <3>1 DEF Current, Working
    <3>3. Current(q) \notin doubted /\ Current(q) \notin stored
      BY <2>2, <3>2 DEF Undone, RefusedRest
    <3>4. Current(q) # o1
      BY <1>1, <3>1, <3>2, <3>3, OneTurnsToIt DEF Undone, o1
    <3> QED
      BY <3>2, <3>3, <3>4 DEF o1
  <2> QED
    BY <2>1, <2>2 DEF RefusedRest, OpsOf
<1> QED
  BY <1>6, <1>7, <1>9 DEF Undone

LEMMA HandlerKeepsUndone ==
  ASSUME Typed, Undone, NEW r \in Requests, HandlerStep(r) \/ StepFails(r)
  PROVE  Undone'
<1>1. Working(r) /\ queue' = queue /\ upload' = upload
  BY DEF HandlerStep, CheckDuplicate, ValidateApplication, ValidateDisbursement, Insert,
         InsertRefused, ReadBalance, WriteBalance, StepFails, At, tables
<1>2. {"processed", "conflict", "error"} \subseteq Outcomes
  BY DEF Outcomes
<1>3. handler[r].step \in {"validate", "insert"} /\ Current(r) \notin doubted
        => Current(r) \notin stored
  BY <1>1 DEF Undone, RefusedRest
<1>4. CASE CheckDuplicate(r)
  <2>1. stored' = stored /\ doubted' = doubted
    BY <1>4 DEF CheckDuplicate, tables, history
  <2>2. SameId(Current(r)) = {} => Current(r) \notin stored
    BY DEF SameId
  <2> QED
    BY <1>1, <1>2, <1>4, <2>1, <2>2, GoToKeepsUndone, ReportKeepsUndone DEF CheckDuplicate
<1>5. CASE ValidateApplication(r) \/ ValidateDisbursement(r)
  <2>1. /\ stored' = stored /\ doubted' = doubted
        /\ Current(r) \notin doubted' => Current(r) \notin stored'
    BY <1>3, <1>5 DEF ValidateApplication, ValidateDisbursement, At, tables, history
  <2>2. \/ Report(r, "conflict") \/ Report(r, "error")
        \/ \E amount : GoTo(r, "insert", amount)
    BY <1>5 DEF ValidateApplication, ValidateDisbursement
  <2>3. CASE Report(r, "conflict") \/ Report(r, "error")
    BY <1>1, <1>2, <2>1, <2>3, ReportKeepsUndone
  <2>4. ASSUME NEW amount, GoTo(r, "insert", amount) PROVE Undone'
    BY <1>1, <2>1, <2>4, GoToKeepsUndone
  <2> QED
    BY <2>2, <2>3, <2>4
<1>6. CASE Insert(r)
  <2>1. stored' = stored \cup {Current(r)} /\ doubted' = doubted
        /\ (GoTo(r, "readBalance", 0) \/ Report(r, "processed"))
    BY <1>6 DEF Insert
  <2> QED
    BY <1>1, <1>2, <2>1, GoToKeepsUndone, ReportKeepsUndone
<1>7. CASE InsertRefused(r)
  <2>1. /\ stored' = stored /\ doubted' = doubted /\ Report(r, "error")
        /\ Current(r) \notin doubted' => Current(r) \notin stored'
    BY <1>3, <1>7 DEF InsertRefused, At, tables, history
  <2> QED
    BY <1>1, <1>2, <2>1, ReportKeepsUndone
<1>8. CASE ReadBalance(r)
  <2>1. /\ stored' = stored /\ doubted' = doubted
        /\ GoTo(r, "writeBalance", balance[LoanOf[Current(r)]])
    BY <1>8 DEF ReadBalance, tables, history
  <2> QED
    BY <1>1, <2>1, GoToKeepsUndone
<1>9. CASE WriteBalance(r)
  <2>1. stored' = stored /\ doubted' = doubted /\ Report(r, "processed")
    BY <1>9 DEF WriteBalance
  <2> QED
    BY <1>1, <1>2, <2>1, ReportKeepsUndone
<1>10. CASE StepFails(r)
  <2>1. /\ stored' = stored /\ doubted' = doubted \cup ({Current(r)} \cap stored)
        /\ Report(r, "error")
    BY <1>10 DEF StepFails, tables
  <2>2. doubted \subseteq doubted' /\ (Current(r) \notin doubted' => Current(r) \notin stored')
    BY <2>1
  <2> QED
    BY <1>1, <1>2, <2>1, <2>2, ReportKeepsUndone
<1> QED
  BY <1>4, <1>5, <1>6, <1>7, <1>8, <1>9, <1>10 DEF HandlerStep

LEMMA UndoneStep ==
  ASSUME DistinctIds, Typed, Undone, [Next]_vars
  PROVE  Undone'
<1>1. Shape
  BY DEF Typed, RoutedShape
<1>2. ASSUME NEW o \in Operations, Record(o) PROVE Undone'
  BY <1>2, RecordEases, EasesKeepsUndone
<1>3. ASSUME NEW s \in Services, Phone(s) PROVE Undone'
  <2>1. ASSUME NEW r \in Requests, StartUpload(s, r) PROVE Undone'
    <3>1. AtHome
      BY DEF Undone
    <3>2. PICK rows \in Seq(ReadRowType) :
            /\ Send(s, r, rows) /\ RowsDistinct(rows)
            /\ \A o \in OpsOf(rows) :
                 o \in Operations /\ DeviceOf[o] = PhoneOf[s] /\ ~ GivenUp(o)
      BY <1>1, <2>1, <3>1, StartsWithOpenWork
    <3>3. upload[s].phase # "waiting"
      BY <2>1 DEF StartUpload
    <3> QED
      BY <3>2, <3>3, SendKeepsUndone
  <2>2. ASSUME NEW r \in Requests, NextBatch(s, r) PROVE Undone'
    <3> DEFINE rows == upload[s].left
    <3>1. rows \in Seq(ReadRowType) /\ Send(s, r, rows) /\ upload[s].phase # "waiting"
      BY <1>1, <2>2 DEF NextBatch, Shape
    <3>2. RowsDistinct(rows)
      BY DEF Undone, SentOnce
    <3>3. \A i \in DOMAIN rows : rows[i].op \in Operations
      <4> HIDE DEF rows
      <4>1. \A i \in DOMAIN rows : rows[i] \in ReadRowType
        BY <3>1
      <4> QED
        BY <4>1 DEF ReadRowType
    <3>4. ASSUME NEW o \in OpsOf(rows)
          PROVE  o \in Operations /\ DeviceOf[o] = PhoneOf[s]
      <4>1. o \in Operations
        BY <3>3 DEF OpsOf
      <4>2. DeviceOf[o] = PhoneOf[s]
        BY DEF Undone, AtHome
      <4> QED
        BY <4>1, <4>2
    <3>5. \A o \in OpsOf(rows) : o \notin doubted => ~ GivenUp(o)
      BY <3>4 DEF Undone, RefusedRest, Refused
    <3> HIDE DEF rows
    <3> QED
      BY <3>1, <3>2, <3>4, <3>5, SendKeepsUndone
  <2> QED
    BY <1>3, <2>1, <2>2, PhoneEases, EasesKeepsUndone DEF Phone
<1>4. ASSUME NEW r \in Requests, Server(r) PROVE Undone'
  BY <1>4, HandlerKeepsUndone, ServerEndEases, EasesKeepsUndone DEF Server
<1>5. CASE UNCHANGED vars \/ \E c \in OnlineCustomers : SubmitOnline(c)
  <2>1. queue' = queue /\ upload' = upload /\ handler' = handler /\ stored' = stored
        /\ doubted' = doubted
    BY <1>5 DEF vars, tables, SubmitOnline, history
  <2> QED
    BY <2>1, ResetEases, EasesKeepsUndone
<1> QED
  BY <1>2, <1>3, <1>4, <1>5 DEF Next

\* When the localIds are distinct, what a phone shows as failed for good was never
\* stored, however many SyncServices a phone has and requests the server works on at a
\* time, and whatever fails, unless the operation itself was sent while an earlier try
\* of it was under way or not booked, or a call failed for it after it was stored:
\* otherwise it is an error only when a call fails before it is stored or the
\* validation or the unique index refuses it (getFailedOperations,
\* processOperationQueue, _processUploadResults).
THEOREM GivenUpStaysOut ==
  ASSUME DistinctIds
  PROVE  Spec => []GivenUpIsNotStored
<1>1. Init => Undone
  <2>1. ASSUME Init
        PROVE  /\ \A o \in Operations : ~ Refused(o) /\ ~ InWork(o)
               /\ \A s \in Services : OpsOf(upload[s].left) = {} /\ OpsOf(upload[s].batch) = {}
               /\ \A r \in Requests : ~ Working(r)
    <3>1. /\ \A s \in Services : upload[s] = IdleUpload
          /\ \A r \in Requests : handler[r] = FreeHandler
          /\ \A o \in Operations : queue[DeviceOf[o]][o] = NoRow
      BY <2>1, OperationsAssumption DEF Init
    <3>2. \A o \in Operations : ~ GivenUp(o)
      BY <3>1 DEF GivenUp, Row, NoRow
    <3>3. \A o \in Operations : ~ Refused(o)
      BY <3>1, <3>2, NoErrors DEF Refused, IdleUpload, FreeHandler
    <3> QED
      BY <3>1, <3>3 DEF IdleUpload, FreeHandler, OpsOf, InWork, Working
  <2>2. ASSUME Init PROVE AtHome
    BY <2>1, <2>2 DEF Init, AtHome, OpenRowsAtHome, NoRow, IdleUpload
  <2>3. ASSUME Init PROVE SentOnce
    BY <2>1, <2>3 DEF Init, SentOnce, RowsDistinct, IdleUpload, FreeHandler
  <2>4. ASSUME Init PROVE RefusedRest
    BY <2>1, <2>4 DEF RefusedRest
  <2> QED
    BY <2>2, <2>3, <2>4 DEF Undone
<1>2. Typed /\ Undone /\ [Next]_vars => Undone'
  BY UndoneStep
<1>3. Undone => GivenUpIsNotStored
  BY DEF Undone, RefusedRest, Refused, GivenUpIsNotStored
<1> QED
  BY <1>1, <1>2, <1>3, TypedHolds, PTL DEF Spec

=============================================================================
