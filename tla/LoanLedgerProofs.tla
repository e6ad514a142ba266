-------------------------- MODULE LoanLedgerProofs --------------------------
(***************************************************************************)
(* What holds of a loan for any number of payments, requests, workers and  *)
(* periods and any amounts: when it is closed, what its fines add up to,   *)
(* that a report the owner holds is settled; then its money: every row has *)
(* its type, the balance is the debt less the live payments, and the parts *)
(* the payments are split into stay within the debt.                       *)
(***************************************************************************)
EXTENDS LoanLedger, SumTheorems

-----------------------------------------------------------------------------
(* What the steps rely on of the shape of the state.                       *)

Shape ==
  /\ balance \in Nat /\ finesTotal \in Nat /\ IsFiniteSet(fined)
  /\ amount \in [Payments -> Nat] /\ DOMAIN state = Payments
  /\ DOMAIN stage = Requests /\ DOMAIN held = Requests
  /\ DOMAIN period = Workers /\ DOMAIN seen = Workers
  /\ \A w \in Workers : seen[w].balance \in Nat /\ seen[w].fines \in Nat
  /\ DOMAIN outdated = Actors

\* What a request is about to write was computed to be no negative balance, and to
\* close the loan exactly if it leaves nothing to pay.
Computed(h) ==
  /\ stage[h] \in {"record", "void", "correct"} => held[h].balance >= 0
  /\ stage[h] \in {"record", "void", "gate", "check", "correct"} =>
       /\ held[h].balance \in Int /\ held[h].amount \in Nat
       /\ held[h].status = "CLOSED" <=> held[h].balance <= 0

\* A request that has looked at the report knows of it, unless it was sent since.
Informed ==
  \A h \in Requests :
    stage[h] \in {"void", "correct"} /\ WithOwner(report)
      => "report" \in outdated[h]

\* What a worker has read of the fines is what they are, unless another has written
\* a fine; it is no more than the fined periods account for in any case.
Current ==
  \A w \in Workers :
    period[w] # 0 => /\ seen[w].fines <= Fine * Cardinality(fined)
                     /\ "fines" \in outdated[w] \/ seen[w].fines = finesTotal

IInv ==
  /\ Shape
  /\ \A h \in Requests : Computed(h)
  /\ ClosedExactlyWhenPaid
  /\ Informed
  /\ Current
  /\ FinesAddUp

\* The constants, in the form the steps need them.
LEMMA Money ==
  /\ Amounts \subseteq Nat /\ Principal \in Nat \ {0} /\ Interest \in Nat
  /\ Fine \in Nat \ {0}
BY MoneyAssumption

LEMMA InvInit == Init => IInv
<1> SUFFICES ASSUME Init PROVE IInv
  OBVIOUS
<1>1. PICK a \in {0} \cup Amounts :
        /\ a < Principal + Interest /\ balance = Principal + Interest - a
        /\ loanStatus \in {"SUBMITTED", "CURRENT"}
        /\ amount = [p \in Payments |-> IF p = 1 THEN a ELSE 0]
        /\ DOMAIN state = Payments
  BY DEF Init
<1>2. a \in Nat
  BY <1>1, Money
<1>3. balance \in Nat /\ balance # 0 /\ amount \in [Payments -> Nat]
  BY <1>1, <1>2, Money
<1>4. IsFiniteSet(fined) /\ Cardinality(fined) = 0
  BY FS_EmptySet DEF Init
<1>5. Shape
  BY <1>1, <1>3, <1>4 DEF Init, Shape, NotSeen
<1>6. FinesAddUp
  BY <1>4, Money DEF Init, FinesAddUp
<1>7. (\A h \in Requests : Computed(h)) /\ Informed /\ Current
  BY DEF Init, Computed, Informed, Current
<1> QED
  BY <1>1, <1>3, <1>5, <1>6, <1>7 DEF IInv, ClosedExactlyWhenPaid

-----------------------------------------------------------------------------
(* Steps of a request.                                                     *)

\* A request that begins, goes on or ends touches neither the loan nor the others.
LEMMA Begun ==
  ASSUME Shape, NEW h \in Requests, NEW step, NEW what, Begin(h, step, what)
  PROVE  /\ stage'[h] = step /\ held'[h] = what
         /\ \A g \in Requests \ {h} : stage'[g] = stage[g] /\ held'[g] = held[g]
         /\ \A y \in Actors \ {h} : outdated'[y] = outdated[y]
         /\ DOMAIN stage' = Requests /\ DOMAIN held' = Requests
         /\ DOMAIN outdated' = Actors
BY DEF Shape, Begin, Actors

LEMMA Finished ==
  ASSUME Shape, NEW h \in Requests, Finish(h)
  PROVE  /\ stage'[h] = "idle"
         /\ \A g \in Requests \ {h} : stage'[g] = stage[g] /\ held'[g] = held[g]
         /\ DOMAIN stage' = Requests /\ DOMAIN held' = Requests
BY DEF Shape, Finish

LEMMA RequestStep ==
  ASSUME IInv, NEW h \in Requests,
         UNCHANGED <<loan, fined, rows, job, spoilt>>,
         DOMAIN stage' = Requests /\ DOMAIN held' = Requests /\ DOMAIN outdated' = Actors,
         \A g \in Requests \ {h} : stage'[g] = stage[g] /\ held'[g] = held[g],
         \A y \in Actors \ {h} : outdated'[y] = outdated[y],
         Computed(h)',
         WithOwner(report)' => WithOwner(report),
         stage'[h] \in {"void", "correct"} /\ WithOwner(report)'
           => "report" \in outdated'[h]
  PROVE  IInv'
<1>1. Shape'
  BY DEF IInv, Shape, loan, rows, job
<1>2. \A g \in Requests : Computed(g)'
  BY DEF IInv, Computed
<1>3. ClosedExactlyWhenPaid' /\ FinesAddUp'
  BY DEF IInv, ClosedExactlyWhenPaid, FinesAddUp, loan
<1>4. Informed'
  <2> SUFFICES ASSUME NEW g \in Requests, stage'[g] \in {"void", "correct"},
                      WithOwner(report)'
               PROVE  "report" \in outdated'[g]
    BY DEF Informed
  <2>1. CASE g = h
    BY <2>1
  <2>2. CASE g # h
    BY <2>2 DEF IInv, Informed, Actors
  <2> QED
    BY <2>1, <2>2
<1>5. Current'
  <2> SUFFICES ASSUME NEW w \in Workers, period'[w] # 0
               PROVE  /\ seen'[w].fines <= Fine * Cardinality(fined')
                      /\ "fines" \in outdated'[w] \/ seen'[w].fines = finesTotal'
    BY DEF Current
  <2>1. w \in Actors \ {h}
    BY ActorAssumption DEF Actors
  <2> QED
    BY <2>1 DEF IInv, Current, loan, job
<1> QED
  BY <1>1, <1>2, <1>3, <1>4, <1>5 DEF IInv

LEMMA StartRecordInv ==
  ASSUME IInv, NEW h \in Requests, NEW a \in Amounts, StartRecord(h, a)
  PROVE  IInv'
<1> DEFINE what == [payment |-> 0, request |-> 0, amount |-> a,
        parts |-> Allocate(a, Uncovered), balance |-> balance - a,
        status |-> IF balance - a <= 0 THEN "CLOSED"
                   ELSE IF loanStatus = "SUBMITTED" THEN "CURRENT"
                   ELSE loanStatus,
        officer |-> FALSE]
<1>1. Begin(h, "record", what)
  BY DEF StartRecord
<1>2. a \in Nat /\ balance \in Nat /\ a <= balance /\ loanStatus # "CLOSED"
  BY Money DEF StartRecord, IInv, Shape
<1>3. /\ what.balance = balance - a /\ what.amount = a
      /\ what.status = "CLOSED" <=> balance - a <= 0
  BY <1>2
<1> HIDE DEF what
<1>4. stage'[h] = "record" /\ held'[h] = what
  BY <1>1, Begun DEF IInv
<1>5. Computed(h)'
  BY <1>2, <1>3, <1>4 DEF Computed
<1> QED
  BY <1>1, <1>4, <1>5, Begun, RequestStep DEF StartRecord, IInv

\* The status a void or a correction gives the loan closes it if nothing is left.
LEMMA StatusForCloses ==
  ASSUME NEW bal \in Int, NEW old
  PROVE  StatusFor(bal, old) = "CLOSED" <=> bal <= 0
BY DEF StatusFor

LEMMA StartVoidInv ==
  ASSUME IInv, NEW h \in Requests, NEW p \in Payments, StartVoid(h, p)
  PROVE  IInv'
<1> DEFINE what == [payment |-> p, request |-> 0, amount |-> amount[p], parts |-> NoParts,
        balance |-> balance + amount[p],
        status |-> StatusFor(balance + amount[p], loanStatus), officer |-> FALSE]
<1>1. Begin(h, "void", what) /\ ~WithOwner(report) /\ report' = report
  BY DEF StartVoid
<1>2. amount[p] \in Nat /\ balance \in Nat /\ balance + amount[p] \in Nat
  BY DEF IInv, Shape
<1>3. /\ what.balance = balance + amount[p] /\ what.amount = amount[p]
      /\ what.status = "CLOSED" <=> balance + amount[p] <= 0
  BY <1>2, StatusForCloses
<1> HIDE DEF what
<1>4. stage'[h] = "void" /\ held'[h] = what
  BY <1>1, Begun DEF IInv
<1>5. Computed(h)'
  BY <1>2, <1>3, <1>4 DEF Computed
<1>6. ~WithOwner(report)'
  BY <1>1 DEF WithOwner
<1> QED
  BY <1>1, <1>4, <1>5, <1>6, Begun, RequestStep DEF StartVoid, IInv

LEMMA StartCorrectionInv ==
  ASSUME IInv, NEW h \in Requests, NEW p \in Payments, NEW c, NEW a \in Amounts,
         NEW officer, StartCorrection(h, p, c, a, officer)
  PROVE  IInv'
<1> DEFINE what == [payment |-> p, request |-> c, amount |-> a, parts |-> NoParts,
        balance |-> balance + amount[p] - a,
        status |-> StatusFor(balance + amount[p] - a, loanStatus),
        officer |-> officer]
<1>1. Begin(h, "gate", what) /\ report' = report
  BY DEF StartCorrection
<1>2. amount[p] \in Nat /\ balance \in Nat /\ a \in Nat
      /\ balance + amount[p] - a \in Int
  BY Money DEF IInv, Shape
<1>3. /\ what.balance = balance + amount[p] - a /\ what.amount = a
      /\ what.status = "CLOSED" <=> balance + amount[p] - a <= 0
  BY <1>2, StatusForCloses
<1> HIDE DEF what
<1>4. stage'[h] = "gate" /\ held'[h] = what
  BY <1>1, Begun DEF IInv
<1>5. Computed(h)'
  BY <1>2, <1>3, <1>4 DEF Computed
<1>6. WithOwner(report)' => WithOwner(report)
  BY <1>1 DEF WithOwner
<1> QED
  BY <1>1, <1>4, <1>5, <1>6, Begun, RequestStep DEF StartCorrection, IInv

\* The gate lets a request through to a day the owner does not hold: either it was not
\* with the owner, or it is returned here.
LEMMA GateInv ==
  ASSUME IInv, NEW h \in Requests, Gate(h) \/ CheckRequest(h)
  PROVE  IInv'
<1>1. /\ stage' = [stage EXCEPT ![h] = stage'[h]]
      /\ held' = held /\ outdated' = outdated
  BY DEF Gate, CheckRequest, IInv, Shape
<1>2. DOMAIN stage' = Requests /\ \A g \in Requests \ {h} : stage'[g] = stage[g]
  BY <1>1 DEF IInv, Shape
<1>3. CASE Gate(h)
  <2>1. stage[h] = "gate" /\ stage'[h] = "check"
    BY <1>3 DEF Gate, IInv, Shape
  <2>2. Computed(h)'
    BY <1>1, <2>1 DEF IInv, Computed
  <2>3. ~WithOwner(report)'
    BY <1>3 DEF Gate, Reopened, WithOwner
  <2> QED
    BY <1>1, <1>2, <1>3, <2>2, <2>3, RequestStep DEF Gate, IInv, Shape
<1>4. CASE CheckRequest(h)
  <2>1. stage[h] = "check" /\ stage'[h] = "correct" /\ held[h].balance >= 0
        /\ report' = Reopened
    BY <1>4 DEF CheckRequest, IInv, Shape
  <2>2. Computed(h)'
    BY <1>1, <2>1 DEF IInv, Computed
  <2>3. ~WithOwner(report)'
    BY <2>1 DEF Reopened, WithOwner
  <2> QED
    BY <1>1, <1>2, <1>4, <2>2, <2>3, RequestStep DEF CheckRequest, IInv, Shape
<1> QED
  BY <1>3, <1>4

\* Steps that end a request without writing the loan, and those about a request for
\* a correction.
LEMMA ReviewInv ==
  ASSUME IInv, NEW h \in Requests, NEW c,
         \/ Stop(h) \/ CommitReview(h) \/ ReturnReport(h) \/ Authorize(h, c)
         \/ \E decision, canEdit : StartReview(h, c, decision, canEdit)
  PROVE  IInv'
<1>1. UNCHANGED <<loan, fined, rows, job, spoilt>>
  BY DEF Stop, CommitReview, ReturnReport, Authorize, StartReview
<1>2. WithOwner(report)' => WithOwner(report)
  BY DEF Stop, CommitReview, ReturnReport, Authorize, StartReview, WithOwner
<1>3. CASE Stop(h) \/ CommitReview(h) \/ ReturnReport(h)
  <2>1. Finish(h) /\ outdated' = [outdated EXCEPT ![h] = {}]
    BY <1>3 DEF Stop, CommitReview, ReturnReport
  <2>2. DOMAIN outdated' = Actors /\ \A y \in Actors \ {h} : outdated'[y] = outdated[y]
    BY <2>1 DEF IInv, Shape
  <2>3. stage'[h] = "idle" /\ Computed(h)'
    BY <2>1, Finished DEF IInv, Computed
  <2> QED
    BY <1>1, <1>2, <2>1, <2>2, <2>3, Finished, RequestStep DEF IInv
<1>4. ASSUME NEW step \in {"return", "review"}, NEW what, Begin(h, step, what)
      PROVE  IInv'
  <2>1. stage'[h] = step /\ Computed(h)'
    BY <1>4, Begun DEF IInv, Computed
  <2> QED
    BY <1>1, <1>2, <1>4, <2>1, Begun, RequestStep DEF IInv
<1> QED
  BY <1>3, <1>4 DEF Authorize, StartReview

-----------------------------------------------------------------------------
(* Steps that write the loan.                                              *)

\* Whoever goes by an older reading of the loan is outdated afterwards.
LEMMA Written ==
  ASSUME Shape, NEW x \in Actors, NEW bal, NEW st, NEW what,
         what \in {"payments", "fines"}, WriteLoan(x, bal, st, what)
  PROVE  /\ balance' = bal /\ loanStatus' = st
         /\ DOMAIN outdated' = Actors
         /\ \A y \in Actors \ {x} : outdated[y] \subseteq outdated'[y]
         /\ \A w \in Workers \ {x} : period[w] # 0 => what \in outdated'[w]
BY DEF WriteLoan, Outdate, ReliesOn, Actors

\* A request writes what it computed, and ends.
LEMMA RequestWrites ==
  ASSUME IInv, NEW h \in Requests, stage[h] \in {"record", "void", "correct"},
         WriteLoan(h, held[h].balance, held[h].status, "payments"), Finish(h),
         amount' \in [Payments -> Nat], DOMAIN state' = Payments,
         "fines" \in spoilt' <=> "fines" \in spoilt,
         UNCHANGED <<report, finesTotal, fined, job>>
  PROVE  IInv'
<1>1. h \in Actors \ Workers /\ Shape
  BY ActorAssumption DEF Actors, IInv
<1>2. /\ held[h].balance \in Int /\ held[h].balance >= 0
      /\ held[h].status = "CLOSED" <=> held[h].balance <= 0
  BY DEF IInv, Computed
<1>3. Shape'
  BY <1>1, <1>2, Written, Finished DEF Shape, job
<1>4. ClosedExactlyWhenPaid'
  BY <1>1, <1>2, Written DEF ClosedExactlyWhenPaid
<1>5. \A g \in Requests : Computed(g)'
  BY <1>1, Finished DEF IInv, Computed
<1>6. Informed'
  BY <1>1, Finished, Written DEF IInv, Informed, WithOwner, Actors
<1>7. Current'
  <2>1. \A w \in Workers : outdated[w] \subseteq outdated'[w]
    BY <1>1, Written DEF Actors
  <2> QED
    BY <2>1 DEF IInv, Current, job
<1>8. FinesAddUp'
  BY DEF IInv, FinesAddUp
<1> QED
  BY <1>3, <1>4, <1>5, <1>6, <1>7, <1>8 DEF IInv

LEMMA CommitInv ==
  ASSUME IInv, NEW h \in Requests,
         CommitRecord(h) \/ CommitVoid(h) \/ CommitCorrection(h)
  PROVE  IInv'
<1>1. amount \in [Payments -> Nat] /\ DOMAIN state = Payments
  BY DEF IInv, Shape
<1>2. CASE CommitRecord(h)
  <2>1. held[h].amount \in Nat /\ stage[h] = "record"
    BY <1>2 DEF CommitRecord, IInv, Computed
  <2>2. PICK p \in Payments :
          /\ state' = [state EXCEPT ![p] = "live"]
          /\ amount' = [amount EXCEPT ![p] = held[h].amount]
    BY <1>2 DEF CommitRecord
  <2>3. amount' \in [Payments -> Nat] /\ DOMAIN state' = Payments
    BY <1>1, <2>1, <2>2
  <2> QED
    BY <1>2, <2>1, <2>3, RequestWrites DEF CommitRecord, Spoils
<1>3. CASE CommitVoid(h)
  <2>1. amount' \in [Payments -> Nat] /\ DOMAIN state' = Payments
    BY <1>1, <1>3 DEF CommitVoid
  <2> QED
    BY <1>3, <2>1, RequestWrites DEF CommitVoid, Spoils
<1>4. CASE CommitCorrection(h)
  <2>1. held[h].amount \in Nat /\ stage[h] = "correct"
    BY <1>4 DEF CommitCorrection, IInv, Computed
  <2>2. amount' = [amount EXCEPT ![held[h].payment] = held[h].amount] /\ state' = state
    BY <1>4 DEF CommitCorrection
  <2>3. amount' \in [Payments -> Nat] /\ DOMAIN state' = Payments
    BY <1>1, <2>1, <2>2
  <2> QED
    BY <1>4, <2>1, <2>3, RequestWrites DEF CommitCorrection, Spoils
<1> QED
  BY <1>2, <1>3, <1>4

\* A fine is added to the fines as they are, or to outdated ones.
LEMMA ApplyFineInv ==
  ASSUME IInv, NEW w \in Workers, ApplyFine(w)
  PROVE  IInv'
<1>1. w \in Actors \ Requests /\ Shape
  BY ActorAssumption DEF Actors, IInv
<1>2. /\ WriteLoan(w, seen[w].balance + Fine, "IN_ARREARS", "fines") /\ NextPeriod(w)
      /\ period[w] # 0 /\ period[w] \notin fined /\ fined' = fined \cup {period[w]}
      /\ finesTotal' = seen[w].fines + Fine
      /\ UNCHANGED <<report, rows, work>>
  BY DEF ApplyFine
<1>3. /\ seen[w].balance \in Nat /\ seen[w].fines \in Nat /\ Fine \in Nat \ {0}
  BY <1>1, Money DEF Shape
<1>4. /\ balance' = seen[w].balance + Fine /\ loanStatus' = "IN_ARREARS"
  BY <1>1, <1>2, Written
<1>5. /\ DOMAIN period' = Workers /\ DOMAIN seen' = Workers /\ period'[w] = 0
      /\ \A v \in Workers : seen'[v] = seen[v] \/ seen'[v] = NotSeen
      /\ \A v \in Workers \ {w} : period'[v] = period[v]
  BY <1>1, <1>2 DEF NextPeriod, Shape
<1>6. IsFiniteSet(fined') /\ Cardinality(fined') = Cardinality(fined) + 1
      /\ Cardinality(fined) \in Nat
  BY <1>1, <1>2, FS_AddElement, FS_CardinalityType DEF Shape
<1>7. Shape'
  <2>1. balance' \in Nat /\ finesTotal' \in Nat
    BY <1>2, <1>3, <1>4
  <2>2. \A v \in Workers : seen'[v].balance \in Nat /\ seen'[v].fines \in Nat
    BY <1>1, <1>5 DEF Shape, NotSeen
  <2>3. DOMAIN outdated' = Actors
    BY <1>1, <1>2, Written
  <2> QED
    BY <1>1, <1>2, <1>5, <1>6, <2>1, <2>2, <2>3 DEF Shape, rows, work
<1>8. ClosedExactlyWhenPaid'
  BY <1>3, <1>4 DEF ClosedExactlyWhenPaid
<1>9. (\A h \in Requests : Computed(h)') /\ Informed'
  <2>1. stage' = stage /\ held' = held /\ report' = report
    BY <1>2 DEF work
  <2>2. \A h \in Requests : "report" \in outdated[h] => "report" \in outdated'[h]
    BY <1>1, <1>2, Written DEF Actors
  <2> QED
    BY <2>1, <2>2 DEF IInv, Computed, Informed, WithOwner
<1>10. Fine * Cardinality(fined') = Fine * Cardinality(fined) + Fine
       /\ Fine * Cardinality(fined) \in Nat
  BY <1>3, <1>6
<1>11. Current'
  <2>1. \A v \in Workers \ {w} : period[v] # 0 => "fines" \in outdated'[v]
    BY <1>1, <1>2, Written
  <2>2. \A v \in Workers : period[v] # 0 => seen[v].fines <= Fine * Cardinality(fined)
                                           /\ seen[v].fines \in Nat
    BY DEF IInv, Current, Shape
  <2>3. ASSUME NEW v \in Workers, period'[v] # 0
        PROVE  /\ seen'[v].fines <= Fine * Cardinality(fined')
               /\ "fines" \in outdated'[v]
    <3>1. v # w /\ period[v] # 0 /\ seen'[v] = seen[v]
      BY <1>1, <1>2, <1>5, <2>3 DEF NextPeriod, Shape
    <3> QED
      BY <1>3, <1>10, <2>1, <2>2, <3>1
  <2> QED
    BY <2>3 DEF Current
<1>12. FinesAddUp'
  <2>1. seen[w].fines <= Fine * Cardinality(fined)
    BY <1>2 DEF IInv, Current
  <2>2. finesTotal' <= Fine * Cardinality(fined')
    BY <1>2, <1>3, <1>10, <2>1
  <2>3. ASSUME "fines" \notin spoilt' PROVE finesTotal' = Fine * Cardinality(fined')
    <3>1. "fines" \notin spoilt /\ "fines" \notin outdated[w]
      BY <2>3 DEF ApplyFine
    <3>2. seen[w].fines = Fine * Cardinality(fined)
      BY <1>2, <3>1 DEF IInv, Current, FinesAddUp
    <3> QED
      BY <1>2, <1>3, <1>10, <3>2
  <2> QED
    BY <2>2, <2>3 DEF FinesAddUp
<1> QED
  BY <1>7, <1>8, <1>9, <1>11, <1>12 DEF IInv

-----------------------------------------------------------------------------
(* Steps of a worker that write nothing, the calendar and the report.      *)

LEMMA WorkerInv ==
  ASSUME IInv, NEW w \in Workers,
         \/ \E n \in Periods : StartFines(w, n)
         \/ ReadForFine(w) \/ FineFails(w) \/ JobDies(w)
  PROVE  IInv'
<1>1. /\ UNCHANGED <<report, loan, fined, rows, stage, held, spoilt>>
      /\ w \in Actors \ Requests /\ Shape
  BY ActorAssumption DEF StartFines, ReadForFine, FineFails, JobDies, Actors, IInv, work
<1>2. /\ DOMAIN period' = Workers /\ DOMAIN seen' = Workers /\ DOMAIN outdated' = Actors
      /\ \A v \in Workers : \/ seen'[v] = seen[v] \/ seen'[v] = NotSeen
                            \/ seen'[v] = [balance |-> balance, fines |-> finesTotal]
      /\ \A y \in Actors \ {w} : outdated'[y] = outdated[y]
  BY <1>1 DEF StartFines, ReadForFine, FineFails, JobDies, NextPeriod, Shape
<1>3. Shape'
  <2>1. \A v \in Workers : seen'[v].balance \in Nat /\ seen'[v].fines \in Nat
    BY <1>1, <1>2 DEF Shape, NotSeen
  <2> QED
    BY <1>1, <1>2, <2>1 DEF Shape, loan, rows
<1>4. (\A h \in Requests : Computed(h)') /\ Informed'
  <2>1. stage' = stage /\ held' = held /\ report' = report
    BY <1>1 DEF work
  <2>2. \A h \in Requests : outdated'[h] = outdated[h]
    BY <1>1, <1>2 DEF Actors
  <2> QED
    BY <2>1, <2>2 DEF IInv, Computed, Informed, WithOwner
<1>5. ClosedExactlyWhenPaid' /\ FinesAddUp'
  BY <1>1 DEF IInv, ClosedExactlyWhenPaid, FinesAddUp, loan
<1>6. Current'
  <2>1. \A v \in Workers \ {w} : period'[v] = period[v] /\ seen'[v] = seen[v]
                                /\ outdated'[v] = outdated[v]
    BY <1>1, <1>2 DEF StartFines, ReadForFine, FineFails, JobDies, NextPeriod, Shape, Actors
  <2>2. period'[w] # 0 =>
          \/ seen'[w].fines = finesTotal
          \/ seen'[w] = seen[w] /\ outdated'[w] = outdated[w] /\ period[w] # 0
    <3>1. CASE ReadForFine(w)
      <4>1. CASE UNCHANGED <<period, seen, outdated>>
        BY <4>1
      <4>2. CASE seen' = [seen EXCEPT ![w] = [balance |-> balance, fines |-> finesTotal]]
        BY <4>2, <1>1 DEF Shape
      <4> QED
        BY <3>1, <4>1, <4>2 DEF ReadForFine
    <3>2. CASE (\E n \in Periods : StartFines(w, n)) \/ FineFails(w) \/ JobDies(w)
      BY <3>2, <1>1 DEF StartFines, FineFails, JobDies, NextPeriod, Shape
    <3> QED
      BY <3>1, <3>2
  <2>3. finesTotal' = finesTotal /\ finesTotal <= Fine * Cardinality(fined)
    BY <1>1 DEF loan, IInv, FinesAddUp
  <2> QED
    BY <1>1, <2>1, <2>2, <2>3 DEF IInv, Current
<1> QED
  BY <1>3, <1>4, <1>5, <1>6 DEF IInv

LEMMA OtherInv ==
  ASSUME IInv,
         \/ DayPasses \/ ReportMoves \/ (\E p \in Payments : CreateRequest(p))
         \/ UNCHANGED vars
  PROVE  IInv'
<1>1. UNCHANGED <<loan, fined, rows, work, job, spoilt>>
  BY DEF DayPasses, ReportMoves, CreateRequest, vars
<1>2. /\ DOMAIN outdated' = Actors
      /\ \A y \in Actors : outdated[y] \subseteq outdated'[y]
      /\ \A h \in Requests : stage[h] \in {"void", "correct"} /\ WithOwner(report)'
           => WithOwner(report) \/ "report" \in outdated'[h]
  <2>1. CASE ReportMoves
    BY <2>1, ActorAssumption DEF ReportMoves, ReliesOn, Actors
  <2>2. CASE DayPasses \/ (\E p \in Payments : CreateRequest(p)) \/ UNCHANGED vars
    BY <2>2 DEF DayPasses, CreateRequest, vars, WithOwner, IInv, Shape
  <2> QED
    BY <2>1, <2>2
<1>3. Shape' /\ ClosedExactlyWhenPaid' /\ FinesAddUp'
  BY <1>1, <1>2 DEF IInv, Shape, ClosedExactlyWhenPaid, FinesAddUp, loan, rows, work, job
<1>4. (\A h \in Requests : Computed(h)')
  BY <1>1 DEF IInv, Computed, work
<1>5. Informed' /\ Current'
  BY <1>1, <1>2 DEF IInv, Informed, Current, work, job, loan, Actors
<1> QED
  BY <1>3, <1>4, <1>5 DEF IInv

LEMMA InvStep == IInv /\ [Next]_vars => IInv'
<1> SUFFICES ASSUME IInv, [Next]_vars PROVE IInv'
  OBVIOUS
<1>1. ASSUME NEW h \in Requests,
             \/ \E a \in Amounts : StartRecord(h, a)
             \/ \E p \in Payments : StartVoid(h, p)
             \/ \E p \in Payments, c \in 0..MaxCorrections, a \in Amounts,
                  officer \in BOOLEAN : StartCorrection(h, p, c, a, officer)
      PROVE  IInv'
  BY <1>1, StartRecordInv, StartVoidInv, StartCorrectionInv
<1>2. ASSUME NEW h \in Requests,
             \/ \E c \in Corrections, canEdit \in BOOLEAN :
                  StartReview(h, c, "APPROVED", canEdit)
             \/ \E c \in Corrections : StartReview(h, c, "REJECTED", FALSE)
             \/ \E c \in Corrections : Authorize(h, c)
             \/ CommitReview(h) \/ ReturnReport(h) \/ Stop(h)
      PROVE  IInv'
  BY <1>2, ReviewInv
<1> QED
  BY <1>1, <1>2, GateInv, CommitInv, ApplyFineInv, WorkerInv, OtherInv DEF Next

THEOREM Invariance == Spec => []IInv
BY InvInit, InvStep, PTL DEF Spec

\* Payments, voids, corrections and fines in any interleaving leave a loan closed
\* exactly when it owes nothing, for every amount and any number of them
\* (recordRepayment, voidRepayment, applyRepaymentCorrection, applyFinePeriod).
THEOREM LoanClosesWhenPaid == Spec => []ClosedExactlyWhenPaid
<1>1. IInv => ClosedExactlyWhenPaid
  BY DEF IInv
<1> QED
  BY <1>1, Invariance, PTL

\* The unique index and the second reading of the loan keep the total of the fines from
\* exceeding what the fined periods add up to, for any number of runs of the job at
\* once; it is less only after two runs fined two periods from the same reading
\* (LoanFinesService).
THEOREM FinesMatchTheirTotal == Spec => []FinesAddUp
<1>1. IInv => FinesAddUp
  BY DEF IInv
<1> QED
  BY <1>1, Invariance, PTL

\* A payment of a day the owner holds changes only at the hands of a request that had
\* looked at the report for the last time before it was sent
\* (assertRepaymentOpenForCorrection, which a correction passes twice).
THEOREM OwnersReportIsSettled == Spec => ReportWithOwnerIsSettled
<1>1. IInv /\ [Next]_vars =>
        [\A p \in Payments :
           state[p] # "none" /\ <<amount, state>>' # <<amount, state>>
             /\ <<amount[p], state[p]>>' # <<amount[p], state[p]>> /\ WithOwner(report)
           => \E h \in Requests : held[h].payment = p /\ "report" \in outdated[h]]_vars
  <2> SUFFICES ASSUME IInv, Next, NEW p \in Payments, state[p] # "none",
                      <<amount[p], state[p]>>' # <<amount[p], state[p]>>, WithOwner(report)
               PROVE  \E h \in Requests : held[h].payment = p /\ "report" \in outdated[h]
    OBVIOUS
  <2>1. amount \in [Payments -> Nat] /\ DOMAIN state = Payments
    BY DEF IInv, Shape
  <2>2. \E h \in Requests : CommitRecord(h) \/ CommitVoid(h) \/ CommitCorrection(h)
    BY DEF Next, DayPasses, ReportMoves, CreateRequest, StartRecord, StartVoid,
           StartCorrection, StartReview, Authorize, Gate, CheckRequest, CommitReview,
           ReturnReport, Stop, StartFines, ReadForFine, ApplyFine, FineFails, JobDies, rows
  <2>3. ASSUME NEW h \in Requests, CommitRecord(h) PROVE FALSE
    <3>1. PICK q \in Payments :
            /\ state[q] = "none" /\ state' = [state EXCEPT ![q] = "live"]
            /\ amount' = [amount EXCEPT ![q] = held[h].amount]
      BY <2>3 DEF CommitRecord
    <3> QED
      BY <2>1, <3>1
  <2>4. PICK h \in Requests : CommitVoid(h) \/ CommitCorrection(h)
    BY <2>2, <2>3
  <2>5. stage[h] \in {"void", "correct"}
    BY <2>4 DEF CommitVoid, CommitCorrection
  <2>6. held[h].payment = p
    BY <2>1, <2>4 DEF CommitVoid, CommitCorrection
  <2> QED
    BY <2>5, <2>6 DEF IInv, Informed
<1> QED
  BY <1>1, Invariance, PTL DEF Spec, ReportWithOwnerIsSettled

-----------------------------------------------------------------------------
(* Splitting payments into parts.                                          *)

LEMMA MaxWithZero ==
  ASSUME NEW x \in Int
  PROVE  /\ Max({0, x}) \in Nat /\ Max({0, x}) >= x
         /\ Max({0, x}) = IF x >= 0 THEN x ELSE 0
BY DEF Max

\* The parts of a payment are within what is left of each and within the amount.
LEMMA AllocateParts ==
  ASSUME NEW a \in Nat, NEW rest \in Parts
  PROVE  LET parts == Allocate(a, rest)
         IN  /\ parts \in Parts
             /\ parts.fees <= rest.fees /\ parts.interest <= rest.interest
             /\ parts.principal <= rest.principal
             /\ parts.fees + parts.interest + parts.principal <= a
             /\ Less(rest, parts) \in Parts
<1> DEFINE parts == Allocate(a, rest)
           rem == Less(rest, parts)
<1>1. rest.fees \in Nat /\ rest.interest \in Nat /\ rest.principal \in Nat
  BY DEF Parts
<1>2. /\ parts.fees = Lesser(a, rest.fees)
      /\ parts.interest = Lesser(a - parts.fees, rest.interest)
      /\ parts.principal = Lesser(a - parts.fees - parts.interest, rest.principal)
      /\ parts = [fees |-> parts.fees, interest |-> parts.interest,
                  principal |-> parts.principal]
  BY DEF Allocate
<1>3. /\ rem = [fees |-> rem.fees, interest |-> rem.interest, principal |-> rem.principal]
      /\ rem.fees = rest.fees - parts.fees
      /\ rem.interest = rest.interest - parts.interest
      /\ rem.principal = rest.principal - parts.principal
  BY DEF Less
<1> HIDE DEF parts, rem
<1>4. parts.fees \in Nat /\ parts.fees <= rest.fees /\ parts.fees <= a
  BY <1>1, <1>2 DEF Lesser
<1>5. /\ parts.interest \in Nat /\ parts.interest <= rest.interest
      /\ parts.interest <= a - parts.fees
  BY <1>1, <1>2, <1>4 DEF Lesser
<1>6. /\ parts.principal \in Nat /\ parts.principal <= rest.principal
      /\ parts.principal <= a - parts.fees - parts.interest
  BY <1>1, <1>2, <1>4, <1>5 DEF Lesser
<1>7. parts \in Parts
  BY <1>2, <1>4, <1>5, <1>6 DEF Parts
<1>8. rem \in Parts
  <2>1. rem.fees \in Nat /\ rem.interest \in Nat /\ rem.principal \in Nat
    BY <1>1, <1>3, <1>4, <1>5, <1>6
  <2> QED
    BY <1>3, <2>1 DEF Parts
<1> QED
  BY <1>4, <1>5, <1>6, <1>7, <1>8 DEF parts, rem

LEMMA DebtIsParts ==
  ASSUME finesTotal \in Nat
  PROVE  Debt \in Parts
BY Money DEF Debt, Parts

\* The function g takes the payments of S with the amounts amt off a debt.
Rest(g, S, amt, D) ==
  g = [p \in D |->
         IF p = 0 THEN Debt
         ELSE IF p \in S THEN Less(g[p - 1], Allocate(amt[p], g[p - 1]))
         ELSE g[p - 1]]

LEMMA RestExists ==
  ASSUME NEW S, NEW amt
  PROVE  \E g : Rest(g, S, amt, 0..MaxPayments)
<1> DEFINE Without == {n \in Nat : ~ \E g : Rest(g, S, amt, 0..n)}
<1>1. Rest([p \in {0} |-> Debt], S, amt, 0..0)
  <2>1. 0..0 = {0}
    OBVIOUS
  <2> QED
    BY <2>1 DEF Rest
<1>2. ASSUME NEW n \in Nat, NEW g, Rest(g, S, amt, 0..n)
      PROVE  \E h : Rest(h, S, amt, 0..(n + 1))
  <2> DEFINE h == [p \in 0..(n + 1) |->
                     IF p = 0 THEN Debt
                     ELSE IF p \in S THEN Less(g[p - 1], Allocate(amt[p], g[p - 1]))
                     ELSE g[p - 1]]
  <2>1. ASSUME NEW p \in 0..n PROVE h[p] = g[p]
    <3>1. g[p] = IF p = 0 THEN Debt
                 ELSE IF p \in S THEN Less(g[p - 1], Allocate(amt[p], g[p - 1]))
                 ELSE g[p - 1]
      BY <1>2 DEF Rest
    <3> QED
      BY <3>1
  <2>2. \A p \in 0..(n + 1) : p # 0 => p - 1 \in 0..n
    OBVIOUS
  <2>3. Rest(h, S, amt, 0..(n + 1))
    BY <2>1, <2>2 DEF Rest
  <2> QED
    BY <2>3
<1>3. Without = {}
  <2> SUFFICES ASSUME Without # {} PROVE FALSE
    OBVIOUS
  <2>1. PICK n \in Without : \A m \in Without : n <= m
    <3>1. Without \in SUBSET Nat
      OBVIOUS
    <3> HIDE DEF Without
    <3> QED
      BY <3>1, LeastNumber
  <2>2. n # 0
    BY <1>1, <2>1
  <2>3. n - 1 \in Nat /\ n - 1 \notin Without
    BY <2>1, <2>2
  <2>4. \E g : Rest(g, S, amt, 0..((n - 1) + 1))
    BY <1>2, <2>3
  <2>5. (n - 1) + 1 = n
    BY <2>1
  <2> QED
    BY <2>1, <2>4, <2>5
<1>4. MaxPayments \in Nat
  BY BoundAssumption
<1> QED
  BY <1>3, <1>4

LEMMA RebuiltUnfolds ==
  ASSUME NEW S, NEW amt
  PROVE  \E g : /\ Rest(g, S, amt, 0..MaxPayments)
                /\ Rebuilt(S, amt) = [p \in Payments |->
                     IF p \in S THEN Allocate(amt[p], g[p - 1]) ELSE alloc[p]]
<1> DEFINE g == CHOOSE k : Rest(k, S, amt, 0..MaxPayments)
<1>1. Rest(g, S, amt, 0..MaxPayments)
  BY RestExists
<1>2. Rebuilt(S, amt) = [p \in Payments |->
                     IF p \in S THEN Allocate(amt[p], g[p - 1]) ELSE alloc[p]]
  BY DEF Rebuilt, Rest
<1> HIDE DEF g
<1> QED
  BY <1>1, <1>2

\* A debt is never overdrawn.
LEMMA RestIsParts ==
  ASSUME finesTotal \in Nat, NEW S, NEW amt \in [Payments -> Nat],
         NEW g, Rest(g, S, amt, 0..MaxPayments)
  PROVE  \A p \in 0..MaxPayments : g[p] \in Parts
<1> DEFINE Bad == {p \in 0..MaxPayments : g[p] \notin Parts}
<1>1. MaxPayments \in Nat
  BY BoundAssumption
<1>2. \A p \in 0..MaxPayments :
        g[p] = IF p = 0 THEN Debt
               ELSE IF p \in S THEN Less(g[p - 1], Allocate(amt[p], g[p - 1]))
               ELSE g[p - 1]
  BY DEF Rest
<1>3. ASSUME NEW p \in Bad, \A q \in Bad : p <= q
      PROVE  FALSE
  <2>1. p # 0
    BY <1>1, <1>2, <1>3, DebtIsParts
  <2>2. p \in Payments /\ p - 1 \in 0..MaxPayments
    BY <1>1, <1>3, <2>1 DEF Payments
  <2>3. p - 1 \notin Bad
    BY <1>3, <2>2
  <2>4. g[p - 1] \in Parts /\ amt[p] \in Nat
    BY <2>2, <2>3
  <2>5. Less(g[p - 1], Allocate(amt[p], g[p - 1])) \in Parts
    BY <2>4, AllocateParts
  <2> QED
    BY <1>2, <2>1, <2>4, <2>5
<1>4. Bad \in SUBSET Nat
  BY <1>1
<1>5. Bad = {}
  <2> HIDE DEF Bad
  <2> QED
    BY <1>3, <1>4, LeastNumber
<1> QED
  BY <1>5

\* Those of a set of payments that come no later than m.
Before(S, m) == {p \in S : p <= m}

\* What is taken off step by step is what has gone in the end.
LEMMA TakenOff ==
  ASSUME NEW n \in Nat, NEW S \in SUBSET (1..n),
         NEW rest \in [0..n -> Nat], NEW part \in [1..n -> Nat],
         \A p \in 1..n : rest[p] = IF p \in S THEN rest[p - 1] - part[p] ELSE rest[p - 1]
  PROVE  SumFunctionOnSet(part, S) = rest[0] - rest[n]
<1> DEFINE Bad == {m \in 0..n : SumFunctionOnSet(part, Before(S, m)) # rest[0] - rest[m]}
<1>1. /\ Before(S, 0) = {} /\ Before(S, n) = S
      /\ \A m \in 1..n : Before(S, m) = IF m \in S THEN Before(S, m - 1) \cup {m}
                                        ELSE Before(S, m - 1)
      /\ \A m \in 1..n : m \notin Before(S, m - 1)
  <2>1. Before(S, 0) = {} /\ Before(S, n) = S
    <3>1. \A p \in S : p <= n /\ ~ (p <= 0)
      OBVIOUS
    <3> QED
      BY <3>1 DEF Before
  <2>2. ASSUME NEW m \in 1..n
        PROVE  /\ m \notin Before(S, m - 1)
               /\ m \in S => Before(S, m) = Before(S, m - 1) \cup {m}
               /\ m \notin S => Before(S, m) = Before(S, m - 1)
    <3>1. \A p \in S : p <= m <=> p <= m - 1 \/ p = m
      OBVIOUS
    <3>2. ~ (m <= m - 1)
      OBVIOUS
    <3> QED
      BY <3>1, <3>2 DEF Before
  <2> QED
    BY <2>1, <2>2
<1>2. \A m \in 0..n : Before(S, m) \in SUBSET (1..n) /\ IsFiniteSet(Before(S, m))
  <2>1. \A m \in 0..n : Before(S, m) \in SUBSET (1..n)
    BY DEF Before
  <2>2. IsFiniteSet(1..n)
    BY FS_Interval
  <2> QED
    BY <2>1, <2>2, FS_Subset
<1>3. rest[0] \in Nat
  OBVIOUS
<1>4. ASSUME NEW m \in Bad, \A k \in Bad : m <= k
      PROVE  FALSE
  <2>1. m # 0
    <3>1. SumFunctionOnSet(part, Before(S, 0)) = 0
      BY <1>1, SumEmpty
    <3> QED
      BY <1>3, <1>4, <3>1
  <2>2. m \in 1..n /\ m - 1 \in 0..n /\ m - 1 \notin Bad
    BY <2>1, <1>4
  <2>3. SumFunctionOnSet(part, Before(S, m - 1)) = rest[0] - rest[m - 1]
    BY <2>2
  <2>4. rest[m - 1] \in Nat /\ rest[m] \in Nat /\ part[m] \in Nat
    BY <2>2
  <2>5. CASE m \in S
    <3>1. SumFunctionOnSet(part, Before(S, m)) = SumFunctionOnSet(part, Before(S, m - 1)) + part[m]
      <4>1. \A y \in Before(S, m - 1) \cup {m} : part[y] \in Int
        BY <1>2, <2>2
      <4> QED
        BY <1>1, <1>2, <2>2, <2>5, <4>1, SumPutIn
    <3>2. rest[m] = rest[m - 1] - part[m]
      BY <2>2, <2>5
    <3> QED
      BY <1>3, <1>4, <2>3, <2>4, <3>1, <3>2
  <2>6. CASE m \notin S
    <3>1. Before(S, m) = Before(S, m - 1) /\ rest[m] = rest[m - 1]
      BY <1>1, <2>2, <2>6
    <3> QED
      BY <1>4, <2>3, <3>1
  <2> QED
    BY <2>5, <2>6
<1>5. Bad \in SUBSET Nat
  OBVIOUS
<1>6. Bad = {}
  <2> HIDE DEF Bad
  <2> QED
    BY <1>4, <1>5, LeastNumber
<1>7. n \in 0..n
  OBVIOUS
<1> QED
  BY <1>1, <1>6, <1>7

\* Rebuilt parts are within their payments' amounts, and within the debt together.
LEMMA RebuiltParts ==
  ASSUME finesTotal \in Nat, alloc \in [Payments -> Parts],
         NEW S \in SUBSET Payments, NEW amt \in [Payments -> Nat],
         NEW new, new = Rebuilt(S, amt)
  PROVE  /\ new \in [Payments -> Parts]
         /\ \A p \in S : new[p].fees + new[p].interest + new[p].principal <= amt[p]
         /\ SumFunctionOnSet([p \in Payments |-> new[p].fees], S) <= finesTotal
         /\ SumFunctionOnSet([p \in Payments |-> new[p].interest], S) <= Interest
         /\ SumFunctionOnSet([p \in Payments |-> new[p].principal], S) <= Principal
<1>0. MaxPayments \in Nat /\ Payments = 1..MaxPayments
  BY BoundAssumption DEF Payments
<1>1. PICK g : /\ Rest(g, S, amt, 0..MaxPayments)
               /\ new = [p \in Payments |->
                     IF p \in S THEN Allocate(amt[p], g[p - 1]) ELSE alloc[p]]
  BY RebuiltUnfolds
<1>2. \A p \in 0..MaxPayments : g[p] \in Parts
  BY <1>1, RestIsParts
<1>3. \A p \in Payments : p - 1 \in 0..MaxPayments /\ p \in 0..MaxPayments /\ p # 0
  BY <1>0
<1>4. ASSUME NEW p \in S
      PROVE  /\ new[p] = Allocate(amt[p], g[p - 1]) /\ new[p] \in Parts
             /\ new[p].fees + new[p].interest + new[p].principal <= amt[p]
             /\ g[p].fees = g[p - 1].fees - new[p].fees
             /\ g[p].interest = g[p - 1].interest - new[p].interest
             /\ g[p].principal = g[p - 1].principal - new[p].principal
  <2>1. new[p] = Allocate(amt[p], g[p - 1])
    BY <1>1
  <2>2. g[p - 1] \in Parts /\ amt[p] \in Nat
    BY <1>2, <1>3
  <2>3. g[p] = Less(g[p - 1], new[p])
    BY <1>1, <1>3, <2>1 DEF Rest
  <2> QED
    BY <2>1, <2>2, <2>3, AllocateParts DEF Less
<1>5. new \in [Payments -> Parts]
  <2>1. \A p \in Payments : new[p] \in Parts
    BY <1>1, <1>4
  <2> QED
    BY <1>1, <2>1
<1>6. ASSUME NEW p \in Payments \ S PROVE g[p] = g[p - 1]
  BY <1>1, <1>3 DEF Rest
<1>7. g[0] = Debt /\ 0 \in 0..MaxPayments /\ MaxPayments \in 0..MaxPayments
  BY <1>0, <1>1 DEF Rest
<1>8. \A x \in Parts : x.fees \in Nat /\ x.interest \in Nat /\ x.principal \in Nat
  BY DEF Parts
<1>9. SumFunctionOnSet([p \in Payments |-> new[p].fees], S) <= finesTotal
  <2> DEFINE rest == [p \in 0..MaxPayments |-> g[p].fees]
             part == [p \in Payments |-> new[p].fees]
  <2>1. rest \in [0..MaxPayments -> Nat] /\ part \in [1..MaxPayments -> Nat]
    BY <1>0, <1>2, <1>5, <1>8
  <2>2. ASSUME NEW p \in Payments
        PROVE  rest[p] = IF p \in S THEN rest[p - 1] - part[p] ELSE rest[p - 1]
    BY <1>3, <1>4, <1>6
  <2>3. rest[0] = finesTotal /\ rest[MaxPayments] \in Nat
    BY <1>2, <1>7, <1>8 DEF Debt
  <2> HIDE DEF rest, part
  <2>4. SumFunctionOnSet(part, S) = rest[0] - rest[MaxPayments]
    BY <1>0, <2>1, <2>2, TakenOff
  <2> QED
    BY <2>3, <2>4 DEF part
<1>10. SumFunctionOnSet([p \in Payments |-> new[p].interest], S) <= Interest
  <2> DEFINE rest == [p \in 0..MaxPayments |-> g[p].interest]
             part == [p \in Payments |-> new[p].interest]
  <2>1. rest \in [0..MaxPayments -> Nat] /\ part \in [1..MaxPayments -> Nat]
    BY <1>0, <1>2, <1>5, <1>8
  <2>2. ASSUME NEW p \in Payments
        PROVE  rest[p] = IF p \in S THEN rest[p - 1] - part[p] ELSE rest[p - 1]
    BY <1>3, <1>4, <1>6
  <2>3. rest[0] = Interest /\ rest[MaxPayments] \in Nat /\ Interest \in Nat
    BY <1>2, <1>7, <1>8, Money DEF Debt
  <2> HIDE DEF rest, part
  <2>4. SumFunctionOnSet(part, S) = rest[0] - rest[MaxPayments]
    BY <1>0, <2>1, <2>2, TakenOff
  <2> QED
    BY <2>3, <2>4 DEF part
<1>11. SumFunctionOnSet([p \in Payments |-> new[p].principal], S) <= Principal
  <2> DEFINE rest == [p \in 0..MaxPayments |-> g[p].principal]
             part == [p \in Payments |-> new[p].principal]
  <2>1. rest \in [0..MaxPayments -> Nat] /\ part \in [1..MaxPayments -> Nat]
    BY <1>0, <1>2, <1>5, <1>8
  <2>2. ASSUME NEW p \in Payments
        PROVE  rest[p] = IF p \in S THEN rest[p - 1] - part[p] ELSE rest[p - 1]
    BY <1>3, <1>4, <1>6
  <2>3. rest[0] = Principal /\ rest[MaxPayments] \in Nat /\ Principal \in Nat
    BY <1>2, <1>7, <1>8, Money DEF Debt
  <2> HIDE DEF rest, part
  <2>4. SumFunctionOnSet(part, S) = rest[0] - rest[MaxPayments]
    BY <1>0, <2>1, <2>2, TakenOff
  <2> QED
    BY <2>3, <2>4 DEF part
<1> QED
  BY <1>4, <1>5, <1>9, <1>10, <1>11

-----------------------------------------------------------------------------
(* Every value has its type.                                               *)

\* What each step of a request holds.
Aimed(h) ==
  /\ stage[h] \in {"record", "void", "gate", "check", "correct"} =>
       held[h].status \in LoanStatuses
  /\ stage[h] \in {"void", "gate", "check", "correct"} => held[h].payment \in Payments
  /\ stage[h] = "review" => held[h].status \in {"APPROVED", "REJECTED"}

Typed == TypeOK /\ \A h \in Requests : Aimed(h)

Stages == {"idle", "record", "void", "gate", "check", "correct", "review", "return"}
Correction == [payment : 0..MaxPayments, applied : BOOLEAN, canEdit : BOOLEAN,
               authorized : BOOLEAN,
               status : {"NONE", "PENDING", "APPROVED", "REJECTED", "CANCELLED"}]

RowsTyped ==
  /\ state \in [Payments -> {"none", "live", "voided"}]
  /\ amount \in [Payments -> Nat]
  /\ alloc \in [Payments -> Parts]

\* The type of everything but the loan and the payments, which the steps below change.
WorkTyped ==
  /\ stage \in [Requests -> Stages]
  /\ held \in [Requests -> Work]
  /\ begun \in 0..MaxOperations
  /\ \A h \in Requests : Aimed(h)

JobTyped ==
  /\ left \in [Workers -> SUBSET Periods]
  /\ period \in [Workers -> 0..MaxPeriods]
  /\ seen \in [Workers -> [balance : Nat, fines : Nat]]

LoanTyped ==
  /\ balance \in Nat /\ loanStatus \in LoanStatuses /\ finesTotal \in Nat
  /\ fined \subseteq Periods

RestTyped ==
  /\ age \in 0..2
  /\ report \in {"NONE", "SENT_TO_OWNER", "RETURNED_TO_MANAGER"}
  /\ correction \in [Corrections -> Correction]
  /\ outdated \in [Actors -> SUBSET {"payments", "fines", "report"}]
  /\ spoilt \subseteq {"balance", "fines", "parts"} /\ voidEdited \in BOOLEAN

LEMMA TypedParts == Typed <=> RowsTyped /\ WorkTyped /\ JobTyped /\ LoanTyped /\ RestTyped
BY DEF Typed, TypeOK, RowsTyped, WorkTyped, JobTyped, LoanTyped, RestTyped, Stages, Correction

LEMMA TypedNext ==
  RowsTyped' /\ WorkTyped' /\ JobTyped' /\ LoanTyped' /\ RestTyped' => Typed'
BY DEF Typed, TypeOK, RowsTyped, WorkTyped, JobTyped, LoanTyped, RestTyped, Stages, Correction

LEMMA NoPartsType == NoParts \in Parts
BY DEF NoParts, Parts

LEMMA IdleType == Idle \in Work
<1>1. MaxPayments \in Nat /\ MaxCorrections \in Nat
  BY BoundAssumption
<1> QED
  BY <1>1, NoPartsType DEF Idle, Work, LoanStatuses

LEMMA TypedInit == Init => Typed
<1> SUFFICES ASSUME Init PROVE Typed
  OBVIOUS
<1>1. PICK a \in {0} \cup Amounts :
        /\ a < Principal + Interest
        /\ balance = Principal + Interest - a
        /\ loanStatus \in {"SUBMITTED", "CURRENT"}
        /\ state = [p \in Payments |-> IF p = 1 /\ a > 0 THEN "live" ELSE "none"]
        /\ amount = [p \in Payments |-> IF p = 1 THEN a ELSE 0]
        /\ alloc = [p \in Payments |-> IF p = 1 THEN Allocate(a, Debt) ELSE NoParts]
  BY DEF Init
<1>2. a \in Nat
  BY <1>1, Money
<1>3. finesTotal = 0 /\ Debt \in Parts
  BY DebtIsParts DEF Init
<1>4. Allocate(a, Debt) \in Parts
  BY <1>2, <1>3, AllocateParts
<1>5. RowsTyped
  BY <1>1, <1>2, <1>4, NoPartsType DEF RowsTyped
<1>6. balance \in Nat
  BY <1>1, <1>2, Money
<1>7. LoanTyped
  BY <1>1, <1>3, <1>6 DEF LoanTyped, LoanStatuses, Init
<1>8. NoRequest \in Correction
  BY BoundAssumption DEF NoRequest, Correction
<1>9. RestTyped
  <2>1. correction \in [Corrections -> Correction]
    BY <1>8 DEF Init
  <2>2. outdated \in [Actors -> SUBSET {"payments", "fines", "report"}]
    BY DEF Init
  <2>3. age = 0 /\ report = "NONE" /\ spoilt = {} /\ voidEdited = FALSE
    BY DEF Init
  <2>4. age \in 0..2
    BY <2>3
  <2>5. spoilt \subseteq {"balance", "fines", "parts"} /\ voidEdited \in BOOLEAN
    BY <2>3, Zenon
  <2> QED
    BY <2>1, <2>2, <2>3, <2>4, <2>5 DEF RestTyped
<1>10. WorkTyped
  BY IdleType, BoundAssumption DEF WorkTyped, Init, Aimed, Stages
<1>11. JobTyped
  BY BoundAssumption DEF JobTyped, Init, NotSeen
<1> QED
  BY <1>5, <1>7, <1>9, <1>10, <1>11, TypedParts

LEMMA BegunTyped ==
  ASSUME Typed, begun < MaxOperations, begun' = begun + 1
  PROVE  begun' \in 0..MaxOperations
BY BoundAssumption, TypedParts DEF WorkTyped

\* A request begins with what its first step may hold.
LEMMA BeginTyped ==
  ASSUME Typed, NEW h \in Requests, NEW step \in Stages, NEW what \in Work,
         Begin(h, step, what),
         step \in {"record", "void", "gate"} => what.status \in LoanStatuses,
         step \in {"void", "gate"} => what.payment \in Payments,
         step = "review" => what.status \in {"APPROVED", "REJECTED"},
         step \notin {"check", "correct"}
  PROVE  WorkTyped' /\ outdated' \in [Actors -> SUBSET {"payments", "fines", "report"}]
<1>1. WorkTyped /\ RestTyped
  BY TypedParts
<1>2. /\ stage' \in [Requests -> Stages] /\ held' \in [Requests -> Work]
      /\ stage'[h] = step /\ held'[h] = what
      /\ \A g \in Requests \ {h} : stage'[g] = stage[g] /\ held'[g] = held[g]
  BY <1>1 DEF WorkTyped, Begin
<1>3. \A g \in Requests : Aimed(g)'
  BY <1>1, <1>2 DEF WorkTyped, Aimed
<1>4. outdated' \in [Actors -> SUBSET {"payments", "fines", "report"}]
  BY <1>1 DEF RestTyped, Begin
<1>5. begun' \in 0..MaxOperations
  BY BegunTyped DEF Begin
<1> QED
  BY <1>2, <1>3, <1>4, <1>5 DEF WorkTyped

LEMMA FinishTyped ==
  ASSUME Typed, NEW h \in Requests, Finish(h)
  PROVE  WorkTyped'
<1>1. WorkTyped
  BY TypedParts
<1>2. /\ stage' \in [Requests -> Stages] /\ held' \in [Requests -> Work]
      /\ stage'[h] = "idle" /\ begun' = begun
      /\ \A g \in Requests \ {h} : stage'[g] = stage[g] /\ held'[g] = held[g]
  BY <1>1, IdleType DEF WorkTyped, Finish, Stages
<1>3. \A g \in Requests : Aimed(g)'
  BY <1>1, <1>2 DEF WorkTyped, Aimed
<1> QED
  BY <1>1, <1>2, <1>3 DEF WorkTyped

\* What is not covered is the parts of a debt.
LEMMA LiveIsFinite ==
  /\ IsFiniteSet(Payments) /\ IsFiniteSet(Live) /\ Live \in SUBSET Payments
  /\ \A S \in SUBSET Payments : IsFiniteSet(S)
<1>1. IsFiniteSet(Payments)
  BY BoundAssumption, FS_Interval DEF Payments
<1> QED
  BY <1>1, FS_Subset DEF Live

LEMMA CoveredNat ==
  ASSUME RowsTyped
  PROVE  /\ SumFunctionOnSet(Fees, Live) \in Nat
         /\ SumFunctionOnSet(Interests, Live) \in Nat
         /\ SumFunctionOnSet(Principals, Live) \in Nat
<1>1. ASSUME NEW p \in Live
      PROVE  Fees[p] \in Nat /\ Interests[p] \in Nat /\ Principals[p] \in Nat
  BY LiveIsFinite DEF RowsTyped, Fees, Interests, Principals, Parts
<1> QED
  BY <1>1, LiveIsFinite, SumNat

LEMMA UncoveredParts ==
  ASSUME RowsTyped, finesTotal \in Nat
  PROVE  Uncovered \in Parts
<1>1. /\ SumFunctionOnSet(Fees, Live) \in Nat
      /\ SumFunctionOnSet(Interests, Live) \in Nat
      /\ SumFunctionOnSet(Principals, Live) \in Nat
  BY CoveredNat
<1> DEFINE f == finesTotal - SumFunctionOnSet(Fees, Live)
           i == Interest - SumFunctionOnSet(Interests, Live)
           p == Principal - SumFunctionOnSet(Principals, Live)
<1>2. f \in Int /\ i \in Int /\ p \in Int
  BY <1>1, Money
<1> HIDE DEF f, i, p
<1>3. Max({0, f}) \in Nat /\ Max({0, i}) \in Nat /\ Max({0, p}) \in Nat
  BY <1>2, MaxWithZero
<1>4. Uncovered = [fees |-> Max({0, f}), interest |-> Max({0, i}), principal |-> Max({0, p})]
  BY DEF Uncovered, f, i, p
<1> QED
  BY <1>3, <1>4 DEF Parts

LEMMA StatusForType ==
  ASSUME NEW bal, NEW old \in LoanStatuses
  PROVE  StatusFor(bal, old) \in LoanStatuses
BY DEF StatusFor, LoanStatuses

\* A request begins to look.
LEMMA StartTyped ==
  ASSUME Typed, NEW h \in Requests,
         \/ \E a \in Amounts : StartRecord(h, a)
         \/ \E p \in Payments : StartVoid(h, p)
         \/ \E p \in Payments, c \in 0..MaxCorrections, a \in Amounts,
              officer \in BOOLEAN : StartCorrection(h, p, c, a, officer)
  PROVE  Typed'
<1>1. RowsTyped /\ WorkTyped /\ JobTyped /\ LoanTyped /\ RestTyped
  BY TypedParts
<1>2. UNCHANGED <<age, report, loan, fined, rows, correction, job, spoilt, voidEdited>>
  BY DEF StartRecord, StartVoid, StartCorrection
<1>3. RowsTyped' /\ JobTyped' /\ LoanTyped'
  BY <1>1, <1>2 DEF RowsTyped, JobTyped, LoanTyped, loan, rows, job
<1>4. ASSUME NEW step \in {"record", "void", "gate"}, NEW what \in Work,
             Begin(h, step, what), what.status \in LoanStatuses,
             step # "record" => what.payment \in Payments
      PROVE  Typed'
  <2>1. WorkTyped' /\ outdated' \in [Actors -> SUBSET {"payments", "fines", "report"}]
    BY <1>4, BeginTyped DEF Stages
  <2>2. RestTyped'
    BY <1>1, <1>2, <2>1 DEF RestTyped
  <2> QED
    BY <1>3, <2>1, <2>2, TypedNext
<1>5. /\ 0 \in 0..MaxPayments /\ 0 \in 0..MaxCorrections /\ Payments \subseteq 0..MaxPayments
      /\ Amounts \subseteq Nat
  BY BoundAssumption, Money DEF Payments
<1>6. ASSUME NEW a \in Amounts, StartRecord(h, a)
      PROVE  Typed'
  <2> DEFINE parts == Allocate(a, Uncovered)
             st == IF balance - a <= 0 THEN "CLOSED"
                   ELSE IF loanStatus = "SUBMITTED" THEN "CURRENT" ELSE loanStatus
             what == [payment |-> 0, request |-> 0, amount |-> a, parts |-> parts,
                      balance |-> balance - a, status |-> st, officer |-> FALSE]
  <2>1. parts \in Parts
    BY <1>1, <1>5, UncoveredParts, AllocateParts DEF LoanTyped
  <2>2. st \in LoanStatuses /\ balance - a \in Int
    BY <1>1, <1>5 DEF LoanTyped, LoanStatuses
  <2>3. Begin(h, "record", what)
    BY <1>6 DEF StartRecord
  <2> HIDE DEF parts, st
  <2>4. what \in Work /\ what.status \in LoanStatuses
    BY <1>5, <2>1, <2>2 DEF Work
  <2> HIDE DEF what
  <2> QED
    BY <1>4, <2>3, <2>4
<1>7. ASSUME NEW p \in Payments, StartVoid(h, p)
      PROVE  Typed'
  <2> DEFINE st == StatusFor(balance + amount[p], loanStatus)
             what == [payment |-> p, request |-> 0, amount |-> amount[p], parts |-> NoParts,
                      balance |-> balance + amount[p], status |-> st, officer |-> FALSE]
  <2>1. amount[p] \in Nat /\ balance + amount[p] \in Int /\ st \in LoanStatuses
    BY <1>1, StatusForType DEF RowsTyped, LoanTyped
  <2>2. Begin(h, "void", what)
    BY <1>7 DEF StartVoid
  <2> HIDE DEF st
  <2>3. what \in Work /\ what.status \in LoanStatuses /\ what.payment \in Payments
    BY <1>5, <2>1, NoPartsType DEF Work
  <2> HIDE DEF what
  <2> QED
    BY <1>4, <2>2, <2>3
<1>8. ASSUME NEW p \in Payments, NEW c \in 0..MaxCorrections, NEW a \in Amounts,
             NEW officer \in BOOLEAN, StartCorrection(h, p, c, a, officer)
      PROVE  Typed'
  <2> DEFINE st == StatusFor(balance + amount[p] - a, loanStatus)
             what == [payment |-> p, request |-> c, amount |-> a, parts |-> NoParts,
                      balance |-> balance + amount[p] - a, status |-> st,
                      officer |-> officer]
  <2>1. balance + amount[p] - a \in Int /\ st \in LoanStatuses
    BY <1>1, <1>5, StatusForType DEF RowsTyped, LoanTyped
  <2>2. Begin(h, "gate", what)
    BY <1>8 DEF StartCorrection
  <2> HIDE DEF st
  <2>3. what \in Work /\ what.status \in LoanStatuses /\ what.payment \in Payments
    BY <1>5, <2>1, NoPartsType DEF Work
  <2> HIDE DEF what
  <2> QED
    BY <1>4, <2>2, <2>3
<1> QED
  BY <1>6, <1>7, <1>8

\* A request goes on, or ends without touching the loan.
LEMMA GoOnTyped ==
  ASSUME Typed, NEW h \in Requests,
         \/ Gate(h) \/ CheckRequest(h) \/ Stop(h) \/ CommitReview(h) \/ ReturnReport(h)
         \/ \E c \in Corrections : Authorize(h, c)
         \/ \E c \in Corrections, canEdit \in BOOLEAN : StartReview(h, c, "APPROVED", canEdit)
         \/ \E c \in Corrections : StartReview(h, c, "REJECTED", FALSE)
  PROVE  Typed'
<1>1. RowsTyped /\ WorkTyped /\ JobTyped /\ LoanTyped /\ RestTyped
  BY TypedParts
<1>2. UNCHANGED <<age, loan, fined, rows, job, spoilt, voidEdited>>
  BY DEF Gate, CheckRequest, Stop, CommitReview, ReturnReport, Authorize, StartReview
<1>3. RowsTyped' /\ JobTyped' /\ LoanTyped'
  BY <1>1, <1>2 DEF RowsTyped, JobTyped, LoanTyped, loan, rows, job
<1>4. ASSUME WorkTyped', correction' \in [Corrections -> Correction],
             report' \in {"NONE", "SENT_TO_OWNER", "RETURNED_TO_MANAGER"},
             outdated' \in [Actors -> SUBSET {"payments", "fines", "report"}]
      PROVE  Typed'
  <2>1. RestTyped'
    BY <1>1, <1>2, <1>4 DEF RestTyped
  <2> QED
    BY <1>3, <1>4, <2>1, TypedNext
<1>5. CASE Gate(h) \/ CheckRequest(h)
  <2>1. PICK step \in {"check", "correct"} :
          /\ stage[h] \in {"gate", "check"}
          /\ stage' = [stage EXCEPT ![h] = step]
    BY <1>5 DEF Gate, CheckRequest
  <2>2. UNCHANGED <<held, begun, correction, outdated>>
    BY <1>5 DEF Gate, CheckRequest
  <2>3. stage' \in [Requests -> Stages] /\ stage'[h] = step
        /\ \A g \in Requests \ {h} : stage'[g] = stage[g]
    BY <1>1, <2>1 DEF WorkTyped, Stages
  <2>4. \A g \in Requests : Aimed(g)'
    BY <1>1, <2>1, <2>2, <2>3 DEF WorkTyped, Aimed
  <2>5. WorkTyped'
    BY <1>1, <2>2, <2>3, <2>4 DEF WorkTyped
  <2>6. report' \in {"NONE", "SENT_TO_OWNER", "RETURNED_TO_MANAGER"}
    BY <1>1, <1>5 DEF Gate, CheckRequest, Reopened, RestTyped
  <2> QED
    BY <1>1, <1>4, <2>2, <2>5, <2>6 DEF RestTyped
<1>6. CASE Stop(h) \/ CommitReview(h) \/ ReturnReport(h)
  <2>1. WorkTyped'
    BY <1>6, FinishTyped DEF Stop, CommitReview, ReturnReport
  <2>2. outdated' \in [Actors -> SUBSET {"payments", "fines", "report"}]
    BY <1>1, <1>6 DEF Stop, CommitReview, ReturnReport, RestTyped
  <2>3. report' \in {"NONE", "SENT_TO_OWNER", "RETURNED_TO_MANAGER"}
    BY <1>1, <1>6 DEF Stop, CommitReview, ReturnReport, RestTyped
  <2>4. correction' \in [Corrections -> Correction]
    <3>1. CASE CommitReview(h)
      <4>1. held[h].status \in {"APPROVED", "REJECTED"} /\ held[h].officer \in BOOLEAN
        BY <1>1, <3>1 DEF CommitReview, WorkTyped, Aimed, Work
      <4>2. \A c \in Corrections :
              [correction[c] EXCEPT !.status = held[h].status, !.canEdit = held[h].officer]
                \in Correction
        BY <1>1, <4>1 DEF RestTyped, Correction
      <4> QED
        BY <1>1, <3>1, <4>2 DEF CommitReview, RestTyped
    <3>2. CASE Stop(h) \/ ReturnReport(h)
      BY <1>1, <3>2 DEF Stop, ReturnReport, RestTyped
    <3> QED
      BY <1>6, <3>1, <3>2
  <2> QED
    BY <1>4, <2>1, <2>2, <2>3, <2>4
<1>7. ASSUME NEW c \in Corrections, Authorize(h, c)
      PROVE  Typed'
  <2>1. WorkTyped' /\ outdated' \in [Actors -> SUBSET {"payments", "fines", "report"}]
    BY <1>7, BeginTyped, IdleType DEF Authorize, Stages
  <2>2. correction' \in [Corrections -> Correction]
    <3>1. [correction[c] EXCEPT !.authorized = TRUE] \in Correction
      BY <1>1 DEF RestTyped, Correction
    <3> QED
      BY <1>1, <1>7, <3>1 DEF Authorize, RestTyped
  <2>3. report' = report
    BY <1>7 DEF Authorize
  <2> QED
    BY <1>1, <1>4, <2>1, <2>2, <2>3 DEF RestTyped
<1>8. ASSUME NEW c \in Corrections, NEW canEdit \in BOOLEAN,
             NEW decision \in {"APPROVED", "REJECTED"}, StartReview(h, c, decision, canEdit)
      PROVE  Typed'
  <2> DEFINE officer == canEdit /\ decision = "APPROVED"
             what == [payment |-> 0, request |-> c, amount |-> 0, parts |-> NoParts,
                      balance |-> 0, status |-> decision, officer |-> officer]
  <2>1. Begin(h, "review", what) /\ correction' = correction /\ report' = report
    BY <1>8 DEF StartReview
  <2>2. officer \in BOOLEAN /\ c \in 0..MaxCorrections /\ 0 \in 0..MaxPayments
    BY BoundAssumption DEF Corrections
  <2> HIDE DEF officer
  <2>3. what \in Work /\ what.status = decision
    BY <2>2, NoPartsType DEF Work
  <2> HIDE DEF what
  <2>4. WorkTyped' /\ outdated' \in [Actors -> SUBSET {"payments", "fines", "report"}]
    BY <2>1, <2>3, BeginTyped DEF Stages
  <2> QED
    BY <1>1, <1>4, <2>1, <2>4 DEF RestTyped
<1> QED
  BY <1>5, <1>6, <1>7, <1>8

\* Writing the loan marks others as outdated.
LEMMA WriteTyped ==
  ASSUME Typed, NEW x \in Actors, NEW bal, NEW st, NEW what \in {"payments", "fines"},
         WriteLoan(x, bal, st, what)
  PROVE  outdated' \in [Actors -> SUBSET {"payments", "fines", "report"}]
BY TypedParts DEF RestTyped, WriteLoan, Outdate

\* What a commit writes of the payments has its type.
LEMMA CommitRows ==
  ASSUME Typed, NEW h \in Requests,
         CommitRecord(h) \/ CommitVoid(h) \/ CommitCorrection(h)
  PROVE  RowsTyped' /\ correction' \in [Corrections -> Correction]
<1>1. RowsTyped /\ WorkTyped /\ LoanTyped /\ RestTyped
  BY TypedParts
<1>2. held[h].amount \in Nat /\ held[h].parts \in Parts
  BY <1>1 DEF WorkTyped, Work
<1>3. CASE CommitRecord(h)
  <2>1. PICK p \in Payments :
          /\ state' = [state EXCEPT ![p] = "live"]
          /\ amount' = [amount EXCEPT ![p] = held[h].amount]
          /\ alloc' = [alloc EXCEPT ![p] = held[h].parts]
    BY <1>3 DEF CommitRecord
  <2>2. correction' = correction
    BY <1>3 DEF CommitRecord
  <2> QED
    BY <1>1, <1>2, <2>1, <2>2 DEF RowsTyped, RestTyped
<1>4. CASE CommitVoid(h)
  <2>1. /\ state' = [state EXCEPT ![held[h].payment] = "voided"] /\ amount' = amount
        /\ alloc' = Rebuilt(Live \ {held[h].payment}, amount)
        /\ correction' = Cancelled(held[h].payment)
    BY <1>4 DEF CommitVoid
  <2>2. alloc' \in [Payments -> Parts]
    BY <1>1, <2>1, RebuiltParts, LiveIsFinite DEF RowsTyped, LoanTyped
  <2>3. correction' \in [Corrections -> Correction]
    <3>1. ASSUME NEW c \in Corrections
          PROVE  /\ correction[c] \in Correction
                 /\ [correction[c] EXCEPT !.status = "CANCELLED", !.canEdit = FALSE]
                      \in Correction
      BY <1>1 DEF RestTyped, Correction
    <3> QED
      BY <2>1, <3>1 DEF Cancelled
  <2> QED
    BY <1>1, <2>1, <2>2, <2>3 DEF RowsTyped
<1>5. CASE CommitCorrection(h)
  <2> DEFINE p == held[h].payment
             amt == [amount EXCEPT ![p] = held[h].amount]
  <2>1. /\ amount' = amt /\ state' = state
        /\ alloc' = Rebuilt({q \in Payments : state[q] # "none"}, amt)
    BY <1>5 DEF CommitCorrection
  <2>2. amt \in [Payments -> Nat]
    BY <1>1, <1>2 DEF RowsTyped
  <2>3. alloc' \in [Payments -> Parts]
    <3> HIDE DEF amt
    <3> QED
      BY <1>1, <2>1, <2>2, RebuiltParts DEF RowsTyped, LoanTyped
  <2>4. correction' \in [Corrections -> Correction]
    <3>1. p \in 0..MaxPayments /\ held[h].officer \in BOOLEAN
      BY <1>1 DEF WorkTyped, Work
    <3>2. ASSUME NEW c \in Corrections
          PROVE  [payment |-> p, status |-> "APPROVED", applied |-> TRUE,
                  canEdit |-> held[h].officer,
                  authorized |-> correction[c].authorized] \in Correction
      <4>1. correction[c].authorized \in BOOLEAN
        BY <1>1 DEF RestTyped, Correction
      <4> QED
        BY <3>1, <4>1 DEF Correction
    <3> HIDE DEF p
    <3> QED
      BY <1>1, <1>5, <3>2 DEF CommitCorrection, RestTyped, p
  <2> QED
    BY <1>1, <2>1, <2>2, <2>3, <2>4 DEF RowsTyped
<1> QED
  BY <1>3, <1>4, <1>5

LEMMA CommitTyped ==
  ASSUME Typed, IInv, IInv', NEW h \in Requests,
         CommitRecord(h) \/ CommitVoid(h) \/ CommitCorrection(h)
  PROVE  Typed'
<1>1. RowsTyped /\ WorkTyped /\ JobTyped /\ LoanTyped /\ RestTyped
  BY TypedParts
<1>2. RowsTyped' /\ correction' \in [Corrections -> Correction]
  BY CommitRows
<1>3. /\ stage[h] \in {"record", "void", "correct"}
      /\ WriteLoan(h, held[h].balance, held[h].status, "payments") /\ Finish(h)
      /\ UNCHANGED <<age, report, finesTotal, fined, job>>
      /\ voidEdited' = voidEdited \/ voidEdited' = (voidEdited \/ state[held[h].payment] = "voided")
  BY DEF CommitRecord, CommitVoid, CommitCorrection
<1>4. WorkTyped'
  BY <1>3, FinishTyped
<1>5. JobTyped'
  BY <1>1, <1>3 DEF JobTyped, job
<1>6. LoanTyped'
  <2>1. balance' \in Nat
    BY DEF IInv, Shape
  <2>2. loanStatus' \in LoanStatuses
    BY <1>1, <1>3 DEF WriteLoan, WorkTyped, Aimed
  <2> QED
    BY <1>1, <1>3, <2>1, <2>2 DEF LoanTyped
<1>7. RestTyped'
  <2>1. outdated' \in [Actors -> SUBSET {"payments", "fines", "report"}]
    BY <1>3, WriteTyped DEF Actors
  <2>2. spoilt' \subseteq {"balance", "fines", "parts"}
    BY <1>1 DEF CommitRecord, CommitVoid, CommitCorrection, Spoils, RestTyped
  <2> QED
    BY <1>1, <1>2, <1>3, <2>1, <2>2 DEF RestTyped
<1> QED
  BY <1>2, <1>4, <1>5, <1>6, <1>7, TypedNext

LEMMA FinesTyped ==
  ASSUME Typed, IInv', NEW w \in Workers,
         \/ \E n \in Periods : StartFines(w, n)
         \/ ReadForFine(w) \/ ApplyFine(w) \/ FineFails(w) \/ JobDies(w)
  PROVE  Typed'
<1>1. RowsTyped /\ WorkTyped /\ JobTyped /\ LoanTyped /\ RestTyped
  BY TypedParts
<1>2. /\ UNCHANGED <<age, report, rows, correction, stage, held, voidEdited>>
      /\ \/ begun' = begun
         \/ begun < MaxOperations /\ begun' = begun + 1
  BY DEF StartFines, ReadForFine, ApplyFine, FineFails, JobDies, work
<1>3. RowsTyped' /\ WorkTyped'
  <2>1. begun' \in 0..MaxOperations
    BY <1>1, <1>2, BegunTyped DEF WorkTyped
  <2> QED
    BY <1>1, <1>2, <2>1 DEF RowsTyped, WorkTyped, Aimed, rows
<1>4. JobTyped'
  <2>1. Periods \subseteq 0..MaxPeriods /\ 0 \in 0..MaxPeriods
        /\ NotSeen \in [balance : Nat, fines : Nat]
        /\ \A n \in Periods : 1..n \subseteq Periods
    BY BoundAssumption DEF Periods, NotSeen
  <2>2. CASE \E n \in Periods : StartFines(w, n)
    BY <1>1, <2>1, <2>2 DEF StartFines, JobTyped
  <2>3. CASE ReadForFine(w)
    <3> DEFINE k == Min(left[w])
    <3>1. k \in Periods
      <4>1. left[w] \in SUBSET Periods /\ left[w] # {}
        BY <1>1, <2>3 DEF JobTyped, ReadForFine
      <4>2. \E m \in left[w] : \A n \in left[w] : m <= n
        BY <4>1, LeastNumber, BoundAssumption DEF Periods
      <4> QED
        BY <4>1, <4>2 DEF Min
    <3>2. \/ /\ period' = [period EXCEPT ![w] = k] /\ left' = left
             /\ seen' = [seen EXCEPT ![w] = [balance |-> balance, fines |-> finesTotal]]
          \/ left' = [left EXCEPT ![w] = @ \ {k}] /\ UNCHANGED <<period, seen>>
      BY <2>3 DEF ReadForFine
    <3> HIDE DEF k
    <3> QED
      BY <1>1, <2>1, <3>1, <3>2 DEF JobTyped, LoanTyped
  <2>4. CASE ApplyFine(w) \/ FineFails(w)
    <3>1. NextPeriod(w)
      BY <2>4 DEF ApplyFine, FineFails
    <3> QED
      BY <1>1, <2>1, <3>1 DEF JobTyped, NextPeriod
  <2>5. CASE JobDies(w)
    BY <1>1, <2>1, <2>5 DEF JobTyped, JobDies
  <2> QED
    BY <2>2, <2>3, <2>4, <2>5
<1>5. CASE ApplyFine(w)
  <2>1. balance' \in Nat /\ finesTotal' \in Nat
    BY DEF IInv, Shape
  <2>2. /\ WriteLoan(w, seen[w].balance + Fine, "IN_ARREARS", "fines")
        /\ period[w] \in 0..MaxPeriods /\ period[w] # 0 /\ fined' = fined \cup {period[w]}
    BY <1>1, <1>5 DEF ApplyFine, JobTyped
  <2>3. loanStatus' \in LoanStatuses
    BY <2>2 DEF WriteLoan, LoanStatuses
  <2>4. fined' \subseteq Periods
    <3>1. period[w] \in Periods
      BY <2>2, BoundAssumption DEF Periods
    <3> QED
      BY <1>1, <2>2, <3>1 DEF LoanTyped
  <2>5. LoanTyped'
    BY <2>1, <2>3, <2>4 DEF LoanTyped
  <2>6. outdated' \in [Actors -> SUBSET {"payments", "fines", "report"}]
    BY <2>2, WriteTyped DEF Actors
  <2>7. spoilt' \subseteq {"balance", "fines", "parts"}
    BY <1>1, <1>5 DEF ApplyFine, Spoils, RestTyped
  <2>8. RestTyped'
    BY <1>1, <1>2, <2>6, <2>7 DEF RestTyped
  <2> QED
    BY <1>3, <1>4, <2>5, <2>8, TypedNext
<1>6. CASE (\E n \in Periods : StartFines(w, n)) \/ ReadForFine(w) \/ FineFails(w) \/ JobDies(w)
  <2>1. UNCHANGED <<loan, fined, spoilt>>
    BY <1>6 DEF StartFines, ReadForFine, FineFails, JobDies
  <2>2. outdated' = outdated \/ outdated' = [outdated EXCEPT ![w] = {}]
    BY <1>6 DEF StartFines, ReadForFine, FineFails, JobDies
  <2>3. LoanTyped' /\ RestTyped'
    BY <1>1, <1>2, <2>1, <2>2 DEF LoanTyped, RestTyped, loan
  <2> QED
    BY <1>3, <1>4, <2>3, TypedNext
<1> QED
  BY <1>5, <1>6

LEMMA OtherTyped ==
  ASSUME Typed,
         \/ DayPasses \/ ReportMoves \/ (\E p \in Payments : CreateRequest(p))
         \/ UNCHANGED vars
  PROVE  Typed'
<1>1. RowsTyped /\ WorkTyped /\ JobTyped /\ LoanTyped /\ RestTyped
  BY TypedParts
<1>2. UNCHANGED <<loan, fined, rows, work, job, spoilt, voidEdited>>
  BY DEF DayPasses, ReportMoves, CreateRequest, vars
<1>3. RowsTyped' /\ WorkTyped' /\ JobTyped' /\ LoanTyped'
  BY <1>1, <1>2 DEF RowsTyped, WorkTyped, Aimed, JobTyped, LoanTyped, loan, rows, work, job
<1>4. age' \in 0..2 /\ report' \in {"NONE", "SENT_TO_OWNER", "RETURNED_TO_MANAGER"}
  <2>1. CASE DayPasses
    BY <1>1, <2>1 DEF DayPasses, RestTyped
  <2>2. CASE ReportMoves
    BY <1>1, <2>2 DEF ReportMoves, RestTyped
  <2>3. CASE age' = age /\ report' = report
    BY <1>1, <2>3 DEF RestTyped
  <2> QED
    BY <2>1, <2>2, <2>3 DEF CreateRequest, vars
<1>5. outdated' \in [Actors -> SUBSET {"payments", "fines", "report"}]
  <2>1. CASE ReportMoves
    BY <1>1, <2>1 DEF ReportMoves, RestTyped
  <2>2. CASE outdated' = outdated
    BY <1>1, <2>2 DEF RestTyped
  <2> QED
    BY <2>1, <2>2 DEF DayPasses, CreateRequest, vars
<1>6. correction' \in [Corrections -> Correction]
  <2>1. ASSUME NEW p \in Payments, CreateRequest(p)
        PROVE  correction' \in [Corrections -> Correction]
    <3>1. [NoRequest EXCEPT !.payment = p, !.status = "PENDING"] \in Correction
      <4>1. p \in 0..MaxPayments
        BY BoundAssumption DEF Payments
      <4> QED
        BY <4>1 DEF NoRequest, Correction
    <3> QED
      BY <1>1, <2>1, <3>1 DEF CreateRequest, RestTyped
  <2>2. CASE correction' = correction
    BY <1>1, <2>2 DEF RestTyped
  <2> QED
    BY <2>1, <2>2 DEF DayPasses, ReportMoves, vars
<1>7. RestTyped'
  BY <1>1, <1>2, <1>4, <1>5, <1>6 DEF RestTyped
<1> QED
  BY <1>3, <1>7, TypedNext

LEMMA TypedStep == Typed /\ IInv /\ IInv' /\ [Next]_vars => Typed'
<1> SUFFICES ASSUME Typed, IInv, IInv', [Next]_vars PROVE Typed'
  OBVIOUS
<1>1. ASSUME NEW h \in Requests,
             \/ \E a \in Amounts : StartRecord(h, a)
             \/ \E p \in Payments : StartVoid(h, p)
             \/ \E p \in Payments, c \in 0..MaxCorrections, a \in Amounts,
                  officer \in BOOLEAN : StartCorrection(h, p, c, a, officer)
      PROVE  Typed'
  BY <1>1, StartTyped
<1>2. ASSUME NEW h \in Requests,
             \/ \E c \in Corrections, canEdit \in BOOLEAN :
                  StartReview(h, c, "APPROVED", canEdit)
             \/ \E c \in Corrections : StartReview(h, c, "REJECTED", FALSE)
             \/ \E c \in Corrections : Authorize(h, c)
             \/ Gate(h) \/ CheckRequest(h)
             \/ CommitReview(h) \/ ReturnReport(h) \/ Stop(h)
      PROVE  Typed'
  BY <1>2, GoOnTyped
<1>3. ASSUME NEW w \in Workers,
             \/ \E n \in Periods : StartFines(w, n)
             \/ ReadForFine(w) \/ ApplyFine(w) \/ FineFails(w) \/ JobDies(w)
      PROVE  Typed'
  BY <1>3, FinesTyped
<1> QED
  BY <1>1, <1>2, <1>3, CommitTyped, OtherTyped DEF Next

-----------------------------------------------------------------------------
(* The balance is the debt less the live payments.                         *)

UpToDate(x) == outdated[x] \cap {"payments", "fines"} = {}

\* What a request is about to write, if nobody wrote the loan since it was read.
Exact(h) ==
  UpToDate(h) =>
    /\ stage[h] = "record" => held[h].balance = balance - held[h].amount
    /\ stage[h] = "void" =>
         /\ state[held[h].payment] = "live"
         /\ held[h].balance = balance + amount[held[h].payment]
    /\ stage[h] \in {"gate", "check", "correct"} =>
         /\ state[held[h].payment] # "none"
         /\ held[h].balance = balance + amount[held[h].payment] - held[h].amount

\* What a worker has read, likewise.
SeenExact(w) == period[w] # 0 /\ UpToDate(w) => seen[w].balance = balance

\* How a recording is about to split its amount: within what the live payments have
\* not covered, if none of them was written since it read them.
PartsFit(h) ==
  stage[h] = "record" =>
    /\ held[h].parts.fees + held[h].parts.interest + held[h].parts.principal
         <= held[h].amount
    /\ "payments" \notin outdated[h] =>
         /\ held[h].parts.interest <= Uncovered.interest
         /\ held[h].parts.principal <= Uncovered.principal
         /\ "fines" \notin spoilt => held[h].parts.fees <= Uncovered.fees

MoneyInv ==
  /\ \A h \in Requests : Exact(h)
  /\ \A h \in Requests : PartsFit(h)
  /\ \A w \in Workers : SeenExact(w)
  /\ BalanceMatchesRepayments
  /\ PartsFitTheDebt

LEMMA Numbers ==
  ASSUME Typed
  PROVE  /\ balance \in Nat /\ finesTotal \in Nat
         /\ amount \in [Payments -> Nat] /\ alloc \in [Payments -> Parts]
         /\ state \in [Payments -> {"none", "live", "voided"}]
         /\ \A p \in Payments :
              alloc[p].fees \in Nat /\ alloc[p].interest \in Nat /\ alloc[p].principal \in Nat
         /\ Paid \in Nat /\ Principal \in Nat /\ Interest \in Nat /\ Fine \in Nat
<1>1. RowsTyped /\ LoanTyped
  BY TypedParts
<1>2. Paid \in Nat
  <2>1. \A p \in Live : amount[p] \in Nat
    BY <1>1, LiveIsFinite DEF RowsTyped
  <2> QED
    BY <2>1, LiveIsFinite, SumNat DEF Paid
<1> QED
  BY <1>1, <1>2, Money DEF RowsTyped, LoanTyped, Parts

LEMMA MoneyInit == Init => MoneyInv
<1> SUFFICES ASSUME Init PROVE MoneyInv
  OBVIOUS
<1>1. PICK a \in {0} \cup Amounts :
        /\ a > 0 => MaxPayments > 0
        /\ balance = Principal + Interest - a
        /\ state = [p \in Payments |-> IF p = 1 /\ a > 0 THEN "live" ELSE "none"]
        /\ amount = [p \in Payments |-> IF p = 1 THEN a ELSE 0]
        /\ alloc = [p \in Payments |-> IF p = 1 THEN Allocate(a, Debt) ELSE NoParts]
  BY DEF Init
<1>2. a \in Nat /\ Principal \in Nat /\ Interest \in Nat /\ finesTotal = 0 /\ Typed
  BY <1>1, Money, TypedInit DEF Init
<1> DEFINE parts == Allocate(a, Debt)
<1>3. /\ parts.fees \in Nat /\ parts.interest \in Nat /\ parts.principal \in Nat
      /\ parts.fees <= Debt.fees /\ parts.interest <= Debt.interest
      /\ parts.principal <= Debt.principal
      /\ parts.fees + parts.interest + parts.principal <= a
  BY <1>2, DebtIsParts, AllocateParts DEF Parts
<1> HIDE DEF parts
<1>4. /\ Paid = a /\ SumFunctionOnSet(Fees, Live) <= finesTotal
      /\ SumFunctionOnSet(Interests, Live) <= Interest
      /\ SumFunctionOnSet(Principals, Live) <= Principal
      /\ \A p \in Live : alloc[p].fees + alloc[p].interest + alloc[p].principal <= amount[p]
  <2>1. CASE a = 0
    <3>1. Live = {}
      BY <1>1, <2>1 DEF Live
    <3> QED
      BY <1>2, <2>1, <3>1, SumEmpty DEF Paid
  <2>2. CASE a # 0
    <3>1. a > 0
      BY <1>2, <2>2
    <3>2. 1 \in Payments
      BY <1>1, <3>1, BoundAssumption DEF Payments
    <3>3. Live = {1} /\ amount[1] = a /\ alloc[1] = parts
      BY <1>1, <3>1, <3>2 DEF Live, parts
    <3>4. Fees[1] = parts.fees /\ Interests[1] = parts.interest /\ Principals[1] = parts.principal
      BY <3>2, <3>3 DEF Fees, Interests, Principals
    <3>5. /\ SumFunctionOnSet(amount, Live) = a
          /\ SumFunctionOnSet(Fees, Live) = parts.fees
          /\ SumFunctionOnSet(Interests, Live) = parts.interest
          /\ SumFunctionOnSet(Principals, Live) = parts.principal
      <4>1. amount[1] \in Int /\ Fees[1] \in Int /\ Interests[1] \in Int
            /\ Principals[1] \in Int
        BY <1>2, <1>3, <3>3, <3>4
      <4>2. /\ SumFunctionOnSet(amount, {1}) = amount[1]
            /\ SumFunctionOnSet(Fees, {1}) = Fees[1]
            /\ SumFunctionOnSet(Interests, {1}) = Interests[1]
            /\ SumFunctionOnSet(Principals, {1}) = Principals[1]
        BY <4>1, SumOne
      <4> QED
        BY <3>3, <3>4, <4>2
    <3> QED
      BY <1>3, <3>3, <3>5 DEF Paid, Debt
  <2> QED
    BY <2>1, <2>2
<1>5. BalanceMatchesRepayments /\ PartsFitTheDebt
  BY <1>1, <1>2, <1>4 DEF BalanceMatchesRepayments, Owed, PartsFitTheDebt
<1>6. /\ \A h \in Requests : Exact(h) /\ PartsFit(h)
      /\ \A w \in Workers : SeenExact(w)
  BY DEF Init, Exact, PartsFit, SeenExact
<1> QED
  BY <1>5, <1>6 DEF MoneyInv

LEMMA SameMoney ==
  ASSUME MoneyInv, UNCHANGED <<loan, rows, spoilt, voidEdited>>
  PROVE  BalanceMatchesRepayments' /\ PartsFitTheDebt' /\ Uncovered' = Uncovered
<1>1. /\ balance' = balance /\ finesTotal' = finesTotal
      /\ state' = state /\ amount' = amount /\ alloc' = alloc
      /\ spoilt' = spoilt /\ voidEdited' = voidEdited
  BY DEF loan, rows
<1>2. Live' = Live /\ Fees' = Fees /\ Interests' = Interests /\ Principals' = Principals
  BY <1>1 DEF Live, Fees, Interests, Principals
<1>3. Owed' = Owed
  BY <1>1, <1>2 DEF Owed, Paid
<1> QED
  BY <1>1, <1>2, <1>3 DEF MoneyInv, BalanceMatchesRepayments, PartsFitTheDebt, Uncovered

\* A step of one request that leaves the loan alone.
LEMMA RequestMoney ==
  ASSUME MoneyInv, NEW h \in Requests,
         UNCHANGED <<loan, rows, job, spoilt, voidEdited>>,
         \A g \in Requests \ {h} : stage'[g] = stage[g] /\ held'[g] = held[g],
         \A y \in Actors \ {h} : outdated'[y] = outdated[y],
         Exact(h)', PartsFit(h)'
  PROVE  MoneyInv'
<1>1. \A g \in Requests : Exact(g)' /\ PartsFit(g)'
  <2>1. ASSUME NEW g \in Requests, g # h PROVE Exact(g)' /\ PartsFit(g)'
    BY <2>1, SameMoney DEF MoneyInv, Exact, PartsFit, UpToDate, Actors, loan, rows
  <2> QED
    BY <2>1
<1>2. \A w \in Workers : SeenExact(w)'
  BY ActorAssumption DEF MoneyInv, SeenExact, UpToDate, Actors, loan, job
<1> QED
  BY <1>1, <1>2, SameMoney DEF MoneyInv

LEMMA StartMoney ==
  ASSUME IInv, Typed, MoneyInv, NEW h \in Requests,
         \/ \E a \in Amounts : StartRecord(h, a)
         \/ \E p \in Payments : StartVoid(h, p)
         \/ \E p \in Payments, c \in 0..MaxCorrections, a \in Amounts,
              officer \in BOOLEAN : StartCorrection(h, p, c, a, officer)
  PROVE  MoneyInv'
<1>1. /\ UNCHANGED <<loan, rows, job, spoilt, voidEdited>>
      /\ balance' = balance /\ state' = state /\ amount' = amount /\ Uncovered' = Uncovered
  BY SameMoney DEF StartRecord, StartVoid, StartCorrection, loan, rows
<1>2. ASSUME NEW step, NEW what, Begin(h, step, what), Exact(h)', PartsFit(h)'
      PROVE  MoneyInv'
  BY <1>1, <1>2, Begun, RequestMoney DEF IInv
<1>3. ASSUME NEW a \in Amounts, StartRecord(h, a)
      PROVE  MoneyInv'
  <2> DEFINE st == IF balance - a <= 0 THEN "CLOSED"
                   ELSE IF loanStatus = "SUBMITTED" THEN "CURRENT" ELSE loanStatus
             what == [payment |-> 0, request |-> 0, amount |-> a,
                      parts |-> Allocate(a, Uncovered),
                      balance |-> balance - a, status |-> st, officer |-> FALSE]
  <2>1. Begin(h, "record", what)
    BY <1>3 DEF StartRecord
  <2>2. /\ what.amount = a /\ what.parts = Allocate(a, Uncovered)
        /\ what.balance = balance - a
    OBVIOUS
  <2> HIDE DEF what
  <2>3. stage'[h] = "record" /\ held'[h] = what
    BY <2>1, Begun DEF IInv
  <2>4. Exact(h)'
    BY <1>1, <2>2, <2>3 DEF Exact
  <2>5. a \in Nat /\ Uncovered \in Parts
    BY Money, TypedParts, UncoveredParts DEF LoanTyped
  <2> DEFINE parts == Allocate(a, Uncovered)
  <2>6. /\ parts.fees <= Uncovered.fees /\ parts.interest <= Uncovered.interest
        /\ parts.principal <= Uncovered.principal
        /\ parts.fees + parts.interest + parts.principal <= a
    BY <2>5, AllocateParts
  <2>7. PartsFit(h)'
    <3> HIDE DEF parts
    <3>1. what.parts = parts
      BY <2>2 DEF parts
    <3> QED
      BY <1>1, <2>2, <2>3, <2>6, <3>1 DEF PartsFit
  <2> QED
    BY <1>2, <2>1, <2>4, <2>7
<1>4. ASSUME NEW p \in Payments, StartVoid(h, p)
      PROVE  MoneyInv'
  <2> DEFINE what == [payment |-> p, request |-> 0, amount |-> amount[p], parts |-> NoParts,
                      balance |-> balance + amount[p],
                      status |-> StatusFor(balance + amount[p], loanStatus),
                      officer |-> FALSE]
  <2>1. Begin(h, "void", what) /\ state[p] = "live"
    BY <1>4 DEF StartVoid
  <2>2. what.payment = p /\ what.balance = balance + amount[p]
    OBVIOUS
  <2> HIDE DEF what
  <2>3. stage'[h] = "void" /\ held'[h] = what
    BY <2>1, Begun DEF IInv
  <2>4. Exact(h)' /\ PartsFit(h)'
    BY <1>1, <2>1, <2>2, <2>3 DEF Exact, PartsFit
  <2> QED
    BY <1>2, <2>1, <2>4
<1>5. ASSUME NEW p \in Payments, NEW c, NEW a \in Amounts, NEW officer,
             StartCorrection(h, p, c, a, officer)
      PROVE  MoneyInv'
  <2> DEFINE what == [payment |-> p, request |-> c, amount |-> a, parts |-> NoParts,
                      balance |-> balance + amount[p] - a,
                      status |-> StatusFor(balance + amount[p] - a, loanStatus),
                      officer |-> officer]
  <2>1. Begin(h, "gate", what) /\ state[p] # "none"
    BY <1>5 DEF StartCorrection
  <2>2. what.payment = p /\ what.amount = a /\ what.balance = balance + amount[p] - a
    OBVIOUS
  <2> HIDE DEF what
  <2>3. stage'[h] = "gate" /\ held'[h] = what
    BY <2>1, Begun DEF IInv
  <2>4. Exact(h)' /\ PartsFit(h)'
    BY <1>1, <2>1, <2>2, <2>3 DEF Exact, PartsFit
  <2> QED
    BY <1>2, <2>1, <2>4
<1> QED
  BY <1>3, <1>4, <1>5

LEMMA GoOnMoney ==
  ASSUME IInv, Typed, MoneyInv, NEW h \in Requests,
         \/ Gate(h) \/ CheckRequest(h) \/ Stop(h) \/ CommitReview(h) \/ ReturnReport(h)
         \/ \E c \in Corrections : Authorize(h, c)
         \/ \E c \in Corrections, canEdit \in BOOLEAN : StartReview(h, c, "APPROVED", canEdit)
         \/ \E c \in Corrections : StartReview(h, c, "REJECTED", FALSE)
  PROVE  MoneyInv'
<1>1. /\ UNCHANGED <<loan, rows, job, spoilt, voidEdited>>
      /\ balance' = balance /\ state' = state /\ amount' = amount
  BY DEF Gate, CheckRequest, Stop, CommitReview, ReturnReport, Authorize, StartReview,
         loan, rows
<1>2. ASSUME Gate(h) \/ CheckRequest(h)
      PROVE  MoneyInv'
  <2>1. /\ stage[h] \in {"gate", "check"} /\ stage'[h] \in {"check", "correct"}
        /\ held' = held /\ outdated' = outdated
        /\ \A g \in Requests \ {h} : stage'[g] = stage[g]
    BY <1>2 DEF Gate, CheckRequest, IInv, Shape
  <2>2. Exact(h)' /\ PartsFit(h)'
    BY <1>1, <2>1 DEF MoneyInv, Exact, PartsFit, UpToDate
  <2> QED
    BY <1>1, <2>1, <2>2, RequestMoney
<1>3. ASSUME Stop(h) \/ CommitReview(h) \/ ReturnReport(h)
      PROVE  MoneyInv'
  <2>1. Finish(h) /\ outdated' = [outdated EXCEPT ![h] = {}]
    BY <1>3 DEF Stop, CommitReview, ReturnReport
  <2>2. \A y \in Actors \ {h} : outdated'[y] = outdated[y]
    BY <2>1 DEF IInv, Shape
  <2>3. stage'[h] = "idle" /\ Exact(h)' /\ PartsFit(h)'
    BY <2>1, Finished DEF IInv, Exact, PartsFit
  <2> QED
    BY <1>1, <2>1, <2>2, <2>3, Finished, RequestMoney DEF IInv
<1>4. ASSUME NEW step \in {"return", "review"}, NEW what, Begin(h, step, what)
      PROVE  MoneyInv'
  <2>1. stage'[h] = step /\ Exact(h)' /\ PartsFit(h)'
    BY <1>4, Begun DEF IInv, Exact, PartsFit
  <2> QED
    BY <1>1, <1>4, <2>1, Begun, RequestMoney DEF IInv
<1> QED
  BY <1>2, <1>3, <1>4 DEF Authorize, StartReview

LEMMA OtherMoney ==
  ASSUME IInv, Typed, MoneyInv,
         \/ DayPasses \/ ReportMoves \/ (\E p \in Payments : CreateRequest(p))
         \/ UNCHANGED vars
  PROVE  MoneyInv'
<1>1. UNCHANGED <<loan, rows, work, job, spoilt, voidEdited>>
  BY DEF DayPasses, ReportMoves, CreateRequest, vars
<1>2. \A x \in Actors : outdated[x] \subseteq outdated'[x]
  <2>1. CASE ReportMoves
    BY <2>1 DEF ReportMoves
  <2>2. CASE outdated' = outdated
    BY <2>2
  <2> QED
    BY <2>1, <2>2 DEF DayPasses, CreateRequest, vars
<1>3. \A h \in Requests : Exact(h)' /\ PartsFit(h)'
  BY <1>1, <1>2, SameMoney DEF MoneyInv, Exact, PartsFit, UpToDate, Actors, loan, rows, work
<1>4. \A w \in Workers : SeenExact(w)'
  BY <1>1, <1>2 DEF MoneyInv, SeenExact, UpToDate, Actors, loan, job
<1> QED
  BY <1>1, <1>3, <1>4, SameMoney DEF MoneyInv

LEMMA WorkerMoney ==
  ASSUME IInv, Typed, MoneyInv, NEW w \in Workers,
         \/ \E n \in Periods : StartFines(w, n)
         \/ ReadForFine(w) \/ FineFails(w) \/ JobDies(w)
  PROVE  MoneyInv'
<1>1. /\ UNCHANGED <<loan, rows, stage, held, spoilt, voidEdited>>
      /\ balance' = balance /\ w \in Actors /\ w \notin Requests
  BY ActorAssumption DEF StartFines, ReadForFine, FineFails, JobDies, loan, work, Actors
<1>2. \A y \in Actors \ {w} : outdated'[y] = outdated[y]
  BY <1>1 DEF StartFines, ReadForFine, FineFails, JobDies, IInv, Shape
<1>3. \A h \in Requests : Exact(h)' /\ PartsFit(h)'
  BY <1>1, <1>2, SameMoney DEF MoneyInv, Exact, PartsFit, UpToDate, Actors, loan, rows
<1>4. \A v \in Workers : SeenExact(v)'
  <2>1. \A v \in Workers \ {w} : period'[v] = period[v] /\ seen'[v] = seen[v]
    BY DEF StartFines, ReadForFine, FineFails, JobDies, NextPeriod, IInv, Shape
  <2>2. SeenExact(w)'
    <3>1. CASE ReadForFine(w)
      <4>1. CASE UNCHANGED <<period, seen, outdated>>
        BY <1>1, <4>1 DEF MoneyInv, SeenExact, UpToDate
      <4>2. CASE seen' = [seen EXCEPT ![w] = [balance |-> balance, fines |-> finesTotal]]
        BY <1>1, <4>2 DEF SeenExact, IInv, Shape
      <4> QED
        BY <3>1, <4>1, <4>2 DEF ReadForFine
    <3>2. CASE \E n \in Periods : StartFines(w, n)
      BY <1>1, <3>2 DEF StartFines, MoneyInv, SeenExact, UpToDate
    <3>3. CASE FineFails(w) \/ JobDies(w)
      BY <3>3 DEF FineFails, JobDies, NextPeriod, SeenExact, IInv, Shape
    <3> QED
      BY <3>1, <3>2, <3>3
  <2> QED
    BY <1>1, <1>2, <2>1, <2>2 DEF MoneyInv, SeenExact, UpToDate, Actors
<1> QED
  BY <1>1, <1>3, <1>4, SameMoney DEF MoneyInv

-----------------------------------------------------------------------------
(* Steps that write the loan.                                              *)

\* After a write nobody else goes by what it has read without knowing of it.
LEMMA WrittenExact ==
  ASSUME Typed, NEW x \in Actors, NEW bal, NEW st, NEW what \in {"payments", "fines"},
         WriteLoan(x, bal, st, what),
         \A g \in Requests \ {x} : stage'[g] = stage[g],
         \A w \in Workers \ {x} : period'[w] = period[w],
         x \in Requests => stage'[x] = "idle",
         x \in Workers => period'[x] = 0
  PROVE  (\A h \in Requests : Exact(h)') /\ (\A w \in Workers : SeenExact(w)')
<1>1. \A g \in Requests \ {x} :
        stage[g] \in {"record", "void", "gate", "check", "correct"} => ~ UpToDate(g)'
  BY ActorAssumption DEF WriteLoan, Outdate, ReliesOn, UpToDate, Actors
<1>2. \A w \in Workers \ {x} : period[w] # 0 => ~ UpToDate(w)'
  BY DEF WriteLoan, Outdate, ReliesOn, UpToDate, Actors
<1>3. \A h \in Requests : Exact(h)'
  BY <1>1 DEF Exact
<1> QED
  BY <1>2, <1>3 DEF SeenExact

LEMMA CommitExact ==
  ASSUME IInv, Typed, MoneyInv, NEW h \in Requests,
         CommitRecord(h) \/ CommitVoid(h) \/ CommitCorrection(h)
  PROVE  /\ \A g \in Requests : Exact(g)' /\ PartsFit(g)'
         /\ \A w \in Workers : SeenExact(w)'
<1>1. WriteLoan(h, held[h].balance, held[h].status, "payments") /\ Finish(h) /\ UNCHANGED job
  BY DEF CommitRecord, CommitVoid, CommitCorrection
<1>2. h \in Actors /\ h \notin Workers
  BY ActorAssumption DEF Actors
<1>3. stage'[h] = "idle" /\ \A g \in Requests \ {h} : stage'[g] = stage[g]
  BY <1>1, Finished DEF IInv
<1>4. \A w \in Workers : period'[w] = period[w]
  BY <1>1 DEF job
<1>5. \A g \in Requests : PartsFit(g)'
  <2>1. stage'[h] # "record"
    BY <1>3
  <2>2. ASSUME NEW g \in Requests, g # h, stage[g] = "record"
        PROVE  "payments" \in outdated'[g] /\ held'[g] = held[g]
    BY <1>1, <1>2, <2>2, Finished, ActorAssumption
       DEF WriteLoan, Outdate, ReliesOn, Actors, IInv
  <2>3. ASSUME NEW g \in Requests, g # h, stage[g] = "record" PROVE PartsFit(g)'
    BY <2>2, <2>3 DEF MoneyInv, PartsFit
  <2> QED
    BY <1>3, <2>1, <2>3 DEF PartsFit
<1>6. (\A g \in Requests : Exact(g)') /\ (\A w \in Workers : SeenExact(w)')
  BY <1>1, <1>2, <1>3, <1>4, WrittenExact
<1> QED
  BY <1>5, <1>6

\* What was written was exact, unless the history says otherwise.
LEMMA Honest ==
  ASSUME NEW x, "balance" \notin spoilt', Spoils(x) \subseteq spoilt'
  PROVE  UpToDate(x)
BY DEF Spoils, UpToDate

LEMMA RecordMoney ==
  ASSUME Typed, MoneyInv, NEW h \in Requests, CommitRecord(h)
  PROVE  BalanceMatchesRepayments' /\ PartsFitTheDebt'
<1>1. PICK p \in Payments :
        /\ state[p] = "none" /\ state' = [state EXCEPT ![p] = "live"]
        /\ amount' = [amount EXCEPT ![p] = held[h].amount]
        /\ alloc' = [alloc EXCEPT ![p] = held[h].parts]
  BY DEF CommitRecord
<1>2. /\ stage[h] = "record" /\ balance' = held[h].balance
      /\ finesTotal' = finesTotal /\ voidEdited' = voidEdited
      /\ spoilt \subseteq spoilt' /\ Spoils(h) \subseteq spoilt'
      /\ "fines" \notin spoilt => "fines" \notin spoilt'
      /\ "parts" \notin spoilt' => "payments" \notin outdated[h]
  BY DEF CommitRecord, WriteLoan, Spoils
<1> DEFINE a == held[h].amount
           parts == held[h].parts
<1>4. a \in Nat
  <2>1. WorkTyped
    BY TypedParts
  <2> QED
    BY <2>1 DEF WorkTyped, Work
<1>5. /\ parts.fees \in Nat /\ parts.interest \in Nat /\ parts.principal \in Nat
      /\ parts.fees + parts.interest + parts.principal <= a
      /\ "parts" \notin spoilt' =>
           /\ parts.interest <= Uncovered.interest /\ parts.principal <= Uncovered.principal
           /\ "fines" \notin spoilt' => parts.fees <= Uncovered.fees
  <2>1. parts \in Parts
    BY TypedParts DEF WorkTyped, Work
  <2> QED
    BY <1>2, <2>1 DEF Parts, MoneyInv, PartsFit
<1>6. Live' = Live \cup {p} /\ p \notin Live /\ Live \in SUBSET Payments
  BY <1>1, Numbers DEF Live
<1>7. /\ amount' \in [Payments -> Nat] /\ amount'[p] = a
      /\ alloc'[p] = parts
      /\ \A q \in Live : amount'[q] = amount[q] /\ alloc'[q] = alloc[q]
  BY <1>1, <1>4, <1>6, Numbers
<1> HIDE DEF a, parts
<1>8. Paid' = Paid + a
  <2>1. \A q \in Live : amount[q] \in Int /\ amount'[q] = amount[q]
    BY <1>6, <1>7, Numbers
  <2> QED
    BY <1>4, <1>6, <1>7, <2>1, LiveIsFinite, SumExtended DEF Paid
<1>9. ASSUME "balance" \notin spoilt', ~voidEdited' PROVE balance' = Owed'
  <2>1. UpToDate(h) /\ "balance" \notin spoilt /\ ~voidEdited
    BY <1>2, <1>9, Honest
  <2>2. balance' = balance - a
    BY <1>2, <2>1 DEF MoneyInv, Exact, a
  <2>3. balance = Owed
    BY <2>1 DEF MoneyInv, BalanceMatchesRepayments
  <2> QED
    BY <1>2, <1>4, <1>8, <2>2, <2>3, Numbers DEF Owed
<1>10. /\ Fees'[p] = parts.fees /\ Interests'[p] = parts.interest
       /\ Principals'[p] = parts.principal
       /\ \A q \in Live : /\ Fees'[q] = Fees[q] /\ Interests'[q] = Interests[q]
                          /\ Principals'[q] = Principals[q]
                          /\ Fees[q] \in Int /\ Interests[q] \in Int /\ Principals[q] \in Int
  BY <1>6, <1>7, Numbers DEF Fees, Interests, Principals
<1>11. /\ SumFunctionOnSet(Fees', Live') = SumFunctionOnSet(Fees, Live) + parts.fees
       /\ SumFunctionOnSet(Interests', Live') = SumFunctionOnSet(Interests, Live) + parts.interest
       /\ SumFunctionOnSet(Principals', Live')
            = SumFunctionOnSet(Principals, Live) + parts.principal
  <2>1. Fees'[p] \in Int /\ Interests'[p] \in Int /\ Principals'[p] \in Int
    BY <1>5, <1>10
  <2>2. SumFunctionOnSet(Fees', Live \cup {p}) = SumFunctionOnSet(Fees, Live) + Fees'[p]
    BY <1>6, <1>10, <2>1, LiveIsFinite, SumExtended
  <2>3. SumFunctionOnSet(Interests', Live \cup {p})
          = SumFunctionOnSet(Interests, Live) + Interests'[p]
    BY <1>6, <1>10, <2>1, LiveIsFinite, SumExtended
  <2>4. SumFunctionOnSet(Principals', Live \cup {p})
          = SumFunctionOnSet(Principals, Live) + Principals'[p]
    BY <1>6, <1>10, <2>1, LiveIsFinite, SumExtended
  <2> QED
    BY <1>6, <1>10, <2>2, <2>3, <2>4
<1>12. \A q \in Live' :
         alloc'[q].fees + alloc'[q].interest + alloc'[q].principal <= amount'[q]
  BY <1>5, <1>6, <1>7 DEF MoneyInv, PartsFitTheDebt
<1>13. ASSUME "parts" \notin spoilt'
       PROVE  /\ SumFunctionOnSet(Interests', Live') <= Interest
              /\ SumFunctionOnSet(Principals', Live') <= Principal
              /\ "fines" \notin spoilt' => SumFunctionOnSet(Fees', Live') <= finesTotal'
  <2>1. /\ SumFunctionOnSet(Fees, Live) \in Nat /\ SumFunctionOnSet(Interests, Live) \in Nat
        /\ SumFunctionOnSet(Principals, Live) \in Nat
    BY TypedParts, CoveredNat
  <2>2. /\ SumFunctionOnSet(Interests, Live) <= Interest
        /\ SumFunctionOnSet(Principals, Live) <= Principal
        /\ "fines" \notin spoilt' => SumFunctionOnSet(Fees, Live) <= finesTotal
    BY <1>2, <1>13 DEF MoneyInv, PartsFitTheDebt
  <2> DEFINE f == finesTotal - SumFunctionOnSet(Fees, Live)
             i == Interest - SumFunctionOnSet(Interests, Live)
             r == Principal - SumFunctionOnSet(Principals, Live)
  <2>3. /\ f \in Int /\ i \in Nat /\ r \in Nat
        /\ "fines" \notin spoilt' => f \in Nat
    BY <2>1, <2>2, Numbers
  <2>4. /\ Uncovered.fees = Max({0, f}) /\ Uncovered.interest = Max({0, i})
        /\ Uncovered.principal = Max({0, r})
    BY DEF Uncovered
  <2> HIDE DEF f, i, r
  <2>5. /\ Uncovered.interest = i /\ Uncovered.principal = r
        /\ "fines" \notin spoilt' => Uncovered.fees = f
    BY <2>3, <2>4, MaxWithZero
  <2>6. /\ parts.interest <= i /\ parts.principal <= r
        /\ "fines" \notin spoilt' => parts.fees <= f
    BY <1>5, <1>13, <2>5
  <2> QED
    BY <1>2, <1>5, <1>11, <2>1, <2>3, <2>6, Numbers DEF f, i, r
<1>14. PartsFitTheDebt'
  BY <1>12, <1>13 DEF PartsFitTheDebt
<1> QED
  BY <1>9, <1>14 DEF BalanceMatchesRepayments

\* Parts rebuilt over S, which has the live payments in it, fit the debt.
LEMMA RebuiltFits ==
  ASSUME Typed, finesTotal' = finesTotal, NEW S \in SUBSET Payments, Live' \in SUBSET S,
         amount' \in [Payments -> Nat], alloc' = Rebuilt(S, amount')
  PROVE  PartsFitTheDebt'
<1>1. /\ alloc' \in [Payments -> Parts]
      /\ \A p \in S : alloc'[p].fees + alloc'[p].interest + alloc'[p].principal <= amount'[p]
      /\ SumFunctionOnSet(Fees', S) <= finesTotal
      /\ SumFunctionOnSet(Interests', S) <= Interest
      /\ SumFunctionOnSet(Principals', S) <= Principal
  BY Numbers, RebuiltParts DEF Fees, Interests, Principals
<1>2. IsFiniteSet(S) /\ IsFiniteSet(Live')
  BY LiveIsFinite, FS_Subset
<1>3. \A p \in S : Fees'[p] \in Nat /\ Interests'[p] \in Nat /\ Principals'[p] \in Nat
  BY <1>1 DEF Fees, Interests, Principals, Parts
<1>4. /\ SumFunctionOnSet(Fees', Live') <= SumFunctionOnSet(Fees', S)
      /\ SumFunctionOnSet(Interests', Live') <= SumFunctionOnSet(Interests', S)
      /\ SumFunctionOnSet(Principals', Live') <= SumFunctionOnSet(Principals', S)
  BY <1>2, <1>3, SumOfPart
<1>5. /\ SumFunctionOnSet(Fees', Live') \in Nat /\ SumFunctionOnSet(Fees', S) \in Nat
      /\ SumFunctionOnSet(Interests', Live') \in Nat /\ SumFunctionOnSet(Interests', S) \in Nat
      /\ SumFunctionOnSet(Principals', Live') \in Nat
      /\ SumFunctionOnSet(Principals', S) \in Nat
  BY <1>2, <1>3, SumNat
<1>6. /\ SumFunctionOnSet(Fees', Live') <= finesTotal
      /\ SumFunctionOnSet(Interests', Live') <= Interest
      /\ SumFunctionOnSet(Principals', Live') <= Principal
  BY <1>1, <1>4, <1>5, Numbers
<1> QED
  BY <1>1, <1>6 DEF PartsFitTheDebt

LEMMA VoidMoney ==
  ASSUME Typed, MoneyInv, NEW h \in Requests, CommitVoid(h)
  PROVE  BalanceMatchesRepayments' /\ PartsFitTheDebt'
<1> DEFINE p == held[h].payment
<1>1. /\ state' = [state EXCEPT ![p] = "voided"] /\ amount' = amount
      /\ alloc' = Rebuilt(Live \ {p}, amount) /\ stage[h] = "void"
      /\ balance' = held[h].balance /\ h \in Actors
      /\ finesTotal' = finesTotal /\ voidEdited' = voidEdited
  BY DEF CommitVoid, WriteLoan, Actors
<1>2. p \in Payments
  BY <1>1, TypedParts DEF WorkTyped, Aimed
<1>3. Live' = Live \ {p} /\ Live \in SUBSET Payments
  BY <1>1, <1>2, Numbers DEF Live
<1> HIDE DEF p
<1>4. PartsFitTheDebt'
  BY <1>1, <1>3, Numbers, RebuiltFits
<1>5. ASSUME "balance" \notin spoilt', ~voidEdited' PROVE balance' = Owed'
  <2>1. /\ "balance" \notin spoilt /\ ~voidEdited /\ UpToDate(h)
        /\ balance' = held[h].balance
    BY <1>1, <1>5, Honest DEF CommitVoid
  <2>2. p \in Live /\ balance' = balance + amount[p]
    BY <1>1, <1>2, <2>1 DEF MoneyInv, Exact, p, Live
  <2>3. Paid = amount[p] + SumFunctionOnSet(amount, Live \ {p})
    <3>1. \A q \in Live : amount[q] \in Int
      BY <1>3, Numbers
    <3> QED
      BY <2>2, <3>1, LiveIsFinite, SumTakenOut DEF Paid
  <2>4. SumFunctionOnSet(amount, Live \ {p}) \in Nat
    <3>1. \A q \in Live \ {p} : amount[q] \in Nat
      BY <1>3, Numbers
    <3>2. IsFiniteSet(Live \ {p})
      BY <1>3, LiveIsFinite
    <3> QED
      BY <3>1, <3>2, SumNat
  <2>5. Paid' = SumFunctionOnSet(amount, Live \ {p})
    BY <1>1, <1>3 DEF Paid
  <2>6. balance = Owed /\ amount[p] \in Nat
    BY <1>2, <2>1, Numbers DEF MoneyInv, BalanceMatchesRepayments
  <2> QED
    BY <1>1, <2>2, <2>3, <2>4, <2>5, <2>6, Numbers DEF Owed
<1> QED
  BY <1>4, <1>5 DEF BalanceMatchesRepayments

LEMMA CorrectionMoney ==
  ASSUME Typed, MoneyInv, NEW h \in Requests, CommitCorrection(h)
  PROVE  BalanceMatchesRepayments' /\ PartsFitTheDebt'
<1> DEFINE p == held[h].payment
           a == held[h].amount
           S == {q \in Payments : state[q] # "none"}
<1>1. /\ amount' = [amount EXCEPT ![p] = a] /\ alloc' = Rebuilt(S, amount')
      /\ stage[h] = "correct" /\ state' = state
      /\ balance' = held[h].balance /\ h \in Actors
      /\ finesTotal' = finesTotal /\ voidEdited' = (voidEdited \/ state[p] = "voided")
  BY DEF CommitCorrection, WriteLoan, Actors
<1>2. p \in Payments /\ a \in Nat
  BY <1>1, TypedParts DEF WorkTyped, Aimed, Work
<1>3. Live' = Live /\ Live \in SUBSET S /\ S \in SUBSET Payments
  BY <1>1 DEF Live
<1> HIDE DEF p, a, S
<1>4. amount' \in [Payments -> Nat] /\ amount'[p] = a
      /\ \A q \in Payments \ {p} : amount'[q] = amount[q]
  BY <1>1, <1>2, Numbers
<1>5. PartsFitTheDebt'
  BY <1>1, <1>3, <1>4, RebuiltFits
<1>6. ASSUME "balance" \notin spoilt', ~voidEdited' PROVE balance' = Owed'
  <2>1. /\ "balance" \notin spoilt /\ ~voidEdited /\ state[p] # "voided"
        /\ UpToDate(h) /\ balance' = held[h].balance
    BY <1>1, <1>6, Honest DEF CommitCorrection
  <2>2. state[p] # "none" /\ balance' = balance + amount[p] - a
    BY <1>1, <2>1 DEF MoneyInv, Exact, p, a
  <2>3. p \in Live
    BY <1>2, <2>1, <2>2, Numbers DEF Live
  <2>4. Paid' = Paid - amount[p] + a
    <3>1. \A q \in Live : amount[q] \in Int /\ amount'[q] \in Int
      BY <1>3, <1>4, Numbers DEF S
    <3>2. \A q \in Live \ {p} : amount[q] = amount'[q]
      BY <1>3, <1>4 DEF S
    <3> QED
      BY <1>3, <1>4, <2>3, <3>1, <3>2, LiveIsFinite, SumChanged DEF Paid
  <2>5. balance = Owed /\ amount[p] \in Nat
    BY <1>2, <2>1, Numbers DEF MoneyInv, BalanceMatchesRepayments
  <2> QED
    BY <1>1, <1>2, <2>2, <2>4, <2>5, Numbers DEF Owed
<1> QED
  BY <1>5, <1>6 DEF BalanceMatchesRepayments

LEMMA FineMoney ==
  ASSUME IInv, Typed, MoneyInv, NEW w \in Workers, ApplyFine(w)
  PROVE  MoneyInv'
<1>1. /\ WriteLoan(w, seen[w].balance + Fine, "IN_ARREARS", "fines") /\ NextPeriod(w)
      /\ balance' = seen[w].balance + Fine
      /\ finesTotal' = seen[w].fines + Fine /\ period[w] # 0
      /\ UNCHANGED <<rows, work, voidEdited>>
      /\ spoilt \subseteq spoilt' /\ Spoils(w) \subseteq spoilt'
      /\ "parts" \in spoilt' => "parts" \in spoilt
      /\ "fines" \notin spoilt' => "fines" \notin outdated[w]
  BY DEF ApplyFine, WriteLoan, Spoils
<1>2. w \in Actors /\ w \notin Requests
  BY ActorAssumption DEF Actors
<1>3. (\A h \in Requests : Exact(h)') /\ (\A v \in Workers : SeenExact(v)')
  <2>1. period'[w] = 0 /\ \A v \in Workers \ {w} : period'[v] = period[v]
    BY <1>1 DEF NextPeriod, IInv, Shape
  <2> QED
    BY <1>1, <1>2, <2>1, WrittenExact DEF work
<1>4. /\ amount' = amount /\ Live' = Live /\ alloc' = alloc /\ voidEdited' = voidEdited
      /\ Fees' = Fees /\ Interests' = Interests /\ Principals' = Principals
      /\ stage' = stage /\ held' = held
  BY <1>1 DEF rows, work, Live, Fees, Interests, Principals
<1>5. "fines" \notin spoilt' => finesTotal' = finesTotal + Fine
  BY <1>1 DEF IInv, Current
<1>6. ASSUME "balance" \notin spoilt', ~voidEdited' PROVE balance' = Owed'
  <2>1. "balance" \notin spoilt /\ ~voidEdited /\ UpToDate(w)
    BY <1>1, <1>4, <1>6, Honest
  <2>2. seen[w].balance = balance /\ seen[w].fines = finesTotal
    BY <1>1, <2>1 DEF MoneyInv, SeenExact, IInv, Current, UpToDate
  <2>3. balance = Owed
    BY <2>1 DEF MoneyInv, BalanceMatchesRepayments
  <2> QED
    BY <1>1, <1>4, <2>2, <2>3, Numbers DEF Owed, Paid
<1>7. PartsFitTheDebt'
  <2>1. SumFunctionOnSet(Fees, Live) \in Nat
    BY TypedParts, CoveredNat
  <2>2. ASSUME "parts" \notin spoilt', "fines" \notin spoilt'
        PROVE  SumFunctionOnSet(Fees', Live') <= finesTotal'
    <3>1. SumFunctionOnSet(Fees, Live) <= finesTotal
      BY <1>1, <2>2 DEF MoneyInv, PartsFitTheDebt
    <3> QED
      BY <1>4, <1>5, <2>1, <2>2, <3>1, Numbers
  <2> QED
    BY <1>1, <1>4, <2>2 DEF MoneyInv, PartsFitTheDebt
<1>8. \A h \in Requests : PartsFit(h)'
  <2> DEFINE f == finesTotal - SumFunctionOnSet(Fees, Live)
             i == Interest - SumFunctionOnSet(Interests, Live)
             r == Principal - SumFunctionOnSet(Principals, Live)
             g == finesTotal' - SumFunctionOnSet(Fees, Live)
  <2>1. /\ Uncovered.fees = Max({0, f}) /\ Uncovered'.fees = Max({0, g})
        /\ Uncovered'.interest = Uncovered.interest
        /\ Uncovered'.principal = Uncovered.principal
    BY <1>4 DEF Uncovered
  <2>2. f \in Int /\ ("fines" \notin spoilt' => g = f + Fine)
    <3>1. SumFunctionOnSet(Fees, Live) \in Nat
      BY TypedParts, CoveredNat
    <3> QED
      BY <1>5, <3>1, Numbers
  <2> HIDE DEF f, g
  <2>3. ASSUME "fines" \notin spoilt' PROVE Uncovered.fees <= Uncovered'.fees
    <3>1. f \in Int /\ g \in Int /\ g = f + Fine /\ Fine \in Nat
      BY <2>2, <2>3, Numbers
    <3>2. /\ Max({0, f}) = IF f >= 0 THEN f ELSE 0
          /\ Max({0, g}) = IF g >= 0 THEN g ELSE 0
      BY <3>1, MaxWithZero
    <3>3. Max({0, f}) <= Max({0, g})
      BY <3>1, <3>2
    <3> QED
      BY <2>1, <3>3
  <2>4. \A h \in Requests : "payments" \in outdated[h] => "payments" \in outdated'[h]
    BY <1>1, <1>2 DEF WriteLoan, Outdate, Actors
  <2>5. \A h \in Requests : stage[h] = "record" =>
          held[h].parts.fees \in Nat
    BY TypedParts DEF WorkTyped, Work, Parts
  <2>6. Uncovered.fees \in Nat /\ ("fines" \notin spoilt' => Uncovered'.fees \in Nat)
    <3>1. "fines" \notin spoilt' => g \in Int
      BY <2>2, Numbers
    <3> QED
      BY <2>1, <2>2, <3>1, MaxWithZero
  <2> QED
    BY <1>1, <1>4, <2>1, <2>3, <2>4, <2>5, <2>6 DEF MoneyInv, PartsFit
<1>9. BalanceMatchesRepayments'
  BY <1>6 DEF BalanceMatchesRepayments
<1> QED
  BY <1>3, <1>7, <1>8, <1>9 DEF MoneyInv

LEMMA MoneyStep == MoneyInv /\ Typed /\ IInv /\ [Next]_vars => MoneyInv'
<1> SUFFICES ASSUME MoneyInv, Typed, IInv, [Next]_vars PROVE MoneyInv'
  OBVIOUS
<1>1. ASSUME NEW h \in Requests,
             \/ \E a \in Amounts : StartRecord(h, a)
             \/ \E p \in Payments : StartVoid(h, p)
             \/ \E p \in Payments, c \in 0..MaxCorrections, a \in Amounts,
                  officer \in BOOLEAN : StartCorrection(h, p, c, a, officer)
      PROVE  MoneyInv'
  BY <1>1, StartMoney
<1>2. ASSUME NEW h \in Requests,
             \/ \E c \in Corrections, canEdit \in BOOLEAN :
                  StartReview(h, c, "APPROVED", canEdit)
             \/ \E c \in Corrections : StartReview(h, c, "REJECTED", FALSE)
             \/ \E c \in Corrections : Authorize(h, c)
             \/ Gate(h) \/ CheckRequest(h)
             \/ CommitReview(h) \/ ReturnReport(h) \/ Stop(h)
      PROVE  MoneyInv'
  BY <1>2, GoOnMoney
<1>3. ASSUME NEW h \in Requests, CommitRecord(h) \/ CommitVoid(h) \/ CommitCorrection(h)
      PROVE  MoneyInv'
  BY <1>3, CommitExact, RecordMoney, VoidMoney, CorrectionMoney DEF MoneyInv
<1> QED
  BY <1>1, <1>2, <1>3, WorkerMoney, FineMoney, OtherMoney DEF Next

-----------------------------------------------------------------------------
\* The rows have their columns' values and no balance falls below zero, whatever is
\* recorded, voided, corrected and fined (recordRepayment, voidRepayment,
\* applyRepaymentCorrection, applyFinePeriod).
THEOREM LedgerIsTyped == Spec => []TypeOK
<1>1. Spec => []Typed
  BY TypedInit, TypedStep, Invariance, PTL DEF Spec
<1>2. Typed => TypeOK
  BY DEF Typed
<1> QED
  BY <1>1, <1>2, PTL

LEMMA MoneyInvariance == Spec => []MoneyInv
<1>1. Spec => []Typed
  BY TypedInit, TypedStep, Invariance, PTL DEF Spec
<1> QED
  BY <1>1, MoneyInit, MoneyStep, Invariance, PTL DEF Spec

\* As long as no balance is written that was computed from an outdated loan, and no
\* voided payment is corrected, the balance is the debt less the live payments, for any amounts and
\* however the writers interleave (recordRepayment, voidRepayment,
\* applyRepaymentCorrection, applyFinePeriod).
THEOREM BalanceIsTheDebt == Spec => []BalanceMatchesRepayments
<1>1. MoneyInv => BalanceMatchesRepayments
  BY DEF MoneyInv
<1> QED
  BY <1>1, MoneyInvariance, PTL

\* No payment is split into more than its amount.  No more of the interest and of the
\* principal is booked than there is of it, nor of the fines while their total misses
\* none, except between a recording that split its amount before another payment was
\* written and the next void or correction, which rebuilds every split
\* (recordRepayment, rebuildLoanRepaymentState).
THEOREM PartsStayWithinTheDebt == Spec => []PartsFitTheDebt
<1>1. MoneyInv => PartsFitTheDebt
  BY DEF MoneyInv
<1> QED
  BY <1>1, MoneyInvariance, PTL
=============================================================================
