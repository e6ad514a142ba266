----------------------- MODULE RepaymentScheduleProofs -----------------------
(***************************************************************************)
(* What RepaymentSchedule shows on a few loans and a short calendar, for   *)
(* every loan, calendar, amount and fine.                                  *)
(*                                                                         *)
(* The due dates are finitely many, in order, and end with maturity        *)
(* (LoansAreDated), so that a day brings one at most (OneDueDateADay).     *)
(* The walk over them is then told day by day: Overnight is how a loan     *)
(* stands before a day, and OvernightNext what the day makes of it.  In    *)
(* these terms both schedules expect of a day what they expected in the    *)
(* morning less its payments (LessThePaymentsOfTheDay).  The inductive     *)
(* invariant ties the loan row to the payments and says what a day without *)
(* a miss has left.                                                        *)
(***************************************************************************)
EXTENDS RepaymentSchedule, SumTheorems

-----------------------------------------------------------------------------
(* Rounded quotients.                                                      *)

\* A rounded quotient of an amount is an amount.
LEMMA RoundDivNat ==
  ASSUME NEW a \in Nat, NEW b \in Nat \ {0}
  PROVE  RoundDiv(a, b) \in Nat
<1> DEFINE x == 2 * a + b
           y == 2 * b
<1>1. x \in Nat /\ y \in Nat \ {0}
  OBVIOUS
<1> HIDE DEF x, y
<1>2. x \div y \in Nat
  BY <1>1
<1> QED
  BY <1>2 DEF RoundDiv, x, y

-----------------------------------------------------------------------------
(* A finite set of days in order.                                          *)

\* How many days of S have come by d.
Rank(S, d) == Cardinality({e \in S : e <= d})

\* A later day has a higher rank.
LEMMA RankRises ==
  ASSUME NEW S \in SUBSET Int, IsFiniteSet(S), NEW d \in S, NEW e \in S, d < e
  PROVE  Rank(S, d) < Rank(S, e)
<1> DEFINE A == {x \in S : x <= d}
           B == {x \in S : x <= e}
<1>1. IsFiniteSet(B)
  BY FS_Subset
<1>2. ASSUME NEW x \in A PROVE x \in B
  <2>1. x \in Int /\ d \in Int /\ e \in Int /\ x <= d
    OBVIOUS
  <2> QED
    BY <2>1
<1>3. A # B
  OBVIOUS
<1>4. /\ IsFiniteSet(A) /\ Cardinality(A) <= Cardinality(B)
      /\ Cardinality(A) # Cardinality(B)
  <2> HIDE DEF A, B
  <2> QED
    BY <1>1, <1>2, <1>3, FS_Subset
<1>5. Cardinality(A) \in Nat /\ Cardinality(B) \in Nat
  BY <1>1, <1>4, FS_CardinalityType
<1> QED
  BY <1>4, <1>5 DEF Rank

\* The rank of a day of S is one of 1..Cardinality(S).
LEMMA RankType ==
  ASSUME NEW S \in SUBSET Int, IsFiniteSet(S), NEW d \in S
  PROVE  Rank(S, d) \in 1..Cardinality(S)
<1> DEFINE A == {x \in S : x <= d}
<1>1. IsFiniteSet(A) /\ Cardinality(A) <= Cardinality(S)
  BY FS_Subset
<1>2. A # {}
  OBVIOUS
<1>3. Cardinality(A) \in Nat /\ Cardinality(S) \in Nat
  BY <1>1, FS_CardinalityType
<1>4. Cardinality(A) # 0
  <2> HIDE DEF A
  <2> QED
    BY <1>1, <1>2, FS_EmptySet
<1> QED
  BY <1>1, <1>3, <1>4 DEF Rank

\* Every rank up to the number of days is the rank of a day.
LEMMA RankReached ==
  ASSUME NEW S \in SUBSET Int, IsFiniteSet(S), NEW n \in 1..Cardinality(S)
  PROVE  \E d \in S : Rank(S, d) = n
<1> DEFINE c == Cardinality(S)
           T == (1..c) \ {n}
           f == [d \in S |-> Rank(S, d)]
<1>1. c \in Nat
  BY FS_CardinalityType
<1>2. IsFiniteSet(1..c) /\ Cardinality(1..c) = c
  <2> HIDE DEF c
  <2> QED
    BY <1>1, FS_Interval
<1>3. IsFiniteSet(T) /\ Cardinality(T) = c - 1
  BY <1>2, FS_RemoveElement
<1>4. SUFFICES ASSUME \A d \in S : Rank(S, d) # n PROVE FALSE
  OBVIOUS
<1>5. f \in [S -> T]
  BY <1>4, RankType
<1>6. PICK d \in S, e \in S : d # e /\ f[d] = f[e]
  <2> HIDE DEF T, f
  <2>1. Cardinality(T) < Cardinality(S)
    BY <1>1, <1>3
  <2> QED
    BY <1>3, <1>5, <2>1, FS_PigeonHole
<1>7. Rank(S, d) = Rank(S, e) /\ (d < e \/ e < d)
  BY <1>6
<1>8. Rank(S, d) \in Int /\ Rank(S, e) \in Int
  BY RankType
<1> QED
  BY <1>7, <1>8, RankRises

\* InOrder lists all days of S, each later than the one before, the last last.
LEMMA InOrderLists ==
  ASSUME NEW S \in SUBSET Int, IsFiniteSet(S), NEW last \in S,
         \A d \in S : d <= last
  PROVE  /\ InOrder(S) \in [1..Cardinality(S) -> S]
         /\ Cardinality(S) \in Nat \ {0}
         /\ \A m, n \in 1..Cardinality(S) : m < n => InOrder(S)[m] < InOrder(S)[n]
         /\ InOrder(S)[Cardinality(S)] = last
<1> DEFINE c == Cardinality(S)
           f == InOrder(S)
<1>1. c \in Nat \ {0}
  BY FS_CardinalityType, FS_EmptySet
<1>2. ASSUME NEW n \in 1..c PROVE f[n] \in S /\ Rank(S, f[n]) = n
  <2>1. f[n] = CHOOSE d \in S : Rank(S, d) = n
    BY DEF InOrder, Rank
  <2>2. \E d \in S : Rank(S, d) = n
    BY RankReached
  <2> QED
    BY <2>1, <2>2
<1>3. f \in [1..c -> S]
  BY <1>2 DEF InOrder
<1>4. ASSUME NEW m \in 1..c, NEW n \in 1..c, m < n PROVE f[m] < f[n]
  <2>1. CASE f[m] = f[n]
    BY <1>1, <1>2, <1>4, <2>1
  <2>2. CASE f[n] < f[m]
    <3>1. Rank(S, f[n]) < Rank(S, f[m])
      BY <1>2, <2>2, RankRises
    <3> QED
      BY <1>1, <1>2, <1>4, <3>1
  <2>3. f[m] \in Int /\ f[n] \in Int
    BY <1>2
  <2> QED
    BY <2>1, <2>2, <2>3
<1>5. f[c] = last
  <2>1. {e \in S : e <= last} = S
    OBVIOUS
  <2>2. Rank(S, last) = c
    BY <2>1 DEF Rank
  <2>3. f[c] \in S /\ Rank(S, f[c]) = c
    BY <1>1, <1>2
  <2>4. CASE f[c] < last
    <3>1. Rank(S, f[c]) < Rank(S, last)
      BY <2>3, <2>4, RankRises
    <3> QED
      BY <1>1, <2>2, <2>3, <3>1
  <2>5. f[c] <= last /\ f[c] \in Int /\ last \in Int
    BY <2>3
  <2> QED
    BY <2>4, <2>5
<1> QED
  BY <1>1, <1>3, <1>4, <1>5

-----------------------------------------------------------------------------
(* The calendar.                                                           *)

MonthCount == Len(MonthLengths)

\* The days before month n, for every month and the one after the last.
LEMMA FirstOfType ==
  ASSUME NEW n \in 1..MonthCount + 1
  PROVE  /\ FirstOf(n) \in Nat \ {0}
         /\ n <= MonthCount => FirstOf(n + 1) = FirstOf(n) + MonthLengths[n]
<1>1. /\ MonthCount \in Nat
      /\ \A m \in 1..MonthCount : MonthLengths[m] \in Nat \ {0}
  BY ScheduleAssumptions DEF MonthCount
<1>2. IsFiniteSet(1..n - 1) /\ \A m \in 1..n - 1 : MonthLengths[m] \in Nat
  BY <1>1, FS_Interval
<1>3. SumFunctionOnSet(MonthLengths, 1..n - 1) \in Nat
  BY <1>2, SumNat
<1>4. ASSUME n <= MonthCount PROVE FirstOf(n + 1) = FirstOf(n) + MonthLengths[n]
  <2>1. 1..(n + 1) - 1 = (1..n - 1) \cup {n} /\ n \notin 1..n - 1
    OBVIOUS
  <2>2. \A m \in (1..n - 1) \cup {n} : MonthLengths[m] \in Int
    BY <1>1, <1>4
  <2>3. SumFunctionOnSet(MonthLengths, (1..n - 1) \cup {n})
          = SumFunctionOnSet(MonthLengths, 1..n - 1) + MonthLengths[n]
    BY <1>2, <2>1, <2>2, SumPutIn
  <2>4. FirstOf(n + 1) = 1 + SumFunctionOnSet(MonthLengths, (1..n - 1) \cup {n})
    BY <2>1 DEF FirstOf
  <2>5. FirstOf(n) = 1 + SumFunctionOnSet(MonthLengths, 1..n - 1)
    BY DEF FirstOf
  <2>6. MonthLengths[n] \in Nat
    BY <1>1, <1>4
  <2> QED
    BY <1>3, <2>3, <2>4, <2>5, <2>6
<1> QED
  BY <1>3, <1>4 DEF FirstOf

\* A later month begins later.
LEMMA FirstOfRises ==
  ASSUME NEW m \in 1..MonthCount, NEW n \in 1..MonthCount + 1, m < n
  PROVE  FirstOf(m) + MonthLengths[m] <= FirstOf(n)
<1>1. /\ MonthCount \in Nat
      /\ \A i \in 1..MonthCount : MonthLengths[i] \in Nat \ {0}
  BY ScheduleAssumptions DEF MonthCount
<1>2. IsFiniteSet(1..n - 1) /\ \A i \in 1..n - 1 : MonthLengths[i] \in Nat
  BY <1>1, FS_Interval
<1>3. 1..(m + 1) - 1 \in SUBSET (1..n - 1)
  OBVIOUS
<1>4. SumFunctionOnSet(MonthLengths, 1..(m + 1) - 1)
        <= SumFunctionOnSet(MonthLengths, 1..n - 1)
  BY <1>2, <1>3, SumOfPart
<1>5. FirstOf(m + 1) = FirstOf(m) + MonthLengths[m]
  BY <1>1, FirstOfType
<1>6. SumFunctionOnSet(MonthLengths, 1..(m + 1) - 1) \in Int
      /\ SumFunctionOnSet(MonthLengths, 1..n - 1) \in Int
  BY <1>2, <1>3, SumNat, FS_Subset
<1>7. FirstOf(m + 1) <= FirstOf(n)
  BY <1>4, <1>6 DEF FirstOf
<1> QED
  BY <1>5, <1>7

\* The month after the last would begin after the last day.
LEMMA CalendarEnds ==
  LastDay \in Nat /\ FirstOf(MonthCount + 1) = LastDay + 1
<1>1. MonthCount \in Nat /\ DOMAIN MonthLengths = 1..MonthCount
  BY ScheduleAssumptions DEF MonthCount
<1>2. (MonthCount + 1) - 1 = MonthCount
  BY <1>1
<1>3. FirstOf(MonthCount + 1) = 1 + LastDay
  BY <1>1, <1>2 DEF FirstOf, LastDay, SumFunction
<1>4. /\ IsFiniteSet(1..MonthCount)
      /\ \A m \in 1..MonthCount : MonthLengths[m] \in Nat
  <2>1. IsFiniteSet(1..MonthCount)
    BY <1>1, FS_Interval
  <2> QED
    BY <1>1, <2>1, ScheduleAssumptions
<1>5. LastDay \in Nat
  BY <1>1, <1>4, SumNat DEF LastDay, SumFunction
<1> QED
  BY <1>3, <1>5

\* A set of numbers up to a bound has a greatest one.
LEMMA Greatest ==
  ASSUME NEW b \in Nat, NEW S \in SUBSET (0..b), S # {}
  PROVE  \E m \in S : \A n \in S : n <= m
<1> DEFINE R == {b - n : n \in S}
<1>1. R \in SUBSET Nat /\ R # {}
  <2>1. \A n \in S : b - n \in Nat
    OBVIOUS
  <2> QED
    BY <2>1
<1>2. PICK r \in R : \A q \in R : r <= q
  <2> HIDE DEF R
  <2> QED
    BY <1>1, LeastNumber
<1>3. PICK m \in S : r = b - m
  BY <1>2
<1>4. ASSUME NEW n \in S PROVE n <= m
  <2>1. b - n \in R
    OBVIOUS
  <2>2. r <= b - n
    BY <1>2, <2>1
  <2>3. m \in Int /\ n \in Int
    OBVIOUS
  <2> QED
    BY <1>3, <2>2, <2>3
<1> QED
  BY <1>4

\* A day lies in its month.
LEMMA MonthOfDay ==
  ASSUME NEW d \in Days
  PROVE  /\ MonthOf(d) \in 1..MonthCount
         /\ FirstOf(MonthOf(d)) <= d
         /\ d < FirstOf(MonthOf(d)) + MonthLengths[MonthOf(d)]
<1> DEFINE S == {m \in DOMAIN MonthLengths : FirstOf(m) <= d}
           m == MonthOf(d)
<1>1. /\ MonthCount \in Nat /\ DOMAIN MonthLengths = 1..MonthCount
      /\ \A i \in 1..MonthCount : MonthLengths[i] \in Nat \ {0}
  BY ScheduleAssumptions DEF MonthCount
<1>2. d \in Nat /\ 1 <= d /\ d <= LastDay
  BY CalendarEnds DEF Days
<1>3. FirstOf(1) = 1
  <2>1. 1..1 - 1 = {}
    OBVIOUS
  <2> QED
    BY <2>1, SumEmpty DEF FirstOf
<1>4. MonthCount # 0
  BY <1>2, <1>3, CalendarEnds
<1>5. 1 \in S
  BY <1>1, <1>2, <1>3, <1>4
<1>6. S \in SUBSET (0..MonthCount)
  BY <1>1
<1>7. \E x \in S : \A n \in S : x >= n
  <2> HIDE DEF S
  <2>1. PICK x \in S : \A n \in S : n <= x
    BY <1>1, <1>5, <1>6, Greatest
  <2> QED
    BY <1>6, <2>1
<1>8. m \in S /\ \A n \in S : m >= n
  <2> HIDE DEF S
  <2>1. m = CHOOSE x \in S : \A n \in S : x >= n
    BY DEF MonthOf, Max, S
  <2> HIDE DEF m
  <2> QED
    BY <1>7, <2>1
<1>9. m \in 1..MonthCount /\ FirstOf(m) <= d
  BY <1>1, <1>8
<1>10. FirstOf(m + 1) = FirstOf(m) + MonthLengths[m] /\ FirstOf(m + 1) \in Nat
  <2> HIDE DEF m
  <2>1. m \in 1..MonthCount + 1 /\ m + 1 \in 1..MonthCount + 1 /\ m <= MonthCount
    BY <1>1, <1>9
  <2> QED
    BY <2>1, FirstOfType
<1>11. d < FirstOf(m + 1)
  <2> HIDE DEF m
  <2>1. CASE m = MonthCount
    BY <1>2, <2>1, CalendarEnds
  <2>2. CASE m # MonthCount
    <3>1. m + 1 \in DOMAIN MonthLengths /\ ~ (m >= m + 1)
      BY <1>1, <1>9, <2>2
    <3>2. m + 1 \notin S
      BY <1>8, <3>1
    <3> QED
      BY <1>2, <1>10, <3>1, <3>2
  <2> QED
    BY <2>1, <2>2
<1> QED
  BY <1>9, <1>10, <1>11

\* The same day some months on is not before the day itself.
LEMMA AddMonthsLater ==
  ASSUME NEW d \in Days, NEW k \in 0..MonthCount - MonthOf(d)
  PROVE  AddMonths(d, k) \in Int /\ d <= AddMonths(d, k)
<1> DEFINE m == MonthOf(d)
           x == MonthLengths[m + k]
<1>1. /\ m \in 1..MonthCount /\ FirstOf(m) <= d /\ d < FirstOf(m) + MonthLengths[m]
  BY MonthOfDay
<1>2. /\ MonthCount \in Nat
      /\ \A i \in 1..MonthCount : MonthLengths[i] \in Nat \ {0}
  BY ScheduleAssumptions DEF MonthCount
<1>3. d \in Nat
  BY CalendarEnds DEF Days
<1>4. AddMonths(d, k) = FirstOf(m + k) + Lesser(d - FirstOf(m), x - 1)
  BY DEF AddMonths
<1>5. k \in Nat /\ m + k \in 1..MonthCount /\ m \in 1..MonthCount + 1
      /\ m + k \in 1..MonthCount + 1
  <2> HIDE DEF m
  <2>1. k \in 0..MonthCount - m
    BY DEF m
  <2> QED
    BY <1>1, <1>2, <2>1
<1> HIDE DEF m
<1>6. FirstOf(m) \in Nat /\ FirstOf(m + k) \in Nat /\ x \in Nat \ {0}
  BY <1>2, <1>5, FirstOfType
<1>7. CASE k = 0
  <2>1. m + k = m
    BY <1>1, <1>7
  <2> QED
    BY <1>1, <1>3, <1>4, <1>6, <2>1 DEF Lesser
<1>8. CASE k # 0
  <2>1. m < m + k
    BY <1>1, <1>5, <1>8
  <2>2. FirstOf(m) + MonthLengths[m] <= FirstOf(m + k)
    BY <1>1, <1>5, <2>1, FirstOfRises
  <2>3. MonthLengths[m] \in Nat
    BY <1>1, <1>2
  <2> HIDE DEF x
  <2> QED
    BY <1>1, <1>3, <1>4, <1>6, <2>2, <2>3 DEF Lesser
<1> QED
  BY <1>7, <1>8

-----------------------------------------------------------------------------
(* The due dates of an agreement.                                          *)

\* Due dates lie between the start and maturity, and maturity is one.
LEMMA DueDatesWithin ==
  ASSUME NEW l \in Loans
  PROVE  /\ DueDates(l) \subseteq l.start..Maturity(l)
         /\ Maturity(l) \in DueDates(l)
         /\ Maturity(l) \in Int /\ l.start <= Maturity(l)
         /\ Maturity(l) + After <= LastDay
<1>1. /\ l.start \in Nat /\ l.duration \in Nat \ {0} /\ 2 <= l.start
      /\ After \in Nat
      /\ l.start + l.duration - 1 + After <= LastDay
  BY ScheduleAssumptions DEF LastDay
<1>2. /\ Maturity(l) = l.start + l.duration - 1
      /\ Maturity(l) \in Int /\ l.start <= Maturity(l)
      /\ Maturity(l) + After <= LastDay
  BY <1>1, CalendarEnds DEF Maturity
<1>3. l.start \in Days
  BY <1>1, <1>2, CalendarEnds DEF Days
<1>4. OnCadence(l) \subseteq l.start..Maturity(l)
  <2>1. CASE l.cadence = "LUMP_SUM"
    BY <1>1, <1>2, <2>1 DEF OnCadence
  <2>2. CASE l.cadence = "MONTHLY"
    <3> DEFINE later == 0..Len(MonthLengths) - MonthOf(l.start)
    <3>1. \A k \in later : /\ AddMonths(l.start, k) \in Int
                           /\ l.start <= AddMonths(l.start, k)
      BY <1>3, AddMonthsLater DEF MonthCount
    <3>2. OnCadence(l) = {d \in {AddMonths(l.start, k) : k \in later} :
                            d <= Maturity(l)}
      BY <2>2 DEF OnCadence
    <3> HIDE DEF later
    <3> QED
      BY <1>1, <1>2, <3>1, <3>2
  <2>3. CASE l.cadence \notin {"LUMP_SUM", "MONTHLY"}
    <3>1. OnCadence(l) = {d \in l.start..Maturity(l) :
                            (d - l.start) % Interval(l) = 0}
      BY <2>3 DEF OnCadence
    <3> QED
      BY <3>1
  <2> QED
    BY <2>1, <2>2, <2>3
<1>5. DueDates(l) \subseteq OnCadence(l) \cup {Maturity(l)}
  BY DEF DueDates
<1>6. Maturity(l) \in DueDates(l)
  BY DEF DueDates
<1>7. Maturity(l) \in l.start..Maturity(l)
  BY <1>1, <1>2
<1> QED
  BY <1>2, <1>4, <1>5, <1>6, <1>7

\* An agreement with its due dates: rising, within its term, maturity the last.
Dated(l) ==
  /\ l.total \in Nat /\ l.imported \in 0..l.total
  /\ l.start \in Nat \ {0, 1} /\ l.duration \in Nat \ {0}
  /\ Maturity(l) \in Nat /\ l.start <= Maturity(l)
  /\ Maturity(l) + After <= LastDay
  /\ Len(l.dates) \in Nat \ {0}
  /\ DOMAIN l.dates = 1..Len(l.dates)
  /\ \A n \in 1..Len(l.dates) : l.dates[n] \in l.start..Maturity(l)
  /\ \A m, n \in 1..Len(l.dates) : m < n => l.dates[m] < l.dates[n]
  /\ l.dates[Len(l.dates)] = Maturity(l)

\* The agreement that Init takes from the loans.
WithDates(l) ==
  [total |-> l.total, start |-> l.start, duration |-> l.duration,
   imported |-> l.imported, dates |-> ScheduledDates(l)]

LEMMA LoansAreDated ==
  ASSUME NEW l \in Loans
  PROVE  Dated(WithDates(l))
<1> DEFINE w == WithDates(l)
           S == DueDates(l)
           c == Cardinality(S)
<1>1. /\ S \subseteq l.start..Maturity(l) /\ Maturity(l) \in S
      /\ Maturity(l) \in Int /\ l.start <= Maturity(l)
      /\ Maturity(l) + After <= LastDay
  BY DueDatesWithin
<1>2. /\ l.total \in Nat /\ l.imported \in 0..l.total
      /\ l.start \in Nat \ {0, 1} /\ l.duration \in Nat \ {0}
  BY ScheduleAssumptions
<1>3. l.start \in Int
  BY ScheduleAssumptions
<1>4. IsFiniteSet(S) /\ S \in SUBSET Int
  <2> HIDE DEF S
  <2>1. IsFiniteSet(l.start..Maturity(l))
    BY <1>1, <1>3, FS_Interval
  <2>2. S \in SUBSET (l.start..Maturity(l))
    BY <1>1
  <2>3. IsFiniteSet(S)
    BY <2>1, <2>2, FS_Subset
  <2> QED
    BY <1>1, <1>3, <2>3
<1>5. \A d \in S : d <= Maturity(l)
  <2> HIDE DEF S
  <2> QED
    BY <1>1
<1>6. /\ InOrder(S) \in [1..c -> S] /\ c \in Nat \ {0}
      /\ \A m, n \in 1..c : m < n => InOrder(S)[m] < InOrder(S)[n]
      /\ InOrder(S)[c] = Maturity(l)
  <2> HIDE DEF S
  <2> QED
    BY <1>1, <1>4, <1>5, InOrderLists
<1>7. /\ w.total = l.total /\ w.start = l.start /\ w.duration = l.duration
      /\ w.imported = l.imported /\ w.dates = InOrder(S)
      /\ Maturity(w) = Maturity(l)
  BY DEF WithDates, ScheduledDates, Maturity
<1>8. Len(w.dates) = c /\ DOMAIN w.dates = 1..c
  <2> HIDE DEF c, S, w
  <2> QED
    BY <1>6, <1>7
<1>9. \A n \in 1..c : InOrder(S)[n] \in l.start..Maturity(l)
  <2> HIDE DEF S, c
  <2> QED
    BY <1>1, <1>6
<1>10. Maturity(l) \in Nat
  BY <1>1, <1>2
<1> HIDE DEF w, S, c
<1>11. /\ w.total \in Nat /\ w.imported \in 0..w.total
       /\ w.start \in Nat \ {0, 1} /\ w.duration \in Nat \ {0}
       /\ Maturity(w) \in Nat /\ w.start <= Maturity(w)
       /\ Maturity(w) + After <= LastDay
  BY <1>1, <1>2, <1>7, <1>10
<1>12. /\ Len(w.dates) \in Nat \ {0}
       /\ DOMAIN w.dates = 1..Len(w.dates)
       /\ \A n \in 1..Len(w.dates) : w.dates[n] \in w.start..Maturity(w)
  BY <1>6, <1>7, <1>8, <1>9
<1>13. /\ \A m, n \in 1..Len(w.dates) : m < n => w.dates[m] < w.dates[n]
       /\ w.dates[Len(w.dates)] = Maturity(w)
  BY <1>6, <1>7, <1>8
<1>14. Dated(w)
  BY <1>11, <1>12, <1>13 DEF Dated
<1> QED
  BY <1>14 DEF w

-----------------------------------------------------------------------------
(* The due dates that have come.                                           *)

Due(l, d) == Cardinality(Came(l, d))

\* Those that have come by d are the first Due(l, d).
LEMMA CameInOrder ==
  ASSUME NEW l, Dated(l), NEW d \in Int
  PROVE  /\ Due(l, d) \in 0..Len(l.dates)
         /\ \A n \in 1..Len(l.dates) : l.dates[n] <= d <=> n <= Due(l, d)
<1> DEFINE N == Len(l.dates)
           C == Came(l, d)
<1>1. /\ N \in Nat \ {0}
      /\ \A n \in 1..N : l.dates[n] \in Int
      /\ \A m, n \in 1..N : m < n => l.dates[m] < l.dates[n]
  BY DEF Dated
<1>2. C = {n \in 1..N : l.dates[n] <= d}
  BY DEF Dated, Came
<1> HIDE DEF N, C
<1>3. CASE C = {}
  <2>1. Due(l, d) = 0
    BY <1>3, FS_EmptySet DEF Due, C
  <2> QED
    BY <1>1, <1>2, <1>3, <2>1 DEF N
<1>4. CASE C # {}
  <2>1. C \in SUBSET (0..N)
    BY <1>1, <1>2
  <2>2. PICK k \in C : \A n \in C : n <= k
    BY <1>1, <1>4, <2>1, Greatest
  <2>3. k \in 1..N /\ l.dates[k] <= d
    BY <1>2, <2>2
  <2>4. ASSUME NEW n \in 1..N, n <= k PROVE l.dates[n] <= d
    <3>1. n = k \/ l.dates[n] < l.dates[k]
      BY <1>1, <2>3, <2>4
    <3>2. l.dates[n] \in Int /\ l.dates[k] \in Int
      BY <1>1, <2>3
    <3> QED
      BY <2>3, <3>1, <3>2
  <2>5. C = 1..k
    BY <1>1, <1>2, <2>2, <2>3, <2>4
  <2>6. Cardinality(1..k) = k
    BY <1>1, <2>3, FS_Interval
  <2>7. Due(l, d) = k
    BY <2>5, <2>6 DEF Due, C
  <2> QED
    BY <1>1, <1>2, <2>3, <2>5, <2>7 DEF N
<1> QED
  BY <1>3, <1>4

\* From one day to the next at most one due date comes, and it is that day.
LEMMA OneDueDateADay ==
  ASSUME NEW l, Dated(l), NEW d \in Int
  PROVE  \/ /\ Due(l, d) = Due(l, d - 1)
            /\ \A n \in 1..Len(l.dates) : l.dates[n] # d
         \/ /\ Due(l, d - 1) + 1 \in 1..Len(l.dates)
            /\ Due(l, d) = Due(l, d - 1) + 1
            /\ l.dates[Due(l, d)] = d
<1> DEFINE N == Len(l.dates)
           j == Due(l, d - 1)
           k == Due(l, d)
<1>1. /\ N \in Nat \ {0}
      /\ \A n \in 1..N : l.dates[n] \in Int
      /\ \A m, n \in 1..N : m < n => l.dates[m] < l.dates[n]
  BY DEF Dated
<1>2. k \in 0..N /\ \A n \in 1..N : l.dates[n] <= d <=> n <= k
  BY CameInOrder
<1>3. j \in 0..N /\ \A n \in 1..N : l.dates[n] <= d - 1 <=> n <= j
  <2>1. d - 1 \in Int
    OBVIOUS
  <2> QED
    BY <2>1, CameInOrder
<1> HIDE DEF N, j, k
<1>4. j <= k
  BY <1>1, <1>2, <1>3
<1>5. CASE j = k
  <2>1. \A n \in 1..N : l.dates[n] # d
    BY <1>1, <1>2, <1>3, <1>5
  <2> QED
    BY <1>5, <2>1 DEF N, j, k
<1>6. CASE j < k
  <2>1. j + 1 \in 1..N /\ j + 1 <= k
    BY <1>1, <1>2, <1>3, <1>6
  <2>2. l.dates[j + 1] = d
    BY <1>1, <1>2, <1>3, <2>1
  <2>3. ~ (j + 1 < k)
    BY <1>1, <1>2, <1>3, <2>1, <2>2
  <2>4. k = j + 1
    BY <1>1, <1>2, <1>3, <2>1, <2>3
  <2> QED
    BY <2>1, <2>2, <2>4 DEF N, j, k
<1> QED
  BY <1>1, <1>2, <1>3, <1>4, <1>5, <1>6

\* A due date that is today is the last that has come.
LEMMA DueToday ==
  ASSUME NEW l, Dated(l), NEW d \in Int
  PROVE  (Due(l, d) > 0 /\ l.dates[Due(l, d)] = d) <=> Due(l, d) = Due(l, d - 1) + 1
<1>1. /\ Due(l, d) \in 0..Len(l.dates) /\ Due(l, d - 1) \in 0..Len(l.dates)
      /\ Len(l.dates) \in Nat
  <2>1. d - 1 \in Int
    OBVIOUS
  <2>2. Due(l, d) \in 0..Len(l.dates)
    BY CameInOrder
  <2>3. Due(l, d - 1) \in 0..Len(l.dates)
    BY <2>1, CameInOrder
  <2> QED
    BY <2>2, <2>3 DEF Dated
<1> QED
  BY <1>1, OneDueDateADay

-----------------------------------------------------------------------------
(* What is paid per day.                                                   *)

Rows == [Days -> Nat]

LEMMA TotalType ==
  ASSUME NEW rows \in Rows, NEW a \in Nat \ {0}, NEW b \in Int, b <= LastDay
  PROVE  Total(rows, a..b) \in Nat
<1>1. IsFiniteSet(a..b)
  BY FS_Interval
<1>2. \A d \in a..b : rows[d] \in Nat
  BY CalendarEnds DEF Rows, Days
<1> QED
  BY <1>1, <1>2, SumNat DEF Total

\* The days up to m and those from there on.
LEMMA TotalSplit ==
  ASSUME NEW rows \in Rows, NEW a \in Nat \ {0}, NEW b \in Int, b <= LastDay,
         NEW m \in Int, a <= m + 1, m <= b
  PROVE  Total(rows, a..b) = Total(rows, a..m) + Total(rows, m + 1..b)
<1>1. IsFiniteSet(a..b)
  BY FS_Interval
<1>2. \A d \in a..b : rows[d] \in Int
  BY CalendarEnds DEF Rows, Days
<1>3. a..m \in SUBSET (a..b) /\ (a..b) \ (a..m) = m + 1..b
  OBVIOUS
<1> QED
  BY <1>1, <1>2, <1>3, SumSplit DEF Total

LEMMA TotalOfNone ==
  ASSUME NEW rows, NEW a \in Int, NEW b \in Int, b < a
  PROVE  Total(rows, a..b) = 0
<1>1. a..b = {}
  OBVIOUS
<1> QED
  BY <1>1, SumEmpty DEF Total

LEMMA TotalOfDay ==
  ASSUME NEW rows \in Rows, NEW d \in Days
  PROVE  Total(rows, d..d) = rows[d]
<1>1. d..d = {d} /\ rows[d] \in Int
  BY CalendarEnds DEF Rows, Days
<1> QED
  BY <1>1, SumOne DEF Total

\* The day itself on top of the days before it.
LEMMA TotalWithDay ==
  ASSUME NEW rows \in Rows, NEW a \in Nat \ {0}, NEW d \in Days, a <= d
  PROVE  Total(rows, a..d) = Total(rows, a..d - 1) + rows[d]
<1>1. /\ d \in Int /\ d <= LastDay /\ (d - 1) + 1 = d
      /\ d - 1 \in Int /\ a <= (d - 1) + 1 /\ d - 1 <= d
  BY CalendarEnds DEF Days
<1>2. Total(rows, a..d) = Total(rows, a..d - 1) + Total(rows, (d - 1) + 1..d)
  BY <1>1, TotalSplit
<1> QED
  BY <1>1, <1>2, TotalOfDay

LEMMA TotalSame ==
  ASSUME NEW f, NEW g, NEW a \in Int, NEW b \in Int, \A d \in a..b : f[d] = g[d]
  PROVE  Total(f, a..b) = Total(g, a..b)
<1>1. IsFiniteSet(a..b)
  BY FS_Interval
<1> QED
  BY <1>1, SumSame DEF Total

-----------------------------------------------------------------------------
(* A payment, and a due date.                                              *)

LEMMA AfterPayment ==
  ASSUME NEW w \in Standing, NEW amount \in Nat, NEW due \in Nat
  PROVE  /\ ApplyPayment(w, amount, due) \in Standing
         /\ ApplyPayment(w, amount, due).balance = Pos(w.balance - amount)
         /\ ApplyPayment(w, amount, due).arrears
              = Pos(due - Lesser(w.balance, amount))
<1> DEFINE applied == Lesser(w.balance, amount)
           r == ApplyPayment(w, amount, due)
<1>1. /\ w.balance \in Nat /\ w.balance - applied = Pos(w.balance - amount)
      /\ w.balance - applied \in Nat
  BY DEF Standing, Lesser, Pos
<1>2. Pos(due - applied) \in Nat
  BY DEF Standing, Lesser, Pos
<1>3. r = [w EXCEPT !.balance = w.balance - applied, !.arrears = Pos(due - applied)]
  BY DEF ApplyPayment
<1> HIDE DEF applied, r
<1>4. /\ r \in Standing /\ r.balance = w.balance - applied
      /\ r.arrears = Pos(due - applied)
  BY <1>1, <1>2, <1>3 DEF Standing
<1> QED
  BY <1>1, <1>4 DEF r, applied

LEMMA ScheduledNat ==
  ASSUME NEW w \in Standing, NEW N \in Nat, NEW n \in 1..N
  PROVE  Scheduled(w, n, N) \in Nat
BY DEF Scheduled, Standing, Pos

LEMMA AfterDueDate ==
  ASSUME NEW w \in Standing, NEW N \in Nat, NEW n \in 1..N,
         NEW before \in Nat, NEW same \in Nat
  PROVE  LET v == ApplyPayment(w, before, w.arrears)
         IN  /\ OnDueDate(w, n, N, before, same) \in Standing
             /\ OnDueDate(w, n, N, before, same).balance = Pos(v.balance - same)
             /\ OnDueDate(w, n, N, before, same).arrears
                  = Pos((v.arrears + Scheduled(v, n, N)) - Lesser(v.balance, same))
<1> DEFINE v == ApplyPayment(w, before, w.arrears)
           scheduled == Scheduled(v, n, N)
           due == v.arrears + scheduled
           end == ApplyPayment(v, same, due)
           next == IF Lesser(v.balance, same) > due /\ n < N
                   THEN RoundDiv(Pos(end.balance - end.arrears), N - n)
                   ELSE end.instalment
           r == OnDueDate(w, n, N, before, same)
<1>1. w.arrears \in Nat
  BY DEF Standing
<1>2. v \in Standing
  BY <1>1, AfterPayment
<1> HIDE DEF v
<1>3. scheduled \in Nat /\ v.arrears \in Nat /\ v.balance \in Nat
  BY <1>2, ScheduledNat DEF Standing
<1>4. due \in Nat
  BY <1>3
<1> HIDE DEF due, scheduled
<1>5. /\ end \in Standing /\ end.balance = Pos(v.balance - same)
      /\ end.arrears = Pos(due - Lesser(v.balance, same))
  BY <1>2, <1>4, AfterPayment
<1> HIDE DEF end
<1>6. next \in Nat
  <2>1. end.instalment \in Nat /\ Pos(end.balance - end.arrears) \in Nat
    BY <1>5 DEF Standing, Pos
  <2>2. CASE n < N
    <3>1. N - n \in Nat \ {0}
      BY <2>2
    <3>2. RoundDiv(Pos(end.balance - end.arrears), N - n) \in Nat
      BY <2>1, <3>1, RoundDivNat
    <3> QED
      BY <2>1, <3>2
  <2>3. CASE ~ (n < N)
    BY <2>1, <2>3
  <2> QED
    BY <2>2, <2>3
<1>7. r = [end EXCEPT !.scheduled = scheduled, !.carried = v.arrears,
                      !.instalment = next]
  BY DEF OnDueDate, v, scheduled, due, end
<1> HIDE DEF next, r
<1>8. /\ r \in Standing /\ r.balance = end.balance /\ r.arrears = end.arrears
  BY <1>3, <1>5, <1>6, <1>7 DEF Standing
<1>9. r.arrears = Pos((v.arrears + Scheduled(v, n, N)) - Lesser(v.balance, same))
  <2>1. due = v.arrears + Scheduled(v, n, N)
    BY DEF due, scheduled
  <2> QED
    BY <1>5, <1>8, <2>1
<1> QED
  BY <1>5, <1>8, <1>9 DEF r, v

\* What is carried into a due date is what the payments before it have left.
LEMMA CarriedIn ==
  ASSUME NEW w \in Standing, NEW N \in Nat, NEW n \in 1..N,
         NEW before \in Nat, NEW same \in Nat
  PROVE  OnDueDate(w, n, N, before, same).carried
           = ApplyPayment(w, before, w.arrears).arrears
BY DEF OnDueDate

-----------------------------------------------------------------------------
(* The walk over the due dates.                                            *)

LEMMA DateTypes ==
  ASSUME NEW l, Dated(l), NEW n \in 1..Len(l.dates)
  PROVE  /\ l.dates[n] \in Days /\ l.dates[n] \in Nat \ {0}
         /\ l.dates[n] <= LastDay /\ l.dates[n] <= Maturity(l)
         /\ l.start <= l.dates[n]
         /\ DayAfter(l, n) = l.dates[n] + 1
         /\ DayAfter(l, n - 1) \in Nat \ {0} /\ DayAfter(l, n - 1) <= l.dates[n]
<1>1. /\ Len(l.dates) \in Nat \ {0} /\ l.start \in Nat \ {0, 1}
      /\ Maturity(l) \in Nat /\ Maturity(l) + After <= LastDay
      /\ After \in Nat /\ LastDay \in Nat
  BY ScheduleAssumptions, CalendarEnds DEF Dated
<1>2. \A m \in 1..Len(l.dates) : l.dates[m] \in l.start..Maturity(l)
  BY DEF Dated
<1>3. l.dates[n] \in Days /\ l.dates[n] \in Nat \ {0} /\ l.dates[n] <= LastDay
      /\ l.dates[n] <= Maturity(l) /\ l.start <= l.dates[n]
  BY <1>1, <1>2 DEF Days
<1>4. DayAfter(l, n) = l.dates[n] + 1
  BY DEF DayAfter
<1>5. CASE n = 1
  BY <1>3, <1>4, <1>5 DEF DayAfter
<1>6. CASE n # 1
  <2>1. n - 1 \in 1..Len(l.dates) /\ n - 1 < n /\ n - 1 # 0
    BY <1>1, <1>6
  <2>2. l.dates[n - 1] \in l.start..Maturity(l) /\ l.dates[n - 1] < l.dates[n]
    BY <1>2, <2>1 DEF Dated
  <2>3. DayAfter(l, n - 1) = l.dates[n - 1] + 1
    BY <2>1 DEF DayAfter
  <2>4. l.dates[n - 1] \in Nat
    BY <1>1, <2>2
  <2>5. DayAfter(l, n - 1) \in Nat \ {0} /\ DayAfter(l, n - 1) <= l.dates[n]
    BY <1>3, <2>2, <2>3, <2>4
  <2> QED
    BY <1>3, <1>4, <2>5
<1> QED
  BY <1>5, <1>6

LEMMA BetweenType ==
  ASSUME NEW l, Dated(l), NEW rows \in Rows, NEW n \in 1..Len(l.dates)
  PROVE  Between(l, rows, n) \in Nat /\ rows[l.dates[n]] \in Nat
<1>1. /\ l.dates[n] \in Days /\ l.dates[n] \in Nat /\ l.dates[n] - 1 \in Int
      /\ l.dates[n] - 1 <= LastDay /\ DayAfter(l, n - 1) \in Nat \ {0}
  BY DateTypes, CalendarEnds
<1> QED
  BY <1>1, TotalType DEF Between, Rows

\* The function g is the walk over the first m due dates.
Walks(g, l, rows, m) ==
  g = [n \in 0..m |-> IF n = 0 THEN AtStart(l) ELSE Step(l, rows, n)[g[n - 1]]]

LEMMA WalksExist ==
  ASSUME NEW l, NEW rows, NEW N \in Nat
  PROVE  \E g : Walks(g, l, rows, N)
<1> DEFINE Without == {n \in Nat : ~ \E g : Walks(g, l, rows, n)}
<1>1. Walks([n \in {0} |-> AtStart(l)], l, rows, 0)
  <2>1. 0..0 = {0}
    OBVIOUS
  <2> QED
    BY <2>1 DEF Walks
<1>2. ASSUME NEW m \in Nat, NEW g, Walks(g, l, rows, m)
      PROVE  \E h : Walks(h, l, rows, m + 1)
  <2> DEFINE h == [n \in 0..m + 1 |-> IF n = 0 THEN AtStart(l)
                                      ELSE Step(l, rows, n)[g[n - 1]]]
  <2>1. ASSUME NEW n \in 0..m PROVE h[n] = g[n]
    <3>1. g[n] = IF n = 0 THEN AtStart(l) ELSE Step(l, rows, n)[g[n - 1]]
      BY <1>2 DEF Walks
    <3> QED
      BY <3>1
  <2>2. \A n \in 0..m + 1 : n # 0 => n - 1 \in 0..m
    OBVIOUS
  <2>3. Walks(h, l, rows, m + 1)
    BY <2>1, <2>2 DEF Walks
  <2> QED
    BY <2>3
<1>3. Without = {}
  <2> SUFFICES ASSUME Without # {} PROVE FALSE
    OBVIOUS
  <2>1. PICK n \in Without : \A m \in Without : n <= m
    <3>1. Without \in SUBSET Nat
      OBVIOUS
    <3> HIDE DEF Without
    <3> QED
      BY <3>1, LeastNumber
  <2>2. n # 0
    BY <1>1, <2>1
  <2>3. n - 1 \in Nat /\ n - 1 \notin Without
    BY <2>1, <2>2
  <2>4. \E g : Walks(g, l, rows, (n - 1) + 1)
    BY <1>2, <2>3
  <2>5. (n - 1) + 1 = n
    BY <2>1
  <2> QED
    BY <2>1, <2>4, <2>5
<1> QED
  BY <1>3

\* The walk begins with the debt and takes one step per due date.
LEMMA WalkSteps ==
  ASSUME NEW l, Dated(l), NEW rows
  PROVE  /\ Walk(l, rows)[0] = AtStart(l)
         /\ \A n \in 1..Len(l.dates) :
              Walk(l, rows)[n - 1] \in Standing =>
                Walk(l, rows)[n]
                  = OnDueDate(Walk(l, rows)[n - 1], n, Len(l.dates),
                              Between(l, rows, n), rows[l.dates[n]])
<1> DEFINE N == Len(l.dates)
           g == CHOOSE h : Walks(h, l, rows, N)
<1>1. N \in Nat /\ DOMAIN l.dates = 1..N
  BY DEF Dated
<1>2. Walks(g, l, rows, N)
  <2> HIDE DEF N
  <2> QED
    BY <1>1, WalksExist
<1>3. Walk(l, rows) = g
  BY DEF Walk, Walks
<1> HIDE DEF g
<1>4. \A n \in 0..N :
        g[n] = IF n = 0 THEN AtStart(l) ELSE Step(l, rows, n)[g[n - 1]]
  BY <1>2 DEF Walks
<1>5. ASSUME NEW n \in 1..N, g[n - 1] \in Standing
      PROVE  g[n] = OnDueDate(g[n - 1], n, N, Between(l, rows, n), rows[l.dates[n]])
  <2>1. g[n] = Step(l, rows, n)[g[n - 1]]
    BY <1>1, <1>4
  <2> QED
    BY <1>1, <1>5, <2>1 DEF Step
<1>6. g[0] = AtStart(l)
  BY <1>1, <1>4
<1> QED
  BY <1>3, <1>5, <1>6

\* A loan stands as it should at the start and after every due date.
LEMMA WalkType ==
  ASSUME NEW l, Dated(l), NEW rows \in Rows
  PROVE  \A n \in 0..Len(l.dates) : Walk(l, rows)[n] \in Standing
<1> DEFINE N == Len(l.dates)
           W(n) == Walk(l, rows)[n]
           Bad == {n \in 0..N : W(n) \notin Standing}
<1>1. N \in Nat \ {0} /\ l.total \in Nat
  BY DEF Dated
<1>2. AtStart(l) \in Standing
  <2>1. Contractual(l) \in Nat
    BY <1>1, RoundDivNat DEF Contractual
  <2> QED
    BY <1>1, <2>1 DEF AtStart, Standing
<1>3. ASSUME NEW n \in Bad, \A m \in Bad : n <= m PROVE FALSE
  <2>1. n # 0
    BY <1>2, <1>3, WalkSteps
  <2>2. n \in 1..N /\ n - 1 \in 0..N
    BY <1>1, <1>3, <2>1
  <2>3. W(n - 1) \in Standing
    BY <1>1, <1>3, <2>2
  <2>4. W(n) = OnDueDate(W(n - 1), n, N, Between(l, rows, n), rows[l.dates[n]])
    BY <2>2, <2>3, WalkSteps
  <2>5. Between(l, rows, n) \in Nat /\ rows[l.dates[n]] \in Nat
    BY <2>2, BetweenType
  <2>6. OnDueDate(W(n - 1), n, N, Between(l, rows, n), rows[l.dates[n]]) \in Standing
    <3> HIDE DEF N, W
    <3> QED
      BY <1>1, <2>2, <2>3, <2>5, AfterDueDate
  <2> QED
    BY <1>3, <2>4, <2>6
<1>4. Bad \in SUBSET Nat
  BY <1>1
<1>5. Bad = {}
  <2> HIDE DEF Bad
  <2> QED
    BY <1>3, <1>4, LeastNumber
<1> QED
  BY <1>5

\* What the n-th due date makes of the standing before it.
LEMMA WalkNext ==
  ASSUME NEW l, Dated(l), NEW rows \in Rows, NEW n \in 1..Len(l.dates)
  PROVE  LET w == Walk(l, rows)[n - 1]
             v == ApplyPayment(w, Between(l, rows, n), w.arrears)
             r == Walk(l, rows)[n]
             same == rows[l.dates[n]]
         IN  /\ v \in Standing
             /\ v.balance = Pos(w.balance - Between(l, rows, n))
             /\ r.balance = Pos(v.balance - same)
             /\ r.arrears = Pos((v.arrears + Scheduled(v, n, Len(l.dates)))
                                  - Lesser(v.balance, same))
             /\ r.carried = v.arrears
<1> DEFINE N == Len(l.dates)
           w == Walk(l, rows)[n - 1]
           b == Between(l, rows, n)
           same == rows[l.dates[n]]
           v == ApplyPayment(w, b, w.arrears)
           r == Walk(l, rows)[n]
<1>1. N \in Nat \ {0} /\ n \in 1..N
  BY DEF Dated
<1>2. n - 1 \in 0..N
  BY <1>1
<1>3. w \in Standing
  BY <1>2, WalkType
<1>4. b \in Nat /\ same \in Nat
  BY BetweenType
<1>5. r = OnDueDate(w, n, N, b, same)
  BY <1>3, WalkSteps
<1> HIDE DEF N, w, b, same, r
<1>6. w.arrears \in Nat
  BY <1>3 DEF Standing
<1>7. v \in Standing /\ v.balance = Pos(w.balance - b)
  BY <1>3, <1>4, <1>6, AfterPayment
<1> HIDE DEF v
<1>8. v = ApplyPayment(w, b, w.arrears)
  BY DEF v
<1>9. /\ r.balance = Pos(v.balance - same)
      /\ r.arrears = Pos((v.arrears + Scheduled(v, n, N)) - Lesser(v.balance, same))
      /\ r.carried = v.arrears
  <2>1. N \in Nat /\ n \in 1..N /\ b \in Nat /\ same \in Nat
    BY <1>1, <1>4
  <2> DEFINE q == OnDueDate(w, n, N, b, same)
  <2>2. q.balance = Pos(v.balance - same)
    BY <1>3, <1>8, <2>1, AfterDueDate, Zenon
  <2>3. q.arrears = Pos((v.arrears + Scheduled(v, n, N)) - Lesser(v.balance, same))
    BY <1>3, <1>8, <2>1, AfterDueDate, Zenon
  <2>4. q.carried = v.arrears
    BY <1>3, <1>8, <2>1, CarriedIn, Zenon
  <2> QED
    BY <1>5, <2>2, <2>3, <2>4
<1> QED
  BY <1>7, <1>9 DEF N, w, b, same, r, v

\* The walk takes off the debt all that is paid up to the due date.
LEMMA WalkPaid ==
  ASSUME NEW l, Dated(l), NEW rows \in Rows
  PROVE  \A n \in 0..Len(l.dates) :
           Walk(l, rows)[n].balance = Pos(l.total - Total(rows, 1..DayAfter(l, n) - 1))
<1> DEFINE N == Len(l.dates)
           W(n) == Walk(l, rows)[n].balance
           T(n) == Total(rows, 1..DayAfter(l, n) - 1)
           Bad == {n \in 0..N : W(n) # Pos(l.total - T(n))}
<1>1. N \in Nat \ {0} /\ l.total \in Nat
  BY DEF Dated
<1>2. W(0) = Pos(l.total - T(0))
  <2>1. W(0) = l.total
    <3>1. Walk(l, rows)[0] = AtStart(l)
      BY WalkSteps
    <3> QED
      BY <3>1 DEF AtStart
  <2>2. DayAfter(l, 0) - 1 = 0
    BY DEF DayAfter
  <2>3. T(0) = 0
    BY <2>2, TotalOfNone
  <2> QED
    BY <1>1, <2>1, <2>3 DEF Pos
<1>3. ASSUME NEW n \in Bad, \A m \in Bad : n <= m PROVE FALSE
  <2>1. n # 0
    BY <1>2, <1>3
  <2>2. n \in 1..N /\ n - 1 \in 0..N
    BY <1>1, <1>3, <2>1
  <2>3. W(n - 1) = Pos(l.total - T(n - 1))
    BY <1>1, <1>3, <2>2
  <2> DEFINE b == Between(l, rows, n)
             d == l.dates[n]
             a == DayAfter(l, n - 1)
  <2>4. W(n) = Pos(Pos(W(n - 1) - b) - rows[d])
    BY <2>2, WalkNext
  <2>5. b \in Nat /\ rows[d] \in Nat
    BY <2>2, BetweenType
  <2>6. /\ d \in Days /\ d \in Nat \ {0} /\ d <= LastDay
        /\ DayAfter(l, n) = d + 1 /\ a \in Nat \ {0} /\ a <= d
    BY <2>2, DateTypes
  <2>7. T(n) = T(n - 1) + b + rows[d]
    <3>1. DayAfter(l, n) - 1 = d
      BY <2>6
    <3>2. T(n) = Total(rows, 1..d - 1) + rows[d]
      <4> HIDE DEF d
      <4> QED
        BY <2>6, <3>1, TotalWithDay
    <3>3. /\ d - 1 \in Int /\ d - 1 <= LastDay /\ a - 1 \in Int /\ 1 <= (a - 1) + 1
          /\ a - 1 <= d - 1 /\ (a - 1) + 1 = a
      BY <2>6, CalendarEnds
    <3>4. Total(rows, 1..d - 1) = Total(rows, 1..a - 1) + Total(rows, (a - 1) + 1..d - 1)
      <4> HIDE DEF d, a
      <4> QED
        BY <3>3, TotalSplit
    <3>5. Total(rows, a..d - 1) = b
      BY DEF Between
    <3>6. Total(rows, 1..d - 1) = T(n - 1) + b
      BY <3>3, <3>4, <3>5
    <3>7. T(n - 1) \in Nat
      <4>1. a - 1 <= LastDay
        BY <2>6, <3>3, CalendarEnds
      <4> HIDE DEF a
      <4>2. Total(rows, 1..a - 1) \in Nat
        BY <3>3, <4>1, TotalType
      <4> QED
        BY <4>2 DEF a
    <3> HIDE DEF T, b, d
    <3> QED
      BY <2>5, <3>2, <3>6, <3>7
  <2>8. T(n - 1) \in Nat
    <3>1. a - 1 \in Int /\ a - 1 <= LastDay
      BY <2>6, CalendarEnds
    <3> HIDE DEF a
    <3>2. Total(rows, 1..a - 1) \in Nat
      BY <3>1, TotalType
    <3> QED
      BY <3>2 DEF a
  <2>9. W(n) = Pos(l.total - T(n))
    <3> HIDE DEF T, W, b, d
    <3> QED
      BY <1>1, <2>3, <2>4, <2>5, <2>7, <2>8 DEF Pos
  <2> QED
    BY <1>3, <2>9
<1>4. Bad \in SUBSET Nat
  BY <1>1
<1>5. Bad = {}
  <2> HIDE DEF Bad
  <2> QED
    BY <1>3, <1>4, LeastNumber
<1> QED
  BY <1>5

\* The last due date asks for all that is left.
LEMMA WalkEnd ==
  ASSUME NEW l, Dated(l), NEW rows \in Rows
  PROVE  Walk(l, rows)[Len(l.dates)].balance <= Walk(l, rows)[Len(l.dates)].arrears
<1> DEFINE N == Len(l.dates)
           w == Walk(l, rows)[N - 1]
           v == ApplyPayment(w, Between(l, rows, N), w.arrears)
           r == Walk(l, rows)[N]
           same == rows[l.dates[N]]
<1>1. N \in 1..N /\ N \in Nat
  BY DEF Dated
<1>2. /\ v \in Standing /\ r.balance = Pos(v.balance - same)
      /\ r.arrears = Pos((v.arrears + Scheduled(v, N, N)) - Lesser(v.balance, same))
  BY <1>1, WalkNext
<1>3. same \in Nat
  BY <1>1, BetweenType
<1> HIDE DEF v, same, r, N
<1>4. v.balance \in Nat /\ v.arrears \in Nat
  BY <1>2 DEF Standing
<1>5. Scheduled(v, N, N) = Pos(v.balance - v.arrears)
  BY DEF Scheduled
<1>6. r.balance <= r.arrears
  BY <1>2, <1>3, <1>4, <1>5 DEF Pos, Lesser
<1> QED
  BY <1>6 DEF r, N

\* What is paid after a due date leaves the standing on it as it was.
LEMMA WalkSame ==
  ASSUME NEW l, Dated(l), NEW f \in Rows, NEW g \in Rows, NEW last \in Int,
         \A d \in 1..last : f[d] = g[d]
  PROVE  \A n \in 0..Len(l.dates) :
           DayAfter(l, n) - 1 <= last => Walk(l, f)[n] = Walk(l, g)[n]
<1> DEFINE N == Len(l.dates)
           Bad == {n \in 0..N : /\ DayAfter(l, n) - 1 <= last
                                /\ Walk(l, f)[n] # Walk(l, g)[n]}
<1>1. N \in Nat \ {0}
  BY DEF Dated
<1>2. ASSUME NEW n \in Bad, \A m \in Bad : n <= m PROVE FALSE
  <2>1. n # 0
    BY <1>2, WalkSteps
  <2>2. n \in 1..N /\ n - 1 \in 0..N
    BY <1>1, <1>2, <2>1
  <2> DEFINE d == l.dates[n]
             a == DayAfter(l, n - 1)
  <2>3. /\ d \in Nat \ {0} /\ DayAfter(l, n) = d + 1 /\ a \in Nat \ {0} /\ a <= d
    BY <2>2, DateTypes
  <2>4. DayAfter(l, n) - 1 <= last
    BY <1>2
  <2>5. d <= last /\ a - 1 <= last
    BY <2>3, <2>4
  <2>6. n - 1 \notin Bad
    BY <1>1, <1>2, <2>2
  <2>7. Walk(l, f)[n - 1] = Walk(l, g)[n - 1]
    BY <2>2, <2>5, <2>6
  <2>8. f[d] = g[d]
    BY <2>3, <2>5
  <2>9. Between(l, f, n) = Between(l, g, n)
    <3> HIDE DEF d, a
    <3>1. \A x \in a..d - 1 : f[x] = g[x]
      BY <2>3, <2>5
    <3>2. d - 1 \in Int /\ a \in Int
      BY <2>3
    <3>3. Total(f, a..d - 1) = Total(g, a..d - 1)
      BY <3>1, <3>2, TotalSame
    <3> QED
      BY <3>3 DEF Between, a, d
  <2>10. Walk(l, f)[n - 1] \in Standing /\ Walk(l, g)[n - 1] \in Standing
    BY <2>2, WalkType
  <2>11. /\ Walk(l, f)[n] = OnDueDate(Walk(l, f)[n - 1], n, N, Between(l, f, n), f[d])
         /\ Walk(l, g)[n] = OnDueDate(Walk(l, g)[n - 1], n, N, Between(l, g, n), g[d])
    BY <2>2, <2>10, WalkSteps
  <2> QED
    BY <1>2, <2>7, <2>8, <2>9, <2>11
<1>3. Bad \in SUBSET Nat
  BY <1>1
<1>4. Bad = {}
  <2> HIDE DEF Bad
  <2> QED
    BY <1>2, <1>3, LeastNumber
<1> QED
  BY <1>4

-----------------------------------------------------------------------------
(* How a loan stands overnight, before the due date and payments of a day. *)

Overnight(l, rows, d) ==
  LET k == Due(l, d - 1)
      w == Walk(l, rows)[k]
  IN  ApplyPayment(w, Total(rows, DayAfter(l, k)..d - 1), w.arrears)

\* The days after the last due date and before d.
LEMMA SinceLastDue ==
  ASSUME NEW l, Dated(l), NEW d \in Nat \ {0}, d <= LastDay + 1
  PROVE  /\ Due(l, d - 1) \in 0..Len(l.dates)
         /\ DayAfter(l, Due(l, d - 1)) \in Nat \ {0}
         /\ DayAfter(l, Due(l, d - 1)) <= d
         /\ d - 1 \in Nat /\ d - 1 <= LastDay
<1> DEFINE k == Due(l, d - 1)
<1>1. d - 1 \in Nat /\ d - 1 <= LastDay
  BY CalendarEnds
<1>2. /\ k \in 0..Len(l.dates)
      /\ \A n \in 1..Len(l.dates) : l.dates[n] <= d - 1 <=> n <= k
  <2>1. d - 1 \in Int
    BY <1>1
  <2> QED
    BY <2>1, CameInOrder
<1>3. Len(l.dates) \in Nat
  BY DEF Dated
<1> HIDE DEF k
<1>4. ASSUME k = 0 PROVE DayAfter(l, k) \in Nat \ {0} /\ DayAfter(l, k) <= d
  BY <1>4 DEF DayAfter
<1>5. ASSUME k # 0 PROVE DayAfter(l, k) \in Nat \ {0} /\ DayAfter(l, k) <= d
  <2>1. k \in 1..Len(l.dates)
    BY <1>2, <1>3, <1>5
  <2>2. l.dates[k] \in Nat /\ DayAfter(l, k) = l.dates[k] + 1
    BY <2>1, DateTypes
  <2>3. l.dates[k] <= d - 1
    BY <1>2, <2>1, <2>2
  <2> QED
    BY <2>2, <2>3
<1>6. DayAfter(l, k) \in Nat \ {0} /\ DayAfter(l, k) <= d
  BY <1>4, <1>5
<1> QED
  BY <1>1, <1>2, <1>6 DEF k

\* Overnight all that was paid before is off the debt.
LEMMA OvernightType ==
  ASSUME NEW l, Dated(l), NEW rows \in Rows, NEW d \in Nat \ {0}, d <= LastDay + 1
  PROVE  /\ Overnight(l, rows, d) \in Standing
         /\ Overnight(l, rows, d).balance = Pos(l.total - Total(rows, 1..d - 1))
<1> DEFINE k == Due(l, d - 1)
           a == DayAfter(l, k)
           w == Walk(l, rows)[k]
           b == Total(rows, a..d - 1)
           T == Total(rows, 1..a - 1)
<1>1. /\ k \in 0..Len(l.dates) /\ a \in Nat \ {0} /\ a <= d
      /\ d - 1 \in Nat /\ d - 1 <= LastDay
  BY SinceLastDue
<1>2. w \in Standing
  BY <1>1, WalkType
<1>3. w.balance = Pos(l.total - T)
  BY <1>1, WalkPaid
<1> HIDE DEF k, a, w
<1>4. b \in Nat
  BY <1>1, TotalType
<1>5. T \in Nat
  <2>1. a - 1 \in Int /\ a - 1 <= LastDay
    BY <1>1, CalendarEnds
  <2> QED
    BY <2>1, TotalType
<1>6. Total(rows, 1..d - 1) = T + b
  <2>1. /\ a - 1 \in Int /\ 1 <= (a - 1) + 1 /\ a - 1 <= d - 1 /\ (a - 1) + 1 = a
    BY <1>1
  <2>2. Total(rows, 1..d - 1) = T + Total(rows, (a - 1) + 1..d - 1)
    BY <1>1, <2>1, TotalSplit
  <2> QED
    BY <2>1, <2>2
<1>7. Overnight(l, rows, d) = ApplyPayment(w, b, w.arrears)
  BY DEF Overnight, w, k, a
<1> HIDE DEF b, T
<1>8. w.arrears \in Nat /\ l.total \in Nat
  BY <1>2 DEF Standing, Dated
<1>9. /\ ApplyPayment(w, b, w.arrears) \in Standing
      /\ ApplyPayment(w, b, w.arrears).balance = Pos(w.balance - b)
  BY <1>2, <1>4, <1>8, AfterPayment
<1>10. Pos(w.balance - b) = Pos(l.total - (T + b))
  BY <1>3, <1>4, <1>5, <1>8 DEF Pos
<1> QED
  BY <1>6, <1>7, <1>9, <1>10

\* The payments of the day and after it change nothing of the night before.
LEMMA OvernightSame ==
  ASSUME NEW l, Dated(l), NEW f \in Rows, NEW g \in Rows,
         NEW d \in Nat \ {0}, d <= LastDay + 1, \A x \in 1..d - 1 : f[x] = g[x]
  PROVE  Overnight(l, f, d) = Overnight(l, g, d)
<1> DEFINE k == Due(l, d - 1)
           a == DayAfter(l, k)
<1>1. /\ k \in 0..Len(l.dates) /\ a \in Nat \ {0} /\ a <= d /\ d - 1 \in Nat
  BY SinceLastDue
<1>2. Walk(l, f)[k] = Walk(l, g)[k]
  <2>1. DayAfter(l, k) - 1 <= d - 1
    BY <1>1
  <2> HIDE DEF k
  <2> QED
    BY <1>1, <2>1, WalkSame
<1>3. Total(f, a..d - 1) = Total(g, a..d - 1)
  <2> HIDE DEF a
  <2>1. \A x \in a..d - 1 : f[x] = g[x]
    BY <1>1
  <2> QED
    BY <1>1, <2>1, TotalSame
<1> QED
  BY <1>2, <1>3 DEF Overnight

\* What is due on a day before its payments: what is overdue and, on a due
\* date, what that date asks for.
Asked(l, rows, d) ==
  LET v == Overnight(l, rows, d)
  IN  IF Due(l, d) = Due(l, d - 1) + 1
      THEN v.arrears + Scheduled(v, Due(l, d), Len(l.dates)) ELSE v.arrears

LEMMA AskedNat ==
  ASSUME NEW l, Dated(l), NEW rows \in Rows, NEW d \in Nat \ {0}, d <= LastDay + 1
  PROVE  Asked(l, rows, d) \in Nat
<1> DEFINE v == Overnight(l, rows, d)
<1>1. v \in Standing /\ v.arrears \in Nat
  BY OvernightType DEF Standing
<1> HIDE DEF v
<1>2. CASE Due(l, d) = Due(l, d - 1) + 1
  <2>1. Due(l, d) \in 1..Len(l.dates) /\ Len(l.dates) \in Nat
    <3>1. Due(l, d) \in 0..Len(l.dates)
      BY CameInOrder
    <3>2. Due(l, d - 1) \in Nat
      BY SinceLastDue
    <3> QED
      BY <1>2, <3>1, <3>2 DEF Dated
  <2>2. Scheduled(v, Due(l, d), Len(l.dates)) \in Nat
    BY <1>1, <2>1, ScheduledNat
  <2> QED
    BY <1>1, <1>2, <2>2 DEF Asked, v
<1>3. CASE Due(l, d) # Due(l, d - 1) + 1
  BY <1>1, <1>3 DEF Asked, v
<1> QED
  BY <1>2, <1>3

\* From one night to the next: the day's due amount is added to what is
\* overdue, and the day's payments come off it and off the balance.
LEMMA OvernightNext ==
  ASSUME NEW l, Dated(l), NEW rows \in Rows, NEW d \in Days
  PROVE  LET v == Overnight(l, rows, d)
             u == Overnight(l, rows, d + 1)
         IN  /\ u.balance = Pos(v.balance - rows[d])
             /\ u.arrears = Pos(Asked(l, rows, d) - Lesser(v.balance, rows[d]))
<1> DEFINE N == Len(l.dates)
           j == Due(l, d - 1)
           k == Due(l, d)
           v == Overnight(l, rows, d)
           u == Overnight(l, rows, d + 1)
           w == Walk(l, rows)[k]
           p == rows[d]
<1>1. /\ d \in Nat \ {0} /\ d <= LastDay + 1 /\ d + 1 \in Nat \ {0}
      /\ d + 1 <= LastDay + 1 /\ (d + 1) - 1 = d /\ d <= LastDay
  BY CalendarEnds DEF Days
<1>2. u = ApplyPayment(w, Total(rows, DayAfter(l, k)..d), w.arrears)
  BY <1>1 DEF Overnight
<1>3. /\ j \in 0..N /\ DayAfter(l, j) \in Nat \ {0} /\ DayAfter(l, j) <= d
      /\ d - 1 \in Nat /\ d - 1 <= LastDay
  BY <1>1, SinceLastDue
<1>4. k \in 0..N
  BY <1>1, CameInOrder
<1>5. w \in Standing
  BY <1>4, WalkType
<1>6. p \in Nat
  BY DEF Rows
<1>7. v \in Standing /\ v.balance \in Nat /\ v.arrears \in Nat
  BY <1>1, OvernightType DEF Standing
<1>8. ASSUME k = j + 1
      PROVE  u.balance = Pos(v.balance - p)
             /\ u.arrears = Pos(Asked(l, rows, d) - Lesser(v.balance, p))
  <2>1. k \in 1..N /\ k - 1 = j /\ l.dates[k] = d
    <3>1. d \in Int /\ j \in Int
      BY <1>1, <1>3
    <3>2. k # j
      BY <1>8, <3>1
    <3>3. j + 1 \in 1..N /\ k = j + 1 /\ l.dates[k] = d
      <4>1. d \in Int
        BY <3>1
      <4> QED
        BY <3>2, <4>1, OneDueDateADay
    <3> QED
      BY <3>1, <3>3
  <2>2. DayAfter(l, k) = d + 1
    BY <2>1, DateTypes
  <2>3. Total(rows, DayAfter(l, k)..d) = 0
    BY <1>1, <2>2, TotalOfNone
  <2>4. v = ApplyPayment(Walk(l, rows)[k - 1], Between(l, rows, k),
                         Walk(l, rows)[k - 1].arrears)
    BY <2>1 DEF Overnight, Between
  <2>5. /\ w.balance = Pos(v.balance - p)
        /\ w.arrears = Pos((v.arrears + Scheduled(v, k, N)) - Lesser(v.balance, p))
    <3> HIDE DEF v, k
    <3> QED
      BY <2>1, <2>4, WalkNext
  <2>6. Asked(l, rows, d) = v.arrears + Scheduled(v, k, N)
    BY <1>8 DEF Asked
  <2>7. w.balance \in Nat /\ w.arrears \in Nat
    BY <1>5 DEF Standing
  <2>8. u = ApplyPayment(w, 0, w.arrears)
    BY <1>2, <2>3
  <2>9. u.balance = Pos(w.balance - 0)
        /\ u.arrears = Pos(w.arrears - Lesser(w.balance, 0))
    <3> HIDE DEF w, u
    <3> QED
      BY <1>5, <2>7, <2>8, AfterPayment
  <2>10. u.balance = w.balance /\ u.arrears = w.arrears
    <3> HIDE DEF w, u
    <3> QED
      BY <2>7, <2>9 DEF Pos, Lesser
  <2> QED
    BY <2>5, <2>6, <2>10
<1>9. ASSUME k # j + 1
      PROVE  u.balance = Pos(v.balance - p)
             /\ u.arrears = Pos(Asked(l, rows, d) - Lesser(v.balance, p))
  <2>1. k = j
    <3>1. d \in Int
      BY <1>1
    <3> QED
      BY <1>9, <3>1, OneDueDateADay
  <2> DEFINE b == Total(rows, DayAfter(l, j)..d - 1)
  <2>2. Total(rows, DayAfter(l, k)..d) = b + p
    <3> HIDE DEF j, k
    <3> QED
      BY <1>1, <1>3, <2>1, TotalWithDay
  <2>3. b \in Nat
    <3> HIDE DEF j
    <3> QED
      BY <1>3, TotalType
  <2>4. v = ApplyPayment(w, b, w.arrears)
    BY <2>1 DEF Overnight
  <2>5. u = ApplyPayment(w, b + p, w.arrears)
    BY <1>2, <2>2
  <2>6. Asked(l, rows, d) = v.arrears
    BY <1>9 DEF Asked
  <2> HIDE DEF w, u, v, b, p
  <2>7. w.balance \in Nat /\ w.arrears \in Nat
    BY <1>5 DEF Standing
  <2>8. v.balance = Pos(w.balance - b) /\ v.arrears = Pos(w.arrears - Lesser(w.balance, b))
    BY <1>5, <2>3, <2>4, <2>7, AfterPayment
  <2>9. /\ u.balance = Pos(w.balance - (b + p))
        /\ u.arrears = Pos(w.arrears - Lesser(w.balance, b + p))
    <3>1. b + p \in Nat
      BY <1>6, <2>3
    <3> QED
      BY <1>5, <2>5, <2>7, <3>1, AfterPayment
  <2>10. Pos(w.balance - (b + p)) = Pos(v.balance - p)
    BY <1>6, <2>3, <2>7, <2>8 DEF Pos
  <2>11. Pos(w.arrears - Lesser(w.balance, b + p))
           = Pos(v.arrears - Lesser(v.balance, p))
    BY <1>6, <2>3, <2>7, <2>8 DEF Pos, Lesser
  <2> QED
    BY <2>6, <2>9, <2>10, <2>11
<1> QED
  BY <1>8, <1>9

\* What is expected of a day from dated payments is what is left overnight:
\* what the day asked for, at most the balance, less what it paid.
LEMMA RecalculatedExpects ==
  ASSUME NEW l, Dated(l), NEW rows \in Rows, NEW d \in Days
  PROVE  LET v == Overnight(l, rows, d)
             u == Overnight(l, rows, d + 1)
             r == Recalculated(l, rows, d)
         IN  /\ r.expectedToday = Lesser(u.balance, u.arrears)
             /\ r.expectedToday
                  = Pos(Lesser(v.balance, Asked(l, rows, d)) - rows[d])
             /\ r.carriedForward = IF Due(l, d) = Due(l, d - 1) + 1
                                   THEN v.arrears ELSE 0
<1> DEFINE k == Due(l, d)
           w == Walk(l, rows)[k]
           v == Overnight(l, rows, d)
           u == Overnight(l, rows, d + 1)
           r == Recalculated(l, rows, d)
           late == Total(rows, DayAfter(l, k)..d)
           dueDay == k > 0 /\ l.dates[k] = d
<1>1. /\ d \in Nat \ {0} /\ (d + 1) - 1 = d /\ d <= LastDay + 1
  BY CalendarEnds DEF Days
<1>2. u = ApplyPayment(w, late, w.arrears)
  BY <1>1 DEF Overnight
<1>3. k \in 0..Len(l.dates)
  BY <1>1, CameInOrder
<1>4. w \in Standing
  BY <1>3, WalkType
<1>5. r.expectedToday = Lesser(ApplyPayment(w, late, w.arrears).balance,
                               ApplyPayment(w, late, w.arrears).arrears)
      /\ r.carriedForward = IF dueDay THEN w.carried ELSE 0
  BY <1>4 DEF Recalculated, Due
<1>6. dueDay <=> k = Due(l, d - 1) + 1
  BY <1>1, DueToday
<1>7. ASSUME k = Due(l, d - 1) + 1 PROVE w.carried = v.arrears
  <2>1. k \in 1..Len(l.dates) /\ l.dates[k] = d
    BY <1>1, <1>3, <1>7, OneDueDateADay
  <2>2. k - 1 = Due(l, d - 1)
    <3>1. Due(l, d - 1) \in Nat
      BY <1>1, SinceLastDue
    <3> QED
      BY <1>7, <3>1
  <2>3. v = ApplyPayment(Walk(l, rows)[k - 1], Between(l, rows, k),
                         Walk(l, rows)[k - 1].arrears)
    BY <2>1, <2>2 DEF Overnight, Between
  <2> HIDE DEF v, k
  <2> QED
    BY <2>1, <2>3, WalkNext
<1>8. r.expectedToday = Lesser(u.balance, u.arrears)
  BY <1>2, <1>5
<1>9. Lesser(u.balance, u.arrears) = Pos(Lesser(v.balance, Asked(l, rows, d)) - rows[d])
  <2>1. /\ u.balance = Pos(v.balance - rows[d])
        /\ u.arrears = Pos(Asked(l, rows, d) - Lesser(v.balance, rows[d]))
    BY OvernightNext
  <2>2. v.balance \in Nat
    BY <1>1, OvernightType DEF Standing
  <2>3. rows[d] \in Nat /\ Asked(l, rows, d) \in Nat
    BY <1>1, AskedNat DEF Rows
  <2> HIDE DEF u, v
  <2> QED
    BY <2>1, <2>2, <2>3 DEF Pos, Lesser
<1> QED
  BY <1>5, <1>6, <1>7, <1>8, <1>9

-----------------------------------------------------------------------------
(* The schedule from the total paid.                                       *)

\* What is to be paid rises from nothing to the whole debt, from one due date
\* to the next by an instalment, and at the last by what rounding has left.
LEMMA ExpectedForRises ==
  ASSUME NEW l, Dated(l), NEW n \in 0..Len(l.dates)
  PROVE  /\ ExpectedFor(l, n) \in Nat /\ ExpectedFor(l, n) <= l.total
         /\ ExpectedFor(l, 0) = 0 /\ ExpectedFor(l, Len(l.dates)) = l.total
         /\ n # 0 => ExpectedFor(l, n) - ExpectedFor(l, n - 1)
                       <= Contractual(l) + Pos(l.total - Contractual(l) * Len(l.dates))
<1> DEFINE N == Len(l.dates)
           C == Contractual(l)
           t == l.total
           E(m) == ExpectedFor(l, m)
<1>1. N \in Nat \ {0} /\ t \in Nat /\ n \in 0..N
  BY DEF Dated
<1>2. C \in Nat
  BY <1>1, RoundDivNat DEF Contractual
<1>3. \A m : E(m) = IF m <= 0 THEN 0 ELSE IF m >= N THEN t
                    ELSE IF t < C * m THEN t ELSE C * m
  BY DEF ExpectedFor, Lesser
<1> HIDE DEF N, C, t, E
<1>4. \A m \in Nat : C * m \in Nat
  BY <1>2
<1>5. ASSUME NEW m \in 0..N PROVE E(m) \in Nat /\ E(m) <= t
  <2>1. C * m \in Nat
    BY <1>1, <1>4
  <2> DEFINE x == C * m
  <2>2. E(m) = IF m <= 0 THEN 0 ELSE IF m >= N THEN t ELSE IF t < x THEN t ELSE x
    BY <1>3
  <2> HIDE DEF x
  <2>3. x \in Nat
    BY <2>1 DEF x
  <2> QED
    BY <1>1, <2>2, <2>3
<1>6. E(0) = 0 /\ E(N) = t
  BY <1>1, <1>3
<1>7. ASSUME n # 0 PROVE E(n) - E(n - 1) <= C + Pos(t - C * N)
  <2> DEFINE x == C * (n - 1)
             y == C * n
             z == C * N
  <2>1. x \in Nat /\ y \in Nat /\ z \in Nat
    <3>1. n - 1 \in Nat /\ n \in Nat /\ N \in Nat
      BY <1>1, <1>7
    <3> QED
      BY <1>4, <3>1
  <2>2. y = x + C
    BY <1>1, <1>2
  <2>3. n = N => y = z
    OBVIOUS
  <2>4. n - 1 = 0 => x = 0
    BY <1>2
  <2>5. E(n) = IF n <= 0 THEN 0 ELSE IF n >= N THEN t ELSE IF t < y THEN t ELSE y
    BY <1>3
  <2>6. E(n - 1) = IF n - 1 <= 0 THEN 0 ELSE IF n - 1 >= N THEN t
                   ELSE IF t < x THEN t ELSE x
    BY <1>3
  <2>7. E(n) - E(n - 1) <= C + Pos(t - z)
    <3> HIDE DEF x, y, z
    <3> QED
      BY <1>1, <1>2, <1>7, <2>1, <2>2, <2>3, <2>4, <2>5, <2>6 DEF Pos
  <2> QED
    BY <2>7
<1> QED
  BY <1>1, <1>5, <1>6, <1>7 DEF N, C, t, E

LEMMA CumulativeExpects ==
  ASSUME NEW l, NEW bal, NEW paidAmount, NEW d
  PROVE  LET r == Cumulative(l, bal, paidAmount, d)
         IN  /\ r.expectedToday
                  = Lesser(bal, Pos(ExpectedFor(l, Due(l, d)) - paidAmount))
             /\ r.carriedForward = CarriedForward(l, r.expectedToday)
BY DEF Cumulative, Due

-----------------------------------------------------------------------------
(* A day's payments and the schedule that is computed again after them.    *)

\* Whichever schedule answers, what it expects now is what it expects without
\* the payments of the day, less these.
LEMMA LessThePaymentsOfTheDay ==
  ASSUME NEW l, Dated(l), NEW rows \in Rows, NEW d \in Days,
         NEW bal \in Nat, NEW paidAmount \in Nat, rows[d] <= paidAmount
  PROVE  LET before == CollectionSchedule(l, [rows EXCEPT ![d] = 0], bal + rows[d],
                                          paidAmount - rows[d], d)
             now == CollectionSchedule(l, rows, bal, paidAmount, d)
         IN  /\ before.expectedToday \in Nat
             /\ now.expectedToday = Pos(before.expectedToday - rows[d])
<1> DEFINE f == [rows EXCEPT ![d] = 0]
           p == rows[d]
           T == Total(rows, 1..LastDay)
           v == Overnight(l, rows, d)
           x == Lesser(v.balance, Asked(l, rows, d))
           e == ExpectedFor(l, Due(l, d))
           before == CollectionSchedule(l, f, bal + p, paidAmount - p, d)
           now == CollectionSchedule(l, rows, bal, paidAmount, d)
<1>1. /\ d \in Nat \ {0} /\ d <= LastDay + 1 /\ d \in 1..LastDay
      /\ LastDay \in Nat
  BY CalendarEnds DEF Days
<1>2. f \in Rows /\ p \in Nat /\ f[d] = 0
  BY DEF Rows
<1>3. \A y \in 1..LastDay : y # d => f[y] = rows[y]
  BY DEF Rows, Days
<1>4. \A y \in 1..LastDay : rows[y] \in Int /\ f[y] \in Int
  BY <1>2 DEF Rows, Days
<1>5. T \in Nat
  BY <1>1, TotalType
<1>6. Total(f, 1..LastDay) = T - p
  <2>1. IsFiniteSet(1..LastDay)
    BY <1>1, FS_Interval
  <2>2. \A y \in (1..LastDay) \ {d} : rows[y] = f[y]
    BY <1>3
  <2>3. SumFunctionOnSet(f, 1..LastDay) = SumFunctionOnSet(rows, 1..LastDay) - p + f[d]
    <3> DEFINE S == 1..LastDay
    <3>1. d \in S /\ IsFiniteSet(S) /\ \A y \in S \ {d} : rows[y] = f[y]
      BY <1>1, <2>1, <2>2
    <3>2. \A y \in S : rows[y] \in Int /\ f[y] \in Int
      BY <1>4
    <3> HIDE DEF f, S
    <3>3. SumFunctionOnSet(f, S) = SumFunctionOnSet(rows, S) - rows[d] + f[d]
      BY <3>1, <3>2, SumChanged
    <3> QED
      BY <3>3 DEF S
  <2> HIDE DEF f, p
  <2> QED
    BY <1>2, <1>5, <2>3 DEF Total
<1>7. Total(f, 1..LastDay) - (paidAmount - p) = T - paidAmount
  <2> HIDE DEF p, T, f
  <2> QED
    BY <1>2, <1>5, <1>6
<1>8. CASE T - paidAmount \in -1..1
  <2>1. now = Recalculated(l, rows, d)
    BY <1>8 DEF CollectionSchedule
  <2>2. before = Recalculated(l, f, d)
    <3> HIDE DEF f, p, T
    <3> QED
      BY <1>7, <1>8 DEF CollectionSchedule
  <2>3. v = Overnight(l, f, d)
    <3> HIDE DEF f
    <3>1. \A y \in 1..d - 1 : rows[y] = f[y]
      BY <1>1, <1>3
    <3> QED
      BY <1>1, <1>2, <3>1, OvernightSame
  <2>4. Asked(l, f, d) = Asked(l, rows, d)
    BY <2>3 DEF Asked
  <2>5. x \in Nat
    BY <1>1, OvernightType, AskedNat DEF Lesser, Standing
  <2>6. Recalculated(l, rows, d).expectedToday = Pos(x - p)
    BY RecalculatedExpects
  <2>7. Recalculated(l, f, d).expectedToday = Pos(x - 0)
    <3> HIDE DEF f
    <3>1. Recalculated(l, f, d).expectedToday
            = Pos(Lesser(Overnight(l, f, d).balance, Asked(l, f, d)) - f[d])
      BY <1>2, RecalculatedExpects
    <3> QED
      BY <1>2, <2>3, <2>4, <3>1
  <2> HIDE DEF x, p, before, now
  <2>8. before.expectedToday = x /\ now.expectedToday = Pos(x - p)
    BY <2>1, <2>2, <2>5, <2>6, <2>7 DEF Pos
  <2> QED
    BY <2>5, <2>8 DEF before, now, p
<1>9. CASE ~ (T - paidAmount \in -1..1)
  <2>1. now = Cumulative(l, bal, paidAmount, d)
    BY <1>9 DEF CollectionSchedule
  <2>2. before = Cumulative(l, bal + p, paidAmount - p, d)
    <3> HIDE DEF f, p, T
    <3> QED
      BY <1>7, <1>9 DEF CollectionSchedule
  <2>3. e \in Nat
    <3>1. Due(l, d) \in 0..Len(l.dates)
      BY <1>1, CameInOrder
    <3> QED
      BY <3>1, ExpectedForRises
  <2> HIDE DEF e, p, before, now
  <2>4. now.expectedToday = Lesser(bal, Pos(e - paidAmount))
    BY <2>1, CumulativeExpects DEF e
  <2>5. before.expectedToday = Lesser(bal + p, Pos(e - (paidAmount - p)))
    BY <2>2, CumulativeExpects DEF e
  <2>6. p <= paidAmount
    BY DEF p
  <2>7. before.expectedToday \in Nat
    BY <1>2, <2>3, <2>5, <2>6 DEF Pos, Lesser
  <2>8. now.expectedToday = Pos(before.expectedToday - p)
    BY <1>2, <2>3, <2>4, <2>5, <2>6 DEF Pos, Lesser
  <2> QED
    BY <2>7, <2>8 DEF before, now, p
<1> QED
  BY <1>8, <1>9

-----------------------------------------------------------------------------
(* The inductive invariant.                                                *)

TermsKept ==
  /\ Dated(loan)
  /\ today \in Nat \ {0} /\ loan.start - 1 <= today
  /\ today <= Maturity(loan) + After

\* The balance is the debt with its fines less what was taken over as paid and
\* what is paid since; no day ahead has a payment, and none is fined in time.
DebtAddsUp ==
  /\ paid \in Rows /\ \A d \in Days : d > today => paid[d] = 0
  /\ IsFiniteSet(fined) /\ (today <= Maturity(loan) => fined = {})
  /\ balance \in Nat
  /\ balance = ((loan.total - loan.imported) + Fines) - Total(paid, 1..LastDay)

\* Who has missed nothing was left overnight with nothing that was due.
MetSoFar ==
  ~missed =>
    IF loan.imported <= 1
    THEN Lesser(Overnight(loan, paid, today).balance,
                Overnight(loan, paid, today).arrears) = 0
    ELSE ExpectedFor(loan, Due(loan, today - 1))
           <= loan.imported + Total(paid, 1..today - 1)

Inv == TermsKept /\ DebtAddsUp /\ MetSoFar

LEMMA TodayInCalendar ==
  ASSUME TermsKept
  PROVE  today \in Days /\ today \in Nat \ {0} /\ today <= LastDay
BY CalendarEnds, ScheduleAssumptions DEF TermsKept, Dated, Days

\* No period is due for a fine on maturity or before it.
LEMMA NoFineInTime ==
  ASSUME NEW x \in Int, NEW y \in Nat \ {0}, x < 0
  PROVE  x \div y \in Int /\ x \div y < 1
OBVIOUS

LEMMA FinesType ==
  ASSUME NEW S, IsFiniteSet(S)
  PROVE  Fine * Cardinality(S) \in Nat
<1>1. Cardinality(S) \in Nat /\ Fine \in Nat
  BY FS_CardinalityType, ScheduleAssumptions
<1> QED
  BY <1>1

\* What is told from the balance as paid is what is paid.
LEMMA PaidIs ==
  ASSUME TermsKept, DebtAddsUp
  PROVE  /\ PaidAmount = loan.imported + Total(paid, 1..LastDay)
         /\ PaidAmount \in Nat
         /\ paid[today] \in Nat /\ paid[today] <= PaidAmount
         /\ PaidBefore = PaidAmount - paid[today]
         /\ Total(paid, 1..LastDay) = Total(paid, 1..today - 1) + paid[today]
         /\ Total(paid, 1..today - 1) \in Nat
<1> DEFINE T == Total(paid, 1..LastDay)
           B == Total(paid, 1..today - 1)
           p == paid[today]
<1>1. today \in Days /\ today \in Nat \ {0} /\ today <= LastDay /\ LastDay \in Nat
  BY TodayInCalendar, CalendarEnds
<1>2. paid \in Rows
  BY DEF DebtAddsUp
<1>3. p \in Nat
  BY <1>1, <1>2 DEF Rows
<1>4. today - 1 \in Nat /\ today - 1 <= LastDay
  BY <1>1
<1>5. B \in Nat
  BY <1>2, <1>4, TotalType
<1>6. T = B + p
  <2>1. T = Total(paid, 1..today) + Total(paid, today + 1..LastDay)
    BY <1>1, <1>2, TotalSplit
  <2>2. Total(paid, 1..today) = B + p
    BY <1>1, <1>2, TotalWithDay
  <2>3. Total(paid, today + 1..LastDay) = 0
    <3>1. IsFiniteSet(today + 1..LastDay)
      BY <1>1, FS_Interval
    <3>2. \A d \in today + 1..LastDay : paid[d] = 0
      BY <1>1 DEF DebtAddsUp, Days
    <3> QED
      BY <3>1, <3>2, SumOfZeros DEF Total
  <2> HIDE DEF T, B, p
  <2> QED
    BY <1>3, <1>5, <2>1, <2>2, <2>3
<1>7. loan.total \in Nat /\ loan.imported \in Nat
  BY DEF TermsKept, Dated
<1> DEFINE F == Fine * Cardinality(fined)
<1>8. F \in Nat
  BY FinesType DEF DebtAddsUp
<1>9. balance \in Nat /\ balance = ((loan.total - loan.imported) + F) - T
  BY DEF DebtAddsUp, Fines
<1>10. PaidAmount = Pos(loan.total + F - balance)
  BY DEF PaidAmount
<1>11. PaidBefore = Pos(PaidAmount - p)
  BY DEF PaidBefore
<1> HIDE DEF T, B, p, F
<1>12. PaidAmount = loan.imported + T
  BY <1>3, <1>5, <1>6, <1>7, <1>8, <1>9, <1>10 DEF Pos
<1>13. PaidAmount \in Nat /\ p <= PaidAmount
  BY <1>3, <1>5, <1>6, <1>7, <1>12
<1>14. PaidBefore = PaidAmount - p
  BY <1>3, <1>11, <1>13 DEF Pos
<1> QED
  BY <1>3, <1>5, <1>6, <1>12, <1>13, <1>14 DEF T, B, p

\* Which schedule a loan gets: all its payments are dated, save a unit.
LEMMA DetailIs ==
  ASSUME TermsKept, DebtAddsUp
  PROVE  Detail = IF loan.imported <= 1 THEN Recalculated(loan, paid, today)
                  ELSE Cumulative(loan, balance, PaidAmount, today)
<1> DEFINE T == Total(paid, 1..LastDay)
<1>1. T \in Int /\ PaidAmount = loan.imported + T /\ loan.imported \in Nat
  <2>1. T \in Nat
    BY CalendarEnds, TotalType DEF DebtAddsUp
  <2> QED
    BY <2>1, PaidIs DEF TermsKept, Dated
<1> HIDE DEF T
<1>2. T - PaidAmount \in -1..1 <=> loan.imported <= 1
  BY <1>1
<1> QED
  BY <1>2 DEF Detail, CollectionSchedule, T

\* Before the loan starts no date is due and nothing is overdue.
LEMMA BeforeStart ==
  ASSUME NEW l, Dated(l), NEW rows \in Rows, NEW d \in Nat \ {0}, d <= l.start
  PROVE  Due(l, d - 1) = 0 /\ Overnight(l, rows, d).arrears = 0
<1> DEFINE k == Due(l, d - 1)
           w == Walk(l, rows)[0]
           b == Total(rows, 1..d - 1)
<1>1. d <= LastDay + 1 /\ l.start \in Nat
  BY CalendarEnds, ScheduleAssumptions DEF Dated
<1>2. k = 0
  <2>1. /\ k \in 0..Len(l.dates)
        /\ \A n \in 1..Len(l.dates) : l.dates[n] <= d - 1 <=> n <= k
    <3>1. d - 1 \in Int
      OBVIOUS
    <3> QED
      BY <3>1, CameInOrder
  <2>2. \A n \in 1..Len(l.dates) : l.dates[n] \in Int /\ l.start <= l.dates[n]
    BY DEF Dated
  <2>3. Len(l.dates) \in Nat
    BY DEF Dated
  <2> HIDE DEF k
  <2>4. k # 0 => k \in 1..Len(l.dates)
    BY <2>1, <2>3
  <2>5. k \in 1..Len(l.dates) => l.dates[k] <= d - 1
    BY <2>1, <2>3
  <2> QED
    BY <1>1, <2>2, <2>4, <2>5
<1>3. w = AtStart(l) /\ w \in Standing
  <2>1. 0 \in 0..Len(l.dates)
    BY DEF Dated
  <2> QED
    BY <2>1, WalkSteps, WalkType
<1>4. b \in Nat
  BY <1>1, SinceLastDue, TotalType
<1>5. Overnight(l, rows, d) = ApplyPayment(w, b, w.arrears)
  <2>1. DayAfter(l, 0) = 1
    BY DEF DayAfter
  <2> QED
    BY <1>2, <2>1 DEF Overnight
<1>6. w.arrears = 0 /\ w.balance \in Nat
  BY <1>3 DEF AtStart, Standing
<1> HIDE DEF w, b
<1>7. ApplyPayment(w, b, w.arrears).arrears = Pos(w.arrears - Lesser(w.balance, b))
  <2>1. w.arrears \in Nat
    BY <1>6
  <2> QED
    BY <1>3, <1>4, <2>1, AfterPayment
<1> QED
  BY <1>2, <1>4, <1>5, <1>6, <1>7 DEF Pos, Lesser

\* A payment of the day adds to the total and to no day before.
LEMMA PaidMore ==
  ASSUME NEW l, Dated(l), NEW rows \in Rows, NEW d \in Days, NEW a \in Nat,
         NEW g \in Rows, g[d] = rows[d] + a,
         \A x \in Days : x # d => g[x] = rows[x]
  PROVE  /\ Total(g, 1..LastDay) = Total(rows, 1..LastDay) + a
         /\ Total(g, 1..d - 1) = Total(rows, 1..d - 1)
         /\ Overnight(l, g, d) = Overnight(l, rows, d)
<1> DEFINE S == 1..LastDay
<1>1. g \in Rows /\ g[d] = rows[d] + a /\ \A x \in Days : x # d => g[x] = rows[x]
  OBVIOUS
<1>2. /\ d \in S /\ d \in Nat \ {0} /\ d <= LastDay + 1 /\ LastDay \in Nat
      /\ d - 1 \in Int /\ S = Days
  BY CalendarEnds DEF Days
<1>3. Total(g, S) = Total(rows, S) + a
  <2>1. IsFiniteSet(S)
    BY <1>2, FS_Interval
  <2>2. \A y \in S : rows[y] \in Nat /\ g[y] \in Nat
    BY <1>1, <1>2 DEF Rows
  <2>3. Total(rows, S) \in Nat
    BY <1>2, TotalType
  <2> HIDE DEF S
  <2>4. \A y \in S : rows[y] \in Int /\ g[y] \in Int
    BY <2>2
  <2>5. \A y \in S \ {d} : rows[y] = g[y]
    BY <1>1, <1>2
  <2>6. SumFunctionOnSet(g, S) = SumFunctionOnSet(rows, S) - rows[d] + g[d]
    <3>1. d \in S
      BY <1>2
    <3> QED
      BY <2>1, <2>4, <2>5, <3>1, SumChanged
  <2> QED
    BY <1>1, <1>2, <2>2, <2>3, <2>6 DEF Total
<1>4. \A x \in 1..d - 1 : g[x] = rows[x]
  BY <1>1, <1>2
<1>5. Total(g, 1..d - 1) = Total(rows, 1..d - 1)
  BY <1>2, <1>4, TotalSame
<1>6. Overnight(l, g, d) = Overnight(l, rows, d)
  BY <1>1, <1>2, <1>4, OvernightSame
<1> QED
  BY <1>1, <1>3, <1>5, <1>6

-----------------------------------------------------------------------------
(* Every step keeps the invariant.                                         *)

LEMMA InitInv == Init => Inv
<1> SUFFICES ASSUME Init PROVE Inv
  OBVIOUS
<1>1. PICK l \in Loans : loan = WithDates(l)
  BY DEF Init, WithDates
<1>2. /\ Dated(loan) /\ loan.start \in Nat \ {0, 1} /\ loan.start <= Maturity(loan)
      /\ loan.total \in Nat /\ loan.imported \in 0..loan.total
      /\ Maturity(loan) \in Nat
  BY <1>1, LoansAreDated DEF Dated
<1>3. /\ today = loan.start - 1 /\ today \in Nat \ {0}
      /\ paid = [d \in Days |-> 0] /\ balance = loan.total - loan.imported
      /\ fined = {} /\ ~ missed
  <2>1. /\ today = loan.start - 1
        /\ paid = [d \in Days |-> 0] /\ balance = loan.total - loan.imported
        /\ fined = {} /\ missed = FALSE
    BY DEF Init
  <2> QED
    BY <1>2, <2>1
<1>4. TermsKept
  <2>1. After \in Nat
    BY ScheduleAssumptions
  <2> QED
    BY <1>1, <1>2, <1>3, <2>1 DEF TermsKept
<1>5. paid \in Rows /\ (\A d \in Days : paid[d] = 0)
  BY <1>3 DEF Rows
<1>6. DebtAddsUp
  <2>1. Total(paid, 1..LastDay) = 0
    <3>1. IsFiniteSet(1..LastDay)
      BY CalendarEnds, FS_Interval
    <3> QED
      BY <1>5, <3>1, SumOfZeros DEF Total, Days
  <2>2. IsFiniteSet(fined) /\ Cardinality(fined) = 0
    BY <1>3, FS_EmptySet
  <2>3. Fines = 0
    BY <2>2, ScheduleAssumptions DEF Fines
  <2>4. balance \in Nat /\ balance = ((loan.total - loan.imported) + 0) - 0
    BY <1>2, <1>3
  <2>5. balance = ((loan.total - loan.imported) + Fines) - Total(paid, 1..LastDay)
    BY <2>1, <2>3, <2>4
  <2> QED
    BY <1>3, <1>5, <2>2, <2>4, <2>5 DEF DebtAddsUp
<1>7. MetSoFar
  <2>1. today <= loan.start
    BY <1>2, <1>3
  <2>2. Due(loan, today - 1) = 0 /\ Overnight(loan, paid, today).arrears = 0
    BY <1>2, <1>3, <1>5, <2>1, BeforeStart
  <2>3. today <= LastDay + 1 /\ today \in Nat \ {0} /\ today - 1 <= LastDay
    BY <1>4, TodayInCalendar, CalendarEnds
  <2>4. Overnight(loan, paid, today).balance \in Nat
    BY <1>2, <1>5, <2>3, OvernightType DEF Standing
  <2>5. Lesser(Overnight(loan, paid, today).balance,
               Overnight(loan, paid, today).arrears) = 0
    BY <2>2, <2>4 DEF Lesser
  <2>6. ExpectedFor(loan, Due(loan, today - 1)) = 0
    BY <2>2 DEF ExpectedFor
  <2>7. Total(paid, 1..today - 1) \in Nat
    <3>1. today - 1 \in Int
      BY <2>3
    <3> QED
      BY <1>5, <2>3, <3>1, TotalType
  <2>8. 0 <= loan.imported + Total(paid, 1..today - 1)
    BY <1>2, <2>7
  <2> QED
    BY <2>5, <2>6, <2>8 DEF MetSoFar
<1> QED
  BY <1>4, <1>6, <1>7 DEF Inv

\* A payment moves from the balance to the rows of the day.
LEMMA PayInv ==
  ASSUME Inv, NEW a, Pay(a)
  PROVE  Inv'
<1>1. /\ a \in Nat /\ a <= balance /\ balance \in Nat
      /\ paid' = [paid EXCEPT ![today] = @ + a] /\ balance' = balance - a
      /\ UNCHANGED <<loan, today, fined, missed>>
  BY DEF Pay, Inv, DebtAddsUp
<1>2. /\ Dated(loan) /\ paid \in Rows /\ today \in Days /\ today \in Nat \ {0}
      /\ LastDay \in Nat
  BY TodayInCalendar, CalendarEnds DEF Inv, TermsKept, DebtAddsUp
<1>3. /\ paid' \in Rows /\ \A x \in Days : x # today => paid'[x] = paid[x]
      /\ Total(paid', 1..LastDay) = Total(paid, 1..LastDay) + a
      /\ Total(paid', 1..today - 1) = Total(paid, 1..today - 1)
      /\ Overnight(loan, paid', today) = Overnight(loan, paid, today)
  <2>1. /\ paid' \in Rows /\ paid'[today] = paid[today] + a
        /\ \A x \in Days : x # today => paid'[x] = paid[x]
    BY <1>1, <1>2 DEF Rows
  <2>2. a \in Nat
    BY <1>1
  <2>3. /\ Total(paid', 1..LastDay) = Total(paid, 1..LastDay) + a
        /\ Total(paid', 1..today - 1) = Total(paid, 1..today - 1)
        /\ Overnight(loan, paid', today) = Overnight(loan, paid, today)
    BY <1>2, <2>1, <2>2, PaidMore
  <2> QED
    BY <2>1, <2>3
<1>4. TermsKept'
  BY <1>1 DEF Inv, TermsKept
<1>5. DebtAddsUp'
  <2>1. \A d \in Days : d > today => paid'[d] = 0
    BY <1>2, <1>3 DEF Inv, DebtAddsUp
  <2>2. balance' \in Nat
    BY <1>1
  <2> DEFINE T == Total(paid, 1..LastDay)
             F == Fine * Cardinality(fined)
  <2>3. balance = ((loan.total - loan.imported) + F) - T
    BY DEF Inv, DebtAddsUp, Fines
  <2>4. T \in Nat /\ F \in Nat /\ loan.total \in Nat /\ loan.imported \in Nat
    BY <1>2, TotalType, FinesType DEF Inv, DebtAddsUp, Dated
  <2> HIDE DEF T, F
  <2>5. balance' = ((loan.total - loan.imported) + F) - (T + a)
    BY <1>1, <2>3, <2>4
  <2>6. balance' = ((loan'.total - loan'.imported) + Fine * Cardinality(fined'))
                     - Total(paid', 1..LastDay)
    BY <1>1, <1>3, <2>5 DEF T, F
  <2>7. /\ IsFiniteSet(fined)
        /\ today <= Maturity(loan) => fined = {}
    BY DEF Inv, DebtAddsUp
  <2> QED
    BY <1>1, <1>3, <2>1, <2>2, <2>6, <2>7 DEF DebtAddsUp, Fines
<1>6. MetSoFar'
  BY <1>1, <1>3 DEF Inv, MetSoFar
<1> QED
  BY <1>4, <1>5, <1>6 DEF Inv

\* Fines add to the debt what they add to the balance, and none is due before
\* the day after maturity.
LEMMA ApplyFinesInv ==
  ASSUME Inv, ApplyFines
  PROVE  Inv'
<1> DEFINE missing == MissingFinePeriods(today)
           q == (today - FineDueDate) \div FinePeriod
<1>1. /\ missing # {} /\ fined' = fined \cup missing
      /\ balance' = balance + Fine * Cardinality(missing)
      /\ UNCHANGED <<loan, today, paid, missed>>
  BY DEF ApplyFines
<1>2. /\ Dated(loan) /\ paid \in Rows /\ today \in Nat \ {0}
      /\ loan.start \in Nat /\ loan.duration \in Nat
      /\ Maturity(loan) \in Nat /\ FineDueDate = Maturity(loan) + 1
  <2>1. /\ Dated(loan) /\ paid \in Rows /\ today \in Nat \ {0}
    BY DEF Inv, TermsKept, DebtAddsUp
  <2>2. loan.start \in Nat /\ loan.duration \in Nat /\ Maturity(loan) \in Nat
    BY <2>1 DEF Dated
  <2>3. FineDueDate = Maturity(loan) + 1
    BY <2>2 DEF Maturity, FineDueDate
  <2> QED
    BY <2>1, <2>2, <2>3
<1>3. missing = (1..q) \ fined
  BY <1>1 DEF MissingFinePeriods
<1>4. q \in Int /\ today > Maturity(loan)
  <2>1. today - FineDueDate \in Int /\ FinePeriod \in Nat \ {0}
    BY <1>2, ScheduleAssumptions
  <2>2. q \in Int
    BY <2>1
  <2>3. ASSUME today - FineDueDate < 0 PROVE FALSE
    <3>1. q < 1
      BY <2>1, <2>3, NoFineInTime
    <3> HIDE DEF q
    <3>2. 1..q = {}
      BY <2>2, <3>1
    <3> QED
      BY <1>1, <1>3, <3>2
  <2> QED
    BY <1>2, <2>1, <2>2, <2>3
<1> HIDE DEF missing, q
<1>5. /\ IsFiniteSet(missing) /\ IsFiniteSet(fined) /\ missing \cap fined = {}
  <2>1. IsFiniteSet(1..q)
    BY <1>4, FS_Interval
  <2>2. missing \in SUBSET (1..q)
    BY <1>3
  <2>3. IsFiniteSet(missing)
    BY <2>1, <2>2, FS_Subset
  <2> QED
    BY <1>3, <2>3 DEF Inv, DebtAddsUp
<1>6. /\ IsFiniteSet(fined')
      /\ Cardinality(fined') = Cardinality(fined) + Cardinality(missing)
      /\ Cardinality(fined) \in Nat /\ Cardinality(missing) \in Nat
  <2>1. /\ IsFiniteSet(fined \cup missing)
        /\ Cardinality(fined \cup missing)
             = Cardinality(fined) + Cardinality(missing) - Cardinality(fined \cap missing)
    BY <1>5, FS_Union
  <2>2. Cardinality(fined \cap missing) = 0
    <3>1. fined \cap missing = {}
      BY <1>5
    <3> QED
      BY <3>1, FS_EmptySet
  <2>3. Cardinality(fined) \in Nat /\ Cardinality(missing) \in Nat
    BY <1>5, FS_CardinalityType
  <2> QED
    BY <1>1, <2>1, <2>2, <2>3
<1>7. TermsKept'
  BY <1>1 DEF Inv, TermsKept
<1>8. DebtAddsUp'
  <2> DEFINE T == Total(paid, 1..LastDay)
             F == Fine * Cardinality(fined)
             G == Fine * Cardinality(missing)
             H == Fine * Cardinality(fined')
  <2>1. H = F + G /\ F \in Nat /\ G \in Nat
    BY <1>6, ScheduleAssumptions
  <2>2. /\ balance \in Nat /\ balance = ((loan.total - loan.imported) + F) - T
    BY DEF Inv, DebtAddsUp, Fines
  <2>3. T \in Nat /\ loan.total \in Nat /\ loan.imported \in Nat
    BY <1>2, CalendarEnds, TotalType DEF Dated
  <2>4. balance' = balance + G
    BY <1>1
  <2> HIDE DEF T, F, G, H
  <2>5. balance' \in Nat /\ balance' = ((loan.total - loan.imported) + H) - T
    BY <2>1, <2>2, <2>3, <2>4
  <2>6. balance' = ((loan'.total - loan'.imported) + Fine * Cardinality(fined'))
                     - Total(paid', 1..LastDay)
    BY <1>1, <2>5 DEF T, H
  <2>7. \A d \in Days : d > today => paid[d] = 0
    BY DEF Inv, DebtAddsUp
  <2>8. ~ (today <= Maturity(loan))
    BY <1>2, <1>4
  <2> QED
    BY <1>1, <1>2, <1>6, <2>5, <2>6, <2>7, <2>8 DEF DebtAddsUp, Fines
<1>9. MetSoFar'
  BY <1>1 DEF Inv, MetSoFar
<1> QED
  BY <1>7, <1>8, <1>9 DEF Inv

\* A day that ends with nothing expected leaves nothing due overnight.
LEMMA NextDayInv ==
  ASSUME Inv, NextDay
  PROVE  Inv'
<1>1. /\ today < Maturity(loan) + After /\ today' = today + 1
      /\ missed' = (missed \/ Detail.expectedToday > 0)
      /\ UNCHANGED <<loan, paid, balance, fined>>
  BY DEF NextDay
<1>2. /\ Dated(loan) /\ paid \in Rows /\ today \in Days /\ today \in Nat \ {0}
      /\ today <= LastDay /\ LastDay \in Nat
      /\ loan.start \in Nat /\ Maturity(loan) \in Nat /\ After \in Nat
  BY TodayInCalendar, CalendarEnds, ScheduleAssumptions
     DEF Inv, TermsKept, DebtAddsUp, Dated
<1>3. TermsKept'
  <2>1. /\ today + 1 \in Nat \ {0} /\ loan.start - 1 <= today + 1
        /\ today + 1 <= Maturity(loan) + After
    BY <1>1, <1>2 DEF Inv, TermsKept
  <2> QED
    BY <1>1, <2>1 DEF Inv, TermsKept
<1>4. DebtAddsUp'
  <2>1. \A d \in Days : d > today + 1 => paid[d] = 0
    <3>1. \A d \in Days : d \in Int
      BY DEF Days
    <3>2. \A d \in Days : d > today => paid[d] = 0
      BY DEF Inv, DebtAddsUp
    <3> QED
      BY <1>2, <3>1, <3>2
  <2>2. today + 1 <= Maturity(loan) => fined = {}
    <3>1. today <= Maturity(loan) => fined = {}
      BY DEF Inv, DebtAddsUp
    <3> QED
      BY <1>2, <3>1
  <2>3. /\ paid \in Rows /\ IsFiniteSet(fined) /\ balance \in Nat
        /\ balance = ((loan.total - loan.imported) + Fine * Cardinality(fined))
                       - Total(paid, 1..LastDay)
    BY DEF Inv, DebtAddsUp, Fines
  <2> QED
    BY <1>1, <2>1, <2>2, <2>3 DEF DebtAddsUp, Fines
<1>5. MetSoFar'
  <2> DEFINE u == Overnight(loan, paid, today + 1)
             e == ExpectedFor(loan, Due(loan, today))
             x == Detail.expectedToday
  <2>1. SUFFICES ASSUME ~ missed'
                 PROVE  IF loan.imported <= 1 THEN Lesser(u.balance, u.arrears) = 0
                        ELSE e <= loan.imported + Total(paid, 1..today)
    <3>1. (today + 1) - 1 = today
      BY <1>2
    <3> QED
      BY <1>1, <3>1 DEF MetSoFar
  <2>2. ~ (x > 0)
    BY <1>1, <2>1
  <2>3. Detail = IF loan.imported <= 1 THEN Recalculated(loan, paid, today)
                 ELSE Cumulative(loan, balance, PaidAmount, today)
    BY DetailIs DEF Inv
  <2>4. ASSUME loan.imported <= 1 PROVE Lesser(u.balance, u.arrears) = 0
    <3>1. x = Lesser(u.balance, u.arrears)
      <4>1. Recalculated(loan, paid, today).expectedToday = Lesser(u.balance, u.arrears)
        BY <1>2, RecalculatedExpects
      <4> QED
        BY <2>3, <2>4, <4>1
    <3>2. u.balance \in Nat /\ u.arrears \in Nat
      <4>1. today + 1 \in Nat \ {0} /\ today + 1 <= LastDay + 1
        BY <1>2
      <4> QED
        BY <1>2, <4>1, OvernightType DEF Standing
    <3> HIDE DEF u, x
    <3> QED
      BY <2>2, <3>1, <3>2 DEF Lesser
  <2>5. ASSUME ~ (loan.imported <= 1)
        PROVE  e <= loan.imported + Total(paid, 1..today)
    <3> DEFINE T == Total(paid, 1..LastDay)
               F == Fine * Cardinality(fined)
    <3>1. x = Lesser(balance, Pos(e - PaidAmount))
      <4>1. Cumulative(loan, balance, PaidAmount, today).expectedToday
              = Lesser(balance, Pos(e - PaidAmount))
        BY CumulativeExpects
      <4> QED
        BY <2>3, <2>5, <4>1
    <3>2. e \in Nat /\ e <= loan.total
      <4>1. Due(loan, today) \in 0..Len(loan.dates)
        BY <1>2, CameInOrder
      <4> QED
        BY <1>2, <4>1, ExpectedForRises
    <3>3. PaidAmount = loan.imported + T /\ T = Total(paid, 1..today)
      <4>1. Total(paid, 1..today) = Total(paid, 1..today - 1) + paid[today]
        BY <1>2, TotalWithDay
      <4> QED
        BY <4>1, PaidIs DEF Inv
    <3>4. /\ balance = ((loan.total - loan.imported) + F) - T
          /\ balance \in Nat /\ F \in Nat /\ T \in Nat
          /\ loan.total \in Nat /\ loan.imported \in Nat
      BY <1>2, TotalType, FinesType DEF Inv, DebtAddsUp, Fines, Dated
    <3> HIDE DEF x, e, T, F
    <3>5. e <= loan.imported + T
      BY <2>2, <3>1, <3>2, <3>3, <3>4 DEF Lesser, Pos
    <3> QED
      BY <3>3, <3>5
  <2> QED
    BY <2>4, <2>5
<1> QED
  BY <1>3, <1>4, <1>5 DEF Inv

LEMMA NextInv == Inv /\ [Next]_vars => Inv'
<1> SUFFICES ASSUME Inv, [Next]_vars PROVE Inv'
  OBVIOUS
<1>1. ASSUME NEW a, Pay(a) PROVE Inv'
  BY <1>1, PayInv
<1>2. CASE ApplyFines
  BY <1>2, ApplyFinesInv
<1>3. CASE NextDay
  BY <1>3, NextDayInv
<1>4. CASE UNCHANGED vars
  <2>1. TermsKept'
    BY <1>4 DEF vars, Inv, TermsKept
  <2>2. DebtAddsUp'
    BY <1>4 DEF vars, Inv, DebtAddsUp, Fines
  <2>3. MetSoFar'
    BY <1>4 DEF vars, Inv, MetSoFar
  <2> QED
    BY <2>1, <2>2, <2>3 DEF Inv
<1> QED
  BY <1>1, <1>2, <1>3, <1>4 DEF Next

\* The agreement is kept, the balance accounts for every payment and fine, and
\* who has missed nothing was left with nothing due: the inductive invariant
\* that the properties of the schedule rest on.
THEOREM ScheduleInvariant == Spec => []Inv
<1>1. Init => Inv
  BY InitInv
<1>2. Inv /\ [Next]_vars => Inv'
  BY NextInv
<1> QED
  BY <1>1, <1>2, PTL DEF Spec

-----------------------------------------------------------------------------
(* The day's payments and what is expected.                                *)

\* The detail expects what the morning did, less the payments of the day.
LEMMA SinceTheMorning ==
  ASSUME Inv
  PROVE  /\ Morning.expectedToday \in Nat /\ paid[today] \in Nat
         /\ Detail.expectedToday = Pos(Morning.expectedToday - paid[today])
<1>1. /\ Dated(loan) /\ paid \in Rows /\ today \in Days /\ balance \in Nat
  BY TodayInCalendar DEF Inv, TermsKept, DebtAddsUp
<1>2. /\ PaidAmount \in Nat /\ paid[today] <= PaidAmount /\ paid[today] \in Nat
      /\ PaidBefore = PaidAmount - paid[today]
  BY PaidIs DEF Inv
<1>3. LET before == CollectionSchedule(loan, [paid EXCEPT ![today] = 0],
                                       balance + paid[today],
                                       PaidAmount - paid[today], today)
          now == CollectionSchedule(loan, paid, balance, PaidAmount, today)
      IN  /\ before.expectedToday \in Nat
          /\ now.expectedToday = Pos(before.expectedToday - paid[today])
  <2>1. PaidAmount \in Nat /\ paid[today] <= PaidAmount
    BY <1>2
  <2> QED
    BY <1>1, <2>1, LessThePaymentsOfTheDay
<1> QED
  BY <1>2, <1>3 DEF Morning, Detail

\* In the loan list a borrower counts as unpaid for the day exactly while the detail
\* of the loan still asks for something: classifyDueDayCoverage judges the morning's
\* schedule by the full amount (not by any payment, as the comment over it says),
\* the detail is computed again with the payments of the day.
THEOREM UnpaidExactlyWhileDue == Spec => []UnpaidWhileDue
<1>1. ASSUME Inv PROVE UnpaidWhileDue
  <2> DEFINE x == Morning.expectedToday
             y == Detail.expectedToday
             p == paid[today]
  <2>1. x \in Nat /\ p \in Nat /\ y = Pos(x - p)
    BY <1>1, SinceTheMorning
  <2>2. FullyCovered(Morning) <=> x <= p
    BY DEF FullyCovered
  <2>3. ASSUME y > 0 PROVE Coverage(Morning) \in {"due_unpaid", "overdue_unpaid"}
    <3> HIDE DEF x, y, p
    <3>1. x > p /\ x > 0
      BY <2>1, <2>3 DEF Pos
    <3>2. ~ FullyCovered(Morning)
      BY <2>1, <2>2, <3>1
    <3>3. Morning.expectedToday > 0
      BY <3>1 DEF x
    <3> QED
      BY <3>2, <3>3 DEF Coverage
  <2>4. ASSUME ~ (y > 0)
        PROVE  Coverage(Morning) \notin {"due_unpaid", "overdue_unpaid"}
    <3> HIDE DEF x, y, p
    <3>1. FullyCovered(Morning)
      BY <2>1, <2>2, <2>4 DEF Pos
    <3> QED
      BY <3>1 DEF Coverage
  <2> QED
    BY <2>3, <2>4 DEF UnpaidWhileDue
<1> QED
  BY <1>1, ScheduleInvariant, PTL

\* A payment takes its amount off what the day expects and shifts nothing else
\* onto it, though the walk over the due dates is taken anew with it.
THEOREM PaymentTakesItsAmountOff == Spec => PaymentSettlesTheDay
<1>1. ASSUME Inv, [Next]_vars, paid' # paid
      PROVE  Detail'.expectedToday
               = Pos(Detail.expectedToday - (balance - balance'))
  <2>1. PICK a : Pay(a)
    BY <1>1 DEF Next, ApplyFines, NextDay, vars
  <2>2. /\ a \in Nat /\ a <= balance /\ balance \in Nat
        /\ paid' = [paid EXCEPT ![today] = @ + a] /\ balance' = balance - a
        /\ UNCHANGED <<loan, today, fined, missed>>
    BY <1>1, <2>1 DEF Pay, Inv, DebtAddsUp
  <2> DEFINE p == paid[today]
             q == paid'[today]
             x == Morning.expectedToday
  <2>3. /\ Dated(loan) /\ paid \in Rows /\ today \in Days
    BY <1>1, TodayInCalendar DEF Inv, TermsKept, DebtAddsUp
  <2>4. /\ PaidAmount \in Nat /\ p <= PaidAmount /\ p \in Nat
        /\ PaidBefore = PaidAmount - p
    BY <1>1, PaidIs DEF Inv
  <2>5. /\ paid' \in Rows /\ q = p + a
        /\ [paid' EXCEPT ![today] = 0] = [paid EXCEPT ![today] = 0]
    <3>1. paid' \in Rows /\ q = p + a
      BY <2>2, <2>3, <2>4 DEF Rows
    <3>2. [paid' EXCEPT ![today] = 0] = [paid EXCEPT ![today] = 0]
      BY <2>2, <2>3 DEF Rows
    <3> QED
      BY <3>1, <3>2
  <2>6. PaidAmount' = PaidAmount + a
    <3> DEFINE F == Fine * Cardinality(fined)
               T == Total(paid, 1..LastDay)
    <3>1. PaidAmount = Pos(loan.total + (F - balance))
      BY DEF PaidAmount
    <3>2. PaidAmount' = Pos(loan.total + (F - balance'))
      BY <2>2 DEF PaidAmount
    <3>3. /\ loan.total \in Nat /\ loan.imported \in Nat
          /\ F \in Nat /\ T \in Nat
      BY <1>1, <2>3, CalendarEnds, TotalType, FinesType
         DEF Inv, DebtAddsUp, Dated
    <3>4. balance = ((loan.total - loan.imported) + F) - T
      BY <1>1 DEF Inv, DebtAddsUp, Fines
    <3> HIDE DEF F, T
    <3>5. a \in Nat /\ balance' = balance - a /\ balance \in Nat
      BY <2>2
    <3>6. loan.total + (F - balance) \in Nat
      BY <3>3, <3>4, <3>5
    <3>7. PaidAmount = loan.total + (F - balance)
      BY <3>1, <3>6 DEF Pos
    <3>8. loan.total + (F - balance') = (loan.total + (F - balance)) + a
      BY <3>3, <3>5
    <3>9. PaidAmount' = (loan.total + (F - balance)) + a
      BY <3>2, <3>5, <3>6, <3>8 DEF Pos
    <3> QED
      BY <3>7, <3>9
  <2>7. /\ PaidAmount' \in Nat /\ q <= PaidAmount' /\ balance' \in Nat
        /\ balance' + q = balance + p /\ PaidAmount' - q = PaidAmount - p
    <3> HIDE DEF p, q
    <3> QED
      BY <2>2, <2>4, <2>5, <2>6
  <2>8. Detail'.expectedToday = Pos(x - q)
    <3>1. LET before == CollectionSchedule(loan, [paid' EXCEPT ![today] = 0],
                                           balance' + q, PaidAmount' - q, today)
              now == CollectionSchedule(loan, paid', balance', PaidAmount', today)
          IN  /\ before.expectedToday \in Nat
              /\ now.expectedToday = Pos(before.expectedToday - q)
      BY <2>3, <2>5, <2>7, LessThePaymentsOfTheDay
    <3>2. Morning = CollectionSchedule(loan, [paid' EXCEPT ![today] = 0],
                                       balance' + q, PaidAmount' - q, today)
      BY <2>4, <2>5, <2>7 DEF Morning
    <3>3. Detail' = CollectionSchedule(loan, paid', balance', PaidAmount', today)
      BY <2>2 DEF Detail
    <3> QED
      BY <3>1, <3>2, <3>3
  <2>9. x \in Nat /\ Detail.expectedToday = Pos(x - p)
    BY <1>1, SinceTheMorning
  <2>10. balance - balance' = a
    BY <2>2
  <2> HIDE DEF x, p, q
  <2>11. Pos(x - q) = Pos(Pos(x - p) - a)
    BY <2>2, <2>4, <2>5, <2>9 DEF Pos
  <2> QED
    BY <2>8, <2>9, <2>10, <2>11
<1>2. Inv /\ [Next]_vars =>
        [paid' # paid => Detail'.expectedToday
                           = Pos(Detail.expectedToday - (balance - balance'))]_vars
  BY <1>1
<1> QED
  BY <1>2, ScheduleInvariant, PTL DEF Spec, PaymentSettlesTheDay

-----------------------------------------------------------------------------
(* Maturity.                                                               *)

\* From maturity on every due date has come.
LEMMA AllHaveCome ==
  ASSUME NEW l, Dated(l), NEW d \in Nat \ {0}, Maturity(l) <= d
  PROVE  Due(l, d) = Len(l.dates)
<1> DEFINE k == Due(l, d)
           N == Len(l.dates)
<1>1. k \in 0..N /\ \A n \in 1..N : l.dates[n] <= d <=> n <= k
  BY CameInOrder
<1>2. N \in Nat \ {0} /\ l.dates[N] = Maturity(l)
  BY DEF Dated
<1> HIDE DEF k, N
<1>3. N <= k
  BY <1>1, <1>2
<1>4. k = N
  BY <1>1, <1>2, <1>3
<1> QED
  BY <1>4 DEF k, N

\* From maturity on the dated payments leave nothing of the debt for later.
LEMMA AllIsExpected ==
  ASSUME NEW l, Dated(l), NEW rows \in Rows, NEW d \in Days, Maturity(l) <= d
  PROVE  Recalculated(l, rows, d).expectedToday
           = Pos(l.total - Total(rows, 1..d))
<1> DEFINE N == Len(l.dates)
           w == Walk(l, rows)[N]
           u == Overnight(l, rows, d + 1)
           b == Total(rows, DayAfter(l, N)..d)
<1>1. /\ d \in Nat \ {0} /\ d + 1 \in Nat \ {0} /\ d + 1 <= LastDay + 1
      /\ (d + 1) - 1 = d
  BY CalendarEnds DEF Days
<1>2. Due(l, d) = N
  BY <1>1, AllHaveCome
<1>3. w \in Standing /\ w.balance <= w.arrears
  <2>1. N \in 0..N
    BY DEF Dated
  <2> QED
    BY <2>1, WalkType, WalkEnd
<1>4. u = ApplyPayment(w, b, w.arrears)
  BY <1>1, <1>2 DEF Overnight
<1>5. b \in Nat
  <2>1. /\ DayAfter(l, Due(l, (d + 1) - 1)) \in Nat \ {0}
        /\ (d + 1) - 1 \in Nat /\ (d + 1) - 1 <= LastDay
    BY <1>1, SinceLastDue
  <2>2. DayAfter(l, N) \in Nat \ {0} /\ d \in Int /\ d <= LastDay
    BY <1>1, <1>2, <2>1
  <2> HIDE DEF N
  <2> QED
    BY <2>2, TotalType
<1>6. u.balance = Pos(l.total - Total(rows, 1..(d + 1) - 1))
  BY <1>1, OvernightType
<1>7. Recalculated(l, rows, d).expectedToday = Lesser(u.balance, u.arrears)
  BY RecalculatedExpects
<1> HIDE DEF w, u, b
<1>8. w.balance \in Nat /\ w.arrears \in Nat
  BY <1>3 DEF Standing
<1>9. u.balance = Pos(w.balance - b) /\ u.arrears = Pos(w.arrears - Lesser(w.balance, b))
  BY <1>3, <1>4, <1>5, <1>8, AfterPayment
<1>10. Lesser(u.balance, u.arrears) = u.balance
  BY <1>3, <1>5, <1>8, <1>9 DEF Pos, Lesser
<1> QED
  BY <1>1, <1>6, <1>7, <1>10

\* From maturity on the whole debt but the fines is expected, for every
\* cadence, amount, length of months and history of payments and fines: what
\* calculateCollectionSchedule rounds and reshapes loses no cent, and it asks
\* for one too much only of a loan taken over with that one paid.
THEOREM WholeDebtIsExpected == Spec => []WholeDebtDueAtMaturity
<1>1. ASSUME Inv PROVE WholeDebtDueAtMaturity
  <2> DEFINE T == Total(paid, 1..LastDay)
             F == Fine * Cardinality(fined)
             unseen == IF loan.imported = 1 THEN 1 ELSE 0
             x == Detail.expectedToday
  <2>1. SUFFICES ASSUME today >= Maturity(loan)
                 PROVE  x = Pos((balance - F) + unseen)
    BY DEF WholeDebtDueAtMaturity, Fines
  <2>2. /\ Dated(loan) /\ paid \in Rows /\ today \in Days /\ today \in Nat \ {0}
        /\ Maturity(loan) \in Nat /\ Maturity(loan) <= today
    BY <1>1, <2>1, TodayInCalendar DEF Inv, TermsKept, DebtAddsUp, Dated
  <2>3. /\ T = Total(paid, 1..today) /\ PaidAmount = loan.imported + T
    <3>1. Total(paid, 1..today) = Total(paid, 1..today - 1) + paid[today]
      BY <2>2, TotalWithDay
    <3> QED
      BY <1>1, <3>1, PaidIs DEF Inv
  <2>4. /\ loan.total \in Nat /\ loan.imported \in Nat /\ F \in Nat /\ T \in Nat
        /\ balance \in Nat
    BY <1>1, <2>2, CalendarEnds, TotalType, FinesType DEF Inv, DebtAddsUp, Dated
  <2>5. balance = ((loan.total - loan.imported) + F) - T
    BY <1>1 DEF Inv, DebtAddsUp, Fines
  <2>6. /\ loan.imported = 0 => unseen = 0
        /\ loan.imported = 1 => unseen = 1
        /\ loan.imported > 1 => unseen = 0
    OBVIOUS
  <2>7. Detail = IF loan.imported <= 1 THEN Recalculated(loan, paid, today)
                 ELSE Cumulative(loan, balance, PaidAmount, today)
    BY <1>1, DetailIs DEF Inv
  <2>8. ASSUME loan.imported <= 1 PROVE x = Pos((balance - F) + unseen)
    <3>1. Recalculated(loan, paid, today).expectedToday
            = Pos(loan.total - Total(paid, 1..today))
      BY <2>2, AllIsExpected
    <3>2. x = Pos(loan.total - T)
      BY <2>3, <2>7, <2>8, <3>1
    <3>3. loan.imported = unseen
      BY <2>4, <2>6, <2>8
    <3> HIDE DEF x, T, F, unseen
    <3>4. loan.total - T = (balance - F) + unseen
      BY <2>4, <2>5, <3>3
    <3> QED
      BY <3>2, <3>4
  <2>9. ASSUME ~ (loan.imported <= 1) PROVE x = Pos((balance - F) + unseen)
    <3>1. x = Lesser(balance, Pos(ExpectedFor(loan, Due(loan, today)) - PaidAmount))
      <4>1. Cumulative(loan, balance, PaidAmount, today).expectedToday
              = Lesser(balance, Pos(ExpectedFor(loan, Due(loan, today)) - PaidAmount))
        BY CumulativeExpects
      <4> QED
        BY <2>7, <2>9, <4>1
    <3>2. ExpectedFor(loan, Due(loan, today)) = loan.total
      <4>1. Len(loan.dates) \in 0..Len(loan.dates)
        BY <2>2 DEF Dated
      <4>2. Due(loan, today) = Len(loan.dates)
        BY <2>2, AllHaveCome
      <4> QED
        BY <2>2, <4>1, <4>2, ExpectedForRises
    <3>3. unseen = 0
      BY <2>4, <2>6, <2>9
    <3> HIDE DEF x, T, F, unseen
    <3>4. x = Lesser(balance, Pos(loan.total - (loan.imported + T)))
      BY <2>3, <3>1, <3>2
    <3> QED
      BY <2>4, <2>5, <3>3, <3>4 DEF Lesser, Pos
  <2> QED
    BY <2>8, <2>9
<1> QED
  BY <1>1, ScheduleInvariant, PTL

-----------------------------------------------------------------------------
(* Arrears.                                                                *)

\* Who owes and has missed no day is shown no arrears; a loan whose payments
\* are not all dated at most what the rounding of its instalments has left to
\* the last: neither an advance nor a payment between due dates makes arrears.
THEOREM NoArrearsWithoutMissing == Spec => []ArrearsOnlyAfterMissing
<1>1. ASSUME Inv PROVE ArrearsOnlyAfterMissing
  <2> DEFINE T == Total(paid, 1..LastDay)
             B == Total(paid, 1..today - 1)
             C == Contractual(loan)
             rest == Pos(loan.total - C * Len(loan.dates))
             left == IF loan.imported = 0 THEN 0 ELSE rest
             v == Overnight(loan, paid, today)
             j == Due(loan, today - 1)
             k == Due(loan, today)
             x == Detail.carriedForward
  <2>1. SUFFICES ASSUME ~ missed, balance > 0 PROVE x <= left
    BY DEF ArrearsOnlyAfterMissing
  <2>2. /\ Dated(loan) /\ paid \in Rows /\ today \in Days /\ today \in Nat \ {0}
        /\ today <= LastDay /\ LastDay \in Nat
    BY <1>1, TodayInCalendar, CalendarEnds DEF Inv, TermsKept, DebtAddsUp
  <2>3. /\ loan.total \in Nat /\ loan.imported \in Nat
        /\ Len(loan.dates) \in Nat \ {0} /\ Maturity(loan) \in Nat
    BY <2>2 DEF Dated
  <2>4. C \in Nat /\ rest \in Nat /\ left \in Nat
    <3>1. C \in Nat
      BY <2>3, RoundDivNat DEF Contractual
    <3>2. rest \in Nat
      <4> HIDE DEF C
      <4>1. C * Len(loan.dates) \in Nat
        BY <2>3, <3>1
      <4> QED
        BY <2>3, <4>1 DEF Pos
    <3> HIDE DEF rest, C
    <3> QED
      BY <3>1, <3>2
  <2>5. /\ PaidAmount = loan.imported + T /\ T = B + paid[today]
        /\ B \in Nat /\ paid[today] \in Nat
    BY <1>1, PaidIs DEF Inv
  <2>6. Detail = IF loan.imported <= 1 THEN Recalculated(loan, paid, today)
                 ELSE Cumulative(loan, balance, PaidAmount, today)
    BY <1>1, DetailIs DEF Inv
  <2>7. /\ j \in Nat /\ k \in 0..Len(loan.dates)
        /\ k = j \/ (k = j + 1 /\ k \in 1..Len(loan.dates) /\ loan.dates[k] = today)
    <3>1. today \in Int /\ today <= LastDay + 1
      BY <2>2
    <3>2. j \in 0..Len(loan.dates) /\ k \in 0..Len(loan.dates)
      BY <2>2, <3>1, SinceLastDue, CameInOrder
    <3>3. k # j => j + 1 \in 1..Len(loan.dates) /\ k = j + 1 /\ loan.dates[k] = today
      BY <2>2, <3>1, OneDueDateADay
    <3> QED
      BY <2>3, <3>2, <3>3
  <2>8. ASSUME loan.imported <= 1 PROVE x <= left
    <3>1. x = IF k = j + 1 THEN v.arrears ELSE 0
      <4>1. Recalculated(loan, paid, today).carriedForward
              = IF k = j + 1 THEN v.arrears ELSE 0
        BY <2>2, RecalculatedExpects
      <4> QED
        BY <2>6, <2>8, <4>1
    <3>2. ASSUME k = j + 1 PROVE v.arrears = 0
      <4>1. today <= Maturity(loan)
        <5>1. k \in 1..Len(loan.dates) /\ loan.dates[k] = today
          <6> HIDE DEF j, k
          <6> QED
            BY <2>7, <3>2
        <5> QED
          BY <2>2, <5>1, DateTypes
      <4>2. Fines = 0
        <5>1. Cardinality(fined) = 0
          BY <1>1, <4>1, FS_EmptySet DEF Inv, DebtAddsUp
        <5> QED
          BY <5>1, ScheduleAssumptions DEF Fines
      <4>3. balance = ((loan.total - loan.imported) + 0) - T
        BY <1>1, <4>2 DEF Inv, DebtAddsUp
      <4>4. /\ v \in Standing /\ v.balance = Pos(loan.total - B)
        BY <2>2, OvernightType
      <4>5. Lesser(v.balance, v.arrears) = 0
        BY <1>1, <2>1, <2>8 DEF Inv, MetSoFar
      <4> HIDE DEF v, T, B
      <4>6. v.balance > 0
        <5>1. loan.total - B > 0
          <6> DEFINE p == paid[today]
          <6>1. T = B + p /\ B \in Nat /\ p \in Nat
            BY <2>5
          <6>2. T \in Nat /\ B <= T
            <7> HIDE DEF p
            <7> QED
              BY <6>1
          <6>3. (loan.total - loan.imported) - T > 0
            BY <2>1, <2>3, <4>3, <6>2
          <6> QED
            BY <2>3, <6>1, <6>2, <6>3
        <5> QED
          BY <4>4, <5>1 DEF Pos
      <4>7. v.arrears \in Nat /\ v.balance \in Nat
        BY <4>4 DEF Standing
      <4> QED
        BY <4>5, <4>6, <4>7 DEF Lesser
    <3>3. x = 0
      BY <3>1, <3>2
    <3> HIDE DEF x, left
    <3> QED
      BY <2>4, <3>3
  <2>9. ASSUME ~ (loan.imported <= 1) PROVE x <= left
    <3> DEFINE e == ExpectedFor(loan, k)
               f == ExpectedFor(loan, j)
               y == Detail.expectedToday
    <3>1. y = Lesser(balance, Pos(e - PaidAmount)) /\ x = CarriedForward(loan, y)
      <4> DEFINE r == Cumulative(loan, balance, PaidAmount, today)
      <4>1. r.expectedToday = Lesser(balance, Pos(e - PaidAmount))
            /\ r.carriedForward = CarriedForward(loan, r.expectedToday)
        BY CumulativeExpects
      <4>2. Detail = r
        BY <2>6, <2>9
      <4> QED
        BY <4>1, <4>2
    <3>2. e \in Nat
      BY <2>2, <2>7, ExpectedForRises
    <3>3. f <= loan.imported + B /\ f \in Int
      <4>1. f <= loan.imported + B
        BY <1>1, <2>1, <2>9 DEF Inv, MetSoFar
      <4>2. j \in 0..Len(loan.dates)
        <5>1. today <= LastDay + 1
          BY <2>2
        <5> QED
          BY <2>2, <5>1, SinceLastDue
      <4> QED
        BY <2>2, <4>1, <4>2, ExpectedForRises
    <3>4. e - f <= C + rest
      <4>1. CASE k = j
        BY <2>4, <3>2, <4>1
      <4>2. CASE k # j
        <5>1. k \in 0..Len(loan.dates) /\ k # 0 /\ k - 1 = j
          <6> HIDE DEF j, k
          <6> QED
            BY <2>3, <2>7, <4>2
        <5>2. e - ExpectedFor(loan, k - 1)
                <= Contractual(loan)
                   + Pos(loan.total - Contractual(loan) * Len(loan.dates))
          BY <2>2, <5>1, ExpectedForRises
        <5> QED
          BY <5>1, <5>2
      <4> QED
        BY <4>1, <4>2
    <3>5. left = rest
      BY <2>9
    <3> HIDE DEF x, y, e, f, T, B, C, rest, left
    <3>6. y <= C + rest /\ y \in Int
      <4>1. Pos(e - PaidAmount) <= C + rest /\ Pos(e - PaidAmount) \in Nat
        <5>1. PaidAmount \in Nat /\ f <= PaidAmount
          <6> DEFINE p == paid[today]
          <6>1. PaidAmount = loan.imported + T /\ T = B + p /\ B \in Nat /\ p \in Nat
            BY <2>5
          <6> HIDE DEF p
          <6> QED
            BY <2>3, <3>3, <6>1
        <5>2. C + rest \in Nat
          BY <2>4
        <5> QED
          BY <3>2, <3>3, <3>4, <5>1, <5>2 DEF Pos
      <4>2. balance \in Nat
        BY <1>1 DEF Inv, DebtAddsUp
      <4> QED
        BY <2>4, <3>1, <4>1, <4>2 DEF Lesser
    <3>7. x = IF y = 0 THEN 0 ELSE Pos(y - C)
      BY <3>1 DEF CarriedForward, C
    <3> QED
      BY <2>4, <3>5, <3>6, <3>7 DEF Pos
  <2> QED
    BY <2>8, <2>9
<1> QED
  BY <1>1, ScheduleInvariant, PTL

=============================================================================
