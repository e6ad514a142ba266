------------------------ MODULE RepaymentScheduleMC ------------------------
EXTENDS RepaymentSchedule

\* Each month shorter or longer than the one before, as in January to April.
Calendar == <<7, 4, 7, 6>>

Agreement(cadence, total, start, duration, imported) ==
  [cadence |-> cadence, total |-> total, start |-> start,
   duration |-> duration, imported |-> imported]

\* Every cadence; maturity on, next to and away from the last day of it, and
\* one period shorter than a week; 31 January; loans taken over half paid and
\* with just the unit that passes for dated.
Agreements ==
  {Agreement("DAILY", 10, 3, 3, 0), Agreement("DAILY", 10, 3, 3, 4),
   Agreement("DAILY", 10, 3, 2, 1),
   Agreement("WEEKLY", 10, 3, 8, 0), Agreement("WEEKLY", 11, 3, 9, 0),
   Agreement("WEEKLY", 10, 3, 2, 0), Agreement("BIWEEKLY", 10, 3, 9, 0),
   Agreement("MONTHLY", 11, 7, 13, 0), Agreement("LUMP_SUM", 10, 3, 4, 0)}

\* A monthly loan is due once in every month it runs in beside its maturity,
\* from whatever day of the month it starts: no month is skipped or met twice.
ASSUME OncePerMonth ==
  \A start \in 1..FirstOf(2), duration \in 1..FirstOf(3) :
    LET l == Agreement("MONTHLY", 10, start, duration, 0)
        monthEnd(m) == FirstOf(m) + MonthLengths[m] - 1
    IN  \A m \in MonthOf(start)..MonthOf(Maturity(l)) :
          LET due == {d \in OnCadence(l) : MonthOf(d) = m}
          IN  /\ Cardinality(due) <= 1
              /\ monthEnd(m) <= Maturity(l) => due # {}
=============================================================================
