------------------------------- MODULE Calendar -------------------------------
(***************************************************************************)
(* The calendar that paid upgrades are reckoned in. A day is its number in *)
(* the year, from 0, and all years are alike. Months may have any length,  *)
(* so that a small year has all that happens at the ends of months.        *)
(***************************************************************************)
EXTENDS Integers, Sequences

CONSTANT MonthStarts  \* the first day of each month, and of the next year

Months == 1..(Len(MonthStarts) - 1)
YearLength == MonthStarts[Len(MonthStarts)]
MonthLength(m) == MonthStarts[m + 1] - MonthStarts[m]

\* There are several months, the last no shorter than any other, as December is.
ASSUME MonthsAssumption ==
  /\ MonthStarts \in Seq(Nat) /\ Len(MonthStarts) > 2 /\ MonthStarts[1] = 0
  /\ \A l, m \in DOMAIN MonthStarts : l < m => MonthStarts[l] < MonthStarts[m]
  /\ \A m \in Months : MonthLength(m) <= MonthLength(Len(MonthStarts) - 1)

MonthOf(n) == CHOOSE m \in Months : MonthStarts[m] <= n /\ n < MonthStarts[m + 1]
DayOf(n) == n - MonthStarts[MonthOf(n)] + 1

Tomorrow(n) == IF n + 1 = YearLength THEN 0 ELSE n + 1

\* The lengths every month has at least, and no month exceeds (28 and 31).
Lengths == {MonthLength(m) : m \in Months}
Shortest == CHOOSE s \in Lengths : \A l \in Lengths : s <= l
Longest == CHOOSE s \in Lengths : \A l \in Lengths : s >= l

-----------------------------------------------------------------------------
\* AddDate: the days from day n to the same day of the month that is so many
\* months later, or to the last day of that month if it is shorter.
AddDate(n, months) ==
  LET L == Len(MonthStarts) - 1
      m == MonthOf(n) - 1 + months
      then == (m % L) + 1
      day == IF DayOf(n) <= MonthLength(then) THEN DayOf(n) ELSE MonthLength(then)
  IN  (m \div L) * YearLength + MonthStarts[then] + day - 1 - n

\* ExpDateRollover: the month of day n has no day like that of day e, and n
\* is its last. At the end of a year the next month is not a later one.
ExpDateRollover(n, e) ==
  /\ DayOf(e) > Shortest
  /\ DayOf(e) > DayOf(n)
  /\ MonthOf(Tomorrow(n)) > MonthOf(n)
===============================================================================
