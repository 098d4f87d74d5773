------------------------------- MODULE SignIn -------------------------------
(***************************************************************************)
(* The sign-in calendar of a user: a bitmap per month, bit d - 1 for day   *)
(* d.  signCount reads the first dayOfMonth bits as one unsigned number,   *)
(* whose first bit is the highest, and counts the ones at its low end.     *)
(***************************************************************************)
EXTENDS Positional

CONSTANTS
  MonthDays,       \* days of a month
  MaxDay           \* bound on the days that pass

ASSUME CalendarAssumption == MonthDays \in Nat \ {0} /\ MaxDay \in Nat

VARIABLES
  day,             \* days that have passed
  bits             \* sign:{user}:{month}: the bits that are set

signVars == <<day, bits>>

Month(d) == d \div MonthDays
DayOfMonth(d) == (d % MonthDays) + 1

SignInit ==
  /\ day = 0
  /\ bits = [m \in 0 .. Month(MaxDay) |-> {}]

DayPasses ==
  /\ day < MaxDay
  /\ day' = day + 1
  /\ UNCHANGED bits

Sign ==
  /\ bits' = [bits EXCEPT ![Month(day)] = @ \cup {DayOfMonth(day) - 1}]
  /\ UNCHANGED day

SignNext == DayPasses \/ Sign

SignSpec == SignInit /\ [][SignNext]_signVars

\* BITFIELD GET u(width) 0: bit 0 is the most significant one.
BitField(set, width) == Value(2, [i \in 1 .. width |-> IF i - 1 \in set THEN 1 ELSE 0])

\* while ((num & 1) != 0) { count++; num >>>= 1 }
LowOnes[num \in Nat] == IF num % 2 = 0 THEN 0 ELSE 1 + LowOnes[num \div 2]

\* Mutant: the days before today only.
SignCountUpToYesterday(d) == LowOnes[BitField(bits[Month(d)], DayOfMonth(d) - 1)]

SignCount(d) == LowOnes[BitField(bits[Month(d)], DayOfMonth(d))]

\* Was the user there n days before day d, in the month of d?
SignedBefore(d, n) ==
  DayOfMonth(d) - n >= 1 /\ DayOfMonth(d) - n - 1 \in bits[Month(d)]

(***************************************************************************)
(* The count is the number of days in a row, up to today and within the    *)
(* month, that the user has signed in; 0 without today.                    *)
(***************************************************************************)
CountsTheRun ==
  /\ \A n \in 0 .. SignCount(day) - 1 : SignedBefore(day, n)
  /\ ~SignedBefore(day, SignCount(day))
=============================================================================
