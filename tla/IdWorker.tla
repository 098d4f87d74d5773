------------------------------ MODULE IdWorker ------------------------------
(***************************************************************************)
(* RedisIdWorker.nextId: the second, from the instance's own clock, in the *)
(* high bits, and a counter of the day, kept in Redis, in the low ones.    *)
(* Calls run on instances whose clocks differ, and may stop between the    *)
(* two steps for as long as they like.                                     *)
(***************************************************************************)
EXTENDS Integers, FiniteSets

CONSTANTS
  Calls,           \* calls of nextId with one prefix
  Ahead,           \* seconds the clock of a call's instance is ahead
  MaxAhead,        \* bound on them
  DaySeconds,      \* seconds of a day
  CountRange,      \* 2 ^ COUNT_BITS
  MaxSecond        \* bound on the time

ASSUME IdAssumption ==
  /\ IsFiniteSet(Calls) /\ Cardinality(Calls) < CountRange
  /\ MaxAhead \in Nat /\ Ahead \in [Calls -> 0 .. MaxAhead]
  /\ DaySeconds \in Nat \ {0} /\ CountRange \in Nat /\ MaxSecond \in Nat

VARIABLES
  second,          \* the time, from BEGIN_TIMESTAMP on
  increments,      \* icr:{prefix}:{date}
  call

idVars == <<second, increments, call>>

Day(s) == s \div DaySeconds

Clocks == 0 .. MaxSecond + MaxAhead
Days == {Day(s) : s \in Clocks}

IdInit ==
  /\ second = 0
  /\ increments = [d \in Days |-> 0]
  /\ call = [c \in Calls |-> [at |-> "new", second |-> 0, count |-> 0]]

SecondPasses ==
  /\ second < MaxSecond
  /\ second' = second + 1
  /\ UNCHANGED <<increments, call>>

ReadClock(c) ==
  /\ call[c].at = "new"
  /\ call' = [call EXCEPT ![c].at = "increment", ![c].second = second + Ahead[c]]
  /\ UNCHANGED <<second, increments>>

IncrementOf(c, day) ==
  /\ call[c].at = "increment"
  /\ increments' = [increments EXCEPT ![day] = @ + 1]
  /\ call' = [call EXCEPT ![c].at = "done", ![c].count = increments[day] + 1]
  /\ UNCHANGED second

\* Mutant: the date is taken from a second look at the clock.
IncrementToday(c) == IncrementOf(c, Day(second + Ahead[c]))

\* Seconds and date come from one reading of the clock.
Increment(c) == IncrementOf(c, Day(call[c].second))

\* timestamp << COUNT_BITS | count: a count below CountRange leaves the high bits alone.
Id(c) == call[c].second * CountRange + call[c].count

IdNext == SecondPasses \/ \E c \in Calls : ReadClock(c) \/ Increment(c)

IdSpec == IdInit /\ [][IdNext]_idVars

-----------------------------------------------------------------------------

(***************************************************************************)
(* Whatever the clocks say and however long a call pauses, no two calls    *)
(* get the same id.                                                        *)
(***************************************************************************)
DistinctIds ==
  \A c, d \in Calls : c # d /\ call[c].at = "done" /\ call[d].at = "done" => Id(c) # Id(d)
=============================================================================
