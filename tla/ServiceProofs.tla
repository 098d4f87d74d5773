---------------------------- MODULE ServiceProofs ---------------------------
(***************************************************************************)
(* Proofs about three services, which share no state: ids are distinct,    *)
(* the rate limit counts every window, and what parts the counters of a    *)
(* blog from what they count.                                              *)
(***************************************************************************)
EXTENDS IdWorker, RateLimit, BlogCommunity, FiniteSetTheorems, TLAPS

-----------------------------------------------------------------------------
(* Ids                                                                     *)

\* The calls the counter of a day has counted.
CallsOf(d) == {c \in Calls : call[c].at = "done" /\ Day(call[c].second) = d}

IdTypes ==
  /\ second \in 0 .. MaxSecond
  /\ increments \in [Days -> Nat]
  /\ call \in [Calls -> [at : {"new", "increment", "done"}, second : Clocks, count : Nat]]

CounterInv ==
  /\ \A d \in Days : increments[d] = Cardinality(CallsOf(d))
  /\ \A d \in Days : \A c \in CallsOf(d) : call[c].count \in 1 .. increments[d]
  /\ \A d \in Days : \A b, c \in CallsOf(d) : b # c => call[b].count # call[c].count

IdInv == IdTypes /\ CounterInv

\* A counter stays within its bits.
LEMMA CallsFew ==
  ASSUME NEW d
  PROVE  IsFiniteSet(CallsOf(d)) /\ Cardinality(CallsOf(d)) < CountRange
<1>1. CallsOf(d) \subseteq Calls
  BY DEF CallsOf
<1>2. IsFiniteSet(CallsOf(d)) /\ Cardinality(CallsOf(d)) <= Cardinality(Calls)
  BY <1>1, IdAssumption, FS_Subset
<1>3. Cardinality(CallsOf(d)) \in Nat /\ Cardinality(Calls) \in Nat
  BY <1>2, IdAssumption, FS_CardinalityType
<1> QED BY <1>2, <1>3, IdAssumption

LEMMA IdInitially == IdInit => IdInv
<1> SUFFICES ASSUME IdInit PROVE IdInv
  OBVIOUS
<1>1. IdTypes
  BY IdAssumption DEF IdInit, IdTypes, Clocks
<1>2. \A d \in Days : CallsOf(d) = {}
  BY DEF IdInit, CallsOf
<1>3. CounterInv
  BY <1>2, FS_EmptySet DEF IdInit, CounterInv
<1> QED BY <1>1, <1>3 DEF IdInv

LEMMA IdStep == IdInv /\ [IdNext]_idVars => IdInv'
<1> SUFFICES ASSUME IdInv, [IdNext]_idVars PROVE IdInv'
  OBVIOUS
<1> USE DEF IdInv
<1>1. CASE UNCHANGED idVars
  BY <1>1 DEF idVars, IdTypes, CounterInv, CallsOf
<1>2. CASE SecondPasses
  <2>1. IdTypes'
    BY <1>2, IdAssumption DEF SecondPasses, IdTypes
  <2>2. CounterInv'
    BY <1>2 DEF SecondPasses, CounterInv, CallsOf
  <2> QED BY <2>1, <2>2
<1>3. ASSUME NEW c \in Calls, ReadClock(c)
      PROVE  IdInv'
  <2>1. second + Ahead[c] \in Clocks
    BY IdAssumption DEF IdTypes, Clocks
  <2>2. IdTypes'
    BY <1>3, <2>1 DEF ReadClock, IdTypes
  <2>3. \A d \in Calls : d # c => call'[d] = call[d]
    BY <1>3 DEF ReadClock, IdTypes
  <2>4. call[c].at = "new" /\ call'[c].at = "increment" /\ increments' = increments
    BY <1>3 DEF ReadClock, IdTypes
  <2>5. \A d \in Days : CallsOf(d)' = CallsOf(d) /\ c \notin CallsOf(d)
    BY <2>3, <2>4 DEF CallsOf
  <2>6. CounterInv'
    BY <2>3, <2>4, <2>5 DEF CounterInv, CallsOf
  <2> QED BY <2>2, <2>6
<1>4. ASSUME NEW c \in Calls, Increment(c)
      PROVE  IdInv'
  <2>0. PICK t \in Days : t = Day(call[c].second)
    BY DEF IdTypes, Days
  <2>1. t \in Days /\ call[c].at = "increment"
    BY <1>4, <2>0 DEF Increment, IncrementOf
  <2>2. /\ increments' = [increments EXCEPT ![t] = @ + 1]
        /\ call' = [call EXCEPT ![c].at = "done", ![c].count = increments[t] + 1]
        /\ second' = second
    BY <1>4, <2>0 DEF Increment, IncrementOf
  <2>3. IdTypes'
    <3>1. increments' \in [Days -> Nat]
      BY <2>1, <2>2 DEF IdTypes
    <3>2. increments[t] + 1 \in Nat
      BY <2>1 DEF IdTypes
    <3>3. call' \in [Calls -> [at : {"new", "increment", "done"}, second : Clocks, count : Nat]]
      BY <2>2, <3>2 DEF IdTypes
    <3> QED BY <2>2, <3>1, <3>3 DEF IdTypes
  <2>4. /\ \A d \in Calls : d # c => call'[d] = call[d]
        /\ call'[c].at = "done" /\ call'[c].second = call[c].second
        /\ call'[c].count = increments[t] + 1
    BY <2>2 DEF IdTypes
  <2>5. /\ CallsOf(t)' = CallsOf(t) \cup {c} /\ c \notin CallsOf(t)
        /\ \A d \in Days : d # t => CallsOf(d)' = CallsOf(d) /\ c \notin CallsOf(d)
    BY <2>0, <2>1, <2>4 DEF CallsOf
  <2>6. /\ increments'[t] = increments[t] + 1
        /\ \A d \in Days : d # t => increments'[d] = increments[d]
    BY <2>1, <2>2 DEF IdTypes
  <2>7. Cardinality(CallsOf(t)') = Cardinality(CallsOf(t)) + 1
    BY <2>5, CallsFew, FS_AddElement
  <2>8. \A d \in Days : increments'[d] = Cardinality(CallsOf(d)')
    <3> SUFFICES ASSUME NEW d \in Days PROVE increments'[d] = Cardinality(CallsOf(d)')
      OBVIOUS
    <3>1. increments[d] = Cardinality(CallsOf(d))
      BY DEF CounterInv
    <3>2. CASE d = t
      BY <3>1, <3>2, <2>6, <2>7
    <3>3. CASE d # t
      BY <3>1, <3>3, <2>5, <2>6
    <3> QED BY <3>2, <3>3
  <2>9. \A d \in Days : increments[d] \in Nat
    BY DEF IdTypes
  <2>10. ASSUME NEW d \in Days, NEW b \in CallsOf(d)'
         PROVE  call'[b].count \in 1 .. increments'[d]
    <3>1. CASE b = c
      BY <3>1, <2>4, <2>5, <2>6, <2>9
    <3>2. CASE b # c
      <4>1. b \in CallsOf(d) /\ call'[b] = call[b]
        BY <3>2, <2>4, <2>5 DEF CallsOf
      <4>2. call[b].count \in 1 .. increments[d] /\ increments'[d] \in {increments[d], increments[d] + 1}
        BY <4>1, <2>6 DEF CounterInv
      <4> QED BY <4>1, <4>2, <2>9
    <3> QED BY <3>1, <3>2
  <2>11. ASSUME NEW d \in Days, NEW a \in CallsOf(d)', NEW b \in CallsOf(d)', a # b
         PROVE  call'[a].count # call'[b].count
    <3>1. \A e \in CallsOf(d)' : e # c => e \in CallsOf(d) /\ call'[e] = call[e]
      BY <2>4, <2>5 DEF CallsOf
    <3>2. \A e \in CallsOf(t) : call[e].count \in 1 .. increments[t]
      BY <2>1 DEF CounterInv
    <3>3. \A e \in CallsOf(t) : call[e].count # increments[t] + 1
      BY <3>2, <2>1, <2>9
    <3>4. CASE a # c /\ b # c
      BY <3>1, <3>4, <2>11 DEF CounterInv
    <3>5. CASE a = c \/ b = c
      <4>1. d = t
        BY <3>5, <2>5
      <4> QED BY <4>1, <3>1, <3>3, <3>5, <2>4, <2>11
    <3> QED BY <3>4, <3>5
  <2>12. CounterInv'
    BY <2>8, <2>10, <2>11 DEF CounterInv
  <2> QED BY <2>3, <2>12
<1> QED BY <1>1, <1>2, <1>3, <1>4 DEF IdNext

\* A number is told from another by its high or by its low digits.
LEMMA Digits ==
  ASSUME NEW n \in Nat, NEW x \in Nat, NEW y \in Nat, NEW i \in Nat, NEW j \in Nat,
         i < n, j < n, x < y
  PROVE  x * n + i # y * n + j
<1>1. PICK k \in Nat : y = x + 1 + k
  <2>1. y - x - 1 \in Nat /\ y = x + 1 + (y - x - 1)
    OBVIOUS
  <2> QED BY <2>1
<1>2. y * n = x * n + n + k * n
  BY <1>1
<1>3. k * n \in Nat /\ x * n \in Nat
  OBVIOUS
<1> QED BY <1>2, <1>3

(***************************************************************************)
(* RedisIdWorker.nextId never returns an id twice, for any number of calls *)
(* a day's counter can count, whatever the clocks of their instances say   *)
(* and however long a call pauses between its two steps.                   *)
(***************************************************************************)
THEOREM IdsDistinct == IdSpec => []DistinctIds
<1>1. IdInv => DistinctIds
  <2> SUFFICES ASSUME IdInv, NEW c \in Calls, NEW d \in Calls, c # d,
                      call[c].at = "done", call[d].at = "done"
               PROVE  Id(c) # Id(d)
    BY DEF DistinctIds
  <2> USE DEF IdInv
  <2>1. \A e \in Calls : call[e].second \in Nat /\ Day(call[e].second) \in Days
    BY IdAssumption DEF IdTypes, Clocks, Days
  <2>2. ASSUME NEW e \in Calls, call[e].at = "done"
        PROVE  /\ e \in CallsOf(Day(call[e].second))
               /\ call[e].count \in Nat /\ call[e].count < CountRange
    <3>1. e \in CallsOf(Day(call[e].second))
      BY <2>2 DEF CallsOf
    <3>2. call[e].count \in 1 .. increments[Day(call[e].second)]
      BY <3>1, <2>1 DEF CounterInv
    <3>3. increments[Day(call[e].second)] \in Nat /\ increments[Day(call[e].second)] < CountRange
      BY <2>1, CallsFew DEF CounterInv, IdTypes
    <3> QED BY <3>1, <3>2, <3>3, IdAssumption
  <2>3. CASE call[c].second = call[d].second
    <3>1. call[c].count # call[d].count
      BY <2>1, <2>2, <2>3 DEF CounterInv
    <3>2. call[c].second * CountRange \in Nat
      BY <2>1, IdAssumption
    <3> QED BY <3>1, <3>2, <2>2, <2>3 DEF Id
  <2>4. CASE call[c].second < call[d].second
    BY <2>4, <2>1, <2>2, IdAssumption, Digits DEF Id
  <2>5. CASE call[d].second < call[c].second
    BY <2>5, <2>1, <2>2, IdAssumption, Digits DEF Id
  <2> QED BY <2>1, <2>3, <2>4, <2>5
<1> QED BY IdInitially, IdStep, <1>1, PTL DEF IdSpec

-----------------------------------------------------------------------------
(* Rate limits                                                             *)

Through == [at : Nat, window : Nat, hit : 1 .. MaxRequests]

RateTypeInv ==
  /\ time \in Nat /\ hits \in Nat /\ expiry \in Nat
  /\ served \subseteq Through /\ IsFiniteSet(served)

\* A request is let through in its window, one for each value of the counter, and windows do not
\* overlap.
WindowsInv ==
  /\ \A s \in served : s.at < s.window /\ s.window <= s.at + WindowSeconds /\ s.at <= time
  /\ \A s \in served : s.window <= expiry
  /\ \A r, s \in served : r.window < s.window => r.window + WindowSeconds <= s.window
  /\ \A r, s \in served : r.window = s.window /\ r.hit = s.hit => r = s

\* The counter has counted those of the window that is open.
SpentInv ==
  /\ hits = 0 => expiry <= time
  /\ hits > 0 => /\ time < expiry /\ expiry <= time + WindowSeconds
                 /\ \A s \in served : s.window = expiry => s.hit <= hits
                 /\ \A s \in served : s.window < expiry => s.window + WindowSeconds <= expiry
                 /\ \A k \in 1 .. MaxRequests :
                      k <= hits => \E s \in served : s.window = expiry /\ s.hit = k

RateInv == RateTypeInv /\ WindowsInv /\ SpentInv

LEMMA RateInitially == RateInit => RateInv
<1> SUFFICES ASSUME RateInit PROVE RateInv
  OBVIOUS
<1>1. IsFiniteSet({})
  BY FS_EmptySet
<1> QED BY <1>1 DEF RateInit, RateInv, RateTypeInv, WindowsInv, SpentInv

LEMMA RateTypeStep ==
  ASSUME RateInv, RateNext
  PROVE  RateTypeInv'
<1> USE RateAssumption
<1>1. CASE TimePasses
  BY <1>1 DEF TimePasses, RateInv, RateTypeInv
<1>2. CASE Request
  <2>1. PICK newExpiry \in Nat : Count(newExpiry)
    BY <1>2 DEF Request, RateInv, RateTypeInv
  <2>2. CASE hits' > MaxRequests
    BY <2>1, <2>2 DEF Count, RateInv, RateTypeInv
  <2>3. CASE hits' <= MaxRequests
    <3>1. PICK s : s = [at |-> time, window |-> newExpiry, hit |-> hits']
      OBVIOUS
    <3>2. s \in Through
      BY <2>1, <2>3, <3>1 DEF Count, RateInv, RateTypeInv, Through
    <3>3. served' = served \cup {s}
      BY <2>1, <2>3, <3>1 DEF Count, RateInv, RateTypeInv
    <3>4. IsFiniteSet(served')
      BY <3>3, FS_AddElement DEF RateInv, RateTypeInv
    <3> QED BY <2>1, <3>2, <3>3, <3>4 DEF Count, RateInv, RateTypeInv
  <2> QED BY <2>1, <2>2, <2>3 DEF Count, RateInv, RateTypeInv
<1> QED BY <1>1, <1>2 DEF RateNext

LEMMA TimePassesKeeps ==
  ASSUME RateInv, TimePasses
  PROVE  WindowsInv' /\ SpentInv'
<1> USE RateAssumption DEF RateInv
<1>1. WindowsInv'
  BY DEF TimePasses, WindowsInv, RateTypeInv, Through
<1>2. SpentInv'
  BY DEF TimePasses, SpentInv, RateTypeInv
<1> QED BY <1>1, <1>2

LEMMA RequestKeeps ==
  ASSUME RateInv, Request
  PROVE  WindowsInv' /\ SpentInv'
<1> USE RateAssumption
<1>1. PICK window \in Nat : /\ Count(window)
                            /\ hits = 0 => window = time + WindowSeconds
                            /\ hits > 0 => window = expiry
  BY DEF Request, RateInv, RateTypeInv
<1>2. /\ time' = time /\ hits' = hits + 1 /\ expiry' = window
      /\ time < window /\ window <= time + WindowSeconds /\ expiry <= window
  BY <1>1 DEF Count, RateInv, RateTypeInv, SpentInv
<1>3. \A s \in served : /\ s.window <= window
                        /\ s.window < window => s.window + WindowSeconds <= window
                        /\ s.window = window => hits > 0 /\ s.hit <= hits
  BY <1>1 DEF RateInv, RateTypeInv, Through, WindowsInv, SpentInv
<1>4. CASE hits' > MaxRequests
  <2>1. served' = served
    BY <1>1, <1>4 DEF Count
  <2>2. WindowsInv'
    BY <1>2, <1>3, <2>1 DEF RateInv, WindowsInv
  <2>3. \A k \in 1 .. MaxRequests : k <= hits' => k <= hits
    BY <1>2, <1>4 DEF RateInv, RateTypeInv
  <2>4. MaxRequests >= 1 => hits > 0
    BY <1>2, <1>4 DEF RateInv, RateTypeInv
  <2>5. \A k \in 1 .. MaxRequests : \E s \in served : s.window = window /\ s.hit = k
    <3> SUFFICES ASSUME NEW k \in 1 .. MaxRequests
                 PROVE  \E s \in served : s.window = window /\ s.hit = k
      OBVIOUS
    <3>1. hits > 0 /\ k <= hits
      BY <1>2, <1>4, <2>4 DEF RateInv, RateTypeInv
    <3> QED BY <1>1, <3>1 DEF RateInv, SpentInv
  <2>6. \A s \in served : s.window = window => s.hit <= hits'
    BY <1>2, <1>3 DEF RateInv, RateTypeInv, Through
  <2>7. hits' > 0
    BY <1>2 DEF RateInv, RateTypeInv
  <2> QED BY <1>2, <1>3, <2>1, <2>2, <2>5, <2>6, <2>7 DEF SpentInv
<1>5. CASE hits' <= MaxRequests
  <2>1. PICK new : new = [at |-> time, window |-> window, hit |-> hits']
    OBVIOUS
  <2>2. served' = served \cup {new}
    BY <1>1, <1>2, <1>5, <2>1 DEF Count, RateInv, RateTypeInv
  <2>3. new.at = time /\ new.window = window /\ new.hit = hits'
    BY <2>1
  <2>4. \A s \in served : s.window = window => s.hit < hits'
    BY <1>2, <1>3 DEF RateInv, RateTypeInv, Through
  <2>5. \A s \in served : s.at < s.window /\ s.window <= s.at + WindowSeconds /\ s.at <= time
    BY DEF RateInv, WindowsInv
  <2>6. \A r, s \in served' : r.window < s.window => r.window + WindowSeconds <= s.window
    BY <1>3, <2>2, <2>3 DEF RateInv, RateTypeInv, WindowsInv, Through
  <2>7. \A r, s \in served' : r.window = s.window /\ r.hit = s.hit => r = s
    BY <2>2, <2>3, <2>4 DEF RateInv, RateTypeInv, WindowsInv, Through
  <2>8. \A s \in served' : s.at < s.window /\ s.window <= s.at + WindowSeconds /\ s.at <= time
    BY <1>2, <2>2, <2>3, <2>5 DEF RateInv, RateTypeInv
  <2>9. \A s \in served' : s.window <= window
    BY <1>2, <1>3, <2>2, <2>3
  <2>10. WindowsInv'
    BY <1>2, <2>6, <2>7, <2>8, <2>9 DEF WindowsInv
  <2>11. \A k \in 1 .. MaxRequests : k <= hits' =>
          \E s \in served' : s.window = window /\ s.hit = k
    <3> SUFFICES ASSUME NEW k \in 1 .. MaxRequests, k <= hits', k # hits'
                 PROVE  \E s \in served : s.window = window /\ s.hit = k
      BY <2>2, <2>3
    <3>1. hits > 0 /\ k <= hits
      BY <1>2 DEF RateInv, RateTypeInv
    <3> QED BY <1>1, <3>1 DEF RateInv, SpentInv
  <2>12. \A s \in served' : /\ s.window = window => s.hit <= hits'
                            /\ s.window < window => s.window + WindowSeconds <= window
    BY <1>2, <1>3, <2>2, <2>3, <2>4 DEF RateInv, RateTypeInv, Through
  <2>13. hits' > 0
    BY <1>2 DEF RateInv, RateTypeInv
  <2>14. SpentInv'
    <3>1. time' < expiry' /\ expiry' <= time' + WindowSeconds /\ hits' > 0 /\ hits' # 0
      BY <1>2, <2>13
    <3>2. \A s \in served' : s.window = expiry' => s.hit <= hits'
      BY <1>2, <2>12
    <3>3. \A s \in served' : s.window < expiry' => s.window + WindowSeconds <= expiry'
      BY <1>2, <2>12
    <3>4. \A k \in 1 .. MaxRequests : k <= hits' =>
            \E s \in served' : s.window = expiry' /\ s.hit = k
      BY <1>2, <2>11
    <3> QED BY <3>1, <3>2, <3>3, <3>4, Zenon DEF SpentInv
  <2> QED BY <2>10, <2>14
<1> QED BY <1>2, <1>4, <1>5 DEF RateInv, RateTypeInv

LEMMA RateStep ==
  ASSUME RateInv, [RateNext]_rateVars
  PROVE  RateInv'
<1>1. CASE UNCHANGED rateVars
  BY <1>1 DEF rateVars, RateInv, RateTypeInv, WindowsInv, SpentInv
<1>2. CASE RateNext
  BY <1>2, RateTypeStep, TimePassesKeeps, RequestKeeps DEF RateNext, RateInv
<1> QED BY <1>1, <1>2

\* Requests that are let through in one window.
LEMMA OneWindow ==
  ASSUME RateInv, NEW S \in SUBSET served, \A r, s \in S : r.window = s.window
  PROVE  IsFiniteSet(S) /\ Cardinality(S) \in Nat /\ Cardinality(S) <= MaxRequests
<1>1. PICK f : f = [s \in S |-> s.hit]
  OBVIOUS
<1>2. f \in Injection(S, 1 .. MaxRequests)
  BY <1>1 DEF RateInv, RateTypeInv, Through, WindowsInv, Injection, IsInjective
<1>3. IsFiniteSet(1 .. MaxRequests) /\ Cardinality(1 .. MaxRequests) = MaxRequests
  BY RateAssumption, FS_Interval
<1>4. IsFiniteSet(S) /\ Cardinality(S) <= MaxRequests
  BY <1>2, <1>3, FS_Injection
<1> QED BY <1>4, FS_CardinalityType

(***************************************************************************)
(* At no time, for any window and any limit, more than twice the limit of  *)
(* requests have been let through within the time of one window            *)
(* (RateLimitAspect).  Those in the window that is open now, and those     *)
(* before it, are each of one window.                                      *)
(***************************************************************************)
THEOREM LimitTwiceAtMost == RateSpec => []TwiceTheLimitAtMost
<1>1. RateInv => TwiceTheLimitAtMost
  <2> SUFFICES ASSUME RateInv PROVE Cardinality(Recent) <= 2 * MaxRequests
    BY DEF TwiceTheLimitAtMost
  <2> USE RateAssumption
  <2>1. PICK open : open = {s \in Recent : s.window > time}
    OBVIOUS
  <2>2. PICK past : past = {s \in Recent : s.window <= time}
    OBVIOUS
  <2>3. Recent = open \cup past /\ open \cap past = {}
    BY <2>1, <2>2 DEF Recent, RateInv, RateTypeInv, Through
  <2>4. open \in SUBSET served /\ past \in SUBSET served
    BY <2>1, <2>2 DEF Recent
  <2>5. \A r, s \in open : r.window = s.window
    <3> SUFFICES ASSUME NEW r \in open, NEW s \in open, r.window < s.window
                 PROVE  FALSE
      BY <2>4 DEF RateInv, RateTypeInv, Through
    <3>1. r.window > time /\ s.window <= time + WindowSeconds /\ r.window + WindowSeconds <= s.window
      BY <2>1, <2>4 DEF RateInv, RateTypeInv, WindowsInv, Through
    <3> QED BY <2>4, <3>1 DEF RateInv, RateTypeInv, Through
  <2>6. \A r, s \in past : r.window = s.window
    <3> SUFFICES ASSUME NEW r \in past, NEW s \in past, r.window < s.window
                 PROVE  FALSE
      BY <2>4 DEF RateInv, RateTypeInv, Through
    <3>1. /\ time - WindowSeconds < r.at /\ r.at < r.window
          /\ s.window <= time /\ r.window + WindowSeconds <= s.window
      BY <2>2, <2>4 DEF Recent, RateInv, RateTypeInv, WindowsInv, Through
    <3> QED BY <2>4, <3>1 DEF RateInv, RateTypeInv, Through
  <2>7. /\ IsFiniteSet(open) /\ Cardinality(open) \in Nat /\ Cardinality(open) <= MaxRequests
        /\ IsFiniteSet(past) /\ Cardinality(past) \in Nat /\ Cardinality(past) <= MaxRequests
    BY <2>4, <2>5, <2>6, OneWindow
  <2>8. Cardinality(Recent) = Cardinality(open) + Cardinality(past) - Cardinality({})
    BY <2>3, <2>7, FS_Union
  <2>9. Cardinality({}) = 0
    BY FS_EmptySet
  <2> QED BY <2>7, <2>8, <2>9
<1> QED BY RateInitially, RateStep, <1>1, PTL DEF RateSpec

(***************************************************************************)
(* A request is refused only when as many as the limit allows were let     *)
(* through within the last window's time: the counter cannot outlive its   *)
(* window, however often it is refused (RateLimitAspect).                  *)
(***************************************************************************)
THEOREM RefusalsAreSpent == RateSpec => []RefusedOnlyWhenSpent
<1>1. RateInv => RefusedOnlyWhenSpent
  <2> SUFFICES ASSUME RateInv, hits >= MaxRequests PROVE Cardinality(Recent) >= MaxRequests
    BY DEF RefusedOnlyWhenSpent
  <2> USE RateAssumption
  <2>1. IsFiniteSet(Recent)
    BY FS_Subset DEF Recent, RateInv, RateTypeInv
  <2>2. \A k \in 1 .. MaxRequests : \E s \in Recent : s.window = expiry /\ s.hit = k
    <3> SUFFICES ASSUME NEW k \in 1 .. MaxRequests
                 PROVE  \E s \in Recent : s.window = expiry /\ s.hit = k
      OBVIOUS
    <3>1. hits > 0 /\ k <= hits
      BY DEF RateInv, RateTypeInv
    <3>2. PICK s \in served : s.window = expiry /\ s.hit = k
      BY <3>1 DEF RateInv, SpentInv
    <3>3. time - WindowSeconds < s.at
      BY <3>1, <3>2 DEF RateInv, RateTypeInv, WindowsInv, SpentInv, Through
    <3> QED BY <3>2, <3>3 DEF Recent
  <2>3. PICK f : f = [k \in 1 .. MaxRequests |-> CHOOSE s \in Recent : s.hit = k]
    OBVIOUS
  <2>4. \A k \in 1 .. MaxRequests : f[k] \in Recent /\ f[k].hit = k
    BY <2>2, <2>3
  <2>5. f \in Injection(1 .. MaxRequests, Recent)
    BY <2>3, <2>4 DEF Injection, IsInjective
  <2>6. Cardinality(1 .. MaxRequests) <= Cardinality(Recent)
    BY <2>1, <2>5, FS_Injection
  <2>7. Cardinality(1 .. MaxRequests) = MaxRequests /\ Cardinality(Recent) \in Nat
    BY <2>1, FS_Interval, FS_CardinalityType
  <2> QED BY <2>6, <2>7
<1> QED BY RateInitially, RateStep, <1>1, PTL DEF RateSpec

-----------------------------------------------------------------------------
(* Likes and comments                                                      *)

LikeSteps == {"like", "zadd", "unlike", "zrem"}
CommentSteps == {"delete", "clear", "commit", "sadd", "plus", "srem", "minus"}

RequestType == [at : RequestSteps, user : Users \cup {Null}, comment : Comments \cup {Null}]

\* A request is some user's, and works on a comment that has been created.
WorkInv ==
  \A r \in Requests :
    /\ request[r].at # "idle" => request[r].user \in Users
    /\ request[r].at \in CommentSteps =>
         request[r].comment \in Comments /\ comment[request[r].comment].state # "new"

TypeInv == CommunityTypeOK /\ WorkInv

LEMMA TypeInitially == CommunityInit => TypeInv
BY CommunityAssumption
   DEF CommunityInit, TypeInv, CommunityTypeOK, WorkInv, NoRequest, RequestSteps, CommentSteps

CommentTypes ==
  /\ comment \in [Comments -> [state : {"new", "there", "gone"}, author : Users \cup {Null},
                               liked : Nat, likers : SUBSET Users]]
  /\ \A c \in Comments : comment[c].state = "new" => comment[c].likers = {}

\* What a step of a request keeps.
Keeps(r) ==
  /\ CommentTypes'
  /\ \A c \in Comments : comment[c].state # "new" => comment'[c].state # "new"
  /\ request' \in [Requests -> RequestType]
  /\ \A q \in Requests : q # r => request'[q] = request[q]
  /\ request'[r].at # "idle" => request'[r].user \in Users
  /\ request'[r].at \in CommentSteps =>
       request'[r].comment \in Comments /\ comment[request'[r].comment].state # "new"

LEMMA LikeBlogKeeps ==
  ASSUME TypeInv, NEW r \in Requests, LikeBlogStep(r) \/ CallThrows(r)
  PROVE  Keeps(r) /\ blogLiked' \in Nat /\ blogLikers' \subseteq Users
<1> USE DEF TypeInv, CommunityTypeOK
<1>1. CommentTypes /\ comment' = comment
  BY DEF LikeBlogStep, ReadScore, LikeBlog, ZAdd, UnlikeBlog, ZRem, CallThrows, CommentTypes
<1>2. blogLiked' \in Nat /\ blogLikers' \subseteq Users
  BY DEF LikeBlogStep, ReadScore, LikeBlog, ZAdd, UnlikeBlog, ZRem, CallThrows, counters, Goes,
         Ends, WorkInv
<1>3. \/ request' = [request EXCEPT ![r] = NoRequest]
      \/ \E u \in Users, to \in LikeSteps :
           request' = [request EXCEPT ![r] = [at |-> to, user |-> u, comment |-> Null]]
      \/ \E to \in LikeSteps : /\ request[r].at # "idle"
                               /\ request' = [request EXCEPT ![r].at = to]
  BY DEF LikeBlogStep, ReadScore, LikeBlog, ZAdd, UnlikeBlog, ZRem, CallThrows, Starts, Goes,
         Ends, Breaks, LikeSteps
<1>4. /\ request' \in [Requests -> RequestType]
      /\ \A q \in Requests : q # r => request'[q] = request[q]
      /\ request'[r].at \notin CommentSteps
      /\ request'[r].at # "idle" => request'[r].user \in Users
  BY <1>3 DEF RequestType, RequestSteps, LikeSteps, CommentSteps, NoRequest, WorkInv
<1>5. CommentTypes'
  BY <1>1 DEF CommentTypes
<1> QED BY <1>1, <1>2, <1>4, <1>5 DEF Keeps

LEMMA StartKeeps ==
  ASSUME TypeInv, NEW r \in Requests, NEW u \in Users, NEW c \in Comments,
         CreateComment(r, u, c) \/ FindOwnComment(r, u, c) \/ ReadLike(r, u, c)
  PROVE  Keeps(r)
<1> USE DEF TypeInv, CommunityTypeOK
<1>1. CASE CreateComment(r, u, c)
  <2>1. /\ comment[c].state = "new" /\ comment[c].likers = {}
        /\ comment' = [comment EXCEPT ![c].state = "there", ![c].author = u]
        /\ request' = request /\ request[r].at = "idle"
    BY <1>1 DEF CreateComment
  <2>2. CommentTypes'
    BY <2>1 DEF CommentTypes
  <2>3. \A d \in Comments : comment[d].state # "new" => comment'[d].state # "new"
    BY <2>1
  <2> QED BY <2>1, <2>2, <2>3 DEF Keeps, CommentSteps, RequestType
<1>2. CASE FindOwnComment(r, u, c) \/ ReadLike(r, u, c)
  <2>1. PICK to \in {"delete", "sadd", "srem"} :
           request' = [request EXCEPT ![r] = [at |-> to, user |-> u, comment |-> c]]
    BY <1>2 DEF FindOwnComment, ReadLike, Starts
  <2>2. comment' = comment /\ comment[c].state = "there"
    BY <1>2 DEF FindOwnComment, ReadLike, Existing
  <2>3. request' \in [Requests -> RequestType]
    BY <2>1 DEF RequestSteps, RequestType
  <2>4. CommentTypes'
    BY <2>2 DEF CommentTypes
  <2> QED BY <2>1, <2>2, <2>3, <2>4 DEF Keeps
<1> QED BY <1>1, <1>2

LEMMA WorkKeeps ==
  ASSUME TypeInv, NEW r \in Requests,
         \/ RemoveComment(r) \/ ClearLikers(r) \/ CommitDelete(r)
         \/ SAdd(r) \/ SRem(r) \/ CountLike(r) \/ CountUnlike(r)
  PROVE  Keeps(r)
<1> USE DEF TypeInv, CommunityTypeOK
<1>1. PICK d, u : d = request[r].comment /\ u = request[r].user
  OBVIOUS
<1>2. /\ request[r].at \in CommentSteps
      /\ \/ request' = [request EXCEPT ![r] = NoRequest]
         \/ \E to \in CommentSteps : request' = [request EXCEPT ![r].at = to]
  BY DEF RemoveComment, ClearLikers, CommitDelete, SAdd, SRem, CountLike, CountUnlike, Goes, Ends,
         CommentSteps
<1>3. /\ d \in Comments /\ comment[d].state # "new" /\ u \in Users
  BY <1>1, <1>2 DEF WorkInv, CommentSteps
<1>4. /\ request' \in [Requests -> RequestType]
      /\ \A q \in Requests : q # r => request'[q] = request[q]
      /\ request'[r].at # "idle" => request'[r].user = u /\ request'[r].comment = d
  BY <1>1, <1>2 DEF RequestType, RequestSteps, CommentSteps, NoRequest
<1>5. \/ comment' = comment
      \/ comment' = [comment EXCEPT ![d].likers = {}]
      \/ comment' = [comment EXCEPT ![d].likers = @ \cup {u}]
      \/ comment' = [comment EXCEPT ![d].likers = @ \ {u}]
      \/ comment' = [comment EXCEPT ![d].state = "gone", ![d].author = Null, ![d].liked = 0]
      \/ comment' = [comment EXCEPT ![d].liked = @ + 1]
      \/ comment[d].liked > 0 /\ comment' = [comment EXCEPT ![d].liked = @ - 1]
  BY <1>1
     DEF RemoveComment, ClearLikers, CommitDelete, SAdd, SRem, CountLike, CountUnlike
<1>6. \A e \in Comments : comment[e].state # "new" => comment'[e].state # "new"
  BY <1>3, <1>5
<1>7. CommentTypes'
  BY <1>3, <1>5 DEF CommentTypes
<1>8. request'[r].at \in CommentSteps => request'[r].at # "idle"
  BY DEF CommentSteps
<1> QED BY <1>3, <1>4, <1>6, <1>7, <1>8 DEF Keeps

\* What a step makes of the comments that are there, and of their count.
Creates(c) ==
  /\ c \notin Existing /\ Existing' = Existing \cup {c}
  /\ commentCount' = IF commentCount = Null THEN Null ELSE commentCount + 1

Deletes(c) ==
  /\ Existing' = Existing \ {c}
  /\ commentCount' = IF commentCount \in {0, Null} THEN commentCount ELSE commentCount - 1

LEMMA CreateCounts ==
  ASSUME TypeInv, NEW r, NEW u, NEW c \in Comments, CreateComment(r, u, c)
  PROVE  Creates(c)
BY DEF CreateComment, Creates, Existing, TypeInv, CommunityTypeOK

LEMMA DeleteCounts ==
  ASSUME TypeInv, NEW r \in Requests, CommitDelete(r)
  PROVE  Deletes(request[r].comment)
<1>1. PICK d : d = request[r].comment
  OBVIOUS
<1>2. d \in Comments
  BY <1>1 DEF CommitDelete, Ends, TypeInv, WorkInv, CommentSteps
<1>3. comment' = [comment EXCEPT ![d].state = "gone", ![d].author = Null, ![d].liked = 0]
  BY <1>1 DEF CommitDelete
<1>4. Existing' = Existing \ {d}
  BY <1>2, <1>3 DEF Existing, TypeInv, CommunityTypeOK
<1> QED BY <1>1, <1>4 DEF CommitDelete, Deletes

LEMMA OthersCountNone ==
  ASSUME TypeInv, NEW r \in Requests,
         \/ LikeBlogStep(r) \/ CallThrows(r) \/ RemoveComment(r) \/ ClearLikers(r)
         \/ SAdd(r) \/ SRem(r) \/ CountLike(r) \/ CountUnlike(r)
         \/ \E u \in Users, c \in Comments : FindOwnComment(r, u, c) \/ ReadLike(r, u, c)
  PROVE  commentCount' = commentCount /\ Existing' = Existing
<1>1. commentCount' = commentCount
  BY DEF LikeBlogStep, ReadScore, LikeBlog, ZAdd, UnlikeBlog, ZRem, CallThrows, RemoveComment,
         ClearLikers, SAdd, SRem, CountLike, CountUnlike, FindOwnComment, ReadLike, counters
<1>2. PICK d, u : d = request[r].comment /\ u = request[r].user
  OBVIOUS
<1>3. \/ comment' = comment
      \/ comment' = [comment EXCEPT ![d].likers = {}]
      \/ comment' = [comment EXCEPT ![d].likers = @ \cup {u}]
      \/ comment' = [comment EXCEPT ![d].likers = @ \ {u}]
      \/ comment' = [comment EXCEPT ![d].liked = @ + 1]
      \/ comment' = [comment EXCEPT ![d].liked = @ - 1]
  BY <1>2
     DEF LikeBlogStep, ReadScore, LikeBlog, ZAdd, UnlikeBlog, ZRem, CallThrows, RemoveComment,
         ClearLikers, SAdd, SRem, CountLike, CountUnlike, FindOwnComment, ReadLike
<1>4. \A c \in Comments : comment'[c].state = comment[c].state
  BY <1>3 DEF TypeInv, CommunityTypeOK
<1>5. Existing' = Existing
  BY <1>4 DEF Existing
<1> QED BY <1>1, <1>5

LEMMA CountChanges ==
  ASSUME TypeInv, [CommunityNext]_communityVars
  PROVE  \/ commentCount' = commentCount /\ Existing' = Existing
         \/ \E c \in Comments : Creates(c)
         \/ \E r \in Requests : CommitDelete(r) /\ Deletes(request[r].comment)
<1>1. CASE UNCHANGED communityVars
  BY <1>1 DEF communityVars, Existing
<1>2. ASSUME NEW r \in Requests, NEW u \in Users, NEW c \in Comments, CreateComment(r, u, c)
      PROVE  \E d \in Comments : Creates(d)
  BY <1>2, CreateCounts
<1>3. ASSUME NEW r \in Requests, CommitDelete(r)
      PROVE  \E q \in Requests : CommitDelete(q) /\ Deletes(request[q].comment)
  BY <1>3, DeleteCounts
<1>4. ASSUME NEW r \in Requests,
             \/ LikeBlogStep(r) \/ CallThrows(r) \/ RemoveComment(r) \/ ClearLikers(r)
             \/ SAdd(r) \/ SRem(r) \/ CountLike(r) \/ CountUnlike(r)
             \/ \E u \in Users, c \in Comments : FindOwnComment(r, u, c) \/ ReadLike(r, u, c)
      PROVE  commentCount' = commentCount /\ Existing' = Existing
  BY <1>4, OthersCountNone
<1> QED BY <1>1, <1>2, <1>3, <1>4, Zenon DEF CommunityNext, CommentStep

LEMMA TypeStep == TypeInv /\ [CommunityNext]_communityVars => TypeInv'
<1> SUFFICES ASSUME TypeInv, [CommunityNext]_communityVars PROVE TypeInv'
  OBVIOUS
<1>1. CASE UNCHANGED communityVars
  BY <1>1 DEF communityVars, TypeInv, CommunityTypeOK, WorkInv
<1>2. ASSUME NEW r \in Requests, LikeBlogStep(r) \/ CommentStep(r) \/ CallThrows(r)
      PROVE  TypeInv'
  <2> USE DEF TypeInv
  <2>1. Keeps(r)
    BY <1>2, LikeBlogKeeps, StartKeeps, WorkKeeps DEF CommentStep
  <2>2. blogLiked' \in Nat /\ blogLikers' \subseteq Users
    <3>1. CASE CommentStep(r)
      <4>1. UNCHANGED <<blogLiked, blogLikers>>
        BY <3>1 DEF CommentStep, CreateComment, FindOwnComment, ReadLike, RemoveComment,
                    ClearLikers, CommitDelete, SAdd, SRem, CountLike, CountUnlike, counters
      <4> QED BY <4>1 DEF CommunityTypeOK
    <3> QED BY <1>2, <3>1, LikeBlogKeeps
  <2>3. commentCount' \in Nat \cup {Null}
    <3>1. commentCount \in Nat \cup {Null}
      BY DEF CommunityTypeOK
    <3> QED BY <3>1, CountChanges DEF Creates, Deletes
  <2>4. sent' \in 0 .. MaxSent /\ failures' \in 0 .. MaxFailures
    <3>1. \/ Sends
          \/ UNCHANGED <<sent, failures>>
          \/ failures < MaxFailures /\ failures' = failures + 1 /\ UNCHANGED sent
      <4>1. CASE LikeBlogStep(r)
        BY <4>1 DEF LikeBlogStep, ReadScore, LikeBlog, ZAdd, UnlikeBlog, ZRem, Starts, Goes, Ends
      <4>2. CASE CallThrows(r)
        BY <4>2 DEF CallThrows, Breaks
      <4>3. CASE CommentStep(r)
        BY <4>3 DEF CommentStep, CreateComment, FindOwnComment, ReadLike, RemoveComment,
                    ClearLikers, CommitDelete, SAdd, SRem, CountLike, CountUnlike, Starts, Goes,
                    Ends
      <4> QED BY <1>2, <4>1, <4>2, <4>3
    <3> QED BY <3>1, CommunityAssumption DEF Sends, CommunityTypeOK
  <2>5. CommunityTypeOK'
    BY <2>1, <2>2, <2>3, <2>4 DEF CommunityTypeOK, Keeps, CommentTypes, RequestType
  <2>6. WorkInv'
    BY <2>1 DEF WorkInv, Keeps
  <2> QED BY <2>5, <2>6
<1> QED BY <1>1, <1>2 DEF CommunityNext

(***************************************************************************)
(* likeBlog, likeComment, createComment and deleteComment keep the         *)
(* columns of a blog and of its comments unsigned, for any requests of any *)
(* users and any calls that throw; a comment that does not exist has no    *)
(* likers.                                                                 *)
(***************************************************************************)
THEOREM CommunityTypeCorrect == CommunitySpec => []CommunityTypeOK
<1>1. TypeInv => CommunityTypeOK
  BY DEF TypeInv
<1> QED BY TypeInitially, TypeStep, <1>1, PTL DEF CommunitySpec

-----------------------------------------------------------------------------

LEMMA ExistingFinite == IsFiniteSet(Existing) /\ Cardinality(Existing) \in Nat
<1>1. Existing \in SUBSET Comments
  BY DEF Existing
<1> QED BY <1>1, CommunityAssumption, FS_Subset, FS_CardinalityType

LEMMA CreatedOne ==
  ASSUME NEW c, Creates(c)
  PROVE  Cardinality(Existing') = Cardinality(Existing) + 1
BY ExistingFinite, FS_AddElement DEF Creates

LEMMA DeletedOne ==
  ASSUME NEW c, Deletes(c)
  PROVE  Cardinality(Existing') =
           IF c \in Existing THEN Cardinality(Existing) - 1 ELSE Cardinality(Existing)
<1>1. c \notin Existing => Existing' = Existing
  BY DEF Deletes
<1>2. c \in Existing => Cardinality(Existing \ {c}) = Cardinality(Existing) - 1
  BY ExistingFinite, FS_RemoveElement
<1> QED BY <1>1, <1>2 DEF Deletes

LEMMA OvercountStep ==
  ASSUME TypeInv, CommentsNotOvercounted, [CommunityNext]_communityVars
  PROVE  CommentsNotOvercounted'
<1>1. commentCount \in Nat \cup {Null} /\ Null \notin Nat
  BY CommunityAssumption DEF TypeInv, CommunityTypeOK
<1>2. CASE commentCount' = commentCount /\ Existing' = Existing
  BY <1>2 DEF CommentsNotOvercounted
<1>3. ASSUME NEW c \in Comments, Creates(c)
      PROVE  CommentsNotOvercounted'
  <2>1. Cardinality(Existing') = Cardinality(Existing) + 1
    BY <1>3, CreatedOne
  <2>2. commentCount' = IF commentCount = Null THEN Null ELSE commentCount + 1
    BY <1>3 DEF Creates
  <2> QED BY <1>1, <2>1, <2>2, ExistingFinite DEF CommentsNotOvercounted
<1>4. ASSUME NEW c, Deletes(c)
      PROVE  CommentsNotOvercounted'
  <2>1. /\ Cardinality(Existing') \in {Cardinality(Existing), Cardinality(Existing) - 1}
        /\ Cardinality(Existing') \in Nat
    <3>1. Existing' \in SUBSET Existing
      BY <1>4 DEF Deletes
    <3>2. Cardinality(Existing') \in Nat
      BY <3>1, ExistingFinite, FS_Subset, FS_CardinalityType
    <3> QED BY <1>4, <3>2, DeletedOne
  <2>2. commentCount' = IF commentCount \in {0, Null} THEN commentCount ELSE commentCount - 1
    BY <1>4 DEF Deletes
  <2> QED BY <1>1, <2>1, <2>2, ExistingFinite DEF CommentsNotOvercounted
<1> QED BY <1>2, <1>3, <1>4, CountChanges

(***************************************************************************)
(* A blog that has a comment count never claims a comment that is not      *)
(* there: for any requests of any users, deletions of one comment at once, *)
(* calls that throw and transactions that roll back (createComment,        *)
(* deleteComment).                                                         *)
(***************************************************************************)
THEOREM NeverOvercounted == CommunitySpec => []CommentsNotOvercounted
<1>1. CommunityInit => CommentsNotOvercounted
  <2> SUFFICES ASSUME CommunityInit, commentCount # Null PROVE commentCount <= Cardinality(Existing)
    BY DEF CommentsNotOvercounted
  <2>1. commentCount = 0
    BY DEF CommunityInit
  <2> QED BY <2>1, ExistingFinite
<1>2. TypeInv /\ CommentsNotOvercounted /\ [CommunityNext]_communityVars => CommentsNotOvercounted'
  BY OvercountStep
<1> QED BY TypeInitially, TypeStep, <1>1, <1>2, PTL DEF CommunitySpec

CountedAfter ==
  commentCount = Cardinality(Existing) =>
    \/ commentCount' = Cardinality(Existing')
    \/ \E r \in Requests : CommitDelete(r) /\ request[r].comment \notin Existing

LEMMA MiscountStep ==
  ASSUME TypeInv, [CommunityNext]_communityVars
  PROVE  CountedAfter
<1> SUFFICES ASSUME commentCount = Cardinality(Existing)
             PROVE  \/ commentCount' = Cardinality(Existing')
                    \/ \E r \in Requests : CommitDelete(r) /\ request[r].comment \notin Existing
  BY DEF CountedAfter
<1>1. commentCount \in Nat /\ commentCount # Null
  BY ExistingFinite, CommunityAssumption
<1>2. CASE commentCount' = commentCount /\ Existing' = Existing
  BY <1>2
<1>3. ASSUME NEW c \in Comments, Creates(c)
      PROVE  commentCount' = Cardinality(Existing')
  <2>1. Cardinality(Existing') = Cardinality(Existing) + 1
    BY <1>3, CreatedOne
  <2> QED BY <1>1, <1>3, <2>1 DEF Creates
<1>4. ASSUME NEW r \in Requests, CommitDelete(r), Deletes(request[r].comment),
             request[r].comment \in Existing
      PROVE  commentCount' = Cardinality(Existing')
  <2>1. PICK c : c = request[r].comment /\ c \in Existing /\ Deletes(c)
    BY <1>4
  <2>2. Cardinality(Existing') = Cardinality(Existing) - 1
    BY <2>1, DeletedOne
  <2>3. Cardinality(Existing) # 0
    BY <2>1, ExistingFinite, FS_EmptySet
  <2> QED BY <1>1, <2>1, <2>2, <2>3 DEF Deletes
<1> QED BY <1>2, <1>3, <1>4, CountChanges

(***************************************************************************)
(* The comment count of a blog that is right goes wrong only when a        *)
(* deletion commits whose comment another one had removed before, for any  *)
(* requests of any users and any calls that throw (createComment,          *)
(* deleteComment).                                                         *)
(***************************************************************************)
THEOREM MiscountsAreRepeatedDeletes == CommunitySpec => OnlyRepeatedDeletesMiscount
<1>1. TypeInv /\ [CommunityNext]_communityVars => [CountedAfter]_communityVars
  BY MiscountStep
<1>2. CommunitySpec => [][CountedAfter]_communityVars
  BY TypeInitially, TypeStep, <1>1, PTL DEF CommunitySpec
<1> QED BY <1>2 DEF OnlyRepeatedDeletesMiscount, CountedAfter

-----------------------------------------------------------------------------

LEMMA SetsFinite ==
  ASSUME TypeInv, NEW step
  PROVE  /\ IsFiniteSet(blogLikers) /\ Cardinality(blogLikers) \in Nat
         /\ IsFiniteSet(At(step)) /\ Cardinality(At(step)) \in Nat
<1>1. blogLikers \in SUBSET Users /\ At(step) \in SUBSET Requests
  BY DEF TypeInv, CommunityTypeOK, At
<1> QED BY <1>1, CommunityAssumption, FS_Subset, FS_CardinalityType

\* A like or an unlike that no other request of its user has overtaken.
LEMMA LikesBalance ==
  ASSUME TypeInv, LikesBalanced, NEW r \in Requests, LikeBlogStep(r), ~Overtaken(r)
  PROVE  LikesBalanced'
<1> DEFINE adding == At("zadd")
           removing == At("zrem")
<1>1. /\ IsFiniteSet(blogLikers) /\ Cardinality(blogLikers) \in Nat
      /\ IsFiniteSet(adding) /\ Cardinality(adding) \in Nat
      /\ IsFiniteSet(removing) /\ Cardinality(removing) \in Nat
      /\ blogLiked \in Nat
  BY SetsFinite DEF TypeInv, CommunityTypeOK
<1>2. blogLiked + Cardinality(removing) = Cardinality(blogLikers) + Cardinality(adding)
  BY DEF LikesBalanced
<1>3. CASE \/ \E u \in Users : ReadScore(r, u)
           \/ UnlikeBlog(r) /\ ~(blogLiked > 0)
  <2>1. UNCHANGED <<blogLiked, blogLikers>>
    BY <1>3 DEF ReadScore, UnlikeBlog, counters
  <2>2. adding' = adding /\ removing' = removing
    BY <1>3 DEF ReadScore, UnlikeBlog, Starts, Ends, NoRequest, At, TypeInv, CommunityTypeOK
  <2> QED BY <1>2, <2>1, <2>2 DEF LikesBalanced
<1>4. CASE LikeBlog(r)
  <2>1. /\ adding' = adding \cup {r} /\ r \notin adding /\ removing' = removing
        /\ blogLiked' = blogLiked + 1 /\ blogLikers' = blogLikers
    BY <1>4 DEF LikeBlog, Goes, At, TypeInv, CommunityTypeOK
  <2>2. Cardinality(adding') = Cardinality(adding) + 1
    BY <1>1, <2>1, FS_AddElement
  <2> QED BY <1>1, <1>2, <2>1, <2>2 DEF LikesBalanced
<1>5. CASE ZAdd(r)
  <2>1. PICK u : u = request[r].user
    OBVIOUS
  <2>2. /\ adding' = adding \ {r} /\ r \in adding /\ removing' = removing
        /\ blogLikers' = blogLikers \cup {u} /\ u \notin blogLikers
        /\ blogLiked' = blogLiked
    BY <1>5, <2>1 DEF Overtaken, ZAdd, Ends, NoRequest, At, TypeInv, CommunityTypeOK
  <2>3. Cardinality(adding') = Cardinality(adding) - 1
    BY <1>1, <2>2, FS_RemoveElement
  <2>4. Cardinality(blogLikers') = Cardinality(blogLikers) + 1
    BY <1>1, <2>2, FS_AddElement
  <2> QED BY <1>1, <1>2, <2>2, <2>3, <2>4 DEF LikesBalanced
<1>6. CASE UnlikeBlog(r) /\ blogLiked > 0
  <2>1. /\ removing' = removing \cup {r} /\ r \notin removing /\ adding' = adding
        /\ blogLiked' = blogLiked - 1 /\ blogLikers' = blogLikers
    BY <1>6 DEF UnlikeBlog, Goes, At, TypeInv, CommunityTypeOK
  <2>2. Cardinality(removing') = Cardinality(removing) + 1
    BY <1>1, <2>1, FS_AddElement
  <2> QED BY <1>1, <1>2, <2>1, <2>2 DEF LikesBalanced
<1>7. CASE ZRem(r)
  <2>1. PICK u : u = request[r].user
    OBVIOUS
  <2>2. /\ removing' = removing \ {r} /\ r \in removing /\ adding' = adding
        /\ blogLikers' = blogLikers \ {u} /\ u \in blogLikers
        /\ blogLiked' = blogLiked
    BY <1>7, <2>1 DEF Overtaken, ZRem, Ends, NoRequest, At, TypeInv, CommunityTypeOK
  <2>3. Cardinality(removing') = Cardinality(removing) - 1
    BY <1>1, <2>2, FS_RemoveElement
  <2>4. Cardinality(blogLikers') = Cardinality(blogLikers) - 1
    BY <1>1, <2>2, FS_RemoveElement
  <2> QED BY <1>1, <1>2, <2>2, <2>3, <2>4 DEF LikesBalanced
<1> QED BY <1>3, <1>4, <1>5, <1>6, <1>7 DEF LikeBlogStep

\* The requests of likeBlog are not touched by a step on comments.
LEMMA CommentRequests ==
  ASSUME TypeInv, NEW r \in Requests, CommentStep(r)
  PROVE  /\ UNCHANGED <<blogLiked, blogLikers>>
         /\ request[r].at \notin LikeSteps /\ request'[r].at \notin LikeSteps
         /\ \A q \in Requests : q # r => request'[q] = request[q]
<1> USE DEF TypeInv, CommunityTypeOK, LikeSteps
<1>1. ASSUME NEW u \in Users, NEW c \in Comments,
             CreateComment(r, u, c) \/ FindOwnComment(r, u, c) \/ ReadLike(r, u, c)
      PROVE  /\ UNCHANGED <<blogLiked, blogLikers>>
             /\ request[r].at \notin LikeSteps /\ request'[r].at \notin LikeSteps
             /\ \A q \in Requests : q # r => request'[q] = request[q]
  BY <1>1 DEF CreateComment, FindOwnComment, ReadLike, Starts, counters
<1>2. CASE RemoveComment(r) \/ ClearLikers(r) \/ CommitDelete(r)
  BY <1>2 DEF RemoveComment, ClearLikers, CommitDelete, Goes, Ends, NoRequest, counters
<1>3. CASE SAdd(r) \/ SRem(r) \/ CountLike(r) \/ CountUnlike(r)
  BY <1>3 DEF SAdd, SRem, CountLike, CountUnlike, Goes, Ends, NoRequest, counters
<1> QED BY <1>1, <1>2, <1>3 DEF CommentStep

BalancedAfter ==
  LikesBalanced =>
    LikesBalanced' \/ failures' > failures \/ \E r \in Requests : Overtaken(r)

LEMMA BalanceStep ==
  ASSUME TypeInv, [CommunityNext]_communityVars
  PROVE  BalancedAfter
<1> SUFFICES ASSUME LikesBalanced, ~(\E r \in Requests : Overtaken(r))
             PROVE  LikesBalanced' \/ failures' > failures
  BY DEF BalancedAfter
<1>1. CASE UNCHANGED communityVars
  BY <1>1 DEF communityVars, LikesBalanced, At
<1>2. ASSUME NEW r \in Requests, LikeBlogStep(r)
      PROVE  LikesBalanced'
  BY <1>2, LikesBalance
<1>3. ASSUME NEW r \in Requests, CommentStep(r)
      PROVE  LikesBalanced'
  <2>1. At("zadd")' = At("zadd") /\ At("zrem")' = At("zrem")
    BY <1>3, CommentRequests DEF At, LikeSteps
  <2> QED BY <1>3, <2>1, CommentRequests DEF LikesBalanced
<1>4. ASSUME NEW r \in Requests, CallThrows(r)
      PROVE  failures' > failures
  BY <1>4, CommunityAssumption DEF CallThrows, Breaks, TypeInv, CommunityTypeOK
<1> QED BY <1>1, <1>2, <1>3, <1>4 DEF CommunityNext

(***************************************************************************)
(* The like count of a blog and the set of those who like it part only     *)
(* when a call throws between the two, or when two requests of one user    *)
(* have read the set before one of them wrote it: for any users, any       *)
(* requests at once and any calls that throw (likeBlog).                   *)
(***************************************************************************)
THEOREM LikesPartByBreaksAndRaces == CommunitySpec => OnlyBreaksAndRacesUnbalance
<1>1. TypeInv /\ [CommunityNext]_communityVars => [BalancedAfter]_communityVars
  BY BalanceStep
<1>2. CommunitySpec => [][BalancedAfter]_communityVars
  BY TypeInitially, TypeStep, <1>1, PTL DEF CommunitySpec
<1> QED BY <1>2 DEF OnlyBreaksAndRacesUnbalance, BalancedAfter

-----------------------------------------------------------------------------

LEMMA CommentSetsFinite ==
  ASSUME TypeInv, NEW c \in Comments, NEW step
  PROVE  /\ IsFiniteSet(comment[c].likers) /\ Cardinality(comment[c].likers) \in Nat
         /\ IsFiniteSet(AtComment(step, c)) /\ Cardinality(AtComment(step, c)) \in Nat
         /\ comment[c].liked \in Nat
<1>1. comment[c].likers \in SUBSET Users /\ comment[c].liked \in Nat
  BY DEF TypeInv, CommunityTypeOK
<1>2. AtComment(step, c) \in SUBSET Requests
  BY DEF AtComment, At
<1> QED BY <1>1, <1>2, CommunityAssumption, FS_Subset, FS_CardinalityType

CountingSteps == {"plus", "minus"}

\* A request that does not come to a count of a comment, nor from one, and leaves its likes.
LEMMA QuietStep ==
  ASSUME NEW r \in Requests, NEW c \in Comments, CommentBalanced(c),
         \A q \in Requests : q # r => request'[q] = request[q],
         \A step \in CountingSteps :
           /\ ~(request[r].at = step /\ request[r].comment = c)
           /\ ~(request'[r].at = step /\ request'[r].comment = c),
         comment'[c].liked = comment[c].liked, comment'[c].likers = comment[c].likers
  PROVE  CommentBalanced(c)'
<1>1. AtComment("plus", c)' = AtComment("plus", c) /\ AtComment("minus", c)' = AtComment("minus", c)
  BY DEF AtComment, At, CountingSteps
<1> QED BY <1>1 DEF CommentBalanced

LEMMA AddBalances ==
  ASSUME TypeInv, NEW r \in Requests, NEW c \in Comments, c = request[r].comment,
         SAdd(r), ~Likes(request[r].user, c), CommentBalanced(c)
  PROVE  CommentBalanced(c)'
<1>1. PICK u : u = request[r].user
  OBVIOUS
<1>2. /\ request[r].at = "sadd" /\ request'[r].at = "plus" /\ request'[r].comment = c
      /\ \A q \in Requests : q # r => request'[q] = request[q]
      /\ comment' = [comment EXCEPT ![c].likers = @ \cup {u}] /\ u \notin comment[c].likers
  BY <1>1 DEF SAdd, Goes, Likes, TypeInv, CommunityTypeOK
<1>3. /\ AtComment("plus", c)' = AtComment("plus", c) \cup {r} /\ r \notin AtComment("plus", c)
      /\ AtComment("minus", c)' = AtComment("minus", c)
  BY <1>2 DEF AtComment, At
<1>4. comment'[c].liked = comment[c].liked /\ comment'[c].likers = comment[c].likers \cup {u}
  BY <1>2 DEF TypeInv, CommunityTypeOK
<1>5. Cardinality(comment'[c].likers) = Cardinality(comment[c].likers) + 1
  BY <1>2, <1>4, CommentSetsFinite, FS_AddElement
<1>6. Cardinality(AtComment("plus", c)') = Cardinality(AtComment("plus", c)) + 1
  BY <1>3, CommentSetsFinite, FS_AddElement
<1> QED BY <1>3, <1>4, <1>5, <1>6, CommentSetsFinite DEF CommentBalanced

LEMMA RemoveBalances ==
  ASSUME TypeInv, NEW r \in Requests, NEW c \in Comments, c = request[r].comment,
         SRem(r), Likes(request[r].user, c), CommentBalanced(c)
  PROVE  CommentBalanced(c)'
<1>1. PICK u : u = request[r].user
  OBVIOUS
<1>2. /\ request[r].at = "srem" /\ request'[r].at = "minus" /\ request'[r].comment = c
      /\ \A q \in Requests : q # r => request'[q] = request[q]
      /\ comment' = [comment EXCEPT ![c].likers = @ \ {u}] /\ u \in comment[c].likers
  BY <1>1 DEF SRem, Goes, Likes, TypeInv, CommunityTypeOK
<1>3. /\ AtComment("minus", c)' = AtComment("minus", c) \cup {r} /\ r \notin AtComment("minus", c)
      /\ AtComment("plus", c)' = AtComment("plus", c)
  BY <1>2 DEF AtComment, At
<1>4. comment'[c].liked = comment[c].liked /\ comment'[c].likers = comment[c].likers \ {u}
  BY <1>2 DEF TypeInv, CommunityTypeOK
<1>5. Cardinality(comment'[c].likers) = Cardinality(comment[c].likers) - 1
  BY <1>2, <1>4, CommentSetsFinite, FS_RemoveElement
<1>6. Cardinality(AtComment("minus", c)') = Cardinality(AtComment("minus", c)) + 1
  BY <1>3, CommentSetsFinite, FS_AddElement
<1> QED BY <1>3, <1>4, <1>5, <1>6, CommentSetsFinite DEF CommentBalanced

LEMMA CountBalances ==
  ASSUME TypeInv, NEW r \in Requests, NEW c \in Comments, c = request[r].comment, c \in Existing,
         CountLike(r) \/ (CountUnlike(r) /\ comment[c].liked # 0), CommentBalanced(c)
  PROVE  CommentBalanced(c)'
<1>1. /\ comment[c].liked \in Nat /\ request'[r].at = "idle"
      /\ \A q \in Requests : q # r => request'[q] = request[q]
  BY CommentSetsFinite DEF CountLike, CountUnlike, Ends, NoRequest, TypeInv, CommunityTypeOK
<1>2. CASE CountLike(r)
  <2>1. /\ comment'[c].liked = comment[c].liked + 1 /\ comment'[c].likers = comment[c].likers
        /\ request[r].at = "plus"
    BY <1>2 DEF CountLike, Ends, TypeInv, CommunityTypeOK
  <2>2. /\ AtComment("plus", c)' = AtComment("plus", c) \ {r} /\ r \in AtComment("plus", c)
        /\ AtComment("minus", c)' = AtComment("minus", c)
    BY <1>1, <2>1 DEF AtComment, At
  <2>3. Cardinality(AtComment("plus", c)') = Cardinality(AtComment("plus", c)) - 1
    BY <2>2, CommentSetsFinite, FS_RemoveElement
  <2> QED BY <2>1, <2>2, <2>3, CommentSetsFinite DEF CommentBalanced
<1>3. CASE CountUnlike(r) /\ comment[c].liked # 0
  <2>1. /\ comment'[c].liked = comment[c].liked - 1 /\ comment'[c].likers = comment[c].likers
        /\ request[r].at = "minus"
    BY <1>1, <1>3 DEF CountUnlike, Ends, TypeInv, CommunityTypeOK
  <2>2. /\ AtComment("minus", c)' = AtComment("minus", c) \ {r} /\ r \in AtComment("minus", c)
        /\ AtComment("plus", c)' = AtComment("plus", c)
    BY <1>1, <2>1 DEF AtComment, At
  <2>3. Cardinality(AtComment("minus", c)') = Cardinality(AtComment("minus", c)) - 1
    BY <2>2, CommentSetsFinite, FS_RemoveElement
  <2> QED BY <2>1, <2>2, <2>3, CommentSetsFinite DEF CommentBalanced
<1> QED BY <1>2, <1>3

\* The steps that count a comment, on another one.
LEMMA ElsewhereQuiet ==
  ASSUME TypeInv, NEW r \in Requests, NEW c \in Comments, c # request[r].comment,
         SAdd(r) \/ SRem(r) \/ CountLike(r) \/ CountUnlike(r), CommentBalanced(c)
  PROVE  CommentBalanced(c)'
<1>1. /\ \A q \in Requests : q # r => request'[q] = request[q]
      /\ request'[r].comment = request[r].comment \/ request'[r].at = "idle"
  BY DEF SAdd, SRem, CountLike, CountUnlike, Goes, Ends, NoRequest, TypeInv, CommunityTypeOK
<1>2. comment'[c] = comment[c]
  BY DEF SAdd, SRem, CountLike, CountUnlike, TypeInv, CommunityTypeOK
<1>3. \A step \in CountingSteps : /\ ~(request[r].at = step /\ request[r].comment = c)
                                  /\ ~(request'[r].at = step /\ request'[r].comment = c)
  BY <1>1 DEF CountingSteps
<1> QED BY <1>1, <1>2, <1>3, QuietStep

\* All other steps.
LEMMA OthersQuiet ==
  ASSUME TypeInv, NEW r \in Requests, NEW c \in Existing, c \in Existing', CommentBalanced(c),
         \/ LikeBlogStep(r) \/ RemoveComment(r) \/ CommitDelete(r)
         \/ \E u \in Users, d \in Comments :
              CreateComment(r, u, d) \/ FindOwnComment(r, u, d) \/ ReadLike(r, u, d)
  PROVE  CommentBalanced(c)'
<1> USE DEF TypeInv, CommunityTypeOK
<1>1. c \in Comments /\ comment[c].state = "there" /\ comment'[c].state = "there"
  BY DEF Existing
<1>2. CASE LikeBlogStep(r)
  <2>1. /\ request[r].at \notin CountingSteps /\ request'[r].at \notin CountingSteps
        /\ \A q \in Requests : q # r => request'[q] = request[q]
    BY <1>2 DEF LikeBlogStep, ReadScore, LikeBlog, ZAdd, UnlikeBlog, ZRem, Starts, Goes, Ends,
                NoRequest, CountingSteps
  <2>2. comment' = comment
    BY <1>2 DEF LikeBlogStep, ReadScore, LikeBlog, ZAdd, UnlikeBlog, ZRem
  <2> QED BY <1>1, <2>1, <2>2, QuietStep
<1>3. ASSUME NEW u \in Users, NEW d \in Comments,
             CreateComment(r, u, d) \/ FindOwnComment(r, u, d) \/ ReadLike(r, u, d)
      PROVE  CommentBalanced(c)'
  <2>1. /\ request[r].at \notin CountingSteps /\ request'[r].at \notin CountingSteps
        /\ \A q \in Requests : q # r => request'[q] = request[q]
    BY <1>3 DEF CreateComment, FindOwnComment, ReadLike, Starts, CountingSteps
  <2>2. comment'[c] = comment[c]
    BY <1>1, <1>3 DEF CreateComment, FindOwnComment, ReadLike
  <2> QED BY <1>1, <2>1, <2>2, QuietStep
<1>4. CASE RemoveComment(r) \/ CommitDelete(r)
  <2>1. /\ request[r].at \notin CountingSteps /\ request'[r].at \notin CountingSteps
        /\ \A q \in Requests : q # r => request'[q] = request[q]
    BY <1>4 DEF RemoveComment, CommitDelete, Goes, Ends, NoRequest, CountingSteps
  <2>2. comment'[c] = comment[c]
    <3>1. PICK d : d = request[r].comment
      OBVIOUS
    <3>2. \/ comment' = comment
          \/ comment' = [comment EXCEPT ![d].state = "gone", ![d].author = Null, ![d].liked = 0]
      BY <1>4, <3>1 DEF RemoveComment, CommitDelete
    <3> QED BY <1>1, <3>2
  <2> QED BY <1>1, <2>1, <2>2, QuietStep
<1> QED BY <1>2, <1>3, <1>4

CommentsBalancedAfter ==
  \A c \in Existing : CommentBalanced(c) =>
    \/ CommentBalanced(c)' \/ c \notin Existing'
    \/ failures' > failures
    \/ \E r \in Requests : CommentOvertaken(r, c) \/ ClearLikers(r)

LEMMA CommentsBalanceStep ==
  ASSUME TypeInv, [CommunityNext]_communityVars
  PROVE  CommentsBalancedAfter
<1> SUFFICES ASSUME NEW c \in Existing, CommentBalanced(c), c \in Existing',
                    ~(\E r \in Requests : CommentOvertaken(r, c) \/ ClearLikers(r))
             PROVE  CommentBalanced(c)' \/ failures' > failures
  BY DEF CommentsBalancedAfter
<1>1. c \in Comments
  BY DEF Existing
<1>2. CASE UNCHANGED communityVars
  BY <1>2 DEF communityVars, CommentBalanced, AtComment, At
<1>3. ASSUME NEW r \in Requests,
             \/ LikeBlogStep(r) \/ RemoveComment(r) \/ CommitDelete(r)
             \/ \E u \in Users, d \in Comments :
                  CreateComment(r, u, d) \/ FindOwnComment(r, u, d) \/ ReadLike(r, u, d)
      PROVE  CommentBalanced(c)'
  BY <1>3, OthersQuiet
<1>4. ASSUME NEW r \in Requests, SAdd(r) \/ SRem(r) \/ CountLike(r) \/ CountUnlike(r)
      PROVE  CommentBalanced(c)'
  <2>1. CASE c # request[r].comment
    BY <1>1, <1>4, <2>1, ElsewhereQuiet
  <2>2. CASE c = request[r].comment
    <3>1. /\ SAdd(r) => ~Likes(request[r].user, c)
          /\ SRem(r) => Likes(request[r].user, c)
          /\ CountUnlike(r) => comment[c].liked # 0
      BY <2>2 DEF CommentOvertaken
    <3> QED BY <1>1, <1>4, <2>2, <3>1, AddBalances, RemoveBalances, CountBalances
  <2> QED BY <2>1, <2>2
<1>5. ASSUME NEW r \in Requests, CallThrows(r)
      PROVE  failures' > failures
  BY <1>5, CommunityAssumption DEF CallThrows, Breaks, TypeInv, CommunityTypeOK
<1> QED BY <1>2, <1>3, <1>4, <1>5 DEF CommunityNext, CommentStep

(***************************************************************************)
(* The likes of a comment and the set of those who like it part only when  *)
(* a call throws between the two, when two requests of one user overtake   *)
(* each other, or when a deletion empties the set: for any users, any      *)
(* requests at once and any calls that throw (likeComment, deleteComment). *)
(***************************************************************************)
THEOREM CommentLikesPartByBreaksAndRaces == CommunitySpec => OnlyBreaksAndRacesUnbalanceComments
<1>1. TypeInv /\ [CommunityNext]_communityVars => [CommentsBalancedAfter]_communityVars
  BY CommentsBalanceStep
<1>2. CommunitySpec => [][CommentsBalancedAfter]_communityVars
  BY TypeInitially, TypeStep, <1>1, PTL DEF CommunitySpec
<1> QED BY <1>2 DEF OnlyBreaksAndRacesUnbalanceComments, CommentsBalancedAfter
=============================================================================
