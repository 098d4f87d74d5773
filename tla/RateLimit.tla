----------------------------- MODULE RateLimit ------------------------------
(***************************************************************************)
(* RateLimitAspect: one counter in Redis, per method and client, that the  *)
(* first request of a window starts with a TTL.  The Lua script is one     *)
(* step.                                                                   *)
(***************************************************************************)
EXTENDS Integers, FiniteSets

CONSTANTS
  WindowSeconds,   \* windowSeconds of the annotation
  MaxRequests,     \* its max
  MaxExcess,       \* bound on the requests a window refuses
  MaxTime          \* bound on the time

ASSUME RateAssumption ==
  /\ WindowSeconds \in Nat \ {0} /\ MaxRequests \in Nat
  /\ MaxExcess \in Nat /\ MaxTime \in Nat

VARIABLES
  time,
  hits,            \* the counter; 0: no key
  expiry,          \* when the key expires
  served           \* the requests let through: when, in the window that ends when, which one of it

rateVars == <<time, hits, expiry, served>>

RateInit ==
  /\ time = 0 /\ hits = 0 /\ expiry = 0
  /\ served = {}

TimePasses ==
  /\ time < MaxTime
  /\ time' = time + 1
  /\ hits' = IF hits > 0 /\ expiry = time' THEN 0 ELSE hits
  /\ UNCHANGED <<expiry, served>>

\* What the script does with the key, given when it would expire from now on.
Count(newExpiry) ==
  /\ hits < MaxRequests + MaxExcess
  /\ hits' = hits + 1
  /\ expiry' = newExpiry
  /\ served' = IF hits' > MaxRequests THEN served
               ELSE served \cup {[at |-> time, window |-> newExpiry, hit |-> hits']}
  /\ UNCHANGED time

\* Mutant: the TTL is not that of the window.
RequestShort == Count(IF hits = 0 THEN time + 1 ELSE expiry)

\* Mutant: every request sets the TTL again.
RequestRenewing == Count(time + WindowSeconds)

Request == Count(IF hits = 0 THEN time + WindowSeconds ELSE expiry)

RateNext == TimePasses \/ Request

RateSpec == RateInit /\ [][RateNext]_rateVars

-----------------------------------------------------------------------------

\* Requests let through in the WindowSeconds that end now.
Recent == {s \in served : time - WindowSeconds < s.at}

(***************************************************************************)
(* A sliding window (the project's README on RateLimitAspect): no span of  *)
(* WindowSeconds lets more than the limit through.  The code does not keep *)
(* it: its windows are fixed, each started by a request, so two of them    *)
(* meet in such a span.                                                    *)
(***************************************************************************)
LimitInWindow == Cardinality(Recent) <= MaxRequests

(***************************************************************************)
(* What fixed windows do keep: around the end of a window twice the limit  *)
(* passes within one window's time, and never more.                        *)
(***************************************************************************)
TwiceTheLimitAtMost == Cardinality(Recent) <= 2 * MaxRequests

(***************************************************************************)
(* Nobody is locked out: a request is refused only when the limit was      *)
(* used up within the last window's time, however often it is tried.       *)
(***************************************************************************)
RefusedOnlyWhenSpent == hits >= MaxRequests => Cardinality(Recent) >= MaxRequests
=============================================================================
