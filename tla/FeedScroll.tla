----------------------------- MODULE FeedScroll -----------------------------
(***************************************************************************)
(* The inbox of a follower, feed:{userId}, scored by the time of the       *)
(* instance that pushed a blog, and a page that scrolls through it while   *)
(* more blogs are pushed.  The page sends back the lowest score of the     *)
(* last answer and how many blogs of that answer had it.                   *)
(*                                                                         *)
(* It asks without waiting: several queries may be under way, the same one *)
(* twice, and they are answered in any order or not at all.  Of the list   *)
(* in front of the user, the model keeps which blogs are in it.            *)
(***************************************************************************)
EXTENDS Integers, FiniteSets

CONSTANTS
  Blogs,           \* ids
  MaxScore,        \* bound on the times
  Queries,         \* those that can be under way at once
  MaxAsked         \* bound on the queries of the page

ASSUME FeedAssumption ==
  /\ Blogs \subseteq Nat /\ IsFiniteSet(Blogs)
  /\ MaxScore \in Nat /\ MaxAsked \in Nat

VARIABLES
  inbox,           \* the score of a blog; 0: not pushed yet
  params,          \* what the page asks for next, and whether it is current
  query,
  asked,           \* how many queries were sent
  shown,           \* the blogs of the list
  opened           \* those that were there when the list was last asked for from the top

feedVars == <<inbox, params, query, asked, shown, opened>>

Closed == 0

\* A query, or its answer, is current when the list has not been asked for from the top, or
\* filled from the top, since it was sent.
NoQuery == [at |-> "idle", clear |-> FALSE, current |-> FALSE, lastId |-> Closed, offset |-> 0,
            page |-> {}]

FeedInit ==
  /\ inbox = [b \in Blogs |-> 0]
  /\ params = [lastId |-> Closed, offset |-> 0, current |-> FALSE]
  /\ query = [q \in Queries |-> NoQuery]
  /\ asked = 0 /\ shown = {} /\ opened = {}

\* The clocks of the instances differ: a later push may have a lower score, or the same.
Push(b, score) ==
  /\ inbox[b] = 0
  /\ inbox' = [inbox EXCEPT ![b] = score]
  /\ UNCHANGED <<params, query, asked, shown, opened>>

\* ZREVRANGEBYSCORE: by score, then by member, both from the highest.
UpTo(score) == {b \in Blogs : inbox[b] # 0 /\ inbox[b] <= score}
Above(b, d) == inbox[b] > inbox[d] \/ (inbox[b] = inbox[d] /\ b > d)
Before(b, score) == Cardinality({d \in UpTo(score) : Above(d, b)})

\* What is left from a position on.
Remaining(p) == {b \in UpTo(p.lastId) : Before(b, p.lastId) >= p.offset}

\* ... LIMIT offset 2
OnPage(p) == {b \in Remaining(p) : Before(b, p.lastId) < p.offset + 2}

-----------------------------------------------------------------------------
(* The page *)

Asks == asked < MaxAsked /\ asked' = asked + 1

OthersLate(q, record) ==
  query' = [o \in Queries |-> IF o = q THEN record ELSE [query[o] EXCEPT !.current = FALSE]]

\* The tab is opened, or the list is scrolled to its top.  The page starts from its own clock.
OpenFeed(q, now) ==
  /\ query[q].at = "idle" /\ Asks
  /\ params' = [lastId |-> now, offset |-> 0, current |-> TRUE]
  /\ OthersLate(q, [at |-> "sent", clear |-> TRUE, current |-> TRUE, lastId |-> now, offset |-> 0,
                    page |-> {}])
  /\ opened' = UpTo(now)
  /\ UNCHANGED <<inbox, shown>>

\* The list is scrolled to its end, also again while the answer is still to come.
ScrollOn(q) ==
  /\ query[q].at = "idle" /\ Asks
  /\ params.lastId # Closed
  /\ query' = [query EXCEPT ![q] = [at |-> "sent", clear |-> FALSE, current |-> params.current,
                                    lastId |-> params.lastId, offset |-> params.offset,
                                    page |-> {}]]
  /\ UNCHANGED <<inbox, params, shown, opened>>

ShowAnswer(q) ==
  LET answer == query[q] IN
    /\ answer.at = "answered"
    /\ params' = [lastId |-> answer.lastId, offset |-> answer.offset, current |-> answer.current]
    /\ IF answer.clear
       THEN OthersLate(q, NoQuery) /\ shown' = answer.page
       ELSE /\ query' = [query EXCEPT ![q] = NoQuery]
            /\ shown' = shown \cup answer.page
    /\ UNCHANGED <<inbox, asked, opened>>

\* The page only logs an error.
QueryFails(q) ==
  /\ query[q].at # "idle"
  /\ query' = [query EXCEPT ![q] = NoQuery]
  /\ UNCHANGED <<inbox, params, asked, shown, opened>>

-----------------------------------------------------------------------------
(* The service *)

MinTime(page) == CHOOSE t \in {inbox[b] : b \in page} : \A b \in page : t <= inbox[b]

\* Mutant: the count is not reset when the score changes.
WholePage(page) == Cardinality(page)

\* os: how many at the end of the page share the lowest score.
NextOffset(page) == Cardinality({b \in page : inbox[b] = MinTime(page)})

\* An answer without blogs leaves the page as it is.
QueryBlogOfFollow(q) ==
  LET page == OnPage(query[q]) IN
    /\ query[q].at = "sent"
    /\ query' = IF page = {}
                THEN [query EXCEPT ![q] = NoQuery]
                ELSE [query EXCEPT ![q].at = "answered", ![q].page = page,
                                   ![q].lastId = MinTime(page), ![q].offset = NextOffset(page)]
    /\ UNCHANGED <<inbox, params, asked, shown, opened>>

FeedNext ==
  \/ \E b \in Blogs, score \in 1 .. MaxScore : Push(b, score)
  \/ \E q \in Queries :
       \/ \E now \in 1 .. MaxScore : OpenFeed(q, now)
       \/ ScrollOn(q) \/ QueryBlogOfFollow(q) \/ ShowAnswer(q) \/ QueryFails(q)

FeedSpec == FeedInit /\ [][FeedNext]_feedVars

(***************************************************************************)
(* Who scrolls on is shown every blog that was there when he came to the   *)
(* top, or still has it ahead: whatever is pushed in the meantime, with    *)
(* whatever scores, and however often a page is asked for, shown or lost.  *)
(* Only an answer that is late, overtaken by a new start, moves the list   *)
(* on past blogs it never showed.                                          *)
(***************************************************************************)
NothingSkipped == params.current => opened \subseteq shown \cup Remaining(params)
=============================================================================
