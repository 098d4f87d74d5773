----------------------------- MODULE MCServices -----------------------------
(***************************************************************************)
(* An instance for TLC of six services that share no state: ids, rate      *)
(* limits, the sign-in calendar, the likes and comments of a blog, the     *)
(* feed and the texts of prices.  They are checked side by side: a         *)
(* behaviour is one of any of them, with the others at rest.               *)
(***************************************************************************)
EXTENDS IdWorker, RateLimit, SignIn, BlogCommunity, FeedScroll, PriceText, TLC

CONSTANTS
  Services,        \* the services this instance checks
  n1, n2, n3,      \* calls of nextId
  u1, u2, q1, q2, s1, s2, x, y

VARIABLE service

\* Two clocks that agree and one that is a second ahead.
OneAhead == (n1 :> 0) @@ (n2 :> 0) @@ (n3 :> 1)

\* The users, the requests and the comments of a blog are interchangeable, and so are the
\* queries of a page.
Interchanged == {p @@ q @@ r : p \in Permutations(Users), q \in Permutations(Requests),
                               r \in Permutations(Comments)} \cup Permutations(Queries)

ServicesInit ==
  /\ service \in Services
  /\ IdInit /\ RateInit /\ SignInit /\ CommunityInit /\ FeedInit /\ PriceInit
  /\ service # "prices" => price = <<1>>

ServicesNext ==
  /\ UNCHANGED <<service, price>>
  /\ \/ service = "ids" /\ IdNext /\ UNCHANGED <<rateVars, signVars, communityVars, feedVars>>
     \/ service = "limits" /\ RateNext /\ UNCHANGED <<idVars, signVars, communityVars, feedVars>>
     \/ service = "signs" /\ SignNext /\ UNCHANGED <<idVars, rateVars, communityVars, feedVars>>
     \/ service = "community" /\ CommunityNext /\ UNCHANGED <<idVars, rateVars, signVars, feedVars>>
     \/ service = "feed" /\ FeedNext /\ UNCHANGED <<idVars, rateVars, signVars, communityVars>>

servicesVars == <<service, idVars, rateVars, signVars, communityVars, feedVars, price>>

ServicesSpec == ServicesInit /\ [][ServicesNext]_servicesVars
=============================================================================
