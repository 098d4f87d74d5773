SPECIFICATION ServicesSpec
CONSTANTS
  Services = {"ids", "limits", "signs", "community", "feed", "prices"}
  n1 = n1  n2 = n2  n3 = n3
  Calls = {n1, n2, n3}
  Ahead <- OneAhead
  MaxAhead = 1
  DaySeconds = 2
  CountRange = 4
  MaxSecond = 5
  WindowSeconds = 3
  MaxRequests = 2
  MaxExcess = 1
  MaxTime = 7
  MonthDays = 5
  MaxDay = 9
  s1 = s1  s2 = s2  u1 = u1  u2 = u2  q1 = q1  q2 = q2  x = x  y = y
  Users = {u1, u2}
  Requests = {q1, q2}
  Comments = {x, y}
  Null = Null
  Blogs = {1, 2, 3}
  MaxScore = 2
  Queries = {s1, s2}
  MaxAsked = 4
  MaxSent = 6
  MaxFailures = 1
  MaxDigits = 4
SYMMETRY Interchanged
INVARIANTS DistinctIds TwiceTheLimitAtMost RefusedOnlyWhenSpent CountsTheRun
INVARIANTS CommunityTypeOK CommentsNotOvercounted NothingSkipped ShownPriceReadsBack
PROPERTIES OnlyBreaksAndRacesUnbalance OnlyBreaksAndRacesUnbalanceComments OnlyRepeatedDeletesMiscount
\* The time of the clocks is bounded.
CHECK_DEADLOCK FALSE
