--------------------------- MODULE BlogCommunity ---------------------------
(***************************************************************************)
(* The likes and the comments of one blog: counters in MySQL beside sets   *)
(* in Redis and rows in MySQL.  likeBlog and likeComment run outside any   *)
(* transaction, deleteComment in one that reaches Redis before it commits. *)
(*                                                                         *)
(* A user may have several requests under way.  Any call of a request may  *)
(* throw, having run or not; the request is over then, and the user may    *)
(* send it again.  The texts of comments and what they reply to are left   *)
(* out.                                                                    *)
(***************************************************************************)
EXTENDS Integers, FiniteSets

CONSTANTS
  Users,
  Requests,        \* request threads
  Comments,        \* ids of comments
  Null,            \* SQL's null, or nobody
  MaxSent,         \* bound on the requests users send
  MaxFailures      \* bound on the calls that throw

ASSUME CommunityAssumption ==
  /\ IsFiniteSet(Users) /\ IsFiniteSet(Requests) /\ IsFiniteSet(Comments)
  /\ Null \notin Nat \cup Users \cup Comments
  /\ MaxSent \in Nat /\ MaxFailures \in Nat

VARIABLES
  blogLiked,       \* tb_blog.liked
  blogLikers,      \* blog:liked:{blogId}
  commentCount,    \* tb_blog.comments
  comment,         \* tb_blog_comments and blog:comment:liked:{commentId}
  request,
  sent,            \* how many requests were sent so far
  failures         \* how many calls threw

communityVars == <<blogLiked, blogLikers, commentCount, comment, request, sent, failures>>
counters == <<blogLiked, blogLikers, commentCount>>

RequestSteps ==
  {"idle",
   "like", "zadd", "unlike", "zrem",          \* likeBlog
   "sadd", "plus", "srem", "minus",           \* likeComment
   "delete", "clear", "commit"}               \* deleteComment

NoRequest == [at |-> "idle", user |-> Null, comment |-> Null]

Existing == {c \in Comments : comment[c].state = "there"}

CommunityTypeOK ==
  /\ blogLiked \in Nat
  /\ blogLikers \subseteq Users
  /\ commentCount \in Nat \cup {Null}
  /\ comment \in [Comments -> [state : {"new", "there", "gone"}, author : Users \cup {Null},
                               liked : Nat, likers : SUBSET Users]]
  /\ request \in [Requests -> [at : RequestSteps, user : Users \cup {Null},
                               comment : Comments \cup {Null}]]
  /\ sent \in 0 .. MaxSent /\ failures \in 0 .. MaxFailures
  /\ \A c \in Comments : comment[c].state = "new" => comment[c].likers = {}

CommunityInit ==
  /\ blogLiked = 0 /\ blogLikers = {}
  /\ commentCount \in {0, Null}
  /\ comment = [c \in Comments |-> [state |-> "new", author |-> Null, liked |-> 0,
                                    likers |-> {}]]
  /\ request = [r \in Requests |-> NoRequest]
  /\ sent = 0 /\ failures = 0

Sends == sent < MaxSent /\ sent' = sent + 1 /\ UNCHANGED failures

Starts(r, to, u, c) ==
  /\ request[r].at = "idle"
  /\ request' = [request EXCEPT ![r] = [at |-> to, user |-> u, comment |-> c]]
  /\ Sends

Goes(r, from, to) ==
  /\ request[r].at = from
  /\ request' = [request EXCEPT ![r].at = to]
  /\ UNCHANGED <<sent, failures>>

Ends(r, from) ==
  /\ request[r].at = from
  /\ request' = [request EXCEPT ![r] = NoRequest]
  /\ UNCHANGED <<sent, failures>>

\* An exception ends the request.
Breaks(r, from) ==
  /\ request[r].at = from /\ failures < MaxFailures
  /\ request' = [request EXCEPT ![r] = NoRequest]
  /\ failures' = failures + 1
  /\ UNCHANGED sent

\* Mutant: the count has a transaction of its own.
RollbackKeepsCount(r) ==
  /\ \E step \in RequestSteps \ {"idle"} : Breaks(r, step)
  /\ commentCount' = IF request[r].at # "commit" \/ commentCount \in {0, Null} THEN commentCount
                     ELSE commentCount - 1
  /\ UNCHANGED <<blogLiked, blogLikers, comment>>

\* Mutant: the row has a transaction of its own.
RollbackKeepsRemoval(r) ==
  /\ \E step \in RequestSteps \ {"idle"} : Breaks(r, step)
  /\ comment' = IF request[r].at # "clear" THEN comment
                ELSE [comment EXCEPT ![request[r].comment].state = "gone"]
  /\ UNCHANGED counters

\* The next call of a request throws without having run, or after the call before has run and its
\* answer is lost; a transaction is rolled back.
CallThrows(r) ==
  /\ \E step \in RequestSteps \ {"idle"} : Breaks(r, step)
  /\ UNCHANGED <<counters, comment>>

\* The transaction of a deletion holds the rows of the blog and of the comment.
Deleting(r) == request[r].at \in {"clear", "commit"}
BlogFree == \A r \in Requests : ~Deleting(r)
CommentFree(c) == \A r \in Requests : Deleting(r) => request[r].comment # c

-----------------------------------------------------------------------------
(* likeBlog *)

ReadScore(r, u) ==
  /\ Starts(r, IF u \in blogLikers THEN "unlike" ELSE "like", u, Null)
  /\ UNCHANGED <<counters, comment>>

LikeBlog(r) ==
  /\ BlogFree
  /\ Goes(r, "like", "zadd")
  /\ blogLiked' = blogLiked + 1
  /\ UNCHANGED <<blogLikers, commentCount, comment>>

ZAdd(r) ==
  /\ Ends(r, "zadd")
  /\ blogLikers' = blogLikers \cup {request[r].user}
  /\ UNCHANGED <<blogLiked, commentCount, comment>>

\* An unsigned column does not go below zero: the statement fails.
UnlikeBlog(r) ==
  /\ BlogFree
  /\ IF blogLiked > 0
     THEN Goes(r, "unlike", "zrem") /\ blogLiked' = blogLiked - 1
     ELSE Ends(r, "unlike") /\ UNCHANGED blogLiked
  /\ UNCHANGED <<blogLikers, commentCount, comment>>

\* Mutant: the user is left in the set.
ZRemForgotten(r) ==
  /\ Ends(r, "zrem")
  /\ UNCHANGED <<counters, comment>>

ZRem(r) ==
  /\ Ends(r, "zrem")
  /\ blogLikers' = blogLikers \ {request[r].user}
  /\ UNCHANGED <<blogLiked, commentCount, comment>>

-----------------------------------------------------------------------------
(* createComment and deleteComment *)

\* The row and the count commit together; NULL + 1 is NULL.
CreateComment(r, u, c) ==
  /\ request[r].at = "idle" /\ comment[c].state = "new"
  /\ BlogFree
  /\ comment' = [comment EXCEPT ![c].state = "there", ![c].author = u]
  /\ commentCount' = IF commentCount = Null THEN Null ELSE commentCount + 1
  /\ Sends
  /\ UNCHANGED <<blogLiked, blogLikers, request>>

FindOwnComment(r, u, c) ==
  /\ c \in Existing /\ comment[c].author = u
  /\ Starts(r, "delete", u, c)
  /\ UNCHANGED <<counters, comment>>

\* removeById and the decrement, which take the locks; others see them at the commit.
RemoveComment(r) ==
  /\ BlogFree
  /\ Goes(r, "delete", "clear")
  /\ UNCHANGED <<counters, comment>>

ClearLikers(r) ==
  /\ Goes(r, "clear", "commit")
  /\ comment' = [comment EXCEPT ![request[r].comment].likers = {}]
  /\ UNCHANGED counters

\* Nobody looks at how many rows removeById removed.
CommitDelete(r) ==
  /\ Ends(r, "commit")
  /\ comment' = [comment EXCEPT ![request[r].comment].state = "gone",
                                ![request[r].comment].author = Null,
                                ![request[r].comment].liked = 0]
  /\ commentCount' = IF commentCount \in {0, Null} THEN commentCount ELSE commentCount - 1
  /\ UNCHANGED <<blogLiked, blogLikers>>

-----------------------------------------------------------------------------
(* likeComment *)

Likes(u, c) == u \in comment[c].likers

\* Mutant: the comment itself is not looked up.
ReadAnyLike(r, u, c) ==
  /\ Starts(r, IF Likes(u, c) THEN "srem" ELSE "sadd", u, c)
  /\ UNCHANGED <<counters, comment>>

ReadLike(r, u, c) ==
  /\ c \in Existing
  /\ Starts(r, IF Likes(u, c) THEN "srem" ELSE "sadd", u, c)
  /\ UNCHANGED <<counters, comment>>

SAdd(r) ==
  /\ Goes(r, "sadd", "plus")
  /\ comment' = [comment EXCEPT ![request[r].comment].likers = @ \cup {request[r].user}]
  /\ UNCHANGED counters

\* Mutant: the user is left in the set.
SRemForgotten(r) ==
  /\ Goes(r, "srem", "minus")
  /\ UNCHANGED <<counters, comment>>

SRem(r) ==
  /\ Goes(r, "srem", "minus")
  /\ comment' = [comment EXCEPT ![request[r].comment].likers = @ \ {request[r].user}]
  /\ UNCHANGED counters

\* A comment that is gone has no row to update.
CountLike(r) ==
  LET c == request[r].comment IN
    /\ Ends(r, "plus")
    /\ CommentFree(c)
    /\ comment' = IF c \in Existing THEN [comment EXCEPT ![c].liked = @ + 1] ELSE comment
    /\ UNCHANGED counters

\* greatest(liked - 1, 0)
CountUnlike(r) ==
  LET c == request[r].comment IN
    /\ Ends(r, "minus")
    /\ CommentFree(c)
    /\ comment' = IF c \in Existing /\ comment[c].liked > 0
                  THEN [comment EXCEPT ![c].liked = @ - 1] ELSE comment
    /\ UNCHANGED counters

-----------------------------------------------------------------------------

LikeBlogStep(r) ==
  (\E u \in Users : ReadScore(r, u)) \/ LikeBlog(r) \/ ZAdd(r) \/ UnlikeBlog(r) \/ ZRem(r)

CommentStep(r) ==
  \/ \E u \in Users, c \in Comments :
       CreateComment(r, u, c) \/ FindOwnComment(r, u, c) \/ ReadLike(r, u, c)
  \/ RemoveComment(r) \/ ClearLikers(r) \/ CommitDelete(r)
  \/ SAdd(r) \/ SRem(r) \/ CountLike(r) \/ CountUnlike(r)

CommunityNext == \E r \in Requests : LikeBlogStep(r) \/ CommentStep(r) \/ CallThrows(r)

CommunitySpec == CommunityInit /\ [][CommunityNext]_communityVars

-----------------------------------------------------------------------------

At(step) == {r \in Requests : request[r].at = step}

\* The likes and those who like, but for the requests between the two.
LikesBalanced ==
  blogLiked + Cardinality(At("zrem")) = Cardinality(blogLikers) + Cardinality(At("zadd"))

\* Another request of the same user has been faster.
Overtaken(r) == IF request[r].user \in blogLikers THEN ZAdd(r) ELSE ZRem(r)

(***************************************************************************)
(* What parts the like count of a blog from the set of those who like it:  *)
(* a call that throws between the two, or two requests of one user that    *)
(* have both read the set before one of them wrote it.  Any other like or  *)
(* unlike, of any users, in any order, keeps them together (likeBlog).     *)
(***************************************************************************)
OnlyBreaksAndRacesUnbalance ==
  [][LikesBalanced =>
       LikesBalanced' \/ failures' > failures \/ \E r \in Requests : Overtaken(r)]_communityVars

AtComment(step, c) == {r \in At(step) : request[r].comment = c}

CommentBalanced(c) ==
  comment[c].liked + Cardinality(AtComment("plus", c))
    = Cardinality(comment[c].likers) + Cardinality(AtComment("minus", c))

\* ... or was to count what this one takes back, but has not yet: the count stops at zero.
CommentOvertaken(r, c) ==
  /\ request[r].comment = c
  /\ \/ SAdd(r) /\ Likes(request[r].user, c)
     \/ SRem(r) /\ ~Likes(request[r].user, c)
     \/ CountUnlike(r) /\ comment[c].liked = 0

(***************************************************************************)
(* The same for the likes of a comment, set before count (likeComment),    *)
(* but for deleteComment, which empties the set before its transaction     *)
(* commits.                                                                *)
(***************************************************************************)
OnlyBreaksAndRacesUnbalanceComments ==
  [][\A c \in Existing : CommentBalanced(c) =>
       \/ CommentBalanced(c)' \/ c \notin Existing'
       \/ failures' > failures
       \/ \E r \in Requests : CommentOvertaken(r, c) \/ ClearLikers(r)]_communityVars

(***************************************************************************)
(* A blog that has a comment count never claims a comment that is not      *)
(* there, whatever deletions are repeated, fail or roll back               *)
(* (createComment, deleteComment).                                         *)
(***************************************************************************)
CommentsNotOvercounted == commentCount # Null => commentCount <= Cardinality(Existing)

(***************************************************************************)
(* ... and it misses one only after a deletion has committed whose comment *)
(* another one had removed before: nobody looks at how many rows           *)
(* removeById removed.                                                     *)
(***************************************************************************)
OnlyRepeatedDeletesMiscount ==
  [][commentCount = Cardinality(Existing) =>
       \/ commentCount' = Cardinality(Existing')
       \/ \E r \in Requests : CommitDelete(r) /\ request[r].comment \notin Existing]_communityVars
=============================================================================
