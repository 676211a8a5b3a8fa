------------------------------ MODULE PRWrites ------------------------------
(***************************************************************************)
(* The methods of the sidecar that change a pull request: the handlers of  *)
(* handlers/mutate_*.go with guardHead, and the GitHub calls behind them   *)
(* (comments.go, reviews.go, merge.go, state.go, viewed.go and             *)
(* ResolveThread).  Requests run in goroutines of their own, so between    *)
(* two calls of one request anything may happen to the pull request; each  *)
(* call of GitHub is one step, and its answer may be lost.  What GitHub    *)
(* does with a mutation is external; a mutation's operator says what the   *)
(* document asks for.                                                      *)
(***************************************************************************)
EXTENDS Integers, FiniteSets

CONSTANTS
  Request,
  Ask,         \* the params of the requests: see AskType
  Head,        \* the commits the head goes through
  Starts,      \* what the pull request may be to begin with
  None,
  MaxReviews,  \* bound: pending reviews started
  MaxOutside   \* bound: changes by others, or by the viewer on github.com

Review == 1..MaxReviews

Method == {"post_comment", "post_issue_comment", "delete_comment", "start_review",
           "submit_review", "discard_review", "resolve_thread", "set_file_viewed",
           "merge_pr", "set_pr_state"}

Anchor == [side : STRING, line : Int, startSide : STRING, startLine : Int]

\* A request's params: pr and text say whether the coordinates and the other
\* required fields were given; reply is in_reply_to; arg is the event, the
\* merge method or the state; on is resolved or viewed; expected, review and
\* delete are expected_head, review_id and delete_branch.
AskType == [method : Method, pr : BOOLEAN, text : BOOLEAN, reply : BOOLEAN,
            anchor : Anchor, expected : Head \cup {None}, review : Review \cup {None},
            arg : STRING, on : BOOLEAN, delete : BOOLEAN]

\* GitHub's pull request: the viewer's pending review and the number of them
\* so far, whether there is a thread to reply to and its state, and the
\* fields the methods read or set.
PullRequest == [head : Head, review : Review \cup {None}, reviews : 0..MaxReviews,
                resolved : BOOLEAN, comment : BOOLEAN, viewed : BOOLEAN,
                state : {"OPEN", "CLOSED", "MERGED"}, isDraft : BOOLEAN,
                mergeable : {"MERGEABLE", "CONFLICTING", "UNKNOWN"},
                status : {"CLEAN", "BLOCKED", "UNKNOWN"}, headRef : BOOLEAN]

ASSUME WritesAssumption ==
  /\ MaxReviews \in Nat /\ MaxOutside \in Nat
  /\ Ask \subseteq AskType /\ Starts \subseteq PullRequest
  /\ None \notin AskType /\ None \notin Head /\ None \notin Review

VARIABLES
  gh,       \* the pull request on GitHub
  outside,  \* the changes made by others so far
  asked,    \* what each request asks, None before it is made
  at,       \* the call it makes next: "guard", "lookup", "write", "deleteRef"; or "none", "done"
  join,     \* the pending review its comment joins, None for none
  branch,   \* whether MergePR's lookup found the head branch
  result,   \* its answer
  wrote,    \* the mutations of it that GitHub carried out
  during    \* what the pull request has been since the request was made

request == <<asked, at, join, branch, result, wrote>>
vars == <<gh, outside, request, during>>

Code == {"none", "ok", "bad_request", "conflict", "auth", "network"}

\* What an answer tells beside its code: a review's id, the pull request's
\* condition, or a flag (resolved, viewed, merged).
Told == [review : Review \cup {None}, state : {"", "open", "draft", "closed", "merged"}, flag : BOOLEAN]

Nothing == [review |-> None, state |-> "", flag |-> FALSE]

Answer(code, tells) == [code |-> code, tells |-> tells]
Error(code) == Answer(code, Nothing)

-----------------------------------------------------------------------------
Init ==
  /\ gh \in Starts
  /\ outside = 0
  /\ asked = [r \in Request |-> None]
  /\ at = [r \in Request |-> "none"]
  /\ join = [r \in Request |-> None]
  /\ branch = [r \in Request |-> FALSE]
  /\ result = [r \in Request |-> Error("none")]
  /\ wrote = [r \in Request |-> {}]
  /\ during = [r \in Request |-> {}]

\* Every request under way has now seen the pull request as it is.
Seen == during' = [r \in Request |-> IF at'[r] \in {"none", "done"} /\ at[r] \in {"none", "done"}
                                     THEN during[r] ELSE during[r] \cup {gh, gh'}]

-----------------------------------------------------------------------------
(* What the handlers check before any call.                                *)

ValidSide(s) == s \in {"LEFT", "RIGHT"}

ValidateAnchor(a) ==
  /\ ValidSide(a.side)
  /\ a.line > 0
  /\ a.startLine # 0 \/ a.startSide # "" =>
       /\ a.startLine > 0
       /\ a.startLine < a.line
       /\ a.startSide # "" => ValidSide(a.startSide)

RequirePR(a) == a.pr
RequireReviewID(a) == a.review # None
ValidReviewEvent(e) == e \in {"APPROVE", "REQUEST_CHANGES", "COMMENT"}
MergeMethod(m) == m \in {"squash", "merge", "rebase"}
ValidPRState(s) == s \in {"ready", "draft", "closed", "open"}

\* A request is refused where its params are, and else makes its first call.
Begin(r, a, valid, first) ==
  /\ asked' = [asked EXCEPT ![r] = a]
  /\ join' = [join EXCEPT ![r] = a.review]
  /\ IF RequirePR(a) /\ valid
     THEN at' = [at EXCEPT ![r] = first] /\ UNCHANGED result
     ELSE /\ at' = [at EXCEPT ![r] = "done"]
          /\ result' = [result EXCEPT ![r] = Error("bad_request")]
  /\ UNCHANGED <<gh, outside, branch, wrote>>

\* guardHead is skipped where no head was pinned.
Guarded(a, next) == IF a.expected = None THEN next ELSE "guard"

\* PostComment's switch: only a new thread without a review has to look.
Route(a) == IF a.reply \/ a.review # None THEN "write" ELSE "lookup"

PostComment(r, a) ==
  /\ a.method = "post_comment"
  /\ Begin(r, a, a.text /\ (a.reply \/ ValidateAnchor(a.anchor)), Guarded(a, Route(a)))

PostIssueComment(r, a) ==
  a.method = "post_issue_comment" /\ Begin(r, a, a.text, "lookup")

DeleteComment(r, a) ==
  a.method = "delete_comment" /\ Begin(r, a, a.text, "write")

StartReview(r, a) ==
  a.method = "start_review" /\ Begin(r, a, TRUE, "lookup")

SubmitReview(r, a) ==
  /\ a.method = "submit_review"
  /\ Begin(r, a, RequireReviewID(a) /\ ValidReviewEvent(a.arg), Guarded(a, "write"))

DiscardReview(r, a) ==
  a.method = "discard_review" /\ Begin(r, a, RequireReviewID(a), "write")

ResolveThread(r, a) ==
  a.method = "resolve_thread" /\ Begin(r, a, a.text, "write")

SetFileViewed(r, a) ==
  a.method = "set_file_viewed" /\ Begin(r, a, a.text, "lookup")

MergePR(r, a) ==
  a.method = "merge_pr" /\ Begin(r, a, MergeMethod(a.arg), "lookup")

SetPRState(r, a) ==
  a.method = "set_pr_state" /\ Begin(r, a, ValidPRState(a.arg), "lookup")

\* The registry: a request is run by the handler of its method.
Handle(r) ==
  /\ at[r] = "none"
  /\ \E a \in Ask :
       \/ PostComment(r, a) \/ PostIssueComment(r, a) \/ DeleteComment(r, a)
       \/ StartReview(r, a) \/ SubmitReview(r, a) \/ DiscardReview(r, a)
       \/ ResolveThread(r, a) \/ SetFileViewed(r, a) \/ MergePR(r, a) \/ SetPRState(r, a)
  /\ Seen

-----------------------------------------------------------------------------
(* The calls before the mutation.                                          *)

Goto(r, next) ==
  /\ at' = [at EXCEPT ![r] = next]
  /\ UNCHANGED <<gh, outside, asked, join, branch, result, wrote>>

Done(r, answer) ==
  /\ at' = [at EXCEPT ![r] = "done"]
  /\ result' = [result EXCEPT ![r] = answer]

Reply(r, answer) ==
  /\ Done(r, answer)
  /\ UNCHANGED <<gh, outside, asked, join, branch, wrote>>

\* A call that GitHub did not carry out: auth stands for every status and
\* error type that says nothing about the pull request.
Fail(r) == \E code \in {"auth", "network"} : Reply(r, Error(code))

AfterGuard(a) == IF a.method = "post_comment" THEN Route(a) ELSE "write"

GuardPasses(r) == at[r] = "guard" /\ Goto(r, AfterGuard(asked[r])) /\ Seen

\* guardHead: the head is read, and compared with the one the client pinned.
GuardHead(r) ==
  /\ at[r] = "guard"
  /\ \/ gh.head = asked[r].expected /\ Goto(r, AfterGuard(asked[r]))
     \/ gh.head # asked[r].expected /\ Reply(r, Error("conflict"))
     \/ Fail(r)
  /\ Seen

\* mergeBlocked; a status of UNKNOWN goes on.
MergeBlocked(g) ==
  g.mergeable = "CONFLICTING" \/ g.status = "BLOCKED" \/ g.isDraft

\* MergePR's pre-flight.
MergeLookup(r) ==
  /\ asked[r].method = "merge_pr"
  /\ \/ gh.state = "MERGED" /\ Reply(r, Answer("ok", [Nothing EXCEPT !.flag = TRUE]))
     \/ gh.state # "MERGED" /\ MergeBlocked(gh) /\ Reply(r, Error("conflict"))
     \/ /\ gh.state # "MERGED" /\ ~MergeBlocked(gh)
        /\ branch' = [branch EXCEPT ![r] = gh.headRef]
        /\ at' = [at EXCEPT ![r] = "write"]
        /\ UNCHANGED <<gh, outside, asked, join, result, wrote>>

NoPendingReview == {}

\* prAndPendingReview: the viewer's pending review, as a set of one or none.
PendingReview == {gh.review} \ {None}

\* StartReview up to the mutation: a pending review is the answer.
StartLookup(r) ==
  /\ asked[r].method = "start_review"
  /\ \/ \E id \in PendingReview : Reply(r, Answer("ok", [Nothing EXCEPT !.review = id]))
     \/ PendingReview = {} /\ Goto(r, "write")

\* postNewThread up to the mutation: a pending review is joined.
CommentLookup(r) ==
  /\ asked[r].method = "post_comment"
  /\ \/ \E id \in PendingReview :
          /\ join' = [join EXCEPT ![r] = id]
          /\ at' = [at EXCEPT ![r] = "write"]
          /\ UNCHANGED <<gh, outside, asked, branch, result, wrote>>
     \/ PendingReview = {} /\ Goto(r, "write")

\* prNodeID: its only answer is the node id.
PrNodeID(r) ==
  /\ asked[r].method \in {"post_issue_comment", "set_file_viewed", "set_pr_state"}
  /\ Goto(r, "write")

Lookup(r) ==
  /\ at[r] = "lookup"
  /\ MergeLookup(r) \/ StartLookup(r) \/ CommentLookup(r) \/ PrNodeID(r) \/ Fail(r)
  /\ Seen

-----------------------------------------------------------------------------
(* The mutations: what each may make of the pull request, and what the     *)
(* request is told then.  An empty set is a mutation GitHub refuses.       *)

\* A mutation's effect and, of its decoded answer, what the request is told.
Now(g, tells) == {[pr |-> g, tells |-> tells]}
Flag(on) == [Nothing EXCEPT !.flag = on]
If(cond, S) == IF cond THEN S ELSE {}

AddReview(g) ==
  If(g.review = None /\ g.reviews < MaxReviews,
     Now([g EXCEPT !.review = g.reviews + 1, !.reviews = g.reviews + 1],
         [Nothing EXCEPT !.review = g.reviews + 1]))

\* A comment that names a review joins it, and otherwise is published.  One
\* that found the review itself tells the client so.
AddComment(r, g) ==
  If(join[r] \in {None, g.review},
     Now(g, [Nothing EXCEPT !.review = IF asked[r].review = None THEN join[r] ELSE None]))

FinishReview(r, g) == If(g.review = asked[r].review, Now([g EXCEPT !.review = None], Nothing))

DropComment(g) == If(g.comment, Now([g EXCEPT !.comment = FALSE], Nothing))

MarkResolved(on, g) == Now([g EXCEPT !.resolved = on], Flag(on))
MarkViewed(on, g) == Now([g EXCEPT !.viewed = on], Flag(on))

NormalisePRState(g) ==
  IF g.state = "CLOSED" THEN "closed"
  ELSE IF g.state = "MERGED" THEN "merged"
  ELSE IF g.isDraft THEN "draft" ELSE "open"

\* prStateMutation: each state has its mutation, and the answer is read back.
ChangeState(s, g) ==
  LET changed ==
        CASE s = "ready"  -> If(g.state = "OPEN", {[g EXCEPT !.isDraft = FALSE]})
          [] s = "draft"  -> If(g.state = "OPEN", {[g EXCEPT !.isDraft = TRUE]})
          [] s = "closed" -> If(g.state = "OPEN", {[g EXCEPT !.state = "CLOSED"]})
          [] s = "open"   -> If(g.state = "CLOSED", {[g EXCEPT !.state = "OPEN"]})
  IN  {[pr |-> n, tells |-> [Nothing EXCEPT !.state = NormalisePRState(n)]] : n \in changed}

\* GitHub decides on the live pull request, and may queue a merge that it
\* does not make yet.
Merge(g) ==
  If(g.state = "OPEN" /\ ~g.isDraft /\ g.mergeable # "CONFLICTING",
     Now([g EXCEPT !.state = "MERGED"], Flag(TRUE)) \cup Now(g, Flag(FALSE)))

Mutation(r, g) ==
  LET a == asked[r]
  IN  CASE a.method = "post_comment"       -> AddComment(r, g)
        [] a.method = "post_issue_comment" -> Now(g, Nothing)
        [] a.method = "delete_comment"     -> DropComment(g)
        [] a.method = "start_review"       -> AddReview(g)
        [] a.method = "submit_review"      -> FinishReview(r, g)
        [] a.method = "discard_review"     -> FinishReview(r, g)
        [] a.method = "resolve_thread"     -> MarkResolved(a.on, g)
        [] a.method = "set_file_viewed"    -> MarkViewed(a.on, g)
        [] a.method = "merge_pr"           -> Merge(g)
        [] a.method = "set_pr_state"       -> ChangeState(a.arg, g)

\* What follows an answered mutation: MergePR deletes the branch of a pull
\* request that is merged now, everything else is done.
AfterWrite(r, tells) ==
  IF asked[r].method = "merge_pr" /\ asked[r].delete /\ tells.flag /\ branch[r]
  THEN "deleteRef" ELSE "done"

\* The mutation is carried out and answered.
WriteAnswered(r) ==
  /\ at[r] = "write"
  /\ \E m \in Mutation(r, gh) :
       /\ gh' = m.pr
       /\ wrote' = [wrote EXCEPT ![r] = {asked[r].method}]
       /\ at' = [at EXCEPT ![r] = AfterWrite(r, m.tells)]
       /\ result' = [result EXCEPT ![r] = Answer("ok", m.tells)]
  /\ UNCHANGED <<outside, asked, join, branch>>
  /\ Seen

\* The mutation is carried out, and its answer lost, unreadable or, in
\* StartReview, without an id.
WriteLost(r) ==
  /\ at[r] = "write"
  /\ \E m \in Mutation(r, gh) : gh' = m.pr
  /\ wrote' = [wrote EXCEPT ![r] = {asked[r].method}]
  /\ Done(r, Error("network"))
  /\ UNCHANGED <<outside, asked, join, branch>>
  /\ Seen

\* GitHub refuses it (UNPROCESSABLE), or answers a draft outside the diff
\* with no thread; or the call fails.
WriteRefused(r) ==
  /\ at[r] = "write"
  /\ \/ /\ Mutation(r, gh) = {} \/ (asked[r].method = "post_comment" /\ ~asked[r].reply)
        /\ Reply(r, Error("bad_request"))
     \/ Fail(r)
  /\ Seen

DeleteRefFails(r) ==
  /\ at[r] = "deleteRef"
  /\ \/ /\ gh.headRef
        /\ gh' = [gh EXCEPT !.headRef = FALSE]
        /\ wrote' = [wrote EXCEPT ![r] = @ \cup {"delete_branch"}]
        /\ at' = [at EXCEPT ![r] = "done"]
        /\ UNCHANGED <<outside, asked, join, branch, result>>
     \/ Fail(r)
  /\ Seen

\* Best-effort: whether the branch goes or not, the merge is the answer.
DeleteRef(r) ==
  /\ at[r] = "deleteRef"
  /\ \/ /\ gh.headRef
        /\ gh' = [gh EXCEPT !.headRef = FALSE]
        /\ wrote' = [wrote EXCEPT ![r] = @ \cup {"delete_branch"}]
     \/ UNCHANGED <<gh, wrote>>
  /\ at' = [at EXCEPT ![r] = "done"]
  /\ UNCHANGED <<outside, asked, join, branch, result>>
  /\ Seen

-----------------------------------------------------------------------------
\* Others push, review, merge and resolve; the viewer does on github.com.
Outside ==
  /\ outside < MaxOutside
  /\ outside' = outside + 1
  /\ \/ \E h \in Head \ {gh.head} : gh' = [gh EXCEPT !.head = h]
     \/ \E m \in AddReview(gh) : gh' = m.pr
     \/ gh.review # None /\ gh' = [gh EXCEPT !.review = None]
     \/ gh' = [gh EXCEPT !.mergeable = IF @ = "MERGEABLE" THEN "CONFLICTING" ELSE "MERGEABLE"]
     \/ gh' = [gh EXCEPT !.status = IF @ = "CLEAN" THEN "BLOCKED" ELSE "UNKNOWN"]
     \/ \E m \in Merge(gh) : gh' = m.pr /\ gh' # gh
     \/ \E s \in {"ready", "draft", "closed", "open"} : \E m \in ChangeState(s, gh) : gh' = m.pr /\ gh' # gh
     \/ gh' = [gh EXCEPT !.resolved = ~@]
  /\ UNCHANGED request
  /\ Seen

Step(r) ==
  \/ GuardHead(r) \/ Lookup(r)
  \/ WriteAnswered(r) \/ WriteLost(r) \/ WriteRefused(r) \/ DeleteRef(r)

Next == Outside \/ \E r \in Request : Handle(r) \/ Step(r)

Spec == Init /\ [][Next]_vars

-----------------------------------------------------------------------------
TypeOK ==
  /\ gh \in PullRequest
  /\ outside \in 0..MaxOutside
  /\ asked \in [Request -> Ask \cup {None}]
  /\ at \in [Request -> {"none", "guard", "lookup", "write", "deleteRef", "done"}]
  /\ join \in [Request -> Review \cup {None}]
  /\ branch \in [Request -> BOOLEAN]
  /\ result \in [Request -> [code : Code, tells : Told]]
  /\ wrote \in [Request -> SUBSET (Method \cup {"delete_branch"})]
  /\ during \in [Request -> SUBSET PullRequest]

\* A comment or a verdict that pinned a head is written only where that was
\* the head at some moment of the request (guardHead).
GuardedWrites ==
  \A r \in Request :
    wrote[r] # {} /\ asked[r].method \in {"post_comment", "submit_review"}
      /\ asked[r].expected # None
    => \E g \in during[r] : g.head = asked[r].expected

\* An error that is not a lost answer means that nothing was written, so the
\* user may try again.
RefusedUnwritten ==
  \A r \in Request :
    result[r].code \in {"bad_request", "conflict", "auth"} => wrote[r] = {}

\* While one pending review is there the whole time, a new thread that lands
\* joins it and says so, and start_review answers it rather than asking
\* GitHub for a second.
JoinsTheDraft ==
  \A r \in Request, id \in Review :
    /\ at[r] = "done"
    /\ asked[r].method \in {"post_comment", "start_review"}
    /\ asked[r].review = None /\ ~asked[r].reply
    /\ during[r] # {} /\ \A g \in during[r] : g.review = id
    => /\ result[r].code = "ok" => result[r].tells.review = id
       /\ asked[r].method = "start_review" => wrote[r] = {} /\ result[r].code # "bad_request"

\* The head branch goes only once the pull request is merged, and only for a
\* request that asked for it.
BranchOnlyAfterMerge ==
  \A r \in Request :
    "delete_branch" \in wrote[r] =>
      /\ asked[r].method = "merge_pr" /\ asked[r].delete
      /\ gh.state = "MERGED"

=============================================================================
