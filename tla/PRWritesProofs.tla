--------------------------- MODULE PRWritesProofs ---------------------------
(***************************************************************************)
(* Proofs about PRWrites, for any requests at once, any params, any pull   *)
(* request and any number of changes by others.                            *)
(***************************************************************************)
EXTENDS PRWrites, TLAPS

Active == {"guard", "lookup", "write"}
PinsHead == {"post_comment", "submit_review"}

\* A request under way was asked, with params its handler let through, and
\* has seen the pull request.
Sane(r) ==
  /\ at[r] \in Active \cup {"deleteRef"} => asked[r] \in Ask /\ during[r] # {}
  /\ at[r] \in Active /\ asked[r].method = "set_pr_state" => ValidPRState(asked[r].arg)
  /\ at[r] = "guard" => asked[r].method \in PinsHead

\* Past guardHead, the pinned head was the head at some moment.
PastGuard(r) ==
  /\ asked[r] \in Ask /\ asked[r].method \in PinsHead /\ asked[r].expected # None
  /\ at[r] \in {"lookup", "write"} \/ wrote[r] # {}
  => \E g \in during[r] : g.head = asked[r].expected

\* What was written is answered as written, or the answer is lost.
Written(r) ==
  wrote[r] # {} => /\ at[r] \in {"deleteRef", "done"}
                   /\ result[r].code \in {"ok", "network"}
                   /\ asked[r] \in Ask

\* The branch is next, or gone, only where the pull request is merged.
Deleting(r) ==
  /\ at[r] = "deleteRef" => result[r].code = "ok"
  /\ at[r] = "deleteRef" \/ "delete_branch" \in wrote[r] =>
       asked[r].method = "merge_pr" /\ asked[r].delete /\ gh.state = "MERGED"

ReqInv(r) == Sane(r) /\ PastGuard(r) /\ Written(r) /\ Deleting(r)

WriteInv == TypeOK /\ \A r \in Request : ReqInv(r)

-----------------------------------------------------------------------------
(* The mutations.                                                          *)

LEMMA NothingTold ==
  /\ Nothing \in Told
  /\ \A id \in Review \cup {None} : [Nothing EXCEPT !.review = id] \in Told
  /\ \A on \in BOOLEAN : Flag(on) \in Told /\ Flag(on).flag = on
  /\ \A s \in {"", "open", "draft", "closed", "merged"} : [Nothing EXCEPT !.state = s] \in Told
BY DEF Nothing, Told, Flag

\* What prStateMutation asks for: only a closed pull request is opened.
LEMMA ChangeStateFacts ==
  ASSUME NEW g \in PullRequest, NEW s, ValidPRState(s), NEW m \in ChangeState(s, g)
  PROVE  m.pr \in PullRequest /\ m.tells \in Told /\ (g.state = "MERGED" => m.pr.state = "MERGED")
<1>1. PICK n : /\ m = [pr |-> n, tells |-> [Nothing EXCEPT !.state = NormalisePRState(n)]]
               /\ \/ g.state = "OPEN" /\ n = [g EXCEPT !.isDraft = FALSE]
                  \/ g.state = "OPEN" /\ n = [g EXCEPT !.isDraft = TRUE]
                  \/ g.state = "OPEN" /\ n = [g EXCEPT !.state = "CLOSED"]
                  \/ g.state = "CLOSED" /\ n = [g EXCEPT !.state = "OPEN"]
  BY DEF ChangeState, If, ValidPRState
<1>2. n \in PullRequest /\ g.state # "MERGED"
  BY <1>1 DEF PullRequest
<1>3. NormalisePRState(n) \in {"", "open", "draft", "closed", "merged"}
  BY DEF NormalisePRState
<1> QED
  BY <1>1, <1>2, <1>3, NothingTold

LEMMA AddReviewFacts ==
  ASSUME NEW g \in PullRequest, NEW m \in AddReview(g)
  PROVE  m.pr \in PullRequest /\ m.tells \in Told /\ m.pr.state = g.state
<1>1. /\ m = [pr |-> [g EXCEPT !.review = g.reviews + 1, !.reviews = g.reviews + 1],
              tells |-> [Nothing EXCEPT !.review = g.reviews + 1]]
      /\ g.reviews < MaxReviews
  BY DEF AddReview, If, Now
<1>2. g.reviews \in 0..MaxReviews
  BY DEF PullRequest
<1>3. g.reviews + 1 \in Review /\ g.reviews + 1 \in 0..MaxReviews
  BY <1>1, <1>2, WritesAssumption DEF Review
<1>4. m.pr \in PullRequest /\ m.pr.state = g.state
  BY <1>1, <1>3 DEF PullRequest
<1> QED
  BY <1>1, <1>3, <1>4, NothingTold

LEMMA MergeFacts ==
  ASSUME NEW g \in PullRequest, NEW m \in Merge(g)
  PROVE  m.pr \in PullRequest /\ m.tells \in Told /\ g.state = "OPEN"
         /\ (m.tells.flag => m.pr.state = "MERGED")
<1>1. /\ g.state = "OPEN"
      /\ \/ m = [pr |-> [g EXCEPT !.state = "MERGED"], tells |-> Flag(TRUE)]
         \/ m = [pr |-> g, tells |-> Flag(FALSE)]
  BY DEF Merge, If, Now
<1>2. Flag(TRUE) \in Told /\ Flag(FALSE) \in Told /\ ~Flag(FALSE).flag
  BY NothingTold
<1>3. [g EXCEPT !.state = "MERGED"] \in PullRequest /\ [g EXCEPT !.state = "MERGED"].state = "MERGED"
  BY DEF PullRequest
<1>4. CASE m = [pr |-> [g EXCEPT !.state = "MERGED"], tells |-> Flag(TRUE)]
  BY <1>1, <1>2, <1>3, <1>4
<1>5. CASE m = [pr |-> g, tells |-> Flag(FALSE)]
  BY <1>1, <1>2, <1>5
<1> QED
  BY <1>1, <1>4, <1>5

\* Every mutation: a merged pull request stays merged, and one told to be
\* merged is.
LEMMA MutationFacts ==
  ASSUME NEW r \in Request, NEW g \in PullRequest, asked[r] \in Ask,
         join[r] \in Review \cup {None},
         asked[r].method = "set_pr_state" => ValidPRState(asked[r].arg),
         NEW m \in Mutation(r, g)
  PROVE  /\ m.pr \in PullRequest /\ m.tells \in Told
         /\ g.state = "MERGED" => m.pr.state = "MERGED"
         /\ asked[r].method = "merge_pr" /\ m.tells.flag => m.pr.state = "MERGED"
<1>0. asked[r].method \in Method /\ asked[r].on \in BOOLEAN
  BY WritesAssumption DEF AskType
<1>1. CASE asked[r].method = "post_comment"
  <2>1. m = [pr |-> g, tells |-> [Nothing EXCEPT !.review = IF asked[r].review = None THEN join[r] ELSE None]]
    BY <1>1 DEF Mutation, AddComment, If, Now
  <2> QED
    BY <1>1, <2>1, NothingTold
<1>2. CASE asked[r].method = "post_issue_comment"
  <2>1. m = [pr |-> g, tells |-> Nothing]
    BY <1>2 DEF Mutation, Now
  <2> QED
    BY <1>2, <2>1, NothingTold
<1>3. CASE asked[r].method = "delete_comment"
  <2>1. m = [pr |-> [g EXCEPT !.comment = FALSE], tells |-> Nothing]
    BY <1>3 DEF Mutation, DropComment, If, Now
  <2> QED
    BY <1>3, <2>1, NothingTold DEF PullRequest
<1>4. CASE asked[r].method = "start_review"
  <2>1. m \in AddReview(g)
    BY <1>4 DEF Mutation
  <2> QED
    BY <1>4, <2>1, AddReviewFacts
<1>5. CASE asked[r].method \in {"submit_review", "discard_review"}
  <2>1. m = [pr |-> [g EXCEPT !.review = None], tells |-> Nothing]
    BY <1>5 DEF Mutation, FinishReview, If, Now
  <2> QED
    BY <1>5, <2>1, NothingTold DEF PullRequest
<1>6. CASE asked[r].method = "resolve_thread"
  <2>1. m = [pr |-> [g EXCEPT !.resolved = asked[r].on], tells |-> Flag(asked[r].on)]
    BY <1>6 DEF Mutation, MarkResolved, Now
  <2> QED
    BY <1>0, <1>6, <2>1, NothingTold DEF PullRequest
<1>7. CASE asked[r].method = "set_file_viewed"
  <2>1. m = [pr |-> [g EXCEPT !.viewed = asked[r].on], tells |-> Flag(asked[r].on)]
    BY <1>7 DEF Mutation, MarkViewed, Now
  <2> QED
    BY <1>0, <1>7, <2>1, NothingTold DEF PullRequest
<1>8. CASE asked[r].method = "merge_pr"
  <2>1. m \in Merge(g)
    BY <1>8 DEF Mutation
  <2> QED
    BY <1>8, <2>1, MergeFacts
<1>9. CASE asked[r].method = "set_pr_state"
  <2>1. m \in ChangeState(asked[r].arg, g)
    BY <1>9 DEF Mutation
  <2> QED
    BY <1>9, <2>1, ChangeStateFacts
<1> QED
  BY <1>0, <1>1, <1>2, <1>3, <1>4, <1>5, <1>6, <1>7, <1>8, <1>9 DEF Method

-----------------------------------------------------------------------------
(* What a step does to the requests it is not about.                       *)

At == {"none", "guard", "lookup", "write", "deleteRef", "done"}

\* Requests under way see the pull request before and after every step.
LEMMA SeenFacts ==
  ASSUME TypeOK, gh' \in PullRequest, Seen
  PROVE  /\ during' \in [Request -> SUBSET PullRequest]
         /\ \A q \in Request :
              /\ during[q] \subseteq during'[q]
              /\ at[q] \in {"none", "done"} /\ at'[q] \in {"none", "done"} => during'[q] = during[q]
              /\ ~(at[q] \in {"none", "done"} /\ at'[q] \in {"none", "done"}) =>
                   during'[q] = during[q] \cup {gh, gh'}
BY DEF TypeOK, Seen

LEMMA Stays ==
  ASSUME NEW q, ReqInv(q), at'[q] = at[q], asked'[q] = asked[q], result'[q] = result[q],
         wrote'[q] = wrote[q], during[q] \subseteq during'[q],
         gh.state = "MERGED" => gh'.state = "MERGED"
  PROVE  ReqInv(q)'
<1>1. Sane(q)'
  BY DEF ReqInv, Sane
<1>2. PastGuard(q)'
  BY DEF ReqInv, PastGuard
<1>3. Written(q)'
  BY DEF ReqInv, Written
<1>4. Deleting(q)'
  BY DEF ReqInv, Deleting
<1> QED
  BY <1>1, <1>2, <1>3, <1>4 DEF ReqInv

-----------------------------------------------------------------------------
(* The steps.                                                              *)

LEMMA InitInv == Init => WriteInv
<1> SUFFICES ASSUME Init PROVE WriteInv
  OBVIOUS
<1>1. Error("none") \in [code : Code, tells : Told]
  BY NothingTold DEF Error, Answer, Code
<1>2. TypeOK
  BY <1>1, WritesAssumption DEF Init, TypeOK
<1>3. ASSUME NEW r \in Request PROVE ReqInv(r)
  BY DEF Init, ReqInv, Sane, PastGuard, Written, Deleting, Active
<1> QED
  BY <1>2, <1>3 DEF WriteInv

\* A request that has not written is answered.
LEMMA ReplyKeeps ==
  ASSUME WriteInv, NEW r \in Request, NEW answer \in [code : Code, tells : Told],
         at[r] \in Active, Reply(r, answer), Seen
  PROVE  WriteInv'
<1>1. UNCHANGED <<gh, outside, asked, join, branch, wrote>>
      /\ at' = [at EXCEPT ![r] = "done"] /\ result' = [result EXCEPT ![r] = answer]
  BY DEF Reply, Done
<1>2. gh' \in PullRequest
  BY <1>1 DEF WriteInv, TypeOK
<1>3. TypeOK'
  BY <1>1, <1>2, SeenFacts DEF WriteInv, TypeOK
<1>4. ASSUME NEW q \in Request, q # r PROVE ReqInv(q)'
  BY <1>1, <1>2, <1>4, SeenFacts, Stays DEF WriteInv, TypeOK
<1>5. wrote'[r] = {} /\ at'[r] = "done"
  BY <1>1 DEF WriteInv, TypeOK, ReqInv, Written, Active
<1>6. ReqInv(r)'
  BY <1>5 DEF ReqInv, Sane, PastGuard, Written, Deleting, Active
<1> QED
  BY <1>3, <1>4, <1>6 DEF WriteInv

\* A request goes on to its next call; out of the guard only where the head
\* is the one it pinned.
LEMMA MoveKeeps ==
  ASSUME WriteInv, NEW r \in Request, NEW next \in {"lookup", "write"},
         at[r] \in {"guard", "lookup"}, at[r] = "guard" => gh.head = asked[r].expected,
         at' = [at EXCEPT ![r] = next], UNCHANGED <<gh, outside, asked, result, wrote>>,
         join' \in [Request -> Review \cup {None}], branch' \in [Request -> BOOLEAN], Seen
  PROVE  WriteInv'
<1>1. gh' \in PullRequest
  BY DEF WriteInv, TypeOK
<1>2. TypeOK'
  BY <1>1, SeenFacts DEF WriteInv, TypeOK
<1>3. ASSUME NEW q \in Request, q # r PROVE ReqInv(q)'
  BY <1>1, <1>3, SeenFacts, Stays DEF WriteInv, TypeOK
<1>4. at'[r] = next /\ during[r] \subseteq during'[r] /\ gh \in during'[r]
  BY <1>1, SeenFacts DEF WriteInv, TypeOK
<1>5. wrote[r] = {} /\ asked[r] \in Ask
  BY DEF WriteInv, ReqInv, Written, Sane, Active
<1>6. Sane(r)'
  BY <1>4, <1>5 DEF WriteInv, ReqInv, Sane, Active
<1>7. PastGuard(r)'
  BY <1>4 DEF WriteInv, ReqInv, PastGuard
<1>8. Written(r)' /\ Deleting(r)'
  BY <1>4, <1>5 DEF Written, Deleting
<1> QED
  BY <1>2, <1>3, <1>6, <1>7, <1>8 DEF WriteInv, ReqInv

LEMMA GotoKeeps ==
  ASSUME WriteInv, NEW r \in Request, NEW next \in {"lookup", "write"},
         at[r] \in {"guard", "lookup"}, at[r] = "guard" => gh.head = asked[r].expected,
         Goto(r, next), Seen
  PROVE  WriteInv'
<1>1. at' = [at EXCEPT ![r] = next] /\ UNCHANGED <<gh, outside, asked, join, branch, result, wrote>>
  BY DEF Goto
<1>2. join' \in [Request -> Review \cup {None}] /\ branch' \in [Request -> BOOLEAN]
  BY <1>1 DEF WriteInv, TypeOK
<1> QED
  BY <1>1, <1>2, MoveKeeps

LEMMA FailKeeps ==
  ASSUME WriteInv, NEW r \in Request, at[r] \in Active, Fail(r), Seen
  PROVE  WriteInv'
<1>1. PICK code \in {"auth", "network"} : Reply(r, Error(code))
  BY DEF Fail
<1>2. Error(code) \in [code : Code, tells : Told]
  BY NothingTold DEF Error, Answer, Code
<1> QED
  BY <1>1, <1>2, ReplyKeeps

\* A handler: a request that pinned a head begins with the guard.
LEMMA BeginKeeps ==
  ASSUME WriteInv, NEW r \in Request, NEW a \in Ask, NEW valid, NEW first \in Active,
         at[r] = "none", Begin(r, a, valid, first), Seen,
         a.method \in PinsHead /\ a.expected # None => first = "guard",
         first = "guard" => a.method \in PinsHead,
         valid /\ a.method = "set_pr_state" => ValidPRState(a.arg)
  PROVE  WriteInv'
<1>1. UNCHANGED <<gh, outside, branch, wrote>> /\ asked' = [asked EXCEPT ![r] = a]
      /\ join' = [join EXCEPT ![r] = a.review]
  BY DEF Begin
<1>2. gh' \in PullRequest /\ a \in AskType
  BY <1>1, WritesAssumption DEF WriteInv, TypeOK
<1>3. a.review \in Review \cup {None}
  BY <1>2 DEF AskType
<1>4. Error("bad_request") \in [code : Code, tells : Told]
  BY NothingTold DEF Error, Answer, Code
<1>5. PICK x \in {first, "done"} : at' = [at EXCEPT ![r] = x] /\ (x # "done" => valid)
  BY DEF Begin
<1>6. result' \in [Request -> [code : Code, tells : Told]]
      /\ \A q \in Request : q # r => result'[q] = result[q]
  BY <1>4 DEF Begin, WriteInv, TypeOK
<1>7. x \in At /\ at'[r] = x /\ asked'[r] = a
  BY <1>1, <1>5 DEF WriteInv, TypeOK, At, Active
<1>8. TypeOK'
  <2>1. at' \in [Request -> At]
    BY <1>5, <1>7 DEF WriteInv, TypeOK, At
  <2>2. asked' \in [Request -> Ask \cup {None}] /\ join' \in [Request -> Review \cup {None}]
    BY <1>1, <1>3 DEF WriteInv, TypeOK
  <2>3. during' \in [Request -> SUBSET PullRequest]
    BY <1>2, SeenFacts DEF WriteInv
  <2> QED
    BY <1>1, <1>6, <2>1, <2>2, <2>3 DEF WriteInv, TypeOK, At
<1>9. ASSUME NEW q \in Request, q # r PROVE ReqInv(q)'
  <2>1. at'[q] = at[q] /\ asked'[q] = asked[q] /\ wrote'[q] = wrote[q] /\ during[q] \subseteq during'[q]
    BY <1>1, <1>2, <1>5, <1>9, SeenFacts DEF WriteInv, TypeOK
  <2> QED
    BY <1>1, <1>6, <1>9, <2>1, Stays DEF WriteInv
<1>10. wrote'[r] = {}
  BY <1>1 DEF WriteInv, ReqInv, Written
<1>11. x \in Active => during'[r] # {}
  BY <1>2, <1>7, SeenFacts DEF WriteInv, Active
<1>12. Sane(r)'
  BY <1>5, <1>7, <1>11 DEF Sane, Active
<1>13. PastGuard(r)'
  BY <1>7, <1>10 DEF PastGuard
<1>14. Written(r)' /\ Deleting(r)'
  BY <1>7, <1>10 DEF Written, Deleting, Active
<1> QED
  BY <1>8, <1>9, <1>12, <1>13, <1>14 DEF WriteInv, ReqInv

LEMMA HandleKeeps ==
  ASSUME WriteInv, NEW r \in Request, Handle(r)
  PROVE  WriteInv'
<1>1. at[r] = "none" /\ Seen
  BY DEF Handle
<1>2. PICK a \in Ask :
        \/ PostComment(r, a) \/ PostIssueComment(r, a) \/ DeleteComment(r, a)
        \/ StartReview(r, a) \/ SubmitReview(r, a) \/ DiscardReview(r, a)
        \/ ResolveThread(r, a) \/ SetFileViewed(r, a) \/ MergePR(r, a) \/ SetPRState(r, a)
  BY DEF Handle
<1>3. \A next \in {"lookup", "write"} :
        Guarded(a, next) \in Active /\ (a.expected # None => Guarded(a, next) = "guard")
  BY DEF Guarded, Active
<1>4. Route(a) \in {"lookup", "write"} /\ {"lookup", "write"} \subseteq Active
  BY DEF Route, Active
<1>5. CASE PostComment(r, a)
  <2>1. Begin(r, a, a.text /\ (a.reply \/ ValidateAnchor(a.anchor)), Guarded(a, Route(a)))
        /\ a.method = "post_comment"
    BY <1>5 DEF PostComment
  <2> QED
    BY <1>1, <1>3, <1>4, <2>1, BeginKeeps DEF PinsHead
<1>6. CASE SubmitReview(r, a)
  <2>1. Begin(r, a, RequireReviewID(a) /\ ValidReviewEvent(a.arg), Guarded(a, "write"))
        /\ a.method = "submit_review"
    BY <1>6 DEF SubmitReview
  <2> QED
    BY <1>1, <1>3, <2>1, BeginKeeps DEF PinsHead
<1>7. CASE SetPRState(r, a)
  <2>1. Begin(r, a, ValidPRState(a.arg), "lookup") /\ a.method = "set_pr_state"
    BY <1>7 DEF SetPRState
  <2> QED
    BY <1>1, <1>4, <2>1, BeginKeeps DEF PinsHead
<1>8. CASE PostIssueComment(r, a)
  <2>1. Begin(r, a, a.text, "lookup") /\ a.method = "post_issue_comment"
    BY <1>8 DEF PostIssueComment
  <2> QED
    BY <1>1, <1>4, <2>1, BeginKeeps DEF PinsHead
<1>9. CASE DeleteComment(r, a)
  <2>1. Begin(r, a, a.text, "write") /\ a.method = "delete_comment"
    BY <1>9 DEF DeleteComment
  <2> QED
    BY <1>1, <1>4, <2>1, BeginKeeps DEF PinsHead
<1>10. CASE StartReview(r, a)
  <2>1. Begin(r, a, TRUE, "lookup") /\ a.method = "start_review"
    BY <1>10 DEF StartReview
  <2> QED
    BY <1>1, <1>4, <2>1, BeginKeeps DEF PinsHead
<1>11. CASE DiscardReview(r, a)
  <2>1. Begin(r, a, RequireReviewID(a), "write") /\ a.method = "discard_review"
    BY <1>11 DEF DiscardReview
  <2> QED
    BY <1>1, <1>4, <2>1, BeginKeeps DEF PinsHead
<1>12. CASE ResolveThread(r, a)
  <2>1. Begin(r, a, a.text, "write") /\ a.method = "resolve_thread"
    BY <1>12 DEF ResolveThread
  <2> QED
    BY <1>1, <1>4, <2>1, BeginKeeps DEF PinsHead
<1>13. CASE SetFileViewed(r, a)
  <2>1. Begin(r, a, a.text, "lookup") /\ a.method = "set_file_viewed"
    BY <1>13 DEF SetFileViewed
  <2> QED
    BY <1>1, <1>4, <2>1, BeginKeeps DEF PinsHead
<1>14. CASE MergePR(r, a)
  <2>1. Begin(r, a, MergeMethod(a.arg), "lookup") /\ a.method = "merge_pr"
    BY <1>14 DEF MergePR
  <2> QED
    BY <1>1, <1>4, <2>1, BeginKeeps DEF PinsHead
<1> QED
  BY <1>2, <1>5, <1>6, <1>7, <1>8, <1>9, <1>10, <1>11, <1>12, <1>13, <1>14

LEMMA GuardKeeps ==
  ASSUME WriteInv, NEW r \in Request, GuardHead(r)
  PROVE  WriteInv'
<1>1. at[r] = "guard" /\ at[r] \in Active /\ Seen
  BY DEF GuardHead, Active
<1>2. CASE gh.head = asked[r].expected /\ Goto(r, AfterGuard(asked[r]))
  <2>1. AfterGuard(asked[r]) \in {"lookup", "write"}
    BY DEF AfterGuard, Route
  <2> QED
    BY <1>1, <1>2, <2>1, GotoKeeps
<1>3. CASE Reply(r, Error("conflict"))
  <2>1. Error("conflict") \in [code : Code, tells : Told]
    BY NothingTold DEF Error, Answer, Code
  <2> QED
    BY <1>1, <1>3, <2>1, ReplyKeeps
<1>4. CASE Fail(r)
  BY <1>1, <1>4, FailKeeps
<1> QED
  BY <1>2, <1>3, <1>4 DEF GuardHead

LEMMA LookupKeeps ==
  ASSUME WriteInv, NEW r \in Request, Lookup(r)
  PROVE  WriteInv'
<1>1. at[r] = "lookup" /\ at[r] \in Active /\ Seen
  BY DEF Lookup, Active
<1>2. \A code \in Code, t \in Told : Answer(code, t) \in [code : Code, tells : Told]
  BY DEF Answer
<1>3. gh \in PullRequest /\ gh.review \in Review \cup {None} /\ gh.headRef \in BOOLEAN
  BY DEF WriteInv, TypeOK, PullRequest
<1>4. CASE Fail(r)
  BY <1>1, <1>4, FailKeeps
<1>5. CASE Goto(r, "write")
  BY <1>1, <1>5, GotoKeeps
<1>6. CASE MergeLookup(r)
  <2>1. CASE Reply(r, Answer("ok", [Nothing EXCEPT !.flag = TRUE]))
    <3>1. [Nothing EXCEPT !.flag = TRUE] \in Told
      BY NothingTold DEF Flag
    <3> QED
      BY <1>1, <1>2, <2>1, <3>1, ReplyKeeps DEF Code
  <2>2. CASE Reply(r, Error("conflict"))
    BY <1>1, <1>2, <2>2, NothingTold, ReplyKeeps DEF Code, Error
  <2>3. CASE /\ branch' = [branch EXCEPT ![r] = gh.headRef]
             /\ at' = [at EXCEPT ![r] = "write"]
             /\ UNCHANGED <<gh, outside, asked, join, result, wrote>>
    <3>1. join' \in [Request -> Review \cup {None}] /\ branch' \in [Request -> BOOLEAN]
      BY <1>3, <2>3 DEF WriteInv, TypeOK
    <3> QED
      BY <1>1, <2>3, <3>1, MoveKeeps
  <2> QED
    BY <1>6, <2>1, <2>2, <2>3 DEF MergeLookup
<1>7. CASE StartLookup(r)
  <2>1. ASSUME NEW id \in PendingReview, Reply(r, Answer("ok", [Nothing EXCEPT !.review = id]))
        PROVE  WriteInv'
    <3>1. [Nothing EXCEPT !.review = id] \in Told
      BY <1>3, NothingTold DEF PendingReview
    <3> QED
      BY <1>1, <1>2, <2>1, <3>1, ReplyKeeps DEF Code
  <2> QED
    BY <1>5, <1>7, <2>1 DEF StartLookup
<1>8. CASE CommentLookup(r)
  <2>1. ASSUME NEW id \in PendingReview, join' = [join EXCEPT ![r] = id],
               at' = [at EXCEPT ![r] = "write"],
               UNCHANGED <<gh, outside, asked, branch, result, wrote>>
        PROVE  WriteInv'
    <3>1. join' \in [Request -> Review \cup {None}] /\ branch' \in [Request -> BOOLEAN]
      BY <1>3, <2>1 DEF WriteInv, TypeOK, PendingReview
    <3> QED
      BY <1>1, <2>1, <3>1, MoveKeeps
  <2> QED
    BY <1>5, <1>8, <2>1 DEF CommentLookup
<1> QED
  BY <1>4, <1>5, <1>6, <1>7, <1>8 DEF Lookup, PrNodeID

\* A mutation that is carried out, answered or not.
LEMMA WroteKeeps ==
  ASSUME WriteInv, NEW r \in Request, at[r] = "write", NEW m \in Mutation(r, gh), gh' = m.pr,
         wrote' = [wrote EXCEPT ![r] = {asked[r].method}], UNCHANGED <<outside, asked, join, branch>>,
         NEW x \in {"deleteRef", "done"}, at' = [at EXCEPT ![r] = x],
         x = "deleteRef" => asked[r].method = "merge_pr" /\ asked[r].delete /\ m.tells.flag,
         NEW answer \in [code : Code, tells : Told], result' = [result EXCEPT ![r] = answer],
         answer.code = "ok" \/ (answer.code = "network" /\ x = "done"), Seen
  PROVE  WriteInv'
<1>1. asked[r] \in Ask /\ asked[r].method \in Method
      /\ (asked[r].method = "set_pr_state" => ValidPRState(asked[r].arg))
  BY WritesAssumption DEF WriteInv, ReqInv, Sane, Active, AskType
<1>2. gh \in PullRequest /\ join[r] \in Review \cup {None}
  BY DEF WriteInv, TypeOK
<1>3. /\ gh' \in PullRequest
      /\ gh.state = "MERGED" => gh'.state = "MERGED"
      /\ asked[r].method = "merge_pr" /\ m.tells.flag => gh'.state = "MERGED"
  BY <1>1, <1>2, MutationFacts
<1>4. at'[r] = x /\ asked'[r] = asked[r] /\ result'[r] = answer /\ wrote'[r] = {asked[r].method}
  BY DEF WriteInv, TypeOK
<1>5. during[r] \subseteq during'[r] /\ during' \in [Request -> SUBSET PullRequest]
  BY <1>3, SeenFacts DEF WriteInv
<1>6. TypeOK'
  <2>1. at' \in [Request -> At]
    BY DEF WriteInv, TypeOK, At
  <2>2. result' \in [Request -> [code : Code, tells : Told]]
    BY DEF WriteInv, TypeOK
  <2>3. wrote' \in [Request -> SUBSET (Method \cup {"delete_branch"})]
    BY <1>1 DEF WriteInv, TypeOK
  <2> QED
    BY <1>3, <1>5, <2>1, <2>2, <2>3 DEF WriteInv, TypeOK, At
<1>7. ASSUME NEW q \in Request, q # r PROVE ReqInv(q)'
  <2>1. at'[q] = at[q] /\ asked'[q] = asked[q] /\ result'[q] = result[q] /\ wrote'[q] = wrote[q]
    BY <1>7 DEF WriteInv, TypeOK
  <2>2. during[q] \subseteq during'[q]
    BY <1>3, SeenFacts DEF WriteInv
  <2> QED
    BY <1>3, <2>1, <2>2, Stays DEF WriteInv
<1>8. Sane(r)'
  BY <1>1, <1>4, <1>5 DEF WriteInv, ReqInv, Sane, Active
<1>9. PastGuard(r)'
  BY <1>4, <1>5 DEF WriteInv, ReqInv, PastGuard
<1>10. Written(r)'
  BY <1>1, <1>4 DEF Written
<1>11. Deleting(r)'
  <2>1. "delete_branch" \notin wrote'[r]
    BY <1>1, <1>4 DEF Method
  <2> QED
    BY <1>3, <1>4, <2>1 DEF Deleting
<1> QED
  BY <1>6, <1>7, <1>8, <1>9, <1>10, <1>11 DEF WriteInv, ReqInv

LEMMA WriteKeeps ==
  ASSUME WriteInv, NEW r \in Request, WriteAnswered(r) \/ WriteLost(r) \/ WriteRefused(r)
  PROVE  WriteInv'
<1>1. at[r] = "write" /\ at[r] \in Active /\ Seen
  BY DEF WriteAnswered, WriteLost, WriteRefused, Active
<1>2. asked[r] \in Ask /\ (asked[r].method = "set_pr_state" => ValidPRState(asked[r].arg))
      /\ gh \in PullRequest /\ join[r] \in Review \cup {None}
  BY <1>1 DEF WriteInv, ReqInv, Sane, TypeOK
<1>3. \A code \in Code, t \in Told :
        Answer(code, t) \in [code : Code, tells : Told] /\ Answer(code, t).code = code
  BY DEF Answer
<1>4. CASE WriteAnswered(r)
  <2>1. PICK m \in Mutation(r, gh) :
          /\ gh' = m.pr
          /\ wrote' = [wrote EXCEPT ![r] = {asked[r].method}]
          /\ at' = [at EXCEPT ![r] = AfterWrite(r, m.tells)]
          /\ result' = [result EXCEPT ![r] = Answer("ok", m.tells)]
    BY <1>4 DEF WriteAnswered
  <2>2. m.tells \in Told
    BY <1>2, MutationFacts
  <2>3. Answer("ok", m.tells) \in [code : Code, tells : Told] /\ Answer("ok", m.tells).code = "ok"
    BY <1>3, <2>2 DEF Code
  <2>4. AfterWrite(r, m.tells) \in {"deleteRef", "done"}
        /\ (AfterWrite(r, m.tells) = "deleteRef" =>
              asked[r].method = "merge_pr" /\ asked[r].delete /\ m.tells.flag)
    BY DEF AfterWrite
  <2>5. UNCHANGED <<outside, asked, join, branch>>
    BY <1>4 DEF WriteAnswered
  <2> QED
    BY <1>1, <2>1, <2>3, <2>4, <2>5, WroteKeeps
<1>5. CASE WriteLost(r)
  <2>1. PICK m \in Mutation(r, gh) : gh' = m.pr
    BY <1>5 DEF WriteLost
  <2>2. /\ wrote' = [wrote EXCEPT ![r] = {asked[r].method}]
        /\ at' = [at EXCEPT ![r] = "done"]
        /\ result' = [result EXCEPT ![r] = Error("network")]
        /\ UNCHANGED <<outside, asked, join, branch>>
    BY <1>5 DEF WriteLost, Done
  <2>3. Error("network") \in [code : Code, tells : Told] /\ Error("network").code = "network"
    BY <1>3, NothingTold DEF Code, Error
  <2> QED
    BY <1>1, <2>1, <2>2, <2>3, WroteKeeps
<1>6. CASE Reply(r, Error("bad_request"))
  BY <1>1, <1>3, <1>6, NothingTold, ReplyKeeps DEF Code, Error
<1>7. CASE Fail(r)
  BY <1>1, <1>7, FailKeeps
<1> QED
  BY <1>4, <1>5, <1>6, <1>7 DEF WriteRefused

LEMMA DeleteRefKeeps ==
  ASSUME WriteInv, NEW r \in Request, DeleteRef(r)
  PROVE  WriteInv'
<1>1. at[r] = "deleteRef" /\ at' = [at EXCEPT ![r] = "done"] /\ Seen
      /\ UNCHANGED <<outside, asked, join, branch, result>>
  BY DEF DeleteRef
<1>2. gh' \in PullRequest /\ gh'.state = gh.state
  BY DEF DeleteRef, WriteInv, TypeOK, PullRequest
<1>3. wrote' \in [Request -> SUBSET (Method \cup {"delete_branch"})]
      /\ \A q \in Request : q # r => wrote'[q] = wrote[q]
  BY DEF DeleteRef, WriteInv, TypeOK
<1>4. during[r] \subseteq during'[r] /\ during' \in [Request -> SUBSET PullRequest]
  BY <1>1, <1>2, SeenFacts DEF WriteInv
<1>5. TypeOK'
  <2>1. at' \in [Request -> At]
    BY <1>1 DEF WriteInv, TypeOK, At
  <2> QED
    BY <1>1, <1>2, <1>3, <1>4, <2>1 DEF WriteInv, TypeOK, At
<1>6. ASSUME NEW q \in Request, q # r PROVE ReqInv(q)'
  <2>1. at'[q] = at[q] /\ asked'[q] = asked[q] /\ result'[q] = result[q] /\ wrote'[q] = wrote[q]
    BY <1>1, <1>3, <1>6 DEF WriteInv, TypeOK
  <2>2. during[q] \subseteq during'[q]
    BY <1>1, <1>2, SeenFacts DEF WriteInv
  <2> QED
    BY <1>2, <2>1, <2>2, Stays DEF WriteInv
<1>7. at'[r] = "done" /\ asked'[r] = asked[r] /\ result'[r] = result[r]
  BY <1>1 DEF WriteInv, TypeOK
<1>8. asked[r] \in Ask /\ asked[r].method = "merge_pr" /\ asked[r].delete /\ gh.state = "MERGED"
      /\ result[r].code = "ok"
  BY <1>1 DEF WriteInv, ReqInv, Sane, Deleting
<1> QED
  BY <1>2, <1>5, <1>6, <1>7, <1>8
     DEF WriteInv, ReqInv, Sane, PastGuard, Written, Deleting, Active, PinsHead

\* Others never make a merged pull request anything else.
LEMMA OutsideFacts ==
  ASSUME WriteInv, Outside
  PROVE  gh' \in PullRequest /\ (gh.state = "MERGED" => gh'.state = "MERGED")
<1>1. gh \in PullRequest
  BY DEF WriteInv, TypeOK
<1>2. ASSUME NEW h \in Head, gh' = [gh EXCEPT !.head = h]
      PROVE  gh' \in PullRequest /\ gh'.state = gh.state
  BY <1>1, <1>2 DEF PullRequest
<1>3. ASSUME NEW m \in AddReview(gh), gh' = m.pr PROVE gh' \in PullRequest /\ gh'.state = gh.state
  BY <1>1, <1>3, AddReviewFacts
<1>4. CASE gh' = [gh EXCEPT !.review = None]
  BY <1>1, <1>4 DEF PullRequest
<1>5. CASE gh' = [gh EXCEPT !.mergeable = IF @ = "MERGEABLE" THEN "CONFLICTING" ELSE "MERGEABLE"]
  BY <1>1, <1>5 DEF PullRequest
<1>6. CASE gh' = [gh EXCEPT !.status = IF @ = "CLEAN" THEN "BLOCKED" ELSE "UNKNOWN"]
  BY <1>1, <1>6 DEF PullRequest
<1>7. ASSUME NEW m \in Merge(gh), gh' = m.pr PROVE gh' \in PullRequest /\ gh.state # "MERGED"
  BY <1>1, <1>7, MergeFacts
<1>8. ASSUME NEW t \in {"ready", "draft", "closed", "open"}, NEW m \in ChangeState(t, gh), gh' = m.pr
      PROVE  gh' \in PullRequest /\ (gh.state = "MERGED" => gh'.state = "MERGED")
  BY <1>1, <1>8, ChangeStateFacts DEF ValidPRState
<1>9. CASE gh' = [gh EXCEPT !.resolved = ~@]
  BY <1>1, <1>9 DEF PullRequest
<1> QED
  BY <1>2, <1>3, <1>4, <1>5, <1>6, <1>7, <1>8, <1>9 DEF Outside

LEMMA OutsideKeeps ==
  ASSUME WriteInv, Outside
  PROVE  WriteInv'
<1>1. UNCHANGED <<asked, at, join, branch, result, wrote>> /\ Seen /\ outside' \in 0..MaxOutside
  BY WritesAssumption DEF Outside, request, WriteInv, TypeOK
<1>2. gh' \in PullRequest /\ (gh.state = "MERGED" => gh'.state = "MERGED")
  BY OutsideFacts
<1>3. during' \in [Request -> SUBSET PullRequest] /\ \A q \in Request : during[q] \subseteq during'[q]
  BY <1>1, <1>2, SeenFacts DEF WriteInv
<1>4. TypeOK'
  BY <1>1, <1>2, <1>3 DEF WriteInv, TypeOK
<1>5. ASSUME NEW q \in Request PROVE ReqInv(q)'
  BY <1>1, <1>2, <1>3, Stays DEF WriteInv
<1> QED
  BY <1>4, <1>5 DEF WriteInv

LEMMA StepInv == WriteInv /\ [Next]_vars => WriteInv'
<1> SUFFICES ASSUME WriteInv, [Next]_vars PROVE WriteInv'
  OBVIOUS
<1>1. CASE UNCHANGED vars
  <2>1. TypeOK'
    BY <1>1 DEF vars, request, WriteInv, TypeOK
  <2>2. ASSUME NEW q \in Request PROVE ReqInv(q)'
    BY <1>1, Stays DEF vars, request, WriteInv
  <2> QED
    BY <2>1, <2>2 DEF WriteInv
<1>2. CASE Outside
  BY <1>2, OutsideKeeps
<1>3. ASSUME NEW r \in Request, Handle(r) \/ Step(r) PROVE WriteInv'
  BY <1>3, HandleKeeps, GuardKeeps, LookupKeeps, WriteKeeps, DeleteRefKeeps DEF Step
<1> QED
  BY <1>1, <1>2, <1>3 DEF Next

-----------------------------------------------------------------------------
(* What follows.                                                           *)

\* The types of PRWrites hold, for any number of requests at once.
THEOREM WritesTyped == Spec => []TypeOK
<1>1. WriteInv => TypeOK
  BY DEF WriteInv
<1> QED
  BY <1>1, InitInv, StepInv, PTL DEF Spec

\* guardHead: nothing that pinned a head is written unless that was the head
\* at some moment of the request, however pushes and requests interleave.
THEOREM WritesGuarded == Spec => []GuardedWrites
<1>1. WriteInv => GuardedWrites
  <2>1. ASSUME WriteInv, NEW r \in Request, wrote[r] # {}, asked[r].method \in PinsHead,
               asked[r].expected # None
        PROVE  \E g \in during[r] : g.head = asked[r].expected
    BY <2>1 DEF WriteInv, ReqInv, PastGuard, Written
  <2> QED
    BY <2>1 DEF GuardedWrites, PinsHead
<1> QED
  BY <1>1, InitInv, StepInv, PTL DEF Spec

\* A request that is refused has written nothing, the lost answer excepted.
THEOREM RefusalsUnwritten == Spec => []RefusedUnwritten
<1>1. WriteInv => RefusedUnwritten
  BY DEF WriteInv, ReqInv, Written, RefusedUnwritten
<1> QED
  BY <1>1, InitInv, StepInv, PTL DEF Spec

\* MergePR deletes the head branch of a merged pull request only.
THEOREM BranchAfterMerge == Spec => []BranchOnlyAfterMerge
<1>1. WriteInv => BranchOnlyAfterMerge
  BY DEF WriteInv, ReqInv, Deleting, BranchOnlyAfterMerge
<1> QED
  BY <1>1, InitInv, StepInv, PTL DEF Spec

-----------------------------------------------------------------------------
(* The pending review is joined.                                           *)

\* A new thread or a start_review that names no review.
Free(r) ==
  /\ asked[r].method \in {"post_comment", "start_review"}
  /\ asked[r].review = None /\ ~asked[r].reply

Steady(r, id) == during[r] # {} /\ \A g \in during[r] : g.review = id

\* One that has seen a single pending review so far has found it.
Joined(r) ==
  /\ at[r] = "none" => during[r] = {}
  /\ \A id \in Review : Free(r) /\ Steady(r, id) =>
       /\ at[r] = "write" => asked[r].method = "post_comment" /\ join[r] = id
       /\ at[r] = "done" =>
            /\ result[r].code = "ok" => result[r].tells.review = id
            /\ asked[r].method = "start_review" => wrote[r] = {} /\ result[r].code # "bad_request"

JoinInv == \A r \in Request : Joined(r)

LEMMA JoinedStays ==
  ASSUME NEW q \in Request, Sane(q), Joined(q), at'[q] = at[q], asked'[q] = asked[q], join'[q] = join[q],
         result'[q] = result[q], wrote'[q] = wrote[q], during[q] \subseteq during'[q],
         at[q] \in {"none", "done"} => during'[q] = during[q], at[q] \in At
  PROVE  Joined(q)'
<1>1. Free(q)' <=> Free(q)
  BY DEF Free
<1>2. \A id \in Review : Steady(q, id)' => Steady(q, id)
  BY DEF Steady, Sane, Active, At
<1> HIDE DEF Free, Steady
<1>3. at'[q] = "none" => during'[q] = {}
  BY DEF Joined
<1> QED
  BY <1>1, <1>2, <1>3 DEF Joined

LEMMA JoinStep == WriteInv /\ JoinInv /\ [Next]_vars => JoinInv'
<1> SUFFICES ASSUME WriteInv, JoinInv, [Next]_vars, NEW q \in Request PROVE Joined(q)'
  BY DEF JoinInv
<1>1. WriteInv'
  BY StepInv
<1>2. Sane(q) /\ Joined(q) /\ at[q] \in At /\ at'[q] \in At /\ Written(q)
  BY <1>1 DEF WriteInv, ReqInv, JoinInv, TypeOK, At
<1>3. CASE UNCHANGED vars
  BY <1>2, <1>3, JoinedStays DEF vars, request
<1>4. CASE ~UNCHANGED vars
  <2>1. Seen /\ Next
    BY <1>4 DEF Next, Outside, Handle, Step, GuardHead, Lookup, WriteAnswered, WriteLost, WriteRefused, DeleteRef
  <2>2. /\ during[q] \subseteq during'[q]
        /\ at[q] \in {"none", "done"} /\ at'[q] \in {"none", "done"} => during'[q] = during[q]
        /\ ~(at[q] \in {"none", "done"} /\ at'[q] \in {"none", "done"}) => gh \in during'[q]
    BY <1>1, <2>1, SeenFacts DEF WriteInv, TypeOK
  <2>3. CASE /\ at'[q] = at[q] /\ asked'[q] = asked[q] /\ join'[q] = join[q]
             /\ result'[q] = result[q] /\ wrote'[q] = wrote[q]
    BY <1>2, <2>2, <2>3, JoinedStays
  <2>4. \A id \in Review : gh \in during'[q] /\ Steady(q, id)' => gh.review = id /\ PendingReview = {id}
    BY WritesAssumption DEF Steady, PendingReview
  <2>5. CASE Handle(q)
    <3>1. PICK a \in Ask : asked' = [asked EXCEPT ![q] = a] /\ at[q] = "none" /\
             \/ at' = [at EXCEPT ![q] = "done"]
             \/ at' = [at EXCEPT ![q] = "guard"]
             \/ at' = [at EXCEPT ![q] = "lookup"]
             \/ at' = [at EXCEPT ![q] = "write"] /\ ~(a.method \in {"post_comment", "start_review"} /\ a.review = None /\ ~a.reply)
      BY <2>5 DEF Handle, Begin, PostComment, PostIssueComment, DeleteComment, StartReview, SubmitReview,
                  DiscardReview, ResolveThread, SetFileViewed, MergePR, SetPRState, Guarded, Route
    <3>2. asked'[q] = a /\ (at'[q] \in {"done", "guard", "lookup"} \/ (at'[q] = "write" /\ ~Free(q)'))
      BY <3>1 DEF WriteInv, TypeOK, Free
    <3>3. at'[q] = "done" => during'[q] = {}
      BY <1>2, <2>2, <3>1 DEF Joined
    <3> QED
      BY <3>2, <3>3 DEF Joined, Steady
  <2>6. CASE GuardHead(q)
    <3>1. at[q] = "guard" /\ wrote'[q] = wrote[q] /\ wrote[q] = {} /\ asked'[q] = asked[q]
      BY <1>2, <2>6 DEF GuardHead, Goto, Reply, Fail, Written
    <3>2. CASE Goto(q, AfterGuard(asked[q]))
      <4>1. Free(q)' => at'[q] = "lookup"
        <5>1. asked[q].method \in PinsHead
          BY <1>2, <3>1 DEF Sane
        <5> QED
          BY <3>1, <3>2, <5>1 DEF Goto, AfterGuard, Route, Free, WriteInv, TypeOK, PinsHead
      <4>2. at'[q] # "none" /\ at'[q] # "done"
        BY <3>2 DEF Goto, AfterGuard, Route, WriteInv, TypeOK
      <4> QED
        BY <4>1, <4>2 DEF Joined
    <3>3. ASSUME NEW code \in {"conflict", "auth", "network"}, Reply(q, Error(code)) PROVE Joined(q)'
      <4>1. at'[q] = "done" /\ result'[q].code = code
        BY <3>3 DEF Reply, Done, Error, Answer, WriteInv, TypeOK
      <4> QED
        BY <3>1, <4>1 DEF Joined
    <3> QED
      BY <2>6, <3>2, <3>3 DEF GuardHead, Fail
  <2>7. CASE Lookup(q)
    <3>1. at[q] = "lookup" /\ gh \in during'[q] /\ wrote'[q] = {} /\ asked'[q] = asked[q]
      BY <1>2, <2>2, <2>7 DEF Lookup, MergeLookup, StartLookup, CommentLookup, PrNodeID, Fail, Goto, Reply, Written
    <3>2. CASE Fail(q)
      <4>1. at'[q] = "done" /\ result'[q].code \in {"auth", "network"}
        BY <3>2 DEF Fail, Reply, Done, Error, Answer, WriteInv, TypeOK
      <4> QED
        BY <3>1, <4>1 DEF Joined
    <3>3. CASE MergeLookup(q) \/ PrNodeID(q)
      <4>1. ~Free(q)'
        BY <3>1, <3>3 DEF Free, MergeLookup, PrNodeID
      <4>2. at'[q] # "none"
        BY <3>3 DEF MergeLookup, PrNodeID, Goto, Reply, Done, WriteInv, TypeOK
      <4> QED
        BY <4>1, <4>2 DEF Joined
    <3>4. CASE StartLookup(q)
      <4>1. CASE PendingReview = {} /\ Goto(q, "write")
        <5>1. at'[q] = "write"
          BY <4>1 DEF Goto, WriteInv, TypeOK
        <5>2. \A id \in Review : ~Steady(q, id)'
          BY <2>4, <3>1, <4>1
        <5> QED
          BY <5>1, <5>2 DEF Joined
      <4>2. ASSUME NEW id \in PendingReview, Reply(q, Answer("ok", [Nothing EXCEPT !.review = id]))
            PROVE  Joined(q)'
        <5>1. at'[q] = "done" /\ result'[q].code = "ok" /\ result'[q].tells.review = id
          BY <4>2 DEF Reply, Done, Answer, Nothing, WriteInv, TypeOK
        <5>2. \A i \in Review : Steady(q, i)' => i = id
          BY <2>4, <3>1, <4>2
        <5> QED
          BY <3>1, <5>1, <5>2 DEF Joined
      <4> QED
        BY <3>4, <4>1, <4>2 DEF StartLookup
    <3>5. CASE CommentLookup(q)
      <4>1. asked[q].method = "post_comment" /\ at'[q] = "write"
        BY <3>5 DEF CommentLookup, Goto, WriteInv, TypeOK
      <4>2. \A i \in Review : Steady(q, i)' => join'[q] = i
        <5>1. CASE PendingReview = {}
          BY <2>4, <3>1, <5>1
        <5>2. ASSUME NEW id \in PendingReview, join' = [join EXCEPT ![q] = id]
              PROVE  \A i \in Review : Steady(q, i)' => join'[q] = i
          BY <2>4, <3>1, <5>2 DEF WriteInv, TypeOK
        <5> QED
          BY <3>5, <5>1, <5>2 DEF CommentLookup
      <4> QED
        BY <3>1, <4>1, <4>2 DEF Joined
    <3> QED
      BY <2>7, <3>2, <3>3, <3>4, <3>5 DEF Lookup
  <2>8. \A id \in Review : at[q] = "write" /\ asked'[q] = asked[q] /\ Free(q)' /\ Steady(q, id)' =>
          asked[q].method = "post_comment" /\ asked[q].review = None /\ join[q] = id
    <3>1. asked'[q] = asked[q] => (Free(q)' <=> Free(q))
      BY DEF Free
    <3>2. \A id \in Review : at[q] = "write" /\ Steady(q, id)' => Steady(q, id)
      BY <1>2, <2>2 DEF Steady, Sane, Active
    <3>3. Free(q) => asked[q].review = None
      BY DEF Free
    <3> HIDE DEF Free, Steady
    <3> QED
      BY <1>2, <3>1, <3>2, <3>3 DEF Joined
  <2>9. CASE WriteAnswered(q)
    <3>1. at[q] = "write" /\ asked'[q] = asked[q]
      BY <2>9 DEF WriteAnswered
    <3>2. PICK m \in Mutation(q, gh) : at'[q] = AfterWrite(q, m.tells) /\ result'[q] = Answer("ok", m.tells)
      BY <2>9 DEF WriteAnswered, WriteInv, TypeOK
    <3>3. at'[q] # "none" /\ at'[q] # "write"
      BY <3>2 DEF AfterWrite
    <3>4. ASSUME NEW id \in Review, Free(q)', Steady(q, id)'
          PROVE  asked'[q].method = "post_comment" /\ result'[q].tells.review = id
      <4>1. asked[q].method = "post_comment" /\ asked[q].review = None /\ join[q] = id
        BY <2>8, <3>1, <3>4
      <4>2. m = [pr |-> gh, tells |-> [Nothing EXCEPT !.review = id]]
        BY <4>1 DEF Mutation, AddComment, If, Now
      <4>3. m.tells.review = id
        BY <4>2 DEF Nothing
      <4>4. result'[q].tells = m.tells
        BY <3>2 DEF Answer
      <4> QED
        BY <3>1, <4>1, <4>3, <4>4
    <3> QED
      BY <3>3, <3>4 DEF Joined
  <2>10. CASE WriteLost(q) \/ WriteRefused(q)
    <3>1. at[q] = "write" /\ asked'[q] = asked[q]
      BY <2>10 DEF WriteLost, WriteRefused, Fail, Reply
    <3>2. at'[q] = "done" /\ result'[q].code # "ok"
      BY <2>10 DEF WriteLost, WriteRefused, Fail, Reply, Done, Error, Answer, WriteInv, TypeOK
    <3> QED
      BY <2>8, <3>1, <3>2 DEF Joined
  <2>11. CASE DeleteRef(q)
    <3>1. at'[q] = "done" /\ asked'[q] = asked[q] /\ asked[q].method = "merge_pr"
      BY <2>11 DEF DeleteRef, WriteInv, TypeOK, ReqInv, Deleting
    <3> QED
      BY <3>1 DEF Joined, Free
  <2>12. ASSUME NEW r \in Request, r # q, Handle(r) \/ Step(r) PROVE Joined(q)'
    <3>1. /\ at'[q] = at[q] /\ asked'[q] = asked[q] /\ join'[q] = join[q]
          /\ result'[q] = result[q] /\ wrote'[q] = wrote[q]
      <4>1. CASE Handle(r)
        BY <2>12, <4>1 DEF Handle, Begin, PostComment, PostIssueComment, DeleteComment, StartReview,
             SubmitReview, DiscardReview, ResolveThread, SetFileViewed, MergePR, SetPRState, WriteInv, TypeOK
      <4>2. CASE GuardHead(r) \/ Lookup(r)
        BY <2>12, <4>2 DEF GuardHead, Lookup, MergeLookup, StartLookup, CommentLookup, PrNodeID,
             Fail, Goto, Reply, Done, WriteInv, TypeOK
      <4>3. CASE WriteAnswered(r) \/ WriteLost(r) \/ WriteRefused(r) \/ DeleteRef(r)
        BY <2>12, <4>3 DEF WriteAnswered, WriteLost, WriteRefused, DeleteRef, Fail, Reply, Done, WriteInv, TypeOK
      <4> QED
        BY <2>12, <4>1, <4>2, <4>3 DEF Step
    <3> QED
      BY <2>3, <3>1
  <2>13. CASE Outside
    BY <2>3, <2>13 DEF Outside, request
  <2> QED
    BY <2>1, <2>5, <2>6, <2>7, <2>9, <2>10, <2>11, <2>12, <2>13 DEF Next, Step
<1> QED
  BY <1>3, <1>4

\* A pending review that is there all along is joined by a new thread and
\* answered by start_review, whatever else runs (postNewThread, StartReview).
THEOREM DraftJoined == Spec => []JoinsTheDraft
<1>1. Init => JoinInv
  BY DEF Init, JoinInv, Joined, Steady
<1>2. JoinInv => JoinsTheDraft
  BY DEF JoinInv, Joined, JoinsTheDraft, Free, Steady
<1> QED
  BY <1>1, <1>2, InitInv, StepInv, JoinStep, PTL DEF Spec
=============================================================================
