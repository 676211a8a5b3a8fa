------------------------------ MODULE PRReads ------------------------------
(***************************************************************************)
(* The methods of the sidecar that read a pull request: list_prs, get_pr,  *)
(* get_threads, get_timeline, get_pending_review and get_checks, with the  *)
(* paging of rest.go and graphql.go, the error mapping of errors.go and    *)
(* the token of auth.go under them.  A call is several requests, one step  *)
(* each, and the pull request may change between two of them.  Calls share *)
(* nothing but the memoised login, so one is made at a time.               *)
(***************************************************************************)
EXTENDS GitHubCalls, FiniteSets, SequencesExt

CONSTANTS
  Env,           \* what ResolveToken finds: see EnvType
  Login,         \* the viewer's login
  FilesAt,       \* FilesAt[v]: the paths of the pull request at its v-th head
  Viewed,        \* the viewed state of a path, of those GraphQL has one for
  Reviews,       \* the reviews, the viewer's draft among them
  Draft,         \* the comments of the viewer's pending review, or Nil
  Contexts,      \* the contexts of the status rollup, or Nil
  Trouble,       \* the answers that are not a page: see Response
  Threads0, Comments0, Pulls0,  \* the lists to begin with
  MoreThreads, MoreComments,    \* what others append to them
  PageSize, CommentsPage, ReviewsPage,  \* 100 each in the queries
  MaxPages,      \* the cap of every walk, 100 in the code
  MaxCalls, MaxChanges          \* bounds: calls made, changes by others

-----------------------------------------------------------------------------
(* The shapes of GitHub's answers and of the results built from them.      *)

LineOrNull == Int \cup {Nil}

\* A review thread: an outdated one has no line; comments are their states.
ThreadGQL == [id : Nat, line : LineOrNull, outdated : BOOLEAN, comments : Seq({"PENDING", "SUBMITTED"})]
Thread == [id : Nat, line : Int, outdated : BOOLEAN, pending : BOOLEAN, truncated : BOOLEAN]

ReviewGQL == [id : Nat, state : STRING, body : BOOLEAN, submitted : BOOLEAN]
ContextGQL == [type : {"CheckRun", "StatusContext"}, status : STRING, conclusion : STRING, state : STRING]
\* A check's status is GitHub's, or that of a legacy one derived from its state.
Check == [status : STRING \cup {"PENDING", "COMPLETED"}, conclusion : STRING]
PullDTO == [number : Nat, user : STRING, reviewers : SUBSET STRING]
ViewedState == {"VIEWED", "UNVIEWED", "DISMISSED"}
PRFile == [path : STRING, viewed : ViewedState]

Method == {"list_prs", "get_pr", "get_threads", "get_timeline", "get_pending_review", "get_checks"}
Filter == {"open", "mine", "review_requested"}

ASSUME ReadsAssumption ==
  /\ Env \subseteq EnvType /\ Nil \notin Int
  /\ Trouble \subseteq Response
  /\ PageSize \in Nat \ {0} /\ CommentsPage \in Nat \ {0} /\ ReviewsPage \in Nat \ {0} /\ MaxPages \in Nat \ {0}
  /\ MaxCalls \in Nat /\ MaxChanges \in Nat
  /\ FilesAt \in Seq(Seq(STRING)) /\ FilesAt # <<>>
  /\ Threads0 \in Seq(ThreadGQL) /\ MoreThreads \subseteq ThreadGQL
  /\ Comments0 \in Seq(Nat) /\ MoreComments \subseteq Nat
  /\ Pulls0 \in Seq(PullDTO)
  /\ Reviews \in Seq(ReviewGQL) /\ \A i, j \in DOMAIN Reviews : Reviews[i].id = Reviews[j].id => i = j
  /\ Draft = Nil \/ Draft \in Seq(LineOrNull)
  /\ Contexts = Nil \/ Contexts \in Seq(ContextGQL)
  /\ \A v \in DOMAIN FilesAt : \A i \in DOMAIN FilesAt[v] : Viewed[FilesAt[v][i]] \in ViewedState

VARIABLES
  gh,        \* GitHub: the head's number, the threads, the comments and the open pull requests
  tokenErr,  \* the code of the failed token resolution, or Nil
  viewer,    \* the memoised login
  calls, changes,       \* how many there were
  method, arg, at,      \* the call: its method and filter, and the request it sends next
  cursor, pages,        \* where its walk is
  nodes, rest, meta, reviews,  \* what it has gathered
  result,    \* the code and the retry-after hint it ended with
  start,     \* GitHub and the number of changes when the call was made
  odd,       \* whether GitHub gave page info that makes no sense
  seen,      \* the heads its file pages were read at
  failed     \* the answer that ended it, or Nil

walk == <<cursor, pages, nodes, rest, meta, reviews, seen>>
readsVars == <<gh, tokenErr, viewer, calls, changes, method, arg, at, walk, result, start, odd, failed>>

-----------------------------------------------------------------------------
GitHub == [head |-> 1, threads |-> Threads0, comments |-> Comments0, pulls |-> Pulls0]

ReadsInit ==
  /\ gh = GitHub
  /\ \E env \in Env : tokenErr = ResolveToken(env)
  /\ viewer = Nil
  /\ calls = 0 /\ changes = 0
  /\ method = "get_pr" /\ arg = "" /\ at = "done"
  /\ cursor = 0 /\ pages = 0
  /\ nodes = <<>> /\ rest = <<>> /\ meta = Nil /\ reviews = <<>> /\ seen = {}
  /\ result = Fault("none", 0)
  /\ start = [gh |-> GitHub, changes |-> 0]
  /\ odd = FALSE
  /\ failed = Nil

\* The walks and requests of each method, in order.
Requests(m) ==
  CASE m = "list_prs" -> <<"rest", "viewer">>
    [] m = "get_pr" -> <<"graphql", "rest">>
    [] m \in {"get_threads", "get_timeline"} -> <<"graphql">>
    [] m \in {"get_pending_review", "get_checks"} -> <<"single">>

\* What follows a request; the login is needed by the filters only, once.
After(r) ==
  LET todo == Requests(method)
      i == CHOOSE i \in DOMAIN todo : todo[i] = r
      idle == i = Len(todo) \/ (todo[i + 1] = "viewer" /\ (arg = "open" \/ viewer # Nil))
  IN  IF idle THEN "done" ELSE todo[i + 1]

Advance(r) ==
  /\ at' = After(r)
  /\ result' = IF After(r) = "done" THEN Fault("ok", 0) ELSE result

\* A handler: the params are checked (pr says whether the coordinates were
\* given), then the filter, and the first request meets a missing token.
Call(m, f, pr) ==
  LET filter == IF f = "" THEN "open" ELSE f
      refused == ~pr \/ (m = "list_prs" /\ filter \notin Filter)
  IN  /\ at = "done" /\ calls < MaxCalls
      /\ calls' = calls + 1
      /\ method' = m /\ arg' = filter
      /\ at' = IF refused \/ tokenErr # Nil THEN "done" ELSE Head(Requests(m))
      /\ result' = IF refused THEN Fault("bad_request", 0)
                   ELSE IF tokenErr # Nil THEN Fault(tokenErr, 0) ELSE Fault("none", 0)
      /\ cursor' = 0 /\ pages' = 0
      /\ nodes' = <<>> /\ rest' = <<>> /\ meta' = Nil /\ reviews' = <<>> /\ seen' = {}
      /\ start' = [gh |-> gh, changes |-> changes]
      /\ odd' = FALSE /\ failed' = Nil
      /\ UNCHANGED <<gh, tokenErr, viewer, changes>>

same == <<gh, tokenErr, viewer, calls, changes, method, arg, start>>

-----------------------------------------------------------------------------
(* The queries: what GitHub answers to each.                               *)

GetPRQuery == FilesAt[gh.head]
GetThreadsQuery == gh.threads
GetTimelineQuery == gh.comments

Connection == CASE method = "get_pr" -> GetPRQuery
                [] method = "get_threads" -> GetThreadsQuery
                [] method = "get_timeline" -> GetTimelineQuery

Page(list, from) == SubSeq(list, from + 1, Min({from + PageSize, Len(list)}))

\* A page's pageInfo; the code allows for cursors that are null or stand.
PageInfo(list, from) ==
  [more |-> from + PageSize < Len(list), end |-> from + Len(Page(list, from))]
OddInfo(from) == {[more |-> TRUE, end |-> 0], [more |-> TRUE, end |-> from]}

\* GetTimeline drops the viewer's draft and reviews that only carry threads.
IsVerdict(r) == r.submitted /\ ~(~r.body /\ r.state \in {"", "COMMENTED"})

\* A loop that appends what it keeps.
Kept(list, wanted) ==
  LET kept[n \in 0..Len(list)] ==
        IF n = 0 THEN <<>>
        ELSE IF list[n] \in wanted THEN Append(kept[n - 1], list[n]) ELSE kept[n - 1]
  IN  kept[Len(list)]

Verdicts == Kept(SubSeq(Reviews, 1, Min({ReviewsPage, Len(Reviews)})), {r \in ToSet(Reviews) : IsVerdict(r)})

ReviewsEachPage == reviews \o Verdicts

\* The reviews are collected with the first page.
CollectReviews == IF method = "get_timeline" /\ cursor = 0 THEN Verdicts ELSE reviews

\* A page of the walks of GetPR, GetThreads and GetTimeline.
GraphqlPage ==
  /\ at = "graphql"
  /\ \E info \in {PageInfo(Connection, cursor)} \cup OddInfo(cursor) :
       LET next == NextCursor(cursor, info)
           over == next = Nil \/ pages + 1 = MaxPages
       IN  /\ odd' = (odd \/ info # PageInfo(Connection, cursor))
           /\ nodes' = nodes \o Page(Connection, cursor)
           /\ meta' = IF cursor = 0 THEN gh.head ELSE meta
           /\ reviews' = CollectReviews
           /\ cursor' = IF over THEN 0 ELSE next
           /\ pages' = IF over THEN 0 ELSE pages + 1
           /\ IF over THEN Advance("graphql") ELSE UNCHANGED <<at, result>>
  /\ UNCHANGED <<same, rest, seen, failed>>

\* A page of getPaged, for the files of GetPR and for ListPRs.
RestPage ==
  LET list == IF method = "get_pr" THEN FilesAt[gh.head] ELSE gh.pulls
      over == (pages + 1) * PageSize >= Len(list) \/ pages + 1 = MaxPages
  IN  /\ at = "rest"
      /\ rest' = rest \o Page(list, pages * PageSize)
      /\ seen' = seen \cup {gh.head}
      /\ pages' = IF over THEN 0 ELSE pages + 1
      /\ IF over THEN Advance("rest") ELSE UNCHANGED <<at, result>>
      /\ UNCHANGED <<same, cursor, nodes, meta, reviews, odd, failed>>

\* viewerLogin where it is not memoised yet; an answer may name nobody.
ViewerLogin ==
  /\ at = "viewer"
  /\ \/ viewer' = Login /\ Advance("viewer")
     \/ at' = "done" /\ result' = Fault("auth", 0) /\ UNCHANGED viewer
  /\ UNCHANGED <<gh, tokenErr, calls, changes, method, arg, start, walk, odd, failed>>

\* get_pending_review and get_checks are one query each.
SingleQuery ==
  /\ at = "single"
  /\ Advance("single")
  /\ UNCHANGED <<same, walk, odd, failed>>

\* An answer that is not a page ends the call with its code.
Fail ==
  /\ at # "done"
  /\ \E p \in Trouble :
       LET fault == IF at \in {"graphql", "single"} THEN Graphql(p) ELSE GetJSON(p)
       IN  /\ fault.code # "ok"
           /\ result' = fault
           /\ failed' = p
  /\ at' = "done"
  /\ UNCHANGED <<same, walk, odd>>

-----------------------------------------------------------------------------
\* Others push, start a thread, comment, and touch a pull request, which
\* brings it to the front of the list.
Change ==
  /\ changes < MaxChanges
  /\ changes' = changes + 1
  /\ \/ gh.head < Len(FilesAt) /\ gh' = [gh EXCEPT !.head = @ + 1]
     \/ \E t \in MoreThreads : t \notin ToSet(gh.threads) /\ gh' = [gh EXCEPT !.threads = Append(@, t)]
     \/ \E c \in MoreComments : c \notin ToSet(gh.comments) /\ gh' = [gh EXCEPT !.comments = Append(@, c)]
     \/ \E i \in DOMAIN gh.pulls : gh' = [gh EXCEPT !.pulls = <<@[i]>> \o RemoveAt(@, i)]
  /\ UNCHANGED <<tokenErr, viewer, calls, method, arg, at, walk, result, start, odd, failed>>

ReadsNext ==
  \/ \E m \in Method, f \in Filter \cup {"", "closed"}, pr \in BOOLEAN :
       (m # "list_prs" => f = "") /\ Call(m, f, pr)
  \/ GraphqlPage \/ RestPage \/ ViewerLogin \/ SingleQuery \/ Fail
  \/ Change

ReadsSpec == ReadsInit /\ [][ReadsNext]_readsVars

-----------------------------------------------------------------------------
(* The results, as they are built from what was gathered.                  *)

FileViewed(path) == IF path \in ToSet(nodes) THEN Viewed[path] ELSE "UNVIEWED"

PRDetail == [head |-> meta,
             files |-> [i \in DOMAIN rest |-> [path |-> rest[i], viewed |-> FileViewed(rest[i])]]]

Deref(line) == IF line = Nil THEN 0 ELSE line

ToThread(n) == [id |-> n.id, line |-> Deref(n.line), outdated |-> n.outdated,
                pending |-> n.comments # <<>> /\ Head(n.comments) = "PENDING",
                truncated |-> Len(n.comments) >= CommentsPage]

GetThreads == [i \in DOMAIN nodes |-> ToThread(nodes[i])]

GetPendingReview ==
  IF Draft = Nil THEN [review |-> FALSE, comments |-> <<>>]
  ELSE [review |-> TRUE, comments |-> [i \in DOMAIN Draft |-> Deref(Draft[i])]]

\* A legacy status has one state, told as the conclusion.
NormaliseCheck(n) ==
  IF n.type = "StatusContext"
  THEN [status |-> IF n.state \in {"PENDING", "EXPECTED"} THEN "PENDING" ELSE "COMPLETED",
        conclusion |-> n.state]
  ELSE [status |-> n.status, conclusion |-> n.conclusion]

GetChecks == IF Contexts = Nil THEN <<>>
             ELSE [i \in DOMAIN Contexts |-> NormaliseCheck(Contexts[i])]

ListPRs ==
  Kept(rest, {p \in ToSet(rest) : CASE arg = "open" -> TRUE
                                    [] arg = "mine" -> p.user = viewer
                                    [] arg = "review_requested" -> viewer \in p.reviewers})

-----------------------------------------------------------------------------
ReadsTypeOK ==
  /\ gh.head \in DOMAIN FilesAt /\ gh.threads \in Seq(ThreadGQL) /\ gh.pulls \in Seq(PullDTO)
  /\ tokenErr \in {Nil, "gh_missing", "auth"}
  /\ viewer \in {Nil, Login}
  /\ method \in Method
  /\ at \in {"done", "graphql", "rest", "viewer", "single"}
  /\ cursor \in Nat /\ pages \in 0..MaxPages
  /\ result.hint \in Int
  /\ Reviews \in Seq(ReviewGQL)
  /\ method = "get_pr" => \A i \in DOMAIN PRDetail.files : PRDetail.files[i] \in PRFile
  /\ method = "get_threads" => \A i \in DOMAIN GetThreads : GetThreads[i] \in Thread
  /\ \A i \in DOMAIN GetChecks : GetChecks[i] \in Check
  /\ \A i \in DOMAIN GetPendingReview.comments : GetPendingReview.comments[i] \in Int

Ended(m) == at = "done" /\ result.code = "ok" /\ method = m
Quiet == changes = start.changes /\ ~odd
Fits(list) == Len(list) <= MaxPages * PageSize

\* A push during get_pr may give it files newer than the head it pins, which
\* guardHead then refuses, but never a head newer than its files.
FilesNotOlderThanHead ==
  Ended("get_pr") => \A v \in seen : v >= meta

\* A call during which nothing changed answers exactly what GitHub has,
\* although it was pieced together from pages and from two APIs; where a push
\* did come between, the files are not the older half.  (And what it answers,
\* and every variable, has its type.)
QuietReads ==
  /\ ReadsTypeOK
  /\ FilesNotOlderThanHead
  /\ Ended("get_pr") /\ Quiet /\ Fits(FilesAt[gh.head]) =>
       /\ PRDetail.head = gh.head
       /\ Len(PRDetail.files) = Len(FilesAt[gh.head])
       /\ \A i \in DOMAIN PRDetail.files :
            LET path == FilesAt[gh.head][i]
            IN  PRDetail.files[i] = [path |-> path, viewed |-> Viewed[path]]
  /\ Ended("get_timeline") /\ Quiet /\ Fits(gh.comments) =>
       /\ nodes = gh.comments
       /\ \A i \in DOMAIN Reviews : i <= ReviewsPage /\ Reviews[i].submitted /\ Reviews[i].body =>
            Cardinality({j \in DOMAIN reviews : reviews[j] = Reviews[i]}) = 1
       /\ \A j \in DOMAIN reviews : reviews[j].submitted
  /\ Ended("list_prs") /\ Quiet /\ Fits(gh.pulls) =>
       ToSet(ListPRs) = {p \in ToSet(gh.pulls) :
                           /\ arg = "mine" => p.user = Login
                           /\ arg = "review_requested" => Login \in p.reviewers}

\* With page info that is right, null or standing still (nextCursor), and
\* whatever is appended meanwhile, a walk never reads a page again: its result
\* is the list up to some point, and a walk that was not misled has all that
\* was there when it began.  (A cursor that goes back is followed: nextCursor
\* compares with the one before it alone.)
NothingTwice ==
  \A m \in {"get_threads", "get_timeline"} : Ended(m) =>
    LET now == IF m = "get_threads" THEN gh.threads ELSE gh.comments
        then == IF m = "get_threads" THEN start.gh.threads ELSE start.gh.comments
    IN  /\ IsPrefix(nodes, now)
        /\ ~odd /\ Fits(then) => Len(nodes) >= Len(then)

\* A failure is told for what it is: a limit that its headers or a body that
\* decodes tell of is never missing access, its hint is negative only where
\* Retry-After says so itself (rateLimited passes any number on), and a status
\* is told whether or not its body was read (mapHTTP, send).
FailureTold ==
  failed # Nil =>
    /\ result.hint < 0 => result.hint = failed.retryAfter
    /\ ~failed.sent => result.code = "network"
    /\ failed.sent /\ failed.status \notin 200..299 => result.code # "network"
    /\ failed.sent /\ failed.status \in {403, 429}
         /\ (failed.status = 429 \/ failed.exhausted \/ SecondaryLimit(failed)
              \/ failed.retryAfter # Nil)
       => result.code = "rate_limited"
    /\ failed.sent /\ failed.status = 404 => result.code = "not_found"

\* "left as an auth error it sends the user hunting for a scope they already have,
\* when the answer is to wait" (github/errors.go:82): a secondary limit is never
\* told as missing access.  No run checks it and it does not hold: the message is
\* looked for in the body, which may have been cut.
SecondaryNeverAuth ==
  failed # Nil /\ failed.sent /\ failed.secondary => result.code # "auth"
=============================================================================
