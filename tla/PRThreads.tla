----------------------------- MODULE PRThreads -----------------------------
(***************************************************************************)
(* The review threads of a pull request session, lua/differ/pr/threads.lua *)
(* (`ensure`, `revalidate`, `refresh`, `deliver`, `invalidate`), with what  *)
(* asks for them: a file that is rendered, the overview page and its three *)
(* hops (pr/overview.lua), the answers of mutations (pr/comment.lua,       *)
(* pr/review.lua) and the recovery from a moved head (handle_conflict).    *)
(*                                                                         *)
(* GitHub is a counter of what was written to the pull request; a list of  *)
(* threads is the value of the counter it was read at.  The sidecar answers *)
(* its requests in any order, and each may fail.  The blobs of the files   *)
(* and the pins they hold to are not modelled: a file of an open panel is  *)
(* rendered at any moment, and a guarded mutation may be refused.          *)
(***************************************************************************)
EXTENDS Naturals, FiniteSets

CONSTANTS
  Sessions,    \* the sessions that are opened, one after another
  Callers,     \* bound: callers of `ensure` and pages under way at once
  Fetches,     \* bound: get_threads requests in flight at once
  Posts,       \* bound: the mutations of the sessions
  MaxVersion,  \* bound: what is written to the pull request
  None,        \* nil
  Null         \* the JSON null of an empty list

ASSUME PRThreadsAssumption ==
  /\ MaxVersion \in Nat
  /\ None \notin Sessions \cup Nat
  /\ Null \notin Nat

VARIABLES
  session,     \* the live session
  opened,      \* the sessions opened so far
  s_,          \* the fields of each session
  fetch,       \* get_threads requests
  caller,      \* the callbacks of `ensure`, and the pages being opened
  post,        \* the mutations
  version      \* what GitHub holds

vars == <<session, opened, s_, fetch, caller, post, version>>

Version == 0 .. MaxVersion

\* threads, threads_at within its TTL, threads_retry_at still open, threads_gen,
\* threads_fetch_gen, threads_waiters (nil when not `inflight`), the panel, the
\* view, and whether the page was ever drawn.  `told` is not in the code: the
\* latest write the session invalidated its list for.
Session ==
  [threads : Version \cup {None}, fresh : BOOLEAN, retry : BOOLEAN, gen : Nat,
   fetchGen : Nat, inflight : BOOLEAN, waiters : SUBSET Callers,
   panel : {"none", "open", "hidden"}, view : BOOLEAN,
   paged : BOOLEAN, told : Version]

Fetch == [at : {"free", "sent", "read"}, of : Sessions \cup {None}, gen : Nat,
          sees : Version \cup {None, Null}]

\* A paint waits for threads only; a page first for its timeline and then for
\* its checks, and is "left" once page_gen has moved on.  `entered` is not in the
\* code: the files were entered since the page was claimed.
Caller == [at : {"free", "timeline", "queued", "checks"}, of : Sessions \cup {None},
           for : {"paint", "page", "left"}, entered : BOOLEAN]

\* A mutation: of the "review" (a comment, a reply, a delete, a submit or a
\* discard; the comment and the submit are guarded by expected_head), or a reply
\* from the "page".
Post == [at : {"idle", "sent", "applied", "refused", "getpr", "gotpr", "done"},
         of : Sessions \cup {None}, kind : {"review", "page"},
         sees : Version]

NoFetch == [at |-> "free", of |-> None, gen |-> 0, sees |-> None]
NoCaller == [at |-> "free", of |-> None, for |-> "paint", entered |-> FALSE]
NoPost == [at |-> "idle", of |-> None, kind |-> "review", sees |-> 0]

\* The session table of open_session.
NewSession ==
  [threads |-> None, fresh |-> FALSE, retry |-> FALSE, gen |-> 0, fetchGen |-> 0,
   inflight |-> FALSE, waiters |-> {}, panel |-> "none",
   view |-> FALSE, paged |-> FALSE, told |-> 0]

Init ==
  /\ session = None
  /\ opened = {}
  /\ s_ = [s \in Sessions |-> NewSession]
  /\ fetch = [f \in Fetches |-> NoFetch]
  /\ caller = [c \in Callers |-> NoCaller]
  /\ post = [p \in Posts |-> NoPost]
  /\ version = 0

-----------------------------------------------------------------------------
(* threads.lua, on the fields t of a session.                              *)

\* invalidate.
Invalidate(t) ==
  [t EXCEPT !.threads = None, !.fresh = FALSE, !.gen = @ + 1, !.retry = FALSE]

\* A write the session is told of.
Told(t, v) == [t EXCEPT !.told = IF v > @ THEN v ELSE @]

\* The callback is run at once: a fresh list, or the error of the last failure.
AnsweredAtOnce(t) ==
  \/ t.threads # None /\ t.fresh
  \/ t.retry

\* The fetch in flight may be shared.
Joins(t) == t.inflight /\ t.fetchGen = t.gen

QueueAlone(t, c) ==
  [t EXCEPT !.inflight = TRUE, !.waiters = IF Joins(t) THEN @ \cup {c} ELSE {c},
            !.fetchGen = t.gen]

\* A caller queued, behind the fetch in flight or with the one it starts.
Queue(t, c) ==
  [t EXCEPT !.inflight = TRUE, !.waiters = @ \cup {c}, !.fetchGen = t.gen]

\* The fetch revalidate starts: marked in flight, with no waiters.
Revalidated(t) ==
  [t EXCEPT !.inflight = TRUE, !.waiters = {}, !.fetchGen = t.gen]

FreeFetch == CHOOSE f \in Fetches : fetch[f].at = "free"
FreeCaller == CHOOSE c \in Callers : caller[c].at = "free"
HasFree(slots) == \E x \in DOMAIN slots : slots[x].at = "free"

\* client.get_threads.
Request(s, t) ==
  /\ HasFree(fetch)
  /\ fetch' = [fetch EXCEPT ![FreeFetch] =
                 [at |-> "sent", of |-> s, gen |-> t.gen, sees |-> None]]

\* ensure, by caller c of session s, whose fields are t: it becomes `queued`,
\* or `now` when its callback is run at once.  cs are the callers as they stand.
Ensure(s, t, c, cs, queued, now) ==
  \/ /\ AnsweredAtOnce(t)
     /\ s_' = [s_ EXCEPT ![s] = t]
     /\ caller' = [cs EXCEPT ![c] = now]
     /\ UNCHANGED fetch
  \/ /\ ~AnsweredAtOnce(t)
     /\ s_' = [s_ EXCEPT ![s] = Queue(t, c)]
     /\ caller' = [cs EXCEPT ![c] = queued]
     /\ IF Joins(t) THEN UNCHANGED fetch ELSE Request(s, t)

\* revalidate.
Revalidate(s, t) ==
  /\ IF t.retry \/ Joins(t)
       THEN /\ s_' = [s_ EXCEPT ![s] = t]
            /\ UNCHANGED fetch
       ELSE /\ s_' = [s_ EXCEPT ![s] = Revalidated(t)]
            /\ Request(s, t)
  /\ UNCHANGED caller

\* refresh.
Refresh(s, t) ==
  \/ /\ ~t.view
     /\ s_' = [s_ EXCEPT ![s] = t]
     /\ UNCHANGED <<fetch, caller>>
  \/ /\ t.view
     /\ t.threads # None /\ ~t.fresh
     /\ Revalidate(s, t)
  \/ /\ t.view
     /\ t.threads = None \/ t.fresh
     /\ HasFree(caller)
     /\ Ensure(s, t, FreeCaller, caller,
               [NoCaller EXCEPT !.at = "queued", !.of = s], NoCaller)

-----------------------------------------------------------------------------
(* overview.lua.                                                           *)

DisarmNothing(cs) == cs

\* page_gen moves on: the pages under way are no longer ours.
Disarm(cs) ==
  [c \in Callers |-> IF cs[c].for = "page" THEN [cs[c] EXCEPT !.for = "left"]
                     ELSE cs[c]]

\* M.open: the page is claimed and its timeline asked for.
OpenPage(s, cs) ==
  /\ HasFree(cs)
  /\ caller' = [Disarm(cs) EXCEPT ![CHOOSE c \in Callers : cs[c].at = "free"] =
                  [NoCaller EXCEPT !.at = "timeline", !.of = s, !.for = "page"]]

Ours(c) == caller[c].of = session /\ caller[c].for = "page"

\* A page that is not ours any more, or whose timeline failed.
Drop(c) == caller' = [caller EXCEPT ![c] = NoCaller]

\* The timeline has come; or it failed.
Timeline(c) ==
  /\ caller[c].at = "timeline"
  /\ IF Ours(c)
       THEN \/ Ensure(session, s_[session], c, caller,
                      [caller[c] EXCEPT !.at = "queued"],
                      [caller[c] EXCEPT !.at = "checks"])
            \/ Drop(c) /\ UNCHANGED <<s_, fetch>>
       ELSE Drop(c) /\ UNCHANGED <<s_, fetch>>
  /\ UNCHANGED <<session, opened, post, version>>

\* render draws the page, over the files if there are any.
PageDrawn(t) ==
  [t EXCEPT !.paged = TRUE, !.view = @ /\ t.panel = "none",
            !.panel = IF @ = "none" THEN @ ELSE "hidden"]

\* The checks have come or failed.
Checks(c) ==
  /\ caller[c].at = "checks"
  /\ Drop(c)
  /\ s_' = IF Ours(c) THEN [s_ EXCEPT ![session] = PageDrawn(s_[session])] ELSE s_
  /\ UNCHANGED <<session, opened, fetch, post, version>>

-----------------------------------------------------------------------------
(* The answer to get_threads.                                              *)

\* An empty list comes as null.
Decoded(list) == IF list = Null THEN 0 ELSE list

\* The callbacks queued: a page asks for its checks if it is still ours, a
\* paint paints what there is.
Called(called) ==
  [c \in Callers |->
     CASE c \notin called -> caller[c]
       [] c \in called /\ Ours(c) -> [caller[c] EXCEPT !.at = "checks"]
       [] OTHER -> NoCaller]

CurrentSession(k) == fetch[k].of = session

\* deliver's two early returns.
Current(k) ==
  /\ fetch[k].of = session
  /\ s_[session].fetchGen = fetch[k].gen

\* The session once the answer is in.
Settled(t, err, list) ==
  LET u == [t EXCEPT !.inflight = FALSE, !.waiters = {}, !.retry = err]
  IN IF err THEN u ELSE [u EXCEPT !.threads = Decoded(list), !.fresh = TRUE]

FailQuietly(t, err, list) ==
  IF err THEN [t EXCEPT !.retry = TRUE] ELSE Settled(t, err, list)

DeliverQuietly(k, err) ==
  /\ fetch' = [fetch EXCEPT ![k] = NoFetch]
  /\ IF Current(k)
       THEN /\ s_' = [s_ EXCEPT ![session] = FailQuietly(@, err, fetch[k].sees)]
            /\ caller' = Called(IF err THEN {} ELSE s_[session].waiters)
       ELSE UNCHANGED <<s_, caller>>
  /\ UNCHANGED <<session, opened, post, version>>

\* deliver.
Deliver(k, err) ==
  /\ fetch' = [fetch EXCEPT ![k] = NoFetch]
  /\ IF Current(k)
       THEN /\ s_' = [s_ EXCEPT ![session] = Settled(@, err, fetch[k].sees)]
            /\ caller' = Called(s_[session].waiters)
       ELSE UNCHANGED <<s_, caller>>
  /\ UNCHANGED <<session, opened, post, version>>

Answer(k) ==
  \/ fetch[k].at = "read" /\ Deliver(k, FALSE)
  \/ fetch[k].at # "free" /\ Deliver(k, TRUE)

\* GitHub reads the threads for the request (what it reads for a session that
\* is gone is dropped whatever it is).
Read(k) ==
  /\ fetch[k].at = "sent"
  /\ fetch[k].of = session
  /\ fetch' = [fetch EXCEPT ![k].at = "read",
                            ![k].sees = IF version = 0 THEN Null ELSE version]
  /\ UNCHANGED <<session, opened, s_, caller, post, version>>

\* The TTL of the list, or the window after a failure, runs out.
Expire(s) ==
  /\ session = s
  /\ \/ s_[s].fresh /\ s_' = [s_ EXCEPT ![s].fresh = FALSE]
     \/ s_[s].retry /\ s_' = [s_ EXCEPT ![s].retry = FALSE]
  /\ UNCHANGED <<session, opened, fetch, caller, post, version>>

-----------------------------------------------------------------------------
(* The mutations of a session and their answers.                           *)

Live(p) == post[p].of = session

\* A mutation is sent: of the review once its files were entered (only there
\* are a diff to comment and a draft to submit), from the page once drawn.
Send(p, kind) ==
  /\ session # None
  /\ post[p].at = "idle"
  /\ IF kind = "page" THEN s_[session].paged ELSE s_[session].panel # "none"
  /\ post' = [post EXCEPT ![p] = [NoPost EXCEPT !.at = "sent", !.of = session,
                                                !.kind = kind]]
  /\ UNCHANGED <<session, opened, s_, fetch, caller, version>>

\* GitHub takes the mutation, or the sidecar refuses it: the head has moved.
Take(p) ==
  /\ post[p].at = "sent"
  /\ \/ /\ version < MaxVersion
        /\ version' = version + 1
        /\ post' = [post EXCEPT ![p].at = "applied", ![p].sees = version + 1]
     \/ /\ post[p].kind = "review"
        /\ post' = [post EXCEPT ![p].at = "refused"]
        /\ UNCHANGED version
  /\ UNCHANGED <<session, opened, s_, fetch, caller>>

\* The answer of a mutation that was applied.  In the files the list is dropped
\* and asked for again; from the page it is dropped and the page opened again.
\* What a session that is gone holds is not modelled.
Applied(p) ==
  /\ post[p].at = "applied"
  /\ post' = [post EXCEPT ![p] = [NoPost EXCEPT !.at = "done"]]
  /\ LET t == Told(Invalidate(s_[session]), post[p].sees) IN
     \/ ~Live(p) /\ UNCHANGED <<s_, fetch, caller>>
     \/ Live(p) /\ post[p].kind # "page" /\ Refresh(session, t)
     \/ /\ Live(p) /\ post[p].kind = "page"
        /\ s_' = [s_ EXCEPT ![session] = t]
        /\ OpenPage(session, caller)
        /\ UNCHANGED fetch
  /\ UNCHANGED <<session, opened, version>>

\* The answer that the head has moved: handle_conflict asks for the pull request.
Refused(p) ==
  /\ post[p].at = "refused"
  /\ post' = [post EXCEPT ![p] =
                IF Live(p) /\ s_[session].panel # "none"
                  THEN [@ EXCEPT !.at = "getpr"]
                  ELSE [NoPost EXCEPT !.at = "done"]]
  /\ UNCHANGED <<session, opened, s_, fetch, caller, version>>

\* GitHub answers get_pr.
ReadPR(p) ==
  /\ post[p].at = "getpr"
  /\ post' = [post EXCEPT ![p].at = "gotpr", ![p].sees = version]
  /\ UNCHANGED <<session, opened, s_, fetch, caller, version>>

\* handle_conflict's callback.  The file it shows again is rendered when its
\* blobs have come.
Refetched(p) ==
  /\ post[p].at = "gotpr"
  /\ post' = [post EXCEPT ![p] = [NoPost EXCEPT !.at = "done"]]
  /\ s_' = IF Live(p)
             THEN [s_ EXCEPT ![session] =
                     Told(Invalidate(@), post[p].sees)]
             ELSE s_
  /\ UNCHANGED <<session, opened, fetch, caller, version>>

\* A request of the mutation fails, applied or not.
Fail(p) ==
  /\ post[p].at \notin {"idle", "done"}
  /\ post' = [post EXCEPT ![p] = [NoPost EXCEPT !.at = "done"]]
  /\ UNCHANGED <<session, opened, s_, fetch, caller, version>>

\* Somebody else writes to the pull request, or pushes to its head.
Push ==
  /\ version < MaxVersion
  /\ version' = version + 1
  /\ UNCHANGED <<session, opened, s_, fetch, caller, post>>

-----------------------------------------------------------------------------
(* The session.                                                            *)

\* end_session: pages are left, and what is queued on the session is never
\* called.  What its requests in flight have read is dropped here already.
Ended(cs) ==
  [c \in Callers |-> IF cs[c].at = "queued" THEN NoCaller
                     ELSE [Disarm(cs)[c] EXCEPT !.entered = FALSE]]

Orphaned ==
  [k \in Fetches |-> IF fetch[k].at = "free" THEN NoFetch
                     ELSE [fetch[k] EXCEPT !.at = "sent", !.sees = None]]

\* open_session ends the session there is; it lands on the page or the files.
Open(s, land) ==
  /\ s \notin opened
  /\ opened' = opened \cup {s}
  /\ session' = s
  /\ s_' = [x \in Sessions |->
              IF x = s /\ land = "files" THEN [NewSession EXCEPT !.panel = "open"]
              ELSE NewSession]
  /\ IF land = "page" THEN OpenPage(s, Ended(caller)) ELSE caller' = Ended(caller)
  /\ fetch' = Orphaned
  /\ UNCHANGED <<post, version>>

End ==
  /\ session # None
  /\ session' = None
  /\ s_' = [s \in Sessions |-> NewSession]
  /\ caller' = Ended(caller)
  /\ fetch' = Orphaned
  /\ UNCHANGED <<opened, post, version>>

\* enter_files: the panel is built or shown, the page left.
EnterFiles ==
  /\ session # None
  /\ s_' = [s_ EXCEPT ![session].panel = "open"]
  /\ caller' = [c \in Callers |->
                  [Disarm(caller)[c] EXCEPT !.entered = @ \/ caller[c].for = "page"]]
  /\ UNCHANGED <<session, opened, fetch, post, version>>

\* show_file's render: the view is there, and threads are refreshed.
Render ==
  /\ session # None
  /\ s_[session].panel = "open"
  /\ Refresh(session, [s_[session] EXCEPT !.view = TRUE])
  /\ UNCHANGED <<session, opened, post, version>>

\* M.overview.
Overview ==
  /\ session # None
  /\ OpenPage(session, caller)
  /\ UNCHANGED <<session, opened, s_, fetch, post, version>>

-----------------------------------------------------------------------------
User ==
  \/ \E s \in Sessions, land \in {"page", "files"} : Open(s, land)
  \/ End \/ EnterFiles \/ Render \/ Overview
  \/ \E p \in Posts, kind \in {"review", "page"} : Send(p, kind)

Next ==
  \/ User
  \/ \E c \in Callers : Timeline(c) \/ Checks(c)
  \/ \E k \in Fetches : Read(k) \/ Answer(k)
  \/ \E s \in Sessions : Expire(s)
  \/ \E p \in Posts : \/ Take(p) \/ Applied(p) \/ Refused(p) \/ ReadPR(p)
                      \/ Refetched(p) \/ Fail(p)
  \/ Push

\* Every request of the sidecar client is answered, by its timer at the latest.
Spec ==
  /\ Init /\ [][Next]_vars
  /\ \A k \in Fetches : WF_vars(Answer(k))

-----------------------------------------------------------------------------
\* Every variable has its type.
TypeOK ==
  /\ session \in Sessions \cup {None}
  /\ opened \subseteq Sessions
  /\ s_ \in [Sessions -> Session]
  /\ fetch \in [Fetches -> Fetch]
  /\ caller \in [Callers -> Caller]
  /\ post \in [Posts -> Post]
  /\ version \in Version

InFlight(s, gen) ==
  {k \in Fetches : fetch[k].at # "free" /\ fetch[k].of = s /\ fetch[k].gen = gen}

\* The waiters of the live session are exactly the callers that were queued and
\* not called: none is lost when a fetch is superseded or a stale list is
\* revalidated, none is called twice, and the fetch that will call them is in
\* flight, shared by all the callers of its generation (ensure, revalidate,
\* deliver).  (And every variable has its type.)
CallersKept ==
  /\ TypeOK
  /\ session # None =>
       LET t == s_[session] IN
       /\ t.waiters = {c \in Callers : caller[c].at = "queued"}
       /\ t.inflight => InFlight(session, t.fetchGen) # {}
       /\ t.waiters # {} => t.inflight
       /\ \A gen \in 0 .. t.gen : Cardinality(InFlight(session, gen)) <= 1

\* Once the threads have been asked for again after a mutation, no list read
\* before it lands (deliver's generation check).
NoSupersededList ==
  [][session # None /\ session' = session =>
       LET t == s_[session]
           u == s_'[session]
       IN u.threads \notin {None, t.threads} /\ t.fetchGen = t.gen
            => u.threads >= t.told]_vars

\* A page is drawn over the files only if it was claimed after the files were
\* last entered (page_gen): here, the files were not entered while it was
\* under way.
PageOverFiles ==
  [][session # None /\ session' = session =>
       (s_[session].panel = "open" /\ s_'[session].panel = "hidden"
          => \E c \in Callers : /\ caller[c].at = "checks" /\ caller'[c].at = "free"
                                /\ ~caller[c].entered)]_vars

\* Every callback of ensure is run, unless its session ends (deliver, ensure).
CallersAnswered ==
  \A c \in Callers : caller[c].at = "queued" ~> caller[c].at # "queued"

\* The list a session shows holds every change it invalidated the list for:
\* what a fetch in flight read before the change does not land on top of it.
NoListBeforeChange ==
  session # None /\ s_[session].threads # None
    => s_[session].threads >= s_[session].told
=============================================================================
