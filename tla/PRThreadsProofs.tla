-------------------------- MODULE PRThreadsProofs --------------------------
(***************************************************************************)
(* Proofs about PRThreads, for any number of sessions, callers, fetches,   *)
(* mutations and writes to the pull request.                               *)
(***************************************************************************)
EXTENDS PRThreads, FiniteSetTheorems, TLAPS

\* Request k of the requests fs is under way for session s.
UnderWay(fs, s, k) == fs[k].at # "free" /\ fs[k].of = s

Queued(cs) == {c \in Callers : cs[c].at = "queued"}

\* A session s with fields t, among the requests fs and the callers cs.  Its
\* waiters are the callers queued, and are served by a request in flight.
WaitersInv(s, t, fs, cs) ==
  /\ t.waiters = Queued(cs)
  /\ t.waiters # {} => t.inflight
  /\ t.inflight => \E k \in Fetches : UnderWay(fs, s, k) /\ fs[k].gen = t.fetchGen

\* threads_fetch_gen is the generation of the latest request, which the session
\* awaits; there is one request of each generation, and a list that has landed
\* while one is in flight was asked for again since.
FetchesInv(s, t, fs) ==
  /\ t.fetchGen <= t.gen
  /\ t.inflight /\ t.threads # None => t.fetchGen = t.gen
  /\ \A k \in Fetches : UnderWay(fs, s, k) =>
       /\ fs[k].gen <= t.fetchGen
       /\ fs[k].gen = t.fetchGen => t.inflight
  /\ \A k, l \in Fetches :
       UnderWay(fs, s, k) /\ UnderWay(fs, s, l) /\ fs[k].gen = fs[l].gen => k = l

\* A list read for a request of the present generation holds what the session
\* was told of.
ListsInv(s, t, fs) ==
  \A k \in Fetches :
    UnderWay(fs, s, k) /\ fs[k].at = "read" /\ fs[k].gen = t.gen
      => fs[k].sees \in Version \cup {Null} /\ Decoded(fs[k].sees) >= t.told

Kept(s, t, fs, cs) ==
  WaitersInv(s, t, fs, cs) /\ FetchesInv(s, t, fs) /\ ListsInv(s, t, fs)

\* Requests are of sessions that were opened, the live one among them.
OpenedInv ==
  /\ session \in opened \cup {None}
  /\ \A k \in Fetches : fetch[k].at # "free" => fetch[k].of \in opened

\* Nothing was told of or seen that is not written yet.
ToldInv ==
  /\ session # None => s_[session].told <= version
  /\ \A p \in Posts : post[p].sees <= version

\* The files were not entered under a page that is still ours, of a session.
PagesInv ==
  \A c \in Callers :
    caller[c].for = "page" => ~caller[c].entered /\ caller[c].of \in Sessions

\* The inductive invariant.
ThreadsInv ==
  /\ TypeOK /\ OpenedInv /\ ToldInv /\ PagesInv
  /\ session # None => Kept(session, s_[session], fetch, caller)
-----------------------------------------------------------------------------
(* threads.lua, on one session.                                            *)

LEMMA NewTypes ==
  /\ NewSession \in Session
  /\ NoFetch \in Fetch /\ NoCaller \in Caller /\ NoPost \in Post
BY PRThreadsAssumption
DEF NewSession, Session, NoFetch, Fetch, NoCaller, Caller, NoPost, Post, Version

\* What the operators on a session's fields do.
LEMMA QueueFields ==
  ASSUME NEW t \in Session, NEW c \in Callers
  PROVE  /\ Queue(t, c) \in Session
         /\ Queue(t, c).inflight = TRUE
         /\ Queue(t, c).waiters = t.waiters \cup {c}
         /\ Queue(t, c).fetchGen = t.gen /\ Queue(t, c).gen = t.gen
         /\ Queue(t, c).threads = t.threads /\ Queue(t, c).told = t.told
         /\ Queue(t, c).panel = t.panel
BY DEF Queue, Session

LEMMA RevalidatedFields ==
  ASSUME NEW t \in Session
  PROVE  /\ Revalidated(t) \in Session
         /\ Revalidated(t).inflight = TRUE
         /\ Revalidated(t).waiters = {}
         /\ Revalidated(t).fetchGen = t.gen /\ Revalidated(t).gen = t.gen
         /\ Revalidated(t).threads = t.threads /\ Revalidated(t).told = t.told
         /\ Revalidated(t).panel = t.panel
BY DEF Revalidated, Session

LEMMA InvalidateFields ==
  ASSUME NEW t \in Session
  PROVE  /\ Invalidate(t) \in Session
         /\ Invalidate(t).threads = None /\ Invalidate(t).gen = t.gen + 1
         /\ Invalidate(t).fetchGen = t.fetchGen
         /\ Invalidate(t).inflight = t.inflight /\ Invalidate(t).waiters = t.waiters
         /\ Invalidate(t).told = t.told /\ Invalidate(t).panel = t.panel
<1>1. t.gen + 1 \in Nat
  BY DEF Session
<1>2. Invalidate(t) \in Session
  BY <1>1 DEF Invalidate, Session
<1>3. Invalidate(t).threads = None /\ Invalidate(t).gen = t.gen + 1
  BY DEF Invalidate, Session
<1>4. /\ Invalidate(t).fetchGen = t.fetchGen
      /\ Invalidate(t).inflight = t.inflight /\ Invalidate(t).waiters = t.waiters
      /\ Invalidate(t).told = t.told /\ Invalidate(t).panel = t.panel
  BY DEF Invalidate, Session
<1> QED
  BY <1>2, <1>3, <1>4

\* invalidate, for a write the session is told of: no request in flight is of
\* the new generation.
LEMMA InvalidateKept ==
  ASSUME NEW s, NEW t \in Session, NEW fs, NEW cs, NEW v \in Version,
         fs \in [Fetches -> Fetch], Kept(s, t, fs, cs),
         NEW u, u = Told(Invalidate(t), v)
  PROVE  /\ u \in Session
         /\ Kept(s, u, fs, cs)
         /\ u.threads = None /\ u.panel = t.panel
         /\ u.told \in {v, t.told}
<1> DEFINE i == Invalidate(t)
<1>1. /\ i \in Session /\ i.threads = None /\ i.gen = t.gen + 1 /\ i.fetchGen = t.fetchGen
      /\ i.inflight = t.inflight /\ i.waiters = t.waiters /\ i.told = t.told
      /\ i.panel = t.panel
  BY InvalidateFields
<1> HIDE DEF i
<1>2. /\ u \in Session /\ u.threads = None /\ u.gen = t.gen + 1 /\ u.fetchGen = t.fetchGen
      /\ u.inflight = t.inflight /\ u.waiters = t.waiters /\ u.told \in {v, t.told}
      /\ u.panel = t.panel
  <2>1. \A w \in Version : /\ [i EXCEPT !.told = w] \in Session
                            /\ [i EXCEPT !.told = w].threads = i.threads
                            /\ [i EXCEPT !.told = w].gen = i.gen
                            /\ [i EXCEPT !.told = w].fetchGen = i.fetchGen
                            /\ [i EXCEPT !.told = w].inflight = i.inflight
                            /\ [i EXCEPT !.told = w].waiters = i.waiters
                            /\ [i EXCEPT !.told = w].told = w
                            /\ [i EXCEPT !.told = w].panel = i.panel
    BY <1>1 DEF Session
  <2>2. i.told \in Version /\ u = Told(i, v) /\ (u = [i EXCEPT !.told = v] \/ u = [i EXCEPT !.told = i.told])
    BY <1>1 DEF Told, Session, i
  <2>3. \E w \in {v, i.told} : u = [i EXCEPT !.told = w]
    BY <2>2
  <2> QED
    BY <1>1, <2>1, <2>2, <2>3
<1>3. t.gen \in Nat /\ t.fetchGen \in Nat /\ \A k \in Fetches : fs[k].gen \in Nat
  BY DEF Session, Fetch
<1>4. WaitersInv(s, u, fs, cs)
  BY <1>2 DEF Kept, WaitersInv
<1>5. FetchesInv(s, u, fs)
  BY <1>2, <1>3 DEF Kept, FetchesInv
<1>6. ListsInv(s, u, fs)
  <2>1. \A k \in Fetches : UnderWay(fs, s, k) => fs[k].gen # u.gen
    BY <1>2, <1>3 DEF Kept, FetchesInv
  <2> QED
    BY <2>1 DEF ListsInv
<1> QED
  BY <1>2, <1>4, <1>5, <1>6 DEF Kept

\* A request is made where none of the present generation is in flight.
LEMMA RequestKept ==
  ASSUME NEW s \in Sessions, NEW t \in Session, NEW u \in Session,
         fetch \in [Fetches -> Fetch], FetchesInv(s, t, fetch), ListsInv(s, t, fetch),
         ~Joins(t), Request(s, t),
         u.fetchGen = t.gen, u.gen = t.gen, u.inflight = TRUE, u.told = t.told
  PROVE  /\ fetch' \in [Fetches -> Fetch]
         /\ FetchesInv(s, u, fetch') /\ ListsInv(s, u, fetch')
         /\ \E k \in Fetches : UnderWay(fetch', s, k) /\ fetch'[k].gen = u.fetchGen
         /\ \A k \in Fetches : fetch'[k] = fetch[k] \/ fetch'[k].of = s
<1> DEFINE F == FreeFetch
           r == [at |-> "sent", of |-> s, gen |-> t.gen, sees |-> None]
<1>1. F \in Fetches /\ fetch[F].at = "free"
  BY DEF Request, HasFree, FreeFetch
<1>2. t.gen \in Nat /\ t.fetchGen \in Nat /\ \A k \in Fetches : fetch[k].gen \in Nat
  BY DEF Session, Fetch
<1>3. r \in Fetch
  BY <1>2 DEF Fetch
<1>4. fetch' = [fetch EXCEPT ![F] = r]
  BY DEF Request
<1>5. r.at = "sent" /\ r.of = s /\ r.gen = t.gen
  OBVIOUS
<1> HIDE DEF F, r
<1>6. /\ fetch' \in [Fetches -> Fetch] /\ fetch'[F] = r
      /\ \A k \in Fetches : k # F => fetch'[k] = fetch[k]
  BY <1>1, <1>3, <1>4
<1>7. \A k \in Fetches : UnderWay(fetch, s, k) => fetch[k].gen < t.gen
  BY <1>2 DEF FetchesInv, Joins
<1>8. FetchesInv(s, u, fetch')
  BY <1>2, <1>5, <1>6, <1>7 DEF FetchesInv, UnderWay
<1>9. ListsInv(s, u, fetch')
  BY <1>5, <1>6 DEF ListsInv, UnderWay
<1> QED
  BY <1>1, <1>5, <1>6, <1>8, <1>9 DEF UnderWay

\* What a step on session s, whose fields were t, leaves of its list and panel.
Carried(s, t) ==
  /\ s_' \in [Sessions -> Session]
  /\ fetch' \in [Fetches -> Fetch]
  /\ Kept(s, s_'[s], fetch', caller')
  /\ s_'[s].told = t.told /\ s_'[s].threads = t.threads /\ s_'[s].panel = t.panel
  /\ \A k \in Fetches : fetch'[k] = fetch[k] \/ fetch'[k].of = s

\* ensure: the caller is called at once, or queued behind a request.
LEMMA EnsureKept ==
  ASSUME TypeOK, NEW s \in Sessions, NEW t \in Session, NEW c \in Callers,
         NEW cs \in [Callers -> Caller], NEW queued \in Caller, NEW now \in Caller,
         cs[c].at # "queued", queued.at = "queued", now.at # "queued",
         Kept(s, t, fetch, cs), Ensure(s, t, c, cs, queued, now)
  PROVE  /\ Carried(s, t)
         /\ caller' = [cs EXCEPT ![c] = queued] \/ caller' = [cs EXCEPT ![c] = now]
<1>0. fetch \in [Fetches -> Fetch] /\ s_ \in [Sessions -> Session]
  BY DEF TypeOK
<1>1. CASE /\ s_' = [s_ EXCEPT ![s] = t]
           /\ caller' = [cs EXCEPT ![c] = now]
           /\ UNCHANGED fetch
  <2>1. s_' \in [Sessions -> Session] /\ s_'[s] = t
    BY <1>0, <1>1
  <2>2. Queued(caller') = Queued(cs)
    BY <1>1 DEF Queued
  <2>3. Kept(s, t, fetch', caller')
    BY <1>1, <2>2 DEF Kept, WaitersInv
  <2> QED
    BY <1>0, <1>1, <2>1, <2>3 DEF Carried
<1>2. CASE /\ s_' = [s_ EXCEPT ![s] = Queue(t, c)]
           /\ caller' = [cs EXCEPT ![c] = queued]
           /\ IF Joins(t) THEN UNCHANGED fetch ELSE Request(s, t)
  <2> DEFINE u == Queue(t, c)
  <2>0. /\ u \in Session /\ u.inflight = TRUE /\ u.waiters = t.waiters \cup {c}
        /\ u.fetchGen = t.gen /\ u.gen = t.gen /\ u.threads = t.threads /\ u.told = t.told
        /\ u.panel = t.panel
    BY QueueFields
  <2> HIDE DEF u
  <2>1. s_' \in [Sessions -> Session] /\ s_'[s] = u
    BY <1>0, <1>2, <2>0 DEF u
  <2>2. Queued(caller') = Queued(cs) \cup {c}
    BY <1>2 DEF Queued
  <2>3. /\ fetch' \in [Fetches -> Fetch]
        /\ FetchesInv(s, u, fetch') /\ ListsInv(s, u, fetch')
        /\ \E k \in Fetches : UnderWay(fetch', s, k) /\ fetch'[k].gen = u.fetchGen
        /\ \A k \in Fetches : fetch'[k] = fetch[k] \/ fetch'[k].of = s
    <3>1. CASE Joins(t)
      <4>1. fetch' = fetch /\ u.fetchGen = t.fetchGen /\ t.inflight
        BY <1>2, <2>0, <3>1 DEF Joins
      <4>2. u.fetchGen <= u.gen
        BY <2>0 DEF Session
      <4> QED
        BY <1>0, <2>0, <4>1, <4>2 DEF Kept, WaitersInv, FetchesInv, ListsInv
    <3>2. CASE ~Joins(t)
      BY <1>0, <1>2, <2>0, <3>2, RequestKept DEF Kept
    <3> QED
      BY <3>1, <3>2
  <2>4. WaitersInv(s, u, fetch', caller')
    BY <2>0, <2>2, <2>3 DEF Kept, WaitersInv
  <2> QED
    BY <1>2, <2>0, <2>1, <2>3, <2>4 DEF Carried, Kept
<1> QED
  BY <1>1, <1>2 DEF Ensure

\* revalidate of a list that has landed: nobody waits.
LEMMA RevalidateKept ==
  ASSUME TypeOK, NEW s \in Sessions, NEW t \in Session, t.threads # None,
         Kept(s, t, fetch, caller), Revalidate(s, t)
  PROVE  Carried(s, t) /\ caller' = caller
<1>0. fetch \in [Fetches -> Fetch] /\ s_ \in [Sessions -> Session] /\ caller' = caller
  BY DEF TypeOK, Revalidate
<1>1. CASE s_' = [s_ EXCEPT ![s] = t] /\ UNCHANGED fetch
  <2>1. s_' \in [Sessions -> Session] /\ s_'[s] = t
    BY <1>0, <1>1
  <2> QED
    BY <1>0, <1>1, <2>1 DEF Carried
<1>2. CASE ~Joins(t) /\ s_' = [s_ EXCEPT ![s] = Revalidated(t)] /\ Request(s, t)
  <2> DEFINE u == Revalidated(t)
  <2>0. /\ u \in Session /\ u.inflight = TRUE /\ u.waiters = {}
        /\ u.fetchGen = t.gen /\ u.gen = t.gen /\ u.threads = t.threads /\ u.told = t.told
        /\ u.panel = t.panel
    BY RevalidatedFields
  <2> HIDE DEF u
  <2>1. s_' \in [Sessions -> Session] /\ s_'[s] = u
    BY <1>0, <1>2, <2>0 DEF u
  <2>2. t.waiters = {}
    BY <1>2 DEF Kept, WaitersInv, FetchesInv, Joins
  <2>3. /\ fetch' \in [Fetches -> Fetch]
        /\ FetchesInv(s, u, fetch') /\ ListsInv(s, u, fetch')
        /\ \E k \in Fetches : UnderWay(fetch', s, k) /\ fetch'[k].gen = u.fetchGen
        /\ \A k \in Fetches : fetch'[k] = fetch[k] \/ fetch'[k].of = s
    BY <1>0, <1>2, <2>0, RequestKept DEF Kept
  <2>4. WaitersInv(s, u, fetch', caller')
    BY <1>0, <2>0, <2>2, <2>3 DEF Kept, WaitersInv
  <2> QED
    BY <1>0, <2>0, <2>1, <2>3, <2>4 DEF Carried, Kept
<1> QED
  BY <1>1, <1>2 DEF Revalidate

\* refresh.
LEMMA RefreshKept ==
  ASSUME TypeOK, PagesInv, NEW s \in Sessions, NEW t \in Session,
         Kept(s, t, fetch, caller), Refresh(s, t)
  PROVE  Carried(s, t) /\ PagesInv' /\ caller' \in [Callers -> Caller]
<1>0. /\ fetch \in [Fetches -> Fetch] /\ s_ \in [Sessions -> Session]
      /\ caller \in [Callers -> Caller]
  BY DEF TypeOK
<1>1. CASE s_' = [s_ EXCEPT ![s] = t] /\ UNCHANGED <<fetch, caller>>
  <2>1. s_' \in [Sessions -> Session] /\ s_'[s] = t
    BY <1>0, <1>1
  <2> QED
    BY <1>0, <1>1, <2>1 DEF Carried, PagesInv
<1>2. CASE t.threads # None /\ Revalidate(s, t)
  BY <1>0, <1>2, RevalidateKept DEF PagesInv
<1> DEFINE q == [NoCaller EXCEPT !.at = "queued", !.of = s]
<1>3. CASE HasFree(caller) /\ Ensure(s, t, FreeCaller, caller, q, NoCaller)
  <2>1. FreeCaller \in Callers /\ caller[FreeCaller].at = "free"
    BY <1>0, <1>3 DEF HasFree, FreeCaller
  <2>2. /\ q \in Caller /\ q.at = "queued" /\ q.for = "paint"
        /\ NoCaller \in Caller /\ NoCaller.at = "free" /\ NoCaller.for = "paint"
    BY DEF NoCaller, Caller
  <2> HIDE DEF q
  <2>3. /\ Carried(s, t)
        /\ \/ caller' = [caller EXCEPT ![FreeCaller] = q]
           \/ caller' = [caller EXCEPT ![FreeCaller] = NoCaller]
    BY <1>0, <1>3, <2>1, <2>2, EnsureKept
  <2>4. caller' \in [Callers -> Caller]
        /\ \A d \in Callers : caller'[d] = caller[d] \/ caller'[d].for = "paint"
    BY <1>0, <2>1, <2>2, <2>3
  <2> QED
    BY <2>3, <2>4 DEF PagesInv
<1> QED
  BY <1>1, <1>2, <1>3 DEF Refresh
-----------------------------------------------------------------------------
(* Steps that leave the threads of the session alone.                      *)

LEMMA LiveTyped ==
  ASSUME TypeOK, session # None
  PROVE  session \in Sessions /\ s_[session] \in Session
BY DEF TypeOK

\* The fields the invariant speaks of are the same, and the same callers wait.
LEMMA KeptSame ==
  ASSUME NEW s, NEW t, NEW u, NEW fs, NEW cs, NEW ds, Kept(s, t, fs, cs),
         u.waiters = t.waiters, u.inflight = t.inflight, u.gen = t.gen,
         u.fetchGen = t.fetchGen, u.threads = t.threads, u.told = t.told,
         Queued(ds) = Queued(cs)
  PROVE  Kept(s, u, fs, ds)
BY DEF Kept, WaitersInv, FetchesInv, ListsInv

\* A step of the live session.
LEMMA LiveStep ==
  ASSUME ThreadsInv, session # None, session' = session, opened' = opened,
         caller' \in [Callers -> Caller], PagesInv',
         post' \in [Posts -> Post], version' \in Version,
         \A p \in Posts : post'[p].sees <= version',
         s_' \in [Sessions -> Session], fetch' \in [Fetches -> Fetch],
         Kept(session, s_'[session], fetch', caller'),
         s_'[session].told <= version',
         \A k \in Fetches : \/ fetch'[k] = fetch[k] \/ fetch'[k].at = "free"
                            \/ fetch'[k].of = session
  PROVE  ThreadsInv'
<1>1. TypeOK'
  BY DEF ThreadsInv, TypeOK
<1>2. OpenedInv'
  BY DEF ThreadsInv, OpenedInv
<1>3. ToldInv'
  BY DEF ToldInv
<1> QED
  BY <1>1, <1>2, <1>3 DEF ThreadsInv

\* A step that changes neither sessions nor requests.
LEMMA CallersStep ==
  ASSUME ThreadsInv, session' = session, opened' = opened, s_' = s_, fetch' = fetch,
         caller' \in [Callers -> Caller], PagesInv', Queued(caller') = Queued(caller),
         post' \in [Posts -> Post], version' \in Version, version <= version',
         \A p \in Posts : post'[p].sees <= version'
  PROVE  ThreadsInv'
<1>1. TypeOK'
  BY DEF ThreadsInv, TypeOK
<1>2. OpenedInv'
  BY DEF ThreadsInv, OpenedInv
<1>3. ToldInv'
  <2>1. session # None => s_[session].told \in Nat /\ s_[session].told <= version
    BY LiveTyped DEF ThreadsInv, ToldInv, Session, Version
  <2>2. version \in Nat /\ version' \in Nat
    BY DEF ThreadsInv, TypeOK, Version
  <2> QED
    BY <2>1, <2>2 DEF ToldInv
<1>4. session # None => Kept(session, s_[session], fetch, caller')
  BY KeptSame DEF ThreadsInv
<1> QED
  BY <1>1, <1>2, <1>3, <1>4 DEF ThreadsInv

LEMMA PostsSeen ==
  ASSUME ThreadsInv
  PROVE  /\ version \in Version /\ version \in Nat /\ post \in [Posts -> Post]
         /\ \A p \in Posts : post[p].sees \in Version /\ post[p].sees <= version
         /\ \A p \in Posts : post[p].sees \in Nat
BY DEF ThreadsInv, TypeOK, ToldInv, Version, Post

LEMMA DisarmCallers ==
  ASSUME NEW cs \in [Callers -> Caller]
  PROVE  /\ Disarm(cs) \in [Callers -> Caller]
         /\ \A c \in Callers : /\ Disarm(cs)[c].at = cs[c].at
                               /\ Disarm(cs)[c].of = cs[c].of
                               /\ Disarm(cs)[c].entered = cs[c].entered
                               /\ Disarm(cs)[c].for # "page"
         /\ Queued(Disarm(cs)) = Queued(cs)
<1>1. \A c \in Callers : cs[c] \in Caller
  OBVIOUS
<1>2. \A c \in Callers :
        /\ Disarm(cs)[c] \in Caller
        /\ Disarm(cs)[c].at = cs[c].at
        /\ Disarm(cs)[c].of = cs[c].of
        /\ Disarm(cs)[c].entered = cs[c].entered
        /\ Disarm(cs)[c].for # "page"
  BY <1>1 DEF Disarm, Caller
<1> QED
  BY <1>2 DEF Disarm, Queued

\* M.open claims the page for a caller of its own.
LEMMA OpenPageCallers ==
  ASSUME NEW s \in Sessions, NEW cs \in [Callers -> Caller], OpenPage(s, cs)
  PROVE  caller' \in [Callers -> Caller] /\ PagesInv' /\ Queued(caller') = Queued(cs)
<1> DEFINE f == CHOOSE c \in Callers : cs[c].at = "free"
           r == [NoCaller EXCEPT !.at = "timeline", !.of = s, !.for = "page"]
           ds == Disarm(cs)
<1>1. f \in Callers /\ cs[f].at = "free"
  BY DEF OpenPage, HasFree
<1>2. r \in Caller /\ r.at = "timeline" /\ r.entered = FALSE /\ r.of = s
  BY DEF NoCaller, Caller
<1>3. caller' = [ds EXCEPT ![f] = r]
  BY DEF OpenPage
<1>4. /\ ds \in [Callers -> Caller]
      /\ \A c \in Callers : ds[c].at = cs[c].at /\ ds[c].for # "page"
  BY DisarmCallers
<1> HIDE DEF f, r, ds
<1>5. /\ caller' \in [Callers -> Caller] /\ caller'[f] = r
      /\ \A c \in Callers : c # f => caller'[c] = ds[c]
  BY <1>1, <1>2, <1>3, <1>4
<1>6. PagesInv'
  BY <1>2, <1>4, <1>5 DEF PagesInv
<1>7. Queued(caller') = Queued(cs)
  BY <1>1, <1>2, <1>4, <1>5 DEF Queued
<1> QED
  BY <1>5, <1>6, <1>7

\* The posts on their way, a write of somebody else, a page asked for.
LEMMA PostsStep ==
  ASSUME ThreadsInv,
         \/ \E p \in Posts, kind \in {"review", "page"} : Send(p, kind)
         \/ \E p \in Posts : Take(p) \/ Refused(p) \/ ReadPR(p) \/ Fail(p)
         \/ Push
  PROVE  ThreadsInv'
<1>0. /\ version \in Version /\ version \in Nat /\ post \in [Posts -> Post]
      /\ \A p \in Posts : post[p].sees \in Version /\ post[p].sees <= version
      /\ \A p \in Posts : post[p].sees \in Nat
  BY PostsSeen
<1>1. /\ session' = session /\ opened' = opened /\ s_' = s_ /\ fetch' = fetch
      /\ caller' = caller
  BY DEF Send, Take, Refused, ReadPR, Fail, Push
<1>2. ASSUME NEW p \in Posts, post' = [post EXCEPT ![p] = post'[p]], post'[p] \in Post,
             post'[p].sees <= version', version' \in Version, version <= version'
      PROVE  ThreadsInv'
  <2>1. post' \in [Posts -> Post]
    BY <1>0, <1>2
  <2>2. \A q \in Posts : post'[q].sees <= version'
    <3>1. version' \in Nat
      BY <1>2 DEF Version
    <3>2. \A q \in Posts : q # p => post'[q] = post[q]
      BY <1>0, <1>2
    <3> QED
      BY <1>0, <1>2, <3>1, <3>2
  <2> QED
    BY <1>1, <1>2, <2>1, <2>2, CallersStep DEF ThreadsInv, PagesInv, TypeOK
<1>s. ASSUME NEW p \in Posts, post' = [post EXCEPT ![p] = post'[p]], post'[p] \in Post,
             post'[p].sees <= version, version' = version
      PROVE  ThreadsInv'
  BY <1>0, <1>2, <1>s
<1>n. [NoPost EXCEPT !.at = "done"] \in Post /\ [NoPost EXCEPT !.at = "done"].sees = 0
  BY PRThreadsAssumption DEF NoPost, Post, Version
<1>3. ASSUME NEW p \in Posts, NEW kind \in {"review", "page"}, Send(p, kind) PROVE ThreadsInv'
  <2> DEFINE r == [NoPost EXCEPT !.at = "sent", !.of = session, !.kind = kind]
  <2>1. r \in Post /\ r.sees = 0
    <3>1. session \in Sessions \cup {None} /\ 0 \in Version
      BY PRThreadsAssumption DEF ThreadsInv, TypeOK, Version
    <3> QED
      BY <3>1 DEF NoPost, Post
  <2>2. post' = [post EXCEPT ![p] = r] /\ version' = version
    BY <1>3 DEF Send
  <2> HIDE DEF r
  <2>3. post'[p] = r /\ post' = [post EXCEPT ![p] = post'[p]]
    BY <1>0, <2>2
  <2>4. post'[p] \in Post /\ post'[p].sees <= version
    BY <1>0, <2>1, <2>3
  <2> QED
    BY <1>s, <2>2, <2>3, <2>4
<1>4. ASSUME NEW p \in Posts, Take(p) PROVE ThreadsInv'
  <2>1. CASE /\ version < MaxVersion /\ version' = version + 1
             /\ post' = [post EXCEPT ![p].at = "applied", ![p].sees = version + 1]
    <3> DEFINE r == [post[p] EXCEPT !.at = "applied", !.sees = version + 1]
    <3>1. version + 1 \in Version /\ version <= version + 1
      BY <1>0, <2>1, PRThreadsAssumption DEF Version
    <3>2. r \in Post /\ r.sees = version + 1
      BY <1>0, <3>1 DEF Post
    <3>3. post' = [post EXCEPT ![p] = r]
      BY <1>0, <2>1
    <3> HIDE DEF r
    <3>4. post'[p] = r /\ post' = [post EXCEPT ![p] = post'[p]]
      BY <1>0, <3>3
    <3>5. post'[p] \in Post /\ post'[p].sees <= version'
      BY <1>0, <2>1, <3>1, <3>2, <3>4
    <3> QED
      BY <1>2, <2>1, <3>1, <3>4, <3>5
  <2>2. CASE post' = [post EXCEPT ![p].at = "refused"] /\ version' = version
    <3> DEFINE r == [post[p] EXCEPT !.at = "refused"]
    <3>1. r \in Post /\ r.sees = post[p].sees
      BY <1>0 DEF Post
    <3>2. post' = [post EXCEPT ![p] = r]
      BY <1>0, <2>2
    <3> HIDE DEF r
    <3> QED
      BY <1>0, <1>s, <2>2, <3>1, <3>2
  <2> QED
    BY <1>4, <2>1, <2>2 DEF Take
<1>5. ASSUME NEW p \in Posts, Refused(p) PROVE ThreadsInv'
  <2>1. \A r \in {[post[p] EXCEPT !.at = "getpr"], [NoPost EXCEPT !.at = "done"]} :
          r \in Post /\ r.sees <= version
    BY <1>0, <1>n DEF Post
  <2>2. \E r \in {[post[p] EXCEPT !.at = "getpr"], [NoPost EXCEPT !.at = "done"]} :
          post' = [post EXCEPT ![p] = r]
    BY <1>0, <1>5 DEF Refused
  <2>3. version' = version
    BY <1>5 DEF Refused
  <2> QED
    BY <1>0, <1>s, <2>1, <2>2, <2>3
<1>6. ASSUME NEW p \in Posts, ReadPR(p) PROVE ThreadsInv'
  <2> DEFINE r == [post[p] EXCEPT !.at = "gotpr", !.sees = version]
  <2>1. r \in Post /\ r.sees = version
    BY <1>0 DEF Post
  <2>2. post' = [post EXCEPT ![p] = r] /\ version' = version
    BY <1>0, <1>6 DEF ReadPR
  <2> HIDE DEF r
  <2>3. post'[p] = r /\ post' = [post EXCEPT ![p] = post'[p]]
    BY <1>0, <2>2
  <2>4. post'[p] \in Post /\ post'[p].sees <= version
    BY <1>0, <2>1, <2>3
  <2> QED
    BY <1>s, <2>2, <2>3, <2>4
<1>7. ASSUME NEW p \in Posts, Fail(p) PROVE ThreadsInv'
  <2>1. post' = [post EXCEPT ![p] = [NoPost EXCEPT !.at = "done"]] /\ version' = version
    BY <1>7 DEF Fail
  <2>2. post'[p] = [NoPost EXCEPT !.at = "done"] /\ post' = [post EXCEPT ![p] = post'[p]]
    BY <1>0, <2>1
  <2>3. post'[p] \in Post /\ post'[p].sees <= version
    BY <1>0, <1>n, <2>2
  <2> QED
    BY <1>s, <2>1, <2>2, <2>3
<1>8. CASE Push
  <2>1. version' \in Version /\ version <= version' /\ version' \in Nat /\ post' = post
    BY <1>0, <1>8, PRThreadsAssumption DEF Push, Version
  <2>2. \A p \in Posts : post'[p].sees <= version'
    BY <1>0, <2>1
  <2> QED
    BY <1>0, <1>1, <2>1, <2>2, CallersStep DEF ThreadsInv, PagesInv, TypeOK
<1> QED
  BY <1>3, <1>4, <1>5, <1>6, <1>7, <1>8
-----------------------------------------------------------------------------
(* The session, its pages and its files.                                   *)

LEMMA EndedCallers ==
  ASSUME NEW cs \in [Callers -> Caller]
  PROVE  /\ Ended(cs) \in [Callers -> Caller]
         /\ \A c \in Callers : Ended(cs)[c].for # "page"
         /\ Queued(Ended(cs)) = {}
<1>1. /\ Disarm(cs) \in [Callers -> Caller]
      /\ \A c \in Callers : Disarm(cs)[c].at = cs[c].at /\ Disarm(cs)[c].for # "page"
  BY DisarmCallers
<1>2. NoCaller \in Caller /\ NoCaller.at = "free" /\ NoCaller.for = "paint"
  BY DEF NoCaller, Caller
<1>3. \A c \in Callers :
        LET e == [Disarm(cs)[c] EXCEPT !.entered = FALSE] IN
        e \in Caller /\ e.at = cs[c].at /\ e.for # "page"
  <2>1. \A d \in Caller : LET e == [d EXCEPT !.entered = FALSE] IN
          e \in Caller /\ e.at = d.at /\ e.for = d.for
    BY DEF Caller
  <2>2. \A c \in Callers : Disarm(cs)[c] \in Caller
    BY <1>1
  <2> QED
    BY <1>1, <2>1, <2>2
<1>4. \A c \in Callers : /\ Ended(cs)[c] \in Caller
                         /\ Ended(cs)[c].at # "queued"
                         /\ Ended(cs)[c].for # "page"
  BY <1>2, <1>3 DEF Ended
<1> QED
  BY <1>4 DEF Ended, Queued

LEMMA OrphanedFetches ==
  ASSUME TypeOK
  PROVE  /\ Orphaned \in [Fetches -> Fetch]
         /\ \A k \in Fetches : /\ Orphaned[k].at # "free" => fetch[k].at # "free"
                               /\ Orphaned[k].at # "free" => Orphaned[k].of = fetch[k].of
<1>1. \A k \in Fetches :
        LET e == [fetch[k] EXCEPT !.at = "sent", !.sees = None] IN
        e \in Fetch /\ e.at = "sent" /\ e.of = fetch[k].of
  BY DEF TypeOK, Fetch
<1>2. NoFetch \in Fetch /\ NoFetch.at = "free"
  BY NewTypes DEF NoFetch
<1> QED
  BY <1>1, <1>2 DEF Orphaned

LEMMA OpenStep ==
  ASSUME ThreadsInv, NEW s \in Sessions, NEW land \in {"page", "files"}, Open(s, land)
  PROVE  ThreadsInv'
<1>0. /\ TypeOK /\ caller \in [Callers -> Caller] /\ s \in Sessions
      /\ session' = s /\ s \notin opened /\ opened' = opened \cup {s} /\ opened \subseteq Sessions
      /\ fetch' = Orphaned /\ post' = post /\ version' = version /\ s # None
  BY PRThreadsAssumption DEF Open, ThreadsInv, TypeOK
<1>1. caller' \in [Callers -> Caller] /\ PagesInv' /\ Queued(caller') = {}
  <2>1. CASE caller' = Ended(caller)
    BY <1>0, <2>1, EndedCallers DEF PagesInv
  <2>2. CASE OpenPage(s, Ended(caller))
    BY <1>0, <2>2, EndedCallers, OpenPageCallers
  <2> QED
    BY <2>1, <2>2 DEF Open
<1>2. /\ s_' \in [Sessions -> Session] /\ s_'[s].inflight = FALSE /\ s_'[s].waiters = {}
      /\ s_'[s].gen = 0 /\ s_'[s].fetchGen = 0 /\ s_'[s].told = 0
  <2>1. \A t \in {NewSession, [NewSession EXCEPT !.panel = "open"]} :
          /\ t \in Session /\ t.inflight = FALSE /\ t.waiters = {}
          /\ t.gen = 0 /\ t.fetchGen = 0 /\ t.told = 0
    <3>1. NewSession \in Session /\ [NewSession EXCEPT !.panel = "open"] \in Session
      BY NewTypes DEF Session
    <3> DEFINE o == [NewSession EXCEPT !.panel = "open"]
    <3>2. /\ NewSession.inflight = FALSE /\ NewSession.waiters = {}
          /\ NewSession.gen = 0 /\ NewSession.fetchGen = 0 /\ NewSession.told = 0
      BY DEF NewSession
    <3>3. o.inflight = FALSE /\ o.waiters = {} /\ o.gen = 0 /\ o.fetchGen = 0 /\ o.told = 0
      BY DEF NewSession
    <3> HIDE DEF o
    <3> QED
      BY <3>1, <3>2, <3>3 DEF o
  <2>2. \A x \in Sessions : s_'[x] \in {NewSession, [NewSession EXCEPT !.panel = "open"]}
    BY DEF Open
  <2>3. DOMAIN s_' = Sessions /\ s_' = [x \in Sessions |-> s_'[x]]
    BY DEF Open
  <2> QED
    BY <1>0, <2>1, <2>2, <2>3
<1>3. /\ fetch' \in [Fetches -> Fetch]
      /\ \A k \in Fetches : fetch'[k].at # "free" => fetch'[k].of \in opened
  BY <1>0, OrphanedFetches DEF ThreadsInv, OpenedInv
<1>4. \A k \in Fetches : ~UnderWay(fetch', s, k)
  BY <1>0, <1>3 DEF UnderWay
<1>5. Kept(s, s_'[s], fetch', caller')
  BY <1>1, <1>2, <1>4 DEF Kept, WaitersInv, FetchesInv, ListsInv
<1>6. TypeOK'
  BY <1>0, <1>1, <1>2, <1>3 DEF TypeOK
<1>7. OpenedInv'
  BY <1>0, <1>3 DEF OpenedInv
<1>8. ToldInv'
  <2>1. version \in Nat
    BY PostsSeen
  <2> QED
    BY <1>0, <1>2, <2>1 DEF ToldInv, ThreadsInv
<1> QED
  BY <1>0, <1>1, <1>5, <1>6, <1>7, <1>8 DEF ThreadsInv

LEMMA EndStep == ASSUME ThreadsInv, End PROVE ThreadsInv'
<1>0. /\ TypeOK /\ caller \in [Callers -> Caller]
      /\ session' = None /\ opened' = opened /\ caller' = Ended(caller)
      /\ fetch' = Orphaned /\ post' = post /\ version' = version
      /\ s_' = [s \in Sessions |-> NewSession]
  BY DEF End, ThreadsInv, TypeOK
<1>1. caller' \in [Callers -> Caller] /\ PagesInv'
  BY <1>0, EndedCallers DEF PagesInv
<1>2. s_' \in [Sessions -> Session]
  BY <1>0, NewTypes
<1>3. /\ fetch' \in [Fetches -> Fetch]
      /\ \A k \in Fetches : fetch'[k].at # "free" => fetch'[k].of \in opened
  BY <1>0, OrphanedFetches DEF ThreadsInv, OpenedInv
<1>4. TypeOK'
  BY <1>0, <1>1, <1>2, <1>3 DEF TypeOK
<1>5. OpenedInv' /\ ToldInv'
  BY <1>0, <1>3 DEF OpenedInv, ToldInv, ThreadsInv
<1> QED
  BY <1>0, <1>1, <1>4, <1>5 DEF ThreadsInv

\* What an action of the live session starts from.
LEMMA LiveFacts ==
  ASSUME ThreadsInv, session # None
  PROVE  /\ TypeOK /\ session \in Sessions /\ s_[session] \in Session
         /\ s_ \in [Sessions -> Session] /\ fetch \in [Fetches -> Fetch]
         /\ caller \in [Callers -> Caller]
         /\ post \in [Posts -> Post] /\ version \in Version /\ version \in Nat
         /\ \A p \in Posts : post[p].sees <= version
         /\ s_[session].told \in Nat /\ s_[session].told <= version
         /\ Kept(session, s_[session], fetch, caller)
<1>1. TypeOK /\ session \in Sessions /\ s_[session] \in Session
  BY LiveTyped DEF ThreadsInv
<1>2. s_[session].told \in Nat /\ version \in Nat
  BY <1>1 DEF Session, TypeOK, Version
<1> QED
  BY <1>1, <1>2, PostsSeen DEF ThreadsInv, TypeOK, ToldInv

\* A step that is carried by ensure, revalidate or refresh.
LEMMA CarriedStep ==
  ASSUME ThreadsInv, session # None, session' = session, opened' = opened,
         post' \in [Posts -> Post], version' = version,
         \A p \in Posts : post'[p].sees <= version,
         caller' \in [Callers -> Caller], PagesInv',
         NEW t, t.told <= version, Carried(session, t)
  PROVE  ThreadsInv'
BY LiveStep, LiveFacts DEF Carried

LEMMA EnterFilesStep == ASSUME ThreadsInv, EnterFiles PROVE ThreadsInv'
<1>0. /\ session # None /\ session' = session /\ opened' = opened /\ fetch' = fetch
      /\ post' = post /\ version' = version
      /\ s_' = [s_ EXCEPT ![session].panel = "open"]
  BY DEF EnterFiles
<1>1. /\ session \in Sessions /\ s_[session] \in Session /\ caller \in [Callers -> Caller]
      /\ s_ \in [Sessions -> Session] /\ Kept(session, s_[session], fetch, caller)
  BY <1>0, LiveFacts
<1> DEFINE u == [s_[session] EXCEPT !.panel = "open"]
           t == s_[session]
<1>2. /\ u \in Session /\ u.waiters = t.waiters /\ u.inflight = t.inflight
      /\ u.gen = t.gen /\ u.fetchGen = t.fetchGen /\ u.threads = t.threads
      /\ u.told = t.told
  BY <1>1 DEF Session
<1>3. s_' \in [Sessions -> Session] /\ s_'[session] = u
  BY <1>0, <1>1, <1>2
<1>4. \A c \in Callers :
        /\ caller'[c] = [Disarm(caller)[c] EXCEPT !.entered = @ \/ caller[c].for = "page"]
        /\ Disarm(caller)[c] \in Caller
        /\ Disarm(caller)[c].at = caller[c].at /\ Disarm(caller)[c].for # "page"
  BY <1>1, DisarmCallers DEF EnterFiles
<1>5. \A c \in Callers : /\ caller'[c] \in Caller /\ caller'[c].at = caller[c].at
                         /\ caller'[c].for # "page"
  BY <1>4 DEF Caller
<1>6. caller' \in [Callers -> Caller] /\ PagesInv' /\ Queued(caller') = Queued(caller)
  BY <1>5 DEF EnterFiles, PagesInv, Queued
<1> HIDE DEF u, t
<1>7. Kept(session, u, fetch, caller')
  BY <1>1, <1>2, <1>6, KeptSame DEF t
<1> QED
  BY <1>0, <1>2, <1>3, <1>6, <1>7, LiveStep, LiveFacts DEF t

LEMMA RenderStep == ASSUME ThreadsInv, Render PROVE ThreadsInv'
<1> DEFINE t == s_[session]
           u == [s_[session] EXCEPT !.view = TRUE]
<1>0. /\ session # None /\ session' = session /\ opened' = opened
      /\ post' = post /\ version' = version /\ Refresh(session, u)
  BY DEF Render
<1>1. /\ TypeOK /\ session \in Sessions /\ t \in Session
      /\ Kept(session, t, fetch, caller) /\ t.told <= version /\ PagesInv
  BY <1>0, LiveFacts DEF ThreadsInv
<1>2. /\ u \in Session /\ u.waiters = t.waiters /\ u.inflight = t.inflight
      /\ u.gen = t.gen /\ u.fetchGen = t.fetchGen /\ u.threads = t.threads
      /\ u.told = t.told
  BY <1>1 DEF Session
<1> HIDE DEF u, t
<1>3. Kept(session, u, fetch, caller)
  BY <1>1, <1>2, KeptSame
<1>4. Carried(session, u) /\ PagesInv' /\ caller' \in [Callers -> Caller]
  BY <1>0, <1>1, <1>2, <1>3, RefreshKept
<1> QED
  BY <1>0, <1>1, <1>2, <1>4, CarriedStep, LiveFacts

LEMMA OverviewStep == ASSUME ThreadsInv, Overview PROVE ThreadsInv'
<1>0. /\ session # None /\ session' = session /\ opened' = opened /\ s_' = s_
      /\ fetch' = fetch /\ post' = post /\ version' = version
      /\ OpenPage(session, caller)
  BY DEF Overview
<1>1. caller' \in [Callers -> Caller] /\ PagesInv' /\ Queued(caller') = Queued(caller)
  BY <1>0, LiveFacts, OpenPageCallers
<1>2. version <= version
  BY <1>0, LiveFacts
<1> QED
  BY <1>0, <1>1, <1>2, CallersStep, LiveFacts
-----------------------------------------------------------------------------
(* The hops of a page, the answers of get_threads, and of the mutations.   *)

\* A page that is dropped was not queued.
LEMMA DropCallers ==
  ASSUME ThreadsInv, NEW c \in Callers, caller[c].at # "queued", Drop(c)
  PROVE  /\ caller' \in [Callers -> Caller] /\ PagesInv'
         /\ Queued(caller') = Queued(caller)
<1>1. NoCaller \in Caller /\ NoCaller.at = "free" /\ NoCaller.for = "paint"
  BY DEF NoCaller, Caller
<1>2. caller \in [Callers -> Caller] /\ PagesInv
  BY DEF ThreadsInv, TypeOK
<1>3. /\ caller' \in [Callers -> Caller] /\ caller'[c] = NoCaller
      /\ \A d \in Callers : d # c => caller'[d] = caller[d]
  BY <1>1, <1>2 DEF Drop
<1> QED
  BY <1>1, <1>2, <1>3 DEF PagesInv, Queued

LEMMA TimelineStep ==
  ASSUME ThreadsInv, NEW c \in Callers, Timeline(c)
  PROVE  ThreadsInv'
<1>0. /\ session' = session /\ opened' = opened /\ post' = post /\ version' = version
      /\ caller[c].at = "timeline" /\ caller \in [Callers -> Caller]
      /\ session \in Sessions \cup {None}
  BY DEF Timeline, ThreadsInv, TypeOK
<1>1. CASE Drop(c) /\ UNCHANGED <<s_, fetch>>
  <2>1. /\ caller' \in [Callers -> Caller] /\ PagesInv'
        /\ Queued(caller') = Queued(caller)
    BY <1>0, <1>1, DropCallers
  <2>2. /\ post \in [Posts -> Post] /\ version \in Version /\ version <= version
        /\ \A p \in Posts : post[p].sees <= version
    BY PostsSeen
  <2> QED
    BY <1>0, <1>1, <2>1, <2>2, CallersStep
<1>2. CASE /\ session # None
           /\ Ours(c)
           /\ Ensure(session, s_[session], c, caller,
                     [caller[c] EXCEPT !.at = "queued"],
                     [caller[c] EXCEPT !.at = "checks"])
  <2> DEFINE q == [caller[c] EXCEPT !.at = "queued"]
             n == [caller[c] EXCEPT !.at = "checks"]
             t == s_[session]
  <2>1. /\ q \in Caller /\ q.at = "queued" /\ q.for = caller[c].for /\ q.of = caller[c].of
        /\ q.entered = caller[c].entered
        /\ n \in Caller /\ n.at = "checks" /\ n.for = caller[c].for /\ n.of = caller[c].of
        /\ n.entered = caller[c].entered
    BY <1>0 DEF Caller
  <2>2. /\ TypeOK /\ session \in Sessions /\ t \in Session
        /\ Kept(session, t, fetch, caller) /\ t.told <= version
    BY <1>2, LiveFacts
  <2>3. Ensure(session, t, c, caller, q, n)
    BY <1>2
  <2> HIDE DEF q, n, t
  <2>4. /\ Carried(session, t)
        /\ caller' = [caller EXCEPT ![c] = q] \/ caller' = [caller EXCEPT ![c] = n]
    BY <1>0, <2>1, <2>2, <2>3, EnsureKept
  <2>5. /\ caller' \in [Callers -> Caller]
        /\ \A d \in Callers : /\ caller'[d].for = caller[d].for
                              /\ caller'[d].of = caller[d].of
                              /\ caller'[d].entered = caller[d].entered
    BY <1>0, <2>1, <2>4
  <2>6. PagesInv'
    BY <2>5 DEF PagesInv, ThreadsInv
  <2> QED
    BY <1>0, <1>2, <2>2, <2>4, <2>5, <2>6, CarriedStep, LiveFacts
<1>3. Ours(c) => session # None
  BY PRThreadsAssumption DEF Ours, ThreadsInv, PagesInv
<1> QED
  BY <1>1, <1>2, <1>3 DEF Timeline

LEMMA ChecksStep ==
  ASSUME ThreadsInv, NEW c \in Callers, Checks(c)
  PROVE  ThreadsInv'
<1>0. /\ session' = session /\ opened' = opened /\ post' = post /\ version' = version
      /\ fetch' = fetch /\ caller[c].at = "checks" /\ Drop(c)
  BY DEF Checks
<1>1. /\ caller' \in [Callers -> Caller] /\ PagesInv'
      /\ Queued(caller') = Queued(caller)
  BY <1>0, DropCallers
<1>2. CASE s_' = s_
  <2>1. /\ post \in [Posts -> Post] /\ version \in Version /\ version <= version
        /\ \A p \in Posts : post[p].sees <= version
    BY PostsSeen
  <2> QED
    BY <1>0, <1>1, <1>2, <2>1, CallersStep
<1>3. CASE Ours(c)
  <2> DEFINE t == s_[session]
             u == PageDrawn(t)
  <2>0. session # None
    BY <1>3, PRThreadsAssumption DEF Ours, ThreadsInv, PagesInv
  <2>1. /\ session \in Sessions /\ t \in Session /\ s_ \in [Sessions -> Session]
        /\ Kept(session, t, fetch, caller) /\ t.told <= version
    BY <2>0, LiveFacts
  <2>2. /\ u \in Session /\ u.waiters = t.waiters /\ u.inflight = t.inflight
        /\ u.gen = t.gen /\ u.fetchGen = t.fetchGen /\ u.threads = t.threads
        /\ u.told = t.told
    BY <2>1 DEF PageDrawn, Session
  <2>3. s_' = [s_ EXCEPT ![session] = u]
    BY <1>3 DEF Checks
  <2> HIDE DEF u
  <2>4. s_' \in [Sessions -> Session] /\ s_'[session] = u
    BY <2>1, <2>2, <2>3
  <2> HIDE DEF t
  <2>5. Kept(session, u, fetch, caller')
    BY <1>1, <2>1, <2>2, KeptSame
  <2> QED
    BY <1>0, <1>1, <2>0, <2>1, <2>2, <2>4, <2>5, LiveStep, LiveFacts
<1> QED
  BY <1>2, <1>3 DEF Checks

\* GitHub reads what it holds, which is no less than the session was told of.
LEMMA ReadStep ==
  ASSUME ThreadsInv, NEW k \in Fetches, Read(k)
  PROVE  ThreadsInv'
<1> DEFINE v == IF version = 0 THEN Null ELSE version
           r == [fetch[k] EXCEPT !.at = "read", !.sees = v]
           t == s_[session]
<1>0. /\ session' = session /\ opened' = opened /\ post' = post /\ version' = version
      /\ s_' = s_ /\ caller' = caller /\ fetch[k].at = "sent" /\ fetch[k].of = session
      /\ fetch' = [fetch EXCEPT ![k].at = "read", ![k].sees = v]
  BY DEF Read
<1>1. session # None
  BY <1>0, PRThreadsAssumption DEF ThreadsInv, OpenedInv, TypeOK
<1>2. /\ fetch \in [Fetches -> Fetch] /\ version \in Version /\ version \in Nat
      /\ t.told \in Nat /\ t.told <= version /\ Kept(session, t, fetch, caller)
  BY <1>1, LiveFacts
<1>3. v \in Version \cup {Null} /\ Decoded(v) = version
  BY <1>2, PRThreadsAssumption DEF Decoded
<1> HIDE DEF v
<1>4. r \in Fetch /\ r.at = "read" /\ r.of = session /\ r.gen = fetch[k].gen /\ r.sees = v
  BY <1>0, <1>2, <1>3 DEF Fetch
<1>5. fetch' = [fetch EXCEPT ![k] = r]
  BY <1>0, <1>2
<1> HIDE DEF r, t
<1>6. /\ fetch' \in [Fetches -> Fetch] /\ fetch'[k] = r
      /\ \A l \in Fetches : l # k => fetch'[l] = fetch[l]
  BY <1>2, <1>4, <1>5
<1>7. \A l \in Fetches : /\ UnderWay(fetch', session, l) <=> UnderWay(fetch, session, l)
                         /\ fetch'[l].gen = fetch[l].gen
  BY <1>0, <1>4, <1>6 DEF UnderWay
<1>8. WaitersInv(session, t, fetch', caller) /\ FetchesInv(session, t, fetch')
  <2>1. WaitersInv(session, t, fetch', caller)
    BY <1>2, <1>7 DEF Kept, WaitersInv
  <2>2. FetchesInv(session, t, fetch')
    BY <1>2, <1>7 DEF Kept, FetchesInv
  <2> QED
    BY <2>1, <2>2
<1>9. ListsInv(session, t, fetch')
  <2>1. Decoded(r.sees) >= t.told /\ r.sees \in Version \cup {Null}
    BY <1>2, <1>3, <1>4
  <2> QED
    BY <1>2, <1>6, <1>7, <2>1 DEF Kept, ListsInv
<1>10. Kept(session, s_'[session], fetch', caller')
  BY <1>0, <1>8, <1>9 DEF Kept, t
<1>11. PagesInv'
  BY <1>0 DEF ThreadsInv, PagesInv
<1>12. \A l \in Fetches : fetch'[l] = fetch[l] \/ fetch'[l].of = session
  BY <1>4, <1>6
<1> QED
  BY <1>0, <1>1, <1>2, <1>6, <1>10, <1>11, <1>12, LiveStep, LiveFacts DEF t
\* What the answer leaves of the session's fields.
LEMMA SettledFields ==
  ASSUME NEW t \in Session, NEW list \in Version \cup {None, Null},
         NEW u, u = Settled(t, TRUE, list) \/ u = Settled(t, FALSE, list)
  PROVE  /\ u \in Session /\ u.inflight = FALSE /\ u.waiters = {}
         /\ u.gen = t.gen /\ u.fetchGen = t.fetchGen /\ u.told = t.told /\ u.panel = t.panel
         /\ u.threads \in {t.threads, Decoded(list)}
<1> DEFINE v(e) == [t EXCEPT !.inflight = FALSE, !.waiters = {}, !.retry = e]
           d == Decoded(list)
<1>1. d \in Version \cup {None}
  BY PRThreadsAssumption DEF Decoded, Version
<1>2. CASE u = v(TRUE)
  BY <1>2 DEF Session
<1>3. CASE u = [v(FALSE) EXCEPT !.threads = d, !.fresh = TRUE]
  <2> HIDE DEF d
  <2>1. /\ v(FALSE) \in Session /\ v(FALSE).inflight = FALSE /\ v(FALSE).waiters = {}
        /\ v(FALSE).gen = t.gen /\ v(FALSE).fetchGen = t.fetchGen
        /\ v(FALSE).told = t.told /\ v(FALSE).panel = t.panel
    BY DEF Session
  <2> HIDE DEF v
  <2>2. u \in Session /\ u.threads = d
    BY <1>1, <1>3, <2>1 DEF Session
  <2>3. /\ u.inflight = FALSE /\ u.waiters = {}
        /\ u.gen = t.gen /\ u.fetchGen = t.fetchGen /\ u.told = t.told /\ u.panel = t.panel
    BY <1>3, <2>1 DEF Session
  <2> QED
    BY <2>2, <2>3 DEF d
<1> QED
  BY <1>2, <1>3 DEF Settled

\* Callers that are called wait no longer; the others are as they were.
LEMMA CalledCallers ==
  ASSUME ThreadsInv, NEW called, called = Queued(caller)
  PROVE  /\ Called(called) \in [Callers -> Caller]
         /\ Queued(Called(called)) = {}
         /\ \A c \in Callers : Called(called)[c].for = "page" =>
              ~Called(called)[c].entered /\ Called(called)[c].of \in Sessions
<1>0. caller \in [Callers -> Caller] /\ PagesInv
  BY DEF ThreadsInv, TypeOK
<1>1. NoCaller \in Caller /\ NoCaller.at = "free" /\ NoCaller.for = "paint"
  BY DEF NoCaller, Caller
<1>2. \A c \in Callers : LET e == [caller[c] EXCEPT !.at = "checks"] IN
        /\ e \in Caller /\ e.at = "checks" /\ e.for = caller[c].for
        /\ e.entered = caller[c].entered /\ e.of = caller[c].of
  BY <1>0 DEF Caller
<1>3. \A c \in Callers :
        \/ Called(called)[c] = caller[c] /\ caller[c].at # "queued"
        \/ Called(called)[c] = [caller[c] EXCEPT !.at = "checks"]
        \/ Called(called)[c] = NoCaller
  BY DEF Called, Queued
<1>4. \A c \in Callers :
        /\ Called(called)[c] \in Caller
        /\ Called(called)[c].at # "queued"
        /\ Called(called)[c].for = "page" =>
             ~Called(called)[c].entered /\ Called(called)[c].of \in Sessions
  BY <1>0, <1>1, <1>2, <1>3 DEF PagesInv
<1> QED
  BY <1>4 DEF Called, Queued

\* deliver: the answer of the latest request settles the session and calls its
\* waiters; any other is dropped.
LEMMA DeliverStep ==
  ASSUME ThreadsInv, NEW k \in Fetches, fetch[k].at # "free",
         NEW err \in BOOLEAN, Deliver(k, err)
  PROVE  ThreadsInv'
<1>0. /\ session' = session /\ opened' = opened /\ post' = post /\ version' = version
      /\ fetch \in [Fetches -> Fetch] /\ fetch' = [fetch EXCEPT ![k] = NoFetch]
  BY DEF Deliver, ThreadsInv, TypeOK
<1>1. /\ fetch' \in [Fetches -> Fetch] /\ fetch'[k].at = "free"
      /\ \A l \in Fetches : l # k => fetch'[l] = fetch[l]
  <2>1. NoFetch \in Fetch /\ NoFetch.at = "free"
    BY NewTypes DEF NoFetch
  <2> QED
    BY <1>0, <2>1
<1>2. \A l \in Fetches : fetch'[l] = fetch[l] \/ fetch'[l].at = "free"
  BY <1>1
<1>3. \A l \in Fetches : UnderWay(fetch', session, l) =>
        /\ l # k /\ fetch'[l] = fetch[l] /\ UnderWay(fetch, session, l)
  BY <1>1 DEF UnderWay
<1>4. CASE Current(k)
  <2> DEFINE t == s_[session]
             u == Settled(t, err, fetch[k].sees)
  <2>0. session # None /\ fetch[k].of = session /\ t.fetchGen = fetch[k].gen
    BY <1>4, PRThreadsAssumption DEF Current, ThreadsInv, OpenedInv, TypeOK
  <2>1. /\ session \in Sessions /\ t \in Session /\ s_ \in [Sessions -> Session]
        /\ Kept(session, t, fetch, caller) /\ t.told <= version
    BY <2>0, LiveFacts
  <2>2. fetch[k].sees \in Version \cup {None, Null}
    BY <1>0 DEF Fetch
  <2>3. s_' = [s_ EXCEPT ![session] = u] /\ caller' = Called(t.waiters)
    BY <1>4 DEF Deliver
  <2>a. u = Settled(t, TRUE, fetch[k].sees) \/ u = Settled(t, FALSE, fetch[k].sees)
    <3>1. err = TRUE \/ err = FALSE
      OBVIOUS
    <3> QED
      BY <3>1, Zenon
  <2> HIDE DEF u, t
  <2>4. /\ u \in Session /\ u.inflight = FALSE /\ u.waiters = {}
        /\ u.gen = t.gen /\ u.fetchGen = t.fetchGen /\ u.told = t.told
    BY <2>1, <2>2, <2>a, SettledFields, ZenonT(40)
  <2>5. s_' \in [Sessions -> Session] /\ s_'[session] = u
    BY <2>1, <2>3, <2>4
  <2>6. t.waiters = Queued(caller)
    BY <2>1 DEF Kept, WaitersInv
  <2>7. caller' \in [Callers -> Caller] /\ Queued(caller') = {} /\ PagesInv'
    BY <2>3, <2>6, CalledCallers DEF PagesInv
  <2>8. WaitersInv(session, u, fetch', caller')
    BY <2>4, <2>7 DEF WaitersInv
  <2>9. FetchesInv(session, u, fetch')
    <3>1. UnderWay(fetch, session, k)
      BY <2>0 DEF UnderWay
    <3> QED
      BY <1>3, <2>0, <2>1, <2>4, <3>1 DEF Kept, FetchesInv
  <2>10. ListsInv(session, u, fetch')
    BY <1>3, <2>1, <2>4 DEF Kept, ListsInv
  <2> QED
    BY <1>0, <1>1, <1>2, <2>0, <2>1, <2>4, <2>5, <2>7, <2>8, <2>9, <2>10, LiveStep, LiveFacts
    DEF Kept
<1>5. CASE ~Current(k)
  <2>0. s_' = s_ /\ caller' = caller /\ PagesInv'
    BY <1>5 DEF Deliver, ThreadsInv, PagesInv
  <2>1. CASE session # None
    <3> DEFINE t == s_[session]
    <3>1. Kept(session, t, fetch, caller)
      BY <2>1, LiveFacts
    <3>2. fetch[k].of = session => fetch[k].gen # t.fetchGen
      BY <1>5 DEF Current
    <3> HIDE DEF t
    <3>3. \A l \in Fetches : UnderWay(fetch, session, l) /\ fetch[l].gen = t.fetchGen =>
            UnderWay(fetch', session, l) /\ fetch'[l].gen = t.fetchGen
      BY <1>1, <3>2 DEF UnderWay
    <3>4. WaitersInv(session, t, fetch', caller)
      BY <3>1, <3>3 DEF Kept, WaitersInv
    <3>5. FetchesInv(session, t, fetch') /\ ListsInv(session, t, fetch')
      BY <1>3, <3>1 DEF Kept, FetchesInv, ListsInv
    <3> QED
      BY <1>0, <1>1, <1>2, <2>0, <2>1, <3>4, <3>5, LiveStep, LiveFacts DEF Kept, t
  <2>2. CASE session = None
    <3>1. TypeOK'
      BY <1>0, <1>1, <2>0 DEF ThreadsInv, TypeOK
    <3>2. OpenedInv' /\ ToldInv'
      BY <1>0, <1>1, <1>2, <2>2 DEF ThreadsInv, OpenedInv, ToldInv
    <3> QED
      BY <1>0, <2>0, <2>2, <3>1, <3>2 DEF ThreadsInv
  <2> QED
    BY <2>1, <2>2
<1> QED
  BY <1>4, <1>5

LEMMA AnswerStep ==
  ASSUME ThreadsInv, NEW k \in Fetches, Answer(k)
  PROVE  ThreadsInv'
<1>1. CASE fetch[k].at = "read" /\ Deliver(k, FALSE)
  BY <1>1, DeliverStep
<1>2. CASE fetch[k].at # "free" /\ Deliver(k, TRUE)
  BY <1>2, DeliverStep
<1> QED
  BY <1>1, <1>2 DEF Answer

LEMMA ExpireStep ==
  ASSUME ThreadsInv, NEW s \in Sessions, Expire(s)
  PROVE  ThreadsInv'
<1> DEFINE t == s_[session]
           f == [t EXCEPT !.fresh = FALSE]
           r == [t EXCEPT !.retry = FALSE]
<1>0. /\ session = s /\ session' = session /\ opened' = opened /\ fetch' = fetch
      /\ caller' = caller /\ post' = post /\ version' = version /\ session # None
  BY PRThreadsAssumption DEF Expire
<1>1. /\ session \in Sessions /\ t \in Session /\ s_ \in [Sessions -> Session]
      /\ Kept(session, t, fetch, caller) /\ t.told <= version
  BY <1>0, LiveFacts
<1>2. /\ f \in Session /\ f.waiters = t.waiters /\ f.inflight = t.inflight
      /\ f.gen = t.gen /\ f.fetchGen = t.fetchGen /\ f.threads = t.threads
      /\ f.told = t.told
  BY <1>1 DEF Session
<1>3. /\ r \in Session /\ r.waiters = t.waiters /\ r.inflight = t.inflight
      /\ r.gen = t.gen /\ r.fetchGen = t.fetchGen /\ r.threads = t.threads
      /\ r.told = t.told
  BY <1>1 DEF Session
<1>4. s_' = [s_ EXCEPT ![session] = f] \/ s_' = [s_ EXCEPT ![session] = r]
  BY <1>0, <1>1 DEF Expire
<1> HIDE DEF f, r
<1>5. s_' \in [Sessions -> Session] /\ (s_'[session] = f \/ s_'[session] = r)
  BY <1>1, <1>2, <1>3, <1>4
<1> HIDE DEF t
<1>6. Kept(session, f, fetch, caller) /\ Kept(session, r, fetch, caller)
  BY <1>1, <1>2, <1>3, KeptSame
<1>7. PagesInv'
  BY <1>0 DEF ThreadsInv, PagesInv
<1> QED
  BY <1>0, <1>1, <1>2, <1>3, <1>5, <1>6, <1>7, LiveStep, LiveFacts

-----------------------------------------------------------------------------
(* The answers of the mutations.                                           *)

\* A mutation under way is of a session.
OwnersInv ==
  \A p \in Posts : post[p].at \notin {"idle", "done"} => post[p].of \in Sessions

LEMMA OwnersStep == TypeOK /\ OwnersInv /\ [Next]_vars => OwnersInv'
<1> SUFFICES ASSUME TypeOK, OwnersInv, [Next]_vars PROVE OwnersInv'
  OBVIOUS
<1>0. post \in [Posts -> Post] /\ session \in Sessions \cup {None}
  BY DEF TypeOK
<1>1. ASSUME NEW p \in Posts, NEW kind \in {"review", "page"}, Send(p, kind) PROVE OwnersInv'
  BY <1>0, <1>1 DEF Send, OwnersInv, NoPost
<1>2. ASSUME NEW p \in Posts, Take(p) PROVE OwnersInv'
  <2>1. /\ \A q \in Posts : q # p => post'[q] = post[q]
        /\ post'[p].of = post[p].of /\ post[p].at = "sent"
    BY <1>0, <1>2 DEF Take, Post
  <2> QED
    BY <2>1 DEF OwnersInv
<1>3. ASSUME NEW p \in Posts, Applied(p) \/ Refetched(p) \/ Fail(p) PROVE OwnersInv'
  BY <1>0, <1>3 DEF Applied, Refetched, Fail, OwnersInv, NoPost
<1>4. ASSUME NEW p \in Posts, Refused(p) PROVE OwnersInv'
  <2>1. /\ \A q \in Posts : q # p => post'[q] = post[q]
        /\ post'[p].of = post[p].of \/ post'[p].at = "done" 
        /\ post[p].at = "refused"
    BY <1>0, <1>4 DEF Refused, Post, NoPost
  <2> QED
    BY <2>1 DEF OwnersInv
<1>5. ASSUME NEW p \in Posts, ReadPR(p) PROVE OwnersInv'
  <2>1. /\ \A q \in Posts : q # p => post'[q] = post[q]
        /\ post'[p].of = post[p].of /\ post[p].at = "getpr"
    BY <1>0, <1>5 DEF ReadPR, Post
  <2> QED
    BY <2>1 DEF OwnersInv
<1>6. CASE post' = post
  BY <1>6 DEF OwnersInv
<1> QED
  BY <1>1, <1>2, <1>3, <1>4, <1>5, <1>6
  DEF Next, User, Open, End, EnterFiles, Render, Overview, Timeline, Checks, Read, Answer,
      Deliver, Expire, Push, vars

\* The list is dropped for a write the session is told of.
LEMMA ToldFacts ==
  ASSUME ThreadsInv, session # None, NEW p \in Posts
  PROVE  LET t == Told(Invalidate(s_[session]), post[p].sees) IN
         /\ t \in Session /\ Kept(session, t, fetch, caller) /\ t.told <= version
         /\ t.threads = None /\ t.panel = s_[session].panel
<1>1. post[p].sees \in Version /\ post[p].sees <= version
  BY PostsSeen
<1>2. /\ s_[session] \in Session /\ fetch \in [Fetches -> Fetch]
      /\ Kept(session, s_[session], fetch, caller)
      /\ s_[session].told <= version
  BY LiveFacts
<1> DEFINE t == Told(Invalidate(s_[session]), post[p].sees)
<1>3. /\ t \in Session /\ Kept(session, t, fetch, caller)
      /\ t.threads = None /\ t.panel = s_[session].panel
      /\ t.told \in {post[p].sees, s_[session].told}
  BY <1>1, <1>2, InvalidateKept
<1> HIDE DEF t
<1> QED
  BY <1>1, <1>2, <1>3 DEF t

LEMMA AppliedStep ==
  ASSUME ThreadsInv, OwnersInv, NEW p \in Posts, Applied(p) \/ Refetched(p)
  PROVE  ThreadsInv'
<1>0. /\ session' = session /\ opened' = opened /\ version' = version
      /\ post' = [post EXCEPT ![p] = [NoPost EXCEPT !.at = "done"]]
      /\ post[p].at \in {"applied", "gotpr"}
  BY DEF Applied, Refetched
<1>1. /\ post' \in [Posts -> Post] /\ version \in Version /\ version <= version
      /\ \A q \in Posts : post'[q].sees <= version
  <2>1. [NoPost EXCEPT !.at = "done"] \in Post /\ [NoPost EXCEPT !.at = "done"].sees = 0
    BY NewTypes DEF NoPost, Post
  <2> QED
    BY <1>0, <2>1, PostsSeen
<1>2. PagesInv /\ caller \in [Callers -> Caller]
  BY DEF ThreadsInv, TypeOK
<1>3. CASE UNCHANGED <<s_, fetch, caller>>
  BY <1>0, <1>1, <1>2, <1>3, CallersStep DEF PagesInv
<1>4. CASE Live(p)
  <2> DEFINE t == Told(Invalidate(s_[session]), post[p].sees)
  <2>0. session # None
    BY <1>0, <1>4, PRThreadsAssumption DEF Live, OwnersInv
  <2>1. /\ t \in Session /\ Kept(session, t, fetch, caller) /\ t.told <= version
    BY <2>0, ToldFacts
  <2>2. \/ Refresh(session, t)
        \/ /\ s_' = [s_ EXCEPT ![session] = t] /\ fetch' = fetch
           /\ caller' = caller \/ OpenPage(session, caller)
    BY <1>4 DEF Applied, Refetched
  <2> HIDE DEF t
  <2>3. TypeOK /\ session \in Sessions /\ s_ \in [Sessions -> Session]
    BY <2>0, LiveFacts
  <2>4. CASE Refresh(session, t)
    <3>1. Carried(session, t) /\ PagesInv' /\ caller' \in [Callers -> Caller]
      BY <1>2, <2>1, <2>3, <2>4, RefreshKept
    <3> QED
      BY <1>0, <1>1, <2>0, <2>1, <3>1, CarriedStep
  <2>5. CASE /\ s_' = [s_ EXCEPT ![session] = t] /\ fetch' = fetch
             /\ caller' = caller \/ OpenPage(session, caller)
    <3>1. s_' \in [Sessions -> Session] /\ s_'[session] = t
      BY <2>1, <2>3, <2>5
    <3>2. caller' \in [Callers -> Caller] /\ PagesInv' /\ Queued(caller') = Queued(caller)
      BY <1>2, <2>3, <2>5, OpenPageCallers DEF PagesInv
    <3>3. Kept(session, t, fetch, caller')
      BY <2>1, <3>2, KeptSame
    <3> QED
      BY <1>0, <1>1, <2>0, <2>1, <2>5, <3>1, <3>2, <3>3, LiveStep, LiveFacts
  <2> QED
    BY <2>2, <2>4, <2>5
<1> QED
  BY <1>3, <1>4 DEF Applied, Refetched
-----------------------------------------------------------------------------
(* The theorems.                                                           *)

LEMMA InitInv == Init => ThreadsInv /\ OwnersInv
<1> SUFFICES ASSUME Init PROVE ThreadsInv /\ OwnersInv
  OBVIOUS
<1>1. TypeOK
  BY NewTypes, PRThreadsAssumption DEF Init, TypeOK, Version
<1>2. OpenedInv
  BY DEF Init, OpenedInv, NoFetch
<1>3. ToldInv
  BY DEF Init, ToldInv, NoPost
<1>4. PagesInv
  BY DEF Init, PagesInv, NoCaller
<1>5. OwnersInv
  BY DEF Init, OwnersInv, NoPost
<1>6. session = None
  BY DEF Init
<1> QED
  BY <1>1, <1>2, <1>3, <1>4, <1>5, <1>6 DEF ThreadsInv

LEMMA NextInv == ThreadsInv /\ OwnersInv /\ [Next]_vars => ThreadsInv' /\ OwnersInv'
<1> SUFFICES ASSUME ThreadsInv, OwnersInv, [Next]_vars PROVE ThreadsInv' /\ OwnersInv'
  OBVIOUS
<1>1. OwnersInv'
  BY OwnersStep DEF ThreadsInv
<1>2. CASE \/ \E p \in Posts, kind \in {"review", "page"} : Send(p, kind)
           \/ \E p \in Posts : Take(p) \/ Refused(p) \/ ReadPR(p) \/ Fail(p)
           \/ Push
  BY <1>1, <1>2, PostsStep
<1>3. CASE \E s \in Sessions, land \in {"page", "files"} : Open(s, land)
  BY <1>1, <1>3, OpenStep
<1>4. CASE End \/ EnterFiles \/ Render \/ Overview
  BY <1>1, <1>4, EndStep, EnterFilesStep, RenderStep, OverviewStep
<1>5. CASE \E c \in Callers : Timeline(c) \/ Checks(c)
  BY <1>1, <1>5, TimelineStep, ChecksStep
<1>6. CASE \E k \in Fetches : Read(k) \/ Answer(k)
  BY <1>1, <1>6, ReadStep, AnswerStep
<1>7. CASE \E s \in Sessions : Expire(s)
  BY <1>1, <1>7, ExpireStep
<1>8. CASE \E p \in Posts : Applied(p) \/ Refetched(p)
  BY <1>1, <1>8, AppliedStep
<1>9. CASE UNCHANGED vars
  BY <1>1, <1>9
  DEF vars, ThreadsInv, TypeOK, OpenedInv, ToldInv, PagesInv
<1> QED
  BY <1>2, <1>3, <1>4, <1>5, <1>6, <1>7, <1>8, <1>9 DEF Next, User

LEMMA AlwaysInv == Spec => [](ThreadsInv /\ OwnersInv)
BY InitInv, NextInv, PTL DEF Spec

\* A set with no two elements has at most one.
LEMMA AtMostOne ==
  ASSUME NEW S, \A x, y \in S : x = y
  PROVE  Cardinality(S) <= 1
<1>1. CASE S = {}
  BY <1>1, FS_EmptySet
<1>2. ASSUME NEW x \in S PROVE Cardinality(S) <= 1
  <2>1. S = {x}
    BY <1>2
  <2> QED
    BY <2>1, FS_Singleton
<1> QED
  BY <1>1, <1>2

\* No caller of ensure is lost or called twice, and the request that will call
\* it is in flight and shared (ensure, revalidate, deliver), for any number of
\* callers, requests, mutations and sessions.
THEOREM CallersNeverLost == Spec => []CallersKept
<1>1. ThreadsInv => CallersKept
  <2> SUFFICES ASSUME ThreadsInv, session # None
               PROVE  LET t == s_[session] IN
                      /\ t.waiters = Queued(caller)
                      /\ t.inflight => InFlight(session, t.fetchGen) # {}
                      /\ t.waiters # {} => t.inflight
                      /\ \A g \in 0 .. t.gen : Cardinality(InFlight(session, g)) <= 1
    BY DEF CallersKept, ThreadsInv, Queued
  <2> DEFINE t == s_[session]
  <2>1. WaitersInv(session, t, fetch, caller) /\ FetchesInv(session, t, fetch)
    BY LiveFacts DEF Kept
  <2>2. \A g : \A x, y \in InFlight(session, g) : x = y
    BY <2>1 DEF FetchesInv, UnderWay, InFlight
  <2>3. \A g : Cardinality(InFlight(session, g)) <= 1
    BY <2>2, AtMostOne
  <2>4. t.inflight => InFlight(session, t.fetchGen) # {}
    BY <2>1 DEF WaitersInv, UnderWay, InFlight
  <2> QED
    BY <2>1, <2>3, <2>4 DEF WaitersInv
<1> QED
  BY <1>1, AlwaysInv, PTL

\* What a step may do to the threads and the panel of the live session.
ListStep ==
  session # None /\ session' = session =>
    LET t == s_[session]
        u == s_'[session]
    IN /\ u.threads \in {None, t.threads} \/ t.fetchGen # t.gen \/ u.threads >= t.told
       /\ t.panel = "open" /\ u.panel = "hidden"
            => \E c \in Callers : /\ caller[c].at = "checks" /\ caller'[c].at = "free"
                                  /\ ~caller[c].entered

LEMMA SameList ==
  ASSUME session # None /\ session' = session =>
           /\ s_'[session].threads \in {None, s_[session].threads}
           /\ s_'[session].panel \in {"open", s_[session].panel}
  PROVE  ListStep
BY DEF ListStep

LEMMA ListsHold == ThreadsInv /\ OwnersInv /\ [Next]_vars => ListStep
<1> SUFFICES ASSUME ThreadsInv, OwnersInv, [Next]_vars, session # None, session' = session
             PROVE  ListStep
  BY DEF ListStep
<1> DEFINE t == s_[session]
           u == s_'[session]
<1>0. /\ TypeOK /\ session \in Sessions /\ t \in Session /\ s_ \in [Sessions -> Session]
      /\ fetch \in [Fetches -> Fetch] /\ Kept(session, t, fetch, caller)
      /\ t.told \in Nat /\ caller \in [Callers -> Caller] /\ PagesInv
  BY LiveFacts DEF ThreadsInv
<1>1. CASE s_' = s_
  BY <1>1, SameList
<1>2. CASE \E s \in Sessions, land \in {"page", "files"} : Open(s, land)
  BY <1>2 DEF Open, ThreadsInv, OpenedInv
<1>3. CASE End
  BY <1>3 DEF End
<1>4. CASE EnterFiles
  <2>1. u.threads = t.threads /\ u.panel = "open"
    BY <1>0, <1>4 DEF EnterFiles, Session
  <2> QED
    BY <2>1, SameList
<1>5. CASE Render
  <2> DEFINE v == [t EXCEPT !.view = TRUE]
  <2>1. /\ v \in Session /\ v.waiters = t.waiters /\ v.inflight = t.inflight
        /\ v.gen = t.gen /\ v.fetchGen = t.fetchGen /\ v.threads = t.threads
        /\ v.told = t.told /\ v.panel = t.panel
    BY <1>0 DEF Session
  <2>2. Refresh(session, v)
    BY <1>5 DEF Render
  <2> HIDE DEF v, t
  <2>3. Kept(session, v, fetch, caller)
    BY <1>0, <2>1, KeptSame
  <2>4. Carried(session, v)
    BY <1>0, <2>1, <2>2, <2>3, RefreshKept
  <2> QED
    BY <2>1, <2>4, SameList DEF Carried, t
<1>6. ASSUME NEW c \in Callers, Timeline(c) PROVE ListStep
  <2> DEFINE q == [caller[c] EXCEPT !.at = "queued"]
             n == [caller[c] EXCEPT !.at = "checks"]
  <2>1. CASE Ensure(session, t, c, caller, q, n)
    <3>1. /\ q \in Caller /\ q.at = "queued"
          /\ n \in Caller /\ n.at = "checks" /\ caller[c].at # "queued"
      BY <1>0, <1>6 DEF Caller, Timeline
    <3> HIDE DEF q, n, t
    <3>2. Carried(session, t)
      BY <1>0, <2>1, <3>1, EnsureKept
    <3> QED
      BY <3>2, SameList DEF Carried, t
  <2> QED
    BY <1>1, <1>6, <2>1 DEF Timeline
<1>7. ASSUME NEW c \in Callers, Checks(c) PROVE ListStep
  <2>1. CASE Ours(c)
    <3>1. s_' = [s_ EXCEPT ![session] = PageDrawn(t)]
      BY <1>7, <2>1 DEF Checks
    <3>2. u.threads = t.threads
      BY <1>0, <3>1 DEF PageDrawn, Session
    <3>3. caller[c].at = "checks" /\ caller'[c].at = "free"
      BY <1>0, <1>7 DEF Checks, Drop, NoCaller
    <3>4. ~caller[c].entered
      BY <1>0, <2>1 DEF PagesInv, Ours
    <3> QED
      BY <3>2, <3>3, <3>4 DEF ListStep
  <2> QED
    BY <1>1, <1>7, <2>1 DEF Checks
<1>8. ASSUME NEW k \in Fetches, NEW err \in BOOLEAN, Deliver(k, err),
             fetch[k].at # "free", err \/ fetch[k].at = "read"
      PROVE  ListStep
  <2>1. CASE Current(k)
    <3> DEFINE w == Settled(t, err, fetch[k].sees)
    <3>1. s_' = [s_ EXCEPT ![session] = w]
      BY <1>8, <2>1 DEF Deliver
    <3>2. fetch[k].sees \in Version \cup {None, Null}
      BY <1>0 DEF Fetch
    <3>3. w = Settled(t, TRUE, fetch[k].sees) \/ w = Settled(t, FALSE, fetch[k].sees)
      <4>1. err = TRUE \/ err = FALSE
        OBVIOUS
      <4> QED
        BY <4>1, Zenon
    <3>4. u = w
      BY <1>0, <3>1
    <3>5. err = TRUE => w.threads = t.threads
      BY <1>0 DEF Settled, Session
    <3> HIDE DEF w, t
    <3>6. w.threads \in {t.threads, Decoded(fetch[k].sees)} /\ w.panel = t.panel
      <4>1. t \in Session
        BY <1>0
      <4>2. w.panel = t.panel
        BY <3>2, <3>3, <4>1, SettledFields, ZenonT(40)
      <4>3. w.threads \in {t.threads, Decoded(fetch[k].sees)}
        BY <3>2, <3>3, <4>1, SettledFields
      <4> QED
        BY <4>2, <4>3
    <3>7. err = FALSE /\ t.fetchGen = t.gen => Decoded(fetch[k].sees) >= t.told
      <4>1. ASSUME err = FALSE, t.fetchGen = t.gen PROVE Decoded(fetch[k].sees) >= t.told
        <5>1. UnderWay(fetch, session, k) /\ fetch[k].at = "read" /\ fetch[k].gen = t.gen
          BY <1>8, <2>1, <4>1 DEF UnderWay, Current, t
        <5> QED
          BY <1>0, <5>1 DEF Kept, ListsInv
      <4> QED
        BY <4>1
    <3>8. err = TRUE \/ err = FALSE
      OBVIOUS
    <3>9. u.threads = t.threads \/ t.fetchGen # t.gen \/ u.threads >= t.told
      <4>1. CASE err = TRUE
        BY <3>4, <3>5, <4>1
      <4>2. CASE err = FALSE
        BY <3>4, <3>6, <3>7, <4>2
      <4> QED
        BY <3>8, <4>1, <4>2
    <3> QED
      BY <3>4, <3>6, <3>9 DEF ListStep, t
  <2>2. CASE ~Current(k)
    BY <1>1, <1>8, <2>2 DEF Deliver
  <2> QED
    BY <2>1, <2>2
<1>9. ASSUME NEW s \in Sessions, Expire(s) PROVE ListStep
  <2>1. u.threads = t.threads /\ u.panel = t.panel
    BY <1>0, <1>9 DEF Expire, Session
  <2> QED
    BY <2>1, SameList
<1>10. ASSUME NEW p \in Posts, Applied(p) \/ Refetched(p) PROVE ListStep
  <2> DEFINE v == Told(Invalidate(s_[session]), post[p].sees)
  <2>1. /\ v \in Session /\ Kept(session, v, fetch, caller)
        /\ v.threads = None /\ v.panel = t.panel
    BY ToldFacts
  <2>2. Refresh(session, v) \/ s_' = [s_ EXCEPT ![session] = v] \/ s_' = s_
    BY <1>10 DEF Applied, Refetched
  <2> HIDE DEF v, t
  <2>3. CASE Refresh(session, v)
    <3>1. Carried(session, v)
      BY <1>0, <2>1, <2>3, RefreshKept
    <3> QED
      BY <2>1, <3>1, SameList DEF Carried, t
  <2>4. CASE s_' = [s_ EXCEPT ![session] = v]
    <3>1. u = v
      BY <1>0, <2>4
    <3> QED
      BY <2>1, <3>1, SameList DEF t
  <2> QED
    BY <1>1, <2>2, <2>3, <2>4
<1>11. CASE \E k \in Fetches : Answer(k)
  BY <1>8, <1>11 DEF Answer
<1>12. CASE \/ Overview \/ Push \/ UNCHANGED vars
            \/ \E p \in Posts, kind \in {"review", "page"} : Send(p, kind)
            \/ \E p \in Posts : Take(p) \/ Refused(p) \/ ReadPR(p) \/ Fail(p)
            \/ \E k \in Fetches : Read(k)
  <2>1. s_' = s_
    BY <1>12 DEF Overview, Push, vars, Send, Take, Refused, ReadPR, Fail, Read
  <2> QED
    BY <1>1, <2>1
<1> QED
  BY <1>2, <1>3, <1>4, <1>5, <1>6, <1>7, <1>9, <1>10, <1>11, <1>12 DEF Next, User

\* Once the threads have been asked for again after a mutation, no list read
\* before it lands (deliver's generation check).
THEOREM ListsNotSuperseded == Spec => NoSupersededList
<1>1. ListStep => (session # None /\ session' = session =>
        LET t == s_[session]
            u == s_'[session]
        IN u.threads \notin {None, t.threads} /\ t.fetchGen = t.gen => u.threads >= t.told)
  BY DEF ListStep
<1> QED
  BY <1>1, AlwaysInv, ListsHold, PTL DEF Spec, NoSupersededList

\* No page is drawn over the files that was claimed before they were last
\* entered (page_gen).
THEOREM PagesClaimedLater == Spec => PageOverFiles
<1>1. ListStep => (session # None /\ session' = session =>
        (s_[session].panel = "open" /\ s_'[session].panel = "hidden"
           => \E c \in Callers : /\ caller[c].at = "checks" /\ caller'[c].at = "free"
                                 /\ ~caller[c].entered))
  BY DEF ListStep
<1> QED
  BY <1>1, AlwaysInv, ListsHold, PTL DEF Spec, PageOverFiles
=============================================================================
