--------------------------- MODULE SidecarClient ---------------------------
(***************************************************************************)
(* The sidecar client of lua/differ/sidecar/init.lua: one supervised       *)
(* differ-sidecar process per Neovim, requests keyed by id over its stdio, *)
(* a hello handshake in front of them, a timeout on each of them, and a    *)
(* restart with backoff when the process dies.                             *)
(*                                                                         *)
(* Three kinds of steps interleave: what the user does (request, stop),    *)
(* what libuv reports in its fast context (stdout, exit, a timer), and the *)
(* callbacks that vim.schedule put on the main loop's queue, which run     *)
(* later and in order.  A key the user types is handled before the queue.  *)
(*                                                                         *)
(* The process is the environment: it answers a frame at any time or       *)
(* never, and dies when it likes.  Its own discipline (hello first, one    *)
(* answer per frame) is what module SidecarServer shows.                   *)
(***************************************************************************)
EXTENDS Integers, Sequences, FiniteSets

CONSTANTS
  Req,          \* the requests callers make, each made once
  Hello,        \* stands for the handshake wherever a request is named
  MaxAttempts,  \* MAX_ATTEMPTS: consecutive restarts before giving up
  MaxProcs,     \* bound: the binary can be spawned this many times
  MaxClients    \* bound: this many clients are created

ASSUME ClientAssumption ==
  /\ Hello \notin Req
  /\ MaxAttempts \in Nat
  /\ MaxProcs \in Nat
  /\ MaxClients \in Nat

Procs == 1..MaxProcs
Clients == 1..MaxClients

VARIABLES
  gen,       \* clients created so far: the identity of the newest
  client,    \* the module's `client`: 0 is nil, otherwise gen
  c,         \* the fields of the newest client
  procs,     \* every process, spawned or not
  sched,     \* vim.schedule's queue; an element is the set of callbacks one
             \* fast-context handler scheduled together
  restarts,  \* armed restart timers, by the client that armed them
  issued,    \* the requests made
  settled    \* how often each request's callback has run

vars == <<gen, client, c, procs, sched, restarts, issued, settled>>

\* What a callback is run with: the process's answer (an answer to hello can
\* name another protocol), or an error of the client's own by its code.
Answers == {"ok", "err", "mismatch"}
Outcomes == Answers \cup {"internal", "network"}

Entry == [id : Nat, req : Req \cup {Hello}, armed : BOOLEAN]
Frame == [id : Nat, req : Req \cup {Hello}]
Reply == [id : Nat, req : Req \cup {Hello}, res : Answers]

\* A scheduled callback: a pending entry's ("call"), a request timer that
\* fired ("timeout") or a restart timer that fired ("restart").  `from` names
\* the request the process was answering, for the properties only.
Callback == [k : {"call", "timeout", "restart"}, gen : Clients, id : Nat,
             req : Req \cup {Hello}, res : Outcomes, from : Req \cup {Hello}]

ClientRec == [proc : {0} \cup Procs, running : BOOLEAN, ready : BOOLEAN,
              stopping : BOOLEAN, nextId : Nat, pending : SUBSET Entry,
              queue : Seq(Req), attempts : Nat]

ProcRec == [st : {"none", "up", "down", "gone"}, owner : {0} \cup Clients,
            hello : {"none", "ok", "bad"}, eof : BOOLEAN,
            inbox : SUBSET Frame, out : Seq(Reply)]

-----------------------------------------------------------------------------
NewClient ==
  [proc |-> 0, running |-> FALSE, ready |-> FALSE, stopping |-> FALSE,
   nextId |-> 1, pending |-> {}, queue |-> <<>>, attempts |-> 0]

NoProc == [st |-> "none", owner |-> 0, hello |-> "none", eof |-> FALSE,
           inbox |-> {}, out |-> <<>>]

Init ==
  /\ gen = 0
  /\ client = 0
  /\ c = NewClient
  /\ procs = [p \in Procs |-> NoProc]
  /\ sched = <<>>
  /\ restarts = [g \in Clients |-> 0]
  /\ issued = {}
  /\ settled = [r \in Req |-> 0]

-----------------------------------------------------------------------------
(* The main loop's queue.                                                  *)

Schedule(s, cbs) == IF cbs = {} THEN s ELSE Append(s, cbs)

\* The queue once callback cb of its first batch has been taken to be run.
Popped(cb) ==
  IF Head(sched) = {cb} THEN Tail(sched)
  ELSE <<Head(sched) \ {cb}>> \o Tail(sched)

\* The callback of request r, to be run with mkerr("internal", ...).
Fail(g, id, r) ==
  [k |-> "call", gen |-> g, id |-> id, req |-> r, res |-> "internal",
   from |-> r]

\* fail_pending: what it schedules.
FailPending(cl, g) == {Fail(g, e.id, e.req) : e \in cl.pending}

\* fail_all: the queued requests as well.
FailAll(cl, g) ==
  FailPending(cl, g)
    \cup {Fail(g, 0, cl.queue[i]) : i \in DOMAIN cl.queue}

-----------------------------------------------------------------------------
(* Sending.  A write to a process that is already dead is lost.            *)

AwaitUntimed(id, r) == [id |-> id, req |-> r, armed |-> FALSE]

\* await: the pending entry, its timer running.
Await(id, r) == [id |-> id, req |-> r, armed |-> TRUE]

\* do_request for each request of q in turn: the client afterwards.
DoRequests(cl, q) ==
  IF cl.proc # 0
  THEN [cl EXCEPT !.nextId = @ + Len(q),
                  !.pending = @ \cup {Await(cl.nextId + i - 1, q[i]) :
                                      i \in DOMAIN q}]
  ELSE [cl EXCEPT !.nextId = @ + Len(q), !.queue = @ \o q]

\* do_request for each request of q in turn: the processes afterwards.
Send(cl, q) ==
  IF cl.proc # 0 /\ procs[cl.proc].st = "up"
  THEN [procs EXCEPT ![cl.proc].inbox =
          @ \cup {[id |-> cl.nextId + i - 1, req |-> q[i]] : i \in DOMAIN q}]
  ELSE procs

-----------------------------------------------------------------------------
(* Starting and stopping.                                                  *)

\* The process that vim.system spawns: one that has not run (they are numbered
\* in the order they are spawned in, and the bound's number of them all there is).
Spawnable(p) ==
  /\ procs[p].st = "none"
  /\ \A q \in Procs : q < p => procs[q].st # "none"

\* start: the client once process p is up and its hello is on its way.
Started(cl, p) ==
  [cl EXCEPT !.ready = FALSE, !.proc = p, !.running = TRUE,
             !.nextId = @ + 1,
             !.pending = @ \cup {Await(cl.nextId, Hello)}]

\* start: process p, owned by client g, with hello in its stdin.
Spawn(p, g, id) ==
  [procs EXCEPT ![p] = [st |-> "up", owner |-> g, hello |-> "none",
                        eof |-> FALSE, inbox |-> {[id |-> id, req |-> Hello]},
                        out |-> <<>>]]

\* teardown of the live client, cl being its fields and s the queue so far.
Teardown(cl, s) ==
  /\ client' = 0
  /\ c' = [cl EXCEPT !.stopping = TRUE, !.ready = FALSE, !.running = FALSE,
                     !.pending = {}, !.queue = <<>>]
  /\ procs' = IF cl.proc # 0 THEN [procs EXCEPT ![cl.proc].eof = TRUE]
              ELSE procs
  /\ sched' = Schedule(s, FailAll(cl, client))

GiveUpSilently(cl, s) ==
  /\ c' = [cl EXCEPT !.attempts = @ + 1]
  /\ sched' = s
  /\ UNCHANGED restarts

\* schedule_restart with the attempts spent.
GiveUp(cl, s) ==
  /\ c' = [cl EXCEPT !.attempts = @ + 1, !.pending = {}, !.queue = <<>>]
  /\ sched' = Schedule(s, FailAll(cl, client))
  /\ UNCHANGED restarts

\* schedule_restart, cl being the live client's fields and s the queue so far.
ScheduleRestart(cl, s) ==
  IF cl.attempts + 1 > MaxAttempts
  THEN GiveUp(cl, s)
  ELSE /\ c' = [cl EXCEPT !.attempts = @ + 1]
       /\ sched' = s
       /\ restarts' = [restarts EXCEPT ![client] = @ + 1]

-----------------------------------------------------------------------------
(* The user's side.                                                        *)

\* M.request: a client when there is none, a process when none is running,
\* then the request is sent, or queued until the handshake completes.
Request(r) ==
  /\ r \notin issued
  /\ client = 0 => gen < MaxClients
  /\ issued' = issued \cup {r}
  /\ gen' = IF client = 0 THEN gen + 1 ELSE gen
  /\ client' = gen'
  /\ LET cl == IF client = 0 THEN NewClient ELSE c
     IN \/ /\ cl.running
           /\ IF cl.ready
              THEN c' = DoRequests(cl, <<r>>) /\ procs' = Send(cl, <<r>>)
              ELSE c' = [cl EXCEPT !.queue = Append(@, r)]
                   /\ UNCHANGED procs
           /\ UNCHANGED sched
        \/ /\ ~cl.running
           /\ \E p \in Procs :
                /\ Spawnable(p)
                /\ c' = [Started(cl, p) EXCEPT !.queue = Append(@, r)]
                /\ procs' = Spawn(p, gen', cl.nextId)
           /\ UNCHANGED sched
        \/ /\ ~cl.running        \* start failed: no binary, or no spawn
           /\ c' = cl
           /\ sched' = Schedule(sched, {Fail(gen', 0, r)})
           /\ UNCHANGED procs
  /\ UNCHANGED <<restarts, settled>>

\* M.stop.
Stop ==
  /\ client # 0
  /\ Teardown(c, sched)
  /\ UNCHANGED <<gen, restarts, issued, settled>>

-----------------------------------------------------------------------------
(* libuv's side: fast-context callbacks.  `owned` drops what belongs to a  *)
(* process of a client that has been replaced.                             *)

OwnedByAnyone(p) == client # 0

Owned(p) == client # 0 /\ procs[p].owner = client

\* on_stdout and dispatch_line: the next line process p wrote.
OnStdout(p) ==
  /\ procs[p].out # <<>>
  /\ procs' = [procs EXCEPT ![p].out = Tail(@)]
  /\ LET f == Head(procs[p].out)
         hit == {e \in c.pending : e.id = f.id}
     IN IF Owned(p)
        THEN /\ c' = [c EXCEPT !.pending = @ \ hit]
             /\ sched' = Schedule(sched,
                  {[k |-> "call", gen |-> client, id |-> e.id, req |-> e.req,
                    res |-> f.res, from |-> f.req] : e \in hit})
        ELSE UNCHANGED <<c, sched>>
  /\ UNCHANGED <<gen, client, restarts, issued, settled>>

OnExitOfAnyone(p) ==
  /\ procs[p].st = "down"
  /\ procs[p].out = <<>>
  /\ procs' = [procs EXCEPT ![p].st = "gone"]
  /\ IF client = 0 THEN UNCHANGED <<c, sched, restarts>>
     ELSE ScheduleRestart([c EXCEPT !.running = FALSE, !.ready = FALSE, !.proc = 0,
                                    !.pending = {}],
                          Schedule(sched, FailPending(c, client)))
  /\ UNCHANGED <<gen, client, issued, settled>>

\* on_exit, which vim.system runs once the process is dead and its pipes are
\* drained.
OnExit(p) ==
  /\ procs[p].st = "down"
  /\ procs[p].out = <<>>
  /\ procs' = [procs EXCEPT ![p].st = "gone"]
  /\ LET cl == [c EXCEPT !.running = FALSE, !.ready = FALSE, !.proc = 0,
                         !.pending = {}]
         s == Schedule(sched, FailPending(c, client))
     IN IF ~Owned(p) THEN UNCHANGED <<c, sched, restarts>>
        ELSE IF c.stopping
             THEN /\ c' = [cl EXCEPT !.stopping = FALSE]
                  /\ sched' = s
                  /\ UNCHANGED restarts
             ELSE ScheduleRestart(cl, s)
  /\ UNCHANGED <<gen, client, issued, settled>>

\* The timer that await armed for a request fires.
TimerFire(e) ==
  /\ client # 0
  /\ e.armed
  /\ c' = [c EXCEPT !.pending = (@ \ {e}) \cup {[e EXCEPT !.armed = FALSE]}]
  /\ sched' = Schedule(sched,
       {[k |-> "timeout", gen |-> client, id |-> e.id, req |-> e.req,
         res |-> "network", from |-> e.req]})
  /\ UNCHANGED <<gen, client, procs, restarts, issued, settled>>

\* A restart timer (vim.defer_fn) fires.
RestartFire(g) ==
  /\ restarts[g] > 0
  /\ restarts' = [restarts EXCEPT ![g] = @ - 1]
  /\ sched' = Schedule(sched,
       {[k |-> "restart", gen |-> g, id |-> 0, req |-> Hello,
         res |-> "ok", from |-> Hello]})
  /\ UNCHANGED <<gen, client, c, procs, issued, settled>>

-----------------------------------------------------------------------------
(* The main loop: one scheduled callback.                                  *)

\* The callback handshake passes to await, run for client g with result res;
\* cl is the live client's fields and s the queue so far.
OnHello(g, res, cl, s) ==
  IF client # g \/ (res \notin {"ok", "mismatch"} /\ ~cl.running)
  THEN c' = cl /\ sched' = s /\ UNCHANGED <<client, procs>>
  ELSE IF res # "ok"
  THEN Teardown(cl, s)                          \* handshake_failed
  ELSE IF ~cl.running
  THEN c' = cl /\ sched' = s /\ UNCHANGED <<client, procs>>
  ELSE LET up == [cl EXCEPT !.ready = TRUE, !.attempts = 0, !.queue = <<>>]
       IN /\ c' = DoRequests(up, cl.queue)      \* flush_queue
          /\ procs' = Send(up, cl.queue)
          /\ sched' = s
          /\ UNCHANGED client

\* A caller's callback.
RunCall(cb) ==
  /\ cb.k = "call" /\ cb.req # Hello
  /\ settled' = [settled EXCEPT ![cb.req] = @ + 1]
  /\ sched' = Popped(cb)
  /\ UNCHANGED <<gen, client, c, procs, restarts, issued>>

\* The handshake's callback.
RunHello(cb) ==
  /\ cb.k = "call" /\ cb.req = Hello
  /\ OnHello(cb.gen, cb.res, c, Popped(cb))
  /\ UNCHANGED <<gen, restarts, issued, settled>>

\* The scheduled half of a request timer: take(id), then its callback.
RunTimeout(cb) ==
  /\ cb.k = "timeout"
  /\ LET hit == {e \in c.pending : e.id = cb.id}
         cl == [c EXCEPT !.pending = @ \ hit]
     IN IF client # cb.gen \/ hit = {}
        THEN sched' = Popped(cb) /\ UNCHANGED <<client, c, procs, settled>>
        ELSE \E e \in hit :
               IF e.req = Hello
               THEN /\ OnHello(cb.gen, "network", cl, Popped(cb))
                    /\ UNCHANGED settled
               ELSE /\ settled' = [settled EXCEPT ![e.req] = @ + 1]
                    /\ c' = cl
                    /\ sched' = Popped(cb)
                    /\ UNCHANGED <<client, procs>>
  /\ UNCHANGED <<gen, restarts, issued>>

\* What cancels a restart between its scheduling and its firing.
RestartMoot(g) == client # g \/ c.stopping \/ c.running

\* The scheduled half of a restart timer.
RunRestart(cb) ==
  /\ cb.k = "restart"
  /\ IF RestartMoot(cb.gen)
     THEN sched' = Popped(cb) /\ UNCHANGED <<c, procs, restarts>>
     ELSE \/ \E p \in Procs :
               /\ Spawnable(p)
               /\ c' = Started(c, p)
               /\ procs' = Spawn(p, client, c.nextId)
               /\ sched' = Popped(cb)
               /\ UNCHANGED restarts
          \/ /\ ScheduleRestart(c, Popped(cb))   \* start failed
             /\ UNCHANGED procs
  /\ UNCHANGED <<gen, client, issued, settled>>

RunCallback ==
  /\ sched # <<>>
  /\ \E cb \in Head(sched) :
       RunCall(cb) \/ RunHello(cb) \/ RunTimeout(cb) \/ RunRestart(cb)

-----------------------------------------------------------------------------
(* The process.                                                            *)

\* It answers a frame: hello before anything else, and with an error what
\* follows a hello it refused.
Answer(p) ==
  /\ procs[p].st = "up"
  /\ \E f \in procs[p].inbox, res \in Answers :
       /\ res = "mismatch" => f.req = Hello
       /\ f.req # Hello => procs[p].hello # "none"
       /\ f.req # Hello /\ procs[p].hello = "bad" => res = "err"
       /\ procs' = [procs EXCEPT
            ![p].inbox = @ \ {f},
            ![p].hello = IF f.req # Hello THEN @
                         ELSE IF res = "err" THEN "bad" ELSE "ok",
            ![p].out = Append(@, [id |-> f.id, req |-> f.req, res |-> res])]
  /\ UNCHANGED <<gen, client, c, sched, restarts, issued, settled>>

\* It dies, by a crash, a signal or the end of its stdin.
Die(p) ==
  /\ procs[p].st = "up"
  /\ procs' = [procs EXCEPT ![p].st = "down", ![p].inbox = {}]
  /\ UNCHANGED <<gen, client, c, sched, restarts, issued, settled>>

-----------------------------------------------------------------------------
Next ==
  \/ \E r \in Req : Request(r)
  \/ Stop
  \/ \E p \in Procs : OnStdout(p) \/ OnExit(p) \/ Answer(p) \/ Die(p)
  \/ \E e \in c.pending : TimerFire(e)
  \/ \E g \in Clients : RestartFire(g)
  \/ RunCallback

\* Everything the editor's own loop drives happens; the user and the process
\* may do nothing.
Fairness ==
  /\ \A p \in Procs : WF_vars(OnStdout(p)) /\ WF_vars(OnExit(p))
  /\ WF_vars(\E e \in c.pending : TimerFire(e))
  /\ \A g \in Clients : WF_vars(RestartFire(g))
  /\ WF_vars(RunCallback)

Spec == Init /\ [][Next]_vars
FairSpec == Spec /\ Fairness

-----------------------------------------------------------------------------
\* Every variable has its type, and no batch of scheduled callbacks is empty.
TypeOK ==
  /\ gen \in {0} \cup Clients
  /\ client \in {0, gen}
  /\ c \in ClientRec
  /\ procs \in [Procs -> ProcRec]
  /\ sched \in Seq((SUBSET Callback) \ {{}})
  /\ restarts \in [Clients -> Nat]
  /\ issued \in SUBSET Req
  /\ settled \in [Req -> Nat]

\* No orphan process (the guard of the restart timer, init.lua:399-404, and
\* start): a process that has not been told to end is the one the live client
\* holds, so a crash, a stop and a late restart timer never leave a second
\* process running that nothing can reach.
NoOrphan ==
  \A p \in Procs :
    procs[p].st = "up" /\ ~procs[p].eof =>
      /\ client # 0
      /\ procs[p].owner = client
      /\ c.proc = p
      /\ c.running

\* The places a request's callback is held: the queue, the pending map, and
\* the callbacks scheduled to run.
QueuedAt(r) == {i \in DOMAIN c.queue : c.queue[i] = r}
PendingAs(r) == {e \in c.pending : e.req = r}
ScheduledAt(r) ==
  {i \in DOMAIN sched :
     \E cb \in sched[i] : cb.k = "call" /\ cb.req = r}

\* Queued requests wait for something that will come (on_exit, handshake,
\* schedule_restart): a process whose hello is outstanding, or a restart.
NotStranded ==
  client # 0 /\ c.queue # <<>> =>
    \/ c.running /\ PendingAs(Hello) # {}
    \/ c.running /\ \E i \in DOMAIN sched : \E cb \in sched[i] :
         cb.k = "call" /\ cb.req = Hello /\ cb.gen = client
    \/ restarts[client] > 0
    \/ \E i \in DOMAIN sched : \E cb \in sched[i] :
         cb.k = "restart" /\ cb.gen = client

\* Every request made is held in exactly one place until its callback has run,
\* and in none after that: no crash, stop, timeout or late answer loses a
\* caller (request, fail_pending, fail_all, take) or runs it twice.  And a
\* queue is one that something will serve.
OneHome ==
  /\ NotStranded
  /\ \A r \in Req :
       Cardinality(QueuedAt(r)) + Cardinality(PendingAs(r))
         + Cardinality(ScheduledAt(r)) + settled[r]
       = IF r \in issued THEN 1 ELSE 0

\* An answer reaches the request it answers (take, dispatch_line, owned): ids
\* start again with every client, so an older process's late line must not
\* be matched against a newer client's pending ids.
RightAnswer ==
  \A i \in DOMAIN sched :
    \A cb \in sched[i] : cb.k = "call" => cb.from = cb.req

\* Every request is called back, whatever the process does (the timeout of
\* await, fail_pending on exit, fail_all when the restarts run out).
EveryCallbackRuns ==
  \A r \in Req : r \in issued ~> settled[r] > 0

\* "the hello handshake gates every other request" (init.lua:4): a request is
\* written only to a process that has accepted its own hello.
HelloGatesRequests ==
  \A p \in Procs :
    (\E f \in procs[p].inbox : f.req # Hello) => procs[p].hello = "ok"

\* "a death before hello is the supervisor's: on_exit already scheduled the
\* restart, and the queue survives to be flushed after it" (init.lua:289-290):
\* the callback of a handshake that failed because its process died leaves the
\* queued requests alone.
QueueSurvivesDeath ==
  [][\A cb \in IF sched = <<>> THEN {} ELSE Head(sched) :
       RunHello(cb) /\ cb.res = "internal" => c'.queue = c.queue]_vars

=============================================================================
