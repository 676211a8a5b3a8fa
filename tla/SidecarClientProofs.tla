------------------------ MODULE SidecarClientProofs ------------------------
(***************************************************************************)
(* Proofs about SidecarClient, for any number of requests, clients,        *)
(* processes and restart attempts.                                         *)
(***************************************************************************)
EXTENDS SidecarClient, FiniteSetTheorems, TLAPS

\* The live client runs the process it holds, and is not stopping.
LiveClient ==
  client # 0 =>
    /\ ~c.stopping
    /\ c.running <=> c.proc # 0
    /\ c.proc # 0 =>
         /\ procs[c.proc].owner = client
         /\ procs[c.proc].st \in {"up", "down"}
         /\ ~procs[c.proc].eof

\* A process not yet reaped is held by the live client that spawned it.
HeldByOwner ==
  \A p \in Procs :
    /\ procs[p].owner <= gen
    /\ (client # 0 /\ procs[p].owner = client
        /\ procs[p].st \in {"up", "down"}) => c.proc = p

\* The inductive invariant behind NoOrphan.
OrphanInv == TypeOK /\ LiveClient /\ HeldByOwner /\ NoOrphan

-----------------------------------------------------------------------------
(* Typing.  Each operator of the model maps well-typed values to well-typed *)
(* values; the steps then follow one action at a time.                      *)

LEMMA ScheduleType ==
  ASSUME NEW s \in Seq((SUBSET Callback) \ {{}}), NEW cbs \in SUBSET Callback
  PROVE  Schedule(s, cbs) \in Seq((SUBSET Callback) \ {{}})
BY DEF Schedule

LEMMA PoppedType ==
  ASSUME sched \in Seq((SUBSET Callback) \ {{}}), sched # <<>>,
         NEW cb \in Head(sched)
  PROVE  /\ Popped(cb) \in Seq((SUBSET Callback) \ {{}})
         /\ cb \in Callback
<1>1. Head(sched) \in (SUBSET Callback) \ {{}}
  OBVIOUS
<1>2. Tail(sched) \in Seq((SUBSET Callback) \ {{}})
  OBVIOUS
<1>3. Head(sched) # {cb} => Head(sched) \ {cb} \in (SUBSET Callback) \ {{}}
  BY <1>1
<1>4. Head(sched) # {cb} =>
        <<Head(sched) \ {cb}>> \o Tail(sched) \in Seq((SUBSET Callback) \ {{}})
  BY <1>2, <1>3
<1> QED
  BY <1>1, <1>2, <1>4 DEF Popped

LEMMA FailType ==
  ASSUME NEW cl \in ClientRec, NEW g \in Clients
  PROVE  /\ FailPending(cl, g) \in SUBSET Callback
         /\ FailAll(cl, g) \in SUBSET Callback
         /\ \A r \in Req : Fail(g, 0, r) \in Callback
<1>1. \A e \in cl.pending : e.id \in Nat /\ e.req \in Req \cup {Hello}
  BY DEF ClientRec, Entry
<1>2. \A i \in DOMAIN cl.queue : cl.queue[i] \in Req
  BY DEF ClientRec
<1>3. \A id \in Nat, r \in Req \cup {Hello} : Fail(g, id, r) \in Callback
  BY DEF Fail, Callback, Outcomes, Answers
<1> QED
  BY <1>1, <1>2, <1>3 DEF FailPending, FailAll

LEMMA ProcsExcept ==
  ASSUME NEW ps \in [Procs -> ProcRec], NEW p \in Procs,
         NEW I \in SUBSET Frame
  PROVE  [ps EXCEPT ![p].inbox = I] \in [Procs -> ProcRec]
BY DEF ProcRec

\* Replacing fields of a client by well-typed values.
LEMMA ClientFields ==
  ASSUME NEW cl \in ClientRec
  PROVE  /\ cl.attempts + 1 \in Nat
         /\ cl.queue \in Seq(Req)
         /\ \A r \in Req : Append(cl.queue, r) \in Seq(Req)
BY DEF ClientRec

LEMMA EmptyTypes == <<>> \in Seq(Req) /\ {} \in SUBSET Entry
OBVIOUS

LEMMA ExceptQueue ==
  ASSUME NEW cl \in ClientRec, NEW Q \in Seq(Req)
  PROVE  [cl EXCEPT !.queue = Q] \in ClientRec
BY DEF ClientRec

LEMMA ExceptReady ==
  ASSUME NEW cl \in ClientRec, NEW Q \in Seq(Req)
  PROVE  [cl EXCEPT !.ready = TRUE, !.attempts = 0, !.queue = Q] \in ClientRec
BY DEF ClientRec

LEMMA ExceptGivenUp ==
  ASSUME NEW cl \in ClientRec, NEW n \in Nat, NEW P \in SUBSET Entry,
         NEW Q \in Seq(Req)
  PROVE  [cl EXCEPT !.attempts = n, !.pending = P, !.queue = Q] \in ClientRec
BY DEF ClientRec

LEMMA ExceptTornDown ==
  ASSUME NEW cl \in ClientRec, NEW P \in SUBSET Entry, NEW Q \in Seq(Req)
  PROVE  [cl EXCEPT !.stopping = TRUE, !.ready = FALSE, !.running = FALSE,
                    !.pending = P, !.queue = Q] \in ClientRec
BY DEF ClientRec

LEMMA SendingType ==
  ASSUME TypeOK, NEW cl \in ClientRec, NEW q \in Seq(Req)
  PROVE  /\ DoRequests(cl, q) \in ClientRec
         /\ Send(cl, q) \in [Procs -> ProcRec]
<1>1. \A i \in DOMAIN q : cl.nextId + i - 1 \in Nat /\ q[i] \in Req
  BY DEF ClientRec
<1> DEFINE E == {Await(cl.nextId + i - 1, q[i]) : i \in DOMAIN q}
<1>a. \A id \in Nat, r \in Req : Await(id, r) \in Entry
  BY DEF Await, Entry
<1>2. E \in SUBSET Entry
  BY <1>1, <1>a
<1> DEFINE F == {[id |-> cl.nextId + i - 1, req |-> q[i]] : i \in DOMAIN q}
<1>3. F \in SUBSET Frame
  BY <1>1 DEF Frame
<1>b. /\ cl.nextId + Len(q) \in Nat
      /\ cl.queue \o q \in Seq(Req)
      /\ cl.pending \in SUBSET Entry
  BY DEF ClientRec
<1>4. DoRequests(cl, q) \in ClientRec
  <2>1. ASSUME NEW P \in SUBSET Entry
        PROVE  [cl EXCEPT !.nextId = cl.nextId + Len(q), !.pending = P]
                 \in ClientRec
    BY <1>b DEF ClientRec
  <2>2. [cl EXCEPT !.nextId = cl.nextId + Len(q), !.queue = cl.queue \o q]
          \in ClientRec
    BY <1>b DEF ClientRec
  <2>3. cl.pending \cup E \in SUBSET Entry
    BY <1>2, <1>b
  <2> QED
    BY <2>1, <2>2, <2>3 DEF DoRequests
<1>5. Send(cl, q) \in [Procs -> ProcRec]
  <2>1. ASSUME NEW p \in Procs
        PROVE  [procs EXCEPT ![p].inbox = procs[p].inbox \cup F]
                 \in [Procs -> ProcRec]
    <3>1. procs[p].inbox \cup F \in SUBSET Frame
      BY <1>3 DEF TypeOK, ProcRec
    <3> QED
      BY <3>1, ProcsExcept DEF TypeOK
  <2>2. cl.proc # 0 => cl.proc \in Procs
    BY DEF ClientRec
  <2> HIDE DEF F
  <2>3. Send(cl, q) \in {procs, [procs EXCEPT ![cl.proc].inbox = @ \cup F]}
    BY DEF Send, F
  <2> QED
    BY <2>1, <2>2, <2>3 DEF Send, TypeOK, F
<1> QED
  BY <1>4, <1>5

LEMMA StartType ==
  ASSUME TypeOK, NEW cl \in ClientRec, NEW p \in Procs, NEW g \in Clients,
         NEW id \in Nat
  PROVE  /\ Started(cl, p) \in ClientRec
         /\ Spawn(p, g, id) \in [Procs -> ProcRec]
<1>1. Await(cl.nextId, Hello) \in Entry
  BY DEF Await, Entry, ClientRec
<1>2. Started(cl, p) \in ClientRec
  <2>1. ASSUME NEW P \in SUBSET Entry, NEW n \in Nat
        PROVE  [cl EXCEPT !.ready = FALSE, !.proc = p, !.running = TRUE,
                          !.nextId = n, !.pending = P] \in ClientRec
    BY DEF ClientRec
  <2>2. /\ cl.pending \cup {Await(cl.nextId, Hello)} \in SUBSET Entry
        /\ cl.nextId + 1 \in Nat
    BY <1>1 DEF ClientRec
  <2> QED
    BY <2>1, <2>2 DEF Started
<1>3. {[id |-> id, req |-> Hello]} \in SUBSET Frame
  BY DEF Frame
<1>4. Spawn(p, g, id) \in [Procs -> ProcRec]
  BY <1>3 DEF Spawn, ProcRec, TypeOK
<1> QED
  BY <1>2, <1>4

\* What teardown and schedule_restart leave is well typed.
LEMMA TeardownType ==
  ASSUME TypeOK, client # 0, NEW cl \in ClientRec,
         NEW s \in Seq((SUBSET Callback) \ {{}}), Teardown(cl, s)
  PROVE  /\ client' = 0
         /\ c' \in ClientRec
         /\ procs' \in [Procs -> ProcRec]
         /\ sched' \in Seq((SUBSET Callback) \ {{}})
<1>1. client \in Clients
  BY DEF TypeOK
<1>2. c' \in ClientRec
  BY ExceptTornDown, EmptyTypes DEF Teardown
<1>3. procs' \in [Procs -> ProcRec]
  <2>1. \A p \in Procs : [procs EXCEPT ![p].eof = TRUE] \in [Procs -> ProcRec]
    BY DEF TypeOK, ProcRec
  <2>2. cl.proc # 0 => cl.proc \in Procs
    BY DEF ClientRec
  <2> QED
    BY <2>1, <2>2 DEF Teardown, TypeOK
<1>4. sched' \in Seq((SUBSET Callback) \ {{}})
  BY <1>1, FailType, ScheduleType DEF Teardown
<1> QED
  BY <1>2, <1>3, <1>4 DEF Teardown

LEMMA ScheduleRestartType ==
  ASSUME TypeOK, client # 0, NEW cl \in ClientRec,
         NEW s \in Seq((SUBSET Callback) \ {{}}), ScheduleRestart(cl, s)
  PROVE  /\ c' \in ClientRec
         /\ sched' \in Seq((SUBSET Callback) \ {{}})
         /\ restarts' \in [Clients -> Nat]
<1>1. client \in Clients
  BY DEF TypeOK
<1>2. c' \in ClientRec
  <2>1. [cl EXCEPT !.attempts = cl.attempts + 1] \in ClientRec
    BY DEF ClientRec
  <2>2. [cl EXCEPT !.attempts = cl.attempts + 1, !.pending = {},
                   !.queue = <<>>] \in ClientRec
    BY ClientFields, ExceptGivenUp, EmptyTypes
  <2> QED
    BY <2>1, <2>2 DEF ScheduleRestart, GiveUp
<1>3. sched' \in Seq((SUBSET Callback) \ {{}})
  BY <1>1, FailType, ScheduleType DEF ScheduleRestart, GiveUp
<1>4. restarts' \in [Clients -> Nat]
  BY <1>1 DEF ScheduleRestart, GiveUp, TypeOK
<1> QED
  BY <1>2, <1>3, <1>4

LEMMA OnHelloType ==
  ASSUME TypeOK, NEW g \in Clients, NEW res \in Outcomes, NEW cl \in ClientRec,
         NEW s \in Seq((SUBSET Callback) \ {{}}), OnHello(g, res, cl, s)
  PROVE  /\ client' \in {0, client}
         /\ c' \in ClientRec
         /\ procs' \in [Procs -> ProcRec]
         /\ sched' \in Seq((SUBSET Callback) \ {{}})
<1> DEFINE up == [cl EXCEPT !.ready = TRUE, !.attempts = 0, !.queue = <<>>]
<1>1. up \in ClientRec /\ cl.queue \in Seq(Req)
  BY ClientFields, ExceptReady, EmptyTypes
<1>2. CASE c' = cl /\ sched' = s /\ UNCHANGED <<client, procs>>
  BY <1>2 DEF TypeOK
<1>3. CASE client # 0 /\ Teardown(cl, s)
  BY <1>3, TeardownType
<1>4. CASE /\ c' = DoRequests(up, cl.queue)
           /\ procs' = Send(up, cl.queue)
           /\ sched' = s
           /\ UNCHANGED client
  BY <1>1, <1>4, SendingType
<1>5. client = g => client # 0
  BY DEF Clients
<1> QED
  BY <1>2, <1>3, <1>4, <1>5 DEF OnHello

LEMMA TypeStep == TypeOK /\ [Next]_vars => TypeOK'
<1> SUFFICES ASSUME TypeOK, [Next]_vars PROVE TypeOK'
  OBVIOUS
<1>0. c \in ClientRec /\ c.pending \in SUBSET Entry
  BY DEF TypeOK, ClientRec
<1>1. ASSUME NEW r \in Req, Request(r) PROVE TypeOK'
  <2> DEFINE cl == IF client = 0 THEN NewClient ELSE c
  <2>1. cl \in ClientRec
    BY <1>0 DEF NewClient, ClientRec
  <2>2. gen' \in Clients /\ client' = gen'
    BY <1>1, ClientAssumption DEF Request, TypeOK, Clients
  <2>3. [cl EXCEPT !.queue = Append(cl.queue, r)] \in ClientRec
    <3> HIDE DEF cl
    <3> QED
      BY <2>1, ClientFields, ExceptQueue
  <2>4. ASSUME NEW p \in Procs
        PROVE  [Started(cl, p) EXCEPT !.queue = Append(@, r)] \in ClientRec
    <3>1. Started(cl, p) \in ClientRec
      BY <2>1, <2>2, StartType
    <3> QED
      BY <3>1, ClientFields, ExceptQueue
  <2>5. cl.nextId \in Nat /\ <<r>> \in Seq(Req)
    BY <2>1 DEF ClientRec
  <2>6. c' \in ClientRec /\ procs' \in [Procs -> ProcRec]
    <3>1. DoRequests(cl, <<r>>) \in ClientRec
          /\ Send(cl, <<r>>) \in [Procs -> ProcRec]
      BY <2>1, <2>5, SendingType
    <3>2. \A p \in Procs : Spawn(p, gen', cl.nextId) \in [Procs -> ProcRec]
      BY <2>1, <2>2, <2>5, StartType
    <3> HIDE DEF cl
    <3> QED
      BY <1>1, <2>1, <2>3, <2>4, <3>1, <3>2 DEF Request, TypeOK, cl
  <2>7. sched' \in Seq((SUBSET Callback) \ {{}})
    <3>1. {Fail(gen', 0, r)} \in SUBSET Callback
      BY <1>0, <2>2, FailType
    <3> QED
      BY <1>1, <3>1, ScheduleType DEF Request, TypeOK
  <2> QED
    BY <1>1, <2>2, <2>6, <2>7 DEF Request, TypeOK
<1>2. ASSUME Stop PROVE TypeOK'
  <2>1. client # 0 /\ Teardown(c, sched)
    BY <1>2 DEF Stop
  <2>2. /\ client' = 0 /\ c' \in ClientRec
        /\ procs' \in [Procs -> ProcRec]
        /\ sched' \in Seq((SUBSET Callback) \ {{}})
    BY <1>0, <2>1, TeardownType DEF TypeOK
  <2> QED
    BY <1>2, <2>2 DEF Stop, TypeOK
<1>3. ASSUME NEW p \in Procs, OnStdout(p) PROVE TypeOK'
  <2> DEFINE f == Head(procs[p].out)
             hit == {e \in c.pending : e.id = f.id}
             cbs == {[k |-> "call", gen |-> client, id |-> e.id,
                      req |-> e.req, res |-> f.res, from |-> f.req] :
                       e \in hit}
  <2>1. procs[p].out \in Seq(Reply) /\ procs[p].out # <<>>
    BY <1>3 DEF OnStdout, TypeOK, ProcRec
  <2>2. f \in Reply /\ Tail(procs[p].out) \in Seq(Reply)
    BY <2>1
  <2>3. procs' \in [Procs -> ProcRec]
    BY <1>3, <2>2 DEF OnStdout, TypeOK, ProcRec
  <2>4. Owned(p) => cbs \in SUBSET Callback
    <3>1. Owned(p) => client \in Clients
      BY DEF Owned, TypeOK
    <3>2. f.res \in Outcomes /\ f.req \in Req \cup {Hello}
      BY <2>2 DEF Reply, Outcomes
    <3>3. \A e \in hit : e.id \in Nat /\ e.req \in Req \cup {Hello}
      BY <1>0 DEF Entry
    <3> HIDE DEF f, hit
    <3> QED
      BY <3>1, <3>2, <3>3 DEF Callback
  <2>5. [c EXCEPT !.pending = @ \ hit] \in ClientRec
    BY <1>0 DEF ClientRec
  <2> HIDE DEF cbs, hit
  <2>6. c' \in ClientRec /\ sched' \in Seq((SUBSET Callback) \ {{}})
    BY <1>0, <1>3, <2>4, <2>5, ScheduleType DEF OnStdout, TypeOK, cbs, hit
  <2> QED
    BY <1>3, <2>3, <2>6 DEF OnStdout, TypeOK
<1>4. ASSUME NEW p \in Procs, OnExit(p) PROVE TypeOK'
  <2> DEFINE cl == [c EXCEPT !.running = FALSE, !.ready = FALSE, !.proc = 0,
                             !.pending = {}]
             s == Schedule(sched, FailPending(c, client))
  <2>1. procs' \in [Procs -> ProcRec]
    BY <1>4 DEF OnExit, TypeOK, ProcRec
  <2>2. cl \in ClientRec /\ [cl EXCEPT !.stopping = FALSE] \in ClientRec
    BY <1>0 DEF ClientRec
  <2>3. client # 0 => s \in Seq((SUBSET Callback) \ {{}})
    BY <1>0, FailType, ScheduleType DEF TypeOK
  <2> HIDE DEF cl, s
  <2>4. client # 0 /\ ScheduleRestart(cl, s) =>
          /\ c' \in ClientRec
          /\ sched' \in Seq((SUBSET Callback) \ {{}})
          /\ restarts' \in [Clients -> Nat]
    BY <2>2, <2>3, ScheduleRestartType
  <2>5. /\ c' \in ClientRec
        /\ sched' \in Seq((SUBSET Callback) \ {{}})
        /\ restarts' \in [Clients -> Nat]
    BY <1>0, <1>4, <2>2, <2>3, <2>4 DEF OnExit, Owned, TypeOK, cl, s
  <2> QED
    BY <1>4, <2>1, <2>5 DEF OnExit, TypeOK
<1>5. ASSUME NEW p \in Procs, Answer(p) PROVE TypeOK'
  <2>1. PICK f \in procs[p].inbox, res \in Answers :
          procs' = [procs EXCEPT
            ![p].inbox = @ \ {f},
            ![p].hello = IF f.req # Hello THEN @
                         ELSE IF res = "err" THEN "bad" ELSE "ok",
            ![p].out = Append(@, [id |-> f.id, req |-> f.req, res |-> res])]
    BY <1>5 DEF Answer
  <2>2. f \in Frame
    BY DEF TypeOK, ProcRec
  <2>3. [id |-> f.id, req |-> f.req, res |-> res] \in Reply
    BY <2>2 DEF Frame, Reply
  <2>4. procs' \in [Procs -> ProcRec]
    BY <2>1, <2>3 DEF TypeOK, ProcRec
  <2> QED
    BY <1>5, <2>4 DEF Answer, TypeOK
<1>6. ASSUME NEW p \in Procs, Die(p) PROVE TypeOK'
  <2>0. [procs[p] EXCEPT !.st = "down", !.inbox = {}] \in ProcRec
    BY <1>6 DEF TypeOK, ProcRec
  <2>1. procs' \in [Procs -> ProcRec]
    <3>1. procs' = [procs EXCEPT ![p] = [procs[p] EXCEPT !.st = "down", !.inbox = {}]]
      BY <1>6 DEF Die, TypeOK
    <3> QED
      BY <1>6, <2>0, <3>1 DEF TypeOK
  <2> QED
    BY <1>6, <2>1 DEF Die, TypeOK
<1>7. ASSUME NEW e \in c.pending, TimerFire(e) PROVE TypeOK'
  <2>1. e \in Entry /\ [e EXCEPT !.armed = FALSE] \in Entry
    BY <1>0 DEF Entry
  <2>2. c' \in ClientRec
    BY <1>0, <1>7, <2>1 DEF TimerFire, ClientRec
  <2>3. [k |-> "timeout", gen |-> client, id |-> e.id, req |-> e.req,
         res |-> "network", from |-> e.req] \in Callback
    BY <1>7, <2>1 DEF TimerFire, TypeOK, Callback, Entry, Outcomes
  <2>4. sched' \in Seq((SUBSET Callback) \ {{}})
    BY <1>7, <2>3, ScheduleType DEF TimerFire, TypeOK
  <2> QED
    BY <1>7, <2>2, <2>4 DEF TimerFire, TypeOK
<1>8. ASSUME NEW g \in Clients, RestartFire(g) PROVE TypeOK'
  <2>1. [k |-> "restart", gen |-> g, id |-> 0, req |-> Hello, res |-> "ok",
         from |-> Hello] \in Callback
    BY DEF Callback, Outcomes, Answers
  <2>2. sched' \in Seq((SUBSET Callback) \ {{}})
    BY <1>8, <2>1, ScheduleType DEF RestartFire, TypeOK
  <2> QED
    BY <1>8, <2>2 DEF RestartFire, TypeOK
<1>9. ASSUME RunCallback PROVE TypeOK'
  <2>0. PICK cb \in Head(sched) :
          RunCall(cb) \/ RunHello(cb) \/ RunTimeout(cb) \/ RunRestart(cb)
    BY <1>9 DEF RunCallback
  <2>1. /\ Popped(cb) \in Seq((SUBSET Callback) \ {{}})
        /\ cb \in Callback
    BY <1>9, PoppedType DEF RunCallback, TypeOK
  <2>2. /\ cb.gen \in Clients /\ cb.res \in Outcomes /\ cb.id \in Nat
        /\ cb.req \in Req \cup {Hello}
    BY <2>1 DEF Callback
  <2>3. CASE RunCall(cb)
    BY <2>1, <2>2, <2>3 DEF RunCall, TypeOK
  <2>4. CASE RunHello(cb)
    <3>1. /\ client' \in {0, client} /\ c' \in ClientRec
          /\ procs' \in [Procs -> ProcRec]
          /\ sched' \in Seq((SUBSET Callback) \ {{}})
      BY <1>0, <2>1, <2>2, <2>4, OnHelloType DEF RunHello
    <3> QED
      BY <2>4, <3>1 DEF RunHello, TypeOK
  <2>5. CASE RunTimeout(cb)
    <3> DEFINE hit == {e \in c.pending : e.id = cb.id}
               cl == [c EXCEPT !.pending = @ \ hit]
    <3>1. cl \in ClientRec
      BY <1>0 DEF ClientRec
    <3>2. CASE sched' = Popped(cb) /\ UNCHANGED <<client, c, procs, settled>>
      BY <2>1, <2>5, <3>2 DEF RunTimeout, TypeOK
    <3>3. CASE OnHello(cb.gen, "network", cl, Popped(cb)) /\ UNCHANGED settled
      <4>1. "network" \in Outcomes
        BY DEF Outcomes
      <4> HIDE DEF cl
      <4>2. /\ client' \in {0, client} /\ c' \in ClientRec
            /\ procs' \in [Procs -> ProcRec]
            /\ sched' \in Seq((SUBSET Callback) \ {{}})
        BY <2>1, <2>2, <3>1, <3>3, <4>1, OnHelloType
      <4> QED
        BY <2>5, <3>3, <4>2 DEF RunTimeout, TypeOK
    <3>4. ASSUME NEW e \in hit, e.req # Hello,
                 settled' = [settled EXCEPT ![e.req] = @ + 1],
                 c' = cl, sched' = Popped(cb), UNCHANGED <<client, procs>>
          PROVE  TypeOK'
      <4>1. e.req \in Req
        BY <1>0, <3>4 DEF Entry
      <4> HIDE DEF cl
      <4> QED
        BY <2>1, <2>5, <3>1, <3>4, <4>1 DEF RunTimeout, TypeOK
    <3> QED
      BY <2>5, <3>2, <3>3, <3>4 DEF RunTimeout
  <2>6. CASE RunRestart(cb)
    <3>1. CASE sched' = Popped(cb) /\ UNCHANGED <<c, procs, restarts>>
      BY <2>1, <2>6, <3>1 DEF RunRestart, TypeOK
    <3>2. ~RestartMoot(cb.gen) => client \in Clients /\ client # 0
      BY <2>2 DEF RestartMoot, Clients
    <3>3. ASSUME ~RestartMoot(cb.gen), NEW p \in Procs, c' = Started(c, p),
                 procs' = Spawn(p, client, c.nextId), sched' = Popped(cb),
                 UNCHANGED restarts
          PROVE  TypeOK'
      <4>1. c.nextId \in Nat
        BY <1>0 DEF ClientRec
      <4>2. c' \in ClientRec /\ procs' \in [Procs -> ProcRec]
        BY <1>0, <3>2, <3>3, <4>1, StartType
      <4> QED
        BY <2>1, <2>6, <3>3, <4>2 DEF RunRestart, TypeOK
    <3>4. ASSUME ~RestartMoot(cb.gen), ScheduleRestart(c, Popped(cb)),
                 UNCHANGED procs
          PROVE  TypeOK'
      <4>1. /\ c' \in ClientRec
            /\ sched' \in Seq((SUBSET Callback) \ {{}})
            /\ restarts' \in [Clients -> Nat]
        BY <1>0, <2>1, <3>2, <3>4, ScheduleRestartType
      <4> QED
        BY <2>6, <3>4, <4>1 DEF RunRestart, TypeOK
    <3> QED
      BY <2>6, <3>1, <3>3, <3>4 DEF RunRestart
  <2> QED
    BY <2>0, <2>3, <2>4, <2>5, <2>6
<1>10. CASE UNCHANGED vars
  BY <1>10 DEF vars, TypeOK
<1> QED
  BY <1>1, <1>2, <1>3, <1>4, <1>5, <1>6, <1>7, <1>8, <1>9, <1>10 DEF Next

\* Every reachable state is well typed; in particular no batch on the main
\* loop's queue is empty, so the queue always makes progress.
THEOREM TypeCorrect == Spec => []TypeOK
<1>1. Init => TypeOK
  BY ClientAssumption DEF Init, TypeOK, NewClient, ClientRec, NoProc, ProcRec
<1> QED
  BY <1>1, TypeStep, PTL DEF Spec

-----------------------------------------------------------------------------
(* NoOrphan.  A step either leaves alone what the invariant speaks of (the  *)
(* supervision), or spawns, tears down or reaps one process.                *)

SameSupervision(cl, ps) ==
  /\ cl.proc = c.proc
  /\ cl.running = c.running
  /\ cl.stopping = c.stopping
  /\ \A q \in Procs : /\ ps[q].st = procs[q].st
                       /\ ps[q].owner = procs[q].owner
                       /\ ps[q].eof = procs[q].eof

LEMMA SameSupervisionStep ==
  ASSUME OrphanInv, TypeOK', client' = client, gen' = gen,
         SameSupervision(c', procs')
  PROVE  OrphanInv'
<1>1. c.proc \in {0} \cup Procs
  BY DEF OrphanInv, TypeOK, ClientRec
<1> QED
  BY <1>1 DEF OrphanInv, SameSupervision, LiveClient, HeldByOwner, NoOrphan

\* do_request changes neither the process a client holds nor a process's state.
LEMMA SendingSupervision ==
  ASSUME TypeOK, NEW cl \in ClientRec, NEW q \in Seq(Req),
         SameSupervision(cl, procs)
  PROVE  SameSupervision(DoRequests(cl, q), Send(cl, q))
<1>1. /\ DoRequests(cl, q).proc = cl.proc
      /\ DoRequests(cl, q).running = cl.running
      /\ DoRequests(cl, q).stopping = cl.stopping
  BY DEF DoRequests, ClientRec
<1>2. \A p \in Procs : /\ Send(cl, q)[p].st = procs[p].st
                       /\ Send(cl, q)[p].owner = procs[p].owner
                       /\ Send(cl, q)[p].eof = procs[p].eof
  BY DEF Send, TypeOK, ProcRec
<1> QED
  BY <1>1, <1>2 DEF SameSupervision

LEMMA TeardownOrphan ==
  ASSUME OrphanInv, TypeOK', client # 0, gen' = gen, NEW cl, NEW s,
         cl.proc = c.proc, Teardown(cl, s)
  PROVE  OrphanInv'
<1>1. client' = 0 /\ c.proc \in {0} \cup Procs /\ procs \in [Procs -> ProcRec]
  BY DEF Teardown, OrphanInv, TypeOK, ClientRec
<1>2. \A q \in Procs : q # c.proc => procs'[q] = procs[q]
  BY <1>1 DEF Teardown, Procs
<1>3. c.proc # 0 => procs' = [procs EXCEPT ![c.proc].eof = TRUE]
  BY DEF Teardown
<1>4. c.proc # 0 => /\ procs'[c.proc].owner = procs[c.proc].owner
                    /\ procs'[c.proc].eof
  BY <1>1, <1>3 DEF ProcRec
<1>5. \A q \in Procs : q # 0
  BY DEF Procs
<1>6. LiveClient' /\ NoOrphan'
  BY <1>1, <1>2, <1>4, <1>5 DEF OrphanInv, LiveClient, NoOrphan
<1>7. HeldByOwner'
  BY <1>1, <1>2, <1>4, <1>5 DEF OrphanInv, HeldByOwner
<1> QED
  BY <1>6, <1>7 DEF OrphanInv

\* start, for a client g that holds no process and whose processes are all gone.
LEMMA StartOrphan ==
  ASSUME OrphanInv, TypeOK', NEW p \in Procs, NEW cl \in ClientRec, NEW id,
         client' = gen', gen' \in Clients, gen' >= gen,
         ~cl.running, ~cl.stopping, cl.proc = 0,
         client # 0 => ~c.running /\ client = gen',
         client = 0 => gen' > gen,
         c'.proc = p, c'.running, ~c'.stopping,
         procs' = Spawn(p, gen', id)
  PROVE  OrphanInv'
<1>1. \A q \in Procs : q # p => procs'[q] = procs[q]
  BY DEF Spawn, OrphanInv, TypeOK
<1>2. procs'[p].st = "up" /\ procs'[p].owner = gen' /\ procs'[p].eof = FALSE
  BY DEF Spawn, OrphanInv, TypeOK
<1>3. \A q \in Procs : procs[q].owner \in {0} \cup Clients
  BY DEF OrphanInv, TypeOK, ProcRec
<1>4. gen \in Nat /\ gen' \in Nat /\ gen' # 0 /\ p # 0
  BY DEF OrphanInv, TypeOK, Clients, Procs
<1>5. LiveClient'
  BY <1>2, <1>4 DEF LiveClient
<1>6. HeldByOwner'
  <2>1. ASSUME NEW q \in Procs, q # p
        PROVE  /\ procs[q].owner <= gen'
               /\ ~(procs[q].owner = gen' /\ procs[q].st \in {"up", "down"})
    <3>1. procs[q].owner <= gen /\ procs[q].owner \in Nat
      BY <1>3 DEF OrphanInv, HeldByOwner, Clients
    <3>2. client # 0 => c.proc = 0
      BY DEF OrphanInv, LiveClient
    <3> QED
      BY <1>4, <3>1, <3>2 DEF OrphanInv, HeldByOwner, Procs
  <2> QED
    BY <1>1, <1>2, <1>4, <2>1 DEF HeldByOwner
<1>7. NoOrphan'
  BY <1>1, <1>2, <1>4 DEF OrphanInv, NoOrphan
<1> QED
  BY <1>5, <1>6, <1>7 DEF OrphanInv

LEMMA OnHelloOrphan ==
  ASSUME OrphanInv, TypeOK', gen' = gen, NEW g \in Clients,
         NEW res \in Outcomes, NEW cl \in ClientRec, NEW s,
         SameSupervision(cl, procs), OnHello(g, res, cl, s)
  PROVE  OrphanInv'
<1> DEFINE up == [cl EXCEPT !.ready = TRUE, !.attempts = 0, !.queue = <<>>]
<1>1. up \in ClientRec /\ cl.queue \in Seq(Req)
  BY ClientFields, ExceptReady, EmptyTypes
<1>2. CASE c' = cl /\ sched' = s /\ UNCHANGED <<client, procs>>
  BY <1>2, SameSupervisionStep
<1>3. CASE client # 0 /\ Teardown(cl, s)
  BY <1>3, TeardownOrphan DEF SameSupervision
<1>4. CASE /\ c' = DoRequests(up, cl.queue)
           /\ procs' = Send(up, cl.queue)
           /\ sched' = s
           /\ UNCHANGED client
  <2>1. SameSupervision(up, procs)
    BY DEF SameSupervision, ClientRec
  <2> HIDE DEF up
  <2>2. SameSupervision(c', procs')
    BY <1>1, <1>4, <2>1, SendingSupervision DEF OrphanInv
  <2> QED
    BY <1>4, <2>2, SameSupervisionStep
<1>5. client = g => client # 0
  BY DEF Clients
<1> QED
  BY <1>2, <1>3, <1>4, <1>5 DEF OnHello

LEMMA OrphanStep == OrphanInv /\ [Next]_vars => OrphanInv'
<1> SUFFICES ASSUME OrphanInv, [Next]_vars PROVE OrphanInv'
  OBVIOUS
<1>0. /\ TypeOK /\ TypeOK' /\ c \in ClientRec /\ procs \in [Procs -> ProcRec]
      /\ c.proc \in {0} \cup Procs
  BY TypeStep DEF OrphanInv, TypeOK, ClientRec
<1>1. ASSUME NEW r \in Req, Request(r) PROVE OrphanInv'
  <2> DEFINE cl == IF client = 0 THEN NewClient ELSE c
  <2>1. cl \in ClientRec /\ (client # 0 => cl = c)
    BY <1>0 DEF NewClient, ClientRec
  <2>2. ~cl.stopping /\ (~cl.running => cl.proc = 0)
        /\ (client = 0 => ~cl.running)
    BY DEF OrphanInv, LiveClient, NewClient
  <2>3. /\ gen' \in Clients /\ client' = gen' /\ gen' >= gen
        /\ (client = 0 => gen' = gen + 1 /\ gen' > gen)
        /\ (client # 0 => client = gen' /\ gen' = gen)
    BY <1>0, <1>1, ClientAssumption DEF Request, TypeOK, Clients
  <2>4. CASE cl.running
    <3>1. client # 0 /\ c.running
      BY <2>1, <2>2, <2>4
    <3>2. SameSupervision(DoRequests(c, <<r>>), Send(c, <<r>>))
      <4>1. SameSupervision(c, procs) /\ <<r>> \in Seq(Req)
        BY DEF SameSupervision
      <4> QED
        BY <1>0, <4>1, SendingSupervision
    <3>3. SameSupervision([c EXCEPT !.queue = Append(@, r)], procs)
      BY <1>0 DEF SameSupervision, ClientRec
    <3>4. \/ c' = DoRequests(c, <<r>>) /\ procs' = Send(c, <<r>>)
          \/ c' = [c EXCEPT !.queue = Append(@, r)] /\ procs' = procs
      BY <1>1, <3>1 DEF Request
    <3>5. SameSupervision(c', procs')
      BY <3>2, <3>3, <3>4
    <3> QED
      BY <1>0, <2>3, <3>1, <3>5, SameSupervisionStep
  <2> HIDE DEF cl
  <2>5. CASE /\ ~cl.running
             /\ \E p \in Procs :
                  /\ c' = [Started(cl, p) EXCEPT !.queue = Append(@, r)]
                  /\ procs' = Spawn(p, gen', cl.nextId)
    <3>1. PICK p \in Procs :
            /\ c' = [Started(cl, p) EXCEPT !.queue = Append(@, r)]
            /\ procs' = Spawn(p, gen', cl.nextId)
      BY <2>5
    <3>2. c'.proc = p /\ c'.running /\ c'.stopping = cl.stopping
      BY <2>1, <3>1 DEF Started, ClientRec
    <3>3. client # 0 => ~c.running
      BY <2>1, <2>5
    <3> QED
      BY <1>0, <2>1, <2>2, <2>3, <2>5, <3>1, <3>2, <3>3, StartOrphan
  <2>6. CASE ~cl.running /\ c' = cl /\ procs' = procs
    <3>1. CASE client # 0
      BY <1>0, <2>1, <2>3, <2>6, <3>1, SameSupervisionStep DEF SameSupervision
    <3>2. CASE client = 0
      <4>1. \A q \in Procs : /\ procs[q].owner \in Nat
                             /\ procs[q].owner <= gen
        BY <1>0 DEF OrphanInv, HeldByOwner, TypeOK, ProcRec, Clients
      <4>2. gen \in Nat
        BY <1>0 DEF TypeOK, Clients
      <4>3. HeldByOwner'
        BY <2>3, <2>6, <3>2, <4>1, <4>2 DEF HeldByOwner
      <4>4. NoOrphan' /\ LiveClient'
        BY <2>2, <2>6, <3>2 DEF OrphanInv, NoOrphan, LiveClient
      <4> QED
        BY <1>0, <4>3, <4>4 DEF OrphanInv
    <3> QED
      BY <3>1, <3>2
  <2> QED
    BY <1>1, <2>4, <2>5, <2>6 DEF Request, cl
<1>2. ASSUME Stop PROVE OrphanInv'
  BY <1>0, <1>2, TeardownOrphan DEF Stop
<1>3. ASSUME NEW p \in Procs, OnStdout(p) PROVE OrphanInv'
  <2>1. \A q \in Procs : /\ procs'[q].st = procs[q].st
                         /\ procs'[q].owner = procs[q].owner
                         /\ procs'[q].eof = procs[q].eof
    BY <1>0, <1>3 DEF OnStdout, ProcRec
  <2>2. /\ c'.proc = c.proc /\ c'.running = c.running
        /\ c'.stopping = c.stopping
    BY <1>0, <1>3 DEF OnStdout, ClientRec
  <2> QED
    BY <1>0, <1>3, <2>1, <2>2, SameSupervisionStep
    DEF OnStdout, SameSupervision
<1>4. ASSUME NEW p \in Procs, OnExit(p) PROVE OrphanInv'
  <2> DEFINE cl == [c EXCEPT !.running = FALSE, !.ready = FALSE, !.proc = 0,
                             !.pending = {}]
             s == Schedule(sched, FailPending(c, client))
  <2>1. /\ \A q \in Procs : q # p => procs'[q] = procs[q]
        /\ procs'[p].st = "gone" /\ procs'[p].owner = procs[p].owner
        /\ procs[p].st = "down"
    BY <1>0, <1>4 DEF OnExit, ProcRec
  <2>2. client' = client /\ gen' = gen /\ p # 0
    BY <1>4 DEF OnExit, Procs
  <2>3. CASE Owned(p)
    <3>1. client # 0 /\ c.proc = p /\ ~c.stopping
      BY <2>1, <2>3 DEF Owned, OrphanInv, HeldByOwner, LiveClient
    <3>2. cl \in ClientRec /\ ~cl.running /\ cl.proc = 0 /\ ~cl.stopping
      BY <1>0, <3>1 DEF ClientRec
    <3> HIDE DEF cl, s
    <3>3. ScheduleRestart(cl, s)
      BY <1>4, <2>3, <3>1 DEF OnExit, cl, s
    <3>4. ~c'.running /\ c'.proc = 0 /\ ~c'.stopping
      BY <3>2, <3>3 DEF ScheduleRestart, GiveUp, ClientRec
    <3>5. LiveClient'
      BY <3>4 DEF LiveClient
    <3>6. HeldByOwner'
      BY <2>1, <2>2, <3>1 DEF OrphanInv, HeldByOwner
    <3>7. NoOrphan'
      BY <2>1, <3>1 DEF OrphanInv, NoOrphan
    <3> QED
      BY <1>0, <3>5, <3>6, <3>7 DEF OrphanInv
  <2>4. CASE ~Owned(p)
    <3>1. c' = c
      BY <1>4, <2>4 DEF OnExit
    <3>2. client # 0 => c.proc # p
      BY <2>2, <2>4 DEF Owned, OrphanInv, LiveClient
    <3>3. LiveClient'
      BY <1>0, <2>1, <2>2, <3>1, <3>2 DEF OrphanInv, LiveClient
    <3>4. HeldByOwner'
      BY <2>1, <2>2, <3>1 DEF OrphanInv, HeldByOwner
    <3>5. NoOrphan'
      BY <2>1, <2>2, <3>1 DEF OrphanInv, NoOrphan
    <3> QED
      BY <1>0, <3>3, <3>4, <3>5 DEF OrphanInv
  <2> QED
    BY <2>3, <2>4
<1>5. ASSUME NEW p \in Procs, Answer(p) PROVE OrphanInv'
  <2>1. \A q \in Procs : /\ procs'[q].st = procs[q].st
                         /\ procs'[q].owner = procs[q].owner
                         /\ procs'[q].eof = procs[q].eof
    BY <1>0, <1>5 DEF Answer, ProcRec
  <2> QED
    BY <1>0, <1>5, <2>1, SameSupervisionStep DEF Answer, SameSupervision
<1>6. ASSUME NEW p \in Procs, Die(p) PROVE OrphanInv'
  <2>1. \A q \in Procs : q # p => procs'[q] = procs[q]
    BY <1>0, <1>6 DEF Die
  <2>2. /\ procs[p].st = "up" /\ procs'[p].st = "down"
        /\ procs'[p].owner = procs[p].owner
        /\ procs'[p].eof = procs[p].eof
    BY <1>0, <1>6 DEF Die, ProcRec
  <2>3. client' = client /\ gen' = gen /\ c' = c
    BY <1>6 DEF Die
  <2>4. LiveClient'
    BY <1>0, <2>1, <2>2, <2>3 DEF OrphanInv, LiveClient
  <2>5. HeldByOwner'
    BY <2>1, <2>2, <2>3 DEF OrphanInv, HeldByOwner
  <2>6. NoOrphan'
    BY <2>1, <2>2, <2>3 DEF OrphanInv, NoOrphan
  <2> QED
    BY <1>0, <2>4, <2>5, <2>6 DEF OrphanInv
<1>7. ASSUME NEW e \in c.pending, TimerFire(e) PROVE OrphanInv'
  <2>1. /\ c'.proc = c.proc /\ c'.running = c.running
        /\ c'.stopping = c.stopping
    BY <1>0, <1>7 DEF TimerFire, ClientRec
  <2> QED
    BY <1>0, <1>7, <2>1, SameSupervisionStep DEF TimerFire, SameSupervision
<1>8. ASSUME NEW g \in Clients, RestartFire(g) PROVE OrphanInv'
  BY <1>0, <1>8, SameSupervisionStep DEF RestartFire, SameSupervision
<1>9. ASSUME RunCallback PROVE OrphanInv'
  <2>0. PICK cb \in Head(sched) :
          RunCall(cb) \/ RunHello(cb) \/ RunTimeout(cb) \/ RunRestart(cb)
    BY <1>9 DEF RunCallback
  <2>1. cb \in Callback
    BY <1>0, <1>9, PoppedType DEF RunCallback, TypeOK
  <2>2. cb.gen \in Clients /\ cb.res \in Outcomes
    BY <2>1 DEF Callback
  <2>3. CASE RunCall(cb)
    BY <1>0, <2>3, SameSupervisionStep DEF RunCall, SameSupervision
  <2>4. CASE RunHello(cb)
    <3>1. gen' = gen /\ OnHello(cb.gen, cb.res, c, Popped(cb))
      BY <2>4 DEF RunHello
    <3>2. SameSupervision(c, procs)
      BY DEF SameSupervision
    <3> QED
      BY <1>0, <2>2, <3>1, <3>2, OnHelloOrphan
  <2>5. CASE RunTimeout(cb)
    <3> DEFINE hit == {e \in c.pending : e.id = cb.id}
               cl == [c EXCEPT !.pending = @ \ hit]
    <3>1. cl \in ClientRec /\ SameSupervision(cl, procs)
      BY <1>0 DEF ClientRec, SameSupervision
    <3>2. CASE UNCHANGED <<client, c, procs>>
      BY <1>0, <2>5, <3>2, SameSupervisionStep DEF RunTimeout, SameSupervision
    <3>3. CASE OnHello(cb.gen, "network", cl, Popped(cb))
      <4>1. "network" \in Outcomes /\ gen' = gen
        BY <2>5 DEF Outcomes, RunTimeout
      <4> HIDE DEF cl
      <4> QED
        BY <1>0, <2>2, <3>1, <3>3, <4>1, OnHelloOrphan
    <3>4. CASE c' = cl /\ UNCHANGED <<client, procs>>
      <4> HIDE DEF cl
      <4>1. SameSupervision(c', procs') /\ gen' = gen
        BY <2>5, <3>1, <3>4 DEF SameSupervision, RunTimeout
      <4> QED
        BY <1>0, <3>4, <4>1, SameSupervisionStep
    <3> QED
      BY <2>5, <3>2, <3>3, <3>4 DEF RunTimeout
  <2>6. CASE RunRestart(cb)
    <3>1. CASE UNCHANGED <<c, procs>>
      BY <1>0, <2>6, <3>1, SameSupervisionStep DEF RunRestart, SameSupervision
    <3>2. ASSUME ~RestartMoot(cb.gen), NEW p \in Procs, c' = Started(c, p),
                 procs' = Spawn(p, client, c.nextId)
          PROVE  OrphanInv'
      <4>1. client = cb.gen /\ client # 0 /\ ~c.stopping /\ ~c.running
        BY <2>2, <3>2 DEF RestartMoot, Clients
      <4>2. client' = client /\ gen' = gen /\ gen = client /\ c.proc = 0
        BY <1>0, <2>6, <4>1 DEF RunRestart, TypeOK, OrphanInv, LiveClient
      <4>3. c'.proc = p /\ c'.running /\ c'.stopping = c.stopping
        BY <1>0, <3>2 DEF Started, ClientRec
      <4>4. gen >= gen
        BY <1>0 DEF TypeOK, Clients
      <4> QED
        BY <1>0, <2>2, <3>2, <4>1, <4>2, <4>3, <4>4, StartOrphan
    <3>3. ASSUME ScheduleRestart(c, Popped(cb)), UNCHANGED procs
          PROVE  OrphanInv'
      <4>1. /\ c'.proc = c.proc /\ c'.running = c.running
            /\ c'.stopping = c.stopping
        BY <1>0, <3>3 DEF ScheduleRestart, GiveUp, ClientRec
      <4> QED
        BY <1>0, <2>6, <3>3, <4>1, SameSupervisionStep
        DEF RunRestart, SameSupervision
    <3> QED
      BY <2>6, <3>1, <3>2, <3>3 DEF RunRestart
  <2> QED
    BY <2>0, <2>3, <2>4, <2>5, <2>6
<1>10. CASE UNCHANGED vars
  BY <1>0, <1>10, SameSupervisionStep DEF vars, SameSupervision
<1> QED
  BY <1>1, <1>2, <1>3, <1>4, <1>5, <1>6, <1>7, <1>8, <1>9, <1>10 DEF Next

\* No crash, stop, failed spawn or late restart timer leaves a process running
\* that the live client does not hold (start, teardown, schedule_restart), for
\* every number of clients, processes, requests and restart attempts.
THEOREM NoOrphanEver == Spec => []NoOrphan
<1>1. Init => OrphanInv
  <2>1. Init => TypeOK
    BY ClientAssumption
    DEF Init, TypeOK, NewClient, ClientRec, NoProc, ProcRec
  <2>2. Init => LiveClient /\ HeldByOwner /\ NoOrphan
    BY DEF Init, LiveClient, HeldByOwner, NoOrphan, NoProc
  <2> QED
    BY <2>1, <2>2 DEF OrphanInv
<1>2. OrphanInv => NoOrphan
  BY DEF OrphanInv
<1> QED
  BY <1>1, <1>2, OrphanStep, PTL DEF Spec
-----------------------------------------------------------------------------
(* RightAnswer.  Ids start again with every client, so what keeps an answer  *)
(* with its request is that every frame of a process of the live client has  *)
(* an id this client gave out, and gave to that request.                     *)

\* A frame or a reply f has an id that client fields cl gave to its request.
Given(cl, f) ==
  /\ f.id < cl.nextId
  /\ \A e \in cl.pending : e.id = f.id => e.req = f.req

\* Client g, whose fields are cl, and the processes ps.
IdsOf(cl, g, ps) ==
  /\ \A e \in cl.pending : e.id < cl.nextId
  /\ \A p \in Procs : ps[p].owner = g =>
       /\ \A f \in ps[p].inbox : Given(cl, f)
       /\ \A i \in DOMAIN ps[p].out : Given(cl, ps[p].out[i])

IdsAgree == client # 0 => IdsOf(c, client, procs)

\* A set of callbacks, and a queue of them, in which calls are of the request
\* that was answered.
RightSet(cbs) == \A cb \in cbs : cb.k = "call" => cb.from = cb.req
RightCalls(s) == \A i \in DOMAIN s : RightSet(s[i])

\* The inductive invariant behind RightAnswer.
IdInv == OrphanInv /\ IdsAgree /\ RightAnswer

LEMMA ScheduleRight ==
  ASSUME NEW s \in Seq((SUBSET Callback) \ {{}}), NEW cbs,
         RightCalls(s), RightSet(cbs)
  PROVE  RightCalls(Schedule(s, cbs))
BY DEF Schedule, RightCalls

LEMMA PoppedRight ==
  ASSUME sched \in Seq((SUBSET Callback) \ {{}}), sched # <<>>,
         NEW cb \in Head(sched), RightCalls(sched)
  PROVE  RightCalls(Popped(cb))
<1>1. RightCalls(Tail(sched))
  BY DEF RightCalls
<1>2. RightSet(Head(sched) \ {cb})
  BY DEF RightCalls, RightSet
<1>3. Tail(sched) \in Seq((SUBSET Callback) \ {{}})
  OBVIOUS
<1> DEFINE H == Head(sched) \ {cb}
           T == Tail(sched)
<1>4. RightCalls(<<H>> \o T)
  <2> HIDE DEF H, T
  <2> SUFFICES ASSUME NEW i \in DOMAIN (<<H>> \o T) PROVE RightSet((<<H>> \o T)[i])
    BY DEF RightCalls
  <2>1. T \in Seq((SUBSET Callback) \ {{}})
    BY <1>3 DEF T
  <2>2. i = 1 \/ (i - 1 \in DOMAIN T /\ (<<H>> \o T)[i] = T[i - 1])
    BY <2>1
  <2>3. (<<H>> \o T)[1] = H
    BY <2>1
  <2> QED
    BY <1>1, <1>2, <2>2, <2>3 DEF RightCalls, H, T
<1> QED
  BY <1>1, <1>4 DEF Popped

LEMMA FailRight ==
  ASSUME NEW cl, NEW g
  PROVE  RightSet(FailPending(cl, g)) /\ RightSet(FailAll(cl, g))
BY DEF RightSet, FailPending, FailAll, Fail

\* A client with no other pending ids, and processes with no other frames.
LEMMA FewerIds ==
  ASSUME NEW cl, NEW g, NEW ps, NEW cl2, NEW ps2, IdsOf(cl, g, ps),
         cl2.nextId = cl.nextId,
         \A e \in cl2.pending : \E d \in cl.pending : d.id = e.id /\ d.req = e.req,
         \A p \in Procs : ps2[p].owner = g =>
           /\ ps[p].owner = g
           /\ ps2[p].inbox \subseteq ps[p].inbox
           /\ \A i \in DOMAIN ps2[p].out : \E j \in DOMAIN ps[p].out :
                ps2[p].out[i] = ps[p].out[j]
  PROVE  IdsOf(cl2, g, ps2)
<1>1. ASSUME NEW f, Given(cl, f) PROVE Given(cl2, f)
  BY <1>1 DEF Given
<1>2. \A e \in cl2.pending : e.id < cl2.nextId
  BY DEF IdsOf
<1>3. ASSUME NEW p \in Procs, ps2[p].owner = g
      PROVE  /\ \A f \in ps2[p].inbox : Given(cl2, f)
             /\ \A i \in DOMAIN ps2[p].out : Given(cl2, ps2[p].out[i])
  BY <1>1, <1>3 DEF IdsOf
<1> QED
  BY <1>2, <1>3 DEF IdsOf

LEMMA FrameIds ==
  ASSUME TypeOK, NEW p \in Procs
  PROVE  /\ \A f \in procs[p].inbox : f.id \in Nat
         /\ \A i \in DOMAIN procs[p].out : procs[p].out[i].id \in Nat
<1>1. procs[p].inbox \in SUBSET Frame /\ procs[p].out \in Seq(Reply)
  BY DEF TypeOK, ProcRec
<1>2. \A i \in DOMAIN procs[p].out : procs[p].out[i] \in Reply
  BY <1>1
<1> QED
  BY <1>1, <1>2 DEF Frame, Reply

\* do_request gives each request an id of its own.
LEMMA SendingIds ==
  ASSUME TypeOK, NEW cl \in ClientRec, NEW g, NEW q \in Seq(Req),
         IdsOf(cl, g, procs)
  PROVE  IdsOf(DoRequests(cl, q), g, Send(cl, q))
<1> DEFINE n == cl.nextId
           F == {[id |-> n + i - 1, req |-> q[i]] : i \in DOMAIN q}
           E == {Await(n + i - 1, q[i]) : i \in DOMAIN q}
           d == DoRequests(cl, q)
<1>0. n \in Nat /\ Len(q) \in Nat /\ DOMAIN q = 1 .. Len(q) /\ cl.pending \in SUBSET Entry
      /\ procs \in [Procs -> ProcRec] /\ cl.proc \in {0} \cup Procs
  BY DEF ClientRec, TypeOK
<1>1. d.nextId = n + Len(q) /\ d.pending = IF cl.proc # 0 THEN cl.pending \cup E ELSE cl.pending
  BY <1>0 DEF DoRequests, ClientRec
<1>2. \A e \in E : \E i \in DOMAIN q : e.id = n + i - 1 /\ e.req = q[i]
  BY DEF Await
<1>3. \A f \in F : \E i \in DOMAIN q : f.id = n + i - 1 /\ f.req = q[i]
  OBVIOUS
<1>4. \A e \in cl.pending : e.id \in Nat /\ e.id < n
  BY <1>0 DEF IdsOf, Entry
<1>5. \A p \in Procs : /\ Send(cl, q)[p].owner = procs[p].owner
                       /\ Send(cl, q)[p].out = procs[p].out
                       /\ Send(cl, q)[p].inbox \subseteq procs[p].inbox \cup F
  BY <1>0 DEF Send, ProcRec
<1>6. \A p \in Procs : /\ \A f \in procs[p].inbox : f.id \in Nat
                       /\ \A i \in DOMAIN procs[p].out : procs[p].out[i].id \in Nat
  BY FrameIds
<1> HIDE DEF n, F, E, d
<1>7. \A e \in d.pending : e.id < d.nextId
  BY <1>0, <1>1, <1>2, <1>4
<1>8. ASSUME NEW f, f.id \in Nat, Given(cl, f) PROVE Given(d, f)
  BY <1>0, <1>1, <1>2, <1>8 DEF Given, n
<1>9. ASSUME NEW f \in F PROVE Given(d, f)
  BY <1>0, <1>1, <1>2, <1>3, <1>4 DEF Given
<1>10. ASSUME NEW p \in Procs, Send(cl, q)[p].owner = g
       PROVE  /\ \A f \in Send(cl, q)[p].inbox : Given(d, f)
              /\ \A i \in DOMAIN Send(cl, q)[p].out : Given(d, Send(cl, q)[p].out[i])
  BY <1>5, <1>6, <1>8, <1>9, <1>10 DEF IdsOf
<1> QED
  BY <1>7, <1>10 DEF IdsOf, d

\* start gives the hello an id of its own.
LEMMA StartIds ==
  ASSUME TypeOK, NEW cl \in ClientRec, NEW g, NEW p \in Procs, NEW cl2,
         IdsOf(cl, g, procs),
         cl2.nextId = Started(cl, p).nextId, cl2.pending = Started(cl, p).pending
  PROVE  IdsOf(cl2, g, Spawn(p, g, cl.nextId))
<1> DEFINE n == cl.nextId
           ps == Spawn(p, g, n)
<1>0. n \in Nat /\ cl.pending \in SUBSET Entry /\ procs \in [Procs -> ProcRec]
  BY DEF ClientRec, TypeOK
<1>1. cl2.nextId = n + 1 /\ cl2.pending = cl.pending \cup {Await(n, Hello)}
  BY <1>0 DEF Started, ClientRec
<1>2. \A e \in cl.pending : e.id \in Nat /\ e.id < n
  BY <1>0 DEF IdsOf, Entry
<1>3. \A r \in Procs : r # p => ps[r] = procs[r]
  BY <1>0 DEF Spawn
<1>4. ps[p].inbox = {[id |-> n, req |-> Hello]} /\ ps[p].out = <<>>
  BY <1>0 DEF Spawn
<1>5. \A r \in Procs : /\ \A f \in procs[r].inbox : f.id \in Nat
                       /\ \A i \in DOMAIN procs[r].out : procs[r].out[i].id \in Nat
  BY FrameIds
<1>6. Await(n, Hello).id = n /\ Await(n, Hello).req = Hello
  BY DEF Await
<1> HIDE DEF n, ps
<1>7. \A e \in cl2.pending : e.id < cl2.nextId
  BY <1>0, <1>1, <1>2, <1>6
<1>8. ASSUME NEW f, f.id \in Nat, Given(cl, f) PROVE Given(cl2, f)
  BY <1>0, <1>1, <1>6, <1>8 DEF Given, n
<1>9. Given(cl2, [id |-> n, req |-> Hello])
  BY <1>0, <1>1, <1>2, <1>6 DEF Given
<1>10. ASSUME NEW r \in Procs, ps[r].owner = g
       PROVE  /\ \A f \in ps[r].inbox : Given(cl2, f)
              /\ \A i \in DOMAIN ps[r].out : Given(cl2, ps[r].out[i])
  <2>1. CASE r = p
    BY <1>4, <1>9, <2>1
  <2>2. CASE r # p
    BY <1>3, <1>5, <1>8, <1>10, <2>2 DEF IdsOf
  <2> QED
    BY <2>1, <2>2
<1> QED
  BY <1>7, <1>10 DEF IdsOf, ps, n
\* What teardown and schedule_restart do to the queue.
LEMMA TeardownRight ==
  ASSUME TypeOK, NEW cl \in ClientRec, NEW s \in Seq((SUBSET Callback) \ {{}}),
         RightCalls(s), Teardown(cl, s)
  PROVE  IdsAgree' /\ RightCalls(sched')
<1>1. client' = 0 /\ sched' = Schedule(s, FailAll(cl, client))
  BY DEF Teardown
<1> QED
  BY <1>1, FailRight, ScheduleRight DEF IdsAgree

LEMMA ScheduleRestartRight ==
  ASSUME TypeOK, NEW cl \in ClientRec, NEW s \in Seq((SUBSET Callback) \ {{}}),
         RightCalls(s), ScheduleRestart(cl, s)
  PROVE  /\ RightCalls(sched')
         /\ c'.nextId = cl.nextId
         /\ c'.pending \subseteq cl.pending
<1>1. RightCalls(sched')
  BY FailRight, ScheduleRight DEF ScheduleRestart, GiveUp
<1> QED
  BY <1>1 DEF ScheduleRestart, GiveUp, ClientRec

LEMMA OnHelloRight ==
  ASSUME TypeOK, NEW g \in Clients, NEW res, NEW cl \in ClientRec,
         NEW s \in Seq((SUBSET Callback) \ {{}}),
         client # 0 => IdsOf(cl, client, procs), RightCalls(s), OnHello(g, res, cl, s)
  PROVE  IdsAgree' /\ RightCalls(sched')
<1> DEFINE up == [cl EXCEPT !.ready = TRUE, !.attempts = 0, !.queue = <<>>]
<1>1. up \in ClientRec /\ cl.queue \in Seq(Req)
  BY ClientFields, ExceptReady, EmptyTypes
<1>2. CASE c' = cl /\ sched' = s /\ UNCHANGED <<client, procs>>
  BY <1>2 DEF IdsAgree
<1>3. CASE Teardown(cl, s)
  BY <1>3, TeardownRight
<1>4. CASE /\ c' = DoRequests(up, cl.queue)
           /\ procs' = Send(up, cl.queue)
           /\ sched' = s
           /\ UNCHANGED client
  <2>1. up.nextId = cl.nextId /\ up.pending = cl.pending
    BY DEF ClientRec
  <2> HIDE DEF up
  <2>2. client # 0 => IdsOf(up, client, procs)
    BY <2>1, FewerIds
  <2>3. client # 0 => IdsOf(DoRequests(up, cl.queue), client, Send(up, cl.queue))
    BY <1>1, <2>2, SendingIds
  <2> QED
    BY <1>4, <2>3 DEF IdsAgree
<1> QED
  BY <1>2, <1>3, <1>4 DEF OnHello

LEMMA IdStep == IdInv /\ [Next]_vars => IdInv'
<1> SUFFICES ASSUME IdInv, [Next]_vars PROVE IdsAgree' /\ RightCalls(sched')
  BY OrphanStep DEF IdInv, RightAnswer, RightCalls, RightSet
<1>0. /\ TypeOK /\ OrphanInv /\ TypeOK' /\ c \in ClientRec /\ procs \in [Procs -> ProcRec]
      /\ sched \in Seq((SUBSET Callback) \ {{}})
  BY TypeStep DEF IdInv, OrphanInv, TypeOK
<1>r. RightCalls(sched)
  BY DEF IdInv, RightAnswer, RightCalls, RightSet
<1>i. client # 0 => IdsOf(c, client, procs)
  BY DEF IdInv, IdsAgree
<1>p. ASSUME NEW ps, NEW cl, client' = client, c' = cl, procs' = ps,
             client # 0 => cl.nextId = c.nextId /\ cl.pending \subseteq c.pending,
             \A p \in Procs : /\ ps[p].owner = procs[p].owner
                              /\ ps[p].inbox \subseteq procs[p].inbox
                              /\ \A i \in DOMAIN ps[p].out : \E j \in DOMAIN procs[p].out :
                                   ps[p].out[i] = procs[p].out[j]
      PROVE  IdsAgree'
  BY <1>i, <1>p, FewerIds DEF IdsAgree
<1>1. ASSUME NEW r \in Req, Request(r) PROVE IdsAgree' /\ RightCalls(sched')
  <2> DEFINE cl == IF client = 0 THEN NewClient ELSE c
  <2>1. cl \in ClientRec /\ cl.queue \in Seq(Req)
    BY <1>0 DEF NewClient, ClientRec
  <2>2. gen' \in Clients /\ client' = gen' /\ client' # 0
    BY <1>0, <1>1, ClientAssumption DEF Request, TypeOK, Clients
  <2>3. IdsOf(cl, gen', procs)
    <3>1. CASE client = 0
      <4>1. \A q \in Procs : procs[q].owner \in Nat /\ procs[q].owner <= gen
        BY <1>0 DEF OrphanInv, HeldByOwner, TypeOK, ProcRec, Clients
      <4>2. gen \in Nat /\ gen' = gen + 1
        BY <1>0, <1>1, <3>1 DEF TypeOK, Clients, Request
      <4>3. \A q \in Procs : procs[q].owner # gen'
        BY <4>1, <4>2
      <4> QED
        BY <3>1, <4>3 DEF IdsOf, NewClient
    <3>2. CASE client # 0
      <4>1. gen' = client
        BY <1>0, <1>1, <3>2 DEF TypeOK, Request
      <4> QED
        BY <1>i, <3>2, <4>1
    <3> QED
      BY <3>1, <3>2
  <2>4. RightCalls(sched')
    <3>1. RightSet({Fail(gen', 0, r)})
      BY DEF RightSet, Fail
    <3> QED
      BY <1>0, <1>1, <1>r, <3>1, ScheduleRight DEF Request
  <2> HIDE DEF cl
  <2>5. CASE c' = DoRequests(cl, <<r>>) /\ procs' = Send(cl, <<r>>)
    <3>1. <<r>> \in Seq(Req)
      OBVIOUS
    <3>2. IdsOf(DoRequests(cl, <<r>>), gen', Send(cl, <<r>>))
      BY <1>0, <2>1, <2>3, <3>1, SendingIds
    <3> QED
      BY <2>2, <2>4, <2>5, <3>2 DEF IdsAgree
  <2>6. CASE c' = [cl EXCEPT !.queue = Append(@, r)] /\ procs' = procs
    <3>1. c'.nextId = cl.nextId /\ c'.pending = cl.pending
      BY <2>1, <2>6 DEF ClientRec
    <3>2. IdsOf(c', gen', procs)
      BY <2>3, <3>1, FewerIds
    <3> QED
      BY <2>2, <2>4, <2>6, <3>2 DEF IdsAgree
  <2>7. ASSUME NEW p \in Procs, c' = [Started(cl, p) EXCEPT !.queue = Append(@, r)],
               procs' = Spawn(p, gen', cl.nextId)
        PROVE  IdsAgree' /\ RightCalls(sched')
    <3>1. c'.nextId = Started(cl, p).nextId /\ c'.pending = Started(cl, p).pending
      BY <2>1, <2>7 DEF Started, ClientRec
    <3>2. IdsOf(c', gen', Spawn(p, gen', cl.nextId))
      BY <1>0, <2>1, <2>3, <3>1, StartIds
    <3> QED
      BY <2>2, <2>4, <2>7, <3>2 DEF IdsAgree
  <2>8. CASE c' = cl /\ procs' = procs
    BY <2>2, <2>3, <2>4, <2>8 DEF IdsAgree
  <2> QED
    BY <1>1, <2>5, <2>6, <2>7, <2>8 DEF Request, cl
<1>2. ASSUME Stop PROVE IdsAgree' /\ RightCalls(sched')
  BY <1>0, <1>2, <1>r, TeardownRight DEF Stop
<1>3. ASSUME NEW p \in Procs, OnStdout(p) PROVE IdsAgree' /\ RightCalls(sched')
  <2> DEFINE f == Head(procs[p].out)
             hit == {e \in c.pending : e.id = f.id}
             cbs == {[k |-> "call", gen |-> client, id |-> e.id,
                      req |-> e.req, res |-> f.res, from |-> f.req] :
                       e \in hit}
  <2>1. procs[p].out \in Seq(Reply) /\ procs[p].out # <<>>
    BY <1>0, <1>3 DEF OnStdout, ProcRec
  <2>2. f = procs[p].out[1] /\ 1 \in DOMAIN procs[p].out
    BY <2>1
  <2>3. \A q \in Procs : /\ procs'[q].owner = procs[q].owner
                         /\ procs'[q].inbox = procs[q].inbox
                         /\ procs'[q].out = IF q = p THEN Tail(procs[p].out) ELSE procs[q].out
    BY <1>0, <1>3 DEF OnStdout, ProcRec
  <2>4. \A i \in DOMAIN Tail(procs[p].out) : \E j \in DOMAIN procs[p].out :
          Tail(procs[p].out)[i] = procs[p].out[j]
    <3>1. \A i \in DOMAIN Tail(procs[p].out) : /\ i + 1 \in DOMAIN procs[p].out
                                               /\ Tail(procs[p].out)[i] = procs[p].out[i + 1]
      BY <2>1
    <3> QED
      BY <3>1
  <2>5. c'.nextId = c.nextId /\ c'.pending \subseteq c.pending /\ client' = client
    BY <1>0, <1>3 DEF OnStdout, ClientRec
  <2>6. \A q \in Procs : \A i \in DOMAIN procs'[q].out : \E j \in DOMAIN procs[q].out :
          procs'[q].out[i] = procs[q].out[j]
    BY <2>3, <2>4
  <2>7. IdsAgree'
    BY <1>p, <2>3, <2>5, <2>6
  <2>8. Owned(p) => RightSet(cbs)
    <3>1. Owned(p) => Given(c, f)
      BY <1>i, <2>2 DEF Owned, IdsOf
    <3> HIDE DEF f
    <3> QED
      BY <3>1 DEF RightSet, Given
  <2>9. IF Owned(p) THEN sched' = Schedule(sched, cbs) ELSE sched' = sched
    BY <1>3 DEF OnStdout
  <2> HIDE DEF cbs
  <2> QED
    BY <1>0, <1>r, <2>7, <2>8, <2>9, ScheduleRight
<1>4. ASSUME NEW p \in Procs, OnExit(p) PROVE IdsAgree' /\ RightCalls(sched')
  <2> DEFINE cl == [c EXCEPT !.running = FALSE, !.ready = FALSE, !.proc = 0,
                             !.pending = {}]
             s == Schedule(sched, FailPending(c, client))
  <2>1. \A q \in Procs : /\ procs'[q].owner = procs[q].owner
                         /\ procs'[q].inbox = procs[q].inbox
                         /\ procs'[q].out = procs[q].out
    BY <1>0, <1>4 DEF OnExit, ProcRec
  <2>2. cl \in ClientRec /\ cl.nextId = c.nextId /\ cl.pending = {}
    BY <1>0 DEF ClientRec
  <2>3. client # 0 => s \in Seq((SUBSET Callback) \ {{}}) /\ RightCalls(s)
    BY <1>0, <1>r, FailType, FailRight, ScheduleType, ScheduleRight DEF TypeOK
  <2>4. /\ RightCalls(sched')
        /\ client # 0 => c'.nextId = c.nextId /\ c'.pending \subseteq c.pending
    <3>1. CASE ~Owned(p)
      BY <1>4, <1>r, <3>1 DEF OnExit
    <3>2. CASE Owned(p) /\ c.stopping
      BY <1>0, <1>4, <2>3, <3>2 DEF OnExit, Owned, ClientRec
    <3>3. CASE Owned(p) /\ ~c.stopping
      <4>1. ScheduleRestart(cl, s) /\ client # 0
        BY <1>4, <3>3 DEF OnExit, Owned
      <4> HIDE DEF cl, s
      <4>2. RightCalls(sched') /\ c'.nextId = cl.nextId /\ c'.pending \subseteq cl.pending
        BY <1>0, <2>2, <2>3, <4>1, ScheduleRestartRight
      <4> QED
        BY <2>2, <4>2
    <3> QED
      BY <3>1, <3>2, <3>3
  <2> QED
    BY <1>4, <1>p, <2>1, <2>4, ZenonT(40) DEF OnExit
<1>5. ASSUME NEW p \in Procs, Answer(p) PROVE IdsAgree' /\ RightCalls(sched')
  <2>1. PICK f \in procs[p].inbox, res \in Answers :
          procs' = [procs EXCEPT
            ![p].inbox = @ \ {f},
            ![p].hello = IF f.req # Hello THEN @
                         ELSE IF res = "err" THEN "bad" ELSE "ok",
            ![p].out = Append(@, [id |-> f.id, req |-> f.req, res |-> res])]
    BY <1>5 DEF Answer
  <2> DEFINE a == [id |-> f.id, req |-> f.req, res |-> res]
  <2>2. \A q \in Procs : /\ procs'[q].owner = procs[q].owner
                         /\ procs'[q].inbox \subseteq procs[q].inbox
                         /\ procs'[q].out = IF q = p THEN Append(procs[p].out, a) ELSE procs[q].out
    BY <1>0, <2>1 DEF ProcRec
  <2>3. procs[p].out \in Seq(Reply)
    BY <1>0 DEF ProcRec
  <2>4. \A i \in DOMAIN Append(procs[p].out, a) :
          \/ Append(procs[p].out, a)[i] = a
          \/ i \in DOMAIN procs[p].out /\ Append(procs[p].out, a)[i] = procs[p].out[i]
    <3> HIDE DEF a
    <3> QED
      BY <2>3
  <2>5. client' = client /\ c' = c /\ sched' = sched
    BY <1>5 DEF Answer
  <2>6. ASSUME client # 0, procs[p].owner = client PROVE Given(c, a)
    <3>1. Given(c, f)
      BY <1>i, <2>6 DEF IdsOf
    <3> QED
      BY <3>1 DEF Given
  <2> HIDE DEF a
  <2>7. client # 0 => IdsOf(c, client, procs')
    BY <1>i, <2>2, <2>4, <2>6 DEF IdsOf
  <2> QED
    BY <1>r, <2>5, <2>7 DEF IdsAgree
<1>6. ASSUME NEW p \in Procs, Die(p) PROVE IdsAgree' /\ RightCalls(sched')
  <2>1. \A q \in Procs : /\ procs'[q].owner = procs[q].owner
                         /\ procs'[q].inbox \subseteq procs[q].inbox
                         /\ procs'[q].out = procs[q].out
    BY <1>0, <1>6 DEF Die, ProcRec
  <2> QED
    BY <1>6, <1>p, <1>r, <2>1 DEF Die
<1>7. ASSUME NEW e \in c.pending, TimerFire(e) PROVE IdsAgree' /\ RightCalls(sched')
  <2> DEFINE cb == [k |-> "timeout", gen |-> client, id |-> e.id, req |-> e.req,
                    res |-> "network", from |-> e.req]
  <2>1. c'.nextId = c.nextId /\ c'.pending = (c.pending \ {e}) \cup {[e EXCEPT !.armed = FALSE]}
    BY <1>0, <1>7 DEF TimerFire, ClientRec
  <2>2. e \in Entry
    BY <1>0 DEF ClientRec
  <2>3. \A x \in c'.pending : \E d \in c.pending : d.id = x.id /\ d.req = x.req
    BY <2>1, <2>2 DEF Entry
  <2>4. IdsAgree'
    <3>1. client' = client /\ procs' = procs /\ client # 0
      BY <1>7 DEF TimerFire
    <3>2. IdsOf(c', client, procs)
      BY <1>i, <2>1, <2>3, <3>1, FewerIds
    <3> QED
      BY <3>1, <3>2 DEF IdsAgree
  <2>5. RightSet({cb})
    BY DEF RightSet
  <2> QED
    BY <1>0, <1>7, <1>r, <2>4, <2>5, ScheduleRight DEF TimerFire
<1>8. ASSUME NEW g \in Clients, RestartFire(g) PROVE IdsAgree' /\ RightCalls(sched')
  <2> DEFINE cb == [k |-> "restart", gen |-> g, id |-> 0, req |-> Hello,
                    res |-> "ok", from |-> Hello]
  <2>1. RightSet({cb})
    BY DEF RightSet
  <2> QED
    BY <1>0, <1>8, <1>i, <1>r, <2>1, ScheduleRight DEF RestartFire, IdsAgree
<1>9. ASSUME RunCallback PROVE IdsAgree' /\ RightCalls(sched')
  <2>0. PICK cb \in Head(sched) :
          RunCall(cb) \/ RunHello(cb) \/ RunTimeout(cb) \/ RunRestart(cb)
    BY <1>9 DEF RunCallback
  <2>1. /\ Popped(cb) \in Seq((SUBSET Callback) \ {{}})
        /\ cb \in Callback /\ RightCalls(Popped(cb))
    BY <1>0, <1>9, <1>r, PoppedType, PoppedRight DEF RunCallback
  <2>2. cb.gen \in Clients
    BY <2>1 DEF Callback
  <2>3. CASE RunCall(cb)
    BY <1>i, <2>1, <2>3 DEF RunCall, IdsAgree
  <2>4. CASE RunHello(cb)
    BY <1>0, <1>i, <2>1, <2>2, <2>4, OnHelloRight DEF RunHello
  <2>5. CASE RunTimeout(cb)
    <3> DEFINE hit == {e \in c.pending : e.id = cb.id}
               cl == [c EXCEPT !.pending = @ \ hit]
    <3>1. cl \in ClientRec /\ cl.nextId = c.nextId /\ cl.pending \subseteq c.pending
      BY <1>0 DEF ClientRec
    <3> HIDE DEF cl
    <3>2. client # 0 => IdsOf(cl, client, procs)
      BY <1>i, <3>1, FewerIds
    <3>3. CASE sched' = Popped(cb) /\ UNCHANGED <<client, c, procs>>
      BY <1>i, <2>1, <3>3 DEF IdsAgree
    <3>4. CASE OnHello(cb.gen, "network", cl, Popped(cb))
      BY <1>0, <2>1, <2>2, <3>1, <3>2, <3>4, OnHelloRight
    <3>5. CASE c' = cl /\ sched' = Popped(cb) /\ UNCHANGED <<client, procs>>
      BY <2>1, <3>2, <3>5 DEF IdsAgree
    <3> QED
      BY <2>5, <3>3, <3>4, <3>5 DEF RunTimeout, cl
  <2>6. CASE RunRestart(cb)
    <3>1. CASE sched' = Popped(cb) /\ UNCHANGED <<c, procs>>
      BY <1>i, <2>1, <2>6, <3>1 DEF RunRestart, IdsAgree
    <3>2. ASSUME NEW p \in Procs, c' = Started(c, p), procs' = Spawn(p, client, c.nextId),
                 sched' = Popped(cb), client # 0
          PROVE  IdsAgree' /\ RightCalls(sched')
      <4>1. IdsOf(c', client, Spawn(p, client, c.nextId))
        BY <1>0, <1>i, <3>2, StartIds
      <4> QED
        BY <2>1, <2>6, <3>2, <4>1 DEF RunRestart, IdsAgree
    <3>3. CASE ScheduleRestart(c, Popped(cb)) /\ UNCHANGED procs
      <4>1. RightCalls(sched') /\ c'.nextId = c.nextId /\ c'.pending \subseteq c.pending
        BY <1>0, <2>1, <3>3, ScheduleRestartRight
      <4> QED
        BY <1>p, <2>6, <3>3, <4>1 DEF RunRestart
    <3>4. client = cb.gen => client # 0
      BY <2>2 DEF Clients
    <3> QED
      BY <2>6, <3>1, <3>2, <3>3, <3>4 DEF RunRestart, RestartMoot
  <2> QED
    BY <2>0, <2>3, <2>4, <2>5, <2>6
<1>10. CASE UNCHANGED vars
  BY <1>10, <1>i, <1>r DEF vars, IdsAgree
<1> QED
  BY <1>1, <1>2, <1>3, <1>4, <1>5, <1>6, <1>7, <1>8, <1>9, <1>10 DEF Next

\* An answer reaches the request it answers (take, dispatch_line, owned), however
\* many clients and processes came and went before, with the same ids.
THEOREM AnswersMatch == Spec => []RightAnswer
<1>1. Init => IdInv
  <2>1. Init => OrphanInv
    BY ClientAssumption
    DEF Init, OrphanInv, TypeOK, NewClient, ClientRec, NoProc, ProcRec, LiveClient,
        HeldByOwner, NoOrphan
  <2>2. Init => IdsAgree /\ RightAnswer
    BY DEF Init, IdsAgree, RightAnswer
  <2> QED
    BY <2>1, <2>2 DEF IdInv
<1>2. IdInv => RightAnswer
  BY DEF IdInv
<1> QED
  BY <1>1, <1>2, IdStep, PTL DEF Spec
-----------------------------------------------------------------------------
(* OneHome.  The counts of OneHome become, for one request at a time, "held   *)
(* here, and only once": each handler moves the request from one place to    *)
(* the next.                                                                  *)

Queued(q, r) == \E i \in DOMAIN q : q[i] = r
QueuedOnce(q, r) == \A i, j \in DOMAIN q : q[i] = r /\ q[j] = r => i = j

Pending(P, r) == \E e \in P : e.req = r
PendingOnce(P, r) == \A d, e \in P : d.req = r /\ e.req = r => d = e

IsCall(cb, r) == cb.k = "call" /\ cb.req = r
Called(b, r) == \E cb \in b : IsCall(cb, r)
CalledOnce(b, r) == \A a, cb \in b : IsCall(a, r) /\ IsCall(cb, r) => a = cb

Scheduled(s, r) == \E i \in DOMAIN s : Called(s[i], r)
ScheduledOnce(s, r) ==
  /\ \A i, j \in DOMAIN s : Called(s[i], r) /\ Called(s[j], r) => i = j
  /\ \A i \in DOMAIN s : CalledOnce(s[i], r)

\* Request r, called back n times, has one home when it is among those made, and
\* none otherwise.
Home(r, made, q, P, s, n) ==
  /\ QueuedOnce(q, r) /\ PendingOnce(P, r) /\ ScheduledOnce(s, r) /\ n \in {0, 1}
  /\ r \in made <=> Queued(q, r) \/ Pending(P, r) \/ Scheduled(s, r) \/ n = 1
  /\ Queued(q, r) => ~Pending(P, r) /\ ~Scheduled(s, r) /\ n = 0
  /\ Pending(P, r) => ~Scheduled(s, r) /\ n = 0
  /\ Scheduled(s, r) => n = 0

HomesInv == \A r \in Req : Home(r, issued, c.queue, c.pending, sched, settled[r])

\* A client that was torn down holds nothing, and no two pending entries have
\* one id: a timeout takes exactly the request it was armed for.
IdsOnce(P) == \A d, e \in P : d.id = e.id => d = e
HoldsInv == /\ client = 0 => c.queue = <<>> /\ c.pending = {}
            /\ IdsOnce(c.pending)

\* A callback of kind k for client g (a handshake's, or a restart) is scheduled.
Waiting(s, k, g) ==
  \E i \in DOMAIN s : \E cb \in s[i] : cb.k = k /\ cb.req = Hello /\ cb.gen = g

\* Which of the things a queue may wait for is the one that will come.
Served(cl, g, s, rs) ==
  /\ cl.running /\ ~cl.ready => Pending(cl.pending, Hello) \/ Waiting(s, "call", g)
  /\ cl.running /\ cl.ready => cl.queue = <<>>
  /\ ~cl.running /\ cl.queue # <<>> => rs[g] > 0 \/ Waiting(s, "restart", g)

ServedInv == client # 0 => Served(c, client, sched, restarts)

\* The inductive invariant behind OneHome.
HomeInv == IdInv /\ HomesInv /\ HoldsInv /\ ServedInv

LEMMA ScheduleHome ==
  ASSUME NEW s \in Seq((SUBSET Callback) \ {{}}), NEW cbs, NEW r
  PROVE  /\ Scheduled(Schedule(s, cbs), r) <=> Scheduled(s, r) \/ Called(cbs, r)
         /\ ScheduledOnce(s, r) /\ CalledOnce(cbs, r) /\ ~(Scheduled(s, r) /\ Called(cbs, r))
              => ScheduledOnce(Schedule(s, cbs), r)
<1>1. CASE cbs = {}
  BY <1>1 DEF Schedule, Called
<1>2. CASE cbs # {}
  <2> DEFINE t == Append(s, cbs)
             n == Len(s)
  <2>1. Schedule(s, cbs) = t
    BY <1>2 DEF Schedule
  <2>2. /\ n \in Nat /\ DOMAIN s = 1 .. n /\ DOMAIN t = 1 .. n + 1
        /\ t[n + 1] = cbs /\ \A i \in 1 .. n : t[i] = s[i]
    OBVIOUS
  <2> HIDE DEF t, n
  <2>3. Scheduled(t, r) <=> Scheduled(s, r) \/ Called(cbs, r)
    BY <2>2 DEF Scheduled
  <2>4. ASSUME ScheduledOnce(s, r), CalledOnce(cbs, r), ~(Scheduled(s, r) /\ Called(cbs, r))
        PROVE  ScheduledOnce(t, r)
    BY <2>2, <2>4 DEF ScheduledOnce, Scheduled
  <2> QED
    BY <2>1, <2>3, <2>4
<1> QED
  BY <1>1, <1>2

\* Each batch left after a pop is one that was there, but for the callback taken.
LEMMA PoppedBatches ==
  ASSUME sched \in Seq((SUBSET Callback) \ {{}}), sched # <<>>,
         NEW cb \in Head(sched)
  PROVE  /\ 1 \in DOMAIN sched /\ Head(sched) = sched[1]
         /\ Head(sched) = {cb} =>
              /\ \A i \in DOMAIN Popped(cb) : i + 1 \in DOMAIN sched /\ Popped(cb)[i] = sched[i + 1]
              /\ \A i \in DOMAIN sched : i # 1 => i - 1 \in DOMAIN Popped(cb) /\ Popped(cb)[i - 1] = sched[i]
         /\ Head(sched) # {cb} =>
              /\ DOMAIN Popped(cb) = DOMAIN sched
              /\ Popped(cb)[1] = sched[1] \ {cb}
              /\ \A i \in DOMAIN sched : i # 1 => Popped(cb)[i] = sched[i]
<1> DEFINE H == Head(sched) \ {cb}
           T == Tail(sched)
           n == Len(sched)
<1>1. /\ n \in Nat /\ n >= 1 /\ DOMAIN sched = 1 .. n /\ Head(sched) = sched[1]
      /\ T \in Seq((SUBSET Callback) \ {{}}) /\ Len(T) = n - 1
      /\ \A i \in 1 .. (n - 1) : T[i] = sched[i + 1]
  OBVIOUS
<1>2. Head(sched) = {cb} => Popped(cb) = T
  BY DEF Popped
<1>3. Head(sched) # {cb} => Popped(cb) = <<H>> \o T
  BY DEF Popped
<1>h. H = sched[1] \ {cb}
  BY <1>1
<1> HIDE DEF H, T, n
<1>4. DOMAIN T = 1 .. (n - 1)
  BY <1>1
<1>5. /\ Len(<<H>> \o T) = n /\ DOMAIN (<<H>> \o T) = 1 .. n /\ (<<H>> \o T)[1] = H
      /\ \A i \in 2 .. n : (<<H>> \o T)[i] = T[i - 1]
  BY <1>1
<1>6. ASSUME Head(sched) = {cb}
      PROVE  /\ \A i \in DOMAIN T : i + 1 \in DOMAIN sched /\ T[i] = sched[i + 1]
             /\ \A i \in DOMAIN sched : i # 1 => i - 1 \in DOMAIN T /\ T[i - 1] = sched[i]
  BY <1>1, <1>4
<1>7. \A i \in DOMAIN sched : i # 1 => (<<H>> \o T)[i] = sched[i]
  <2> SUFFICES ASSUME NEW i \in DOMAIN sched, i # 1 PROVE (<<H>> \o T)[i] = sched[i]
    OBVIOUS
  <2>1. i \in 2 .. n /\ i - 1 \in 1 .. (n - 1) /\ (i - 1) + 1 = i
    BY <1>1
  <2> QED
    BY <1>1, <1>5, <2>1
<1> QED
  BY <1>1, <1>2, <1>3, <1>h, <1>5, <1>6, <1>7

LEMMA PoppedHome ==
  ASSUME sched \in Seq((SUBSET Callback) \ {{}}), sched # <<>>,
         NEW cb \in Head(sched), NEW r, ScheduledOnce(sched, r)
  PROVE  /\ ScheduledOnce(Popped(cb), r)
         /\ ~IsCall(cb, r) => (Scheduled(Popped(cb), r) <=> Scheduled(sched, r))
         /\ IsCall(cb, r) => Scheduled(sched, r) /\ ~Scheduled(Popped(cb), r)
<1> DEFINE t == Popped(cb)
<1>0. \A i \in DOMAIN sched : i \in Nat
  OBVIOUS
<1>1. 1 \in DOMAIN sched /\ cb \in sched[1]
  BY PoppedBatches
<1>2. IsCall(cb, r) => Scheduled(sched, r) /\ Called(sched[1], r)
  BY <1>1 DEF Scheduled, Called
<1>3. CASE Head(sched) = {cb}
  <2>1. /\ sched[1] = {cb}
        /\ \A i \in DOMAIN t : i + 1 \in DOMAIN sched /\ t[i] = sched[i + 1]
        /\ \A i \in DOMAIN sched : i # 1 => i - 1 \in DOMAIN t /\ t[i - 1] = sched[i]
    BY <1>3, PoppedBatches
  <2>n. \A i \in DOMAIN t : i \in Int /\ i + 1 # 1
    <3>1. t = Tail(sched)
      BY <1>3 DEF Popped
    <3> QED
      BY <3>1
  <2> HIDE DEF t
  <2>2. ScheduledOnce(t, r)
    <3>1. \A i \in DOMAIN t : CalledOnce(t[i], r)
      BY <2>1 DEF ScheduledOnce
    <3>2. ASSUME NEW i \in DOMAIN t, NEW j \in DOMAIN t, Called(t[i], r), Called(t[j], r)
          PROVE  i = j
      <4>1. i + 1 = j + 1
        BY <2>1, <3>2 DEF ScheduledOnce
      <4> QED
        BY <2>n, <4>1
    <3> QED
      BY <3>1, <3>2 DEF ScheduledOnce
  <2>3. ~IsCall(cb, r) => ~Called(sched[1], r)
    BY <2>1 DEF Called
  <2>4. ASSUME ~IsCall(cb, r) PROVE Scheduled(t, r) <=> Scheduled(sched, r)
    BY <2>1, <2>3, <2>4 DEF Scheduled
  <2>5. ASSUME IsCall(cb, r) PROVE ~Scheduled(t, r)
    BY <1>1, <1>2, <2>1, <2>n, <2>5 DEF Scheduled, ScheduledOnce
  <2> QED
    BY <1>2, <2>2, <2>4, <2>5 DEF t
<1>4. CASE Head(sched) # {cb}
  <2>1. /\ DOMAIN t = DOMAIN sched
        /\ t[1] = sched[1] \ {cb}
        /\ \A i \in DOMAIN sched : i # 1 => t[i] = sched[i]
    BY <1>4, PoppedBatches
  <2> HIDE DEF t
  <2>2. \A i \in DOMAIN t : t[i] \subseteq sched[i]
    BY <2>1
  <2>3. \A i \in DOMAIN t : Called(t[i], r) => Called(sched[i], r)
    BY <2>2 DEF Called
  <2>4. ScheduledOnce(t, r)
    BY <2>1, <2>2, <2>3 DEF ScheduledOnce, CalledOnce
  <2>5. ~IsCall(cb, r) => (Called(t[1], r) <=> Called(sched[1], r))
    BY <2>1 DEF Called
  <2>6. ASSUME ~IsCall(cb, r) PROVE Scheduled(t, r) <=> Scheduled(sched, r)
    BY <2>1, <2>5, <2>6 DEF Scheduled
  <2>7. ASSUME IsCall(cb, r) PROVE ~Scheduled(t, r)
    <3>1. ~Called(t[1], r)
      BY <1>1, <2>1, <2>7 DEF Called, ScheduledOnce, CalledOnce
    <3>2. \A i \in DOMAIN t : i # 1 => ~Called(t[i], r)
      BY <1>1, <1>2, <2>1, <2>7 DEF ScheduledOnce
    <3> QED
      BY <3>1, <3>2 DEF Scheduled
  <2> QED
    BY <1>2, <2>4, <2>6, <2>7 DEF t
<1> QED
  BY <1>3, <1>4

\* A callback that is not the one taken stays scheduled.
LEMMA PoppedWaiting ==
  ASSUME sched \in Seq((SUBSET Callback) \ {{}}), sched # <<>>,
         NEW cb \in Head(sched), NEW k, NEW g, Waiting(sched, k, g),
         ~(cb.k = k /\ cb.req = Hello /\ cb.gen = g)
  PROVE  Waiting(Popped(cb), k, g)
<1>1. PICK i \in DOMAIN sched : \E x \in sched[i] : x.k = k /\ x.req = Hello /\ x.gen = g
  BY DEF Waiting
<1>2. PICK x \in sched[i] : x.k = k /\ x.req = Hello /\ x.gen = g
  BY <1>1
<1>3. x # cb
  BY <1>2
<1>4. CASE i = 1
  <2>1. Head(sched) # {cb} /\ x \in Popped(cb)[1] /\ 1 \in DOMAIN Popped(cb)
    BY <1>2, <1>3, <1>4, PoppedBatches
  <2> QED
    BY <1>2, <2>1 DEF Waiting
<1>5. CASE i # 1
  <2>1. \E j \in DOMAIN Popped(cb) : Popped(cb)[j] = sched[i]
    BY <1>5, PoppedBatches
  <2> QED
    BY <1>2, <2>1 DEF Waiting
<1> QED
  BY <1>4, <1>5

LEMMA ScheduleWaiting ==
  ASSUME NEW s \in Seq((SUBSET Callback) \ {{}}), NEW cbs, NEW k, NEW g,
         \/ Waiting(s, k, g)
         \/ \E cb \in cbs : cb.k = k /\ cb.req = Hello /\ cb.gen = g
  PROVE  Waiting(Schedule(s, cbs), k, g)
<1>1. CASE cbs = {}
  BY <1>1 DEF Schedule
<1>2. CASE cbs # {}
  <2> DEFINE t == Append(s, cbs)
             n == Len(s)
  <2>1. /\ n \in Nat /\ DOMAIN s = 1 .. n /\ DOMAIN t = 1 .. n + 1
        /\ t[n + 1] = cbs /\ \A i \in 1 .. n : t[i] = s[i]
    OBVIOUS
  <2> HIDE DEF t, n
  <2>2. Waiting(t, k, g)
    BY <2>1 DEF Waiting
  <2> QED
    BY <1>2, <2>2 DEF Schedule, t
<1> QED
  BY <1>1, <1>2
\* fail_pending and fail_all schedule a callback for each request they take.
LEMMA FailHome ==
  ASSUME NEW cl, NEW g, NEW r
  PROVE  /\ Called(FailPending(cl, g), r) <=> Pending(cl.pending, r)
         /\ PendingOnce(cl.pending, r) => CalledOnce(FailPending(cl, g), r)
         /\ Called(FailAll(cl, g), r) <=> Pending(cl.pending, r) \/ Queued(cl.queue, r)
         /\ PendingOnce(cl.pending, r) /\ ~(Pending(cl.pending, r) /\ Queued(cl.queue, r))
              => CalledOnce(FailAll(cl, g), r)
<1> DEFINE A == FailPending(cl, g)
           B == {Fail(g, 0, cl.queue[i]) : i \in DOMAIN cl.queue}
<1>1. \A x \in A : \E e \in cl.pending : x = Fail(g, e.id, e.req) /\ x.req = e.req
  BY DEF FailPending, Fail
<1>2. \A e \in cl.pending : Fail(g, e.id, e.req) \in A /\ IsCall(Fail(g, e.id, e.req), e.req)
  BY DEF FailPending, Fail, IsCall
<1>3. \A x \in B : \E i \in DOMAIN cl.queue : x = Fail(g, 0, cl.queue[i]) /\ x.req = cl.queue[i]
  BY DEF Fail
<1>4. \A i \in DOMAIN cl.queue : Fail(g, 0, cl.queue[i]) \in B
                                 /\ IsCall(Fail(g, 0, cl.queue[i]), cl.queue[i])
  BY DEF Fail, IsCall
<1>5. FailAll(cl, g) = A \cup B
  BY DEF FailAll
<1> HIDE DEF A, B
<1>6. Called(A, r) <=> Pending(cl.pending, r)
  BY <1>1, <1>2 DEF Called, Pending, IsCall
<1>7. Called(B, r) <=> Queued(cl.queue, r)
  BY <1>3, <1>4 DEF Called, Queued, IsCall
<1>8. PendingOnce(cl.pending, r) => CalledOnce(A, r)
  BY <1>1 DEF PendingOnce, CalledOnce, IsCall
<1>9. CalledOnce(B, r)
  BY <1>3 DEF CalledOnce, IsCall
<1>10. Called(A \cup B, r) <=> Called(A, r) \/ Called(B, r)
  BY DEF Called
<1>11. CalledOnce(A, r) /\ ~(Called(A, r) /\ Called(B, r)) => CalledOnce(A \cup B, r)
  BY <1>9 DEF CalledOnce, Called
<1> QED
  BY <1>5, <1>6, <1>7, <1>8, <1>10, <1>11 DEF A

\* do_request, for a client with a process, makes the requests of q pending.
LEMMA SendingHome ==
  ASSUME NEW cl \in ClientRec, NEW q \in Seq(Req), cl.proc # 0
  PROVE  /\ DoRequests(cl, q).queue = cl.queue
         /\ DoRequests(cl, q).running = cl.running
         /\ DoRequests(cl, q).ready = cl.ready
         /\ \A r : Pending(DoRequests(cl, q).pending, r)
                     <=> Pending(cl.pending, r) \/ Queued(q, r)
         /\ \A r : PendingOnce(cl.pending, r) /\ QueuedOnce(q, r)
                     /\ ~(Pending(cl.pending, r) /\ Queued(q, r))
                     => PendingOnce(DoRequests(cl, q).pending, r)
         /\ (\A e \in cl.pending : e.id < cl.nextId) /\ IdsOnce(cl.pending)
              => IdsOnce(DoRequests(cl, q).pending)
<1> DEFINE n == cl.nextId
           E == {Await(n + i - 1, q[i]) : i \in DOMAIN q}
           P == cl.pending
<1>0. n \in Nat /\ DOMAIN q = 1 .. Len(q) /\ Len(q) \in Nat /\ \A e \in P : e.id \in Nat
  BY DEF ClientRec, Entry
<1>1. /\ DoRequests(cl, q).queue = cl.queue
      /\ DoRequests(cl, q).running = cl.running
      /\ DoRequests(cl, q).ready = cl.ready
      /\ DoRequests(cl, q).pending = P \cup E
  BY DEF DoRequests, ClientRec
<1>2. \A e \in E : \E i \in DOMAIN q : e = Await(n + i - 1, q[i]) /\ e.id = n + i - 1 /\ e.req = q[i]
  BY DEF Await
<1>3. \A i \in DOMAIN q : Await(n + i - 1, q[i]) \in E /\ Await(n + i - 1, q[i]).req = q[i]
  BY DEF Await
<1> HIDE DEF E, P
<1>4. ASSUME NEW r PROVE Pending(P \cup E, r) <=> Pending(P, r) \/ Queued(q, r)
  <2>1. Pending(E, r) <=> Queued(q, r)
    BY <1>2, <1>3 DEF Pending, Queued
  <2> QED
    BY <2>1 DEF Pending
<1>5. ASSUME NEW r, PendingOnce(P, r), QueuedOnce(q, r), ~(Pending(P, r) /\ Queued(q, r))
      PROVE  PendingOnce(P \cup E, r)
  <2>1. PendingOnce(E, r)
    BY <1>2, <1>5 DEF PendingOnce, QueuedOnce
  <2>2. Pending(E, r) => Queued(q, r)
    BY <1>2 DEF Pending, Queued
  <2> QED
    BY <1>5, <2>1, <2>2 DEF PendingOnce, Pending
<1>6. ASSUME \A e \in P : e.id < n, IdsOnce(P) PROVE IdsOnce(P \cup E)
  <2>1. IdsOnce(E)
    <3> SUFFICES ASSUME NEW d \in E, NEW e \in E, d.id = e.id PROVE d = e
      BY DEF IdsOnce
    <3>1. PICK i \in DOMAIN q : d = Await(n + i - 1, q[i]) /\ d.id = n + i - 1
      BY <1>2
    <3>2. PICK j \in DOMAIN q : e = Await(n + j - 1, q[j]) /\ e.id = n + j - 1
      BY <1>2
    <3>3. i = j
      BY <1>0, <3>1, <3>2
    <3> QED
      BY <3>1, <3>2, <3>3
  <2>2. \A d \in P : \A e \in E : d.id # e.id
    BY <1>0, <1>2, <1>6
  <2> QED
    BY <1>6, <2>1, <2>2 DEF IdsOnce
<1> QED
  BY <1>1, <1>4, <1>5, <1>6 DEF P

\* teardown: what was pending or queued is scheduled.
LEMMA TeardownHome ==
  ASSUME NEW cl \in ClientRec, NEW s \in Seq((SUBSET Callback) \ {{}}), Teardown(cl, s),
         NEW r, NEW made, NEW n, Home(r, made, cl.queue, cl.pending, s, n)
  PROVE  Home(r, made, c'.queue, c'.pending, sched', n)
<1>1. sched' = Schedule(s, FailAll(cl, client)) /\ c'.queue = <<>> /\ c'.pending = {}
  BY DEF Teardown, ClientRec
<1>2. /\ ~Queued(c'.queue, r) /\ ~Pending(c'.pending, r)
      /\ QueuedOnce(c'.queue, r) /\ PendingOnce(c'.pending, r)
  BY <1>1 DEF Queued, Pending, QueuedOnce, PendingOnce
<1>3. /\ Called(FailAll(cl, client), r) <=> Pending(cl.pending, r) \/ Queued(cl.queue, r)
      /\ CalledOnce(FailAll(cl, client), r)
  BY FailHome DEF Home
<1>4. /\ Scheduled(sched', r) <=> Scheduled(s, r) \/ Called(FailAll(cl, client), r)
      /\ ScheduledOnce(sched', r)
  BY <1>1, <1>3, ScheduleHome DEF Home
<1> QED
  BY <1>2, <1>3, <1>4 DEF Home

\* schedule_restart: nothing moves, or, the attempts spent, all is scheduled.
LEMMA ScheduleRestartHome ==
  ASSUME NEW cl \in ClientRec, NEW s \in Seq((SUBSET Callback) \ {{}}), ScheduleRestart(cl, s),
         NEW r, NEW made, NEW n, Home(r, made, cl.queue, cl.pending, s, n)
  PROVE  Home(r, made, c'.queue, c'.pending, sched', n)
<1>1. CASE sched' = s /\ c' = [cl EXCEPT !.attempts = @ + 1]
  BY <1>1 DEF ClientRec
<1>2. CASE GiveUp(cl, s)
  <2>1. sched' = Schedule(s, FailAll(cl, client)) /\ c'.queue = <<>> /\ c'.pending = {}
    BY <1>2 DEF GiveUp, ClientRec
  <2>2. /\ ~Queued(c'.queue, r) /\ ~Pending(c'.pending, r)
        /\ QueuedOnce(c'.queue, r) /\ PendingOnce(c'.pending, r)
    BY <2>1 DEF Queued, Pending, QueuedOnce, PendingOnce
  <2>3. /\ Called(FailAll(cl, client), r) <=> Pending(cl.pending, r) \/ Queued(cl.queue, r)
        /\ CalledOnce(FailAll(cl, client), r)
    BY FailHome DEF Home
  <2>4. /\ Scheduled(sched', r) <=> Scheduled(s, r) \/ Called(FailAll(cl, client), r)
        /\ ScheduledOnce(sched', r)
    BY <2>1, <2>3, ScheduleHome DEF Home
  <2> QED
    BY <2>2, <2>3, <2>4 DEF Home
<1> QED
  BY <1>1, <1>2 DEF ScheduleRestart

\* handshake's callback: nothing moves, all is scheduled, or what was queued is
\* pending.
LEMMA OnHelloHome ==
  ASSUME NEW g, NEW res, NEW cl \in ClientRec, cl.running => cl.proc # 0,
         NEW s \in Seq((SUBSET Callback) \ {{}}), OnHello(g, res, cl, s),
         NEW r, NEW made, NEW n, Home(r, made, cl.queue, cl.pending, s, n)
  PROVE  Home(r, made, c'.queue, c'.pending, sched', n)
<1> DEFINE up == [cl EXCEPT !.ready = TRUE, !.attempts = 0, !.queue = <<>>]
<1>1. up \in ClientRec /\ cl.queue \in Seq(Req)
  BY ClientFields, ExceptReady, EmptyTypes
<1>2. CASE c' = cl /\ sched' = s
  BY <1>2
<1>3. CASE Teardown(cl, s)
  BY <1>3, TeardownHome
<1>4. CASE cl.running /\ c' = DoRequests(up, cl.queue) /\ sched' = s
  <2>1. up.proc # 0 /\ up.queue = <<>> /\ up.pending = cl.pending
    BY <1>4 DEF ClientRec
  <2> HIDE DEF up
  <2>2. /\ c'.queue = <<>>
        /\ Pending(c'.pending, r) <=> Pending(cl.pending, r) \/ Queued(cl.queue, r)
        /\ PendingOnce(c'.pending, r)
    BY <1>1, <1>4, <2>1, SendingHome DEF Home
  <2>3. ~Queued(c'.queue, r) /\ QueuedOnce(c'.queue, r)
    BY <2>2 DEF Queued, QueuedOnce
  <2> QED
    BY <1>4, <2>2, <2>3 DEF Home
<1> QED
  BY <1>2, <1>3, <1>4 DEF OnHello
\* The callback of a request that is in no other place is taken to be run.
LEMMA HomesStep == HomeInv /\ [Next]_vars => HomesInv'
<1> SUFFICES ASSUME HomeInv, [Next]_vars, NEW r \in Req
             PROVE  Home(r, issued', c'.queue, c'.pending, sched', settled'[r])
  BY DEF HomesInv
<1>0. /\ TypeOK /\ OrphanInv /\ TypeOK' /\ c \in ClientRec /\ procs \in [Procs -> ProcRec]
      /\ sched \in Seq((SUBSET Callback) \ {{}}) /\ settled \in [Req -> Nat]
      /\ c.queue \in Seq(Req) /\ c.pending \in SUBSET Entry
  BY TypeStep DEF HomeInv, IdInv, OrphanInv, TypeOK, ClientRec
<1>h. Home(r, issued, c.queue, c.pending, sched, settled[r])
  BY DEF HomeInv, HomesInv
<1>l. client # 0 => ~c.stopping /\ (c.running <=> c.proc # 0)
  BY <1>0 DEF OrphanInv, LiveClient
<1>1. ASSUME NEW x \in Req, Request(x)
      PROVE  Home(r, issued', c'.queue, c'.pending, sched', settled'[r])
  <2> DEFINE cl == IF client = 0 THEN NewClient ELSE c
  <2>1. /\ cl \in ClientRec /\ cl.queue \in Seq(Req) /\ cl.queue = c.queue
        /\ cl.pending = c.pending /\ (cl.running => cl.proc # 0)
    BY <1>0, <1>l DEF NewClient, ClientRec, HomeInv, HoldsInv
  <2>2. issued' = issued \cup {x} /\ x \notin issued /\ settled' = settled
    BY <1>1 DEF Request
  <2>4. r = x => /\ ~Queued(c.queue, r) /\ ~Pending(c.pending, r) /\ ~Scheduled(sched, r)
                 /\ settled[r] = 0
    BY <1>h, <2>2 DEF Home
  <2>3. /\ Queued(Append(c.queue, x), r) <=> Queued(c.queue, r) \/ r = x
        /\ QueuedOnce(Append(c.queue, x), r)
    <3> DEFINE q == c.queue
               n == Len(q)
               t == Append(q, x)
    <3>1. /\ n \in Nat /\ DOMAIN q = 1 .. n /\ DOMAIN t = 1 .. n + 1
          /\ t[n + 1] = x /\ \A i \in 1 .. n : t[i] = q[i]
      BY <1>0
    <3>2. QueuedOnce(q, r)
      BY <1>h DEF Home
    <3> HIDE DEF q, n, t
    <3>3. Queued(t, r) <=> Queued(q, r) \/ r = x
      BY <3>1 DEF Queued
    <3>4. r = x => ~Queued(q, r)
      BY <2>4 DEF q
    <3>5. QueuedOnce(t, r)
      BY <3>1, <3>2, <3>4 DEF Queued, QueuedOnce
    <3> QED
      BY <3>3, <3>5 DEF q, t
  <2> HIDE DEF cl
  <2>5. CASE cl.running /\ c' = DoRequests(cl, <<x>>) /\ sched' = sched
    <3>1. <<x>> \in Seq(Req) /\ (Queued(<<x>>, r) <=> r = x) /\ QueuedOnce(<<x>>, r)
      BY DEF Queued, QueuedOnce
    <3>2. /\ c'.queue = c.queue
          /\ Pending(c'.pending, r) <=> Pending(c.pending, r) \/ r = x
          /\ PendingOnce(c'.pending, r)
      BY <1>h, <2>1, <2>4, <2>5, <3>1, SendingHome DEF Home
    <3> QED
      BY <1>h, <2>2, <2>4, <2>5, <3>2 DEF Home
  <2>6. CASE c' = [cl EXCEPT !.queue = Append(@, x)] /\ sched' = sched
    <3>1. c'.queue = Append(c.queue, x) /\ c'.pending = c.pending
      BY <2>1, <2>6 DEF ClientRec
    <3> QED
      BY <1>0, <1>h, <2>2, <2>3, <2>4, <2>6, <3>1 DEF Home
  <2>7. ASSUME NEW p \in Procs, c' = [Started(cl, p) EXCEPT !.queue = Append(@, x)],
               sched' = sched
        PROVE  Home(r, issued', c'.queue, c'.pending, sched', settled'[r])
    <3>1. /\ c'.queue = Append(c.queue, x)
          /\ c'.pending = c.pending \cup {Await(cl.nextId, Hello)}
      BY <2>1, <2>7 DEF Started, ClientRec
    <3>2. /\ Pending(c'.pending, r) <=> Pending(c.pending, r)
          /\ PendingOnce(c.pending, r) => PendingOnce(c'.pending, r)
      BY <3>1, ClientAssumption DEF Pending, PendingOnce, Await
    <3> QED
      BY <1>0, <1>h, <2>2, <2>3, <2>4, <2>7, <3>1, <3>2 DEF Home
  <2>8. CASE c' = cl /\ sched' = Schedule(sched, {Fail(gen', 0, x)})
    <3> DEFINE b == {Fail(gen', 0, x)}
    <3>1. (Called(b, r) <=> r = x) /\ CalledOnce(b, r)
      BY DEF Called, CalledOnce, IsCall, Fail
    <3> HIDE DEF b
    <3>2. (Scheduled(sched', r) <=> Scheduled(sched, r) \/ r = x) /\ ScheduledOnce(sched', r)
      BY <1>0, <1>h, <2>4, <2>8, <3>1, ScheduleHome DEF Home, b
    <3> QED
      BY <1>h, <2>1, <2>2, <2>4, <2>8, <3>2 DEF Home
  <2> QED
    BY <1>1, <2>5, <2>6, <2>7, <2>8 DEF Request, cl
<1>2. ASSUME Stop PROVE Home(r, issued', c'.queue, c'.pending, sched', settled'[r])
  <2>1. Teardown(c, sched) /\ issued' = issued /\ settled' = settled
    BY <1>2 DEF Stop
  <2> QED
    BY <1>0, <1>h, <2>1, TeardownHome
<1>3. ASSUME NEW p \in Procs, OnStdout(p)
      PROVE  Home(r, issued', c'.queue, c'.pending, sched', settled'[r])
  <2> DEFINE f == Head(procs[p].out)
             hit == {e \in c.pending : e.id = f.id}
             cbs == {[k |-> "call", gen |-> client, id |-> e.id,
                      req |-> e.req, res |-> f.res, from |-> f.req] :
                       e \in hit}
  <2>1. issued' = issued /\ settled' = settled
    BY <1>3 DEF OnStdout
  <2>2. CASE ~Owned(p)
    BY <1>3, <1>h, <2>1, <2>2 DEF OnStdout
  <2>3. CASE Owned(p)
    <3>1. /\ c'.queue = c.queue /\ c'.pending = c.pending \ hit
          /\ sched' = Schedule(sched, cbs)
      BY <1>0, <1>3, <2>3 DEF OnStdout, ClientRec
    <3>2. /\ \A y \in cbs : \E e \in hit :
               /\ y = [k |-> "call", gen |-> client, id |-> e.id, req |-> e.req,
                       res |-> f.res, from |-> f.req]
               /\ y.req = e.req
          /\ \A e \in hit : \E y \in cbs : y.k = "call" /\ y.req = e.req
      <4> DEFINE F(e) == [k |-> "call", gen |-> client, id |-> e.id,
                          req |-> e.req, res |-> f.res, from |-> f.req]
      <4>1. cbs = {F(e) : e \in hit}
        OBVIOUS
      <4>2. ASSUME NEW e PROVE F(e).k = "call" /\ F(e).req = e.req
        OBVIOUS
      <4> HIDE DEF cbs, hit
      <4> QED
        BY <4>1, <4>2
    <3>3. hit \subseteq c.pending
      OBVIOUS
    <3> HIDE DEF cbs, hit, f
    <3>4. Called(cbs, r) <=> Pending(hit, r)
      BY <3>2 DEF Called, Pending, IsCall
    <3>5. PendingOnce(c.pending, r) => CalledOnce(cbs, r)
      BY <3>2, <3>3 DEF CalledOnce, PendingOnce, IsCall
    <3>6. /\ PendingOnce(c'.pending, r)
          /\ Pending(hit, r) => Pending(c.pending, r) /\ ~Pending(c'.pending, r)
          /\ ~Pending(hit, r) => (Pending(c'.pending, r) <=> Pending(c.pending, r))
      BY <1>h, <3>1, <3>3 DEF Home, PendingOnce, Pending
    <3>7. /\ Scheduled(sched', r) <=> Scheduled(sched, r) \/ Pending(hit, r)
          /\ ScheduledOnce(sched', r)
      BY <1>0, <1>h, <3>1, <3>4, <3>5, <3>6, ScheduleHome DEF Home
    <3> QED
      BY <1>h, <2>1, <3>1, <3>6, <3>7 DEF Home
  <2> QED
    BY <2>2, <2>3
<1>4. ASSUME NEW p \in Procs, OnExit(p)
      PROVE  Home(r, issued', c'.queue, c'.pending, sched', settled'[r])
  <2> DEFINE cl == [c EXCEPT !.running = FALSE, !.ready = FALSE, !.proc = 0,
                             !.pending = {}]
             s == Schedule(sched, FailPending(c, client))
  <2>1. issued' = issued /\ settled' = settled
    BY <1>4 DEF OnExit
  <2>2. CASE ~Owned(p)
    BY <1>4, <1>h, <2>1, <2>2 DEF OnExit
  <2>3. CASE Owned(p)
    <3>1. client # 0 /\ ~c.stopping /\ ScheduleRestart(cl, s) /\ client \in Clients
      BY <1>0, <1>4, <1>l, <2>3 DEF OnExit, Owned, TypeOK
    <3>2. cl \in ClientRec /\ cl.queue = c.queue /\ cl.pending = {}
      BY <1>0 DEF ClientRec
    <3>3. s \in Seq((SUBSET Callback) \ {{}})
      BY <1>0, <3>1, FailType, ScheduleType
    <3>4. Home(r, issued, cl.queue, cl.pending, s, settled[r])
      <4>1. ~Pending(cl.pending, r) /\ PendingOnce(cl.pending, r)
        BY <3>2 DEF Pending, PendingOnce
      <4>2. /\ Scheduled(s, r) <=> Scheduled(sched, r) \/ Pending(c.pending, r)
            /\ ScheduledOnce(s, r)
        BY <1>0, <1>h, FailHome, ScheduleHome DEF Home
      <4> HIDE DEF cl, s
      <4> QED
        BY <1>h, <3>2, <4>1, <4>2 DEF Home
    <3> HIDE DEF cl, s
    <3> QED
      BY <2>1, <3>1, <3>2, <3>3, <3>4, ScheduleRestartHome
  <2> QED
    BY <2>2, <2>3
<1>5. ASSUME NEW p \in Procs, Answer(p) \/ Die(p)
      PROVE  Home(r, issued', c'.queue, c'.pending, sched', settled'[r])
  BY <1>5, <1>h DEF Answer, Die
<1>7. ASSUME NEW e \in c.pending, TimerFire(e)
      PROVE  Home(r, issued', c'.queue, c'.pending, sched', settled'[r])
  <2> DEFINE d == [e EXCEPT !.armed = FALSE]
             b == {[k |-> "timeout", gen |-> client, id |-> e.id, req |-> e.req,
                    res |-> "network", from |-> e.req]}
  <2>1. /\ c'.queue = c.queue /\ c'.pending = (c.pending \ {e}) \cup {d}
        /\ sched' = Schedule(sched, b) /\ issued' = issued /\ settled' = settled
    BY <1>0, <1>7 DEF TimerFire, ClientRec
  <2>2. d.req = e.req
    BY <1>0 DEF Entry
  <2>3. ~Called(b, r) /\ CalledOnce(b, r)
    BY DEF Called, CalledOnce, IsCall
  <2> HIDE DEF d, b
  <2>4. /\ Pending(c'.pending, r) <=> Pending(c.pending, r)
        /\ PendingOnce(c'.pending, r)
    BY <1>h, <2>1, <2>2 DEF Home, Pending, PendingOnce
  <2>5. (Scheduled(sched', r) <=> Scheduled(sched, r)) /\ ScheduledOnce(sched', r)
    BY <1>0, <1>h, <2>1, <2>3, ScheduleHome DEF Home
  <2> QED
    BY <1>h, <2>1, <2>4, <2>5 DEF Home
<1>8. ASSUME NEW g \in Clients, RestartFire(g)
      PROVE  Home(r, issued', c'.queue, c'.pending, sched', settled'[r])
  <2> DEFINE b == {[k |-> "restart", gen |-> g, id |-> 0, req |-> Hello,
                    res |-> "ok", from |-> Hello]}
  <2>1. sched' = Schedule(sched, b) /\ issued' = issued /\ settled' = settled /\ c' = c
    BY <1>8 DEF RestartFire
  <2>2. ~Called(b, r) /\ CalledOnce(b, r)
    BY DEF Called, CalledOnce, IsCall
  <2> HIDE DEF b
  <2>3. (Scheduled(sched', r) <=> Scheduled(sched, r)) /\ ScheduledOnce(sched', r)
    BY <1>0, <1>h, <2>1, <2>2, ScheduleHome DEF Home
  <2> QED
    BY <1>h, <2>1, <2>3 DEF Home
<1>9. ASSUME RunCallback
      PROVE  Home(r, issued', c'.queue, c'.pending, sched', settled'[r])
  <2>0. PICK cb \in Head(sched) :
          RunCall(cb) \/ RunHello(cb) \/ RunTimeout(cb) \/ RunRestart(cb)
    BY <1>9 DEF RunCallback
  <2> DEFINE s == Popped(cb)
  <2>1. s \in Seq((SUBSET Callback) \ {{}}) /\ cb \in Callback
    BY <1>0, <1>9, PoppedType DEF RunCallback
  <2>2. cb.gen \in Clients /\ cb.gen # 0 /\ cb.req \in Req \cup {Hello}
    BY <2>1 DEF Callback, Clients
  <2>3. /\ ScheduledOnce(s, r)
        /\ ~IsCall(cb, r) => (Scheduled(s, r) <=> Scheduled(sched, r))
        /\ IsCall(cb, r) => Scheduled(sched, r) /\ ~Scheduled(s, r)
    BY <1>0, <1>9, <1>h, PoppedHome DEF RunCallback, Home
  <2>i. issued' = issued
    BY <2>0 DEF RunCall, RunHello, RunTimeout, RunRestart
  <2> HIDE DEF s
  <2>4. ~IsCall(cb, r) => Home(r, issued, c.queue, c.pending, s, settled[r])
    BY <1>h, <2>3 DEF Home
  <2>5. CASE RunCall(cb)
    <3>1. /\ cb.k = "call" /\ cb.req \in Req /\ sched' = s /\ c' = c
          /\ settled' = [settled EXCEPT ![cb.req] = @ + 1]
      BY <2>2, <2>5 DEF RunCall, s
    <3>2. CASE IsCall(cb, r)
      <4>1. settled[r] = 0 /\ settled'[r] = 1
        BY <1>0, <1>h, <2>3, <3>1, <3>2 DEF Home, IsCall
      <4> QED
        BY <1>h, <2>3, <2>i, <3>1, <3>2, <4>1 DEF Home
    <3>3. CASE ~IsCall(cb, r)
      <4>1. settled'[r] = settled[r]
        BY <1>0, <3>1, <3>3 DEF IsCall
      <4> QED
        BY <2>4, <2>i, <3>1, <3>3, <4>1
    <3> QED
      BY <3>2, <3>3
  <2>6. CASE RunHello(cb)
    <3>1. ~IsCall(cb, r) /\ settled' = settled /\ OnHello(cb.gen, cb.res, c, s)
      BY <2>6, ClientAssumption DEF RunHello, IsCall, s
    <3>2. client = cb.gen => (c.running => c.proc # 0)
      BY <1>l, <2>2
    <3>3. CASE client = cb.gen
      BY <1>0, <2>1, <2>4, <2>i, <3>1, <3>2, <3>3, OnHelloHome
    <3>4. CASE client # cb.gen
      <4>1. c' = c /\ sched' = s
        BY <3>1, <3>4 DEF OnHello
      <4> QED
        BY <2>4, <2>i, <3>1, <4>1
    <3> QED
      BY <3>3, <3>4
  <2>7. CASE RunTimeout(cb)
    <3> DEFINE hit == {e \in c.pending : e.id = cb.id}
               cl == [c EXCEPT !.pending = @ \ hit]
    <3>1. ~IsCall(cb, r)
      BY <2>7 DEF RunTimeout, IsCall
    <3>2. CASE client # cb.gen \/ hit = {}
      <4>1. sched' = s /\ c' = c /\ settled' = settled
        BY <2>7, <3>2 DEF RunTimeout, s
      <4> QED
        BY <2>4, <2>i, <3>1, <4>1
    <3>3. CASE client = cb.gen /\ hit # {}
      <4>1. PICK e \in hit :
              IF e.req = Hello
              THEN OnHello(cb.gen, "network", cl, s) /\ settled' = settled
              ELSE /\ settled' = [settled EXCEPT ![e.req] = @ + 1]
                   /\ c' = cl
                   /\ sched' = s
        BY <2>7, <3>3 DEF RunTimeout, s
      <4>2. hit = {e} /\ e \in c.pending /\ e.req \in Req \cup {Hello}
        BY <1>0 DEF HomeInv, HoldsInv, IdsOnce, Entry
      <4>3. /\ cl \in ClientRec /\ cl.queue = c.queue /\ cl.pending = c.pending \ {e}
            /\ cl.running = c.running /\ cl.proc = c.proc
        BY <1>0, <4>2 DEF ClientRec
      <4> HIDE DEF cl, hit
      <4>4. /\ PendingOnce(cl.pending, r)
            /\ e.req # r => (Pending(cl.pending, r) <=> Pending(c.pending, r))
            /\ e.req = r => Pending(c.pending, r) /\ ~Pending(cl.pending, r)
        BY <1>h, <4>2, <4>3 DEF Home, Pending, PendingOnce
      <4>5. CASE e.req = Hello
        <5>1. e.req # r
          BY <4>5, ClientAssumption
        <5>2. Home(r, issued, cl.queue, cl.pending, s, settled[r])
          BY <2>4, <3>1, <4>3, <4>4, <5>1 DEF Home
        <5>3. OnHello(cb.gen, "network", cl, s) /\ settled' = settled
          BY <4>1, <4>5
        <5>4. cl.running => cl.proc # 0
          BY <1>l, <2>2, <3>3, <4>3
        <5> QED
          BY <2>1, <2>i, <4>3, <5>2, <5>3, <5>4, OnHelloHome
      <4>6. CASE e.req # Hello
        <5>1. /\ settled' = [settled EXCEPT ![e.req] = @ + 1] /\ c' = cl /\ sched' = s
              /\ e.req \in Req
          BY <4>1, <4>2, <4>6
        <5>2. CASE e.req = r
          <6>1. settled[r] = 0 /\ settled'[r] = 1
            BY <1>0, <1>h, <4>4, <5>1, <5>2 DEF Home
          <6> QED
            BY <2>3, <2>4, <2>i, <3>1, <4>3, <4>4, <5>1, <5>2, <6>1 DEF Home
        <5>3. CASE e.req # r
          <6>1. settled'[r] = settled[r]
            BY <1>0, <5>1, <5>3
          <6> QED
            BY <2>4, <2>i, <3>1, <4>3, <4>4, <5>1, <5>3, <6>1 DEF Home
        <5> QED
          BY <5>2, <5>3
      <4> QED
        BY <4>5, <4>6
    <3> QED
      BY <3>2, <3>3
  <2>8. CASE RunRestart(cb)
    <3>1. ~IsCall(cb, r) /\ settled' = settled
      BY <2>8 DEF RunRestart, IsCall
    <3>2. CASE sched' = s /\ c' = c
      BY <2>4, <2>i, <3>1, <3>2
    <3>3. ASSUME NEW p \in Procs, c' = Started(c, p), sched' = s
          PROVE  Home(r, issued', c'.queue, c'.pending, sched', settled'[r])
      <4>1. /\ c'.queue = c.queue
            /\ c'.pending = c.pending \cup {Await(c.nextId, Hello)}
        BY <1>0, <3>3 DEF Started, ClientRec
      <4>2. /\ Pending(c'.pending, r) <=> Pending(c.pending, r)
            /\ PendingOnce(c.pending, r) => PendingOnce(c'.pending, r)
        BY <4>1, ClientAssumption DEF Pending, PendingOnce, Await
      <4> QED
        BY <2>4, <2>i, <3>1, <3>3, <4>1, <4>2 DEF Home
    <3>4. CASE ScheduleRestart(c, s)
      BY <1>0, <2>1, <2>4, <2>i, <3>1, <3>4, ScheduleRestartHome
    <3> QED
      BY <2>8, <3>2, <3>3, <3>4 DEF RunRestart, s
  <2> QED
    BY <2>0, <2>5, <2>6, <2>7, <2>8
<1>10. CASE UNCHANGED vars
  BY <1>10, <1>h DEF vars
<1> QED
  BY <1>1, <1>2, <1>3, <1>4, <1>5, <1>7, <1>8, <1>9, <1>10 DEF Next
\* Ids stay apart, and a client that is torn down has given all away.
LEMMA HoldsStep == HomeInv /\ [Next]_vars => HoldsInv'
<1> SUFFICES ASSUME HomeInv, [Next]_vars PROVE HoldsInv'
  OBVIOUS
<1>0. /\ TypeOK /\ TypeOK' /\ c \in ClientRec /\ c.queue \in Seq(Req)
      /\ c.pending \in SUBSET Entry /\ c.nextId \in Nat
  BY TypeStep DEF HomeInv, IdInv, OrphanInv, TypeOK, ClientRec
<1>h. (client = 0 => c.queue = <<>> /\ c.pending = {}) /\ IdsOnce(c.pending)
  BY DEF HomeInv, HoldsInv
<1>l. client # 0 => (c.running <=> c.proc # 0)
  BY DEF HomeInv, IdInv, OrphanInv, LiveClient
<1>i. \A e \in c.pending : e.id \in Nat /\ e.id < c.nextId
  BY <1>0, <1>h DEF HomeInv, IdInv, IdsAgree, IdsOf, Entry
<1>s. ASSUME NEW P, P \subseteq c.pending PROVE IdsOnce(P)
  BY <1>h, <1>s DEF IdsOnce
<1>a. IdsOnce({})
  BY DEF IdsOnce
<1>t. ASSUME NEW cl \in ClientRec, NEW s, Teardown(cl, s) PROVE HoldsInv'
  BY <1>t, <1>a DEF Teardown, HoldsInv, ClientRec
<1>r. ASSUME NEW cl \in ClientRec, NEW s, ScheduleRestart(cl, s), client' = client, client # 0,
             cl.pending \subseteq c.pending
      PROVE  HoldsInv'
  <2>1. c'.pending \subseteq cl.pending
    BY <1>r DEF ScheduleRestart, GiveUp, ClientRec
  <2> QED
    BY <1>r, <1>s, <2>1 DEF HoldsInv
<1>b. ASSUME NEW cl \in ClientRec, NEW p, cl.pending = c.pending, client # 0 => cl = c,
             client = 0 => cl.pending = {}
      PROVE  /\ Started(cl, p).pending = c.pending \cup {Await(cl.nextId, Hello)}
             /\ IdsOnce(Started(cl, p).pending)
  <2>1. Started(cl, p).pending = c.pending \cup {Await(cl.nextId, Hello)}
    BY <1>b DEF Started, ClientRec
  <2>2. \A e \in c.pending : e.id # Await(cl.nextId, Hello).id
    BY <1>b, <1>i, <1>0 DEF Await
  <2> QED
    BY <1>h, <2>1, <2>2 DEF IdsOnce
<1>o. ASSUME NEW g, NEW res, NEW cl \in ClientRec, NEW s, OnHello(g, res, cl, s),
             cl.pending \subseteq c.pending, cl.nextId = c.nextId, g # 0,
             client # 0 /\ cl.running => cl.proc # 0, client # g => cl = c
      PROVE  HoldsInv'
  <2> DEFINE up == [cl EXCEPT !.ready = TRUE, !.attempts = 0, !.queue = <<>>]
  <2>1. up \in ClientRec /\ cl.queue \in Seq(Req)
    BY ClientFields, ExceptReady, EmptyTypes
  <2>2. CASE c' = cl /\ client' = client
    BY <1>h, <1>o, <1>s, <2>2 DEF HoldsInv
  <2>3. CASE Teardown(cl, s)
    BY <1>t, <2>3
  <2>4. CASE client = g /\ cl.running /\ c' = DoRequests(up, cl.queue) /\ client' = client
    <3>1. up.proc # 0 /\ up.pending = cl.pending /\ up.nextId = cl.nextId
      BY <1>o, <2>4 DEF ClientRec
    <3>2. IdsOnce(up.pending) /\ \A e \in up.pending : e.id < up.nextId
      BY <1>i, <1>o, <1>s, <3>1
    <3> HIDE DEF up
    <3>3. IdsOnce(c'.pending)
      BY <2>1, <2>4, <3>1, <3>2, SendingHome
    <3> QED
      BY <1>o, <2>4, <3>3 DEF HoldsInv
  <2> QED
    BY <1>o, <2>2, <2>3, <2>4 DEF OnHello
<1>1. ASSUME NEW x \in Req, Request(x) PROVE HoldsInv'
  <2> DEFINE cl == IF client = 0 THEN NewClient ELSE c
  <2>1. /\ cl \in ClientRec /\ cl.pending = c.pending /\ (cl.running => cl.proc # 0)
        /\ (client # 0 => cl = c) /\ (client = 0 => cl.pending = {})
    BY <1>0, <1>h, <1>l DEF NewClient, ClientRec
  <2>2. client' # 0
    BY <1>0, <1>1, ClientAssumption DEF Request, TypeOK, Clients
  <2> HIDE DEF cl
  <2>3. CASE cl.running /\ c' = DoRequests(cl, <<x>>)
    <3>1. <<x>> \in Seq(Req) /\ \A e \in cl.pending : e.id < cl.nextId
      BY <1>i, <2>1
    <3>2. IdsOnce(c'.pending)
      BY <1>h, <2>1, <2>3, <3>1, SendingHome
    <3> QED
      BY <2>2, <3>2 DEF HoldsInv
  <2>4. CASE c' = [cl EXCEPT !.queue = Append(@, x)]
    BY <1>h, <2>1, <2>2, <2>4 DEF HoldsInv, ClientRec
  <2>5. ASSUME NEW p \in Procs, c' = [Started(cl, p) EXCEPT !.queue = Append(@, x)]
        PROVE  HoldsInv'
    <3>1. c'.pending = Started(cl, p).pending
      BY <2>1, <2>5 DEF Started, ClientRec
    <3> QED
      BY <1>b, <2>1, <2>2, <3>1 DEF HoldsInv
  <2>6. CASE c' = cl
    BY <1>h, <2>1, <2>2, <2>6 DEF HoldsInv
  <2> QED
    BY <1>1, <2>3, <2>4, <2>5, <2>6 DEF Request, cl
<1>2. ASSUME Stop PROVE HoldsInv'
  BY <1>0, <1>2, <1>t DEF Stop
<1>3. ASSUME NEW p \in Procs, OnStdout(p) PROVE HoldsInv'
  <2>1. c'.pending \subseteq c.pending /\ client' = client /\ c'.queue = c.queue
    BY <1>0, <1>3 DEF OnStdout, ClientRec
  <2> QED
    BY <1>h, <1>s, <2>1 DEF HoldsInv
<1>4. ASSUME NEW p \in Procs, OnExit(p) PROVE HoldsInv'
  <2> DEFINE cl == [c EXCEPT !.running = FALSE, !.ready = FALSE, !.proc = 0,
                             !.pending = {}]
             s == Schedule(sched, FailPending(c, client))
  <2>1. cl \in ClientRec /\ cl.pending = {} /\ client' = client
    BY <1>0, <1>4 DEF OnExit, ClientRec
  <2>2. CASE ~Owned(p)
    BY <1>4, <1>h, <2>2 DEF OnExit, HoldsInv
  <2>3. CASE Owned(p) /\ c.stopping
    <3>1. c'.pending = {} /\ client # 0
      BY <1>0, <1>4, <2>3 DEF OnExit, Owned, ClientRec
    <3> QED
      BY <1>a, <2>1, <3>1 DEF HoldsInv
  <2>4. CASE Owned(p) /\ ~c.stopping
    <3>1. ScheduleRestart(cl, s) /\ client # 0
      BY <1>4, <2>4 DEF OnExit, Owned
    <3> HIDE DEF cl, s
    <3> QED
      BY <1>r, <2>1, <3>1
  <2> QED
    BY <2>2, <2>3, <2>4
<1>5. ASSUME NEW p \in Procs, Answer(p) \/ Die(p) PROVE HoldsInv'
  BY <1>5, <1>h DEF Answer, Die, HoldsInv
<1>7. ASSUME NEW e \in c.pending, TimerFire(e) PROVE HoldsInv'
  <2> DEFINE d == [e EXCEPT !.armed = FALSE]
  <2>1. c'.pending = (c.pending \ {e}) \cup {d} /\ client' = client /\ client # 0
    BY <1>0, <1>7 DEF TimerFire, ClientRec
  <2>2. d.id = e.id
    BY <1>0 DEF Entry
  <2> HIDE DEF d
  <2>3. IdsOnce(c'.pending)
    BY <1>h, <2>1, <2>2 DEF IdsOnce
  <2> QED
    BY <2>1, <2>3 DEF HoldsInv
<1>8. ASSUME NEW g \in Clients, RestartFire(g) PROVE HoldsInv'
  BY <1>8, <1>h DEF RestartFire, HoldsInv
<1>9. ASSUME RunCallback PROVE HoldsInv'
  <2>0. PICK cb \in Head(sched) :
          RunCall(cb) \/ RunHello(cb) \/ RunTimeout(cb) \/ RunRestart(cb)
    BY <1>9 DEF RunCallback
  <2>1. cb.gen # 0
    <3>1. cb \in Callback
      BY <1>0, <1>9, PoppedType DEF RunCallback, TypeOK
    <3> QED
      BY <3>1 DEF Callback, Clients
  <2>2. CASE RunCall(cb)
    BY <1>h, <2>2 DEF RunCall, HoldsInv
  <2>3. CASE RunHello(cb)
    BY <1>0, <1>l, <1>o, <2>1, <2>3 DEF RunHello
  <2>4. CASE RunTimeout(cb)
    <3> DEFINE hit == {e \in c.pending : e.id = cb.id}
               cl == [c EXCEPT !.pending = @ \ hit]
    <3>1. /\ cl \in ClientRec /\ cl.pending \subseteq c.pending /\ cl.nextId = c.nextId
          /\ cl.running = c.running /\ cl.proc = c.proc /\ cl.queue = c.queue
      BY <1>0 DEF ClientRec
    <3> HIDE DEF cl
    <3>2. CASE c' = c /\ client' = client
      BY <1>h, <3>2 DEF HoldsInv
    <3>3. CASE client = cb.gen /\ OnHello(cb.gen, "network", cl, Popped(cb))
      BY <1>l, <1>o, <2>1, <3>1, <3>3
    <3>4. CASE c' = cl /\ client' = client
      BY <1>h, <1>s, <3>1, <3>4 DEF HoldsInv
    <3> QED
      BY <2>4, <3>2, <3>3, <3>4 DEF RunTimeout, cl
  <2>5. CASE RunRestart(cb)
    <3>1. client' = client /\ (c' = c \/ client = cb.gen)
      BY <2>5 DEF RunRestart, RestartMoot
    <3>2. CASE c' = c
      BY <1>h, <3>1, <3>2 DEF HoldsInv
    <3>3. ASSUME NEW p \in Procs, c' = Started(c, p), client = cb.gen PROVE HoldsInv'
      BY <1>0, <1>b, <2>1, <3>1, <3>3 DEF HoldsInv
    <3>4. CASE client = cb.gen /\ ScheduleRestart(c, Popped(cb))
      BY <1>0, <1>r, <2>1, <3>1, <3>4
    <3> QED
      BY <2>5, <3>2, <3>3, <3>4 DEF RunRestart, RestartMoot
  <2> QED
    BY <2>0, <2>2, <2>3, <2>4, <2>5
<1>10. CASE UNCHANGED vars
  BY <1>10, <1>h DEF vars, HoldsInv
<1> QED
  BY <1>1, <1>2, <1>3, <1>4, <1>5, <1>7, <1>8, <1>9, <1>10 DEF Next
\* Whatever a queue waits for is followed by what it waits for next.
LEMMA ServedStep == HomeInv /\ [Next]_vars => ServedInv'
<1> SUFFICES ASSUME HomeInv, [Next]_vars PROVE ServedInv'
  OBVIOUS
<1>0. /\ TypeOK /\ TypeOK' /\ c \in ClientRec /\ c.queue \in Seq(Req)
      /\ c.pending \in SUBSET Entry /\ procs \in [Procs -> ProcRec]
      /\ sched \in Seq((SUBSET Callback) \ {{}}) /\ restarts \in [Clients -> Nat]
  BY TypeStep DEF HomeInv, IdInv, OrphanInv, TypeOK, ClientRec
<1>g. client # 0 => client \in Clients
  BY <1>0 DEF TypeOK
<1>v. client # 0 => Served(c, client, sched, restarts)
  BY DEF HomeInv, ServedInv
<1>l. client # 0 => ~c.stopping /\ (c.running <=> c.proc # 0)
  BY DEF HomeInv, IdInv, OrphanInv, LiveClient
<1>w. ASSUME NEW b, NEW k, NEW g, Waiting(sched, k, g) PROVE Waiting(Schedule(sched, b), k, g)
  BY <1>0, <1>w, ScheduleWaiting
<1>t. ASSUME NEW cl, NEW s, Teardown(cl, s) PROVE ServedInv'
  BY <1>t DEF Teardown, ServedInv
<1>r. ASSUME NEW cl \in ClientRec, NEW s, ScheduleRestart(cl, s), ~cl.running,
             client # 0, client' = client
      PROVE  ServedInv'
  <2>1. ~c'.running
    BY <1>r DEF ScheduleRestart, GiveUp, ClientRec
  <2>2. c'.queue = <<>> \/ restarts' = [restarts EXCEPT ![client] = @ + 1]
    BY <1>r DEF ScheduleRestart, GiveUp, ClientRec
  <2>3. c'.queue = <<>> \/ restarts'[client] > 0
    BY <1>0, <1>g, <1>r, <2>2
  <2> QED
    BY <1>r, <2>1, <2>3 DEF ServedInv, Served
<1>s. ASSUME NEW cl \in ClientRec, NEW p, client' # 0,
             c'.pending = Started(cl, p).pending, c'.running, ~c'.ready
      PROVE  ServedInv'
  <2>1. Await(cl.nextId, Hello) \in c'.pending /\ Await(cl.nextId, Hello).req = Hello
    BY <1>s DEF Started, ClientRec, Await
  <2>2. Pending(c'.pending, Hello)
    BY <2>1 DEF Pending
  <2> QED
    BY <1>s, <2>2 DEF ServedInv, Served
\* The handshake's callback, with what the queue waits for when it does nothing.
<1>o. ASSUME NEW g, g # 0, NEW res, NEW cl \in ClientRec, NEW s, OnHello(g, res, cl, s),
             cl.running => cl.proc # 0, client = g, restarts' = restarts,
             ~cl.running /\ cl.queue # <<>> => restarts[client] > 0 \/ Waiting(s, "restart", client)
      PROVE  ServedInv'
  <2> DEFINE up == [cl EXCEPT !.ready = TRUE, !.attempts = 0, !.queue = <<>>]
  <2>1. up \in ClientRec /\ cl.queue \in Seq(Req)
    BY ClientFields, ExceptReady, EmptyTypes
  <2>2. CASE ~cl.running /\ c' = cl /\ sched' = s /\ client' = client
    BY <1>o, <2>2 DEF ServedInv, Served
  <2>3. CASE Teardown(cl, s)
    BY <1>t, <2>3
  <2>4. CASE cl.running /\ c' = DoRequests(up, cl.queue)
    <3>1. up.proc # 0 /\ up.queue = <<>> /\ up.running /\ up.ready
      BY <1>o, <2>4 DEF ClientRec
    <3> HIDE DEF up
    <3>2. c'.queue = <<>> /\ c'.running /\ c'.ready
      BY <2>1, <2>4, <3>1, SendingHome
    <3> QED
      BY <3>2 DEF ServedInv, Served
  <2> QED
    BY <1>o, <2>2, <2>3, <2>4 DEF OnHello
<1>1. ASSUME NEW x \in Req, Request(x) PROVE ServedInv'
  <2> DEFINE cl == IF client = 0 THEN NewClient ELSE c
  <2>1. /\ cl \in ClientRec /\ (cl.running => cl.proc # 0 /\ client # 0)
        /\ (client # 0 => cl = c) /\ (client = 0 => cl = NewClient)
        /\ (client = 0 => cl.queue = <<>> /\ ~cl.running)
    BY <1>0, <1>l DEF NewClient, ClientRec
  <2>2. client' # 0 /\ (client # 0 => client' = client) /\ restarts' = restarts
    BY <1>0, <1>1, ClientAssumption DEF Request, TypeOK, Clients
  <2> HIDE DEF cl
  <2>3. CASE cl.running /\ cl.ready /\ c' = DoRequests(cl, <<x>>) /\ sched' = sched
    <3>1. <<x>> \in Seq(Req)
      OBVIOUS
    <3>2. c'.queue = c.queue /\ c'.running /\ c'.ready
      BY <2>1, <2>3, <3>1, SendingHome
    <3> QED
      BY <1>v, <2>1, <2>2, <2>3, <3>2 DEF ServedInv, Served
  <2>4. CASE cl.running /\ ~cl.ready /\ c' = [cl EXCEPT !.queue = Append(@, x)] /\ sched' = sched
    <3>1. c'.running /\ ~c'.ready /\ c'.pending = c.pending
      BY <2>1, <2>4 DEF ClientRec
    <3> QED
      BY <1>v, <2>1, <2>2, <2>4, <3>1 DEF ServedInv, Served
  <2>5. ASSUME NEW p \in Procs, c' = [Started(cl, p) EXCEPT !.queue = Append(@, x)]
        PROVE  ServedInv'
    <3>1. c'.pending = Started(cl, p).pending /\ c'.running /\ ~c'.ready
      BY <2>1, <2>5 DEF Started, ClientRec
    <3> QED
      BY <1>s, <2>1, <2>2, <3>1
  <2>6. CASE ~cl.running /\ c' = cl /\ sched' = Schedule(sched, {Fail(gen', 0, x)})
    <3>1. CASE client = 0
      BY <2>1, <2>6, <3>1 DEF ServedInv, Served
    <3>2. CASE client # 0
      BY <1>v, <1>w, <2>1, <2>2, <2>6, <3>2 DEF ServedInv, Served
    <3> QED
      BY <3>1, <3>2
  <2> QED
    BY <1>1, <2>3, <2>4, <2>5, <2>6 DEF Request, cl
<1>2. ASSUME Stop PROVE ServedInv'
  BY <1>2, <1>t DEF Stop
<1>3. ASSUME NEW p \in Procs, OnStdout(p) PROVE ServedInv'
  <2> DEFINE f == Head(procs[p].out)
             hit == {e \in c.pending : e.id = f.id}
             F(e) == [k |-> "call", gen |-> client, id |-> e.id,
                      req |-> e.req, res |-> f.res, from |-> f.req]
             cbs == {F(e) : e \in hit}
  <2>1. client' = client /\ restarts' = restarts
    BY <1>3 DEF OnStdout
  <2>2. CASE ~Owned(p)
    BY <1>3, <1>v, <2>1, <2>2 DEF OnStdout, ServedInv
  <2>3. CASE Owned(p)
    <3>1. /\ c'.queue = c.queue /\ c'.running = c.running /\ c'.ready = c.ready
          /\ c'.pending = c.pending \ hit /\ sched' = Schedule(sched, cbs) /\ client # 0
      BY <1>0, <1>3, <2>3 DEF OnStdout, Owned, ClientRec
    <3>2. ASSUME NEW e PROVE F(e).k = "call" /\ F(e).req = e.req /\ F(e).gen = client
      OBVIOUS
    <3>3. \A e \in hit : F(e) \in cbs
      OBVIOUS
    <3> HIDE DEF f, hit, F, cbs
    <3>4. Pending(hit, Hello) => Waiting(sched', "call", client)
      BY <1>0, <3>1, <3>2, <3>3, ScheduleWaiting DEF Pending
    <3>5. ~Pending(hit, Hello) /\ Pending(c.pending, Hello) => Pending(c'.pending, Hello)
      BY <3>1 DEF Pending
    <3> QED
      BY <1>v, <1>w, <2>1, <3>1, <3>4, <3>5 DEF ServedInv, Served
  <2> QED
    BY <2>2, <2>3
<1>4. ASSUME NEW p \in Procs, OnExit(p) PROVE ServedInv'
  <2> DEFINE cl == [c EXCEPT !.running = FALSE, !.ready = FALSE, !.proc = 0,
                             !.pending = {}]
             s == Schedule(sched, FailPending(c, client))
  <2>1. cl \in ClientRec /\ ~cl.running /\ client' = client
    BY <1>0, <1>4 DEF OnExit, ClientRec
  <2>2. CASE ~Owned(p)
    BY <1>4, <1>v, <2>2 DEF OnExit, ServedInv
  <2>3. CASE Owned(p)
    <3>1. ScheduleRestart(cl, s) /\ client # 0
      BY <1>4, <1>l, <2>3 DEF OnExit, Owned
    <3> HIDE DEF cl, s
    <3> QED
      BY <1>r, <2>1, <3>1
  <2> QED
    BY <2>2, <2>3
<1>5. ASSUME NEW p \in Procs, Answer(p) \/ Die(p) PROVE ServedInv'
  BY <1>5, <1>v DEF Answer, Die, ServedInv
<1>7. ASSUME NEW e \in c.pending, TimerFire(e) PROVE ServedInv'
  <2> DEFINE d == [e EXCEPT !.armed = FALSE]
             b == {[k |-> "timeout", gen |-> client, id |-> e.id, req |-> e.req,
                    res |-> "network", from |-> e.req]}
  <2>1. /\ c'.queue = c.queue /\ c'.running = c.running /\ c'.ready = c.ready
        /\ c'.pending = (c.pending \ {e}) \cup {d}
        /\ sched' = Schedule(sched, b) /\ client' = client /\ restarts' = restarts
    BY <1>0, <1>7 DEF TimerFire, ClientRec
  <2>2. d.req = e.req
    BY <1>0 DEF Entry
  <2> HIDE DEF d, b
  <2>3. Pending(c.pending, Hello) => Pending(c'.pending, Hello)
    BY <2>1, <2>2 DEF Pending
  <2> QED
    BY <1>v, <1>w, <2>1, <2>3 DEF ServedInv, Served
<1>8. ASSUME NEW g \in Clients, RestartFire(g) PROVE ServedInv'
  <2> DEFINE a == [k |-> "restart", gen |-> g, id |-> 0, req |-> Hello,
                   res |-> "ok", from |-> Hello]
  <2>1. /\ sched' = Schedule(sched, {a}) /\ c' = c /\ client' = client
        /\ restarts' = [restarts EXCEPT ![g] = @ - 1]
    BY <1>8 DEF RestartFire
  <2>2. a.k = "restart" /\ a.req = Hello /\ a.gen = g
    OBVIOUS
  <2> HIDE DEF a
  <2>3. Waiting(sched', "restart", g)
    BY <1>0, <2>1, <2>2, ScheduleWaiting
  <2>4. client # 0 /\ client # g => restarts'[client] = restarts[client]
    BY <1>0, <1>g, <2>1
  <2> QED
    BY <1>v, <1>w, <2>1, <2>3, <2>4 DEF ServedInv, Served
<1>9. ASSUME RunCallback PROVE ServedInv'
  <2>0. PICK cb \in Head(sched) :
          RunCall(cb) \/ RunHello(cb) \/ RunTimeout(cb) \/ RunRestart(cb)
    BY <1>9 DEF RunCallback
  <2> DEFINE s == Popped(cb)
  <2>1. cb.gen # 0
    <3>1. cb \in Callback
      BY <1>0, <1>9, PoppedType DEF RunCallback
    <3> QED
      BY <3>1 DEF Callback, Clients
  <2>w. ASSUME NEW k, NEW g, Waiting(sched, k, g), ~(cb.k = k /\ cb.req = Hello /\ cb.gen = g)
        PROVE  Waiting(s, k, g)
    BY <1>0, <1>9, <2>w, PoppedWaiting DEF RunCallback
  <2> HIDE DEF s
  <2>2. CASE RunCall(cb)
    <3>1. sched' = s /\ c' = c /\ client' = client /\ restarts' = restarts
          /\ cb.k = "call" /\ cb.req # Hello
      BY <2>2 DEF RunCall, s
    <3> QED
      BY <1>v, <2>w, <3>1 DEF ServedInv, Served
  <2>3. CASE RunHello(cb)
    <3>1. OnHello(cb.gen, cb.res, c, s) /\ restarts' = restarts /\ cb.k = "call"
      BY <2>3 DEF RunHello, s
    <3>2. client # 0 /\ Waiting(sched, "restart", client) => Waiting(s, "restart", client)
      BY <2>w, <3>1
    <3>3. CASE client = cb.gen
      BY <1>0, <1>l, <1>o, <1>v, <2>1, <3>1, <3>2, <3>3 DEF Served
    <3>4. CASE client # cb.gen
      <4>1. c' = c /\ sched' = s /\ client' = client
        BY <3>1, <3>4 DEF OnHello
      <4> QED
        BY <1>v, <2>w, <3>1, <3>4, <4>1 DEF ServedInv, Served
    <3> QED
      BY <3>3, <3>4
  <2>4. CASE RunTimeout(cb)
    <3> DEFINE hit == {e \in c.pending : e.id = cb.id}
               cl == [c EXCEPT !.pending = @ \ hit]
    <3>1. /\ cl \in ClientRec /\ cl.pending = c.pending \ hit
          /\ cl.running = c.running /\ cl.proc = c.proc /\ cl.queue = c.queue
          /\ cl.ready = c.ready
      BY <1>0 DEF ClientRec
    <3>2. cb.k = "timeout" /\ restarts' = restarts
      BY <2>4 DEF RunTimeout
    <3>3. /\ client # 0 /\ Waiting(sched, "restart", client) => Waiting(s, "restart", client)
          /\ client # 0 /\ Waiting(sched, "call", client) => Waiting(s, "call", client)
      BY <2>w, <3>2
    <3>4. CASE client # cb.gen \/ hit = {}
      <4>1. c' = c /\ sched' = s /\ client' = client
        BY <2>4, <3>4 DEF RunTimeout, s
      <4> QED
        BY <1>v, <3>2, <3>3, <4>1 DEF ServedInv, Served
    <3>5. CASE client = cb.gen /\ hit # {}
      <4>1. PICK e \in hit :
              IF e.req = Hello
              THEN OnHello(cb.gen, "network", cl, s)
              ELSE c' = cl /\ sched' = s /\ client' = client
        BY <2>4, <3>5 DEF RunTimeout, s
      <4>2. hit = {e}
        BY DEF HomeInv, HoldsInv, IdsOnce
      <4> HIDE DEF cl, hit
      <4>3. CASE e.req = Hello
        BY <1>l, <1>o, <1>v, <2>1, <3>1, <3>2, <3>3, <3>5, <4>1, <4>3 DEF Served
      <4>4. CASE e.req # Hello
        <5>1. Pending(c.pending, Hello) => Pending(cl.pending, Hello)
          BY <3>1, <4>2, <4>4 DEF Pending
        <5> QED
          BY <1>v, <3>1, <3>2, <3>3, <4>1, <4>4, <5>1 DEF ServedInv, Served
      <4> QED
        BY <4>3, <4>4
    <3> QED
      BY <3>4, <3>5
  <2>5. CASE RunRestart(cb)
    <3>1. client' = client /\ cb.k = "restart"
      BY <2>5 DEF RunRestart
    <3>2. client # 0 /\ Waiting(sched, "call", client) => Waiting(s, "call", client)
      BY <2>w, <3>1
    <3>3. CASE RestartMoot(cb.gen)
      <4>1. sched' = s /\ c' = c /\ restarts' = restarts
        BY <2>5, <3>3 DEF RunRestart, s
      <4>2. client # 0 => client # cb.gen \/ c.running
        BY <1>l, <3>3 DEF RestartMoot
      <4>3. client # cb.gen /\ Waiting(sched, "restart", client) => Waiting(s, "restart", client)
        BY <2>w
      <4> QED
        BY <1>v, <3>1, <3>2, <4>1, <4>2, <4>3 DEF ServedInv, Served
    <3>4. CASE ~RestartMoot(cb.gen)
      <4>1. client = cb.gen /\ ~c.running
        BY <3>4 DEF RestartMoot
      <4>2. ASSUME NEW p \in Procs, c' = Started(c, p) PROVE ServedInv'
        <5>1. c'.running /\ ~c'.ready
          BY <1>0, <4>2 DEF Started, ClientRec
        <5> QED
          BY <1>0, <1>s, <2>1, <3>1, <4>1, <4>2, <5>1
      <4>3. CASE ScheduleRestart(c, s)
        BY <1>0, <1>r, <2>1, <3>1, <4>1, <4>3
      <4> QED
        BY <2>5, <3>4, <4>2, <4>3 DEF RunRestart, s
    <3> QED
      BY <3>3, <3>4
  <2> QED
    BY <2>0, <2>2, <2>3, <2>4, <2>5
<1>10. CASE UNCHANGED vars
  BY <1>10, <1>v DEF vars, ServedInv
<1> QED
  BY <1>1, <1>2, <1>3, <1>4, <1>5, <1>7, <1>8, <1>9, <1>10 DEF Next

\* The places of one request, counted.
LEMMA HomeCounted ==
  ASSUME NEW r \in Req, Home(r, issued, c.queue, c.pending, sched, settled[r])
  PROVE  Cardinality(QueuedAt(r)) + Cardinality(PendingAs(r))
           + Cardinality(ScheduledAt(r)) + settled[r]
         = IF r \in issued THEN 1 ELSE 0
<1>0. Cardinality({}) = 0 /\ \A x : Cardinality({x}) = 1
  BY FS_EmptySet, FS_Singleton
<1>1. Cardinality(QueuedAt(r)) = IF Queued(c.queue, r) THEN 1 ELSE 0
  <2>1. CASE Queued(c.queue, r)
    <3>1. PICK i \in DOMAIN c.queue : c.queue[i] = r
      BY <2>1 DEF Queued
    <3>2. \A j \in DOMAIN c.queue : c.queue[j] = r => j = i
      BY <3>1 DEF Home, QueuedOnce
    <3>3. QueuedAt(r) = {i}
      BY <3>1, <3>2 DEF QueuedAt
    <3> QED
      BY <1>0, <2>1, <3>3
  <2>2. CASE ~Queued(c.queue, r)
    <3>1. QueuedAt(r) = {}
      BY <2>2 DEF Queued, QueuedAt
    <3> QED
      BY <1>0, <2>2, <3>1
  <2> QED
    BY <2>1, <2>2
<1>2. Cardinality(PendingAs(r)) = IF Pending(c.pending, r) THEN 1 ELSE 0
  <2>1. CASE Pending(c.pending, r)
    <3>1. \E e : PendingAs(r) = {e}
      BY <2>1 DEF Home, Pending, PendingOnce, PendingAs
    <3> QED
      BY <1>0, <2>1, <3>1
  <2>2. CASE ~Pending(c.pending, r)
    <3>1. PendingAs(r) = {}
      BY <2>2 DEF Pending, PendingAs
    <3> QED
      BY <1>0, <2>2, <3>1
  <2> QED
    BY <2>1, <2>2
<1>3. Cardinality(ScheduledAt(r)) = IF Scheduled(sched, r) THEN 1 ELSE 0
  <2>0. ScheduledAt(r) = {i \in DOMAIN sched : Called(sched[i], r)}
    BY DEF ScheduledAt, Called, IsCall
  <2>1. CASE Scheduled(sched, r)
    <3>1. \E i : ScheduledAt(r) = {i}
      BY <2>0, <2>1 DEF Home, Scheduled, ScheduledOnce
    <3> QED
      BY <1>0, <2>1, <3>1
  <2>2. CASE ~Scheduled(sched, r)
    <3>1. ScheduledAt(r) = {}
      BY <2>0, <2>2 DEF Scheduled
    <3> QED
      BY <1>0, <2>2, <3>1
  <2> QED
    BY <2>1, <2>2
<1> QED
  BY <1>1, <1>2, <1>3 DEF Home

\* Every request is held in exactly one place until it is called back, once, and a
\* queue is one that something will serve (request, start, on_exit, fail_all, take,
\* handshake), through any number of crashes, restarts, stops and new clients.
THEOREM OneHomeEver == Spec => []OneHome
<1>1. Init => HomeInv
  <2>1. Init => OrphanInv
    BY ClientAssumption
    DEF Init, OrphanInv, TypeOK, NewClient, ClientRec, NoProc, ProcRec, LiveClient,
        HeldByOwner, NoOrphan
  <2>2. Init => IdInv
    BY <2>1 DEF Init, IdInv, IdsAgree, RightAnswer
  <2>3. Init => HoldsInv /\ ServedInv
    BY DEF Init, HoldsInv, ServedInv, NewClient, IdsOnce
  <2>4. Init => HomesInv
    BY DEF Init, HomesInv, Home, NewClient, Queued, QueuedOnce, Pending, PendingOnce,
           Scheduled, ScheduledOnce
  <2> QED
    BY <2>2, <2>3, <2>4 DEF HomeInv
<1>2. HomeInv => OneHome
  <2> SUFFICES ASSUME HomeInv PROVE OneHome
    OBVIOUS
  <2>1. NotStranded
    <3> SUFFICES ASSUME client # 0, c.queue # <<>> PROVE NotStranded
      BY DEF NotStranded
    <3>1. /\ c.running => Pending(c.pending, Hello) \/ Waiting(sched, "call", client)
          /\ ~c.running => restarts[client] > 0 \/ Waiting(sched, "restart", client)
      BY DEF HomeInv, ServedInv, Served
    <3>2. Pending(c.pending, Hello) => PendingAs(Hello) # {}
      BY DEF Pending, PendingAs
    <3> QED
      BY <3>1, <3>2 DEF NotStranded, Waiting
  <2>2. \A r \in Req : Home(r, issued, c.queue, c.pending, sched, settled[r])
    BY DEF HomeInv, HomesInv
  <2> QED
    BY <2>1, <2>2, HomeCounted DEF OneHome
<1>3. HomeInv /\ [Next]_vars => HomeInv'
  BY IdStep, HomesStep, HoldsStep, ServedStep DEF HomeInv
<1> QED
  BY <1>1, <1>2, <1>3, PTL DEF Spec
=============================================================================
