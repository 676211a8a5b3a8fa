--------------------------- MODULE GitQueueProofs ---------------------------
(***************************************************************************)
(* Proofs about the two that run git: GitQueue, for any set of tasks, any  *)
(* number of git commands and any number of supersedes, and MergeTool, for *)
(* any files, conflicts, sessions, runs and changes from outside.          *)
(***************************************************************************)
EXTENDS GitQueue, MergeTool, SequenceTheorems, TLAPS, WellFoundedInduction

\* At most one function is scheduled, and it is for the task in flight: the
\* resumption of the yield it is at, by a command already answered, or its
\* on_done.
SchedInv ==
  /\ Len(sched) <= 1
  /\ \A i \in DOMAIN sched :
       LET cb == sched[i]
       IN \/ /\ cb.k = "resume"
             /\ task[cb.job].st = "running"
             /\ task[cb.job].awaits = cb.cmd
             /\ cb.cmd \in Cmds
             /\ cmds[cb.cmd].settled
          \/ /\ cb.k = "done"
             /\ task[cb.job].st = "returned"

\* A command not answered yet is the one its task is waiting for.
CmdInv ==
  \A x \in Cmds :
    /\ cmds[x].guard => cmds[x].st = "up" /\ ~cmds[x].settled
    /\ cmds[x].st # "none" /\ ~cmds[x].settled =>
         /\ cmds[x].job \in Jobs
         /\ task[cmds[x].job].st = "running"
         /\ task[cmds[x].job].awaits = x

QueueInv == TypeOK /\ OneAtATime /\ SchedInv /\ CmdInv

\* No command is still to answer.
AllAnswered ==
  \A x \in Cmds : /\ ~cmds[x].guard
                  /\ cmds[x].st = "none" \/ cmds[x].settled

-----------------------------------------------------------------------------
LEMMA InsertedType ==
  ASSUME TypeOK, NEW j \in Jobs, NEW t \in [Jobs -> TaskRec]
  PROVE  Inserted(pending, j) \in Seq(Job) /\ Queued(t, j) \in [Jobs -> TaskRec]
<1>1. [job |-> j, generation |-> generation] \in Job
  BY DEF Job, TypeOK
<1>2. Inserted(pending, j) \in Seq(Job)
  BY <1>1 DEF Inserted, TypeOK
<1>3. Queued(t, j) \in [Jobs -> TaskRec]
  BY DEF Queued, TaskRec, TypeOK
<1> QED
  BY <1>2, <1>3

LEMMA DroppingType ==
  ASSUME NEW g, NEW p \in Seq(Job), NEW t \in [Jobs -> TaskRec]
  PROVE  Dropping(g, p, t) \in [Jobs -> TaskRec]
<1>1. \A j \in Jobs : [t[j] EXCEPT !.st = "over"] \in TaskRec
  BY DEF TaskRec
<1> QED
  BY <1>1 DEF Dropping

\* A coroutine that runs with every command answered and nothing scheduled
\* leaves its task the only one in flight.
LEMMA ProceedInv ==
  ASSUME TypeOK, AllAnswered, NEW t \in [Jobs -> TaskRec], NEW j \in Jobs,
         \A k \in Jobs : k # j => t[k].st \notin {"running", "returned"},
         Proceed(t, j, <<>>)
  PROVE  /\ task' \in [Jobs -> TaskRec]
         /\ cmds' \in [Cmds -> CmdRec]
         /\ sched' \in Seq(Callback)
         /\ InFlight' = {j}
         /\ SchedInv'
         /\ CmdInv'
<1>0. cmds \in [Cmds -> CmdRec]
  BY DEF TypeOK
<1>1. ASSUME NEW x \in Cmds, NEW guard \in BOOLEAN,
             RunGit(t, j, x, guard, <<>>)
      PROVE  /\ task' \in [Jobs -> TaskRec]
             /\ cmds' \in [Cmds -> CmdRec]
             /\ sched' \in Seq(Callback)
             /\ InFlight' = {j}
             /\ SchedInv'
             /\ CmdInv'
  <2>1. task' \in [Jobs -> TaskRec] /\ cmds' \in [Cmds -> CmdRec]
    BY <1>0, <1>1, ZenonT(40) DEF RunGit, TaskRec, CmdRec
  <2>2. /\ task'[j].st = "running" /\ task'[j].awaits = x
        /\ \A k \in Jobs : k # j => task'[k] = t[k]
    BY <1>1 DEF RunGit, TaskRec
  <2>3. InFlight' = {j}
    BY <2>2 DEF InFlight
  <2>4. sched' = <<>>
    BY <1>1 DEF RunGit
  <2>5. CmdInv'
    <3>1. \A y \in Cmds : y # x => cmds'[y] = cmds[y]
      BY <1>0, <1>1 DEF RunGit
    <3>2. cmds'[x].st = "up" /\ cmds'[x].job = j /\ cmds'[x].settled = FALSE
      BY <1>0, <1>1 DEF RunGit
    <3> QED
      BY <2>2, <3>1, <3>2 DEF CmdInv, AllAnswered
  <2> QED
    BY <2>1, <2>3, <2>4, <2>5 DEF SchedInv
<1>2. ASSUME NEW x \in Cmds, RunNothing(t, j, x, <<>>)
      PROVE  /\ task' \in [Jobs -> TaskRec]
             /\ cmds' \in [Cmds -> CmdRec]
             /\ sched' \in Seq(Callback)
             /\ InFlight' = {j}
             /\ SchedInv'
             /\ CmdInv'
  <2>1. task' \in [Jobs -> TaskRec] /\ cmds' \in [Cmds -> CmdRec]
    BY <1>0, <1>2, ZenonT(40) DEF RunNothing, TaskRec, CmdRec
  <2>2. /\ task'[j].st = "running" /\ task'[j].awaits = x
        /\ \A k \in Jobs : k # j => task'[k] = t[k]
    BY <1>2 DEF RunNothing, TaskRec
  <2>3. InFlight' = {j}
    BY <2>2 DEF InFlight
  <2>4. Resume(j, x) \in Callback
    BY DEF Resume, Callback
  <2>5. /\ sched' = <<Resume(j, x)>> /\ sched' \in Seq(Callback)
        /\ Len(sched') = 1 /\ DOMAIN sched' = {1} /\ sched'[1] = Resume(j, x)
    BY <1>2, <2>4 DEF RunNothing
  <2>6. /\ \A y \in Cmds : y # x => cmds'[y] = cmds[y]
        /\ cmds'[x].settled = TRUE /\ cmds'[x].guard = FALSE
    BY <1>0, <1>2 DEF RunNothing
  <2>7. CmdInv'
    BY <2>6 DEF CmdInv, AllAnswered
  <2>8. SchedInv'
    BY <2>2, <2>5, <2>6 DEF SchedInv, Resume
  <2> QED
    BY <2>1, <2>3, <2>5, <2>7, <2>8
<1>3. ASSUME Return(t, j, <<>>)
      PROVE  /\ task' \in [Jobs -> TaskRec]
             /\ cmds' \in [Cmds -> CmdRec]
             /\ sched' \in Seq(Callback)
             /\ InFlight' = {j}
             /\ SchedInv'
             /\ CmdInv'
  <2>1. task' \in [Jobs -> TaskRec] /\ cmds' = cmds
    BY <1>3 DEF Return, TaskRec
  <2>2. /\ task'[j].st = "returned"
        /\ \A k \in Jobs : k # j => task'[k] = t[k]
    BY <1>3 DEF Return, TaskRec
  <2>3. InFlight' = {j}
    BY <2>2 DEF InFlight
  <2>4. Done(j) \in Callback
    BY DEF Done, Callback
  <2>5. /\ sched' = <<Done(j)>> /\ sched' \in Seq(Callback)
        /\ Len(sched') = 1 /\ DOMAIN sched' = {1} /\ sched'[1] = Done(j)
    BY <1>3, <2>4 DEF Return
  <2>6. CmdInv'
    BY <2>1 DEF CmdInv, AllAnswered
  <2>7. SchedInv'
    BY <2>2, <2>5 DEF SchedInv, Done
  <2> QED
    BY <1>0, <2>1, <2>3, <2>5, <2>6, <2>7
<1> QED
  BY <1>1, <1>2, <1>3 DEF Proceed

\* drain, called with no task in flight, leaves one in flight or the queue idle.
LEMMA DrainInv ==
  ASSUME TypeOK, AllAnswered, NEW g, NEW p \in Seq(Job),
         NEW t \in [Jobs -> TaskRec],
         \A k \in Jobs : t[k].st \notin {"running", "returned"},
         Drain(g, p, t, <<>>), generation' \in Nat, delivered' \in Seq(Jobs)
  PROVE  QueueInv'
<1>1. Dropping(g, p, t) \in [Jobs -> TaskRec]
  BY DroppingType
<1>2. \A k \in Jobs : Dropping(g, p, t)[k].st \notin {"running", "returned"}
  BY DEF Dropping, TaskRec
<1>3. CASE /\ busy' = FALSE
           /\ pending' = <<>>
           /\ task' = Dropping(g, p, t)
           /\ sched' = <<>>
           /\ UNCHANGED cmds
  <2>0. <<>> \in Seq(Job) /\ <<>> \in Seq(Callback)
    OBVIOUS
  <2>1. TypeOK'
    BY <1>1, <1>3, <2>0 DEF TypeOK
  <2>2. OneAtATime'
    BY <1>2, <1>3 DEF OneAtATime, InFlight
  <2>3. SchedInv' /\ CmdInv'
    BY <1>3 DEF SchedInv, CmdInv, AllAnswered
  <2> QED
    BY <2>1, <2>2, <2>3 DEF QueueInv
<1>4. ASSUME NEW i \in DOMAIN p, busy' = TRUE, pending' = After(p, i),
             Proceed(Dropping(g, p, t), p[i].job, <<>>)
      PROVE  QueueInv'
  <2>0. p[i] \in Job
    OBVIOUS
  <2>1. p[i].job \in Jobs
    BY <2>0 DEF Job
  <2>2. After(p, i) \in Seq(Job)
    BY DEF After
  <2>3. /\ task' \in [Jobs -> TaskRec] /\ cmds' \in [Cmds -> CmdRec]
        /\ sched' \in Seq(Callback) /\ InFlight' = {p[i].job}
        /\ SchedInv' /\ CmdInv'
    BY <1>1, <1>2, <1>4, <2>1, ProceedInv
  <2>4. TypeOK'
    BY <1>4, <2>2, <2>3 DEF TypeOK
  <2>5. OneAtATime'
    BY <1>4, <2>1, <2>3 DEF OneAtATime
  <2> QED
    BY <2>3, <2>4, <2>5 DEF QueueInv
<1> QED
  BY <1>3, <1>4 DEF Drain

LEMMA ShortSequence ==
  ASSUME NEW S, NEW s \in Seq(S), Len(s) <= 1
  PROVE  \/ s = <<>> /\ DOMAIN s = {}
         \/ /\ Len(s) = 1 /\ DOMAIN s = {1}
            /\ s[1] \in S /\ Head(s) = s[1] /\ Tail(s) = <<>>
<1>1. Len(s) \in Nat /\ DOMAIN s = 1..Len(s)
  OBVIOUS
<1>2. Len(s) = 0 \/ Len(s) = 1
  BY <1>1
<1>3. CASE Len(s) = 0
  BY <1>1, <1>3
<1>4. CASE Len(s) = 1
  <2>1. DOMAIN s = {1}
    BY <1>1, <1>4
  <2>2. s[1] \in S /\ Head(s) = s[1]
    BY <1>4, <2>1
  <2>3. Len(Tail(s)) = 0 /\ Tail(s) \in Seq(S)
    BY <1>4
  <2>4. Tail(s) = <<>>
    BY <2>3
  <2> QED
    BY <1>4, <2>1, <2>2, <2>4
<1> QED
  BY <1>2, <1>3, <1>4

\* What the invariant says of an idle queue, and of one with a function to run.
LEMMA IdleFacts ==
  ASSUME QueueInv, ~busy
  PROVE  AllAnswered /\ sched = <<>> /\ InFlight = {}
<1>1. InFlight = {}
  BY DEF QueueInv, OneAtATime
<1>2. \A j \in Jobs : task[j].st \notin {"running", "returned"}
  BY <1>1 DEF InFlight
<1>3. AllAnswered
  BY <1>2 DEF QueueInv, CmdInv, AllAnswered
<1>4. sched \in Seq(Callback)
  BY DEF QueueInv, TypeOK
<1>5. \A i \in DOMAIN sched : sched[i].job \in Jobs
  <2>1. \A i \in DOMAIN sched : sched[i] \in Callback
    BY <1>4
  <2> QED
    BY <2>1 DEF Callback
<1>6. DOMAIN sched = {}
  BY <1>2, <1>5 DEF QueueInv, SchedInv
<1>7. sched = <<>>
  BY <1>4, <1>6
<1> QED
  BY <1>1, <1>3, <1>7

LEMMA ScheduledFacts ==
  ASSUME QueueInv, sched # <<>>
  PROVE  /\ AllAnswered
         /\ Tail(sched) = <<>>
         /\ Head(sched).job \in Jobs
         /\ InFlight = {Head(sched).job}
<1>1. /\ sched \in Seq(Callback) /\ Len(sched) = 1 /\ DOMAIN sched = {1}
      /\ Head(sched) = sched[1] /\ Tail(sched) = <<>>
      /\ Head(sched) \in Callback
  <2>1. sched \in Seq(Callback) /\ Len(sched) <= 1
    BY DEF QueueInv, TypeOK, SchedInv
  <2> QED
    BY <2>1, ShortSequence
<1>2. Head(sched).job \in Jobs
  BY <1>1 DEF Callback
<1> DEFINE j == Head(sched).job
<1>3. \/ /\ Head(sched).k = "resume" /\ task[j].st = "running"
         /\ task[j].awaits = Head(sched).cmd /\ Head(sched).cmd \in Cmds
         /\ cmds[Head(sched).cmd].settled
      \/ task[j].st = "returned"
  BY <1>1 DEF QueueInv, SchedInv
<1>4. j \in InFlight
  BY <1>2, <1>3 DEF InFlight
<1>5. InFlight = {j}
  BY <1>4 DEF QueueInv, OneAtATime
<1>6. \A k \in Jobs : task[k].st = "running" => k = j
  BY <1>5 DEF InFlight
<1> HIDE DEF j
<1>7. ASSUME NEW x \in Cmds, cmds[x].st # "none", ~cmds[x].settled
      PROVE  FALSE
  <2>1. /\ cmds[x].job \in Jobs /\ task[cmds[x].job].st = "running"
        /\ task[cmds[x].job].awaits = x
    BY <1>7 DEF QueueInv, CmdInv
  <2>2. cmds[x].job = j
    BY <1>6, <2>1
  <2> QED
    BY <1>3, <1>7, <2>1, <2>2
<1>8. AllAnswered
  BY <1>7 DEF AllAnswered, QueueInv, CmdInv
<1> QED
  BY <1>1, <1>2, <1>5, <1>8 DEF j

\* The exit of a command, or its guard, resumes its task once.
LEMMA AnswerInv ==
  ASSUME QueueInv, NEW x \in Cmds, cmds[x].st # "none",
         cmds' \in [Cmds -> CmdRec],
         \A y \in Cmds : y # x => cmds'[y] = cmds[y],
         cmds'[x].settled = TRUE, cmds'[x].guard = FALSE,
         ResumeOnce(x), UNCHANGED <<generation, busy, pending, task, delivered>>
  PROVE  QueueInv'
<1>0. /\ cmds \in [Cmds -> CmdRec] /\ task \in [Jobs -> TaskRec]
      /\ sched \in Seq(Callback)
  BY DEF QueueInv, TypeOK
<1>1. cmds' \in [Cmds -> CmdRec]
  OBVIOUS
<1>2. /\ \A y \in Cmds : y # x => cmds'[y] = cmds[y]
      /\ cmds'[x].settled = TRUE /\ cmds'[x].guard = FALSE
      /\ task' = task
  OBVIOUS
<1>3. CmdInv'
  <2>1. CmdInv
    BY DEF QueueInv
  <2> QED
    BY <1>2, <2>1 DEF CmdInv
<1>4. OneAtATime'
  BY DEF QueueInv, OneAtATime, InFlight
<1>5. CASE cmds[x].settled
  <2>1. sched' = sched
    BY <1>5 DEF ResumeOnce
  <2>2. SchedInv'
    <3>1. SchedInv /\ \A y \in Cmds : cmds[y].settled => cmds'[y].settled
      BY <1>2 DEF QueueInv
    <3> QED
      BY <1>2, <2>1, <3>1 DEF SchedInv
  <2>3. TypeOK'
    BY <1>1, <2>1 DEF QueueInv, TypeOK
  <2> QED
    BY <1>3, <1>4, <2>2, <2>3 DEF QueueInv
<1>6. CASE ~cmds[x].settled
  <2> DEFINE j == cmds[x].job
  <2>1. j \in Jobs /\ task[j].st = "running" /\ task[j].awaits = x
    BY <1>6 DEF QueueInv, CmdInv
  <2>2. sched = <<>>
    BY <1>6, ScheduledFacts DEF AllAnswered
  <2>3. Resume(j, x) \in Callback
    BY <2>1 DEF Resume, Callback
  <2> HIDE DEF j
  <2>4. /\ sched' = <<Resume(j, x)>> /\ sched' \in Seq(Callback)
        /\ Len(sched') = 1 /\ DOMAIN sched' = {1}
        /\ sched'[1] = Resume(j, x)
    BY <1>6, <2>2, <2>3 DEF ResumeOnce, j
  <2>5. SchedInv'
    <3>1. /\ Resume(j, x).k = "resume" /\ Resume(j, x).job = j
          /\ Resume(j, x).cmd = x
      BY DEF Resume
    <3>2. task'[j].st = "running" /\ task'[j].awaits = x
      BY <1>2, <2>1
    <3> QED
      BY <1>2, <2>4, <3>1, <3>2 DEF SchedInv
  <2>6. TypeOK'
    BY <1>1, <2>4 DEF QueueInv, TypeOK
  <2> QED
    BY <1>3, <1>4, <2>5, <2>6 DEF QueueInv
<1> QED
  BY <1>5, <1>6

LEMMA QueueStep == QueueInv /\ [Next]_vars => QueueInv'
<1> SUFFICES ASSUME QueueInv, [Next]_vars PROVE QueueInv'
  OBVIOUS
<1>0. /\ TypeOK /\ task \in [Jobs -> TaskRec] /\ pending \in Seq(Job)
      /\ cmds \in [Cmds -> CmdRec] /\ generation \in Nat
      /\ delivered \in Seq(Jobs)
  BY DEF QueueInv, TypeOK
<1>1. ASSUME NEW j \in Jobs, Submit(j) PROVE QueueInv'
  <2>1. /\ Inserted(pending, j) \in Seq(Job)
        /\ Queued(task, j) \in [Jobs -> TaskRec]
    BY <1>0, InsertedType
  <2>2. /\ Queued(task, j)[j].st = "queued" /\ task[j].st = "new"
        /\ \A k \in Jobs : k # j => Queued(task, j)[k] = task[k]
    BY <1>0, <1>1 DEF Queued, Submit, TaskRec
  <2>3. CASE busy
    <3>1. /\ pending' = Inserted(pending, j) /\ task' = Queued(task, j)
          /\ UNCHANGED <<generation, delivered, busy, cmds, sched>>
      BY <1>1, <2>3 DEF Submit, SubmitDrain
    <3>2. InFlight' = InFlight
      BY <2>2, <3>1 DEF InFlight
    <3>3. OneAtATime'
      BY <2>3, <3>1, <3>2 DEF QueueInv, OneAtATime
    <3>4. SchedInv'
      <4>0. SchedInv /\ \A i \in DOMAIN sched : sched[i] \in Callback
        BY DEF QueueInv, TypeOK
      <4>1. SchedInv /\ \A i \in DOMAIN sched : sched[i].job \in Jobs
        BY <4>0 DEF Callback
      <4>2. \A i \in DOMAIN sched : sched[i].job # j
        BY <2>2, <4>1 DEF SchedInv
      <4> QED
        BY <2>2, <3>1, <4>1, <4>2 DEF SchedInv
    <3>5. CmdInv'
      BY <2>2, <3>1 DEF QueueInv, CmdInv
    <3>6. TypeOK'
      BY <2>1, <3>1 DEF QueueInv, TypeOK
    <3> QED
      BY <3>3, <3>4, <3>5, <3>6 DEF QueueInv
  <2>4. CASE ~busy
    <3>1. AllAnswered /\ sched = <<>> /\ InFlight = {}
      BY <2>4, IdleFacts
    <3>2. \A k \in Jobs : Queued(task, j)[k].st \notin {"running", "returned"}
      BY <2>2, <3>1 DEF InFlight
    <3>3. /\ Drain(generation, Inserted(pending, j), Queued(task, j), <<>>)
          /\ generation' \in Nat /\ delivered' \in Seq(Jobs)
      BY <1>0, <1>1, <2>4, <3>1 DEF Submit, SubmitDrain
    <3> QED
      BY <1>0, <2>1, <3>1, <3>2, <3>3, DrainInv
  <2> QED
    BY <2>3, <2>4
<1>2. ASSUME Supersede PROVE QueueInv'
  BY <1>0, <1>2
  DEF Supersede, QueueInv, TypeOK, OneAtATime, InFlight, SchedInv, CmdInv
<1>3. ASSUME NEW x \in Cmds, OnExit(x) PROVE QueueInv'
  <2>1. cmds' \in [Cmds -> CmdRec]
    BY <1>0, <1>3, ZenonT(40) DEF OnExit, CmdRec
  <2>2. /\ \A y \in Cmds : y # x => cmds'[y] = cmds[y]
        /\ cmds'[x].settled = TRUE /\ cmds'[x].guard = FALSE
    BY <1>0, <1>3 DEF OnExit, CmdRec
  <2>3. /\ cmds[x].st # "none" /\ ResumeOnce(x)
        /\ UNCHANGED <<generation, busy, pending, task, delivered>>
    BY <1>3 DEF OnExit
  <2> QED
    BY <2>1, <2>2, <2>3, AnswerInv
<1>4. ASSUME NEW x \in Cmds, GuardFire(x) PROVE QueueInv'
  <2>1. cmds[x].st = "up"
    BY <1>4 DEF GuardFire, QueueInv, CmdInv
  <2>2. cmds' \in [Cmds -> CmdRec]
    BY <1>0, <1>4 DEF GuardFire, CmdRec
  <2>3. /\ \A y \in Cmds : y # x => cmds'[y] = cmds[y]
        /\ cmds'[x].settled = TRUE /\ cmds'[x].guard = FALSE
    BY <1>0, <1>4 DEF GuardFire, CmdRec
  <2>4. /\ ResumeOnce(x)
        /\ UNCHANGED <<generation, busy, pending, task, delivered>>
    BY <1>4 DEF GuardFire
  <2> QED
    BY <2>1, <2>2, <2>3, <2>4, AnswerInv
<1>5. ASSUME RunScheduled PROVE QueueInv'
  <2> DEFINE cb == Head(sched)
             j == cb.job
  <2>1. AllAnswered /\ Tail(sched) = <<>> /\ j \in Jobs /\ InFlight = {j}
    BY <1>5, ScheduledFacts DEF RunScheduled
  <2> HIDE DEF cb
  <2>2. CASE RunResume(cb)
    <3>1. /\ Proceed(task, j, <<>>)
          /\ UNCHANGED <<generation, busy, pending, delivered>>
      BY <2>1, <2>2 DEF RunResume
    <3>2. \A k \in Jobs : k # j => task[k].st \notin {"running", "returned"}
      BY <2>1 DEF InFlight
    <3>3. /\ task' \in [Jobs -> TaskRec] /\ cmds' \in [Cmds -> CmdRec]
          /\ sched' \in Seq(Callback) /\ InFlight' = {j}
          /\ SchedInv' /\ CmdInv'
      BY <1>0, <2>1, <3>1, <3>2, ProceedInv
    <3>4. OneAtATime'
      BY <2>1, <3>1, <3>3 DEF QueueInv, OneAtATime
    <3>5. TypeOK'
      BY <3>1, <3>3 DEF QueueInv, TypeOK
    <3> QED
      BY <3>3, <3>4, <3>5 DEF QueueInv
  <2>3. CASE RunDone(cb)
    <3> DEFINE t == [task EXCEPT ![j].st = "over"]
    <3>1. /\ t \in [Jobs -> TaskRec]
          /\ \A k \in Jobs : t[k].st \notin {"running", "returned"}
      BY <1>0, <2>1 DEF InFlight, TaskRec
    <3> HIDE DEF t
    <3>2. ASSUME NEW k \in Jobs
          PROVE  /\ Inserted(pending, k) \in Seq(Job)
                 /\ Queued(t, k) \in [Jobs -> TaskRec]
                 /\ \A m \in Jobs :
                      Queued(t, k)[m].st \notin {"running", "returned"}
      <4>1. /\ Inserted(pending, k) \in Seq(Job)
            /\ Queued(t, k) \in [Jobs -> TaskRec]
        BY <1>0, <3>1, InsertedType
      <4> QED
        BY <3>1, <4>1 DEF Queued, TaskRec
    <3>3. generation' \in Nat /\ delivered' \in Seq(Jobs)
      <4>1. /\ generation' \in {generation, generation + 1}
            /\ delivered' \in {delivered, Append(delivered, j)}
        BY <2>3 DEF RunDone
      <4>2. Append(delivered, j) \in Seq(Jobs)
        BY <1>0, <2>1
      <4> QED
        BY <1>0, <4>1, <4>2
    <3>4. \/ Drain(generation, pending, t, <<>>)
          \/ \E k \in Jobs :
               Drain(generation, Inserted(pending, k), Queued(t, k), <<>>)
          \/ Drain(generation + 1, pending, t, <<>>)
      BY <2>1, <2>3 DEF RunDone, t
    <3>5. CASE Drain(generation, pending, t, <<>>)
      BY <1>0, <2>1, <3>1, <3>3, <3>5, DrainInv
    <3>6. ASSUME NEW k \in Jobs,
                 Drain(generation, Inserted(pending, k), Queued(t, k), <<>>)
          PROVE  QueueInv'
      BY <1>0, <2>1, <3>2, <3>3, <3>6, DrainInv
    <3>7. CASE Drain(generation + 1, pending, t, <<>>)
      BY <1>0, <2>1, <3>1, <3>3, <3>7, DrainInv
    <3> QED
      BY <3>4, <3>5, <3>6, <3>7
  <2> QED
    BY <1>5, <2>2, <2>3 DEF RunScheduled, cb
<1>6. CASE UNCHANGED vars
  BY <1>6
  DEF vars, QueueInv, TypeOK, OneAtATime, InFlight, SchedInv, CmdInv
<1> QED
  BY <1>1, <1>2, <1>3, <1>4, <1>5, <1>6 DEF Next

LEMMA QueueInit == Init => QueueInv
<1> SUFFICES ASSUME Init PROVE QueueInv
  OBVIOUS
<1>1. <<>> \in Seq(Job) /\ <<>> \in Seq(Callback) /\ <<>> \in Seq(Jobs)
  OBVIOUS
<1>2. TypeOK
  BY <1>1 DEF Init, TypeOK, TaskRec, CmdRec
<1>3. OneAtATime
  BY DEF Init, OneAtATime, InFlight
<1>4. SchedInv /\ CmdInv
  BY DEF Init, SchedInv, CmdInv
<1> QED
  BY <1>2, <1>3, <1>4 DEF QueueInv

\* The queue, its tasks and its commands are well typed whatever is submitted,
\* superseded or killed (submit, drain, run_yielding).
THEOREM QueueTyped == Spec => []TypeOK
<1>1. QueueInv => TypeOK
  BY DEF QueueInv
<1> QED
  BY <1>1, QueueInit, QueueStep, PTL DEF Spec

\* Tasks of one root never overlap and M.idle tells the truth (submit, drain,
\* idle), whatever is submitted or superseded, from outside or by an on_done.
THEOREM TasksOneAtATime == Spec => []OneAtATime
<1>1. QueueInv => OneAtATime
  BY DEF QueueInv
<1> QED
  BY <1>1, QueueInit, QueueStep, PTL DEF Spec

\* A yield is resumed by its own command and once (await, run_yielding), for
\* every order of exits and guard timers.
THEOREM YieldsGetTheirOwn == Spec => []OwnResult
<1>1. QueueInv => OwnResult
  <2> SUFFICES ASSUME QueueInv PROVE OwnResult
    OBVIOUS
  <2>1. DOMAIN sched \in {{}, {1}}
    <3>1. sched \in Seq(Callback) /\ Len(sched) <= 1
      BY DEF QueueInv, SchedInv, TypeOK
    <3> QED
      BY <3>1, ShortSequence
  <2> QED
    BY <2>1 DEF QueueInv, SchedInv, OwnResult
<1> QED
  BY <1>1, QueueInit, QueueStep, PTL DEF Spec
-----------------------------------------------------------------------------
(* The refinement of ResultLine.  The list keeps its current elements at its  *)
(* end, and each with the generation its task was submitted under, so that    *)
(* the elements drain skips are exactly those the line has forgotten.         *)

\* The elements of list p were submitted, under the generation of their task.
Agree(p, t, g) ==
  \A i \in DOMAIN p :
    /\ p[i].generation <= g
    /\ t[p[i].job].generation = p[i].generation
    /\ t[p[i].job].st # "new"

Placed(p, t, g) ==
  /\ \A j \in Jobs : t[j].generation <= g
  /\ Agree(p, t, g)
  /\ \E m \in 0..Len(p) : StaleUpTo(m, p, g)

\* The inductive invariant behind the refinement.
PlacedInv == QueueInv /\ Placed(pending, task, generation)

LEMMA JobsAfterSeq ==
  ASSUME NEW p \in Seq(Job), NEW m \in 0..Len(p)
  PROVE  /\ JobsAfter(p, m) \in Seq(Jobs)
         /\ Len(JobsAfter(p, m)) = Len(p) - m
         /\ \A i \in 1..(Len(p) - m) : JobsAfter(p, m)[i] = p[m + i].job
<1>0. Len(p) \in Nat /\ Len(p) - m \in Nat /\ DOMAIN p = 1..Len(p)
  OBVIOUS
<1>1. \A i \in 1..(Len(p) - m) : p[m + i] \in Job
  BY <1>0
<1>2. \A i \in 1..(Len(p) - m) : p[m + i].job \in Jobs
  BY <1>1 DEF Job
<1>3. JobsAfter(p, m) \in [1..(Len(p) - m) -> Jobs]
  BY <1>2 DEF JobsAfter
<1>4. JobsAfter(p, m) \in Seq(Jobs)
  BY <1>0, <1>3
<1>5. DOMAIN JobsAfter(p, m) = 1..(Len(p) - m)
  BY DEF JobsAfter
<1>6. Len(JobsAfter(p, m)) = Len(p) - m
  <2> DEFINE l == Len(JobsAfter(p, m))
             d == Len(p) - m
  <2>1. l \in Nat /\ d \in Nat /\ 1..l = 1..d
    <3>1. l \in Nat /\ DOMAIN JobsAfter(p, m) = 1..l
      BY <1>4, LenProperties
    <3> QED
      BY <1>0, <1>5, <3>1
  <2> HIDE DEF l, d
  <2>2. (l > d => l \in 1..l) /\ (d > l => d \in 1..d)
    BY <2>1
  <2>3. ~(l > d) /\ ~(d > l)
    BY <2>1, <2>2
  <2> QED
    BY <2>1, <2>3 DEF l, d
<1> QED
  BY <1>4, <1>6 DEF JobsAfter

\* A list has one place at which its current elements begin.
LEMMA StaleOnce ==
  ASSUME NEW p \in Seq(Job), NEW g, NEW m \in 0..Len(p), StaleUpTo(m, p, g)
  PROVE  (CHOOSE k \in 0..Len(p) : StaleUpTo(k, p, g)) = m
<1>1. ASSUME NEW k \in 0..Len(p), StaleUpTo(k, p, g) PROVE k = m
  <2>0. Len(p) \in Nat /\ DOMAIN p = 1..Len(p)
    OBVIOUS
  <2>1. CASE k < m
    <3>1. m \in DOMAIN p /\ m > k /\ ~(m > m)
      BY <2>0, <2>1
    <3> QED
      BY <1>1, <3>1 DEF StaleUpTo
  <2>2. CASE m < k
    <3>1. k \in DOMAIN p /\ k > m /\ ~(k > k)
      BY <2>0, <2>2
    <3> QED
      BY <1>1, <3>1 DEF StaleUpTo
  <2> QED
    BY <2>0, <2>1, <2>2
<1> QED
  BY <1>1

\* The front of the line is the task in flight, unless it was superseded.
LEMMA FrontIs ==
  ASSUME NEW j \in Jobs
  PROVE  /\ InFlight = {j} =>
              Front = IF task[j].generation = generation THEN <<j>> ELSE <<>>
         /\ InFlight = {} => Front = <<>>
         /\ InFlight' = {j} =>
              Front' = IF task'[j].generation = generation' THEN <<j>> ELSE <<>>
         /\ InFlight' = {} => Front' = <<>>
<1>1. ASSUME InFlight = {j}
      PROVE  Front = IF task[j].generation = generation THEN <<j>> ELSE <<>>
  <2>1. \A k \in Jobs : Owed(k) <=> k = j /\ task[j].generation = generation
    BY <1>1 DEF Owed, Stale
  <2> QED
    BY <2>1 DEF Front
<1>2. ASSUME InFlight' = {j}
      PROVE  Front' = IF task'[j].generation = generation' THEN <<j>> ELSE <<>>
  <2>1. \A k \in Jobs : Owed(k)' <=> k = j /\ task'[j].generation = generation'
    BY <1>2 DEF Owed, Stale
  <2> QED
    BY <2>1 DEF Front
<1>3. InFlight = {} => Front = <<>>
  BY DEF Front, Owed
<1>4. InFlight' = {} => Front' = <<>>
  BY DEF Front, Owed
<1> QED
  BY <1>1, <1>2, <1>3, <1>4

\* An insertion makes the line one longer.
LEMMA InsertedLine ==
  ASSUME NEW p \in Seq(Job), NEW t \in [Jobs -> TaskRec], generation \in Nat,
         NEW m \in 0..Len(p), StaleUpTo(m, p, generation), Agree(p, t, generation),
         \A k \in Jobs : t[k].generation <= generation,
         NEW j \in Jobs, t[j].st = "new", Inserted(p, j) \in Seq(Job)
  PROVE  /\ m \in 0..Len(Inserted(p, j))
         /\ StaleUpTo(m, Inserted(p, j), generation)
         /\ Agree(Inserted(p, j), Queued(t, j), generation)
         /\ \A k \in Jobs : Queued(t, j)[k].generation <= generation
         /\ JobsAfter(Inserted(p, j), m) = Append(JobsAfter(p, m), j)
<1> DEFINE e == [job |-> j, generation |-> generation]
           q == Inserted(p, j)
           u == Queued(t, j)
           n == Len(p)
<1>0. /\ n \in Nat /\ DOMAIN p = 1..n /\ \A i \in 1..n : p[i].job \in Jobs
      /\ e.job = j /\ e.generation = generation
  <2>1. n \in Nat /\ DOMAIN p = 1..n /\ \A i \in 1..n : p[i] \in Job
    OBVIOUS
  <2> QED
    BY <2>1 DEF Job
<1>1. /\ Len(q) = n + 1 /\ DOMAIN q = 1..(n + 1) /\ q[n + 1] = e
      /\ \A i \in 1..n : q[i] = p[i]
  BY DEF Inserted
<1>2. /\ \A k \in Jobs : k # j => u[k] = t[k]
      /\ u[j].st = "queued" /\ u[j].generation = generation
  BY DEF Queued, TaskRec
<1> HIDE DEF e, q, u, n
<1>3. m \in 0..Len(q) /\ StaleUpTo(m, q, generation)
  <2>1. m \in 0..n
    BY DEF n
  <2>2. ASSUME NEW i \in DOMAIN q PROVE q[i].generation = generation <=> i > m
    <3>1. CASE i = n + 1
      BY <1>0, <1>1, <2>1, <3>1
    <3>2. CASE i # n + 1
      <4>1. i \in 1..n
        BY <1>0, <1>1, <3>2
      <4> QED
        BY <1>0, <1>1, <4>1 DEF StaleUpTo
    <3> QED
      BY <3>1, <3>2
  <2> QED
    BY <1>0, <1>1, <2>1, <2>2 DEF StaleUpTo
<1>4. Agree(q, u, generation)
  <2>1. ASSUME NEW i \in 1..n
        PROVE  /\ q[i].generation <= generation
               /\ u[q[i].job].generation = q[i].generation
               /\ u[q[i].job].st # "new"
    BY <1>0, <1>1, <1>2, SMTT(40) DEF Agree
  <2>2. /\ q[n + 1].generation <= generation
        /\ u[q[n + 1].job].generation = q[n + 1].generation
        /\ u[q[n + 1].job].st # "new"
    BY <1>0, <1>1, <1>2
  <2>3. \A i \in DOMAIN q : i \in 1..n \/ i = n + 1
    BY <1>0, <1>1
  <2> QED
    BY <2>1, <2>2, <2>3 DEF Agree
<1>5. \A k \in Jobs : u[k].generation <= generation
  BY <1>2
<1>6. JobsAfter(q, m) = Append(JobsAfter(p, m), j)
  <2> DEFINE a == JobsAfter(q, m)
             b == JobsAfter(p, m)
  <2>q. q \in Seq(Job)
    BY DEF q
  <2>1. /\ a \in Seq(Jobs) /\ Len(a) = n + 1 - m
        /\ \A i \in 1..(n + 1 - m) : a[i] = q[m + i].job
    <3>1. /\ a \in Seq(Jobs) /\ Len(a) = Len(q) - m
          /\ \A i \in 1..(Len(q) - m) : a[i] = q[m + i].job
      BY <1>3, <2>q, JobsAfterSeq
    <3>2. Len(q) - m = n + 1 - m
      BY <1>0, <1>1
    <3> QED
      BY <3>1, <3>2
  <2>2. /\ b \in Seq(Jobs) /\ Len(b) = n - m
        /\ \A i \in 1..(n - m) : b[i] = p[m + i].job
    BY JobsAfterSeq DEF n
  <2>m. m \in Nat /\ m <= n
    BY <1>0 DEF n
  <2> HIDE DEF a, b
  <2>3. /\ Append(b, j) \in Seq(Jobs) /\ Len(Append(b, j)) = n - m + 1
        /\ Append(b, j)[n - m + 1] = j
        /\ \A i \in 1..(n - m) : Append(b, j)[i] = b[i]
    <3>1. /\ Append(b, j) \in Seq(Jobs) /\ Len(Append(b, j)) = Len(b) + 1
          /\ Append(b, j)[Len(b) + 1] = j
          /\ \A i \in 1..Len(b) : Append(b, j)[i] = b[i]
      BY <2>2
    <3> QED
      BY <2>2, <3>1
  <2>4. ASSUME NEW i \in 1..Len(a) PROVE a[i] = Append(b, j)[i]
    <3>1. CASE i = n - m + 1
      <4>1. m + i = n + 1 /\ i \in 1..(n + 1 - m)
        BY <1>0, <2>m, <3>1
      <4> QED
        BY <1>0, <1>1, <2>1, <2>3, <3>1, <4>1
    <3>2. CASE i # n - m + 1
      <4>1. i \in 1..(n - m) /\ i \in 1..(n + 1 - m) /\ m + i \in 1..n
        BY <1>0, <2>1, <2>m, <3>2
      <4> QED
        BY <1>1, <2>1, <2>2, <2>3, <4>1
    <3> QED
      BY <3>1, <3>2
  <2>5. Len(a) = Len(Append(b, j))
    BY <1>0, <2>1, <2>3, <2>m
  <2>6. a = Append(b, j)
    BY <2>1, <2>3, <2>4, <2>5, SeqEqual
  <2> QED
    BY <2>6 DEF a, b
<1> QED
  BY <1>3, <1>4, <1>5, <1>6 DEF q, u

\* Neither a coroutine nor a drop changes what a task was submitted under.
LEMMA ProceedKeeps ==
  ASSUME NEW t \in [Jobs -> TaskRec], NEW j \in Jobs, NEW s, Proceed(t, j, s)
  PROVE  \A k \in Jobs : /\ task'[k].generation = t[k].generation
                         /\ t[k].st # "new" => task'[k].st # "new"
<1>1. ASSUME NEW x, task' = [t EXCEPT ![j].st = "running", ![j].awaits = x]
      PROVE  \A k \in Jobs : /\ task'[k].generation = t[k].generation
                             /\ t[k].st # "new" => task'[k].st # "new"
  BY <1>1 DEF TaskRec
<1>2. CASE task' = [t EXCEPT ![j].st = "returned", ![j].awaits = 0]
  BY <1>2 DEF TaskRec
<1> QED
  BY <1>1, <1>2 DEF Proceed, RunGit, RunNothing, Return

LEMMA DroppingKeeps ==
  ASSUME NEW g, NEW p \in Seq(Job), NEW t \in [Jobs -> TaskRec]
  PROVE  \A k \in Jobs : /\ Dropping(g, p, t)[k].generation = t[k].generation
                         /\ t[k].st # "new" => Dropping(g, p, t)[k].st # "new"
BY DEF Dropping, TaskRec
\* drain, called with no task in flight, puts the first current element in
\* flight: the line stays as it was.
LEMMA DrainLine ==
  ASSUME TypeOK, AllAnswered, NEW g \in Nat, NEW p \in Seq(Job),
         NEW t \in [Jobs -> TaskRec],
         \A k \in Jobs : t[k].st \notin {"running", "returned"},
         NEW m \in 0..Len(p), StaleUpTo(m, p, g), Agree(p, t, g),
         \A k \in Jobs : t[k].generation <= g,
         Drain(g, p, t, <<>>), generation' = g
  PROVE  /\ Front' \o Behind' = JobsAfter(p, m)
         /\ Placed(pending', task', g)
<1> DEFINE n == Len(p)
           u == Dropping(g, p, t)
<1>0. n \in Nat /\ DOMAIN p = 1..n /\ m \in Nat /\ m <= n /\ \A i \in 1..n : p[i] \in Job
  OBVIOUS
<1>j. \A i \in 1..n : p[i].job \in Jobs
  BY <1>0 DEF Job
<1>1. /\ u \in [Jobs -> TaskRec]
      /\ \A k \in Jobs : u[k].st \notin {"running", "returned"}
      /\ \A k \in Jobs : /\ u[k].generation = t[k].generation
                         /\ t[k].st # "new" => u[k].st # "new"
  <2>1. u \in [Jobs -> TaskRec]
    BY DroppingType
  <2>2. \A k \in Jobs : u[k].st \notin {"running", "returned"}
    BY DEF Dropping, TaskRec
  <2> QED
    BY <2>1, <2>2, DroppingKeeps
<1>2. CASE Startable(p, g) = {} /\ pending' = <<>> /\ task' = u
  <2>1. m = n
    <3> HIDE DEF n
    <3>1. ASSUME m < n PROVE FALSE
      <4>1. m + 1 \in DOMAIN p /\ m + 1 > m
        BY <1>0, <3>1
      <4>2. m + 1 \in Startable(p, g)
        BY <4>1 DEF StaleUpTo, Startable
      <4> QED
        BY <1>2, <4>2
    <3> QED
      BY <1>0, <3>1
  <2>2. JobsAfter(p, m) = <<>>
    <3>1. JobsAfter(p, m) \in Seq(Jobs) /\ Len(JobsAfter(p, m)) = 0
      BY <1>0, <2>1, JobsAfterSeq
    <3> QED
      BY <3>1
  <2>3. /\ <<>> \in Seq(Job) /\ Len(<<>>) = 0 /\ 0 \in 0..Len(<<>>)
        /\ StaleUpTo(0, <<>>, g)
    BY DEF StaleUpTo
  <2>4. JobsAfter(<<>>, 0) = <<>>
    <3>1. JobsAfter(<<>>, 0) \in Seq(Jobs) /\ Len(JobsAfter(<<>>, 0)) = 0 - 0
      BY <2>3, JobsAfterSeq, ZenonT(40)
    <3> QED
      BY <3>1
  <2>5. Behind' = <<>>
    <3>1. (CHOOSE k \in 0..Len(<<>>) : StaleUpTo(k, <<>>, g)) = 0
      BY <2>3, StaleOnce
    <3>2. Behind' = JobsAfter(<<>>, CHOOSE k \in 0..Len(<<>>) : StaleUpTo(k, <<>>, g))
      BY <1>2 DEF Behind
    <3> QED
      BY <2>4, <3>1, <3>2
  <2>6. Front' = <<>>
    <3>1. \A k \in Jobs : ~Owed(k)'
      BY <1>1, <1>2 DEF Owed, InFlight
    <3> QED
      BY <3>1 DEF Front
  <2>7. Placed(pending', task', g)
    BY <1>1, <1>2, <2>3 DEF Placed, Agree
  <2> QED
    BY <2>2, <2>5, <2>6, <2>7
<1>3. ASSUME NEW i \in DOMAIN p, IsNext(i, p, g), pending' = After(p, i),
             Proceed(u, p[i].job, <<>>)
      PROVE  /\ Front' \o Behind' = JobsAfter(p, m)
             /\ Placed(pending', task', g)
  <2> DEFINE j == p[i].job
             q == After(p, i)
             l == n - i
  <2>1. i = m + 1 /\ p[i].generation = g /\ i \in 1..n
    <3>1. i \in 1..n /\ p[i].generation = g /\ i > m
      BY <1>0, <1>3 DEF IsNext, Startable, StaleUpTo
    <3>2. m + 1 \in DOMAIN p /\ m + 1 > m
      BY <1>0, <3>1
    <3>3. m + 1 \in Startable(p, g)
      BY <3>2 DEF Startable, StaleUpTo
    <3>4. i <= m + 1
      BY <1>3, <3>3 DEF IsNext
    <3> QED
      BY <1>0, <3>1, <3>4
  <2>2. l \in Nat /\ q \in Seq(Job) /\ Len(q) = l /\ \A k \in 1..l : q[k] = p[i + k]
    <3>1. l \in Nat
      BY <1>0, <2>1
    <3>2. i + 1 \in Int /\ n \in Int /\ \A k \in (i + 1)..n : p[k] \in Job
      BY <1>0, <2>1
    <3> HIDE DEF n
    <3>3. /\ q \in Seq(Job) /\ Len(q) = IF i + 1 <= n THEN n - (i + 1) + 1 ELSE 0
          /\ \A k \in 1..Len(q) : q[k] = p[i + 1 + k - 1]
      BY <3>2, SubSeqProperties DEF After, n
    <3>4. Len(q) = l
      <4>1. n \in Nat /\ i \in 1..n /\ Len(q) = IF i + 1 <= n THEN n - (i + 1) + 1 ELSE 0
        BY <1>0, <2>1, <3>3
      <4> HIDE DEF q
      <4> QED
        BY <4>1
    <3>5. ASSUME NEW k \in 1..l PROVE q[k] = p[i + k]
      <4>1. k \in 1..Len(q) /\ i + 1 + k - 1 = i + k
        BY <1>0, <2>1, <3>1, <3>4
      <4> QED
        BY <3>3, <4>1
    <3> QED
      BY <3>1, <3>3, <3>4, <3>5
  <2>j. j \in Jobs /\ t[j].generation = g
    BY <1>j, <2>1 DEF Agree
  <2>3. InFlight' = {j}
    BY <1>1, <1>3, <2>j, ProceedInv
  <2>4. \A k \in Jobs : /\ task'[k].generation = t[k].generation
                        /\ t[k].st # "new" => task'[k].st # "new"
    BY <1>1, <1>3, <2>j, ProceedKeeps
  <2>5. Front' = <<j>>
    BY <2>3, <2>4, <2>j, FrontIs
  <2> HIDE DEF q, j, l
  <2>6. /\ 0 \in 0..Len(q) /\ StaleUpTo(0, q, g) /\ Agree(q, task', g)
    <3>0. DOMAIN q = 1..l /\ 0 \in 0..Len(q)
      BY <2>2
    <3>1. ASSUME NEW k \in 1..l
          PROVE  /\ q[k].generation = g
                 /\ q[k].job \in Jobs
                 /\ q[k].generation <= g
                 /\ task'[q[k].job].generation = q[k].generation
                 /\ task'[q[k].job].st # "new"
      <4>1. i + k \in DOMAIN p /\ i + k > m /\ q[k] = p[i + k] /\ i + k \in 1..n
        BY <1>0, <2>1, <2>2, <3>1 DEF l
      <4>2. q[k].generation = g /\ q[k].job \in Jobs
        BY <1>j, <4>1 DEF StaleUpTo
      <4>3. t[q[k].job].generation = q[k].generation /\ t[q[k].job].st # "new"
        BY <4>1 DEF Agree
      <4> QED
        BY <2>4, <4>2, <4>3
    <3>2. StaleUpTo(0, q, g)
      BY <2>2, <3>0, <3>1 DEF StaleUpTo
    <3> QED
      BY <3>0, <3>1, <3>2 DEF Agree
  <2>7. Behind' = JobsAfter(q, 0)
    <3>1. (CHOOSE k \in 0..Len(q) : StaleUpTo(k, q, g)) = 0
      BY <2>2, <2>6, StaleOnce
    <3>2. Behind' = JobsAfter(q, CHOOSE k \in 0..Len(q) : StaleUpTo(k, q, g))
      BY <1>3 DEF Behind, q
    <3> QED
      BY <3>1, <3>2
  <2>8. <<j>> \o JobsAfter(q, 0) = JobsAfter(p, m)
    <3> DEFINE a == JobsAfter(p, m)
               b == JobsAfter(q, 0)
    <3>1. /\ a \in Seq(Jobs) /\ Len(a) = n - m
          /\ \A k \in 1..(n - m) : a[k] = p[m + k].job
      BY JobsAfterSeq
    <3>2. /\ b \in Seq(Jobs) /\ Len(b) = l /\ \A k \in 1..l : b[k] = q[k].job
      <4>1. /\ b \in Seq(Jobs) /\ Len(b) = Len(q) - 0
            /\ \A k \in 1..(Len(q) - 0) : b[k] = q[0 + k].job
        BY <2>2, <2>6, JobsAfterSeq
      <4>2. Len(q) - 0 = l /\ \A k \in 1..l : 0 + k = k
        BY <2>2
      <4> QED
        BY <4>1, <4>2
    <3> HIDE DEF a, b
    <3>3. /\ <<j>> \o b \in Seq(Jobs) /\ Len(<<j>> \o b) = 1 + Len(b)
          /\ (<<j>> \o b)[1] = j
          /\ \A k \in 2..(1 + Len(b)) : (<<j>> \o b)[k] = b[k - 1]
      BY <2>j, <3>2
    <3>4. n - m = 1 + l
      BY <1>0, <2>1 DEF l
    <3>5. Len(a) = Len(<<j>> \o b)
      BY <3>1, <3>2, <3>3, <3>4
    <3>6. ASSUME NEW k \in 1..Len(a) PROVE a[k] = (<<j>> \o b)[k]
      <4>1. CASE k = 1
        BY <1>0, <2>1, <2>2, <3>1, <3>3, <3>4, <4>1 DEF j
      <4>2. CASE k # 1
        <5>1. k \in 2..(1 + Len(b)) /\ k - 1 \in 1..l /\ k \in 1..(n - m)
          BY <2>2, <3>1, <3>2, <3>4, <4>2
        <5>2. i + (k - 1) = m + k
          BY <1>0, <2>1, <5>1
        <5>3. b[k - 1] = p[m + k].job
          BY <2>2, <3>2, <5>1, <5>2
        <5> QED
          BY <3>1, <3>3, <5>1, <5>3
      <4> QED
        BY <4>1, <4>2
    <3>7. a = <<j>> \o b
      BY <3>1, <3>3, <3>5, <3>6, SeqEqual
    <3> QED
      BY <3>7 DEF a, b
  <2>9. Placed(pending', task', g)
    BY <1>3, <2>4, <2>6 DEF Placed, q
  <2> QED
    BY <2>5, <2>7, <2>8, <2>9
<1> QED
  BY <1>2, <1>3 DEF Drain
\* What the invariant says of the line: its part behind the task in flight.
LEMMA LineFacts ==
  ASSUME PlacedInv
  PROVE  \E m \in 0..Len(pending) :
           /\ StaleUpTo(m, pending, generation)
           /\ Behind = JobsAfter(pending, m)
           /\ Behind \in Seq(Jobs)
<1>1. pending \in Seq(Job)
  BY DEF PlacedInv, QueueInv, TypeOK
<1>2. PICK m \in 0..Len(pending) : StaleUpTo(m, pending, generation)
  BY DEF PlacedInv, Placed
<1>3. Behind = JobsAfter(pending, m)
  BY <1>1, <1>2, StaleOnce DEF Behind
<1> QED
  BY <1>1, <1>2, <1>3, JobsAfterSeq

\* Supersede, and a drain under the next generation, find every element stale.
LEMMA AllStale ==
  ASSUME PlacedInv, NEW t \in [Jobs -> TaskRec],
         \A k \in Jobs : /\ t[k].generation = task[k].generation
                         /\ task[k].st # "new" => t[k].st # "new"
  PROVE  /\ Len(pending) \in 0..Len(pending)
         /\ StaleUpTo(Len(pending), pending, generation + 1)
         /\ Agree(pending, t, generation + 1)
         /\ \A k \in Jobs : t[k].generation < generation + 1
                            /\ t[k].generation <= generation + 1
         /\ JobsAfter(pending, Len(pending)) = <<>>
<1>0. /\ pending \in Seq(Job) /\ generation \in Nat /\ Len(pending) \in Nat
      /\ DOMAIN pending = 1..Len(pending) /\ \A i \in DOMAIN pending : pending[i] \in Job
  BY DEF PlacedInv, QueueInv, TypeOK
<1>1. \A i \in DOMAIN pending : /\ pending[i].generation \in Nat /\ pending[i].job \in Jobs
                                /\ pending[i].generation <= generation
  BY <1>0 DEF Job, PlacedInv, Placed, Agree
<1>2. StaleUpTo(Len(pending), pending, generation + 1)
  <2> DEFINE n == Len(pending)
  <2>1. \A i \in DOMAIN pending : i \in Nat /\ i <= n /\ n \in Nat
    BY <1>0
  <2> HIDE DEF n
  <2>2. \A i \in DOMAIN pending : ~(i > n) /\ pending[i].generation # generation + 1
    BY <1>0, <1>1, <2>1
  <2>3. StaleUpTo(n, pending, generation + 1)
    BY <2>2 DEF StaleUpTo
  <2> QED
    BY <2>3 DEF n
<1>3. Agree(pending, t, generation + 1)
  BY <1>0, <1>1 DEF PlacedInv, Placed, Agree
<1>4. \A k \in Jobs : t[k].generation < generation + 1 /\ t[k].generation <= generation + 1
  <2>1. \A k \in Jobs : t[k].generation \in Nat /\ t[k].generation <= generation
    BY DEF PlacedInv, Placed, TaskRec
  <2> QED
    BY <1>0, <2>1
<1>5. JobsAfter(pending, Len(pending)) = <<>>
  <2>1. /\ JobsAfter(pending, Len(pending)) \in Seq(Jobs)
        /\ Len(JobsAfter(pending, Len(pending))) = Len(pending) - Len(pending)
    BY <1>0, JobsAfterSeq
  <2>2. Len(pending) - Len(pending) = 0
    BY <1>0
  <2> QED
    BY <2>1, <2>2
<1> QED
  BY <1>0, <1>2, <1>3, <1>4, <1>5

\* A step of the queue as a step of the line.
OfLine ==
  \/ UNCHANGED <<Front \o Behind, delivered>>
  \/ Line!SubmitOne \/ Line!Forget \/ Line!Deliver

LEMMA LineStep == PlacedInv /\ [Next]_vars => Placed(pending, task, generation)' /\ OfLine
<1> SUFFICES ASSUME PlacedInv, [Next]_vars
             PROVE  Placed(pending', task', generation') /\ OfLine
  BY DEF Placed, Agree, StaleUpTo
<1>0. /\ TypeOK /\ TypeOK' /\ QueueInv /\ QueueInv'
      /\ task \in [Jobs -> TaskRec] /\ pending \in Seq(Job) /\ generation \in Nat
      /\ pending' \in Seq(Job)
  BY QueueStep DEF PlacedInv, QueueInv, TypeOK
<1>p. /\ Placed(pending, task, generation) /\ Agree(pending, task, generation)
      /\ \A k \in Jobs : task[k].generation <= generation
  BY DEF PlacedInv, Placed
<1>m. PICK m \in 0..Len(pending) : /\ StaleUpTo(m, pending, generation)
                                   /\ Behind = JobsAfter(pending, m)
                                   /\ Behind \in Seq(Jobs)
  BY LineFacts
<1>1. ASSUME NEW j \in Jobs, Submit(j) PROVE Placed(pending', task', generation') /\ OfLine
  <2>1. /\ Inserted(pending, j) \in Seq(Job) /\ Queued(task, j) \in [Jobs -> TaskRec]
        /\ task[j].st = "new" /\ generation' = generation /\ delivered' = delivered
    BY <1>0, <1>1, InsertedType DEF Submit
  <2> DEFINE p == Inserted(pending, j)
             t == Queued(task, j)
  <2>2. /\ m \in 0..Len(p) /\ StaleUpTo(m, p, generation) /\ Agree(p, t, generation)
        /\ \A k \in Jobs : t[k].generation <= generation
        /\ JobsAfter(p, m) = Append(Behind, j)
    BY <1>0, <1>m, <1>p, <2>1, InsertedLine
  <2>3. /\ t[j].st = "queued" /\ \A k \in Jobs : k # j => t[k] = task[k]
    BY <1>0 DEF Queued, TaskRec
  <2>4. CASE busy
    <3>1. pending' = p /\ task' = t
      BY <1>1, <2>4 DEF Submit, SubmitDrain
    <3> HIDE DEF p, t
    <3>2. Placed(pending', task', generation')
      BY <2>1, <2>2, <3>1 DEF Placed
    <3>3. Behind' = Append(Behind, j)
      <4>1. (CHOOSE k \in 0..Len(p) : StaleUpTo(k, p, generation)) = m
        BY <2>1, <2>2, StaleOnce DEF p
      <4>2. Behind' = JobsAfter(p, CHOOSE k \in 0..Len(p) : StaleUpTo(k, p, generation))
        BY <2>1, <3>1 DEF Behind
      <4> QED
        BY <2>2, <4>1, <4>2
    <3>4. Front' = Front /\ Front \in Seq(Jobs)
      <4>1. PICK x \in Jobs : InFlight = {x}
        BY <2>4 DEF PlacedInv, QueueInv, OneAtATime
      <4>2. InFlight' = {x} /\ x # j
        BY <2>1, <2>3, <3>1, <4>1 DEF InFlight
      <4>3. task'[x] = task[x]
        BY <2>3, <3>1, <4>2
      <4>4. Front = IF task[x].generation = generation THEN <<x>> ELSE <<>>
        BY <4>1, FrontIs
      <4>5. Front' = IF task'[x].generation = generation' THEN <<x>> ELSE <<>>
        BY <4>2, FrontIs
      <4>6. <<x>> \in Seq(Jobs) /\ <<>> \in Seq(Jobs)
        OBVIOUS
      <4> QED
        BY <2>1, <4>3, <4>4, <4>5, <4>6
    <3>5. Front \o Append(Behind, j) = Append(Front \o Behind, j)
      BY <1>m, <3>4
    <3>6. Line!SubmitOne
      BY <2>1, <3>3, <3>4, <3>5 DEF Line!SubmitOne, Line!Owe
    <3> QED
      BY <3>2, <3>6 DEF OfLine
  <2>5. CASE ~busy
    <3>1. AllAnswered /\ sched = <<>> /\ InFlight = {} /\ pending = <<>>
      BY <1>0, <2>5, IdleFacts DEF QueueInv, OneAtATime
    <3>2. \A k \in Jobs : t[k].st \notin {"running", "returned"}
      BY <2>3, <3>1 DEF InFlight
    <3>3. Drain(generation, p, t, <<>>)
      BY <1>1, <2>5, <3>1 DEF Submit, SubmitDrain
    <3> HIDE DEF p, t
    <3>4. Front' \o Behind' = JobsAfter(p, m) /\ Placed(pending', task', generation)
      BY <1>0, <2>1, <2>2, <3>1, <3>2, <3>3, DrainLine DEF p, t
    <3>5. Front = <<>>
      BY <3>1, FrontIs
    <3>6. Front \o Behind = Behind
      BY <1>m, <3>5
    <3>7. Line!SubmitOne
      BY <2>1, <2>2, <3>4, <3>6 DEF Line!SubmitOne, Line!Owe
    <3> QED
      BY <2>1, <3>4, <3>7 DEF OfLine
  <2> QED
    BY <2>4, <2>5
<1>2. ASSUME Supersede PROVE Placed(pending', task', generation') /\ OfLine
  <2>1. /\ generation' = generation + 1 /\ pending' = pending /\ task' = task
        /\ delivered' = delivered /\ busy' = busy
    BY <1>2 DEF Supersede
  <2> DEFINE n == Len(pending)
  <2>2. /\ n \in 0..n /\ StaleUpTo(n, pending, generation + 1)
        /\ Agree(pending, task, generation + 1)
        /\ \A k \in Jobs : /\ task[k].generation < generation + 1
                           /\ task[k].generation <= generation + 1
        /\ JobsAfter(pending, n) = <<>>
    BY <1>0, AllStale
  <2> HIDE DEF n
  <2>3. Placed(pending', task', generation')
    BY <2>1, <2>2 DEF Placed, n
  <2>4. Behind' = <<>>
    <3>1. (CHOOSE k \in 0..Len(pending) : StaleUpTo(k, pending, generation + 1)) = n
      BY <1>0, <2>2, StaleOnce DEF n
    <3>2. Behind' = JobsAfter(pending,
                      CHOOSE k \in 0..Len(pending) : StaleUpTo(k, pending, generation + 1))
      BY <2>1 DEF Behind
    <3> QED
      BY <2>2, <3>1, <3>2
  <2>5. Front' = <<>>
    <3>1. \A k \in Jobs : task[k].generation \in Nat
      BY <1>0 DEF TaskRec
    <3>2. \A k \in Jobs : ~Owed(k)'
      BY <1>0, <2>1, <2>2, <3>1 DEF Owed, Stale
    <3> QED
      BY <3>2 DEF Front
  <2>6. Front' \o Behind' = <<>>
    BY <2>4, <2>5
  <2>7. Line!Forget
    BY <2>1, <2>6 DEF Line!Forget
  <2> QED
    BY <2>3, <2>7 DEF OfLine
<1>3. ASSUME NEW x \in Cmds, OnExit(x) \/ GuardFire(x)
      PROVE  Placed(pending', task', generation') /\ OfLine
  <2>1. UNCHANGED <<generation, pending, task, delivered>>
    BY <1>3 DEF OnExit, GuardFire
  <2>2. Front' = Front /\ Behind' = Behind
    BY <2>1 DEF Front, Behind, Owed, Stale, InFlight
  <2> QED
    BY <1>p, <2>1, <2>2 DEF OfLine
<1>4. ASSUME RunScheduled PROVE Placed(pending', task', generation') /\ OfLine
  <2> DEFINE cb == Head(sched)
             j == cb.job
  <2>1. AllAnswered /\ Tail(sched) = <<>> /\ j \in Jobs /\ InFlight = {j}
    BY <1>0, <1>4, ScheduledFacts DEF RunScheduled
  <2>f. Front = IF task[j].generation = generation THEN <<j>> ELSE <<>>
    BY <2>1, FrontIs
  <2> HIDE DEF cb
  <2>2. CASE RunResume(cb)
    <3>1. /\ Proceed(task, j, <<>>)
          /\ UNCHANGED <<generation, busy, pending, delivered>>
      BY <2>1, <2>2 DEF RunResume
    <3>2. \A k \in Jobs : k # j => task[k].st \notin {"running", "returned"}
      BY <2>1 DEF InFlight
    <3>3. InFlight' = {j}
      BY <1>0, <2>1, <3>1, <3>2, ProceedInv
    <3>4. \A k \in Jobs : /\ task'[k].generation = task[k].generation
                          /\ task[k].st # "new" => task'[k].st # "new"
      BY <1>0, <2>1, <3>1, ProceedKeeps
    <3>5. Front' = Front /\ Behind' = Behind
      <4>1. Behind' = Behind
        BY <3>1 DEF Behind
      <4> QED
        BY <2>1, <2>f, <3>1, <3>3, <3>4, <4>1, FrontIs
    <3>6. Placed(pending', task', generation')
      <4>1. \A i \in DOMAIN pending : pending[i] \in Job
        BY <1>0
      <4>2. \A i \in DOMAIN pending : pending[i].job \in Jobs
        BY <4>1 DEF Job
      <4>3. Agree(pending, task', generation)
        BY <1>p, <3>4, <4>2 DEF Agree
      <4> QED
        BY <1>p, <3>1, <3>4, <4>3 DEF Placed
    <3> QED
      BY <3>1, <3>5, <3>6 DEF OfLine
  <2>3. CASE RunDone(cb)
    <3> DEFINE t == [task EXCEPT ![j].st = "over"]
    <3>1. /\ t \in [Jobs -> TaskRec]
          /\ \A k \in Jobs : t[k].st \notin {"running", "returned"}
          /\ \A k \in Jobs : /\ t[k].generation = task[k].generation
                             /\ task[k].st # "new" => t[k].st # "new"
                             /\ task[k].st = "new" => t[k].st = "new"
      BY <1>0, <2>1 DEF InFlight, TaskRec
    <3>2. /\ Agree(pending, t, generation)
          /\ \A k \in Jobs : t[k].generation <= generation
      <4>1. \A i \in DOMAIN pending : pending[i] \in Job
        BY <1>0
      <4>2. \A i \in DOMAIN pending : pending[i].job \in Jobs
        BY <4>1 DEF Job
      <4> HIDE DEF t
      <4> QED
        BY <1>p, <3>1, <4>2 DEF Agree
    <3>d. \/ /\ Stale(j) /\ delivered' = delivered /\ generation' = generation
             /\ Drain(generation, pending, t, <<>>)
          \/ /\ ~Stale(j) /\ delivered' = Append(delivered, j) /\ generation' = generation
             /\ Drain(generation, pending, t, <<>>)
          \/ /\ ~Stale(j) /\ delivered' = Append(delivered, j) /\ generation' = generation
             /\ \E k \in Jobs : /\ task[k].st = "new"
                                /\ Drain(generation, Inserted(pending, k), Queued(t, k), <<>>)
          \/ /\ ~Stale(j) /\ delivered' = Append(delivered, j) /\ generation' = generation + 1
             /\ Drain(generation + 1, pending, t, <<>>)
      BY <2>1, <2>3 DEF RunDone
    <3> HIDE DEF t
    <3>3. ASSUME ~Stale(j)
          PROVE  /\ Front \o Behind # <<>> /\ Head(Front \o Behind) = j
                 /\ Tail(Front \o Behind) = Behind
      <4>1. Front = <<j>>
        BY <2>f, <3>3 DEF Stale
      <4>2. <<j>> \in Seq(Jobs)
        BY <2>1
      <4>3. /\ <<j>> \o Behind \in Seq(Jobs) /\ Len(<<j>> \o Behind) = 1 + Len(Behind)
            /\ (<<j>> \o Behind)[1] = j
            /\ \A i \in 1..Len(Behind) : (<<j>> \o Behind)[i + 1] = Behind[i]
        BY <1>m, <4>2
      <4> DEFINE w == <<j>> \o Behind
      <4>4. Len(Behind) \in Nat
        BY <1>m
      <4> HIDE DEF w
      <4>5. w # <<>> /\ Head(w) = j
        BY <4>3, <4>4 DEF w
      <4>6. Tail(w) \in Seq(Jobs) /\ Len(Tail(w)) = Len(Behind)
            /\ \A i \in 1..Len(Behind) : Tail(w)[i] = w[i + 1]
        BY <4>3, <4>4, <4>5 DEF w
      <4>7. Tail(w) = Behind
        <5>1. \A i \in 1..Len(Tail(w)) : Tail(w)[i] = Behind[i]
          BY <4>3, <4>6 DEF w
        <5> QED
          BY <1>m, <4>6, <5>1, SeqEqual
      <4> QED
        BY <4>1, <4>5, <4>7 DEF w
    <3>4. CASE /\ Stale(j) /\ delivered' = delivered /\ generation' = generation
               /\ Drain(generation, pending, t, <<>>)
      <4>1. Front' \o Behind' = Behind /\ Placed(pending', task', generation)
        BY <1>0, <1>m, <2>1, <3>1, <3>2, <3>4, DrainLine
      <4>2. Front \o Behind = Behind
        BY <1>m, <2>f, <3>4 DEF Stale
      <4> QED
        BY <3>4, <4>1, <4>2 DEF OfLine
    <3>5. CASE /\ ~Stale(j) /\ delivered' = Append(delivered, j) /\ generation' = generation
               /\ Drain(generation, pending, t, <<>>)
      <4>1. Front' \o Behind' = Behind /\ Placed(pending', task', generation)
        BY <1>0, <1>m, <2>1, <3>1, <3>2, <3>5, DrainLine
      <4>2. Line!Deliver
        BY <3>3, <3>5, <4>1 DEF Line!Deliver
      <4> QED
        BY <3>5, <4>1, <4>2 DEF OfLine
    <3>6. ASSUME NEW k \in Jobs, task[k].st = "new", ~Stale(j),
                 delivered' = Append(delivered, j), generation' = generation,
                 Drain(generation, Inserted(pending, k), Queued(t, k), <<>>)
          PROVE  Placed(pending', task', generation') /\ OfLine
      <4> DEFINE p == Inserted(pending, k)
                 u == Queued(t, k)
      <4>1. p \in Seq(Job) /\ u \in [Jobs -> TaskRec] /\ t[k].st = "new"
        BY <1>0, <3>1, <3>6, InsertedType
      <4>2. /\ m \in 0..Len(p) /\ StaleUpTo(m, p, generation) /\ Agree(p, u, generation)
            /\ \A x \in Jobs : u[x].generation <= generation
            /\ JobsAfter(p, m) = Append(Behind, k)
        BY <1>0, <1>m, <3>1, <3>2, <4>1, InsertedLine, ZenonT(40)
      <4>3. \A x \in Jobs : u[x].st \notin {"running", "returned"}
        BY <3>1 DEF Queued, TaskRec
      <4> HIDE DEF p, u
      <4>4. Drain(generation, p, u, <<>>)
        BY <3>6 DEF p, u
      <4>5. Front' \o Behind' = Append(Behind, k) /\ Placed(pending', task', generation)
        BY <1>0, <2>1, <3>6, <4>1, <4>2, <4>3, <4>4, DrainLine
      <4>6. Line!Deliver
        BY <3>3, <3>6, <4>5 DEF Line!Deliver, Line!Owe
      <4> QED
        BY <3>6, <4>5, <4>6 DEF OfLine
    <3>7. CASE /\ ~Stale(j) /\ delivered' = Append(delivered, j)
               /\ generation' = generation + 1
               /\ Drain(generation + 1, pending, t, <<>>)
      <4>1. /\ Len(pending) \in 0..Len(pending)
            /\ StaleUpTo(Len(pending), pending, generation + 1)
            /\ Agree(pending, t, generation + 1)
            /\ \A k \in Jobs : t[k].generation <= generation + 1
            /\ JobsAfter(pending, Len(pending)) = <<>>
        BY <3>1, AllStale
      <4>2. generation + 1 \in Nat
        BY <1>0
      <4>3. Front' \o Behind' = <<>> /\ Placed(pending', task', generation + 1)
        BY <1>0, <2>1, <3>1, <3>7, <4>1, <4>2, DrainLine
      <4>4. Line!Deliver
        BY <3>3, <3>7, <4>3 DEF Line!Deliver
      <4> QED
        BY <3>7, <4>3, <4>4 DEF OfLine
    <3> QED
      BY <3>d, <3>4, <3>5, <3>6, <3>7
  <2> QED
    BY <1>4, <2>2, <2>3 DEF RunScheduled, cb
<1>5. CASE UNCHANGED vars
  <2>1. UNCHANGED <<generation, pending, task, delivered>>
    BY <1>5 DEF vars
  <2>2. Front' = Front /\ Behind' = Behind
    BY <2>1 DEF Front, Behind, Owed, Stale, InFlight
  <2> QED
    BY <1>p, <2>1, <2>2 DEF OfLine
<1> QED
  BY <1>1, <1>2, <1>3, <1>4, <1>5 DEF Next

\* The queue implements ResultLine (submit, supersede, drain): on_done runs in the
\* order of the submissions, one at a time, and never for a task that a supersede
\* came after, whether from outside or out of an earlier on_done.
THEOREM ImplementsLine == Spec => ResultsInLine
<1>1. Init => PlacedInv /\ Line!LineInit
  <2> SUFFICES ASSUME Init PROVE PlacedInv /\ Line!LineInit
    OBVIOUS
  <2>1. QueueInv
    BY QueueInit
  <2>2. /\ <<>> \in Seq(Job) /\ Len(<<>>) = 0 /\ 0 \in 0..Len(<<>>)
        /\ StaleUpTo(0, <<>>, 0)
    BY DEF StaleUpTo
  <2>3. pending = <<>> /\ generation = 0 /\ delivered = <<>>
    BY DEF Init
  <2>4. \A k \in Jobs : task[k].generation = 0 /\ task[k].st = "new"
    BY DEF Init
  <2>5. Placed(pending, task, generation)
    BY <2>2, <2>3, <2>4 DEF Placed, Agree
  <2>6. Front = <<>>
    <3>1. \A k \in Jobs : ~Owed(k)
      BY <2>4 DEF Owed, InFlight
    <3> QED
      BY <3>1 DEF Front
  <2>7. Behind = <<>>
    <3>1. (CHOOSE k \in 0..Len(<<>>) : StaleUpTo(k, <<>>, 0)) = 0
      BY <2>2, StaleOnce
    <3>2. JobsAfter(<<>>, 0) \in Seq(Jobs) /\ Len(JobsAfter(<<>>, 0)) = 0 - 0
      BY <2>2, JobsAfterSeq
    <3>3. JobsAfter(<<>>, 0) = <<>>
      BY <3>2
    <3>4. Behind = JobsAfter(<<>>, CHOOSE k \in 0..Len(<<>>) : StaleUpTo(k, <<>>, 0))
      BY <2>3 DEF Behind
    <3> QED
      BY <3>1, <3>3, <3>4
  <2>8. Front \o Behind = <<>>
    BY <2>6, <2>7
  <2> QED
    BY <2>1, <2>3, <2>5, <2>8 DEF PlacedInv, Line!LineInit
<1>2. PlacedInv /\ [Next]_vars => PlacedInv'
  BY QueueStep, LineStep DEF PlacedInv
<1>3. PlacedInv /\ [Next]_vars => [Line!LineNext]_<<Front \o Behind, delivered>>
  BY LineStep DEF OfLine, Line!LineNext
<1> QED
  BY <1>1, <1>2, <1>3, PTL DEF Spec, ResultsInLine, Line!LineSpec, Line!lineVars

-----------------------------------------------------------------------------
(* MergeTool.                                                              *)

\* Of a set of naturals, one is the least.
LEMMA Least ==
  ASSUME NEW T \in SUBSET Nat, T # {}
  PROVE  \E x \in T : \A y \in T : x <= y
<1> DEFINE R == {ss \in Nat \X Nat : ss[1] < ss[2]}
<1>1. IsWellFoundedOn(R, Nat)
  BY NatLessThanWellFounded, Zenon DEF OpToRel
<1>2. \A x, y \in Nat : y < x => <<y, x>> \in R
  OBVIOUS
<1> HIDE DEF R
<1>3. \E x \in T : \A y \in T : ~(<<y, x>> \in R)
  BY <1>1, WFMin
<1>4. \A x, y \in Nat : y < x \/ x <= y
  OBVIOUS
<1> QED
  BY <1>2, <1>3, <1>4, Zenon

Buffer == [text : Text, modified : BOOLEAN, stale : BOOLEAN]

\* A picker is over an operation, and while it is open nothing else is under way.
PickInv ==
  picker = NoPicker \/ (picker.op \in Ops /\ run = NoRun /\ pc = Idle)

\* What a handler has to be for its stage: its prompt is about a bare marker, git
\* will be run on an operation, and once `continue` has saved the result nothing
\* starts another run or modifies it.
HandlerInv ==
  /\ pc.at = "content" => pc.text = "bare"
  /\ pc.at \in {"skip", "abort"} => pc.op \in Ops
  /\ pc.at \in {"take", "delete", "skip", "abort"} => pc.then = "none"
  /\ pc.then = "continue" =>
       /\ pc.op \in Ops /\ run = NoRun
       /\ session.id # 0 => ~buf[session.file].modified

\* No session has the number of an earlier one, and the delete prompt is about
\* the file of the session that asked.
SessionsInv ==
  /\ session.id <= opened /\ pc.s.id <= opened
  /\ pc.at = "delete" =>
       pc.s.id # 0 /\ (session.id = pc.s.id => session.file = pc.s.file)

\* A write that goes on to stage, and its prompt, are those of a session; as long as
\* it is the session, its buffer is not modified, and it is staged for its text.
StageInv ==
  pc.at \in {"content", "stage"} =>
    /\ pc.s.id # 0
    /\ session.id = pc.s.id => ~buf[session.file].modified
    /\ pc.at = "stage" =>
         /\ session.id = pc.s.id
         /\ \/ buf[session.file].text = "clean"
            \/ buf[session.file].text = "bare" /\ session.content

MergeInv ==
  /\ MergeTypeOK /\ PickInv /\ HandlerInv /\ SessionsInv
  /\ StageInv /\ SessionFollowsGit

\* A buffer that was not modified shows its file, unless something else wrote that.
FreshIn(b, d) ==
  \A f \in Files : ~b[f].modified /\ ~b[f].stale => d[f] = b[f].text
Fresh == FreshIn(buf, disk)

\* The buffers keep their text.
SameText ==
  /\ buf' \in [Files -> Buffer]
  /\ \A f \in Files : buf'[f].text = buf[f].text /\ buf'[f].modified = buf[f].modified

LEMMA MergeConstants ==
  /\ 1 \in Files /\ Files \subseteq Nat
         /\ NoSession \in Session /\ NoSession.id = 0
         /\ Idle \in Handler
         /\ Idle.at = "idle" /\ Idle.then = "none" /\ Idle.s = NoSession
<1>1. 1 \in Files /\ Files \subseteq Nat
  BY MergeAssumption DEF Files
<1>2. NoSession \in Session /\ NoSession.id = 0
  BY <1>1 DEF NoSession, Session
<1>3. /\ Idle \in Handler
      /\ Idle.at = "idle" /\ Idle.then = "none" /\ Idle.s = NoSession
  BY <1>2 DEF Idle, Handler
<1> QED
  BY <1>1, <1>2, <1>3

LEMMA MergeTypes ==
  ASSUME MergeTypeOK
  PROVE  /\ head \in Nat /\ op \in Ops \cup {Nil} /\ stop \in Nat
         /\ index \in [Files -> {"unmerged", "resolved", "marked", "gone"}]
         /\ disk \in [Files -> Text \cup {"gone"}]
         /\ buf \in [Files -> Buffer]
         /\ session \in Session /\ session.file \in Files /\ session.id \in Nat
         /\ session.files \subseteq Files
         /\ opened \in 0..MaxSessions /\ opened \in Nat
         /\ pc \in Handler /\ pc.s \in Session
         /\ Conflicted \subseteq Files
         /\ Shown \in Text
<1>1. session \in Session /\ buf \in [Files -> Buffer] /\ pc \in Handler
  BY DEF MergeTypeOK, Buffer
<1>2. session.file \in Files /\ session.id \in Nat /\ session.files \subseteq Files
  BY <1>1 DEF Session
<1>3. pc.s \in Session
  BY <1>1 DEF Handler
<1>4. Shown \in Text
  BY <1>1, <1>2 DEF Shown, Buffer
<1>5. Conflicted \subseteq Files
  BY DEF Conflicted
<1>6. opened \in 0..MaxSessions /\ opened \in Nat
  BY DEF MergeTypeOK
<1> QED
  BY <1>1, <1>2, <1>3, <1>4, <1>5, <1>6 DEF MergeTypeOK

-----------------------------------------------------------------------------
(* The merge tool's operators.                                             *)

LEMMA ReloadedBuf ==
  ASSUME MergeTypeOK, NEW b \in [Files -> Buffer], NEW f \in Files
  PROVE  /\ Reloaded(b, f) \in [Files -> Buffer]
         /\ \A g \in Files : Reloaded(b, f)[g].modified = b[g].modified
         /\ FreshIn(b, disk) => FreshIn(Reloaded(b, f), disk)
<1>1. disk[f] \in Text \cup {"gone"}
  BY MergeTypes
<1>2. \A g \in Files : b[g] \in Buffer
  OBVIOUS
<1>3. CASE b[f].modified \/ disk[f] = "gone" \/ Binary(f)
  BY <1>3 DEF Reloaded
<1>4. CASE ~(b[f].modified \/ disk[f] = "gone" \/ Binary(f))
  <2>1. Reloaded(b, f) = [b EXCEPT ![f].text = disk[f], ![f].stale = FALSE]
    BY <1>4 DEF Reloaded
  <2>2. disk[f] \in Text
    BY <1>1, <1>4
  <2> DEFINE r == Reloaded(b, f)
  <2>3. /\ r \in [Files -> Buffer]
        /\ \A g \in Files : r[g].modified = b[g].modified
        /\ r[f].text = disk[f]
        /\ \A g \in Files \ {f} : r[g] = b[g]
    BY <1>2, <2>1, <2>2 DEF Buffer
  <2> HIDE DEF r
  <2>4. FreshIn(b, disk) => FreshIn(r, disk)
    BY <2>3 DEF FreshIn
  <2> QED
    BY <2>3, <2>4 DEF r
<1> QED
  BY <1>3, <1>4

\* What is written past the buffers leaves their text.
LEMMA OutdatedBuf ==
  ASSUME MergeTypeOK, NEW fs, Outdated(fs)
  PROVE  /\ SameText
         /\ \A f \in Files : buf'[f].stale = (buf[f].stale \/ f \in fs)
<1>1. buf \in [Files -> Buffer]
  BY MergeTypes
<1>2. buf' = [f \in Files |-> [buf[f] EXCEPT !.stale = @ \/ f \in fs]]
  BY DEF Outdated
<1>3. ASSUME NEW f \in Files
      PROVE  /\ buf'[f] \in Buffer
             /\ buf'[f].text = buf[f].text /\ buf'[f].modified = buf[f].modified
             /\ buf'[f].stale = (buf[f].stale \/ f \in fs)
  <2>1. buf[f] \in Buffer /\ buf'[f] = [buf[f] EXCEPT !.stale = @ \/ f \in fs]
    BY <1>1, <1>2
  <2> QED
    BY <2>1 DEF Buffer
<1>4. buf' \in [Files -> Buffer]
  BY <1>2, <1>3
<1> QED
  BY <1>3, <1>4 DEF SameText

LEMMA LayOutFacts ==
  ASSUME MergeTypeOK,
         NEW f \in Files, NEW files \in SUBSET Files, LayOut(f, files)
  PROVE  /\ session' \in Session
         /\ session'.id = opened + 1 /\ session'.file = f
         /\ session'.head = head /\ session'.op = op /\ session'.heard = FALSE
         /\ opened' = opened + 1 /\ opened' \in 0..MaxSessions
         /\ buf' \in [Files -> Buffer]
         /\ Fresh => FreshIn(buf', disk)
<1>1. opened < MaxSessions /\ opened' = opened + 1 /\ opened \in 0..MaxSessions
  BY MergeTypes DEF LayOut
<1>2. /\ session' = [NoSession EXCEPT !.id = opened + 1, !.file = f, !.files = files,
                                   !.head = head, !.op = op, !.stop = stop]
  BY DEF LayOut
<1>3. opened + 1 \in Nat /\ head \in Nat /\ stop \in Nat /\ op \in Ops \cup {Nil}
  BY <1>1, MergeTypes
<1>4. /\ session' \in Session
      /\ session'.id = opened + 1 /\ session'.file = f
      /\ session'.head = head /\ session'.op = op /\ session'.heard = FALSE
  BY <1>2, <1>3 DEF NoSession, Session
<1>5. opened' \in 0..MaxSessions
  BY <1>1, MergeAssumption
<1>6. buf' \in [Files -> Buffer] /\ (Fresh => FreshIn(buf', disk))
  <2> DEFINE b == IF session.id = 0 THEN buf ELSE Reloaded(buf, session.file)
  <2>1. b \in [Files -> Buffer] /\ (Fresh => FreshIn(b, disk))
    BY ReloadedBuf, MergeTypes DEF Fresh
  <2>2. buf' = Reloaded(b, f)
    BY DEF LayOut
  <2> HIDE DEF b
  <2> QED
    BY <2>1, <2>2, ReloadedBuf
<1> QED
  BY <1>1, <1>4, <1>5, <1>6

LEMMA CloseFacts ==
  ASSUME MergeTypeOK, CloseSession
  PROVE  /\ session' = NoSession /\ session' \in Session /\ session'.id = 0
         /\ opened' = opened
         /\ buf' \in [Files -> Buffer]
         /\ Fresh => FreshIn(buf', disk)
BY ReloadedBuf, MergeTypes, MergeConstants DEF CloseSession, Fresh

LEMMA HearingFacts ==
  ASSUME NEW s \in Session
  PROVE  /\ Hearing(s) \in Session
         /\ Hearing(s).id = s.id /\ Hearing(s).file = s.file
         /\ Hearing(s).content = s.content
         /\ Hearing(s).head = s.head /\ Hearing(s).op = s.op
         /\ s.id # 0 => Hearing(s).heard = TRUE
BY DEF Hearing, Session

LEMMA AddedEntry ==
  ASSUME NEW f
  PROVE  Added(f) \in {"resolved", "marked", "gone"}
BY DEF Added

LEMMA StagedFacts ==
  ASSUME MergeTypeOK, NEW entry \in {"resolved", "marked", "gone"}, Staged(entry)
  PROVE  /\ index' \in [Files -> {"unmerged", "resolved", "marked", "gone"}]
         /\ session' \in Session
         /\ session'.id = session.id /\ session'.file = session.file
         /\ session'.content = session.content
         /\ session.id # 0 => session'.heard = TRUE
<1>1. index' \in [Files -> {"unmerged", "resolved", "marked", "gone"}]
  BY MergeTypes DEF Staged
<1> DEFINE s == Hearing(session)
<1>2. /\ s \in Session /\ s.id = session.id /\ s.file = session.file
      /\ s.content = session.content /\ (session.id # 0 => s.heard = TRUE)
  BY HearingFacts, MergeTypes
<1>3. session' = [s EXCEPT !.staged = TRUE, !.removed = entry = "gone"]
  BY DEF Staged
<1> HIDE DEF s
<1>4. /\ session' \in Session /\ session'.id = s.id /\ session'.file = s.file
      /\ session'.content = s.content /\ session'.heard = s.heard
  BY <1>2, <1>3 DEF Session
<1> QED
  BY <1>1, <1>2, <1>4

\* on_write, of a handler that a session began.
LEMMA OnWriteFacts ==
  ASSUME NEW h \in Handler, NEW t \in Text
  PROVE  LET r == OnWrite(h, t) IN
         /\ r \in Handler
         /\ \/ r = Idle
            \/ /\ r.at \in {"stage", "content", "settled"}
               /\ r.then = h.then /\ r.s = h.s /\ r.op = h.op
         /\ r.at = "stage" => t = "clean" \/ (t = "bare" /\ session.content)
         /\ r.at = "content" => r.text = "bare"
<1> DEFINE over == Over(h)
           stage == [h EXCEPT !.at = "stage"]
           ask == [h EXCEPT !.at = "content", !.text = t]
<1>1. /\ over \in Handler
      /\ over = Idle \/ (over.at = "settled" /\ over.then = h.then /\ over.s = h.s
                             /\ over.op = h.op)
      /\ over.at \notin {"stage", "content"}
  BY MergeConstants DEF Over, Handler
<1>2. /\ stage \in Handler /\ stage.at = "stage" /\ stage.then = h.then
      /\ stage.s = h.s /\ stage.op = h.op
  BY DEF Handler
<1>3. /\ ask \in Handler /\ ask.at = "content" /\ ask.then = h.then
      /\ ask.s = h.s /\ ask.op = h.op /\ ask.text = t
  BY DEF Handler, Prompts
<1>4. OnWrite(h, t) = IF t \in {"regions", "indented"} THEN over
                         ELSE IF ~Orphans(session, t) THEN stage
                         ELSE IF t = "bare" THEN ask ELSE over
  BY DEF OnWrite
<1>5. t \notin {"regions", "indented"} /\ ~Orphans(session, t)
        => t = "clean" \/ (t = "bare" /\ session.content)
  BY DEF Orphans, Text
<1> HIDE DEF over, stage, ask
<1> QED
  BY <1>1, <1>2, <1>3, <1>4, <1>5

\* What the save of a result and settle_result leave: the file saved, and a
\* handler that goes on with it.
Saved(h) ==
  /\ disk' \in [Files -> Text \cup {"gone"}]
  /\ \A f \in Files : disk'[f] = "gone" => disk[f] = "gone"
  /\ buf' \in [Files -> Buffer]
  /\ Fresh => Fresh'
  /\ pc' \in Handler
  /\ \/ pc' = Idle
     \/ /\ pc'.at \in {"ready", "stage", "content", "settled"}
        /\ pc'.then = h.then /\ pc'.s = h.s /\ pc'.op = h.op
        /\ ~buf'[session.file].modified
  /\ pc'.at = "stage" =>
       buf'[session.file].text = "clean" \/ (buf'[session.file].text = "bare" /\ session.content)
  /\ pc'.at = "content" => pc'.text = "bare"

LEMMA WrittenSaves ==
  ASSUME MergeTypeOK, NEW h \in Handler, Written(h)
  PROVE  Saved(h)
<1> DEFINE f == session.file
           t == buf[f].text
<1>1. f \in Files /\ t \in Text /\ "indented" \in Text /\ "gone" \notin Text
  BY MergeTypes DEF Buffer, Text
<1>2. PICK w \in {t} \cup (IF t = "regions" THEN {"indented"} ELSE {}) :
        /\ disk' = [disk EXCEPT ![f] = w]
        /\ buf' = [buf EXCEPT ![f] = [text |-> w, modified |-> FALSE, stale |-> FALSE]]
        /\ pc' = OnWrite(h, w)
  BY DEF Written
<1>3. w \in Text
  BY <1>1, <1>2
<1>4. /\ disk' \in [Files -> Text \cup {"gone"}]
      /\ \A g \in Files : disk'[g] = "gone" => disk[g] = "gone"
  BY <1>1, <1>2, <1>3, MergeTypes
<1>5. /\ buf' \in [Files -> Buffer]
      /\ buf'[f].text = w /\ buf'[f].modified = FALSE
      /\ \A g \in Files \ {f} : buf'[g] = buf[g]
  BY <1>1, <1>2, <1>3, MergeTypes DEF Buffer
<1>w. disk'[f] = w /\ \A g \in Files \ {f} : disk'[g] = disk[g]
  BY <1>1, <1>2, MergeTypes
<1>6. LET r == OnWrite(h, w) IN
         /\ r \in Handler
         /\ \/ r = Idle
            \/ /\ r.at \in {"stage", "content", "settled"}
               /\ r.then = h.then /\ r.s = h.s /\ r.op = h.op
         /\ r.at = "stage" => w = "clean" \/ (w = "bare" /\ session.content)
         /\ r.at = "content" => r.text = "bare"
  BY <1>3, OnWriteFacts
<1> HIDE DEF f, t
<1>7. /\ pc' \in Handler
      /\ \/ pc' = Idle
         \/ /\ pc'.at \in {"ready", "stage", "content", "settled"}
            /\ pc'.then = h.then /\ pc'.s = h.s /\ pc'.op = h.op
      /\ pc'.at = "stage" => w = "clean" \/ (w = "bare" /\ session.content)
      /\ pc'.at = "content" => pc'.text = "bare"
  BY <1>2, <1>6
<1>8. Fresh => Fresh'
  BY <1>5, <1>w DEF Fresh, FreshIn
<1> QED
  BY <1>4, <1>5, <1>7, <1>8 DEF Saved, f

LEMMA SettleSaves ==
  ASSUME MergeTypeOK, NEW h \in Handler, Settle(h)
  PROVE  Saved(h)
<1> DEFINE f == session.file
           b == buf[f]
<1>1. /\ f \in Files /\ b \in Buffer /\ b.text \in Text
      /\ disk \in [Files -> Text \cup {"gone"}] /\ buf \in [Files -> Buffer]
  BY MergeTypes DEF Buffer
<1>2. \/ ~b.modified /\ pc' = [h EXCEPT !.at = "ready"] /\ UNCHANGED <<disk, buf>>
      \/ ~b.modified /\ pc' = OnWrite(h, b.text) /\ UNCHANGED <<disk, buf>>
      \/ Written(h)
      \/ pc' = Idle /\ UNCHANGED <<disk, buf>>
  BY DEF Settle
<1>3. CASE ~b.modified /\ pc' = [h EXCEPT !.at = "ready"] /\ UNCHANGED <<disk, buf>>
  <2>1. /\ pc' \in Handler /\ pc'.at = "ready"
        /\ pc'.then = h.then /\ pc'.s = h.s /\ pc'.op = h.op
    BY <1>3 DEF Handler
  <2> QED
    BY <1>1, <1>3, <2>1 DEF Saved, Fresh
<1>4. CASE ~b.modified /\ pc' = OnWrite(h, b.text) /\ UNCHANGED <<disk, buf>>
  <2> DEFINE r == OnWrite(h, b.text)
  <2>1. /\ r \in Handler
        /\ \/ r = Idle
           \/ /\ r.at \in {"stage", "content", "settled"}
              /\ r.then = h.then /\ r.s = h.s /\ r.op = h.op
        /\ r.at = "stage" => b.text = "clean" \/ (b.text = "bare" /\ session.content)
        /\ r.at = "content" => r.text = "bare"
    BY <1>1, OnWriteFacts
  <2>2. pc' = r /\ disk' = disk /\ buf' = buf /\ ~b.modified
    BY <1>4
  <2> HIDE DEF r
  <2> QED
    BY <1>1, <2>1, <2>2 DEF Saved, Fresh
<1>5. CASE Written(h)
  BY <1>5, WrittenSaves
<1>6. CASE pc' = Idle /\ UNCHANGED <<disk, buf>>
  BY <1>1, <1>6, MergeConstants DEF Saved, Fresh
<1> QED
  BY <1>2, <1>3, <1>4, <1>5, <1>6

-----------------------------------------------------------------------------
(* The steps of the merge tool.                                            *)

\* What the parts of MergeInv say of a handler that is idle.
LEMMA IdleKeeps ==
  ASSUME MergeTypeOK', pc' = Idle, PickInv',
         session'.id <= opened',
         session'.id # 0 /\ ~session'.heard /\ run' = NoRun
           => session'.head = head' /\ session'.op = op'
  PROVE  MergeInv'
<1>1. Idle.at = "idle" /\ Idle.then = "none" /\ Idle.s.id = 0
  BY MergeConstants
<1>2. opened' \in Nat
  BY DEF MergeTypeOK
<1> QED
  BY <1>1, <1>2 DEF MergeInv, HandlerInv, SessionsInv, StageInv, SessionFollowsGit

\* A session is opened, stepped to or closed by a handler that is then over.
LEMMA OpenClose ==
  ASSUME MergeInv, pc' = Idle,
         \/ CloseSession
         \/ \E f \in Files, files \in SUBSET Files : LayOut(f, files)
         \/ UNCHANGED <<session, opened, buf>>,
         UNCHANGED <<kind, head, op, stop, index, disk, picker, run, budget>>
  PROVE  MergeInv'
<1>1. MergeTypeOK /\ PickInv /\ SessionsInv /\ SessionFollowsGit
  BY DEF MergeInv
<1>2. /\ session' \in Session /\ buf' \in [Files -> Buffer]
      /\ opened' \in 0..MaxSessions /\ session'.id <= opened'
      /\ session'.id # 0 /\ ~session'.heard /\ run' = NoRun
           => session'.head = head' /\ session'.op = op'
  <2>1. CASE CloseSession
    BY <1>1, <2>1, CloseFacts, MergeTypes
  <2>2. CASE \E f \in Files, files \in SUBSET Files : LayOut(f, files)
    <3>1. PICK f \in Files, files \in SUBSET Files : LayOut(f, files)
      BY <2>2
    <3>2. /\ session' \in Session /\ session'.id = opened + 1
          /\ session'.head = head /\ session'.op = op
          /\ opened' = opened + 1 /\ opened' \in 0..MaxSessions
          /\ buf' \in [Files -> Buffer]
      BY <1>1, <3>1, LayOutFacts
    <3> QED
      BY <3>2
  <2>3. CASE UNCHANGED <<session, opened, buf>>
    BY <1>1, <2>3, MergeTypes DEF SessionsInv, SessionFollowsGit
  <2> QED
    BY <2>1, <2>2, <2>3
<1>3. MergeTypeOK'
  BY <1>1, <1>2, MergeConstants DEF MergeTypeOK, Buffer
<1>4. PickInv'
  BY <1>1 DEF PickInv
<1> QED
  BY <1>2, <1>3, <1>4, IdleKeeps

LEMMA OpenStep ==
  ASSUME MergeInv,
         (\E f \in Files : Open(f)) \/ Close \/ StepOn \/ Finished \/ Unsettled
  PROVE  MergeInv'
<1>0. MergeTypeOK
  BY DEF MergeInv
<1>1. CASE \E f \in Files : Open(f)
  BY <1>0, <1>1, OpenClose, MergeTypes DEF Open, Key, git
<1>2. CASE Close
  BY <1>2, OpenClose DEF Close, Key, git
<1>3. CASE StepOn
  <2>1. /\ pc' = Idle
        /\ UNCHANGED <<kind, head, op, stop, index, disk, picker, run, budget>>
        /\ \/ UNCHANGED <<session, opened, buf>>
           \/ \E g \in Nearest(Begun, pc.then) : LayOut(g, Begun.files)
    BY <1>3 DEF StepOn, git, tool
  <2>2. Begun \in Session
    BY <1>0, MergeTypes DEF Begun
  <2>3. Begun.files \in SUBSET Files
    BY <2>2 DEF Session
  <2>4. Nearest(Begun, pc.then) \subseteq Files
    BY <2>3 DEF Nearest, Candidates
  <2> QED
    BY <2>1, <2>3, <2>4, OpenClose
<1>4. CASE Finished
  BY <1>4, OpenClose DEF Finished, git, tool
<1>5. CASE Unsettled
  BY <1>5, OpenClose DEF Unsettled, git, tool
<1> QED
  BY <1>1, <1>2, <1>3, <1>4, <1>5

LEMMA SpliceFacts ==
  ASSUME buf \in [Files -> Buffer], session.file \in Files, NEW t \in Text, Splice(t)
  PROVE  /\ buf' \in [Files -> Buffer]
         /\ Fresh => FreshIn(buf', disk)
<1> DEFINE f == session.file
<1>1. /\ buf' \in [Files -> Buffer] /\ buf'[f].modified = TRUE
      /\ \A g \in Files \ {f} : buf'[g] = buf[g]
  BY DEF Splice, Buffer
<1> HIDE DEF f
<1> QED
  BY <1>1 DEF Fresh, FreshIn

\* The result buffer is edited, or one of its conflicts taken.
LEMMA EditStep ==
  ASSUME MergeInv,
         (\E t \in Text \ {"indented"} : Edit(t)) \/ TakeRegion
           \/ (\E yes \in BOOLEAN : AnswerTake(yes))
  PROVE  MergeInv'
<1>0. MergeTypeOK /\ PickInv /\ SessionsInv /\ SessionFollowsGit /\ HandlerInv
  BY DEF MergeInv
<1>1. /\ pc' = Idle
      /\ UNCHANGED <<kind, head, op, stop, index, disk, session, opened, picker, run, budget>>
      /\ buf' = buf \/ \E t \in Text : Splice(t)
  <2>1. CASE \E t \in Text \ {"indented"} : Edit(t)
    BY <2>1 DEF Edit, ResultKey, Key, git, tool
  <2>2. CASE TakeRegion
    BY <2>2 DEF TakeRegion, ResultKey, Key, git, tool, Text
  <2>3. CASE \E yes \in BOOLEAN : AnswerTake(yes)
    BY <2>3 DEF AnswerTake, git, tool, Text
  <2> QED
    BY <2>1, <2>2, <2>3
<1>2. buf' \in [Files -> Buffer]
  <2>1. buf \in [Files -> Buffer] /\ session.file \in Files
    BY <1>0, MergeTypes
  <2>2. CASE \E t \in Text : Splice(t)
    <3>1. PICK t \in Text : Splice(t)
      BY <2>2
    <3> QED
      BY <2>1, <3>1, SpliceFacts
  <2> QED
    BY <1>1, <2>1, <2>2
<1>3. MergeTypeOK'
  BY <1>0, <1>1, <1>2, MergeConstants DEF MergeTypeOK, Buffer
<1>4. PickInv'
  BY <1>0, <1>1 DEF PickInv
<1> QED
  BY <1>0, <1>1, <1>3, <1>4, IdleKeeps DEF SessionsInv, SessionFollowsGit

\* A handler of the session that there is goes on: its session is the session.
LEMMA HandlerKeeps ==
  ASSUME MergeInv, NEW h \in Handler, h.s = session, h.s.id # 0,
         h.then = "continue" => h.op \in Ops /\ run = NoRun,
         Saved(h), picker' = NoPicker,
         UNCHANGED <<kind, head, op, stop, index, session, opened, run, budget>>
  PROVE  MergeInv'
<1>1. MergeTypeOK /\ SessionsInv /\ SessionFollowsGit
  BY DEF MergeInv
<1>2. MergeTypeOK'
  BY <1>1 DEF MergeTypeOK, Saved, Buffer, NoPicker
<1>3. PickInv'
  BY DEF PickInv
<1>4. CASE pc' = Idle
  BY <1>1, <1>2, <1>3, <1>4, IdleKeeps DEF SessionsInv, SessionFollowsGit
<1>5. CASE pc' # Idle
  <2>1. /\ pc'.at \in {"ready", "stage", "content", "settled"}
        /\ pc'.then = h.then /\ pc'.s = session /\ pc'.op = h.op
        /\ ~buf'[session.file].modified
        /\ pc'.at = "stage" => buf'[session.file].text = "clean"
                               \/ (buf'[session.file].text = "bare" /\ session.content)
        /\ pc'.at = "content" => pc'.text = "bare"
    BY <1>5 DEF Saved
  <2>2. HandlerInv'
    BY <2>1 DEF HandlerInv
  <2>3. SessionsInv'
    BY <1>1, <2>1 DEF SessionsInv
  <2>4. StageInv'
    BY <2>1 DEF StageInv
  <2>5. SessionFollowsGit'
    BY <1>1, <1>2 DEF SessionFollowsGit
  <2> QED
    BY <1>2, <1>3, <2>2, <2>3, <2>4, <2>5 DEF MergeInv
<1> QED
  BY <1>4, <1>5

LEMMA BeginFacts ==
  ASSUME MergeTypeOK,
         NEW then \in {"none", "next", "prev", "continue", "finish"},
         NEW o \in Ops \cup {Nil}
  PROVE  /\ Begin(then, o) \in Handler
         /\ Begin(then, o).s = session /\ Begin(then, o).then = then
         /\ Begin(then, o).op = o
<1>1. session \in Session
  BY MergeTypes
<1> QED
  BY <1>1 DEF Begin, Idle, Handler

\* :w, ]f and [f, `continue` of a picker and without an operation.
LEMMA SaveStep ==
  ASSUME MergeInv,
         Write \/ (\E dir \in {"next", "prev"} : Step(dir)) \/ Finish \/ ChooseContinue
  PROVE  MergeInv'
<1>0. MergeTypeOK /\ PickInv /\ SessionsInv /\ SessionFollowsGit
  BY DEF MergeInv
<1>1. CASE Write
  <2>1. Written(Begin("none", Nil)) /\ session.id # 0 /\ picker' = NoPicker
        /\ UNCHANGED <<kind, head, op, stop, index, session, opened, run, budget>>
    BY <1>1 DEF Write, ResultKey, Key, tool
  <2> QED
    BY <1>0, <2>1, BeginFacts, WrittenSaves, HandlerKeeps
<1>2. ASSUME NEW dir \in {"next", "prev"}, Step(dir) PROVE MergeInv'
  <2>1. Settle(Begin(dir, Nil)) /\ session.id # 0 /\ picker' = NoPicker
        /\ UNCHANGED <<kind, head, op, stop, index, session, opened, run, budget>>
    BY <1>2 DEF Step, ResultKey, Key, tool
  <2> QED
    BY <1>0, <2>1, BeginFacts, SettleSaves, HandlerKeeps
<1>3. CASE Finish
  <2>1. Settle(Begin("finish", Nil)) /\ session.id # 0 /\ picker' = NoPicker
        /\ UNCHANGED <<kind, head, op, stop, index, session, opened, run, budget>>
    BY <1>3 DEF Finish, Key, tool
  <2> QED
    BY <1>0, <2>1, BeginFacts, SettleSaves, HandlerKeeps
<1>4. CASE ChooseContinue
  <2>1. picker.op \in Ops /\ run = NoRun
    BY <1>0, <1>4 DEF ChooseContinue, PickInv, NoPicker
  <2>2. /\ picker' = NoPicker
        /\ UNCHANGED <<kind, head, op, stop, index, session, opened, run, budget>>
    BY <1>4 DEF ChooseContinue, tool
  <2>3. CASE session.id # 0
    <3>1. Settle(Begin("continue", picker.op))
      BY <1>4, <2>3 DEF ChooseContinue
    <3> QED
      BY <1>0, <2>1, <2>2, <2>3, <3>1, BeginFacts, SettleSaves, HandlerKeeps
  <2>4. CASE session.id = 0
    <3>1. /\ pc' = [Idle EXCEPT !.at = "ready", !.then = "continue", !.op = picker.op]
          /\ disk' = disk /\ buf' = buf
      BY <1>4, <2>4 DEF ChooseContinue
    <3>2. /\ pc' \in Handler /\ pc'.at = "ready" /\ pc'.op \in Ops /\ pc'.s.id = 0
      BY <2>1, <3>1, MergeConstants DEF Handler, Idle
    <3>3. MergeTypeOK'
      BY <1>0, <2>2, <3>1, <3>2 DEF MergeTypeOK, NoPicker
    <3>4. PickInv' /\ SessionsInv' /\ SessionFollowsGit' /\ StageInv' /\ HandlerInv'
      BY <1>0, <2>1, <2>2, <2>4, <3>1, <3>2, <3>3, MergeTypes
      DEF PickInv, SessionsInv, SessionFollowsGit, StageInv, HandlerInv
    <3> QED
      BY <3>3, <3>4 DEF MergeInv
  <2> QED
    BY <2>3, <2>4
<1> QED
  BY <1>1, <1>2, <1>3, <1>4

\* A prompt is put up, or the picker, or the picker is dismissed.
LEMMA PromptStep ==
  ASSUME MergeInv,
         TakeBroken \/ TakeDelete \/ (\E resolved \in BOOLEAN : Pick(resolved))
           \/ Dismiss \/ (\E action \in {"skip", "abort"} : ChooseAsking(action))
  PROVE  MergeInv'
<1>0. /\ MergeTypeOK /\ PickInv /\ SessionsInv /\ SessionFollowsGit
      /\ StageInv /\ HandlerInv
  BY DEF MergeInv
<1>i. /\ Idle.at = "idle" /\ Idle.then = "none" /\ Idle.s.id = 0
      /\ Idle \in Handler
  BY MergeConstants
<1>1. CASE TakeBroken
  <2>1. /\ UNCHANGED <<kind, head, op, stop, index, disk, session, opened, picker, run, budget>>
        /\ session.id # 0 /\ picker = NoPicker /\ pc = Idle
    BY <1>1 DEF TakeBroken, ResultKey, Key, git, tool
  <2>2. CASE Splice("clean") /\ UNCHANGED pc
    <3>1. "clean" \in Text /\ session.file \in Files /\ buf \in [Files -> Buffer]
      BY <1>0, MergeTypes DEF Text
    <3>3. buf' \in [Files -> Buffer]
      BY <2>2, <3>1, SpliceFacts
    <3>4. MergeTypeOK'
      BY <1>0, <2>1, <2>2, <3>3 DEF MergeTypeOK, Buffer
    <3> QED
      BY <1>0, <2>1, <2>2, <3>4, IdleKeeps DEF PickInv, SessionsInv, SessionFollowsGit
  <2>3. CASE pc' = [Idle EXCEPT !.at = "take", !.s = session, !.text = Shown] /\ UNCHANGED buf
    <3>1. pc' \in Handler /\ pc'.at = "take" /\ pc'.then = "none" /\ pc'.s = session
      BY <1>0, <2>3, MergeTypes DEF Idle, Handler, Prompts
    <3>2. MergeTypeOK'
      BY <1>0, <2>1, <2>3, <3>1 DEF MergeTypeOK
    <3> QED
      BY <1>0, <2>1, <2>3, <3>1, <3>2
      DEF MergeInv, PickInv, SessionsInv, SessionFollowsGit, StageInv, HandlerInv
  <2> QED
    BY <1>1, <2>2, <2>3 DEF TakeBroken
<1>2. CASE TakeDelete
  <2>1. /\ UNCHANGED <<kind, head, op, stop, index, disk, buf, session, opened, picker, run, budget>>
        /\ session.id # 0 /\ picker = NoPicker
        /\ pc' = [Idle EXCEPT !.at = "delete", !.s = session]
    BY <1>2 DEF TakeDelete, ResultKey, Key, git, tool
  <2>2. pc' \in Handler /\ pc'.at = "delete" /\ pc'.then = "none" /\ pc'.s = session
    BY <1>0, <2>1, MergeTypes DEF Idle, Handler, Prompts
  <2>3. MergeTypeOK'
    BY <1>0, <2>1, <2>2 DEF MergeTypeOK
  <2> QED
    BY <1>0, <2>1, <2>2, <2>3
    DEF MergeInv, PickInv, SessionsInv, SessionFollowsGit, StageInv, HandlerInv
<1>3. ASSUME NEW resolved \in BOOLEAN, Pick(resolved) PROVE MergeInv'
  <2>1. /\ UNCHANGED <<kind, head, op, stop, index, disk, buf, session, opened, pc, run, budget>>
        /\ pc = Idle /\ run = NoRun /\ op # Nil
        /\ picker' = [op |-> op, resolved |-> resolved]
    BY <1>3 DEF Pick, Key, git, tool
  <2>2. op \in Ops
    BY <1>0, <2>1, MergeTypes
  <2>3. MergeTypeOK' /\ PickInv'
    BY <1>0, <2>1, <2>2 DEF MergeTypeOK, PickInv
  <2> QED
    BY <1>0, <2>1, <2>3, IdleKeeps DEF SessionsInv, SessionFollowsGit
<1>4. CASE Dismiss
  <2>1. /\ UNCHANGED <<kind, head, op, stop, index, disk, buf, session, opened, pc, run, budget>>
        /\ pc = Idle /\ picker' = NoPicker
    BY <1>4 DEF Dismiss, git, tool
  <2>2. MergeTypeOK' /\ PickInv'
    BY <1>0, <2>1 DEF MergeTypeOK, PickInv, NoPicker
  <2> QED
    BY <1>0, <2>1, <2>2, IdleKeeps DEF SessionsInv, SessionFollowsGit
<1>5. ASSUME NEW action \in {"skip", "abort"}, ChooseAsking(action) PROVE MergeInv'
  <2>1. /\ UNCHANGED <<kind, head, op, stop, index, disk, buf, session, opened, run, budget>>
        /\ picker # NoPicker /\ picker' = NoPicker
        /\ pc' = [Idle EXCEPT !.at = action, !.op = picker.op]
    BY <1>5 DEF ChooseAsking, git, tool
  <2>2. picker.op \in Ops
    BY <1>0, <2>1 DEF PickInv
  <2>3. pc' \in Handler /\ pc'.at = action /\ pc'.then = "none" /\ pc'.s.id = 0 /\ pc'.op \in Ops
    BY <1>i, <2>1, <2>2 DEF Idle, Handler, Prompts
  <2>4. MergeTypeOK'
    BY <1>0, <2>1, <2>3 DEF MergeTypeOK, NoPicker
  <2> QED
    BY <1>0, <2>1, <2>3, <2>4, MergeTypes
    DEF MergeInv, PickInv, SessionsInv, SessionFollowsGit, StageInv, HandlerInv
<1> QED
  BY <1>1, <1>2, <1>3, <1>4, <1>5

\* A file is staged, by stage_result, by the side taken of a binary file or by the
\* deletion the user agreed to.
LEMMA StageStep ==
  ASSUME MergeInv,
         Stage \/ TakeSide \/ (\E yes \in BOOLEAN : AnswerDelete(yes))
  PROVE  MergeInv'
<1>0. /\ MergeTypeOK /\ PickInv /\ SessionsInv /\ SessionFollowsGit
      /\ StageInv /\ HandlerInv
  BY DEF MergeInv
<1>i. /\ Idle.at = "idle" /\ Idle.then = "none" /\ Idle.s.id = 0
      /\ Idle \in Handler
  BY MergeConstants
<1>1. ASSUME \/ \E entry \in {"resolved", "marked", "gone"} : Staged(entry)
             \/ UNCHANGED <<index, session>>
      PROVE  /\ index' \in [Files -> {"unmerged", "resolved", "marked", "gone"}]
             /\ session' \in Session
             /\ session'.id = session.id /\ session'.file = session.file
             /\ session' = session \/ (session.id # 0 => session'.heard = TRUE)
  BY <1>0, <1>1, StagedFacts, MergeTypes
<1>2. CASE Stage
  <2>1. /\ UNCHANGED <<kind, head, op, stop, disk, buf, opened, picker, run, budget>>
        /\ pc.at = "stage" /\ pc' = Over(pc)
        /\ (\E entry \in {"resolved", "marked", "gone"} : Staged(entry)) \/ UNCHANGED <<index, session>>
    BY <1>2, AddedEntry DEF Stage
  <2>2. pc \in Handler
    BY <1>0, MergeTypes
  <2>3. /\ pc' \in Handler
        /\ pc' = Idle \/ (pc'.at = "settled" /\ pc'.then = pc.then /\ pc'.s = pc.s /\ pc'.op = pc.op)
    BY <1>i, <2>1, <2>2 DEF Over, Handler
  <2>4. /\ index' \in [Files -> {"unmerged", "resolved", "marked", "gone"}]
        /\ session' \in Session
        /\ session'.id = session.id /\ session'.file = session.file
        /\ session' = session \/ (session.id # 0 => session'.heard = TRUE)
    BY <1>1, <2>1
  <2>5. MergeTypeOK'
    BY <1>0, <2>1, <2>3, <2>4 DEF MergeTypeOK
  <2>6. PickInv'
    BY <1>0, <1>i, <2>1 DEF PickInv
  <2>7. CASE pc' = Idle
    BY <1>0, <2>1, <2>4, <2>5, <2>6, <2>7, IdleKeeps DEF SessionsInv, SessionFollowsGit
  <2>8. CASE pc' # Idle
    BY <1>0, <2>1, <2>3, <2>4, <2>5, <2>6, <2>8
    DEF MergeInv, SessionsInv, SessionFollowsGit, StageInv, HandlerInv
  <2> QED
    BY <2>7, <2>8
<1>3. CASE TakeSide \/ \E yes \in BOOLEAN : AnswerDelete(yes)
  <2>1. /\ UNCHANGED <<kind, head, op, stop, opened, picker, run, budget>>
        /\ buf' = buf \/ \E fs \in SUBSET Files : Outdated(fs)
        /\ pc' = Idle
        /\ (\E entry \in {"resolved", "marked", "gone"} : Staged(entry)) \/ UNCHANGED <<index, session>>
        /\ disk' = disk \/ \E f \in Files, t \in {"clean", "gone"} : disk' = [disk EXCEPT ![f] = t]
    <3>0. session.file \in Files /\ pc.s.file \in Files
      BY <1>0, MergeTypes DEF Session
    <3>1. CASE TakeSide
      BY <3>0, <3>1 DEF TakeSide, ResultKey, Key
    <3>2. CASE \E yes \in BOOLEAN : AnswerDelete(yes)
      BY <3>0, <3>2 DEF AnswerDelete
    <3> QED
      BY <1>3, <3>1, <3>2
  <2>2. /\ index' \in [Files -> {"unmerged", "resolved", "marked", "gone"}]
        /\ session' \in Session
        /\ session'.id = session.id /\ session'.file = session.file
        /\ session' = session \/ (session.id # 0 => session'.heard = TRUE)
    BY <1>1, <2>1
  <2>3. disk' \in [Files -> Text \cup {"gone"}]
    BY <1>0, <2>1, MergeTypes DEF Text
  <2>b. buf' \in [Files -> Buffer]
    BY <1>0, <2>1, OutdatedBuf, MergeTypes DEF SameText
  <2>4. MergeTypeOK'
    BY <1>0, <1>i, <2>1, <2>2, <2>3, <2>b DEF MergeTypeOK, Buffer
  <2> QED
    BY <1>0, <2>1, <2>2, <2>4, IdleKeeps DEF SessionsInv, SessionFollowsGit, PickInv
<1> QED
  BY <1>2, <1>3

\* The answers that go on with the handler or start a run.
LEMMA AnswerStep ==
  ASSUME MergeInv,
         (\E yes \in BOOLEAN : AnswerContent(yes) \/ AnswerRun(yes)) \/ ContinueOn
  PROVE  MergeInv'
<1>0. /\ MergeTypeOK /\ PickInv /\ SessionsInv /\ SessionFollowsGit
      /\ StageInv /\ HandlerInv
  BY DEF MergeInv
<1>i. /\ Idle.at = "idle" /\ Idle.then = "none" /\ Idle.s.id = 0
      /\ Idle \in Handler
  BY MergeConstants
<1>h. pc \in Handler /\ session \in Session
  BY <1>0, MergeTypes
<1>1. ASSUME NEW yes \in BOOLEAN, AnswerContent(yes) PROVE MergeInv'
  <2>1. /\ UNCHANGED <<kind, head, op, stop, index, disk, buf, opened, picker, run, budget>>
        /\ pc.at = "content"
        /\ \/ /\ Unmoved
              /\ session' = [session EXCEPT !.content = TRUE]
              /\ pc' = [pc EXCEPT !.at = "stage"]
           \/ pc' = Over(pc) /\ session' = session
    BY <1>1 DEF AnswerContent, git
  <2>2. PickInv'
    BY <1>0, <1>i, <2>1 DEF PickInv
  <2>3. CASE /\ Unmoved
             /\ session' = [session EXCEPT !.content = TRUE]
             /\ pc' = [pc EXCEPT !.at = "stage"]
    <3>1. /\ session' \in Session /\ session'.id = session.id /\ session'.file = session.file
          /\ session'.head = session.head /\ session'.op = session.op
          /\ session'.heard = session.heard /\ session'.content = TRUE
      BY <1>h, <2>3 DEF Session
    <3>2. /\ pc' \in Handler /\ pc'.at = "stage" /\ pc'.then = pc.then /\ pc'.s = pc.s
          /\ pc'.op = pc.op
      BY <1>h, <2>3 DEF Handler
    <3>3. session.id = pc.s.id /\ buf[session.file].text = "bare"
      BY <1>0, <2>1, <2>3 DEF Unmoved, UnmovedSession, Shown, HandlerInv
    <3>4. MergeTypeOK'
      BY <1>0, <2>1, <3>1, <3>2 DEF MergeTypeOK
    <3>5. StageInv'
      BY <1>0, <2>1, <3>1, <3>2, <3>3 DEF StageInv
    <3>6. HandlerInv' /\ SessionsInv' /\ SessionFollowsGit'
      BY <1>0, <2>1, <3>1, <3>2, <3>4 DEF HandlerInv, SessionsInv, SessionFollowsGit
    <3> QED
      BY <2>2, <3>4, <3>5, <3>6 DEF MergeInv
  <2>4. CASE pc' = Over(pc) /\ session' = session
    <3>1. /\ pc' \in Handler
          /\ pc' = Idle \/ (pc'.at = "settled" /\ pc'.then = pc.then /\ pc'.s = pc.s /\ pc'.op = pc.op)
      BY <1>h, <1>i, <2>4 DEF Over, Handler
    <3>2. MergeTypeOK'
      BY <1>0, <2>1, <2>4, <3>1 DEF MergeTypeOK
    <3>3. CASE pc' = Idle
      BY <1>0, <2>1, <2>2, <2>4, <3>2, <3>3, IdleKeeps DEF SessionsInv, SessionFollowsGit
    <3>4. CASE pc' # Idle
      BY <1>0, <2>1, <2>2, <2>4, <3>1, <3>2, <3>4
      DEF MergeInv, SessionsInv, SessionFollowsGit, StageInv, HandlerInv
    <3> QED
      BY <3>3, <3>4
  <2> QED
    BY <2>1, <2>3, <2>4
<1>2. CASE (\E yes \in BOOLEAN : AnswerRun(yes)) \/ ContinueOn
  <2>1. /\ UNCHANGED <<kind, head, op, stop, index, disk, buf, session, opened, picker>>
        /\ pc' = Idle /\ pc # Idle
        /\ pc.op \in Ops
        /\ \/ run' = run /\ budget' = budget
           \/ \E action \in {"continue", "skip", "abort"} : Start(action)
    <3>1. CASE \E yes \in BOOLEAN : AnswerRun(yes)
      BY <1>0, <1>i, <3>1 DEF AnswerRun, git, tool, HandlerInv
    <3>2. CASE ContinueOn
      BY <1>0, <1>i, <3>2 DEF ContinueOn, git, tool, HandlerInv
    <3> QED
      BY <1>2, <3>1, <3>2
  <2>2. picker = NoPicker
    BY <1>0, <2>1 DEF PickInv
  <2>3. /\ run' = NoRun
           \/ run' \in [at : {"git", "exited"}, op : Ops, action : {"continue", "skip", "abort"}]
        /\ budget' \in [outside : 0..MaxOutside, runs : 0..MaxRuns]
        /\ run' = run \/ run' # NoRun
    <3>1. /\ budget \in [outside : 0..MaxOutside, runs : 0..MaxRuns]
          /\ run = NoRun
             \/ run \in [at : {"git", "exited"}, op : Ops, action : {"continue", "skip", "abort"}]
      BY <1>0 DEF MergeTypeOK
    <3>2. CASE run' = run /\ budget' = budget
      BY <3>1, <3>2
    <3>3. ASSUME NEW action \in {"continue", "skip", "abort"},
                 budget.runs < MaxRuns, run' = [at |-> "git", op |-> pc.op, action |-> action],
                 budget' = [budget EXCEPT !.runs = @ + 1]
          PROVE  /\ run' \in [at : {"git", "exited"}, op : Ops, action : {"continue", "skip", "abort"}]
                 /\ budget' \in [outside : 0..MaxOutside, runs : 0..MaxRuns]
                 /\ run' # NoRun
      <4>1. budget.runs + 1 \in 0..MaxRuns
        BY <3>1, <3>3, MergeAssumption
      <4> QED
        BY <2>1, <3>1, <3>3, <4>1 DEF NoRun
    <3> QED
      BY <2>1, <3>2, <3>3 DEF Start
  <2>4. MergeTypeOK'
    BY <1>0, <1>i, <2>1, <2>3 DEF MergeTypeOK
  <2> QED
    BY <1>0, <2>1, <2>2, <2>3, <2>4, IdleKeeps DEF PickInv, SessionsInv, SessionFollowsGit
<1> QED
  BY <1>1, <1>2

LEMMA SameTextKept ==
  ASSUME MergeTypeOK, buf' = buf
  PROVE  SameText
BY MergeTypes DEF SameText

\* Git moves on, or another program writes: the session hears of it, and the
\* handler under way does not stir.
LEMMA HeardKeeps ==
  ASSUME MergeInv, MergeTypeOK', SameText, UNCHANGED <<opened, picker, pc>>,
         run' = run \/ (run # NoRun /\ run' # NoRun),
         \/ session' = Hearing(session)
         \/ UNCHANGED <<session, head, op>>
  PROVE  MergeInv'
<1>0. /\ MergeTypeOK /\ PickInv /\ SessionsInv /\ SessionFollowsGit
      /\ StageInv /\ HandlerInv
  BY DEF MergeInv
<1>1. /\ session'.id = session.id /\ session'.file = session.file
      /\ session'.content = session.content
      /\ (session.id # 0 => session'.heard = TRUE) \/ UNCHANGED <<session, head, op>>
  BY <1>0, HearingFacts, MergeTypes
<1>b. /\ buf'[session'.file].text = buf[session.file].text
      /\ buf'[session'.file].modified = buf[session.file].modified
  BY <1>0, <1>1, MergeTypes DEF SameText
<1>2. PickInv' /\ HandlerInv' /\ SessionsInv'
  BY <1>0, <1>1, <1>b DEF PickInv, HandlerInv, SessionsInv
<1>3. StageInv'
  BY <1>0, <1>1, <1>b DEF StageInv
<1>4. SessionFollowsGit'
  BY <1>0, <1>1 DEF SessionFollowsGit
<1> QED
  BY <1>2, <1>3, <1>4 DEF MergeInv

LEMMA MovesFacts ==
  ASSUME MergeTypeOK, NEW h \in Nat, NEW o \in Ops \cup {Nil},
         NEW conflicts \in SUBSET Files, NEW kept, Moves(h, o, conflicts, kept)
  PROVE  /\ head' \in Nat /\ op' \in Ops \cup {Nil} /\ stop' \in Nat
         /\ index' \in [Files -> {"unmerged", "resolved", "marked", "gone"}]
         /\ disk' \in [Files -> Text \cup {"gone"}]
         /\ \A f \in Files : disk'[f] = "gone" => disk[f] = "gone"
         /\ session' = Hearing(session) /\ session' \in Session
         /\ SameText /\ (Fresh => Fresh')
<1>1. head' \in Nat /\ op' \in Ops \cup {Nil} /\ stop' \in Nat
  BY MergeTypes DEF Moves
<1>2. session' = Hearing(session) /\ session' \in Session
  BY MergeTypes, HearingFacts DEF Moves
<1>3. index' \in [Files -> {"unmerged", "resolved", "marked", "gone"}]
  BY MergeTypes DEF Moves
<1>4. /\ disk' \in [Files -> Text \cup {"gone"}]
      /\ \A f \in Files : disk'[f] = "gone" => disk[f] = "gone"
  BY MergeTypes DEF Moves, Text
<1>5. /\ SameText
      /\ \A f \in Files : ~buf'[f].stale => ~buf[f].stale /\ f \in kept \ conflicts
  <2> DEFINE fs == Files \ (kept \ conflicts)
  <2>1. Outdated(fs)
    BY DEF Moves
  <2>2. \A f \in Files : f \notin fs => f \in kept \ conflicts
    OBVIOUS
  <2> HIDE DEF fs
  <2>3. SameText /\ \A f \in Files : buf'[f].stale = (buf[f].stale \/ f \in fs)
    BY <2>1, OutdatedBuf
  <2> QED
    BY <2>2, <2>3
<1>6. \A f \in kept \ conflicts : f \in Files => disk'[f] = disk[f]
  BY DEF Moves
<1>7. Fresh => Fresh'
  BY <1>5, <1>6 DEF Fresh, FreshIn, SameText
<1> QED
  BY <1>1, <1>2, <1>3, <1>4, <1>5, <1>7

\* A step of git, of its run or of another program.
GitMoves ==
  \E h \in {head, head + 1}, o \in Ops \cup {Nil},
     conflicts \in SUBSET Files, kept \in {{}, Files} : Moves(h, o, conflicts, kept)

LEMMA GitEndsMoves ==
  ASSUME MergeTypeOK, GitEnds
  PROVE  \/ UNCHANGED <<head, op, stop, index, disk, buf, session>>
         \/ GitMoves
<1>0. op \in Ops \cup {Nil} /\ head \in Nat
  BY MergeTypes
<1>1. CASE UNCHANGED <<git, buf, session>>
  BY <1>1 DEF git
<1>2. CASE /\ run.action = "continue" /\ run.op = op /\ Conflicted = {}
           /\ \/ Moves(head + 1, Nil, {}, Files)
              \/ /\ op \in Skippable
                 /\ \E conflicts \in SUBSET Files :
                      Moves(head + 1, op, conflicts, Files)
  BY <1>0, <1>2 DEF GitMoves
<1>3. CASE /\ run.action = "skip" /\ run.op = op
           /\ \E h \in {head, head + 1} :
                \/ Moves(h, Nil, {}, {})
                \/ \E conflicts \in SUBSET Files : Moves(h, op, conflicts, {})
  BY <1>0, <1>3 DEF GitMoves
<1>4. CASE /\ run.action = "abort" /\ run.op = op
           /\ \E h \in {head, head + 1} : Moves(h, Nil, {}, {})
  BY <1>0, <1>4 DEF GitMoves
<1> QED
  BY <1>1, <1>2, <1>3, <1>4 DEF GitEnds

LEMMA GitMovesFacts ==
  ASSUME MergeTypeOK, GitMoves
  PROVE  /\ head' \in Nat /\ op' \in Ops \cup {Nil} /\ stop' \in Nat
         /\ index' \in [Files -> {"unmerged", "resolved", "marked", "gone"}]
         /\ disk' \in [Files -> Text \cup {"gone"}]
         /\ \A f \in Files : disk'[f] = "gone" => disk[f] = "gone"
         /\ session' = Hearing(session) /\ session' \in Session
         /\ SameText /\ (Fresh => Fresh')
<1>1. PICK h \in {head, head + 1}, o \in Ops \cup {Nil},
           conflicts \in SUBSET Files, kept \in {{}, Files} : Moves(h, o, conflicts, kept)
  BY DEF GitMoves
<1>2. h \in Nat
  BY <1>1, MergeTypes
<1> QED
  BY <1>1, <1>2, MovesFacts

LEMMA GitStep ==
  ASSUME MergeInv,
         GitEnds \/ OutsideGit \/ \E f \in Files : OutsideAdd(f) \/ OutsideWrite(f)
  PROVE  MergeInv'
<1>0. MergeTypeOK
  BY DEF MergeInv
<1>1. CASE GitEnds
  <2>1. /\ run.at = "git" /\ run' = [run EXCEPT !.at = "exited"]
        /\ UNCHANGED <<kind, opened, picker, pc, budget>>
    BY <1>1 DEF GitEnds
  <2>2. run \in [at : {"git", "exited"}, op : Ops, action : {"continue", "skip", "abort"}]
    BY <1>0, <2>1 DEF MergeTypeOK, NoRun
  <2>3. /\ run' \in [at : {"git", "exited"}, op : Ops, action : {"continue", "skip", "abort"}]
        /\ run # NoRun /\ run' # NoRun
    BY <2>1, <2>2 DEF NoRun
  <2>4. CASE UNCHANGED <<head, op, stop, index, disk, buf, session>>
    BY <1>0, <2>1, <2>3, <2>4, HeardKeeps, SameTextKept DEF MergeTypeOK
  <2>5. CASE GitMoves
    <3>1. MergeTypeOK' /\ SameText /\ session' = Hearing(session)
      BY <1>0, <2>1, <2>3, <2>5, GitMovesFacts DEF MergeTypeOK, SameText, Buffer
    <3> QED
      BY <2>1, <2>3, <3>1, HeardKeeps
  <2> QED
    BY <1>0, <1>1, <2>4, <2>5, GitEndsMoves
<1>b. ASSUME Outside PROVE budget' \in [outside : 0..MaxOutside, runs : 0..MaxRuns]
  <2>1. budget \in [outside : 0..MaxOutside, runs : 0..MaxRuns]
    BY <1>0 DEF MergeTypeOK
  <2>2. budget.outside < MaxOutside /\ budget' = [budget EXCEPT !.outside = @ + 1]
    BY <1>b DEF Outside
  <2>3. budget.outside + 1 \in 0..MaxOutside
    BY <2>1, <2>2, MergeAssumption
  <2> QED
    BY <2>1, <2>2, <2>3
<1>2. CASE OutsideGit
  <2>1. Outside /\ GitMoves /\ UNCHANGED <<kind, opened, picker, pc, run>>
    BY <1>2 DEF OutsideGit, GitMoves
  <2>2. MergeTypeOK' /\ SameText /\ session' = Hearing(session)
    BY <1>0, <1>b, <2>1, GitMovesFacts DEF MergeTypeOK, SameText, Buffer
  <2> QED
    BY <2>1, <2>2, HeardKeeps
<1>3. ASSUME NEW f \in Files, OutsideAdd(f) PROVE MergeInv'
  <2>1. /\ Outside /\ session' = Hearing(session)
        /\ index' = [index EXCEPT ![f] = Added(f)]
        /\ UNCHANGED <<kind, head, op, stop, disk, buf, opened, picker, pc, run>>
    BY <1>3 DEF OutsideAdd
  <2>2. session' \in Session
    BY <1>0, <2>1, HearingFacts, MergeTypes
  <2>3. index' \in [Files -> {"unmerged", "resolved", "marked", "gone"}]
    BY <1>0, <2>1, AddedEntry, MergeTypes
  <2>4. MergeTypeOK'
    BY <1>0, <1>b, <2>1, <2>2, <2>3 DEF MergeTypeOK
  <2> QED
    BY <1>0, <2>1, <2>4, HeardKeeps, SameTextKept
<1>4. ASSUME NEW f \in Files, OutsideWrite(f) PROVE MergeInv'
  <2>1. /\ Outside
        /\ \E t \in {"clean", "regions"} : disk' = [disk EXCEPT ![f] = t]
        /\ SameText
        /\ UNCHANGED <<kind, head, op, stop, index, session, opened, picker, pc, run>>
    BY <1>0, <1>4, OutdatedBuf DEF OutsideWrite, tool
  <2>2. disk' \in [Files -> Text \cup {"gone"}]
    BY <1>0, <2>1, MergeTypes DEF Text
  <2>3. MergeTypeOK'
    BY <1>0, <1>b, <2>1, <2>2 DEF MergeTypeOK, SameText, Buffer
  <2> QED
    BY <2>1, <2>3, HeardKeeps
<1> QED
  BY <1>1, <1>2, <1>3, <1>4

\* The callbacks, which run at a prompt too: the session may be another by the
\* time the prompt is answered, but then it has another number.
LEMMA CallbackKeeps ==
  ASSUME MergeInv, CallbacksRun, MergeTypeOK', picker' = picker, pc' = pc,
         run = NoRun => run' = NoRun, picker # NoPicker => run = NoRun,
         session'.id <= opened', opened <= opened',
         session'.id = session.id /\ session.id # 0
           => buf'[session.file].modified = buf[session.file].modified,
         \/ session'.id = session.id /\ session'.file = session.file
         \/ session'.id \notin 1..opened,
         pc.then = "continue" => \/ session'.id = 0
                                 \/ session'.id = session.id /\ session'.file = session.file /\ buf' = buf,
         session'.id # 0 /\ ~session'.heard /\ run' = NoRun
           => session'.head = head' /\ session'.op = op'
  PROVE  MergeInv'
<1>0. /\ MergeTypeOK /\ PickInv /\ SessionsInv /\ HandlerInv /\ StageInv
  BY DEF MergeInv
<1>1. /\ pc.at # "stage" /\ opened \in Nat /\ opened' \in Nat /\ pc.s.id \in Nat /\ session'.id \in Nat
  BY <1>0 DEF CallbacksRun, Prompts, MergeTypeOK, Handler, Session
<1>2. PickInv'
  BY <1>0 DEF PickInv
<1>3. HandlerInv'
  BY <1>0 DEF HandlerInv
<1>4. SessionsInv'
  BY <1>0, <1>1 DEF SessionsInv
<1>5. StageInv' /\ SessionFollowsGit'
  BY <1>0, <1>1 DEF StageInv, SessionsInv, SessionFollowsGit
<1> QED
  BY <1>2, <1>3, <1>4, <1>5 DEF MergeInv

LEMMA CallbackStep ==
  ASSUME MergeInv, OnGitChange \/ RunEnd
  PROVE  MergeInv'
<1>0. /\ MergeTypeOK /\ PickInv /\ SessionsInv /\ HandlerInv /\ SessionFollowsGit
  BY DEF MergeInv
<1>t. /\ session \in Session /\ opened \in 0..MaxSessions /\ buf \in [Files -> Buffer]
      /\ head \in Nat /\ stop \in Nat /\ op \in Ops \cup {Nil} /\ session.file \in Files
      /\ session.id \in Nat
  BY <1>0, MergeTypes
<1>1. CASE OnGitChange
  <2>1. /\ CallbacksRun
        /\ UNCHANGED <<kind, head, op, stop, index, disk, picker, pc, run, budget>>
        /\ IF run = NoRun /\ StaleReason THEN CloseSession
           ELSE /\ session' = [session EXCEPT !.heard = FALSE]
                /\ UNCHANGED <<opened, buf>>
    BY <1>1 DEF OnGitChange, git
  <2>2. CASE CloseSession
    <3>1. session' \in Session /\ session'.id = 0 /\ opened' = opened /\ buf' \in [Files -> Buffer]
      BY <1>0, <2>2, CloseFacts
    <3>2. MergeTypeOK'
      BY <1>0, <2>1, <3>1 DEF MergeTypeOK, Buffer
    <3> QED
      BY <1>0, <1>t, <2>1, <3>1, <3>2, CallbackKeeps DEF PickInv
  <2>3. CASE /\ ~(run = NoRun /\ StaleReason)
             /\ session' = [session EXCEPT !.heard = FALSE]
             /\ UNCHANGED <<opened, buf>>
    <3>1. /\ session' \in Session /\ session'.id = session.id /\ session'.file = session.file
          /\ session'.head = session.head /\ session'.op = session.op
      BY <1>t, <2>3 DEF Session
    <3>2. MergeTypeOK'
      BY <1>0, <2>1, <2>3, <3>1 DEF MergeTypeOK
    <3>3. run' = NoRun => session'.head = head' /\ session'.op = op'
      BY <2>1, <2>3, <3>1 DEF StaleReason
    <3> QED
      BY <1>0, <1>t, <2>1, <2>3, <3>1, <3>2, <3>3, CallbackKeeps DEF PickInv, SessionsInv
  <2> QED
    BY <2>1, <2>2, <2>3
<1>2. CASE RunEnd
  <2>1. /\ CallbacksRun /\ run.at = "exited" /\ run' = NoRun
        /\ UNCHANGED <<kind, head, op, stop, index, disk, picker, pc, budget>>
        /\ AfterOperation
    BY <1>2 DEF RunEnd, git
  <2>2. run # NoRun /\ picker = NoPicker /\ pc.then # "continue"
    BY <1>0, <2>1 DEF NoRun, PickInv, HandlerInv
  <2>3. /\ session' \in Session /\ buf' \in [Files -> Buffer] /\ opened' \in 0..MaxSessions
        /\ session'.id <= opened' /\ opened <= opened'
        /\ \/ session'.id = session.id /\ session'.file = session.file
           \/ session'.id \notin 1..opened
        /\ session'.id = session.id /\ session.id # 0
             => buf'[session.file].modified = buf[session.file].modified
        /\ session'.id # 0 => session'.head = head /\ session'.op = op
    <3>1. CASE /\ session' = IF session.id = 0 THEN session
                             ELSE [session EXCEPT !.head = head, !.op = op, !.stop = stop]
               /\ buf' = IF session.id = 0 THEN buf ELSE Reloaded(buf, session.file)
               /\ UNCHANGED opened
      <4>1. /\ session' \in Session /\ session'.id = session.id /\ session'.file = session.file
            /\ session'.id # 0 => session'.head = head /\ session'.op = op
        BY <1>t, <3>1 DEF Session
      <4>2. /\ buf' \in [Files -> Buffer]
            /\ buf'[session.file].modified = buf[session.file].modified
        BY <1>0, <1>t, <3>1, ReloadedBuf
      <4> QED
        BY <1>0, <1>t, <3>1, <4>1, <4>2 DEF SessionsInv
    <3>2. ASSUME NEW f \in Conflicted, LayOut(f, Conflicted)
          PROVE  /\ session' \in Session /\ buf' \in [Files -> Buffer]
                 /\ opened' \in 0..MaxSessions
                 /\ session'.id <= opened' /\ opened <= opened' /\ session'.id \notin 1..opened
                 /\ session'.head = head /\ session'.op = op
      <4>1. f \in Files /\ Conflicted \in SUBSET Files
        BY <1>0, MergeTypes
      <4>2. /\ session' \in Session /\ session'.id = opened + 1
            /\ session'.head = head /\ session'.op = op
            /\ opened' = opened + 1 /\ opened' \in 0..MaxSessions
            /\ buf' \in [Files -> Buffer]
        BY <1>0, <3>2, <4>1, LayOutFacts
      <4> QED
        BY <1>t, <4>2
    <3>3. CASE CloseSession
      <4>1. session' \in Session /\ session'.id = 0 /\ opened' = opened /\ buf' \in [Files -> Buffer]
        BY <1>0, <3>3, CloseFacts
      <4> QED
        BY <1>t, <4>1
    <3>4. ASSUME {f \in Conflicted : Builds(f)} # {},
                 LayOut(CHOOSE f \in {g \in Conflicted : Builds(g)} :
                             \A g \in {e \in Conflicted : Builds(e)} : f <= g, Conflicted)
          PROVE  \E f \in Conflicted : LayOut(f, Conflicted)
      <4> DEFINE T == {f \in Conflicted : Builds(f)}
      <4>1. T \in SUBSET Nat /\ T # {} /\ T \subseteq Conflicted
        BY <1>0, <3>4, MergeTypes, MergeConstants
      <4>2. \E x \in T : \A y \in T : x <= y
        BY <4>1, Least
      <4>3. LayOut(CHOOSE f \in T : \A g \in T : f <= g, Conflicted)
        BY <3>4
      <4> HIDE DEF T
      <4>4. (CHOOSE f \in T : \A g \in T : f <= g) \in T
        BY <4>2
      <4> QED
        BY <4>1, <4>3, <4>4
    <3>5. session.id # 0 => session.id \in 1..opened
      BY <1>0, <1>t DEF SessionsInv
    <3>6. CASE \E f \in Conflicted : LayOut(f, Conflicted)
      BY <3>2, <3>5, <3>6
    <3> QED
      BY <2>1, <3>1, <3>3, <3>4, <3>6 DEF AfterOperation
  <2>4. MergeTypeOK'
    BY <1>0, <2>1, <2>3 DEF MergeTypeOK, Buffer
  <2> QED
    BY <2>1, <2>2, <2>3, <2>4, CallbackKeeps
<1> QED
  BY <1>1, <1>2

LEMMA MergeStep ==
  ASSUME MergeInv, [MergeNext]_mergeVars
  PROVE  MergeInv'
<1>1. CASE User
  <2>1. CASE Pick(ConflictsLeft = 0)
    <3>1. (ConflictsLeft = 0) \in BOOLEAN
      OBVIOUS
    <3>2. \E resolved \in BOOLEAN : Pick(resolved)
      BY <2>1, <3>1
    <3> QED
      BY <3>2, PromptStep
  <2> QED
    BY <1>1, <2>1, OpenStep, EditStep, SaveStep, PromptStep, StageStep, AnswerStep DEF User
<1>2. CASE UNCHANGED mergeVars
  BY <1>2
  DEF mergeVars, git, tool, MergeInv, MergeTypeOK, PickInv, HandlerInv, SessionsInv,
      StageInv, SessionFollowsGit
<1> QED
  BY <1>1, <1>2, OpenStep, StageStep, AnswerStep, GitStep, CallbackStep DEF MergeNext

LEMMA MergeStarts ==
  ASSUME MergeInit
  PROVE  MergeInv
<1>1. MergeTypeOK
  BY MergeConstants, MergeAssumption
  DEF MergeInit, MergeTypeOK, NoPicker, Text
<1>2. Idle.at = "idle" /\ Idle.then = "none" /\ Idle.s.id = 0
  BY MergeConstants
<1> QED
  BY <1>1, <1>2, MergeConstants
  DEF MergeInit, MergeInv, PickInv, HandlerInv, SessionsInv, StageInv, SessionFollowsGit

-----------------------------------------------------------------------------
(* The buffers and their files.                                            *)

LEMMA SaveFresh ==
  ASSUME MergeTypeOK, Fresh,
         Write \/ (\E dir \in {"next", "prev"} : Step(dir)) \/ Finish \/ ChooseContinue
  PROVE  Fresh'
<1>1. CASE Write
  <2>1. Written(Begin("none", Nil))
    BY <1>1 DEF Write
  <2> QED
    BY <2>1, BeginFacts, WrittenSaves DEF Saved
<1>2. ASSUME NEW dir \in {"next", "prev"}, Step(dir) PROVE Fresh'
  <2>1. Settle(Begin(dir, Nil))
    BY <1>2 DEF Step
  <2> QED
    BY <2>1, BeginFacts, SettleSaves DEF Saved
<1>3. CASE Finish
  <2>1. Settle(Begin("finish", Nil))
    BY <1>3 DEF Finish
  <2> QED
    BY <2>1, BeginFacts, SettleSaves DEF Saved
<1>4. CASE ChooseContinue
  <2>1. picker.op \in Ops \cup {Nil}
    BY DEF MergeTypeOK
  <2>2. Settle(Begin("continue", picker.op)) \/ UNCHANGED <<disk, buf>>
    BY <1>4 DEF ChooseContinue
  <2> QED
    BY <2>1, <2>2, BeginFacts, SettleSaves DEF Saved, Fresh
<1> QED
  BY <1>1, <1>2, <1>3, <1>4

\* The session is opened, closed or read again: no file is written.
LEMMA SessionFresh ==
  ASSUME MergeTypeOK, Fresh, disk' = disk,
         \/ CloseSession
         \/ \E f \in Files, files \in SUBSET Files : LayOut(f, files)
         \/ buf' = buf
         \/ buf' = Reloaded(buf, session.file)
         \/ \E t \in Text : Splice(t)
  PROVE  Fresh'
<1>1. buf \in [Files -> Buffer] /\ session.file \in Files
  BY MergeTypes
<1>2. FreshIn(buf', disk)
  <2>1. CASE CloseSession
    BY <2>1, CloseFacts
  <2>2. CASE \E f \in Files, files \in SUBSET Files : LayOut(f, files)
    BY <2>2, LayOutFacts
  <2>3. CASE buf' = buf
    BY <2>3 DEF Fresh
  <2>4. CASE buf' = Reloaded(buf, session.file)
    BY <1>1, <2>4, ReloadedBuf DEF Fresh
  <2>5. CASE \E t \in Text : Splice(t)
    BY <1>1, <2>5, SpliceFacts
  <2> QED
    BY <2>1, <2>2, <2>3, <2>4, <2>5
<1> QED
  BY <1>2 DEF Fresh

\* What writes a file past its buffer marks it.
LEMMA WriteFresh ==
  ASSUME MergeTypeOK, Fresh, NEW f \in Files, NEW t,
         disk' = [disk EXCEPT ![f] = t], Outdated({f})
  PROVE  Fresh'
<1>1. SameText /\ \A g \in Files : buf'[g].stale = (buf[g].stale \/ g \in {f})
  BY OutdatedBuf
<1>2. \A g \in Files \ {f} : disk'[g] = disk[g]
  BY MergeTypes
<1> QED
  BY <1>1, <1>2 DEF Fresh, FreshIn, SameText

LEMMA FreshStep ==
  ASSUME MergeTypeOK, Fresh, [MergeNext]_mergeVars
  PROVE  Fresh'
<1>t. session.file \in Files /\ pc.s.file \in Files /\ Conflicted \subseteq Files
      /\ "clean" \in Text
  BY MergeTypes DEF Session, Text
<1>1. CASE User
  <2>1. CASE (\E f \in Files : Open(f)) \/ Close
    <3>1. disk' = disk
          /\ (CloseSession \/ \E f \in Files : LayOut(f, Conflicted))
      BY <2>1 DEF Open, Close, git
    <3> QED
      BY <1>t, <3>1, SessionFresh
  <2>2. CASE (\E t \in Text \ {"indented"} : Edit(t)) \/ TakeRegion \/ TakeBroken
               \/ (\E yes \in BOOLEAN : AnswerTake(yes))
    <3>1. disk' = disk /\ (buf' = buf \/ \E t \in Text : Splice(t))
      BY <1>t, <2>2 DEF Edit, TakeRegion, TakeBroken, AnswerTake, git, Text
    <3> QED
      BY <3>1, SessionFresh
  <2>3. CASE TakeSide
    BY <1>t, <2>3, WriteFresh DEF TakeSide
  <2>4. CASE Write \/ (\E dir \in {"next", "prev"} : Step(dir)) \/ Finish \/ ChooseContinue
    BY <2>4, SaveFresh
  <2>5. CASE TakeDelete \/ Pick(TRUE) \/ Pick(ConflictsLeft = 0) \/ Dismiss
               \/ (\E action \in {"skip", "abort"} : ChooseAsking(action))
               \/ (\E yes \in BOOLEAN : AnswerContent(yes) \/ AnswerRun(yes))
    <3>1. disk' = disk /\ buf' = buf
      BY <2>5 DEF TakeDelete, Pick, Dismiss, ChooseAsking, AnswerContent, AnswerRun, git
    <3> QED
      BY <3>1, SessionFresh
  <2>6. ASSUME NEW yes \in BOOLEAN, AnswerDelete(yes) PROVE Fresh'
    <3>1. UNCHANGED <<disk, buf>>
          \/ (disk' = [disk EXCEPT ![pc.s.file] = "gone"] /\ Outdated({pc.s.file}))
      BY <2>6 DEF AnswerDelete
    <3> QED
      BY <1>t, <3>1, SessionFresh, WriteFresh
  <2> QED
    BY <1>1, <2>1, <2>2, <2>3, <2>4, <2>5, <2>6 DEF User
<1>2. CASE Stage \/ Unsettled \/ ContinueOn
             \/ (\E f \in Files : OutsideAdd(f)) \/ UNCHANGED mergeVars
  <2>1. disk' = disk /\ buf' = buf
    BY <1>2 DEF Stage, Unsettled, ContinueOn, OutsideAdd, git, mergeVars
  <2> QED
    BY <2>1, SessionFresh
<1>3. CASE StepOn
  <2>1. /\ disk' = disk
        /\ buf' = buf \/ \E g \in Nearest(Begun, pc.then) : LayOut(g, Begun.files)
    BY <1>3 DEF StepOn, git
  <2>2. Begun \in Session
    BY MergeTypes DEF Begun
  <2>3. Begun.files \in SUBSET Files
    BY <2>2 DEF Session
  <2>4. Nearest(Begun, pc.then) \subseteq Files
    BY <2>3 DEF Nearest, Candidates
  <2> QED
    BY <2>1, <2>3, <2>4, SessionFresh
<1>4. CASE Finished \/ OnGitChange
  <2>1. disk' = disk /\ (CloseSession \/ buf' = buf)
    BY <1>4 DEF Finished, OnGitChange, git
  <2> QED
    BY <2>1, SessionFresh
<1>5. CASE RunEnd
  <2> DEFINE T == {f \in Conflicted : Builds(f)}
  <2>1. disk' = disk /\ AfterOperation
    BY <1>5 DEF RunEnd, git
  <2>2. ASSUME T # {}, LayOut(CHOOSE f \in T : \A g \in T : f <= g, Conflicted)
        PROVE  \E f \in Files : LayOut(f, Conflicted)
    <3>1. T \in SUBSET Nat /\ T # {} /\ T \subseteq Files
      BY <1>t, <2>2, MergeConstants
    <3> HIDE DEF T
    <3>2. \E x \in T : \A y \in T : x <= y
      BY <3>1, Least
    <3>3. (CHOOSE f \in T : \A g \in T : f <= g) \in T
      BY <3>2
    <3> QED
      BY <2>2, <3>1, <3>3
  <2>3. \/ CloseSession
        \/ buf' = buf
        \/ buf' = Reloaded(buf, session.file)
        \/ T # {} /\ LayOut(CHOOSE f \in T : \A g \in T : f <= g, Conflicted)
    BY <2>1 DEF AfterOperation
  <2> HIDE DEF T
  <2> QED
    BY <1>t, <2>1, <2>2, <2>3, SessionFresh
<1>6. CASE GitEnds
  <2>1. UNCHANGED <<disk, buf>> \/ GitMoves
    BY <1>6, GitEndsMoves
  <2> QED
    BY <2>1, SessionFresh, GitMovesFacts
<1>7. CASE OutsideGit
  <2>1. GitMoves
    BY <1>7 DEF OutsideGit, GitMoves
  <2> QED
    BY <2>1, GitMovesFacts
<1>8. CASE \E f \in Files : OutsideWrite(f)
  BY <1>8, WriteFresh DEF OutsideWrite
<1> QED
  BY <1>1, <1>2, <1>3, <1>4, <1>5, <1>6, <1>7, <1>8 DEF MergeNext

\* stage_result runs for the session its write or its prompt was about, on a buffer
\* free of unconfirmed markers, and what git add takes is that buffer's text unless
\* something else wrote the file since, however many files, sessions, runs and
\* outside writes meet (on_write, confirm_content).
THEOREM ResultStaged ==
  MergeSpec => []StagesTheResult
<1>1. MergeInit => MergeInv /\ Fresh
  BY MergeStarts DEF MergeInit, Fresh, FreshIn
<1>2. MergeInv /\ Fresh /\ [MergeNext]_mergeVars => MergeInv' /\ Fresh'
  BY MergeStep, FreshStep DEF MergeInv
<1>3. MergeInv /\ Fresh => StagesTheResult
  <2> SUFFICES ASSUME MergeInv, Fresh, pc.at = "stage" PROVE StagesTheResult
    BY DEF StagesTheResult
  <2>1. session.file \in Files
    BY MergeTypes DEF MergeInv
  <2> QED
    BY <2>1 DEF MergeInv, StageInv, Fresh, FreshIn, StagesTheResult, Shown
<1> QED
  BY <1>1, <1>2, <1>3, PTL DEF MergeSpec

\* A watcher with nothing to tell leaves the session on git's HEAD and operation
\* (stale_reason, after_operation).
THEOREM SessionOnHead ==
  MergeSpec => []SessionFollowsGit
<1>1. MergeInit => MergeInv
  BY MergeStarts
<1>2. MergeInv /\ [MergeNext]_mergeVars => MergeInv'
  BY MergeStep
<1>3. MergeInv => SessionFollowsGit
  BY DEF MergeInv
<1> QED
  BY <1>1, <1>2, <1>3, PTL DEF MergeSpec

\* No step but the answer to its prompt makes a file go.
Keeps == \A f \in Files : disk'[f] = "gone" => disk[f] = "gone"

LEMMA SaveKeeps ==
  ASSUME MergeTypeOK,
         Write \/ (\E dir \in {"next", "prev"} : Step(dir)) \/ Finish \/ ChooseContinue
  PROVE  Keeps
<1>1. CASE Write
  <2>1. Written(Begin("none", Nil))
    BY <1>1 DEF Write
  <2> QED
    BY <2>1, BeginFacts, WrittenSaves DEF Saved, Keeps
<1>2. ASSUME NEW dir \in {"next", "prev"}, Step(dir) PROVE Keeps
  <2>1. Settle(Begin(dir, Nil))
    BY <1>2 DEF Step
  <2> QED
    BY <2>1, BeginFacts, SettleSaves DEF Saved, Keeps
<1>3. CASE Finish
  <2>1. Settle(Begin("finish", Nil))
    BY <1>3 DEF Finish
  <2> QED
    BY <2>1, BeginFacts, SettleSaves DEF Saved, Keeps
<1>4. CASE ChooseContinue
  <2>1. picker.op \in Ops \cup {Nil}
    BY DEF MergeTypeOK
  <2>2. Settle(Begin("continue", picker.op)) \/ disk' = disk
    BY <1>4 DEF ChooseContinue
  <2> QED
    BY <2>1, <2>2, BeginFacts, SettleSaves DEF Saved, Keeps
<1> QED
  BY <1>1, <1>2, <1>3, <1>4

LEMMA OthersKeep ==
  ASSUME MergeTypeOK, [MergeNext]_mergeVars,
         ~\E yes \in BOOLEAN : AnswerDelete(yes)
  PROVE  Keeps
<1>1. CASE User
  <2>1. CASE (\E f \in Files : Open(f)) \/ Close
    BY <2>1 DEF Open, Close, git, Keeps
  <2>2. CASE (\E t \in Text \ {"indented"} : Edit(t)) \/ TakeRegion \/ TakeBroken
               \/ TakeDelete
    BY <2>2 DEF Edit, TakeRegion, TakeBroken, TakeDelete, git, Keeps
  <2>3. CASE TakeSide
    BY <2>3, MergeTypes DEF TakeSide, Keeps
  <2>4. CASE Write \/ (\E dir \in {"next", "prev"} : Step(dir)) \/ Finish \/ ChooseContinue
    BY <2>4, SaveKeeps
  <2>5. CASE Pick(TRUE) \/ Pick(ConflictsLeft = 0) \/ Dismiss
               \/ (\E action \in {"skip", "abort"} : ChooseAsking(action))
    BY <2>5 DEF Pick, Dismiss, ChooseAsking, git, Keeps
  <2>6. CASE \E yes \in BOOLEAN : AnswerContent(yes) \/ AnswerTake(yes) \/ AnswerRun(yes)
    BY <2>6 DEF AnswerContent, AnswerTake, AnswerRun, git, Keeps
  <2> QED
    BY <1>1, <2>1, <2>2, <2>3, <2>4, <2>5, <2>6 DEF User
<1>2. CASE Stage \/ Unsettled \/ StepOn \/ Finished \/ ContinueOn
             \/ OnGitChange \/ RunEnd
  BY <1>2 DEF Stage, Unsettled, StepOn, Finished, ContinueOn, OnGitChange,
              RunEnd, git, Keeps
<1>3. CASE GitEnds
  BY <1>3, GitEndsMoves, GitMovesFacts DEF Keeps
<1>4. CASE OutsideGit
  <2>1. GitMoves
    BY <1>4 DEF OutsideGit, GitMoves
  <2> QED
    BY <2>1, GitMovesFacts DEF Keeps
<1>5. CASE \E f \in Files : OutsideAdd(f) \/ OutsideWrite(f)
  BY <1>5, MergeTypes DEF OutsideAdd, OutsideWrite, Keeps
<1>6. CASE UNCHANGED mergeVars
  BY <1>6 DEF mergeVars, git, Keeps
<1> QED
  BY <1>1, <1>2, <1>3, <1>4, <1>5, <1>6 DEF MergeNext

LEMMA DeleteStep ==
  ASSUME MergeInv, [MergeNext]_mergeVars,
         NEW f \in Files, disk[f] # "gone", disk'[f] = "gone"
  PROVE  session.id # 0 /\ session.file = f
<1>0. MergeTypeOK /\ SessionsInv
  BY DEF MergeInv
<1>1. PICK yes \in BOOLEAN : AnswerDelete(yes)
  BY <1>0, OthersKeep DEF Keeps
<1>2. /\ pc.at = "delete" /\ session.id = pc.s.id
      /\ disk' = [disk EXCEPT ![pc.s.file] = "gone"]
  BY <1>1 DEF AnswerDelete, UnmovedSession
<1>3. pc.s.file = f
  BY <1>2
<1> QED
  BY <1>0, <1>2, <1>3 DEF SessionsInv

\* A run starts from the answer to its prompt, or from a result that is settled.
LEMMA ContinueStep ==
  ASSUME MergeInv, [MergeNext]_mergeVars,
         run = NoRun, run'.action = "continue"
  PROVE  Conflicted = {} /\ (session.id # 0 => ~buf[session.file].modified)
<1>0. HandlerInv /\ NoRun.action = "none" /\ NoRun.at = "none"
  BY DEF MergeInv, NoRun
<1>1. run' # run
  BY <1>0
<1>2. ~AnswerRun(TRUE) /\ ~AnswerRun(FALSE)
  <2>1. ASSUME NEW yes \in BOOLEAN, AnswerRun(yes) PROVE FALSE
    <3>1. pc.at \in {"skip", "abort"} /\ run' = [at |-> "git", op |-> pc.op, action |-> pc.at]
      BY <1>1, <2>1 DEF AnswerRun, Start
    <3> QED
      BY <3>1
  <2> QED
    BY <2>1
<1>3. ContinueOn
  <2>1. ~User
    BY <1>1, <1>2
    DEF User, Open, Close, Edit, TakeRegion, TakeBroken, TakeDelete,
        TakeSide, Write, Step, Finish, ChooseContinue, Pick, Dismiss,
        ChooseAsking, AnswerContent, AnswerTake, AnswerDelete
  <2>2. ~(Stage \/ Unsettled \/ StepOn \/ Finished \/ OnGitChange)
    BY <1>1 DEF Stage, Unsettled, StepOn, Finished, OnGitChange
  <2>3. ~(GitEnds \/ RunEnd)
    BY <1>0 DEF GitEnds, RunEnd
  <2>4. ~(OutsideGit \/ \E f \in Files : OutsideAdd(f) \/ OutsideWrite(f))
    BY <1>1 DEF OutsideGit, OutsideAdd, OutsideWrite
  <2>5. ~UNCHANGED mergeVars
    BY <1>1 DEF mergeVars
  <2> QED
    BY <2>1, <2>2, <2>3, <2>4, <2>5 DEF MergeNext
<1>4. pc.then = "continue" /\ Conflicted = {}
  BY <1>1, <1>3 DEF ContinueOn
<1> QED
  BY <1>0, <1>4 DEF HandlerInv

\* A file is deleted for the session that asked, while it is open on that file
\* (delete_file), whatever the watcher and the end of a run did at the prompt.
THEOREM DeletesAsked ==
  MergeSpec => DeletesInSession
<1>1. MergeInit => MergeInv
  BY MergeStarts
<1>2. MergeInv /\ [MergeNext]_mergeVars => MergeInv'
  BY MergeStep
<1>3. MergeInv /\ [MergeNext]_mergeVars
        => [\A f \in Files : disk[f] # "gone" /\ disk'[f] = "gone"
              => session.id # 0 /\ session.file = f]_mergeVars
  BY DeleteStep
<1> QED
  BY <1>1, <1>2, <1>3, PTL DEF MergeSpec, DeletesInSession

\* git continues only with nothing conflicted and the open result saved
\* (resolved, settle_result), whatever its prompts let run.
THEOREM ContinuedSaved ==
  MergeSpec => ContinuesSaved
<1>1. MergeInit => MergeInv
  BY MergeStarts
<1>2. MergeInv /\ [MergeNext]_mergeVars => MergeInv'
  BY MergeStep
<1>3. MergeInv /\ [MergeNext]_mergeVars
        => [run = NoRun /\ run'.action = "continue"
              => /\ Conflicted = {}
                 /\ session.id # 0 => ~buf[session.file].modified]_mergeVars
  BY ContinueStep
<1> QED
  BY <1>1, <1>2, <1>3, PTL DEF MergeSpec, ContinuesSaved
=============================================================================
