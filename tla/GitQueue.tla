------------------------------ MODULE GitQueue ------------------------------
(***************************************************************************)
(* Running git off the main loop, lua/differ/git/exec.lua: M.async and     *)
(* M.await turn a git command into a yield, M.submit runs the tasks of one *)
(* repository root one after the other, and M.supersede drops the results  *)
(* of every task submitted so far.  One queue is modelled; the queues of   *)
(* different roots share nothing.                                          *)
(*                                                                         *)
(* A task is a coroutine that runs git any number of times and returns or  *)
(* raises; between two of its yields nothing else runs.  What git printed  *)
(* is left out: a resume carries the identity of the command it is for.    *)
(***************************************************************************)
EXTENDS GitQueueOps, FiniteSets

CONSTANTS
  Jobs,        \* the tasks submitted, each once
  None,        \* no task
  MaxCmds,     \* bound: git commands spawned
  MaxGen       \* bound: calls of M.supersede

ASSUME QueueAssumption ==
  /\ None \notin Jobs
  /\ MaxCmds \in Nat
  /\ MaxGen \in Nat

Cmds == 1..MaxCmds

VARIABLES
  generation,  \* q.generation
  busy,        \* q.busy
  pending,     \* q.pending
  task,        \* each task: how far it is, and the command it awaits (0: none)
  cmds,        \* the git commands run_yielding started
  sched,       \* vim.schedule's queue
  delivered    \* the tasks whose on_done has run, in order

vars == <<generation, busy, pending, task, cmds, sched, delivered>>

Job == [job : Jobs, generation : Nat]

\* "running": its coroutine exists; "returned": it ended and its on_done is
\* scheduled; "over": on_done ran or was dropped, or the task never started.
TaskRec == [st : {"new", "queued", "running", "returned", "over"},
            generation : Nat, awaits : {0} \cup Cmds]

\* A command is "up" until vim.system reports its exit; `guard`: the timer of
\* run_yielding runs; `settled`: await's flag.
CmdRec == [st : {"none", "up", "exited"}, job : Jobs \cup {None},
           guard : BOOLEAN, settled : BOOLEAN]

\* A scheduled function: resume the coroutine of `job` with what command
\* `cmd` gave, or run the on_done of `job`.
Callback == [k : {"resume", "done"}, job : Jobs, cmd : {0} \cup Cmds]

Resume(j, x) == [k |-> "resume", job |-> j, cmd |-> x]
Done(j) == [k |-> "done", job |-> j, cmd |-> 0]

-----------------------------------------------------------------------------
\* queue_for on a root seen for the first time.
Init ==
  /\ generation = 0
  /\ busy = FALSE
  /\ pending = <<>>
  /\ task = [j \in Jobs |-> [st |-> "new", generation |-> 0, awaits |-> 0]]
  /\ cmds = [x \in Cmds |-> [st |-> "none", job |-> None, guard |-> FALSE,
                             settled |-> FALSE]]
  /\ sched = <<>>
  /\ delivered = <<>>

\* The command the next spawn yields.
Spawnable(x) ==
  /\ cmds[x].st = "none"
  /\ \A y \in Cmds : y < x => cmds[y].st # "none"

-----------------------------------------------------------------------------
(* Coroutines.                                                             *)

\* run_yielding: git is up, with a guard when the call has a timeout, and the
\* coroutine of j yields until it answers.
RunGit(t, j, x, guard, s) ==
  /\ cmds' = [cmds EXCEPT ![x] = [st |-> "up", job |-> j, guard |-> guard,
                                  settled |-> FALSE]]
  /\ task' = [t EXCEPT ![j].st = "running", ![j].awaits = x]
  /\ sched' = s

\* run_yielding when vim.system raises: done is called before the yield.
RunNothing(t, j, x, s) ==
  /\ cmds' = [cmds EXCEPT ![x] = [st |-> "exited", job |-> j, guard |-> FALSE,
                                  settled |-> TRUE]]
  /\ task' = [t EXCEPT ![j].st = "running", ![j].awaits = x]
  /\ sched' = Append(s, Resume(j, x))

\* The task returns or raises: M.async schedules on_done.
Return(t, j, s) ==
  /\ task' = [t EXCEPT ![j].st = "returned", ![j].awaits = 0]
  /\ sched' = Append(s, Done(j))
  /\ UNCHANGED cmds

\* The coroutine of j runs until it yields or ends.
Proceed(t, j, s) ==
  \/ \E x \in Cmds, guard \in BOOLEAN : Spawnable(x) /\ RunGit(t, j, x, guard, s)
  \/ \E x \in Cmds : Spawnable(x) /\ RunNothing(t, j, x, s)
  \/ Return(t, j, s)

\* The function await hands to its starter: the first call schedules the
\* coroutine's resumption, the others do nothing.
ResumeEveryTime(x) == sched' = Append(sched, Resume(cmds[x].job, x))

ResumeOnce(x) ==
  sched' = IF cmds[x].settled THEN sched
           ELSE Append(sched, Resume(cmds[x].job, x))

-----------------------------------------------------------------------------
(* The queue.                                                              *)

\* The tasks once drain has taken the superseded ones off list p.
Dropping(g, p, t) ==
  [j \in Jobs |-> IF \E i \in Skipped(p, g) : p[i].job = j
                  THEN [t[j] EXCEPT !.st = "over"] ELSE t[j]]

DrainKeepsBusy(g, p, t, s) ==
  \/ /\ Startable(p, g) = {}
     /\ pending' = <<>>
     /\ task' = Dropping(g, p, t)
     /\ sched' = s
     /\ UNCHANGED <<busy, cmds>>
  \/ \E i \in DOMAIN p :
       /\ IsNext(i, p, g)
       /\ busy' = TRUE
       /\ pending' = After(p, i)
       /\ Proceed(Dropping(g, p, t), p[i].job, s)

\* drain, g, p, t and s being the generation, the list, the tasks and the
\* scheduled functions it finds.
Drain(g, p, t, s) ==
  \/ /\ Startable(p, g) = {}
     /\ busy' = FALSE
     /\ pending' = <<>>
     /\ task' = Dropping(g, p, t)
     /\ sched' = s
     /\ UNCHANGED cmds
  \/ \E i \in DOMAIN p :
       /\ IsNext(i, p, g)
       /\ busy' = TRUE
       /\ pending' = After(p, i)
       /\ Proceed(Dropping(g, p, t), p[i].job, s)

\* table.insert in M.submit.
Inserted(p, j) == Append(p, [job |-> j, generation |-> generation])
Queued(t, j) == [t EXCEPT ![j].st = "queued", ![j].generation = generation]

\* The rest of M.submit: an idle queue starts at once.
SubmitDrain(j) ==
  IF busy
  THEN /\ pending' = Inserted(pending, j)
       /\ task' = Queued(task, j)
       /\ UNCHANGED <<busy, cmds, sched>>
  ELSE Drain(generation, Inserted(pending, j), Queued(task, j), sched)

Submit(j) ==
  /\ task[j].st = "new"
  /\ SubmitDrain(j)
  /\ UNCHANGED <<generation, delivered>>

Supersede ==
  /\ generation < MaxGen
  /\ generation' = generation + 1
  /\ UNCHANGED <<busy, pending, task, cmds, sched, delivered>>

-----------------------------------------------------------------------------
(* libuv's side.                                                           *)

\* vim.system's on_exit: git has exited and its pipes are closed.  `done`
\* closes the guard.
OnExit(x) ==
  /\ cmds[x].st = "up"
  /\ ResumeOnce(x)
  /\ cmds' = [cmds EXCEPT ![x].st = "exited", ![x].guard = FALSE,
                          ![x].settled = TRUE]
  /\ UNCHANGED <<generation, busy, pending, task, delivered>>

\* The guard of run_yielding fires: it kills git, whose exit is still to come,
\* and gives up on it.
GuardFire(x) ==
  /\ cmds[x].guard
  /\ ResumeOnce(x)
  /\ cmds' = [cmds EXCEPT ![x].guard = FALSE, ![x].settled = TRUE]
  /\ UNCHANGED <<generation, busy, pending, task, delivered>>

-----------------------------------------------------------------------------
(* The main loop.                                                          *)

\* await's scheduled half: coroutine.resume.
RunResume(cb) ==
  /\ cb.k = "resume"
  /\ Proceed(task, cb.job, Tail(sched))
  /\ UNCHANGED <<generation, busy, pending, delivered>>

NeverStale(j) == FALSE

\* drain's callback asks it of the task that returned.
Stale(j) == task[j].generation # generation

\* drain's callback: on_done unless superseded, then the next task.  on_done
\* may itself submit (the queue is busy, so the task waits) or supersede.
RunDone(cb) ==
  /\ cb.k = "done"
  /\ LET j == cb.job
         t == [task EXCEPT ![j].st = "over"]
     IN \/ /\ Stale(j)
           /\ UNCHANGED <<delivered, generation>>
           /\ Drain(generation, pending, t, Tail(sched))
        \/ /\ ~Stale(j)
           /\ delivered' = Append(delivered, j)
           /\ \/ /\ UNCHANGED generation
                 /\ Drain(generation, pending, t, Tail(sched))
              \/ /\ UNCHANGED generation
                 /\ \E k \in Jobs :
                      /\ task[k].st = "new"
                      /\ Drain(generation, Inserted(pending, k), Queued(t, k),
                               Tail(sched))
              \/ /\ generation < MaxGen
                 /\ generation' = generation + 1
                 /\ Drain(generation + 1, pending, t, Tail(sched))

RunScheduled ==
  /\ sched # <<>>
  /\ RunResume(Head(sched)) \/ RunDone(Head(sched))

-----------------------------------------------------------------------------
Next ==
  \/ \E j \in Jobs : Submit(j)
  \/ Supersede
  \/ \E x \in Cmds : OnExit(x) \/ GuardFire(x)
  \/ RunScheduled

\* The loop runs what is scheduled.  A command with a timeout is answered by
\* its guard at the latest; one without must end by itself.
Fairness ==
  /\ WF_vars(RunScheduled)
  /\ \A x \in Cmds :
       WF_vars(~cmds[x].settled /\ (OnExit(x) \/ GuardFire(x)))

Spec == Init /\ [][Next]_vars
FairSpec == Spec /\ Fairness

-----------------------------------------------------------------------------
\* Every variable has its type: tasks, commands, the queue and its timers.
TypeOK ==
  /\ generation \in Nat
  /\ busy \in BOOLEAN
  /\ pending \in Seq(Job)
  /\ task \in [Jobs -> TaskRec]
  /\ cmds \in [Cmds -> CmdRec]
  /\ sched \in Seq(Callback)
  /\ delivered \in Seq(Jobs)

InFlight == {j \in Jobs : task[j].st \in {"running", "returned"}}

\* One task at a time, and `idle` tells the truth (drain, submit, idle): the
\* queue is busy exactly while one task is between its start and its on_done,
\* and an idle queue has nothing waiting.
OneAtATime ==
  /\ busy => \E j \in Jobs : InFlight = {j}
  /\ ~busy => InFlight = {} /\ pending = <<>>

\* A coroutine is resumed once for each yield, with what its own command gave
\* (await, run_yielding): the exit that follows the guard's kill, in whatever
\* order the loop sees them, never resumes the task's next yield.
OwnResult ==
  \A i \in DOMAIN sched :
    sched[i].k = "resume" =>
      /\ task[sched[i].job].st = "running"
      /\ task[sched[i].job].awaits = sched[i].cmd
      /\ \A k \in DOMAIN sched : sched[k].job = sched[i].job => k = i

\* The results owed: those of the tasks no supersede came after.
Owed(j) == j \in InFlight /\ ~Stale(j)
Front == IF \E j \in Jobs : Owed(j)
         THEN <<CHOOSE j \in Jobs : Owed(j)>> ELSE <<>>

\* The first m elements of list p are superseded and the others are not: a
\* supersede leaves none that is current, and a submission comes last.
StaleUpTo(m, p, g) == \A i \in DOMAIN p : p[i].generation = g <=> i > m
JobsAfter(p, m) == [i \in 1..(Len(p) - m) |-> p[m + i].job]
Behind ==
  JobsAfter(pending,
            CHOOSE m \in 0..Len(pending) : StaleUpTo(m, pending, generation))

Line == INSTANCE ResultLine WITH line <- Front \o Behind

\* Results come in the order of the submissions, none of them after a
\* supersede (submit, supersede, drain): the queue implements ResultLine.
ResultsInLine == Line!LineSpec

\* A task submitted starts and ends, or is dropped, whatever else is submitted
\* and superseded (drain after every task, async's pcall, the guard).
EveryTaskEnds == \A j \in Jobs : task[j].st = "queued" ~> task[j].st = "over"

=============================================================================
