------------------------------ MODULE CatFile ------------------------------
(***************************************************************************)
(* The object reader of lua/differ/git/cat_file.lua on one root: a         *)
(* long-lived `git cat-file --batch` shared by the sessions that hold the  *)
(* root, its waiting list, its silence timer, and the reads that queue on  *)
(* it, yielding or blocking.  Git answers in request order on a pipe that  *)
(* cuts its output anywhere, may answer with a line of another form, stop  *)
(* answering or die.                                                       *)
(*                                                                         *)
(* A reply is pieces of the stream: the start of its line, the rest of the *)
(* line, and for an object its contents.  A process is named by the read   *)
(* that started it.                                                        *)
(***************************************************************************)
EXTENDS Integers, Sequences, FiniteSets, SequencesExt

CONSTANTS
  Reads,       \* calls of M.read, each for a name of its own
  IndexNames,  \* the reads of an index name (`:0:path`)
  OddNames,    \* the reads of a name with a newline or a trailing CR
  Sessions,    \* the sessions that hold the root
  None         \* nil

ASSUME CatFileAssumption ==
  /\ IndexNames \subseteq Reads
  /\ OddNames \subseteq Reads
  /\ None \notin Reads

VARIABLES
  procs,       \* procs[root]
  proc,        \* the Lua side of each process
  git,         \* the process itself
  holds,       \* holds[root], nil as 0
  session,     \* what each session did with its hold
  hasNul,      \* this git knows -z
  nulSupported, \* nul_supported is set
  read,        \* the calls of M.read
  late         \* history: the reads that asked git's version at a last release

catVars == <<procs, proc, git, holds, session, hasNul, nulSupported, read, late>>

Piece == [of : Reads, is : {"start", "found", "body", "missing", "junk"}]
Proc == [dead : BOOLEAN, timer : BOOLEAN, waiting : Seq(Reads), parts : Seq(Piece)]
Git == [at : {"none", "up", "down", "exited"}, in : Seq(Reads), out : Seq(Piece)]

\* dones: calls of the waiter's `done`; result: what the first one brought.
Result == [answered : BOOLEAN, object : Reads \cup {None}]
Call == [at : {"idle", "version", "yielding", "blocking", "returned"},
         dones : Nat, result : SUBSET Result, value : SUBSET Result]

Unanswered == [answered |-> FALSE, object |-> None]

-----------------------------------------------------------------------------
CatInit ==
  /\ procs = None
  /\ proc = [p \in Reads |-> [dead |-> TRUE, timer |-> FALSE,
                              waiting |-> <<>>, parts |-> <<>>]]
  /\ git = [p \in Reads |-> [at |-> "none", in |-> <<>>, out |-> <<>>]]
  /\ holds = 0
  /\ session = [s \in Sessions |-> "closed"]
  /\ hasNul \in BOOLEAN
  /\ nulSupported = FALSE
  /\ read = [r \in Reads |-> [at |-> "idle", dones |-> 0, result |-> {},
                              value |-> {}]]
  /\ late = {}

-----------------------------------------------------------------------------
(* The functions of the module, on one process record and on the calls.    *)

\* `done`, for each read that res has a result for: it resumes the coroutine
\* (only the first call counts) or sets the variable vim.wait polls.
DoneAll(calls, res) ==
  [r \in Reads |-> IF res[r] = {} THEN calls[r]
                   ELSE [calls[r] EXCEPT !.dones = @ + 1,
                                         !.result = IF @ = {} THEN res[r] ELSE @]]

\* fail: the process is given up, its waiters are told it cannot say.  What
\* it sent is not read again, and is left out.
Failed(p) == [p EXCEPT !.dead = TRUE, !.timer = FALSE, !.waiting = <<>>,
                       !.parts = <<>>]
FailResults(p) ==
  [r \in Reads |-> IF r \in ToSet(p.waiting) THEN {Unanswered} ELSE {}]

DisarmOnOutput(p) == [p EXCEPT !.timer = FALSE]

\* arm.
Arm(p) == [p EXCEPT !.timer = p.waiting # <<>>]

\* One reply of settle's loop: at the head of the list, the reply is not whole
\* yet ("wait"), answers the waiter ("go"), or fits no reply ("bad").
SettleOne(s) ==
  LET w == Head(s.waiting)
      give(n, object) ==
        [s EXCEPT !.waiting = Tail(@), !.parts = SubSeq(@, n + 1, Len(@)),
                  !.given = [@ EXCEPT ![w] = {[answered |-> TRUE, object |-> object]}]]
      line == s.parts[2]
  IN IF s.at # "go" \/ s.waiting = <<>> THEN s
     ELSE IF Len(s.parts) < 2 \/ (line.is = "found" /\ Len(s.parts) < 3)
     THEN [s EXCEPT !.at = "wait"]
     ELSE IF line.is = "found" THEN give(3, line.of)
     ELSE IF line.is = "missing" /\ line.of = w THEN give(2, None)
     ELSE [s EXCEPT !.at = "bad"]

\* settle: replies to their waiters in order, until one is not whole.
Settled(p) ==
  LET s[n \in Nat] ==
        IF n = 0 THEN [waiting |-> p.waiting, parts |-> p.parts, at |-> "go",
                       given |-> [r \in Reads |-> {}]]
        ELSE SettleOne(s[n - 1])
  IN s[Len(p.waiting) + 1]

Settle(p) ==
  LET end == Settled(p)
  IN [p |-> [p EXCEPT !.waiting = end.waiting, !.parts = end.parts],
      given |-> end.given,
      fits |-> \/ end.at = "wait"
               \/ end.at = "go" /\ end.parts = <<>>]

-----------------------------------------------------------------------------
Blocked == \E r \in Reads : read[r].at = "blocking"

\* kill, for a process whose record is q and with the calls as they stand.
Kill(p, q, calls) ==
  /\ procs' = IF procs = p THEN None ELSE procs
  /\ git' = [git EXCEPT ![p].at = IF @ = "up" THEN "down" ELSE @]
  /\ proc' = [proc EXCEPT ![p] = Failed(q)]
  /\ read' = DoneAll(calls, FailResults(q))

\* M.read returns.
Returned(calls, r, result) ==
  [calls EXCEPT ![r].at = "returned", ![r].value = {result}]

\* The waiter's place on the list: the first one arms the timer.
Queued(p, r) ==
  LET q == [proc[p] EXCEPT !.waiting = Append(@, r)]
  IN IF Len(q.waiting) = 1 THEN Arm(q) ELSE q

\* start, for a process named r: the record, the process.
Started(r) ==
  /\ proc' = [proc EXCEPT ![r] = [dead |-> FALSE, timer |-> TRUE,
                                  waiting |-> <<r>>, parts |-> <<>>]]
  /\ git' = [git EXCEPT ![r] = [at |-> "up", in |-> <<r>>, out |-> <<>>]]

\* request: on the root's process, or on a new one.  The spawn may fail, and
\* so may the write once the process is gone.
Request(r, at) ==
  \/ /\ procs = None
     /\ Started(r)
     /\ procs' = r
     /\ read' = [read EXCEPT ![r].at = at]
  \/ /\ procs = None
     /\ read' = Returned(read, r, Unanswered)
     /\ UNCHANGED <<procs, proc, git>>
  \/ /\ procs # None
     /\ proc' = [proc EXCEPT ![procs] = Queued(procs, r)]
     /\ git' = [git EXCEPT ![procs].in = IF git[procs].at = "up"
                                        THEN Append(@, r) ELSE @]
     /\ read' = [read EXCEPT ![r].at = at]
     /\ UNCHANGED procs
  \/ /\ procs # None
     /\ git[procs].at = "down"
     /\ Kill(procs, proc[procs], Returned(read, r, Unanswered))

\* M.read, the root held and the name no index name, once it is known
\* whether git takes -z.
ReadOn(r, at) ==
  IF r \in OddNames /\ ~hasNul
  THEN /\ read' = Returned(read, r, Unanswered)
       /\ UNCHANGED <<procs, proc, git>>
  ELSE Request(r, at)

-----------------------------------------------------------------------------
(* The main loop: nothing of it runs while a read blocks.                  *)

Hold(s) ==
  /\ ~Blocked
  /\ session[s] = "closed"
  /\ session' = [session EXCEPT ![s] = "held"]
  /\ holds' = holds + 1
  /\ UNCHANGED <<procs, proc, git, hasNul, nulSupported, read, late>>

\* The function M.hold returned; the last release stops the process (EOF).
Release(s) ==
  /\ ~Blocked
  /\ session[s] \in {"held", "released"}
  /\ session' = [session EXCEPT ![s] = "released"]
  /\ IF session[s] = "released" THEN UNCHANGED <<holds, procs, proc, git, read, late>>
     ELSE /\ holds' = holds - 1
          /\ late' = IF holds' > 0 THEN late
                     ELSE late \cup {r \in Reads : read[r].at = "version"}
          /\ IF holds' > 0 \/ procs = None THEN UNCHANGED <<procs, proc, git, read>>
             ELSE /\ procs' = None
                  /\ proc' = [proc EXCEPT ![procs] = Failed(@)]
                  /\ read' = DoneAll(read, FailResults(proc[procs]))
                  /\ UNCHANGED git
  /\ UNCHANGED <<hasNul, nulSupported>>

\* M.read, from a coroutine of exec.async or not: the first one of all asks
\* git for its version, and a coroutine yields meanwhile.
Read(r) ==
  /\ ~Blocked
  /\ read[r].at = "idle"
  /\ \/ /\ holds = 0 \/ r \in IndexNames
        /\ read' = Returned(read, r, Unanswered)
        /\ UNCHANGED <<procs, proc, git, nulSupported>>
     \/ /\ holds > 0 /\ r \notin IndexNames
        /\ nulSupported
        /\ \E at \in {"yielding", "blocking"} : ReadOn(r, at)
        /\ UNCHANGED nulSupported
     \/ /\ holds > 0 /\ r \notin IndexNames
        /\ ~nulSupported
        /\ ReadOn(r, "blocking")
        /\ nulSupported' = TRUE
     \/ /\ holds > 0 /\ r \notin IndexNames
        /\ ~nulSupported
        /\ read' = [read EXCEPT ![r].at = "version"]
        /\ UNCHANGED <<procs, proc, git, nulSupported>>
  /\ UNCHANGED <<holds, session, hasNul, late>>

\* The coroutine resumes with the version, and goes on: the holds were looked
\* at before it yielded, and are not looked at again.
Version(r) ==
  /\ ~Blocked
  /\ read[r].at = "version"
  /\ nulSupported' = TRUE
  /\ ReadOn(r, "yielding")
  /\ UNCHANGED <<holds, session, hasNul, late>>

\* The coroutine runs again, or vim.wait sees the result.
Return(r) ==
  /\ read[r].at \in {"yielding", "blocking"}
  /\ read[r].result # {}
  /\ Blocked => read[r].at = "blocking"
  /\ read' = [read EXCEPT ![r].at = "returned", ![r].value = read[r].result]
  /\ UNCHANGED <<procs, proc, git, holds, session, hasNul, nulSupported, late>>

BackstopDequeues(r) ==
  /\ read[r].at = "blocking"
  /\ read[r].result = {}
  /\ read' = Returned(read, r, Unanswered)
  /\ proc' = [p \in Reads |-> [proc[p] EXCEPT !.waiting = SelectSeq(@, LAMBDA w : w # r)]]
  /\ UNCHANGED <<procs, git, holds, session, hasNul, nulSupported, late>>

\* vim.wait gives up, or is interrupted: the waiter stays on the list.
Backstop(r) ==
  /\ read[r].at = "blocking"
  /\ read[r].result = {}
  /\ read' = Returned(read, r, Unanswered)
  /\ UNCHANGED <<procs, proc, git, holds, session, hasNul, nulSupported, late>>

-----------------------------------------------------------------------------
(* libuv's callbacks: they run at any time, in a blocked read too.         *)

\* The stdout handler, with a chunk of n pieces.  A process that was given up
\* is not listened to, so how its output is cut does not matter.
Stdout(p, n) ==
  /\ git[p].out # <<>>
  /\ n \in 1..Len(git[p].out)
  /\ proc[p].dead => n = Len(git[p].out)
  /\ LET chunk == SubSeq(git[p].out, 1, n)
         rest == SubSeq(git[p].out, n + 1, Len(git[p].out))
         s == Settle([proc[p] EXCEPT !.parts = @ \o chunk])
         told == DoneAll(read, s.given)
     IN /\ git' = [git EXCEPT ![p].out = rest,
                             ![p].at = IF ~proc[p].dead /\ ~s.fits /\ @ = "up"
                                       THEN "down" ELSE @]
        /\ IF proc[p].dead THEN UNCHANGED <<procs, proc, read>>
           ELSE IF s.fits
                THEN /\ proc' = [proc EXCEPT ![p] = Arm(s.p)]
                     /\ read' = told
                     /\ UNCHANGED procs
                ELSE /\ procs' = IF procs = p THEN None ELSE procs
                     /\ proc' = [proc EXCEPT ![p] = Failed(s.p)]
                     /\ read' = DoneAll(told, FailResults(s.p))
  /\ UNCHANGED <<holds, session, hasNul, nulSupported, late>>

ForgetOnExit(p) == None

\* The table after an exit: only the process itself is taken from it.
AfterExit(p) == IF procs = p THEN None ELSE procs

\* on_exit, once the process is gone and its pipes are drained.
OnExit(p) ==
  /\ git[p].at = "down"
  /\ git[p].out = <<>>
  /\ git' = [git EXCEPT ![p].at = "exited"]
  /\ procs' = AfterExit(p)
  /\ proc' = [proc EXCEPT ![p] = Failed(@)]
  /\ read' = DoneAll(read, FailResults(proc[p]))
  /\ UNCHANGED <<holds, session, hasNul, nulSupported, late>>

\* The timer: nothing was sent for TIMEOUT with reads waiting.
Timer(p) ==
  /\ proc[p].timer
  /\ Kill(p, proc[p], read)
  /\ UNCHANGED <<holds, session, hasNul, nulSupported, late>>

-----------------------------------------------------------------------------
(* Git.                                                                    *)

\* The next request is answered: an object, a missing or ambiguous name, or a
\* line of a form the reader does not know.
GitReply(p) ==
  /\ git[p].at = "up"
  /\ git[p].in # <<>>
  /\ \E is \in {"found", "missing", "junk"} :
       LET r == Head(git[p].in)
           line == <<[of |-> r, is |-> "start"], [of |-> r, is |-> is]>>
           body == IF is = "found" THEN <<[of |-> r, is |-> "body"]>> ELSE <<>>
       IN git' = [git EXCEPT ![p].in = Tail(@), ![p].out = @ \o line \o body]
  /\ UNCHANGED <<procs, proc, holds, session, hasNul, nulSupported, read, late>>

\* The process dies, of itself or of the EOF; its last bytes may be lost.
GitDies(p) ==
  /\ git[p].at = "up"
  /\ \E n \in 0..Len(git[p].out) :
       git' = [git EXCEPT ![p].at = "down", ![p].out = SubSeq(@, 1, n)]
  /\ UNCHANGED <<procs, proc, holds, session, hasNul, nulSupported, read, late>>

-----------------------------------------------------------------------------
Main ==
  \/ \E s \in Sessions : Hold(s) \/ Release(s)
  \/ \E r \in Reads : Read(r) \/ Version(r) \/ Return(r) \/ Backstop(r)

CatNext ==
  \/ Main
  \/ \E p \in Reads :
       \/ \E n \in 1..Len(git[p].out) : Stdout(p, n)
       \/ OnExit(p) \/ Timer(p)
       \/ GitReply(p) \/ GitDies(p)

\* The loop resumes coroutines, git tells its version and timers fire; nothing
\* is assumed of the cat-file process.
Fairness ==
  \A r \in Reads : WF_catVars(Version(r)) /\ WF_catVars(Return(r)) /\ WF_catVars(Timer(r))

CatSpec == CatInit /\ [][CatNext]_catVars /\ Fairness

-----------------------------------------------------------------------------
\* Every variable has its type: sessions, processes, reads and their names.
CatTypeOK ==
  /\ procs \in Reads \cup {None}
  /\ proc \in [Reads -> Proc]
  /\ git \in [Reads -> Git]
  /\ holds \in Nat
  /\ session \in [Sessions -> {"closed", "held", "released"}]
  /\ hasNul \in BOOLEAN
  /\ nulSupported \in BOOLEAN
  /\ read \in [Reads -> Call]
  /\ late \subseteq Reads

\* "replies come back in request order, so the waiting list is the per-root
\* serialisation" (cat_file.lua:2): with the stream cut anywhere, reads
\* abandoned and processes replaced, a read never returns another's object.
OwnObject ==
  \A r \in Reads : \A v \in read[r].value \cup read[r].result :
    v.answered => v.object \in {r, None}

\* A read that waits for its answer is on the list of a process that is still
\* served, once, and that process has its silence timer running.
NoneStranded ==
  \A r \in Reads :
    read[r].at \in {"yielding", "blocking"} /\ read[r].result = {} =>
      \E p \in Reads :
        /\ ~proc[p].dead
        /\ proc[p].timer
        /\ Cardinality({i \in DOMAIN proc[p].waiting : proc[p].waiting[i] = r}) = 1

\* A root no session holds has no process, but for one started after the last
\* release by a read that had seen the hold and was asking git's version.
StoppedButLate == procs # None /\ holds = 0 => procs \in late

\* "one long-lived `git cat-file --batch` per root a session holds"
\* (cat_file.lua:1): every process that is not given up is the one the root's
\* reads go to, and it outlives the last release only where StoppedButLate says;
\* whatever answer, exit, timer, kill and release meet on it, `done` runs once
\* for each read, and none is left waiting for nothing.  (And every variable has
\* its type.)
OneProcess ==
  /\ CatTypeOK
  /\ NoneStranded
  /\ StoppedButLate
  /\ \A p \in Reads : ~proc[p].dead => procs = p
  /\ \A r \in Reads : read[r].dones <= 1

\* "the last release stops the process" (cat_file.lua:275), with no exception:
\* a late read breaks it, and no run states it.
StopsWithLastRelease == holds = 0 => procs = None

\* Every read returns, even when git never answers: the caller then reads
\* another way.
ReadsReturn == \A r \in Reads : read[r].at # "idle" ~> read[r].at = "returned"

=============================================================================
