----------------------------- MODULE MergeTool -----------------------------
(***************************************************************************)
(* The merge tool (lua/differ/merge): a session on one conflicted file of   *)
(* an operation in progress, its result buffer, the index, the watcher of  *)
(* the git directory, the prompts, and `:Differ continue`, which runs git   *)
(* in the background and decides afterwards what becomes of the session.   *)
(*                                                                         *)
(* A handler runs to its end or to a prompt.  vim.fn.confirm runs scheduled *)
(* callbacks while it blocks: at a prompt the watcher, the end of a run and *)
(* a teardown may act, keys may not.  Other programs write to the index,   *)
(* the worktree and HEAD at any moment.                                    *)
(*                                                                         *)
(* A text is what on_write tells apart: `clean`, complete `regions`, a      *)
(* conflict with `broken` markers, a `bare` separator that may be content,  *)
(* or markers a formatter `indented`.                                      *)
(***************************************************************************)
EXTENDS Naturals, FiniteSets

CONSTANTS
  N,            \* bound: files of the repository
  Layouts,      \* what the conflicts of the files may be
  MaxSessions,  \* bound: sessions opened
  MaxOutside,   \* bound: what other programs do
  MaxRuns,      \* bound: runs of continue, skip and abort
  Nil           \* nil

Files == 1..N
Kinds == {"text", "deleted", "binary", "deleted binary", "odd"}

ASSUME MergeAssumption ==
  /\ N \in Nat \ {0} /\ Layouts \subseteq [Files -> Kinds]
  /\ MaxSessions \in Nat /\ MaxOutside \in Nat /\ MaxRuns \in Nat

VARIABLES
  kind,      \* what each file's conflict is
  head, op,  \* HEAD and the operation in progress
  stop,      \* which of its commits git has stopped on
  index, disk,
  buf,       \* the buffers: their text, whether it was modified, and whether the file
             \* was written since by anything but the buffer
  session,
  opened,    \* the sessions opened so far
  picker,    \* the operation of the picker, and whether it offers `continue`
  pc,        \* the handler under way
  run,       \* the run of continue.lua
  budget     \* the outside changes and runs so far

git == <<head, op, stop, index, disk>>
tool == <<session, opened>>
mergeVars == <<kind, git, buf, tool, picker, pc, run, budget>>

\* Of the operations, "rebase" stands for the ones that run over several commits,
\* which can be skipped.
Ops == {"merge", "rebase"}
Skippable == {"rebase"}

Text == {"clean", "regions", "broken", "bare", "indented"}

\* `content`: the session takes a bare marker for content (content_markers).
\* `heard`: its watcher has a callback on its way.
Session == [id : Nat, file : Files, files : SUBSET Files, staged : BOOLEAN,
            removed : BOOLEAN, content : BOOLEAN, head : Nat, op : Ops \cup {Nil},
            stop : Nat, heard : BOOLEAN]

NoSession == [id |-> 0, file |-> 1, files |-> {}, staged |-> FALSE, removed |-> FALSE,
              content |-> FALSE, head |-> 0, op |-> Nil, stop |-> 0,
              heard |-> FALSE]

\* Where a handler is: "stage" is stage_result, "settled" the last test of
\* settle_result, "ready" its early return, and the others are prompts.  It holds the session and the text it began with, and what called it.
Prompts == {"content", "take", "delete", "skip", "abort"}
Handler == [at : {"idle", "stage", "settled", "ready"} \cup Prompts,
            then : {"none", "next", "prev", "continue", "finish"},
            s : Session, text : Text \cup {Nil}, op : Ops \cup {Nil}]

Idle == [at |-> "idle", then |-> "none", s |-> NoSession, text |-> Nil, op |-> Nil]
NoPicker == [op |-> Nil, resolved |-> FALSE]
NoRun == [at |-> "none", op |-> Nil, action |-> "none"]

\* A repository that stopped on its conflicts.
MergeInit ==
  /\ kind \in Layouts
  /\ head = 1 /\ stop = 1
  /\ op \in Ops \cup {Nil}
  /\ index = [f \in Files |-> "unmerged"]
  /\ disk = [f \in Files |-> IF kind[f] = "text" THEN "regions" ELSE "clean"]
  /\ buf = [f \in Files |-> [text |-> "clean", modified |-> FALSE, stale |-> TRUE]]
  /\ session = NoSession
  /\ opened = 0
  /\ picker = NoPicker
  /\ pc = Idle
  /\ run = NoRun
  /\ budget = [outside |-> 0, runs |-> 0]

-----------------------------------------------------------------------------
(* What git and the buffer say.                                            *)

\* git.conflicted.
Conflicted == {f \in Files : index[f] = "unmerged"}

Binary(f) == kind[f] \in {"binary", "deleted binary"}
OneSided(f) == kind[f] \in {"deleted", "deleted binary"}

\* model.build: markers on disk, or stages that say modify/delete or binary.
Builds(f) ==
  \/ kind[f] = "text" /\ disk[f] \in {"regions", "broken", "bare"}
  \/ (Binary(f) \/ OneSided(f)) /\ disk[f] # "gone" /\ f \in Conflicted

\* track: markers that belong to no complete region.
Orphans(s, t) == t = "broken" \/ (t = "bare" /\ ~s.content)

Shown == buf[session.file].text

\* The index or HEAD changes: the watcher of the session hears of it.
Hearing(s) == IF s.id = 0 THEN s ELSE [s EXCEPT !.heard = TRUE]

\* checktime: git's text is read into a buffer that was not modified.
Reloaded(b, f) ==
  IF b[f].modified \/ disk[f] = "gone" \/ Binary(f) THEN b
  ELSE [b EXCEPT ![f].text = disk[f], ![f].stale = FALSE]

\* The files `fs` are written, and not from their buffers.
Outdated(fs) == buf' = [f \in Files |-> [buf[f] EXCEPT !.stale = @ \/ f \in fs]]

-----------------------------------------------------------------------------
(* Opening and closing (merge/init.lua).                                   *)

\* lay_out, over the session there is.
LayOut(f, files) ==
  /\ opened < MaxSessions
  /\ opened' = opened + 1
  /\ session' = [NoSession EXCEPT !.id = opened + 1, !.file = f, !.files = files,
                                  !.head = head, !.op = op, !.stop = stop]
  /\ buf' = Reloaded(IF session.id = 0 THEN buf ELSE Reloaded(buf, session.file), f)

\* M.close.
CloseSession ==
  /\ session' = NoSession
  /\ buf' = IF session.id = 0 THEN buf ELSE Reloaded(buf, session.file)
  /\ UNCHANGED opened

\* A key of the user's: nothing is prompted or picked.
Key == pc = Idle /\ picker = NoPicker
\* ... in the result buffer.
ResultKey == Key /\ session.id # 0

\* M.open, with a path or with the one the user picks of the conflicted files.
Open(f) ==
  /\ Key
  /\ f \in Conflicted /\ Builds(f)
  /\ LayOut(f, Conflicted)
  /\ UNCHANGED <<kind, git, picker, pc, run, budget>>

\* :Differ close, or the result window or the tab is closed, whose teardown is
\* scheduled and does nothing once that session has ended.
Close ==
  /\ Key /\ session.id # 0
  /\ CloseSession
  /\ UNCHANGED <<kind, git, picker, pc, run, budget>>

\* A scheduled callback runs between two handlers, or at a prompt.
CallbacksRun == pc.at \in {"idle"} \cup Prompts

-----------------------------------------------------------------------------
(* The result buffer.                                                      *)

Editable == ~Binary(session.file) /\ ~session.removed

\* Lines of the buffer are replaced; the conflicts are tracked anew.
Splice(t) == buf' = [buf EXCEPT ![session.file].text = t, ![session.file].modified = TRUE]

\* The user's edits.
Edit(t) ==
  /\ ResultKey /\ Editable
  /\ Splice(t)
  /\ UNCHANGED <<kind, git, tool, picker, pc, run, budget>>

\* resolve_choice on a text: the conflict under the cursor is a region, of which
\* there may be more, or one with broken markers, which asks first when it holds
\* lines the user typed.
TakeRegion ==
  /\ ResultKey /\ kind[session.file] = "text"
  /\ Shown = "regions"
  /\ \E t \in {"regions", "clean"} : Splice(t)
  /\ UNCHANGED <<kind, git, tool, picker, pc, run, budget>>

TakeBroken ==
  /\ ResultKey /\ kind[session.file] = "text"
  /\ Orphans(session, Shown)
  /\ \/ /\ pc' = [Idle EXCEPT !.at = "take", !.s = session, !.text = Shown]
        /\ UNCHANGED buf
     \/ Splice("clean") /\ UNCHANGED pc
  /\ UNCHANGED <<kind, git, tool, picker, run, budget>>

\* What git add makes of a file: it takes the one on disk, markers included.
Added(f) == CASE disk[f] = "gone" -> "gone"
              [] disk[f] \in {"clean", "bare"} -> "resolved"
              [] OTHER -> "marked"

\* mark_staged, with the index entry git wrote.
Staged(entry) ==
  /\ index' = [index EXCEPT ![session.file] = entry]
  /\ session' = [Hearing(session) EXCEPT !.staged = TRUE, !.removed = entry = "gone"]

\* binary.take: git checkout of one side, then git add, which may fail.
TakeSide ==
  /\ ResultKey /\ Binary(session.file) /\ ~session.staged
  /\ session.file \in Conflicted
  /\ disk' = [disk EXCEPT ![session.file] = "clean"]
  /\ Outdated({session.file})
  /\ Staged("resolved") \/ UNCHANGED <<index, session>>
  /\ UNCHANGED <<kind, head, op, stop, opened, picker, pc, run, budget>>

\* deleted.resolve: taking the deleting side asks first.
TakeDelete ==
  /\ ResultKey /\ OneSided(session.file) /\ ~session.staged
  /\ ~buf[session.file].modified
  /\ pc' = [Idle EXCEPT !.at = "delete", !.s = session]
  /\ UNCHANGED <<kind, git, buf, tool, picker, run, budget>>

-----------------------------------------------------------------------------
(* Writes, on_write, stage_result and the prompts.                         *)

\* A handler of the session that does `then` with operation o.
Begin(then, o) == [Idle EXCEPT !.then = then, !.s = session, !.op = o]

\* on_write is over in handler h; settle_result goes on if that is who called.
Over(h) == IF h.then = "none" THEN Idle ELSE [h EXCEPT !.at = "settled"]

\* on_write in handler h, on text t.
OnWrite(h, t) ==
  IF t \in {"regions", "indented"} THEN Over(h)
  ELSE IF ~Orphans(session, t) THEN [h EXCEPT !.at = "stage"]
  ELSE IF t = "bare" THEN [h EXCEPT !.at = "content", !.text = t]
  ELSE Over(h)

\* The buffer is written; a formatter may have reached its markers first.
Written(h) ==
  LET f == session.file
      t == buf[f].text
  IN \E w \in {t} \cup (IF t = "regions" THEN {"indented"} ELSE {}) :
     /\ disk' = [disk EXCEPT ![f] = w]
     /\ buf' = [buf EXCEPT ![f] = [text |-> w, modified |-> FALSE, stale |-> FALSE]]
     /\ pc' = OnWrite(h, w)

\* :w, and taking the side that keeps a modify/delete file.
Write ==
  /\ ResultKey /\ Editable
  /\ Written(Begin("none", Nil))
  /\ UNCHANGED <<kind, head, op, stop, index, tool, picker, run, budget>>

\* git add, which may fail.
Stage ==
  /\ pc.at = "stage"
  /\ Staged(Added(session.file)) \/ UNCHANGED <<index, session>>
  /\ pc' = Over(pc)
  /\ UNCHANGED <<kind, head, op, stop, disk, buf, opened, picker, run, budget>>

AnySession == TRUE

UnmovedSession == session.id = pc.s.id

UnmovedIgnoringTick == UnmovedSession

\* confirm runs scheduled callbacks while it blocks: the session or the buffer
\* can move.
Unmoved == UnmovedSession /\ Shown = pc.text

\* confirm_content's answer.
AnswerContent(yes) ==
  /\ pc.at = "content"
  /\ IF yes /\ Unmoved
       THEN /\ session' = [session EXCEPT !.content = TRUE]
            /\ pc' = [pc EXCEPT !.at = "stage"]
       ELSE /\ pc' = Over(pc)
            /\ UNCHANGED session
  /\ UNCHANGED <<kind, git, buf, opened, picker, run, budget>>

\* resolve_choice's answer.
AnswerTake(yes) ==
  /\ pc.at = "take"
  /\ pc' = Idle
  /\ IF yes /\ Unmoved THEN Splice("clean") ELSE UNCHANGED buf
  /\ UNCHANGED <<kind, git, tool, picker, run, budget>>

\* delete_file's answer: git rm, which may fail, and the empty buffer in place of
\* the result.
AnswerDelete(yes) ==
  /\ pc.at = "delete"
  /\ pc' = Idle
  /\ \/ /\ yes /\ UnmovedSession
        /\ Staged("gone")
        /\ disk' = [disk EXCEPT ![pc.s.file] = "gone"]
        /\ Outdated({pc.s.file})
     \/ UNCHANGED <<disk, buf, index, session>>
  /\ UNCHANGED <<kind, head, op, stop, opened, picker, run, budget>>

-----------------------------------------------------------------------------
(* settle_result, and what is done once the result is saved and staged.    *)

SettleStagedFirst(h) ==
  IF session.staged THEN pc' = [h EXCEPT !.at = "ready"] /\ UNCHANGED <<disk, buf>>
  ELSE Written(h)

\* settle_result in handler h; the save may fail.
Settle(h) ==
  LET f == session.file
      b == buf[f]
      waits == (OneSided(f) \/ Binary(f)) /\ ~session.staged
  IN \/ /\ ~b.modified
        /\ waits \/ b.text = "regions" \/ session.staged
        /\ pc' = [h EXCEPT !.at = "ready"]
        /\ UNCHANGED <<disk, buf>>
     \/ /\ ~b.modified
        /\ ~waits /\ b.text # "regions" /\ ~session.staged
        /\ pc' = OnWrite(h, b.text)
        /\ UNCHANGED <<disk, buf>>
     \/ b.modified /\ Written(h)
     \/ b.modified /\ pc' = Idle /\ UNCHANGED <<disk, buf>>

\* The session settle_result began with, as its fields stand.
Begun == IF UnmovedSession THEN session ELSE pc.s

Settled ==
  \/ pc.at = "ready"
  \/ pc.at = "settled" /\ (Begun.staged \/ (UnmovedSession /\ Shown = "regions"))

\* settle_result returns false.
Unsettled ==
  /\ pc.at = "settled" /\ ~Settled
  /\ pc' = Idle
  /\ UNCHANGED <<kind, git, buf, tool, picker, run, budget>>

\* merge_files.step.
Step(dir) ==
  /\ ResultKey
  /\ Settle(Begin(dir, Nil))
  /\ UNCHANGED <<kind, head, op, stop, index, tool, picker, run, budget>>

\* find_file: the nearest file of the session's list in that direction, around
\* the end, that is still conflicted and builds.
Distance(f, g, dir) == IF dir = "next" THEN (g + N - f) % N ELSE (f + N - g) % N
Candidates(s) == {g \in s.files \ {s.file} : g \in Conflicted /\ Builds(g)}
Nearest(s, dir) ==
  {g \in Candidates(s) : \A h \in Candidates(s) :
     Distance(s.file, g, dir) <= Distance(s.file, h, dir)}

StepOn ==
  /\ pc.then \in {"next", "prev"} /\ Settled
  /\ pc' = Idle
  /\ IF Nearest(Begun, pc.then) = {} THEN UNCHANGED <<tool, buf>>
     ELSE \E g \in Nearest(Begun, pc.then) : LayOut(g, Begun.files)
  /\ UNCHANGED <<kind, git, picker, run, budget>>

-----------------------------------------------------------------------------
(* continue.lua.                                                           *)

\* conflicts_left counts the open file by its buffer.
ConflictsLeft ==
  LET f == session.file
      open == \/ Shown = "regions" \/ Orphans(session, Shown)
              \/ (OneSided(f) \/ Binary(f)) /\ ~session.staged
  IN IF session.id = 0 THEN Cardinality(Conflicted)
     ELSE Cardinality(Conflicted \ {f}) + IF open THEN 1 ELSE 0

\* pick (resolved) and pick_resolved: the picker over the operation in progress.
Pick(resolved) ==
  /\ Key /\ run = NoRun
  /\ op # Nil
  /\ picker' = [op |-> op, resolved |-> resolved]
  /\ UNCHANGED <<kind, git, buf, tool, pc, run, budget>>

\* settle_without_operation.
Finish ==
  /\ Key /\ run = NoRun
  /\ op = Nil
  /\ session.id # 0
  /\ Settle(Begin("finish", Nil))
  /\ UNCHANGED <<kind, head, op, stop, index, tool, picker, run, budget>>

Finished ==
  /\ pc.then = "finish" /\ Settled
  /\ pc' = Idle
  /\ IF Conflicted = {} THEN CloseSession ELSE UNCHANGED <<tool, buf>>
  /\ UNCHANGED <<kind, git, picker, run, budget>>

Dismiss ==
  /\ pc = Idle /\ picker # NoPicker
  /\ picker' = NoPicker
  /\ UNCHANGED <<kind, git, buf, tool, pc, run, budget>>

\* The entries of the picker, which vim.schedule runs.
ChooseContinue ==
  /\ pc = Idle
  /\ picker.resolved
  /\ picker' = NoPicker
  /\ IF session.id = 0
       THEN /\ pc' = [Idle EXCEPT !.at = "ready", !.then = "continue", !.op = picker.op]
            /\ UNCHANGED <<disk, buf>>
       ELSE Settle(Begin("continue", picker.op))
  /\ UNCHANGED <<kind, head, op, stop, index, tool, run, budget>>

ChooseAsking(action) ==
  /\ pc = Idle
  /\ picker # NoPicker
  /\ action = "skip" => picker.op \in Skippable
  /\ picker' = NoPicker
  /\ pc' = [Idle EXCEPT !.at = action, !.op = picker.op]
  /\ UNCHANGED <<kind, git, buf, tool, run, budget>>

\* run, unless one is under way.
Start(action) ==
  IF run # NoRun THEN UNCHANGED <<run, budget>>
  ELSE /\ budget.runs < MaxRuns
       /\ run' = [at |-> "git", op |-> pc.op, action |-> action]
       /\ budget' = [budget EXCEPT !.runs = @ + 1]

\* The answer to "Skip the commit?" and "Abort the operation?".
AnswerRun(yes) ==
  /\ pc.at \in {"skip", "abort"}
  /\ pc' = Idle
  /\ IF yes THEN Start(pc.at) ELSE UNCHANGED <<run, budget>>
  /\ UNCHANGED <<kind, git, buf, tool, picker>>

\* `continue` once the result is settled: resolved.
ContinueOn ==
  /\ pc.then = "continue" /\ Settled
  /\ pc' = Idle
  /\ IF Conflicted = {} THEN Start("continue") ELSE UNCHANGED <<run, budget>>
  /\ UNCHANGED <<kind, git, buf, tool, picker>>

\* git leaves operation o in progress, stopped on `conflicts`; every file but the
\* ones `kept` is written anew.
Moves(h, o, conflicts, kept) ==
  /\ head' = h
  /\ op' = o
  /\ stop' = stop + 1
  /\ index' = [f \in Files |-> CASE f \in conflicts -> "unmerged"
                                 [] f \in kept \ conflicts -> index[f]
                                 [] OTHER -> "resolved"]
  /\ disk' = [f \in Files |-> CASE f \in conflicts /\ kind[f] = "text" -> "regions"
                                [] f \in kept \ conflicts -> disk[f]
                                [] OTHER -> "clean"]
  /\ Outdated(Files \ (kept \ conflicts))
  /\ session' = Hearing(session)

\* The git of the run ends: it is refused (by a hook, by the user who closes the
\* message, or because the operation is another by now), ends the operation, or
\* stops in it again.
GitEnds ==
  /\ run.at = "git"
  /\ run' = [run EXCEPT !.at = "exited"]
  /\ \/ UNCHANGED <<git, buf, session>>
     \/ /\ run.action = "continue" /\ run.op = op /\ Conflicted = {}
        /\ \/ Moves(head + 1, Nil, {}, Files)
           \/ /\ op \in Skippable
              /\ \E conflicts \in SUBSET Files : Moves(head + 1, op, conflicts, Files)
     \/ /\ run.action = "skip" /\ run.op = op
        /\ \E h \in {head, head + 1} :
             \/ Moves(h, Nil, {}, {})
             \/ \E conflicts \in SUBSET Files : Moves(h, op, conflicts, {})
     \/ /\ run.action = "abort" /\ run.op = op
        /\ \E h \in {head, head + 1} : Moves(h, Nil, {}, {})
  /\ UNCHANGED <<kind, opened, picker, pc, budget>>

AfterOperationKeepsHead ==
  IF op # Nil THEN UNCHANGED <<tool, buf>> ELSE CloseSession

\* The run's callback: after_operation.
AfterOperation ==
  LET stays == /\ op # Nil /\ Conflicted = {}
               /\ session.id # 0 => head = session.head
      openable == {f \in Conflicted : Builds(f)}
  IN \/ /\ stays
        /\ session' = IF session.id = 0 THEN session
                      ELSE [session EXCEPT !.head = head, !.op = op, !.stop = stop]
        /\ buf' = IF session.id = 0 THEN buf ELSE Reloaded(buf, session.file)
        /\ UNCHANGED opened
     \/ /\ ~stays
        /\ op # Nil /\ openable # {}
        /\ LayOut(CHOOSE f \in openable : \A g \in openable : f <= g, Conflicted)
     \/ /\ ~stays
        /\ op = Nil \/ openable = {}
        /\ CloseSession

RunEnd ==
  /\ CallbacksRun
  /\ run.at = "exited"
  /\ run' = NoRun
  /\ AfterOperation
  /\ UNCHANGED <<kind, git, picker, pc, budget>>

-----------------------------------------------------------------------------
(* The watcher, and other programs.                                        *)

\* stale_reason.
StaleReason ==
  \/ head # session.head \/ op # session.op
  \/ ~session.staged /\ session.file \notin Conflicted

\* on_git_change: while a run is under way, its end decides.
OnGitChange ==
  /\ CallbacksRun
  /\ session.heard
  /\ IF run = NoRun /\ StaleReason THEN CloseSession
     ELSE /\ session' = [session EXCEPT !.heard = FALSE]
          /\ UNCHANGED <<opened, buf>>
  /\ UNCHANGED <<kind, git, picker, pc, run, budget>>

Outside ==
  /\ budget.outside < MaxOutside
  /\ budget' = [budget EXCEPT !.outside = @ + 1]

OutsideAdd(f) ==
  /\ Outside
  /\ f \in Conflicted
  /\ index' = [index EXCEPT ![f] = Added(f)]
  /\ session' = Hearing(session)
  /\ UNCHANGED <<kind, head, op, stop, disk, buf, opened, picker, pc, run>>

OutsideWrite(f) ==
  /\ Outside
  /\ \E t \in {"clean", "regions"} : disk' = [disk EXCEPT ![f] = t]
  /\ Outdated({f})
  /\ UNCHANGED <<kind, head, op, stop, index, tool, picker, pc, run>>

\* An operation is continued, skipped, aborted or started elsewhere.
OutsideGit ==
  /\ Outside
  /\ \E h \in {head, head + 1}, o \in Ops \cup {Nil} :
       /\ o = op => op \in Skippable
       /\ \E conflicts \in SUBSET Files : Moves(h, o, conflicts, {})
  /\ UNCHANGED <<kind, opened, picker, pc, run>>

-----------------------------------------------------------------------------
User ==
  \/ \E f \in Files : Open(f)
  \/ Close
  \/ \E t \in Text \ {"indented"} : Edit(t)
  \/ TakeRegion \/ TakeBroken \/ TakeSide \/ TakeDelete \/ Write
  \/ \E dir \in {"next", "prev"} : Step(dir)
  \/ Pick(TRUE) \/ Pick(ConflictsLeft = 0) \/ Finish \/ Dismiss
  \/ ChooseContinue \/ \E action \in {"skip", "abort"} : ChooseAsking(action)
  \/ \E yes \in BOOLEAN : AnswerContent(yes) \/ AnswerTake(yes) \/ AnswerDelete(yes)
                          \/ AnswerRun(yes)

MergeNext ==
  \/ User
  \/ Stage \/ Unsettled \/ StepOn \/ Finished \/ ContinueOn
  \/ OnGitChange \/ GitEnds \/ RunEnd
  \/ \E f \in Files : OutsideAdd(f) \/ OutsideWrite(f)
  \/ OutsideGit

MergeSpec == MergeInit /\ [][MergeNext]_mergeVars

-----------------------------------------------------------------------------
\* Every variable has its type, and git is run on an operation.
MergeTypeOK ==
  /\ kind \in Layouts
  /\ head \in Nat /\ op \in Ops \cup {Nil} /\ stop \in Nat
  /\ index \in [Files -> {"unmerged", "resolved", "marked", "gone"}]
  /\ disk \in [Files -> Text \cup {"gone"}]
  /\ buf \in [Files -> [text : Text, modified : BOOLEAN, stale : BOOLEAN]]
  /\ session \in Session
  /\ opened \in 0..MaxSessions
  /\ picker \in [op : Ops \cup {Nil}, resolved : BOOLEAN]
  /\ pc \in Handler
  /\ \/ run = NoRun
     \/ run \in [at : {"git", "exited"}, op : Ops, action : {"continue", "skip", "abort"}]
  /\ budget \in [outside : 0..MaxOutside, runs : 0..MaxRuns]

\* stage_result runs for the session its write or its prompt was about, when the
\* buffer is free of markers, or of all but the bare ones the user confirmed as
\* content; and git add, which takes the file and not the buffer, takes the text the
\* buffer shows, unless something else wrote the file since the buffer was read or
\* written: nothing that runs under a prompt puts another text under the yes
\* (on_write, confirm_content, stage_result).
StagesTheResult ==
  pc.at = "stage" =>
    /\ session.id = pc.s.id
    /\ Shown = "clean" \/ (Shown = "bare" /\ session.content)
    /\ ~buf[session.file].stale => disk[session.file] = Shown

\* A watcher that has nothing to tell leaves the session on the HEAD and the
\* operation that git is at, whatever ran, failed or was refused meanwhile
\* (stale_reason, after_operation).  (And every variable has its type.)
SessionFollowsGit ==
  /\ MergeTypeOK
  /\ session.id # 0 /\ ~session.heard /\ run = NoRun
       => session.head = head /\ session.op = op

\* A file is deleted for the session that asked, while it is open on that file:
\* not by a yes that comes after the watcher or the end of a run closed it
\* (delete_file).
DeletesInSession ==
  [][\A f \in Files : disk[f] # "gone" /\ disk'[f] = "gone"
       => session.id # 0 /\ session.file = f]_mergeVars

\* git continues only with nothing conflicted and with no edit of the open result
\* left unsaved, whatever the prompts of the save let run (resolved, settle_result).
ContinuesSaved ==
  [][run = NoRun /\ run'.action = "continue"
       => /\ Conflicted = {}
          /\ session.id # 0 => ~buf[session.file].modified]_mergeVars

\* "stage once no markers remain" (merge/init.lua:1326): what stage_result leaves in
\* the index has no markers.  No run checks it and it does not hold: the markers are
\* looked for in the buffer, and git add takes the file, which another program or a
\* git that stopped again may have written since (stage_result).
StagesNoMarkers ==
  [][pc.at = "stage" => index'[session.file] # "marked"]_mergeVars

\* A skip elsewhere that stops again is "HEAD or the operation changed", so that
\* once the watcher has told of it no session is left on the commit before it
\* (stale_reason).
SkipEndsSession ==
  session.id # 0 /\ ~session.heard /\ run = NoRun => session.stop = stop

=============================================================================
