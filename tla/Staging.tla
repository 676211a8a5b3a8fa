------------------------------ MODULE Staging ------------------------------
(***************************************************************************)
(* Hunk staging of one modified file: the s, u, S, U and X of a diff view  *)
(* (view.lua) over git/staging/union.lua, frozen.lua and write.lua, and    *)
(* the views that the session opens on the file (git/init.lua).            *)
(*                                                                         *)
(* The file is cut into places that change on their own, with unchanged    *)
(* lines between them, and a text is what it has at each place: a hunk of  *)
(* a diff is a place at which its two sides differ.  How lines of one      *)
(* place pair up is left out, except that a union view may refuse any      *)
(* hunk or selection on that ground.  A key's handler runs the loop only   *)
(* at its prompt; other programs write the index and the file, and         *)
(* commit, between any two of its steps.                                   *)
(***************************************************************************)
EXTENDS Integers, FiniteSets, FiniteSetsExt

CONSTANTS
  Places,      \* the number of places of the file
  Text,        \* what there may be at a place
  MaxOutside   \* bound: the writes of other programs

ASSUME StagingAssumption == Places \in Nat \ {0} /\ MaxOutside \in Nat

Place == 1..Places
File == [Place -> Text]

VARIABLES
  head, index, work,  \* the file in HEAD, in the index and on disk
  view,               \* the open diff view and its staging
  op,                 \* the key being handled
  sched,              \* the re-read of the view that is scheduled
  known,              \* whether last_sig is that of the repository now
  outside             \* writes of other programs so far

vars == <<head, index, work, view, op, sched, known, outside>>

-----------------------------------------------------------------------------
(* Views.                                                                  *)

\* A view shows old against new.  A union is HEAD against the file; index and
\* preview are HEAD against the index, local is the index against the file,
\* and these three are frozen: staged are the hunks marked staged, and held is
\* the index they were opened on or last written as.  A union's marks are
\* read from the index: mixed are the hunks it holds neither side of.  gone are
\* the hunks X has taken, hidden those of a local view that change a staged
\* line again; pre is whether the session is in the commit preview, and dw
\* whether the view has toggle_local.  Ghost: asof is outside when it was read.
View == [open : BOOLEAN, kind : {"union", "index", "preview", "local"}, pre : BOOLEAN,
         old : File, new : File, staged : SUBSET Place, mixed : SUBSET Place,
         held : File, gone : SUBSET Place, hidden : SUBSET Place, dw : BOOLEAN,
         asof : 0..MaxOutside]

Frozen(v) == v.kind # "union"
Changed(a, b) == {p \in Place : a[p] # b[p]}
Hunks(v) == Changed(v.old, v.new) \ v.gone
Over(f, on, g) == [p \in Place |-> IF p \in on THEN g[p] ELSE f[p]]

\* The new side as drawn, after what X took.
Drawn(v) == Over(v.new, v.gone, v.old)
Splice(v, on) == Over(v.old, on, v.new)

\* marks_of: what of HEAD against the file the index holds.
Remark(v, h, i, w) ==
  [v EXCEPT !.staged = {p \in Changed(h, w) : i[p] = w[p]},
            !.mixed = {p \in Changed(h, w) : i[p] \notin {h[p], w[p]}}]

Opened(kind, pre, o, n, held) ==
  [open |-> TRUE, kind |-> kind, pre |-> pre, old |-> o, new |-> n, staged |-> {}, mixed |-> {},
   held |-> held, gone |-> {}, hidden |-> {}, dw |-> ~pre, asof |-> outside]

\* A row with a staged change and more on top of it.
PartlyStaged(h, i, w) == i # h /\ i # w

\* for_union, for_index and for_local, with frozen_staging's marks.
ForUnion(h, i, w) ==
  Remark([Opened("union", FALSE, h, w, i) EXCEPT !.dw = PartlyStaged(h, i, w)], h, i, w)
ForIndex(kind, pre, h, i) == [Opened(kind, pre, h, i, i) EXCEPT !.staged = Changed(h, i)]
ForLocal(h, i, w) ==
  [Opened("local", FALSE, i, w, i) EXCEPT !.hidden = Changed(i, w) \cap Changed(h, i)]

\* show_entry, where nothing is left to show the session ends (on_empty).
ShowEntry(v, pre, h, i, w) ==
  CASE pre /\ h # i -> ForIndex("preview", TRUE, h, i)
    [] ~(pre /\ h # i) /\ h # w -> ForUnion(h, i, w)
    [] ~(pre /\ h # i) /\ h = w /\ h # i -> ForIndex("index", FALSE, h, i)
    [] OTHER -> [v EXCEPT !.open = FALSE]

RetargetView(v, h, i, w) == ShowEntry(v, v.pre, h, i, w)

ShowLocal(v, h, i, w) ==
  IF PartlyStaged(h, i, w) THEN ForLocal(h, i, w) ELSE RetargetView(v, h, i, w)

\* staging.refresh: the list is read again.  An empty one ends the preview or
\* the session; otherwise sync_local keeps a union's dw in step.
Refresh(v, h, i, w) ==
  CASE v.open /\ h = i /\ (v.pre \/ i = w) -> ShowEntry(v, FALSE, h, i, w)
    [] v.open /\ v.kind = "union" /\ ~(h = i /\ i = w) -> [v EXCEPT !.dw = PartlyStaged(h, i, w)]
    [] OTHER -> v

-----------------------------------------------------------------------------
(* The key being handled.                                                  *)

\* todo are the places it is to move, moved is whether it has moved one; seen is
\* the index it read, text what it is to write; file is whether X also patches
\* the file.  asked is whether the user said yes, and stale whether the view was
\* re-sourced under the prompt.  Ghosts: shows is the diff that was on screen
\* when the key was pressed, and since is outside then.
Op == [at : {"prompt", "read", "check", "index", "put", "patch"},
       do : {"move", "lines", "all", "drop", "revert", "revertLines"},
       want : BOOLEAN, todo : SUBSET Place, moved : BOOLEAN, seen : File, text : File,
       file : BOOLEAN, asked : BOOLEAN, stale : BOOLEAN,
       shows : [old : File, new : File], since : 0..MaxOutside]

Idle == [at |-> "idle"]
Reverts(o) == o.do \in {"revert", "revertLines"}

Begin(do, want, todo, at) ==
  op' = [at |-> at, do |-> do, want |-> want, todo |-> todo, moved |-> FALSE, seen |-> index,
         text |-> index, file |-> TRUE, asked |-> FALSE, stale |-> FALSE,
         shows |-> [old |-> view.old, new |-> Drawn(view)], since |-> outside]

Repo == <<head, index, work>>

\* The loop runs what is scheduled before it takes the next key.
Ready == op.at = "idle" /\ sched = "none" /\ view.open

\* set_source: a prompt about the old model is stale, and a re-read that was
\* for the old staging only is dropped.
Sourced(v) ==
  /\ view' = v
  /\ op' = IF op.at = "prompt" THEN [op EXCEPT !.stale = @ \/ v.open] ELSE op
  /\ sched' = IF v.open /\ sched = "again" THEN "none" ELSE sched
  /\ known' = TRUE

Reopen(v) == IF v.kind = "local" THEN "local" ELSE "retarget"

\* drawn_current.
DrawnCurrent == head = view.old /\ work = Drawn(view)

\* The places a step of the key moves (a frozen view goes hunk by hunk), and
\* the hunks that are staged once it has.
Moving(o) == IF o.do = "move" /\ Frozen(view) THEN {Min(o.todo)} ELSE o.todo
Staged(o) == IF o.want THEN view.staged \cup Moving(o) ELSE view.staged \ Moving(o)

-----------------------------------------------------------------------------
(* The keys, up to the prompt.                                             *)

NeverUnheld(todo) == FALSE

\* unheld: whether u or U drops staged content that nothing else holds.
Unheld(todo) ==
  CASE view.kind = "union" -> \E p \in todo : index[p] \notin {head[p], work[p]}
    [] view.kind \in {"index", "preview"} ->
         \E p \in todo \cap view.staged \cap Hunks(view) : work[p] # Drawn(view)[p]
    [] OTHER -> FALSE

\* s, which asks nothing of a file that stages by hunk.
StageHunk(p) ==
  /\ Ready /\ p \in Hunks(view) \ view.staged
  /\ Begin("move", TRUE, {p}, "read")
  /\ UNCHANGED <<Repo, view, sched, known, outside>>

\* u, on a hunk or on a staged change that a local view's hunk undoes.
UnstageHunk(p) ==
  /\ Ready /\ p \in Hunks(view)
  /\ \/ /\ p \in view.staged \cup view.mixed
        /\ Begin("move", FALSE, {p}, IF Unheld({p}) THEN "prompt" ELSE "read")
     \/ /\ p \in view.hidden \ view.staged
        /\ Begin("drop", FALSE, {p}, "prompt")
  /\ UNCHANGED <<Repo, view, sched, known, outside>>

Unmoved(want) == Hunks(view) \cap (IF want THEN Place \ view.staged ELSE view.staged)

\* S and U: a union has set_all, a frozen view goes through its hunks.
ToggleAll(want) ==
  /\ Ready
  /\ LET at == IF ~want /\ Unheld(Place) THEN "prompt" ELSE "read"
     IN IF Frozen(view)
        THEN Unmoved(want) # {} /\ Begin("move", want, Unmoved(want), at)
        ELSE Begin("all", want, Place, at)
  /\ UNCHANGED <<Repo, view, sched, known, outside>>

\* s and u on a selection, which only a union takes.
ToggleLines(todo, want) ==
  /\ Ready /\ ~Frozen(view) /\ todo # {} /\ todo \subseteq Hunks(view)
  /\ Begin("lines", want, todo, "read")
  /\ UNCHANGED <<Repo, view, sched, known, outside>>

\* X on a hunk, and on a selection of a union or a local view: a diff that is
\* seen to be old is re-read instead.
Revert(do, todo) ==
  /\ Ready /\ todo # {} /\ todo \subseteq Hunks(view)
  /\ IF do = "revert" THEN Cardinality(todo) = 1 ELSE view.kind \in {"union", "local"}
  /\ LET current == CASE view.kind = "union" -> DrawnCurrent
                      [] do = "revertLines" -> index = view.old /\ work = Drawn(view)
                      [] OTHER -> TRUE
     IN IF current
        THEN Begin(do, FALSE, todo, "prompt") /\ UNCHANGED sched
        ELSE sched' = Reopen(view) /\ UNCHANGED op
  /\ UNCHANGED <<Repo, view, known, outside>>

AnyYes(o) == TRUE

\* _confirmed: a yes about a diff that was replaced under the prompt is void.
Confirmed(o) == ~o.stale

Answer(yes) ==
  /\ op.at = "prompt"
  /\ op' = IF yes /\ Confirmed(op) THEN [op EXCEPT !.at = "read", !.asked = TRUE] ELSE Idle
  /\ UNCHANGED <<Repo, view, sched, known, outside>>

\* dw and ds: the local view and back, the commit preview and back.
ToggleLocal ==
  /\ Ready /\ view.dw
  /\ Sourced(IF view.kind = "local" THEN RetargetView(view, head, index, work)
             ELSE ShowLocal(view, head, index, work))
  /\ UNCHANGED <<Repo, outside>>

SetPreview ==
  /\ Ready /\ (view.pre \/ index # head)
  /\ Sourced(ShowEntry(view, ~view.pre, head, index, work))
  /\ UNCHANGED <<Repo, outside>>

-----------------------------------------------------------------------------
(* The handlers, one git command a step.                                   *)

\* The key ends with the view as v, with or without a refresh of the list, and
\* with what it scheduled.
End(v, refreshed, later) ==
  LET now == IF refreshed THEN Refresh(v, head, index', work') ELSE v
  IN /\ op' = Idle
     /\ view' = now
     /\ sched' = IF later = "again" /\ now # v THEN "none" ELSE later
     /\ known' = (known \/ refreshed)

\* The key goes on to its next command.
To(at) == op' = [op EXCEPT !.at = at] /\ UNCHANGED <<view, sched, known>>
ToPut(text) ==
  /\ op' = [op EXCEPT !.at = "put", !.seen = index, !.text = text]
  /\ UNCHANGED <<view, sched, known>>

\* A command fails, or the lines of a union's hunk cannot move on their own:
\* a union's revert marks its hunks again, and a batch that got somewhere
\* refreshes the list.
Fail ==
  /\ op.at \in {"read", "check", "index", "put", "patch"}
  /\ UNCHANGED <<Repo, outside>>
  /\ LET remarked == IF Reverts(op) /\ ~Frozen(view) /\ op.at # "read"
                     THEN Remark(view, head, index, work) ELSE view
         unread == Frozen(view) /\ (op.at = "index" \/ (op.at = "read" /\ op.do = "move"))
     IN End(remarked, op.moved, IF unread THEN Reopen(view) ELSE "none")

\* apply, apply_lines, set_all, revert and revert_lines of a union.
ReadUnion ==
  /\ op.at = "read" /\ ~Frozen(view)
  /\ UNCHANGED <<Repo, outside>>
  /\ LET text == Over(index, op.todo, IF op.want THEN work ELSE head)
         hides == op.do \in {"lines", "revertLines"}
                  /\ \E p \in op.todo : index[p] \notin {head[p], work[p]}
     IN CASE ~DrawnCurrent -> End(view, FALSE, "retarget")
          [] DrawnCurrent /\ (hides \/ (text = index /\ ~Reverts(op))) -> End(view, FALSE, "none")
          [] OTHER -> /\ op' = [op EXCEPT !.at = IF Reverts(op) THEN "check" ELSE "put",
                                          !.seen = index, !.text = text]
                      /\ UNCHANGED <<view, sched, known>>

Uncompared == TRUE

\* Whether the index is still the one the view rebuilds.
IndexHeld == index = view.held

\* frozen_staging's apply, up to its write; X takes a staged hunk out with it.
ReadFrozen ==
  /\ Frozen(view)
  /\ op.at = "index" \/ (op.at = "read" /\ op.do = "move")
  /\ UNCHANGED <<Repo, outside>>
  /\ IF IndexHeld THEN ToPut(Splice(view, Staged(op)))
     ELSE End(view, op.moved, Reopen(view))

\* drop_hidden.
ReadDrop ==
  /\ op.at = "read" /\ op.do = "drop"
  /\ UNCHANGED <<Repo, outside>>
  /\ IF index = Splice(view, view.staged) THEN ToPut(Over(index, op.todo, head))
     ELSE End(view, FALSE, "local")

\* The step that moves the index's half of X, and the one after it.
IndexHalf ==
  IF Frozen(view) THEN op.do = "revert" /\ op.todo \subseteq view.staged ELSE op.text # op.seen
AfterCheck == IF IndexHalf THEN (IF Frozen(view) THEN "index" ELSE "put") ELSE "patch"

\* revert of for_index, where placed_on tells a hunk the file put back from one
\* it changed, and of for_local; file_lines' revert_lines.
ReadRevert ==
  /\ op.at = "read" /\ Reverts(op) /\ Frozen(view)
  /\ UNCHANGED <<Repo, outside>>
  /\ LET put_back == view.kind # "local" /\ \A p \in op.todo : work[p] = view.old[p]
         touched == view.kind # "local" /\ \E p \in op.todo : work[p] # Drawn(view)[p]
         old == op.do = "revertLines" /\ ~(index = view.old /\ work = Drawn(view))
     IN CASE put_back -> /\ op' = [op EXCEPT !.at = AfterCheck, !.file = FALSE]
                         /\ UNCHANGED <<view, sched, known>>
          [] ~put_back /\ touched -> End(view, FALSE, "none")
          [] old -> End(view, FALSE, "local")
          [] OTHER -> To("check")

\* revert_worktree: the file is checked, the index moves, the file is patched.
Check ==
  /\ op.at = "check" /\ \A p \in op.todo : work[p] = Drawn(view)[p]
  /\ To(AfterCheck)
  /\ UNCHANGED <<Repo, outside>>

\* put_index.
PutUnion ==
  /\ op.at = "put" /\ ~Frozen(view)
  /\ index' = op.text
  /\ UNCHANGED <<head, work, outside>>
  /\ IF Reverts(op)
     THEN op' = [op EXCEPT !.at = "patch"] /\ known' = FALSE /\ UNCHANGED <<view, sched>>
     ELSE End(Remark(view, view.old, op.text, Drawn(view)), TRUE, "none")

HeldBefore(o) == view.held

\* What the view compares the index with from here on.
HeldAfter(o) == o.text

PutFrozen ==
  /\ op.at = "put" /\ Frozen(view) /\ op.do # "drop"
  /\ index' = op.text
  /\ UNCHANGED <<head, work, outside>>
  /\ LET v == [view EXCEPT !.staged = Staged(op), !.held = HeldAfter(op)]
         rest == op.todo \ Moving(op)
         all == v.kind = "local" /\ Changed(v.old, v.new) \subseteq v.staged
     IN IF Reverts(op) \/ rest # {}
        THEN /\ op' = [op EXCEPT !.at = IF Reverts(op) THEN "patch" ELSE "read",
                                 !.todo = IF Reverts(op) THEN @ ELSE rest, !.moved = ~Reverts(op)]
             /\ view' = v /\ known' = FALSE /\ UNCHANGED sched
        ELSE End(v, TRUE, IF all THEN "retarget" ELSE "none")

PutDrop ==
  /\ op.at = "put" /\ op.do = "drop"
  /\ index' = op.text
  /\ UNCHANGED <<head, work, outside>>
  /\ LET v == Refresh(view, head, op.text, work)
     IN End(IF v.open THEN ShowLocal(v, head, op.text, work) ELSE v, TRUE, "none")

\* The patch applies only where the file still has the lines; then the view
\* drops the hunk, or hands over when none is left (_show_reverted).
Patch ==
  /\ op.at = "patch"
  /\ op.file => \A p \in op.todo : work[p] = Drawn(view)[p]
  /\ work' = IF op.file THEN Over(work, op.todo, view.old) ELSE work
  /\ UNCHANGED <<head, index, outside>>
  /\ LET cut == [view EXCEPT !.gone = @ \cup op.todo]
         v == IF Frozen(view) THEN cut ELSE Remark(cut, cut.old, op.text, Drawn(cut))
         shown == Refresh(v, head, index, work')
         next == IF shown.open THEN ShowEntry(shown, shown.pre, head, index, work') ELSE shown
     IN IF Hunks(v) = {} THEN End(next, TRUE, "none")
        ELSE End(v, TRUE, IF Frozen(view) THEN "again" ELSE "none")

-----------------------------------------------------------------------------
(* The loop and the other programs.                                        *)

\* What the last key scheduled.
RunScheduled ==
  /\ op.at = "idle" /\ sched # "none"
  /\ LET show == IF sched = "local" \/ (sched = "again" /\ view.kind = "local")
                 THEN ShowLocal(view, head, index, work) ELSE RetargetView(view, head, index, work)
     IN IF view.open THEN view' = show /\ known' = TRUE ELSE UNCHANGED <<view, known>>
  /\ sched' = "none"
  /\ UNCHANGED <<Repo, op, outside>>

\* The watcher's refresh lands between two keys, or under a prompt.
LandExternal ==
  /\ op.at \in {"idle", "prompt"} /\ view.open /\ ~known
  /\ LET v == Refresh(view, head, index, work)
     IN Sourced(IF v.open THEN RetargetView(v, head, index, work) ELSE v)
  /\ UNCHANGED <<Repo, outside>>

\* Another program stages, edits or commits, at any time.
Outside ==
  /\ view.open /\ outside < MaxOutside
  /\ \/ \E p \in Place, t \in Text : index' = [index EXCEPT ![p] = t] /\ UNCHANGED <<head, work>>
     \/ \E p \in Place, t \in Text : work' = [work EXCEPT ![p] = t] /\ UNCHANGED <<head, index>>
     \/ head' = index /\ UNCHANGED <<index, work>>
  /\ <<head, index, work>>' # <<head, index, work>>
  /\ known' = FALSE /\ outside' = outside + 1
  /\ UNCHANGED <<view, op, sched>>

\* :Differ on a file with a change.
Init ==
  /\ head \in File /\ index \in File /\ work \in File
  /\ ~(head = index /\ index = work)
  /\ outside = 0
  /\ op = Idle /\ sched = "none" /\ known = TRUE
  /\ view = IF head # work THEN ForUnion(head, index, work)
            ELSE ForIndex("index", FALSE, head, index)

Next ==
  \/ \E p \in Place : StageHunk(p) \/ UnstageHunk(p)
  \/ \E want \in BOOLEAN : ToggleAll(want) \/ \E todo \in SUBSET Place : ToggleLines(todo, want)
  \/ \E do \in {"revert", "revertLines"}, todo \in SUBSET Place : Revert(do, todo)
  \/ \E yes \in BOOLEAN : Answer(yes)
  \/ ToggleLocal \/ SetPreview
  \/ ReadUnion \/ ReadFrozen \/ ReadDrop \/ ReadRevert \/ Check
  \/ PutUnion \/ PutFrozen \/ PutDrop \/ Patch \/ Fail
  \/ RunScheduled \/ LandExternal \/ Outside

Spec == Init /\ [][Next]_vars

-----------------------------------------------------------------------------
TypeOK ==
  /\ head \in File /\ index \in File /\ work \in File
  /\ view \in View /\ op \in Op \cup {Idle}
  /\ sched \in {"none", "local", "retarget", "again"}
  /\ known \in BOOLEAN /\ outside \in 0..MaxOutside

\* A frozen view rebuilds the whole index from its marks, so what it was opened
\* on or last wrote is what its marks say, whatever failed in between; and a
\* view no other program wrote under shows the file, and its marks tell what
\* the index holds.
MarksTellIndex ==
  /\ TypeOK
  /\ Frozen(view) => view.held = Splice(view, view.staged)
  /\ (view.open /\ op.at = "idle" /\ sched = "none" /\ outside = view.asof) =>
       CASE view.kind = "union" ->
              /\ DrawnCurrent
              /\ \A p \in Hunks(view) : (p \in view.staged) <=> index[p] = work[p]
              /\ \A p \in Hunks(view) \ (view.staged \cup view.mixed) : index[p] = head[p]
         [] view.kind = "local" -> index = view.held /\ work = Drawn(view)
         [] OTHER -> index = view.held /\ head = view.old

OwnWrite == outside' = outside

\* Every write of the index leaves the places that were not asked for as the
\* key read them.
KeepsTheRest ==
  [][index' # index /\ OwnWrite =>
       \A p \in Place \ Moving(op) : index'[p] = op.seen[p]]_vars

\* X takes from the file what was on screen when the user was asked, at the
\* places asked about, and puts the old side of that diff there.
RevertsWhatWasShown ==
  [][\A p \in Place : work'[p] # work[p] /\ OwnWrite =>
       /\ op.asked /\ p \in op.todo
       /\ work[p] = op.shows.new[p] /\ work'[p] = op.shows.old[p]]_vars

\* u, U and X drop staged content that neither HEAD nor the file holds only
\* after a yes, unless another program wrote since the key was pressed (or,
\* in a local view, which does not look, since it was opened).
DropsAsked ==
  [][\A p \in Place : index'[p] # index[p] /\ OwnWrite /\ ~op.want
                        /\ outside = (IF view.kind = "local" THEN view.asof ELSE op.since)
                        /\ index[p] \notin {head[p], work[p]}
       => op.asked]_vars
=============================================================================
