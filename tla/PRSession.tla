----------------------------- MODULE PRSession -----------------------------
(***************************************************************************)
(* A pull request session of the editor, lua/differ/pr/init.lua: the opens *)
(* in flight, the commits the session is pinned to, the blobs it memoises  *)
(* and prefetches, the file it draws, the viewed marks it flips before     *)
(* GitHub answers; with the comments and review summaries posted from it   *)
(* (pr/comment.lua, pr/review.lua) and the recovery from a moved head.     *)
(*                                                                         *)
(* The head of the pull request is a counter, and a pin, a blob and the    *)
(* anchor of a comment are the head they were taken from.  The sidecar     *)
(* answers its requests in any order, and each may fail; it guards a post  *)
(* with a read of the head and writes in a call after it, so that a push   *)
(* may come between (PRWrites has the guards of every mutation).           *)
(* The threads, the overview page and its replies are PRThreads'; whether  *)
(* a draft is pending is left open: a summary may be sent at any moment.   *)
(***************************************************************************)
EXTENDS Integers, FiniteSets

CONSTANTS
  Files,       \* the number of files of the pull request
  Unread,      \* bound: the files not viewed at first, whose marks are flipped
  Windows,     \* bound: compose windows and the posts made from them
  Flips,       \* bound: set_file_viewed requests in flight at once
  MaxOpens,    \* bound: the opens of a behaviour (one, when posts are made)
  MaxBlobs,    \* bound: get_file_versions requests in flight at once
  MaxHead,     \* bound: the pushes to the head (none, when marks are flipped)
  None         \* nil

ASSUME PRSessionAssumption ==
  /\ Files \in Nat \ {0}
  /\ Unread \subseteq 1 .. Files
  /\ MaxOpens \in Nat \ {0}
  /\ MaxBlobs \in Nat
  /\ MaxHead \in Nat
  /\ None \notin Nat

VARIABLES
  head,        \* GitHub: the head of the pull request
  mark,        \* GitHub: the viewed mark of each file
  gen,         \* open_gen
  opens,       \* the get_pr requests of M.show
  s,           \* the live session
  blobs,       \* its get_file_versions requests
  flip,        \* the set_file_viewed requests
  before,      \* ghost: the flips of its file GitHub made before each, unanswered
  muddled,     \* ghost: files whose mark no order of the answers can settle
  win,         \* compose windows, and their posts
  does         \* bound: what the user of this behaviour writes, marks or posts
               \* (the two share no state but the session)

vars ==
  <<head, mark, gen, opens, s, blobs, flip, before, muddled, win, does>>

Paths == 1 .. Files
Heads == 0 .. MaxHead

\* pr_meta's pins, versions, prefetching, the panel with its cursor row and its
\* selected row, the view's model (None: no view), entries' viewed.  `strayed`
\* is not in the code: since the selected file was opened its read failed, the
\* cursor left its row or the sidebar was hidden.
Session ==
  [id : 0 .. MaxOpens, pins : Heads, memo : [Paths -> Heads \cup {None}],
   warming : SUBSET Paths, panel : {"none", "open", "hidden"},
   cursor : Paths, selected : Paths,
   view : [path : Paths \cup {None}, at : Heads],
   viewed : [Paths -> BOOLEAN], strayed : BOOLEAN]

Open == [gen : 1 .. MaxOpens, at : {"sent", "read"}, head : Heads,
         viewed : [Paths -> BOOLEAN]]

Blob == [path : Paths, refs : Heads, for : {"show", "warm"}]

\* `alone` is not in the code: no other flip of the file overlapped it.
Flip == [at : {"free", "sent", "applied"}, of : 0 .. MaxOpens, path : Paths,
         target : BOOLEAN, prev : BOOLEAN, alone : BOOLEAN]

\* A comment, or the summary of a review (no anchor).  `moved` is not in the
\* code: the pins moved under the open window, or before the gesture and the diff
\* was not drawn again.  Nor is `raced`: the head was pushed to between the guard
\* and the write.
Window ==
  [at : {"free", "open", "sent", "checked", "taken", "refused", "getpr", "gotpr"},
   of : 0 .. MaxOpens, for : {"comment", "summary"}, anchor : Heads,
   stale : BOOLEAN, expected : Heads, sees : Heads, moved : BOOLEAN,
   raced : BOOLEAN]

NoView == [path |-> None, at |-> 0]
NoFlip == [at |-> "free", of |-> 0, path |-> 1, target |-> FALSE, prev |-> FALSE,
           alone |-> TRUE]
NoWindow == [at |-> "free", of |-> 0, for |-> "comment", anchor |-> 0,
             stale |-> FALSE, expected |-> 0, sees |-> 0, moved |-> FALSE,
             raced |-> FALSE]

\* open_session's table, for an answer that read `at` and `viewed`; id 0 is no
\* session.
NewSession(id, at, viewed) ==
  [id |-> id, pins |-> at, memo |-> [p \in Paths |-> None], warming |-> {},
   panel |-> "none", cursor |-> 1, selected |-> 1, view |-> NoView,
   viewed |-> viewed, strayed |-> FALSE]

AtFirst == [p \in Paths |-> p \notin Unread]
NoSession == NewSession(0, 0, AtFirst)
Live == s.id # 0

Init ==
  /\ head = 0
  /\ mark = AtFirst
  /\ gen = 0
  /\ opens = {}
  /\ s = NoSession
  /\ blobs = {}
  /\ flip = [f \in Flips |-> NoFlip]
  /\ before = [f \in Flips |-> {}]
  /\ muddled = {}
  /\ win = [w \in Windows |-> NoWindow]
  /\ does \in {"marks", "posts"}

-----------------------------------------------------------------------------
(* Showing a file, on the fields t of the session.                         *)

\* Panel:current_entry: the cursor's row, or the selected one when hidden.
CurrentEntry(t) == IF t.panel = "open" THEN t.cursor ELSE t.selected

Ask(t, p, for) == [path |-> p, refs |-> t.pins, for |-> for]

\* prefetch_around: the neighbours neither memoised nor on their way.
Cold(t, p) ==
  {q \in {p - 1, p + 1} \cap Paths : t.memo[q] = None /\ q \notin t.warming}

\* show_file's render.
Render(t, p) ==
  [t EXCEPT !.view = [path |-> p, at |-> t.memo[p]],
            !.warming = @ \cup Cold(t, p)]
RenderAsks(t, p) == {Ask(t, q, "warm") : q \in Cold(t, p)}

\* The requests in flight, within the bound.
Requested(asks) ==
  /\ Cardinality(asks) <= MaxBlobs
  /\ blobs' = asks

ShowFileUnlessWarming(t, p, others) ==
  IF t.memo[p] # None
    THEN /\ s' = Render(t, p)
         /\ Requested(others \cup RenderAsks(t, p))
    ELSE /\ s' = t
         /\ Requested(IF p \in t.warming THEN others
                       ELSE others \cup {Ask(t, p, "show")})

\* show_file, with `others` the requests in flight.
ShowFile(t, p, others) ==
  IF t.memo[p] # None
    THEN /\ s' = Render(t, p)
         /\ Requested(others \cup RenderAsks(t, p))
    ELSE /\ s' = t
         /\ Requested(others \cup {Ask(t, p, "show")})

\* Panel:_open, by a selection, a step or a jump.
Opened(t, p) ==
  [t EXCEPT !.selected = p, !.cursor = IF t.panel = "open" THEN p ELSE @,
            !.strayed = t.panel # "open"]

\* pins_hold.
PinsHold(t, b) == t.pins = b.refs

Memoised(t, b) == [t EXCEPT !.memo[b.path] = b.refs]

DrawAnyway(t, b) == TRUE

\* The file is the one the panel is on, and the sidebar is there.
Draws(t, b) == t.panel = "open" /\ t.cursor = b.path

\* The answer of show_file's request: an error, or the blobs.
Shown(b) ==
  /\ b.for = "show"
  /\ \/ /\ s' = [s EXCEPT !.strayed = @ \/ (b.path = s.selected /\ PinsHold(s, b))]
        /\ blobs' = blobs \ {b}
     \/ /\ ~PinsHold(s, b)
        /\ s' = s
        /\ blobs' = blobs \ {b}
     \/ /\ PinsHold(s, b)
        /\ LET t == Memoised(s, b) IN
           IF Draws(t, b)
             THEN /\ s' = Render(t, b.path)
                  /\ Requested((blobs \ {b}) \cup RenderAsks(t, b.path))
             ELSE /\ s' = t
                  /\ blobs' = blobs \ {b}

\* The answer of a prefetch.
Warmed(b) ==
  /\ b.for = "warm"
  /\ LET t == [s EXCEPT !.warming = @ \ {b.path}] IN
     \/ s' = t
     \/ PinsHold(s, b) /\ s' = Memoised(t, b)
  /\ blobs' = blobs \ {b}

\* The requests of a session that is gone are dropped with it (guard.owns).
BlobAnswer ==
  /\ \E b \in blobs : Shown(b) \/ Warmed(b)
  /\ UNCHANGED <<head, mark, gen, opens, flip, before, muddled, win, does>>

-----------------------------------------------------------------------------
(* The viewed marks.                                                       *)

Busy(p) == \E f \in Flips : flip[f].at # "free" /\ flip[f].path = p

\* mark_viewed, of entry p: the flip shown at once, and its request.
Marked(t, p, target) == [t EXCEPT !.viewed[p] = target]
SendFlip(t, p, target) ==
  IF t.viewed[p] = target
    THEN UNCHANGED flip
    ELSE \E f \in Flips :
           /\ does = "marks"
           /\ flip[f].at = "free"
           /\ flip' = [g \in Flips |->
                CASE g = f -> [at |-> "sent", of |-> t.id, path |-> p, target |-> target,
                               prev |-> t.viewed[p], alone |-> ~Busy(p)]
                  [] g # f /\ flip[g].at # "free" /\ flip[g].path = p
                       -> [flip[g] EXCEPT !.alone = FALSE]
                  [] OTHER -> flip[g]]

\* toggle_viewed, on the panel.
ToggleViewed ==
  /\ Live /\ s.panel = "open"
  /\ s.cursor \in Unread
  /\ SendFlip(s, s.cursor, ~s.viewed[s.cursor])
  /\ s' = Marked(s, s.cursor, ~s.viewed[s.cursor])
  /\ UNCHANGED <<head, mark, gen, opens, blobs, before, muddled, win, does>>

\* GitHub makes the flip.
Apply(f) ==
  /\ flip[f].at = "sent"
  /\ flip' = [flip EXCEPT ![f].at = "applied"]
  /\ mark' = [mark EXCEPT ![flip[f].path] = flip[f].target]
  /\ before' = [before EXCEPT ![f] = {g \in Flips : flip[g].at = "applied"
                                                     /\ flip[g].path = flip[f].path}]
  /\ UNCHANGED <<head, gen, opens, s, blobs, muddled, win, does>>

KeepFlip(t, f) == t
\* mark_viewed's callback: roll back, or reconcile.
RolledBack(t, f) == [t EXCEPT !.viewed[flip[f].path] = flip[f].prev]
Reconciled(t, f) == [t EXCEPT !.viewed[flip[f].path] = flip[f].target]

\* GitHub made another flip of f's file before it and has not answered that one.
Overtakes(f) == before[f] # {}

\* The answer of a flip, or its failure, made or not.
FlipAnswer(f) ==
  /\ flip[f].at # "free"
  /\ flip' = [flip EXCEPT ![f] = NoFlip]
  /\ before' = [g \in Flips |-> IF g = f THEN {} ELSE before[g] \ {f}]
  /\ \/ /\ flip[f].at = "applied"
        /\ s' = IF flip[f].of = s.id THEN Reconciled(s, f) ELSE s
        /\ muddled' = muddled \cup (IF Overtakes(f) THEN {flip[f].path} ELSE {})
     \/ /\ s' = IF flip[f].of = s.id THEN RolledBack(s, f) ELSE s
        /\ muddled' = muddled \cup
             (IF flip[f].at = "applied" \/ ~flip[f].alone THEN {flip[f].path} ELSE {})
  /\ UNCHANGED <<head, mark, gen, opens, blobs, win, does>>

-----------------------------------------------------------------------------
(* The panel.                                                              *)

\* A row selected, a backward step, a jump to a thread: the file is shown.
Select(p) ==
  /\ Live /\ s.panel # "none"
  /\ ShowFile(Opened(s, p), p, blobs)
  /\ UNCHANGED <<head, mark, gen, opens, flip, before, muddled, win, does>>

\* viewed.next_unviewed, forward, and Panel:goto_file's next row, which wraps.
NextUnviewed(p) ==
  {q \in p + 1 .. Files : /\ ~s.viewed[q]
                          /\ \A r \in p + 1 .. q - 1 : s.viewed[r]}
NextRow(p) == {IF p = Files THEN 1 ELSE p + 1}

\* nav_unviewed, and goto_file with on_step: forward, the file left is marked.
Step ==
  /\ Live /\ s.panel # "none"
  /\ LET left == CurrentEntry(s) IN
     \E p \in NextUnviewed(left) \cup NextRow(left) :
       /\ SendFlip(s, left, TRUE)
       /\ ShowFile(Marked(Opened(s, p), left, TRUE), p, blobs)
  /\ UNCHANGED <<head, mark, gen, opens, before, muddled, win, does>>

\* The cursor moves in the panel, and opens nothing.
MoveCursor(p) ==
  /\ Live /\ s.panel = "open"
  /\ p # s.cursor
  /\ s' = [s EXCEPT !.cursor = p, !.strayed = @ \/ p # s.selected]
  /\ UNCHANGED <<head, mark, gen, opens, blobs, flip, before, muddled, win, does>>

\* Panel:toggle, of a sidebar beside the diff.
ToggleSidebar ==
  /\ Live
  /\ \/ s.panel = "open" /\ s' = [s EXCEPT !.panel = "hidden", !.strayed = TRUE]
     \/ s.panel = "hidden" /\ s' = [s EXCEPT !.panel = "open", !.cursor = s.selected]
  /\ UNCHANGED <<head, mark, gen, opens, blobs, flip, before, muddled, win, does>>

\* The overview page takes the window of the diff.
Overview ==
  /\ Live /\ s.panel # "none"
  /\ s' = [s EXCEPT !.panel = "hidden", !.view = NoView, !.strayed = TRUE]
  /\ UNCHANGED <<head, mark, gen, opens, blobs, flip, before, muddled, win, does>>

\* enter_files: the panel is built or shown, and lands on a file.
EnterFiles(p) ==
  /\ Live
  /\ ShowFile(Opened([s EXCEPT !.panel = "open"], p), p, blobs)
  /\ UNCHANGED <<head, mark, gen, opens, flip, before, muddled, win, does>>

-----------------------------------------------------------------------------
(* Opening a session.                                                      *)

\* end_session: the tab is closed, with the compose windows in it; the answers
\* still to come find the session gone (guard.owns), but a post may yet land.
Closed ==
  [w \in Windows |->
     IF win[w].at \in {"sent", "checked", "taken"} THEN win[w] ELSE NoWindow]

End ==
  /\ Live
  /\ s' = NoSession
  /\ blobs' = {}
  /\ win' = Closed
  /\ UNCHANGED <<head, mark, gen, opens, flip, before, muddled, does>>

\* M.show.
Show ==
  /\ gen < IF does = "marks" THEN MaxOpens ELSE 1
  /\ gen' = gen + 1
  /\ opens' = opens \cup {[gen |-> gen + 1, at |-> "sent", head |-> 0,
                           viewed |-> AtFirst]}
  /\ UNCHANGED <<head, mark, s, blobs, flip, before, muddled, win, does>>

\* GitHub reads the pull request.
ReadOpen(o) ==
  /\ o.at = "sent"
  /\ opens' = (opens \ {o}) \cup
                {[o EXCEPT !.at = "read", !.head = head, !.viewed = mark]}
  /\ UNCHANGED <<head, mark, gen, s, blobs, flip, before, muddled, win, does>>

\* No later open superseded it.
LatestOpen(o) == o.gen = gen

\* The answer dropped: superseded, failed, or of a pull request with no files.
DropOpen(o) ==
  /\ opens' = opens \ {o}
  /\ UNCHANGED <<head, mark, gen, s, blobs, flip, before, muddled, win, does>>

\* open_session, which ends the session there is and lands on the page or on
\* the first file.
OpenSession(o, land) ==
  /\ o.at = "read"
  /\ LatestOpen(o)
  /\ opens' = opens \ {o}
  /\ LET t == NewSession(o.gen, o.head, o.viewed) IN
     IF land = "overview" THEN s' = t /\ blobs' = {}
     ELSE ShowFile([t EXCEPT !.panel = "open"], 1, {})
  /\ win' = Closed
  /\ muddled' = {p \in Paths : o.viewed[p] # mark[p] \/ Busy(p)}
  /\ UNCHANGED <<head, mark, gen, flip, before, does>>

-----------------------------------------------------------------------------
(* Comments, review summaries, and a moved head.                           *)

\* comment, comment_range: the anchor is of the diff that is drawn.
Comment(w) ==
  /\ Live /\ s.view # NoView
  /\ win[w].at = "free" /\ does = "posts"
  /\ win' = [win EXCEPT ![w] =
       [NoWindow EXCEPT !.at = "open", !.of = s.id, !.anchor = s.view.at,
                        !.moved = s.view.at # s.pins]]
  /\ UNCHANGED <<head, mark, gen, opens, s, blobs, flip, before, muddled, does>>

\* review's submit, from the panel or the diff.
Summary(w) ==
  /\ Live /\ s.panel # "none"
  /\ win[w].at = "free" /\ does = "posts"
  /\ win' = [win EXCEPT ![w] =
       [NoWindow EXCEPT !.at = "open", !.of = s.id, !.for = "summary"]]
  /\ UNCHANGED <<head, mark, gen, opens, s, blobs, flip, before, muddled, does>>

\* Cancelled, or empty.
Cancel(w) ==
  /\ win[w].at = "open"
  /\ win' = [win EXCEPT ![w] = NoWindow]
  /\ UNCHANGED <<head, mark, gen, opens, s, blobs, flip, before, muddled, does>>

\* post, _do_submit: the head pinned now is the one expected.
Submit(w) ==
  /\ win[w].at = "open"
  /\ win' = [win EXCEPT ![w].at = "sent", ![w].expected = s.pins]
  /\ UNCHANGED <<head, mark, gen, opens, s, blobs, flip, before, muddled, does>>

GuardPasses(w) == TRUE

\* The sidecar's guardHead.
GuardHead(w) == head = win[w].expected

\* The sidecar reads the head: the post is refused, or let through.
Guard(w) ==
  /\ win[w].at = "sent"
  /\ \/ /\ ~GuardHead(w)
        /\ win' = [win EXCEPT ![w].at = "refused", ![w].expected = 0]
     \/ /\ GuardHead(w)
        /\ win' = [win EXCEPT ![w].at = "checked"]
  /\ UNCHANGED <<head, mark, gen, opens, s, blobs, flip, before, muddled, does>>

\* GitHub takes the post, which names no commit: it is of the head there is (what
\* its answer does is PRThreads').
Take(w) ==
  /\ win[w].at = "checked"
  /\ win' = [win EXCEPT ![w].at = "taken", ![w].sees = head]
  /\ UNCHANGED <<head, mark, gen, opens, s, blobs, flip, before, muddled, does>>

\* A post that was taken is answered; a request of the post fails; or its session
\* is gone.
DropPost(w) ==
  /\ win[w].at \notin {"free", "open"}
  /\ win' = [win EXCEPT ![w] = NoWindow]
  /\ UNCHANGED <<head, mark, gen, opens, s, blobs, flip, before, muddled, does>>

\* The callback's conflict: handle_conflict asks for the pull request.
Refused(w) ==
  /\ win[w].at = "refused"
  /\ win[w].of = s.id /\ s.panel # "none"
  /\ win' = [win EXCEPT ![w].at = "getpr"]
  /\ UNCHANGED <<head, mark, gen, opens, s, blobs, flip, before, muddled, does>>

ReadPR(w) ==
  /\ win[w].at = "getpr"
  /\ win' = [win EXCEPT ![w].at = "gotpr", ![w].sees = head]
  /\ UNCHANGED <<head, mark, gen, opens, s, blobs, flip, before, muddled, does>>

\* The pins moved in place, the memo dropped.
Repinned(t, at) == [t EXCEPT !.pins = at, !.memo = [p \in Paths |-> None]]

\* handle_conflict's callback: the file is shown again if the sidebar is there,
\* and a comment is prompted for again.
HandleConflict(w) ==
  /\ win[w].at = "gotpr"
  /\ win[w].of = s.id
  /\ LET t == Repinned(s, win[w].sees) IN
     IF s.panel = "open" THEN ShowFile(t, s.cursor, blobs)
     ELSE s' = t /\ UNCHANGED blobs
  /\ win' = [v \in Windows |->
       CASE v = w /\ win[w].for = "comment" ->
              [win[w] EXCEPT !.at = "open", !.stale = TRUE, !.moved = TRUE, !.sees = 0]
         [] v = w /\ win[w].for = "summary" -> NoWindow
         [] v # w /\ win[v].at = "open" /\ win[w].sees # s.pins ->
              [win[v] EXCEPT !.moved = TRUE]
         [] OTHER -> win[v]]
  /\ UNCHANGED <<head, mark, gen, opens, flip, before, muddled, does>>

\* Somebody pushes to the head.
Push ==
  /\ head < MaxHead /\ does = "posts"
  /\ head' = head + 1
  /\ win' = [w \in Windows |->
       IF win[w].at = "checked" THEN [win[w] EXCEPT !.raced = TRUE] ELSE win[w]]
  /\ UNCHANGED <<mark, gen, opens, s, blobs, flip, before, muddled, does>>

-----------------------------------------------------------------------------
User ==
  \/ Show \/ End \/ Step \/ ToggleViewed \/ ToggleSidebar \/ Overview
  \/ \E p \in Paths : Select(p) \/ MoveCursor(p) \/ EnterFiles(p)
  \/ \E w \in Windows : Comment(w) \/ Summary(w) \/ Cancel(w) \/ Submit(w)

Next ==
  \/ User \/ BlobAnswer \/ Push
  \/ \E o \in opens : \/ ReadOpen(o) \/ DropOpen(o)
                      \/ \E land \in {"overview", "files"} : OpenSession(o, land)
  \/ \E f \in Flips : Apply(f) \/ FlipAnswer(f)
  \/ \E w \in Windows : \/ Guard(w) \/ Take(w) \/ DropPost(w)
                        \/ Refused(w) \/ ReadPR(w) \/ HandleConflict(w)

Spec == Init /\ [][Next]_vars

-----------------------------------------------------------------------------
\* Every variable has its type.
TypeOK ==
  /\ head \in Heads
  /\ mark \in [Paths -> BOOLEAN]
  /\ gen \in 0 .. MaxOpens
  /\ opens \subseteq Open
  /\ s \in Session
  /\ blobs \subseteq Blob
  /\ flip \in [Flips -> Flip]
  /\ before \in [Flips -> SUBSET Flips]
  /\ muddled \subseteq Paths
  /\ win \in [Windows -> Window]
  /\ does \in {"marks", "posts"}

\* The file that was opened last is drawn from the pinned commits, or its blobs
\* are on their way: a prefetch of it, a head that moves and a page that hides it
\* lose no draw.  (Unless its read failed, or cursor or sidebar moved meanwhile;
\* and every variable has its type.)
ShownOrComing ==
  /\ TypeOK
  /\ s.panel = "open" /\ ~s.strayed
       => \/ s.view = [path |-> s.selected, at |-> s.pins]
          \/ Ask(s, s.selected, "show") \in blobs

\* What is drawn is the file the panel is on, of the pinned commits: blobs that
\* come late never land over the file stepped to, and none that was asked for
\* before the pins moved is memoised (show_file's callback, prefetch_around,
\* handle_conflict).  Nor does a superseded open replace what a later one built
\* or is building (M.show's open_gen).
DrawsCurrent ==
  [][/\ s'.view # s.view /\ s'.view # NoView
          => s'.view = [path |-> CurrentEntry(s'), at |-> s'.pins]
     /\ s'.id # s.id /\ s'.id # 0
          => s.id < s'.id /\ \A o \in opens : o.gen <= s'.id]_vars

\* When no flip of a file is under way the panel shows GitHub's mark, however its
\* flips overlapped: unless answers crossed, one of several overlapping ones
\* failed, or an answer was lost (mark_viewed).
MarksAgree ==
  Live => \A p \in Paths \ muddled : Busy(p) \/ s.viewed[p] = mark[p]

\* A comment GitHub took, at the head there was.
Landed(w) == win[w].at = "taken" /\ win[w].for = "comment"

\* A comment is let through at the head its anchor was taken from only: it lands
\* there or, when the head was pushed to between the sidecar's guard and its
\* write and not otherwise, at a later one.  (Unless the pins of its session
\* moved under the window or under the diff it was made in: post,
\* handle_conflict, guardHead.)
AnchoredAtHead ==
  \A w \in Windows :
    Landed(w) => \/ win[w].moved
                 \/ /\ win[w].anchor <= win[w].sees
                    /\ win[w].raced \/ win[w].anchor = win[w].sees

\* "So a comment never lands against a commit the user wasn't looking at"
\* (guardHead).  No run checks it: the code does not keep to it when the head is
\* pushed to between the guard and the write.
NeverUnseen ==
  \A w \in Windows : Landed(w) => win[w].moved \/ win[w].anchor = win[w].sees

\* A comment whose anchor is of another head than the one it lands on was
\* prompted for again, as stale: "never a silent post" (post).  No run checks
\* it: the code does not keep to it when two windows meet one conflict.
NeverSilent ==
  \A w \in Windows : Landed(w) /\ win[w].anchor # win[w].sees => win[w].stale
=============================================================================
