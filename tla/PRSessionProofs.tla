-------------------------- MODULE PRSessionProofs --------------------------
(***************************************************************************)
(* Proofs about PRSession, for any number of files, compose windows, flips *)
(* in flight, opens, reads and pushes; and about PRReads, for any lists,   *)
(* page sizes, caps, faults, calls and changes by others.                  *)
(***************************************************************************)
EXTENDS PRSession, PRReads, FiniteSetTheorems, SequenceTheorems, TLAPS, WellFoundedInduction

\* The memo holds blobs of the pinned commits only; the view, where it is not
\* strayed from, is of the row the cursor is on.
ShowInv ==
  /\ \A p \in Paths : s.memo[p] \in {None, s.pins}
  /\ s.panel # "open" => s.panel = "none" \/ s.strayed
  /\ s.panel = "open" /\ ~s.strayed =>
       /\ s.cursor = s.selected
       /\ \/ s.view = [path |-> s.selected, at |-> s.pins]
          \/ Ask(s, s.selected, "show") \in blobs

\* An open has a number of its own, that of no session so far.
OpenInv ==
  /\ s.id <= gen
  /\ \A o \in opens : o.gen <= gen /\ o.gen # s.id
  /\ \A o, q \in opens : o.gen = q.gen => o = q

\* The flips in flight of one file, and where GitHub's mark comes from.
FlipInv ==
  /\ \A f, g \in Flips : f # g /\ flip[f].at # "free" /\ flip[g].at # "free"
                           /\ flip[f].path = flip[g].path => ~flip[f].alone
  /\ \A f \in Flips : \A g \in before[f] :
       flip[f].at = "applied" /\ flip[g].at = "applied" /\ flip[g].path = flip[f].path
  /\ \A f, g \in Flips : f # g /\ flip[f].at = "applied" /\ flip[g].at = "applied"
                           /\ flip[f].path = flip[g].path => f \in before[g] \/ g \in before[f]

\* f is the last flip of its file that GitHub made.
LastFlip(f) ==
  /\ flip[f].at = "applied"
  /\ \A g \in Flips : g # f /\ flip[g].at = "applied" /\ flip[g].path = flip[f].path => g \in before[f]

MarkInv ==
  \A p \in Paths \ muddled :
    /\ \A f \in Flips : LastFlip(f) /\ flip[f].path = p => flip[f].target = mark[p]
    /\ Live =>
         /\ ~Busy(p) => s.viewed[p] = mark[p]
         /\ \A f \in Flips : flip[f].path = p /\ flip[f].at # "free" =>
              /\ flip[f].of = s.id
              /\ flip[f].at = "sent" /\ flip[f].alone => flip[f].prev = mark[p]

\* An open window is of the session there is, and its anchor of the pins, unless
\* they moved; a post on its way expects the head of its anchor, and once it was
\* let through that is the head, unless a push came between.
Placed(x) ==
  x.for = "comment" /\ ~x.moved =>
    /\ x.at = "open" => x.anchor = s.pins
    /\ x.at = "sent" => x.anchor = x.expected
    /\ x.at = "checked" => x.anchor <= head /\ (x.raced \/ x.anchor = head)
    /\ x.at = "taken" => x.anchor <= x.sees /\ (x.raced \/ x.anchor = x.sees)

WinInv ==
  \A w \in Windows : Placed(win[w]) /\ (win[w].at = "open" => win[w].of = s.id)

SessionInv == TypeOK /\ ShowInv /\ OpenInv /\ FlipInv /\ MarkInv /\ WinInv
-----------------------------------------------------------------------------
(* What a step leaves alone.                                               *)

LEMMA ShowFrame ==
  ASSUME ShowInv, blobs' = blobs, s'.memo = s.memo, s'.pins = s.pins, s'.panel = s.panel,
         s'.strayed = s.strayed, s'.cursor = s.cursor, s'.selected = s.selected, s'.view = s.view
  PROVE  ShowInv'
  BY DEF ShowInv, Ask

LEMMA OpenFrame ==
  ASSUME OpenInv, gen' = gen, opens' = opens, s'.id = s.id
  PROVE  OpenInv'
  BY DEF OpenInv

LEMMA FlipFrame ==
  ASSUME FlipInv, MarkInv, flip' = flip, before' = before, muddled' = muddled, mark' = mark,
         s'.id = s.id, s'.viewed = s.viewed
  PROVE  FlipInv' /\ MarkInv'
  BY DEF FlipInv, MarkInv, LastFlip, Live, Busy

LEMMA WinFrame ==
  ASSUME WinInv, win' = win, head' = head, s'.id = s.id, s'.pins = s.pins
  PROVE  WinInv'
  BY DEF WinInv, Placed

-----------------------------------------------------------------------------
(* Showing a file.                                                         *)

\* The fields that show_file leaves alone.
Keeps(t, u) ==
  /\ u.id = t.id /\ u.pins = t.pins /\ u.viewed = t.viewed /\ u.panel = t.panel
  /\ u.cursor = t.cursor /\ u.selected = t.selected /\ u.strayed = t.strayed /\ u.memo = t.memo

LEMMA RenderType ==
  ASSUME NEW t \in Session, NEW p \in Paths, t.memo[p] # None
  PROVE  /\ Render(t, p) \in Session /\ Keeps(t, Render(t, p))
         /\ Render(t, p).view = [path |-> p, at |-> t.memo[p]]
         /\ RenderAsks(t, p) \subseteq Blob
<1>1. Cold(t, p) \subseteq Paths
  BY DEF Cold
<1>2. t.memo[p] \in Heads /\ t.pins \in Heads
  BY DEF Session
<1>3. RenderAsks(t, p) \subseteq Blob
  BY <1>1, <1>2 DEF RenderAsks, Ask, Blob
<1>4. Render(t, p) \in Session /\ Keeps(t, Render(t, p))
      /\ Render(t, p).view = [path |-> p, at |-> t.memo[p]]
  BY <1>1, <1>2 DEF Render, Session, Keeps
<1> QED
  BY <1>3, <1>4

\* show_file draws the file from the memo, or its blobs are on their way.
LEMMA ShowFileShows ==
  ASSUME NEW t \in Session, NEW p \in Paths, NEW others, others \subseteq Blob,
         \A q \in Paths : t.memo[q] \in {None, t.pins}, ShowFile(t, p, others)
  PROVE  /\ s' \in Session /\ blobs' \subseteq Blob /\ Keeps(t, s') /\ others \subseteq blobs'
         /\ \/ s'.view = [path |-> p, at |-> t.pins]
            \/ s'.view = t.view /\ Ask(t, p, "show") \in blobs'
<1>1. CASE t.memo[p] # None
  <2>1. s' = Render(t, p) /\ blobs' = others \cup RenderAsks(t, p)
    BY <1>1 DEF ShowFile, Requested
  <2> QED
    BY <1>1, <2>1, RenderType
<1>2. CASE t.memo[p] = None
  <2>1. s' = t /\ blobs' = others \cup {Ask(t, p, "show")}
    BY <1>2 DEF ShowFile, Requested
  <2>2. Ask(t, p, "show") \in Blob
    BY DEF Ask, Blob, Session
  <2> QED
    BY <2>1, <2>2 DEF Keeps
<1> QED
  BY <1>1, <1>2

\* ShowInv and WinInv after a file is shown, on a panel that is as Opened leaves it.
LEMMA ShowFileInv ==
  ASSUME SessionInv, NEW t \in Session, NEW p \in Paths, NEW others, others \subseteq Blob,
         \A q \in Paths : t.memo[q] \in {None, t.pins}, ShowFile(t, p, others),
         t.panel = "open" /\ ~t.strayed => t.cursor = p /\ t.selected = p,
         t.panel # "open" => t.panel = "none" \/ t.strayed
  PROVE  ShowInv'
<1>1. /\ Keeps(t, s')
      /\ \/ s'.view = [path |-> p, at |-> t.pins]
         \/ Ask(t, p, "show") \in blobs'
  BY ShowFileShows
<1>2. Ask(s', p, "show") = Ask(t, p, "show")
  BY <1>1 DEF Keeps, Ask
<1> QED
  BY <1>1, <1>2 DEF Keeps, ShowInv, Ask

LEMMA OpenedType ==
  ASSUME NEW t \in Session, NEW p \in Paths
  PROVE  /\ Opened(t, p) \in Session
         /\ Opened(t, p).id = t.id /\ Opened(t, p).pins = t.pins /\ Opened(t, p).viewed = t.viewed
         /\ Opened(t, p).memo = t.memo /\ Opened(t, p).panel = t.panel /\ Opened(t, p).view = t.view
         /\ Opened(t, p).selected = p /\ (t.panel = "open" => Opened(t, p).cursor = p)
         /\ Opened(t, p).strayed = (t.panel # "open")
  BY DEF Opened, Session

-----------------------------------------------------------------------------
(* The panel.                                                              *)

LEMMA SelectInv ==
  ASSUME SessionInv, NEW p \in Paths, Select(p)
  PROVE  SessionInv'
<1> DEFINE t == Opened(s, p)
<1>0. /\ ShowFile(t, p, blobs)
      /\ UNCHANGED <<head, mark, gen, opens, flip, before, muddled, win, does>>
  BY DEF Select
<1>1. /\ s \in Session /\ blobs \subseteq Blob
      /\ \A q \in Paths : s.memo[q] \in {None, s.pins}
  BY DEF SessionInv, TypeOK, ShowInv
<1>2. /\ t \in Session /\ t.id = s.id /\ t.pins = s.pins /\ t.viewed = s.viewed /\ t.memo = s.memo
      /\ t.panel = s.panel /\ t.selected = p /\ (s.panel = "open" => t.cursor = p)
      /\ t.strayed = (s.panel # "open")
  BY <1>1, OpenedType
<1> HIDE DEF t
<1>3. s' \in Session /\ blobs' \subseteq Blob /\ Keeps(t, s')
  BY <1>0, <1>1, <1>2, ShowFileShows
<1>4. TypeOK'
  BY <1>0, <1>3 DEF SessionInv, TypeOK
<1>5. ShowInv'
  BY <1>0, <1>1, <1>2, ShowFileInv
<1>6. OpenInv' /\ FlipInv' /\ MarkInv' /\ WinInv'
  BY <1>0, <1>2, <1>3, OpenFrame, FlipFrame, WinFrame DEF SessionInv, Keeps
<1> QED
  BY <1>4, <1>5, <1>6 DEF SessionInv
LEMMA EnterFilesInv ==
  ASSUME SessionInv, NEW p \in Paths, EnterFiles(p)
  PROVE  SessionInv'
<1> DEFINE o == [s EXCEPT !.panel = "open"]
           t == Opened(o, p)
<1>0. /\ ShowFile(t, p, blobs)
      /\ UNCHANGED <<head, mark, gen, opens, flip, before, muddled, win, does>>
  BY DEF EnterFiles
<1>1. /\ s \in Session /\ blobs \subseteq Blob
      /\ \A q \in Paths : s.memo[q] \in {None, s.pins}
  BY DEF SessionInv, TypeOK, ShowInv
<1>2. /\ o \in Session /\ o.id = s.id /\ o.pins = s.pins /\ o.viewed = s.viewed /\ o.memo = s.memo
      /\ o.panel = "open"
  BY <1>1 DEF Session
<1>3. /\ t \in Session /\ t.id = s.id /\ t.pins = s.pins /\ t.viewed = s.viewed /\ t.memo = s.memo
      /\ t.panel = "open" /\ t.selected = p /\ t.cursor = p /\ t.strayed = FALSE
  BY <1>2, OpenedType
<1> HIDE DEF t
<1>4. s' \in Session /\ blobs' \subseteq Blob /\ Keeps(t, s')
  BY <1>0, <1>1, <1>3, ShowFileShows
<1>5. TypeOK'
  BY <1>0, <1>4 DEF SessionInv, TypeOK
<1>6. ShowInv'
  BY <1>0, <1>1, <1>3, ShowFileInv
<1>7. OpenInv' /\ FlipInv' /\ MarkInv' /\ WinInv'
  BY <1>0, <1>3, <1>4, OpenFrame, FlipFrame, WinFrame DEF SessionInv, Keeps
<1> QED
  BY <1>5, <1>6, <1>7 DEF SessionInv

\* The cursor moves, the sidebar comes and goes, the page takes the window.
LEMMA PanelInv ==
  ASSUME SessionInv, (\E p \in Paths : MoveCursor(p)) \/ ToggleSidebar \/ Overview
  PROVE  SessionInv'
<1>0. UNCHANGED <<head, mark, gen, opens, blobs, flip, before, muddled, win, does>>
  BY DEF MoveCursor, ToggleSidebar, Overview
<1>1. s \in Session
  BY DEF SessionInv, TypeOK
<1>2. NoView \in [path : Paths \cup {None}, at : Heads]
  BY PRSessionAssumption DEF NoView, Heads
<1>3. /\ s' \in Session /\ s'.id = s.id /\ s'.pins = s.pins /\ s'.viewed = s.viewed
      /\ s'.memo = s.memo
  <2>1. CASE \E p \in Paths : MoveCursor(p)
    BY <1>1, <2>1, ZenonT(40) DEF MoveCursor, Session
  <2>2. CASE ToggleSidebar
    BY <1>1, <2>2, ZenonT(40) DEF ToggleSidebar, Session
  <2>3. CASE Overview
    <3>1. s' = [s EXCEPT !.panel = "hidden", !.view = NoView, !.strayed = TRUE]
      BY <2>3 DEF Overview
    <3> QED
      BY <1>1, <1>2, <3>1 DEF Session
  <2> QED
    BY <2>1, <2>2, <2>3
<1>4. TypeOK'
  BY <1>0, <1>3 DEF SessionInv, TypeOK
<1>5. ShowInv'
  <2>1. CASE \E p \in Paths : MoveCursor(p)
    BY <1>0, <1>1, <1>3, <2>1 DEF MoveCursor, SessionInv, ShowInv, Session, Ask
  <2>2. CASE ToggleSidebar
    BY <1>0, <1>1, <1>3, <2>2 DEF ToggleSidebar, SessionInv, ShowInv, Session, Ask
  <2>3. CASE Overview
    BY <1>0, <1>1, <1>3, <2>3 DEF Overview, SessionInv, ShowInv, Session, Ask
  <2> QED
    BY <2>1, <2>2, <2>3
<1>6. OpenInv' /\ FlipInv' /\ MarkInv' /\ WinInv'
  BY <1>0, <1>3, OpenFrame, FlipFrame, WinFrame DEF SessionInv
<1> QED
  BY <1>4, <1>5, <1>6 DEF SessionInv

LEMMA NotAlone ==
  ASSUME NEW x \in Flip
  PROVE  LET y == [x EXCEPT !.alone = FALSE]
         IN /\ y \in Flip /\ ~y.alone
            /\ y.at = x.at /\ y.path = x.path /\ y.of = x.of /\ y.target = x.target /\ y.prev = x.prev
  BY DEF Flip

\* mark_viewed's request, and the flip shown at once.
LEMMA SendFlipInv ==
  ASSUME SessionInv, Live, NEW p \in Paths, NEW target \in BOOLEAN, SendFlip(s, p, target),
         s'.id = s.id, s'.viewed = [s.viewed EXCEPT ![p] = target],
         UNCHANGED <<mark, before, muddled>>
  PROVE  flip' \in [Flips -> Flip] /\ FlipInv' /\ MarkInv'
<1>0. /\ s.viewed \in [Paths -> BOOLEAN] /\ s.id \in 0 .. MaxOpens /\ flip \in [Flips -> Flip]
      /\ mark \in [Paths -> BOOLEAN] /\ before \in [Flips -> SUBSET Flips]
  BY DEF SessionInv, TypeOK, Session
<1>1. CASE s.viewed[p] = target
  <2>1. flip' = flip /\ s'.viewed = s.viewed
    BY <1>0, <1>1 DEF SendFlip
  <2> QED
    BY <1>0, <2>1, FlipFrame DEF SessionInv
<1>2. CASE s.viewed[p] # target
  <2> DEFINE new == [at |-> "sent", of |-> s.id, path |-> p, target |-> target,
                     prev |-> s.viewed[p], alone |-> ~Busy(p)]
  <2>1. PICK f \in Flips :
          /\ flip[f].at = "free"
          /\ flip' = [g \in Flips |->
               CASE g = f -> new
                 [] g # f /\ flip[g].at # "free" /\ flip[g].path = p -> [flip[g] EXCEPT !.alone = FALSE]
                 [] OTHER -> flip[g]]
    BY <1>2 DEF SendFlip
  <2>2. new \in Flip /\ \A g \in Flips : [flip[g] EXCEPT !.alone = FALSE] \in Flip
    <3>1. (~Busy(p)) \in BOOLEAN
      BY DEF Busy
    <3>2. new \in Flip
      BY <1>0, <3>1 DEF Flip
    <3> QED
      BY <1>0, <3>2, NotAlone
  <2>3. /\ flip'[f] = new
        /\ \A g \in Flips : g # f /\ flip[g].at # "free" /\ flip[g].path = p =>
             flip'[g] = [flip[g] EXCEPT !.alone = FALSE]
        /\ \A g \in Flips : g # f /\ ~(flip[g].at # "free" /\ flip[g].path = p) => flip'[g] = flip[g]
    BY <2>1
  <2>4. flip' \in [Flips -> Flip]
    BY <1>0, <2>1, <2>2
  <2>5. /\ flip'[f].at = "sent" /\ flip'[f].path = p /\ flip'[f].of = s.id
        /\ flip'[f].prev = s.viewed[p] /\ flip'[f].alone = ~Busy(p)
        /\ \A g \in Flips : g # f =>
             /\ flip'[g].at = flip[g].at /\ flip'[g].path = flip[g].path /\ flip'[g].of = flip[g].of
             /\ flip'[g].target = flip[g].target /\ flip'[g].prev = flip[g].prev
             /\ flip'[g].alone => flip[g].alone
             /\ flip[g].at # "free" /\ flip[g].path = p => ~flip'[g].alone
    <3>1. ASSUME NEW g \in Flips, g # f
          PROVE  /\ flip'[g].at = flip[g].at /\ flip'[g].path = flip[g].path /\ flip'[g].of = flip[g].of
                 /\ flip'[g].target = flip[g].target /\ flip'[g].prev = flip[g].prev
                 /\ flip'[g].alone => flip[g].alone
                 /\ flip[g].at # "free" /\ flip[g].path = p => ~flip'[g].alone
      <4>1. flip[g] \in Flip
        BY <1>0
      <4>2. CASE flip[g].at # "free" /\ flip[g].path = p
        BY <2>3, <3>1, <4>1, <4>2, NotAlone
      <4>3. CASE ~(flip[g].at # "free" /\ flip[g].path = p)
        BY <2>3, <3>1, <4>3
      <4> QED
        BY <4>2, <4>3
    <3> QED
      BY <2>3, <3>1
  <2> HIDE DEF new
  <2>6. FlipInv'
    <3>1. \A g \in Flips : flip[g].at # "free" /\ flip[g].path = p => Busy(p)
      BY DEF Busy
    <3>2. \A g \in Flips : f \notin before[g] /\ before[f] = {}
      BY <1>0, <2>1 DEF SessionInv, FlipInv
    <3>3. ASSUME NEW g \in Flips, NEW h \in Flips, g # h, flip'[g].at # "free", flip'[h].at # "free",
                 flip'[g].path = flip'[h].path
          PROVE  ~flip'[g].alone
      <4>1. CASE g = f
        BY <2>5, <3>1, <3>3, <4>1
      <4>2. CASE h = f
        BY <2>5, <3>3, <4>2
      <4>3. CASE g # f /\ h # f
        BY <2>5, <3>3, <4>3 DEF SessionInv, FlipInv
      <4> QED
        BY <4>1, <4>2, <4>3
    <3>4. ASSUME NEW g \in Flips, NEW h \in before[g]
          PROVE  flip'[g].at = "applied" /\ flip'[h].at = "applied" /\ flip'[h].path = flip'[g].path
      <4>1. h \in Flips /\ g # f /\ h # f
        BY <1>0, <3>2, <3>4
      <4>2. flip[g].at = "applied" /\ flip[h].at = "applied" /\ flip[h].path = flip[g].path
        BY <3>4 DEF SessionInv, FlipInv
      <4> QED
        BY <2>5, <4>1, <4>2
    <3>5. ASSUME NEW g \in Flips, NEW h \in Flips, g # h, flip'[g].at = "applied",
                 flip'[h].at = "applied", flip'[g].path = flip'[h].path
          PROVE  g \in before[h] \/ h \in before[g]
      BY <2>5, <3>5 DEF SessionInv, FlipInv
    <3> QED
      BY <3>3, <3>4, <3>5 DEF FlipInv
  <2>7. MarkInv'
    <3> SUFFICES ASSUME NEW q \in Paths \ muddled
                 PROVE  /\ \A g \in Flips : LastFlip(g)' /\ flip'[g].path = q => flip'[g].target = mark[q]
                        /\ Live' =>
                             /\ ~Busy(q)' => s'.viewed[q] = mark[q]
                             /\ \A g \in Flips : flip'[g].path = q /\ flip'[g].at # "free" =>
                                  /\ flip'[g].of = s'.id
                                  /\ flip'[g].at = "sent" /\ flip'[g].alone => flip'[g].prev = mark[q]
      BY DEF MarkInv
    <3>1. /\ \A g \in Flips : LastFlip(g) /\ flip[g].path = q => flip[g].target = mark[q]
          /\ ~Busy(q) => s.viewed[q] = mark[q]
          /\ \A g \in Flips : flip[g].path = q /\ flip[g].at # "free" =>
               /\ flip[g].of = s.id
               /\ flip[g].at = "sent" /\ flip[g].alone => flip[g].prev = mark[q]
      BY DEF SessionInv, MarkInv
    <3>2. \A g \in Flips : LastFlip(g)' => g # f /\ LastFlip(g)
      BY <2>1, <2>5 DEF LastFlip
    <3>3. q # p => Busy(q)' = Busy(q) /\ s'.viewed[q] = s.viewed[q]
      BY <1>0, <2>1, <2>5 DEF Busy
    <3>4. Busy(p)'
      BY <2>5 DEF Busy
    <3>5. \A g \in Flips : LastFlip(g)' /\ flip'[g].path = q => flip'[g].target = mark[q]
      BY <2>5, <3>1, <3>2
    <3>6. ~Busy(q)' => s'.viewed[q] = mark[q]
      BY <3>1, <3>3, <3>4
    <3>7. ASSUME NEW g \in Flips, flip'[g].path = q, flip'[g].at # "free"
          PROVE  /\ flip'[g].of = s'.id
                 /\ flip'[g].at = "sent" /\ flip'[g].alone => flip'[g].prev = mark[q]
      <4>1. CASE g = f
        BY <2>5, <3>1, <3>7, <4>1
      <4>2. CASE g # f
        BY <2>5, <3>1, <3>7, <4>2
      <4> QED
        BY <4>1, <4>2
    <3> QED
      BY <3>5, <3>6, <3>7
  <2> QED
    BY <2>4, <2>6, <2>7
<1> QED
  BY <1>1, <1>2

LEMMA ToggleViewedInv ==
  ASSUME SessionInv, ToggleViewed
  PROVE  SessionInv'
<1>0. /\ Live /\ SendFlip(s, s.cursor, ~s.viewed[s.cursor])
      /\ s' = [s EXCEPT !.viewed[s.cursor] = ~s.viewed[s.cursor]]
      /\ UNCHANGED <<head, mark, gen, opens, blobs, before, muddled, win, does>>
  BY DEF ToggleViewed, Marked
<1>1. s \in Session /\ s.cursor \in Paths /\ s.viewed \in [Paths -> BOOLEAN]
  BY DEF SessionInv, TypeOK, Session
<1>2. /\ s' \in Session /\ s'.id = s.id /\ s'.pins = s.pins /\ s'.memo = s.memo
      /\ s'.panel = s.panel /\ s'.strayed = s.strayed /\ s'.cursor = s.cursor
      /\ s'.selected = s.selected /\ s'.view = s.view
      /\ s'.viewed = [s.viewed EXCEPT ![s.cursor] = ~s.viewed[s.cursor]]
  BY <1>0, <1>1 DEF Session
<1>3. flip' \in [Flips -> Flip] /\ FlipInv' /\ MarkInv'
  BY <1>0, <1>1, <1>2, SendFlipInv
<1>4. TypeOK'
  BY <1>0, <1>2, <1>3 DEF SessionInv, TypeOK
<1>5. ShowInv' /\ OpenInv' /\ WinInv'
  BY <1>0, <1>2, ShowFrame, OpenFrame, WinFrame DEF SessionInv
<1> QED
  BY <1>3, <1>4, <1>5 DEF SessionInv

LEMMA StepForwardInv ==
  ASSUME SessionInv, Step
  PROVE  SessionInv'
<1> DEFINE left == CurrentEntry(s)
<1>0. PICK p \in NextUnviewed(left) \cup NextRow(left) :
        /\ SendFlip(s, left, TRUE)
        /\ ShowFile(Marked(Opened(s, p), left, TRUE), p, blobs)
  BY DEF Step
<1>1. Live /\ UNCHANGED <<head, mark, gen, opens, before, muddled, win, does>>
  BY DEF Step
<1>2. /\ s \in Session /\ blobs \subseteq Blob /\ s.viewed \in [Paths -> BOOLEAN]
      /\ \A q \in Paths : s.memo[q] \in {None, s.pins}
  BY DEF SessionInv, TypeOK, ShowInv, Session
<1>3. left \in Paths
  BY <1>2 DEF CurrentEntry, Session
<1>4. p \in Paths
  BY <1>0, <1>3, PRSessionAssumption DEF NextUnviewed, NextRow, Paths
<1> HIDE DEF left
<1> DEFINE o == Opened(s, p)
           t == Marked(o, left, TRUE)
<1>5. /\ o \in Session /\ o.id = s.id /\ o.pins = s.pins /\ o.viewed = s.viewed /\ o.memo = s.memo
      /\ o.panel = s.panel /\ o.selected = p /\ (s.panel = "open" => o.cursor = p)
      /\ o.strayed = (s.panel # "open")
  BY <1>2, <1>4, OpenedType
<1>6. /\ t \in Session /\ t.id = s.id /\ t.pins = s.pins /\ t.memo = s.memo
      /\ t.viewed = [s.viewed EXCEPT ![left] = TRUE]
      /\ t.panel = s.panel /\ t.selected = p /\ (s.panel = "open" => t.cursor = p)
      /\ t.strayed = (s.panel # "open")
  BY <1>2, <1>3, <1>5 DEF Marked, Session
<1> HIDE DEF o, t
<1>7. ShowFile(t, p, blobs)
  BY <1>0 DEF t, o
<1>8. s' \in Session /\ blobs' \subseteq Blob /\ Keeps(t, s')
  BY <1>2, <1>4, <1>6, <1>7, ShowFileShows
<1>9. flip' \in [Flips -> Flip] /\ FlipInv' /\ MarkInv'
  BY <1>0, <1>1, <1>3, <1>6, <1>8, SendFlipInv DEF Keeps
<1>10. TypeOK'
  BY <1>1, <1>8, <1>9 DEF SessionInv, TypeOK
<1>11. ShowInv'
  BY <1>2, <1>4, <1>6, <1>7, ShowFileInv
<1>12. OpenInv' /\ WinInv'
  BY <1>1, <1>6, <1>8, OpenFrame, WinFrame DEF SessionInv, Keeps
<1> QED
  BY <1>9, <1>10, <1>11, <1>12 DEF SessionInv
-----------------------------------------------------------------------------
(* The answers of the sidecar.                                             *)

LEMMA MemoisedType ==
  ASSUME NEW t \in Session, NEW b \in Blob, \A q \in Paths : t.memo[q] \in {None, t.pins},
         PinsHold(t, b)
  PROVE  LET u == Memoised(t, b)
         IN /\ u \in Session /\ u.memo[b.path] = t.pins /\ u.memo[b.path] # None
            /\ \A q \in Paths : u.memo[q] \in {None, u.pins}
            /\ u.id = t.id /\ u.pins = t.pins /\ u.viewed = t.viewed /\ u.panel = t.panel
            /\ u.cursor = t.cursor /\ u.selected = t.selected /\ u.strayed = t.strayed
            /\ u.view = t.view
<1>1. t.pins \in Heads /\ b.refs = t.pins /\ b.path \in Paths /\ t.memo \in [Paths -> Heads \cup {None}]
  BY DEF PinsHold, Session, Blob
<1>2. t.pins # None
  BY <1>1, PRSessionAssumption DEF Heads
<1> QED
  BY <1>1, <1>2 DEF Memoised, Session

\* An answer that moves nothing but the memo, what is warming, the view and
\* whether it strayed.
LEMMA BlobAnswerInv ==
  ASSUME SessionInv, BlobAnswer
  PROVE  SessionInv'
<1>0. UNCHANGED <<head, mark, gen, opens, flip, before, muddled, win, does>>
  BY DEF BlobAnswer
<1>1. PICK b \in blobs : Shown(b) \/ Warmed(b)
  BY DEF BlobAnswer
<1>2. /\ s \in Session /\ b \in Blob /\ blobs \subseteq Blob
      /\ \A q \in Paths : s.memo[q] \in {None, s.pins}
  BY DEF SessionInv, TypeOK, ShowInv
<1> SUFFICES s' \in Session /\ blobs' \subseteq Blob /\ ShowInv' /\ s'.id = s.id /\ s'.pins = s.pins
             /\ s'.viewed = s.viewed
  <2>1. OpenInv' /\ FlipInv' /\ MarkInv' /\ WinInv'
    BY <1>0, OpenFrame, FlipFrame, WinFrame DEF SessionInv
  <2> QED
    BY <1>0, <2>1 DEF SessionInv, TypeOK
<1>3. /\ Ask(s, s.selected, "show").for = "show" /\ Ask(s, s.selected, "show").path = s.selected
      /\ Ask(s, s.selected, "show").refs = s.pins
  BY DEF Ask
<1>4. CASE Warmed(b)
  <2> DEFINE t == [s EXCEPT !.warming = s.warming \ {b.path}]
  <2>1. /\ b.for = "warm" /\ blobs' = blobs \ {b}
        /\ s' = t \/ (PinsHold(s, b) /\ s' = Memoised(t, b))
    BY <1>4 DEF Warmed
  <2>2. /\ t \in Session /\ t.id = s.id /\ t.pins = s.pins /\ t.viewed = s.viewed /\ t.panel = s.panel
        /\ t.cursor = s.cursor /\ t.selected = s.selected /\ t.strayed = s.strayed
        /\ t.view = s.view /\ t.memo = s.memo
    BY <1>2 DEF Session
  <2> HIDE DEF t
  <2>3. /\ s' \in Session /\ s'.id = s.id /\ s'.pins = s.pins /\ s'.viewed = s.viewed
        /\ s'.panel = s.panel /\ s'.cursor = s.cursor /\ s'.selected = s.selected
        /\ s'.strayed = s.strayed /\ s'.view = s.view
        /\ \A q \in Paths : s'.memo[q] \in {None, s'.pins}
    BY <1>2, <2>1, <2>2, MemoisedType DEF PinsHold
  <2>4. ShowInv'
    BY <1>3, <2>1, <2>3 DEF SessionInv, ShowInv, Ask
  <2> QED
    BY <1>2, <2>1, <2>3, <2>4
<1>5. CASE /\ b.for = "show" /\ blobs' = blobs \ {b}
           /\ s' = [s EXCEPT !.strayed = s.strayed \/ (b.path = s.selected /\ PinsHold(s, b))]
  <2> DEFINE strays == s.strayed \/ (b.path = s.selected /\ PinsHold(s, b))
  <2>0. strays \in BOOLEAN
    BY <1>2 DEF Session, PinsHold
  <2>1. /\ s' \in Session /\ s'.id = s.id /\ s'.pins = s.pins /\ s'.viewed = s.viewed
        /\ s'.panel = s.panel /\ s'.cursor = s.cursor /\ s'.selected = s.selected
        /\ s'.strayed = strays /\ s'.view = s.view /\ s'.memo = s.memo
    BY <1>2, <1>5, <2>0 DEF Session
  <2>2. s'.strayed <=> strays
    BY <2>1, Zenon
  <2>3. ~s'.strayed => ~s.strayed /\ ~(b.path = s.selected /\ b.refs = s.pins)
    BY <2>2, Zenon DEF PinsHold
  <2> HIDE DEF strays
  <2>4. s.panel # "open" => s.panel = "none" \/ s'.strayed
    BY <2>3 DEF SessionInv, ShowInv
  <2>5. ShowInv'
    BY <1>3, <1>5, <2>1, <2>3, <2>4 DEF SessionInv, ShowInv, Ask
  <2> QED
    BY <1>2, <1>5, <2>1, <2>5
<1>6. CASE /\ b.for = "show" /\ blobs' = blobs \ {b} /\ s' = s /\ ~PinsHold(s, b)
  <2>1. ShowInv'
    BY <1>3, <1>6 DEF SessionInv, ShowInv, Ask, PinsHold
  <2> QED
    BY <1>2, <1>6, <2>1
<1>7. CASE /\ b.for = "show" /\ PinsHold(s, b)
           /\ LET t == Memoised(s, b) IN
              IF Draws(t, b)
                THEN /\ s' = Render(t, b.path)
                     /\ Requested((blobs \ {b}) \cup RenderAsks(t, b.path))
                ELSE /\ s' = t
                     /\ blobs' = blobs \ {b}
  <2> DEFINE t == Memoised(s, b)
  <2>1. /\ t \in Session /\ t.memo[b.path] = s.pins /\ t.memo[b.path] # None
        /\ \A q \in Paths : t.memo[q] \in {None, t.pins}
        /\ t.id = s.id /\ t.pins = s.pins /\ t.viewed = s.viewed /\ t.panel = s.panel
        /\ t.cursor = s.cursor /\ t.selected = s.selected /\ t.strayed = s.strayed
        /\ t.view = s.view
    BY <1>2, <1>7, MemoisedType
  <2>2. b.path \in Paths
    BY <1>2 DEF Blob
  <2>3. /\ Draws(t, b) => s' = Render(t, b.path) /\ blobs' = (blobs \ {b}) \cup RenderAsks(t, b.path)
        /\ ~Draws(t, b) => s' = t /\ blobs' = blobs \ {b}
    BY <1>7 DEF Requested
  <2> HIDE DEF t
  <2>4. CASE Draws(t, b)
    <3>1. /\ s' \in Session /\ Keeps(t, s') /\ s'.view = [path |-> b.path, at |-> s.pins]
          /\ RenderAsks(t, b.path) \subseteq Blob
      BY <2>1, <2>2, <2>3, <2>4, RenderType
    <3>2. t.panel = "open" /\ t.cursor = b.path
      BY <2>4 DEF Draws
    <3>3. ShowInv'
      BY <2>1, <3>1, <3>2 DEF SessionInv, ShowInv, Keeps
    <3> QED
      BY <1>2, <2>1, <2>3, <2>4, <3>1, <3>3 DEF Keeps
  <2>5. CASE ~Draws(t, b)
    <3>1. ShowInv'
      BY <1>3, <2>1, <2>3, <2>5 DEF SessionInv, ShowInv, Ask, Draws
    <3> QED
      BY <1>2, <2>1, <2>3, <2>5, <3>1
  <2> QED
    BY <2>4, <2>5
<1> QED
  BY <1>1, <1>4, <1>5, <1>6, <1>7 DEF Shown

\* GitHub makes a flip: it is the last of its file.
LEMMA ApplyInv ==
  ASSUME SessionInv, NEW f \in Flips, Apply(f)
  PROVE  SessionInv'
<1> DEFINE p == flip[f].path
           made == {g \in Flips : flip[g].at = "applied" /\ flip[g].path = p}
<1>0. /\ flip[f].at = "sent" /\ flip' = [flip EXCEPT ![f].at = "applied"]
      /\ mark' = [mark EXCEPT ![p] = flip[f].target] /\ before' = [before EXCEPT ![f] = made]
      /\ UNCHANGED <<head, gen, opens, s, blobs, muddled, win, does>>
  BY DEF Apply
<1>1. /\ flip \in [Flips -> Flip] /\ mark \in [Paths -> BOOLEAN] /\ before \in [Flips -> SUBSET Flips]
      /\ flip[f] \in Flip /\ p \in Paths /\ flip[f].target \in BOOLEAN
  BY DEF SessionInv, TypeOK, Flip
<1>2. /\ flip' \in [Flips -> Flip] /\ flip'[f].at = "applied" /\ flip'[f].path = p
      /\ flip'[f].of = flip[f].of /\ flip'[f].target = flip[f].target
      /\ flip'[f].prev = flip[f].prev /\ flip'[f].alone = flip[f].alone
      /\ \A g \in Flips : g # f => flip'[g] = flip[g]
  BY <1>0, <1>1 DEF Flip
<1>3. before' \in [Flips -> SUBSET Flips] /\ before'[f] = made
      /\ \A g \in Flips : g # f => before'[g] = before[g]
  BY <1>0, <1>1
<1>4. mark' \in [Paths -> BOOLEAN] /\ mark'[p] = flip[f].target
      /\ \A q \in Paths : q # p => mark'[q] = mark[q]
  BY <1>0, <1>1
<1>5. TypeOK'
  BY <1>0, <1>2, <1>3, <1>4 DEF SessionInv, TypeOK
<1>6. ShowInv' /\ OpenInv' /\ WinInv'
  BY <1>0, ShowFrame, OpenFrame, WinFrame DEF SessionInv
<1>7. \A g \in Flips : f \notin before[g]
  BY <1>0 DEF SessionInv, FlipInv
<1>8. FlipInv'
  <2>1. ASSUME NEW g \in Flips, NEW h \in Flips, g # h, flip'[g].at # "free", flip'[h].at # "free",
               flip'[g].path = flip'[h].path
        PROVE  ~flip'[g].alone
    BY <1>0, <1>2, <2>1 DEF SessionInv, FlipInv
  <2>2. ASSUME NEW g \in Flips, NEW h \in before'[g]
        PROVE  flip'[g].at = "applied" /\ flip'[h].at = "applied" /\ flip'[h].path = flip'[g].path
    <3>1. CASE g = f
      BY <1>0, <1>2, <1>3, <2>2, <3>1
    <3>2. CASE g # f
      BY <1>1, <1>2, <1>3, <1>7, <2>2, <3>2 DEF SessionInv, FlipInv
    <3> QED
      BY <3>1, <3>2
  <2>3. ASSUME NEW g \in Flips, NEW h \in Flips, g # h, flip'[g].at = "applied",
               flip'[h].at = "applied", flip'[g].path = flip'[h].path
        PROVE  g \in before'[h] \/ h \in before'[g]
    <3>1. CASE g = f \/ h = f
      BY <1>2, <1>3, <2>3, <3>1
    <3>2. CASE g # f /\ h # f
      BY <1>2, <1>3, <2>3, <3>2 DEF SessionInv, FlipInv
    <3> QED
      BY <3>1, <3>2
  <2> QED
    BY <2>1, <2>2, <2>3 DEF FlipInv
<1>9. MarkInv'
  <2> SUFFICES ASSUME NEW q \in Paths \ muddled
               PROVE  /\ \A g \in Flips : LastFlip(g)' /\ flip'[g].path = q => flip'[g].target = mark'[q]
                      /\ Live =>
                           /\ ~Busy(q)' => s.viewed[q] = mark'[q]
                           /\ \A g \in Flips : flip'[g].path = q /\ flip'[g].at # "free" =>
                                /\ flip'[g].of = s.id
                                /\ flip'[g].at = "sent" /\ flip'[g].alone => flip'[g].prev = mark'[q]
    BY <1>0 DEF MarkInv, Live
  <2>1. /\ \A g \in Flips : LastFlip(g) /\ flip[g].path = q => flip[g].target = mark[q]
        /\ Live =>
             /\ ~Busy(q) => s.viewed[q] = mark[q]
             /\ \A g \in Flips : flip[g].path = q /\ flip[g].at # "free" =>
                  /\ flip[g].of = s.id
                  /\ flip[g].at = "sent" /\ flip[g].alone => flip[g].prev = mark[q]
    BY DEF SessionInv, MarkInv
  <2>2. ASSUME NEW g \in Flips, LastFlip(g)', flip'[g].path = q PROVE flip'[g].target = mark'[q]
    <3>1. CASE g = f
      BY <1>2, <1>4, <2>2, <3>1
    <3>2. CASE g # f
      <4>1. q # p
        BY <1>2, <1>3, <1>7, <2>2, <3>2 DEF LastFlip
      <4>2. LastFlip(g)
        BY <1>2, <1>3, <2>2, <3>2 DEF LastFlip
      <4> QED
        BY <1>2, <1>4, <2>1, <2>2, <3>2, <4>1, <4>2
    <3> QED
      BY <3>1, <3>2
  <2>3. Busy(q)' = Busy(q)
    BY <1>0, <1>2 DEF Busy
  <2>4. Busy(p)
    BY <1>0 DEF Busy
  <2>5. ASSUME NEW g \in Flips, flip'[g].at = "sent", flip'[g].alone, flip'[g].path = q
        PROVE  q # p
    BY <1>0, <1>2, <2>5 DEF SessionInv, FlipInv
  <2> QED
    BY <1>0, <1>2, <1>4, <2>1, <2>2, <2>3, <2>4, <2>5
<1> QED
  BY <1>5, <1>6, <1>8, <1>9 DEF SessionInv
\* A flip is answered or fails.  A file stays settled only when the answers come
\* in GitHub's order and a failed flip was the only one.
LEMMA FlipAnswerInv ==
  ASSUME SessionInv, NEW f \in Flips, FlipAnswer(f)
  PROVE  SessionInv'
<1> DEFINE p == flip[f].path
<1>0. /\ flip[f].at # "free" /\ flip' = [flip EXCEPT ![f] = NoFlip]
      /\ before' = [g \in Flips |-> IF g = f THEN {} ELSE before[g] \ {f}]
      /\ UNCHANGED <<head, mark, gen, opens, blobs, win, does>>
  BY DEF FlipAnswer
<1>1. /\ flip \in [Flips -> Flip] /\ before \in [Flips -> SUBSET Flips] /\ flip[f] \in Flip
      /\ p \in Paths /\ flip[f].target \in BOOLEAN /\ flip[f].prev \in BOOLEAN
      /\ s \in Session /\ s.viewed \in [Paths -> BOOLEAN] /\ muddled \subseteq Paths
  BY DEF SessionInv, TypeOK, Flip, Session
<1>2. NoFlip \in Flip /\ NoFlip.at = "free"
  BY PRSessionAssumption DEF NoFlip, Flip, Paths
<1>3. /\ flip' \in [Flips -> Flip] /\ flip'[f].at = "free"
      /\ \A g \in Flips : g # f => flip'[g] = flip[g]
      /\ before' \in [Flips -> SUBSET Flips] /\ before'[f] = {}
      /\ \A g \in Flips : g # f => before'[g] = before[g] \ {f}
  BY <1>0, <1>1, <1>2
<1>4. PICK b \in BOOLEAN :
        /\ s' = (IF flip[f].of = s.id THEN [s EXCEPT !.viewed[p] = b] ELSE s)
        /\ \/ /\ flip[f].at = "applied" /\ b = flip[f].target
              /\ muddled' = muddled \cup (IF before[f] # {} THEN {p} ELSE {})
           \/ /\ b = flip[f].prev
              /\ muddled' = muddled \cup
                   (IF flip[f].at = "applied" \/ ~flip[f].alone THEN {p} ELSE {})
  BY <1>1 DEF FlipAnswer, Reconciled, RolledBack, Overtakes
<1>5. /\ s' \in Session /\ s'.id = s.id /\ s'.pins = s.pins /\ s'.memo = s.memo
      /\ s'.panel = s.panel /\ s'.strayed = s.strayed /\ s'.cursor = s.cursor
      /\ s'.selected = s.selected /\ s'.view = s.view
      /\ \A q \in Paths : q # p => s'.viewed[q] = s.viewed[q]
      /\ flip[f].of = s.id => s'.viewed[p] = b
  BY <1>1, <1>4 DEF Session
<1>6. muddled \subseteq muddled' /\ muddled' \subseteq Paths
  BY <1>1, <1>4
<1>7. TypeOK'
  BY <1>0, <1>3, <1>5, <1>6 DEF SessionInv, TypeOK
<1>8. ShowInv' /\ OpenInv' /\ WinInv'
  BY <1>0, <1>5, ShowFrame, OpenFrame, WinFrame DEF SessionInv
<1>9. FlipInv'
  <2>1. ASSUME NEW g \in Flips, NEW h \in Flips, g # h, flip'[g].at # "free", flip'[h].at # "free",
               flip'[g].path = flip'[h].path
        PROVE  ~flip'[g].alone
    BY <1>3, <2>1 DEF SessionInv, FlipInv
  <2>2. ASSUME NEW g \in Flips, NEW h \in before'[g]
        PROVE  flip'[g].at = "applied" /\ flip'[h].at = "applied" /\ flip'[h].path = flip'[g].path
    <3>1. g # f /\ h # f /\ h \in before[g] /\ h \in Flips
      BY <1>1, <1>3, <2>2
    <3> QED
      BY <1>3, <3>1 DEF SessionInv, FlipInv
  <2>3. ASSUME NEW g \in Flips, NEW h \in Flips, g # h, flip'[g].at = "applied",
               flip'[h].at = "applied", flip'[g].path = flip'[h].path
        PROVE  g \in before'[h] \/ h \in before'[g]
    BY <1>3, <2>3 DEF SessionInv, FlipInv
  <2> QED
    BY <2>1, <2>2, <2>3 DEF FlipInv
<1>10. MarkInv'
  <2> SUFFICES ASSUME NEW q \in Paths \ muddled'
               PROVE  /\ \A g \in Flips : LastFlip(g)' /\ flip'[g].path = q => flip'[g].target = mark[q]
                      /\ Live =>
                           /\ ~Busy(q)' => s'.viewed[q] = mark[q]
                           /\ \A g \in Flips : flip'[g].path = q /\ flip'[g].at # "free" =>
                                /\ flip'[g].of = s.id
                                /\ flip'[g].at = "sent" /\ flip'[g].alone => flip'[g].prev = mark[q]
    BY <1>0, <1>5 DEF MarkInv, Live
  <2>1. /\ \A g \in Flips : LastFlip(g) /\ flip[g].path = q => flip[g].target = mark[q]
        /\ Live =>
             /\ ~Busy(q) => s.viewed[q] = mark[q]
             /\ \A g \in Flips : flip[g].path = q /\ flip[g].at # "free" =>
                  /\ flip[g].of = s.id
                  /\ flip[g].at = "sent" /\ flip[g].alone => flip[g].prev = mark[q]
    BY <1>6 DEF SessionInv, MarkInv
  <2>2. ASSUME NEW g \in Flips, LastFlip(g)', flip'[g].path = q PROVE flip'[g].target = mark[q]
    <3>1. g # f /\ flip'[g] = flip[g] /\ before'[g] = before[g] \ {f}
      BY <1>3, <2>2 DEF LastFlip
    <3>2. LastFlip(g)
      <4>1. CASE flip[f].at = "applied" /\ p = q
        \* f was answered in GitHub's order, so g, which is left, was made after it.
        <5>1. before[f] = {}
          BY <1>4, <4>1
        <5>2. flip[g].at = "applied" /\ flip[g].path = p
          BY <2>2, <3>1, <4>1 DEF LastFlip
        <5>3. f \in before[g]
          BY <3>1, <4>1, <5>1, <5>2 DEF SessionInv, FlipInv
        <5> QED
          BY <1>3, <2>2, <3>1, <5>3 DEF LastFlip
      <4>2. CASE ~(flip[f].at = "applied" /\ p = q)
        BY <1>3, <2>2, <3>1, <4>2 DEF LastFlip
      <4> QED
        BY <4>1, <4>2
    <3> QED
      BY <2>1, <2>2, <3>1, <3>2
  <2>3. ASSUME Live, ~Busy(q)' PROVE s'.viewed[q] = mark[q]
    <3>1. CASE q # p
      BY <1>0, <1>3, <1>5, <2>1, <2>3, <3>1 DEF Busy
    <3>2. CASE q = p
      <4>1. flip[f].of = s.id
        BY <1>0, <2>1, <2>3, <3>2
      <4>2. \A g \in Flips : g # f => ~(flip[g].at # "free" /\ flip[g].path = p)
        BY <1>3, <2>3, <3>2 DEF Busy
      <4>3. flip[f].at = "applied" => LastFlip(f)
        BY <4>2 DEF LastFlip
      <4>4. flip[f].at \in {"sent", "applied"}
        BY <1>0, <1>1 DEF Flip
      <4> QED
        BY <1>4, <1>5, <2>1, <2>3, <3>2, <4>1, <4>3, <4>4
    <3> QED
      BY <3>1, <3>2
  <2>4. ASSUME Live, NEW g \in Flips, flip'[g].path = q, flip'[g].at # "free"
        PROVE  /\ flip'[g].of = s.id
               /\ flip'[g].at = "sent" /\ flip'[g].alone => flip'[g].prev = mark[q]
    BY <1>3, <2>1, <2>4
  <2> QED
    BY <2>2, <2>3, <2>4
<1> QED
  BY <1>7, <1>8, <1>9, <1>10 DEF SessionInv

-----------------------------------------------------------------------------
(* Sessions.                                                               *)

LEMMA NewSessionType ==
  ASSUME NEW id \in 0 .. MaxOpens, NEW pins \in Heads, NEW viewed \in [Paths -> BOOLEAN]
  PROVE  LET t == NewSession(id, pins, viewed)
         IN /\ t \in Session /\ t.id = id /\ t.pins = pins /\ t.viewed = viewed /\ t.panel = "none"
            /\ \A q \in Paths : t.memo[q] = None
            /\ t.cursor = 1 /\ t.selected = 1 /\ ~t.strayed /\ t.view = NoView
  BY PRSessionAssumption DEF NewSession, Session, NoView, Paths, Heads

LEMMA ClosedType ==
  ASSUME SessionInv, win' = Closed, head' = head
  PROVE  win' \in [Windows -> Window] /\ WinInv'
<1>1. NoWindow \in Window /\ NoWindow.at = "free"
  BY PRSessionAssumption DEF NoWindow, Window, Heads
<1>2. win \in [Windows -> Window]
  BY DEF SessionInv, TypeOK
<1>3. \A w \in Windows : IF win[w].at \in {"sent", "checked", "taken"}
                             THEN win'[w] = win[w] ELSE win'[w] = NoWindow
  BY DEF Closed
<1>4. win' \in [Windows -> Window]
  BY <1>1, <1>2 DEF Closed
<1>5. WinInv'
  BY <1>1, <1>3 DEF SessionInv, WinInv, Placed
<1> QED
  BY <1>4, <1>5

LEMMA EndInv ==
  ASSUME SessionInv, End
  PROVE  SessionInv'
<1>0. /\ s' = NoSession /\ blobs' = {} /\ win' = Closed
      /\ UNCHANGED <<head, mark, gen, opens, flip, before, muddled, does>>
  BY DEF End
<1>1. AtFirst \in [Paths -> BOOLEAN]
  BY DEF AtFirst
<1>2. /\ s' \in Session /\ s'.id = 0 /\ s'.panel = "none"
      /\ \A q \in Paths : s'.memo[q] = None
  BY <1>0, <1>1, NewSessionType, PRSessionAssumption DEF NoSession, Heads
<1>3. win' \in [Windows -> Window] /\ WinInv'
  BY <1>0, ClosedType
<1>4. TypeOK'
  BY <1>0, <1>2, <1>3 DEF SessionInv, TypeOK
<1>5. ShowInv'
  BY <1>2 DEF ShowInv
<1>6. OpenInv'
  <2>1. gen \in Nat /\ \A o \in opens : o.gen \in Nat \ {0}
    BY PRSessionAssumption DEF SessionInv, TypeOK, Open
  <2> QED
    BY <1>0, <1>2, <2>1 DEF SessionInv, OpenInv
<1>7. FlipInv' /\ MarkInv'
  BY <1>0, <1>2 DEF SessionInv, FlipInv, MarkInv, LastFlip, Live
<1> QED
  BY <1>3, <1>4, <1>5, <1>6, <1>7 DEF SessionInv

\* M.show, the read of the pull request, and an answer dropped.
LEMMA OpensInv ==
  ASSUME SessionInv, Show \/ \E o \in opens : ReadOpen(o) \/ DropOpen(o)
  PROVE  SessionInv'
<1>0. UNCHANGED <<head, mark, s, blobs, flip, before, muddled, win, does>>
  BY DEF Show, ReadOpen, DropOpen
<1>1. /\ gen \in Nat /\ gen \in 0 .. MaxOpens /\ s.id \in Nat /\ opens \subseteq Open /\ head \in Heads
      /\ mark \in [Paths -> BOOLEAN] /\ s.id <= gen
      /\ \A o \in opens : o.gen \in Nat /\ o.gen <= gen /\ o.gen # s.id
      /\ \A o, q \in opens : o.gen = q.gen => o = q
  BY PRSessionAssumption DEF SessionInv, TypeOK, Open, OpenInv, Session
<1>2. opens' \subseteq Open /\ gen' \in 0 .. MaxOpens /\ OpenInv'
  <2>1. CASE Show
    <3> DEFINE new == [gen |-> gen + 1, at |-> "sent", head |-> 0, viewed |-> AtFirst]
    <3>1. gen' = gen + 1 /\ opens' = opens \cup {new} /\ gen + 1 \in 1 .. MaxOpens
      BY <1>1, <2>1, PRSessionAssumption DEF Show
    <3>2. new \in Open /\ new.gen = gen + 1
      BY <3>1, PRSessionAssumption DEF Open, AtFirst, Heads
    <3> HIDE DEF new
    <3>3. OpenInv'
      BY <1>0, <1>1, <3>1, <3>2 DEF OpenInv
    <3> QED
      BY <1>1, <3>1, <3>2, <3>3
  <2>2. ASSUME NEW o \in opens, ReadOpen(o) PROVE opens' \subseteq Open /\ gen' = gen /\ OpenInv'
    <3> DEFINE new == [o EXCEPT !.at = "read", !.head = head, !.viewed = mark]
    <3>1. opens' = (opens \ {o}) \cup {new} /\ gen' = gen
      BY <2>2 DEF ReadOpen
    <3>2. new \in Open /\ new.gen = o.gen
      BY <1>1 DEF Open
    <3> HIDE DEF new
    <3> QED
      BY <1>0, <1>1, <3>1, <3>2 DEF OpenInv
  <2>3. ASSUME NEW o \in opens, DropOpen(o) PROVE opens' \subseteq Open /\ gen' = gen /\ OpenInv'
    <3>1. opens' \subseteq opens /\ gen' = gen
      BY <2>3 DEF DropOpen
    <3> QED
      BY <1>0, <1>1, <3>1 DEF OpenInv
  <2> QED
    BY <1>1, <2>1, <2>2, <2>3
<1>3. TypeOK'
  BY <1>0, <1>2 DEF SessionInv, TypeOK
<1>4. ShowInv' /\ FlipInv' /\ MarkInv' /\ WinInv'
  BY <1>0, ShowFrame, FlipFrame, WinFrame DEF SessionInv
<1> QED
  BY <1>2, <1>3, <1>4 DEF SessionInv

LEMMA OpenSessionInv ==
  ASSUME SessionInv, NEW o \in opens, NEW land \in {"overview", "files"}, OpenSession(o, land)
  PROVE  SessionInv' /\ s'.id = gen /\ s'.view = NoView
<1> DEFINE t == NewSession(o.gen, o.head, o.viewed)
           u == [t EXCEPT !.panel = "open"]
<1>0. /\ o.gen = gen /\ opens' = opens \ {o} /\ win' = Closed
      /\ (s' = t /\ blobs' = {}) \/ ShowFile(u, 1, {})
      /\ muddled' = {p \in Paths : o.viewed[p] # mark[p] \/ Busy(p)}
      /\ UNCHANGED <<head, mark, gen, flip, before, does>>
  BY DEF OpenSession, LatestOpen
<1>1. /\ o.gen \in 0 .. MaxOpens /\ o.gen \in Nat \ {0} /\ o.head \in Heads
      /\ o.viewed \in [Paths -> BOOLEAN] /\ 1 \in Paths
  BY PRSessionAssumption DEF SessionInv, TypeOK, Open, Paths
<1>2. /\ t \in Session /\ t.id = gen /\ t.viewed = o.viewed /\ t.panel = "none"
      /\ \A q \in Paths : t.memo[q] = None
      /\ t.cursor = 1 /\ t.selected = 1 /\ ~t.strayed /\ t.view = NoView
  BY <1>0, <1>1, NewSessionType
<1> HIDE DEF t
<1>3. /\ u \in Session /\ u.id = gen /\ u.viewed = o.viewed /\ u.panel = "open"
      /\ \A q \in Paths : u.memo[q] = None
      /\ u.cursor = 1 /\ u.selected = 1 /\ ~u.strayed /\ u.view = NoView
  BY <1>2 DEF Session
<1> HIDE DEF u
<1>4. s' \in Session /\ blobs' \subseteq Blob /\ ShowInv' /\ s'.id = gen /\ s'.viewed = o.viewed
      /\ s'.view = NoView
  <2>1. CASE s' = t /\ blobs' = {}
    BY <1>2, <2>1 DEF ShowInv
  <2>2. CASE ShowFile(u, 1, {})
    <3>1. s' = u
      BY <1>1, <1>3, <2>2 DEF ShowFile
    <3>2. s' \in Session /\ blobs' \subseteq Blob
      <4>1. blobs' = {} \cup {Ask(u, 1, "show")}
        BY <1>1, <1>3, <2>2 DEF ShowFile, Requested
      <4>2. Ask(u, 1, "show") \in Blob
        BY <1>1, <1>3 DEF Ask, Blob, Session
      <4> QED
        BY <1>3, <3>1, <4>1, <4>2
    <3>3. ShowInv'
      BY <1>1, <1>3, <2>2, ShowFileInv
    <3> QED
      BY <1>3, <3>1, <3>2, <3>3
  <2> QED
    BY <1>0, <2>1, <2>2
<1>5. win' \in [Windows -> Window] /\ WinInv'
  BY <1>0, ClosedType
<1>6. TypeOK'
  BY <1>0, <1>4, <1>5 DEF SessionInv, TypeOK
<1>7. OpenInv'
  BY <1>0, <1>4, <1>1 DEF SessionInv, OpenInv
<1>8. FlipInv'
  BY <1>0 DEF SessionInv, FlipInv
<1>9. MarkInv'
  <2>1. ASSUME NEW q \in Paths \ muddled' PROVE o.viewed[q] = mark[q] /\ ~Busy(q)
    BY <1>0, <2>1
  <2> QED
    BY <1>0, <1>4, <2>1 DEF MarkInv, Busy, LastFlip
<1> QED
  BY <1>4, <1>5, <1>6, <1>7, <1>8, <1>9 DEF SessionInv
-----------------------------------------------------------------------------
(* Compose windows and posts.                                              *)

\* A step of one window that leaves the session alone.
LEMMA WindowStep ==
  ASSUME SessionInv, NEW w \in Windows, NEW x \in Window, win' = [win EXCEPT ![w] = x],
         UNCHANGED <<head, mark, gen, opens, s, blobs, flip, before, muddled, does>>,
         x.at = "open" => x.of = s.id, Placed(x)
  PROVE  SessionInv'
<1>1. win \in [Windows -> Window]
  BY DEF SessionInv, TypeOK
<1>2. /\ win' \in [Windows -> Window] /\ win'[w] = x
      /\ \A v \in Windows : v # w => win'[v] = win[v]
  BY <1>1
<1>3. TypeOK'
  BY <1>2 DEF SessionInv, TypeOK
<1>4. WinInv'
  BY <1>2 DEF SessionInv, WinInv, Placed
<1>5. ShowInv' /\ OpenInv' /\ FlipInv' /\ MarkInv'
  BY ShowFrame, OpenFrame, FlipFrame DEF SessionInv
<1> QED
  BY <1>3, <1>4, <1>5 DEF SessionInv

LEMMA WindowInv ==
  ASSUME SessionInv, NEW w \in Windows,
         \/ Comment(w) \/ Summary(w) \/ Cancel(w) \/ Submit(w)
         \/ Guard(w) \/ Take(w) \/ DropPost(w) \/ Refused(w) \/ ReadPR(w)
  PROVE  SessionInv'
<1>0. UNCHANGED <<head, mark, gen, opens, s, blobs, flip, before, muddled, does>>
  BY DEF Comment, Summary, Cancel, Submit, Guard, Take, DropPost, Refused, ReadPR
<1>1. /\ win \in [Windows -> Window] /\ win[w] \in Window /\ s.id \in 0 .. MaxOpens
      /\ s.pins \in Heads /\ s.view.at \in Heads /\ head \in Heads
  BY DEF SessionInv, TypeOK, Session
<1>2. /\ NoWindow \in Window /\ NoWindow.at = "free" /\ NoWindow.for = "comment"
      /\ 0 \in Heads /\ NoWindow.expected = 0 /\ NoWindow.sees = 0
  BY PRSessionAssumption DEF NoWindow, Window, Heads
<1>3. CASE Comment(w)
  <2> DEFINE x == [NoWindow EXCEPT !.at = "open", !.of = s.id, !.anchor = s.view.at,
                                   !.moved = s.view.at # s.pins]
  <2>1. win' = [win EXCEPT ![w] = x]
    BY <1>3 DEF Comment
  <2>2. (s.view.at # s.pins) \in BOOLEAN
    OBVIOUS
  <2>3. x \in Window /\ x.at = "open" /\ x.of = s.id /\ x.anchor = s.view.at
        /\ (x.moved = (s.view.at # s.pins))
    BY <1>1, <1>2, <2>2 DEF Window
  <2>4. ~x.moved => s.view.at = s.pins
    BY <2>3, Zenon
  <2> HIDE DEF x
  <2> QED
    BY <1>0, <2>1, <2>3, <2>4, WindowStep DEF Placed
<1>4. CASE Summary(w)
  <2> DEFINE x == [NoWindow EXCEPT !.at = "open", !.of = s.id, !.for = "summary"]
  <2>1. win' = [win EXCEPT ![w] = x]
    BY <1>4 DEF Summary
  <2>2. x \in Window /\ x.at = "open" /\ x.of = s.id /\ x.for = "summary"
    BY <1>1, <1>2 DEF Window
  <2> HIDE DEF x
  <2> QED
    BY <1>0, <2>1, <2>2, WindowStep DEF Placed
<1>5. CASE Cancel(w) \/ DropPost(w)
  <2>1. win' = [win EXCEPT ![w] = NoWindow]
    BY <1>5 DEF Cancel, DropPost
  <2> QED
    BY <1>0, <1>2, <2>1, WindowStep DEF Placed
<1>6. CASE Submit(w)
  <2> DEFINE x == [win[w] EXCEPT !.at = "sent", !.expected = s.pins]
  <2>1. win[w].at = "open" /\ win' = [win EXCEPT ![w] = x]
    BY <1>1, <1>6 DEF Submit
  <2>2. /\ x \in Window /\ x.at = "sent" /\ x.expected = s.pins /\ x.for = win[w].for
        /\ x.moved = win[w].moved /\ x.anchor = win[w].anchor
    BY <1>1 DEF Window
  <2>3. win[w].for = "comment" /\ ~win[w].moved => win[w].anchor = s.pins
    BY <2>1 DEF SessionInv, WinInv, Placed
  <2> HIDE DEF x
  <2> QED
    BY <1>0, <2>1, <2>2, <2>3, WindowStep DEF Placed
<1>7. CASE Guard(w)
  <2> DEFINE x == [win[w] EXCEPT !.at = "refused", !.expected = 0]
             y == [win[w] EXCEPT !.at = "checked"]
  <2>1. /\ win[w].at = "sent"
        /\ \/ win' = [win EXCEPT ![w] = x]
           \/ win' = [win EXCEPT ![w] = y] /\ head = win[w].expected
    BY <1>1, <1>7 DEF Guard, GuardHead
  <2>2. x \in Window /\ x.at = "refused"
    BY <1>1, <1>2 DEF Window
  <2>3. /\ y \in Window /\ y.at = "checked" /\ y.for = win[w].for
        /\ y.moved = win[w].moved /\ y.anchor = win[w].anchor
    BY <1>1 DEF Window
  <2>4. win[w].for = "comment" /\ ~win[w].moved => win[w].anchor = win[w].expected
    BY <2>1 DEF SessionInv, WinInv, Placed
  <2>5. head <= head
    BY <1>1 DEF Heads
  <2> HIDE DEF x, y
  <2>6. CASE win' = [win EXCEPT ![w] = x]
    BY <1>0, <2>2, <2>6, WindowStep DEF Placed
  <2>7. CASE win' = [win EXCEPT ![w] = y] /\ head = win[w].expected
    <3>1. Placed(y)
      BY <2>3, <2>4, <2>5, <2>7 DEF Placed
    <3> QED
      BY <1>0, <2>3, <2>7, <3>1, WindowStep
  <2> QED
    BY <2>1, <2>6, <2>7
<1>8. CASE Take(w)
  <2> DEFINE y == [win[w] EXCEPT !.at = "taken", !.sees = head]
  <2>1. win[w].at = "checked" /\ win' = [win EXCEPT ![w] = y]
    BY <1>1, <1>8 DEF Take
  <2>2. /\ y \in Window /\ y.at = "taken" /\ y.sees = head /\ y.for = win[w].for
        /\ y.moved = win[w].moved /\ y.anchor = win[w].anchor /\ y.raced = win[w].raced
    BY <1>1 DEF Window
  <2>3. win[w].for = "comment" /\ ~win[w].moved
          => win[w].anchor <= head /\ (win[w].raced \/ win[w].anchor = head)
    BY <2>1 DEF SessionInv, WinInv, Placed
  <2> HIDE DEF y
  <2>4. Placed(y)
    BY <2>2, <2>3 DEF Placed
  <2> QED
    BY <1>0, <2>1, <2>2, <2>4, WindowStep
<1>9. CASE Refused(w)
  <2> DEFINE x == [win[w] EXCEPT !.at = "getpr"]
  <2>1. win' = [win EXCEPT ![w] = x] /\ x \in Window /\ x.at = "getpr"
    BY <1>1, <1>9 DEF Refused, Window
  <2> HIDE DEF x
  <2> QED
    BY <1>0, <2>1, WindowStep DEF Placed
<1>10. CASE ReadPR(w)
  <2> DEFINE x == [win[w] EXCEPT !.at = "gotpr", !.sees = head]
  <2>1. win' = [win EXCEPT ![w] = x] /\ x \in Window /\ x.at = "gotpr"
    BY <1>1, <1>10 DEF ReadPR, Window
  <2> HIDE DEF x
  <2> QED
    BY <1>0, <2>1, WindowStep DEF Placed
<1> QED
  BY <1>3, <1>4, <1>5, <1>6, <1>7, <1>8, <1>9, <1>10

\* The pins move under the windows that are open, and the file is asked for again.
LEMMA HandleConflictInv ==
  ASSUME SessionInv, NEW w \in Windows, HandleConflict(w)
  PROVE  SessionInv' /\ s'.id = s.id /\ s'.view = s.view
<1> DEFINE t == Repinned(s, win[w].sees)
<1>0. /\ win[w].at = "gotpr" /\ win[w].of = s.id
      /\ IF s.panel = "open" THEN ShowFile(t, s.cursor, blobs) ELSE s' = t /\ blobs' = blobs
      /\ UNCHANGED <<head, mark, gen, opens, flip, before, muddled, does>>
  BY DEF HandleConflict
<1>1. /\ s \in Session /\ win[w] \in Window /\ win \in [Windows -> Window] /\ win[w].sees \in Heads
      /\ s.cursor \in Paths /\ blobs \subseteq Blob
  BY DEF SessionInv, TypeOK, Session, Window
<1>2. /\ t \in Session /\ t.id = s.id /\ t.pins = win[w].sees /\ t.viewed = s.viewed
      /\ t.panel = s.panel /\ t.cursor = s.cursor /\ t.selected = s.selected
      /\ t.strayed = s.strayed /\ t.view = s.view
      /\ \A q \in Paths : t.memo[q] = None
  BY <1>1 DEF Repinned, Session
<1> HIDE DEF t
<1>3. /\ s' \in Session /\ blobs' \subseteq Blob /\ ShowInv' /\ s'.id = s.id
      /\ s'.viewed = s.viewed /\ s'.pins = win[w].sees /\ s'.view = s.view
  <2>1. CASE s.panel = "open"
    <3>1. ShowFile(t, s.cursor, blobs)
      BY <1>0, <2>1
    <3>2. s' = t
      BY <1>1, <1>2, <3>1 DEF ShowFile
    <3>3. \A q \in Paths : t.memo[q] \in {None, t.pins}
      BY <1>2
    <3>4. s' \in Session /\ blobs' \subseteq Blob
      BY <1>1, <1>2, <3>1, <3>3, ShowFileShows
    <3>5. s.panel = "open" /\ ~s.strayed => s.cursor = s.selected
      BY DEF SessionInv, ShowInv
    <3>6. ShowInv'
      BY <1>1, <1>2, <2>1, <3>1, <3>3, <3>5, ShowFileInv
    <3> QED
      BY <1>2, <3>2, <3>4, <3>6
  <2>2. CASE s.panel # "open"
    <3>1. s' = t /\ blobs' = blobs
      BY <1>0, <2>2
    <3>2. s.panel = "none" \/ s.strayed
      BY <2>2 DEF SessionInv, ShowInv
    <3>3. ShowInv'
      BY <1>2, <2>2, <3>1, <3>2 DEF ShowInv
    <3> QED
      BY <1>1, <1>2, <3>1, <3>3
  <2> QED
    BY <2>1, <2>2
<1>4. NoWindow \in Window /\ NoWindow.at = "free"
  BY PRSessionAssumption DEF NoWindow, Window, Heads
<1>5. ASSUME NEW v \in Windows
      PROVE  /\ win'[v] \in Window
             /\ win'[v].at = "open" => win'[v].of = s'.id
             /\ Placed(win[v])'
  <2>0. win[v] \in Window /\ (win[v].at = "open" => win[v].of = s.id) /\ Placed(win[v])
    BY <1>1 DEF SessionInv, WinInv
  <2>1. CASE v = w /\ win[w].for = "comment"
    <3>1. win'[v] = [win[w] EXCEPT !.at = "open", !.stale = TRUE, !.moved = TRUE, !.sees = 0]
      BY <2>1 DEF HandleConflict
    <3>2. 0 \in Heads
      BY PRSessionAssumption DEF Heads
    <3>3. /\ win'[v] \in Window /\ win'[v].at = "open" /\ win'[v].of = win[w].of
          /\ win'[v].moved = TRUE
      BY <1>1, <3>1, <3>2 DEF Window
    <3> QED
      BY <1>0, <1>3, <3>3 DEF Placed
  <2>2. CASE v = w /\ win[w].for = "summary"
    <3>1. win'[v] = NoWindow
      BY <2>2 DEF HandleConflict
    <3> QED
      BY <1>4, <3>1 DEF Placed
  <2>3. CASE v # w /\ win[v].at = "open" /\ win[w].sees # s.pins
    <3>1. win'[v] = [win[v] EXCEPT !.moved = TRUE]
      BY <2>3 DEF HandleConflict
    <3>2. /\ win'[v] \in Window /\ win'[v].at = "open" /\ win'[v].of = win[v].of
          /\ win'[v].moved = TRUE
      BY <2>0, <2>3, <3>1 DEF Window
    <3> QED
      BY <1>3, <2>0, <2>3, <3>2 DEF Placed
  <2>4. CASE v # w /\ ~(win[v].at = "open" /\ win[w].sees # s.pins)
    <3>1. win'[v] = win[v]
      BY <2>4 DEF HandleConflict
    <3>2. head' = head /\ s'.id = s.id
      BY <1>0, <1>3
    <3>3. win[v].at = "open" => s'.pins = s.pins
      BY <1>3, <2>4
    <3> QED
      BY <2>0, <3>1, <3>2, <3>3 DEF Placed
  <2>5. win[w].for \in {"comment", "summary"}
    BY <1>1 DEF Window
  <2> QED
    BY <2>1, <2>2, <2>3, <2>4, <2>5
<1>6. win' \in [Windows -> Window]
  <2>1. win' = [v \in Windows |-> win'[v]]
    BY DEF HandleConflict
  <2> QED
    BY <1>5, <2>1
<1>7. WinInv'
  BY <1>3, <1>5 DEF WinInv
<1>8. TypeOK'
  BY <1>0, <1>3, <1>6 DEF SessionInv, TypeOK
<1>9. OpenInv' /\ FlipInv' /\ MarkInv'
  BY <1>0, <1>3, OpenFrame, FlipFrame DEF SessionInv
<1> QED
  BY <1>3, <1>7, <1>8, <1>9 DEF SessionInv

LEMMA PushInv ==
  ASSUME SessionInv, Push
  PROVE  SessionInv'
<1>0. /\ head' = head + 1 /\ head < MaxHead
      /\ win' = [w \in Windows |->
           IF win[w].at = "checked" THEN [win[w] EXCEPT !.raced = TRUE] ELSE win[w]]
      /\ UNCHANGED <<mark, gen, opens, s, blobs, flip, before, muddled, does>>
  BY DEF Push
<1>1. head \in Heads /\ win \in [Windows -> Window] /\ MaxHead \in Nat
  BY PRSessionAssumption DEF SessionInv, TypeOK
<1>2. head' \in Heads
  BY <1>0, <1>1 DEF Heads
<1>3. ASSUME NEW w \in Windows
      PROVE  /\ win'[w] \in Window /\ Placed(win[w])'
             /\ win'[w].at = "open" => win'[w].of = s'.id
  <2>1. win[w] \in Window /\ Placed(win[w]) /\ (win[w].at = "open" => win[w].of = s.id)
    BY <1>1 DEF SessionInv, WinInv
  <2>2. CASE win[w].at = "checked"
    <3>1. win'[w] = [win[w] EXCEPT !.raced = TRUE]
      BY <1>0, <2>2
    <3>2. /\ win'[w] \in Window /\ win'[w].at = "checked" /\ win'[w].raced = TRUE
          /\ win'[w].for = win[w].for /\ win'[w].moved = win[w].moved
          /\ win'[w].anchor = win[w].anchor
      BY <2>1, <2>2, <3>1 DEF Window
    <3>3. win[w].anchor \in Heads
      BY <2>1 DEF Window
    <3>4. win[w].anchor <= head => win[w].anchor <= head'
      BY <1>0, <1>1, <3>3 DEF Heads
    <3> QED
      BY <2>1, <2>2, <3>2, <3>4 DEF Placed
  <2>3. CASE win[w].at # "checked"
    <3>1. win'[w] = win[w] /\ s' = s
      BY <1>0, <2>3
    <3> QED
      BY <2>1, <2>3, <3>1 DEF Placed
  <2> QED
    BY <2>2, <2>3
<1>4. win' \in [Windows -> Window] /\ WinInv'
  <2>1. win' = [w \in Windows |-> win'[w]]
    BY <1>0
  <2> QED
    BY <1>3, <2>1 DEF WinInv
<1>5. TypeOK'
  BY <1>0, <1>2, <1>4 DEF SessionInv, TypeOK
<1>6. ShowInv' /\ OpenInv' /\ FlipInv' /\ MarkInv'
  BY <1>0, ShowFrame, OpenFrame, FlipFrame DEF SessionInv
<1> QED
  BY <1>4, <1>5, <1>6 DEF SessionInv
-----------------------------------------------------------------------------
(* The invariant and what it gives.                                        *)

LEMMA InitInv == Init => SessionInv
<1> SUFFICES ASSUME Init PROVE SessionInv
  OBVIOUS
<1>1. AtFirst \in [Paths -> BOOLEAN]
  BY DEF AtFirst
<1>2. /\ s \in Session /\ s.id = 0 /\ s.panel = "none"
      /\ \A q \in Paths : s.memo[q] = None
  BY <1>1, NewSessionType, PRSessionAssumption DEF Init, NoSession, Heads
<1>3. NoFlip \in Flip /\ NoFlip.at = "free"
  BY PRSessionAssumption DEF NoFlip, Flip, Paths
<1>4. NoWindow \in Window /\ NoWindow.at = "free"
  BY PRSessionAssumption DEF NoWindow, Window, Heads
<1>5. TypeOK
  BY <1>1, <1>2, <1>3, <1>4, PRSessionAssumption DEF Init, TypeOK, Heads
<1>6. ShowInv /\ OpenInv
  BY <1>2 DEF Init, ShowInv, OpenInv
<1>7. FlipInv /\ MarkInv
  BY <1>2, <1>3 DEF Init, FlipInv, MarkInv, LastFlip, Live
<1>8. WinInv
  BY <1>4 DEF Init, WinInv, Placed
<1> QED
  BY <1>5, <1>6, <1>7, <1>8 DEF SessionInv

LEMMA StepInv == SessionInv /\ [Next]_vars => SessionInv'
<1> SUFFICES ASSUME SessionInv, [Next]_vars PROVE SessionInv'
  OBVIOUS
<1>1. CASE Show \/ \E o \in opens : ReadOpen(o) \/ DropOpen(o)
  BY <1>1, OpensInv
<1>2. CASE End \/ Step \/ ToggleViewed \/ BlobAnswer \/ Push
  BY <1>2, EndInv, StepForwardInv, ToggleViewedInv, BlobAnswerInv, PushInv
<1>3. CASE (\E p \in Paths : MoveCursor(p)) \/ ToggleSidebar \/ Overview
  BY <1>3, PanelInv
<1>4. CASE \E p \in Paths : Select(p) \/ EnterFiles(p)
  BY <1>4, SelectInv, EnterFilesInv
<1>5. CASE \E w \in Windows : \/ Comment(w) \/ Summary(w) \/ Cancel(w) \/ Submit(w)
                              \/ Guard(w) \/ Take(w) \/ DropPost(w)
                              \/ Refused(w) \/ ReadPR(w)
  BY <1>5, WindowInv
<1>6. CASE \E w \in Windows : HandleConflict(w)
  BY <1>6, HandleConflictInv
<1>7. CASE \E o \in opens, land \in {"overview", "files"} : OpenSession(o, land)
  BY <1>7, OpenSessionInv
<1>8. CASE \E f \in Flips : Apply(f) \/ FlipAnswer(f)
  BY <1>8, ApplyInv, FlipAnswerInv
<1>9. CASE UNCHANGED vars
  <2>1. TypeOK'
    BY <1>9 DEF SessionInv, TypeOK, vars
  <2>2. ShowInv' /\ OpenInv' /\ FlipInv' /\ MarkInv' /\ WinInv'
    BY <1>9, ShowFrame, OpenFrame, FlipFrame, WinFrame DEF SessionInv, vars
  <2> QED
    BY <2>1, <2>2 DEF SessionInv
<1> QED
  BY <1>1, <1>2, <1>3, <1>4, <1>5, <1>6, <1>7, <1>8, <1>9 DEF Next, User

LEMMA AlwaysInv == Spec => []SessionInv
  BY InitInv, StepInv, PTL DEF Spec

\* The file opened last is drawn from the pinned commits or its blobs are on
\* their way, whatever prefetches, conflicts and pages come between (show_file,
\* prefetch_around, handle_conflict).
THEOREM DrawNeverLost == Spec => []ShownOrComing
<1>1. SessionInv => ShownOrComing
  BY DEF SessionInv, ShowInv, ShownOrComing
<1> QED
  BY <1>1, AlwaysInv, PTL

\* The panel shows GitHub's marks once the flips of a file are answered, in
\* GitHub's order and with no loss among overlapping ones (mark_viewed).
THEOREM MarksSettle == Spec => []MarksAgree
<1>1. SessionInv => MarksAgree
  BY DEF SessionInv, MarkInv, MarksAgree
<1> QED
  BY <1>1, AlwaysInv, PTL

\* A comment is let through at the head its anchor was taken from only, and lands
\* at a later one only when the head was pushed to between the guard and the
\* write, unless the pins moved under it (post, the sidecar's guardHead,
\* handle_conflict).
THEOREM CommentsAnchored == Spec => []AnchoredAtHead
<1>1. SessionInv => AnchoredAtHead
  BY DEF SessionInv, WinInv, Placed, AnchoredAtHead, Landed
<1> QED
  BY <1>1, AlwaysInv, PTL

\* What a step draws, if it draws, and the session it opens, if it opens one.
DrawStep ==
  /\ s'.view # s.view /\ s'.view # NoView
       => s'.view = [path |-> CurrentEntry(s'), at |-> s'.pins]
  /\ s'.id # s.id /\ s'.id # 0
       => s.id < s'.id /\ \A o \in opens : o.gen <= s'.id

LEMMA DrawnByShowFile ==
  ASSUME SessionInv, NEW t \in Session, NEW p \in Paths, t.memo = s.memo, t.pins = s.pins,
         t.id = s.id, t.view = s.view, CurrentEntry(t) = p, ShowFile(t, p, blobs)
  PROVE  DrawStep
<1>1. blobs \subseteq Blob /\ \A q \in Paths : t.memo[q] \in {None, t.pins}
  BY DEF SessionInv, TypeOK, ShowInv
<1>2. /\ Keeps(t, s')
      /\ s'.view = [path |-> p, at |-> t.pins] \/ s'.view = t.view
  BY <1>1, ShowFileShows
<1>3. CurrentEntry(s') = p
  BY <1>2 DEF Keeps, CurrentEntry
<1> QED
  BY <1>2, <1>3 DEF DrawStep, Keeps

\* Late blobs are drawn over no other file and from no other commits, and no
\* superseded open replaces a later one (show_file's callback, M.show).
THEOREM DrawnIsCurrent == Spec => DrawsCurrent
<1>1. SessionInv /\ [Next]_vars => DrawStep
  <2> SUFFICES ASSUME SessionInv, [Next]_vars PROVE DrawStep
    OBVIOUS
  <2>0. s \in Session /\ \A q \in Paths : s.memo[q] \in {None, s.pins}
    BY DEF SessionInv, TypeOK, ShowInv
  <2>1. ASSUME s'.view = s.view, s'.id = s.id PROVE DrawStep
    BY <2>1 DEF DrawStep
  <2>2. CASE \/ Show \/ Push \/ UNCHANGED vars \/ \E o \in opens : ReadOpen(o) \/ DropOpen(o)
             \/ \E f \in Flips : Apply(f)
             \/ \E w \in Windows : \/ Comment(w) \/ Summary(w) \/ Cancel(w) \/ Submit(w)
                                   \/ Guard(w) \/ Take(w) \/ DropPost(w)
                                   \/ Refused(w) \/ ReadPR(w)
    <3>1. s' = s
      BY <2>2 DEF Show, Push, vars, ReadOpen, DropOpen, Apply, Comment, Summary, Cancel, Submit,
                  Guard, Take, DropPost, Refused, ReadPR
    <3> QED
      BY <2>1, <3>1
  <2>3. CASE ToggleViewed \/ (\E p \in Paths : MoveCursor(p)) \/ ToggleSidebar
    <3>1. s'.view = s.view /\ s'.id = s.id
      BY <2>0, <2>3 DEF ToggleViewed, Marked, MoveCursor, ToggleSidebar, Session
    <3> QED
      BY <2>1, <3>1
  <2>4. CASE \E f \in Flips : FlipAnswer(f)
    <3>1. s'.view = s.view /\ s'.id = s.id
      BY <2>0, <2>4 DEF FlipAnswer, Reconciled, RolledBack, Session
    <3> QED
      BY <2>1, <3>1
  <2>5. CASE Overview \/ End
    <3>1. s'.view = NoView /\ (s'.id = s.id \/ s'.id = 0)
      <4>1. CASE Overview
        BY <2>0, <4>1 DEF Overview, Session
      <4>2. CASE End
        BY <4>2 DEF End, NoSession, NewSession
      <4> QED
        BY <2>5, <4>1, <4>2
    <3> QED
      BY <3>1 DEF DrawStep
  <2>6. ASSUME NEW p \in Paths, Select(p) PROVE DrawStep
    <3>1. CurrentEntry(Opened(s, p)) = p
      BY <2>0, OpenedType DEF CurrentEntry
    <3> QED
      BY <2>0, <2>6, <3>1, OpenedType, DrawnByShowFile DEF Select
  <2>7. ASSUME NEW p \in Paths, EnterFiles(p) PROVE DrawStep
    <3> DEFINE o == [s EXCEPT !.panel = "open"]
    <3>1. o \in Session /\ o.id = s.id /\ o.pins = s.pins /\ o.memo = s.memo /\ o.view = s.view
      BY <2>0 DEF Session
    <3>2. ShowFile(Opened(o, p), p, blobs)
      BY <2>7 DEF EnterFiles
    <3> HIDE DEF o
    <3>3. CurrentEntry(Opened(o, p)) = p
      BY <3>1, OpenedType DEF CurrentEntry
    <3> QED
      BY <3>1, <3>2, <3>3, OpenedType, DrawnByShowFile
  <2>8. CASE Step
    <3>1. PICK p \in NextUnviewed(CurrentEntry(s)) \cup NextRow(CurrentEntry(s)) :
            ShowFile(Marked(Opened(s, p), CurrentEntry(s), TRUE), p, blobs)
      BY <2>8 DEF Step
    <3>2. CurrentEntry(s) \in Paths
      BY <2>0 DEF CurrentEntry, Session
    <3>3. p \in Paths
      BY <3>2, PRSessionAssumption DEF NextUnviewed, NextRow, Paths
    <3> DEFINE o == Opened(s, p)
               t == Marked(o, CurrentEntry(s), TRUE)
    <3>4. /\ o \in Session /\ o.id = s.id /\ o.pins = s.pins /\ o.memo = s.memo /\ o.view = s.view
          /\ o.panel = s.panel /\ o.selected = p /\ (s.panel = "open" => o.cursor = p)
      BY <2>0, <3>3, OpenedType
    <3> HIDE DEF o
    <3>5. /\ t \in Session /\ t.id = o.id /\ t.pins = o.pins /\ t.memo = o.memo /\ t.view = o.view
          /\ t.panel = o.panel /\ t.selected = o.selected /\ t.cursor = o.cursor
      BY <3>2, <3>4 DEF Marked, Session
    <3>6. ShowFile(t, p, blobs)
      BY <3>1 DEF o
    <3> HIDE DEF t
    <3>7. CurrentEntry(t) = p
      BY <3>4, <3>5 DEF CurrentEntry
    <3> QED
      BY <3>3, <3>4, <3>5, <3>6, <3>7, DrawnByShowFile
  <2>9. CASE BlobAnswer
    <3>1. PICK b \in blobs : Shown(b) \/ Warmed(b)
      BY <2>9 DEF BlobAnswer
    <3>2. b \in Blob /\ b.path \in Paths
      BY DEF SessionInv, TypeOK, Blob
    <3> DEFINE t == Memoised(s, b)
    <3>3. CASE PinsHold(s, b) /\ Draws(t, b) /\ s' = Render(t, b.path)
      <4>1. /\ t \in Session /\ t.memo[b.path] = s.pins /\ t.memo[b.path] # None
            /\ t.id = s.id /\ t.pins = s.pins
        BY <2>0, <3>2, <3>3, MemoisedType
      <4>2. t.panel = "open" /\ t.cursor = b.path
        BY <3>3 DEF Draws
      <4> HIDE DEF t
      <4>3. Keeps(t, s') /\ s'.view = [path |-> b.path, at |-> s.pins]
        BY <3>2, <3>3, <4>1, RenderType
      <4> QED
        BY <4>1, <4>2, <4>3 DEF DrawStep, Keeps, CurrentEntry
    <3>4. CASE s'.view = s.view /\ s'.id = s.id
      BY <2>1, <3>4
    <3>5. \/ s'.view = s.view /\ s'.id = s.id
          \/ PinsHold(s, b) /\ Draws(t, b) /\ s' = Render(t, b.path)
      <4>1. \/ s' = [s EXCEPT !.strayed = s.strayed \/ (b.path = s.selected /\ PinsHold(s, b))]
            \/ s' = s \/ s' = t
            \/ s' = [s EXCEPT !.warming = s.warming \ {b.path}]
            \/ s' = Memoised([s EXCEPT !.warming = s.warming \ {b.path}], b)
            \/ PinsHold(s, b) /\ Draws(t, b) /\ s' = Render(t, b.path)
        <5>1. CASE Shown(b)
          BY <5>1 DEF Shown
        <5>2. CASE Warmed(b)
          BY <2>0, <5>2 DEF Warmed, Session
        <5> QED
          BY <3>1, <5>1, <5>2
      <4> QED
        BY <2>0, <4>1 DEF Memoised, Session
    <3> QED
      BY <3>3, <3>4, <3>5
  <2>10. CASE \E o \in opens, land \in {"overview", "files"} : OpenSession(o, land)
    <3>1. PICK o \in opens : \E land \in {"overview", "files"} : OpenSession(o, land)
      BY <2>10
    <3>2. s'.id = gen /\ s'.view = NoView /\ o.gen = gen
      BY <3>1, OpenSessionInv DEF OpenSession, LatestOpen
    <3>3. s.id <= gen /\ s.id # gen /\ s.id \in Nat /\ gen \in Nat /\ \A q \in opens : q.gen <= gen
      BY <3>2 DEF SessionInv, OpenInv, TypeOK, Session
    <3> QED
      BY <3>2, <3>3 DEF DrawStep
  <2>11. CASE \E w \in Windows : HandleConflict(w)
    BY <2>1, <2>11, HandleConflictInv
  <2> QED
    BY <2>2, <2>3, <2>4, <2>5, <2>6, <2>7, <2>8, <2>9, <2>10, <2>11 DEF Next, User
<1> QED
  BY <1>1, AlwaysInv, PTL DEF Spec, DrawsCurrent, DrawStep

-----------------------------------------------------------------------------
(* PRReads: the calls that read a pull request.                            *)

\* What ended a call with a fault is told as its mapping has it.
FaultInv ==
  failed # Nil => /\ at = "done" /\ failed \in Trouble
                  /\ result \in {Graphql(failed), GetJSON(failed)}
                  /\ result.code # "ok"

\* What errors.go owes of an answer p that is told as fault f.
ToldOf(p, f) ==
  /\ f.hint \in Int /\ (f.hint < 0 => f.hint = p.retryAfter)
  /\ ~p.sent => f.code = "network"
  /\ p.sent /\ p.status \notin 200..299 => f.code # "network"
  /\ p.sent /\ p.status \in {403, 429}
       /\ (p.status = 429 \/ p.exhausted \/ SecondaryLimit(p) \/ p.retryAfter # Nil)
     => f.code = "rate_limited"
  /\ p.sent /\ p.status = 404 => f.code = "not_found"

Codes == {"ok", "network", "auth", "rate_limited", "not_found", "conflict", "bad_request", "internal"}

LEMMA PlainFault ==
  ASSUME NEW c
  PROVE  Fault(c, 0).code = c /\ Fault(c, 0).hint = 0
BY DEF Fault

\* The hint is not negative but where Retry-After is.
LEMMA HintOfHeaders ==
  ASSUME NEW p \in Response
  PROVE  /\ Limited(RateLimited(p)).code = "rate_limited"
         /\ Limited(RateLimited(p)).hint \in Int
         /\ Limited(RateLimited(p)).hint < 0 => Limited(RateLimited(p)).hint = p.retryAfter
         /\ p.exhausted \/ p.retryAfter # Nil => RateLimited(p) # <<>>
<1>1. CASE p.retryAfter # Nil
  <2>1. RateLimited(p) = <<p.retryAfter>> /\ p.retryAfter \in Int
    BY <1>1 DEF RateLimited, Response
  <2> QED
    BY <2>1 DEF Limited, Fault
<1>2. CASE p.retryAfter = Nil /\ ~p.exhausted
  <2>1. RateLimited(p) = <<>>
    BY <1>2 DEF RateLimited
  <2> QED
    BY <1>2, <2>1 DEF Limited, Fault
<1>3. CASE p.retryAfter = Nil /\ p.exhausted
  <2> DEFINE h == IF p.reset # Nil /\ p.reset > 0 THEN p.reset ELSE 0
  <2>1. h \in Nat
    <3>1. CASE p.reset = Nil
      BY <3>1
    <3>2. CASE p.reset # Nil
      <4>1. p.reset \in Int
        BY <3>2 DEF Response
      <4> QED
        BY <4>1
    <3> QED
      BY <3>1, <3>2
  <2>2. RateLimited(p) = <<h>>
    BY <1>3 DEF RateLimited
  <2> HIDE DEF h
  <2> QED
    BY <2>1, <2>2 DEF Limited, Fault
<1> QED
  BY <1>1, <1>2, <1>3

\* mapHTTP: a limit is a limit whatever says so, and no status is a network error.
LEMMA MapHTTPTells ==
  ASSUME NEW p \in Response
  PROVE  /\ MapHTTP(p).hint \in Int
         /\ MapHTTP(p).hint < 0 => MapHTTP(p).hint = p.retryAfter
         /\ MapHTTP(p).code = "ok" <=> p.status \in 200..299
         /\ MapHTTP(p).code # "network"
         /\ p.status = 404 => MapHTTP(p).code = "not_found"
         /\ p.status \in {403, 429}
              /\ (p.status = 429 \/ p.exhausted \/ SecondaryLimit(p) \/ p.retryAfter # Nil)
            => MapHTTP(p).code = "rate_limited"
<1> DEFINE l == Limited(RateLimited(p))
<1>1. l.code = "rate_limited" /\ l.hint \in Int /\ (l.hint < 0 => l.hint = p.retryAfter)
  BY HintOfHeaders
<1>2. p.exhausted \/ p.retryAfter # Nil => RateLimited(p) # <<>>
  BY HintOfHeaders
<1>3. p.status \in Nat
  BY DEF Response
<1> HIDE DEF l
<1>5. CASE p.status \in 200..299
  <2>1. MapHTTP(p) = Fault("ok", 0)
    <3>1. p.status \notin {401, 403, 404, 409, 422, 429}
      BY <1>3, <1>5
    <3> QED
      BY <1>5, <3>1 DEF MapHTTP
  <2>2. p.status \notin {403, 404, 429}
    BY <1>3, <1>5
  <2> QED
    BY <1>5, <2>1, <2>2, PlainFault
<1>6. CASE p.status = 403
  <2>1. 403 \notin 200..299 /\ 403 # 401
    OBVIOUS
  <2>2. MapHTTP(p) = IF RateLimited(p) # <<>> \/ SecondaryLimit(p) THEN l ELSE Fault("auth", 0)
    BY <1>6, <2>1 DEF MapHTTP, l
  <2>3. Fault("auth", 0).code = "auth" /\ Fault("auth", 0).hint = 0
    BY PlainFault
  <2>4. MapHTTP(p) = l \/ MapHTTP(p) = Fault("auth", 0)
    BY <2>2
  <2>5. p.exhausted \/ p.retryAfter # Nil \/ SecondaryLimit(p) => MapHTTP(p) = l
    BY <1>2, <2>2
  <2> QED
    BY <1>1, <1>6, <2>1, <2>3, <2>4, <2>5
<1>7. CASE p.status = 429
  <2>1. MapHTTP(p) = l
    BY <1>7 DEF MapHTTP, l
  <2> QED
    BY <1>1, <1>7, <2>1
<1>8. CASE p.status \notin 200..299 /\ p.status # 403 /\ p.status # 429
  <2>1. \E c \in {"auth", "not_found", "conflict", "bad_request", "internal"} :
          MapHTTP(p) = Fault(c, 0) /\ (p.status = 404 => c = "not_found")
    <3>1. CASE p.status = 401
      BY <1>8, <3>1 DEF MapHTTP
    <3>2. CASE p.status = 404
      <4>1. MapHTTP(p) = Fault("not_found", 0)
        BY <1>8, <3>2 DEF MapHTTP
      <4> QED
        BY <4>1
    <3>3. CASE p.status = 409
      BY <1>8, <3>3 DEF MapHTTP
    <3>4. CASE p.status = 422
      BY <1>8, <3>4 DEF MapHTTP
    <3>5. CASE p.status \notin {401, 404, 409, 422}
      <4>1. MapHTTP(p) = Fault("internal", 0)
        BY <1>8, <3>5 DEF MapHTTP
      <4> QED
        BY <3>5, <4>1
    <3> QED
      BY <3>1, <3>2, <3>3, <3>4, <3>5
  <2>2. PICK c \in {"auth", "not_found", "conflict", "bad_request", "internal"} :
          MapHTTP(p) = Fault(c, 0) /\ (p.status = 404 => c = "not_found")
    BY <2>1
  <2>3. MapHTTP(p).code = c /\ MapHTTP(p).hint = 0
    BY <2>2, PlainFault
  <2> QED
    BY <1>8, <2>2, <2>3
<1> QED
  BY <1>5, <1>6, <1>7, <1>8

LEMMA FaultsTold ==
  ASSUME NEW p \in Response, NEW f \in {Graphql(p), GetJSON(p)}, f.code # "ok"
  PROVE  ToldOf(p, f)
<1>1. /\ Fault("network", 0).code = "network" /\ Fault("network", 0).hint = 0
      /\ Fault("ok", 0).code = "ok"
  BY PlainFault
<1>2. p.sent \in BOOLEAN /\ p.status \in Nat
  BY DEF Response
<1>3. CASE ~p.sent
  <2>1. Send(p) = Fault("network", 0)
    BY <1>3 DEF Send
  <2>2. f = Fault("network", 0)
    BY <1>1, <2>1 DEF Graphql, GetJSON
  <2> QED
    BY <1>1, <1>3, <2>2 DEF ToldOf
<1>4. CASE p.sent /\ p.status \notin 200..299
  <2>1. MapHTTP(p).code # "ok"
    BY <1>4, MapHTTPTells
  <2>2. Send(p) = MapHTTP(p)
    BY <1>4, <2>1 DEF Send
  <2>3. f = MapHTTP(p)
    BY <2>1, <2>2 DEF Graphql, GetJSON
  <2> QED
    BY <1>4, <2>3, MapHTTPTells DEF ToldOf
<1>5. CASE p.sent /\ p.status \in 200..299
  <2>1. MapHTTP(p).code = "ok"
    BY <1>5, MapHTTPTells
  <2>2. Send(p) \in {Fault("network", 0), Fault("ok", 0)}
    BY <1>5, <2>1 DEF Send
  <2>3. \E c \in Codes : MapGraphQL(p) = Fault(c, 0)
    <3>1. CASE p.error = ""
      BY <3>1 DEF MapGraphQL, Codes
    <3>2. CASE p.error \in {"NOT_FOUND", "FORBIDDEN", "INSUFFICIENT_SCOPES", "RATE_LIMITED",
                            "UNPROCESSABLE"}
      BY <3>2 DEF MapGraphQL, Codes
    <3>3. CASE p.error \notin {"", "NOT_FOUND", "FORBIDDEN", "INSUFFICIENT_SCOPES",
                               "RATE_LIMITED", "UNPROCESSABLE"}
      <4>1. MapGraphQL(p) = Fault("internal", 0)
        BY <3>3 DEF MapGraphQL
      <4> QED
        BY <4>1 DEF Codes
    <3> QED
      BY <3>1, <3>2, <3>3
  <2>4. \E c \in Codes : f = Fault(c, 0)
    BY <2>2, <2>3 DEF Graphql, GetJSON, Codes
  <2>5. f.hint = 0
    BY <2>4, PlainFault
  <2>6. p.status \notin {403, 404, 429}
    BY <1>2, <1>5
  <2> QED
    BY <1>5, <2>5, <2>6 DEF ToldOf
<1> QED
  BY <1>2, <1>3, <1>4, <1>5

-----------------------------------------------------------------------------
(* The walks.                                                              *)

\* The sequence q is the list t up to some point.
Upto(q, t) == Len(q) <= Len(t) /\ \A i \in 1..Len(q) : q[i] = t[i]

LEMMA PageBounds ==
  /\ PageSize \in Nat \ {0} /\ MaxPages \in Nat \ {0} /\ 0 * PageSize = 0
  /\ \A n \in Nat : n * PageSize \in Nat /\ (n + 1) * PageSize = n * PageSize + PageSize
BY ReadsAssumption

LEMMA LessOf ==
  ASSUME NEW a \in Nat, NEW b \in Nat
  PROVE  Min({a, b}) = IF a <= b THEN a ELSE b
BY DEF Min

LEMMA PageIs ==
  ASSUME NEW S, NEW list \in Seq(S), NEW from \in Nat
  PROVE  /\ Page(list, from) \in Seq(S)
         /\ from + PageSize <= Len(list) => Len(Page(list, from)) = PageSize
         /\ from <= Len(list) /\ Len(list) <= from + PageSize
              => Len(Page(list, from)) = Len(list) - from
         /\ \A k \in 1..Len(Page(list, from)) : Page(list, from)[k] = list[from + k]
<1> DEFINE to == Min({from + PageSize, Len(list)})
           q == Page(list, from)
<1>1. PageSize \in Nat \ {0} /\ Len(list) \in Nat
  BY PageBounds
<1>2. to = IF from + PageSize <= Len(list) THEN from + PageSize ELSE Len(list)
  BY <1>1, LessOf
<1>3. to \in Nat /\ to <= Len(list) /\ \A k \in (from + 1)..to : list[k] \in S
  <2> HIDE DEF to
  <2>1. to \in Nat /\ to <= Len(list)
    BY <1>1, <1>2
  <2>2. \A k \in (from + 1)..to : k \in 1..Len(list)
    BY <1>1, <2>1
  <2> QED
    BY <2>1, <2>2
<1>4. /\ q \in Seq(S) /\ Len(q) = IF from + 1 <= to THEN to - (from + 1) + 1 ELSE 0
      /\ \A k \in 1..Len(q) : q[k] = list[from + 1 + k - 1]
  <2>1. q = SubSeq(list, from + 1, to)
    BY DEF Page
  <2> HIDE DEF to, q
  <2> QED
    BY <1>3, <2>1, SubSeqProperties
<1> HIDE DEF to, q
<1>5. \A k \in 1..Len(q) : from + 1 + k - 1 = from + k
  BY <1>4
<1>6. /\ from + PageSize <= Len(list) => Len(q) = PageSize
      /\ from <= Len(list) /\ Len(list) <= from + PageSize => Len(q) = Len(list) - from
  BY <1>1, <1>2, <1>4
<1> QED
  BY <1>4, <1>5, <1>6 DEF q

\* A page read where the walk stands leaves it with the list up to the page's end.
LEMMA WalkOn ==
  ASSUME NEW S, NEW list \in Seq(S), NEW q \in Seq(S), Upto(q, list)
  PROVE  LET w == q \o Page(list, Len(q))
         IN  /\ w \in Seq(S) /\ Upto(w, list)
             /\ Len(w) = IF Len(q) + PageSize <= Len(list) THEN Len(q) + PageSize ELSE Len(list)
<1> DEFINE n == Len(q)
           p == Page(list, n)
           w == q \o p
<1>1. /\ PageSize \in Nat \ {0} /\ Len(list) \in Nat /\ n \in Nat /\ n <= Len(list)
      /\ Len(q) = n
  BY PageBounds DEF Upto
<1>2. /\ p \in Seq(S) /\ \A k \in 1..Len(p) : p[k] = list[n + k]
      /\ n + PageSize <= Len(list) => Len(p) = PageSize
      /\ n <= Len(list) /\ Len(list) <= n + PageSize => Len(p) = Len(list) - n
  BY PageIs
<1>3. p \in Seq(S)
  BY <1>2
<1> HIDE DEF p, n
<1>4. /\ w \in Seq(S) /\ Len(w) = n + Len(p)
      /\ \A i \in 1..Len(w) : w[i] = IF i <= n THEN q[i] ELSE p[i - n]
  <2>1. /\ q \o p \in Seq(S) /\ Len(q \o p) = Len(q) + Len(p)
        /\ \A i \in 1..Len(q) + Len(p) : (q \o p)[i] = IF i <= Len(q) THEN q[i] ELSE p[i - Len(q)]
    BY <1>3, ConcatProperties
  <2> QED
    BY <1>1, <2>1
<1> HIDE DEF w
<1>5. Len(w) = IF n + PageSize <= Len(list) THEN n + PageSize ELSE Len(list)
  <2>1. CASE n + PageSize <= Len(list)
    BY <1>2, <1>4, <2>1
  <2>2. CASE ~(n + PageSize <= Len(list))
    <3>1. Len(p) = Len(list) - n
      BY <1>1, <1>2, <2>2
    <3> QED
      BY <1>1, <1>4, <2>2, <3>1
  <2> QED
    BY <2>1, <2>2
<1>6. Len(w) <= Len(list)
  BY <1>1, <1>5
<1>7. ASSUME NEW i \in 1..Len(w)
      PROVE  w[i] = list[i]
  <2>1. CASE i <= n
    <3>1. i \in 1..Len(q) /\ w[i] = q[i]
      BY <1>1, <1>4, <2>1
    <3> QED
      BY <3>1 DEF Upto
  <2>2. CASE ~(i <= n)
    <3>1. i - n \in 1..Len(p) /\ n + (i - n) = i /\ w[i] = p[i - n]
      BY <1>1, <1>2, <1>4, <2>2
    <3> QED
      BY <1>2, <3>1
  <2> QED
    BY <2>1, <2>2
<1> QED
  BY <1>4, <1>5, <1>6, <1>7 DEF Upto, w, p, n

\* nextCursor goes on where the page ended, or not at all; on page info that makes
\* sense it stops only at the end of the list.
LEMMA NextOn ==
  ASSUME NEW S, NEW list \in Seq(S), NEW from \in Nat,
         NEW info \in {PageInfo(list, from)} \cup OddInfo(from)
  PROVE  /\ NextCursor(from, info) # Nil =>
              /\ NextCursor(from, info) = from + PageSize /\ from + PageSize < Len(list)
              /\ info = PageInfo(list, from)
         /\ NextCursor(from, info) = Nil /\ info = PageInfo(list, from)
              => Len(list) <= from + PageSize
<1> DEFINE real == PageInfo(list, from)
<1>1. PageSize \in Nat \ {0} /\ Len(list) \in Nat
  BY PageBounds
<1>2. /\ real.more = (from + PageSize < Len(list))
      /\ real.end = from + Len(Page(list, from))
      /\ from + PageSize < Len(list) => real.end = from + PageSize
  BY <1>1, PageIs DEF PageInfo
<1> HIDE DEF real
<1>3. CASE info = real
  <2>1. ASSUME real.more
        PROVE  /\ from + PageSize < Len(list) /\ real.end = from + PageSize
               /\ NextCursor(from, real) = from + PageSize /\ from + PageSize \in Int
    <3>1. from + PageSize < Len(list) /\ real.end = from + PageSize
      BY <1>2, <2>1
    <3>2. real.end \notin {0, from} /\ from + PageSize \in Int
      BY <1>1, <3>1
    <3> QED
      BY <2>1, <3>1, <3>2 DEF NextCursor
  <2>2. ASSUME ~real.more
        PROVE  NextCursor(from, real) = Nil /\ Len(list) <= from + PageSize
    <3>1. NextCursor(from, real) = Nil
      BY <2>2 DEF NextCursor
    <3>2. ~(from + PageSize < Len(list))
      BY <1>2, <2>2
    <3> QED
      BY <1>1, <3>1, <3>2
  <2> QED
    BY <1>3, <2>1, <2>2, ReadsAssumption DEF real
<1>4. CASE info \in OddInfo(from)
  <2>1. info.end \in {0, from}
    BY <1>4 DEF OddInfo
  <2>2. NextCursor(from, info) = Nil
    BY <2>1 DEF NextCursor
  <2>3. info = real => Len(list) <= from + PageSize
    BY <1>3, <2>2, <1>1, <1>2, <2>1
  <2> QED
    BY <2>2, <2>3 DEF real
<1> QED
  BY <1>3, <1>4 DEF real

-----------------------------------------------------------------------------
(* The calls.                                                              *)

Walked == {"get_threads", "get_timeline"}
Elem(m) == IF m = "get_threads" THEN ThreadGQL ELSE Nat
Listed(g, m) == IF m = "get_threads" THEN g.threads ELSE g.comments
HasLists(g) ==
  /\ {"head", "threads", "comments", "pulls"} \subseteq DOMAIN g
  /\ g.threads \in Seq(ThreadGQL) /\ g.comments \in Seq(Nat) /\ g.head \in 1..Len(FilesAt)

\* The lists only grow, and GitHub has not changed where no change was counted.
ListsInv ==
  /\ HasLists(gh) /\ HasLists(start.gh)
  /\ \A m \in Walked : Len(Listed(start.gh, m)) <= Len(Listed(gh, m))
  /\ changes \in Nat /\ start.changes \in Nat /\ start.changes <= changes
  /\ start.changes = changes => start.gh = gh

\* Which requests a call of a method may be at.
At(m) ==
  CASE m = "list_prs" -> {"done", "rest", "viewer"}
    [] m = "get_pr" -> {"done", "graphql", "rest"}
    [] m \in Walked -> {"done", "graphql"}
    [] m \in {"get_pending_review", "get_checks"} -> {"done", "single"}

AtInv ==
  /\ method \in Method /\ at \in At(method)
  /\ tokenErr \in {Nil, "gh_missing", "auth"}
  /\ cursor \in Nat /\ pages \in Nat /\ pages < MaxPages /\ odd \in BOOLEAN

\* Where a walk of m stands: it has read the list up to the cursor.
WalkInv ==
  \A m \in Walked : method = m =>
    /\ at = "graphql" =>
         /\ ~odd /\ nodes \in Seq(Elem(m)) /\ Upto(nodes, Listed(gh, m))
         /\ cursor = pages * PageSize /\ Len(nodes) = cursor
    /\ Ended(m) =>
         /\ nodes \in Seq(Elem(m)) /\ Upto(nodes, Listed(gh, m))
         /\ ~odd /\ Fits(Listed(start.gh, m)) => Len(nodes) >= Len(Listed(start.gh, m))

\* Of get_pr: its files are read at the head it pins or later ones, and where nothing
\* changed and nothing misled it both of its lists are of that head.
Full(q, t) == Upto(q, t) /\ (Fits(t) => Len(q) = Len(t))
PRInv ==
  method = "get_pr" =>
    /\ at = "graphql" =>
         /\ seen = {} /\ rest = <<>> /\ nodes \in Seq(STRING) /\ (cursor # 0 => meta \in 1..gh.head)
    /\ at = "graphql" /\ Quiet =>
         /\ Upto(nodes, FilesAt[gh.head]) /\ Len(nodes) = cursor /\ cursor = pages * PageSize
         /\ cursor # 0 => meta = gh.head
    /\ at = "rest" \/ Ended("get_pr") =>
         /\ nodes \in Seq(STRING) /\ rest \in Seq(STRING)
         /\ meta \in 1..gh.head /\ \A v \in seen : v \in Nat /\ v >= meta
    /\ at = "rest" /\ Quiet =>
         /\ meta = gh.head /\ Full(nodes, FilesAt[gh.head])
         /\ Upto(rest, FilesAt[gh.head]) /\ Len(rest) = pages * PageSize
    /\ Ended("get_pr") /\ Quiet =>
         meta = gh.head /\ Full(nodes, FilesAt[gh.head]) /\ Full(rest, FilesAt[gh.head])

ReadsInv == ListsInv /\ AtInv /\ WalkInv /\ PRInv /\ FaultInv

LEMMA AtIs ==
  ASSUME NEW m \in Method
  PROVE  /\ m = "list_prs" => At(m) = {"done", "rest", "viewer"}
         /\ m = "get_pr" => At(m) = {"done", "graphql", "rest"}
         /\ m \in Walked => At(m) = {"done", "graphql"}
         /\ m \in {"get_pending_review", "get_checks"} => At(m) = {"done", "single"}
         /\ "done" \in At(m)
<1>1. m = "list_prs" => At(m) = {"done", "rest", "viewer"}
  BY DEF At, Walked
<1>2. m = "get_pr" => At(m) = {"done", "graphql", "rest"}
  BY DEF At, Walked
<1>3. m \in Walked => At(m) = {"done", "graphql"}
  BY DEF At, Walked
<1>4. m \in {"get_pending_review", "get_checks"} => At(m) = {"done", "single"}
  BY DEF At, Walked
<1> QED
  BY <1>1, <1>2, <1>3, <1>4 DEF Method, Walked

LEMMA FirstRequest ==
  ASSUME NEW m \in Method
  PROVE  Head(Requests(m)) \in At(m) \ {"done"}
<1>1. CASE m = "list_prs"
  <2>1. Requests(m) = <<"rest", "viewer">>
    BY <1>1 DEF Requests
  <2> QED
    BY <1>1, <2>1, AtIs
<1>2. CASE m = "get_pr"
  <2>1. Requests(m) = <<"graphql", "rest">>
    BY <1>2 DEF Requests
  <2> QED
    BY <1>2, <2>1, AtIs
<1>3. CASE m \in Walked
  <2>1. Requests(m) = <<"graphql">>
    BY <1>3 DEF Requests, Walked
  <2> QED
    BY <1>3, <2>1, AtIs
<1>4. CASE m \in {"get_pending_review", "get_checks"}
  <2>1. Requests(m) = <<"single">>
    BY <1>4 DEF Requests
  <2> QED
    BY <1>4, <2>1, AtIs
<1> QED
  BY <1>1, <1>2, <1>3, <1>4 DEF Method, Walked

\* What follows each request.
LEMMA AfterIs ==
  ASSUME method \in Method, NEW r \in At(method) \ {"done"}
  PROVE  /\ method # "list_prs" /\ ~(method = "get_pr" /\ r = "graphql") => After(r) = "done"
         /\ method = "get_pr" /\ r = "graphql" => After(r) = "rest"
         /\ method = "list_prs" => After(r) \in {"done", "viewer"}
<1>1. CASE method = "list_prs"
  <2>1. Requests(method) = <<"rest", "viewer">> /\ r \in {"rest", "viewer"}
    BY <1>1, AtIs DEF Requests
  <2> DEFINE todo == <<"rest", "viewer">>
             i == CHOOSE i \in DOMAIN todo : todo[i] = r
  <2>2. i \in 1..2 /\ todo[i] = r
    <3>1. \E k \in DOMAIN todo : todo[k] = r
      BY <2>1
    <3>2. i \in DOMAIN todo /\ todo[i] = r
      BY <3>1
    <3> QED
      BY <3>2
  <2>3. After(r) = IF i = Len(todo) \/ (todo[i + 1] = "viewer" /\ (arg = "open" \/ viewer # Nil))
                   THEN "done" ELSE todo[i + 1]
    BY <2>1 DEF After
  <2> HIDE DEF i
  <2>4. i = 1 => todo[i + 1] = "viewer"
    OBVIOUS
  <2>5. i = 2 => i = Len(todo)
    OBVIOUS
  <2> QED
    BY <1>1, <2>2, <2>3, <2>4, <2>5
<1>2. CASE method = "get_pr"
  <2>1. Requests(method) = <<"graphql", "rest">> /\ r \in {"graphql", "rest"}
    BY <1>2, AtIs DEF Requests
  <2> DEFINE todo == <<"graphql", "rest">>
             i == CHOOSE i \in DOMAIN todo : todo[i] = r
  <2>2. i \in 1..2 /\ todo[i] = r
    <3>1. \E k \in DOMAIN todo : todo[k] = r
      BY <2>1
    <3>2. i \in DOMAIN todo /\ todo[i] = r
      BY <3>1
    <3> QED
      BY <3>2
  <2>3. After(r) = IF i = Len(todo) \/ (todo[i + 1] = "viewer" /\ (arg = "open" \/ viewer # Nil))
                   THEN "done" ELSE todo[i + 1]
    BY <2>1 DEF After
  <2> HIDE DEF i
  <2>4. i = 1 => todo[i + 1] = "rest" /\ i # Len(todo) /\ r = "graphql"
    BY <2>2
  <2>5. i = 2 => i = Len(todo) /\ r = "rest"
    BY <2>2
  <2> QED
    BY <1>2, <2>2, <2>3, <2>4, <2>5
<1>3. CASE method \notin {"list_prs", "get_pr"}
  <2>1. Requests(method) = <<r>>
    <3>1. CASE method \in Walked
      <4>1. r = "graphql"
        BY <3>1, AtIs
      <4> QED
        BY <3>1, <4>1 DEF Requests, Walked
    <3>2. CASE method \in {"get_pending_review", "get_checks"}
      <4>1. r = "single"
        BY <3>2, AtIs
      <4> QED
        BY <3>2, <4>1 DEF Requests
    <3> QED
      BY <1>3, <3>1, <3>2 DEF Method, Walked
  <2> DEFINE todo == <<r>>
             i == CHOOSE i \in DOMAIN todo : todo[i] = r
  <2>2. i \in 1..1
    <3>1. 1 \in DOMAIN todo /\ todo[1] = r
      OBVIOUS
    <3>2. i \in DOMAIN todo
      BY <3>1
    <3> QED
      BY <3>2
  <2>3. After(r) = IF i = Len(todo) \/ (todo[i + 1] = "viewer" /\ (arg = "open" \/ viewer # Nil))
                   THEN "done" ELSE todo[i + 1]
    BY <2>1 DEF After
  <2>4. i = Len(todo)
    BY <2>2
  <2> QED
    BY <1>3, <2>3, <2>4
<1> QED
  BY <1>1, <1>2, <1>3

LEMMA FilesAtHead ==
  ASSUME NEW g, g.head \in 1..Len(FilesAt)
  PROVE  FilesAt[g.head] \in Seq(STRING) /\ g.head \in Nat
BY ReadsAssumption

LEMMA ListedIs ==
  ASSUME NEW g, HasLists(g), NEW m \in Walked
  PROVE  Listed(g, m) \in Seq(Elem(m)) /\ Len(Listed(g, m)) \in Nat
BY DEF HasLists, Listed, Elem, Walked

\* A page of GetThreads or GetTimeline.
LEMMA WalkPageStep ==
  ASSUME ReadsInv, GraphqlPage, method \in Walked
  PROVE  AtInv' /\ WalkInv' /\ PRInv'
<1> DEFINE m == method
           list == Listed(gh, m)
<1>1. /\ at = "graphql" /\ m \in Method
      /\ UNCHANGED <<gh, tokenErr, viewer, calls, changes, method, arg, start, rest, seen, failed>>
  BY DEF GraphqlPage, same, ReadsInv, AtInv
<1>2. Connection = list
  BY DEF Connection, GetThreadsQuery, GetTimelineQuery, Walked, Listed
<1>3. /\ ~odd /\ nodes \in Seq(Elem(m)) /\ Upto(nodes, list)
      /\ cursor = pages * PageSize /\ Len(nodes) = cursor
      /\ cursor \in Nat /\ pages \in Nat /\ pages < MaxPages
  BY <1>1 DEF ReadsInv, WalkInv, AtInv
<1>4. list \in Seq(Elem(m)) /\ Len(list) \in Nat
  BY ListedIs DEF ReadsInv, ListsInv
<1>5. PICK info \in {PageInfo(list, cursor)} \cup OddInfo(cursor) :
        /\ odd' = (odd \/ info # PageInfo(list, cursor))
        /\ nodes' = nodes \o Page(list, cursor)
        /\ cursor' = IF NextCursor(cursor, info) = Nil \/ pages + 1 = MaxPages THEN 0
                     ELSE NextCursor(cursor, info)
        /\ pages' = IF NextCursor(cursor, info) = Nil \/ pages + 1 = MaxPages THEN 0 ELSE pages + 1
        /\ IF NextCursor(cursor, info) = Nil \/ pages + 1 = MaxPages
           THEN Advance("graphql") ELSE UNCHANGED <<at, result>>
  BY <1>1, <1>2 DEF GraphqlPage
<1>6. /\ NextCursor(cursor, info) # Nil =>
           /\ NextCursor(cursor, info) = cursor + PageSize /\ cursor + PageSize < Len(list)
           /\ info = PageInfo(list, cursor)
      /\ NextCursor(cursor, info) = Nil /\ info = PageInfo(list, cursor)
           => Len(list) <= cursor + PageSize
  BY <1>3, <1>4, <1>5, NextOn
<1>7. /\ nodes' \in Seq(Elem(m)) /\ Upto(nodes', list)
      /\ Len(nodes') = IF cursor + PageSize <= Len(list) THEN cursor + PageSize ELSE Len(list)
  <2>1. nodes' = nodes \o Page(list, Len(nodes))
    BY <1>3, <1>5
  <2> HIDE DEF list
  <2> QED
    BY <1>3, <1>4, <2>1, WalkOn
<1>8. PageSize \in Nat \ {0} /\ MaxPages \in Nat \ {0} /\ (pages + 1) * PageSize = cursor + PageSize
  BY <1>3, PageBounds
<1>9. odd' \in BOOLEAN /\ (~odd' => info = PageInfo(list, cursor))
  BY <1>5
<1>10. PRInv'
  BY <1>1 DEF PRInv, Walked
<1> HIDE DEF list
<1>11. CASE NextCursor(cursor, info) = Nil \/ pages + 1 = MaxPages
  <2>1. cursor' = 0 /\ pages' = 0 /\ Advance("graphql")
    BY <1>5, <1>11
  <2>2. "graphql" \in At(method) \ {"done"}
    BY <1>1, AtIs
  <2>3. After("graphql") = "done"
    BY <1>1, <2>2, AfterIs DEF Walked
  <2>4. at' = "done" /\ result' = Fault("ok", 0)
    BY <2>1, <2>3 DEF Advance
  <2>5. AtInv'
    BY <1>1, <1>8, <1>9, <2>1, <2>4, AtIs DEF ReadsInv, AtInv
  <2>6. ASSUME ~odd', Fits(Listed(start.gh, m))
        PROVE  Len(nodes') >= Len(Listed(start.gh, m))
    <3>1. Len(Listed(start.gh, m)) <= Len(list) /\ Len(Listed(start.gh, m)) \in Nat
      BY ListedIs DEF ReadsInv, ListsInv, list
    <3>2. CASE NextCursor(cursor, info) = Nil
      BY <1>3, <1>4, <1>6, <1>7, <1>8, <1>9, <2>6, <3>1, <3>2
    <3>3. CASE pages + 1 = MaxPages
      <4>1. Len(Listed(start.gh, m)) <= cursor + PageSize
        BY <1>8, <2>6, <3>3 DEF Fits
      <4> QED
        BY <1>3, <1>4, <1>7, <1>8, <3>1, <4>1
    <3> QED
      BY <1>11, <3>2, <3>3
  <2>7. WalkInv'
    BY <1>1, <1>7, <2>4, <2>6 DEF WalkInv, Ended, list
  <2> QED
    BY <1>10, <2>5, <2>7
<1>12. CASE ~(NextCursor(cursor, info) = Nil \/ pages + 1 = MaxPages)
  <2>1. /\ cursor' = cursor + PageSize /\ pages' = pages + 1 /\ UNCHANGED <<at, result>>
        /\ cursor + PageSize < Len(list) /\ info = PageInfo(list, cursor)
    BY <1>5, <1>6, <1>12
  <2>2. ~odd'
    BY <1>3, <1>5, <2>1
  <2>3. pages' \in Nat /\ pages' < MaxPages /\ cursor' \in Nat /\ cursor' = pages' * PageSize
        /\ Len(nodes') = cursor'
    BY <1>3, <1>4, <1>7, <1>8, <1>12, <2>1
  <2>4. AtInv'
    BY <1>1, <1>9, <2>1, <2>3 DEF ReadsInv, AtInv
  <2>5. WalkInv'
    BY <1>1, <1>7, <2>1, <2>2, <2>3 DEF WalkInv, Ended, list
  <2> QED
    BY <1>10, <2>4, <2>5
<1> QED
  BY <1>11, <1>12

\* A page of GetPR's walk.
LEMMA PRPageStep ==
  ASSUME ReadsInv, GraphqlPage, method = "get_pr"
  PROVE  AtInv' /\ WalkInv' /\ PRInv'
<1> DEFINE list == FilesAt[gh.head]
<1>1. /\ at = "graphql"
      /\ UNCHANGED <<gh, tokenErr, viewer, calls, changes, method, arg, start, rest, seen, failed>>
      /\ meta' = IF cursor = 0 THEN gh.head ELSE meta
  BY DEF GraphqlPage, same
<1>2. Connection = list
  BY DEF Connection, GetPRQuery
<1>3. /\ seen = {} /\ rest = <<>> /\ nodes \in Seq(STRING) /\ (cursor # 0 => meta \in 1..gh.head)
      /\ cursor \in Nat /\ pages \in Nat /\ pages < MaxPages
      /\ Quiet => /\ Upto(nodes, list) /\ Len(nodes) = cursor /\ cursor = pages * PageSize
                  /\ cursor # 0 => meta = gh.head
  BY <1>1 DEF ReadsInv, PRInv, AtInv
<1>4. list \in Seq(STRING) /\ Len(list) \in Nat /\ gh.head \in Nat /\ gh.head \in 1..Len(FilesAt)
  BY FilesAtHead DEF ReadsInv, ListsInv, HasLists
<1>5. PICK info \in {PageInfo(list, cursor)} \cup OddInfo(cursor) :
        /\ odd' = (odd \/ info # PageInfo(list, cursor))
        /\ nodes' = nodes \o Page(list, cursor)
        /\ cursor' = IF NextCursor(cursor, info) = Nil \/ pages + 1 = MaxPages THEN 0
                     ELSE NextCursor(cursor, info)
        /\ pages' = IF NextCursor(cursor, info) = Nil \/ pages + 1 = MaxPages THEN 0 ELSE pages + 1
        /\ IF NextCursor(cursor, info) = Nil \/ pages + 1 = MaxPages
           THEN Advance("graphql") ELSE UNCHANGED <<at, result>>
  BY <1>1, <1>2 DEF GraphqlPage
<1>6. /\ NextCursor(cursor, info) # Nil =>
           /\ NextCursor(cursor, info) = cursor + PageSize /\ cursor + PageSize < Len(list)
           /\ info = PageInfo(list, cursor)
      /\ NextCursor(cursor, info) = Nil /\ info = PageInfo(list, cursor)
           => Len(list) <= cursor + PageSize
  BY <1>3, <1>4, <1>5, NextOn
<1>7. nodes' \in Seq(STRING)
  <2>1. Page(list, cursor) \in Seq(STRING)
    BY <1>3, <1>4, PageIs
  <2> QED
    BY <1>3, <1>5, <2>1
<1>8. PageSize \in Nat \ {0} /\ MaxPages \in Nat \ {0} /\ 0 * PageSize = 0
      /\ (pages + 1) * PageSize = pages * PageSize + PageSize
  BY <1>3, PageBounds
<1>9. odd' \in BOOLEAN /\ (Quiet' => Quiet /\ info = PageInfo(list, cursor))
  BY <1>1, <1>5 DEF Quiet, ReadsInv, AtInv
<1>10. Quiet' => /\ Upto(nodes', list)
                 /\ Len(nodes') = IF cursor + PageSize <= Len(list) THEN cursor + PageSize ELSE Len(list)
  <2>1. ASSUME Quiet'
        PROVE  Upto(nodes, list) /\ nodes' = nodes \o Page(list, Len(nodes)) /\ Len(nodes) = cursor
    BY <1>3, <1>5, <1>9, <2>1
  <2>2. list \in Seq(STRING) /\ nodes \in Seq(STRING)
    BY <1>3, <1>4
  <2> HIDE DEF list
  <2>3. Upto(nodes, list) =>
          /\ Upto(nodes \o Page(list, Len(nodes)), list)
          /\ Len(nodes \o Page(list, Len(nodes))) =
               IF Len(nodes) + PageSize <= Len(list) THEN Len(nodes) + PageSize ELSE Len(list)
    BY <2>2, WalkOn
  <2> QED
    BY <2>1, <2>3
<1>11. meta' \in 1..gh'.head /\ (Quiet' => meta' = gh'.head)
  BY <1>1, <1>3, <1>4, <1>9
<1>12. WalkInv'
  BY <1>1 DEF WalkInv, Walked
<1> HIDE DEF list
<1>13. CASE NextCursor(cursor, info) = Nil \/ pages + 1 = MaxPages
  <2>1. cursor' = 0 /\ pages' = 0 /\ Advance("graphql")
    BY <1>5, <1>13
  <2>2. method \in Method /\ "graphql" \in At(method) \ {"done"} /\ "rest" \in At(method)
    BY AtIs DEF Method
  <2>3. After("graphql") = "rest"
    BY <2>2, AfterIs
  <2>4. at' = "rest"
    BY <2>1, <2>3 DEF Advance
  <2>5. AtInv'
    BY <1>1, <1>8, <1>9, <2>1, <2>2, <2>4 DEF ReadsInv, AtInv
  <2>6. ASSUME Quiet'
        PROVE  Full(nodes', list)
    <3>1. ASSUME Fits(list) PROVE Len(nodes') = Len(list)
      <4>1. CASE NextCursor(cursor, info) = Nil
        BY <1>3, <1>4, <1>6, <1>8, <1>9, <1>10, <2>6, <4>1
      <4>2. CASE pages + 1 = MaxPages
        <5>1. Len(list) <= cursor + PageSize
          BY <1>3, <1>8, <1>9, <2>6, <3>1, <4>2 DEF Fits
        <5> QED
          BY <1>3, <1>4, <1>8, <1>10, <2>6, <5>1
      <4> QED
        BY <1>13, <4>1, <4>2
    <3> QED
      BY <1>10, <2>6, <3>1 DEF Full
  <2>7. rest' = <<>> /\ seen' = {} /\ Len(rest') = pages' * PageSize /\ rest' \in Seq(STRING)
        /\ Upto(rest', list)
    BY <1>1, <1>3, <1>4, <1>8, <2>1 DEF Upto
  <2>8. PRInv'
    BY <1>1, <1>7, <1>11, <2>4, <2>6, <2>7 DEF PRInv, Ended, list
  <2> QED
    BY <1>12, <2>5, <2>8
<1>14. CASE ~(NextCursor(cursor, info) = Nil \/ pages + 1 = MaxPages)
  <2>1. /\ cursor' = cursor + PageSize /\ pages' = pages + 1 /\ UNCHANGED <<at, result>>
        /\ cursor + PageSize < Len(list)
    BY <1>5, <1>6, <1>14
  <2>2. pages' \in Nat /\ pages' < MaxPages /\ cursor' \in Nat
    BY <1>3, <1>8, <1>14, <2>1
  <2>3. AtInv'
    BY <1>1, <1>9, <2>1, <2>2 DEF ReadsInv, AtInv
  <2>4. Quiet' => Len(nodes') = cursor' /\ cursor' = pages' * PageSize
    BY <1>3, <1>4, <1>8, <1>9, <1>10, <2>1
  <2>5. PRInv'
    BY <1>1, <1>3, <1>7, <1>10, <1>11, <2>1, <2>4 DEF PRInv, Ended, list
  <2> QED
    BY <1>12, <2>3, <2>5
<1> QED
  BY <1>13, <1>14

\* A page of getPaged, for the files of GetPR.
LEMMA PRFilesStep ==
  ASSUME ReadsInv, RestPage, method = "get_pr"
  PROVE  AtInv' /\ WalkInv' /\ PRInv'
<1> DEFINE list == FilesAt[gh.head]
           n == pages * PageSize
           over == (pages + 1) * PageSize >= Len(list) \/ pages + 1 = MaxPages
<1>1. /\ at = "rest"
      /\ UNCHANGED <<gh, tokenErr, viewer, calls, changes, method, arg, start>>
      /\ UNCHANGED <<cursor, nodes, meta, reviews, odd, failed>>
      /\ rest' = rest \o Page(list, n) /\ seen' = seen \cup {gh.head}
      /\ pages' = IF over THEN 0 ELSE pages + 1
      /\ IF over THEN Advance("rest") ELSE UNCHANGED <<at, result>>
  BY DEF RestPage, same
<1>2. /\ nodes \in Seq(STRING) /\ rest \in Seq(STRING) /\ pages \in Nat /\ pages < MaxPages
      /\ meta \in 1..gh.head /\ \A v \in seen : v \in Nat /\ v >= meta
      /\ Quiet => /\ meta = gh.head /\ Full(nodes, list)
                  /\ Upto(rest, list) /\ Len(rest) = n
  BY <1>1 DEF ReadsInv, PRInv, AtInv
<1>3. list \in Seq(STRING) /\ Len(list) \in Nat /\ gh.head \in Nat
  BY FilesAtHead DEF ReadsInv, ListsInv, HasLists
<1>4. /\ PageSize \in Nat \ {0} /\ MaxPages \in Nat \ {0} /\ n \in Nat
      /\ (pages + 1) * PageSize = n + PageSize
  BY <1>2, PageBounds
<1>5. Quiet' <=> Quiet
  BY <1>1 DEF Quiet
<1>6. rest' \in Seq(STRING)
  <2>1. Page(list, n) \in Seq(STRING)
    BY <1>3, <1>4, PageIs
  <2> HIDE DEF list, n
  <2> QED
    BY <1>1, <1>2, <2>1, ConcatProperties
<1>7. Quiet => /\ Upto(rest', list)
               /\ Len(rest') = IF n + PageSize <= Len(list) THEN n + PageSize ELSE Len(list)
  <2>1. ASSUME Quiet
        PROVE  Upto(rest, list) /\ rest' = rest \o Page(list, Len(rest)) /\ Len(rest) = n
    BY <1>1, <1>2, <2>1
  <2>2. list \in Seq(STRING) /\ rest \in Seq(STRING)
    BY <1>2, <1>3
  <2> HIDE DEF list, n
  <2>3. Upto(rest, list) =>
          /\ Upto(rest \o Page(list, Len(rest)), list)
          /\ Len(rest \o Page(list, Len(rest))) =
               IF Len(rest) + PageSize <= Len(list) THEN Len(rest) + PageSize ELSE Len(list)
    BY <2>2, WalkOn
  <2> QED
    BY <2>1, <2>3
<1>8. meta \in 1..gh'.head /\ \A v \in seen' : v \in Nat /\ v >= meta
  BY <1>1, <1>2, <1>3
<1>9. WalkInv'
  BY <1>1 DEF WalkInv, Walked
<1>10. method \in Method /\ "rest" \in At(method) \ {"done"} /\ "done" \in At(method)
  BY AtIs DEF Method
<1> HIDE DEF list, n
<1>11. CASE over
  <2>1. pages' = 0 /\ Advance("rest")
    BY <1>1, <1>11
  <2>2. After("rest") = "done"
    BY <1>10, AfterIs
  <2>3. at' = "done"
    BY <2>1, <2>2 DEF Advance
  <2>4. AtInv'
    BY <1>1, <1>4, <1>10, <2>1, <2>3 DEF ReadsInv, AtInv
  <2>5. ASSUME Quiet
        PROVE  Full(rest', list)
    <3>1. ASSUME Fits(list) PROVE Len(rest') = Len(list)
      <4>1. Len(list) <= n + PageSize
        BY <1>3, <1>4, <1>11, <3>1 DEF Fits
      <4> QED
        BY <1>3, <1>4, <1>7, <2>5, <4>1
    <3> QED
      BY <1>7, <2>5, <3>1 DEF Full
  <2>6. PRInv'
    BY <1>1, <1>2, <1>5, <1>6, <1>8, <2>3, <2>5 DEF PRInv, Ended, list
  <2> QED
    BY <1>9, <2>4, <2>6
<1>12. CASE ~over
  <2>1. pages' = pages + 1 /\ UNCHANGED <<at, result>>
    BY <1>1, <1>12
  <2>2. pages' \in Nat /\ pages' < MaxPages /\ n + PageSize <= Len(list)
    BY <1>2, <1>3, <1>4, <1>12, <2>1
  <2>3. AtInv'
    BY <1>1, <2>1, <2>2 DEF ReadsInv, AtInv
  <2>4. Quiet => Len(rest') = pages' * PageSize
    BY <1>4, <1>7, <2>1, <2>2
  <2>5. PRInv'
    BY <1>1, <1>2, <1>5, <1>6, <1>7, <1>8, <2>1, <2>4 DEF PRInv, Ended, list
  <2> QED
    BY <1>9, <2>3, <2>5
<1> QED
  BY <1>11, <1>12

\* The other requests: of list_prs, and the single ones.
LEMMA OtherRequestStep ==
  ASSUME ReadsInv, (RestPage /\ method # "get_pr") \/ ViewerLogin \/ SingleQuery
  PROVE  AtInv' /\ WalkInv' /\ PRInv'
<1>1. /\ UNCHANGED <<gh, tokenErr, calls, changes, method, arg, start, odd, failed, cursor>>
      /\ pages' \in Nat /\ pages' < MaxPages
  BY PageBounds DEF RestPage, ViewerLogin, SingleQuery, same, walk, ReadsInv, AtInv
<1>2. /\ method \notin Walked \cup {"get_pr"} /\ method \in Method
      /\ at \in At(method) \ {"done"}
  <2>1. method \in Method /\ at \in At(method) /\ at \in {"rest", "viewer", "single"}
    BY DEF RestPage, ViewerLogin, SingleQuery, ReadsInv, AtInv
  <2>2. at # "rest" \/ method # "get_pr"
    BY DEF RestPage, ViewerLogin, SingleQuery
  <2> QED
    BY <2>1, <2>2, AtIs
<1>3. at' \in At(method)
  <2>1. at' = at \/ at' = "done" \/ at' = After(at)
    BY DEF RestPage, ViewerLogin, SingleQuery, Advance
  <2>2. After(at) \in {"done", "viewer"} /\ (method # "list_prs" => After(at) = "done")
    BY <1>2, AfterIs
  <2> QED
    BY <1>2, <2>1, <2>2, AtIs
<1>4. AtInv'
  BY <1>1, <1>3 DEF ReadsInv, AtInv
<1> QED
  BY <1>1, <1>2, <1>4 DEF WalkInv, PRInv

\* Every request of a call leaves GitHub alone, and the call has not failed.
LEMMA RequestStep ==
  ASSUME ReadsInv, GraphqlPage \/ RestPage \/ ViewerLogin \/ SingleQuery
  PROVE  ReadsInv'
<1>1. UNCHANGED <<gh, changes, start, failed>> /\ at # "done"
  BY DEF GraphqlPage, RestPage, ViewerLogin, SingleQuery, same, walk
<1>2. ListsInv'
  BY <1>1 DEF ReadsInv, ListsInv
<1>3. FaultInv'
  BY <1>1 DEF ReadsInv, FaultInv
<1>4. GraphqlPage => method \in Walked \cup {"get_pr"}
  <2>1. method \in Method /\ at \in At(method)
    BY DEF ReadsInv, AtInv
  <2> QED
    BY <2>1, AtIs DEF GraphqlPage, Method, Walked
<1> QED
  BY <1>2, <1>3, <1>4, WalkPageStep, PRPageStep, PRFilesStep, OtherRequestStep DEF ReadsInv

\* A new call has gathered nothing.
LEMMA CallStep ==
  ASSUME ReadsInv, NEW m \in Method, NEW f, NEW pr, Call(m, f, pr)
  PROVE  ReadsInv'
<1>1. /\ method' = m /\ cursor' = 0 /\ pages' = 0 /\ nodes' = <<>> /\ rest' = <<>>
      /\ seen' = {} /\ start' = [gh |-> gh, changes |-> changes] /\ odd' = FALSE /\ failed' = Nil
      /\ UNCHANGED <<gh, tokenErr, viewer, changes>>
  BY DEF Call
<1>2. /\ at' \in {"done", Head(Requests(m))}
      /\ \/ result' = Fault("bad_request", 0)
         \/ tokenErr # Nil /\ result' = Fault(tokenErr, 0)
         \/ result' = Fault("none", 0)
  BY DEF Call
<1>3. result'.code # "ok"
  BY <1>2, PlainFault DEF ReadsInv, AtInv
<1>4. Head(Requests(m)) \in At(m) /\ "done" \in At(m)
  BY FirstRequest, AtIs
<1>5. ListsInv'
  <2>1. start'.gh = gh /\ start'.changes = changes
    BY <1>1
  <2>2. \A k \in Walked : Len(Listed(gh, k)) \in Nat
    BY ListedIs DEF ReadsInv, ListsInv
  <2> QED
    BY <1>1, <2>1, <2>2 DEF ReadsInv, ListsInv
<1>6. AtInv'
  <2>1. 0 \in Nat /\ 0 < MaxPages
    BY PageBounds
  <2> QED
    BY <1>1, <1>2, <1>4, <2>1 DEF ReadsInv, AtInv
<1>7. \A t, S : t \in Seq(S) => <<>> \in Seq(S) /\ Len(<<>>) = 0 /\ Upto(<<>>, t)
  BY DEF Upto
<1>8. 0 * PageSize = 0
  BY PageBounds
<1>9. WalkInv'
  <2>1. \A k \in Walked : Listed(gh, k) \in Seq(Elem(k))
    BY ListedIs DEF ReadsInv, ListsInv
  <2> QED
    BY <1>1, <1>3, <1>7, <1>8, <2>1 DEF WalkInv, Ended
<1>10. PRInv'
  <2>1. FilesAt[gh.head] \in Seq(STRING)
    BY FilesAtHead DEF ReadsInv, ListsInv, HasLists
  <2>2. m = "get_pr" => at' \in {"done", "graphql"}
    BY <1>2 DEF Requests
  <2> QED
    BY <1>1, <1>3, <1>7, <1>8, <2>1, <2>2 DEF PRInv, Ended
<1>11. FaultInv'
  BY <1>1 DEF FaultInv
<1> QED
  BY <1>5, <1>6, <1>9, <1>10, <1>11 DEF ReadsInv

\* An answer that is no page ends the call.
LEMMA FailStep ==
  ASSUME ReadsInv, Fail
  PROVE  ReadsInv'
<1>1. PICK p \in Trouble :
        /\ result' = IF at \in {"graphql", "single"} THEN Graphql(p) ELSE GetJSON(p)
        /\ result'.code # "ok" /\ failed' = p
  BY DEF Fail
<1>2. /\ at' = "done"
      /\ UNCHANGED <<gh, tokenErr, viewer, calls, changes, method, arg, start, odd>>
      /\ UNCHANGED <<cursor, pages, nodes, rest, meta, reviews, seen>>
  BY DEF Fail, same, walk
<1>3. ListsInv'
  BY <1>2 DEF ReadsInv, ListsInv
<1>4. AtInv'
  BY <1>2, AtIs DEF ReadsInv, AtInv
<1>5. WalkInv' /\ PRInv'
  BY <1>1, <1>2 DEF WalkInv, PRInv, Ended
<1>6. FaultInv'
  BY <1>1, <1>2 DEF FaultInv
<1> QED
  BY <1>3, <1>4, <1>5, <1>6 DEF ReadsInv

LEMMA UptoMore ==
  ASSUME NEW T, NEW t \in Seq(T), NEW u, u = t \/ \E x \in T : u = Append(t, x)
  PROVE  /\ Len(t) <= Len(u)
         /\ \A S : \A q \in Seq(S) : Upto(q, t) => Upto(q, u)
<1>1. Len(t) \in Nat
  OBVIOUS
<1>2. Len(t) <= Len(u) /\ Len(u) \in Nat /\ \A i \in 1..Len(t) : u[i] = t[i]
  <2>1. CASE u = t
    BY <1>1, <2>1
  <2>2. CASE \E x \in T : u = Append(t, x)
    <3>1. PICK x \in T : u = Append(t, x)
      BY <2>2
    <3>2. Len(u) = Len(t) + 1 /\ \A i \in 1..Len(t) : u[i] = t[i]
      BY <3>1, AppendProperties
    <3> QED
      BY <1>1, <3>2
  <2> QED
    BY <2>1, <2>2
<1>3. ASSUME NEW S, NEW q \in Seq(S), Upto(q, t)
      PROVE  Upto(q, u)
  <2>1. Len(q) \in Nat /\ Len(q) <= Len(t) /\ \A i \in 1..Len(q) : q[i] = t[i]
    BY <1>3 DEF Upto
  <2> QED
    BY <1>1, <1>2, <2>1 DEF Upto
<1> QED
  BY <1>2, <1>3

\* Others only append to the lists that are walked, and only push.
LEMMA ChangeGrows ==
  ASSUME ReadsInv, Change
  PROVE  /\ HasLists(gh') /\ changes' = changes + 1 /\ gh'.head >= gh.head
         /\ \A m \in Walked : \A S : \A q \in Seq(S) : Upto(q, Listed(gh, m)) => Upto(q, Listed(gh', m))
         /\ \A m \in Walked : Len(Listed(gh, m)) <= Len(Listed(gh', m))
         /\ UNCHANGED <<tokenErr, viewer, calls, method, arg, at, result, start, odd, failed>>
         /\ UNCHANGED <<cursor, pages, nodes, rest, meta, reviews, seen>>
<1>1. /\ UNCHANGED <<tokenErr, viewer, calls, method, arg, at, result, start, odd, failed>>
      /\ UNCHANGED <<cursor, pages, nodes, rest, meta, reviews, seen>>
      /\ changes' = changes + 1
  BY DEF Change, walk
<1>2. /\ gh.threads \in Seq(ThreadGQL) /\ gh.comments \in Seq(Nat) /\ gh.head \in 1..Len(FilesAt)
      /\ Len(FilesAt) \in Nat
  BY ReadsAssumption DEF ReadsInv, ListsInv, HasLists
<1>3. /\ gh'.head \in 1..Len(FilesAt) /\ gh'.head >= gh.head
      /\ {"head", "threads", "comments", "pulls"} \subseteq DOMAIN gh'
      /\ gh'.threads = gh.threads \/ \E t \in ThreadGQL : gh'.threads = Append(gh.threads, t)
      /\ gh'.comments = gh.comments \/ \E c \in Nat : gh'.comments = Append(gh.comments, c)
  <2>1. \/ gh.head < Len(FilesAt) /\ gh' = [gh EXCEPT !.head = @ + 1]
        \/ \E t \in MoreThreads : gh' = [gh EXCEPT !.threads = Append(@, t)]
        \/ \E c \in MoreComments : gh' = [gh EXCEPT !.comments = Append(@, c)]
        \/ \E i \in DOMAIN gh.pulls : gh' = [gh EXCEPT !.pulls = <<@[i]>> \o RemoveAt(@, i)]
    BY DEF Change
  <2>2. {"head", "threads", "comments", "pulls"} \subseteq DOMAIN gh
    BY DEF ReadsInv, ListsInv, HasLists
  <2>3. MoreThreads \subseteq ThreadGQL /\ MoreComments \subseteq Nat
    BY ReadsAssumption
  <2>4. CASE gh.head < Len(FilesAt) /\ gh' = [gh EXCEPT !.head = @ + 1]
    <3>1. /\ gh'.head = gh.head + 1 /\ gh'.threads = gh.threads /\ gh'.comments = gh.comments
          /\ DOMAIN gh' = DOMAIN gh
      BY <2>2, <2>4
    <3> QED
      BY <1>2, <2>2, <2>4, <3>1
  <2>5. CASE \E t \in MoreThreads : gh' = [gh EXCEPT !.threads = Append(@, t)]
    <3>1. PICK t \in MoreThreads : gh' = [gh EXCEPT !.threads = Append(@, t)]
      BY <2>5
    <3>2. /\ gh'.head = gh.head /\ gh'.threads = Append(gh.threads, t)
          /\ gh'.comments = gh.comments /\ DOMAIN gh' = DOMAIN gh
      BY <2>2, <3>1
    <3> QED
      BY <1>2, <2>2, <2>3, <3>2
  <2>6. CASE \E c \in MoreComments : gh' = [gh EXCEPT !.comments = Append(@, c)]
    <3>1. PICK c \in MoreComments : gh' = [gh EXCEPT !.comments = Append(@, c)]
      BY <2>6
    <3>2. /\ gh'.head = gh.head /\ gh'.threads = gh.threads
          /\ gh'.comments = Append(gh.comments, c) /\ DOMAIN gh' = DOMAIN gh
      BY <2>2, <3>1
    <3> QED
      BY <1>2, <2>2, <2>3, <3>2
  <2>7. CASE \E i \in DOMAIN gh.pulls : gh' = [gh EXCEPT !.pulls = <<@[i]>> \o RemoveAt(@, i)]
    <3>1. PICK i \in DOMAIN gh.pulls : gh' = [gh EXCEPT !.pulls = <<@[i]>> \o RemoveAt(@, i)]
      BY <2>7
    <3>2. /\ gh'.head = gh.head /\ gh'.threads = gh.threads
          /\ gh'.comments = gh.comments /\ DOMAIN gh' = DOMAIN gh
      BY <2>2, <3>1
    <3> QED
      BY <1>2, <2>2, <3>2
  <2> QED
    BY <2>1, <2>4, <2>5, <2>6, <2>7
<1>4. HasLists(gh')
  <2>1. gh'.threads \in Seq(ThreadGQL)
    <3>1. CASE gh'.threads = gh.threads
      BY <1>2, <3>1
    <3>2. CASE \E t \in ThreadGQL : gh'.threads = Append(gh.threads, t)
      <4>1. PICK t \in ThreadGQL : gh'.threads = Append(gh.threads, t)
        BY <3>2
      <4>2. Append(gh.threads, t) \in Seq(ThreadGQL)
        BY <1>2, AppendProperties
      <4> QED
        BY <4>1, <4>2
    <3> QED
      BY <1>3, <3>1, <3>2
  <2>2. gh'.comments \in Seq(Nat)
    <3>1. CASE gh'.comments = gh.comments
      BY <1>2, <3>1
    <3>2. CASE \E c \in Nat : gh'.comments = Append(gh.comments, c)
      <4>1. PICK c \in Nat : gh'.comments = Append(gh.comments, c)
        BY <3>2
      <4>2. Append(gh.comments, c) \in Seq(Nat)
        BY <1>2, AppendProperties
      <4> QED
        BY <4>1, <4>2
    <3> QED
      BY <1>3, <3>1, <3>2
  <2> QED
    BY <1>3, <2>1, <2>2 DEF HasLists
<1>5. ASSUME NEW m \in Walked
      PROVE  /\ Len(Listed(gh, m)) <= Len(Listed(gh', m))
             /\ \A S : \A q \in Seq(S) : Upto(q, Listed(gh, m)) => Upto(q, Listed(gh', m))
  <2>1. Listed(gh, m) \in Seq(Elem(m)) /\ Listed(gh', m) \in Seq(Elem(m))
    BY <1>4, ListedIs DEF ReadsInv, ListsInv
  <2>2. \/ Listed(gh', m) = Listed(gh, m)
        \/ \E x \in Elem(m) : Listed(gh', m) = Append(Listed(gh, m), x)
    BY <1>3 DEF Listed, Elem, Walked
  <2> QED
    BY <2>1, <2>2, UptoMore
<1> QED
  BY <1>1, <1>3, <1>4, <1>5

\* A change takes nothing from a walk, and nothing is quiet after it.
LEMMA ChangeStep ==
  ASSUME ReadsInv, Change
  PROVE  ReadsInv'
<1>1. /\ HasLists(gh') /\ changes' = changes + 1 /\ gh'.head >= gh.head
      /\ \A m \in Walked : \A S : \A q \in Seq(S) : Upto(q, Listed(gh, m)) => Upto(q, Listed(gh', m))
      /\ \A m \in Walked : Len(Listed(gh, m)) <= Len(Listed(gh', m))
      /\ UNCHANGED <<tokenErr, viewer, calls, method, arg, at, result, start, odd, failed>>
      /\ UNCHANGED <<cursor, pages, nodes, rest, meta, reviews, seen>>
  BY ChangeGrows
<1>2. /\ HasLists(gh) /\ HasLists(start.gh)
      /\ changes \in Nat /\ start.changes \in Nat /\ start.changes <= changes
      /\ \A m \in Walked : Len(Listed(start.gh, m)) <= Len(Listed(gh, m))
  BY DEF ReadsInv, ListsInv
<1>3. changes' \in Nat /\ start'.changes <= changes' /\ start'.changes # changes'
  BY <1>1, <1>2
<1>4. ListsInv'
  <2>1. ASSUME NEW m \in Walked
        PROVE  Len(Listed(start.gh, m)) <= Len(Listed(gh', m))
    <3>1. /\ Len(Listed(start.gh, m)) \in Nat /\ Len(Listed(gh, m)) \in Nat
          /\ Len(Listed(gh', m)) \in Nat
      BY <1>1, <1>2, ListedIs
    <3> QED
      BY <1>1, <1>2, <3>1
  <2> QED
    BY <1>1, <1>2, <1>3, <2>1 DEF ListsInv
<1>5. AtInv'
  BY <1>1 DEF ReadsInv, AtInv
<1>6. WalkInv'
  <2>1. ASSUME NEW m \in Walked, method = m
        PROVE  /\ at = "graphql" =>
                    /\ ~odd /\ nodes \in Seq(Elem(m)) /\ Upto(nodes, Listed(gh', m))
                    /\ cursor = pages * PageSize /\ Len(nodes) = cursor
               /\ Ended(m) =>
                    /\ nodes \in Seq(Elem(m)) /\ Upto(nodes, Listed(gh', m))
                    /\ ~odd /\ Fits(Listed(start.gh, m)) => Len(nodes) >= Len(Listed(start.gh, m))
    <3>1. nodes \in Seq(Elem(m)) /\ Upto(nodes, Listed(gh, m)) => Upto(nodes, Listed(gh', m))
      BY <1>1
    <3> QED
      BY <2>1, <3>1 DEF ReadsInv, WalkInv
  <2> QED
    BY <1>1, <2>1 DEF WalkInv, Ended
<1>7. PRInv'
  <2>1. ~Quiet'
    BY <1>3 DEF Quiet
  <2>2. gh.head \in Nat /\ gh'.head \in Nat /\ \A v : v \in 1..gh.head => v \in 1..gh'.head
    BY <1>1, <1>2 DEF HasLists
  <2> QED
    BY <1>1, <2>1, <2>2 DEF ReadsInv, PRInv, Ended
<1>8. FaultInv'
  BY <1>1 DEF ReadsInv, FaultInv
<1> QED
  BY <1>4, <1>5, <1>6, <1>7, <1>8 DEF ReadsInv

LEMMA ReadsStarts == ReadsInit => ReadsInv
<1> SUFFICES ASSUME ReadsInit PROVE ReadsInv
  OBVIOUS
<1>1. /\ gh = GitHub /\ start.gh = GitHub /\ start.changes = 0 /\ changes = 0
      /\ method = "get_pr" /\ at = "done" /\ cursor = 0 /\ pages = 0 /\ odd = FALSE
      /\ failed = Nil /\ result = Fault("none", 0)
  BY DEF ReadsInit
<1>2. HasLists(GitHub)
  <2>1. Len(FilesAt) \in Nat /\ Len(FilesAt) >= 1
    BY ReadsAssumption
  <2> QED
    BY <2>1, ReadsAssumption DEF HasLists, GitHub
<1>3. ListsInv
  <2>1. \A m \in Walked : Len(Listed(GitHub, m)) \in Nat
    BY <1>2, ListedIs
  <2> QED
    BY <1>1, <1>2, <2>1 DEF ListsInv
<1>4. result.code # "ok"
  BY <1>1, PlainFault
<1>5. AtInv
  <2>1. "get_pr" \in Method /\ "done" \in At("get_pr")
    BY AtIs DEF Method
  <2>2. tokenErr \in {Nil, "gh_missing", "auth"}
    BY DEF ReadsInit, ResolveToken
  <2>3. 0 \in Nat /\ 0 < MaxPages
    BY PageBounds
  <2> QED
    BY <1>1, <2>1, <2>2, <2>3 DEF AtInv
<1>6. WalkInv /\ PRInv
  BY <1>1, <1>4 DEF WalkInv, PRInv, Ended, Walked
<1>7. FaultInv
  BY <1>1 DEF FaultInv
<1> QED
  BY <1>3, <1>5, <1>6, <1>7 DEF ReadsInv

LEMMA ReadsStep == ReadsInv /\ [ReadsNext]_readsVars => ReadsInv'
<1> SUFFICES ASSUME ReadsInv, [ReadsNext]_readsVars PROVE ReadsInv'
  OBVIOUS
<1>1. CASE UNCHANGED readsVars
  <2>1. /\ UNCHANGED <<gh, tokenErr, viewer, calls, changes, method, arg, at, result, start>>
        /\ UNCHANGED <<odd, failed, cursor, pages, nodes, rest, meta, reviews, seen>>
    BY <1>1 DEF readsVars, walk
  <2>2. ListsInv' /\ AtInv' /\ FaultInv'
    BY <2>1 DEF ReadsInv, ListsInv, AtInv, FaultInv
  <2>3. WalkInv'
    BY <2>1 DEF ReadsInv, WalkInv, Ended
  <2>4. PRInv'
    BY <2>1 DEF ReadsInv, PRInv, Ended, Quiet
  <2> QED
    BY <2>2, <2>3, <2>4 DEF ReadsInv
<1>2. CASE \E m \in Method, f \in Filter \cup {"", "closed"}, pr \in BOOLEAN : Call(m, f, pr)
  BY <1>2, CallStep
<1>3. CASE GraphqlPage \/ RestPage \/ ViewerLogin \/ SingleQuery
  BY <1>3, RequestStep
<1>4. CASE Fail
  BY <1>4, FailStep
<1>5. CASE Change
  BY <1>5, ChangeStep
<1> QED
  BY <1>1, <1>2, <1>3, <1>4, <1>5 DEF ReadsNext

\* The inductive invariant of PRReads, from which the theorems below follow.
THEOREM ReadsHold == ReadsSpec => []ReadsInv
BY ReadsStarts, ReadsStep, PTL DEF ReadsSpec

LEMMA PrefixOf ==
  ASSUME NEW S, NEW q \in Seq(S), NEW t \in Seq(S), Upto(q, t)
  PROVE  IsPrefix(q, t)
<1> DEFINE n == Len(q)
           a == SubSeq(q, 1, n)
           b == SubSeq(t, 1, n)
<1>1. n \in Nat /\ Len(t) \in Nat /\ n <= Len(t) /\ \A i \in 1..n : q[i] = t[i]
  BY DEF Upto
<1>2. \A i \in 1..n : q[i] \in S /\ t[i] \in S
  BY <1>1
<1>3. /\ a \in Seq(S) /\ Len(a) = n /\ \A i \in 1..n : a[i] = q[i]
      /\ b \in Seq(S) /\ Len(b) = n /\ \A i \in 1..n : b[i] = t[i]
  <2> HIDE DEF n
  <2>1. n = 0 \/ 1 <= n
    BY <1>1
  <2>2. /\ a \in Seq(S) /\ Len(a) = IF 1 <= n THEN n - 1 + 1 ELSE 0
        /\ \A i \in 1..Len(a) : a[i] = q[1 + i - 1]
    BY <1>1, <1>2, SubSeqProperties
  <2>3. /\ b \in Seq(S) /\ Len(b) = IF 1 <= n THEN n - 1 + 1 ELSE 0
        /\ \A i \in 1..Len(b) : b[i] = t[1 + i - 1]
    BY <1>1, <1>2, SubSeqProperties
  <2> QED
    BY <1>1, <2>1, <2>2, <2>3
<1> HIDE DEF a, b
<1>4. a = b
  BY <1>1, <1>3, SeqEqual
<1> QED
  BY <1>1, <1>4 DEF IsPrefix, a, b

\* NothingTwice: a walk that ended has the list up to some point, and unless page info
\* misled it everything that was there when it began.
THEOREM WalksReadOnce == ReadsSpec => []NothingTwice
<1>1. ReadsInv => NothingTwice
  <2> SUFFICES ASSUME ReadsInv, NEW m \in Walked, Ended(m)
               PROVE  /\ IsPrefix(nodes, Listed(gh, m))
                      /\ ~odd /\ Fits(Listed(start.gh, m)) => Len(nodes) >= Len(Listed(start.gh, m))
    BY DEF NothingTwice, Listed, Walked
  <2>1. /\ nodes \in Seq(Elem(m)) /\ Upto(nodes, Listed(gh, m))
        /\ ~odd /\ Fits(Listed(start.gh, m)) => Len(nodes) >= Len(Listed(start.gh, m))
    BY DEF ReadsInv, WalkInv, Ended
  <2>2. Listed(gh, m) \in Seq(Elem(m))
    BY ListedIs DEF ReadsInv, ListsInv
  <2> QED
    BY <2>1, <2>2, PrefixOf
<1> QED
  BY <1>1, ReadsHold, PTL

\* FailureTold: what ends a call is told for what it is.
THEOREM FailuresNamed == ReadsSpec => []FailureTold
<1>1. ReadsInv => FailureTold
  <2> SUFFICES ASSUME ReadsInv, failed # Nil PROVE FailureTold
    BY DEF FailureTold
  <2>1. failed \in Response /\ result \in {Graphql(failed), GetJSON(failed)} /\ result.code # "ok"
    BY ReadsAssumption DEF ReadsInv, FaultInv
  <2>2. ToldOf(failed, result)
    BY <2>1, FaultsTold
  <2> QED
    BY <2>2 DEF FailureTold, ToldOf
<1> QED
  BY <1>1, ReadsHold, PTL

\* What a quiet call owes: of get_pr each file once, in order, at the head it pins and
\* with its own viewed state; of the walks the whole list.  And files are never older
\* than the head they are shown with, quiet or not.
ReadExactly ==
  /\ FilesNotOlderThanHead
  /\ Ended("get_pr") /\ Quiet /\ Fits(FilesAt[gh.head]) =>
       /\ PRDetail.head = gh.head
       /\ Len(PRDetail.files) = Len(FilesAt[gh.head])
       /\ \A i \in DOMAIN PRDetail.files :
            PRDetail.files[i] = [path |-> FilesAt[gh.head][i], viewed |-> Viewed[FilesAt[gh.head][i]]]
  /\ Ended("get_threads") /\ Quiet /\ Fits(gh.threads) => nodes = gh.threads
  /\ Ended("get_timeline") /\ Quiet /\ Fits(gh.comments) => nodes = gh.comments

LEMMA WholeOf ==
  ASSUME NEW S, NEW q \in Seq(S), NEW t \in Seq(S), Upto(q, t), Len(q) = Len(t)
  PROVE  q = t
BY SeqEqual DEF Upto

\* What get_pr and the walks answer, whatever the results are built from.
THEOREM WalksExact == ReadsSpec => []ReadExactly
<1>1. ReadsInv => FilesNotOlderThanHead
  BY DEF ReadsInv, PRInv, FilesNotOlderThanHead, Ended
<1>2. ASSUME ReadsInv, Ended("get_pr"), Quiet, Fits(FilesAt[gh.head])
      PROVE  /\ PRDetail.head = gh.head
             /\ Len(PRDetail.files) = Len(FilesAt[gh.head])
             /\ \A i \in DOMAIN PRDetail.files :
                  PRDetail.files[i] = [path |-> FilesAt[gh.head][i], viewed |-> Viewed[FilesAt[gh.head][i]]]
  <2> DEFINE list == FilesAt[gh.head]
  <2>1. list \in Seq(STRING)
    BY <1>2, FilesAtHead DEF ReadsInv, ListsInv, HasLists
  <2>2. /\ meta = gh.head /\ nodes \in Seq(STRING) /\ rest \in Seq(STRING)
        /\ Full(nodes, list) /\ Full(rest, list)
    BY <1>2 DEF ReadsInv, PRInv, Ended
  <2> HIDE DEF list
  <2>3. nodes = list /\ rest = list
    BY <1>2, <2>1, <2>2, WholeOf DEF Full, list
  <2>4. /\ PRDetail.head = gh.head
        /\ PRDetail.files = [i \in DOMAIN list |-> [path |-> list[i], viewed |-> FileViewed(list[i])]]
    BY <2>2, <2>3 DEF PRDetail
  <2>5. \A i \in DOMAIN list : FileViewed(list[i]) = Viewed[list[i]]
    BY <2>3 DEF FileViewed, ToSet
  <2>6. DOMAIN list = 1..Len(list) /\ Len(list) \in Nat
    BY <2>1
  <2>7. Len(PRDetail.files) = Len(list)
    <3>1. DOMAIN PRDetail.files = 1..Len(list)
      BY <2>4, <2>6
    <3>2. PRDetail.files \in Seq([path : STRING, viewed : {FileViewed(list[i]) : i \in DOMAIN list}])
      BY <2>1, <2>4, <2>6
    <3> QED
      BY <2>6, <3>1, <3>2
  <2> QED
    BY <2>4, <2>5, <2>7 DEF list
<1>3. ASSUME ReadsInv, NEW m \in Walked, Ended(m), Quiet, Fits(Listed(gh, m))
      PROVE  nodes = Listed(gh, m)
  <2>1. start.gh = gh
    BY <1>3 DEF ReadsInv, ListsInv, Quiet
  <2>2. /\ nodes \in Seq(Elem(m)) /\ Upto(nodes, Listed(gh, m))
        /\ Len(nodes) >= Len(Listed(gh, m))
    BY <1>3, <2>1 DEF ReadsInv, WalkInv, Ended, Quiet
  <2>3. Listed(gh, m) \in Seq(Elem(m))
    BY <1>3, ListedIs DEF ReadsInv, ListsInv
  <2>4. Len(nodes) = Len(Listed(gh, m))
    BY <2>2, <2>3 DEF Upto
  <2> QED
    BY <2>2, <2>3, <2>4, WholeOf
<1>4. ReadsInv => ReadExactly
  <2>1. ReadsInv /\ Ended("get_threads") /\ Quiet /\ Fits(gh.threads) => nodes = gh.threads
    BY <1>3 DEF Listed, Walked
  <2>2. ReadsInv /\ Ended("get_timeline") /\ Quiet /\ Fits(gh.comments) => nodes = gh.comments
    BY <1>3 DEF Listed, Walked
  <2> QED
    BY <1>1, <1>2, <2>1, <2>2, Zenon DEF ReadExactly
<1> QED
  BY <1>4, ReadsHold, PTL

-----------------------------------------------------------------------------
(* The results: the loops of ListPRs and GetTimeline, and what they are fed.  *)

\* A set of naturals has a least element.
LEMMA LeastOf ==
  ASSUME NEW T \in SUBSET Nat, T # {}
  PROVE  \E x \in T : \A y \in T : x <= y
<1> DEFINE R == {ss \in Nat \X Nat : ss[1] < ss[2]}
<1>1. IsWellFoundedOn(R, Nat)
  BY NatLessThanWellFounded, Zenon DEF OpToRel
<1>2. \A x, y \in Nat : y < x => <<y, x>> \in R
  OBVIOUS
<1> HIDE DEF R
<1>3. \E x \in T : \A y \in T : ~(<<y, x>> \in R)
  BY <1>1, WFMin
<1>4. \A x, y \in Nat : y < x \/ x <= y
  OBVIOUS
<1> QED
  BY <1>2, <1>3, <1>4, Zenon

\* Induction up to m, over a set of naturals.
LEMMA InductiveTo ==
  ASSUME NEW m \in Nat, NEW T, 0 \in T, \A n \in 0..(m - 1) : n \in T => n + 1 \in T
  PROVE  0..m \subseteq T
<1> SUFFICES ASSUME (0..m) \ T # {} PROVE FALSE
  OBVIOUS
<1>1. PICK x \in (0..m) \ T : \A y \in (0..m) \ T : x <= y
  <2>1. (0..m) \ T \in SUBSET Nat
    OBVIOUS
  <2> QED
    BY <2>1, LeastOf
<1>2. x # 0
  BY <1>1
<1>3. x - 1 \in 0..(m - 1) /\ x - 1 \in 0..m /\ x - 1 + 1 = x /\ ~(x <= x - 1)
  BY <1>1, <1>2
<1>4. x - 1 \in T
  BY <1>1, <1>3
<1> QED
  BY <1>1, <1>3, <1>4

\* One turn of the loop, and what it has after the first n elements.
Turn(list, wanted, n, q) == IF list[n] \in wanted THEN Append(q, list[n]) ELSE q
Collects(list, wanted, n, q) ==
  /\ \A j \in 1..Len(q) : \E k \in 1..n : q[j] = list[k] /\ list[k] \in wanted
  /\ \A k \in 1..n : list[k] \in wanted => \E j \in 1..Len(q) : q[j] = list[k]
  /\ IsInjective(list) => IsInjective(q)

LEMMA TurnCollects ==
  ASSUME NEW S, NEW list \in Seq(S), NEW wanted, NEW n \in 0..(Len(list) - 1),
         NEW q \in Seq(S), Collects(list, wanted, n, q)
  PROVE  /\ Turn(list, wanted, n + 1, q) \in Seq(S)
         /\ Collects(list, wanted, n + 1, Turn(list, wanted, n + 1, q))
<1> DEFINE x == list[n + 1]
<1>1. n \in Nat /\ n + 1 \in 1..Len(list) /\ x \in S /\ Len(list) \in Nat
  OBVIOUS
<1>2. \A k \in 1..(n + 1) : k = n + 1 \/ k \in 1..n
  BY <1>1
<1>3. \A k \in 1..n : k \in 1..(n + 1) /\ k \in 1..Len(list) /\ k # n + 1
  BY <1>1
<1>4. n + 1 \in 1..(n + 1)
  BY <1>1
<1>5. /\ \A j \in 1..Len(q) : \E k \in 1..n : q[j] = list[k] /\ list[k] \in wanted
      /\ \A k \in 1..n : list[k] \in wanted => \E j \in 1..Len(q) : q[j] = list[k]
      /\ IsInjective(list) => IsInjective(q)
  BY DEF Collects
<1>6. CASE x \notin wanted
  <2>1. Turn(list, wanted, n + 1, q) = q
    BY <1>6 DEF Turn
  <2>2. \A j \in 1..Len(q) : \E k \in 1..(n + 1) : q[j] = list[k] /\ list[k] \in wanted
    BY <1>3, <1>5
  <2>3. \A k \in 1..(n + 1) : list[k] \in wanted => \E j \in 1..Len(q) : q[j] = list[k]
    BY <1>2, <1>5, <1>6
  <2> QED
    BY <1>5, <2>1, <2>2, <2>3 DEF Collects
<1>7. CASE x \in wanted
  <2> DEFINE r == Append(q, x)
  <2>1. Turn(list, wanted, n + 1, q) = r
    BY <1>7 DEF Turn
  <2>2. /\ r \in Seq(S) /\ Len(r) = Len(q) + 1 /\ r[Len(q) + 1] = x /\ Len(q) \in Nat
        /\ \A j \in 1..Len(q) : r[j] = q[j]
    <3> HIDE DEF x
    <3> QED
      BY <1>1, AppendProperties
  <2> HIDE DEF r
  <2>3. \A j \in 1..Len(r) : j = Len(q) + 1 \/ j \in 1..Len(q)
    BY <2>2
  <2>4. Len(q) + 1 \in 1..Len(r) /\ \A j \in 1..Len(q) : j \in 1..Len(r)
    BY <2>2
  <2>5. \A j \in 1..Len(r) : \E k \in 1..(n + 1) : r[j] = list[k] /\ list[k] \in wanted
    <3>1. \A j \in 1..Len(q) : \E k \in 1..(n + 1) : q[j] = list[k] /\ list[k] \in wanted
      BY <1>3, <1>5
    <3>2. \E k \in 1..(n + 1) : x = list[k] /\ list[k] \in wanted
      BY <1>4, <1>7
    <3>3. r[Len(q) + 1] = x /\ \A j \in 1..Len(q) : r[j] = q[j]
      BY <2>2
    <3> HIDE DEF x
    <3>4. ASSUME NEW j \in 1..Len(r)
          PROVE  \E k \in 1..(n + 1) : r[j] = list[k] /\ list[k] \in wanted
      <4>1. CASE j = Len(q) + 1
        BY <3>2, <3>3, <4>1
      <4>2. CASE j \in 1..Len(q)
        BY <3>1, <3>3, <4>2
      <4> QED
        BY <2>3, <3>4, <4>1, <4>2
    <3> QED
      BY <3>4
  <2>6. \A k \in 1..(n + 1) : list[k] \in wanted => \E j \in 1..Len(r) : r[j] = list[k]
    BY <1>2, <1>5, <2>2, <2>4
  <2>7. ASSUME IsInjective(list) PROVE IsInjective(r)
    <3>1. \A k \in 1..n : list[k] # x
      <4>1. DOMAIN list = 1..Len(list)
        OBVIOUS
      <4> QED
        BY <1>1, <1>3, <2>7, <4>1 DEF IsInjective
    <3>2. \A j \in 1..Len(q) : r[j] # x
      BY <1>5, <2>2, <3>1
    <3>3. \A i, j \in 1..Len(q) : r[i] = r[j] => i = j
      <4>1. DOMAIN q = 1..Len(q)
        OBVIOUS
      <4> QED
        BY <1>5, <2>2, <2>7, <4>1 DEF IsInjective
    <3>4. DOMAIN r = 1..Len(r)
      BY <2>2
    <3>5. \A i, j \in 1..Len(r) : r[i] = r[j] => i = j
      BY <2>2, <2>3, <3>2, <3>3
    <3> QED
      BY <3>4, <3>5 DEF IsInjective
  <2>8. Collects(list, wanted, n + 1, r)
    <3> HIDE DEF x
    <3> QED
      BY <2>5, <2>6, <2>7 DEF Collects
  <2> QED
    BY <2>1, <2>2, <2>8
<1> QED
  BY <1>6, <1>7

\* h is the loop's list, turn by turn.
Turns(S, list, wanted, n, h) ==
  /\ h \in [0..n -> Seq(S)] /\ h[0] = <<>>
  /\ \A k \in 1..n : h[k] = Turn(list, wanted, k, h[k - 1])

\* What a loop that appends what it keeps comes to.
LEMMA KeptIs ==
  ASSUME NEW S, NEW list \in Seq(S), NEW wanted
  PROVE  /\ Kept(list, wanted) \in Seq(S)
         /\ Collects(list, wanted, Len(list), Kept(list, wanted))
<1> DEFINE m == Len(list)
           T == {n \in Nat : \E h : Turns(S, list, wanted, n, h)}
           Loop(f) == [n \in 0..m |-> IF n = 0 THEN <<>> ELSE Turn(list, wanted, n, f[n - 1])]
           c == CHOOSE f : f = Loop(f)
<1>1. m \in Nat /\ m \in 0..m
  OBVIOUS
<1>2. 0 \in T
  <2> DEFINE z == [k \in 0..0 |-> <<>>]
  <2>1. z \in [0..0 -> Seq(S)] /\ z[0] = <<>> /\ 1..0 = {}
    OBVIOUS
  <2> HIDE DEF z
  <2>2. Turns(S, list, wanted, 0, z)
    BY <2>1 DEF Turns
  <2> QED
    BY <2>2
<1>3. ASSUME NEW n \in 0..(m - 1), n \in T PROVE n + 1 \in T
  <2>1. PICK h : Turns(S, list, wanted, n, h)
    BY <1>3
  <2>2. /\ h \in [0..n -> Seq(S)] /\ h[0] = <<>>
        /\ \A k \in 1..n : h[k] = Turn(list, wanted, k, h[k - 1])
    BY <2>1 DEF Turns
  <2>3. n \in Nat /\ n + 1 \in 1..Len(list) /\ n \in 0..n /\ n + 1 # 0
    BY <1>1
  <2> DEFINE a == Turn(list, wanted, n + 1, h[n])
             j == [k \in 0..(n + 1) |-> IF k = n + 1 THEN a ELSE h[k]]
  <2>4. a \in Seq(S)
    <3>1. h[n] \in Seq(S) /\ list[n + 1] \in S
      BY <2>2, <2>3
    <3>2. Append(h[n], list[n + 1]) \in Seq(S)
      BY <3>1, AppendProperties
    <3> QED
      BY <3>1, <3>2 DEF Turn
  <2>5. a = Turn(list, wanted, n + 1, h[n])
    OBVIOUS
  <2> HIDE DEF a
  <2>6. \A k \in 0..(n + 1) : k = n + 1 \/ (k # n + 1 /\ k \in 0..n)
    BY <2>3
  <2>7. j \in [0..(n + 1) -> Seq(S)] /\ j[0] = <<>>
    BY <2>2, <2>3, <2>4, <2>6
  <2>8. j[n + 1] = a /\ \A k \in 0..n : j[k] = h[k]
    BY <2>3
  <2> HIDE DEF j
  <2>9. ASSUME NEW k \in 1..(n + 1) PROVE j[k] = Turn(list, wanted, k, j[k - 1])
    <3>1. CASE k = n + 1
      <4>1. k - 1 = n
        BY <2>3, <3>1
      <4> QED
        BY <2>3, <2>5, <2>8, <3>1, <4>1
    <3>2. CASE k # n + 1
      <4>1. k \in 1..n /\ k \in 0..n /\ k - 1 \in 0..n
        BY <2>3, <3>2
      <4> QED
        BY <2>2, <2>8, <4>1
    <3> QED
      BY <3>1, <3>2
  <2>10. Turns(S, list, wanted, n + 1, j)
    BY <2>7, <2>9 DEF Turns
  <2> QED
    BY <2>3, <2>10
<1>4. m \in T
  <2> HIDE DEF T, m
  <2>1. 0..m \subseteq T
    BY <1>1, <1>2, <1>3, InductiveTo
  <2> QED
    BY <1>1, <2>1
<1>5. PICK h : Turns(S, list, wanted, m, h)
  BY <1>4
<1> HIDE DEF T
<1>6. Kept(list, wanted) = c[m]
  BY DEF Kept, Turn
<1> HIDE DEF c
<1>7. h = Loop(h)
  <2>1. /\ h \in [0..m -> Seq(S)] /\ h[0] = <<>>
        /\ \A k \in 1..m : h[k] = Turn(list, wanted, k, h[k - 1])
    BY <1>5 DEF Turns
  <2>2. \A k \in 0..m : k = 0 \/ (k # 0 /\ k \in 1..m)
    BY <1>1
  <2>3. ASSUME NEW k \in 0..m PROVE h[k] = IF k = 0 THEN <<>> ELSE Turn(list, wanted, k, h[k - 1])
    BY <2>1, <2>2
  <2>4. h = [k \in 0..m |-> h[k]]
    BY <2>1
  <2> QED
    BY <2>3, <2>4
<1> HIDE DEF Loop
<1>8. c = Loop(c)
  BY <1>7, Zenon DEF c
<1>9. c[0] = <<>> /\ \A k \in 1..m : c[k] = Turn(list, wanted, k, c[k - 1])
  <2>1. \A k \in 0..m : c[k] = IF k = 0 THEN <<>> ELSE Turn(list, wanted, k, c[k - 1])
    BY <1>8 DEF Loop
  <2>2. 0 \in 0..m /\ \A k \in 1..m : k \in 0..m /\ k # 0
    BY <1>1
  <2> QED
    BY <2>1, <2>2
<1> DEFINE K == {k \in 0..m : c[k] \in Seq(S) /\ Collects(list, wanted, k, c[k])}
<1>10. 0 \in K
  <2>1. <<>> \in Seq(S) /\ Len(<<>>) = 0 /\ 1..0 = {} /\ DOMAIN <<>> = {}
    OBVIOUS
  <2>2. Collects(list, wanted, 0, <<>>)
    BY <2>1 DEF Collects, IsInjective
  <2>3. 0 \in 0..m
    BY <1>1
  <2> QED
    BY <1>9, <2>1, <2>2, <2>3
<1>11. ASSUME NEW k \in 0..(m - 1), k \in K PROVE k + 1 \in K
  <2>1. k + 1 \in 0..m /\ k + 1 \in 1..m /\ k + 1 - 1 = k /\ k \in 0..(Len(list) - 1)
    BY <1>1
  <2>2. c[k] \in Seq(S) /\ Collects(list, wanted, k, c[k])
    BY <1>11
  <2>3. c[k + 1] = Turn(list, wanted, k + 1, c[k])
    BY <1>9, <2>1
  <2>4. c[k + 1] \in Seq(S) /\ Collects(list, wanted, k + 1, c[k + 1])
    BY <2>1, <2>2, <2>3, TurnCollects
  <2> QED
    BY <2>1, <2>4
<1>12. m \in K
  <2> HIDE DEF K, m
  <2>1. 0..m \subseteq K
    BY <1>1, <1>10, <1>11, InductiveTo
  <2> QED
    BY <1>1, <2>1
<1> QED
  BY <1>6, <1>12

\* The paths GraphQL has a viewed state for.
Known == {p \in STRING : Viewed[p] \in ViewedState}

\* What a call has gathered: of list_prs the list up to its page where nothing changed, all
\* of it once the pages are over, and the login where a filter needs it; of get_timeline the
\* verdicts of the first page.
GatheredInv ==
  /\ gh.pulls \in Seq(PullDTO) /\ viewer \in {Nil, Login} /\ result.hint \in Int
  /\ method = "get_pr" => rest \in Seq(Known)
  /\ method = "get_threads" => nodes \in Seq(ThreadGQL)
  /\ method = "get_timeline" /\ (cursor # 0 \/ Ended("get_timeline")) => reviews = Verdicts
  /\ method = "list_prs" =>
       /\ at # "done" \/ Ended("list_prs") => arg \in Filter /\ rest \in Seq(PullDTO)
       /\ at = "rest" /\ Quiet => Upto(rest, gh.pulls) /\ Len(rest) = pages * PageSize
       /\ (at = "viewer" \/ Ended("list_prs")) /\ Quiet => Full(rest, gh.pulls)
       /\ Ended("list_prs") => arg = "open" \/ viewer = Login

LEMMA KnownFiles ==
  ASSUME NEW v \in 1..Len(FilesAt)
  PROVE  FilesAt[v] \in Seq(Known)
<1> DEFINE list == FilesAt[v]
<1>1. list \in Seq(STRING) /\ v \in DOMAIN FilesAt
  BY ReadsAssumption
<1>2. \A i \in DOMAIN list : Viewed[list[i]] \in ViewedState
  BY <1>1, ReadsAssumption
<1> HIDE DEF list
<1>3. \A i \in 1..Len(list) : list[i] \in Known
  BY <1>1, <1>2 DEF Known
<1>4. Len(list) \in Nat /\ list = [i \in 1..Len(list) |-> list[i]]
  BY <1>1
<1> QED
  BY <1>3, <1>4 DEF list

LEMMA AdvanceHint ==
  ASSUME NEW r, result.hint \in Int, Advance(r) \/ UNCHANGED result
  PROVE  result'.hint \in Int
BY PlainFault DEF Advance

LEMMA PageJoins ==
  ASSUME NEW S, NEW list \in Seq(S), NEW q \in Seq(S), NEW from \in Nat
  PROVE  q \o Page(list, from) \in Seq(S)
<1>1. Page(list, from) \in Seq(S)
  BY PageIs
<1> QED
  BY <1>1, ConcatProperties

\* A page of a walk adds to its list, and the first one brings the verdicts.
LEMMA GatheredWalk ==
  ASSUME ReadsInv, GatheredInv, GraphqlPage
  PROVE  GatheredInv'
<1>1. /\ at = "graphql" /\ cursor \in Nat /\ nodes' = nodes \o Page(Connection, cursor)
      /\ reviews' = CollectReviews
      /\ UNCHANGED <<gh, viewer, changes, method, arg, start, rest>>
      /\ Advance("graphql") \/ UNCHANGED result
  BY DEF GraphqlPage, same, ReadsInv, AtInv
<1>2. method \in {"get_pr", "get_threads", "get_timeline"}
  <2>1. method \in Method /\ at \in At(method)
    BY DEF ReadsInv, AtInv
  <2> QED
    BY <1>1, <2>1, AtIs DEF Method, Walked
<1>3. result'.hint \in Int
  BY <1>1, AdvanceHint DEF GatheredInv
<1>4. gh.threads \in Seq(ThreadGQL)
  BY DEF ReadsInv, ListsInv, HasLists
<1>5. method = "get_threads" => nodes' \in Seq(ThreadGQL)
  <2> SUFFICES ASSUME method = "get_threads" PROVE nodes' \in Seq(ThreadGQL)
    OBVIOUS
  <2>1. Connection \in Seq(ThreadGQL)
    BY <1>4 DEF Connection, GetThreadsQuery
  <2>2. nodes \in Seq(ThreadGQL)
    BY DEF GatheredInv
  <2> QED
    BY <1>1, <2>1, <2>2, PageJoins
<1>6. method = "get_timeline" => reviews' = Verdicts
  BY <1>1 DEF CollectReviews, GatheredInv
<1> QED
  BY <1>1, <1>2, <1>3, <1>5, <1>6 DEF GatheredInv

\* A page of ListPRs; after the last one the login is asked for where it is needed.
LEMMA ListPage ==
  ASSUME ReadsInv, GatheredInv, RestPage, method = "list_prs"
  PROVE  GatheredInv'
<1> DEFINE list == gh.pulls
           n == pages * PageSize
           over == (pages + 1) * PageSize >= Len(list) \/ pages + 1 = MaxPages
<1>1. /\ at = "rest" /\ method = "list_prs"
      /\ UNCHANGED <<gh, viewer, changes, method, arg, start, odd>>
      /\ rest' = rest \o Page(list, n)
      /\ pages' = IF over THEN 0 ELSE pages + 1
      /\ IF over THEN Advance("rest") ELSE UNCHANGED <<at, result>>
  BY DEF RestPage, same
<1>2. /\ list \in Seq(PullDTO) /\ Len(list) \in Nat /\ viewer \in {Nil, Login}
      /\ rest \in Seq(PullDTO) /\ arg \in Filter
      /\ Quiet => Upto(rest, list) /\ Len(rest) = n
  BY <1>1 DEF GatheredInv
<1>3. pages \in Nat /\ pages < MaxPages
  BY DEF ReadsInv, AtInv
<1>4. /\ PageSize \in Nat \ {0} /\ MaxPages \in Nat \ {0} /\ n \in Nat
      /\ (pages + 1) * PageSize = n + PageSize
  BY <1>3, PageBounds
<1>5. Quiet' <=> Quiet
  BY <1>1 DEF Quiet
<1> HIDE DEF list, n
<1>6. rest' \in Seq(PullDTO)
  BY <1>1, <1>2, <1>4, PageJoins
<1>7. Quiet => /\ Upto(rest', list)
               /\ Len(rest') = IF n + PageSize <= Len(list) THEN n + PageSize ELSE Len(list)
  <2>1. ASSUME Quiet
        PROVE  Upto(rest, list) /\ rest' = rest \o Page(list, Len(rest)) /\ Len(rest) = n
    BY <1>1, <1>2, <2>1
  <2>2. Upto(rest, list) =>
          /\ Upto(rest \o Page(list, Len(rest)), list)
          /\ Len(rest \o Page(list, Len(rest))) =
               IF Len(rest) + PageSize <= Len(list) THEN Len(rest) + PageSize ELSE Len(list)
    BY <1>2, WalkOn
  <2> QED
    BY <2>1, <2>2
<1>8. result'.hint \in Int
  BY <1>1, AdvanceHint DEF GatheredInv
<1>9. CASE over
  <2>1. pages' = 0 /\ at' = After("rest")
    BY <1>1, <1>9 DEF Advance
  <2>2. After("rest") \in {"done", "viewer"} /\ (After("rest") = "done" => arg = "open" \/ viewer # Nil)
    <3>1. Requests(method) = <<"rest", "viewer">>
      BY <1>1 DEF Requests
    <3> DEFINE todo == <<"rest", "viewer">>
               i == CHOOSE i \in DOMAIN todo : todo[i] = "rest"
    <3>2. i = 1
      <4>1. \E k \in DOMAIN todo : todo[k] = "rest"
        OBVIOUS
      <4>2. i \in DOMAIN todo /\ todo[i] = "rest"
        BY <4>1
      <4> QED
        BY <4>2
    <3>3. After("rest") = IF i = Len(todo) \/ (todo[i + 1] = "viewer" /\ (arg = "open" \/ viewer # Nil))
                          THEN "done" ELSE todo[i + 1]
      BY <3>1 DEF After
    <3> HIDE DEF i
    <3>4. i # Len(todo) /\ todo[i + 1] = "viewer"
      BY <3>2
    <3> QED
      BY <3>3, <3>4
  <2>3. ASSUME Quiet PROVE Full(rest', list)
    <3>1. ASSUME Fits(list) PROVE Len(rest') = Len(list)
      <4>1. Len(list) <= n + PageSize
        BY <1>2, <1>4, <1>9, <3>1 DEF Fits
      <4> QED
        BY <1>2, <1>4, <1>7, <2>3, <4>1
    <3> QED
      BY <1>7, <2>3, <3>1 DEF Full
  <2>4. at' \in {"done", "viewer"} /\ (at' = "done" => arg = "open" \/ viewer = Login)
    BY <1>2, <2>1, <2>2
  <2> QED
    BY <1>1, <1>2, <1>5, <1>6, <1>8, <2>3, <2>4 DEF GatheredInv, Ended, list
<1>10. CASE ~over
  <2>1. pages' = pages + 1 /\ UNCHANGED <<at, result>>
    BY <1>1, <1>10
  <2>2. n + PageSize <= Len(list)
    BY <1>2, <1>4, <1>10
  <2>3. Quiet => Len(rest') = pages' * PageSize
    BY <1>4, <1>7, <2>1, <2>2
  <2> QED
    BY <1>1, <1>2, <1>5, <1>6, <1>7, <1>8, <2>1, <2>3 DEF GatheredInv, Ended, list
<1> QED
  BY <1>9, <1>10

\* A page of getPaged, of either method.
LEMMA GatheredRest ==
  ASSUME ReadsInv, GatheredInv, RestPage
  PROVE  GatheredInv'
<1>1. CASE method = "list_prs"
  BY <1>1, ListPage
<1>2. CASE method # "list_prs"
  <2>1. method = "get_pr"
    <3>1. method \in Method /\ at \in At(method) /\ at = "rest"
      BY DEF ReadsInv, AtInv, RestPage
    <3> QED
      BY <1>2, <3>1, AtIs DEF Method, Walked
  <2>2. /\ rest' = rest \o Page(FilesAt[gh.head], pages * PageSize)
        /\ UNCHANGED <<gh, viewer, method, nodes>>
        /\ Advance("rest") \/ UNCHANGED result
    BY <2>1 DEF RestPage, same
  <2>3. FilesAt[gh.head] \in Seq(Known) /\ pages * PageSize \in Nat
    BY KnownFiles, PageBounds DEF ReadsInv, ListsInv, HasLists, AtInv
  <2>4. rest' \in Seq(Known)
    <3>1. rest \in Seq(Known)
      BY <2>1 DEF GatheredInv
    <3> QED
      BY <2>2, <2>3, <3>1, PageJoins
  <2>5. result'.hint \in Int
    BY <2>2, AdvanceHint DEF GatheredInv
  <2> QED
    BY <2>1, <2>2, <2>4, <2>5 DEF GatheredInv
<1> QED
  BY <1>1, <1>2

\* viewerLogin, and the methods of one query.
LEMMA GatheredOther ==
  ASSUME ReadsInv, GatheredInv, ViewerLogin \/ SingleQuery
  PROVE  GatheredInv'
<1>1. method \in Method /\ at \in At(method)
  BY DEF ReadsInv, AtInv
<1>2. CASE ViewerLogin
  <2>1. method = "list_prs" /\ at = "viewer"
    BY <1>1, <1>2, AtIs DEF Method, Walked, ViewerLogin
  <2>2. UNCHANGED <<gh, changes, method, arg, start, rest, odd>>
    BY <1>2 DEF ViewerLogin, walk
  <2>3. Quiet' <=> Quiet
    BY <2>2 DEF Quiet
  <2>4. arg \in Filter /\ rest \in Seq(PullDTO) /\ (Quiet => Full(rest, gh.pulls))
    BY <2>1 DEF GatheredInv
  <2>5. CASE viewer' = Login /\ Advance("viewer")
    <3>1. After("viewer") \in {"done", "viewer"}
      BY <1>1, <2>1, AtIs, AfterIs
    <3>2. result'.hint \in Int
      BY <2>5, AdvanceHint DEF GatheredInv
    <3>3. at' \in {"done", "viewer"}
      BY <2>5, <3>1 DEF Advance
    <3> QED
      BY <2>1, <2>2, <2>3, <2>4, <2>5, <3>2, <3>3 DEF GatheredInv
  <2>6. CASE at' = "done" /\ result' = Fault("auth", 0) /\ UNCHANGED viewer
    <3>1. result'.code = "auth" /\ result'.hint = 0
      BY <2>6, PlainFault
    <3> QED
      BY <2>1, <2>2, <2>6, <3>1 DEF GatheredInv, Ended
  <2> QED
    BY <1>2, <2>5, <2>6 DEF ViewerLogin
<1>3. CASE SingleQuery
  <2>1. method \in {"get_pending_review", "get_checks"}
    BY <1>1, <1>3, AtIs DEF Method, Walked, SingleQuery
  <2>2. UNCHANGED <<gh, viewer, method>> /\ Advance("single")
    BY <1>3 DEF SingleQuery, same
  <2>3. result'.hint \in Int
    BY <2>2, AdvanceHint DEF GatheredInv
  <2> QED
    BY <2>1, <2>2, <2>3 DEF GatheredInv
<1> QED
  BY <1>2, <1>3

\* A new call has gathered nothing, and a filter ListPRs does not know sends nothing.
LEMMA GatheredCall ==
  ASSUME ReadsInv, GatheredInv, NEW m \in Method, NEW f, NEW pr, Call(m, f, pr)
  PROVE  GatheredInv'
<1> DEFINE filter == IF f = "" THEN "open" ELSE f
<1>1. /\ method' = m /\ cursor' = 0 /\ pages' = 0 /\ nodes' = <<>> /\ rest' = <<>>
      /\ arg' = filter /\ UNCHANGED <<gh, viewer>>
  BY DEF Call
<1>2. /\ \/ result' = Fault("bad_request", 0)
         \/ tokenErr # Nil /\ result' = Fault(tokenErr, 0)
         \/ result' = Fault("none", 0)
      /\ at' \in {"done", Head(Requests(m))}
      /\ m = "list_prs" /\ filter \notin Filter => at' = "done"
  BY DEF Call
<1>3. result'.code # "ok" /\ result'.hint = 0
  BY <1>2, PlainFault DEF ReadsInv, AtInv
<1>4. m = "list_prs" => at' \in {"done", "rest"}
  <2>1. m = "list_prs" => Requests(m) = <<"rest", "viewer">>
    BY DEF Requests
  <2>2. Head(<<"rest", "viewer">>) = "rest"
    OBVIOUS
  <2> QED
    BY <1>2, <2>1, <2>2
<1>5. \A S : <<>> \in Seq(S)
  OBVIOUS
<1>6. Upto(<<>>, gh.pulls) /\ Len(<<>>) = 0 /\ 0 * PageSize = 0
  <2>1. Len(gh.pulls) \in Nat /\ Len(<<>>) = 0 /\ 1..0 = {}
    BY DEF GatheredInv
  <2> QED
    BY <2>1, PageBounds DEF Upto
<1> HIDE DEF filter
<1> QED
  BY <1>1, <1>2, <1>3, <1>4, <1>5, <1>6 DEF GatheredInv, Ended

LEMMA GatheredFail ==
  ASSUME ReadsInv, GatheredInv, Fail
  PROVE  GatheredInv'
<1>1. PICK p \in Trouble :
        /\ result' = IF at \in {"graphql", "single"} THEN Graphql(p) ELSE GetJSON(p)
        /\ result'.code # "ok"
  BY DEF Fail
<1>2. /\ at' = "done"
      /\ UNCHANGED <<gh, viewer, method, cursor, nodes, rest, reviews>>
  BY DEF Fail, same, walk
<1>3. ToldOf(p, result')
  BY <1>1, FaultsTold, ReadsAssumption
<1>4. result'.hint \in Int
  BY <1>3 DEF ToldOf
<1> QED
  BY <1>1, <1>2, <1>4 DEF GatheredInv, Ended

\* A pull request that moves to the front is still one of the list.
LEMMA FrontType ==
  ASSUME NEW S, NEW list \in Seq(S), NEW i \in DOMAIN list
  PROVE  <<list[i]>> \o RemoveAt(list, i) \in Seq(S)
<1> DEFINE a == SubSeq(list, 1, i - 1)
           b == SubSeq(list, i + 1, Len(list))
<1>1. Len(list) \in Nat /\ i \in 1..Len(list) /\ list[i] \in S
  OBVIOUS
<1>2. a \in Seq(S)
  <2>1. \A k \in 1..(i - 1) : list[k] \in S
    BY <1>1
  <2> QED
    BY <1>1, <2>1, SubSeqProperties
<1>3. b \in Seq(S)
  <2>1. \A k \in (i + 1)..Len(list) : list[k] \in S
    BY <1>1
  <2> QED
    BY <1>1, <2>1, SubSeqProperties
<1>4. RemoveAt(list, i) = a \o b
  BY DEF RemoveAt
<1> HIDE DEF a, b
<1>5. a \o b \in Seq(S) /\ <<list[i]>> \in Seq(S)
  BY <1>1, <1>2, <1>3, ConcatProperties
<1>6. <<list[i]>> \o (a \o b) \in Seq(S)
  BY <1>5, ConcatProperties
<1> QED
  BY <1>4, <1>6

LEMMA GatheredChange ==
  ASSUME ReadsInv, GatheredInv, Change
  PROVE  GatheredInv'
<1>1. /\ UNCHANGED <<viewer, method, arg, at, result, start, odd>>
      /\ UNCHANGED <<cursor, pages, nodes, rest, reviews>> /\ changes' = changes + 1
  BY DEF Change, walk
<1>2. ~Quiet'
  BY <1>1 DEF Quiet, ReadsInv, ListsInv
<1>3. gh'.pulls \in Seq(PullDTO)
  <2>1. \/ gh' = [gh EXCEPT !.head = @ + 1]
        \/ \E t \in MoreThreads : gh' = [gh EXCEPT !.threads = Append(@, t)]
        \/ \E c \in MoreComments : gh' = [gh EXCEPT !.comments = Append(@, c)]
        \/ \E i \in DOMAIN gh.pulls : gh' = [gh EXCEPT !.pulls = <<@[i]>> \o RemoveAt(@, i)]
    BY DEF Change
  <2>2. "pulls" \in DOMAIN gh /\ gh.pulls \in Seq(PullDTO)
    BY DEF ReadsInv, ListsInv, HasLists, GatheredInv
  <2>3. gh'.pulls = gh.pulls \/ \E i \in DOMAIN gh.pulls : gh'.pulls = <<gh.pulls[i]>> \o RemoveAt(gh.pulls, i)
    BY <2>1, <2>2
  <2> QED
    BY <2>2, <2>3, FrontType
<1> QED
  BY <1>1, <1>2, <1>3 DEF GatheredInv, Ended

LEMMA GatheredStarts == ReadsInit => GatheredInv
<1> SUFFICES ASSUME ReadsInit PROVE GatheredInv
  OBVIOUS
<1>1. /\ gh = GitHub /\ viewer = Nil /\ method = "get_pr" /\ nodes = <<>> /\ rest = <<>>
      /\ result = Fault("none", 0)
  BY DEF ReadsInit
<1>2. result.hint = 0
  BY <1>1, PlainFault
<1>3. gh.pulls \in Seq(PullDTO)
  BY <1>1, ReadsAssumption DEF GitHub
<1>4. <<>> \in Seq(Known)
  OBVIOUS
<1> QED
  BY <1>1, <1>2, <1>3, <1>4 DEF GatheredInv

LEMMA GatheredStep == ReadsInv /\ GatheredInv /\ [ReadsNext]_readsVars => GatheredInv'
<1> SUFFICES ASSUME ReadsInv, GatheredInv, [ReadsNext]_readsVars PROVE GatheredInv'
  OBVIOUS
<1>1. CASE UNCHANGED readsVars
  <2>1. /\ UNCHANGED <<gh, viewer, changes, method, arg, at, result, start, odd>>
        /\ UNCHANGED <<cursor, pages, nodes, rest, reviews>>
    BY <1>1 DEF readsVars, walk
  <2> QED
    BY <2>1 DEF GatheredInv, Ended, Quiet
<1>2. CASE \E m \in Method, f \in Filter \cup {"", "closed"}, pr \in BOOLEAN : Call(m, f, pr)
  BY <1>2, GatheredCall
<1> QED
  BY <1>1, <1>2, GatheredWalk, GatheredRest, GatheredOther, GatheredFail, GatheredChange DEF ReadsNext

LEMMA DerefType ==
  ASSUME NEW line \in LineOrNull
  PROVE  Deref(line) \in Int
BY DEF LineOrNull, Deref

\* What is built from what was gathered has its type.
LEMMA ResultsTyped == ReadsInv /\ GatheredInv => ReadsTypeOK
<1> SUFFICES ASSUME ReadsInv, GatheredInv PROVE ReadsTypeOK
  OBVIOUS
<1>1. /\ gh.head \in DOMAIN FilesAt /\ gh.threads \in Seq(ThreadGQL) /\ gh.pulls \in Seq(PullDTO)
      /\ tokenErr \in {Nil, "gh_missing", "auth"} /\ viewer \in {Nil, Login}
      /\ method \in Method /\ result.hint \in Int
  BY ReadsAssumption DEF ReadsInv, ListsInv, HasLists, AtInv, GatheredInv
<1>2. at \in {"done", "graphql", "rest", "viewer", "single"}
  <2>1. at \in At(method)
    BY DEF ReadsInv, AtInv
  <2> QED
    BY <1>1, <2>1, AtIs DEF Method, Walked
<1>3. cursor \in Nat /\ pages \in 0..MaxPages
  BY PageBounds DEF ReadsInv, AtInv
<1>4. ASSUME method = "get_pr", NEW i \in DOMAIN PRDetail.files
      PROVE  PRDetail.files[i] \in PRFile
  <2>1. rest \in Seq(Known)
    BY <1>4 DEF GatheredInv
  <2>2. i \in DOMAIN rest /\ PRDetail.files[i] = [path |-> rest[i], viewed |-> FileViewed(rest[i])]
    BY <1>4 DEF PRDetail
  <2>3. rest[i] \in STRING /\ Viewed[rest[i]] \in ViewedState
    BY <2>1, <2>2 DEF Known
  <2>4. FileViewed(rest[i]) \in ViewedState
    BY <2>3 DEF FileViewed, ViewedState
  <2> QED
    BY <2>2, <2>3, <2>4 DEF PRFile
<1>5. ASSUME method = "get_threads", NEW i \in DOMAIN GetThreads
      PROVE  GetThreads[i] \in Thread
  <2>1. nodes \in Seq(ThreadGQL)
    BY <1>5 DEF GatheredInv
  <2>2. i \in DOMAIN nodes /\ GetThreads[i] = ToThread(nodes[i])
    BY <1>5 DEF GetThreads
  <2> DEFINE n == nodes[i]
  <2>3. n \in ThreadGQL
    BY <2>1, <2>2
  <2> HIDE DEF n
  <2>4. n.id \in Nat /\ n.line \in LineOrNull /\ n.outdated \in BOOLEAN
    BY <2>3 DEF ThreadGQL
  <2>5. Deref(n.line) \in Int
    BY <2>4, DerefType
  <2>6. ToThread(n) \in Thread
    BY <2>4, <2>5 DEF ToThread, Thread
  <2> QED
    BY <2>2, <2>6 DEF n
<1>6. ASSUME NEW i \in DOMAIN GetChecks
      PROVE  GetChecks[i] \in Check
  <2>1. CASE Contexts = Nil
    <3>1. GetChecks = <<>>
      BY <2>1 DEF GetChecks
    <3>2. DOMAIN <<>> = {}
      OBVIOUS
    <3> QED
      BY <1>6, <3>1, <3>2
  <2>2. CASE Contexts # Nil
    <3>1. Contexts \in Seq(ContextGQL)
      BY <2>2, ReadsAssumption
    <3>2. i \in DOMAIN Contexts /\ GetChecks[i] = NormaliseCheck(Contexts[i])
      BY <1>6, <2>2 DEF GetChecks
    <3> DEFINE n == Contexts[i]
    <3>3. n \in ContextGQL
      BY <3>1, <3>2
    <3> HIDE DEF n
    <3>4. n.status \in STRING /\ n.conclusion \in STRING /\ n.state \in STRING
      BY <3>3 DEF ContextGQL
    <3>5. NormaliseCheck(n) \in Check
      <4> DEFINE Status == STRING \cup {"PENDING", "COMPLETED"}
      <4>1. \A a \in Status, b \in STRING : [status |-> a, conclusion |-> b] \in Check
        BY DEF Check
      <4>2. "PENDING" \in Status /\ "COMPLETED" \in Status /\ n.status \in Status
        BY <3>4
      <4> QED
        BY <3>4, <4>1, <4>2, Zenon DEF NormaliseCheck
    <3> QED
      BY <3>2, <3>5 DEF n
  <2> QED
    BY <2>1, <2>2
<1>7. ASSUME NEW i \in DOMAIN GetPendingReview.comments
      PROVE  GetPendingReview.comments[i] \in Int
  <2>1. CASE Draft = Nil
    <3>1. GetPendingReview.comments = <<>>
      BY <2>1 DEF GetPendingReview
    <3>2. DOMAIN <<>> = {}
      OBVIOUS
    <3> QED
      BY <1>7, <3>1, <3>2
  <2>2. CASE Draft # Nil
    <3>1. Draft \in Seq(LineOrNull)
      BY <2>2, ReadsAssumption
    <3>2. GetPendingReview.comments = [k \in DOMAIN Draft |-> Deref(Draft[k])]
      BY <2>2 DEF GetPendingReview
    <3>3. i \in DOMAIN Draft /\ Draft[i] \in LineOrNull
      BY <1>7, <3>1, <3>2
    <3> QED
      BY <3>2, <3>3, DerefType
  <2> QED
    BY <2>1, <2>2
<1>8. Reviews \in Seq(ReviewGQL)
  BY ReadsAssumption
<1> QED
  BY <1>1, <1>2, <1>3, <1>4, <1>5, <1>6, <1>7, <1>8 DEF ReadsTypeOK

\* Each review that says something is kept once, and no draft is.
LEMMA VerdictsAre ==
  /\ \A i \in DOMAIN Reviews : i <= ReviewsPage /\ Reviews[i].submitted /\ Reviews[i].body =>
       Cardinality({j \in DOMAIN Verdicts : Verdicts[j] = Reviews[i]}) = 1
  /\ \A j \in DOMAIN Verdicts : Verdicts[j].submitted
<1> DEFINE k == Min({ReviewsPage, Len(Reviews)})
           base == SubSeq(Reviews, 1, k)
           W == {r \in ToSet(Reviews) : IsVerdict(r)}
           V == Verdicts
<1>1. /\ Reviews \in Seq(ReviewGQL) /\ Len(Reviews) \in Nat /\ ReviewsPage \in Nat
      /\ DOMAIN Reviews = 1..Len(Reviews)
      /\ \A i, j \in 1..Len(Reviews) : Reviews[i].id = Reviews[j].id => i = j
  BY ReadsAssumption
<1>2. k = IF ReviewsPage <= Len(Reviews) THEN ReviewsPage ELSE Len(Reviews)
  BY <1>1, LessOf
<1>3. V = Kept(base, W)
  BY DEF Verdicts
<1> HIDE DEF k
<1>4. k \in Nat /\ k <= Len(Reviews) /\ \A i \in 1..Len(Reviews) : i <= ReviewsPage => i \in 1..k
  <2>1. CASE ReviewsPage <= Len(Reviews)
    BY <1>1, <1>2, <2>1
  <2>2. CASE ~(ReviewsPage <= Len(Reviews))
    BY <1>1, <1>2, <2>2
  <2> QED
    BY <2>1, <2>2
<1>5. base \in Seq(ReviewGQL) /\ Len(base) = k /\ \A i \in 1..k : base[i] = Reviews[i]
  <2>1. \A i \in 1..k : Reviews[i] \in ReviewGQL
    BY <1>1, <1>4
  <2>2. /\ base \in Seq(ReviewGQL) /\ Len(base) = IF 1 <= k THEN k - 1 + 1 ELSE 0
        /\ \A i \in 1..Len(base) : base[i] = Reviews[1 + i - 1]
    BY <1>1, <1>4, <2>1, SubSeqProperties
  <2> QED
    BY <1>4, <2>2
<1> HIDE DEF base, V
<1>6. IsInjective(base)
  <2>1. DOMAIN base = 1..k /\ \A i \in 1..k : i \in 1..Len(Reviews)
    BY <1>1, <1>4, <1>5
  <2> QED
    BY <1>1, <1>5, <2>1 DEF IsInjective
<1> HIDE DEF W
<1>7. V \in Seq(ReviewGQL) /\ Collects(base, W, k, V)
  BY <1>3, <1>5, KeptIs
<1>8. DOMAIN V = 1..Len(V)
  BY <1>7
<1>9. ASSUME NEW i \in DOMAIN Reviews, i <= ReviewsPage, Reviews[i].submitted, Reviews[i].body
      PROVE  Cardinality({j \in DOMAIN V : V[j] = Reviews[i]}) = 1
  <2>1. i \in 1..k /\ base[i] = Reviews[i]
    BY <1>1, <1>4, <1>5, <1>9
  <2>2. base[i] \in W
    BY <1>9, <2>1 DEF W, IsVerdict, ToSet
  <2>3. PICK j \in 1..Len(V) : V[j] = Reviews[i]
    BY <1>7, <2>1, <2>2 DEF Collects
  <2>4. {l \in DOMAIN V : V[l] = Reviews[i]} = {j}
    BY <1>6, <1>7, <1>8, <2>3 DEF Collects, IsInjective
  <2> QED
    BY <2>4, FS_Singleton
<1>10. ASSUME NEW j \in DOMAIN V PROVE V[j].submitted
  <2>1. V[j] \in W
    BY <1>7, <1>8 DEF Collects
  <2> QED
    BY <2>1 DEF W, IsVerdict
<1> QED
  BY <1>9, <1>10 DEF V

\* list_prs over the whole list: the pull requests its filter is about.
LEMMA ListedAre ==
  ASSUME rest \in Seq(PullDTO), arg \in Filter, arg = "open" \/ viewer = Login
  PROVE  ToSet(ListPRs) = {p \in ToSet(rest) : /\ arg = "mine" => p.user = Login
                                               /\ arg = "review_requested" => Login \in p.reviewers}
<1> DEFINE W == {p \in ToSet(rest) : CASE arg = "open" -> TRUE
                                       [] arg = "mine" -> p.user = viewer
                                       [] arg = "review_requested" -> viewer \in p.reviewers}
           L == ListPRs
<1>1. W = {p \in ToSet(rest) : /\ arg = "mine" => p.user = Login
                               /\ arg = "review_requested" => Login \in p.reviewers}
  <2>1. CASE arg = "open"
    BY <2>1
  <2>2. CASE arg = "mine"
    BY <2>2
  <2>3. CASE arg = "review_requested"
    BY <2>3
  <2> QED
    BY <2>1, <2>2, <2>3 DEF Filter
<1>2. L = Kept(rest, W)
  BY DEF ListPRs
<1>3. \A p \in W : p \in ToSet(rest)
  OBVIOUS
<1> HIDE DEF W, L
<1>4. L \in Seq(PullDTO) /\ Collects(rest, W, Len(rest), L)
  BY <1>2, KeptIs
<1>5. DOMAIN L = 1..Len(L) /\ DOMAIN rest = 1..Len(rest)
  BY <1>4
<1>6. \A p \in ToSet(L) : p \in W
  BY <1>4, <1>5 DEF Collects, ToSet
<1>7. \A p \in W : p \in ToSet(L)
  BY <1>3, <1>4, <1>5 DEF Collects, ToSet
<1>8. ToSet(L) = W
  BY <1>6, <1>7
<1> QED
  BY <1>1, <1>8 DEF L

\* QuietReads: a call during which nothing changed answers exactly what GitHub has:
\* GetPR's files, GetTimeline's comments and verdicts, ListPRs' filtered list.
THEOREM QuietExact == ReadsSpec => []QuietReads
<1>1. ReadsSpec => []GatheredInv
  BY GatheredStarts, GatheredStep, ReadsHold, PTL DEF ReadsSpec
<1>2. ReadsInv /\ GatheredInv => ReadsTypeOK
  BY ResultsTyped
<1>3. ASSUME ReadsInv, GatheredInv, Ended("get_timeline")
      PROVE  /\ \A i \in DOMAIN Reviews : i <= ReviewsPage /\ Reviews[i].submitted /\ Reviews[i].body =>
                  Cardinality({j \in DOMAIN reviews : reviews[j] = Reviews[i]}) = 1
             /\ \A j \in DOMAIN reviews : reviews[j].submitted
  <2>1. reviews = Verdicts
    BY <1>3 DEF GatheredInv, Ended
  <2> QED
    BY <2>1, VerdictsAre
<1>4. ASSUME ReadsInv, GatheredInv, Ended("list_prs"), Quiet, Fits(gh.pulls)
      PROVE  ToSet(ListPRs) = {p \in ToSet(gh.pulls) : /\ arg = "mine" => p.user = Login
                                                       /\ arg = "review_requested" => Login \in p.reviewers}
  <2>1. /\ rest \in Seq(PullDTO) /\ gh.pulls \in Seq(PullDTO) /\ arg \in Filter
        /\ arg = "open" \/ viewer = Login
        /\ Full(rest, gh.pulls)
    BY <1>4 DEF GatheredInv, Ended
  <2>2. rest = gh.pulls
    BY <1>4, <2>1, WholeOf DEF Full
  <2>3. ToSet(ListPRs) = {p \in ToSet(rest) : /\ arg = "mine" => p.user = Login
                                              /\ arg = "review_requested" => Login \in p.reviewers}
    BY <2>1, ListedAre
  <2> QED
    BY <2>2, <2>3
<1>5. ReadsInv /\ GatheredInv /\ ReadExactly => QuietReads
  <2> SUFFICES ASSUME ReadsInv, GatheredInv, ReadExactly PROVE QuietReads
    OBVIOUS
  <2>1. ReadsTypeOK /\ FilesNotOlderThanHead
    BY <1>2 DEF ReadExactly
  <2>2. Ended("get_pr") /\ Quiet /\ Fits(FilesAt[gh.head]) =>
          /\ PRDetail.head = gh.head
          /\ Len(PRDetail.files) = Len(FilesAt[gh.head])
          /\ \A i \in DOMAIN PRDetail.files :
               PRDetail.files[i] = [path |-> FilesAt[gh.head][i], viewed |-> Viewed[FilesAt[gh.head][i]]]
    BY Zenon DEF ReadExactly
  <2>3. Ended("get_timeline") /\ Quiet /\ Fits(gh.comments) => nodes = gh.comments
    BY Zenon DEF ReadExactly
  <2> QED
    BY <1>3, <1>4, <2>1, <2>2, <2>3, Zenon DEF QuietReads
<1> QED
  BY <1>1, <1>5, ReadsHold, WalksExact, PTL
=============================================================================
