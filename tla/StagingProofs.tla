--------------------------- MODULE StagingProofs ---------------------------
(***************************************************************************)
(* Proofs about Staging, for any number of places, any texts and any       *)
(* number of writes by other programs; and, below, about CatFile, for any  *)
(* reads, names and sessions.                                              *)
(***************************************************************************)
EXTENDS Staging, CatFile, FiniteSetTheorems, SequenceTheorems, TLAPS, WellFoundedInduction

\* What a view that is as the repository has it says: MarksTellIndex' last part
\* over any view and any repository.
Tells(v, h, i, w) ==
  /\ v.kind = "union" =>
       /\ h = v.old /\ w = Drawn(v)
       /\ \A p \in Hunks(v) : (p \in v.staged) <=> i[p] = w[p]
       /\ \A p \in Hunks(v) \ (v.staged \cup v.mixed) : i[p] = h[p]
  /\ v.kind = "local" => i = v.held /\ w = Drawn(v)
  /\ v.kind \in {"index", "preview"} => i = v.held /\ h = v.old

\* What a frozen view rebuilds is what it holds, and it knows no mixed hunk;
\* only a local view has hunks on top of staged ones.
Coherent(v) ==
  /\ Frozen(v) => v.held = Splice(v, v.staged) /\ v.mixed = {}
  /\ v.kind # "local" => v.hidden = {}

\* No other program has written since the view was read, and it is not to be
\* read again.
Clean == view.open /\ sched = "none" /\ outside = view.asof

ViewInv ==
  /\ Coherent(view) /\ view.asof <= outside
  /\ Clean /\ ~(op.at = "patch" /\ view.kind = "union") => Tells(view, head, index, work)

\* A key whose prompt, if it asked, is about the view that is open still.
Live == op.at # "idle" /\ (op.at = "prompt" => ~op.stale)

\* What the key was pressed on is what is open: the diff on screen, and a view
\* that has the operation.
LiveInv ==
  /\ op.at # "idle" => sched = "none" /\ op.since <= outside
  /\ Live =>
       /\ view.asof <= op.since
       /\ op.shows = [old |-> view.old, new |-> Drawn(view)]
       /\ op.do = "drop" => view.kind = "local"
       /\ op.do \in {"lines", "all"} => ~Frozen(view)
       /\ op.do = "move" /\ Frozen(view) => op.todo # {}
       /\ view.kind \in {"union", "local"} => op.file

\* How far the key has come.
Running == op.at \notin {"idle", "prompt"}

StageInv ==
  /\ Running =>
       /\ Reverts(op) \/ op.do = "drop" => op.asked
       /\ ~op.asked => view.open
  /\ op.at \in {"check", "index", "patch"} => Reverts(op)
  /\ op.at = "index" => Frozen(view)
  /\ op.at = "patch" /\ view.kind = "union" =>
       /\ outside = op.since => index = op.text
       /\ Clean => DrawnCurrent

\* What the key is to write: the index as it read it, but for what it moves.
TextInv ==
  /\ op.at = "put" \/ (op.at = "check" /\ ~Frozen(view)) =>
       /\ \A p \in Place \ Moving(op) : op.text[p] = op.seen[p]
       /\ outside = op.since => op.seen = index
  /\ op.at = "put" /\ Frozen(view) /\ op.do # "drop" =>
       op.text = Splice(view, Staged(op)) /\ op.seen = view.held

\* A key that unstages and did not ask moves only what HEAD or the file holds.
UnaskedInv ==
  op.at \in {"read", "put"} /\ ~op.asked /\ ~op.want =>
    /\ Frozen(view) => op.todo \subseteq view.staged \ view.gone
    /\ outside = op.since /\ view.kind \in {"index", "preview"} =>
         \A p \in op.todo : work[p] = view.new[p]
    /\ outside = op.since /\ ~Frozen(view) /\ (op.do = "lines" => op.at = "put") =>
         \A p \in op.todo : index[p] \in {head[p], work[p]}

StagingInv == TypeOK /\ ViewInv /\ LiveInv /\ StageInv /\ TextInv /\ UnaskedInv

-----------------------------------------------------------------------------
(* Views and what is read into them.                                       *)

\* A view just read, and one that is u but for whether it is open and has dw.
Fresh(v, h, i, w) ==
  v \in View /\ v.open /\ v.asof = outside /\ Coherent(v) /\ Tells(v, h, i, w)

Same(u, v) ==
  /\ u \in View /\ (u.open => v.open)
  /\ u.kind = v.kind /\ u.old = v.old /\ u.new = v.new /\ u.staged = v.staged
  /\ u.mixed = v.mixed /\ u.held = v.held /\ u.gone = v.gone /\ u.hidden = v.hidden
  /\ u.asof = v.asof

LEMMA OverType ==
  ASSUME NEW f \in File, NEW on, NEW g \in File
  PROVE  /\ Over(f, on, g) \in File
         /\ \A p \in Place : Over(f, on, g)[p] = IF p \in on THEN g[p] ELSE f[p]
  BY DEF Over, File

LEMMA FileEq ==
  ASSUME NEW f \in File, NEW g \in File, \A p \in Place : f[p] = g[p]
  PROVE  f = g
  BY DEF File

\* The least of a set of places is one of them.
LEMMA LeastPlace ==
  ASSUME NEW T \in SUBSET Place, T # {}
  PROVE  Min(T) \in T
<1>1. Place \subseteq Nat
  BY StagingAssumption DEF Place
<1> DEFINE R == {ss \in Nat \X Nat : ss[1] < ss[2]}
<1>2. IsWellFoundedOn(R, Nat)
  BY NatLessThanWellFounded, Zenon DEF OpToRel
<1>3. \A x, y \in Nat : y < x => <<y, x>> \in R
  OBVIOUS
<1> HIDE DEF R
<1>4. \E x \in T : \A y \in T : ~(<<y, x>> \in R)
  BY <1>1, <1>2, WFMin
<1>5. \A x, y \in Nat : y < x \/ x =< y
  OBVIOUS
<1>6. \E x \in T : \A y \in T : x =< y
  BY <1>1, <1>3, <1>4, <1>5, Zenon
<1> QED
  BY <1>6 DEF Min

LEMMA ForUnionFresh ==
  ASSUME NEW h \in File, NEW i \in File, NEW w \in File, outside \in 0..MaxOutside
  PROVE  Fresh(ForUnion(h, i, w), h, i, w)
<1> DEFINE v == ForUnion(h, i, w)
<1>1. /\ v \in View /\ v.open /\ v.asof = outside /\ v.kind = "union" /\ v.old = h /\ v.new = w
      /\ v.gone = {} /\ v.hidden = {} /\ v.staged = {p \in Changed(h, w) : i[p] = w[p]}
      /\ v.mixed = {p \in Changed(h, w) : i[p] \notin {h[p], w[p]}}
  BY DEF ForUnion, Remark, Opened, PartlyStaged, View, Changed
<1>2. Drawn(v) = w
  <2>1. \A p \in Place : Drawn(v)[p] = w[p]
    BY <1>1, OverType DEF Drawn
  <2>2. Drawn(v) \in File
    BY <1>1, OverType DEF Drawn
  <2> QED
    BY <2>1, <2>2, FileEq
<1> HIDE DEF v
<1>3. Fresh(v, h, i, w)
  BY <1>1, <1>2 DEF Fresh, Coherent, Frozen, Tells, Hunks, Changed
<1> QED
  BY <1>3 DEF v

LEMMA ForIndexFresh ==
  ASSUME NEW h \in File, NEW i \in File, NEW w \in File, outside \in 0..MaxOutside,
         NEW kind \in {"index", "preview"}, NEW pre \in BOOLEAN
  PROVE  Fresh(ForIndex(kind, pre, h, i), h, i, w)
<1> DEFINE v == ForIndex(kind, pre, h, i)
<1>1. /\ v \in View /\ v.open /\ v.asof = outside /\ v.kind = kind /\ v.old = h /\ v.new = i
      /\ v.gone = {} /\ v.hidden = {} /\ v.staged = Changed(h, i) /\ v.mixed = {} /\ v.held = i
  BY DEF ForIndex, Opened, View, Changed
<1>2. Splice(v, v.staged) = i
  <2>1. Splice(v, v.staged) \in File /\ \A p \in Place : Splice(v, v.staged)[p] = i[p]
    BY <1>1, OverType DEF Splice, Changed
  <2> QED
    BY <2>1, FileEq
<1> HIDE DEF v
<1>3. Fresh(v, h, i, w)
  BY <1>1, <1>2 DEF Fresh, Coherent, Frozen, Tells
<1> QED
  BY <1>3 DEF v

LEMMA ForLocalFresh ==
  ASSUME NEW h \in File, NEW i \in File, NEW w \in File, outside \in 0..MaxOutside
  PROVE  Fresh(ForLocal(h, i, w), h, i, w)
<1> DEFINE v == ForLocal(h, i, w)
<1>1. /\ v \in View /\ v.open /\ v.asof = outside /\ v.kind = "local" /\ v.old = i /\ v.new = w
      /\ v.gone = {} /\ v.staged = {} /\ v.mixed = {} /\ v.held = i
  BY DEF ForLocal, Opened, View, Changed
<1>2. Splice(v, v.staged) = i /\ Drawn(v) = w
  <2>1. /\ Splice(v, v.staged) \in File /\ \A p \in Place : Splice(v, v.staged)[p] = i[p]
        /\ Drawn(v) \in File /\ \A p \in Place : Drawn(v)[p] = w[p]
    BY <1>1, OverType DEF Splice, Drawn
  <2> QED
    BY <2>1, FileEq
<1> HIDE DEF v
<1>3. Fresh(v, h, i, w)
  BY <1>1, <1>2 DEF Fresh, Coherent, Frozen, Tells
<1> QED
  BY <1>3 DEF v

LEMMA SameSelf ==
  ASSUME NEW v \in View
  PROVE  /\ Same(v, v)
         /\ Same([v EXCEPT !.open = FALSE], v)
         /\ \A b \in BOOLEAN : Same([v EXCEPT !.dw = b], v)
  BY DEF Same, View

LEMMA SameTrans ==
  ASSUME NEW u, NEW v, NEW x, Same(u, v), Same(v, x)
  PROVE  Same(u, x)
  BY DEF Same

LEMMA SameTells ==
  ASSUME NEW u, NEW v, Same(u, v), NEW h, NEW i, NEW w
  PROVE  /\ Tells(v, h, i, w) => Tells(u, h, i, w)
         /\ Coherent(v) => Coherent(u)
         /\ Drawn(u) = Drawn(v) /\ Hunks(u) = Hunks(v) /\ Frozen(u) = Frozen(v)
  BY DEF Same, Tells, Coherent, Frozen, Hunks, Drawn, Splice

\* A view that the session would take as it is.
Good(v, h, i, w) ==
  /\ v \in View /\ Coherent(v) /\ v.asof <= outside
  /\ v.open /\ v.asof = outside => Tells(v, h, i, w)

LEMMA FreshGood ==
  ASSUME NEW v, NEW h, NEW i, NEW w, Fresh(v, h, i, w), outside \in 0..MaxOutside
  PROVE  Good(v, h, i, w) /\ v \in View /\ v.open
  BY StagingAssumption DEF Fresh, Good

LEMMA SameGood ==
  ASSUME NEW u, NEW v, NEW h, NEW i, NEW w, Same(u, v), Good(v, h, i, w)
  PROVE  Good(u, h, i, w)
<1>1. /\ Tells(v, h, i, w) => Tells(u, h, i, w)
      /\ Coherent(v) => Coherent(u)
  BY SameTells
<1> QED
  BY <1>1 DEF Same, Good

\* show_entry reads a view, or ends the session where nothing has changed.
LEMMA ShowEntryReads ==
  ASSUME NEW v \in View, NEW pre \in BOOLEAN, NEW h \in File, NEW i \in File, NEW w \in File,
         outside \in 0..MaxOutside
  PROVE  LET u == ShowEntry(v, pre, h, i, w)
         IN IF h = i /\ i = w THEN ~u.open /\ Same(u, v) ELSE Fresh(u, h, i, w)
<1>1. Fresh(ForIndex("preview", TRUE, h, i), h, i, w)
  BY ForIndexFresh
<1>2. Fresh(ForIndex("index", FALSE, h, i), h, i, w)
  BY ForIndexFresh
<1>3. Fresh(ForUnion(h, i, w), h, i, w)
  BY ForUnionFresh
<1>4. Same([v EXCEPT !.open = FALSE], v) /\ ~[v EXCEPT !.open = FALSE].open
  BY SameSelf DEF View
<1>5. CASE h = i /\ i = w
  BY <1>4, <1>5 DEF ShowEntry
<1>6. CASE ~(h = i /\ i = w)
  <2>1. \/ ShowEntry(v, pre, h, i, w) = ForIndex("preview", TRUE, h, i)
        \/ ShowEntry(v, pre, h, i, w) = ForIndex("index", FALSE, h, i)
        \/ ShowEntry(v, pre, h, i, w) = ForUnion(h, i, w)
    BY <1>6 DEF ShowEntry
  <2> QED
    BY <1>1, <1>2, <1>3, <1>6, <2>1
<1> QED
  BY <1>5, <1>6

LEMMA ShowLocalReads ==
  ASSUME NEW v \in View, NEW h \in File, NEW i \in File, NEW w \in File,
         outside \in 0..MaxOutside
  PROVE  LET u == ShowLocal(v, h, i, w)
         IN IF h = i /\ i = w THEN ~u.open /\ Same(u, v) ELSE Fresh(u, h, i, w)
<1>1. Fresh(ForLocal(h, i, w), h, i, w)
  BY ForLocalFresh
<1>2. v.pre \in BOOLEAN
  BY DEF View
<1>3. LET u == ShowEntry(v, v.pre, h, i, w)
      IN IF h = i /\ i = w THEN ~u.open /\ Same(u, v) ELSE Fresh(u, h, i, w)
  BY <1>2, ShowEntryReads
<1> QED
  BY <1>1, <1>3 DEF ShowLocal, RetargetView, PartlyStaged

\* A refresh of the list reads another view, or keeps the one there is.
LEMMA RefreshReads ==
  ASSUME NEW v \in View, NEW h \in File, NEW i \in File, NEW w \in File,
         outside \in 0..MaxOutside
  PROVE  LET u == Refresh(v, h, i, w)
         IN (Fresh(u, h, i, w) /\ ~(h = i /\ i = w)) \/ Same(u, v)
<1>1. LET u == ShowEntry(v, FALSE, h, i, w)
      IN (Fresh(u, h, i, w) /\ ~(h = i /\ i = w)) \/ Same(u, v)
  BY ShowEntryReads
<1>2. PartlyStaged(h, i, w) \in BOOLEAN
  BY DEF PartlyStaged
<1>3. /\ Same(v, v)
      /\ Same([v EXCEPT !.dw = PartlyStaged(h, i, w)], v)
  BY <1>2, SameSelf
<1>4. \/ Refresh(v, h, i, w) = ShowEntry(v, FALSE, h, i, w)
      \/ Refresh(v, h, i, w) = [v EXCEPT !.dw = PartlyStaged(h, i, w)]
      \/ Refresh(v, h, i, w) = v
  <2> DEFINE a == v.open /\ h = i /\ (v.pre \/ i = w)
             b == v.open /\ v.kind = "union" /\ ~(h = i /\ i = w)
             x == ShowEntry(v, FALSE, h, i, w)
             y == [v EXCEPT !.dw = PartlyStaged(h, i, w)]
  <2>1. Refresh(v, h, i, w) = CASE a -> x [] b -> y [] OTHER -> v
    BY DEF Refresh
  <2> HIDE DEF a, b, x, y
  <2>2. \/ Refresh(v, h, i, w) = x \/ Refresh(v, h, i, w) = y \/ Refresh(v, h, i, w) = v
    BY <2>1, Zenon
  <2> QED
    BY <2>2 DEF x, y
<1> QED
  BY <1>1, <1>3, <1>4

\* Whatever is read over a good view is good.
LEMMA ReadsGood ==
  ASSUME NEW h \in File, NEW i \in File, NEW w \in File, outside \in 0..MaxOutside,
         NEW v, Good(v, h, i, w)
  PROVE  /\ \A pre \in BOOLEAN : Good(ShowEntry(v, pre, h, i, w), h, i, w)
         /\ Good(ShowLocal(v, h, i, w), h, i, w)
         /\ Good(Refresh(v, h, i, w), h, i, w)
<1>0. v \in View
  BY DEF Good
<1>1. ASSUME NEW u, Fresh(u, h, i, w) \/ Same(u, v) PROVE Good(u, h, i, w)
  BY <1>1, FreshGood, SameGood
<1>2. ASSUME NEW pre \in BOOLEAN PROVE Good(ShowEntry(v, pre, h, i, w), h, i, w)
  BY <1>0, <1>1, ShowEntryReads
<1>3. Good(ShowLocal(v, h, i, w), h, i, w)
  BY <1>0, <1>1, ShowLocalReads
<1>4. Good(Refresh(v, h, i, w), h, i, w)
  BY <1>0, <1>1, RefreshReads
<1> QED
  BY <1>2, <1>3, <1>4

-----------------------------------------------------------------------------
(* What the steps share.                                                   *)

Later == {"none", "local", "retarget", "again"}

LEMMA InvGood ==
  ASSUME StagingInv
  PROVE  /\ head \in File /\ index \in File /\ work \in File /\ view \in View
         /\ outside \in 0..MaxOutside /\ outside \in Nat /\ known \in BOOLEAN /\ sched \in Later
         /\ op.at # "idle" => op \in Op /\ sched = "none"
         /\ sched = "none" /\ ~(op.at = "patch" /\ view.kind = "union") =>
              Good(view, head, index, work)
<1>1. outside \in Nat
  BY StagingAssumption DEF StagingInv, TypeOK
<1>2. op.at # "idle" => op \in Op /\ sched = "none"
  BY DEF StagingInv, TypeOK, Idle, LiveInv
<1> QED
  BY <1>1, <1>2 DEF StagingInv, TypeOK, Later, Good, ViewInv, Clean

\* A key that is over leaves nothing but its view to look at.
LEMMA EndInv ==
  ASSUME StagingInv, NEW v, NEW refreshed \in BOOLEAN, NEW later \in Later,
         End(v, refreshed, later), head' = head, index' \in File, work' \in File,
         outside' = outside, v \in View, Coherent(v), v.asof <= outside,
         later \in {"none", "again"} /\ v.open /\ v.asof = outside
           => Tells(v, head, index', work')
  PROVE  StagingInv'
<1> DEFINE now == IF refreshed THEN Refresh(v, head, index', work') ELSE v
<1>0. /\ op' = Idle /\ view' = now /\ known' = (known \/ refreshed)
      /\ sched' = IF later = "again" /\ now # v THEN "none" ELSE later
  BY DEF End
<1>1. head \in File /\ outside \in 0..MaxOutside /\ known \in BOOLEAN
  BY InvGood
<1>2. ASSUME NEW u, Fresh(u, head, index', work') \/ Same(u, v)
      PROVE  /\ u \in View /\ Coherent(u) /\ u.asof <= outside
             /\ later \in {"none", "again"} /\ u.open /\ u.asof = outside
                  => Tells(u, head, index', work')
  <2>1. CASE Fresh(u, head, index', work')
    BY <1>1, <2>1, FreshGood DEF Good
  <2>2. CASE Same(u, v)
    <3>1. /\ Coherent(v) => Coherent(u)
          /\ Tells(v, head, index', work') => Tells(u, head, index', work')
      BY <2>2, SameTells
    <3> QED
      BY <2>2, <3>1 DEF Same
  <2> QED
    BY <1>2, <2>1, <2>2
<1>3. Fresh(now, head, index', work') \/ Same(now, v)
  <2>1. CASE refreshed
    BY <1>1, <2>1, RefreshReads
  <2>2. CASE ~refreshed
    BY <2>2, SameSelf
  <2> QED
    BY <2>1, <2>2
<1>4. /\ now \in View /\ Coherent(now) /\ now.asof <= outside
      /\ later \in {"none", "again"} /\ now.open /\ now.asof = outside
           => Tells(now, head, index', work')
  BY <1>2, <1>3
<1> HIDE DEF now
<1>5. TypeOK'
  BY <1>0, <1>1, <1>4 DEF TypeOK, Later
<1>6. ViewInv'
  <2>1. Coherent(view)' /\ view'.asof <= outside'
    BY <1>0, <1>4 DEF Coherent, Frozen, Splice
  <2>2. Clean' => later \in {"none", "again"}
    BY <1>0 DEF Clean
  <2>3. Clean' => now.open /\ now.asof = outside
    BY <1>0 DEF Clean
  <2>4. Clean' => Tells(now, head', index', work')
    BY <1>4, <2>2, <2>3
  <2> QED
    BY <1>0, <2>1, <2>4 DEF ViewInv, Tells, Drawn, Hunks
<1>7. op'.at = "idle"
  BY <1>0 DEF Idle
<1>8. LiveInv' /\ StageInv' /\ TextInv' /\ UnaskedInv'
  BY <1>7 DEF LiveInv, StageInv, TextInv, UnaskedInv, Live, Running
<1> QED
  BY <1>5, <1>6, <1>8 DEF StagingInv
\* A key may start: what it is asked to do is something the view has, and where
\* it unstages without a prompt, it drops nothing that it alone holds.
MayBegin(do, want, todo, at) ==
  /\ do = "drop" => view.kind = "local"
  /\ do \in {"lines", "all"} => ~Frozen(view)
  /\ do = "move" /\ Frozen(view) => todo # {}
  /\ at = "read" => do \in {"move", "lines", "all"}
  /\ at = "read" /\ ~want =>
       /\ Frozen(view) => todo \subseteq view.staged \ view.gone
       /\ view.kind \in {"index", "preview"} => \A p \in todo : work[p] = view.new[p]
       /\ ~Frozen(view) /\ do # "lines" => \A p \in todo : index[p] \in {head[p], work[p]}

LEMMA BeginInv ==
  ASSUME StagingInv, Ready, UNCHANGED <<Repo, view, sched, known, outside>>,
         NEW do \in {"move", "lines", "all", "drop", "revert", "revertLines"},
         NEW want \in BOOLEAN, NEW todo \in SUBSET Place, NEW at \in {"prompt", "read"},
         MayBegin(do, want, todo, at), Begin(do, want, todo, at)
  PROVE  StagingInv'
<1>0. /\ head' = head /\ index' = index /\ work' = work /\ view' = view /\ sched' = sched
      /\ known' = known /\ outside' = outside
  BY DEF Repo
<1>1. /\ index \in File /\ view \in View /\ outside \in 0..MaxOutside /\ outside \in Nat
      /\ sched = "none" /\ view.open
  BY InvGood DEF Ready
<1>2. Drawn(view) \in File
  BY <1>1, OverType DEF Drawn, View
<1>3. op' \in Op
  BY <1>1, <1>2 DEF Begin, Op, View
<1>4. /\ op'.at = at /\ op'.do = do /\ op'.want = want /\ op'.todo = todo /\ op'.file = TRUE
      /\ op'.asked = FALSE /\ op'.since = outside
      /\ op'.shows = [old |-> view.old, new |-> Drawn(view)]
  BY DEF Begin
<1>5. TypeOK'
  BY <1>0, <1>3 DEF StagingInv, TypeOK
<1>6. ViewInv'
  <2>1. op.at # "patch"
    BY DEF Ready
  <2> QED
    BY <1>0, <2>1 DEF StagingInv, ViewInv, Coherent, Frozen, Splice, Clean, Tells, Drawn, Hunks
<1>7. view.asof <= outside
  BY DEF StagingInv, ViewInv
<1>8. LiveInv'
  BY <1>0, <1>1, <1>4, <1>7 DEF LiveInv, Live, MayBegin, Frozen, Drawn
<1>9. StageInv'
  BY <1>0, <1>1, <1>4 DEF StageInv, Running, MayBegin, Reverts
<1>10. TextInv'
  BY <1>4 DEF TextInv
<1>11. UnaskedInv'
  BY <1>0, <1>4 DEF UnaskedInv, MayBegin, Frozen
<1> QED
  BY <1>5, <1>6, <1>8, <1>9, <1>10, <1>11 DEF StagingInv

\* set_source: the view is read again, or the session ends with it.
LEMMA SourcedInv ==
  ASSUME StagingInv, op.at \in {"idle", "prompt"}, UNCHANGED <<Repo, outside>>, NEW v,
         Fresh(v, head, index, work) \/ (Same(v, view) /\ ~v.open), Sourced(v)
  PROVE  StagingInv'
<1>0. /\ head' = head /\ index' = index /\ work' = work /\ outside' = outside
      /\ view' = v /\ known' = TRUE
      /\ op' = IF op.at = "prompt" THEN [op EXCEPT !.stale = @ \/ v.open] ELSE op
      /\ sched' = IF v.open /\ sched = "again" THEN "none" ELSE sched
  BY DEF Repo, Sourced
<1>1. /\ view \in View /\ outside \in 0..MaxOutside /\ sched \in Later
      /\ op.at # "idle" => op \in Op /\ sched = "none"
  BY InvGood
<1>2. view.asof <= outside /\ Coherent(view)
  BY DEF StagingInv, ViewInv
<1>3. v \in View /\ Coherent(v) /\ v.asof <= outside /\ (v.open => Tells(v, head, index, work))
  <2>1. CASE Fresh(v, head, index, work)
    BY <1>1, <2>1, FreshGood DEF Good, Fresh
  <2>2. CASE Same(v, view) /\ ~v.open
    BY <1>2, <2>2, SameTells DEF Same
  <2> QED
    BY <2>1, <2>2
<1>4. op.at = "prompt" => op' \in Op /\ op' = [op EXCEPT !.stale = op.stale \/ v.open]
  BY <1>0, <1>1, <1>3 DEF Op, View
<1>5. TypeOK'
  <2>1. op' \in Op \cup {Idle}
    BY <1>0, <1>4 DEF StagingInv, TypeOK
  <2> QED
    BY <1>0, <1>1, <1>3, <2>1 DEF StagingInv, TypeOK, Later
<1>6. ViewInv'
  <2>1. Coherent(view)' /\ view'.asof <= outside'
    BY <1>0, <1>3 DEF Coherent, Frozen, Splice
  <2>2. Clean' => Tells(v, head, index, work)
    BY <1>0, <1>3 DEF Clean
  <2> QED
    BY <1>0, <2>1, <2>2 DEF ViewInv, Tells, Drawn, Hunks
<1>7. op'.at = op.at /\ op'.at \in {"idle", "prompt"}
  BY <1>0, <1>4, <1>1 DEF Op
<1>8. LiveInv'
  <2>1. CASE op.at = "idle"
    BY <1>7, <2>1 DEF LiveInv, Live
  <2>2. CASE op.at = "prompt"
    <3>0. op \in Op /\ op.since <= outside
      BY <1>1, <2>2 DEF StagingInv, LiveInv
    <3>1. op'.since = op.since /\ sched' = "none"
      BY <1>0, <1>1, <1>4, <2>2, <3>0 DEF Op
    <3>2. CASE v.open
      BY <1>0, <1>4, <2>2, <3>0, <3>1, <3>2 DEF LiveInv, Live, Op
    <3>3. CASE ~v.open /\ ~op.stale
      <4>1. Same(v, view) /\ op' = op
        BY <1>1, <1>4, <2>2, <3>3 DEF Fresh, Op
      <4>2. Drawn(v) = Drawn(view) /\ v.old = view.old /\ v.kind = view.kind /\ v.asof = view.asof
        BY <4>1, SameTells DEF Same
      <4> QED
        BY <1>0, <2>2, <3>0, <3>1, <3>3, <4>1, <4>2 DEF StagingInv, LiveInv, Live, Frozen, Drawn
    <3>4. CASE ~v.open /\ op.stale
      BY <1>0, <1>4, <2>2, <3>0, <3>1, <3>4 DEF LiveInv, Live, Op
    <3> QED
      BY <3>2, <3>3, <3>4
  <2> QED
    BY <2>1, <2>2
<1>9. StageInv' /\ TextInv' /\ UnaskedInv'
  BY <1>7 DEF StageInv, Running, TextInv, UnaskedInv
<1> QED
  BY <1>5, <1>6, <1>8, <1>9 DEF StagingInv
\* The key goes on to its next command: nothing moves but how far it is.
LEMMA OnInv ==
  ASSUME StagingInv, Running, op.at # "patch",
         UNCHANGED <<Repo, view, sched, known, outside>>, op' \in Op,
         op'.at \in {"check", "index", "put", "patch"}, op'.do = op.do, op'.todo = op.todo,
         op'.since = op.since, op'.shows = op.shows, op'.asked = op.asked,
         view.kind \in {"union", "local"} => op'.file = op.file,
         StageInv', TextInv', UnaskedInv'
  PROVE  StagingInv'
<1>0. /\ head' = head /\ index' = index /\ work' = work /\ view' = view /\ sched' = sched
      /\ known' = known /\ outside' = outside
  BY DEF Repo
<1>1. TypeOK'
  BY <1>0 DEF StagingInv, TypeOK
<1>2. ViewInv'
  BY <1>0 DEF StagingInv, ViewInv, Coherent, Frozen, Splice, Clean, Tells, Drawn, Hunks, Running
<1>3. LiveInv'
  BY <1>0 DEF StagingInv, LiveInv, Live, Running, Frozen, Drawn
<1> QED
  BY <1>1, <1>2, <1>3 DEF StagingInv

-----------------------------------------------------------------------------
(* The keys.                                                               *)

\* A frozen view unstages what it drew and the file has, or asks.
LEMMA UnheldFrozen ==
  ASSUME StagingInv, NEW asked \in SUBSET Place, ~Unheld(asked), view.kind \in {"index", "preview"},
         NEW todo \in SUBSET Place, todo \subseteq asked \cap view.staged \cap Hunks(view)
  PROVE  \A p \in todo : work[p] = view.new[p]
<1>1. view \in View
  BY InvGood
<1>2. \A p \in asked \cap view.staged \cap Hunks(view) : work[p] = Drawn(view)[p]
  BY DEF Unheld
<1>3. \A p \in Place : p \notin view.gone => Drawn(view)[p] = view.new[p]
  BY <1>1, OverType DEF Drawn, View
<1> QED
  BY <1>2, <1>3 DEF Hunks

LEMMA StageHunkInv ==
  ASSUME StagingInv, NEW p \in Place, StageHunk(p)
  PROVE  StagingInv'
<1>1. Begin("move", TRUE, {p}, "read") /\ Ready /\ UNCHANGED <<Repo, view, sched, known, outside>>
  BY DEF StageHunk
<1>2. MayBegin("move", TRUE, {p}, "read")
  BY DEF MayBegin
<1> QED
  BY <1>1, <1>2, BeginInv

LEMMA UnstageHunkInv ==
  ASSUME StagingInv, NEW p \in Place, UnstageHunk(p)
  PROVE  StagingInv'
<1>1. /\ Ready /\ UNCHANGED <<Repo, view, sched, known, outside>> /\ p \in Hunks(view)
      /\ \/ /\ p \in view.staged \cup view.mixed
            /\ Begin("move", FALSE, {p}, IF Unheld({p}) THEN "prompt" ELSE "read")
         \/ /\ p \in view.hidden \ view.staged
            /\ Begin("drop", FALSE, {p}, "prompt")
  BY DEF UnstageHunk
<1>2. CASE p \in view.staged \cup view.mixed
           /\ Begin("move", FALSE, {p}, IF Unheld({p}) THEN "prompt" ELSE "read")
  <2>1. CASE Unheld({p})
    <3>1. MayBegin("move", FALSE, {p}, "prompt")
      BY DEF MayBegin
    <3> QED
      BY <1>1, <1>2, <2>1, <3>1, BeginInv
  <2>2. CASE ~Unheld({p})
    <3>1. Frozen(view) => p \in view.staged \ view.gone
      BY <1>1, <1>2 DEF StagingInv, ViewInv, Coherent, Hunks
    <3>2. view.kind \in {"index", "preview"} => \A q \in {p} : work[q] = view.new[q]
      BY <1>1, <2>2, <3>1, UnheldFrozen DEF Frozen
    <3>3. ~Frozen(view) => \A q \in {p} : index[q] \in {head[q], work[q]}
      BY <2>2 DEF Unheld, Frozen
    <3>4. MayBegin("move", FALSE, {p}, "read")
      BY <3>1, <3>2, <3>3 DEF MayBegin
    <3> QED
      BY <1>1, <1>2, <2>2, <3>4, BeginInv
  <2> QED
    BY <2>1, <2>2
<1>3. CASE p \in view.hidden \ view.staged /\ Begin("drop", FALSE, {p}, "prompt")
  <2>1. view.hidden # {} => view.kind = "local"
    BY DEF StagingInv, ViewInv, Coherent
  <2>2. MayBegin("drop", FALSE, {p}, "prompt")
    BY <1>3, <2>1 DEF MayBegin
  <2> QED
    BY <1>1, <1>3, <2>2, BeginInv
<1> QED
  BY <1>1, <1>2, <1>3
LEMMA ToggleAllInv ==
  ASSUME StagingInv, NEW want \in BOOLEAN, ToggleAll(want)
  PROVE  StagingInv'
<1> DEFINE at == IF ~want /\ Unheld(Place) THEN "prompt" ELSE "read"
<1>1. /\ Ready /\ UNCHANGED <<Repo, view, sched, known, outside>>
      /\ IF Frozen(view) THEN Unmoved(want) # {} /\ Begin("move", want, Unmoved(want), at)
         ELSE Begin("all", want, Place, at)
  BY DEF ToggleAll
<1>2. at \in {"prompt", "read"} /\ (at = "read" /\ ~want => ~Unheld(Place))
  OBVIOUS
<1> HIDE DEF at
<1>3. CASE Frozen(view)
  <2>1. Unmoved(want) \in SUBSET Place
    BY DEF Unmoved, Hunks, Changed
  <2>2. ~want => Unmoved(want) \subseteq Place \cap view.staged \cap Hunks(view)
    BY <2>1 DEF Unmoved
  <2>3. ~want => Unmoved(want) \subseteq view.staged \ view.gone
    BY <2>2 DEF Hunks
  <2>4. ~want /\ at = "read" /\ view.kind \in {"index", "preview"} =>
          \A p \in Unmoved(want) : work[p] = view.new[p]
    BY <1>2, <2>1, <2>2, UnheldFrozen
  <2>5. MayBegin("move", want, Unmoved(want), at)
    BY <1>1, <1>3, <2>3, <2>4 DEF MayBegin
  <2> QED
    BY <1>1, <1>2, <1>3, <2>1, <2>5, BeginInv
<1>4. CASE ~Frozen(view)
  <2>1. ~Unheld(Place) => \A p \in Place : index[p] \in {head[p], work[p]}
    BY <1>4 DEF Unheld, Frozen
  <2>2. MayBegin("all", want, Place, at)
    BY <1>2, <1>4, <2>1 DEF MayBegin, Frozen
  <2> QED
    BY <1>1, <1>2, <1>4, <2>2, BeginInv
<1> QED
  BY <1>3, <1>4

LEMMA ToggleLinesInv ==
  ASSUME StagingInv, NEW want \in BOOLEAN, NEW todo \in SUBSET Place, ToggleLines(todo, want)
  PROVE  StagingInv'
<1>1. /\ Ready /\ UNCHANGED <<Repo, view, sched, known, outside>> /\ ~Frozen(view)
      /\ Begin("lines", want, todo, "read")
  BY DEF ToggleLines
<1>2. MayBegin("lines", want, todo, "read")
  BY <1>1 DEF MayBegin, Frozen
<1> QED
  BY <1>1, <1>2, BeginInv

LEMMA RevertInv ==
  ASSUME StagingInv, NEW do \in {"revert", "revertLines"}, NEW todo \in SUBSET Place,
         Revert(do, todo)
  PROVE  StagingInv'
<1>1. /\ Ready /\ UNCHANGED <<Repo, view, known, outside>>
      /\ \/ Begin(do, FALSE, todo, "prompt") /\ UNCHANGED sched
         \/ sched' = Reopen(view) /\ UNCHANGED op
  BY DEF Revert
<1>2. CASE Begin(do, FALSE, todo, "prompt") /\ UNCHANGED sched
  <2>1. MayBegin(do, FALSE, todo, "prompt")
    BY DEF MayBegin
  <2> QED
    BY <1>1, <1>2, <2>1, BeginInv
<1>3. CASE sched' = Reopen(view) /\ UNCHANGED op
  <2>1. sched' \in {"local", "retarget"} /\ op.at = "idle" /\ op'.at = "idle"
    BY <1>1, <1>3 DEF Reopen, Ready
  <2>2. TypeOK'
    BY <1>1, <1>3, <2>1 DEF StagingInv, TypeOK, Repo
  <2>3. ViewInv'
    BY <1>1, <2>1 DEF StagingInv, ViewInv, Coherent, Frozen, Splice, Clean
  <2>4. LiveInv' /\ StageInv' /\ TextInv' /\ UnaskedInv'
    BY <2>1 DEF LiveInv, Live, StageInv, Running, TextInv, UnaskedInv
  <2> QED
    BY <2>2, <2>3, <2>4 DEF StagingInv
<1> QED
  BY <1>1, <1>2, <1>3

LEMMA AnswerInv ==
  ASSUME StagingInv, NEW yes \in BOOLEAN, Answer(yes)
  PROVE  StagingInv'
<1>0. /\ head' = head /\ index' = index /\ work' = work /\ view' = view /\ sched' = sched
      /\ known' = known /\ outside' = outside /\ op.at = "prompt"
      /\ op' = IF yes /\ ~op.stale THEN [op EXCEPT !.at = "read", !.asked = TRUE] ELSE Idle
  BY DEF Answer, Repo, Confirmed
<1>1. op \in Op /\ sched = "none"
  BY <1>0, InvGood
<1>2. ViewInv'
  BY <1>0, <1>1 DEF StagingInv, ViewInv, Coherent, Frozen, Splice, Clean, Tells, Drawn, Hunks
<1>3. CASE yes /\ ~op.stale
  <2>1. /\ op' \in Op /\ op'.at = "read" /\ op'.asked = TRUE /\ op'.do = op.do
        /\ op'.todo = op.todo /\ op'.file = op.file /\ op'.shows = op.shows
        /\ op'.since = op.since
    BY <1>0, <1>1, <1>3 DEF Op
  <2>2. TypeOK'
    BY <1>0, <2>1 DEF StagingInv, TypeOK
  <2>3. LiveInv'
    BY <1>0, <1>3, <2>1 DEF StagingInv, LiveInv, Live, Frozen, Drawn
  <2>4. StageInv' /\ TextInv' /\ UnaskedInv'
    BY <2>1 DEF StageInv, Running, TextInv, UnaskedInv
  <2> QED
    BY <1>2, <2>2, <2>3, <2>4 DEF StagingInv
<1>4. CASE ~(yes /\ ~op.stale)
  <2>1. op' = Idle /\ op'.at = "idle"
    BY <1>0, <1>4 DEF Idle
  <2>2. TypeOK'
    BY <1>0, <2>1 DEF StagingInv, TypeOK
  <2>3. LiveInv' /\ StageInv' /\ TextInv' /\ UnaskedInv'
    BY <2>1 DEF LiveInv, Live, StageInv, Running, TextInv, UnaskedInv
  <2> QED
    BY <1>2, <2>2, <2>3 DEF StagingInv
<1> QED
  BY <1>3, <1>4

LEMMA ToggleLocalInv ==
  ASSUME StagingInv, ToggleLocal
  PROVE  StagingInv'
<1>1. PICK v : /\ Sourced(v)
               /\ \/ v = ShowEntry(view, view.pre, head, index, work)
                  \/ v = ShowLocal(view, head, index, work)
  BY DEF ToggleLocal, RetargetView
<1>2. op.at = "idle" /\ UNCHANGED <<Repo, outside>>
  BY DEF ToggleLocal, Ready
<1>3. view \in View /\ view.pre \in BOOLEAN
  BY InvGood DEF View
<1>4. Fresh(v, head, index, work) \/ (Same(v, view) /\ ~v.open)
  BY <1>1, <1>3, InvGood, ShowEntryReads, ShowLocalReads
<1> QED
  BY <1>1, <1>2, <1>4, SourcedInv

LEMMA SetPreviewInv ==
  ASSUME StagingInv, SetPreview
  PROVE  StagingInv'
<1> DEFINE v == ShowEntry(view, ~view.pre, head, index, work)
<1>1. Sourced(v) /\ op.at = "idle" /\ UNCHANGED <<Repo, outside>>
  BY DEF SetPreview, Ready
<1>2. Fresh(v, head, index, work) \/ (Same(v, view) /\ ~v.open)
  BY InvGood, ShowEntryReads
<1> QED
  BY <1>1, <1>2, SourcedInv

LEMMA LandExternalInv ==
  ASSUME StagingInv, LandExternal
  PROVE  StagingInv'
<1> DEFINE r == Refresh(view, head, index, work)
           v == IF r.open THEN ShowEntry(r, r.pre, head, index, work) ELSE r
<1>1. Sourced(v) /\ op.at \in {"idle", "prompt"} /\ UNCHANGED <<Repo, outside>>
  BY DEF LandExternal, RetargetView
<1>2. \/ Fresh(r, head, index, work) /\ ~(head = index /\ index = work)
      \/ Same(r, view)
  BY InvGood, RefreshReads
<1>3. r \in View /\ r.pre \in BOOLEAN
  BY <1>2 DEF Fresh, Same, View
<1> HIDE DEF r
<1>4. CASE r.open
  <2>1. IF head = index /\ index = work THEN ~v.open /\ Same(v, r) ELSE Fresh(v, head, index, work)
    BY <1>3, <1>4, InvGood, ShowEntryReads
  <2>2. Fresh(v, head, index, work) \/ (Same(v, view) /\ ~v.open)
    BY <1>2, <2>1, SameTrans
  <2> QED
    BY <1>1, <2>2, SourcedInv
<1>5. CASE ~r.open
  <2>1. Same(v, view) /\ ~v.open
    BY <1>2, <1>5 DEF Fresh
  <2> QED
    BY <1>1, <2>1, SourcedInv
<1> QED
  BY <1>4, <1>5

LEMMA RunScheduledInv ==
  ASSUME StagingInv, RunScheduled
  PROVE  StagingInv'
<1>1. PICK v : /\ \/ v = ShowEntry(view, view.pre, head, index, work)
                  \/ v = ShowLocal(view, head, index, work)
               /\ IF view.open THEN view' = v /\ known' = TRUE ELSE UNCHANGED <<view, known>>
  BY DEF RunScheduled, RetargetView
<1>2. /\ op.at = "idle" /\ op' = op /\ sched' = "none"
      /\ head' = head /\ index' = index /\ work' = work /\ outside' = outside
  BY DEF RunScheduled, Repo
<1>3. view \in View /\ view.pre \in BOOLEAN /\ known \in BOOLEAN /\ outside \in 0..MaxOutside
  BY InvGood DEF View
<1>4. Coherent(view) /\ view.asof <= outside
  BY DEF StagingInv, ViewInv
<1>5. Fresh(v, head, index, work) \/ (Same(v, view) /\ ~v.open)
  BY <1>1, <1>3, InvGood, ShowEntryReads, ShowLocalReads
<1>6. v \in View /\ Coherent(v) /\ v.asof <= outside /\ (v.open => Tells(v, head, index, work))
  <2>1. CASE Fresh(v, head, index, work)
    BY <1>3, <2>1, FreshGood DEF Good, Fresh
  <2>2. CASE Same(v, view) /\ ~v.open
    BY <1>4, <2>2, SameTells DEF Same
  <2> QED
    BY <1>5, <2>1, <2>2
<1>7. /\ view' \in View /\ Coherent(view') /\ view'.asof <= outside /\ known' \in BOOLEAN
      /\ view'.open => Tells(view', head, index, work)
  BY <1>1, <1>3, <1>4, <1>6
<1>8. TypeOK'
  BY <1>2, <1>7 DEF StagingInv, TypeOK
<1>9. ViewInv'
  BY <1>2, <1>7 DEF ViewInv, Coherent, Frozen, Splice, Clean, Tells, Drawn, Hunks
<1>10. LiveInv' /\ StageInv' /\ TextInv' /\ UnaskedInv'
  BY <1>2 DEF LiveInv, Live, StageInv, Running, TextInv, UnaskedInv
<1> QED
  BY <1>8, <1>9, <1>10 DEF StagingInv

LEMMA OutsideInv ==
  ASSUME StagingInv, Outside
  PROVE  StagingInv'
<1>0. /\ view' = view /\ op' = op /\ sched' = sched /\ known' = FALSE
      /\ outside' = outside + 1 /\ outside < MaxOutside
  BY DEF Outside
<1>1. /\ head \in File /\ index \in File /\ work \in File /\ outside \in Nat
      /\ outside \in 0..MaxOutside
  BY InvGood
<1>2. head' \in File /\ index' \in File /\ work' \in File
  <2>1. ASSUME NEW f \in File, NEW p \in Place, NEW t \in Text PROVE [f EXCEPT ![p] = t] \in File
    BY <2>1 DEF File
  <2> QED
    BY <1>1, <2>1 DEF Outside
<1>3. TypeOK'
  <2>1. outside' \in 0..MaxOutside
    BY <1>0, <1>1, StagingAssumption
  <2> QED
    BY <1>0, <1>2, <2>1 DEF StagingInv, TypeOK
<1>4. view.asof <= outside /\ view.asof \in Nat /\ ~Clean'
  BY <1>0, <1>1, StagingAssumption DEF StagingInv, ViewInv, Clean, TypeOK, View
<1>5. ViewInv'
  BY <1>0, <1>1, <1>4 DEF StagingInv, ViewInv, Coherent, Frozen, Splice
<1>6. CASE op.at = "idle"
  <2>1. LiveInv' /\ StageInv' /\ TextInv' /\ UnaskedInv'
    BY <1>0, <1>6 DEF LiveInv, Live, StageInv, Running, TextInv, UnaskedInv
  <2> QED
    BY <1>3, <1>5, <2>1 DEF StagingInv
<1>7. CASE op.at # "idle"
  <2>1. op.since <= outside /\ op.since \in Nat
    BY <1>7, InvGood, StagingAssumption DEF StagingInv, LiveInv, Op
  <2>2. op'.since <= outside' /\ outside' # op'.since
    BY <1>0, <1>1, <2>1
  <2>3. LiveInv'
    BY <1>0, <1>7, <2>2 DEF StagingInv, LiveInv, Live, Frozen, Drawn
  <2>4. StageInv'
    BY <1>0, <1>4, <2>2 DEF StagingInv, StageInv, Running, Reverts, Frozen
  <2>5. TextInv'
    BY <1>0, <2>2 DEF StagingInv, TextInv, Moving, Staged, Frozen, Splice
  <2>6. UnaskedInv'
    BY <1>0, <2>2 DEF StagingInv, UnaskedInv, Frozen
  <2> QED
    BY <1>3, <1>5, <2>3, <2>4, <2>5, <2>6 DEF StagingInv
<1> QED
  BY <1>6, <1>7
-----------------------------------------------------------------------------
(* The handlers.                                                           *)

\* A union marked again from the repository it shows tells what the index holds.
LEMMA RemarkTells ==
  ASSUME NEW v \in View, v.kind = "union", Coherent(v), NEW h \in File, NEW i \in File,
         NEW w \in File
  PROVE  LET u == Remark(v, h, i, w)
         IN /\ u \in View /\ Coherent(u) /\ u.open = v.open /\ u.asof = v.asof
            /\ h = v.old /\ w = Drawn(v) => Tells(u, h, i, w)
<1> DEFINE u == Remark(v, h, i, w)
<1>1. /\ u \in View /\ u.open = v.open /\ u.asof = v.asof /\ u.kind = "union" /\ u.old = v.old
      /\ u.new = v.new /\ u.gone = v.gone /\ u.hidden = v.hidden
      /\ u.staged = {p \in Changed(h, w) : i[p] = w[p]}
      /\ u.mixed = {p \in Changed(h, w) : i[p] \notin {h[p], w[p]}}
  BY DEF Remark, View, Changed
<1> HIDE DEF u
<1>2. Coherent(u)
  BY <1>1 DEF Coherent, Frozen
<1>3. ASSUME h = v.old, w = Drawn(v) PROVE Tells(u, h, i, w)
  <2>1. Drawn(u) = Drawn(v)
    BY <1>1 DEF Drawn
  <2>2. \A p \in Place : p \notin v.gone => w[p] = v.new[p]
    BY <1>3, OverType DEF Drawn, View
  <2>3. Hunks(u) \subseteq Changed(h, w)
    BY <1>1, <1>3, <2>2 DEF Hunks, Changed
  <2>4. Hunks(u) \subseteq Place
    BY DEF Hunks, Changed
  <2> QED
    BY <1>1, <1>3, <2>1, <2>3, <2>4 DEF Tells
<1>4. /\ u \in View /\ Coherent(u) /\ u.open = v.open /\ u.asof = v.asof
      /\ h = v.old /\ w = Drawn(v) => Tells(u, h, i, w)
  BY <1>1, <1>2, <1>3
<1> QED
  BY <1>4 DEF u

LEMMA ReadUnionInv ==
  ASSUME StagingInv, ReadUnion
  PROVE  StagingInv'
<1> DEFINE text == Over(index, op.todo, IF op.want THEN work ELSE head)
           hides == op.do \in {"lines", "revertLines"}
                    /\ \E p \in op.todo : index[p] \notin {head[p], work[p]}
           on == /\ op' = [op EXCEPT !.at = IF Reverts(op) THEN "check" ELSE "put",
                                     !.seen = index, !.text = text]
                 /\ UNCHANGED <<view, sched, known>>
<1>0. op.at = "read" /\ ~Frozen(view) /\ UNCHANGED <<Repo, outside>>
  BY DEF ReadUnion
<1>1. \/ End(view, FALSE, "retarget")
      \/ End(view, FALSE, "none")
      \/ on /\ DrawnCurrent /\ ~hides
  BY DEF ReadUnion
<1>2. /\ head \in File /\ index \in File /\ work \in File /\ view \in View /\ op \in Op
      /\ Good(view, head, index, work)
  BY <1>0, InvGood
<1>3. CASE End(view, FALSE, "retarget") \/ End(view, FALSE, "none")
  BY <1>0, <1>2, <1>3, EndInv DEF Good, Later, Repo
<1>4. CASE on /\ DrawnCurrent /\ ~hides
  <2>1. text \in File /\ \A p \in Place \ op.todo : text[p] = index[p]
    BY <1>2, OverType
  <2>2. ~hides
    BY <1>4
  <2> HIDE DEF text
  <2>3. /\ op' \in Op /\ op'.at = (IF Reverts(op) THEN "check" ELSE "put") /\ op'.do = op.do
        /\ op'.todo = op.todo /\ op'.since = op.since /\ op'.shows = op.shows
        /\ op'.asked = op.asked /\ op'.want = op.want /\ op'.file = op.file
        /\ op'.seen = index /\ op'.text = text
    BY <1>2, <1>4, <2>1 DEF Op
  <2>4. /\ head' = head /\ index' = index /\ work' = work /\ view' = view /\ sched' = sched
        /\ known' = known /\ outside' = outside
    BY <1>0, <1>4 DEF Repo
  <2>5. StageInv'
    BY <1>0, <2>3, <2>4 DEF StagingInv, StageInv, Running, Reverts
  <2>6. TextInv'
    BY <1>0, <2>1, <2>3, <2>4 DEF TextInv, Moving, Frozen
  <2>7. UnaskedInv'
    BY <1>0, <2>2, <2>3, <2>4 DEF StagingInv, UnaskedInv, Frozen
  <2> QED
    BY <1>0, <2>3, <2>4, <2>5, <2>6, <2>7, OnInv DEF Running, Repo
<1> QED
  BY <1>1, <1>3, <1>4

LEMMA MovingType ==
  ASSUME StagingInv, Running
  PROVE  /\ Moving(op) \subseteq op.todo /\ op.todo \subseteq Place
         /\ Moving(op) \subseteq Place /\ Staged(op) \subseteq Place
<1>1. op \in Op /\ op.todo \in SUBSET Place /\ view.staged \in SUBSET Place
  BY InvGood DEF Running, Op, View
<1>2. op.do = "move" /\ Frozen(view) => op.todo # {}
  BY DEF StagingInv, LiveInv, Live, Running
<1>3. Moving(op) \subseteq op.todo
  BY <1>1, <1>2, LeastPlace DEF Moving
<1> QED
  BY <1>1, <1>3 DEF Staged

LEMMA ReadFrozenInv ==
  ASSUME StagingInv, ReadFrozen
  PROVE  StagingInv'
<1>0. /\ op.at \in {"index", "read"} /\ Frozen(view) /\ UNCHANGED <<Repo, outside>>
      /\ op.at = "read" => op.do = "move"
  BY DEF ReadFrozen
<1>1. \/ index = view.held /\ ToPut(Splice(view, Staged(op)))
      \/ End(view, op.moved, Reopen(view))
  BY DEF ReadFrozen, IndexHeld
<1>2. /\ index \in File /\ view \in View /\ op \in Op /\ Good(view, head, index, work)
      /\ op.moved \in BOOLEAN /\ head \in File /\ work \in File
  BY <1>0, InvGood DEF Op
<1>3. CASE End(view, op.moved, Reopen(view))
  <2>1. Reopen(view) \in {"local", "retarget"} /\ Reopen(view) \in Later
    BY DEF Reopen, Later
  <2> QED
    BY <1>0, <1>2, <1>3, <2>1, EndInv DEF Good, Repo
<1>4. CASE index = view.held /\ ToPut(Splice(view, Staged(op)))
  <2> DEFINE text == Splice(view, Staged(op))
  <2>0. view.held = Splice(view, view.staged)
    BY <1>0 DEF StagingInv, ViewInv, Coherent
  <2>1. text \in File /\ \A p \in Place \ Moving(op) : text[p] = index[p]
    BY <1>2, <1>4, <2>0, OverType DEF Splice, Staged, View
  <2>2. text = Splice(view, Staged(op))
    OBVIOUS
  <2> HIDE DEF text
  <2>3. /\ op' \in Op /\ op'.at = "put" /\ op'.do = op.do
        /\ op'.todo = op.todo /\ op'.since = op.since /\ op'.shows = op.shows
        /\ op'.asked = op.asked /\ op'.want = op.want /\ op'.file = op.file
        /\ op'.seen = index /\ op'.text = text
    BY <1>2, <1>4, <2>1, <2>2 DEF ToPut, Op
  <2>4. /\ head' = head /\ index' = index /\ work' = work /\ view' = view /\ sched' = sched
        /\ known' = known /\ outside' = outside
    BY <1>0, <1>4 DEF ToPut, Repo
  <2>5. StageInv'
    BY <1>0, <2>3, <2>4 DEF StagingInv, StageInv, Running, Reverts
  <2>6. Moving(op)' = Moving(op) /\ Staged(op)' = Staged(op)
    BY <2>3, <2>4 DEF Moving, Staged, Frozen
  <2>7. TextInv'
    BY <1>4, <2>1, <2>2, <2>3, <2>4, <2>6 DEF TextInv, Splice
  <2>8. UnaskedInv'
    BY <1>0, <2>3, <2>4 DEF StagingInv, UnaskedInv, Frozen, StageInv, Running, Reverts
  <2> QED
    BY <1>0, <2>3, <2>4, <2>5, <2>7, <2>8, OnInv DEF Running, Repo
<1> QED
  BY <1>1, <1>3, <1>4

LEMMA ReadDropInv ==
  ASSUME StagingInv, ReadDrop
  PROVE  StagingInv'
<1>0. op.at = "read" /\ op.do = "drop" /\ UNCHANGED <<Repo, outside>>
  BY DEF ReadDrop
<1>1. \/ ToPut(Over(index, op.todo, head))
      \/ End(view, FALSE, "local")
  BY DEF ReadDrop
<1>2. /\ head \in File /\ index \in File /\ work \in File /\ view \in View /\ op \in Op
      /\ Good(view, head, index, work)
  BY <1>0, InvGood
<1>3. CASE End(view, FALSE, "local")
  BY <1>0, <1>2, <1>3, EndInv DEF Good, Later, Repo
<1>4. CASE ToPut(Over(index, op.todo, head))
  <2> DEFINE text == Over(index, op.todo, head)
  <2>1. text \in File /\ \A p \in Place \ op.todo : text[p] = index[p]
    BY <1>2, OverType
  <2> HIDE DEF text
  <2>3. /\ op' \in Op /\ op'.at = "put" /\ op'.do = op.do
        /\ op'.todo = op.todo /\ op'.since = op.since /\ op'.shows = op.shows
        /\ op'.asked = op.asked /\ op'.want = op.want /\ op'.file = op.file
        /\ op'.seen = index /\ op'.text = text
    BY <1>2, <1>4, <2>1 DEF ToPut, Op, text
  <2>4. /\ head' = head /\ index' = index /\ work' = work /\ view' = view /\ sched' = sched
        /\ known' = known /\ outside' = outside
    BY <1>0, <1>4 DEF ToPut, Repo
  <2>5. StageInv'
    BY <1>0, <2>3, <2>4 DEF StagingInv, StageInv, Running, Reverts
  <2>6. TextInv'
    BY <1>0, <2>1, <2>3, <2>4 DEF TextInv, Moving
  <2>7. UnaskedInv'
    BY <1>0, <2>3 DEF StagingInv, StageInv, Running, UnaskedInv
  <2> QED
    BY <1>0, <2>3, <2>4, <2>5, <2>6, <2>7, OnInv DEF Running, Repo
<1> QED
  BY <1>1, <1>3, <1>4
LEMMA ReadRevertInv ==
  ASSUME StagingInv, ReadRevert
  PROVE  StagingInv'
<1> DEFINE put_back == view.kind # "local" /\ \A p \in op.todo : work[p] = view.old[p]
           back == /\ op' = [op EXCEPT !.at = AfterCheck, !.file = FALSE]
                   /\ UNCHANGED <<view, sched, known>>
<1>0. op.at = "read" /\ Reverts(op) /\ Frozen(view) /\ UNCHANGED <<Repo, outside>>
  BY DEF ReadRevert
<1>1. \/ view.kind # "local" /\ back
      \/ End(view, FALSE, "none")
      \/ End(view, FALSE, "local")
      \/ To("check")
  <2> DEFINE touched == view.kind # "local" /\ \E p \in op.todo : work[p] # Drawn(view)[p]
             old == op.do = "revertLines" /\ ~(index = view.old /\ work = Drawn(view))
             Out == End(view, FALSE, "none")
             Again == End(view, FALSE, "local")
             On == To("check")
  <2>1. (CASE put_back -> back [] ~put_back /\ touched -> Out [] old -> Again [] OTHER -> On)
    BY DEF ReadRevert
  <2>2. put_back => view.kind # "local"
    OBVIOUS
  <2> HIDE DEF put_back, back, touched, old, Out, Again, On
  <2>3. (put_back /\ back) \/ Out \/ Again \/ On
    BY <2>1, Zenon
  <2> QED
    BY <2>2, <2>3 DEF Out, Again, On
<1>2. /\ head \in File /\ index \in File /\ work \in File /\ view \in View /\ op \in Op
      /\ Good(view, head, index, work)
  BY <1>0, InvGood
<1>3. CASE End(view, FALSE, "none") \/ End(view, FALSE, "local")
  BY <1>0, <1>2, <1>3, EndInv DEF Good, Later, Repo
<1>4. CASE (view.kind # "local" /\ back) \/ To("check")
  <2>1. AfterCheck \in {"index", "patch"}
    BY <1>0 DEF AfterCheck
  <2>2. /\ op' \in Op /\ op'.at \in {"check", "index", "patch"} /\ op'.do = op.do
        /\ op'.todo = op.todo /\ op'.since = op.since /\ op'.shows = op.shows
        /\ op'.asked = op.asked
        /\ view.kind = "local" => op'.file = op.file
    BY <1>2, <1>4, <2>1, ZenonT(40) DEF To, Op
  <2>3. /\ head' = head /\ index' = index /\ work' = work /\ view' = view /\ sched' = sched
        /\ known' = known /\ outside' = outside
    BY <1>0, <1>4 DEF To, Repo
  <2>4. StageInv'
    BY <1>0, <2>2, <2>3 DEF StagingInv, StageInv, Running, Reverts, Frozen
  <2>5. TextInv' /\ UnaskedInv'
    BY <1>0, <2>2, <2>3 DEF TextInv, UnaskedInv, Frozen
  <2> QED
    BY <1>0, <2>2, <2>3, <2>4, <2>5, OnInv DEF Running, Repo, Frozen
<1> QED
  BY <1>1, <1>3, <1>4

LEMMA CheckInv ==
  ASSUME StagingInv, Check
  PROVE  StagingInv'
<1>0. op.at = "check" /\ To(AfterCheck) /\ UNCHANGED <<Repo, outside>>
  BY DEF Check
<1>1. op \in Op /\ Reverts(op)
  BY <1>0, InvGood DEF StagingInv, StageInv
<1>2. /\ AfterCheck \in {"index", "put", "patch"}
      /\ AfterCheck = "index" => Frozen(view)
      /\ AfterCheck = "put" => ~Frozen(view)
      /\ AfterCheck = "patch" /\ ~Frozen(view) => op.text = op.seen
  BY DEF AfterCheck, IndexHalf
<1>3. /\ op' \in Op /\ op'.at = AfterCheck /\ op'.do = op.do
      /\ op'.todo = op.todo /\ op'.since = op.since /\ op'.shows = op.shows
      /\ op'.asked = op.asked /\ op'.file = op.file /\ op'.text = op.text /\ op'.seen = op.seen
  BY <1>0, <1>1, <1>2 DEF To, Op
<1>4. /\ head' = head /\ index' = index /\ work' = work /\ view' = view /\ sched' = sched
      /\ known' = known /\ outside' = outside
  BY <1>0 DEF To, Repo
<1>5. StageInv'
  <2>1. Running /\ op.asked
    BY <1>0, <1>1 DEF StagingInv, StageInv, Running
  <2>2. ~Frozen(view) /\ Clean => DrawnCurrent
    BY <1>0 DEF StagingInv, ViewInv, Tells, DrawnCurrent, Frozen
  <2>3. ~Frozen(view) /\ outside = op.since => op.seen = index
    BY <1>0 DEF StagingInv, TextInv
  <2> QED
    BY <1>1, <1>2, <1>3, <1>4, <2>1, <2>2, <2>3
       DEF StageInv, Running, Reverts, Frozen, Clean, DrawnCurrent, Drawn
<1>6. TextInv'
  BY <1>0, <1>2, <1>3, <1>4 DEF StagingInv, TextInv, Moving, Frozen
<1>7. UnaskedInv'
  BY <1>0, <1>1, <1>3 DEF StagingInv, StageInv, Running, UnaskedInv
<1> QED
  BY <1>0, <1>2, <1>3, <1>4, <1>5, <1>6, <1>7, OnInv DEF Running, Repo

LEMMA PutUnionInv ==
  ASSUME StagingInv, PutUnion
  PROVE  StagingInv'
<1>0. /\ op.at = "put" /\ ~Frozen(view) /\ index' = op.text
      /\ head' = head /\ work' = work /\ outside' = outside
  BY DEF PutUnion
<1>1. /\ head \in File /\ view \in View /\ op \in Op /\ work \in File /\ op.text \in File
      /\ Good(view, head, index, work) /\ sched = "none" /\ known \in BOOLEAN
  BY <1>0, InvGood DEF Op
<1>2. Drawn(view) \in File /\ view.old \in File /\ view.kind = "union"
  BY <1>0, <1>1, OverType DEF Drawn, View, Frozen
<1>3. view.open /\ view.asof = outside => head = view.old /\ work = Drawn(view)
  BY <1>1, <1>2 DEF Good, Tells
<1>4. CASE Reverts(op)
  <2>1. op' = [op EXCEPT !.at = "patch"] /\ known' = FALSE /\ view' = view /\ sched' = sched
    BY <1>4 DEF PutUnion
  <2>2. /\ op' \in Op /\ op'.at = "patch" /\ op'.do = op.do
        /\ op'.todo = op.todo /\ op'.since = op.since /\ op'.shows = op.shows
        /\ op'.asked = op.asked /\ op'.file = op.file /\ op'.text = op.text
    BY <1>1, <2>1 DEF Op
  <2>3. TypeOK'
    BY <1>0, <1>1, <2>1, <2>2 DEF StagingInv, TypeOK
  <2>4. ViewInv'
    BY <1>0, <1>2, <2>1, <2>2 DEF StagingInv, ViewInv, Coherent, Frozen, Splice
  <2>5. LiveInv'
    BY <1>0, <2>1, <2>2 DEF StagingInv, LiveInv, Live, Frozen, Drawn
  <2>6. StageInv'
    BY <1>0, <1>3, <1>4, <2>1, <2>2
       DEF StagingInv, StageInv, Running, Reverts, Clean, DrawnCurrent, Drawn
  <2>7. TextInv' /\ UnaskedInv'
    BY <2>2 DEF TextInv, UnaskedInv
  <2> QED
    BY <2>3, <2>4, <2>5, <2>6, <2>7 DEF StagingInv
<1>5. CASE ~Reverts(op)
  <2> DEFINE u == Remark(view, view.old, op.text, Drawn(view))
  <2>1. End(u, TRUE, "none")
    BY <1>5 DEF PutUnion
  <2>2. /\ u \in View /\ Coherent(u) /\ u.open = view.open /\ u.asof = view.asof
        /\ Tells(u, view.old, op.text, Drawn(view))
    BY <1>1, <1>2, RemarkTells DEF Good
  <2> HIDE DEF u
  <2>3. u.asof <= outside /\ (u.open /\ u.asof = outside => Tells(u, head, index', work'))
    BY <1>0, <1>1, <1>3, <2>2 DEF Good
  <2> QED
    BY <1>0, <1>1, <2>1, <2>2, <2>3, EndInv DEF Later
<1> QED
  BY <1>4, <1>5

\* The index is rebuilt from the marks as the hunk is to be, and these become
\* the view's.
LEMMA PutFrozenInv ==
  ASSUME StagingInv, PutFrozen
  PROVE  StagingInv'
<1> DEFINE v == [view EXCEPT !.staged = Staged(op), !.held = op.text]
           rest == op.todo \ Moving(op)
<1>0. /\ op.at = "put" /\ Frozen(view) /\ op.do # "drop" /\ index' = op.text
      /\ head' = head /\ work' = work /\ outside' = outside /\ Running
  BY DEF PutFrozen, Running
<1>1. /\ head \in File /\ view \in View /\ op \in Op /\ work \in File /\ op.text \in File
      /\ Good(view, head, index, work) /\ sched = "none" /\ known \in BOOLEAN
  BY <1>0, InvGood, Zenon DEF Op
<1>2. Moving(op) \subseteq op.todo /\ op.todo \subseteq Place /\ Staged(op) \subseteq Place
  BY <1>0, MovingType
<1>3. /\ v \in View /\ v.staged = Staged(op) /\ v.held = op.text /\ v.open = view.open
      /\ v.kind = view.kind /\ v.old = view.old /\ v.new = view.new /\ v.gone = view.gone
      /\ v.mixed = view.mixed /\ v.hidden = view.hidden /\ v.asof = view.asof
  BY <1>1, <1>2 DEF View
<1>4. op.text = Splice(view, Staged(op))
  BY <1>0 DEF StagingInv, TextInv
<1>5. Coherent(view) /\ view.asof <= outside
  BY DEF StagingInv, ViewInv
<1> HIDE DEF v
<1>6. Coherent(v) /\ Drawn(v) = Drawn(view)
  BY <1>0, <1>3, <1>4, <1>5 DEF Coherent, Frozen, Splice, Drawn
<1>7. v.open /\ v.asof = outside => Tells(v, head, index', work')
  BY <1>0, <1>1, <1>3, <1>6 DEF Good, Tells, Frozen
<1>8. CASE Reverts(op) \/ rest # {}
  <2>1. /\ op' = [op EXCEPT !.at = IF Reverts(op) THEN "patch" ELSE "read",
                            !.todo = IF Reverts(op) THEN op.todo ELSE rest,
                            !.moved = ~Reverts(op)]
        /\ view' = v /\ known' = FALSE /\ sched' = sched
    BY <1>8 DEF PutFrozen, HeldAfter, v
  <2>2. /\ op' \in Op /\ op'.at = (IF Reverts(op) THEN "patch" ELSE "read") /\ op'.do = op.do
        /\ op'.todo = (IF Reverts(op) THEN op.todo ELSE rest) /\ op'.since = op.since
        /\ op'.shows = op.shows /\ op'.asked = op.asked /\ op'.file = op.file /\ op'.want = op.want
    BY <1>1, <1>2, <2>1 DEF Op, Reverts
  <2>3. TypeOK'
    BY <1>0, <1>1, <1>3, <2>1, <2>2 DEF StagingInv, TypeOK
  <2>4. ViewInv'
    <3>1. Clean' => v.open /\ v.asof = outside
      BY <1>0, <2>1 DEF Clean
    <3> QED
      BY <1>0, <1>3, <1>5, <1>6, <1>7, <2>1, <3>1
         DEF ViewInv, Coherent, Frozen, Splice, Tells, Drawn, Hunks
  <2>5. LiveInv'
    <3>1. op'.do = "move" /\ Frozen(view)' => op'.todo # {}
      BY <1>8, <2>2 DEF Reverts
    <3>2. /\ op'.since <= outside' /\ sched' = "none" /\ view'.asof <= op'.since
          /\ op'.shows = [old |-> v.old, new |-> Drawn(v)]
          /\ op'.do = "drop" => v.kind = "local"
          /\ op'.do \in {"lines", "all"} => ~Frozen(v)
          /\ v.kind \in {"union", "local"} => op'.file
      BY <1>0, <1>1, <1>3, <1>6, <2>1, <2>2 DEF StagingInv, LiveInv, Live, Frozen
    <3> QED
      BY <2>1, <3>1, <3>2 DEF LiveInv, Live, Frozen, Drawn
  <2>6. StageInv'
    BY <1>0, <1>3, <2>1, <2>2 DEF StagingInv, StageInv, Running, Reverts, Frozen
  <2>7. TextInv'
    BY <2>2 DEF TextInv
  <2>8. UnaskedInv'
    <3>1. ASSUME op'.at = "read", ~op.asked, ~op.want
          PROVE  rest \subseteq v.staged \ v.gone /\ op.todo \subseteq view.staged \ view.gone
      BY <1>0, <1>2, <1>3, <3>1 DEF StagingInv, UnaskedInv, Staged
    <3> QED
      BY <1>0, <1>2, <1>3, <2>1, <2>2, <3>1 DEF StagingInv, UnaskedInv, Frozen
  <2> QED
    BY <2>3, <2>4, <2>5, <2>6, <2>7, <2>8 DEF StagingInv
<1>9. CASE ~(Reverts(op) \/ rest # {})
  <2>1. End(v, TRUE, "retarget") \/ End(v, TRUE, "none")
    BY <1>9 DEF PutFrozen, HeldAfter, v
  <2> QED
    BY <1>0, <1>1, <1>3, <1>5, <1>6, <1>7, <2>1, EndInv DEF Later
<1> QED
  BY <1>8, <1>9
LEMMA PutDropInv ==
  ASSUME StagingInv, PutDrop
  PROVE  StagingInv'
<1> DEFINE r == Refresh(view, head, op.text, work)
           x == IF r.open THEN ShowLocal(r, head, op.text, work) ELSE r
<1>0. /\ op.at = "put" /\ op.do = "drop" /\ index' = op.text
      /\ head' = head /\ work' = work /\ outside' = outside /\ End(x, TRUE, "none")
  BY DEF PutDrop
<1>1. /\ head \in File /\ view \in View /\ op \in Op /\ work \in File /\ op.text \in File
      /\ outside \in 0..MaxOutside
  BY <1>0, InvGood DEF Op
<1>2. Coherent(view) /\ view.asof <= outside
  BY DEF StagingInv, ViewInv
<1>3. Fresh(r, head, op.text, work) \/ Same(r, view)
  BY <1>1, RefreshReads
<1>4. r \in View /\ Coherent(r) /\ r.asof <= outside
  <2>1. CASE Fresh(r, head, op.text, work)
    BY <1>1, <2>1, FreshGood DEF Good
  <2>2. CASE Same(r, view)
    BY <1>2, <2>2, SameTells DEF Same
  <2> QED
    BY <1>3, <2>1, <2>2
<1> HIDE DEF r
<1>5. x \in View /\ Coherent(x) /\ x.asof <= outside /\ (x.open => Tells(x, head, op.text, work))
  <2>1. CASE r.open
    <3>1. (Same(x, r) /\ ~x.open) \/ Fresh(x, head, op.text, work)
      BY <1>1, <1>4, <2>1, ShowLocalReads
    <3>2. CASE Fresh(x, head, op.text, work)
      BY <1>1, <3>2, FreshGood DEF Good, Fresh
    <3>3. CASE Same(x, r) /\ ~x.open
      BY <1>4, <3>3, SameTells DEF Same
    <3> QED
      BY <3>1, <3>2, <3>3
  <2>2. CASE ~r.open
    BY <1>4, <2>2
  <2> QED
    BY <2>1, <2>2
<1> QED
  BY <1>0, <1>1, <1>5, EndInv DEF Later

\* The view as X leaves it, with the hunk out, and the file as X leaves it.
LEMMA PatchInv ==
  ASSUME StagingInv, Patch
  PROVE  StagingInv'
<1> DEFINE cut == [view EXCEPT !.gone = view.gone \cup op.todo]
           v == IF Frozen(view) THEN cut ELSE Remark(cut, cut.old, op.text, Drawn(cut))
           shown == Refresh(v, head, index, work')
           next == IF shown.open THEN ShowEntry(shown, shown.pre, head, index, work') ELSE shown
<1>0. /\ op.at = "patch" /\ head' = head /\ index' = index /\ outside' = outside
      /\ work' = IF op.file THEN Over(work, op.todo, view.old) ELSE work
      /\ \/ End(next, TRUE, "none")
         \/ End(v, TRUE, "again")
         \/ End(v, TRUE, "none")
  BY DEF Patch
<1>1. /\ head \in File /\ index \in File /\ view \in View /\ op \in Op /\ work \in File
      /\ op.text \in File /\ outside \in 0..MaxOutside /\ outside \in Nat /\ sched = "none"
      /\ Frozen(view) => Good(view, head, index, work)
  BY <1>0, InvGood DEF Op, Frozen
<1>2. Coherent(view) /\ view.asof <= outside
  BY DEF StagingInv, ViewInv
<1>3. /\ view.asof <= op.since /\ op.since <= outside
      /\ view.asof \in Nat /\ op.since \in Nat
      /\ view.kind \in {"union", "local"} => op.file
  BY <1>0, <1>1, StagingAssumption DEF StagingInv, LiveInv, Live, View, Op
<1>4. /\ cut \in View /\ cut.gone = view.gone \cup op.todo /\ cut.open = view.open
      /\ cut.kind = view.kind /\ cut.old = view.old /\ cut.new = view.new
      /\ cut.staged = view.staged /\ cut.held = view.held
      /\ cut.mixed = view.mixed /\ cut.hidden = view.hidden /\ cut.asof = view.asof
  BY <1>1 DEF View, Op
<1> HIDE DEF cut
<1>5. work' \in File
  BY <1>0, <1>1, OverType DEF View
<1>6. Coherent(cut) /\ Drawn(cut) \in File /\ cut.old \in File
  BY <1>2, <1>4, OverType DEF Coherent, Frozen, Splice, Drawn, View
<1>7. op.file /\ work = Drawn(view) => work' = Drawn(cut)
  <2> SUFFICES ASSUME op.file, work = Drawn(view)
               PROVE  \A p \in Place : work'[p] = Drawn(cut)[p]
    BY <1>5, <1>6, FileEq
  <2>1. \A p \in Place : work'[p] = IF p \in op.todo THEN view.old[p] ELSE work[p]
    BY <1>0, <1>1, OverType DEF View
  <2>2. \A p \in Place : work[p] = IF p \in view.gone THEN view.old[p] ELSE view.new[p]
    BY <1>1, OverType DEF View, Drawn
  <2>3. \A p \in Place : Drawn(cut)[p] = IF p \in cut.gone THEN view.old[p] ELSE view.new[p]
    BY <1>1, <1>4, OverType DEF View, Drawn
  <2> QED
    BY <1>4, <2>1, <2>2, <2>3
<1>8. Good(v, head, index, work')
  <2>1. CASE Frozen(view)
    <3>1. v = cut
      BY <2>1
    <3>2. view.open /\ view.asof = outside => Tells(view, head, index, work)
      BY <1>1, <2>1 DEF Good
    <3>3. cut.open /\ cut.asof = outside => Tells(cut, head, index, work')
      BY <1>3, <1>4, <1>7, <2>1, <3>2 DEF Tells, Frozen
    <3> QED
      BY <1>2, <1>4, <1>6, <3>1, <3>3 DEF Good
  <2>2. CASE ~Frozen(view)
    <3>1. v = Remark(cut, cut.old, op.text, Drawn(cut))
      BY <2>2
    <3>2. /\ v \in View /\ Coherent(v) /\ v.open = cut.open /\ v.asof = cut.asof
          /\ Tells(v, cut.old, op.text, Drawn(cut))
      BY <1>1, <1>4, <1>6, <2>2, <3>1, RemarkTells, SMTT(40) DEF Frozen
    <3>3. view.open /\ view.asof = outside => head = view.old /\ work = Drawn(view)
      BY <1>0, <1>1, <2>2 DEF StagingInv, StageInv, Clean, DrawnCurrent, Frozen
    <3>4. view.open /\ view.asof = outside => index = op.text
      BY <1>0, <1>1, <1>3, <2>2 DEF StagingInv, StageInv, Frozen
    <3>5. v.open /\ v.asof = outside => Tells(v, head, index, work')
      BY <1>3, <1>4, <1>7, <2>2, <3>2, <3>3, <3>4 DEF Frozen
    <3> QED
      BY <1>2, <1>4, <3>2, <3>5 DEF Good
  <2> QED
    BY <2>1, <2>2
<1> HIDE DEF v
<1>9. Good(shown, head, index, work') /\ shown.pre \in BOOLEAN
  <2>1. Good(shown, head, index, work')
    BY <1>1, <1>5, <1>8, ReadsGood
  <2> QED
    BY <2>1 DEF Good, View
<1> HIDE DEF shown
<1>10. Good(next, head, index, work')
  BY <1>1, <1>5, <1>9, ReadsGood
<1> HIDE DEF next
<1> QED
  BY <1>0, <1>1, <1>5, <1>8, <1>10, EndInv DEF Good, Later

LEMMA FailInv ==
  ASSUME StagingInv, Fail
  PROVE  StagingInv'
<1> DEFINE remarked == IF Reverts(op) /\ ~Frozen(view) /\ op.at # "read"
                       THEN Remark(view, head, index, work) ELSE view
           later == IF Frozen(view) /\ (op.at = "index" \/ (op.at = "read" /\ op.do = "move"))
                    THEN Reopen(view) ELSE "none"
<1>0. /\ op.at \in {"read", "check", "index", "put", "patch"} /\ UNCHANGED <<Repo, outside>>
      /\ End(remarked, op.moved, later)
  BY DEF Fail
<1>1. /\ head \in File /\ index \in File /\ work \in File /\ view \in View /\ op \in Op
      /\ op.moved \in BOOLEAN /\ sched = "none"
      /\ ~(op.at = "patch" /\ view.kind = "union") => Good(view, head, index, work)
  BY <1>0, InvGood DEF Op
<1>2. Coherent(view) /\ view.asof <= outside
  BY DEF StagingInv, ViewInv
<1>3. later \in Later
  BY DEF Later, Reopen
<1>4. Good(remarked, head, index, work)
  <2>1. CASE Reverts(op) /\ ~Frozen(view) /\ op.at # "read"
    <3>1. view.open /\ view.asof = outside => head = view.old /\ work = Drawn(view)
      BY <1>1, <2>1 DEF StagingInv, StageInv, Clean, DrawnCurrent, Frozen, Good, Tells
    <3> QED
      BY <1>1, <1>2, <2>1, <3>1, RemarkTells DEF Good, Frozen
  <2>2. CASE ~(Reverts(op) /\ ~Frozen(view) /\ op.at # "read")
    <3>1. op.at = "patch" => Reverts(op)
      BY DEF StagingInv, StageInv
    <3> QED
      BY <1>1, <2>2, <3>1 DEF Frozen
  <2> QED
    BY <2>1, <2>2
<1> HIDE DEF remarked, later
<1> QED
  BY <1>0, <1>1, <1>3, <1>4, EndInv DEF Good, Repo

-----------------------------------------------------------------------------
(* The invariant and what it gives.                                        *)

LEMMA InitInv == Init => StagingInv
<1> SUFFICES ASSUME Init PROVE StagingInv
  OBVIOUS
<1>1. /\ head \in File /\ index \in File /\ work \in File /\ outside = 0
      /\ op = Idle /\ op.at = "idle" /\ sched = "none" /\ known = TRUE
      /\ outside \in 0..MaxOutside
  BY StagingAssumption DEF Init, Idle
<1>2. Fresh(view, head, index, work)
  BY <1>1, ForUnionFresh, ForIndexFresh DEF Init
<1>3. Good(view, head, index, work)
  BY <1>1, <1>2, FreshGood
<1>4. TypeOK /\ ViewInv
  BY <1>1, <1>3 DEF TypeOK, ViewInv, Good, Clean
<1>5. LiveInv /\ StageInv /\ TextInv /\ UnaskedInv
  BY <1>1 DEF LiveInv, Live, StageInv, Running, TextInv, UnaskedInv
<1> QED
  BY <1>4, <1>5 DEF StagingInv

LEMMA StutterInv == StagingInv /\ UNCHANGED vars => StagingInv'
<1> SUFFICES ASSUME StagingInv, UNCHANGED vars PROVE StagingInv'
  OBVIOUS
<1>1. /\ head' = head /\ index' = index /\ work' = work /\ view' = view /\ op' = op
      /\ sched' = sched /\ known' = known /\ outside' = outside
  BY DEF vars
<1>2. TypeOK' /\ ViewInv'
  BY <1>1 DEF StagingInv, TypeOK, ViewInv, Coherent, Frozen, Splice, Clean, Tells, Drawn, Hunks
<1>3. LiveInv' /\ StageInv'
  BY <1>1 DEF StagingInv, LiveInv, Live, Frozen, Drawn, StageInv, Running, Reverts, Clean, DrawnCurrent
<1>4. TextInv' /\ UnaskedInv'
  BY <1>1 DEF StagingInv, TextInv, Moving, Staged, Frozen, Splice, UnaskedInv
<1> QED
  BY <1>2, <1>3, <1>4 DEF StagingInv

LEMMA StepInv == StagingInv /\ [Next]_vars => StagingInv'
<1> SUFFICES ASSUME StagingInv, [Next]_vars PROVE StagingInv'
  OBVIOUS
<1> USE DEF Next
<1>1. CASE \E p \in Place : StageHunk(p) \/ UnstageHunk(p)
  BY <1>1, StageHunkInv, UnstageHunkInv
<1>2. CASE \E want \in BOOLEAN : ToggleAll(want) \/ \E todo \in SUBSET Place : ToggleLines(todo, want)
  BY <1>2, ToggleAllInv, ToggleLinesInv
<1>3. CASE \E do \in {"revert", "revertLines"}, todo \in SUBSET Place : Revert(do, todo)
  BY <1>3, RevertInv
<1>4. CASE \E yes \in BOOLEAN : Answer(yes)
  BY <1>4, AnswerInv
<1>5. CASE ToggleLocal \/ SetPreview \/ RunScheduled \/ LandExternal \/ Outside
  BY <1>5, ToggleLocalInv, SetPreviewInv, RunScheduledInv, LandExternalInv, OutsideInv
<1>6. CASE ReadUnion \/ ReadFrozen \/ ReadDrop \/ ReadRevert \/ Check
  BY <1>6, ReadUnionInv, ReadFrozenInv, ReadDropInv, ReadRevertInv, CheckInv
<1>7. CASE PutUnion \/ PutFrozen \/ PutDrop \/ Patch \/ Fail
  BY <1>7, PutUnionInv, PutFrozenInv, PutDropInv, PatchInv, FailInv
<1>8. CASE UNCHANGED vars
  BY <1>8, StutterInv
<1> QED
  BY <1>1, <1>2, <1>3, <1>4, <1>5, <1>6, <1>7, <1>8

LEMMA AlwaysInv == Spec => []StagingInv
  BY InitInv, StepInv, PTL DEF Spec

\* The marks of a frozen view rebuild the index it was opened on or last wrote,
\* and a view no other program wrote under shows the file and tells what the
\* index holds, whatever keys, failures and re-reads came before
\* (frozen_staging's held, remark, _show_reverted).
THEOREM MarksHold == Spec => []MarksTellIndex
<1>1. StagingInv => MarksTellIndex
  <2> SUFFICES ASSUME StagingInv PROVE MarksTellIndex
    OBVIOUS
  <2>1. Frozen(view) => view.held = Splice(view, view.staged)
    BY DEF StagingInv, ViewInv, Coherent
  <2>2. view.kind \in {"union", "index", "preview", "local"}
    BY DEF StagingInv, TypeOK, View
  <2>3. view.open /\ op.at = "idle" /\ sched = "none" /\ outside = view.asof =>
          Tells(view, head, index, work)
    BY DEF StagingInv, ViewInv, Clean
  <2> QED
    BY <2>1, <2>2, <2>3 DEF StagingInv, MarksTellIndex, Tells, DrawnCurrent
<1> QED
  BY <1>1, AlwaysInv, PTL
\* A key writes the index in its put, and the file in X's patch.
LEMMA Writers ==
  ASSUME StagingInv, [Next]_vars, OwnWrite
  PROVE  /\ index' = index \/ (op.at = "put" /\ index' = op.text)
         /\ work' = work \/ Patch
<1>1. ~Outside
  <2>1. outside \in Nat
    BY InvGood
  <2> QED
    BY <2>1 DEF Outside, OwnWrite
<1>2. CASE \E p \in Place : StageHunk(p) \/ UnstageHunk(p)
  BY <1>2 DEF StageHunk, UnstageHunk, Repo
<1>3. CASE \E want \in BOOLEAN : ToggleAll(want) \/ \E todo \in SUBSET Place : ToggleLines(todo, want)
  BY <1>3 DEF ToggleAll, ToggleLines, Repo
<1>4. CASE \E do \in {"revert", "revertLines"}, todo \in SUBSET Place : Revert(do, todo)
  BY <1>4 DEF Revert, Repo
<1>5. CASE \E yes \in BOOLEAN : Answer(yes)
  BY <1>5 DEF Answer, Repo
<1>6. CASE ToggleLocal \/ SetPreview \/ RunScheduled \/ LandExternal
  BY <1>6 DEF ToggleLocal, SetPreview, RunScheduled, LandExternal, Repo
<1>7. CASE ReadUnion \/ ReadFrozen \/ ReadDrop \/ ReadRevert \/ Check \/ Fail
  BY <1>7 DEF ReadUnion, ReadFrozen, ReadDrop, ReadRevert, Check, Fail, Repo
<1>8. CASE PutUnion \/ PutFrozen \/ PutDrop
  BY <1>8 DEF PutUnion, PutFrozen, PutDrop
<1>9. CASE Patch
  BY <1>9 DEF Patch
<1>10. CASE UNCHANGED vars
  BY <1>10 DEF vars
<1> QED
  BY <1>1, <1>2, <1>3, <1>4, <1>5, <1>6, <1>7, <1>8, <1>9, <1>10 DEF Next

\* A write of the index takes none of what others staged: every place that the
\* key was not asked to move is as it read it (frozen_staging's apply,
\* drop_hidden and put of a union).
THEOREM RestKept == Spec => KeepsTheRest
<1>1. ASSUME StagingInv, [Next]_vars, index' # index, OwnWrite
      PROVE  \A p \in Place \ Moving(op) : index'[p] = op.seen[p]
  BY <1>1, Writers DEF StagingInv, TextInv
<1> QED
  BY <1>1, AlwaysInv, PTL DEF Spec, KeepsTheRest

\* X writes the file only after a yes, only at the places it was asked about,
\* and only where the file has what the prompt's diff showed: never what was
\* drawn under the prompt (revert_hunk, _confirmed, revert_worktree).
THEOREM ShownReverted == Spec => RevertsWhatWasShown
<1>1. ASSUME StagingInv, [Next]_vars, NEW p \in Place, work'[p] # work[p], OwnWrite
      PROVE  /\ op.asked /\ p \in op.todo
             /\ work[p] = op.shows.new[p] /\ work'[p] = op.shows.old[p]
  <2>1. Patch
    BY <1>1, Writers
  <2>2. /\ op.at = "patch"
        /\ op.file => \A q \in op.todo : work[q] = Drawn(view)[q]
        /\ work' = IF op.file THEN Over(work, op.todo, view.old) ELSE work
    BY <2>1 DEF Patch
  <2>3. work \in File /\ view.old \in File /\ op.file
    BY <1>1, <2>2, InvGood DEF View
  <2>4. work'[p] = IF p \in op.todo THEN view.old[p] ELSE work[p]
    BY <2>2, <2>3, OverType
  <2>5. op.asked /\ op.shows = [old |-> view.old, new |-> Drawn(view)]
    BY <1>1, <2>2 DEF StagingInv, StageInv, LiveInv, Live, Running
  <2> QED
    BY <1>1, <2>2, <2>3, <2>4, <2>5
<1>2. StagingInv /\ [Next]_vars =>
        \A p \in Place : work'[p] # work[p] /\ OwnWrite =>
          /\ op.asked /\ p \in op.todo
          /\ work[p] = op.shows.new[p] /\ work'[p] = op.shows.old[p]
  BY <1>1
<1> QED
  BY <1>2, AlwaysInv, PTL DEF Spec, RevertsWhatWasShown

\* u and U drop what is staged and in neither HEAD nor the file only after a
\* yes, as long as no other program writes (unheld, hides_staged).
THEOREM AskedBeforeDrop == Spec => DropsAsked
<1>1. ASSUME StagingInv, [Next]_vars, NEW p \in Place, index'[p] # index[p], OwnWrite, ~op.want,
             outside = (IF view.kind = "local" THEN view.asof ELSE op.since),
             index[p] \notin {head[p], work[p]}
      PROVE  op.asked
  <2> SUFFICES ASSUME ~op.asked PROVE FALSE
    OBVIOUS
  <2>1. op.at = "put" /\ index' = op.text /\ Running
    BY <1>1, Writers DEF Running
  <2>2. /\ op \in Op /\ view \in View /\ outside \in Nat /\ sched = "none"
        /\ Good(view, head, index, work)
    BY <1>1, <2>1, InvGood
  <2>3. /\ view.asof <= op.since /\ op.since <= outside /\ op.do # "drop"
        /\ view.asof \in Nat /\ op.since \in Nat /\ view.open
    BY <1>1, <2>1, <2>2, StagingAssumption
       DEF StagingInv, LiveInv, Live, StageInv, Running, Reverts, View, Op
  <2>4. outside = op.since
    BY <1>1, <2>2, <2>3
  <2>5. op.seen = index /\ p \in Moving(op)
    BY <1>1, <2>1, <2>4 DEF StagingInv, TextInv
  <2>6. p \in op.todo
    BY <1>1, <2>1, <2>5, MovingType
  <2>7. CASE ~Frozen(view)
    BY <1>1, <2>1, <2>4, <2>6, <2>7 DEF StagingInv, UnaskedInv
  <2>8. CASE Frozen(view)
    <3>1. op.seen = view.held /\ view.held = Splice(view, view.staged)
      BY <1>1, <2>1, <2>3, <2>8 DEF StagingInv, TextInv, ViewInv, Coherent
    <3>2. p \in view.staged \ view.gone
      BY <1>1, <2>1, <2>6, <2>8 DEF StagingInv, UnaskedInv
    <3>3. index[p] = view.new[p]
      BY <2>2, <2>5, <3>1, <3>2, OverType DEF Splice, View
    <3>4. CASE view.kind = "local"
      <4>1. work = Drawn(view)
        BY <1>1, <2>2, <2>3, <3>4 DEF Good, Tells
      <4> QED
        BY <1>1, <2>2, <3>2, <3>3, <4>1, OverType DEF Drawn, View
    <3>5. CASE view.kind \in {"index", "preview"}
      BY <1>1, <2>1, <2>4, <2>6, <3>3, <3>5 DEF StagingInv, UnaskedInv
    <3> QED
      BY <2>2, <2>8, <3>4, <3>5 DEF View, Frozen
  <2> QED
    BY <2>7, <2>8
<1>2. StagingInv /\ [Next]_vars =>
        \A p \in Place : index'[p] # index[p] /\ OwnWrite /\ ~op.want
                           /\ outside = (IF view.kind = "local" THEN view.asof ELSE op.since)
                           /\ index[p] \notin {head[p], work[p]}
          => op.asked
  BY <1>1
<1> QED
  BY <1>2, AlwaysInv, PTL DEF Spec, DropsAsked

-----------------------------------------------------------------------------
(* CatFile.                                                                *)

\* r is on the list w.
In(r, w) == \E i \in 1..Len(w) : w[i] = r

\* Nobody is on the list w twice.
Once(w) == \A i, k \in 1..Len(w) : w[i] = w[k] => i = k

\* A process that was given up keeps nothing, the one that was not is the root's, and
\* the timer of a process runs while somebody waits.
ProcInv ==
  /\ procs # None => ~proc[procs].dead
  /\ \A p \in Reads :
       /\ ~proc[p].dead => procs = p
       /\ proc[p].dead => proc[p].waiting = <<>> /\ proc[p].parts = <<>>
       /\ proc[p].timer <=> proc[p].waiting # <<>>

\* The list of the root's process.
OnList == IF procs = None THEN <<>> ELSE proc[procs].waiting

\* Who is on the list w waits once and has been told nothing yet; who has a call under
\* way and no result is on it; and nobody has another's object.
Waits(calls, w) ==
  /\ Once(w)
  /\ \A r \in Reads :
       /\ In(r, w) => calls[r].at \notin {"idle", "version"} /\ calls[r].dones = 0
       /\ calls[r].dones <= 1
       /\ calls[r].at \in {"idle", "version"} => calls[r].dones = 0
       /\ calls[r].at \in {"yielding", "blocking"} /\ calls[r].result = {} => In(r, w)
       /\ \A v \in calls[r].value \cup calls[r].result : v.answered => v.object \in {r, None}

\* The holds are those of the sessions that have not released theirs.
Held == {c \in Sessions : session[c] = "held"}
HoldInv == IsFiniteSet(Held) /\ holds = Cardinality(Held)

\* Which piece may follow a piece.
Follows(a, b) ==
  /\ a = "start" => b \in {"found", "missing", "junk"}
  /\ a = "found" => b = "body"
  /\ a \in {"missing", "junk", "body"} => b = "start"

\* The stream x is replies to the reads of w, in order and from the first one on, of
\* which the last may be cut: its i-th piece is of the o[i]-th read.
Stream(w, x, o) ==
  /\ o \in [1..Len(x) -> 1..Len(w)]
  /\ x # <<>> => x[1].is = "start" /\ o[1] = 1
  /\ \A i \in 1..Len(x) : x[i].of = w[o[i]]
  /\ \A i \in 1..Len(x) : i + 1 \in 1..Len(x) =>
       /\ Follows(x[i].is, x[i + 1].is)
       /\ o[i + 1] = IF x[i + 1].is = "start" THEN o[i] + 1 ELSE o[i]
  /\ \A i, k \in 1..Len(x) : i <= k => o[i] <= o[k]

\* The reads of w that x has no reply to are in, and its last reply is whole.
Rest(w, x, o, in) ==
  LET k == IF x = <<>> THEN 0 ELSE o[Len(x)]
  IN  /\ x # <<>> => x[Len(x)].is \in {"missing", "junk", "body"}
      /\ Len(w) = k + Len(in)
      /\ \A j \in 1..Len(in) : in[j] = w[k + j]

\* Of a process that is at, with the requests in still to answer.
Streams(w, x, at, in) ==
  \E o \in [1..Len(x) -> 1..Len(w)] : Stream(w, x, o) /\ (at = "up" => Rest(w, x, o, in))

\* What the root's process has sent and will send is for those who wait, in their order.
StreamInv ==
  procs # None =>
    Streams(proc[procs].waiting, proc[procs].parts \o git[procs].out,
            git[procs].at, git[procs].in)

CoreInv ==
  /\ procs \in Reads \cup {None} /\ proc \in [Reads -> Proc] /\ git \in [Reads -> Git]
  /\ read \in [Reads -> Call]
  /\ ProcInv /\ StreamInv /\ Waits(read, OnList)
SideInv ==
  /\ session \in [Sessions -> {"closed", "held", "released"}]
  /\ hasNul \in BOOLEAN /\ nulSupported \in BOOLEAN /\ HoldInv

\* A read that asks git's version while nobody holds the root did so at the last
\* release, and a process on such a root was started by one.
LateInv ==
  /\ late \subseteq Reads
  /\ \A r \in Reads : read[r].at = "version" /\ holds = 0 => r \in late
  /\ StoppedButLate

CatInv == CoreInv /\ SideInv /\ LateInv

\* Of a set of naturals, one is the least.
LEMMA LeastOf ==
  ASSUME NEW T \in SUBSET Nat, T # {}
  PROVE  \E x \in T : \A y \in T : x <= y
<1> DEFINE R == {ss \in Nat \X Nat : ss[1] < ss[2]}
<1>1. IsWellFoundedOn(R, Nat)
  BY NatLessThanWellFounded, Zenon DEF OpToRel
<1>2. \A x, y \in Nat : y < x => <<y, x>> \in R
  OBVIOUS
<1> HIDE DEF R
<1>3. \E x \in T : \A y \in T : ~(<<y, x>> \in R)
  BY <1>1, WFMin
<1>4. \A x, y \in Nat : y < x \/ x <= y
  OBVIOUS
<1> QED
  BY <1>2, <1>3, <1>4, Zenon

\* Induction, over a set of naturals.
LEMMA Inductive ==
  ASSUME NEW T \in SUBSET Nat, 0 \in T, \A n \in T : n + 1 \in T
  PROVE  T = Nat
<1> SUFFICES ASSUME Nat \ T # {} PROVE FALSE
  OBVIOUS
<1>1. PICK x \in Nat \ T : \A y \in Nat \ T : x <= y
  BY LeastOf
<1>2. x - 1 \in Nat /\ x - 1 + 1 = x /\ ~(x <= x - 1)
  BY <1>1
<1>3. x - 1 \in T
  BY <1>1, <1>2
<1> QED
  BY <1>1, <1>2, <1>3

\* A function may be defined by what it is at 0 and one step of a function F on.
Iterated(S, F, a) ==
  \E g \in [Nat -> S] : g[0] = a /\ \A n \in Nat : g[n + 1] = F[g[n]]

LEMMA Iterates ==
  ASSUME NEW S, NEW F \in [S -> S], NEW a \in S
  PROVE  Iterated(S, F, a)
<1> DEFINE Up(n, h) == /\ h \in [0..n -> S] /\ h[0] = a
                       /\ \A k \in 0..n : k + 1 \in 0..n => h[k + 1] = F[h[k]]
           T == {n \in Nat : \E h : Up(n, h)}
           U == {k \in Nat : \A n, m \in Nat : \A h, j :
                   Up(n, h) /\ Up(m, j) /\ k <= n /\ k <= m => h[k] = j[k]}
<1>1. T = Nat
  <2>1. 0 \in T
    <3>1. Up(0, [k \in 0..0 |-> a])
      OBVIOUS
    <3> QED
      BY <3>1
  <2>2. ASSUME NEW n \in T PROVE n + 1 \in T
    <3>1. PICK h : Up(n, h)
      OBVIOUS
    <3> DEFINE j == [k \in 0..(n + 1) |-> IF k = n + 1 THEN F[h[n]] ELSE h[k]]
    <3>2. \A k \in 0..(n + 1) : k = n + 1 \/ k \in 0..n
      OBVIOUS
    <3>3. j \in [0..(n + 1) -> S] /\ j[0] = a
      BY <3>1, <3>2
    <3>4. ASSUME NEW k \in 0..(n + 1), k + 1 \in 0..(n + 1)
          PROVE  j[k + 1] = F[j[k]]
      <4>1. k \in 0..n /\ k # n + 1 /\ j[k] = h[k]
        BY <3>4
      <4>2. CASE k = n
        BY <4>1, <4>2
      <4>3. CASE k # n
        <5>1. k + 1 \in 0..n /\ k + 1 # n + 1 /\ j[k + 1] = h[k + 1]
          BY <3>4, <4>3
        <5> QED
          BY <3>1, <4>1, <5>1
      <4> QED
        BY <4>2, <4>3
    <3>5. Up(n + 1, j)
      BY <3>3, <3>4
    <3> HIDE DEF Up
    <3> QED
      BY <3>5
  <2> HIDE DEF T
  <2>3. T \in SUBSET Nat
    BY DEF T
  <2> QED
    BY <2>1, <2>2, <2>3, Inductive
<1>2. U = Nat
  <2>1. 0 \in U
    OBVIOUS
  <2>2. ASSUME NEW k \in U PROVE k + 1 \in U
    <3> SUFFICES ASSUME NEW n \in Nat, NEW m \in Nat, NEW h, NEW j,
                        Up(n, h), Up(m, j), k + 1 <= n, k + 1 <= m
                 PROVE  h[k + 1] = j[k + 1]
      <4>1. k \in Nat /\ k + 1 \in Nat
        OBVIOUS
      <4> HIDE DEF Up
      <4> QED
        BY <4>1
    <3>1. k \in 0..n /\ k + 1 \in 0..n /\ k \in 0..m /\ k + 1 \in 0..m /\ k <= n /\ k <= m
      OBVIOUS
    <3>2. h[k] = j[k]
      <4> HIDE DEF Up
      <4> QED
        BY <3>1
    <3> QED
      BY <3>1, <3>2
  <2> HIDE DEF U
  <2>3. U \in SUBSET Nat
    BY DEF U
  <2> QED
    BY <2>1, <2>2, <2>3, Inductive
<1> DEFINE H(n) == CHOOSE h : Up(n, h)
           g == [n \in Nat |-> H(n)[n]]
<1>3. \A n \in Nat : Up(n, H(n))
  <2> HIDE DEF Up
  <2> QED
    BY <1>1
<1> HIDE DEF H
<1>4. g \in [Nat -> S] /\ g[0] = a
  BY <1>3
<1>5. ASSUME NEW n \in Nat PROVE g[n + 1] = F[g[n]]
  <2>1. Up(n + 1, H(n + 1)) /\ Up(n, H(n)) /\ n + 1 \in Nat /\ n <= n + 1 /\ n <= n
    BY <1>3
  <2>2. H(n + 1)[n] = H(n)[n]
    <3> HIDE DEF Up
    <3>1. n \in U
      BY <1>2
    <3> QED
      BY <2>1, <3>1
  <2>3. H(n + 1)[n + 1] = F[H(n + 1)[n]]
    BY <2>1
  <2> QED
    BY <2>2, <2>3
<1> QED
  BY <1>4, <1>5 DEF Iterated

-----------------------------------------------------------------------------
(* settle.                                                                 *)

Settling == [waiting : Seq(Reads), parts : Seq(Piece), at : {"go", "wait", "bad"},
             given : [Reads -> SUBSET Result]]

\* A reply of n pieces is taken off the stream and given to the first on the list.
Give(s, n, object) ==
  [s EXCEPT !.waiting = Tail(@), !.parts = SubSeq(@, n + 1, Len(@)),
            !.given = [@ EXCEPT ![Head(s.waiting)] = {[answered |-> TRUE, object |-> object]}]]

\* The reply at the front of parts x is whole: n pieces that tell of the object.
Whole(x, n, object) ==
  \/ n = 3 /\ Len(x) >= 3 /\ x[2].is = "found" /\ object = x[2].of
  \/ n = 2 /\ Len(x) >= 2 /\ x[2].is = "missing" /\ object = None

\* SettleOne leaves the lists alone or gives one reply.
LEMMA SettleOneIs ==
  ASSUME NEW s \in Settling
  PROVE  \/ SettleOne(s) \in {s, [s EXCEPT !.at = "wait"], [s EXCEPT !.at = "bad"]}
         \/ /\ s.waiting # <<>>
            /\ \E n \in {2, 3}, object \in Reads \cup {None} :
                 Whole(s.parts, n, object) /\ SettleOne(s) = Give(s, n, object)
<1>0. s.parts \in Seq(Piece) /\ Len(s.parts) \in Nat
  BY DEF Settling
<1>1. CASE s.at # "go" \/ s.waiting = <<>>
  <2>1. SettleOne(s) = s
    BY <1>1 DEF SettleOne
  <2> QED
    BY <2>1
<1>2. CASE ~(s.at # "go" \/ s.waiting = <<>>) /\ Len(s.parts) < 2
  <2>1. SettleOne(s) = [s EXCEPT !.at = "wait"]
    BY <1>2 DEF SettleOne
  <2> QED
    BY <2>1
<1>3. CASE ~(s.at # "go" \/ s.waiting = <<>>) /\ ~(Len(s.parts) < 2)
  <2>1. s.parts[2] \in Piece
    BY <1>0, <1>3
  <2>2. CASE s.parts[2].is = "found"
    <3>1. SettleOne(s) = IF Len(s.parts) < 3 THEN [s EXCEPT !.at = "wait"]
                         ELSE Give(s, 3, s.parts[2].of)
      BY <1>3, <2>2 DEF SettleOne, Give
    <3>2. CASE Len(s.parts) < 3
      BY <3>1, <3>2
    <3>3. CASE ~(Len(s.parts) < 3)
      <4>1. Whole(s.parts, 3, s.parts[2].of) /\ s.parts[2].of \in Reads
        BY <1>0, <2>1, <2>2, <3>3 DEF Whole, Piece
      <4>2. SettleOne(s) = Give(s, 3, s.parts[2].of)
        BY <3>1, <3>3
      <4> QED
        BY <1>3, <4>1, <4>2
    <3> QED
      BY <3>2, <3>3
  <2>3. CASE s.parts[2].is = "missing" /\ s.parts[2].of = Head(s.waiting)
    <3>1. SettleOne(s) = Give(s, 2, None)
      BY <1>3, <2>3 DEF SettleOne, Give
    <3>2. Whole(s.parts, 2, None)
      BY <1>0, <1>3, <2>3 DEF Whole
    <3> QED
      BY <1>3, <3>1, <3>2
  <2>4. CASE s.parts[2].is # "found" /\ ~(s.parts[2].is = "missing" /\ s.parts[2].of = Head(s.waiting))
    <3>1. SettleOne(s) = [s EXCEPT !.at = "bad"]
      BY <1>3, <2>4 DEF SettleOne
    <3> QED
      BY <3>1
  <2> QED
    BY <2>2, <2>3, <2>4
<1> QED
  BY <1>1, <1>2, <1>3

LEMMA FirstOf ==
  ASSUME NEW S, NEW w \in Seq(S), w # <<>>
  PROVE  /\ Head(w) = w[1] /\ w[1] \in S /\ Len(w) \in Nat /\ Len(w) >= 1
         /\ Tail(w) \in Seq(S) /\ Len(Tail(w)) = Len(w) - 1
         /\ \A i \in 1..Len(Tail(w)) : Tail(w)[i] = w[i + 1]
<1>1. Len(w) \in Nat /\ Len(w) >= 1
  OBVIOUS
<1>2. Head(w) = w[1] /\ w[1] \in S
  BY <1>1
<1>3. Tail(w) \in Seq(S) /\ Len(Tail(w)) = Len(w) - 1
  BY HeadTailProperties
<1>4. \A i \in 1..Len(Tail(w)) : Tail(w)[i] = w[i + 1]
  BY HeadTailProperties
<1> QED
  BY <1>1, <1>2, <1>3, <1>4

Gave(g, s, n, object) ==
  /\ g \in Settling
  /\ g.waiting = Tail(s.waiting)
  /\ g.parts = SubSeq(s.parts, n + 1, Len(s.parts))
  /\ g.given = [s.given EXCEPT ![Head(s.waiting)] = {[answered |-> TRUE, object |-> object]}]

LEMMA GiveIs ==
  ASSUME NEW s \in Settling, NEW n \in {2, 3}, NEW object \in Reads \cup {None},
         s.waiting # <<>>, Whole(s.parts, n, object)
  PROVE  Gave(Give(s, n, object), s, n, object)
<1> DEFINE g == Give(s, n, object)
           G == [s.given EXCEPT ![Head(s.waiting)] = {[answered |-> TRUE, object |-> object]}]
<1>1. /\ s.waiting \in Seq(Reads) /\ s.parts \in Seq(Piece) /\ s.given \in [Reads -> SUBSET Result]
      /\ Len(s.parts) \in Nat /\ s.at \in {"go", "wait", "bad"}
  BY DEF Settling
<1>2. Tail(s.waiting) \in Seq(Reads)
  BY <1>1, FirstOf
<1>3. SubSeq(s.parts, n + 1, Len(s.parts)) \in Seq(Piece)
  <2>1. \A i \in (n + 1)..Len(s.parts) : s.parts[i] \in Piece
    BY <1>1
  <2> QED
    BY <1>1, <2>1, SubSeqProperties
<1>4. G \in [Reads -> SUBSET Result]
  <2>1. {[answered |-> TRUE, object |-> object]} \in SUBSET Result
    BY DEF Result
  <2> QED
    BY <1>1, <2>1
<1>5. /\ g.waiting = Tail(s.waiting) /\ g.parts = SubSeq(s.parts, n + 1, Len(s.parts))
      /\ g.given = G /\ g.at = s.at
      /\ g = [waiting |-> Tail(s.waiting), parts |-> SubSeq(s.parts, n + 1, Len(s.parts)),
              at |-> s.at, given |-> G]
  <2> DEFINE u == {[answered |-> TRUE, object |-> object]}
  <2>1. g = [s EXCEPT !.waiting = Tail(s.waiting), !.parts = SubSeq(s.parts, n + 1, Len(s.parts)),
                      !.given = [s.given EXCEPT ![Head(s.waiting)] = u]]
    BY DEF Give, Settling
  <2> HIDE DEF u
  <2>2. G = [s.given EXCEPT ![Head(s.waiting)] = u]
    BY DEF u
  <2> HIDE DEF g, G
  <2>3. g = [s EXCEPT !.waiting = Tail(s.waiting), !.parts = SubSeq(s.parts, n + 1, Len(s.parts)),
                      !.given = G]
    BY <2>1, <2>2
  <2> QED
    BY <2>3 DEF Settling
<1> HIDE DEF g, G
<1>6. g \in Settling
  BY <1>1, <1>2, <1>3, <1>4, <1>5 DEF Settling
<1> QED
  BY <1>5, <1>6 DEF Gave, g, G

LEMMA SettleOneType ==
  ASSUME NEW s \in Settling
  PROVE  SettleOne(s) \in Settling
<1>1. [s EXCEPT !.at = "wait"] \in Settling /\ [s EXCEPT !.at = "bad"] \in Settling
  BY DEF Settling
<1>2. CASE s.waiting # <<>> /\ \E n \in {2, 3}, object \in Reads \cup {None} :
              Whole(s.parts, n, object) /\ SettleOne(s) = Give(s, n, object)
  <2>1. PICK n \in {2, 3}, object \in Reads \cup {None} :
          Whole(s.parts, n, object) /\ SettleOne(s) = Give(s, n, object)
    BY <1>2
  <2>2. Give(s, n, object) \in Settling
    BY <1>2, <2>1, GiveIs DEF Gave
  <2> QED
    BY <2>1, <2>2
<1>3. CASE SettleOne(s) \in {s, [s EXCEPT !.at = "wait"], [s EXCEPT !.at = "bad"]}
  BY <1>1, <1>3
<1> QED
  BY <1>2, <1>3, SettleOneIs

\* Where settle's loop begins on the record p, and that it is the loop it is.
Opening(p) == [waiting |-> p.waiting, parts |-> p.parts, at |-> "go",
             given |-> [r \in Reads |-> {}]]

LEMMA SettledIs ==
  ASSUME NEW p, p.waiting \in Seq(Reads), p.parts \in Seq(Piece)
  PROVE  \E g \in [Nat -> Settling] :
           /\ g[0] = Opening(p) /\ \A n \in Nat : g[n + 1] = SettleOne(g[n])
           /\ Settled(p) = g[Len(p.waiting) + 1]
<1> DEFINE F == [s \in Settling |-> SettleOne(s)]
           Loop(f) == [n \in Nat |-> IF n = 0 THEN Opening(p) ELSE SettleOne(f[n - 1])]
           f == CHOOSE s : s = Loop(s)
<1>1. F \in [Settling -> Settling]
  BY SettleOneType
<1>2. Opening(p) \in Settling
  BY DEF Opening, Settling
<1>0. \A s \in Settling : F[s] = SettleOne(s)
  OBVIOUS
<1> HIDE DEF F, Loop, f
<1>3. PICK g \in [Nat -> Settling] : g[0] = Opening(p) /\ \A n \in Nat : g[n + 1] = F[g[n]]
  <2>1. Iterated(Settling, F, Opening(p))
    BY <1>1, <1>2, Iterates
  <2> QED
    BY <2>1 DEF Iterated
<1>4. ASSUME NEW n \in Nat \ {0} PROVE g[n] = SettleOne(g[n - 1])
  <2>1. n - 1 \in Nat /\ n - 1 + 1 = n
    OBVIOUS
  <2>2. g[n - 1] \in Settling /\ g[n - 1 + 1] = F[g[n - 1]]
    BY <1>3, <2>1
  <2> QED
    BY <1>0, <2>1, <2>2
<1>5. g = Loop(g)
  BY <1>3, <1>4 DEF Loop
<1>6. f = Loop(f)
  BY <1>5, Zenon DEF f
<1>7. Settled(p) = f[Len(p.waiting) + 1]
  BY DEF Settled, Opening, f, Loop
<1>8. f[0] = Opening(p)
  BY <1>6 DEF Loop
<1>9. \A n \in Nat : f[n + 1] = SettleOne(f[n])
  <2>1. ASSUME NEW n \in Nat PROVE f[n + 1] = SettleOne(f[n])
    <3>1. n + 1 \in Nat /\ n + 1 # 0 /\ n + 1 - 1 = n
      OBVIOUS
    <3>2. f[n + 1] = SettleOne(f[n + 1 - 1])
      BY <1>6, <3>1 DEF Loop
    <3> QED
      BY <3>1, <3>2
  <2> QED
    BY <2>1
<1>10. f = [n \in Nat |-> f[n]]
  BY <1>6 DEF Loop
<1>11. f \in [Nat -> Settling]
  <2> DEFINE T == {n \in Nat : f[n] \in Settling}
  <2>1. 0 \in T
    BY <1>2, <1>8
  <2>2. ASSUME NEW n \in T PROVE n + 1 \in T
    <3>1. f[n + 1] = SettleOne(f[n]) /\ SettleOne(f[n]) \in Settling
      BY <1>9, SettleOneType
    <3> QED
      BY <3>1
  <2>3. T = Nat
    <3>1. T \in SUBSET Nat
      OBVIOUS
    <3> HIDE DEF T
    <3> QED
      BY <2>1, <2>2, <3>1, Inductive
  <2> QED
    BY <1>10, <2>3
<1> QED
  BY <1>7, <1>8, <1>9, <1>11

-----------------------------------------------------------------------------
(* The stream.                                                             *)

LEMMA DropFront ==
  ASSUME NEW q \in Seq(Piece), NEW t \in Seq(Piece), NEW n \in Nat, n <= Len(q)
  PROVE  /\ SubSeq(q, n + 1, Len(q)) \o t \in Seq(Piece)
         /\ Len(SubSeq(q, n + 1, Len(q)) \o t) = Len(q \o t) - n
         /\ \A i \in 1..Len(SubSeq(q, n + 1, Len(q)) \o t) :
              (SubSeq(q, n + 1, Len(q)) \o t)[i] = (q \o t)[n + i]
<1> DEFINE b == SubSeq(q, n + 1, Len(q))
           x == q \o t
           y == b \o t
<1>1. Len(q) \in Nat /\ Len(t) \in Nat
  OBVIOUS
<1>2. \A i \in (n + 1)..Len(q) : q[i] \in Piece
  BY <1>1
<1>3. /\ b \in Seq(Piece) /\ Len(b) = Len(q) - n
      /\ \A i \in 1..Len(b) : b[i] = q[n + i]
  <2>1. /\ b \in Seq(Piece) /\ Len(b) = IF n + 1 <= Len(q) THEN Len(q) - (n + 1) + 1 ELSE 0
        /\ \A i \in 1..(Len(q) - (n + 1) + 1) : b[i] = q[n + 1 + i - 1]
    BY <1>1, <1>2, SubSeqProperties
  <2> HIDE DEF b
  <2>2. Len(b) = Len(q) - n
    BY <1>1, <2>1
  <2>3. \A i \in 1..Len(b) : i \in 1..(Len(q) - (n + 1) + 1) /\ n + 1 + i - 1 = n + i
    BY <1>1, <2>2
  <2> QED
    BY <2>1, <2>2, <2>3
<1> HIDE DEF b
<1>4. /\ x \in Seq(Piece) /\ Len(x) = Len(q) + Len(t)
      /\ \A i \in 1..Len(q) + Len(t) : x[i] = IF i <= Len(q) THEN q[i] ELSE t[i - Len(q)]
  BY ConcatProperties
<1>5. /\ y \in Seq(Piece) /\ Len(y) = Len(b) + Len(t)
      /\ \A i \in 1..Len(b) + Len(t) : y[i] = IF i <= Len(b) THEN b[i] ELSE t[i - Len(b)]
  BY <1>3, ConcatProperties
<1> HIDE DEF x, y
<1>6. Len(y) = Len(x) - n
  BY <1>1, <1>3, <1>4, <1>5
<1>7. ASSUME NEW i \in 1..Len(y) PROVE y[i] = x[n + i]
  <2>1. n + i \in 1..Len(q) + Len(t) /\ i \in 1..Len(b) + Len(t) /\ i \in Nat
    BY <1>1, <1>3, <1>5, <1>7
  <2>2. CASE i <= Len(b)
    <3>1. n + i <= Len(q) /\ i \in 1..Len(b)
      BY <1>1, <1>3, <2>1, <2>2
    <3> QED
      BY <1>3, <1>4, <1>5, <2>1, <2>2, <3>1
  <2>3. CASE ~(i <= Len(b))
    <3>1. ~(n + i <= Len(q)) /\ i - Len(b) = (n + i) - Len(q)
      BY <1>1, <1>3, <2>1, <2>3
    <3>2. x[n + i] = t[(n + i) - Len(q)]
      BY <1>4, <2>1, <3>1
    <3>3. y[i] = t[i - Len(b)]
      BY <1>5, <2>1, <2>3
    <3> QED
      BY <3>1, <3>2, <3>3
  <2> QED
    BY <2>2, <2>3
<1> QED
  BY <1>5, <1>6, <1>7 DEF b, x, y

\* y is x without its first reply, of n pieces.
Popped(x, y, n) ==
  /\ n \in {2, 3} /\ n <= Len(x) /\ Len(y) = Len(x) - n
  /\ \A i \in 1..Len(y) : y[i] = x[n + i]
  /\ (n = 3 /\ x[2].is = "found") \/ (n = 2 /\ x[2].is = "missing")

\* A place after n, within l.
LEMMA Shifted ==
  ASSUME NEW l \in Nat, NEW n \in Nat, n <= l, NEW i \in 1..(l - n), i + 1 \in 1..(l - n)
  PROVE  n + i \in 1..l /\ n + i + 1 \in 1..l /\ n + (i + 1) = n + i + 1
OBVIOUS

\* The first reply is of the first read, and without it the rest is of the others.
LEMMA PopStream ==
  ASSUME NEW w \in Seq(Reads), w # <<>>, NEW x \in Seq(Piece), NEW y \in Seq(Piece),
         NEW n, NEW in \in Seq(Reads), NEW at, Popped(x, y, n), Streams(w, x, at, in)
  PROVE  Streams(Tail(w), y, at, in) /\ x[2].of = w[1]
<1>0. /\ n \in {2, 3} /\ n <= Len(x) /\ Len(y) = Len(x) - n
      /\ \A i \in 1..Len(y) : y[i] = x[n + i]
      /\ (n = 3 /\ x[2].is = "found") \/ (n = 2 /\ x[2].is = "missing")
  BY DEF Popped
<1> USE <1>0
<1>1. PICK o \in [1..Len(x) -> 1..Len(w)] : Stream(w, x, o) /\ (at = "up" => Rest(w, x, o, in))
  BY DEF Streams
<1>2. /\ Len(x) \in Nat /\ Len(y) \in Nat /\ Len(w) \in Nat /\ Len(w) >= 1 /\ Len(Tail(w)) = Len(w) - 1
      /\ \A i \in 1..Len(Tail(w)) : Tail(w)[i] = w[i + 1]
  BY FirstOf
<1>3. /\ x # <<>> /\ x[1].is = "start" /\ o[1] = 1
      /\ \A i \in 1..Len(x) : x[i].of = w[o[i]]
      /\ \A i \in 1..Len(x) : i + 1 \in 1..Len(x) =>
           /\ Follows(x[i].is, x[i + 1].is)
           /\ o[i + 1] = IF x[i + 1].is = "start" THEN o[i] + 1 ELSE o[i]
      /\ \A i, k \in 1..Len(x) : i <= k => o[i] <= o[k]
  <2>1. x # <<>>
    BY <1>2
  <2> QED
    BY <1>1, <2>1 DEF Stream
<1>4. 1 \in 1..Len(x) /\ 2 \in 1..Len(x) /\ (n = 3 => 3 \in 1..Len(x))
  BY <1>2
<1>5. o[2] = 1 /\ x[2].of = w[1]
  <2>1. 1 + 1 = 2
    OBVIOUS
  <2>2. o[2] = o[1]
    BY <1>3, <1>4, <2>1
  <2> QED
    BY <1>3, <1>4, <2>2
<1>6. o[n] = 1 /\ x[n].is \in {"missing", "body"}
  <2>1. CASE n = 2
    BY <1>5, <2>1
  <2>2. CASE n = 3
    <3>1. 2 + 1 = 3
      OBVIOUS
    <3>2. x[3].is = "body"
      BY <1>3, <1>4, <2>2, <3>1 DEF Follows
    <3>3. o[3] = o[2]
      BY <1>3, <1>4, <2>2, <3>1, <3>2
    <3> QED
      BY <1>5, <2>2, <3>2, <3>3
  <2> QED
    BY <2>1, <2>2
<1>7. ASSUME NEW i \in 1..Len(y)
      PROVE  /\ n + i \in 1..Len(x) /\ n + 1 \in 1..Len(x) /\ n \in 1..Len(x)
             /\ x[n + 1].is = "start" /\ o[n + 1] = 2 /\ o[n + i] \in 2..Len(w)
  <2>1. n + i \in 1..Len(x) /\ n + 1 \in 1..Len(x) /\ n \in 1..Len(x) /\ n + 1 <= n + i
    BY <1>2
  <2>2. x[n + 1].is = "start"
    BY <1>3, <1>6, <2>1 DEF Follows
  <2>3. o[n + 1] = 2
    BY <1>3, <1>6, <2>1, <2>2
  <2>4. o[n + i] \in 1..Len(w) /\ o[n + 1] <= o[n + i]
    BY <1>3, <2>1
  <2> QED
    BY <1>2, <2>1, <2>2, <2>3, <2>4
<1> DEFINE u == [i \in 1..Len(y) |-> o[n + i] - 1]
<1>8. \A i \in 1..Len(y) : u[i] = o[n + i] - 1 /\ u[i] \in 1..Len(Tail(w)) /\ u[i] + 1 = o[n + i]
  <2>1. ASSUME NEW i \in 1..Len(y)
        PROVE  u[i] = o[n + i] - 1 /\ u[i] \in 1..Len(Tail(w)) /\ u[i] + 1 = o[n + i]
    <3>1. u[i] = o[n + i] - 1
      OBVIOUS
    <3>2. o[n + i] \in 2..Len(w)
      BY <1>7
    <3> HIDE DEF u
    <3>3. \A l, k \in Nat : k \in 2..l => k - 1 \in 1..(l - 1) /\ k - 1 + 1 = k
      OBVIOUS
    <3>4. o[n + i] \in Nat
      BY <3>2
    <3> QED
      BY <1>2, <3>1, <3>2, <3>3, <3>4
  <2> QED
    BY <2>1
<1>9. u \in [1..Len(y) -> 1..Len(Tail(w))]
  BY <1>8
<1> HIDE DEF u
<1>10. y # <<>> => Len(y) >= 1 /\ 1 \in 1..Len(y) /\ Len(y) \in 1..Len(y)
  BY <1>2
<1>11. Stream(Tail(w), y, u)
  <2>1. y # <<>> => y[1].is = "start" /\ u[1] = 1
    <3> SUFFICES ASSUME y # <<>> PROVE y[1].is = "start" /\ u[1] = 1
      OBVIOUS
    <3>1. 1 \in 1..Len(y)
      BY <1>10
    <3>2. x[n + 1].is = "start" /\ o[n + 1] = 2
      BY <1>7, <3>1
    <3>3. y[1] = x[n + 1] /\ u[1] = o[n + 1] - 1
      BY <1>8, <3>1
    <3> QED
      BY <3>2, <3>3
  <2>2. ASSUME NEW i \in 1..Len(y) PROVE y[i].of = Tail(w)[u[i]]
    <3>1. Tail(w)[u[i]] = w[u[i] + 1] /\ u[i] + 1 = o[n + i]
      BY <1>2, <1>8
    <3>2. n + i \in 1..Len(x) /\ y[i] = x[n + i]
      BY <1>7
    <3>3. x[n + i].of = w[o[n + i]]
      BY <1>3, <3>2
    <3> QED
      BY <3>1, <3>2, <3>3
  <2>3. ASSUME NEW i \in 1..Len(y), i + 1 \in 1..Len(y)
        PROVE  /\ Follows(y[i].is, y[i + 1].is)
               /\ u[i + 1] = IF y[i + 1].is = "start" THEN u[i] + 1 ELSE u[i]
    <3>1. n + i \in 1..Len(x) /\ n + i + 1 \in 1..Len(x) /\ n + (i + 1) = n + i + 1
      <4>1. n \in Nat /\ i \in 1..(Len(x) - n) /\ i + 1 \in 1..(Len(x) - n)
        BY <1>2, <2>3
      <4> QED
        BY <1>2, <4>1, Shifted
    <3>2. y[i] = x[n + i] /\ y[i + 1] = x[n + i + 1]
      BY <2>3, <3>1
    <3>3. /\ Follows(x[n + i].is, x[n + i + 1].is)
          /\ o[n + i + 1] = IF x[n + i + 1].is = "start" THEN o[n + i] + 1 ELSE o[n + i]
      BY <1>3, <3>1
    <3>4. u[i + 1] = o[n + i + 1] - 1 /\ u[i] = o[n + i] - 1 /\ o[n + i] \in 1..Len(w)
      BY <1>8, <2>3, <3>1
    <3> QED
      BY <1>2, <3>2, <3>3, <3>4
  <2>4. ASSUME NEW i \in 1..Len(y), NEW k \in 1..Len(y), i <= k PROVE u[i] <= u[k]
    <3>1. n + i \in 1..Len(x) /\ n + k \in 1..Len(x) /\ n + i <= n + k
      BY <1>2, <2>4
    <3>2. o[n + i] <= o[n + k] /\ o[n + i] \in 1..Len(w) /\ o[n + k] \in 1..Len(w)
      BY <1>3, <3>1
    <3> QED
      BY <1>2, <1>8, <3>2
  <2> QED
    BY <1>9, <2>1, <2>2, <2>3, <2>4 DEF Stream
<1>12. ASSUME at = "up" PROVE Rest(Tail(w), y, u, in)
  <2> DEFINE k == IF x = <<>> THEN 0 ELSE o[Len(x)]
             l == IF y = <<>> THEN 0 ELSE u[Len(y)]
  <2>1. /\ x[Len(x)].is \in {"missing", "junk", "body"} /\ k = o[Len(x)]
        /\ Len(w) = k + Len(in) /\ \A j \in 1..Len(in) : in[j] = w[k + j]
    BY <1>1, <1>3, <1>12 DEF Rest
  <2>2. Len(x) \in 1..Len(x) /\ k \in 1..Len(w)
    BY <1>2, <2>1
  <2>3. l = k - 1 /\ (y # <<>> => y[Len(y)].is \in {"missing", "junk", "body"})
    <3>1. CASE y = <<>>
      <4>1. Len(x) = n
        BY <1>2, <3>1
      <4> QED
        BY <1>6, <2>1, <3>1, <4>1
    <3>2. CASE y # <<>>
      <4>1. Len(y) \in 1..Len(y) /\ n + Len(y) = Len(x)
        BY <1>2, <1>10, <3>2
      <4> QED
        BY <1>8, <2>1, <3>2, <4>1
    <3> QED
      BY <3>1, <3>2
  <2> HIDE DEF k, l
  <2>4. Len(Tail(w)) = l + Len(in)
    BY <1>2, <2>1, <2>2, <2>3
  <2>5. ASSUME NEW j \in 1..Len(in) PROVE in[j] = Tail(w)[l + j]
    <3>1. l + j \in 1..Len(Tail(w)) /\ l + j + 1 = k + j
      BY <1>2, <2>2, <2>3, <2>4
    <3> QED
      BY <1>2, <2>1, <3>1
  <2> QED
    BY <2>3, <2>4, <2>5 DEF Rest, l
<1>13. Streams(Tail(w), y, at, in)
  BY <1>9, <1>11, <1>12 DEF Streams
<1> QED
  BY <1>5, <1>13

\* settle's loop: of those who were on the list w everyone is on it still or was given
\* an answer, nobody both, and the answers are their own; the stream is for those left.
LoopInv(s, w, out, at, in) ==
  /\ Once(s.waiting)
  /\ \A r \in Reads : /\ In(r, w) <=> In(r, s.waiting) \/ s.given[r] # {}
                      /\ ~(In(r, s.waiting) /\ s.given[r] # {})
                      /\ \A v \in s.given[r] : v.object \in {r, None}
  /\ Streams(s.waiting, s.parts \o out, at, in)

LEMMA InTail ==
  ASSUME NEW w \in Seq(Reads), w # <<>>, Once(w)
  PROVE  /\ Once(Tail(w))
         /\ \A r \in Reads : /\ In(r, w) <=> r = w[1] \/ In(r, Tail(w))
                             /\ ~(r = w[1] /\ In(r, Tail(w)))
<1>1. /\ Len(w) \in Nat /\ Len(w) >= 1 /\ Len(Tail(w)) = Len(w) - 1
      /\ \A i \in 1..Len(Tail(w)) : Tail(w)[i] = w[i + 1]
  BY FirstOf
<1>2. \A i \in 1..Len(Tail(w)) : i + 1 \in 1..Len(w) /\ i + 1 # 1
  BY <1>1
<1>3. Once(Tail(w))
  <2> SUFFICES ASSUME NEW i \in 1..Len(Tail(w)), NEW k \in 1..Len(Tail(w)), Tail(w)[i] = Tail(w)[k]
               PROVE  i = k
    BY DEF Once
  <2>1. w[i + 1] = w[k + 1]
    BY <1>1
  <2>2. i + 1 = k + 1
    BY <1>2, <2>1 DEF Once
  <2> QED
    BY <1>1, <2>2
<1>4. ASSUME NEW r \in Reads, In(r, w) PROVE r = w[1] \/ In(r, Tail(w))
  <2>1. PICK i \in 1..Len(w) : w[i] = r
    BY <1>4 DEF In
  <2>2. CASE i = 1
    BY <2>1, <2>2
  <2>3. CASE i # 1
    <3>1. i - 1 \in 1..Len(Tail(w)) /\ i - 1 + 1 = i
      BY <1>1, <2>3
    <3>2. Tail(w)[i - 1] = w[i]
      BY <1>1, <3>1
    <3> QED
      BY <2>1, <3>1, <3>2 DEF In
  <2> QED
    BY <2>2, <2>3
<1>5. ASSUME NEW r \in Reads, In(r, Tail(w)) PROVE In(r, w) /\ r # w[1]
  <2>1. PICK i \in 1..Len(Tail(w)) : Tail(w)[i] = r
    BY <1>5 DEF In
  <2>2. w[i + 1] = r /\ i + 1 \in 1..Len(w) /\ 1 \in 1..Len(w) /\ i + 1 # 1
    BY <1>1, <1>2, <2>1
  <2> QED
    BY <2>2 DEF In, Once
<1>6. In(w[1], w)
  BY <1>1 DEF In
<1> QED
  BY <1>3, <1>4, <1>5, <1>6

LEMMA LoopStep ==
  ASSUME NEW s \in Settling, NEW w, NEW out \in Seq(Piece), NEW at, NEW in \in Seq(Reads),
         LoopInv(s, w, out, at, in)
  PROVE  LoopInv(SettleOne(s), w, out, at, in)
<1>0. /\ s.waiting \in Seq(Reads) /\ s.parts \in Seq(Piece) /\ s.given \in [Reads -> SUBSET Result]
      /\ Len(s.parts) \in Nat
  BY DEF Settling
<1>1. CASE SettleOne(s) \in {s, [s EXCEPT !.at = "wait"], [s EXCEPT !.at = "bad"]}
  <2>1. /\ SettleOne(s).waiting = s.waiting /\ SettleOne(s).parts = s.parts
        /\ SettleOne(s).given = s.given
    BY <1>1 DEF Settling
  <2> QED
    BY <2>1 DEF LoopInv
<1>2. ASSUME s.waiting # <<>>, NEW n \in {2, 3}, NEW object \in Reads \cup {None},
             Whole(s.parts, n, object), SettleOne(s) = Give(s, n, object)
      PROVE  LoopInv(SettleOne(s), w, out, at, in)
  <2> DEFINE e == SettleOne(s)
             first == s.waiting[1]
             x == s.parts \o out
             y == e.parts \o out
  <2>1. /\ e.waiting = Tail(s.waiting) /\ e.parts = SubSeq(s.parts, n + 1, Len(s.parts))
        /\ e.given = [s.given EXCEPT ![Head(s.waiting)] = {[answered |-> TRUE, object |-> object]}]
    <3>1. Gave(Give(s, n, object), s, n, object)
      BY <1>2, GiveIs
    <3> QED
      BY <1>2, <3>1 DEF Gave
  <2>2. Head(s.waiting) = first /\ first \in Reads
    BY <1>0, <1>2, FirstOf
  <2> HIDE DEF e, first
  <2>3. n \in Nat /\ n <= Len(s.parts) /\ 2 \in 1..Len(s.parts)
    BY <1>0, <1>2 DEF Whole
  <2>4. y \in Seq(Piece) /\ Len(y) = Len(x) - n /\ \A i \in 1..Len(y) : y[i] = x[n + i]
    <3> DEFINE q == s.parts
    <3>1. y = SubSeq(q, n + 1, Len(q)) \o out /\ x = q \o out /\ q \in Seq(Piece) /\ n <= Len(q)
      BY <1>0, <2>1, <2>3
    <3> HIDE DEF q, x, y
    <3>2. /\ SubSeq(q, n + 1, Len(q)) \o out \in Seq(Piece)
          /\ Len(SubSeq(q, n + 1, Len(q)) \o out) = Len(q \o out) - n
          /\ \A i \in 1..Len(SubSeq(q, n + 1, Len(q)) \o out) :
               (SubSeq(q, n + 1, Len(q)) \o out)[i] = (q \o out)[n + i]
      BY <2>3, <3>1, DropFront
    <3> QED
      BY <3>1, <3>2, Zenon
  <2>5. x \in Seq(Piece) /\ n <= Len(x) /\ x[2] = s.parts[2]
    <3>1. /\ x \in Seq(Piece) /\ Len(x) = Len(s.parts) + Len(out)
          /\ \A i \in 1..Len(s.parts) + Len(out) :
               x[i] = IF i <= Len(s.parts) THEN s.parts[i] ELSE out[i - Len(s.parts)]
      BY <1>0, ConcatProperties
    <3>2. Len(out) \in Nat
      OBVIOUS
    <3> HIDE DEF x
    <3>3. 2 \in 1..Len(s.parts) + Len(out) /\ 2 <= Len(s.parts)
      BY <1>0, <2>3, <3>2
    <3> QED
      BY <1>0, <2>3, <3>1, <3>2, <3>3
  <2>6. Streams(s.waiting, x, at, in) /\ Once(s.waiting)
    BY DEF LoopInv
  <2> HIDE DEF x, y
  <2>7. (n = 3 /\ x[2].is = "found") \/ (n = 2 /\ x[2].is = "missing")
    BY <1>2, <2>5 DEF Whole
  <2>8. Streams(Tail(s.waiting), y, at, in) /\ x[2].of = first
    <3> DEFINE l == s.waiting
    <3>1. l \in Seq(Reads) /\ l # <<>> /\ Streams(l, x, at, in)
      BY <1>0, <1>2, <2>6
    <3> HIDE DEF l
    <3>2. Popped(x, y, n)
      BY <1>2, <2>4, <2>5, <2>7 DEF Popped
    <3>3. Streams(Tail(l), y, at, in) /\ x[2].of = l[1]
      BY <2>4, <2>5, <3>1, <3>2, PopStream
    <3> QED
      BY <3>3 DEF first, l
  <2>9. object \in {first, None}
    BY <1>2, <2>5, <2>8 DEF Whole
  <2>10. \A r \in Reads : /\ In(r, s.waiting) <=> r = first \/ In(r, Tail(s.waiting))
                          /\ ~(r = first /\ In(r, Tail(s.waiting)))
    BY <1>0, <1>2, <2>6, InTail DEF first
  <2>11. Once(Tail(s.waiting))
    BY <1>0, <1>2, <2>6, InTail
  <2>12. ASSUME NEW r \in Reads
         PROVE  /\ In(r, w) <=> In(r, e.waiting) \/ e.given[r] # {}
                /\ ~(In(r, e.waiting) /\ e.given[r] # {})
                /\ \A v \in e.given[r] : v.object \in {r, None}
    <3>1. /\ In(r, w) <=> In(r, s.waiting) \/ s.given[r] # {}
          /\ ~(In(r, s.waiting) /\ s.given[r] # {})
          /\ \A v \in s.given[r] : v.object \in {r, None}
      BY DEF LoopInv
    <3>2. CASE r = first
      <4>1. e.given[r] = {[answered |-> TRUE, object |-> object]}
        BY <1>0, <2>1, <2>2, <3>2
      <4>2. e.given[r] # {} /\ \A v \in e.given[r] : v.object \in {r, None}
        BY <2>9, <3>2, <4>1
      <4> QED
        BY <2>1, <2>10, <3>1, <3>2, <4>2
    <3>3. CASE r # first
      <4>1. e.given[r] = s.given[r]
        BY <1>0, <2>1, <2>2, <3>3
      <4> QED
        BY <2>1, <2>10, <3>1, <3>3, <4>1
    <3> QED
      BY <3>2, <3>3
  <2> QED
    BY <2>1, <2>8, <2>11, <2>12 DEF LoopInv, e, y
<1> QED
  BY <1>1, <1>2, SettleOneIs

\* What settle does with a list and a stream.
LEMMA SettledTold ==
  ASSUME NEW p, p.waiting \in Seq(Reads), p.parts \in Seq(Piece),
         NEW out \in Seq(Piece), NEW at, NEW in \in Seq(Reads),
         Once(p.waiting), Streams(p.waiting, p.parts \o out, at, in)
  PROVE  Settled(p) \in Settling /\ LoopInv(Settled(p), p.waiting, out, at, in)
<1>1. PICK g \in [Nat -> Settling] :
        /\ g[0] = Opening(p) /\ \A n \in Nat : g[n + 1] = SettleOne(g[n])
        /\ Settled(p) = g[Len(p.waiting) + 1]
  BY SettledIs
<1> DEFINE T == {n \in Nat : LoopInv(g[n], p.waiting, out, at, in)}
<1>2. 0 \in T
  <2>1. /\ Opening(p).waiting = p.waiting /\ Opening(p).parts = p.parts
        /\ \A r \in Reads : Opening(p).given[r] = {}
    BY DEF Opening
  <2>2. LoopInv(Opening(p), p.waiting, out, at, in)
    BY <2>1 DEF LoopInv
  <2> QED
    BY <1>1, <2>2
<1>3. ASSUME NEW n \in T PROVE n + 1 \in T
  <2>1. g[n] \in Settling /\ g[n + 1] = SettleOne(g[n]) /\ n + 1 \in Nat
    BY <1>1
  <2>2. LoopInv(SettleOne(g[n]), p.waiting, out, at, in)
    BY <2>1, LoopStep
  <2> QED
    BY <2>1, <2>2
<1>4. T = Nat
  <2>1. T \in SUBSET Nat
    OBVIOUS
  <2> HIDE DEF T
  <2> QED
    BY <1>2, <1>3, <2>1, Inductive
<1>5. Len(p.waiting) + 1 \in Nat
  OBVIOUS
<1> QED
  BY <1>1, <1>4, <1>5

-----------------------------------------------------------------------------
(* The calls and the list.                                                 *)

LEMMA DoneIs ==
  ASSUME NEW calls \in [Reads -> Call], NEW res \in [Reads -> SUBSET Result]
  PROVE  /\ DoneAll(calls, res) \in [Reads -> Call]
         /\ \A r \in Reads :
              /\ res[r] = {} => DoneAll(calls, res)[r] = calls[r]
              /\ res[r] # {} => /\ DoneAll(calls, res)[r].at = calls[r].at
                                /\ DoneAll(calls, res)[r].dones = calls[r].dones + 1
                                /\ DoneAll(calls, res)[r].value = calls[r].value
                                /\ DoneAll(calls, res)[r].result # {}
                                /\ DoneAll(calls, res)[r].result \in {calls[r].result, res[r]}
<1> DEFINE D == DoneAll(calls, res)
           E(r) == [calls[r] EXCEPT !.dones = @ + 1, !.result = IF @ = {} THEN res[r] ELSE @]
<1>1. D = [r \in Reads |-> IF res[r] = {} THEN calls[r] ELSE E(r)]
  BY DEF DoneAll
<1>2. ASSUME NEW r \in Reads
      PROVE  /\ E(r) \in Call /\ E(r).at = calls[r].at /\ E(r).dones = calls[r].dones + 1
             /\ E(r).value = calls[r].value
             /\ E(r).result = IF calls[r].result = {} THEN res[r] ELSE calls[r].result
  <2>1. calls[r] \in Call /\ res[r] \in SUBSET Result
    OBVIOUS
  <2> DEFINE c == calls[r]
  <2>2. c \in Call /\ E(r) = [c EXCEPT !.dones = c.dones + 1, !.result = IF c.result = {} THEN res[r] ELSE c.result]
    BY <2>1 DEF Call
  <2> HIDE DEF c
  <2>3. c.dones + 1 \in Nat /\ (IF c.result = {} THEN res[r] ELSE c.result) \in SUBSET Result
    BY <2>1, <2>2 DEF Call
  <2>4. c = calls[r]
    BY DEF c
  <2> HIDE DEF E
  <2> QED
    BY <2>2, <2>3, <2>4 DEF Call
<1> HIDE DEF D, E
<1>3. D \in [Reads -> Call]
  BY <1>1, <1>2
<1>4. ASSUME NEW r \in Reads
      PROVE  /\ res[r] = {} => D[r] = calls[r]
             /\ res[r] # {} => /\ D[r].at = calls[r].at /\ D[r].dones = calls[r].dones + 1
                               /\ D[r].value = calls[r].value /\ D[r].result # {}
                               /\ D[r].result \in {calls[r].result, res[r]}
  BY <1>1, <1>2
<1> QED
  BY <1>3, <1>4 DEF D

\* `done` for some of those on the list, who are then off it.
LEMMA TellsSome ==
  ASSUME NEW calls \in [Reads -> Call], NEW res \in [Reads -> SUBSET Result],
         NEW w, NEW l, Waits(calls, w), Once(l),
         \A r \in Reads : /\ In(r, w) <=> In(r, l) \/ res[r] # {}
                          /\ ~(In(r, l) /\ res[r] # {})
                          /\ \A v \in res[r] : v.answered => v.object \in {r, None}
  PROVE  DoneAll(calls, res) \in [Reads -> Call] /\ Waits(DoneAll(calls, res), l)
<1> DEFINE D == DoneAll(calls, res)
<1>1. D \in [Reads -> Call]
  BY DoneIs
<1>2. \A r \in Reads :
        /\ res[r] = {} => D[r] = calls[r]
        /\ res[r] # {} => /\ D[r].at = calls[r].at /\ D[r].dones = calls[r].dones + 1
                          /\ D[r].value = calls[r].value /\ D[r].result # {}
                          /\ D[r].result \in {calls[r].result, res[r]}
  BY DoneIs
<1> HIDE DEF D
<1>3. ASSUME NEW r \in Reads
      PROVE  /\ In(r, l) => D[r].at \notin {"idle", "version"} /\ D[r].dones = 0
             /\ D[r].dones <= 1
             /\ D[r].at \in {"idle", "version"} => D[r].dones = 0
             /\ D[r].at \in {"yielding", "blocking"} /\ D[r].result = {} => In(r, l)
             /\ \A v \in D[r].value \cup D[r].result : v.answered => v.object \in {r, None}
  <2>1. /\ In(r, w) => calls[r].at \notin {"idle", "version"} /\ calls[r].dones = 0
        /\ calls[r].dones <= 1
        /\ calls[r].at \in {"idle", "version"} => calls[r].dones = 0
        /\ calls[r].at \in {"yielding", "blocking"} /\ calls[r].result = {} => In(r, w)
        /\ \A v \in calls[r].value \cup calls[r].result : v.answered => v.object \in {r, None}
    BY DEF Waits
  <2>2. CASE res[r] = {}
    <3>1. D[r] = calls[r]
      BY <1>2, <2>2
    <3> QED
      BY <2>1, <2>2, <3>1
  <2>3. CASE res[r] # {}
    <3>1. /\ D[r].at = calls[r].at /\ D[r].dones = calls[r].dones + 1
          /\ D[r].value = calls[r].value /\ D[r].result # {}
          /\ D[r].result \in {calls[r].result, res[r]}
      BY <1>2, <2>3
    <3>2. ~In(r, l) /\ calls[r].at \notin {"idle", "version"} /\ calls[r].dones = 0
      BY <2>1, <2>3
    <3>3. \A v \in D[r].value \cup D[r].result : v.answered => v.object \in {r, None}
      BY <2>1, <3>1
    <3>4. D[r].dones = 1
      BY <3>1, <3>2
    <3> QED
      BY <3>1, <3>2, <3>3, <3>4
  <2> QED
    BY <2>2, <2>3
<1>4. Waits(D, l)
  BY <1>3 DEF Waits
<1> QED
  BY <1>1, <1>4 DEF D

\* fail: everyone on the list is told, and nobody is on it.
LEMMA TellsAll ==
  ASSUME NEW calls \in [Reads -> Call], NEW p, p.waiting \in Seq(Reads), Waits(calls, p.waiting)
  PROVE  /\ DoneAll(calls, FailResults(p)) \in [Reads -> Call]
         /\ Waits(DoneAll(calls, FailResults(p)), <<>>)
<1> DEFINE res == FailResults(p)
           w == p.waiting
<1>1. Unanswered \in Result /\ ~Unanswered.answered
  BY DEF Unanswered, Result
<1>2. res = [r \in Reads |-> IF r \in ToSet(w) THEN {Unanswered} ELSE {}]
  BY DEF FailResults
<1>3. \A r \in Reads : r \in ToSet(w) <=> In(r, w)
  BY DEF ToSet, In
<1> HIDE DEF res, w
<1>4. res \in [Reads -> SUBSET Result]
  BY <1>1, <1>2
<1>5. Once(<<>>) /\ \A r \in Reads : ~In(r, <<>>)
  BY DEF Once, In
<1>6. ASSUME NEW r \in Reads
      PROVE  /\ In(r, w) <=> In(r, <<>>) \/ res[r] # {}
             /\ ~(In(r, <<>>) /\ res[r] # {})
             /\ \A v \in res[r] : v.answered => v.object \in {r, None}
  BY <1>1, <1>2, <1>3, <1>5
<1>7. Waits(calls, w)
  BY DEF w
<1>8. DoneAll(calls, res) \in [Reads -> Call] /\ Waits(DoneAll(calls, res), <<>>)
  BY <1>4, <1>5, <1>6, <1>7, TellsSome
<1> QED
  BY <1>8 DEF res

\* M.read returns without having asked, or gives up.
LEMMA ReturnsNothing ==
  ASSUME NEW calls \in [Reads -> Call], NEW r \in Reads, NEW w, Waits(calls, w),
         In(r, w) \/ calls[r].at \in {"idle", "version"}
  PROVE  /\ Returned(calls, r, Unanswered) \in [Reads -> Call]
         /\ Waits(Returned(calls, r, Unanswered), w)
<1> DEFINE R == Returned(calls, r, Unanswered)
<1>1. Unanswered \in Result /\ ~Unanswered.answered
  BY DEF Unanswered, Result
<1>2. calls[r] \in Call
  OBVIOUS
<1>3. R = [calls EXCEPT ![r] = [calls[r] EXCEPT !.at = "returned", !.value = {Unanswered}]]
  BY <1>2 DEF Returned, Call
<1> DEFINE c == [calls[r] EXCEPT !.at = "returned", !.value = {Unanswered}]
<1>4. /\ c \in Call /\ c.at = "returned" /\ c.value = {Unanswered}
      /\ c.dones = calls[r].dones /\ c.result = calls[r].result
  <2> HIDE DEF R
  <2> QED
    BY <1>1, <1>2 DEF Call
<1> HIDE DEF c, R
<1>5. R \in [Reads -> Call] /\ R[r] = c /\ \A q \in Reads : q # r => R[q] = calls[q]
  BY <1>3, <1>4 DEF c
<1>6. Waits(R, w)
  <2>1. Once(w)
    BY DEF Waits
  <2>2. ASSUME NEW q \in Reads
        PROVE  /\ In(q, w) => R[q].at \notin {"idle", "version"} /\ R[q].dones = 0
               /\ R[q].dones <= 1
               /\ R[q].at \in {"idle", "version"} => R[q].dones = 0
               /\ R[q].at \in {"yielding", "blocking"} /\ R[q].result = {} => In(q, w)
               /\ \A v \in R[q].value \cup R[q].result : v.answered => v.object \in {q, None}
    <3>1. /\ In(q, w) => calls[q].at \notin {"idle", "version"} /\ calls[q].dones = 0
          /\ calls[q].dones <= 1
          /\ calls[q].at \in {"idle", "version"} => calls[q].dones = 0
          /\ calls[q].at \in {"yielding", "blocking"} /\ calls[q].result = {} => In(q, w)
          /\ \A v \in calls[q].value \cup calls[q].result : v.answered => v.object \in {q, None}
      BY DEF Waits
    <3>2. CASE q # r
      BY <1>5, <3>1, <3>2
    <3>3. CASE q = r
      BY <1>1, <1>4, <1>5, <3>1, <3>3
    <3> QED
      BY <3>2, <3>3
  <2> QED
    BY <2>1, <2>2 DEF Waits
<1> QED
  BY <1>5, <1>6 DEF R

\* A read is queued.
LEMMA QueuesOne ==
  ASSUME NEW calls \in [Reads -> Call], NEW r \in Reads, NEW w \in Seq(Reads), Waits(calls, w),
         calls[r].at \in {"idle", "version"}, NEW at \in {"yielding", "blocking"}
  PROVE  /\ [calls EXCEPT ![r].at = at] \in [Reads -> Call]
         /\ Waits([calls EXCEPT ![r].at = at], Append(w, r))
<1> DEFINE R == [calls EXCEPT ![r].at = at]
           l == Append(w, r)
<1>1. /\ R \in [Reads -> Call] /\ \A q \in Reads : q # r => R[q] = calls[q]
      /\ R[r].at = at /\ R[r].dones = calls[r].dones /\ R[r].value = calls[r].value
      /\ R[r].result = calls[r].result
  BY DEF Call
<1>2. /\ l \in Seq(Reads) /\ Len(l) = Len(w) + 1 /\ Len(w) \in Nat /\ l[Len(w) + 1] = r
      /\ \A i \in 1..Len(w) : l[i] = w[i]
  BY AppendProperties
<1>3. Once(w) /\ ~In(r, w)
  BY DEF Waits
<1> HIDE DEF R, l
<1>4. \A i \in 1..Len(l) : i \in 1..Len(w) \/ i = Len(w) + 1
  BY <1>2
<1>5. Once(l)
  <2> SUFFICES ASSUME NEW i \in 1..Len(l), NEW k \in 1..Len(l), l[i] = l[k] PROVE i = k
    BY DEF Once
  <2>1. i \in 1..Len(w) /\ k \in 1..Len(w) => i = k
    BY <1>2, <1>3 DEF Once
  <2>2. ~(i \in 1..Len(w) /\ k = Len(w) + 1) /\ ~(k \in 1..Len(w) /\ i = Len(w) + 1)
    BY <1>2, <1>3 DEF In
  <2> QED
    BY <1>4, <2>1, <2>2
<1>6. \A q \in Reads : In(q, l) <=> In(q, w) \/ q = r
  <2>1. Len(w) + 1 \in 1..Len(l) /\ \A i \in 1..Len(w) : i \in 1..Len(l)
    BY <1>2
  <2> QED
    BY <1>2, <1>4, <2>1 DEF In
<1>7. Waits(R, l)
  <2>1. ASSUME NEW q \in Reads
        PROVE  /\ In(q, l) => R[q].at \notin {"idle", "version"} /\ R[q].dones = 0
               /\ R[q].dones <= 1
               /\ R[q].at \in {"idle", "version"} => R[q].dones = 0
               /\ R[q].at \in {"yielding", "blocking"} /\ R[q].result = {} => In(q, l)
               /\ \A v \in R[q].value \cup R[q].result : v.answered => v.object \in {q, None}
    <3>1. /\ In(q, w) => calls[q].at \notin {"idle", "version"} /\ calls[q].dones = 0
          /\ calls[q].dones <= 1
          /\ calls[q].at \in {"idle", "version"} => calls[q].dones = 0
          /\ calls[q].at \in {"yielding", "blocking"} /\ calls[q].result = {} => In(q, w)
          /\ \A v \in calls[q].value \cup calls[q].result : v.answered => v.object \in {q, None}
      BY DEF Waits
    <3>2. CASE q # r
      BY <1>1, <1>6, <3>1, <3>2
    <3>3. CASE q = r
      BY <1>1, <1>6, <3>1, <3>3
    <3> QED
      BY <3>2, <3>3
  <2> QED
    BY <1>5, <2>1 DEF Waits
<1> QED
  BY <1>1, <1>7 DEF R, l

-----------------------------------------------------------------------------
(* The steps.                                                              *)

LEMMA CoreFacts ==
  ASSUME CoreInv
  PROVE  /\ procs = None => OnList = <<>> /\ \A p \in Reads : proc[p].dead
         /\ procs # None => /\ procs \in Reads /\ proc[procs] \in Proc /\ git[procs] \in Git
                            /\ proc[procs].waiting \in Seq(Reads) /\ proc[procs].parts \in Seq(Piece)
                            /\ git[procs].in \in Seq(Reads) /\ git[procs].out \in Seq(Piece)
                            /\ OnList = proc[procs].waiting /\ ~proc[procs].dead
                            /\ Streams(proc[procs].waiting, proc[procs].parts \o git[procs].out,
                                       git[procs].at, git[procs].in)
         /\ OnList \in Seq(Reads)
         /\ \A p \in Reads : p # procs => proc[p].dead
<1>1. CASE procs = None
  BY <1>1, CatFileAssumption DEF CoreInv, ProcInv, OnList, Proc
<1>2. CASE procs # None
  <2>1. procs \in Reads /\ proc[procs] \in Proc /\ git[procs] \in Git
    BY <1>2 DEF CoreInv
  <2>2. /\ proc[procs].waiting \in Seq(Reads) /\ proc[procs].parts \in Seq(Piece)
        /\ git[procs].in \in Seq(Reads) /\ git[procs].out \in Seq(Piece)
    BY <2>1 DEF Proc, Git
  <2>3. OnList = proc[procs].waiting
    BY <1>2 DEF OnList
  <2>4. ~proc[procs].dead /\ \A p \in Reads : p # procs => proc[p].dead
    BY <1>2 DEF CoreInv, ProcInv
  <2> QED
    BY <1>2, <2>1, <2>2, <2>3, <2>4 DEF CoreInv, StreamInv
<1> QED
  BY <1>1, <1>2

\* A step of the calls alone.
LEMMA CallsOnly ==
  ASSUME CoreInv, UNCHANGED <<procs, proc, git>>, read' \in [Reads -> Call], Waits(read', OnList)
  PROVE  CoreInv'
<1>1. OnList' = OnList
  BY DEF OnList
<1>2. ProcInv' /\ StreamInv'
  BY DEF CoreInv, ProcInv, StreamInv
<1> QED
  BY <1>1, <1>2 DEF CoreInv

\* A step of git alone.
LEMMA GitOnly ==
  ASSUME CoreInv, UNCHANGED <<procs, proc, read>>, git' \in [Reads -> Git],
         procs # None => Streams(proc[procs].waiting, proc[procs].parts \o git'[procs].out,
                                 git'[procs].at, git'[procs].in)
  PROVE  CoreInv'
<1>1. OnList' = OnList
  BY DEF OnList
<1>2. ProcInv' /\ StreamInv'
  BY DEF CoreInv, ProcInv, StreamInv
<1> QED
  BY <1>1, <1>2 DEF CoreInv

LEMMA FailedIs ==
  ASSUME NEW q \in Proc
  PROVE  /\ Failed(q) \in Proc /\ Failed(q).dead /\ ~Failed(q).timer
         /\ Failed(q).waiting = <<>> /\ Failed(q).parts = <<>>
<1>1. <<>> \in Seq(Reads) /\ <<>> \in Seq(Piece)
  OBVIOUS
<1>2. DOMAIN q = {"dead", "timer", "waiting", "parts"}
  BY DEF Proc
<1>3. /\ Failed(q).dead = TRUE /\ Failed(q).timer = FALSE
      /\ Failed(q).waiting = <<>> /\ Failed(q).parts = <<>>
  BY <1>2 DEF Failed
<1>4. Failed(q) \in Proc
  BY <1>1 DEF Failed, Proc
<1> QED
  BY <1>3, <1>4

\* A process that was given up has nobody to tell and nothing to lose.
LEMMA DeadIs ==
  ASSUME CoreInv, NEW p \in Reads, p # procs, NEW calls \in [Reads -> Call]
  PROVE  Failed(proc[p]) = proc[p] /\ DoneAll(calls, FailResults(proc[p])) = calls
<1>1. /\ proc[p] \in Proc /\ proc[p].dead = TRUE /\ proc[p].timer = FALSE
      /\ proc[p].waiting = <<>> /\ proc[p].parts = <<>>
  BY CoreFacts DEF CoreInv, ProcInv, Proc
<1>2. Failed(proc[p]) = proc[p]
  BY <1>1 DEF Failed, Proc
<1>3. \A r \in Reads : FailResults(proc[p])[r] = {}
  BY <1>1 DEF FailResults, ToSet
<1>4. DoneAll(calls, FailResults(proc[p])) = calls
  BY <1>3 DEF DoneAll
<1> QED
  BY <1>2, <1>4

\* The root's process is given up.
LEMMA RootGivenUp ==
  ASSUME CoreInv, procs # None, NEW q \in Proc, NEW calls \in [Reads -> Call],
         Waits(calls, q.waiting), procs' = None, proc' = [proc EXCEPT ![procs] = Failed(q)],
         git' \in [Reads -> Git], read' = DoneAll(calls, FailResults(q))
  PROVE  CoreInv'
<1>1. procs \in Reads /\ \A p \in Reads : p # procs => proc[p].dead
  BY CoreFacts
<1>2. /\ Failed(q) \in Proc /\ Failed(q).dead /\ ~Failed(q).timer
      /\ Failed(q).waiting = <<>> /\ Failed(q).parts = <<>>
  BY FailedIs
<1>3. /\ proc' \in [Reads -> Proc] /\ proc'[procs] = Failed(q)
      /\ \A p \in Reads : p # procs => proc'[p] = proc[p]
  BY <1>1, <1>2 DEF CoreInv
<1>4. ProcInv'
  BY <1>1, <1>2, <1>3 DEF CoreInv, ProcInv
<1>5. OnList' = <<>> /\ StreamInv'
  BY DEF OnList, StreamInv
<1>6. read' \in [Reads -> Call] /\ Waits(read', <<>>)
  <2>1. q.waiting \in Seq(Reads)
    BY DEF Proc
  <2> QED
    BY <2>1, TellsAll
<1> QED
  BY <1>3, <1>4, <1>5, <1>6 DEF CoreInv

\* A process is given up: kill, on_exit, and the last release.
LEMMA GivenUp ==
  ASSUME CoreInv, NEW p \in Reads, NEW calls \in [Reads -> Call], Waits(calls, OnList),
         procs' = IF procs = p THEN None ELSE procs, proc' = [proc EXCEPT ![p] = Failed(proc[p])],
         git' \in [Reads -> Git], \A q \in Reads : q # p => git'[q] = git[q],
         read' = DoneAll(calls, FailResults(proc[p]))
  PROVE  CoreInv'
<1>1. CASE procs = p
  <2>1. proc[p] \in Proc /\ OnList = proc[p].waiting /\ procs # None /\ procs' = None
    BY <1>1, CatFileAssumption, CoreFacts
  <2> QED
    BY <1>1, <2>1, RootGivenUp
<1>2. CASE procs # p
  <2>1. Failed(proc[p]) = proc[p] /\ read' = calls
    BY <1>2, DeadIs
  <2>2. proc' = proc /\ procs' = procs
    BY <1>2, <2>1 DEF CoreInv
  <2>3. OnList' = OnList
    BY <2>2 DEF OnList
  <2>4. ProcInv'
    BY <2>2 DEF CoreInv, ProcInv
  <2>5. StreamInv'
    <3>1. procs # None => git'[procs] = git[procs]
      BY <1>2, CoreFacts
    <3> QED
      BY <2>2, <3>1 DEF CoreInv, StreamInv
  <2> QED
    BY <2>1, <2>2, <2>3, <2>4, <2>5 DEF CoreInv
<1> QED
  BY <1>1, <1>2

\* start.
LEMMA StartStep ==
  ASSUME CoreInv, NEW r \in Reads, read[r].at \in {"idle", "version"}, NEW at \in {"yielding", "blocking"},
         procs = None, Started(r), procs' = r, read' = [read EXCEPT ![r].at = at]
  PROVE  CoreInv'
<1> DEFINE q == [dead |-> FALSE, timer |-> TRUE, waiting |-> <<r>>, parts |-> <<>>]
           g == [at |-> "up", in |-> <<r>>, out |-> <<>>]
<1>1. q \in Proc /\ g \in Git
  BY DEF Proc, Git
<1>2. /\ q.dead = FALSE /\ q.timer = TRUE /\ q.waiting = <<r>> /\ q.parts = <<>>
      /\ g.at = "up" /\ g.in = <<r>> /\ g.out = <<>>
  OBVIOUS
<1>3. proc' = [proc EXCEPT ![r] = q] /\ git' = [git EXCEPT ![r] = g]
  BY DEF Started
<1> HIDE DEF q, g
<1>4. /\ proc' \in [Reads -> Proc] /\ proc'[r] = q /\ git' \in [Reads -> Git] /\ git'[r] = g
      /\ \A p \in Reads : p # r => proc'[p] = proc[p]
  BY <1>1, <1>3 DEF CoreInv
<1>5. \A p \in Reads : proc[p].dead
  BY CoreFacts
<1>6. r # None /\ <<r>> # <<>>
  BY CatFileAssumption
<1>7. ProcInv'
  BY <1>2, <1>4, <1>5, <1>6 DEF CoreInv, ProcInv
<1>8. OnList' = <<r>> /\ OnList = <<>>
  BY <1>2, <1>4, <1>6 DEF OnList
<1>9. StreamInv'
  <2> DEFINE x == q.parts \o g.out
             o == [i \in 1..Len(x) |-> 1]
  <2>1. x = <<>> /\ Len(x) = 0 /\ Len(<<r>>) = 1 /\ <<r>>[1] = r
    BY <1>2
  <2>2. 1..Len(x) = {}
    BY <2>1
  <2>3. o \in [1..Len(x) -> 1..Len(<<r>>)]
    BY <2>2
  <2> HIDE DEF o, x
  <2>4. Stream(<<r>>, x, o)
    BY <2>1, <2>2, <2>3 DEF Stream
  <2>5. Rest(<<r>>, x, o, <<r>>)
    BY <2>1 DEF Rest
  <2>6. Streams(<<r>>, x, "up", <<r>>)
    BY <2>3, <2>4, <2>5 DEF Streams
  <2> QED
    BY <1>2, <1>4, <2>6 DEF StreamInv, x
<1>10. read' \in [Reads -> Call] /\ Waits(read', <<r>>)
  <2>1. <<>> \in Seq(Reads) /\ Append(<<>>, r) = <<r>> /\ Waits(read, <<>>)
    BY <1>8 DEF CoreInv
  <2>2. read' \in [Reads -> Call] /\ Waits(read', Append(<<>>, r))
    BY <2>1, QueuesOne DEF CoreInv
  <2> QED
    BY <2>1, <2>2
<1> QED
  BY <1>4, <1>7, <1>8, <1>9, <1>10 DEF CoreInv

\* One more read on the list, and for a git that runs one more request.
LEMMA AppendStream ==
  ASSUME NEW w \in Seq(Reads), NEW x \in Seq(Piece), NEW in \in Seq(Reads), NEW at, NEW r \in Reads,
         NEW rest \in Seq(Reads), at = "up" => rest = Append(in, r), Streams(w, x, at, in)
  PROVE  Streams(Append(w, r), x, at, rest)
<1>1. PICK o \in [1..Len(x) -> 1..Len(w)] : Stream(w, x, o) /\ (at = "up" => Rest(w, x, o, in))
  BY DEF Streams
<1> DEFINE l == Append(w, r)
<1>2. /\ l \in Seq(Reads) /\ Len(l) = Len(w) + 1 /\ Len(w) \in Nat /\ l[Len(w) + 1] = r
      /\ \A i \in 1..Len(w) : l[i] = w[i]
  BY AppendProperties
<1> HIDE DEF l
<1>3. Len(x) \in Nat /\ Len(in) \in Nat /\ \A i \in 1..Len(w) : i \in 1..Len(l)
  BY <1>2
<1>4. o \in [1..Len(x) -> 1..Len(l)]
  BY <1>3
<1>5. Stream(l, x, o)
  BY <1>1, <1>2, <1>4 DEF Stream
<1>6. ASSUME at = "up" PROVE Rest(l, x, o, rest)
  <2> DEFINE k == IF x = <<>> THEN 0 ELSE o[Len(x)]
  <2>1. /\ x # <<>> => x[Len(x)].is \in {"missing", "junk", "body"}
        /\ Len(w) = k + Len(in) /\ \A j \in 1..Len(in) : in[j] = w[k + j]
    BY <1>1, <1>6 DEF Rest
  <2>2. k \in 0..Len(w)
    <3>1. x # <<>> => Len(x) \in 1..Len(x)
      BY <1>3
    <3>2. x # <<>> => o[Len(x)] \in 1..Len(w)
      BY <3>1
    <3>3. k = 0 \/ k \in 1..Len(w)
      BY <3>2
    <3> HIDE DEF k
    <3> QED
      BY <1>2, <3>3
  <2> HIDE DEF k
  <2>3. /\ Len(rest) = Len(in) + 1 /\ rest[Len(in) + 1] = r
        /\ \A j \in 1..Len(in) : rest[j] = in[j]
    BY <1>6, AppendProperties
  <2>4. Len(l) = k + Len(rest)
    BY <1>2, <1>3, <2>1, <2>2, <2>3
  <2>5. ASSUME NEW j \in 1..Len(rest) PROVE rest[j] = l[k + j]
    <3>1. CASE j = Len(in) + 1
      <4>1. k + j = Len(w) + 1
        BY <1>2, <1>3, <2>1, <2>2, <3>1
      <4> QED
        BY <1>2, <2>3, <3>1, <4>1
    <3>2. CASE j # Len(in) + 1
      <4>1. j \in 1..Len(in) /\ k + j \in 1..Len(w)
        BY <1>2, <1>3, <2>1, <2>2, <2>3, <3>2
      <4> QED
        BY <1>2, <2>1, <2>3, <4>1
    <3> QED
      BY <3>1, <3>2
  <2> QED
    BY <2>1, <2>4, <2>5 DEF Rest, k
<1> QED
  BY <1>4, <1>5, <1>6 DEF Streams, l

\* A read goes on the list of the root's process.
LEMMA QueueStep ==
  ASSUME CoreInv, NEW r \in Reads, read[r].at \in {"idle", "version"}, NEW at \in {"yielding", "blocking"},
         procs # None, proc' = [proc EXCEPT ![procs] = Queued(procs, r)],
         git' = [git EXCEPT ![procs].in = IF git[procs].at = "up" THEN Append(@, r) ELSE @],
         read' = [read EXCEPT ![r].at = at], UNCHANGED procs
  PROVE  CoreInv'
<1> DEFINE w == proc[procs].waiting
           in == git[procs].in
           x == proc[procs].parts \o git[procs].out
           rest == IF git[procs].at = "up" THEN Append(in, r) ELSE in
           q == Queued(procs, r)
<1>1. /\ procs \in Reads /\ proc[procs] \in Proc /\ git[procs] \in Git /\ ~proc[procs].dead
      /\ w \in Seq(Reads) /\ proc[procs].parts \in Seq(Piece) /\ in \in Seq(Reads)
      /\ git[procs].out \in Seq(Piece) /\ OnList = w /\ Streams(w, x, git[procs].at, in)
      /\ \A p \in Reads : p # procs => proc[p].dead
  BY CoreFacts
<1>2. x \in Seq(Piece) /\ rest \in Seq(Reads) /\ Append(w, r) \in Seq(Reads) /\ Append(w, r) # <<>>
  <2>1. x \in Seq(Piece)
    BY <1>1, ConcatProperties
  <2>2. w \in Seq(Reads) /\ in \in Seq(Reads)
    BY <1>1
  <2> HIDE DEF w, in
  <2>3. rest \in Seq(Reads) /\ Append(w, r) \in Seq(Reads) /\ Append(w, r) # <<>>
    BY <2>2, AppendProperties
  <2> QED
    BY <2>1, <2>3 DEF w
<1>3. Streams(Append(w, r), x, git[procs].at, rest)
  <2>1. git[procs].at = "up" => rest = Append(in, r)
    OBVIOUS
  <2> HIDE DEF w, in, x, rest
  <2> QED
    BY <1>1, <1>2, <2>1, AppendStream
<1>4. /\ q \in Proc /\ q.waiting = Append(w, r) /\ q.parts = proc[procs].parts
      /\ q.dead = proc[procs].dead /\ q.timer = TRUE
  <2> DEFINE s == [proc[procs] EXCEPT !.waiting = Append(w, r)]
  <2>1. /\ s = [dead |-> proc[procs].dead, timer |-> proc[procs].timer,
                waiting |-> Append(w, r), parts |-> proc[procs].parts]
        /\ s \in Proc
    <3> DEFINE l == Append(w, r)
               d == proc[procs]
    <3>1. l \in Seq(Reads) /\ d \in Proc /\ s = [d EXCEPT !.waiting = l]
      BY <1>1, <1>2
    <3> HIDE DEF l, d, s
    <3>2. s \in Proc /\ s = [dead |-> d.dead, timer |-> d.timer, waiting |-> l, parts |-> d.parts]
      BY <3>1 DEF Proc
    <3> QED
      BY <3>2 DEF l, d
  <2>2. q = IF Len(s.waiting) = 1 THEN Arm(s) ELSE s
    BY DEF Queued
  <2> HIDE DEF s, q
  <2>3. CASE Len(s.waiting) = 1
    <3>1. q = [s EXCEPT !.timer = s.waiting # <<>>]
      BY <2>2, <2>3 DEF Arm
    <3>2. (s.waiting # <<>>) = TRUE
      BY <1>2, <2>1
    <3>3. q = [s EXCEPT !.timer = TRUE]
      BY <3>1, <3>2
    <3> QED
      BY <2>1, <3>3 DEF Proc
  <2>4. CASE Len(s.waiting) # 1
    <3>1. w # <<>>
      BY <1>1, <2>1, <2>4
    <3>2. proc[procs].timer = TRUE
      BY <1>1, <3>1 DEF CoreInv, ProcInv, Proc
    <3> QED
      BY <2>1, <2>2, <2>4, <3>2
  <2> QED
    BY <2>3, <2>4
<1> HIDE DEF q
<1>5. /\ proc' \in [Reads -> Proc] /\ proc'[procs] = q
      /\ \A p \in Reads : p # procs => proc'[p] = proc[p]
  BY <1>1, <1>4 DEF CoreInv, q
<1>6. /\ git' \in [Reads -> Git] /\ git'[procs].at = git[procs].at /\ git'[procs].out = git[procs].out
      /\ git'[procs].in = rest
  BY <1>1, <1>2 DEF CoreInv, Git
<1>7. ProcInv'
  BY <1>1, <1>2, <1>4, <1>5 DEF CoreInv, ProcInv
<1>8. StreamInv'
  BY <1>3, <1>4, <1>5, <1>6 DEF StreamInv
<1>9. OnList' = Append(w, r)
  BY <1>4, <1>5 DEF OnList
<1>10. read' \in [Reads -> Call] /\ Waits(read', Append(w, r))
  <2> HIDE DEF w
  <2> QED
    BY <1>1, QueuesOne DEF CoreInv
<1> QED
  BY <1>1, <1>5, <1>6, <1>7, <1>8, <1>9, <1>10 DEF CoreInv

\* request, and M.read from there on.
LEMMA ReadOnStep ==
  ASSUME CoreInv, NEW r \in Reads, read[r].at \in {"idle", "version"}, NEW at \in {"yielding", "blocking"},
         ReadOn(r, at)
  PROVE  CoreInv'
<1>1. /\ Returned(read, r, Unanswered) \in [Reads -> Call]
      /\ Waits(Returned(read, r, Unanswered), OnList)
  BY ReturnsNothing DEF CoreInv
<1>2. CASE read' = Returned(read, r, Unanswered) /\ UNCHANGED <<procs, proc, git>>
  BY <1>1, <1>2, CallsOnly
<1>3. CASE procs = None /\ Started(r) /\ procs' = r /\ read' = [read EXCEPT ![r].at = at]
  BY <1>3, StartStep
<1>4. CASE /\ procs # None /\ proc' = [proc EXCEPT ![procs] = Queued(procs, r)]
           /\ git' = [git EXCEPT ![procs].in = IF git[procs].at = "up" THEN Append(@, r) ELSE @]
           /\ read' = [read EXCEPT ![r].at = at] /\ UNCHANGED procs
  BY <1>4, QueueStep
<1>5. CASE procs # None /\ Kill(procs, proc[procs], Returned(read, r, Unanswered))
  <2>1. /\ procs' = None /\ git' = [git EXCEPT ![procs].at = IF @ = "up" THEN "down" ELSE @]
        /\ proc' = [proc EXCEPT ![procs] = Failed(proc[procs])]
        /\ read' = DoneAll(Returned(read, r, Unanswered), FailResults(proc[procs]))
    BY <1>5 DEF Kill
  <2>2. procs \in Reads /\ proc[procs] \in Proc /\ OnList = proc[procs].waiting
    BY <1>5, CoreFacts
  <2>3. git' \in [Reads -> Git]
    BY <2>1, <2>2 DEF CoreInv, Git
  <2> QED
    BY <1>1, <1>5, <2>1, <2>2, <2>3, RootGivenUp
<1> QED
  BY <1>2, <1>3, <1>4, <1>5 DEF ReadOn, Request

-----------------------------------------------------------------------------
(* Git, and what it sends.                                                 *)

\* z is a whole reply to r.
Reply(z, r) ==
  /\ z \in Seq(Piece) /\ Len(z) \in {2, 3} /\ \A i \in 1..Len(z) : z[i].of = r
  /\ z[1].is = "start" /\ z[2].is \in {"found", "missing", "junk"}
  /\ z[2].is = "found" <=> Len(z) = 3
  /\ Len(z) = 3 => z[3].is = "body"

LEMMA ReplyStream ==
  ASSUME NEW w \in Seq(Reads), NEW x \in Seq(Piece), NEW in \in Seq(Reads), in # <<>>,
         NEW z, Reply(z, Head(in)), Streams(w, x, "up", in)
  PROVE  Streams(w, x \o z, "up", Tail(in))
<1> DEFINE y == x \o z
<1>1. PICK o \in [1..Len(x) -> 1..Len(w)] : Stream(w, x, o) /\ Rest(w, x, o, in)
  BY DEF Streams
<1> DEFINE k == IF x = <<>> THEN 0 ELSE o[Len(x)]
           u == [i \in 1..Len(y) |-> IF i <= Len(x) THEN o[i] ELSE k + 1]
<1>2. /\ z \in Seq(Piece) /\ Len(z) \in {2, 3} /\ \A i \in 1..Len(z) : z[i].of = in[1]
      /\ z[1].is = "start" /\ z[2].is \in {"found", "missing", "junk"}
      /\ z[2].is = "found" <=> Len(z) = 3
      /\ Len(z) = 3 => z[3].is = "body"
  BY FirstOf DEF Reply
<1>3. /\ Len(in) \in Nat /\ Len(in) >= 1 /\ Len(Tail(in)) = Len(in) - 1
      /\ \A j \in 1..Len(Tail(in)) : Tail(in)[j] = in[j + 1]
      /\ Len(w) \in Nat /\ Len(x) \in Nat
  BY FirstOf
<1>4. /\ x # <<>> => x[1].is = "start" /\ o[1] = 1
      /\ \A i \in 1..Len(x) : x[i].of = w[o[i]]
      /\ \A i \in 1..Len(x) : i + 1 \in 1..Len(x) =>
           /\ Follows(x[i].is, x[i + 1].is)
           /\ o[i + 1] = IF x[i + 1].is = "start" THEN o[i] + 1 ELSE o[i]
      /\ \A i, j \in 1..Len(x) : i <= j => o[i] <= o[j]
  BY <1>1 DEF Stream
<1>5. /\ x # <<>> => x[Len(x)].is \in {"missing", "junk", "body"}
      /\ Len(w) = k + Len(in) /\ \A j \in 1..Len(in) : in[j] = w[k + j]
  BY <1>1 DEF Rest
<1>6. x # <<>> => Len(x) \in 1..Len(x) /\ k = o[Len(x)] /\ k \in 1..Len(w)
  <2>1. x # <<>> => Len(x) \in 1..Len(x)
    BY <1>3
  <2> QED
    BY <2>1
<1>7. x = <<>> => k = 0 /\ Len(x) = 0
  OBVIOUS
<1> HIDE DEF k
<1>8. k \in Nat /\ k + 1 \in 1..Len(w) /\ in[1] = w[k + 1]
  BY <1>3, <1>5, <1>6, <1>7
<1>9. /\ y \in Seq(Piece) /\ Len(y) = Len(x) + Len(z)
      /\ \A i \in 1..Len(y) : y[i] = IF i <= Len(x) THEN x[i] ELSE z[i - Len(x)]
  <2>1. /\ y \in Seq(Piece) /\ Len(y) = Len(x) + Len(z)
        /\ \A i \in 1..Len(x) + Len(z) : y[i] = IF i <= Len(x) THEN x[i] ELSE z[i - Len(x)]
    BY <1>2, ConcatProperties
  <2> QED
    BY <2>1
<1>10. \A i \in 1..Len(y) : u[i] = IF i <= Len(x) THEN o[i] ELSE k + 1
  OBVIOUS
<1>11. u \in [1..Len(y) -> 1..Len(w)]
  <2>1. ASSUME NEW i \in 1..Len(y)
        PROVE  (IF i <= Len(x) THEN o[i] ELSE k + 1) \in 1..Len(w)
    <3>1. i <= Len(x) => i \in 1..Len(x)
      BY <1>3
    <3> QED
      BY <1>8, <3>1
  <2> QED
    BY <2>1
<1> HIDE DEF y, u
<1>12. ASSUME NEW i \in 1..Len(x)
       PROVE  i \in 1..Len(y) /\ y[i] = x[i] /\ u[i] = o[i] /\ o[i] \in 1..Len(w) /\ o[i] <= k
  <2>1. i \in 1..Len(y) /\ i <= Len(x) /\ Len(x) \in 1..Len(x) /\ x # <<>>
    BY <1>2, <1>3, <1>9
  <2> QED
    BY <1>4, <1>6, <1>9, <1>10, <2>1
<1>13. ASSUME NEW i \in 1..Len(z)
       PROVE  Len(x) + i \in 1..Len(y) /\ y[Len(x) + i] = z[i] /\ u[Len(x) + i] = k + 1
  <2>1. Len(x) + i \in 1..Len(y) /\ ~(Len(x) + i <= Len(x)) /\ Len(x) + i - Len(x) = i
    BY <1>2, <1>3, <1>9
  <2> QED
    BY <1>9, <1>10, <2>1
<1>14. \A i \in 1..Len(y) : i \in 1..Len(x) \/ \E j \in 1..Len(z) : i = Len(x) + j
  <2>1. ASSUME NEW i \in 1..Len(y), i \notin 1..Len(x)
        PROVE  i - Len(x) \in 1..Len(z) /\ i = Len(x) + (i - Len(x))
    BY <1>2, <1>3, <1>9, <2>1
  <2> QED
    BY <2>1
<1>15. 1 \in 1..Len(z) /\ 2 \in 1..Len(z) /\ Len(z) \in 1..Len(z) /\ (Len(z) = 3 => 3 \in 1..Len(z))
  BY <1>2
<1>16. y[1].is = "start" /\ u[1] = 1
  <2>1. CASE x = <<>>
    BY <1>2, <1>7, <1>13, <1>15, <2>1
  <2>2. CASE x # <<>>
    <3>1. 1 \in 1..Len(x)
      BY <1>3, <2>2
    <3> QED
      BY <1>4, <1>12, <2>2, <3>1
  <2> QED
    BY <2>1, <2>2
<1>17. ASSUME NEW i \in 1..Len(y) PROVE y[i].of = w[u[i]]
  <2>1. CASE i \in 1..Len(x)
    BY <1>4, <1>12, <2>1
  <2>2. CASE \E j \in 1..Len(z) : i = Len(x) + j
    BY <1>2, <1>8, <1>13, <2>2
  <2> QED
    BY <1>14, <2>1, <2>2
<1>18. ASSUME NEW i \in 1..Len(y), i + 1 \in 1..Len(y)
       PROVE  /\ Follows(y[i].is, y[i + 1].is)
              /\ u[i + 1] = IF y[i + 1].is = "start" THEN u[i] + 1 ELSE u[i]
  <2>1. CASE i + 1 \in 1..Len(x)
    <3>1. i \in 1..Len(x)
      BY <1>3, <2>1
    <3> QED
      BY <1>4, <1>12, <2>1, <3>1
  <2>2. CASE i = Len(x)
    <3>1. Len(x) \in 1..Len(x) /\ x # <<>> /\ i + 1 = Len(x) + 1
      BY <1>3, <2>2
    <3>2. y[i] = x[Len(x)] /\ u[i] = k /\ y[i + 1] = z[1] /\ u[i + 1] = k + 1
      BY <1>6, <1>12, <1>13, <1>15, <2>2, <3>1
    <3> QED
      BY <1>2, <1>5, <3>1, <3>2 DEF Follows
  <2>3. CASE i > Len(x)
    <3>1. PICK j \in 1..Len(z) : i = Len(x) + j
      <4>1. i \notin 1..Len(x)
        BY <1>3, <2>3
      <4> QED
        BY <1>14, <4>1
    <3>2. j + 1 \in 1..Len(z) /\ i + 1 = Len(x) + (j + 1)
      BY <1>2, <1>3, <1>9, <1>18, <3>1
    <3>3. y[i] = z[j] /\ u[i] = k + 1 /\ y[i + 1] = z[j + 1] /\ u[i + 1] = k + 1
      BY <1>13, <3>1, <3>2
    <3>4. \/ j = 1
          \/ j = 2 /\ Len(z) = 3
      <4>1. \A l \in {2, 3} : \A m \in 1..l : m + 1 \in 1..l => m = 1 \/ (m = 2 /\ l = 3)
        OBVIOUS
      <4> QED
        BY <1>2, <3>2, <4>1
    <3>5. CASE j = 1
      <4>1. j + 1 = 2
        BY <3>5
      <4> QED
        BY <1>2, <3>3, <3>5, <4>1 DEF Follows
    <3>6. CASE j = 2 /\ Len(z) = 3
      <4>1. j + 1 = 3
        BY <3>6
      <4> QED
        BY <1>2, <3>3, <3>6, <4>1 DEF Follows
    <3> QED
      BY <3>4, <3>5, <3>6
  <2>4. i \in Nat /\ (i + 1 <= Len(x) \/ i = Len(x) \/ i > Len(x))
    BY <1>3
  <2> QED
    BY <1>3, <2>1, <2>2, <2>3, <2>4
<1>19. ASSUME NEW i \in 1..Len(y), NEW j \in 1..Len(y), i <= j PROVE u[i] <= u[j]
  <2>1. CASE j \in 1..Len(x)
    <3>1. i \in 1..Len(x)
      BY <1>3, <1>19, <2>1
    <3> QED
      BY <1>4, <1>12, <1>19, <2>1, <3>1
  <2>2. CASE j \notin 1..Len(x)
    <3>1. u[j] = k + 1
      BY <1>13, <1>14, <2>2
    <3>2. u[i] = k + 1 \/ (u[i] \in 1..Len(w) /\ u[i] <= k)
      BY <1>12, <1>13, <1>14
    <3> QED
      BY <1>3, <1>8, <3>1, <3>2
  <2> QED
    BY <2>1, <2>2
<1>20. Stream(w, y, u)
  BY <1>11, <1>16, <1>17, <1>18, <1>19 DEF Stream
<1>21. Rest(w, y, u, Tail(in))
  <2>1. y # <<>> /\ Len(y) = Len(x) + Len(z)
    BY <1>2, <1>3, <1>9
  <2>2. u[Len(y)] = k + 1 /\ y[Len(y)].is \in {"missing", "junk", "body"}
    <3>1. y[Len(y)] = z[Len(z)] /\ u[Len(y)] = k + 1
      BY <1>13, <1>15, <2>1
    <3>2. z[Len(z)].is \in {"missing", "junk", "body"}
      BY <1>2
    <3> QED
      BY <3>1, <3>2
  <2>3. Len(w) = k + 1 + Len(Tail(in))
    BY <1>3, <1>5, <1>8
  <2>4. ASSUME NEW j \in 1..Len(Tail(in)) PROVE Tail(in)[j] = w[k + 1 + j]
    <3>1. j + 1 \in 1..Len(in) /\ k + (j + 1) = k + 1 + j
      BY <1>3, <1>8
    <3> QED
      BY <1>3, <1>5, <3>1
  <2> QED
    BY <2>1, <2>2, <2>3, <2>4 DEF Rest
<1> QED
  BY <1>11, <1>20, <1>21 DEF Streams, y

\* A stream that breaks off is one still.
LEMMA CutStream ==
  ASSUME NEW w \in Seq(Reads), NEW x \in Seq(Piece), NEW y \in Seq(Piece), NEW in, NEW at, NEW rest,
         Len(y) <= Len(x), \A i \in 1..Len(y) : y[i] = x[i], Streams(w, x, at, in)
  PROVE  Streams(w, y, "down", rest)
<1>1. PICK o \in [1..Len(x) -> 1..Len(w)] : Stream(w, x, o)
  BY DEF Streams
<1> DEFINE u == [i \in 1..Len(y) |-> o[i]]
<1>2. /\ x # <<>> => x[1].is = "start" /\ o[1] = 1
      /\ \A i \in 1..Len(x) : x[i].of = w[o[i]]
      /\ \A i \in 1..Len(x) : i + 1 \in 1..Len(x) =>
           /\ Follows(x[i].is, x[i + 1].is)
           /\ o[i + 1] = IF x[i + 1].is = "start" THEN o[i] + 1 ELSE o[i]
      /\ \A i, j \in 1..Len(x) : i <= j => o[i] <= o[j]
  BY <1>1 DEF Stream
<1>3. Len(x) \in Nat /\ Len(y) \in Nat /\ \A i \in 1..Len(y) : i \in 1..Len(x)
  OBVIOUS
<1>4. u \in [1..Len(y) -> 1..Len(w)] /\ \A i \in 1..Len(y) : u[i] = o[i]
  BY <1>3
<1> HIDE DEF u
<1>5. y # <<>> => x # <<>> /\ 1 \in 1..Len(y)
  BY <1>3
<1>6. Stream(w, y, u)
  <2>1. y # <<>> => y[1].is = "start" /\ u[1] = 1
    BY <1>2, <1>4, <1>5
  <2>2. \A i \in 1..Len(y) : y[i].of = w[u[i]]
    BY <1>2, <1>3, <1>4
  <2>3. \A i \in 1..Len(y) : i + 1 \in 1..Len(y) =>
          /\ Follows(y[i].is, y[i + 1].is)
          /\ u[i + 1] = IF y[i + 1].is = "start" THEN u[i] + 1 ELSE u[i]
    BY <1>2, <1>3, <1>4
  <2>4. \A i, j \in 1..Len(y) : i <= j => u[i] <= u[j]
    BY <1>2, <1>3, <1>4
  <2> QED
    BY <1>4, <2>1, <2>2, <2>3, <2>4 DEF Stream
<1> QED
  BY <1>4, <1>6 DEF Streams

\* A stream without its first n pieces, and with them put before it again.
LEMMA CutJoin ==
  ASSUME NEW a \in Seq(Piece), NEW b \in Seq(Piece), NEW n \in 1..Len(b)
  PROVE  /\ SubSeq(b, 1, n) \in Seq(Piece) /\ SubSeq(b, n + 1, Len(b)) \in Seq(Piece)
         /\ (a \o SubSeq(b, 1, n)) \o SubSeq(b, n + 1, Len(b)) = a \o b
<1> DEFINE c == SubSeq(b, 1, n)
           d == SubSeq(b, n + 1, Len(b))
           h == a \o c
<1>1. Len(a) \in Nat /\ Len(b) \in Nat /\ n \in Nat /\ n <= Len(b)
  OBVIOUS
<1>2. /\ \A i \in 1..n : b[i] \in Piece
      /\ \A i \in (n + 1)..Len(b) : b[i] \in Piece
  BY <1>1
<1>3. c \in Seq(Piece) /\ Len(c) = n /\ \A i \in 1..n : c[i] = b[i]
  <2>1. c \in Seq(Piece) /\ Len(c) = (IF 1 <= n THEN n - 1 + 1 ELSE 0)
        /\ \A i \in 1..(n - 1 + 1) : c[i] = b[1 + i - 1]
    BY <1>1, <1>2, SubSeqProperties
  <2>2. n - 1 + 1 = n /\ 1 <= n /\ \A i \in 1..n : 1 + i - 1 = i
    BY <1>1
  <2> QED
    BY <2>1, <2>2
<1>4. d \in Seq(Piece) /\ Len(d) = Len(b) - n /\ \A i \in 1..(Len(b) - n) : d[i] = b[n + i]
  <2>2. /\ d \in Seq(Piece)
        /\ Len(d) = (IF n + 1 <= Len(b) THEN Len(b) - (n + 1) + 1 ELSE 0)
        /\ \A i \in 1..(Len(b) - (n + 1) + 1) : d[i] = b[n + 1 + i - 1]
    BY <1>1, <1>2, SubSeqProperties
  <2>3. /\ (IF n + 1 <= Len(b) THEN Len(b) - (n + 1) + 1 ELSE 0) = Len(b) - n
        /\ Len(b) - (n + 1) + 1 = Len(b) - n /\ \A i \in 1..(Len(b) - n) : n + 1 + i - 1 = n + i
    BY <1>1
  <2> QED
    BY <2>2, <2>3
<1> HIDE DEF c, d
<1>5. /\ h \in Seq(Piece) /\ Len(h) = Len(a) + n
      /\ \A i \in 1..(Len(a) + n) : h[i] = IF i <= Len(a) THEN a[i] ELSE c[i - Len(a)]
  BY <1>3, ConcatProperties DEF h
<1> HIDE DEF h
<1>6. /\ h \o d \in Seq(Piece) /\ Len(h \o d) = Len(a) + n + (Len(b) - n)
      /\ \A i \in 1..(Len(a) + n + (Len(b) - n)) :
           (h \o d)[i] = IF i <= Len(a) + n THEN h[i] ELSE d[i - (Len(a) + n)]
  <2>1. /\ h \o d \in Seq(Piece) /\ Len(h \o d) = Len(h) + Len(d)
        /\ \A i \in 1..(Len(h) + Len(d)) : (h \o d)[i] = IF i <= Len(h) THEN h[i] ELSE d[i - Len(h)]
    BY <1>4, <1>5, ConcatProperties
  <2> QED
    BY <1>4, <1>5, <2>1
<1>7. /\ a \o b \in Seq(Piece) /\ Len(a \o b) = Len(a) + Len(b)
      /\ \A i \in 1..(Len(a) + Len(b)) : (a \o b)[i] = IF i <= Len(a) THEN a[i] ELSE b[i - Len(a)]
  BY ConcatProperties
<1>8. Len(a) + n + (Len(b) - n) = Len(a) + Len(b)
  BY <1>1
<1>9. ASSUME NEW i \in 1..(Len(a) + Len(b)) PROVE (h \o d)[i] = (a \o b)[i]
  <2>1. CASE i <= Len(a)
    <3>1. i <= Len(a) + n /\ i \in 1..(Len(a) + n)
      BY <1>1, <2>1
    <3> QED
      BY <1>5, <1>6, <1>7, <1>8, <2>1, <3>1
  <2>2. CASE i > Len(a) /\ i <= Len(a) + n
    <3>1. i \in 1..(Len(a) + n) /\ i - Len(a) \in 1..n /\ ~(i <= Len(a))
      BY <1>1, <2>2
    <3> QED
      BY <1>3, <1>5, <1>6, <1>7, <1>8, <2>2, <3>1
  <2>3. CASE i > Len(a) + n
    <3>1. /\ ~(i <= Len(a)) /\ ~(i <= Len(a) + n) /\ i - (Len(a) + n) \in 1..(Len(b) - n)
          /\ n + (i - (Len(a) + n)) = i - Len(a)
      BY <1>1, <2>3
    <3>2. (h \o d)[i] = d[i - (Len(a) + n)]
      BY <1>6, <1>8, <3>1
    <3>3. d[i - (Len(a) + n)] = b[i - Len(a)]
      BY <1>4, <3>1
    <3> QED
      BY <1>7, <3>1, <3>2, <3>3
  <2>4. i <= Len(a) \/ (i > Len(a) /\ i <= Len(a) + n) \/ i > Len(a) + n
    BY <1>1
  <2> QED
    BY <2>1, <2>2, <2>3, <2>4
<1>10. h \o d = a \o b
  <2> DEFINE e == h \o d
             f == a \o b
  <2>1. e \in Seq(Piece) /\ f \in Seq(Piece) /\ Len(e) = Len(f) /\ \A i \in 1..Len(e) : e[i] = f[i]
    BY <1>6, <1>7, <1>8, <1>9
  <2> HIDE DEF e, f
  <2>2. e = f
    BY <2>1, SeqEqual
  <2> QED
    BY <2>2 DEF e, f
<1> QED
  BY <1>3, <1>4, <1>10 DEF c, d, h

\* What was sent, and a prefix of it.
LEMMA Prefix ==
  ASSUME NEW a \in Seq(Piece), NEW b \in Seq(Piece), NEW n \in 0..Len(b)
  PROVE  /\ SubSeq(b, 1, n) \in Seq(Piece) /\ a \o SubSeq(b, 1, n) \in Seq(Piece)
         /\ a \o b \in Seq(Piece) /\ Len(a \o SubSeq(b, 1, n)) <= Len(a \o b)
         /\ \A i \in 1..Len(a \o SubSeq(b, 1, n)) : (a \o SubSeq(b, 1, n))[i] = (a \o b)[i]
<1> DEFINE c == SubSeq(b, 1, n)
<1>1. Len(a) \in Nat /\ Len(b) \in Nat /\ n \in Nat /\ n <= Len(b)
  OBVIOUS
<1>2. \A i \in 1..n : b[i] \in Piece
  BY <1>1
<1>3. c \in Seq(Piece) /\ Len(c) = n /\ \A i \in 1..n : c[i] = b[i]
  <2>1. /\ c \in Seq(Piece) /\ Len(c) = (IF 1 <= n THEN n - 1 + 1 ELSE 0)
        /\ \A i \in 1..(n - 1 + 1) : c[i] = b[1 + i - 1]
    BY <1>1, <1>2, SubSeqProperties
  <2>2. n - 1 + 1 = n /\ (1 <= n \/ n = 0) /\ \A i \in 1..n : 1 + i - 1 = i
    BY <1>1
  <2> QED
    BY <2>1, <2>2
<1> HIDE DEF c
<1>4. /\ a \o c \in Seq(Piece) /\ Len(a \o c) = Len(a) + n
      /\ \A i \in 1..(Len(a) + n) : (a \o c)[i] = IF i <= Len(a) THEN a[i] ELSE c[i - Len(a)]
  BY <1>3, ConcatProperties
<1>5. /\ a \o b \in Seq(Piece) /\ Len(a \o b) = Len(a) + Len(b)
      /\ \A i \in 1..(Len(a) + Len(b)) : (a \o b)[i] = IF i <= Len(a) THEN a[i] ELSE b[i - Len(a)]
  BY ConcatProperties
<1>6. ASSUME NEW i \in 1..Len(a \o c) PROVE (a \o c)[i] = (a \o b)[i]
  <2>1. i \in 1..(Len(a) + n) /\ i \in 1..(Len(a) + Len(b)) /\ (i <= Len(a) \/ i - Len(a) \in 1..n)
    BY <1>1, <1>4
  <2> QED
    BY <1>3, <1>4, <1>5, <2>1
<1>7. Len(a \o c) <= Len(a \o b)
  BY <1>1, <1>4, <1>5
<1> QED
  BY <1>3, <1>4, <1>5, <1>6, <1>7 DEF c

\* Arm and the record a chunk leaves.
LEMMA ArmIs ==
  ASSUME NEW q \in Proc
  PROVE  /\ Arm(q) \in Proc /\ Arm(q).dead = q.dead /\ Arm(q).waiting = q.waiting
         /\ Arm(q).parts = q.parts /\ (Arm(q).timer <=> q.waiting # <<>>)
<1>1. (q.waiting # <<>>) \in BOOLEAN
  OBVIOUS
<1> DEFINE b == q.waiting # <<>>
<1>2. Arm(q) = [q EXCEPT !.timer = b]
  BY DEF Arm
<1>3. b \in BOOLEAN
  OBVIOUS
<1>4. b <=> q.waiting # <<>>
  OBVIOUS
<1> HIDE DEF b
<1>5. /\ Arm(q) \in Proc /\ Arm(q).dead = q.dead /\ Arm(q).waiting = q.waiting
      /\ Arm(q).parts = q.parts /\ Arm(q).timer = b
  BY <1>2, <1>3 DEF Proc
<1> QED
  BY <1>4, <1>5

\* The stdout handler of the root's process: settle tells the waiters whose replies are
\* whole, and leaves the others the rest of the stream.
LEMMA ChunkTold ==
  ASSUME CoreInv, procs # None, NEW n \in 1..Len(git[procs].out), NEW e,
         e = [proc[procs] EXCEPT !.parts = @ \o SubSeq(git[procs].out, 1, n)],
         NEW rest, rest = SubSeq(git[procs].out, n + 1, Len(git[procs].out))
  PROVE  /\ rest \in Seq(Piece)
         /\ Settle(e).p \in Proc /\ ~Settle(e).p.dead
         /\ Streams(Settle(e).p.waiting, Settle(e).p.parts \o rest, git[procs].at, git[procs].in)
         /\ DoneAll(read, Settle(e).given) \in [Reads -> Call]
         /\ Waits(DoneAll(read, Settle(e).given), Settle(e).p.waiting)
<1> DEFINE q == proc[procs]
           out == git[procs].out
           c == SubSeq(out, 1, n)
           z == Settled(e)
<1>1. /\ q \in Proc /\ q.waiting \in Seq(Reads) /\ q.parts \in Seq(Piece) /\ ~q.dead
      /\ out \in Seq(Piece) /\ git[procs].in \in Seq(Reads) /\ OnList = q.waiting
      /\ Streams(q.waiting, q.parts \o out, git[procs].at, git[procs].in)
  BY CoreFacts
<1>2. Once(q.waiting) /\ Waits(read, q.waiting) /\ read \in [Reads -> Call]
  BY <1>1 DEF CoreInv, Waits
<1>3. n \in 1..Len(out) /\ e = [q EXCEPT !.parts = @ \o c] /\ rest = SubSeq(out, n + 1, Len(out))
  OBVIOUS
<1> HIDE DEF q, out
<1>4. c \in Seq(Piece) /\ rest \in Seq(Piece) /\ (q.parts \o c) \o rest = q.parts \o out
  <2> DEFINE a == q.parts
  <2>1. a \in Seq(Piece) /\ out \in Seq(Piece) /\ n \in 1..Len(out)
    BY <1>1, <1>3
  <2> HIDE DEF a
  <2>2. /\ SubSeq(out, 1, n) \in Seq(Piece) /\ SubSeq(out, n + 1, Len(out)) \in Seq(Piece)
        /\ (a \o SubSeq(out, 1, n)) \o SubSeq(out, n + 1, Len(out)) = a \o out
    BY <2>1, CutJoin
  <2> QED
    BY <1>3, <2>2 DEF a
<1> HIDE DEF c
<1>5. q.parts \o c \in Seq(Piece)
  BY <1>1, <1>4
<1>6. e \in Proc /\ e.waiting = q.waiting /\ e.parts = q.parts \o c /\ e.dead = q.dead
  BY <1>1, <1>3, <1>5 DEF Proc
<1>7. z \in Settling /\ LoopInv(z, e.waiting, rest, git[procs].at, git[procs].in)
  <2>1. Once(e.waiting) /\ Streams(e.waiting, e.parts \o rest, git[procs].at, git[procs].in)
    BY <1>1, <1>2, <1>4, <1>6
  <2>2. e.waiting \in Seq(Reads) /\ e.parts \in Seq(Piece)
    BY <1>1, <1>5, <1>6
  <2> QED
    BY <1>1, <1>4, <2>1, <2>2, SettledTold
<1>8. z.waiting \in Seq(Reads) /\ z.parts \in Seq(Piece) /\ z.given \in [Reads -> SUBSET Result]
  BY <1>7 DEF Settling
<1>9. /\ Settle(e).p = [e EXCEPT !.waiting = z.waiting, !.parts = z.parts]
      /\ Settle(e).given = z.given
  BY DEF Settle
<1> HIDE DEF z
<1>10. /\ Settle(e).p \in Proc /\ ~Settle(e).p.dead /\ Settle(e).p.waiting = z.waiting
       /\ Settle(e).p.parts = z.parts
  <2>1. [e EXCEPT !.waiting = z.waiting, !.parts = z.parts] \in Proc
    BY <1>6, <1>8 DEF Proc
  <2>2. DOMAIN e = {"dead", "timer", "waiting", "parts"}
    BY <1>6 DEF Proc
  <2> QED
    BY <1>1, <1>6, <1>9, <2>1, <2>2
<1>11. Once(z.waiting) /\ Streams(z.waiting, z.parts \o rest, git[procs].at, git[procs].in)
  BY <1>7 DEF LoopInv
<1>12. \A r \in Reads : /\ In(r, q.waiting) <=> In(r, z.waiting) \/ z.given[r] # {}
                        /\ ~(In(r, z.waiting) /\ z.given[r] # {})
                        /\ \A v \in z.given[r] : v.answered => v.object \in {r, None}
  BY <1>6, <1>7 DEF LoopInv
<1>13. DoneAll(read, z.given) \in [Reads -> Call] /\ Waits(DoneAll(read, z.given), z.waiting)
  BY <1>2, <1>8, <1>11, <1>12, TellsSome
<1> QED
  BY <1>4, <1>9, <1>10, <1>11, <1>13

LEMMA StdoutStep ==
  ASSUME CoreInv, NEW p \in Reads, NEW n \in 1..Len(git[p].out), Stdout(p, n)
  PROVE  CoreInv'
<1> DEFINE chunk == SubSeq(git[p].out, 1, n)
           rest == SubSeq(git[p].out, n + 1, Len(git[p].out))
           e == [proc[p] EXCEPT !.parts = @ \o chunk]
           s == Settle(e)
           told == DoneAll(read, s.given)
           at == IF ~proc[p].dead /\ ~s.fits /\ git[p].at = "up" THEN "down" ELSE git[p].at
           g == [git[p] EXCEPT !.out = rest, !.at = at]
<1>1. git \in [Reads -> Git] /\ proc \in [Reads -> Proc] /\ git[p] \in Git
  BY DEF CoreInv
<1>2. git' = [git EXCEPT ![p].out = rest, ![p].at = at]
  BY DEF Stdout
<1>3. /\ proc[p].dead => UNCHANGED <<procs, proc, read>>
      /\ ~proc[p].dead /\ s.fits =>
           proc' = [proc EXCEPT ![p] = Arm(s.p)] /\ read' = told /\ procs' = procs
      /\ ~proc[p].dead /\ ~s.fits =>
           /\ procs' = IF procs = p THEN None ELSE procs
           /\ proc' = [proc EXCEPT ![p] = Failed(s.p)]
           /\ read' = DoneAll(told, FailResults(s.p))
  BY DEF Stdout
<1>4. e = [proc[p] EXCEPT !.parts = @ \o SubSeq(git[p].out, 1, n)]
  OBVIOUS
<1>5. rest \in Seq(Piece)
  <2>1. git[p].out \in Seq(Piece) /\ <<>> \in Seq(Piece)
    BY <1>1 DEF Git
  <2> QED
    BY <2>1, CutJoin
<1>6. at \in {"none", "up", "down", "exited"} /\ (s.fits \/ proc[p].dead => at = git[p].at)
  BY <1>1 DEF Git
<1>7. rest = SubSeq(git[p].out, n + 1, Len(git[p].out))
  OBVIOUS
<1> HIDE DEF rest, at, e, s, told
<1>8. git' = [git EXCEPT ![p] = g] /\ g \in Git /\ g.at = at /\ g.out = rest /\ g.in = git[p].in
  <2>1. g \in Git /\ g.at = at /\ g.out = rest /\ g.in = git[p].in
    BY <1>1, <1>5, <1>6 DEF Git
  <2>2. git' = [git EXCEPT ![p] = g]
    BY <1>1, <1>2 DEF Git
  <2> QED
    BY <2>1, <2>2
<1> HIDE DEF g
<1>9. git' \in [Reads -> Git] /\ git'[p] = g /\ \A q \in Reads : q # p => git'[q] = git[q]
  BY <1>1, <1>8
<1>10. CASE p # procs
  <2>1. proc[p].dead
    BY <1>10, CoreFacts
  <2>2. procs # None => git'[procs] = git[procs]
    BY <1>9, <1>10, CoreFacts
  <2> QED
    BY <1>3, <1>9, <2>1, <2>2, CoreFacts, GitOnly
<1>11. CASE p = procs
  <2>1. procs # None /\ ~proc[p].dead
    BY <1>11, CatFileAssumption, CoreFacts
  <2>2. /\ s.p \in Proc /\ ~s.p.dead
        /\ Streams(s.p.waiting, s.p.parts \o rest, git[p].at, git[p].in)
        /\ told \in [Reads -> Call] /\ Waits(told, s.p.waiting)
    <3>1. /\ n \in 1..Len(git[procs].out)
          /\ e = [proc[procs] EXCEPT !.parts = @ \o SubSeq(git[procs].out, 1, n)]
          /\ rest = SubSeq(git[procs].out, n + 1, Len(git[procs].out))
      BY <1>4, <1>7, <1>11
    <3> QED
      BY <1>11, <2>1, <3>1, ChunkTold DEF s, told
  <2>3. CASE ~s.fits
    <3>1. procs' = None /\ proc' = [proc EXCEPT ![procs] = Failed(s.p)]
          /\ read' = DoneAll(told, FailResults(s.p))
      BY <1>3, <1>11, <2>1, <2>3
    <3> QED
      BY <1>9, <2>1, <2>2, <3>1, RootGivenUp
  <2>4. CASE s.fits
    <3>1. proc' = [proc EXCEPT ![p] = Arm(s.p)] /\ read' = told /\ procs' = procs
      BY <1>3, <2>1, <2>4
    <3> DEFINE q == Arm(s.p)
    <3>2. /\ q \in Proc /\ ~q.dead /\ q.waiting = s.p.waiting /\ q.parts = s.p.parts
          /\ q.timer <=> q.waiting # <<>>
      BY <2>2, ArmIs
    <3> HIDE DEF q
    <3>3. /\ proc' \in [Reads -> Proc] /\ proc'[p] = q
          /\ \A d \in Reads : d # p => proc'[d] = proc[d]
      BY <1>1, <3>1, <3>2 DEF q
    <3>4. ProcInv'
      BY <1>11, <3>1, <3>2, <3>3 DEF CoreInv, ProcInv
    <3>5. OnList' = s.p.waiting
      BY <1>11, <2>1, <3>1, <3>2, <3>3 DEF OnList
    <3>6. StreamInv'
      <4>1. git'[p].at = git[p].at /\ git'[p].in = git[p].in /\ git'[p].out = rest
        BY <1>6, <1>8, <1>9, <2>4
      <4> QED
        BY <1>11, <2>1, <2>2, <3>1, <3>2, <3>3, <4>1 DEF StreamInv
    <3> QED
      BY <1>9, <1>11, <2>2, <3>1, <3>3, <3>4, <3>5, <3>6 DEF CoreInv
  <2> QED
    BY <2>3, <2>4
<1> QED
  BY <1>10, <1>11

\* The pieces of git's reply.
Line(r, is) == <<[of |-> r, is |-> "start"], [of |-> r, is |-> is]>>
Body(r, is) == IF is = "found" THEN <<[of |-> r, is |-> "body"]>> ELSE <<>>

LEMMA RepliesWhole ==
  ASSUME NEW r \in Reads, NEW is \in {"found", "missing", "junk"}
  PROVE  /\ Line(r, is) \in Seq(Piece) /\ Body(r, is) \in Seq(Piece)
         /\ Reply(Line(r, is) \o Body(r, is), r)
<1> DEFINE line == Line(r, is)
           body == Body(r, is)
           z == line \o body
           a == [of |-> r, is |-> "start"]
           b == [of |-> r, is |-> is]
           c == [of |-> r, is |-> "body"]
<1>1. /\ a \in Piece /\ b \in Piece /\ c \in Piece /\ a.of = r /\ b.of = r /\ c.of = r
      /\ a.is = "start" /\ b.is = is /\ c.is = "body"
  BY DEF Piece
<1>2. line = <<a, b>> /\ body = IF is = "found" THEN <<c>> ELSE <<>>
  BY DEF Line, Body
<1> HIDE DEF a, b, c, line, body
<1>3. line \in Seq(Piece) /\ Len(line) = 2 /\ line[1] = a /\ line[2] = b
  BY <1>1, <1>2
<1>4. CASE is = "found"
  <2>1. body \in Seq(Piece) /\ Len(body) = 1 /\ body[1] = c
    BY <1>1, <1>2, <1>4
  <2>2. z \in Seq(Piece) /\ Len(z) = 3 /\ z[1] = a /\ z[2] = b /\ z[3] = c
    <3>1. /\ z \in Seq(Piece) /\ Len(z) = Len(line) + Len(body)
          /\ \A i \in 1..Len(line) + Len(body) :
               z[i] = IF i <= Len(line) THEN line[i] ELSE body[i - Len(line)]
      BY <1>3, <2>1, ConcatProperties
    <3> HIDE DEF z
    <3> QED
      BY <1>3, <2>1, <3>1
  <2> HIDE DEF z
  <2>3. \A i \in 1..Len(z) : z[i].of = r
    <3>1. \A i \in 1..3 : i = 1 \/ i = 2 \/ i = 3
      OBVIOUS
    <3> QED
      BY <1>1, <2>2, <3>1
  <2>4. Reply(z, r)
    BY <1>1, <1>4, <2>2, <2>3 DEF Reply
  <2> QED
    BY <1>3, <2>1, <2>4 DEF z, line, body
<1>5. CASE is # "found"
  <2>1. body = <<>> /\ body \in Seq(Piece) /\ z = line
    BY <1>2, <1>3, <1>5, ConcatEmptySeq
  <2> HIDE DEF z
  <2>2. \A i \in 1..Len(z) : z[i].of = r
    <3>1. \A i \in 1..2 : i = 1 \/ i = 2
      OBVIOUS
    <3> QED
      BY <1>1, <1>3, <2>1, <3>1
  <2>3. Reply(z, r)
    <3>1. /\ z \in Seq(Piece) /\ Len(z) = 2 /\ z[1].is = "start" /\ z[2].is \in {"missing", "junk"}
          /\ Len(z) # 3
      BY <1>1, <1>3, <1>5, <2>1
    <3> QED
      BY <2>2, <3>1 DEF Reply
  <2> QED
    BY <1>3, <2>1, <2>3 DEF z, line, body
<1> QED
  BY <1>4, <1>5

\* GitReply.
LEMMA GitReplyStep ==
  ASSUME CoreInv, NEW p \in Reads, GitReply(p)
  PROVE  CoreInv'
<1>1. git \in [Reads -> Git] /\ git[p] \in Git
  BY DEF CoreInv
<1>2. git[p].in \in Seq(Reads) /\ git[p].out \in Seq(Piece) /\ git[p].in # <<>> /\ git[p].at = "up"
  BY <1>1 DEF Git, GitReply
<1>3. PICK is \in {"found", "missing", "junk"} :
        git' = [git EXCEPT ![p].in = Tail(@),
                           ![p].out = @ \o <<[of |-> Head(git[p].in), is |-> "start"],
                                             [of |-> Head(git[p].in), is |-> is]>>
                                        \o (IF is = "found" THEN <<[of |-> Head(git[p].in), is |-> "body"]>>
                                            ELSE <<>>)]
  BY DEF GitReply
<1> DEFINE r == Head(git[p].in)
           line == <<[of |-> r, is |-> "start"], [of |-> r, is |-> is]>>
           body == IF is = "found" THEN <<[of |-> r, is |-> "body"]>> ELSE <<>>
           z == line \o body
           in == git[p].in
           out == git[p].out
           g == [git[p] EXCEPT !.in = Tail(in), !.out = (out \o line) \o body]
<1>4. git' = [git EXCEPT ![p] = g]
  BY <1>1, <1>3 DEF Git
<1>5. r \in Reads /\ Tail(in) \in Seq(Reads) /\ r = Head(in)
  BY <1>2, FirstOf
<1> HIDE DEF r
<1>6. line \in Seq(Piece) /\ body \in Seq(Piece) /\ z \in Seq(Piece) /\ Reply(z, r)
  <2>1. Reply(Line(r, is) \o Body(r, is), r) /\ Line(r, is) \in Seq(Piece) /\ Body(r, is) \in Seq(Piece)
    BY <1>5, RepliesWhole
  <2> QED
    BY <2>1 DEF Line, Body, Reply
<1> HIDE DEF line, body
<1>10. (out \o line) \o body = out \o z
  <2>1. out \in Seq(Piece)
    BY <1>2
  <2> HIDE DEF out
  <2>2. (out \o line) \o body = out \o (line \o body)
    BY <1>6, <2>1, ConcatAssociative
  <2> QED
    BY <2>2
<1> HIDE DEF z
<1>12. out \o z \in Seq(Piece)
  BY <1>2, <1>6, ConcatProperties
<1>13. g \in Git /\ g.at = "up" /\ g.in = Tail(in) /\ g.out = out \o z
  <2>1. g = [git[p] EXCEPT !.in = Tail(in), !.out = out \o z]
    BY <1>10
  <2> DEFINE y == out \o z
             t == Tail(in)
  <2>2. y \in Seq(Piece) /\ t \in Seq(Reads) /\ g = [git[p] EXCEPT !.in = t, !.out = y]
    BY <1>5, <1>12, <2>1
  <2> HIDE DEF y, t, g
  <2>3. g \in Git /\ g.at = "up" /\ g.in = t /\ g.out = y
    BY <1>1, <1>2, <2>2 DEF Git
  <2> QED
    BY <2>3 DEF y, t
<1> HIDE DEF g
<1>14. /\ git' \in [Reads -> Git] /\ git'[p] = g
       /\ \A q \in Reads : q # p => git'[q] = git[q]
  BY <1>1, <1>4, <1>13
<1>15. UNCHANGED <<procs, proc, read>>
  BY DEF GitReply
<1>16. ASSUME procs # None
       PROVE  Streams(proc[procs].waiting, proc[procs].parts \o git'[procs].out,
                      git'[procs].at, git'[procs].in)
  <2>1. CASE procs # p
    <3>1. git'[procs] = git[procs]
      BY <1>14, <1>16, <2>1, CoreFacts
    <3> QED
      BY <1>16, <3>1, CoreFacts
  <2>2. CASE procs = p
    <3> DEFINE a == proc[p].parts
               w == proc[p].waiting
               x == a \o out
    <3>1. a \in Seq(Piece) /\ w \in Seq(Reads) /\ Streams(w, x, "up", in)
      BY <1>2, <1>16, <2>2, CoreFacts
    <3> HIDE DEF a, w, in, out
    <3>2. out \in Seq(Piece)
      BY <1>2 DEF out
    <3>5. x \in Seq(Piece) /\ x \o z = a \o (out \o z)
      <4>1. x \in Seq(Piece)
        BY <3>1, <3>2, ConcatProperties
      <4>2. z \in Seq(Piece)
        BY <1>6
      <4>3. (a \o out) \o z = a \o (out \o z)
        BY <3>1, <3>2, <4>2, ConcatAssociative
      <4> QED
        BY <4>1, <4>3
    <3> HIDE DEF x
    <3>3. in \in Seq(Reads) /\ in # <<>> /\ Reply(z, Head(in))
      BY <1>2, <1>5, <1>6 DEF in
    <3>4. Streams(w, x \o z, "up", Tail(in))
      BY <3>1, <3>3, <3>5, ReplyStream
    <3> QED
      BY <1>13, <1>14, <2>2, <3>4, <3>5 DEF a, w
  <2> QED
    BY <2>1, <2>2
<1> QED
  BY <1>14, <1>15, <1>16, GitOnly

\* GitDies.
LEMMA GitDiesStep ==
  ASSUME CoreInv, NEW p \in Reads, GitDies(p)
  PROVE  CoreInv'
<1>1. git \in [Reads -> Git] /\ git[p] \in Git
  BY DEF CoreInv
<1>2. PICK n \in 0..Len(git[p].out) :
        git' = [git EXCEPT ![p].at = "down", ![p].out = SubSeq(@, 1, n)]
  BY DEF GitDies
<1> DEFINE out == git[p].out
           c == SubSeq(out, 1, n)
           g == [git[p] EXCEPT !.at = "down", !.out = c]
<1>3. git' = [git EXCEPT ![p] = g]
  BY <1>1, <1>2 DEF Git
<1>4. out \in Seq(Piece) /\ n \in 0..Len(out)
  BY <1>1, <1>2 DEF Git
<1> HIDE DEF out
<1>5. c \in Seq(Piece)
  <2>1. <<>> \in Seq(Piece)
    OBVIOUS
  <2> QED
    BY <1>4, <2>1, Prefix
<1> HIDE DEF c
<1>6. g \in Git /\ g.at = "down" /\ g.out = c
  BY <1>1, <1>5 DEF Git
<1> HIDE DEF g
<1>7. /\ git' \in [Reads -> Git] /\ git'[p] = g
      /\ \A q \in Reads : q # p => git'[q] = git[q]
  BY <1>1, <1>3, <1>6
<1>8. UNCHANGED <<procs, proc, read>>
  BY DEF GitDies
<1>9. ASSUME procs # None
      PROVE  Streams(proc[procs].waiting, proc[procs].parts \o git'[procs].out,
                     git'[procs].at, git'[procs].in)
  <2>1. CASE procs # p
    <3>1. git'[procs] = git[procs]
      BY <1>7, <1>9, <2>1, CoreFacts
    <3> QED
      BY <1>9, <3>1, CoreFacts
  <2>2. CASE procs = p
    <3> DEFINE a == proc[p].parts
               w == proc[p].waiting
               x == a \o out
               y == a \o c
               at == git[p].at
               in == git[p].in
    <3>1. a \in Seq(Piece) /\ w \in Seq(Reads) /\ Streams(w, x, at, in)
      BY <1>9, <2>2, CoreFacts DEF out
    <3> HIDE DEF a, w, at, in
    <3>2. y \in Seq(Piece) /\ x \in Seq(Piece) /\ Len(y) <= Len(x) /\ \A i \in 1..Len(y) : y[i] = x[i]
      BY <1>4, <3>1, Prefix DEF c
    <3> HIDE DEF x, y
    <3>3. \A rest : Streams(w, y, "down", rest)
      BY <3>1, <3>2, CutStream
    <3> QED
      BY <1>6, <1>7, <2>2, <3>3 DEF a, w, y
  <2> QED
    BY <2>1, <2>2
<1> QED
  BY <1>7, <1>8, <1>9, GitOnly

\* The coroutine runs again, or vim.wait sees the result.
LEMMA ReturnStep ==
  ASSUME CoreInv, NEW r \in Reads, Return(r)
  PROVE  CoreInv'
<1> DEFINE c == [read[r] EXCEPT !.at = "returned", !.value = read[r].result]
<1>1. read \in [Reads -> Call] /\ read[r] \in Call /\ Waits(read, OnList)
  BY DEF CoreInv
<1>2. /\ read[r].at \in {"yielding", "blocking"} /\ UNCHANGED <<procs, proc, git>>
      /\ read' = [read EXCEPT ![r].at = "returned", ![r].value = read[r].result]
  BY DEF Return
<1>3. read' = [read EXCEPT ![r] = c]
  BY <1>1, <1>2 DEF Call
<1>4. /\ c \in Call /\ c.at = "returned" /\ c.value = read[r].result
      /\ c.dones = read[r].dones /\ c.result = read[r].result
  BY <1>1 DEF Call
<1> HIDE DEF c
<1>5. /\ read' \in [Reads -> Call] /\ read'[r] = c
      /\ \A q \in Reads : q # r => read'[q] = read[q]
  BY <1>1, <1>3, <1>4
<1>6. Once(OnList)
  BY <1>1 DEF Waits
<1>7. ASSUME NEW q \in Reads
      PROVE  /\ In(q, OnList) => read'[q].at \notin {"idle", "version"} /\ read'[q].dones = 0
             /\ read'[q].dones <= 1
             /\ read'[q].at \in {"idle", "version"} => read'[q].dones = 0
             /\ read'[q].at \in {"yielding", "blocking"} /\ read'[q].result = {} => In(q, OnList)
             /\ \A v \in read'[q].value \cup read'[q].result : v.answered => v.object \in {q, None}
  <2>1. CASE q # r
    <3>1. read'[q] = read[q]
      BY <1>5, <2>1
    <3> QED
      BY <1>1, <3>1 DEF Waits
  <2>2. CASE q = r
    <3>1. /\ read'[q].at = "returned" /\ read'[q].value = read[q].result
          /\ read'[q].dones = read[q].dones /\ read'[q].result = read[q].result
      BY <1>4, <1>5, <2>2
    <3>2. /\ In(q, OnList) => read[q].dones = 0
          /\ read[q].dones <= 1
          /\ \A v \in read[q].result : v.answered => v.object \in {q, None}
      BY <1>1 DEF Waits
    <3> QED
      BY <3>1, <3>2
  <2> QED
    BY <2>1, <2>2
<1>8. Waits(read', OnList)
  BY <1>6, <1>7 DEF Waits
<1> QED
  BY <1>2, <1>5, <1>8, CallsOnly

\* M.read asks git for its version.
LEMMA AskStep ==
  ASSUME CoreInv, NEW r \in Reads, read[r].at = "idle", UNCHANGED <<procs, proc, git>>,
         read' = [read EXCEPT ![r].at = "version"]
  PROVE  CoreInv'
<1> DEFINE c == [read[r] EXCEPT !.at = "version"]
<1>1. read \in [Reads -> Call] /\ read[r] \in Call /\ Waits(read, OnList)
  BY DEF CoreInv
<1>2. read' = [read EXCEPT ![r] = c]
  BY <1>1 DEF Call
<1>3. /\ c \in Call /\ c.at = "version" /\ c.value = read[r].value
      /\ c.dones = read[r].dones /\ c.result = read[r].result
  BY <1>1 DEF Call
<1> HIDE DEF c
<1>4. /\ read' \in [Reads -> Call] /\ read'[r] = c
      /\ \A q \in Reads : q # r => read'[q] = read[q]
  BY <1>1, <1>2, <1>3
<1>5. Once(OnList)
  BY <1>1 DEF Waits
<1>6. ASSUME NEW q \in Reads
      PROVE  /\ In(q, OnList) => read'[q].at \notin {"idle", "version"} /\ read'[q].dones = 0
             /\ read'[q].dones <= 1
             /\ read'[q].at \in {"idle", "version"} => read'[q].dones = 0
             /\ read'[q].at \in {"yielding", "blocking"} /\ read'[q].result = {} => In(q, OnList)
             /\ \A v \in read'[q].value \cup read'[q].result : v.answered => v.object \in {q, None}
  <2>1. CASE q # r
    <3>1. read'[q] = read[q]
      BY <1>4, <2>1
    <3> QED
      BY <1>1, <3>1 DEF Waits
  <2>2. CASE q = r
    <3>1. /\ read'[q].at = "version" /\ read'[q].value = read[q].value
          /\ read'[q].dones = read[q].dones /\ read'[q].result = read[q].result
      BY <1>3, <1>4, <2>2
    <3>2. /\ ~In(q, OnList) /\ read[q].dones = 0
          /\ \A v \in read[q].value \cup read[q].result : v.answered => v.object \in {q, None}
      BY <1>1, <2>2 DEF Waits
    <3> QED
      BY <3>1, <3>2
  <2> QED
    BY <2>1, <2>2
<1>7. Waits(read', OnList)
  BY <1>5, <1>6 DEF Waits
<1> QED
  BY <1>4, <1>7, CallsOnly

\* vim.wait gives up: the waiter stays on the list.
LEMMA BackstopStep ==
  ASSUME CoreInv, NEW r \in Reads, Backstop(r)
  PROVE  CoreInv'
<1>1. read \in [Reads -> Call] /\ Waits(read, OnList)
  BY DEF CoreInv
<1>2. /\ read[r].at = "blocking" /\ read[r].result = {} /\ UNCHANGED <<procs, proc, git>>
      /\ read' = Returned(read, r, Unanswered)
  BY DEF Backstop
<1>3. In(r, OnList)
  BY <1>1, <1>2 DEF Waits
<1>4. read' \in [Reads -> Call] /\ Waits(read', OnList)
  BY <1>1, <1>2, <1>3, ReturnsNothing
<1> QED
  BY <1>2, <1>4, CallsOnly

\* M.read, up to its wait.
LEMMA ReadStep ==
  ASSUME CoreInv, NEW r \in Reads, Read(r)
  PROVE  CoreInv'
<1>1. read[r].at = "idle" /\ read \in [Reads -> Call] /\ Waits(read, OnList)
  BY DEF Read, CoreInv
<1>2. CASE read' = Returned(read, r, Unanswered) /\ UNCHANGED <<procs, proc, git>>
  <2>1. read' \in [Reads -> Call] /\ Waits(read', OnList)
    BY <1>1, <1>2, ReturnsNothing
  <2> QED
    BY <1>2, <2>1, CallsOnly
<1>3. CASE \E at \in {"yielding", "blocking"} : ReadOn(r, at)
  BY <1>1, <1>3, ReadOnStep
<1>4. CASE read' = [read EXCEPT ![r].at = "version"] /\ UNCHANGED <<procs, proc, git>>
  BY <1>1, <1>4, AskStep
<1>5. \/ read' = Returned(read, r, Unanswered) /\ UNCHANGED <<procs, proc, git>>
      \/ \E at \in {"yielding", "blocking"} : ReadOn(r, at)
      \/ read' = [read EXCEPT ![r].at = "version"] /\ UNCHANGED <<procs, proc, git>>
  BY DEF Read
<1> QED
  BY <1>2, <1>3, <1>4, <1>5

\* The coroutine resumes with the version.
LEMMA VersionStep ==
  ASSUME CoreInv, NEW r \in Reads, Version(r)
  PROVE  CoreInv'
<1>1. read[r].at = "version" /\ ReadOn(r, "yielding")
  BY DEF Version
<1> QED
  BY <1>1, ReadOnStep

\* on_exit.
LEMMA OnExitStep ==
  ASSUME CoreInv, NEW p \in Reads, OnExit(p)
  PROVE  CoreInv'
<1>1. git \in [Reads -> Git] /\ git[p] \in Git /\ read \in [Reads -> Call] /\ Waits(read, OnList)
  BY DEF CoreInv
<1>2. /\ git' = [git EXCEPT ![p].at = "exited"] /\ procs' = IF procs = p THEN None ELSE procs
      /\ proc' = [proc EXCEPT ![p] = Failed(proc[p])]
      /\ read' = DoneAll(read, FailResults(proc[p]))
  BY DEF OnExit, AfterExit
<1>3. git' \in [Reads -> Git] /\ \A q \in Reads : q # p => git'[q] = git[q]
  BY <1>1, <1>2 DEF Git
<1> QED
  BY <1>1, <1>2, <1>3, GivenUp

\* The timer.
LEMMA TimerStep ==
  ASSUME CoreInv, NEW p \in Reads, Timer(p)
  PROVE  CoreInv'
<1>1. git \in [Reads -> Git] /\ git[p] \in Git /\ read \in [Reads -> Call] /\ Waits(read, OnList)
  BY DEF CoreInv
<1>2. /\ git' = [git EXCEPT ![p].at = IF @ = "up" THEN "down" ELSE @]
      /\ procs' = IF procs = p THEN None ELSE procs
      /\ proc' = [proc EXCEPT ![p] = Failed(proc[p])]
      /\ read' = DoneAll(read, FailResults(proc[p]))
  BY DEF Timer, Kill
<1>3. git' \in [Reads -> Git] /\ \A q \in Reads : q # p => git'[q] = git[q]
  BY <1>1, <1>2 DEF Git
<1> QED
  BY <1>1, <1>2, <1>3, GivenUp

\* Nothing of the root changes.
LEMMA RootStill ==
  ASSUME CoreInv, UNCHANGED <<procs, proc, git, read>>
  PROVE  CoreInv'
BY DEF CoreInv, ProcInv, StreamInv, OnList

\* The function M.hold returned.
LEMMA ReleaseStep ==
  ASSUME CoreInv, NEW s \in Sessions, Release(s)
  PROVE  CoreInv'
<1>1. CASE UNCHANGED <<procs, proc, git, read>>
  BY <1>1, RootStill
<1>2. CASE /\ procs # None /\ procs' = None /\ proc' = [proc EXCEPT ![procs] = Failed(proc[procs])]
           /\ read' = DoneAll(read, FailResults(proc[procs])) /\ UNCHANGED git
  <2>1. procs \in Reads /\ git' \in [Reads -> Git] /\ read \in [Reads -> Call] /\ Waits(read, OnList)
    BY <1>2, CoreFacts DEF CoreInv
  <2>2. proc[procs] \in Proc /\ OnList = proc[procs].waiting
    BY <1>2, CoreFacts
  <2> QED
    BY <1>2, <2>1, <2>2, RootGivenUp
<1>3. \/ UNCHANGED <<procs, proc, git, read>>
      \/ /\ procs # None /\ procs' = None /\ proc' = [proc EXCEPT ![procs] = Failed(proc[procs])]
         /\ read' = DoneAll(read, FailResults(proc[procs])) /\ UNCHANGED git
  BY DEF Release
<1> QED
  BY <1>1, <1>2, <1>3

-----------------------------------------------------------------------------
(* The holds.                                                              *)

\* A session takes its hold.
LEMMA HoldTaken ==
  ASSUME SideInv, NEW s \in Sessions, Hold(s)
  PROVE  SideInv'
<1> DEFINE H == Held
<1>1. /\ session \in [Sessions -> {"closed", "held", "released"}]
      /\ IsFiniteSet(H) /\ holds = Cardinality(H)
      /\ hasNul \in BOOLEAN /\ nulSupported \in BOOLEAN
  BY DEF SideInv, HoldInv
<1>2. /\ session[s] = "closed" /\ session' = [session EXCEPT ![s] = "held"] /\ holds' = holds + 1
      /\ hasNul' = hasNul /\ nulSupported' = nulSupported
  BY DEF Hold
<1>3. session' \in [Sessions -> {"closed", "held", "released"}]
  BY <1>1, <1>2
<1>4. s \notin H /\ Held' = H \cup {s}
  BY <1>1, <1>2 DEF Held
<1> HIDE DEF H
<1>5. IsFiniteSet(H \cup {s}) /\ Cardinality(H \cup {s}) = Cardinality(H) + 1
  BY <1>1, <1>4, FS_AddElement
<1>6. HoldInv'
  BY <1>1, <1>2, <1>4, <1>5 DEF HoldInv
<1> QED
  BY <1>1, <1>2, <1>3, <1>6 DEF SideInv

\* A session releases it, once.
LEMMA HoldReleased ==
  ASSUME SideInv, NEW s \in Sessions, Release(s)
  PROVE  SideInv'
<1> DEFINE H == Held
<1>1. /\ session \in [Sessions -> {"closed", "held", "released"}]
      /\ IsFiniteSet(H) /\ holds = Cardinality(H)
      /\ hasNul \in BOOLEAN /\ nulSupported \in BOOLEAN
  BY DEF SideInv, HoldInv
<1>2. /\ session[s] \in {"held", "released"} /\ session' = [session EXCEPT ![s] = "released"]
      /\ hasNul' = hasNul /\ nulSupported' = nulSupported
      /\ session[s] = "released" => holds' = holds
      /\ session[s] = "held" => holds' = holds - 1
  BY DEF Release
<1>3. session' \in [Sessions -> {"closed", "held", "released"}]
  BY <1>1, <1>2
<1>4. CASE session[s] = "released"
  <2>1. session' = session
    BY <1>1, <1>2, <1>4
  <2>2. HoldInv'
    BY <1>2, <1>4, <2>1 DEF SideInv, HoldInv, Held
  <2> QED
    BY <1>1, <1>2, <1>3, <2>2 DEF SideInv
<1>5. CASE session[s] = "held"
  <2>1. s \in H /\ Held' = H \ {s}
    BY <1>1, <1>2, <1>5 DEF Held
  <2> HIDE DEF H
  <2>2. IsFiniteSet(H \ {s}) /\ Cardinality(H \ {s}) = Cardinality(H) - 1
    BY <1>1, <2>1, FS_RemoveElement
  <2>3. HoldInv'
    BY <1>1, <1>2, <1>5, <2>1, <2>2 DEF HoldInv
  <2> QED
    BY <1>1, <1>2, <1>3, <2>3 DEF SideInv
<1> QED
  BY <1>2, <1>4, <1>5

\* Every other step leaves the holds alone.
LEMMA HoldsStill ==
  ASSUME SideInv, UNCHANGED <<holds, session, hasNul>>, nulSupported' \in BOOLEAN
  PROVE  SideInv'
BY DEF SideInv, HoldInv, Held

-----------------------------------------------------------------------------
(* The last release.                                                       *)

LEMMA DoneAt ==
  ASSUME NEW calls \in [Reads -> Call], NEW res, NEW q \in Reads
  PROVE  DoneAll(calls, res)[q].at = calls[q].at
BY DEF DoneAll, Call

LEMMA ReturnedAt ==
  ASSUME NEW calls \in [Reads -> Call], NEW r \in Reads, NEW v, NEW q \in Reads
  PROVE  /\ Returned(calls, r, v)[q].at \in {calls[q].at, "returned"}
         /\ q # r => Returned(calls, r, v)[q] = calls[q]
BY DEF Returned, Call

\* No read comes to ask git's version.
NoneAsks == \A q \in Reads : read'[q].at = "version" => read[q].at = "version"

LEMMA KillAsks ==
  ASSUME NEW p, NEW q, NEW calls \in [Reads -> Call], Kill(p, q, calls),
         \A c \in Reads : calls[c].at = "version" => read[c].at = "version"
  PROVE  NoneAsks /\ procs' \in {procs, None}
BY DoneAt DEF Kill, NoneAsks

LEMMA LateStill ==
  ASSUME LateInv, UNCHANGED <<holds, late>>, NoneAsks,
         holds = 0 => procs' \in {procs, None} \cup late
  PROVE  LateInv'
BY DEF LateInv, NoneAsks, StoppedButLate

LEMMA ReadOnAsks ==
  ASSUME CoreInv, NEW r \in Reads, NEW at \in {"yielding", "blocking"}, ReadOn(r, at)
  PROVE  NoneAsks /\ procs' \in {procs, None, r}
<1>1. read \in [Reads -> Call]
  BY DEF CoreInv
<1>2. /\ Returned(read, r, Unanswered) \in [Reads -> Call]
      /\ \A q \in Reads : Returned(read, r, Unanswered)[q].at = "version" => read[q].at = "version"
  <2>1. Unanswered \in Result
    BY DEF Unanswered, Result
  <2>2. [read[r] EXCEPT !.at = "returned", !.value = {Unanswered}] \in Call
    BY <1>1, <2>1 DEF Call
  <2>3. Returned(read, r, Unanswered)
          = [read EXCEPT ![r] = [read[r] EXCEPT !.at = "returned", !.value = {Unanswered}]]
    BY <1>1 DEF Returned, Call
  <2> QED
    BY <1>1, <2>2, <2>3, ReturnedAt
<1>3. CASE read' = Returned(read, r, Unanswered) /\ procs' = procs
  BY <1>2, <1>3 DEF NoneAsks
<1>4. CASE read' = [read EXCEPT ![r].at = at] /\ procs' \in {procs, r}
  BY <1>1, <1>4 DEF NoneAsks, Call
<1>5. CASE Kill(procs, proc[procs], Returned(read, r, Unanswered))
  BY <1>2, <1>5, KillAsks
<1> QED
  BY <1>3, <1>4, <1>5 DEF ReadOn, Request

LEMMA ReadLate ==
  ASSUME CatInv, NEW r \in Reads, Read(r)
  PROVE  LateInv'
<1>0. /\ CoreInv /\ LateInv /\ UNCHANGED <<holds, late>> /\ read \in [Reads -> Call]
      /\ holds \in Nat
  BY FS_CardinalityType DEF CatInv, CoreInv, SideInv, HoldInv, Read
<1>1. CASE read' = Returned(read, r, Unanswered) /\ procs' = procs
  <2>1. NoneAsks
    BY <1>0, <1>1, ReturnedAt DEF NoneAsks
  <2> QED
    BY <1>0, <1>1, <2>1, LateStill
<1>2. CASE holds > 0
  BY <1>0, <1>2 DEF LateInv, StoppedButLate
<1> QED
  BY <1>1, <1>2 DEF Read

LEMMA HoldLate ==
  ASSUME CatInv, NEW s \in Sessions, Hold(s)
  PROVE  LateInv'
<1>1. holds \in Nat /\ holds' = holds + 1 /\ late' = late /\ LateInv
  BY FS_CardinalityType DEF CatInv, SideInv, HoldInv, Hold
<1> QED
  BY <1>1 DEF LateInv, StoppedButLate

LEMMA VersionLate ==
  ASSUME CatInv, NEW r \in Reads, Version(r)
  PROVE  LateInv'
<1>1. /\ CoreInv /\ LateInv /\ UNCHANGED <<holds, late>> /\ read[r].at = "version"
      /\ ReadOn(r, "yielding")
  BY DEF CatInv, Version
<1>2. NoneAsks /\ procs' \in {procs, None, r}
  BY <1>1, ReadOnAsks
<1>3. holds = 0 => r \in late
  BY <1>1 DEF LateInv
<1> QED
  BY <1>1, <1>2, <1>3, LateStill

LEMMA ReleaseLate ==
  ASSUME CatInv, NEW s \in Sessions, Release(s)
  PROVE  LateInv'
<1>0. LateInv /\ read \in [Reads -> Call] /\ holds \in Nat
  BY FS_CardinalityType DEF CatInv, CoreInv, SideInv, HoldInv
<1>1. CASE UNCHANGED <<holds, procs, read, late>>
  BY <1>0, <1>1 DEF LateInv, StoppedButLate
<1>2. CASE /\ holds' = holds - 1 /\ holds' > 0
  <2>1. UNCHANGED <<procs, read, late>>
    BY <1>0, <1>2 DEF Release
  <2> QED
    BY <1>0, <1>2, <2>1 DEF LateInv, StoppedButLate
<1>3. CASE /\ holds' = holds - 1 /\ ~(holds' > 0)
           /\ late' = late \cup {r \in Reads : read[r].at = "version"}
           /\ procs' = None
           /\ read' = read \/ read' = DoneAll(read, FailResults(proc[procs]))
  <2>1. late' \subseteq Reads
    BY <1>0, <1>3 DEF LateInv
  <2>2. ASSUME NEW q \in Reads, read'[q].at = "version"
        PROVE  q \in late'
    BY <1>0, <1>3, <2>2, DoneAt
  <2> QED
    BY <1>3, <2>1, <2>2 DEF LateInv, StoppedButLate
<1> QED
  BY <1>1, <1>2, <1>3 DEF Release

\* Every other step.
LEMMA OtherLate ==
  ASSUME CatInv, NEW r \in Reads,
         \/ Return(r) \/ Backstop(r) \/ OnExit(r) \/ Timer(r) \/ GitReply(r) \/ GitDies(r)
         \/ \E n \in 1..Len(git[r].out) : Stdout(r, n)
  PROVE  LateInv'
<1>0. LateInv /\ read \in [Reads -> Call]
  BY DEF CatInv, CoreInv
<1>1. CASE Return(r)
  BY <1>0, <1>1, LateStill DEF Return, NoneAsks, Call
<1>2. CASE Backstop(r)
  BY <1>0, <1>2, ReturnedAt, LateStill DEF Backstop, NoneAsks
<1>3. CASE OnExit(r)
  BY <1>0, <1>3, DoneAt, LateStill DEF OnExit, AfterExit, NoneAsks
<1>4. CASE Timer(r)
  BY <1>0, <1>4, KillAsks, LateStill DEF Timer
<1>5. CASE GitReply(r) \/ GitDies(r)
  BY <1>0, <1>5, LateStill DEF GitReply, GitDies, NoneAsks
<1>6. ASSUME NEW n \in 1..Len(git[r].out), Stdout(r, n)
      PROVE  LateInv'
  <2> DEFINE e == [proc[r] EXCEPT !.parts = @ \o SubSeq(git[r].out, 1, n)]
             t == Settle(e)
             told == DoneAll(read, t.given)
  <2>1. /\ UNCHANGED <<holds, late>> /\ procs' \in {procs, None}
        /\ proc[r].dead => read' = read
        /\ read' = read \/ read' = told \/ read' = DoneAll(told, FailResults(t.p))
    BY <1>6 DEF Stdout
  <2>2. ~proc[r].dead => told \in [Reads -> Call]
    <3>1. CoreInv /\ (~proc[r].dead => procs = r /\ procs # None)
      BY CatFileAssumption DEF CatInv, CoreInv, ProcInv
    <3> QED
      BY <3>1, ChunkTold
  <2> HIDE DEF e, t
  <2>3. NoneAsks
    <3>1. \A q \in Reads : told[q].at = read[q].at
      BY <1>0, DoneAt
    <3>2. ~proc[r].dead => \A q \in Reads : DoneAll(told, FailResults(t.p))[q].at = told[q].at
      BY <2>2, DoneAt
    <3> HIDE DEF told
    <3> QED
      BY <2>1, <3>1, <3>2 DEF NoneAsks
  <2> QED
    BY <1>0, <2>1, <2>3, LateStill
<1> QED
  BY <1>1, <1>2, <1>3, <1>4, <1>5, <1>6

-----------------------------------------------------------------------------
LEMMA CatStarts ==
  ASSUME CatInit
  PROVE  CatInv
<1>1. /\ procs = None /\ read \in [Reads -> Call] /\ git \in [Reads -> Git] /\ proc \in [Reads -> Proc]
  <2>1. <<>> \in Seq(Reads) /\ <<>> \in Seq(Piece)
    OBVIOUS
  <2>2. [dead |-> TRUE, timer |-> FALSE, waiting |-> <<>>, parts |-> <<>>] \in Proc
    BY <2>1 DEF Proc
  <2>3. [at |-> "none", in |-> <<>>, out |-> <<>>] \in Git
    BY <2>1 DEF Git
  <2>4. [at |-> "idle", dones |-> 0, result |-> {}, value |-> {}] \in Call
    BY DEF Call
  <2> QED
    BY <2>2, <2>3, <2>4 DEF CatInit
<1>2. \A p \in Reads : proc[p].dead = TRUE /\ proc[p].timer = FALSE /\ proc[p].waiting = <<>>
                       /\ proc[p].parts = <<>>
  BY DEF CatInit
<1>3. ProcInv
  BY <1>1, <1>2 DEF ProcInv
<1>4. StreamInv /\ OnList = <<>>
  BY <1>1 DEF StreamInv, OnList
<1>5. Waits(read, <<>>)
  <2>1. \A r \in Reads : /\ read[r].at = "idle" /\ read[r].dones = 0 /\ read[r].result = {}
                         /\ read[r].value = {}
    BY DEF CatInit
  <2>2. Once(<<>>) /\ \A r \in Reads : ~In(r, <<>>)
    BY DEF Once, In
  <2> QED
    BY <2>1, <2>2 DEF Waits
<1>6. CoreInv
  BY <1>1, <1>3, <1>4, <1>5 DEF CoreInv
<1>7. HoldInv
  <2>1. Held = {}
    BY DEF CatInit, Held
  <2> QED
    BY <2>1, FS_EmptySet DEF CatInit, HoldInv
<1>8. SideInv
  BY <1>7 DEF CatInit, SideInv
<1>9. LateInv
  BY DEF CatInit, LateInv, StoppedButLate
<1> QED
  BY <1>6, <1>8, <1>9 DEF CatInv

LEMMA CatStep ==
  ASSUME CatInv, [CatNext]_catVars
  PROVE  CatInv'
<1> USE DEF CatInv
<1>1. ASSUME NEW s \in Sessions, Hold(s) PROVE CatInv'
  <2>1. UNCHANGED <<procs, proc, git, read>>
    BY <1>1 DEF Hold
  <2> QED
    BY <1>1, <2>1, RootStill, HoldTaken, HoldLate
<1>2. ASSUME NEW s \in Sessions, Release(s) PROVE CatInv'
  BY <1>2, ReleaseStep, HoldReleased, ReleaseLate
<1>3. ASSUME NEW r \in Reads, Read(r) PROVE CatInv'
  <2>1. UNCHANGED <<holds, session, hasNul>> /\ nulSupported' \in BOOLEAN
    BY <1>3 DEF Read, SideInv
  <2> QED
    BY <1>3, <2>1, ReadStep, HoldsStill, ReadLate
<1>4. ASSUME NEW r \in Reads, Version(r) PROVE CatInv'
  <2>1. UNCHANGED <<holds, session, hasNul>> /\ nulSupported' \in BOOLEAN
    BY <1>4 DEF Version
  <2> QED
    BY <1>4, <2>1, VersionStep, HoldsStill, VersionLate
<1>5. ASSUME NEW r \in Reads, Return(r) PROVE CatInv'
  <2>1. UNCHANGED <<holds, session, hasNul>> /\ nulSupported' \in BOOLEAN
    BY <1>5 DEF Return, SideInv
  <2> QED
    BY <1>5, <2>1, ReturnStep, HoldsStill, OtherLate
<1>6. ASSUME NEW r \in Reads, Backstop(r) PROVE CatInv'
  <2>1. UNCHANGED <<holds, session, hasNul>> /\ nulSupported' \in BOOLEAN
    BY <1>6 DEF Backstop, SideInv
  <2> QED
    BY <1>6, <2>1, BackstopStep, HoldsStill, OtherLate
<1>7. ASSUME NEW p \in Reads, NEW n \in 1..Len(git[p].out), Stdout(p, n) PROVE CatInv'
  <2>1. UNCHANGED <<holds, session, hasNul>> /\ nulSupported' \in BOOLEAN
    BY <1>7 DEF Stdout, SideInv
  <2> QED
    BY <1>7, <2>1, StdoutStep, HoldsStill, OtherLate
<1>8. ASSUME NEW p \in Reads, OnExit(p) PROVE CatInv'
  <2>1. UNCHANGED <<holds, session, hasNul>> /\ nulSupported' \in BOOLEAN
    BY <1>8 DEF OnExit, SideInv
  <2> QED
    BY <1>8, <2>1, OnExitStep, HoldsStill, OtherLate
<1>9. ASSUME NEW p \in Reads, Timer(p) PROVE CatInv'
  <2>1. UNCHANGED <<holds, session, hasNul>> /\ nulSupported' \in BOOLEAN
    BY <1>9 DEF Timer, SideInv
  <2> QED
    BY <1>9, <2>1, TimerStep, HoldsStill, OtherLate
<1>10. ASSUME NEW p \in Reads, GitReply(p) PROVE CatInv'
  <2>1. UNCHANGED <<holds, session, hasNul>> /\ nulSupported' \in BOOLEAN
    BY <1>10 DEF GitReply, SideInv
  <2> QED
    BY <1>10, <2>1, GitReplyStep, HoldsStill, OtherLate
<1>11. ASSUME NEW p \in Reads, GitDies(p) PROVE CatInv'
  <2>1. UNCHANGED <<holds, session, hasNul>> /\ nulSupported' \in BOOLEAN
    BY <1>11 DEF GitDies, SideInv
  <2> QED
    BY <1>11, <2>1, GitDiesStep, HoldsStill, OtherLate
<1>12. CASE UNCHANGED catVars
  <2>1. UNCHANGED <<procs, proc, git, read>> /\ UNCHANGED <<holds, session, hasNul>>
        /\ nulSupported' \in BOOLEAN /\ late' = late
    BY <1>12 DEF catVars, SideInv
  <2>2. LateInv'
    BY <2>1 DEF LateInv, StoppedButLate
  <2> QED
    BY <2>1, <2>2, RootStill, HoldsStill
<1> QED
  BY <1>1, <1>2, <1>3, <1>4, <1>5, <1>6, <1>7, <1>8, <1>9, <1>10, <1>11, <1>12 DEF CatNext, Main

\* CatInv holds throughout.
THEOREM ReaderHolds == CatSpec => []CatInv
<1>1. CatInit => CatInv
  BY CatStarts
<1>2. CatInv /\ [CatNext]_catVars => CatInv'
  BY CatStep
<1> QED
  BY <1>1, <1>2, PTL DEF CatSpec

\* A read never returns another read's object, however the stream is cut, the reads
\* abandoned and the processes replaced.
THEOREM ObjectsTheirOwn == CatSpec => []OwnObject
<1>1. CatInv => OwnObject
  BY DEF CatInv, CoreInv, Waits, OwnObject
<1> QED
  BY <1>1, ReaderHolds, PTL

\* Who waits for an answer is on the root's list once, and its timer runs.
LEMMA WaitersServed ==
  ASSUME CatInv
  PROVE  NoneStranded
<1> SUFFICES ASSUME NEW r \in Reads, read[r].at \in {"yielding", "blocking"}, read[r].result = {}
             PROVE  \E p \in Reads :
                      /\ ~proc[p].dead
                      /\ proc[p].timer
                      /\ Cardinality({i \in DOMAIN proc[p].waiting : proc[p].waiting[i] = r}) = 1
  BY DEF NoneStranded
<1>1. CoreInv /\ Waits(read, OnList)
  BY DEF CatInv, CoreInv
<1>2. In(r, OnList) /\ Once(OnList)
  BY <1>1 DEF Waits
<1>3. procs # None
  BY <1>1, <1>2, CoreFacts DEF In
<1>4. /\ procs \in Reads /\ ~proc[procs].dead /\ OnList = proc[procs].waiting
      /\ OnList \in Seq(Reads)
  BY <1>1, <1>3, CoreFacts
<1> DEFINE w == proc[procs].waiting
           I == {i \in DOMAIN w : w[i] = r}
<1>5. PICK k \in 1..Len(w) : w[k] = r
  BY <1>2, <1>4 DEF In
<1>6. I = {k}
  <2>1. DOMAIN w = 1..Len(w)
    BY <1>4
  <2> QED
    BY <1>2, <1>4, <1>5, <2>1 DEF Once
<1>7. Cardinality(I) = 1
  BY <1>6, FS_Singleton
<1>8. proc[procs].timer
  <2>1. w # <<>>
    BY <1>4, <1>5
  <2> QED
    BY <1>1, <1>4, <2>1 DEF CoreInv, ProcInv
<1> QED
  BY <1>4, <1>7, <1>8

\* One process serves the root, and none after the last release but for the read that
\* was asking git's version; `done` runs at most once for each read, and no read waits
\* for nothing; and every variable has its type.
THEOREM OneServed == CatSpec => []OneProcess
<1>1. CatInv => OneProcess
  <2> SUFFICES ASSUME CatInv PROVE OneProcess
    OBVIOUS
  <2>1. holds \in Nat
    BY FS_CardinalityType DEF CatInv, SideInv, HoldInv
  <2>2. CatTypeOK
    BY <2>1 DEF CatInv, CoreInv, SideInv, LateInv, CatTypeOK
  <2>3. NoneStranded
    BY WaitersServed
  <2>4. \A p \in Reads : ~proc[p].dead => procs = p
    BY DEF CatInv, CoreInv, ProcInv
  <2>5. \A r \in Reads : read[r].dones <= 1
    BY DEF CatInv, CoreInv, Waits
  <2>6. StoppedButLate
    BY DEF CatInv, LateInv
  <2> QED
    BY <2>2, <2>3, <2>4, <2>5, <2>6 DEF OneProcess
<1> QED
  BY <1>1, ReaderHolds, PTL

=============================================================================
