----------------------------- MODULE GitRefresh -----------------------------
(***************************************************************************)
(* How a worktree session follows the repository: the watcher of           *)
(* lua/differ/git/watch.lua, the background refresh of lua/differ/git/     *)
(* init.lua (refresh_external, land_external), the synchronous reloads of  *)
(* lua/differ/panel/init.lua, and the change signature that gates them.    *)
(* The refreshes go through the queue of module GitQueue.                  *)
(*                                                                         *)
(* Contents are version numbers: `status` is what `git status` would print *)
(* (HEAD, the index and the list of changed paths), `file` the contents of *)
(* the file whose diff is on screen.  A synchronous handler blocks Neovim  *)
(* and is one step; a background refresh is one step for each of its git   *)
(* commands, and anything may happen between them.                         *)
(*                                                                         *)
(* The watcher has handles on the git directory and on the directory of    *)
(* the shown file alone, and either may have failed to start: a change may *)
(* go untold, and `heard`, which no step reads, is the repository the      *)
(* session was last told to look at.                                       *)
(***************************************************************************)
EXTENDS GitQueueOps, FiniteSets

CONSTANTS
  MaxChanges,  \* bound: changes to the repository, the session's included
  MaxEdits,    \* bound: edits of the file on screen
  MaxActs      \* bound: keys pressed in the session

ASSUME RefreshAssumption ==
  MaxChanges \in Nat /\ MaxEdits \in Nat /\ MaxActs \in Nat

VARIABLES
  repo,        \* the repository as it is: status and file
  screen,      \* the session: what it shows and the signature it recorded
  fs, timer,   \* a file system event is on its way; the debounce timer runs
  scheduled,   \* calls of refresh_external on the main loop's queue
  calls,       \* external_calls
  generation, busy, pending,  \* the git queue of the root
  cur,         \* the refresh whose task is running
  acts,        \* keys pressed so far
  asked,       \* R was pressed and nothing has changed since
  heard        \* history: the repository at the last event, focus, R or stage

queue == <<generation, busy, pending>>
refreshVars == <<repo, screen, fs, timer, scheduled, calls, queue, cur, acts, asked, heard>>

Refresh == [call : Nat, generation : Nat]

Idle == [at |-> "none", call |-> 0, generation |-> 0, status |-> 0,
         found |-> FALSE]

\* entry: active_entry is set; open: its view is open; kept: kept_empty; diff:
\* the file version the view was sourced from; sig: last_sig.
Screen == [alive : BOOLEAN, list : Nat, entry : BOOLEAN, open : BOOLEAN,
           kept : BOOLEAN, diff : Nat, sig : [status : Nat, file : Nat]]

-----------------------------------------------------------------------------
(* The session's functions, from screen to screen.  Where the code's choice *)
(* depends on contents the model leaves out, the result is a set.  `bump`   *)
(* tells whether a synchronous listing superseded the queue.                *)

Out(s, bump) == [s |-> s, bump |-> bump]

\* git_signature, with the status of `reads`; the file's stat is taken now.
GitSignature(s, status, r) ==
  [status |-> status, file |-> IF s.entry THEN r.file ELSE 0]

\* record_state.
RecordState(s, status, r) == [s EXCEPT !.sig = GitSignature(s, status, r)]

\* on_close: the watcher stops and the view closes.
Closed(s) == [s EXCEPT !.alive = FALSE, !.open = FALSE]

\* on_empty: the session ends, or stays without a view during an operation.
OnEmpty(s) ==
  {Closed(s), [s EXCEPT !.entry = FALSE, !.open = FALSE, !.kept = TRUE]}

\* Panel:relist with a listing of version `status`: the list, on_refresh, and
\* on_empty when nothing is listed.
Relist(s, status, r) ==
  LET listed == RecordState([s EXCEPT !.list = status], status, r)
  IN {listed} \cup OnEmpty(listed)

RelistUnsuperseded(s, r) == {Out(t, 0) : t \in Relist(s, r.status, r)}

\* Panel:refresh: actions.reload supersedes the queue and lists synchronously.
PanelRefresh(s, r) == {Out(t, 1) : t \in Relist(s, r.status, r)}

\* show_entry with the status of `reads`: the diff is read now.
ShowEntry(s, status, r) ==
  [s EXCEPT !.entry = TRUE, !.open = TRUE, !.kept = FALSE, !.diff = r.file,
            !.sig = [status |-> status, file |-> r.file]]

\* on_select: show_entry without reads, so it takes its own status; an entry
\* with no diff any more refreshes the panel instead.
OnSelect(s, r) == {Out(ShowEntry(s, r.status, r), 0)} \cup PanelRefresh(s, r)

\* retarget_view with the reads of a listing: the row of the file on screen,
\* else the nearest row, else nothing.
RetargetView(s, status, r) ==
  IF ~(s.open /\ s.entry) THEN {}
  ELSE {Out(ShowEntry(s, status, r), 0)} \cup OnSelect(s, r)

\* land_external with a background listing of version `status`: after the
\* list, the view; a session kept empty opens the first row there is; with
\* neither, record_state takes its own status.
LandExternal(s, status, r) ==
  LET land(t) ==
        IF ~t.alive THEN {Out(t, 0)}
        ELSE IF t.open /\ t.entry THEN RetargetView(t, status, r)
        ELSE {Out(RecordState(t, r.status, r), 0)}
               \cup IF t.kept THEN OnSelect(t, r) ELSE {}
  IN UNION {land(t) : t \in Relist(s, status, r)}

-----------------------------------------------------------------------------
(* The refresh's turn in the git queue.                                    *)

\* The task of refresh e starts: with a newer call behind it, it reads nothing.
Begin(e, n) ==
  [at |-> IF e.call # n THEN "done" ELSE "asked", call |-> e.call,
   generation |-> e.generation, status |-> 0, found |-> FALSE]

DrainLeavesBusy(p, n, g) ==
  \/ /\ Startable(p, g) = {}
     /\ pending' = <<>>
     /\ cur' = Idle
     /\ UNCHANGED busy
  \/ \E i \in DOMAIN p :
       /\ IsNext(i, p, g)
       /\ busy' = TRUE
       /\ pending' = After(p, i)
       /\ cur' = Begin(p[i], n)

\* drain, n being the number of calls and g the generation.
Drain(p, n, g) ==
  \/ /\ Startable(p, g) = {}
     /\ busy' = FALSE
     /\ pending' = <<>>
     /\ cur' = Idle
  \/ \E i \in DOMAIN p :
       /\ IsNext(i, p, g)
       /\ busy' = TRUE
       /\ pending' = After(p, i)
       /\ cur' = Begin(p[i], n)

RefreshWhenIdle ==
  IF screen.alive /\ ~busy
  THEN /\ calls' = calls + 1
       /\ Drain(<<[call |-> calls + 1, generation |-> generation]>>,
                calls + 1, generation)
  ELSE UNCHANGED <<calls, busy, pending, cur>>

\* refresh_external: gone with the panel, else submitted.
RefreshExternal ==
  IF screen.alive
  THEN LET p == Append(pending, [call |-> calls + 1, generation |-> generation])
       IN /\ calls' = calls + 1
          /\ IF busy THEN pending' = p /\ UNCHANGED <<busy, cur>>
             ELSE Drain(p, calls + 1, generation)
  ELSE UNCHANGED <<calls, busy, pending, cur>>

-----------------------------------------------------------------------------
RefreshInit ==
  /\ repo = [status |-> 0, file |-> 0]
  /\ screen \in {[alive |-> TRUE, list |-> 0, entry |-> b, open |-> b,
                  kept |-> FALSE, diff |-> 0, sig |-> [status |-> 0, file |-> 0]] :
                 b \in BOOLEAN}   \* with a file open, or the panel alone
  /\ fs = FALSE
  /\ timer = FALSE
  /\ scheduled = 0
  /\ calls = 0
  /\ generation = 0
  /\ busy = FALSE
  /\ pending = <<>>
  /\ cur = Idle
  /\ acts = 0
  /\ asked = FALSE
  /\ heard = repo

\* What a handler leaves the session with: a closed one has no watcher.
Apply(out) ==
  /\ screen' = out.s
  /\ generation' = generation + out.bump

\* The watcher reports a write below one of its handles: `told` is FALSE for a
\* write elsewhere in the worktree, and where h:start failed.
Notices(told) ==
  /\ fs' = (fs \/ (told /\ screen'.alive))
  /\ heard' = IF told /\ screen'.alive THEN repo' ELSE heard

-----------------------------------------------------------------------------
(* Outside the session.                                                    *)

\* A commit, a checkout, a stage in another tool, which writes to the git
\* directory; or another file of the worktree is saved, in the directory of the
\* file on screen or in one no handle is on.
Change ==
  /\ repo.status < MaxChanges
  /\ repo' = [repo EXCEPT !.status = @ + 1]
  /\ asked' = FALSE
  /\ UNCHANGED <<screen, timer, scheduled, calls, queue, cur, acts>>
  /\ \E told \in BOOLEAN : Notices(told)

\* The file on screen is saved; its directory is watched while it is shown.
\* The first edit of a file also changes what `git status` prints.
Edit ==
  /\ repo.file < MaxEdits
  /\ \E status \in {repo.status, repo.status + 1} :
       /\ status <= MaxChanges
       /\ repo' = [status |-> status, file |-> repo.file + 1]
  /\ asked' = FALSE
  /\ UNCHANGED <<screen, timer, scheduled, calls, queue, cur, acts>>
  /\ \E told \in BOOLEAN : Notices(told /\ screen.entry)

-----------------------------------------------------------------------------
(* The watcher.                                                            *)

\* Watcher:_schedule: every event starts the debounce again.
OnFsEvent ==
  /\ fs
  /\ fs' = FALSE
  /\ timer' = screen.alive
  /\ UNCHANGED <<repo, screen, scheduled, calls, queue, cur, acts, asked, heard>>

\* The debounce timer fires.
Debounce ==
  /\ timer
  /\ timer' = FALSE
  /\ scheduled' = IF screen.alive THEN scheduled + 1 ELSE scheduled
  /\ UNCHANGED <<repo, screen, fs, calls, queue, cur, acts, asked, heard>>

\* The main loop runs refresh_external.
RunScheduled ==
  /\ scheduled > 0
  /\ scheduled' = scheduled - 1
  /\ RefreshExternal
  /\ UNCHANGED <<repo, screen, fs, timer, generation, acts, asked, heard>>

-----------------------------------------------------------------------------
(* The task of the refresh, and its on_done.                               *)

\* git status runs.
ReadStatus ==
  /\ cur.at = "asked"
  /\ cur' = [cur EXCEPT !.at = "read", !.status = repo.status]
  /\ UNCHANGED <<repo, screen, fs, timer, scheduled, calls, queue, acts, asked, heard>>

\* The task resumes: the signature has moved, or there is nothing to do.
CompareSignature ==
  /\ cur.at = "read"
  /\ cur' = [cur EXCEPT !.at =
       IF GitSignature(screen, cur.status, repo) = screen.sig THEN "done"
       ELSE "listing"]
  /\ UNCHANGED <<repo, screen, fs, timer, scheduled, calls, queue, acts, asked, heard>>

\* list_sections and M.conflicted have their answers.
ListSections ==
  /\ cur.at = "listing"
  /\ cur' = [cur EXCEPT !.at = "done", !.found = TRUE]
  /\ UNCHANGED <<repo, screen, fs, timer, scheduled, calls, queue, acts, asked, heard>>

\* What drain and the refresh's on_done ask before anything is drawn.
Lands == cur.generation = generation /\ cur.found /\ screen.alive

OnDone ==
  /\ cur.at = "done"
  /\ IF Lands
     THEN \E out \in LandExternal(screen, cur.status, repo) :
            /\ Apply(out)
            /\ Drain(pending, calls, generation + out.bump)
     ELSE /\ Drain(pending, calls, generation)
          /\ UNCHANGED <<screen, generation>>
  /\ UNCHANGED <<repo, fs, timer, scheduled, calls, acts, asked, heard>>

-----------------------------------------------------------------------------
(* The user.                                                               *)

Key == screen.alive /\ acts < MaxActs /\ acts' = acts + 1

\* R.
RefreshKey ==
  /\ Key
  /\ asked' = TRUE
  /\ heard' = repo
  /\ RefreshExternal
  /\ UNCHANGED <<repo, screen, fs, timer, scheduled, generation>>

\* FocusGained and its like schedule the same refresh.
FocusGained ==
  /\ Key
  /\ scheduled' = scheduled + 1
  /\ heard' = repo
  /\ UNCHANGED <<repo, screen, fs, timer, calls, queue, cur, asked>>

\* Another row is opened, from the panel or with ]f.
Select ==
  /\ Key
  /\ \E out \in OnSelect(screen, repo) : Apply(out)
  /\ UNCHANGED <<repo, fs, timer, scheduled, calls, busy, pending, cur, asked, heard>>

\* s, u, S, U in the panel, or in the diff: the index is written, the list is
\* refreshed, and the diff is sourced again when the panel's key moved it.
Stage ==
  /\ Key
  /\ repo.status < MaxChanges
  /\ repo' = [repo EXCEPT !.status = @ + 1]
  /\ \E out \in PanelRefresh(screen, repo') :
       \E on_staged \in BOOLEAN :
         IF on_staged /\ out.s.alive
         THEN LET outs == RetargetView(out.s, repo'.status, repo')
              IN IF outs = {} THEN Apply(out)
                 ELSE \E more \in outs : Apply(Out(more.s, 1 + more.bump))
         ELSE Apply(out)
  /\ UNCHANGED <<timer, scheduled, calls, busy, pending, cur, asked>>
  /\ \E told \in BOOLEAN : fs' = (fs \/ (told /\ screen'.alive))
  /\ heard' = repo'

\* The diff window is closed; the panel stays.
CloseView ==
  /\ Key
  /\ screen.open
  /\ screen' = [screen EXCEPT !.open = FALSE]
  /\ UNCHANGED <<repo, fs, timer, scheduled, calls, queue, cur, asked, heard>>

\* Panel:close.
Close ==
  /\ Key
  /\ screen' = Closed(screen)
  /\ fs' = FALSE
  /\ timer' = FALSE
  /\ UNCHANGED <<repo, scheduled, calls, queue, cur, asked, heard>>

-----------------------------------------------------------------------------
User == RefreshKey \/ FocusGained \/ Select \/ Stage \/ CloseView \/ Close

RefreshNext ==
  \/ Change \/ Edit
  \/ OnFsEvent \/ Debounce \/ RunScheduled
  \/ ReadStatus \/ CompareSignature \/ ListSections \/ OnDone
  \/ User

\* libuv delivers, the loop runs what is scheduled and git ends.
RefreshFairness ==
  /\ WF_refreshVars(OnFsEvent)
  /\ WF_refreshVars(Debounce)
  /\ WF_refreshVars(RunScheduled)
  /\ WF_refreshVars(ReadStatus)
  /\ WF_refreshVars(CompareSignature)
  /\ WF_refreshVars(ListSections)
  /\ WF_refreshVars(OnDone)

RefreshSpec == RefreshInit /\ [][RefreshNext]_refreshVars
FairRefreshSpec == RefreshSpec /\ RefreshFairness

-----------------------------------------------------------------------------
\* Every variable has its type: the repository, the screen, the watcher and the
\* refresh under way.
RefreshTypeOK ==
  /\ repo \in [status : 0..MaxChanges, file : 0..MaxEdits]
  /\ screen \in Screen
  /\ fs \in BOOLEAN
  /\ timer \in BOOLEAN
  /\ scheduled \in Nat
  /\ calls \in Nat
  /\ generation \in Nat
  /\ busy \in BOOLEAN
  /\ pending \in Seq(Refresh)
  /\ cur \in [at : {"none", "asked", "read", "listing", "done"}, call : Nat,
              generation : Nat, status : 0..MaxChanges, found : BOOLEAN]
  /\ acts \in 0..MaxActs
  /\ asked \in BOOLEAN
  /\ heard \in [status : 0..MaxChanges, file : 0..MaxEdits]

\* Nothing is on its way: no event, timer, scheduled call or refresh.
Quiet == ~fs /\ ~timer /\ scheduled = 0 /\ ~busy

\* "a listing taken here is newer than any background one in flight, which
\* would otherwise land over it" (init.lua:1405): the list on screen never
\* goes back to an earlier state of the repository, and a result that comes
\* back after the session was closed (init.lua:1899) draws nothing.
ListNeverOlder ==
  [][/\ screen'.list >= screen.list
     /\ ~screen.alive => screen' = screen]_refreshVars

\* The signature the session holds is no older than what it was told of.
UpToHeard ==
  /\ screen.sig.status >= heard.status
  /\ screen.entry => screen.sig.file >= heard.file

\* No change the session was told of is missed, by an event of the watcher, a
\* focus, R or its own stage (refresh_external, its skipped and superseded
\* calls): once nothing is on its way, the signature it holds is no older than
\* the repository and the file on screen were then.  A change outside the
\* watched directories (watch.lua:2-3) is found with the next of these.  (And
\* every variable has its type.)
NothingMissed ==
  /\ RefreshTypeOK
  /\ screen.alive /\ Quiet => UpToHeard

\* When the repository comes to rest the session does too (the queue drains,
\* the debounce fires), with a signature no older than what it was told of.
SettlesDown == <>[](Quiet /\ (screen.alive => UpToHeard))

\* R "refreshes the panel (as a safety net, it shouldn't go stale)"
\* (README.md:188): with nothing changed since R was pressed and nothing on
\* its way, the list shows the repository.
RefreshKeyRefreshes ==
  screen.alive /\ asked /\ Quiet => screen.list = repo.status

=============================================================================
