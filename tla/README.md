# A TLA+ model of differ.nvim

differ.nvim is a Neovim plugin (Lua) with a Go process beside it.  The plugin
draws diffs, stages hunks, walks file history, resolves merges and reviews pull
requests; the Go process (`differ-sidecar`) talks to GitHub on its behalf.
This directory models the parts of it in which order, failure and concurrency
decide correctness, checks them with TLC and proves the main results with
TLAPS.

## Inventory

| part | source | state it keeps | operations | what is hard about it |
| --- | --- | --- | --- | --- |
| sidecar client | `lua/differ/sidecar/init.lua` | the client (process, handshake, pending ids, queue, attempts) | request, stop, stdout, exit, timers | fast-context callbacks race scheduled ones; crash and restart; timeouts racing answers |
| sidecar server | `internal/server`, `internal/protocol`, `internal/handlers/hello.go` | frames in flight, the outbound channel, the hello gate | read, dispatch, run, write, drain | goroutines answer out of order; the bounded channel; EOF while handlers run |
| GitHub client and cache | `internal/github` | login, REST and GraphQL clients, the blob cache | file versions, threads, comments, reviews, checks, viewed | concurrent fills of a byte-bounded LRU; paging; error mapping |
| PR handlers | `internal/handlers` | none (stateless over the client) | one per RPC | head SHA checked before a write it does not guard |
| git runner | `lua/differ/git/exec.lua` | one queue per root, the coroutines | async, await, submit, supersede | results that arrive after they were superseded; a guard timer racing an exit |
| object reader | `lua/differ/git/cat_file.lua` | one `cat-file --batch` per held root, its waiting list | read, hold, release, stdout, exit, timer | pipelined replies matched by order; a process dying with reads waiting |
| watcher and refresh | `lua/differ/git/watch.lua`, `git/init.lua` (`refresh_external`, `land_external`, `record_state`) | the debounce timer, the change signature, the list and the diff on screen | change, debounce, refresh, land, reload, select, stage | background listings racing synchronous ones and the signature that gates both |
| staging | `lua/differ/git/staging`, `git/index.lua`, `git/patch.lua`, `model/stage.lua`, `model/marks.lua` | hunk marks, the view's model, index and worktree contents | stage, unstage, revert, local view, commit preview | marks frozen while git moves; prompts that let the diff be re-sourced; several git commands per key |
| merge tool | `lua/differ/merge`, `git/conflict.lua`, `git/operation.lua` | the session, its result buffer, the run of git | open, take, write, stage, step, continue, skip, abort, close | prompts that let callbacks run; a watcher, a run of git and other programs that move the repository under them |
| PR session | `lua/differ/pr` | the session, its pins, threads, drafts and viewed marks | open, show, prefetch, comment, reply, resolve, review, end | answers for a session or a head that is gone |
| history | `lua/differ/history` | commit list and position | open, step, page | stepping past either end |
| panel and view | `lua/differ/panel`, `lua/differ/view.lua`, `lua/differ/nav.lua` | rows, folds, cursor, the open diff | navigation, folds, walk | cursor and rows kept in step over reloads |
| pure algorithms | `model/diff.lua`, `model/apply.lua`, `worddiff`, `git/rev.lua`, `git/conflict.lua` | none | diff, splice, parse | boundaries |
| rendering and UI | `lua/differ/render`, `syntax`, `ui`, `util`, `config.lua`, `health.lua` | buffers and windows | draw | none of it concurrent |

How they interact: the Lua side is one thread.  libuv callbacks (stdout, exit,
timers, file events) run in a fast context between two steps of the main loop
and hand work to it with `vim.schedule`, which keeps order; keys are handled as
they come.  The PR session calls the sidecar client, which talks to the sidecar
server over two pipes; the server runs each request in a goroutine that calls
GitHub.  The git parts spawn one process per command (the runner) or one per
root (the object reader).  The watcher turns file events into a debounced
background refresh that goes through the runner's queue.

What makes each part correct:

- *sidecar client*: one process at most, every callback run exactly once, with
  the answer to its own request, whatever dies or is late;
- *sidecar server*: one reply per frame under its id, none lost at EOF, nothing
  but errors before hello;
- *git runner*: tasks of one root never overlap, a yield gets the result of its
  own command, results arrive in submission order or not at all;
- *object reader*: a read gets its own object or none, and always returns; no
  process is left on a root nobody holds;
- *refresh*: no change missed that the session was told of, no older list over a
  newer one, rest when the repository rests;
- *PR threads*: every asker called once, no list from before a mutation after it;
- *staging*: the marks are what the index holds, a key moves nothing it was not
  asked to, and nothing held nowhere else goes without a yes;
- *merge tool*: what is staged is what was checked for markers and saved, no
  answer acts for a session that is gone, no continue with conflicts left or edits unsaved, the
  session is on what git is on;
- *cache*: the byte count is that of the entries held, and within the bound; a
  read through it is a read of GitHub;
- *PR reads*: what is pieced together from pages and two APIs is what GitHub had,
  and a failure is told for what it is;
- *PR writes*: nothing pinned is written at a head that was not checked, an error
  means nothing was written, a draft is joined rather than doubled;
- *PR session*: what is drawn is the file on show at the pinned commits, marks end
  as GitHub has them, a comment is let through only where it was anchored.

## Modules

`SidecarClient` models `sidecar/init.lua`.  `c` is the client table (`proc`,
`running`, `ready`, `stopping`, `nextId`, `pending`, `queue`, `attempts`),
`client` and `gen` the module-level client and its identity, `procs` the
processes spawned with their pipes, `sched` the main loop's queue of scheduled
callbacks (a batch of callbacks scheduled by one loop over a Lua table is a set,
since `pairs` has no order), `restarts` the armed backoff timers.  `Request`
and `Stop` are the user's, `OnStdout`, `OnExit`, `TimerFire` and `RestartFire`
run in the fast context, `RunCallback` runs what was scheduled.  `Answer` and
`Die` are the process.  `Teardown`, `ScheduleRestart`, `FailAll` and the rest
are operators on the client, one for each local function.

`SidecarServer` models `internal/server/server.go`, `internal/server/dispatch.go`
and the hello handler: the reader (`ReadFrame`, `EmitReader`, `Eof`,
`CloseOutbound`, `Return`), a goroutine per call (`RunHandler`, `EmitWorker`),
the writer (`Receive`, `Encode`) and the client closing its end (`Break`).  The
frames are chosen in `Init`, of seven kinds.  `Replies` is what the engine
promises: a set of frames asked, a sequence of replies, one reply per frame
under the frame's id and no result before an accepted hello.

`GitQueue` models `git/exec.lua` for one root: `generation`, `busy` and
`pending` are the queue's fields, `task` the coroutines, `cmds` the git
processes with their guard timers, `sched` the main loop's queue.  `GitQueueOps`
holds the operators on the pending list, which `GitRefresh` shares.
`ResultLine` is the promise: a line one joins at the end, of which only the
front is delivered and which superseding empties.

`GitRefresh` models how a worktree session follows the repository:
`git/watch.lua` (`OnFsEvent`, `Debounce`, `RunScheduled`), `refresh_external`
with its three git commands (`ReadStatus`, `CompareSignature`, `ListSections`)
and its landing (`OnDone`, `LandExternal`), and the synchronous handlers
(`RefreshKey`, `FocusGained`, `Select`, `Stage`, `CloseView`, `Close`).  The
repository is a version of its status and one of the file on screen.  Changes
and edits come with an event or without one (`Notices`): the watcher is on the git
directory and the directory of the file on screen, neither recursively, and may
fail to start.  What comes without one is found at the next event, focus or `R`;
`heard` is what the session was last told of, and the properties are about that.  The
refreshes go through the queue of `GitQueue`, reduced to what a task without
overlap sees (`Drain`, with the same `GitQueueOps`).

`CatFile` models `git/cat_file.lua` on one root: `procs` is the module's table
entry, `proc` each process's record (`dead`, `timer`, `waiting`, the stream it
has received), `git` the process behind it, `holds` the reference count.  A
reply is cut into pieces that arrive in any chunks, and a name may be answered
by a line of an unknown form.  `Read` yields in a coroutine or blocks with its
backstop; a blocking read lets callbacks run, but no keys.  A read in a coroutine
that asks git's version yields before it looks for the process, and does not look
at the holds again (`Version`).

`PRThreads` models the freshness logic of `pr/threads.lua`, the three hops of
`pr/overview.lua`, the answers of mutations and `handle_conflict`.  `s_` holds
each session's thread fields, `fetch` the get_threads requests, `caller` the
callbacks of `ensure` and the pages being opened, `post` the mutations.  GitHub
is a version counter: a list of threads is the version it was read at.

`MergeTool` models `lua/differ/merge` with the parts of `git/conflict.lua`,
`git/operation.lua` and `git/index.lua` it calls.  `session` is the module's
session (`heard` is its watcher's callback on its way), `buf` the buffers, `pc`
the handler under way, `picker` the choice of `continue.lua`, `run` its run of
git; `head`, `op`, `index` and `disk` are the repository.  A text is reduced to
what `on_write` decides on: clean, with complete regions, with broken markers,
with a bare separator that may be content, or with markers a formatter moved.  A
handler runs to its end or to a prompt (`content`, `take`, `delete`, `skip`,
`abort`); `vim.fn.confirm` runs scheduled callbacks while it blocks, so at a
prompt `OnGitChange` and `RunEnd` may act and keys may not.  `settle_result` is
`Settle`, then `Stage` where `on_write` gets that far, then `Settled` with what
called it (`StepOn`, `Finished`, `ContinueOn`).  What `Stage` and another
program's `git add` leave in the index is the text on disk, with markers or
without (`Added`).  Other programs add, write and move git at any moment; `stale`
tells the buffers whose file something else wrote since they were read or written.

`Staging` models the keys of a diff view (`view.lua`) on one modified file over
`git/staging/union.lua`, `frozen.lua` and `write.lua`, and the views `git/init.lua`
opens on it.  `head`, `index` and `work` are the file in its three places, cut into
places that change on their own: a hunk is a place at which two texts differ.
`view` is the open view and its staging (which diff, the marks, the index a frozen
one rebuilds, the hunks X took), `op` the key under way with what it has read and
will write, `sched` the re-read it scheduled, `known` whether `last_sig` is
current.  `StageHunk`, `UnstageHunk`, `ToggleAll`, `ToggleLines` and `Revert` run to
a prompt or to the first git command; then one step is one command: `ReadUnion`,
`ReadFrozen`, `ReadDrop` and `ReadRevert` read and decide, `Check`, `PutUnion`,
`PutFrozen`, `PutDrop` and `Patch` act, `Fail` is any of them failing, and a union's
refusal of a hunk whose lines cannot move alone.  A handler does not yield between
its commands, so `LandExternal` and `RunScheduled` come between keys or (the first)
under a prompt, while `Outside`, another program, comes at any point.  A re-read of
a view is one step, and a key typed ahead of a scheduled re-read waits for it.

`PRSession` models the rest of a review, `pr/init.lua` with `pr/comment.lua`,
`pr/review.lua`, `pr/viewed.lua` and the panel's cursor as far as they use it.
`gen` and `opens` are `open_gen` and the opens in flight, `s` the session (its
pins, memo, cursor, drawn file, marks), `blobs` its `get_file_versions` requests
(those of `show_file` and of `prefetch_around`), `flip` the viewed marks sent,
`win` the compose windows and what is posted from them.  A blob, a pin and an
anchor are the head they were taken from.  `BlobAnswer` is either callback
(`Shown`, `Warmed`), `FlipAnswer` the reconcile or rollback of `mark_viewed`,
`HandleConflict` the recovery from a moved head.  The sidecar's guard and the
write behind it, which names no commit, are two steps (`Guard`, `Take`), and a push
may come between; the threads are in `PRThreads`.

On the Go side every call of GitHub is a step, so that anything may happen
between two calls of one handler:

- `BlobCache` is `github/cache.go` with `get_file_versions`: the LRU list, the
  byte count, and requests that fill them from two goroutines each (`RawBlob`
  looks the key up, `Send` reads it, `Keep` puts it: separate steps, as the mutex is free between them).  A
  body is its length; one longer than the response limit is cut, as
  `github/rest.go` does.  `FileReads` is its promise, `get_file_versions` without
  a cache.
- `GitHubCalls` holds what a call comes to: the token, `mapHTTP`, `rateLimited`,
  `send`, `getJSON`, `graphql` and the cursor a walk goes on with.  `PRReads`
  has the six reads on top of it, page by page, and how their results are built.
- `PRWrites` has the ten writes: the params a handler refuses, `guardHead`, the
  lookup of a pending review, the mutation, the deletion of the branch.  GitHub's
  side of a mutation is external; `Outside` is anybody else changing the pull
  request, and an answer may be lost after the write was done.

Some variables or fields are not in the code and exist to state the properties:
`settled` and `issued` (SidecarClient), `told` and `entered` (PRThreads),
`delivered` (GitQueue), `asked` and `heard` (GitRefresh), `late` (CatFile), `stop`
and `stale` (MergeTool: which commit git has stopped on, whose file something else
wrote), `wrote` and `during` (PRWrites: what a request did and the states
it saw), `start`, `odd`, `seen` and `failed` (PRReads), `before`, `muddled`,
`strayed`, `alone`, `moved` and `raced` (PRSession), `asof`, `since` and `shows` (Staging; each is explained where it is declared).
`does` in PRSession is a bound: whether the user of a behaviour flips marks or
posts comments.

## Runs

| run | instance | shows |
| --- | --- | --- |
| `sidecar_client` | 2 requests, 1 retry, 2 processes, 2 clients | `NoOrphan`, `OneHome` (a request is in exactly one of queue, pending, scheduled or settled, and a queue has a process, a restart or a callback to serve it), `RightAnswer`; `EveryCallbackRuns`, although the process may hang or die at any point |
| `sidecar_server` | 4 frames of any of 7 kinds, channel of capacity 1 | `AnswersFrames` (it implements `Replies`), `FramesAnswered` |
| `git_queue` | 3 tasks, 4 commands, 2 supersedes | `OwnResult`, `ResultsInLine` (it implements `ResultLine`), `EveryTaskEnds` |
| `git_refresh` | 3 changes, 1 edit, each with an event or without, 2 keys | `NothingMissed` (of what it was told of), `ListNeverOlder` (nor is anything listed once the session ended), `SettlesDown` |
| `cat_file` | 3 reads (one of an index name, one with an odd name), 2 sessions | `OwnObject`, `OneProcess` (and `NoneStranded`: whoever waits is on a timed list; and `StoppedButLate`), `ReadsReturn` |
| `pr_threads` | 2 sessions, 2 callers and 2 fetches at once, 1 mutation, 1 version | `CallersKept` (each waiting caller is with one fetch in flight, and one generation shares one fetch), `NoSupersededList`, `PageOverFiles`, `CallersAnswered` |
| `pr_session` | 2 files, 2 opens, 2 blob requests, 2 flips, 2 compose windows, 1 push | `ShownOrComing`, `DrawsCurrent`, `MarksAgree`, `AnchoredAtHead` |
| `blob_cache` | 2 requests over 4 keys, a cap of 5, bodies cut at 3 | `OneEntryPerKey`, `Charged` (the byte count is that of the list, within the cap), `ReadsThrough` (it implements `FileReads`) |
| `pr_reads` | 2 calls, 2 changes by others, pages of 2, walks of 2 pages, 15 kinds of failed exchange | `QuietReads` (and `FilesNotOlderThanHead`), `NothingTwice`, `FailureTold` |
| `pr_writes` | 2 requests of any method, 2 heads, 2 reviews, 1 change from outside | `GuardedWrites`, `RefusedUnwritten`, `JoinsTheDraft` |
| `merge_tool` | 2 files (text and binary, modify/delete and one the tool cannot open), 2 sessions, 1 run of git, 1 change from outside | `StagesTheResult`, `SessionFollowsGit`, `DeletesInSession`, `ContinuesSaved` |
| `staging` | a file of 2 places and 3 texts, 1 write from outside | `MarksTellIndex`, `KeepsTheRest`, `RevertsWhatWasShown`, `DropsAsked` |

Each module's `TypeOK` is a conjunct of one of its run's invariants
(`NothingMissed`, `OneProcess`, `CallersKept`, `SessionFollowsGit`, `Charged`,
`QuietReads`, `ShownOrComing`, `MarksTellIndex`) or proved (`SidecarClient`, `SidecarServer`,
`GitQueue`, `PRWrites`).

What some of them exclude is part of what they say.  `MarksAgree` leaves out a
file whose answers crossed, of whose overlapping flips one failed, or whose
answer was lost: nothing in `mark_viewed` settles those.  `GuardedWrites` says
that the pinned head was the head at some moment of the request, not at the
write: `guardHead` cannot give more.  `AnchoredAtHead` confines what that leaves
open: a comment lands at a later head than its anchor's only when the push came
between the guard and the write, or when the pins moved under its window.
`NothingMissed` and `SettlesDown` are about what the session was told of, by an
event, a focus, `R` or its own staging: a change elsewhere in the worktree raises
no event and stays unseen until the next of these.  `OneProcess` allows one process
on a root nobody holds, started by a read that was asking git's version at the
last release.  `StagesTheResult` looks at the text on disk only where nothing else
wrote the file since the buffer was read or written.  `FailureTold` takes the code
at what it can read: a secondary limit counts where its body decodes, and a
negative `Retry-After` is handed on as the hint.  `NothingTwice` is about page info
that is right, null or standing: `nextCursor` compares with the cursor before it
alone, so an older one would be followed.  `ReadsThrough` is about bodies within the
response limit or cut at it; a cut body is what the code serves and caches.
`KeepsTheRest` compares a write with the index its key read: what another program
stages between that read and the write is lost, as no key locks the index (a
handler is a handful of git commands long).  `DropsAsked` is about `u`, `U` and
`X`; `s` on a hunk whose staged content neither side holds takes the file's side
without asking, as it is meant to, and a local view does not look whether the
file it was opened on has changed.

**Bounds.**  Each bound is the least that lets the interesting case happen with
something left over.  Two processes let a client lose one and restart another,
or be replaced by a client with its own, while callbacks of the first are still
scheduled; that no process is orphaned and that every request is kept in one place
and answered with its own reply is proved for any number of them.  One retry is enough to reach both the restart and the give-up.
Three tasks put one in flight, one superseded behind it and one submitted after;
four commands let a task run several and one outlive its guard.  Three changes
are one before, one during and one after a background refresh.  Three reads put
one in flight, one cut by a death and one that starts the replacement.  With a
channel of one, four frames fill it, block a goroutine and the reader at the
same time.  Two callers and two fetches let a superseded fetch and its
replacement overlap with a caller on each; the second session sees the late
answers of the first.  The merge tool needs one run of git and one change from
outside to have a session, a prompt about it, a run that ends under the prompt
and a repository that moved meanwhile; edits and writes are not bounded.  In the
session two opens race, two blob requests are a shown file and a prefetch (or two
files stepped through), and two windows are a conflict beside a comment that is
still being written; marks are flipped where no push happens and comments are
posted where one open does, since the two meet in nothing but the session.  The
cache's cap holds two or three of the four blobs, so that fills evict each other;
one body is longer than a response.  Two writes of one pull request, one change
from outside and a lost answer put a step of another actor between any two calls
of either.  Lists of up to five over pages of two reach the second page, its end
and the cap.  Two places are a hunk a key is about and one it is not, or two steps
of a batch; with three texts the index can hold what neither HEAD nor the file
has.  One write from outside falls before, between or after any two commands; with
two, 8.5 million states, the staging run passes as well.

**Deadlock.**  All configurations say `CHECK_DEADLOCK FALSE`: a session, a
queue or a process that has nothing to do stops, and the bounded users do too.

**Fairness.**  Only steps that the program's own machinery takes are fair; what
users, GitHub and git do is not, except where stated.

- `SidecarClient`: libuv reports output, exits and timers that are due
  (`OnStdout`, `OnExit`, `TimerFire`, `RestartFire`), and the main loop runs what
  is scheduled (`RunCallback`).  The process owes nothing.
- `SidecarServer`: a goroutine that can run does; handlers return, since every
  GitHub call has a deadline (`github/client.go:42`, `github/auth.go:56`).
- `GitQueue`: the main loop runs; a command ends or its guard fires.
- `GitRefresh`: the watcher's events, its timer and the reading steps happen
  (git ends or its guard fires); keys and changes are not fair.
- `CatFile`: the version check, the silence timer and the resumed coroutine;
  nothing is assumed of `git cat-file`.
- `PRThreads`: a request of the sidecar client is answered, by its timer at the
  latest (what `EveryCallbackRuns` shows of the client).
- `MergeTool`, `Staging`, `PRSession`, `BlobCache`, `PRReads`, `PRWrites`: none, their
  properties are safety; what must still come is said as a state
  (`ShownOrComing`: drawn, or a request for it in flight).

## Disagreements

Ten places where the code and what it says of itself differ were met while
modelling.  Their properties stay in the modules, and each is reproduced by naming
the property in its module's cfg:

- `PRSession!NeverSilent`: `post` sends the anchor taken at the gesture with the
  head pinned when it is posted (`pr/comment.lua:323`).  When the conflict of another
  comment has moved the pins meanwhile (a second compose window is open, or the
  gesture was made on a diff whose new blobs are still on their way), the guard
  passes and the old line lands at the new head unprompted, where
  `pr/comment.lua:301` says "never a silent post".
- `PRSession!NeverUnseen`: the guard and the write are two calls, and the mutation
  carries no commit (`handlers/mutate_comments.go:44`), so a push between them lands
  the comment at the new head, where `handlers/handlers.go:80` says "so a comment
  never lands against a commit the user wasn't looking at".  `AnchoredAtHead` is what
  holds beside these two: without such a push or such a move the anchor is of the
  head it lands on, and with the push it is of the head that was guarded.
- `PRReads!SecondaryNeverAuth`: `githubMessage` finds the message of a 403 in a body
  that decodes (`github/errors.go:90`), and `send` hands on a body that was cut
  (`github/rest.go:42`); such a secondary limit is told as missing access, which "sends
  the user hunting for a scope they already have" (`github/errors.go:82`).
- `MergeTool!StagesNoMarkers`: "stage once no markers remain"
  (`merge/init.lua:1326`) looks for them in the buffer, while `git add` takes the file
  (`merge/init.lua:1278`): markers that another program, or a git that stopped
  again, put there after the write are staged.
- `CatFile!StopsWithLastRelease`: "the last release stops the process"
  (`cat_file.lua:275`), but a read that yielded for git's version while the root was
  held starts one afterwards (`cat_file.lua:231`), and nothing stops it.
- `SidecarClient!HelloGatesRequests`: the handshake's callback does not check
  which process it shook hands with (`sidecar/init.lua:303`).  A process answers
  hello and dies; a request restarts the client; the scheduled callback marks the
  successor ready before its own hello.
- `SidecarClient!QueueSurvivesDeath`: the mirror image (`sidecar/init.lua:291`).
  The error callback of a process that died before hello finds `running` true
  again, takes it for a failed handshake and tears the successor and the queue
  down.
- `GitRefresh!RefreshKeyRefreshes`: opening a row records a status that was never
  listed (`git/init.lua:1723`); `R` then sees no difference and leaves the old list.
- `PRThreads!NoListBeforeChange`: `invalidate` moves `threads_gen` but `deliver`
  compares `threads_fetch_gen` (`pr/threads.lua:461`), so until somebody asks again
  an answer in flight still lands the list from before the mutation.
- `MergeTool!SkipEndsSession`: `stale_reason` knows a skip by HEAD or the operation
  (`merge/files.lua:115`), and `git rebase --skip` run elsewhere leaves both alone
  when the next commit conflicts.

`NothingMissed` and `NoSupersededList` are what does hold beside
`RefreshKeyRefreshes` and `NoListBeforeChange`: at rest the signature has all that
the session was told of, and once the threads have been asked for again the old
list is refused.

Two smaller ones shape `PRSession`.  `show_file`'s callback compares the row under
the panel's cursor, where its comment (`pr/init.lua:280`) speaks of the shown file:
a file whose cursor moved, or whose sidebar was hidden, is memoised and not drawn
(`strayed` marks those).  And `handle_conflict` shows the cursor's file again, not
the one that was open.

## Proofs

All theorems hold for every value of the constants under the modules' named
assumptions (numeric bounds are naturals, `None`, `Nil` and `Hello` are not among
the values they stand beside, the channel has capacity).  Those of `PRReads` also
say that GitHub's data have their types, that a review's id is its own and that
every path of the pull request has a viewed state.  Four proof modules are about
two components each.  As a module cannot define a name twice, the second one's
names are told apart: `MergeInit`, `RefreshSpec`, `ReadsNext`, `CatTypeOK`, `Nil`.

- `SidecarClientProofs`: `TypeCorrect` and `NoOrphanEver`.  `NoOrphan` alone is
  not inductive: a late exit or restart must be known to concern the process the
  client holds.  `OrphanInv` adds `LiveClient` (the live client is not stopping,
  is running exactly when it holds a process, and that process is its own) and
  `HeldByOwner` (an unreaped process of the live client is the one it holds).
  `AnswersMatch` (`RightAnswer`) rests on `IdInv`, which adds `IdsAgree`: ids
  start again with every client, so a frame in the pipes of a process of the live
  client must be known to have an id that this client gave out, and to that request.  `OneHomeEver` (`OneHome`)
  rests on `HomeInv`.  `OneHome` counts places; `HomesInv` says instead, of each
  request, that it is held in this place, once, and in no other, which a step can
  be followed through.  `HoldsInv` is what makes a removal exact (the ids in
  `pending` differ, so a timer takes its own request and no other; a client that
  was torn down holds nothing), and `ServedInv` what empties the queue: a running
  client that is not ready has its hello under way, a ready one has nothing
  queued, and one that is not running has its restart armed or scheduled.
- `GitQueueProofs`: `TasksOneAtATime` and `YieldsGetTheirOwn`, from `QueueInv`:
  `OneAtATime`, at most one callback scheduled and that for the task in flight
  (`SchedInv`), and an unanswered command is what its task awaits (`CmdInv`).
  The two arguments need each other: a second task could only start through a
  callback that the first one's command did not schedule.  `ImplementsLine`
  (`ResultsInLine`) is the refinement of `ResultLine`: the line is the task in
  flight and the part of the list behind it that no newer generation has
  superseded.  It needs `Placed`: a list element carries its task's generation,
  and those of the current generation stand at the end of the list, so that
  superseding empties the line, a submission joins it at its end, and what the
  drain skips was no longer in it.

  Of `MergeTool`: `ResultStaged` (`StagesTheResult`), `SessionOnHead`
  (`SessionFollowsGit`), `DeletesAsked` (`DeletesInSession`) and `ContinuedSaved`
  (`ContinuesSaved`), from `MergeInv` and, for the first, `Fresh`.  A prompt is a moment at which git and other
  programs go on, so what a handler knows when the answer comes has to be kept:
  that the prompt about the content is about a bare marker, and that once `continue`
  has saved the result nothing modifies it or starts another run (`HandlerInv`);
  that a picker excludes a run and a handler (`PickInv`); and that sessions never
  reuse a number, so the delete prompt of a closed one cannot pass for the present
  one's (`SessionsInv`).  From the write on the buffer has nothing unsaved and was
  found free of markers or confirmed (`StageInv`); and a buffer with nothing unsaved
  shows its file, unless something else wrote that (`Fresh`).
- `SidecarServerProofs`: `NoLateSend`, `ExitsDrained` and `ImplementsReplies`,
  from `ServerInv`: the WaitGroup counts the goroutines that will still send
  (`Counted`), each reply is in exactly one of the reader's hand, a goroutine,
  the channel, the writer's hand and stdout (`Once`, `Located`), under its
  frame's id (`Sound`), with hello ahead of every result (`HelloFirst`).  The
  refinement maps initial states to initial states and each step to a reply, a
  frame asked or a stutter.

  Of `GitRefresh`: `NoneMissed` (`NothingMissed`) and `NeverOlder`
  (`ListNeverOlder`), from `RefreshInv`.  A session whose signature is older
  than what it was told of has an event, a timer, a callback or the latest call of the queue
  coming, or a refresh of its own generation that will still find out; and what
  such a refresh has read, if the session was told of a change since, is followed by
  another (`CoverInv`).  The list is of a state the repository was in, and what
  would land is not older than the list (`AgeInv`); the queue is busy with a
  refresh or empty (`QueueInv`).
- `BlobCacheProofs`: `EntriesUnique` and `CacheImplementsReads`, from `CacheInv`:
  requests go through their stages in order (`InOrder`), each goroutine holds the
  blob of its own key or none (`OwnBlobs`), and the list has one entry per key,
  with what that key names (`Sound`).  The cache may evict, clear and fill in
  any interleaving, because it only ever holds what a read would give.
  `CountExact` (`Charged`) adds `Counted`: the byte count is the sum of the
  entries' sizes.  The sum is a recursive function of the list, of which the
  lemmas say what a push, a removal and an eviction make of it.
- `PRWritesProofs`: `WritesGuarded`, `RefusalsUnwritten`, `BranchAfterMerge` and
  `DraftJoined`.  `WriteInv` says per request what its step implies: which params
  it was let through with (`Sane`), that the pinned head was seen once it is past
  the guard (`PastGuard`), that what was written is answered as written or its
  answer lost (`Written`) and that a branch goes only when the merge that asked
  for it is done (`Deleting`).  `JoinInv`
  adds what the lookup of a pending review is worth while that review is there.
- `PRThreadsProofs`: `CallersNeverLost` (`CallersKept`), `ListsNotSuperseded`
  (`NoSupersededList`) and `PagesClaimedLater` (`PageOverFiles`), from
  `ThreadsInv`.  While a session is open its waiters are the callers queued, and a
  request that will serve them is in flight (`WaitersInv`); `threads_fetch_gen` is
  the generation of the latest request, of which there is one per generation
  (`FetchesInv`), so exactly that answer drains the waiters; and a list read for the
  present generation holds what the session was told of (`ListsInv`).  Requests
  are of sessions that were opened, so that none is of a session still to come
  (`OpenedInv`); nothing was told of that is not written (`ToldInv`); and the files
  were not entered under a page that is still to be drawn (`PagesInv`).
- `PRSessionProofs`: `DrawNeverLost` (`ShownOrComing`), `DrawnIsCurrent`
  (`DrawsCurrent`), `MarksSettle` (`MarksAgree`) and `CommentsAnchored`
  (`AnchoredAtHead`), from `SessionInv`: the memo holds blobs of the pinned commits
  only, and the view is of the cursor's row or its request is on the way,
  where it did not stray (`ShowInv`); numbers of opens under way differ from one another and from the
  session's (`OpenInv`), which is why a late open cannot pass for the current one;
  the flips of one file are ordered as GitHub made them (`FlipInv`), so that the
  last one made is GitHub's mark and an idle file shows it (`MarkInv`); an open
  window is of the session, its anchor of the pins unless a conflict moved them, and
  a post that was let through is of the head there is, unless that was pushed to
  since (`WinInv`).

  Of `PRReads`: `WalksReadOnce` (`NothingTwice`), `FailuresNamed` (`FailureTold`)
  and `QuietExact` (`QuietReads`).  `ReadsInv` says that lists only grow and that
  GitHub has not changed where no change was counted (`ListsInv`), that a walk has
  the list up to its cursor (`WalkInv`), that both lists of a quiet `get_pr` are of
  the head it pins and its files never older than that (`PRInv`), and that what
  ended a call is told as the error mapping has it (`FaultInv`).  `GatheredInv` adds
  what the other results are made of: the list `list_prs` has so far, the login
  where its filter needs one, the reviews of the timeline's first page.  That the
  loops of `ListPRs` and `GetTimeline` keep what they should, each once, is
  `KeptIs`.
- `StagingProofs`: `MarksHold` (`MarksTellIndex`), `RestKept` (`KeepsTheRest`),
  `ShownReverted` (`RevertsWhatWasShown`) and `AskedBeforeDrop` (`DropsAsked`), from
  `StagingInv`: in a view nothing from outside has disturbed, the marks say what
  the index and the file hold (`ViewInv`); what a key was pressed on is what is
  open (`LiveInv`); each step of a key implies what came before it, an answered
  prompt before a revert or a drop (`StageInv`); the text about to be written
  differs from the text read only at the places the key moves (`TextInv`); and a
  key that unstages without asking moves only what HEAD or the file holds
  (`UnaskedInv`).  The last is what makes not asking safe: the content can be had
  again from one of the two.

  Of `CatFile`: `ObjectsTheirOwn` (`OwnObject`) and `OneServed` (`OneProcess`), from
  `CatInv`.  Replies carry no name, so all depends on order: what a process has sent
  and will send is a sequence of replies to those who wait on it, from the first one
  on, the last perhaps cut (`StreamInv`, with a function that says which waiter each
  piece is for).  `settle` takes whole replies off the front of both, however the
  chunks fall; a process that was given up keeps nothing, and the one that was not is
  the root's (`ProcInv`); who waits is on its list once and has been told nothing
  (`Waits`); and who asks git's version on a root nobody holds was asking at the
  last release (`LateInv`).

`TypeCorrect`, `QueueTyped`, `ServerTyped` and `WritesTyped` are type invariants;
in the other modules the type invariant is a conjunct of the inductive one or of
the property proved.
`HomeInv`, `PlacedInv`, `MergeInv`, `Fresh`, `RefreshInv`, `ReadsInv`, `GatheredInv` and the
parts of `CatInv` were model-checked on their runs' instances before they were
proved; `StagingInv`, `SessionInv`, `ThreadsInv`, `IdInv`, `ServerInv` and
`CacheInv` have been since.  `WriteInv` and `JoinInv` quantify over more than TLC can
enumerate and rest on their proofs alone.
`OneAtATime`, `NoSendOnClosed`, `DrainedAtExit` and `BranchOnlyAfterMerge` are
theorems only, no run repeats them.

What the code does in a loop, the proofs do by induction over a set: the indices
for which a claim holds contain 0 and with each its successor, and were one
missing there would be a least one (`InductiveTo`, `Inductive`, from the
well-foundedness of `<`).  That covers the sums of the cache, the loops that filter a list and
`settle`'s loop over a chunk.

Only model-checked: everything under fairness (`EveryCallbackRuns`,
`EveryTaskEnds`, `SettlesDown`, `ReadsReturn`, `FramesAnswered`,
`CallersAnswered`), which is out of the prover's reach together with `ENABLED`.
Every invariant, action property and refinement that a run checks is also a
theorem.

## Not modelled

Rendering, syntax, UI, configuration, commands, health, utilities and logging
hold no state that outlives a redraw or run in one sequential step.  `.demo` is a
stand-in for the sidecar in recordings.  What GitHub and git themselves do is the
environment of the models.  Of the parts that are modelled: the flag of a single
thread (`resolve`), checks and checkout of the PR session; rows that stage as one
unit (adds, deletions, renames, modes, binaries) and how the lines of a hunk are
matched with the index in staging; the parser of markers, the re-merge and
the message editor of the merge tool.

History, the panel's rows and the pure algorithms are not modelled yet.

## Plan

In order:

1. `Staging`, continued: rows that stage whole; the splice of `model/apply.lua` and
   the line matching of `model/stage.lua` against reference definitions.
2. `MergeTool`, continued: whether what is continued with was staged as last
   saved, and the message editor of `git/editor.lua`; the parser of
   `git/conflict.lua` and the re-merge of `merge/model.lua` against reference
   definitions.
3. Operators with reference definitions: revision grammar, word pairing, the
   diff's line map, the panel's walk, history's paging.
4. `resolve` in `PRThreads`, with the flag of a thread and its rollback.
