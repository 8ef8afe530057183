# tmux-agents: a verification project

tmux-agents shows, in tmux, which AI coding agents (Claude Code, OpenCode) run
in which pane and in which state they are. This directory holds TLA+ models of
the server, the TLC runs that check them on small instances, and proofs that
TLAPS checks for every value of the constants. `PROJECT.json` lists components,
runs, mutants, theorems, hazards and the source lines behind every definition.

    tlc -workers 2 -config ReconcilerSafety.cfg MCReconciler    # one run
    tlapm ReconcilerProofs.tla                                  # the proofs

## The system

One server process per user (`server/`, Go), started by systemd with
`Restart=on-failure`; shell wrappers around `claude` and `opencode` that tell it
about launches; a picker that shows what it knows. All state is derived from
outside events and can be lost: after a restart it is gathered again.

| component | state it keeps | operations | correct when |
|---|---|---|---|
| reconciler (`state/reconcile.go`), database (`state/db.go`), tmux options (`tmux/options.go`) | `gen`, `prevPill` under `r.mu`; tables `panes`, `recent`, `session_names`; options `@agents-gen`, `@agents-claude-pill`, `@agents-opencode-pill` | `Reconcile()`, called after a mutation by whoever made it | what is shown is fresh, never goes back, and is announced after it is there |
| Claude store (`claude/store.go`) | sessions by id (state, directory, pane, title), pending registrations | `Register`, `Remove`, `SetState`, `SetPaneTarget`, `AddPending`, `PruneStalePending`, `UpdateName`, all under one lock | a session is shown where it runs, in the state it is in |
| Claude handlers (`claude/handler.go`) | none | `/claude/register`, `/claude/hook` with eight events | as the store |
| Claude recovery and titles (`claude/scanner.go`, `claude/watcher.go`) | the directories watched | read `~/.claude/sessions` at startup; read a whole transcript once, its last lines after each write | the newest title wins |
| pane scanner (`tmux/scanner.go`, callbacks in `main.go`) | none between scans | every 5 s: list panes, discover untracked agents, prune gone ones | dead panes disappear, live ones appear |
| OpenCode store, handlers (`opencode/store.go`, `handler.go`) | instances by port, sessions of each | register (starts an SSE client), port allocation | one client per port, the instance removed is the one that died |
| OpenCode SSE client (`opencode/sse.go`) | connection, backoff, failure count | events to states, reconnect, refresh | what is stored when all events are handled is what the process was |
| shell wrappers (`scripts/shell-integration.sh`) | none | register in the background, start the agent | the registration reaches the session it is about |
| picker (`scripts/_navigator_picker.sh`, `navigator.sh`) | last generation seen, what fzf shows | poll `@agents-gen`, reload the list from the database, toggle the view | an announced change is shown; the columns fit |
| pills and glue (`agents.tmux`, `status_*.sh`, `helpers.sh`, `variables.sh`, `install.sh`) | none | format and install | - |

They interact through four channels: calls into the two stores, each under a
lock of its own; `Reconcile()` after each mutation but the initial list of an SSE
client, outside those locks and under `r.mu`; the database and the tmux options, read by other processes; HTTP
and SSE, with requests that are late, reordered or lost. What is hard:

* store locks, `r.mu` and the reader of the options are never held together, so
  every value crosses a gap in which another goroutine acts;
* errors of the database and of tmux are logged or dropped, and nothing but the
  next mutation tries again;
* the process may be killed anywhere, and the tmux server, which holds the
  generation, lives and dies on its own;
* hooks carry no pane, registrations carry no session, and the scanner carries
  neither across its own sequence of calls.

`PROJECT.json` lists these at the lines where they bite, as hazards, each with
the properties that cover it or the reason why none does.

## Modules

    Publication <---refined by--- Reconciler <---extends--- ReconcilerProofs
                                      ^------------extends--- MCReconciler
    ClaudeStore <---extends--- ClaudeTracking <---extends--- MCClaudeTracking
                                      ^------------extends--- ClaudeTrackingProofs
    TitleWatcher <---extends--- TitleWatcherProofs, MCTitleWatcher
    OpenCodeInstances <---extends--- OpenCodeProofs, MCOpenCode
    OpenCodeSse <---extends--- OpenCodeSseProofs, MCOpenCodeSse
    PortAllocator <---extends--- PortAllocatorProofs, MCPortAllocator
    ColumnBudget <---extends--- PickerWatch <---extends--- MCPickerWatch
         ^--- ColumnBudgetProofs         ^--- PickerWatchProofs

**Publication** is what the reconciler promises to the readers of the database,
and nothing of how: each store has a history of versions; the database shows
versions that existed and never goes back.

**Reconciler** is `state.Reconciler` with its database and its tmux options. A
goroutine `p` is at `pc[p]`: `idle`, `owes` (has mutated a store and will call
`Reconcile`), or between `Lock` and `Unlock`:

| action | code |
|---|---|
| `Start` | `main()` up to its own `Reconcile()`; `NewReconciler` reads `@agents-gen` |
| `Mutate(p, t)` | any store mutation by a handler, the scanner, the watcher, an SSE client, that `Reconcile()` follows |
| `FetchInitial` | one session of the list that `Run` of an SSE client stores before it connects (`sse.go:108`); no `Reconcile()` follows |
| `Acquire(p)` | `r.mu.Lock()` |
| `ReadProvider(p, t, next)` | one `ActivePanes()`, under the lock of that one store |
| `CacheNames(p)` | the pills; `CacheName` or `LookupName` row by row |
| `CommitSnapshot(p)`, `FailSnapshot(p)` | `WriteSnapshot`, committed or rolled back; `gen++` when a pill changed |
| `SetPill(p, t)` | one round of the loop over the map of pills; `prevPill` |
| `SetGen(p)` | `@agents-gen`, refresh, return |
| `Crash`, `Shutdown`, `Exit` | a kill at any point; SIGTERM as far as `db.Close()`; the return of `main()` |
| `TmuxStart`, `TmuxExit` | the tmux server comes, or goes and takes the options with it |

What a store holds is any member of `Contents[t]`: the model does not follow
why a session changed. Arbitrary orders stay arbitrary: the order of a Go map
decides which of two rows with one target survives `INSERT OR REPLACE`, in
which order pills are set, and which title of a session is cached last.
`MayFail` says which statements of the database and which calls of tmux may fail
although there is a database and a tmux server. `ver`, `owed` (the last version
that a `Reconcile()` was called for), `shownVer`, `seenVer`, `shownPill`,
`lostWrite`, `missed` (pills whose last `set-option` failed) and `misread` (the
generation could not be read) are history variables; no guard reads them except
the bound on `ver`.

**ClaudeStore** has one operator per method of `claude.Store`. **ClaudeTracking**
composes it with everything that calls it: claude processes in panes (`agent`),
opencode processes in panes (`opencode`, which the scanner also takes for agents),
the wrapper's registrations (`regs`) and the hooks (`hooks`) in flight, the
handlers, the pruning ticker, the scanner with the callbacks of `main.go`, one
store call per step, and the start and the crash of the server. The scanner's
locals are variables (`pane`, `found`, `handle`, `gone`), because they are used
after the store has moved on: `handle` is the session object whose `PaneTarget`
line 171 of `main.go` writes outside the lock, and it is forgotten once the
object leaves the map. Hooks are requests of their own and handled in any order;
`misled` (history) collects the sessions whose last word, a `Stop` or a
`SessionEnd`, was handled before an older report that they work, or was never
sent because they were killed at work.

**OpenCodeInstances** is the other half: `opencode.Store` as a map from ports to
instances (`inst`), an SSE client per goroutine (`pc`, `port`, `cancelled`,
`fails`), the wrapper with its port request and its late registration, the
scanner, the server's start and crash. `Register` replaces an instance and
cancels its client; `RemoveDead` is the end of the goroutine that
`handleRegister` starts, with the test of `ctx.Err()` (`NotCancelled`) as a step
of its own before it. A client's identity may be used again when its goroutine
is over. Panes may run claude as well, because the scanner's set of agent panes
does not tell the two apart. The sessions inside an instance are left to
OpenCodeSse.

**OpenCodeSse** looks inside one instance, whose process lives: its sessions as
the process knows them (`real`, `title`), the instance (`inst`) with one operator
per method of `opencode.Store`, its row in the table (`row`), and the clients.
A client is where the goroutine of `Run` is:

| `pc[c]` | code |
|---|---|
| `list0`, `store0` | `fetchSessions` at the start of `Run`; no `Reconcile()` follows it |
| `connect` | between two calls of `connect` |
| `read` | `scanner.Scan()`; the events in `stream[c]` are sent and not yet handled |
| `list`, `store` | `fetchSessions` for `server.connected` |
| `status`, `apply` | `refreshSessionStatus` for `permission.replied`, with the states that `mapOpenCodeStatus` makes of the words it decoded |
| `publish` | `handleEvent` is about to call `Reconcile()` |

A GET is answered at some moment and stored later, session by session in any
order, while the process goes on and its events queue up. A registration
cancels the client before it, whose answer may still be written to the instance
of its successor; the handlers of two registrations may overlap (`handler`).
Statuses are words of the process, one of which the server does not know (`odd`),
and an answer of `/session/status` has one of three shapes (`AnswerShape`), of
which `Decoded` understands two; what it does not understand is the empty word.
`MapOpenCodeStatus` makes `unknown` of that and of an odd status. The answer is
assumed to list all sessions that exist. `order` is the order of `UpdatedAt`. One port is enough, because
every method of the store looks its port up first. `heard`, `listed`, `untold`
and `foreign` are history variables that say what the client was told: the
properties owe no more than that.

**TitleWatcher** has the transcripts (`file`, lines that are a title or not), the
queue of file system events, the watcher goroutine (`watcher`) and the other
reader (`reader`): `main()` while it recovers, the callback of the scanner later.
Each of the two is idle, about to read, or about to store what it has read.
`SessionStart` and `Remove` stand for every call that brings a session in or
drops it. `watchDue` and `scanDue` (history) are the titles that each reader owes.

**PortAllocator** is `handlePort` with whatever happens to a port between the
answer and the registration two seconds later; `passed` (history) collects the
ports that were handed out, or in use, since a wrapper got its own.

**PickerWatch** is the script `_navigator_picker.sh` beside the server's commits
and announcements: `loop[p]` is the background loop, `view[p]` what fzf shows (view,
width it was laid out for, version of the table), `reload[p]` a reload on its way.
All pickers of a user share one port (`owner`). A generation that is read is
always posted for the active view: the mode file has no newline at its end, so
that `read` reports a failure and the script falls back to `active`. What the
picker relies on is proved of the reconciler: a new generation is set after the
table is committed (`GenAnnouncesSnapshot`) and never repeats (`GenMonotonic`).

**ColumnBudget** computes the widths of the columns from that of the pane, by
plain operators; the two `while` loops of the script are the last two stages.

The **MC** modules only give values to constants.
Operators named after another one with a suffix (`AcquireWithoutMutex`,
`MatchLatest`, ...) are mutations of it, used by no run; `PROJECT.json` says
which property each of them breaks.

## Runs

| run | question | states |
|---|---|---|
| `ReconcilerSafety` | is what is published fresh, ordered, announced and titled? | 2.7 M |
| `ReconcilerLive` | is every mutation published, does every `Reconcile()` return? | 0.1 M |
| `TrackingPanes` | is a session shown only where it ran? | 4.0 M |
| `TrackingStates` | is an idle agent ever shown as busy? | 4.4 M |
| `TrackingLive` | do dead panes disappear and live ones appear? | 0.9 M |
| `TrackingDocScanner` | a sentence of the README on discovery, refuted | |
| `TitleWatcher` | does a title reach the store, and stay? | 0.3 M |
| `OpenCodeLife` | do instances, clients and processes agree, always and in the end? | 0.9 M |
| `OpenCodeDocReset` | a comment on the failure count, refuted | |
| `OpenCodeSse` | is what is stored of the sessions, once all is handled, the truth? | 7.9 M |
| `PortAllocator` | when can two wrappers hold one port? | 0.6 M |
| `PickerWatch` | does a picker show what was announced, in rows that fit? | 0.5 M |

### What they show

Published state. `QuiescentFresh`: once the last `Reconcile()` has returned and
its write succeeded, the table has every mutation that a `Reconcile()` was called
for, although the stores are read at different instants and mutations race with
the reads; and if no initial list was stored without one since, it shows exactly
what the stores hold. `QuiescentPills` says the same of the pill options, where an
unchanged pill is not set again. `set-option` may fail on a live tmux server, its
error is dropped and `prevPill` brought forward all the same: that pill, and no
other, may then be out of date until it changes again. `PrevPillOfSnapshot`: a
failed commit leaves `prevPill` alone, so the change is found again.
`GenAnnouncesSnapshot`: whoever sees a new generation finds the pills and the
table it announces, but for a pill whose `set-option` failed. `GenMonotonic`: no
generation is repeated in the life of one tmux server, not even after a crash,
except by the first value after a start that could not read the option.
`TitledSessionsStayTitled`: a session whose
title is cached is never committed without one, if lookups succeed. It speaks of
sessions that one row shows: of two rows of a session the untitled one may be
looked up first, and the titled one be replaced by another row of its target.
`PublicationSpec`: the refinement of Publication. `MutationsPublished` (of every
mutation that a `Reconcile()` follows) and `ReconcileReturns` are the liveness side.

Tracking. `OwnDirectory`: a session is shown only at a pane in whose directory it
has run; in the run, where panes have directories of their own, only at a pane it
has run in. `IdleIsNotBusy`: an idle agent whose hooks were all handled is not
shown as running or waiting, whatever the order of its hooks, unless its last word
overtook an older report (a `PreToolUse` handled after the `Stop` shows a running
agent until its next hook) or it was killed at work and continued (a known session
keeps its state). `DeadPanesPruned`, `LivePanesShown`: the scanner corrects
whatever lost, late or reordered requests and restarts have left. A session
remains shown at a pane that runs opencode, which counts as an agent pane, until
that ends.

OpenCode. `OneClientPerInstance`: through registrations by wrapper and scanner,
replacements, removals by port and crashes, every instance has one client that
would notice its end, and every client that was not cancelled has its instance.
It holds although `RemoveDead` may remove an instance registered after the test
of its context: the client of that one is cancelled with it. `LiveInstancesShown`:
a live opencode is found by the scanner and shown in the end, also after a
restart and where another one was before it. (That a live instance removed by
such a `RemoveDead` is found again is not covered: in the run no connection to a
live process fails and no port is used twice.)
`DeadInstancesRemoved` includes panes that claude has taken over, where only the
client removes the instance.

Titles. `RenamesSeen`: a title that is written while the directory is watched and
the session tracked is stored, or a later one. `TitlesFound`: so is the one that a
session has when it is brought in. `TitleNeverGoesBack`: an older title replaces a
newer one only in one of two ways, the scanner storing what it read before a
rename, or the watcher with a further event of that file waiting. The first is
a race of the code that nothing mends until the next write; each property
names it, and the window of five lines, as the only exceptions.

Sessions of OpenCode. `StateShown`: when all events are handled, a session whose
state was heard and understood on this connection has the state of the process,
`unknown` only for a status the server does not know; late `message.part.updated`
events and late answers do not win. An answer of a shape that is not understood
makes its sessions unknown until the next status, and is owed nothing. `MetadataShown`: and
after the list of the connection, the instance has the sessions and titles of the
process, whatever was renamed or deleted while the list was on its way. It needs
the list that `server.connected` triggers: the initial one is taken before the
stream is open. `QuietIsPublished`: no write of the
instance's own client is left without its `Reconcile()`.

Ports. `HeldOnce`: one server hands a port to two wrappers only after all others
were handed out or in use. Nothing else keeps them apart.

Picker. `QuietIsCurrent`: a picker that has read the last generation and reloads
nothing shows the last table announced to it, with a second picker posting to its
port and toggles that replace a reload. `ChangesShown` is the liveness side: every
announced table is shown, unless the reload found the database locked.
`LayoutHolds`: rows are not wider than the pane (from 40 cells on) although the
script reckons with 13 cells of overhead and a row has 14. Widths are those of
the script, which counts characters: a wide glyph takes two cells, and a pane may
be resized after its rows were laid out, which is not modelled.

### Bounds

* Reconciler: two goroutines besides `main()` (a third would only repeat what
  the mutex does with two waiters), two processes (`MaxStarts`), stores of up to
  two Claude rows and one OpenCode row, one pair of which shares a target,
  `MaxVersion` 3: a start is one version, so that each store is mutated twice
  before a restart, or once before and once after it. In `ReconcilerSafety` a write
  to the database, `set-option` and `show-option` may fail each time (`MayFail`), in
  `ReconcilerLive` none does.
  Two goroutines are enough for each order of mutation, read and commit of one
  relative to another.
* ClaudeTracking: two panes, two sessions, up to three launches
  (`MaxLaunches`), so that a pane is left and entered again and a session
  resumed elsewhere; two processes; up to three state hooks (`MaxReports`)
  where states matter, none where they do not. In `TrackingLive` opencode runs at
  most once, in the first pane, and the second pane has one of the two sessions
  (`SidsAt`), since no symmetry helps there; `TrackingStates` has no registrations,
  which do not touch states. `MaxPending` (1) bounds unclaimed
  registrations in flight per launch, not the claims: a registration may still be
  taken by a later session of that directory. `Crash` happens only
  while another start is left, so that liveness has a server to speak of.
* OpenCodeInstances: two panes, two ports, two launches, two processes; a third
  client, so that a replaced one may still be running; two failures instead of
  ten before a client gives up. In `OpenCodeLife` a port is used by one launch
  only (`MayReuse`): the allocator goes round 55000 ports before it repeats one.
  Connections to a live process do not fail there (`MaxGlitches` 0), in
  `OpenCodeDocReset` they may. The theorems need neither restriction.
* OpenCodeSse: two sessions, two clients at a time, one rename of each session
  (`MaxTitle`), three events in flight. `Budget` splits what else a behaviour may
  spend into four cases: two sessions with three events; two with two events and a
  broken stream or failing request; two with two registrations and one event; one
  session with two of each and a glitch. Three events are a question, its answer
  and what follows it; a session may also ask or work from the beginning.
* TitleWatcher: two sessions in directories of their own, a window of one line
  instead of five and transcripts of two lines, so that a title may be pushed out
  of the window; two titles; one server, which may crash at any time. A start
  finds transcripts of any length, so that a second start would be the same.
* PortAllocator: three wrappers and four ports, so that the scan goes round with
  two of them waiting. The theorems need neither bound.
* PickerWatch: two pickers on panes of 40 and 55 cells, the limits at which rows
  begin to fit and columns to have their minimums; two tables, so that one is
  announced while another is shown; one toggle. The theorems need none of them.
* Symmetry: sessions of OpenCodeSse, wrappers; goroutines other than `main()` in safety runs; sessions, and panes
  swapped together with their directories, in `TrackingPanes` and
  `TrackingStates`. Never in a run with a liveness property.

### Fairness

A goroutine takes its next step (weak fairness per goroutine): it waits for
SQLite and for tmux commands, and a hanging tmux is outside the model (see
hazards). `Acquire` is strongly fair because `sync.Mutex` hands the lock to a
waiter that has starved for 1 ms. `Start` is weakly fair after a crash, not
after an exit: `Restart=on-failure`. The scanner's ticker fires and a scan goes
on; requests in flight are handled or, with no server, refused; an SSE client goes
on to its next attempt, its next removal, or its end. The title watcher's
goroutine and the scanner's callback go on, and inotify reports in order. The
picker's loop and fzf run. Nothing is
assumed of users, agents, tmux, or mutations.

### Assumptions of the tracking runs

* `ListPanes` succeeds. When it fails, `scanOnce` returns without discovering or
  pruning anything, so liveness needs a tmux server from some time on.
* `MayKill` and `MayResume` say what the environment may do, and `CwdOf` where panes
  are. In all four runs the panes have directories of their own: in a shared one,
  sessions claim each other's registrations (`store.go:148`) and swap panes, and
  `OwnDirectory` says no more than that they stay in the directory.
  `LivePanesShown` needs own directories and no resumed sessions: `Get` leaves
  alone a session that has another pane.
* A torn read of the two-word string written without the lock at `main.go:171`
  is not modelled: the write is one step.
* Panes keep their address; `session:window.pane` is renumbered by tmux in
  reality.

### Divergences between documentation and code

Shown by a run:

* `README.md:99` says that sessions without wrappers are discovered within ten
  seconds. A session that ends during its discovery is registered anew and hides
  its successor in the pane (`TrackingDocScanner`).
* `opencode/sse.go:130` says that a connection that "was established then
  dropped" resets the failure count. Only a regular end of the response does
  (`OpenCodeDocReset`).

Seen while modelling, without a run of their own:

* `docs/IMPLEMENTATION.md:77` calls `@agents-gen` a counter "incremented on any
  state change". It moves only when a pill string does: the table changes and the
  polling picker does not reload. PickerWatch has it (`Commit` without
  `unannounced`).
* `docs/IMPLEMENTATION.md:171` says that SIGTERM "writes final state". Nothing
  does.
* `docs/IMPLEMENTATION.md:105` says that `SessionStart` matches "by pane target
  verification or CWD". `matchPending` compares directories only: in a shared
  directory two sessions swap panes; `OwnDirectory` is what remains true.
* `tmux/scanner.go:252` says it prunes panes that "no longer" run an agent. The
  list it prunes by is older than the targets it prunes, and a session that
  started in between is removed until the next scan.
* `docs/IMPLEMENTATION.md:123` maps `message.part.updated` to running; from idle
  the code leaves it idle, as the comment at `sse.go:293` says it must.
* `docs/IMPLEMENTATION.md:136` promises the most recently active session of an
  instance. `refreshSessionStatus` makes the last session of a map's order the
  active one.
* `docs/IMPLEMENTATION.md:43` says a snapshot is written when a pill changed;
  `Reconcile` always writes it.
* `docs/IMPLEMENTATION.md:47` says the database is in WAL mode. The parameters in
  `db.go:16` are spelled as another driver wants them; readers may be locked out
  by a commit, which `LoadNothing` models.
* `opencode/sse.go:302` says "refresh all sessions"; only titles and directories
  are refreshed, not states.
* `_navigator_picker.sh:70` gives the overhead of a row as 13; it is 14. `RowsFit`
  shows that the two spare columns make up for it.
* `README.md:104` describes two views. A change of state takes a picker from the
  recent view back to the active one (the missing newline of the mode file).
* `README.md:117` says that renames are detected; see the two exceptions of
  `RenamesSeen`.
* `docs/IMPLEMENTATION.md:147` gives the scanner an interval of ten seconds,
  `main.go:132` five.
* `docs/IMPLEMENTATION.md:88` says `SessionStart` sets `idle`; `Register` leaves a
  known session's state alone.
* `docs/IMPLEMENTATION.md:84` calls the hooks asynchronous, and nothing orders
  them: an overtaken report shows a resting agent as working (`misled`).
* The sessions that an SSE client lists before it connects are stored without a
  `Reconcile()` (`sse.go:108`); `FetchInitial` has it, and the properties of
  Reconciler owe them nothing. If the client connects, the list that follows
  `server.connected` repairs it (`QuietIsPublished`); what a cancelled client stores
  so stays unpublished until the next event (`foreign = {}`).
* A pill whose `set-option` failed is not set again until it changes
  (`reconcile.go:97`), and a start that cannot read `@agents-gen` begins with 0
  (`reconcile.go:28`): `missed` and `misread`.

## Proofs

Every invariant and every action property that a run checks is a theorem, and so
is the refinement of Publication. The theorems hold for all values of the
constants that the named assumptions of the module allow; where one needs more,
it says so (`ASSUME ... PROVE`), and the run of its property gives the constants
values that meet it.

| module | theorems | beyond the assumptions of the module |
|---|---|---|
| `ReconcilerProofs` | 9 | `TitlesStay`: no lookup fails |
| `ClaudeTrackingProofs` | 3 | |
| `TitleWatcherProofs` | 2 | |
| `OpenCodeProofs` | 3 | |
| `OpenCodeSseProofs` | 4 | |
| `PortAllocatorProofs`, `PickerWatchProofs`, `ColumnBudgetProofs` | 2, 3, 2 | |

### Reconciler

`ReconcilerProofs` proves, for any sets of targets, keys, sessions, titles and
goroutines, any contents of the stores and any bounds, from the named
assumptions of Reconciler (the goroutines include `main()`, rows of a store
belong to its tool, are finitely many and have distinct keys, the "nothing"
values are no values):

| theorem | property |
|---|---|
| `TypeCorrect` | `TypeOK` |
| `Inductive` | the inductive invariant `IInv` |
| `DatabaseFresh`, `PillsFresh` | `QuiescentFresh`, `QuiescentPills` |
| `PrevPillIsPublished` | `PrevPillOfSnapshot` |
| `GenAnnounces`, `GenNeverGoesBack` | `GenAnnouncesSnapshot`, `GenMonotonic` |
| `ImplementsPublication` | `PublicationSpec` |
| `TitlesStay` (if no lookup fails) | `TitledSessionsStayTitled` |

None of the properties is inductive: each speaks of moments at which nobody is
inside `Reconcile`, or of variables another goroutine has just filled. `IInv`
says what holds in between, in parts that build on each other: at most one
goroutine is past `Lock` and the locals of the others are empty; when the
process is down nobody is anywhere; `gen` is never behind `@agents-gen` while
one tmux server lives, unless it could not be read (`misread`); the rows,
versions and pills the holder has collected agree with one another as far as it
has got; the pills already set are those of
the committed snapshot; and, for freshness, a mutation that a `Reconcile()` is to
follow and that was not read yet has a goroutine that owes one. The last part is
what makes `QuiescentFresh` true and is where the order "mutate, then reconcile" of
the callers is used; the initial list, which no `Reconcile()` follows, moves `ver`
and not `owed`. `PillInv` and `ShownInv` carry the pills: an
option that is not in `missed` has `prevPill`, and the pill of a snapshot is that of
the store until the store moves on.

`ImplementsPublication` maps `ver` to `current` and `shownVer` to `shown`; a
commit is a `Publish`, mutations and restarts are `Advance`, all else stutters.

`TitlesStay` needs `LookedInv`: a holder that is about to commit has no row
without a title whose session is in the cache, unless another row shows that
session. The loop over the rows establishes it (`LookedNames`), and it lasts,
because only the holder of `r.mu` touches the cache. That lookups fail once the
database is closed does no harm: then the commit fails as well.

### Tracking

`ClaudeTrackingProofs` proves `TypeCorrect` (`TypeOK`), `ShownInItsDirectory`
(`OwnDirectory`) and `IdleShownIdle` (`IdleIsNotBusy`), for any panes, with shared
directories or not, finitely many session ids, any launches, reports, kills,
losses and restarts.

* For types, `ScannerInv` and `DownInv` say which of the scanner's locals are set
  where, and that the object whose field line 171 of `main.go` writes is still
  in the map.
* A pane gets into the store from a claimed registration or from the scanner.
  `PaneInv` follows both: what a hook says of its directory is true of a pane the
  session ran in, a registration names a pane with its own directory, the
  scanner has seen the session in the pane it is about to write. That gives
  `OwnDirectory`, without any hypothesis. In a shared directory the code promises
  no more.
* `ReportInv`: once an agent that is not `misled` is idle (or gone), whatever in the
  store or on its way says that it works is followed, in the order in which its
  hooks were sent, by a report that says otherwise. A hook that is handled out of
  turn keeps this true, except the last word of all before an older report; a kill
  at work breaks it, since nobody reports the end.

### Titles

`TitleWatcherProofs` proves `TypeCorrect` (`TypeOK`) and `TitlesGoForward`
(`TitleNeverGoesBack`) for any sessions, titles, transcripts and windows. `TitleInv`
says that no stored or read title is newer than the transcript, and that what
the watcher is about to store is the last title or that a write to this
transcript is queued; `WatchInv`, that nothing is queued that is not watched. The
five-line window matters for `RenamesSeen` and not here: what is read in it is
the last title there is.

### OpenCode

`OpenCodeProofs` proves `TypeCorrect` (`TypeOK`) and `OneClient`
(`OneClientPerInstance`) for any panes, ports (finitely many) and clients, with
or without reuse of ports. `OneClientPerInstance` becomes inductive by adding
that a running client has a port, that a free identity is not cancelled, and
that the scanner has a port and a pane in hand when it uses them. One lemma each
for `Register`, `Remove`, a client's step, its cancelled end and its removing
end carries the store's part; the rest goes through `Next`.

`OpenCodeSseProofs` proves `TypeCorrect` (`TypeOK`), `QuietRowIsRight`
(`QuietIsPublished`), `HeardStateIsShown` (`StateShown`) and
`ListedMetadataIsShown` (`MetadataShown`), for any sessions, clients and bounds,
without hypotheses. The three properties speak of the moment at which all events
are handled; the invariants say what is still to come before it.

* `BaseInv`: types; the client of the instance is the only one that runs and is
  not cancelled (`ClientInv`); what an answer or an event says was so once
  (`AnswerInv`, `StreamInv`), a session being created before and deleted after
  everything else; nothing is known of a session that has not begun (`KnownInv`).
* `PublishInv`: the row is right, or the client is not back at the stream, or
  `server.connected` is still in it, which leads to a list and a `Reconcile()`.
  So the initial list needs none of its own.
* `StatesInv`: the last event in the stream that tells what a session does tells
  the truth; where there is none, the state of a session in `heard` is the truth in
  the store, or in the answer that is being stored: `unknown` there is the truth of
  a status the server does not know, and what it did not understand is not in
  `heard`. A session whose creation is
  still in the stream is in nobody else's hands (`NothingOf`), which is why a late
  answer cannot make it run.
* `TitlesInv`: the same of titles, with the list that is being stored; and a session
  that is deleted has its `session.deleted` in the stream or is neither known, nor
  in the list, nor in an event that would bring it back.

Most of the module is one lemma per action and part: which sessions an action
touches (`Touched`), and that the others are left alone. `AppendEffect` and
`TailEffect` say what sending and handling do to the events about a session.

### Ports, picker, columns

`ColumnBudgetProofs` proves `RowsFit` and `ColumnsReadable` for panes of any
width. The stages are linear once each `Decrease` is split into its three cases:
either a stage takes what is left of the deficit, and the later ones take
nothing, or its column is at its minimum. `Stages` says so stage by stage.

`PickerWatchProofs` proves `PickerTypes`, `QuietPickerIsCurrent` and
`LayoutOfPickers` for any pickers, widths and bounds. `QuietIsCurrent` speaks of
rest; in motion the table is on its way, and `Delivered` says where: in a generation
not yet read, a post about to be made, a reload that is to read the table, or one
that has read it. `Owed` says that only an open picker is owed anything, which is
what makes a post that finds no fzf harmless: the port is taken whenever some
picker is open. `OwnWidth` carries the width from the pane to the rows, and
`LayoutOfPickers` applies `RowsFit` to it.

`PortAllocatorProofs` proves `ScanStaysInRange` (`TypeOK`) and `PortHeldOnce`
(`HeldOnce`) for any range and any wrappers. The invariant says that the ports
between the one a wrapper holds and the position of the scan, going round, are
all in `passed` (`ScanPassed`): so when the scan comes back to that port, all others
are.

### Only model-checked

Liveness: `MutationsPublished`, `ReconcileReturns`, `DeadPanesPruned`,
`LivePanesShown`, `DeadInstancesRemoved`, `LiveInstancesShown`, `RenamesSeen`,
`TitlesFound` and `ChangesShown`. They rest on fairness, and with it on `ENABLED`,
which the provers do not handle.

## Not modelled

* `Heartbeat` writes a timestamp that nothing in the server reads; the `recent`
  table never gets a row, as no provider returns one; `WritePanesSnapshot`,
  `WriteRecentSnapshot` and `MatchPendingByTarget` have no caller.
* Directories and timestamps of rows, wording of pills beyond state and count.
* Directories of OpenCode sessions, which go the way of titles; the name given
  to the wrapper, which is a title for sessions that have none; the rows of the
  recent view, which are always empty.
* Heartbeats, deltas and other events of the stream that the client ignores.
* Flag parsing, `/healthz`, the heartbeat; the jump to a selected pane.
* Pills and glue scripts: stateless formatting and installation.
* Everything in the plan below.

## Plan

In this order. A new run would have to replace one of those above.

1. The safety halves of the liveness properties as theorems: what a fair step of
   the scanner or of the picker achieves, such as that a scan which finds a dead
   pane leaves it untracked.
2. An abstract specification of the OpenCode store as its readers see it, and the
   proof that OpenCodeInstances implements it, as Reconciler does Publication.
3. A pane that both stores have: ClaudeTracking and OpenCodeInstances composed
   over one set of panes. Each has the other's processes in its panes already, but
   not the other's store: which row survives at a shared target is Reconciler's.
4. A second server process beside the first, which reconciles an empty snapshot
   before its listener fails; and panes that tmux renumbers.
