---------------------------- MODULE Reconciler -----------------------------
(***************************************************************************)
(* state.Reconciler: the one path by which the in-memory session stores    *)
(* reach the outside, that is the SQLite database and the tmux options.    *)
(*                                                                         *)
(* Any number of goroutines (HTTP handlers, the pane scanner, the title    *)
(* watcher, one SSE client per OpenCode instance) mutate a store under the *)
(* store's own lock and then call Reconcile(), which runs under r.mu; only *)
(* the sessions an SSE client lists before it connects are stored without. *)
(*                                                                         *)
(*   read store 1, read store 2, cache and look up names, commit the       *)
(*   snapshot, and, if a pill changed, set the pill options and then the   *)
(*   generation option.                                                    *)
(*                                                                         *)
(* The server process may crash at any step and be started again, it may   *)
(* be stopped by SIGTERM, a database write may fail, and so may a call of  *)
(* tmux, whose error is ignored.  The tmux server that holds the options   *)
(* may be absent, or be replaced by a new one that has no options.         *)
(***************************************************************************)
EXTENDS Naturals, FiniteSets

CONSTANTS
  Target,               \* tmux pane targets, session:window.pane
  Key,                  \* keys of the stores: Claude session ids, OpenCode ports
  Sid, NoSid,           \* agent session ids; the empty PaneRow.SessionID
  Name, NoName,         \* session titles; the empty PaneRow.Name
  Contents,             \* Contents[t]: the results ActivePanes() of t may return
  Proc, Main, NoProc,   \* goroutines that reconcile; main(); nobody
  NoPill,               \* a pill that was never computed, an option never set
  MayFail,              \* which statements may fail on the open database,
                        \* which calls of tmux while there is a server
  MaxVersion,           \* bound: no mutation of a store from this version on
  MaxStarts             \* bound: number of server processes ever started

Tool == {"claude", "opencode"}

State == {"idle", "running", "permission", "unknown"}

\* state.PaneRow, less the directory, the timestamp and the host.
Row == [tool: Tool, key: Key, target: Target, sid: Sid \union {NoSid},
        state: State, name: Name \union {NoName}]

\* What computePill formats as "state|count".
Pill == [state: {"permission", "running", "active"}, count: Nat \ {0}]
          \union {[state |-> "idle", count |-> 0]}

ASSUME ProcAssumption == Main \in Proc /\ NoProc \notin Proc

ASSUME ContentsAssumption ==
  /\ Contents \in [Tool -> SUBSET SUBSET Row]
  /\ \A t \in Tool : \A R \in Contents[t] :
       /\ IsFiniteSet(R)
       /\ \A r \in R : r.tool = t
       /\ \A q, r \in R : q.key = r.key => q = r

ASSUME PillAssumption == NoPill \notin Pill

ASSUME NoNameAssumption == NoName \notin Name /\ NoSid \notin Sid

ASSUME BoundAssumption ==
  /\ MayFail \subseteq {"cache", "lookup", "write", "set", "read"}
  /\ MaxVersion \in Nat /\ MaxStarts \in Nat

VARIABLES
  phase,      \* the server process: starting, up, closing, or none
  starts,     \* how many server processes there have been
  store,      \* store[t]: what ActivePanes() of t's store returns now
  ver,        \* ver[t]: number of mutations of t's store (history)
  owed,       \* owed[t]: the last of them after which the goroutine that
              \* made it calls Reconcile() (history)
  pc,         \* pc[p]: where goroutine p is
  lock,       \* holder of r.mu
  allPanes,   \* allPanes[p]: p's local allPanes
  seenVer,    \* seenVer[p][t]: version of t's store p has read (history)
  pills,      \* pills[p]: p's local pills
  todo,       \* todo[p]: tools whose pill option p has still to set
  gen,        \* r.gen
  prevPill,   \* r.prevPill
  panes,      \* database: table panes
  names,      \* database: table session_names
  shownVer,   \* shownVer[t]: version of t's store in panes (history)
  shownPill,  \* the pills of the snapshot in panes (history)
  lostWrite,  \* the last snapshot was not committed (history)
  tmux,       \* is there a tmux server?
  optGen,     \* tmux option @agents-gen, 0 when it is not set
  optPill,    \* tmux options @agents-claude-pill and @agents-opencode-pill
  missed,     \* tools whose option has not the pill it was last to be set
              \* to: set-option failed, or the tmux server has gone (history)
  misread     \* r.gen may be behind @agents-gen, for NewReconciler could not
              \* read the option of a tmux server that was there (history)

memVars   == <<store, ver, owed>>
localVars == <<allPanes, seenVer, pills, todo>>
dbVars    == <<panes, names, shownVer, shownPill, lostWrite>>
tmuxVars  == <<tmux, optGen, optPill, missed, misread>>
vars      == <<phase, starts, memVars, pc, lock, localVars, gen, prevPill,
               dbVars, tmuxVars>>

-----------------------------------------------------------------------------
(* What a reconciliation computes.                                         *)

RowsOf(t, rows) == {r \in rows : r.tool = t}

AllRows == store["claude"] \union store["opencode"]

ComputePillWithoutTotal(rows, t) ==
  LET mine       == RowsOf(t, rows)
      running    == {r \in mine : r.state = "running"}
      permission == {r \in mine : r.state = "permission"}
  IN CASE permission # {} ->
            [state |-> "permission", count |-> Cardinality(permission)]
       [] permission = {} /\ running # {} ->
            [state |-> "running", count |-> Cardinality(running)]
       [] OTHER -> [state |-> "active", count |-> Cardinality(mine)]

\* computePill: the most urgent state that some row of the tool is in.
ComputePill(rows, t) ==
  LET mine       == RowsOf(t, rows)
      running    == {r \in mine : r.state = "running"}
      permission == {r \in mine : r.state = "permission"}
  IN CASE mine = {} -> [state |-> "idle", count |-> 0]
       [] permission # {} ->
            [state |-> "permission", count |-> Cardinality(permission)]
       [] permission = {} /\ running # {} ->
            [state |-> "running", count |-> Cardinality(running)]
       [] OTHER -> [state |-> "active", count |-> Cardinality(mine)]

ChangedWhenAll(p) == \A t \in Tool : pills[p][t] # prevPill[t]

Changed(p) == \E t \in Tool : pills[p][t] # prevPill[t]

\* Rows whose title CacheName stores.
Titled(rows) == {r \in rows : r.name # NoName /\ r.sid # NoSid}

SameSession(rows, t, s) == {r \in rows : r.tool = t /\ r.sid = s}

\* session_names after CacheName of the rows R.  When two rows show the same
\* session the last statement wins, and the order of the rows is arbitrary.
Cached(R) ==
  {n \in [Tool -> [Sid -> Name \union {NoName}]] :
     \A t \in Tool, s \in Sid :
       LET same == SameSession(R, t, s)
       IN IF same = {} THEN n[t][s] = names[t][s]
                       ELSE \E r \in same : n[t][s] = r.name}

\* The titles the rows leave the loop with: a row without one takes what the
\* cache holds when its turn comes, before or after the rows that show the
\* same session.  A lookup that fails leaves the title empty.
Looked(rows, R) ==
  {f \in [rows -> Name \union {NoName}] :
     \A r \in rows :
       IF r.name = NoName /\ r.sid # NoSid
         THEN \/ f[r] = names[r.tool][r.sid]
              \/ \E q \in SameSession(R, r.tool, r.sid) : f[r] = q.name
              \/ ("lookup" \in MayFail \/ phase = "closing") /\ f[r] = NoName
         ELSE f[r] = r.name}

\* The rows of which CacheName succeeds; it ignores its error.
Cacheable(rows) ==
  IF phase = "closing" THEN {{}}
  ELSE IF "cache" \in MayFail THEN SUBSET Titled(rows)
  ELSE {Titled(rows)}

\* WriteSnapshot inserts with OR REPLACE and target is the primary key: of the
\* rows with one target the last one survives.  The OpenCode store is read
\* last; within a store the order is that of a Go map, hence arbitrary.
Tables(rows) ==
  {P \in SUBSET rows :
     /\ \A r \in rows : \E q \in P : q.target = r.target
     /\ \A q, r \in P : q.target = r.target => q = r
     /\ \A q \in P, r \in rows :
          q.target = r.target /\ r.tool = "opencode" => q.tool = "opencode"}

-----------------------------------------------------------------------------
(* The goroutines.                                                         *)

\* A goroutine that holds r.mu is about to read a store (the pc is the tool),
\* to use the title cache, to commit, to set the pills, or to set @agents-gen.
BeforeWrite == {"claude", "opencode", "names", "write"}
Holding     == BeforeWrite \union {"pills", "gen"}
PC          == {"idle", "owes"} \union Holding

Running == phase \in {"starting", "up", "closing"}

NoPills    == [t \in Tool |-> NoPill]
NoVersions == [t \in Tool |-> 0]

Init ==
  /\ phase = "down" /\ starts = 0
  /\ store = [t \in Tool |-> {}] /\ ver = NoVersions /\ owed = NoVersions
  /\ pc = [p \in Proc |-> "idle"] /\ lock = NoProc
  /\ allPanes = [p \in Proc |-> {}] /\ seenVer = [p \in Proc |-> NoVersions]
  /\ pills = [p \in Proc |-> NoPills] /\ todo = [p \in Proc |-> {}]
  /\ gen = 0 /\ prevPill = NoPills
  /\ panes = {} /\ names = [t \in Tool |-> [s \in Sid |-> NoName]]
  /\ shownVer = NoVersions /\ lostWrite = FALSE
  /\ shownPill = [t \in Tool |-> ComputePill({}, t)]
  /\ tmux \in BOOLEAN /\ optGen = 0 /\ optPill = NoPills
  /\ missed = {} /\ misread = FALSE

ReadGenNever == gen' = 0 /\ misread' = FALSE

\* NewReconciler reads @agents-gen and goes on with 0 when it cannot.
ReadGen ==
  \/ tmux /\ gen' = optGen /\ misread' = FALSE
  \/ ~tmux /\ gen' = 0 /\ misread' = FALSE
  \/ tmux /\ "read" \in MayFail /\ gen' = 0 /\ misread' = TRUE

\* main() up to its own Reconcile(): there are no previous pills; a store
\* starts without a row, since a recovered Claude session has no pane yet.
Start ==
  /\ phase \in {"down", "stopped"} /\ starts < MaxStarts
  /\ phase' = "starting" /\ starts' = starts + 1
  /\ store' = [t \in Tool |-> {}]
  /\ ver' = [t \in Tool |-> ver[t] + 1] /\ owed' = ver'
  /\ pc' = [pc EXCEPT ![Main] = "owes"]
  /\ ReadGen /\ prevPill' = NoPills
  /\ lostWrite' = FALSE
  /\ UNCHANGED <<lock, localVars, panes, names, shownVer, shownPill, tmux,
                 optGen, optPill, missed>>

\* A goroutine mutates the store of tool t, under the store's lock, and will
\* reconcile.  It may mutate more than once before it does.  While main() has
\* yet to reconcile, only the title watcher runs, and no session has a pane.
Mutate(p, t) ==
  /\ Running /\ p # Main
  /\ pc[p] \in {"idle", "owes"} /\ ver[t] < MaxVersion
  /\ \E R \in Contents[t] :
       /\ phase = "starting" => t = "claude" /\ R = {}
       /\ store' = [store EXCEPT ![t] = R]
  /\ ver' = [ver EXCEPT ![t] = @ + 1] /\ owed' = [owed EXCEPT ![t] = ver'[t]]
  /\ pc' = [pc EXCEPT ![p] = "owes"]
  /\ UNCHANGED <<phase, starts, lock, localVars, gen, prevPill, dbVars,
                 tmuxVars>>

\* Run of an SSE client lists the sessions before it connects.  Each one that
\* it stores may change what the row of its instance shows, and no Reconcile()
\* follows: the client goes on to connect.
FetchInitial ==
  /\ phase \in {"up", "closing"} /\ ver["opencode"] < MaxVersion
  /\ \E q \in store["opencode"], R \in Contents["opencode"] : \E r \in R :
       /\ r.key = q.key /\ r.target = q.target
       /\ R = (store["opencode"] \ {q}) \union {r}
       /\ store' = [store EXCEPT !["opencode"] = R]
  /\ ver' = [ver EXCEPT !["opencode"] = @ + 1]
  /\ UNCHANGED <<phase, starts, owed, pc, lock, localVars, gen, prevPill,
                 dbVars, tmuxVars>>

AcquireOrSkip(p) ==
  /\ pc[p] = "owes"
  /\ lock' = IF lock = NoProc THEN p ELSE lock
  /\ pc' = [pc EXCEPT ![p] = IF lock = NoProc THEN "claude" ELSE "idle"]
  /\ UNCHANGED <<phase, starts, memVars, localVars, gen, prevPill, dbVars,
                 tmuxVars>>

AcquireWithoutMutex(p) ==
  /\ pc[p] = "owes"
  /\ lock' = p
  /\ pc' = [pc EXCEPT ![p] = "claude"]
  /\ UNCHANGED <<phase, starts, memVars, localVars, gen, prevPill, dbVars,
                 tmuxVars>>

\* Reconcile: r.mu.Lock().
Acquire(p) ==
  /\ pc[p] = "owes" /\ lock = NoProc
  /\ lock' = p
  /\ pc' = [pc EXCEPT ![p] = "claude"]
  /\ UNCHANGED <<phase, starts, memVars, localVars, gen, prevPill, dbVars,
                 tmuxVars>>

\* p.ActivePanes(), under the read lock of this one store.
ReadProvider(p, t, next) ==
  /\ pc[p] = t
  /\ allPanes' = [allPanes EXCEPT ![p] = @ \union store[t]]
  /\ seenVer' = [seenVer EXCEPT ![p][t] = ver[t]]
  /\ pc' = [pc EXCEPT ![p] = next]
  /\ UNCHANGED <<phase, starts, memVars, lock, pills, todo, gen, prevPill,
                 dbVars, tmuxVars>>

CacheNamesNoLookup(p) ==
  /\ pc[p] = "names"
  /\ pills' = [pills EXCEPT ![p] =
                 [t \in Tool |-> ComputePill(allPanes[p], t)]]
  /\ \E R \in Cacheable(allPanes[p]) : names' \in Cached(R)
  /\ pc' = [pc EXCEPT ![p] = "write"]
  /\ UNCHANGED <<phase, starts, memVars, lock, allPanes, seenVer, todo, gen,
                 prevPill, panes, shownVer, shownPill, lostWrite, tmuxVars>>

\* The pills, then CacheName or LookupName row by row.
CacheNames(p) ==
  /\ pc[p] = "names"
  /\ pills' = [pills EXCEPT ![p] =
                 [t \in Tool |-> ComputePill(allPanes[p], t)]]
  /\ \E R \in Cacheable(allPanes[p]) :
       /\ names' \in Cached(R)
       /\ \E f \in Looked(allPanes[p], R) :
            allPanes' = [allPanes EXCEPT ![p] =
                           {[r EXCEPT !.name = f[r]] : r \in @}]
  /\ pc' = [pc EXCEPT ![p] = "write"]
  /\ UNCHANGED <<phase, starts, memVars, lock, seenVer, todo, gen, prevPill,
                 panes, shownVer, shownPill, lostWrite, tmuxVars>>

UnlockForgotten(p) ==
  /\ lock' = lock
  /\ pc' = [pc EXCEPT ![p] = "idle"]
  /\ allPanes' = [allPanes EXCEPT ![p] = {}]
  /\ seenVer' = [seenVer EXCEPT ![p] = NoVersions]
  /\ pills' = [pills EXCEPT ![p] = NoPills]
  /\ phase' = IF p = Main THEN "up" ELSE phase

\* The deferred r.mu.Unlock() and the return, which forgets the locals.
\* main() then starts the HTTP server and the other goroutines.
Unlock(p) ==
  /\ lock' = NoProc
  /\ pc' = [pc EXCEPT ![p] = "idle"]
  /\ allPanes' = [allPanes EXCEPT ![p] = {}]
  /\ seenVer' = [seenVer EXCEPT ![p] = NoVersions]
  /\ pills' = [pills EXCEPT ![p] = NoPills]
  /\ phase' = IF p = Main THEN "up" ELSE phase

\* WriteSnapshot commits, and r.gen++ when a pill changed.
CommitSnapshot(p) ==
  /\ pc[p] = "write" /\ phase # "closing"
  /\ panes' \in Tables(allPanes[p])
  /\ shownVer' = seenVer[p] /\ shownPill' = pills[p] /\ lostWrite' = FALSE
  /\ IF Changed(p)
       THEN /\ gen' = gen + 1 /\ todo' = [todo EXCEPT ![p] = Tool]
            /\ pc' = [pc EXCEPT ![p] = "pills"]
            /\ UNCHANGED <<phase, lock, allPanes, seenVer, pills>>
       ELSE Unlock(p) /\ UNCHANGED <<gen, todo>>
  /\ UNCHANGED <<starts, memVars, prevPill, names, tmuxVars>>

FailSnapshotButPublish(p) ==
  /\ pc[p] = "write" /\ ("write" \in MayFail \/ phase = "closing")
  /\ lostWrite' = TRUE
  /\ prevPill' = pills[p]
  /\ Unlock(p)
  /\ UNCHANGED <<starts, memVars, todo, gen, panes, names, shownVer,
                 shownPill, tmuxVars>>

\* WriteSnapshot fails: the transaction is rolled back, Reconcile returns and
\* nobody retries.
FailSnapshot(p) ==
  /\ pc[p] = "write" /\ ("write" \in MayFail \/ phase = "closing")
  /\ lostWrite' = TRUE
  /\ Unlock(p)
  /\ UNCHANGED <<starts, memVars, todo, gen, prevPill, panes, names, shownVer,
                 shownPill, tmuxVars>>

\* Does a set-option succeed?  Not without a tmux server.
Accepted ==
  {ok \in BOOLEAN : /\ ok => tmux
                    /\ ~ok => ~tmux \/ "set" \in MayFail}

\* Options.Set of the pill of t, and what has become of it.
SetOption(p, t) ==
  \E ok \in Accepted :
    /\ optPill' = IF ok THEN [optPill EXCEPT ![t] = pills[p][t]] ELSE optPill
    /\ missed' = IF ok THEN missed \ {t} ELSE missed \union {t}

SetPillOnlyOne(p, t) ==
  /\ pc[p] = "pills" /\ t \in todo[p]
  /\ SetOption(p, t)
  /\ prevPill' = [prevPill EXCEPT ![t] = pills[p][t]]
  /\ todo' = [todo EXCEPT ![p] = {}]
  /\ pc' = [pc EXCEPT ![p] = "gen"]
  /\ UNCHANGED <<phase, starts, memVars, lock, allPanes, seenVer, pills, gen,
                 dbVars, tmux, optGen, misread>>

\* One round of the loop over pills, a Go map: the order is arbitrary.  The
\* error of set-option is ignored, prevPill is updated all the same.
SetPill(p, t) ==
  /\ pc[p] = "pills" /\ t \in todo[p]
  /\ SetOption(p, t)
  /\ prevPill' = [prevPill EXCEPT ![t] = pills[p][t]]
  /\ todo' = [todo EXCEPT ![p] = @ \ {t}]
  /\ pc' = IF todo[p] = {t} THEN [pc EXCEPT ![p] = "gen"] ELSE pc
  /\ UNCHANGED <<phase, starts, memVars, lock, allPanes, seenVer, pills, gen,
                 dbVars, tmux, optGen, misread>>

\* Set(@agents-gen), RefreshClients, and the return.
SetGen(p) ==
  /\ pc[p] = "gen"
  /\ \E ok \in Accepted :
       /\ optGen' = IF ok THEN gen ELSE optGen
       /\ misread' = (misread /\ ~ok)
  /\ Unlock(p)
  /\ UNCHANGED <<starts, memVars, todo, gen, prevPill, dbVars, tmux, optPill,
                 missed>>

\* What r.mu protects: one goroutine's way from Lock() to Unlock().
HolderStep(p) ==
  \/ ReadProvider(p, "claude", "opencode")
  \/ ReadProvider(p, "opencode", "names")
  \/ CacheNames(p)
  \/ CommitSnapshot(p)
  \/ FailSnapshot(p)
  \/ \E t \in Tool : SetPill(p, t)
  \/ SetGen(p)

-----------------------------------------------------------------------------
(* The end of a server process, and the tmux server.                       *)

\* The goroutines are gone, wherever they were, and with them the memory of
\* the process.  (store is kept until the next Start, to be referred to.)
Vanish ==
  /\ pc' = [p \in Proc |-> "idle"] /\ lock' = NoProc
  /\ allPanes' = [p \in Proc |-> {}] /\ seenVer' = [p \in Proc |-> NoVersions]
  /\ pills' = [p \in Proc |-> NoPills] /\ todo' = [p \in Proc |-> {}]
  /\ gen' = 0 /\ prevPill' = NoPills
  /\ UNCHANGED <<starts, memVars, dbVars, tmuxVars>>

\* SIGKILL, a panic outside an HTTP handler, log.Fatalf.
Crash ==
  /\ Running /\ phase' = "down"
  /\ Vanish

\* SIGTERM, as far as db.Close(): the goroutines that are not HTTP handlers
\* are not waited for, and nothing is reconciled a last time.
Shutdown ==
  /\ phase = "up" /\ phase' = "closing"
  /\ UNCHANGED <<starts, memVars, pc, lock, localVars, gen, prevPill, dbVars,
                 tmuxVars>>

\* main() returns: a clean exit, after which systemd does not restart.
Exit ==
  /\ phase = "closing" /\ phase' = "stopped"
  /\ Vanish

TmuxStart ==
  /\ ~tmux /\ tmux' = TRUE
  /\ UNCHANGED <<phase, starts, memVars, pc, lock, localVars, gen, prevPill,
                 dbVars, optGen, optPill, missed, misread>>

\* The last tmux session ends, and with it the server and its options.
TmuxExit ==
  /\ tmux /\ tmux' = FALSE
  /\ optGen' = 0 /\ optPill' = NoPills /\ missed' = Tool /\ misread' = FALSE
  /\ UNCHANGED <<phase, starts, memVars, pc, lock, localVars, gen, prevPill,
                 dbVars>>

Next ==
  \/ \E p \in Proc : Acquire(p) \/ HolderStep(p)
  \/ \E p \in Proc, t \in Tool : Mutate(p, t)
  \/ FetchInitial
  \/ Start \/ Crash \/ Shutdown \/ Exit
  \/ TmuxStart \/ TmuxExit

Spec == Init /\ [][Next]_vars

\* A goroutine goes on until it returns, since SQLite and tmux answer;
\* sync.Mutex does not starve a waiter; systemd restarts a server that failed
\* (Restart=on-failure), not one that returned.
Fairness ==
  /\ \A p \in Proc : SF_vars(Acquire(p)) /\ WF_vars(HolderStep(p))
  /\ WF_vars(phase = "down" /\ Start)

FairSpec == Spec /\ Fairness

-----------------------------------------------------------------------------
(* Properties.                                                             *)

TypeOK ==
  /\ phase \in {"starting", "up", "closing", "down", "stopped"}
  /\ starts \in Nat
  /\ store \in [Tool -> SUBSET Row]
  /\ ver \in [Tool -> Nat] /\ owed \in [Tool -> Nat]
  /\ pc \in [Proc -> PC] /\ lock \in Proc \union {NoProc}
  /\ allPanes \in [Proc -> SUBSET Row] /\ seenVer \in [Proc -> [Tool -> Nat]]
  /\ pills \in [Proc -> [Tool -> Pill \union {NoPill}]]
  /\ todo \in [Proc -> SUBSET Tool]
  /\ gen \in Nat /\ prevPill \in [Tool -> Pill \union {NoPill}]
  /\ panes \in SUBSET Row
  /\ names \in [Tool -> [Sid -> Name \union {NoName}]]
  /\ shownVer \in [Tool -> Nat] /\ shownPill \in [Tool -> Pill \union {NoPill}]
  /\ lostWrite \in BOOLEAN
  /\ tmux \in BOOLEAN /\ optGen \in Nat
  /\ optPill \in [Tool -> Pill \union {NoPill}]
  /\ missed \subseteq Tool /\ misread \in BOOLEAN

\* What is shown are these rows: every target has a row, and every row is one
\* of them but for a title taken from the cache.
SameButTitles(shown, rows) ==
  /\ \A r \in rows : \E q \in shown : q.target = r.target
  /\ \A q \in shown : \E r \in rows : q = [r EXCEPT !.name = q.name]

DatabaseShows(rows) == SameButTitles(panes, rows)

AllReturned == \A p \in Proc : pc[p] = "idle"

\* However mutations and reconciliations interleave, and although the stores
\* are read one after the other without a common lock: when the last
\* Reconcile() has returned and its write succeeded, the panes table has every
\* mutation that a Reconcile() was called for, and if nothing was stored
\* without one since, it shows what the stores hold.
QuiescentFresh ==
  phase = "up" /\ AllReturned /\ ~lostWrite =>
    /\ \A t \in Tool : shownVer[t] >= owed[t]
    /\ shownVer = ver => DatabaseShows(AllRows)

\* The same of the status line.  An unchanged pill is not set again (prevPill,
\* which is brought forward whether set-option succeeds or not), and yet a
\* pill option is out of date only if the last set-option of that very pill
\* has failed or the tmux server it was set on has gone: no other pill that
\* changes, fails or stays the same has a part in it.
QuiescentPills ==
  phase = "up" /\ AllReturned /\ ~lostWrite =>
    \A t \in Tool \ missed :
      shownVer[t] = ver[t] => optPill[t] = ComputePill(store[t], t)

\* prevPill is what the next reconciliation compares with.  A snapshot that
\* could not be committed leaves it alone, so that the change it found is
\* found again: outside the loop over the pills, prevPill never has a pill
\* other than the committed snapshot's.
PrevPillOfSnapshot ==
  (\A p \in Proc : pc[p] \notin {"pills", "gen"})
    => \A t \in Tool : prevPill[t] \in {NoPill, shownPill[t]}

\* A reader that polls @agents-gen sees the new value only when the pills,
\* and before them the database, are those of the snapshot it announces, but
\* for a pill whose set-option failed or went with its tmux server.
GenAnnouncesSnapshot ==
  [][optGen' > optGen
       => \A t \in Tool \ missed : optPill[t] = shownPill[t]]_vars

\* As long as one tmux server lives, @agents-gen never goes back, not even
\* over a crash and restart of the server process: the picker tests for
\* inequality only, and a repeated value would hide a change.  The exception
\* is the first value after a start that could not read the option.
GenMonotonic ==
  [][tmux /\ tmux' /\ ~misread => optGen' >= optGen]_vars

\* A title that was once stored is shown again: as long as lookups succeed, a
\* commit never shows a session of the cache without a title, also after a
\* restart that emptied the stores.  (Of two rows with one session, which two
\* OpenCode instances may show, the first may miss the title of the second,
\* and the second may be lost to another row of its target.)
TitledSessionsStayTitled ==
  [][panes' # panes =>
       \A p \in Proc : pc[p] = "write" =>
         \A r \in panes' :
           /\ r.sid # NoSid /\ r.name = NoName
           /\ SameSession(allPanes[p], r.tool, r.sid) = {r}
           => names[r.tool][r.sid] = NoName]_vars

\* What the database promises to its readers: it shows versions of the stores
\* that existed, and it never goes back to an older one.
Published == INSTANCE Publication
               WITH Store <- Tool, current <- ver, shown <- shownVer
PublicationSpec == Published!Spec

\* Every mutation that a Reconcile() follows is published, possibly by that of
\* another goroutine, unless the server is being stopped; a crash delays it
\* until the restart, whose own reconciliation publishes the stores anew.
MutationsPublished ==
  \A t \in Tool : \A n \in 1 .. (MaxVersion + MaxStarts) :
    (phase = "up" /\ owed[t] >= n)
      ~> \/ shownVer[t] >= n
         \/ phase \in {"closing", "stopped"}
         \/ phase = "down" /\ starts = MaxStarts

\* Nobody waits for r.mu for ever: every Reconcile() returns.
ReconcileReturns == \A p \in Proc : pc[p] = "owes" ~> pc[p] = "idle"
=============================================================================
