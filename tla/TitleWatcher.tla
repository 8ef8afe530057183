---------------------------- MODULE TitleWatcher ----------------------------
(***************************************************************************)
(* How the titles of Claude sessions get from their transcripts into the   *)
(* store.                                                                  *)
(*                                                                         *)
(* A title is a line of the transcript.  Two readers look for it: when     *)
(* main() or the pane scanner brings a session in, ScanSessionTitle reads  *)
(* the whole file, once; afterwards the watcher reads its last lines, each *)
(* time the file system tells of a write.  The watcher is not told of      *)
(* writes to a directory it does not watch yet, and it ignores those to    *)
(* sessions that are not tracked.  Both readers read first and store what  *)
(* they have read later.                                                   *)
(***************************************************************************)
EXTENDS Naturals, Sequences

CONSTANTS
  Sid,         \* Claude sessions, each with a project directory of its own
  Window,      \* how many of the last lines the watcher looks at (5)
  MaxTitle,    \* bound: number of titles of a session
  MaxLines,    \* bound: length of a transcript
  MaxStarts    \* bound: number of times the server starts

ASSUME BoundAssumption ==
  Window \in Nat \ {0} /\ MaxTitle \in Nat /\ MaxLines \in Nat
    /\ MaxStarts \in Nat

VARIABLES
  dirs,        \* project directories that exist
  file,        \* file[s]: lines of the transcript: title k, or 0
  phase,       \* of the server: down, recovering, up
  starts,      \* how often it was started
  todo,        \* recovered sessions main() has not yet read a title of
  watching,    \* does the title watcher run? (not without a projects directory)
  watched,     \* directories it watches
  events,      \* what the file system has to tell it, in order
  tracked,     \* sessions in the store
  name,        \* name[s]: the title there, 0 for none
  watcher,     \* what the watcher goroutine is doing
  reader,      \* what main(), and later the pane scanner, is doing
  watchDue,    \* watchDue[s]: last title written for the watcher (history)
  scanDue      \* scanDue[s]: last title before s was brought in (history)

agentVars == <<dirs, file>>
procVars  == <<phase, starts, todo, watching>>
due       == <<watchDue, scanDue>>
vars      == <<agentVars, procVars, watched, events, tracked, name, watcher,
               reader, due>>

Idle == <<"idle">>

\* A title with none after it.
IsLast(lines, k) ==
  lines[k] # 0 /\ \A j \in DOMAIN lines : j > k => lines[j] = 0

LastTitle(lines) ==
  IF \E k \in DOMAIN lines : IsLast(lines, k)
    THEN lines[CHOOSE k \in DOMAIN lines : IsLast(lines, k)]
    ELSE 0

LastLines(lines) ==
  IF Len(lines) <= Window THEN lines
  ELSE SubSeq(lines, Len(lines) - Window + 1, Len(lines))

Zero == [s \in Sid |-> 0]

Init ==
  /\ dirs \in SUBSET Sid /\ file = [s \in Sid |-> <<>>]
  /\ phase = "down" /\ starts = 0 /\ todo = {} /\ watching = FALSE
  /\ watched = {} /\ events = <<>>
  /\ tracked = {} /\ name = Zero
  /\ watcher = Idle /\ reader = Idle
  /\ watchDue = Zero /\ scanDue = Zero

-----------------------------------------------------------------------------
(* Claude Code writes transcripts; inotify tells of it and does not repeat *)
(* what is still queued.                                                   *)

Tell(e) ==
  events' = IF \E k \in DOMAIN events : events[k] = e THEN events
            ELSE Append(events, e)

Mkdir(s) ==
  /\ s \notin dirs /\ dirs' = dirs \union {s}
  /\ IF watching THEN Tell(<<"dir", s>>) ELSE UNCHANGED events
  /\ UNCHANGED <<file, procVars, watched, tracked, name, watcher, reader, due>>

\* A write is due to be seen when the directory is watched and the session
\* is tracked.
Write(s, x) ==
  /\ s \in dirs /\ Len(file[s]) < MaxLines
  /\ file' = [file EXCEPT ![s] = Append(@, x)]
  /\ IF s \in watched THEN Tell(<<"write", s>>) ELSE UNCHANGED events
  /\ watchDue' = IF x # 0 /\ s \in watched \intersect tracked
                   THEN [watchDue EXCEPT ![s] = x] ELSE watchDue
  /\ UNCHANGED <<dirs, procVars, watched, tracked, name, watcher, reader,
                 scanDue>>

WriteTitle(s) ==
  LastTitle(file[s]) < MaxTitle /\ Write(s, LastTitle(file[s]) + 1)

WriteOther(s) == Write(s, 0)

-----------------------------------------------------------------------------
(* The store of the sessions.                                              *)

UpdateNameAny(s, t) == name' = [name EXCEPT ![s] = t]

UpdateName(s, t) ==
  name' = IF s \in tracked THEN [name EXCEPT ![s] = t] ELSE name

\* What is due and newer than what the other reader stores is overwritten,
\* and not due any more.
Overwritten(d, r) == [d EXCEPT ![r[2]] = IF @ > r[3] THEN 0 ELSE @]

SessionStartAfresh(s) ==
  /\ phase = "up"
  /\ tracked' = tracked \union {s} /\ name' = [name EXCEPT ![s] = 0]
  /\ UNCHANGED <<agentVars, procVars, watched, events, watcher, reader, due>>

\* SessionStart: a known session keeps its title, a new one has none.
SessionStart(s) ==
  /\ phase = "up" /\ s \notin tracked
  /\ tracked' = tracked \union {s} /\ name' = [name EXCEPT ![s] = 0]
  /\ UNCHANGED <<agentVars, procVars, watched, events, watcher, reader, due>>

\* SessionEnd, or OnPaneGone.
Remove(s) ==
  /\ phase = "up" /\ s \in tracked
  /\ tracked' = tracked \ {s}
  /\ name' = [name EXCEPT ![s] = 0]
  /\ watchDue' = [watchDue EXCEPT ![s] = 0]
  /\ scanDue' = [scanDue EXCEPT ![s] = 0]
  /\ UNCHANGED <<agentVars, procVars, watched, events, watcher, reader>>

-----------------------------------------------------------------------------
(* main() and the pane scanner: ScanSessionTitle, then UpdateName.         *)

\* ScanActiveSessions registers the sessions whose process lives.
Start(live) ==
  /\ phase = "down" /\ starts < MaxStarts
  /\ phase' = "recovering" /\ starts' = starts + 1
  /\ tracked' = live /\ todo' = live /\ name' = Zero
  /\ scanDue' = [s \in Sid |-> IF s \in live THEN LastTitle(file[s]) ELSE 0]
  /\ UNCHANGED <<agentVars, watching, watched, events, watcher, reader,
                 watchDue>>

RecoverTitle(s) ==
  /\ phase = "recovering" /\ reader = Idle /\ s \in todo
  /\ todo' = todo \ {s} /\ reader' = <<"read", s>>
  /\ UNCHANGED <<agentVars, phase, starts, watching, watched, events, tracked,
                 name, watcher, due>>

\* WatchTitles, after the titles were read: without ~/.claude/projects there
\* is no watcher, for as long as the server runs.
WatchTitles ==
  /\ phase = "recovering" /\ reader = Idle /\ todo = {}
  /\ phase' = "up"
  /\ watching' = (dirs # {}) /\ watched' = dirs
  /\ UNCHANGED <<agentVars, starts, todo, events, tracked, name, watcher,
                 reader, due>>

\* OnClaudeDiscovered: Get, Register, ScanSessionTitle, UpdateName.
Discover(s) ==
  /\ phase = "up" /\ reader = Idle /\ s \notin tracked
  /\ reader' = <<"register", s>>
  /\ UNCHANGED <<agentVars, procVars, watched, events, tracked, name, watcher,
                 due>>

RegisterFound ==
  /\ reader[1] = "register"
  /\ LET s == reader[2] IN
     /\ tracked' = tracked \union {s}
     /\ scanDue' = [scanDue EXCEPT ![s] = LastTitle(file[s])]
     /\ reader' = <<"read", s>>
  /\ UNCHANGED <<agentVars, procVars, watched, events, name, watcher, watchDue>>

ScanLastLines ==
  /\ reader[1] = "read"
  /\ LET t == LastTitle(LastLines(file[reader[2]]))
     IN reader' = IF t = 0 THEN Idle ELSE <<"update", reader[2], t>>
  /\ UNCHANGED <<agentVars, procVars, watched, events, tracked, name, watcher,
                 due>>

ScanSessionTitle ==
  /\ reader[1] = "read"
  /\ LET t == LastTitle(file[reader[2]])
     IN reader' = IF t = 0 THEN Idle ELSE <<"update", reader[2], t>>
  /\ UNCHANGED <<agentVars, procVars, watched, events, tracked, name, watcher,
                 due>>

StoreFound ==
  /\ reader[1] = "update"
  /\ UpdateName(reader[2], reader[3]) /\ reader' = Idle
  /\ watchDue' = Overwritten(watchDue, reader)
  /\ UNCHANGED <<agentVars, procVars, watched, events, tracked, watcher,
                 scanDue>>

ReaderStep ==
  \/ \E s \in Sid : RecoverTitle(s)
  \/ WatchTitles \/ RegisterFound \/ ScanSessionTitle \/ StoreFound

-----------------------------------------------------------------------------
(* The title watcher.                                                      *)

WatchDir ==
  /\ watching /\ watcher = Idle
  /\ events # <<>> /\ Head(events)[1] = "dir"
  /\ events' = Tail(events)
  /\ watched' = watched \union {Head(events)[2]}
  /\ UNCHANGED <<agentVars, procVars, tracked, name, watcher, reader, due>>

\* handleJSONLChange: only tracked sessions matter.
TakeWrite ==
  /\ watching /\ watcher = Idle
  /\ events # <<>> /\ Head(events)[1] = "write"
  /\ events' = Tail(events)
  /\ watcher' = IF Head(events)[2] \in tracked
                  THEN <<"read", Head(events)[2]>> ELSE Idle
  /\ UNCHANGED <<agentVars, procVars, watched, tracked, name, reader, due>>

ReadUnlessNamed ==
  /\ watcher[1] = "read"
  /\ LET t == LastTitle(LastLines(file[watcher[2]]))
     IN watcher' = IF t = 0 \/ name[watcher[2]] # 0 THEN Idle
                   ELSE <<"update", watcher[2], t>>
  /\ UNCHANGED <<agentVars, procVars, watched, events, tracked, name, reader,
                 due>>

ReadTail ==
  /\ watcher[1] = "read"
  /\ LET t == LastTitle(LastLines(file[watcher[2]]))
     IN watcher' = IF t = 0 THEN Idle ELSE <<"update", watcher[2], t>>
  /\ UNCHANGED <<agentVars, procVars, watched, events, tracked, name, reader,
                 due>>

StoreTitle ==
  /\ watcher[1] = "update"
  /\ UpdateName(watcher[2], watcher[3]) /\ watcher' = Idle
  /\ scanDue' = Overwritten(scanDue, watcher)
  /\ UNCHANGED <<agentVars, procVars, watched, events, tracked, reader,
                 watchDue>>

WatcherStep == WatchDir \/ TakeWrite \/ ReadTail \/ StoreTitle

Crash ==
  /\ phase # "down" /\ phase' = "down"
  /\ todo' = {} /\ watching' = FALSE /\ watched' = {} /\ events' = <<>>
  /\ tracked' = {} /\ name' = Zero /\ watcher' = Idle /\ reader' = Idle
  /\ watchDue' = Zero /\ scanDue' = Zero
  /\ UNCHANGED <<agentVars, starts>>

Next ==
  \/ \E s \in Sid : Mkdir(s) \/ WriteTitle(s) \/ WriteOther(s)
  \/ \E s \in Sid : SessionStart(s) \/ Remove(s) \/ Discover(s)
  \/ \E live \in SUBSET Sid : Start(live)
  \/ ReaderStep \/ WatcherStep \/ Crash

\* The goroutines run, and the queue of file system events is in order.
Spec == Init /\ [][Next]_vars /\ WF_vars(ReaderStep) /\ WF_vars(WatcherStep)

-----------------------------------------------------------------------------
Doing == {Idle} \union ({"register", "read"} \X Sid)
           \union ({"update"} \X Sid \X (1 .. MaxTitle))

\* Every variable keeps its type; while the server is down or recovering the
\* watcher does nothing, and sessions that are not tracked have no title.
TypeOK ==
  /\ dirs \subseteq Sid /\ watched \subseteq dirs
  /\ \A s \in Sid : file[s] \in Seq(0 .. MaxTitle) /\ Len(file[s]) <= MaxLines
  /\ phase \in {"down", "recovering", "up"} /\ starts \in 0 .. MaxStarts
  /\ tracked \subseteq Sid /\ todo \subseteq tracked
  /\ watching \in BOOLEAN
  /\ watching => phase = "up"
  /\ ~watching => watcher = Idle /\ events = <<>>
  /\ \A k \in DOMAIN events : events[k] \in {"dir", "write"} \X Sid
  /\ name \in [Sid -> 0 .. MaxTitle]
  /\ \A s \in Sid \ tracked : name[s] = 0
  /\ watcher \in Doing /\ reader \in Doing
  /\ watchDue \in [Sid -> 0 .. MaxTitle] /\ scanDue \in [Sid -> 0 .. MaxTitle]

\* A title that is written to the transcript of a tracked session in a
\* watched directory is stored, or a later one is, unless the agent writes
\* a whole window of lines after it before the watcher reads, or the scanner
\* stores what it read before (handleJSONLChange).
Outrun(s, n) ==
  \A k \in DOMAIN LastLines(file[s]) : LastLines(file[s])[k] < n

RenamesSeen ==
  \A s \in Sid : \A n \in 1 .. MaxTitle :
    watchDue[s] >= n ~> name[s] >= n \/ watchDue[s] < n \/ Outrun(s, n)

\* The title that a session has when main() or the scanner brings it in is
\* stored, or a later one is, however far up in the transcript it is, unless
\* the watcher stores what it read of the session before it was removed and
\* brought in again (ScanSessionTitle).
TitlesFound ==
  \A s \in Sid : \A n \in 1 .. MaxTitle :
    scanDue[s] >= n ~> name[s] >= n \/ scanDue[s] < n

\* The title of a tracked session goes back to an older one only if the
\* scanner stores what it had read before a rename, or if a write that
\* the watcher has yet to look at is queued.
TitleNeverGoesBack ==
  [][\A s \in tracked \intersect tracked' : name'[s] < name[s] =>
       \/ reader[1] = "update" /\ reader[2] = s
       \/ \E k \in DOMAIN events : events[k] = <<"write", s>>]_vars

=============================================================================
