----------------------------- MODULE PickerWatch -----------------------------
(***************************************************************************)
(* Navigator pickers that follow the state of the server.                  *)
(*                                                                         *)
(* A picker reads the panes table once and gives the rows to fzf.  Beside  *)
(* it a background loop polls @agents-gen, and posts to the port that fzf  *)
(* listens on, which runs the script again to reload the rows.  The port   *)
(* depends on the user only: of two pickers the second ends, but while it  *)
(* starts its loop posts to the first one, and asks for rows as wide as    *)
(* its own pane.  The server commits a table and then announces it; tables *)
(* whose pills do not differ are not announced.                            *)
(***************************************************************************)
EXTENDS Integers, Sequences, ColumnBudget

CONSTANTS
  Picker, Nobody,    \* runs of _navigator_picker.sh; none of them
  Cols,              \* widths a pane may have
  MaxVersion,        \* bound: number of tables the server commits
  MaxToggles         \* bound: times the user changes the view

ASSUME NobodyAssumption == Nobody \notin Picker
ASSUME ColsAssumption == Cols \subseteq Nat /\ Cols # {}
ASSUME BoundAssumption == MaxVersion \in Nat /\ MaxToggles \in Nat

VARIABLES
  version,           \* the tables that were committed are 0 .. version
  empty,             \* has the table no rows?
  writing,           \* is a commit under way? (readers may be locked out)
  unannounced,       \* was a table committed that is to be announced?
  gen,               \* @agents-gen
  owner,             \* whose fzf listens on the port
  pc,                \* of the script: closed, starting, open
  cols,              \* COLS, measured once (0 while closed)
  view,              \* what fzf shows: the view, the width it was laid out for,
                     \* the table it was read from (-1: it could not be read)
  loop,              \* _state_watcher: off, first, sleep, or post
  lastGen,           \* its last_gen
  reload,            \* the reload of fzf: <<>>, <<view, width>>, or with the
                     \* table that it has read
  toggles,
  visited,           \* pickers that another one has posted to (history)
  due                \* last table announced while p watched, or -1 (history)

serverVars == <<version, empty, writing, unannounced, gen>>
loopVars   == <<loop, lastGen>>
fzfVars    == <<owner, view, reload>>
pickVars   == <<pc, cols, toggles, visited>>
vars == <<serverVars, fzfVars, pickVars, loopVars, due>>

Views == {"active", "recent"}

Init ==
  /\ version = 0 /\ empty = FALSE /\ writing = FALSE
  /\ unannounced = FALSE /\ gen = 0
  /\ owner = Nobody /\ pc = [p \in Picker |-> "closed"]
  /\ cols = [p \in Picker |-> 0]
  /\ view = [p \in Picker |-> <<"active", 0, 0>>]
  /\ loop = [p \in Picker |-> "off"] /\ lastGen = [p \in Picker |-> 0]
  /\ reload = [p \in Picker |-> <<>>]
  /\ toggles = 0 /\ visited = {} /\ due = [p \in Picker |-> -1]

-----------------------------------------------------------------------------
(* The server: WriteSnapshot, then set-option of the pills and @agents-gen. *)

\* An open picker whose loop has read a generation owes its user this table.
Watches(p) == pc[p] = "open" /\ loop[p] \notin {"off", "first"}

AnnounceAndCommit ==
  /\ ~writing /\ ~unannounced /\ version < MaxVersion
  /\ writing' = TRUE /\ gen' = gen + 1
  /\ due' = [p \in Picker |-> IF Watches(p) THEN version + 1 ELSE due[p]]
  /\ UNCHANGED <<version, empty, unannounced, fzfVars, pickVars, loopVars>>

BeginCommit ==
  /\ ~writing /\ ~unannounced /\ version < MaxVersion
  /\ writing' = TRUE
  /\ UNCHANGED <<version, empty, unannounced, gen, fzfVars, pickVars, loopVars,
                 due>>

Commit ==
  /\ writing /\ writing' = FALSE
  /\ version' = version + 1
  /\ empty' \in BOOLEAN /\ unannounced' \in BOOLEAN
  /\ UNCHANGED <<gen, fzfVars, pickVars, loopVars, due>>

Announce ==
  /\ unannounced /\ unannounced' = FALSE
  /\ gen' = gen + 1
  /\ due' = [p \in Picker |-> IF Watches(p) THEN version ELSE due[p]]
  /\ UNCHANGED <<version, empty, writing, fzfVars, pickVars, loopVars>>

ServerDies ==
  /\ writing \/ unannounced
  /\ writing' = FALSE /\ unannounced' = FALSE
  /\ UNCHANGED <<version, empty, gen, fzfVars, pickVars, loopVars, due>>

-----------------------------------------------------------------------------
(* The script, fzf and the user.                                           *)

\* Without rows there is only a message that the user closes.
Open(p) ==
  /\ pc[p] = "closed" /\ ~empty
  /\ pc' = [pc EXCEPT ![p] = "starting"]
  /\ \E c \in Cols :
       /\ cols' = [cols EXCEPT ![p] = c]
       /\ view' = [view EXCEPT ![p] = <<"active", c, version>>]
  /\ loop' = [loop EXCEPT ![p] = "first"]
  /\ UNCHANGED <<serverVars, owner, lastGen, reload, toggles, visited, due>>

\* The user leaves, or selects a row; cleanup() kills the loop.
Close(p) ==
  /\ pc' = [pc EXCEPT ![p] = "closed"]
  /\ cols' = [cols EXCEPT ![p] = 0]
  /\ owner' = IF owner = p THEN Nobody ELSE owner
  /\ view' = [view EXCEPT ![p] = <<"active", 0, 0>>]
  /\ reload' = [reload EXCEPT ![p] = <<>>]
  /\ loop' = [loop EXCEPT ![p] = "off"]
  /\ lastGen' = [lastGen EXCEPT ![p] = 0]
  /\ visited' = visited \ {p} /\ due' = [due EXCEPT ![p] = -1]
  /\ UNCHANGED <<serverVars, toggles>>

ListenAnyway(p) ==
  /\ pc[p] = "starting"
  /\ owner' = p /\ pc' = [pc EXCEPT ![p] = "open"]
  /\ UNCHANGED <<serverVars, view, reload, cols, toggles, visited, loopVars,
                 due>>

Listen(p) ==
  /\ pc[p] = "starting" /\ owner = Nobody
  /\ owner' = p /\ pc' = [pc EXCEPT ![p] = "open"]
  /\ UNCHANGED <<serverVars, view, reload, cols, toggles, visited, loopVars,
                 due>>

\* fzf cannot listen on a port that is taken: it fails, and the script ends.
PortTaken(p) == pc[p] = "starting" /\ owner # Nobody /\ Close(p)

Quit(p) == pc[p] = "open" /\ Close(p)

\* The arrow keys.  A reload replaces one that is under way.
Toggle(p, m) ==
  /\ pc[p] = "open" /\ toggles < MaxToggles /\ toggles' = toggles + 1
  /\ reload' = [reload EXCEPT ![p] = <<m, cols[p]>>]
  /\ UNCHANGED <<serverVars, owner, view, pc, cols, visited, loopVars, due>>

\* The reload runs the script, which reads the table and writes its rows.
LoadRows(p) ==
  /\ Len(reload[p]) = 2
  /\ reload' = [reload EXCEPT ![p] = <<@[1], @[2], version>>]
  /\ UNCHANGED <<serverVars, owner, view, pickVars, loopVars, due>>

\* A reader that is locked out by a commit takes the error for no rows.
LoadNothing(p) ==
  /\ Len(reload[p]) = 2 /\ writing
  /\ reload' = [reload EXCEPT ![p] = <<@[1], @[2], -1>>]
  /\ due' = [due EXCEPT ![p] = -1]
  /\ UNCHANGED <<serverVars, owner, view, pickVars, loopVars>>

ShowRows(p) ==
  /\ Len(reload[p]) = 3
  /\ view' = [view EXCEPT ![p] = reload[p]]
  /\ reload' = [reload EXCEPT ![p] = <<>>]
  /\ UNCHANGED <<serverVars, owner, pickVars, loopVars, due>>

FzfStep(p) ==
  Listen(p) \/ PortTaken(p) \/ LoadRows(p) \/ LoadNothing(p) \/ ShowRows(p)

-----------------------------------------------------------------------------
(* _state_watcher: the loop beside fzf.                                    *)

FirstRead(p) ==
  /\ loop[p] = "first"
  /\ lastGen' = [lastGen EXCEPT ![p] = gen]
  /\ loop' = [loop EXCEPT ![p] = "sleep"]
  /\ UNCHANGED <<serverVars, fzfVars, pickVars, due>>

PollActive(p) ==
  /\ loop[p] = "sleep" /\ gen # lastGen[p]
  /\ lastGen' = [lastGen EXCEPT ![p] = gen]
  /\ loop' = [loop EXCEPT ![p] =
                IF view[p][1] = "recent" THEN "sleep" ELSE "post"]
  /\ UNCHANGED <<serverVars, fzfVars, pickVars, due>>

Poll(p) ==
  /\ loop[p] = "sleep" /\ gen # lastGen[p]
  /\ lastGen' = [lastGen EXCEPT ![p] = gen]
  /\ loop' = [loop EXCEPT ![p] = "post"]
  /\ UNCHANGED <<serverVars, fzfVars, pickVars, due>>

\* To whoever listens on the port; when nobody does the reload is lost.  The
\* mode file has no newline, so that `read' fails on it and the active view
\* is posted whatever it says.
Post(p) ==
  /\ loop[p] = "post"
  /\ IF owner = Nobody THEN UNCHANGED reload
     ELSE reload' = [reload EXCEPT ![owner] = <<"active", cols[p]>>]
  /\ visited' = IF owner \in {p, Nobody} THEN visited
                ELSE visited \union {owner}
  /\ loop' = [loop EXCEPT ![p] = "sleep"]
  /\ UNCHANGED <<serverVars, owner, view, pc, cols, toggles, lastGen, due>>

LoopStep(p) == FirstRead(p) \/ Poll(p) \/ Post(p)

Next ==
  \/ BeginCommit \/ Commit \/ Announce \/ ServerDies
  \/ \E p \in Picker :
       \/ Open(p) \/ Quit(p) \/ FzfStep(p) \/ LoopStep(p)
       \/ \E m \in Views : Toggle(p, m)

\* The processes of the picker run.
Spec ==
  /\ Init /\ [][Next]_vars
  /\ \A p \in Picker : WF_vars(FzfStep(p)) /\ WF_vars(LoopStep(p))

-----------------------------------------------------------------------------
Width == Cols \union {0}

Shown == Views \X Width \X (Nat \union {-1})

Reloads == {<<>>} \union (Views \X Width) \union Shown

\* Every variable keeps its type, and the picker whose fzf listens is open.
TypeOK ==
  /\ version \in Nat /\ empty \in BOOLEAN /\ writing \in BOOLEAN
  /\ unannounced \in BOOLEAN /\ gen \in Nat /\ toggles \in Nat
  /\ owner \in Picker \union {Nobody}
  /\ pc \in [Picker -> {"closed", "starting", "open"}]
  /\ \A p \in Picker : pc[p] = "open" <=> owner = p
  /\ cols \in [Picker -> Width] /\ visited \subseteq Picker
  /\ view \in [Picker -> Shown] /\ reload \in [Picker -> Reloads]
  /\ loop \in [Picker -> {"off", "first", "sleep", "post"}]
  /\ lastGen \in [Picker -> Nat]
  /\ due \in [Picker -> Nat \union {-1}]

\* When the loop of a picker has seen the last generation and no reload is
\* under way, fzf shows a table as new as the last one announced to it: no
\* announcement is missed, also with a second picker that posts to the same
\* port, toggles that replace a reload, and generations skipped while the
\* loop slept or posted (_state_watcher).
QuietIsCurrent ==
  \A p \in Picker :
    Watches(p) /\ loop[p] = "sleep" /\ lastGen[p] = gen /\ reload[p] = <<>>
      => due[p] <= view[p][3]

\* And every table that is announced is shown, or a later one, unless the
\* picker is closed or a commit locks the reload out.
ChangesShown ==
  \A p \in Picker : \A n \in 1 .. MaxVersion :
    due[p] >= n ~> view[p][3] >= n \/ due[p] < n

\* The rows of a picker are not wider than its pane, and every column has
\* room for the dots of a title that was cut; unless they were asked for by
\* the loop of another picker, whose pane may be wider.
LayoutHolds ==
  \A p \in Picker \ visited :
    /\ cols[p] >= 40 => RowWidth(view[p][2]) <= cols[p]
    /\ Readable(view[p][2])

=============================================================================
