-------------------------- MODULE ClaudeTracking ---------------------------
(***************************************************************************)
(* How the server keeps track of which Claude Code session runs in which   *)
(* tmux pane, and in which state it is.                                    *)
(*                                                                         *)
(* Three sources tell it, each with a delay of its own:                    *)
(*   - the wrapper's pre-registration, a request sent in the background    *)
(*     just before claude is started, with the pane and the directory;     *)
(*   - the hooks of claude, asynchronous requests with the session id and  *)
(*     the directory, but without the pane;                                *)
(*   - the pane scanner, which lists the panes, finds the session of a     *)
(*     pane in ~/.claude/sessions, and prunes what is no longer listed.    *)
(* They meet in claude.Store, every call of which is atomic; the sequences *)
(* of calls are not.  The server may crash and be started again at any     *)
(* point; requests sent while it is down are lost.                         *)
(*                                                                         *)
(* Every change of the store is followed by Reconcile(), which is the      *)
(* subject of module Reconciler and left out here.                         *)
(***************************************************************************)
EXTENDS ClaudeStore, FiniteSets

CONSTANTS
  NoSid,                \* no session
  CwdOf,                \* CwdOf[w]: the directory claude is started in at w
  MayKill,              \* may a claude end without a SessionEnd hook?
  MayResume,            \* may a session be continued by a second process?
  SidsAt,               \* bound: SidsAt[w]: the sessions started in w
  MaxLaunches,          \* bound: number of claude processes started
  OtherPanes,           \* bound: the panes in which opencode is started
  MaxOthers,            \* bound: how often in each of them
  MaxReports,           \* bound: number of hooks other than start and end
  MaxPending,           \* bound: no registration is sent when so many pend
  MaxStarts             \* bound: number of server processes ever started

ASSUME NoSidAssumption == NoSid \notin Sid

\* A map holds finitely many sessions; the ids that ever occur are as many.
ASSUME FiniteAssumption == IsFiniteSet(Sid)

ASSUME CwdAssumption == CwdOf \in [Target -> Cwd]

ASSUME EnvironmentAssumption ==
  /\ MayKill \in BOOLEAN /\ MayResume \in BOOLEAN
  /\ SidsAt \in [Target -> SUBSET Sid]
  /\ OtherPanes \subseteq Target /\ MaxOthers \in Nat
  /\ MaxLaunches \in Nat /\ MaxReports \in Nat
  /\ MaxPending \in Nat /\ MaxStarts \in Nat

VARIABLES
  agent,                \* agent[w]: the session of the claude in pane w
  status,               \* status[s]: what the agent of s is doing
  ran,                  \* which session has run in which pane (history)
  launches, reports,    \* how many launches and reports there have been
  opencode,             \* the panes that run opencode
  others,               \* others[w]: opencode processes ever started in w
  hooks,                \* hooks[s]: hook requests of s not yet handled
  misled,               \* sessions the server was not told the end of, or
                        \* not in time (history)
  regs,                 \* regs[w]: pre-registrations of w not yet handled
  up, starts,           \* is there a server? how many have there been?
  spc,                  \* where the pane scanner is
  listed,               \* panes that run an agent, says ListPanes
  todo,                 \* listed panes the scanner has yet to visit
  pane,                 \* the pane it is visiting
  found,                \* the session it has found there, or is to remove
  handle,               \* the session whose object Register has returned
                        \* to it, as long as the object is in the map
  gone                  \* gone[w]: how often the tracked targets that it
                        \* has yet to prune contain w

agentVars   == <<agent, status, ran, launches, reports, opencode, others>>
netVars     == <<hooks, misled, regs>>
serverVars  == <<up, starts>>
scannerVars == <<spc, listed, todo, pane, found, handle, gone>>
vars        == <<storeVars, agentVars, netVars, serverVars, scannerVars>>

Live == {agent[w] : w \in Target} \ {NoSid}

PaneOf(s) == CHOOSE w \in Target : agent[w] = s

Nothing == [w \in Target |-> 0]

SPC == {"idle", "visit", "find", "get", "assign", "register", "write",
        "prune", "remove"}

Init ==
  /\ StoreInit
  /\ agent = [w \in Target |-> NoSid] /\ status = [s \in Sid |-> "idle"]
  /\ ran = {} /\ launches = 0 /\ reports = 0
  /\ opencode = {} /\ others = Nothing
  /\ hooks = [s \in Sid |-> <<>>] /\ misled = {} /\ regs = Nothing
  /\ up = FALSE /\ starts = 0
  /\ spc = "idle" /\ listed = {} /\ todo = {}
  /\ pane = NoTarget /\ found = NoSid /\ handle = NoSid /\ gone = Nothing

-----------------------------------------------------------------------------
(* Claude Code in its panes, and the wrapper.                              *)

Working == {"running", "permission"}
Closing == {"idle", "end"}

\* A hook at a later place of the queue says that the agent is at rest.
Closes(s, i) ==
  \E j \in DOMAIN hooks[s] : j > i /\ hooks[s][j].event \in Closing

Post(s, event, w) ==
  /\ hooks' = [hooks EXCEPT ![s] =
                 Append(@, [event |-> event, cwd |-> CwdOf[w]])]
  /\ misled' = IF event \in Closing THEN misled \ {s} ELSE misled

\* Somebody starts claude in a pane, with or without a name.  With one, the
\* wrapper sends a registration in the background.  (Bound: not before the
\* previous one of this pane is handled.)
Launch(w, s, named) ==
  /\ agent[w] = NoSid /\ w \notin opencode /\ s \notin Live
  /\ launches < MaxLaunches
  /\ s \in SidsAt[w]
  /\ MayResume \/ \A v \in Target : <<s, v>> \notin ran
  /\ agent' = [agent EXCEPT ![w] = s] /\ status' = [status EXCEPT ![s] = "idle"]
  /\ ran' = ran \union {<<s, w>>} /\ launches' = launches + 1
  /\ Post(s, "start", w)
  /\ named => regs[w] = 0 /\ Len(pending) < MaxPending
  /\ regs' = IF named THEN [regs EXCEPT ![w] = @ + 1] ELSE regs
  /\ UNCHANGED <<storeVars, reports, opencode, others, serverVars, scannerVars>>

\* A hook that tells the state: UserPromptSubmit and PreToolUse (running),
\* PermissionRequest and Notification (permission), Stop (idle).
Report(w, st) ==
  /\ agent[w] # NoSid /\ reports < MaxReports
  /\ st = "permission" => status[agent[w]] = "running"
  /\ st = "idle" => status[agent[w]] # "idle"
  /\ status' = [status EXCEPT ![agent[w]] = st] /\ reports' = reports + 1
  /\ Post(agent[w], st, w)
  /\ UNCHANGED <<storeVars, agent, ran, launches, opencode, others, regs,
                 serverVars, scannerVars>>

Exit(w) ==
  /\ agent[w] # NoSid
  /\ agent' = [agent EXCEPT ![w] = NoSid]
  /\ Post(agent[w], "end", w)
  /\ UNCHANGED <<storeVars, status, ran, launches, reports, opencode, others,
                 regs, serverVars, scannerVars>>

\* The end of a claude that sends no hook any more.
Kill(w) ==
  /\ MayKill /\ agent[w] # NoSid
  /\ agent' = [agent EXCEPT ![w] = NoSid]
  /\ misled' = IF status[agent[w]] = "idle" THEN misled
                                            ELSE misled \union {agent[w]}
  /\ UNCHANGED <<storeVars, status, ran, launches, reports, opencode, others,
                 hooks, regs, serverVars, scannerVars>>

\* What the pane scanner takes for an agent, too.
StartOpenCode(w) ==
  /\ agent[w] = NoSid /\ w \in OtherPanes \ opencode /\ others[w] < MaxOthers
  /\ opencode' = opencode \union {w}
  /\ others' = [others EXCEPT ![w] = @ + 1]
  /\ UNCHANGED <<storeVars, agent, status, ran, launches, reports, netVars,
                 serverVars, scannerVars>>

EndOpenCode(w) ==
  /\ w \in opencode
  /\ opencode' = opencode \ {w}
  /\ UNCHANGED <<storeVars, agent, status, ran, launches, reports, others,
                 netVars, serverVars, scannerVars>>

-----------------------------------------------------------------------------
(* The HTTP handlers.                                                      *)

\* The last word of the agent, while an older report that it works is still
\* on its way.
Overtakes(s, i) ==
  /\ hooks[s][i].event \in Closing /\ ~Closes(s, i)
  /\ \E j \in 1 .. i - 1 : hooks[s][j].event \in Working

\* A hook is an asynchronous request of its own, handled in any order.
Take(s, i) ==
  /\ i \in DOMAIN hooks[s]
  /\ hooks' = [hooks EXCEPT ![s] = SE!RemoveAt(@, i)]
  /\ misled' = IF Overtakes(s, i) THEN misled \union {s} ELSE misled

SessionStart(s, i) ==
  /\ up /\ Take(s, i) /\ hooks[s][i].event = "start"
  /\ Register(s, hooks[s][i].cwd)
  /\ UNCHANGED <<agentVars, regs, serverVars, scannerVars>>

StateHook(s, i) ==
  /\ up /\ Take(s, i) /\ hooks[s][i].event \in State
  /\ SetState(s, hooks[s][i].event)
  /\ UNCHANGED <<agentVars, regs, serverVars, scannerVars>>

SessionEndIgnored(s, i) ==
  /\ up /\ Take(s, i) /\ hooks[s][i].event = "end"
  /\ UNCHANGED <<storeVars, agentVars, regs, serverVars, scannerVars>>

SessionEnd(s, i) ==
  /\ up /\ Take(s, i) /\ hooks[s][i].event = "end"
  /\ Remove(s)
  /\ handle' = IF handle = s THEN NoSid ELSE handle
  /\ UNCHANGED <<agentVars, regs, serverVars, spc, listed, todo, pane, found,
                 gone>>

\* handleRegister, for /claude/register.
PreRegister(w) ==
  /\ up /\ regs[w] > 0
  /\ regs' = [regs EXCEPT ![w] = @ - 1]
  /\ AddPending(w, CwdOf[w])
  /\ UNCHANGED <<agentVars, hooks, misled, serverVars, scannerVars>>

\* Nobody listens on the port.
Refuse ==
  /\ ~up
  /\ \/ \E s \in Sid : \E i \in DOMAIN hooks[s] : Take(s, i) /\ UNCHANGED regs
     \/ \E w \in Target : /\ regs[w] > 0 /\ regs' = [regs EXCEPT ![w] = @ - 1]
                          /\ UNCHANGED <<hooks, misled>>
  /\ UNCHANGED <<storeVars, agentVars, serverVars, scannerVars>>

\* The ticker that prunes stale registrations.
PrunePending ==
  /\ up
  /\ \E n \in DOMAIN pending : PruneStalePending(n)
  /\ UNCHANGED <<agentVars, netVars, serverVars, scannerVars>>

-----------------------------------------------------------------------------
(* The pane scanner: scanOnce, and the callbacks main() gives it.          *)

outside == <<agentVars, netVars, serverVars>>

\* On to the next pane.
Continue == spc' = "visit" /\ pane' = NoTarget /\ found' = NoSid

ListAllPanes ==
  /\ up /\ spc = "idle"
  /\ listed' = Target /\ todo' = {w \in Target : agent[w] # NoSid}
  /\ spc' = "visit"
  /\ UNCHANGED <<storeVars, outside, pane, found, handle, gone>>

\* The panes that run claude are visited; the instances of opencode are the
\* subject of module OpenCodeInstances.
ListPanes ==
  /\ up /\ spc = "idle"
  /\ todo' = {w \in Target : agent[w] # NoSid} /\ listed' = todo' \union opencode
  /\ spc' = "visit"
  /\ UNCHANGED <<storeVars, outside, pane, found, handle, gone>>

\* IsClaudeTracked: a pane at which a session is shown is left alone.
Visit(w) ==
  /\ up /\ spc = "visit" /\ w \in todo
  /\ todo' = todo \ {w}
  /\ IF TrackedAt(w) = {} THEN pane' = w /\ spc' = "find"
                          ELSE UNCHANGED <<pane, spc>>
  /\ UNCHANGED <<storeVars, outside, listed, found, handle, gone>>

\* FindClaudeSessionForPaneTree: the session file of the process that by now
\* runs in the pane.
Find ==
  /\ up /\ spc = "find"
  /\ IF agent[pane] = NoSid
       THEN Continue
       ELSE found' = agent[pane] /\ spc' = "get" /\ UNCHANGED pane
  /\ UNCHANGED <<storeVars, outside, listed, todo, handle, gone>>

GetNeverAssign ==
  /\ up /\ spc = "get"
  /\ IF Known(found) THEN Continue
                     ELSE spc' = "register" /\ UNCHANGED <<pane, found>>
  /\ UNCHANGED <<storeVars, outside, listed, todo, handle, gone>>

\* claudeStore.Get: a known session is given this pane if it has none, a
\* session that is not known will be registered.
Get ==
  /\ up /\ spc = "get"
  /\ \/ ~Known(found) /\ spc' = "register" /\ UNCHANGED <<pane, found>>
     \/ /\ Known(found) /\ sessions[found].target = NoTarget
        /\ spc' = "assign" /\ UNCHANGED <<pane, found>>
     \/ Known(found) /\ sessions[found].target # NoTarget /\ Continue
  /\ UNCHANGED <<storeVars, outside, listed, todo, handle, gone>>

Assign ==
  /\ up /\ spc = "assign"
  /\ SetPaneTarget(found, pane)
  /\ Continue
  /\ UNCHANGED <<outside, listed, todo, handle, gone>>

\* claudeStore.Register, which may claim a registration all the same.
RegisterFound ==
  /\ up /\ spc = "register"
  /\ Register(found, CwdOf[pane])
  /\ handle' = found /\ spc' = "write"
  /\ UNCHANGED <<outside, listed, todo, pane, found, gone>>

\* sess.PaneTarget = target: on the object, and without the lock.
WriteTarget ==
  /\ up /\ spc = "write"
  /\ sessions' = IF handle = NoSid THEN sessions
                 ELSE [sessions EXCEPT ![handle].target = pane]
  /\ handle' = NoSid /\ Continue
  /\ UNCHANGED <<pending, outside, listed, todo, gone>>

\* GetTrackedTargets: a target comes once for every session shown there, and
\* once for every opencode the server still knows of there.
TrackedTargets ==
  /\ up /\ spc = "visit" /\ todo = {}
  /\ \E more \in [Target -> 0 .. MaxOthers] :
       /\ \A w \in Target : more[w] <= others[w]
       /\ gone' = [w \in Target |->
                     IF w \in listed THEN 0
                                     ELSE Cardinality(TrackedAt(w)) + more[w]]
  /\ listed' = {} /\ spc' = "prune"
  /\ UNCHANGED <<storeVars, outside, todo, pane, found, handle>>

PaneGoneWithoutCheck(w) ==
  /\ up /\ spc = "prune"
  /\ gone' = [gone EXCEPT ![w] = @ - 1]
  /\ \/ TrackedAt(w) = {} /\ UNCHANGED <<found, spc>>
     \/ found' \in TrackedAt(w) /\ spc' = "remove"
  /\ UNCHANGED <<storeVars, outside, listed, todo, pane, handle>>

\* OnPaneGone: the first session of All() that is shown at the pane, be it
\* for an opencode that the pane is found to be gone; the order is that of a
\* Go map.
PaneGone(w) ==
  /\ up /\ spc = "prune" /\ gone[w] > 0
  /\ gone' = [gone EXCEPT ![w] = @ - 1]
  /\ \/ TrackedAt(w) = {} /\ UNCHANGED <<found, spc>>
     \/ found' \in TrackedAt(w) /\ spc' = "remove"
  /\ UNCHANGED <<storeVars, outside, listed, todo, pane, handle>>

RemoveGone ==
  /\ up /\ spc = "remove"
  /\ Remove(found)
  /\ spc' = "prune" /\ found' = NoSid
  /\ UNCHANGED <<outside, listed, todo, pane, handle, gone>>

ScanDone ==
  /\ up /\ spc = "prune" /\ gone = Nothing
  /\ spc' = "idle"
  /\ UNCHANGED <<storeVars, outside, listed, todo, pane, found, handle, gone>>

Scan ==
  \/ ListPanes \/ (\E w \in Target : Visit(w)) \/ Find \/ Get \/ Assign
  \/ RegisterFound \/ WriteTarget \/ TrackedTargets
  \/ (\E w \in Target : PaneGone(w)) \/ RemoveGone \/ ScanDone

-----------------------------------------------------------------------------
(* The server process.                                                     *)

\* ScanActiveSessions finds the session files of the live processes.
Start ==
  /\ ~up /\ starts < MaxStarts
  /\ up' = TRUE /\ starts' = starts + 1
  /\ Recover([s \in Live |-> CwdOf[PaneOf(s)]])
  /\ UNCHANGED <<agentVars, netVars, scannerVars>>

\* The end of the server, by whatever cause.  (Bound: not of the last one.)
Crash ==
  /\ up /\ starts < MaxStarts
  /\ up' = FALSE
  /\ sessions' = [s \in Sid |-> NoSession] /\ pending' = <<>>
  /\ spc' = "idle" /\ listed' = {} /\ todo' = {} /\ pane' = NoTarget
  /\ found' = NoSid /\ handle' = NoSid /\ gone' = Nothing
  /\ UNCHANGED <<agentVars, netVars, starts>>

Handle(s) ==
  \E i \in DOMAIN hooks[s] :
    SessionStart(s, i) \/ StateHook(s, i) \/ SessionEnd(s, i)

Next ==
  \/ \E w \in Target, s \in Sid, named \in BOOLEAN : Launch(w, s, named)
  \/ \E w \in Target, st \in {"running", "permission", "idle"} : Report(w, st)
  \/ \E w \in Target : Exit(w) \/ Kill(w) \/ PreRegister(w)
  \/ \E w \in Target : StartOpenCode(w) \/ EndOpenCode(w)
  \/ \E s \in Sid : Handle(s)
  \/ Refuse \/ PrunePending
  \/ Scan
  \/ Start \/ Crash

Spec == Init /\ [][Next]_vars

\* The ticker of the scanner goes on, and so does a scan; what is sent to the
\* server is handled or refused; systemd restarts a server that failed.
Fairness ==
  /\ WF_vars(Scan)
  /\ \A s \in Sid : WF_vars(Handle(s))
  /\ \A w \in Target : WF_vars(PreRegister(w))
  /\ WF_vars(Refuse) /\ WF_vars(Start)

FairSpec == Spec /\ Fairness

-----------------------------------------------------------------------------
(* Properties.                                                             *)

Hook == [event: {"start", "end"} \union State, cwd: Cwd]

TypeOK ==
  /\ StoreType
  /\ agent \in [Target -> Sid \union {NoSid}] /\ status \in [Sid -> State]
  /\ ran \subseteq Sid \X Target /\ launches \in Nat /\ reports \in Nat
  /\ opencode \subseteq Target /\ others \in [Target -> Nat]
  /\ hooks \in [Sid -> Seq(Hook)] /\ misled \subseteq Sid
  /\ regs \in [Target -> Nat]
  /\ up \in BOOLEAN /\ starts \in Nat
  /\ spc \in SPC /\ listed \subseteq Target /\ todo \subseteq Target
  /\ pane \in Target \union {NoTarget} /\ found \in Sid \union {NoSid}
  /\ handle \in Sid \union {NoSid} /\ gone \in [Target -> Nat]

\* The session has run in a pane that has this directory.
RanIn(s, cwd) == \E v \in Target : <<s, v>> \in ran /\ CwdOf[v] = cwd

\* A session is shown only at a pane in whose directory it has run: where the
\* panes have directories of their own, only at a pane it has run in.  The
\* hooks do not name the pane: the server gets it from a registration that
\* another claude may have sent, earlier or later, and from a scan that may
\* be out of date.
OwnDirectory ==
  \A s \in Sid, w \in Target : s \in TrackedAt(w) => RanIn(s, CwdOf[w])

\* When the hooks of an idle agent are handled, in whatever order, it is not
\* shown as one that works or waits, although the scanner may have removed
\* and registered it between two of them, and although it may be the
\* continuation of another.  Not so if the last word of the agent overtook an
\* older report, or if it was killed at work, until it is at rest again.
IdleIsNotBusy ==
  \A s \in Live \ misled :
    Known(s) /\ status[s] = "idle" /\ hooks[s] = <<>>
      => sessions[s].state \in {"idle", "unknown"}

\* Whatever is late, out of order or lost: nothing remains shown at a pane
\* that runs no agent any more.  (It may remain at one that runs opencode.)
DeadPanesPruned ==
  \A w \in Target :
    <>[](agent[w] = NoSid /\ w \notin opencode) => <>[](TrackedAt(w) = {})

\* A pane that goes on running claude ends up in the list, with or without
\* a registration, whatever hooks are lost, and after a restart.
LivePanesShown ==
  \A w \in Target :
    <>[](agent[w] # NoSid) => <>[](up => TrackedAt(w) # {})

=============================================================================
