------------------------- MODULE OpenCodeInstances -------------------------
(***************************************************************************)
(* How the server follows the OpenCode instances: which port is listened   *)
(* on by the opencode of which tmux pane, and who reads its event stream.  *)
(*                                                                         *)
(* An instance enters opencode.Store by the wrapper's registration, a      *)
(* request sent two seconds after the launch, or by the pane scanner; each *)
(* time a new SSE client is started, and the client of the instance it     *)
(* replaces is cancelled.  It leaves the store when its client gives up    *)
(* connecting, or when the scanner misses its pane.                        *)
(*                                                                         *)
(* Every method of the store is atomic; what a client, a handler or the    *)
(* scanner does in several calls is not.  The sessions inside an instance, *)
(* Reconcile() and the pane scanner's dealings with Claude are left out.   *)
(***************************************************************************)
EXTENDS Naturals, FiniteSets

CONSTANTS
  Target, NoTarget,     \* tmux pane targets; no pane
  Port, NoPort,         \* TCP ports; no port
  Claude,               \* what runs in a pane that runs claude
  Client,               \* SSE clients, each a goroutine (bound: at a time)
  NoInstance,           \* what the map holds for a port it does not have
  MaxFailures,          \* maxConsecutiveFailures
  MayReuse,             \* may a port be used by two launches?
  MaxLaunches,          \* bound: number of agents started
  MaxGlitches,          \* bound: failing connections to a live opencode
  MaxStarts             \* bound: number of server processes ever started

Instance == [pane: Target, client: Client]

ASSUME NothingAssumption ==
  /\ NoTarget \notin Target
  /\ NoPort \notin Port /\ Claude \notin Port /\ Claude # NoPort
  /\ NoInstance \notin Instance

ASSUME PortAssumption == IsFiniteSet(Port)

ASSUME NumberAssumption ==
  /\ MaxFailures \in Nat \ {0} /\ MayReuse \in BOOLEAN
  /\ MaxLaunches \in Nat /\ MaxGlitches \in Nat /\ MaxStarts \in Nat

VARIABLES
  proc,                 \* proc[w]: port of the opencode in pane w, or Claude
  used,                 \* ports that were ever launched with (history)
  launches, glitches,   \* how many there have been
  regs,                 \* registrations sent and not yet handled
  up, starts,           \* is there a server? how many have there been?
  inst,                 \* Store.instances
  pc, port,             \* where client c is, and the port it connects to
  cancelled,            \* cancelled[c]: the context of client c is done
  fails,                \* fails[c]: its consecutiveFailures
  spc,                  \* where the pane scanner is
  listed,               \* panes that run an agent, says ListPanes
  todo,                 \* panes with opencode that it has yet to visit
  pane,                 \* the pane it is visiting
  found,                \* the port it has found there, or is to remove
  gone                  \* tracked targets that it has yet to prune

agentVars   == <<proc, used, launches, glitches>>
serverVars  == <<up, starts>>
storeVars   == <<inst, pc, port, cancelled, fails>>
scannerVars == <<spc, listed, todo, pane, found, gone>>
vars        == <<agentVars, regs, serverVars, storeVars, scannerVars>>

Alive(p) == \E w \in Target : proc[w] = p

Known(p) == inst[p] # NoInstance

TrackedAt(w) == {p \in Port : Known(p) /\ inst[p].pane = w}

Nothing == [w \in Target |-> 0]

PC  == {"none", "connect", "stream", "ended", "remove"}

SPC == {"idle", "visit", "discover", "register", "prune", "remove"}

EmptyStore ==
  /\ inst = [p \in Port |-> NoInstance]
  /\ pc = [c \in Client |-> "none"] /\ port = [c \in Client |-> NoPort]
  /\ cancelled = [c \in Client |-> FALSE] /\ fails = [c \in Client |-> 0]

Init ==
  /\ proc = [w \in Target |-> NoPort] /\ used = {}
  /\ launches = 0 /\ glitches = 0 /\ regs = {}
  /\ up = FALSE /\ starts = 0
  /\ EmptyStore
  /\ spc = "idle" /\ listed = {} /\ todo = {} /\ pane = NoTarget
  /\ found = NoPort /\ gone = Nothing

-----------------------------------------------------------------------------
(* The agents in their panes, and the wrapper.                             *)

\* handlePort: what it answers.  (It goes round the ports from the last one.)
Offered(p) == ~Known(p)

\* The wrapper asks for a port and gets one that no instance has, or takes a
\* random one when nobody answers; it starts opencode, and registers port and
\* pane in the background.  An opencode whose port is taken exits, and is
\* registered all the same.
LaunchWrapped(w, p) ==
  /\ proc[w] = NoPort /\ launches < MaxLaunches
  /\ MayReuse \/ p \notin used
  /\ up => Offered(p)
  /\ proc' = IF Alive(p) THEN proc ELSE [proc EXCEPT ![w] = p]
  /\ used' = used \union {p} /\ launches' = launches + 1
  /\ regs' = regs \union {[port |-> p, pane |-> w]}
  /\ UNCHANGED <<glitches, serverVars, storeVars, scannerVars>>

\* opencode --port without the wrapper.
LaunchPlain(w, p) ==
  /\ proc[w] = NoPort /\ launches < MaxLaunches
  /\ MayReuse \/ p \notin used
  /\ ~Alive(p)
  /\ proc' = [proc EXCEPT ![w] = p]
  /\ used' = used \union {p} /\ launches' = launches + 1
  /\ UNCHANGED <<glitches, regs, serverVars, storeVars, scannerVars>>

\* claude in a pane that opencode may have been in.
LaunchClaude(w) ==
  /\ proc[w] = NoPort /\ launches < MaxLaunches
  /\ proc' = [proc EXCEPT ![w] = Claude] /\ launches' = launches + 1
  /\ UNCHANGED <<used, glitches, regs, serverVars, storeVars, scannerVars>>

Quit(w) ==
  /\ proc[w] # NoPort
  /\ proc' = [proc EXCEPT ![w] = NoPort]
  /\ UNCHANGED <<used, launches, glitches, regs, serverVars, storeVars,
                 scannerVars>>

-----------------------------------------------------------------------------
(* opencode.Store.                                                         *)

\* The client of the instance that p has, if any, is cancelled.
CancelledAt(p) ==
  IF Known(p) THEN [cancelled EXCEPT ![inst[p].client] = TRUE] ELSE cancelled

Free == {c \in Client : pc[c] = "none"}

RegisterWithoutCancel(p, w) ==
  /\ Free # {}
  /\ LET c == CHOOSE c \in Client : c \in Free IN
       /\ inst' = [inst EXCEPT ![p] = [pane |-> w, client |-> c]]
       /\ pc' = [pc EXCEPT ![c] = "connect"]
       /\ port' = [port EXCEPT ![c] = p]
  /\ UNCHANGED <<cancelled, fails>>

\* Store.Register, and the goroutine of a new client.
Register(p, w) ==
  /\ Free # {}
  /\ LET c == CHOOSE c \in Client : c \in Free IN
       /\ inst' = [inst EXCEPT ![p] = [pane |-> w, client |-> c]]
       /\ pc' = [pc EXCEPT ![c] = "connect"]
       /\ port' = [port EXCEPT ![c] = p]
       /\ cancelled' = CancelledAt(p)
  /\ UNCHANGED fails

\* Store.Remove: by port, whatever instance has it by now.
Remove(p) ==
  /\ inst' = [inst EXCEPT ![p] = NoInstance]
  /\ cancelled' = CancelledAt(p)
  /\ UNCHANGED <<pc, port, fails>>

\* handleRegister.
HandleRegister(r) ==
  /\ up /\ r \in regs
  /\ regs' = regs \ {r}
  /\ Register(r.port, r.pane)
  /\ UNCHANGED <<agentVars, serverVars, scannerVars>>

\* Nobody listens on the server's port.
Refuse(r) ==
  /\ ~up /\ r \in regs
  /\ regs' = regs \ {r}
  /\ UNCHANGED <<agentVars, serverVars, storeVars, scannerVars>>

-----------------------------------------------------------------------------
(* The SSE clients: Run, and the function that runs it.                    *)

outside == <<agentVars, regs, serverVars, scannerVars>>

\* The goroutine is over; its identity may be used again.
Gone(c) ==
  /\ pc' = [pc EXCEPT ![c] = "none"] /\ port' = [port EXCEPT ![c] = NoPort]
  /\ fails' = [fails EXCEPT ![c] = 0]

Glitch(c) ==
  \/ ~Alive(port[c]) /\ UNCHANGED glitches
  \/ Alive(port[c]) /\ glitches < MaxGlitches /\ glitches' = glitches + 1

\* Run counts a connection that ends with an error, also one that had been
\* established, and gives up on reaching the maximum.
Failed(c) ==
  /\ fails' = [fails EXCEPT ![c] = @ + 1]
  /\ pc' = [pc EXCEPT ![c] = IF fails[c] + 1 >= MaxFailures THEN "ended"
                                                           ELSE "connect"]

Connect(c) ==
  /\ pc[c] = "connect" /\ ~cancelled[c] /\ Alive(port[c])
  /\ pc' = [pc EXCEPT ![c] = "stream"]
  /\ UNCHANGED <<inst, port, cancelled, fails, outside>>

ConnectFails(c) ==
  /\ pc[c] = "connect" /\ ~cancelled[c]
  /\ Glitch(c) /\ Failed(c)
  /\ UNCHANGED <<inst, port, cancelled, proc, used, launches, regs,
                 serverVars, scannerVars>>

\* The stream ends, with an error or at a regular end of the response.
StreamEnds(c) ==
  /\ pc[c] = "stream" /\ ~cancelled[c]
  /\ Glitch(c)
  /\ \/ Failed(c)
     \/ /\ fails' = [fails EXCEPT ![c] = 0]
        /\ pc' = [pc EXCEPT ![c] = "connect"]
  /\ UNCHANGED <<inst, port, cancelled, proc, used, launches, regs,
                 serverVars, scannerVars>>

\* A client that finds its context done leaves the store alone.
Stop(c) ==
  /\ pc[c] \in {"connect", "stream", "ended"} /\ cancelled[c]
  /\ Gone(c) /\ cancelled' = [cancelled EXCEPT ![c] = FALSE]
  /\ UNCHANGED <<inst, outside>>

NotCancelledLeaves(c) ==
  /\ pc[c] = "ended" /\ ~cancelled[c]
  /\ Gone(c)
  /\ UNCHANGED <<inst, cancelled, outside>>

\* Run has returned, and ctx.Err() is nil.
NotCancelled(c) ==
  /\ pc[c] = "ended" /\ ~cancelled[c]
  /\ pc' = [pc EXCEPT ![c] = "remove"]
  /\ UNCHANGED <<inst, port, cancelled, fails, outside>>

\* Only now is the instance removed: the one that has the port by now.
RemoveDead(c) ==
  /\ pc[c] = "remove"
  /\ inst' = [inst EXCEPT ![port[c]] = NoInstance]
  /\ cancelled' = [CancelledAt(port[c]) EXCEPT ![c] = FALSE]
  /\ Gone(c)
  /\ UNCHANGED outside

ClientStep(c) ==
  \/ Connect(c) \/ ConnectFails(c) \/ StreamEnds(c)
  \/ Stop(c) \/ NotCancelled(c) \/ RemoveDead(c)

-----------------------------------------------------------------------------
(* The pane scanner, as far as OpenCode is concerned.                      *)

world == <<agentVars, regs, serverVars>>

Continue == spc' = "visit" /\ pane' = NoTarget /\ found' = NoPort

ListPanes ==
  /\ up /\ spc = "idle"
  /\ listed' = {w \in Target : proc[w] # NoPort}
  /\ todo' = {w \in Target : proc[w] \in Port}
  /\ spc' = "visit"
  /\ UNCHANGED <<world, storeVars, pane, found, gone>>

\* IsOpenCodeTracked: a pane at which an instance is shown is left alone.
Visit(w) ==
  /\ up /\ spc = "visit" /\ w \in todo
  /\ todo' = todo \ {w}
  /\ IF TrackedAt(w) = {} THEN pane' = w /\ spc' = "discover"
                          ELSE UNCHANGED <<pane, spc>>
  /\ UNCHANGED <<world, storeVars, listed, found, gone>>

DiscoverNothing ==
  /\ up /\ spc = "discover"
  /\ Continue
  /\ UNCHANGED <<world, storeVars, listed, todo, gone>>

\* DiscoverOpenCodePort, from the command line of what by now runs there.
Discover ==
  /\ up /\ spc = "discover"
  /\ IF proc[pane] \in Port
       THEN found' = proc[pane] /\ spc' = "register" /\ UNCHANGED pane
       ELSE Continue
  /\ UNCHANGED <<world, storeVars, listed, todo, gone>>

\* OnOpenCodeDiscovered, also when the port has been registered meanwhile.
RegisterFound ==
  /\ up /\ spc = "register"
  /\ Register(found, pane)
  /\ Continue
  /\ UNCHANGED <<world, listed, todo, gone>>

\* GetTrackedTargets: a target comes once for every instance shown there.
TrackedTargets ==
  /\ up /\ spc = "visit" /\ todo = {}
  /\ gone' = [w \in Target |->
                IF w \in listed THEN 0 ELSE Cardinality(TrackedAt(w))]
  /\ listed' = {} /\ spc' = "prune"
  /\ UNCHANGED <<world, storeVars, todo, pane, found>>

PaneGoneWithoutCheck(w) ==
  /\ up /\ spc = "prune"
  /\ gone' = [gone EXCEPT ![w] = @ - 1]
  /\ \/ TrackedAt(w) = {} /\ UNCHANGED <<found, spc>>
     \/ found' \in TrackedAt(w) /\ spc' = "remove"
  /\ UNCHANGED <<world, storeVars, listed, todo, pane>>

\* OnPaneGone picks the first instance of Ports(), a Go map, at the pane.
PaneGone(w) ==
  /\ up /\ spc = "prune" /\ gone[w] > 0
  /\ gone' = [gone EXCEPT ![w] = @ - 1]
  /\ \/ TrackedAt(w) = {} /\ UNCHANGED <<found, spc>>
     \/ found' \in TrackedAt(w) /\ spc' = "remove"
  /\ UNCHANGED <<world, storeVars, listed, todo, pane>>

RemoveGone ==
  /\ up /\ spc = "remove"
  /\ Remove(found)
  /\ spc' = "prune" /\ found' = NoPort
  /\ UNCHANGED <<world, listed, todo, pane, gone>>

ScanDone ==
  /\ up /\ spc = "prune" /\ gone = Nothing
  /\ spc' = "idle"
  /\ UNCHANGED <<world, storeVars, listed, todo, pane, found, gone>>

Scan ==
  \/ ListPanes \/ (\E w \in Target : Visit(w)) \/ Discover \/ RegisterFound
  \/ TrackedTargets \/ (\E w \in Target : PaneGone(w)) \/ RemoveGone
  \/ ScanDone

-----------------------------------------------------------------------------
(* The server process.                                                     *)

\* Nothing recovers OpenCode instances but the scanner.
Start ==
  /\ ~up /\ starts < MaxStarts
  /\ up' = TRUE /\ starts' = starts + 1
  /\ UNCHANGED <<agentVars, regs, storeVars, scannerVars>>

\* The end of the server, by whatever cause.  (Bound: not of the last one.)
Crash ==
  /\ up /\ starts < MaxStarts
  /\ up' = FALSE
  /\ inst' = [p \in Port |-> NoInstance]
  /\ pc' = [c \in Client |-> "none"] /\ port' = [c \in Client |-> NoPort]
  /\ cancelled' = [c \in Client |-> FALSE] /\ fails' = [c \in Client |-> 0]
  /\ spc' = "idle" /\ listed' = {} /\ todo' = {} /\ pane' = NoTarget
  /\ found' = NoPort /\ gone' = Nothing
  /\ UNCHANGED <<agentVars, regs, starts>>

Next ==
  \/ \E w \in Target, p \in Port : LaunchWrapped(w, p) \/ LaunchPlain(w, p)
  \/ \E w \in Target : LaunchClaude(w) \/ Quit(w)
  \/ \E r \in regs : HandleRegister(r) \/ Refuse(r)
  \/ \E c \in Client : ClientStep(c)
  \/ Scan
  \/ Start \/ Crash

Spec == Init /\ [][Next]_vars

Registration == [port: Port, pane: Target]

\* Goroutines go on, the scanner's ticker fires, a request that was sent is
\* handled or refused, and systemd restarts a server that failed.
Fairness ==
  /\ WF_vars(Scan) /\ WF_vars(Start)
  /\ \A c \in Client : WF_vars(ClientStep(c))
  /\ \A r \in Registration : WF_vars(HandleRegister(r)) /\ WF_vars(Refuse(r))

FairSpec == Spec /\ Fairness

-----------------------------------------------------------------------------
(* Properties.                                                             *)

TypeOK ==
  /\ proc \in [Target -> Port \union {NoPort, Claude}] /\ used \subseteq Port
  /\ launches \in Nat /\ glitches \in Nat /\ regs \subseteq Registration
  /\ up \in BOOLEAN /\ starts \in Nat
  /\ inst \in [Port -> Instance \union {NoInstance}]
  /\ pc \in [Client -> PC] /\ port \in [Client -> Port \union {NoPort}]
  /\ cancelled \in [Client -> BOOLEAN] /\ fails \in [Client -> Nat]
  /\ spc \in SPC /\ listed \subseteq Target /\ todo \subseteq Target
  /\ pane \in Target \union {NoTarget} /\ found \in Port \union {NoPort}
  /\ gone \in [Target -> Nat]

\* Clients that may still act for the instance of their port.
Acting == {c \in Client : pc[c] # "none" /\ ~cancelled[c]}

\* "One instance = one SSE goroutine", through registrations by the wrapper
\* and by the scanner, replacements, removals by port and crashes: an instance
\* always has a client that reads its events and would remove it, and a client
\* that was not cancelled always has an instance, its own.
OneClientPerInstance ==
  /\ \A p \in Port : Known(p) =>
       inst[p].client \in Acting /\ port[inst[p].client] = p
  /\ \A c \in Acting : Known(port[c]) /\ inst[port[c]].client = c

\* Whatever registrations come late, and although the scanner does not prune
\* a pane that runs claude by now: the instance of an opencode that is gone
\* does not remain.
DeadInstancesRemoved ==
  \A p \in Port : <>[]~Alive(p) => <>[]~Known(p)

\* An opencode that goes on running ends up in the list, at its pane, although
\* its registration may be lost or late, its pane be taken by a predecessor,
\* and the server be restarted; if its port is its own.
LiveInstancesShown ==
  \A p \in Port :
    <>[]Alive(p) => <>[](up => Known(p) /\ proc[inst[p].pane] = p)

\* opencode/sse.go on a stream that ends: "Connection was established then
\* dropped -- reset failure count."  A connection that was dropped is then no
\* reason to give up.  But a drop with an error is counted like a connection
\* that failed, and the last one that counts removes the instance.
DropIsNoFailure ==
  [][\A c \in Client : pc[c] = "stream" => pc'[c] # "ended"]_vars
=============================================================================
