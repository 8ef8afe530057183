---------------------------- MODULE PortAllocator ----------------------------
(***************************************************************************)
(* The ports that the server hands out to the opencode wrappers.           *)
(*                                                                         *)
(* handlePort answers with a port that no registered instance has, and     *)
(* does not reserve it: the wrapper starts opencode with it, and registers *)
(* it two seconds later.  Until then only the position of the scan, which  *)
(* goes round the range, keeps the port from the next wrapper.  Nothing of *)
(* it is kept by the server that is started next.                          *)
(***************************************************************************)
EXTENDS Integers

CONSTANTS
  Wrapper,            \* runs of the opencode() shell function
  MinPort, MaxPort    \* the range, 10000 and 64999 in the code

ASSUME RangeAssumption ==
  MinPort \in Nat /\ MaxPort \in Nat /\ MinPort <= MaxPort

Port == MinPort .. MaxPort

None == MinPort - 1   \* no port

VARIABLES
  up,        \* is there a server?
  nextPort,  \* Handler.nextPort
  known,     \* ports of the range that the store has an instance for
  held,      \* the port of wrapper w until it has registered, or None
  granted,   \* granted[w]: did this server hand it out?
  passed     \* ports handed out, or found in use, since then (history)

vars == <<up, nextPort, known, held, granted, passed>>

Init ==
  /\ up = TRUE /\ nextPort = MinPort /\ known = {}
  /\ held = [w \in Wrapper |-> None]
  /\ granted = [w \in Wrapper |-> FALSE]
  /\ passed = [w \in Wrapper |-> {}]

-----------------------------------------------------------------------------
(* handlePort.                                                             *)

FromMinPort(i) == MinPort + i

\* The i-th port that the scan looks at: the position modulo the range.
Candidate(i) ==
  IF nextPort + i <= MaxPort THEN nextPort + i
                             ELSE nextPort + i - (MaxPort - MinPort + 1)

\* c is the first port of the scan that is not in use.
FirstFree(c) ==
  \E i \in 0 .. MaxPort - MinPort :
    /\ c = Candidate(i) /\ c \notin known
    /\ \A j \in 0 .. i - 1 : Candidate(j) \in known

After(c) == c + 1

Following(c) == IF c + 1 > MaxPort THEN MinPort ELSE c + 1

HandlePort(w, c) ==
  /\ up /\ held[w] = None
  /\ FirstFree(c)
  /\ nextPort' = Following(c)
  /\ held' = [held EXCEPT ![w] = c]
  /\ granted' = [granted EXCEPT ![w] = TRUE]
  /\ passed' = [v \in Wrapper |->
                  IF v = w THEN {} ELSE passed[v] \union known \union {c}]
  /\ UNCHANGED <<up, known>>

\* No server, or no port is available: the wrapper takes a random one.
RandomPort(w, c) ==
  /\ held[w] = None /\ (~up \/ ~ \E d \in Port : FirstFree(d))
  /\ held' = [held EXCEPT ![w] = c]
  /\ granted' = [granted EXCEPT ![w] = FALSE]
  /\ UNCHANGED <<up, nextPort, known, passed>>

-----------------------------------------------------------------------------
(* The store, as far as its ports.                                         *)

\* The wrapper registers; its request is lost when there is no server.
Register(w) ==
  /\ held[w] # None
  /\ known' = IF up THEN known \union {held[w]} ELSE known
  /\ held' = [held EXCEPT ![w] = None]
  /\ UNCHANGED <<up, nextPort, granted, passed>>

\* Outside tmux a wrapper registers nothing, and a launch may be given up.
Leave(w) ==
  /\ held[w] # None
  /\ held' = [held EXCEPT ![w] = None]
  /\ UNCHANGED <<up, nextPort, known, granted, passed>>

\* The pane scanner finds an instance, or the server removes one.
Discover(p) ==
  /\ up /\ known' = known \union {p}
  /\ UNCHANGED <<up, nextPort, held, granted, passed>>

Remove(p) ==
  /\ up /\ known' = known \ {p}
  /\ UNCHANGED <<up, nextPort, held, granted, passed>>

-----------------------------------------------------------------------------
(* The server process.                                                     *)

Stop ==
  /\ up /\ up' = FALSE
  /\ nextPort' = MinPort /\ known' = {}
  /\ granted' = [w \in Wrapper |-> FALSE]
  /\ UNCHANGED <<held, passed>>

Start ==
  /\ ~up /\ up' = TRUE
  /\ UNCHANGED <<nextPort, known, held, granted, passed>>

Next ==
  \/ Stop \/ Start
  \/ \E w \in Wrapper :
       \/ Register(w) \/ Leave(w)
       \/ \E c \in Port : HandlePort(w, c) \/ RandomPort(w, c)
  \/ \E p \in Port : Discover(p) \/ Remove(p)

Spec == Init /\ [][Next]_vars

-----------------------------------------------------------------------------
\* Every variable keeps its type; the position of the scan is in the range.
TypeOK ==
  /\ up \in BOOLEAN /\ nextPort \in Port /\ known \subseteq Port
  /\ held \in [Wrapper -> Port \union {None}]
  /\ granted \in [Wrapper -> BOOLEAN]
  /\ passed \in [Wrapper -> SUBSET Port]

Pending(w) == granted[w] /\ held[w] # None

\* A port that was handed out and is not registered yet is handed out again,
\* by the same server, only when the scan has gone round: since the one or
\* the other wrapper got it, every other port was handed out or was found in
\* use (handlePort, which reserves nothing).
HeldOnce ==
  \A v, w \in Wrapper :
    v # w /\ Pending(v) /\ Pending(w) /\ held[v] = held[w]
      => \E u \in {v, w} : Port \ {held[u]} \subseteq passed[u]

=============================================================================
