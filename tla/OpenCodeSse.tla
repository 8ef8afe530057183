----------------------------- MODULE OpenCodeSse -----------------------------
(***************************************************************************)
(* What the server shows of the sessions inside one opencode process.      *)
(*                                                                         *)
(* The process sends its events in order to every connected SSE client.    *)
(* A client handles one event after the other; for some it asks the        *)
(* process with a GET first, and the process goes on meanwhile.  Whatever  *)
(* happens while no client is connected is told to nobody: the client gets *)
(* the list of sessions when it connects, but not their states.  When the  *)
(* instance is registered again the old client is cancelled, which closes  *)
(* its connection but not its hands: it may still handle what it has read, *)
(* on the instance of its successor.                                       *)
(*                                                                         *)
(* One port is enough: every method of the store looks its port up first   *)
(* and touches nothing else.  The process lives; who notices its end, and  *)
(* how clients give up, is the subject of OpenCodeInstances.               *)
(***************************************************************************)
EXTENDS Naturals, Sequences, FiniteSets

SE == INSTANCE SequencesExt

CONSTANTS
  Sid, NoSid,           \* sessions of the process; no session
  Client,               \* SSE clients, each a goroutine (bound: at a time)
  NoInstance,           \* what the store holds for a port it does not have
  NoSession,            \* what an instance holds for an unknown session
  MaxTitle,             \* bound: number of titles a session has, less one
  MaxQueue,             \* bound: number of events in flight to a client
  Budget                \* bounds: one of these is what a behaviour may spend
                        \* on sessions, events of the process, registrations
                        \* and glitches (broken streams, failing requests)

State == {"idle", "running", "permission", "unknown"}

ASSUME NothingAssumption ==
  /\ NoSid \notin Sid
  /\ NoSession \notin [state: State, title: Nat]
  /\ NoInstance \notin [sessions: [Sid -> {NoSession} \union
                                      [state: State, title: Nat]],
                        order: Seq(Sid), active: Sid \union {NoSid},
                        client: Client]

ASSUME BoundAssumption ==
  /\ MaxTitle \in Nat /\ MaxQueue \in Nat
  /\ Budget \subseteq [sessions : Nat, events : Nat, regs : Nat, glitches : Nat]

VARIABLES
  real, title,          \* the sessions in the process: what they do, titles
  inst,                 \* the instance in Store.instances
  row,                  \* its row in the panes table
  handler,              \* registrations being handled: client and hint
  pc,                   \* where client c is
  cancelled,            \* cancelled[c]: the context of client c is done
  stream,               \* stream[c]: events sent to c and not yet handled
  answer,               \* answer[c]: what is left of the answer to its GET:
                        \* titles, or the words decoded from the statuses
  left,                 \* what is left of the budget
  heard,                \* sessions whose state was told to the client of the
                        \* instance, and not blurred since (history)
  listed,               \* has it got the list of its connection? (history)
  untold,               \* sessions whose deletion was told to nobody (history)
  foreign               \* sessions a cancelled client has written to the
                        \* instance of its successor (history)

process == <<real, title>>
history == <<heard, listed, untold, foreign>>
vars    == <<process, inst, row, handler, pc, cancelled, stream, answer, left,
             history>>

NoAnswer == [s \in {} |-> 0]

PC == {"none", "list0", "store0", "connect", "read", "list", "store",
       "status", "apply", "publish"}

\* The stream of a client in connect() is open until its context is done.
Open(c) ==
  /\ pc[c] \in {"read", "list", "store", "status", "apply", "publish"}
  /\ ~cancelled[c]

\* A session is odd when its status is none of those the server knows.
Exists(s) == real[s] \in {"idle", "busy", "odd", "asking"}

\* The process has been running for some time when the server hears of it.
Init ==
  /\ left \in Budget
  /\ real \in [Sid -> {"none", "idle", "busy", "odd", "asking"}]
  /\ Cardinality({s \in Sid : real[s] # "none"}) <= left.sessions
  /\ title = [s \in Sid |-> 0]
  /\ inst = NoInstance /\ row = {} /\ handler = {}
  /\ pc = [c \in Client |-> "none"] /\ cancelled = [c \in Client |-> FALSE]
  /\ stream = [c \in Client |-> <<>>] /\ answer = [c \in Client |-> NoAnswer]
  /\ heard = {} /\ listed = FALSE /\ untold = {} /\ foreign = {}

Spend(what) ==
  left[what] > 0 /\ left' = [left EXCEPT ![what] = @ - 1]

-----------------------------------------------------------------------------
(* The store: what its methods make of the instance i of the port.         *)

Knows(i, s) == i # NoInstance /\ i.sessions[s] # NoSession

NewInstance(c) ==
  [sessions |-> [s \in Sid |-> NoSession], order |-> <<>>,
   active |-> NoSid, client |-> c]

Without(order, s) ==
  IF \E k \in DOMAIN order : order[k] = s
    THEN SE!RemoveAt(order, CHOOSE k \in DOMAIN order : order[k] = s)
    ELSE order

\* Sets UpdatedAt of session s to now: it is the first of `order'.
Put(i, s, session) ==
  [i EXCEPT !.sessions[s] = session, !.order = <<s>> \o Without(@, s)]

SetSessionState(i, s, st) ==
  IF Knows(i, s)
    THEN [Put(i, s, [i.sessions[s] EXCEPT !.state = st]) EXCEPT !.active = s]
    ELSE i

SetSessionStateAlways(i, s, st, exclude) == SetSessionState(i, s, st)

SetSessionStateIf(i, s, st, exclude) ==
  IF Knows(i, s) /\ i.sessions[s].state # exclude
    THEN SetSessionState(i, s, st) ELSE i

UpsertSessionOnce(i, s, t) ==
  IF i = NoInstance \/ Knows(i, s) THEN i
  ELSE Put(i, s, [state |-> "idle", title |-> t])

\* An empty title (0) leaves the title of a known session alone.
UpsertSession(i, s, t) ==
  IF i = NoInstance THEN i
  ELSE IF Knows(i, s)
    THEN Put(i, s, [i.sessions[s] EXCEPT !.title = IF t = 0 THEN @ ELSE t])
    ELSE Put(i, s, [state |-> "idle", title |-> t])

RemoveSession(i, s) ==
  IF Knows(i, s)
    THEN [i EXCEPT !.sessions[s] = NoSession, !.order = Without(@, s)] ELSE i

\* ActivePanes: the active session, else the one updated last.  An instance
\* without sessions has the state unknown and the name of the wrapper (0).
Row(i) ==
  LET best == IF i.active # NoSid /\ Knows(i, i.active) THEN i.active
              ELSE IF i.order # <<>> THEN Head(i.order) ELSE NoSid
  IN IF best = NoSid THEN <<NoSid, "unknown", 0>>
     ELSE <<best, i.sessions[best].state, i.sessions[best].title>>

Rows(i) == IF i = NoInstance THEN {} ELSE {Row(i)}

-----------------------------------------------------------------------------
(* Registrations: by the wrapper, with the session of -s as a hint, or by  *)
(* the scanner, without one.                                               *)

CancelAfterReplace(i) == cancelled' = [c \in Client |->
                cancelled[c] \/ (inst' # NoInstance /\ c = inst'.client)]

Cancel(i) == cancelled' = [c \in Client |->
                cancelled[c] \/ (i # NoInstance /\ c = i.client)]

Forget == heard' = {} /\ listed' = FALSE /\ untold' = {} /\ foreign' = {}

\* Registrations may overlap: each HTTP handler and the scanner are goroutines.
\* Which of the clients that are free is the new one does not matter.
Free == {c \in Client : pc[c] = "none" /\ \A h \in handler : h.client # c}

Register(hint) ==
  /\ Spend("regs")
  /\ Free # {}
  /\ LET c == CHOOSE d \in Free : TRUE
     IN /\ inst' = NewInstance(c)
        /\ pc' = [pc EXCEPT ![c] = "list0"]
        /\ handler' = handler \union {[client |-> c, hint |-> hint]}
  /\ Cancel(inst) /\ Forget
  /\ UNCHANGED <<process, row, stream, answer>>

\* The hint is written to the object that was registered, without the lock:
\* to no effect when the port has been removed or registered again since.
Registered(h) ==
  /\ h \in handler /\ handler' = handler \ {h}
  /\ inst' = IF inst # NoInstance /\ inst.client = h.client /\ h.hint # NoSid
               THEN [inst EXCEPT !.active = h.hint] ELSE inst
  /\ row' = Rows(inst')
  /\ UNCHANGED <<process, pc, cancelled, stream, answer, left,
                 history>>

\* OnPaneGone, and the Reconcile() after it.
Remove ==
  /\ inst # NoInstance /\ left.regs > 0
  /\ inst' = NoInstance /\ row' = {}
  /\ Cancel(inst) /\ Forget
  /\ UNCHANGED <<process, handler, pc, stream, answer, left>>

-----------------------------------------------------------------------------
(* The SSE client: Run, connect, handleEvent.                              *)

Current(c) == inst # NoInstance /\ inst.client = c

Goto(c, l) == pc' = [pc EXCEPT ![c] = l]

\* The answer of GET /session, and that of GET /session/status: a session
\* that asks for a permission is busy.
Existing == {s \in Sid : Exists(s)}

Titles == [s \in Existing |-> title[s]]

\* A status may come as a string, as an object with the string in its field
\* "status", or as anything else, of which the client makes the empty string:
\* also of the shape that the events have, with the string in "type".
AnswerShape == {"string", "status", "other"}

Decoded(shape, status) == IF shape = "other" THEN "" ELSE status

Status(s) == CASE real[s] = "idle" -> "idle"
               [] real[s] \in {"busy", "asking"} -> "busy"
               [] real[s] = "odd" -> "odd"

Statuses(shape) == [s \in Existing |-> Decoded(shape, Status(s))]

StatusOrIdle(status) ==
  CASE status \in {"busy", "retry"} -> "running" [] OTHER -> "idle"

MapOpenCodeStatus(status) ==
  CASE status = "idle" -> "idle"
    [] status \in {"busy", "retry"} -> "running"
    [] OTHER -> "unknown"

\* Where client c goes on when it has stored its answer.
Proceed(c) ==
  Goto(c, IF pc[c] \in {"list0", "store0"} THEN "connect" ELSE "publish")

Receive(c, f, l) ==
  /\ ~cancelled[c]
  /\ answer' = [answer EXCEPT ![c] = f]
  /\ IF f = NoAnswer THEN Proceed(c) ELSE Goto(c, l)
  /\ UNCHANGED left

GetInitial(c) ==
  /\ pc[c] = "list0" /\ Receive(c, Titles, "store0")
  /\ UNCHANGED <<heard, listed>>

GetSessions(c) ==
  /\ pc[c] = "list" /\ Receive(c, Titles, "store")
  /\ listed' = TRUE /\ UNCHANGED heard

GetStatus(c) ==
  /\ pc[c] = "status"
  /\ \E shape \in AnswerShape :
       /\ Receive(c, Statuses(shape), "apply")
       /\ heard' = IF shape = "other" THEN heard \ Existing
                   ELSE (heard \union {s \in Existing : Knows(inst, s)})
                        \ {s \in Sid : real[s] = "asking"}
  /\ UNCHANGED listed

\* The request fails, or times out after five seconds.
GetFails(c) ==
  /\ pc[c] \in {"list0", "list", "status"}
  /\ \/ cancelled[c] /\ UNCHANGED left
     \/ ~cancelled[c] /\ Spend("glitches")
  /\ Proceed(c)
  /\ UNCHANGED <<answer, heard, listed>>

Get(c) ==
  /\ GetInitial(c) \/ GetSessions(c) \/ GetStatus(c) \/ GetFails(c)
  /\ UNCHANGED <<process, inst, row, handler, cancelled, stream, untold,
                 foreign>>

\* A client that was cancelled does not write what the instance's own heard.
Blur(c, s) ==
  IF Current(c) THEN UNCHANGED <<heard, foreign>>
  ELSE heard' = heard \ {s} /\ foreign' = foreign \union {s}

\* One UpsertSession or SetSessionState for each session of the answer.
StoreOne(c) ==
  /\ pc[c] \in {"store0", "store", "apply"}
  /\ \E s \in DOMAIN answer[c] :
       /\ inst' = IF pc[c] = "apply"
                    THEN SetSessionState(inst, s,
                                         MapOpenCodeStatus(answer[c][s]))
                    ELSE UpsertSession(inst, s, answer[c][s])
       /\ answer' = [answer EXCEPT ![c] =
            [r \in DOMAIN answer[c] \ {s} |-> answer[c][r]]]
       /\ Blur(c, s)
  /\ IF answer'[c] = NoAnswer THEN Proceed(c) ELSE UNCHANGED pc
  /\ UNCHANGED <<process, row, handler, cancelled, stream, left,
                 listed, untold>>

Event(kind, s, t) == [kind |-> kind, sid |-> s, title |-> t]

\* A new stream begins with server.connected.
Connect(c) ==
  /\ pc[c] = "connect" /\ ~cancelled[c]
  /\ stream' = [stream EXCEPT ![c] = <<Event("connected", NoSid, 0)>>]
  /\ Goto(c, "read")
  /\ UNCHANGED <<process, inst, row, handler, cancelled, answer, left,
                 history>>

\* session.status of that type; session.idle and session.error do as "idle".
StatusKind == {"idle", "busy", "retry", "odd"}

\* What handleEvent makes of the instance, and whether it calls Reconcile().
After(i, e) ==
  CASE e.kind \in {"created", "updated"} -> UpsertSession(i, e.sid, e.title)
    [] e.kind \in StatusKind ->
         SetSessionState(i, e.sid, MapOpenCodeStatus(e.kind))
    [] e.kind = "asked"   -> SetSessionState(i, e.sid, "permission")
    [] e.kind = "part"    -> SetSessionStateIf(i, e.sid, "running", "idle")
    [] e.kind = "deleted" -> RemoveSession(i, e.sid)

ChangedWhenNew(i, e) ==
  IF e.kind \in {"created", "updated"} THEN i # NoInstance /\ ~Knows(i, e.sid)
  ELSE e.kind = "deleted" \/ Knows(i, e.sid)

Changed(i, e) ==
  CASE e.kind \in {"created", "updated"} -> i # NoInstance
    [] e.kind \in StatusKind \union {"asked"} -> Knows(i, e.sid)
    [] e.kind = "part" ->
         Knows(i, e.sid) /\ i.sessions[e.sid].state # "idle"
    [] e.kind = "deleted" -> TRUE

\* A state that the instance's client hears is the truth as soon as all it
\* has been sent is handled, except that a part hides an open question, and
\* what was not understood stays so until the next status.
Hear(c, e) ==
  IF ~Current(c) THEN Blur(c, e.sid)
  ELSE /\ heard' = IF e.kind = "part" /\ Knows(inst, e.sid)
                       /\ inst.sessions[e.sid].state \in {"permission", "unknown"}
                    THEN heard \ {e.sid}
                  ELSE IF \/ /\ e.kind = "created"
                             /\ Knows(inst, e.sid) =>
                                  inst.sessions[e.sid].state # "unknown"
                          \/ /\ e.kind \in StatusKind \union {"asked"}
                             /\ Knows(inst, e.sid)
                    THEN heard \union {e.sid} ELSE heard
       /\ UNCHANGED foreign

Apply(c, e) ==
  /\ e.kind \notin {"connected", "replied"}
  /\ inst' = After(inst, e)
  /\ Goto(c, IF Changed(inst, e) THEN "publish" ELSE "read")
  /\ Hear(c, e)

Ask(c, e) ==
  /\ \/ e.kind = "connected" /\ Goto(c, "list") /\ UNCHANGED heard
     \/ e.kind = "replied" /\ Goto(c, "status")
        /\ heard' = IF Current(c) THEN heard \ {e.sid} ELSE heard
  /\ UNCHANGED <<inst, foreign>>

HandleEvent(c) ==
  /\ pc[c] = "read" /\ stream[c] # <<>>
  /\ stream' = [stream EXCEPT ![c] = Tail(@)]
  /\ Apply(c, Head(stream[c])) \/ Ask(c, Head(stream[c]))
  /\ UNCHANGED <<process, row, handler, cancelled, answer, left,
                 listed, untold>>

Reconcile(c) ==
  /\ pc[c] = "publish"
  /\ row' = Rows(inst) /\ Goto(c, "read")
  /\ UNCHANGED <<process, inst, handler, cancelled, stream, answer, left,
                 history>>

\* The stream ends, or a line of it is longer than the scanner's buffer; what
\* was not handled is lost, and so is what happens before the next stream.
StreamEnds(c) ==
  /\ pc[c] = "read" /\ ~cancelled[c]
  /\ Spend("glitches")
  /\ stream' = [stream EXCEPT ![c] = <<>>] /\ Goto(c, "connect")
  /\ heard' = {} /\ listed' = FALSE
  /\ untold' = untold \union {s \in Sid : real[s] = "deleted" /\ Knows(inst, s)}
  /\ UNCHANGED <<process, inst, row, handler, cancelled, answer, foreign>>

\* A cancelled client ends at the next read that fails, or before it.
Stop(c) ==
  /\ cancelled[c] /\ pc[c] \in {"connect", "read"}
  /\ Goto(c, "none")
  /\ cancelled' = [cancelled EXCEPT ![c] = FALSE]
  /\ stream' = [stream EXCEPT ![c] = <<>>]
  /\ UNCHANGED <<process, inst, row, handler, answer, left, history>>

ClientStep(c) ==
  \/ Get(c) \/ StoreOne(c) \/ Connect(c)
  \/ HandleEvent(c) \/ Reconcile(c) \/ StreamEnds(c) \/ Stop(c)

-----------------------------------------------------------------------------
(* The opencode process.                                                   *)

Send(kind, s, t) ==
  /\ Spend("events")
  /\ \A c \in Client : Open(c) => Len(stream[c]) < MaxQueue
  /\ stream' = [c \in Client |-> IF Open(c)
                  THEN Append(stream[c], Event(kind, s, t)) ELSE stream[c]]

Told == \E c \in Client : Open(c)

server == <<inst, row, handler, pc, cancelled, answer, heard,
            listed, foreign>>

Create(s) ==
  /\ real[s] = "none"
  /\ Cardinality({r \in Sid : real[r] # "none"}) < left.sessions
  /\ real' = [real EXCEPT ![s] = "idle"]
  /\ Send("created", s, title[s])
  /\ UNCHANGED <<title, server, untold>>

Rename(s) ==
  /\ Exists(s) /\ title[s] < MaxTitle
  /\ title' = [title EXCEPT ![s] = @ + 1]
  /\ Send("updated", s, title[s] + 1)
  /\ UNCHANGED <<real, server, untold>>

Delete(s) ==
  /\ Exists(s)
  /\ real' = [real EXCEPT ![s] = "deleted"]
  /\ Send("deleted", s, 0)
  /\ untold' = IF Told THEN untold ELSE untold \union {s}
  /\ UNCHANGED <<title, server>>

\* session.status, permission.asked, permission.replied, session.idle or
\* session.error.
Turn(s, from, to, kind) ==
  /\ real[s] \in from
  /\ real' = [real EXCEPT ![s] = to]
  /\ Send(kind, s, 0)
  /\ UNCHANGED <<title, server, untold>>

\* message.part.updated: also while a permission is asked for, and also just
\* after the end of the turn.
Part(s) ==
  /\ Exists(s)
  /\ Send("part", s, 0)
  /\ UNCHANGED <<real, title, server, untold>>

Process(s) ==
  \/ Create(s) \/ Rename(s) \/ Delete(s) \/ Part(s)
  \/ Turn(s, {"idle", "odd"}, "busy", "busy") \/ Turn(s, {"busy"}, "busy", "retry")
  \/ Turn(s, {"idle", "busy"}, "odd", "odd")
  \/ Turn(s, {"busy"}, "asking", "asked") \/ Turn(s, {"asking"}, "busy", "replied")
  \/ Turn(s, {"busy", "odd", "asking"}, "idle", "idle")

Next ==
  \/ \E s \in Sid : Process(s)
  \/ \E hint \in {NoSid} \union {s \in Sid : Exists(s)} : Register(hint)
  \/ \E h \in handler : Registered(h)
  \/ Remove
  \/ \E c \in Client : ClientStep(c)

Spec == Init /\ [][Next]_vars

-----------------------------------------------------------------------------
EventType == [kind : StatusKind \union {"created", "updated", "asked", "replied",
                                       "part", "deleted", "connected"},
              sid : Sid \union {NoSid}, title : 0 .. MaxTitle]

InstanceType ==
  [sessions : [Sid -> {NoSession} \union
                        [state : State, title : 0 .. MaxTitle]],
   order : Seq(Sid), active : Sid \union {NoSid}, client : Client]

\* Every variable keeps its type, and the sessions of an instance are listed
\* in the order of their last update once each.
TypeOK ==
  /\ real \in [Sid -> {"none", "idle", "busy", "odd", "asking", "deleted"}]
  /\ title \in [Sid -> 0 .. MaxTitle]
  /\ inst = NoInstance \/
       /\ inst \in InstanceType
       /\ \A s \in Sid : Knows(inst, s) <=>
            \E k \in DOMAIN inst.order : inst.order[k] = s
       /\ \A j, k \in DOMAIN inst.order : inst.order[j] = inst.order[k] => j = k
  /\ row \subseteq (Sid \union {NoSid}) \X State \X (0 .. MaxTitle)
  /\ handler \subseteq [client : Client, hint : Sid \union {NoSid}]
  /\ pc \in [Client -> PC] /\ cancelled \in [Client -> BOOLEAN]
  /\ \A c \in Client : stream[c] \in Seq(EventType)
  /\ \A c \in Client : cancelled[c] => ~Current(c)
  /\ left \in [sessions : Nat, events : Nat, regs : Nat, glitches : Nat]
  /\ heard \subseteq Sid /\ listed \in BOOLEAN /\ untold \subseteq Sid
  /\ foreign \subseteq Sid

\* The client of the instance has handled all that it was sent.
Drained ==
  /\ inst # NoInstance /\ handler = {}
  /\ pc[inst.client] = "read" /\ stream[inst.client] = <<>>

Truth(s) == CASE real[s] = "idle" -> "idle" [] real[s] = "busy" -> "running"
              [] real[s] = "asking" -> "permission" [] OTHER -> "unknown"

\* When all events are handled, a session whose state the client has heard and
\* understood on this connection is stored with the state it has, which is
\* "unknown" only if its status is none that the server knows: late parts do
\* not make an idle session run, and an answer of GET /session/status, some
\* of it of another shape, does not win over the events that follow it
\* (handleEvent, refreshSessionStatus, mapOpenCodeStatus).
StateShown ==
  Drained => \A s \in heard :
    Exists(s) /\ Knows(inst, s) => inst.sessions[s].state = Truth(s)

\* When all events are handled and the list of the connection was received,
\* the instance has the sessions of the process with their last titles,
\* whatever was renamed, created or deleted while the list was on its way
\* (fetchSessions after server.connected, not before).
MetadataShown ==
  Drained /\ listed => \A s \in Sid \ (untold \union foreign) :
    /\ Exists(s) <=> Knows(inst, s)
    /\ Exists(s) => inst.sessions[s].title = title[s]

\* When all clients have handled all events, the panes table has the row that
\* ActivePanes makes of the instance: no write is left without its
\* Reconcile(), also those of the initial list, which is not followed by one.
\* (That is true of the instance's own client only: what a cancelled one
\* writes of its initial list stays unpublished.)
QuietIsPublished ==
  /\ handler = {} /\ foreign = {}
  /\ \A c \in Client : pc[c] \in {"none", "read"} /\ stream[c] = <<>>
  => row = Rows(inst)

=============================================================================
