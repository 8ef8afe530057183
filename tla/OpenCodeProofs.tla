-------------------------- MODULE OpenCodeProofs ---------------------------
(***************************************************************************)
(* Proofs about OpenCodeInstances, for any number of panes, ports and      *)
(* clients: type correctness, and that instances and clients that were not *)
(* cancelled belong together one to one.                                   *)
(*                                                                         *)
(* The store and its clients change by Register, by Remove, by a crash and *)
(* by the clients' own steps.  The first part says that each of these      *)
(* keeps the invariant of the store; the second part goes through Next.    *)
(***************************************************************************)
EXTENDS OpenCodeInstances, FiniteSetTheorems, TLAPS

StoreType ==
  /\ inst \in [Port -> Instance \union {NoInstance}]
  /\ pc \in [Client -> PC] /\ port \in [Client -> Port \union {NoPort}]
  /\ cancelled \in [Client -> BOOLEAN] /\ fails \in [Client -> Nat]

\* A client that runs has a port; an identity that is free is not cancelled.
ClientsSane ==
  \A c \in Client :
    IF pc[c] = "none" THEN ~cancelled[c] ELSE port[c] \in Port

StoreInv == StoreType /\ ClientsSane /\ OneClientPerInstance

OtherType ==
  /\ proc \in [Target -> Port \union {NoPort, Claude}] /\ used \subseteq Port
  /\ launches \in Nat /\ glitches \in Nat /\ regs \subseteq Registration
  /\ up \in BOOLEAN /\ starts \in Nat
  /\ spc \in SPC /\ listed \subseteq Target /\ todo \subseteq Target
  /\ pane \in Target \union {NoTarget} /\ found \in Port \union {NoPort}
  /\ gone \in [Target -> Nat]

\* What the scanner has in hand when it is about to use it.
ScannerSane ==
  /\ spc \in {"discover", "register"} => pane \in Target
  /\ spc \in {"register", "remove"} => found \in Port

IInv == StoreInv /\ OtherType /\ ScannerSane

-----------------------------------------------------------------------------
(* The store and its clients.                                              *)

\* What a known port holds (Store.instances).
LEMMA KnownIsInstance ==
  ASSUME StoreType, NEW p \in Port, Known(p)
  PROVE  inst[p] \in Instance /\ inst[p].client \in Client
BY DEF StoreType, Known, Instance

\* Cancelling the client of a port is a change of that one flag.
LEMMA CancelledType ==
  ASSUME StoreType, NEW p \in Port
  PROVE  /\ CancelledAt(p) \in [Client -> BOOLEAN]
         /\ \A d \in Client :
              CancelledAt(p)[d] =
                IF Known(p) /\ d = inst[p].client THEN TRUE ELSE cancelled[d]
BY KnownIsInstance DEF CancelledAt, StoreType

\* Store.Register and the new client keep instances and clients together.
LEMMA RegisterKeepsStore ==
  ASSUME StoreInv, NEW p \in Port, NEW w \in Target, Register(p, w)
  PROVE  StoreInv'
<1> DEFINE c == CHOOSE d \in Client : d \in Free
<1>1. c \in Client /\ pc[c] = "none" /\ ~cancelled[c]
  BY DEF Register, Free, StoreInv, ClientsSane
<1>2. /\ inst' = [inst EXCEPT ![p] = [pane |-> w, client |-> c]]
      /\ pc' = [pc EXCEPT ![c] = "connect"]
      /\ port' = [port EXCEPT ![c] = p]
      /\ cancelled' = CancelledAt(p) /\ fails' = fails
  BY DEF Register
<1> HIDE DEF c
<1>3. StoreType
  BY DEF StoreInv
<1>4. StoreType'
  BY <1>1, <1>2, <1>3, CancelledType DEF StoreType, Instance, PC
<1>5. Known(p) => inst[p].client # c
  BY <1>1 DEF StoreInv, OneClientPerInstance, Acting
<1>6. ~cancelled'[c]
  BY <1>1, <1>2, <1>3, <1>5, CancelledType
<1>7. ClientsSane'
  <2> SUFFICES ASSUME NEW d \in Client
               PROVE  IF pc'[d] = "none" THEN ~cancelled'[d]
                                         ELSE port'[d] \in Port
    BY DEF ClientsSane
  <2>1. CASE d = c
    BY <1>1, <1>2, <1>3, <2>1 DEF StoreType
  <2>2. CASE d # c
    <3>1. Known(p) => inst[p].client \in Acting
      BY DEF StoreInv, OneClientPerInstance
    <3>2. pc'[d] = pc[d] /\ port'[d] = port[d]
      BY <1>2, <1>3, <2>2 DEF StoreType
    <3>3. cancelled'[d] => cancelled[d] \/ pc[d] # "none"
      BY <1>2, <1>3, <3>1, CancelledType DEF Acting
    <3> QED BY <3>2, <3>3 DEF StoreInv, ClientsSane
  <2> QED BY <2>1, <2>2
<1>8. ASSUME NEW q \in Port, Known(q)'
      PROVE  inst'[q].client \in Acting' /\ port'[inst'[q].client] = q
  <2>1. CASE q = p
    <3>1. inst'[q].client = c
      BY <1>2, <1>3, <2>1 DEF StoreType
    <3> QED BY <1>1, <1>2, <1>3, <1>6, <2>1, <3>1 DEF Acting, StoreType
  <2>2. CASE q # p
    <3> DEFINE d == inst[q].client
    <3>1. Known(q) /\ inst'[q] = inst[q]
      BY <1>2, <1>3, <1>8, <2>2 DEF Known, StoreType
    <3>2. d \in Client /\ pc[d] # "none" /\ ~cancelled[d] /\ port[d] = q
      BY <3>1 DEF StoreInv, OneClientPerInstance, Acting
    <3>3. d # c /\ ~(Known(p) /\ d = inst[p].client)
      BY <1>1, <2>2, <3>2 DEF StoreInv, OneClientPerInstance
    <3>4. ~cancelled'[d]
      BY <1>2, <1>3, <3>2, <3>3, CancelledType
    <3>5. pc'[d] # "none" /\ port'[d] = q
      BY <1>2, <1>3, <3>2, <3>3 DEF StoreType
    <3> QED BY <3>1, <3>2, <3>4, <3>5 DEF Acting
  <2> QED BY <2>1, <2>2
<1>9. ASSUME NEW d \in Acting'
      PROVE  Known(port[d])' /\ inst'[port'[d]].client = d
  <2>1. d \in Client /\ pc'[d] # "none" /\ ~cancelled'[d]
    BY DEF Acting
  <2>2. CASE d = c
    <3>1. port'[d] = p /\ inst'[p] = [pane |-> w, client |-> c]
      BY <1>1, <1>2, <1>3, <2>2 DEF StoreType
    <3>2. inst'[p] # NoInstance
      BY <1>1, <3>1, NothingAssumption DEF Instance
    <3> QED BY <2>2, <3>1, <3>2 DEF Known
  <2>3. CASE d # c
    <3>1. pc[d] # "none" /\ port'[d] = port[d]
      BY <1>2, <1>3, <2>1, <2>3 DEF StoreType
    <3>2. ~cancelled[d] /\ ~(Known(p) /\ d = inst[p].client)
      BY <1>2, <1>3, <2>1, CancelledType
    <3>3. Known(port[d]) /\ inst[port[d]].client = d
      BY <2>1, <3>1, <3>2 DEF StoreInv, OneClientPerInstance, Acting
    <3>4. port[d] # p
      BY <3>2, <3>3
    <3>5. port[d] \in Port
      BY <2>1, <3>1 DEF StoreInv, ClientsSane
    <3>6. inst'[port[d]] = inst[port[d]]
      BY <1>2, <1>3, <3>4, <3>5 DEF StoreType
    <3> QED BY <3>1, <3>3, <3>6 DEF Known
  <2> QED BY <2>2, <2>3
<1> QED BY <1>4, <1>7, <1>8, <1>9 DEF StoreInv, OneClientPerInstance

\* Store.Remove by the scanner: the client of the instance stops acting.
LEMMA RemoveKeepsStore ==
  ASSUME StoreInv, NEW p \in Port, Remove(p)
  PROVE  StoreInv'
<1>1. StoreType
  BY DEF StoreInv
<1>2. /\ inst' = [inst EXCEPT ![p] = NoInstance]
      /\ cancelled' = CancelledAt(p)
      /\ pc' = pc /\ port' = port /\ fails' = fails
  BY DEF Remove
<1>3. StoreType'
  BY <1>1, <1>2, CancelledType DEF StoreType
<1>4. ClientsSane'
  <2>1. Known(p) => inst[p].client \in Acting
    BY DEF StoreInv, OneClientPerInstance
  <2>2. \A d \in Client : cancelled'[d] => cancelled[d] \/ pc[d] # "none"
    BY <1>1, <1>2, <2>1, CancelledType DEF Acting
  <2> QED BY <1>2, <2>2 DEF StoreInv, ClientsSane
<1>5. ASSUME NEW q \in Port, Known(q)'
      PROVE  inst'[q].client \in Acting' /\ port'[inst'[q].client] = q
  <2>1. q # p /\ Known(q) /\ inst'[q] = inst[q]
    BY <1>1, <1>2, <1>5 DEF Known, StoreType
  <2>2. /\ inst[q].client \in Acting /\ port[inst[q].client] = q
        /\ Known(p) => port[inst[p].client] = p
    BY <2>1 DEF StoreInv, OneClientPerInstance
  <2>3. ~(Known(p) /\ inst[q].client = inst[p].client)
    BY <2>1, <2>2
  <2>4. inst[q].client \in Client /\ ~cancelled'[inst[q].client]
    BY <1>1, <1>2, <2>2, <2>3, CancelledType DEF Acting
  <2> QED BY <1>2, <2>1, <2>2, <2>4 DEF Acting
<1>6. ASSUME NEW d \in Acting'
      PROVE  Known(port[d])' /\ inst'[port'[d]].client = d
  <2>1. d \in Client /\ pc[d] # "none" /\ ~cancelled'[d]
    BY <1>2 DEF Acting
  <2>2. ~cancelled[d] /\ ~(Known(p) /\ d = inst[p].client)
    BY <1>1, <1>2, <2>1, CancelledType
  <2>3. Known(port[d]) /\ inst[port[d]].client = d /\ port[d] \in Port
    BY <2>1, <2>2
       DEF StoreInv, ClientsSane, OneClientPerInstance, Acting
  <2>4. inst'[port[d]] = inst[port[d]]
    BY <1>1, <1>2, <2>2, <2>3 DEF StoreType
  <2> QED BY <1>2, <2>3, <2>4 DEF Known
<1> QED BY <1>3, <1>4, <1>5, <1>6 DEF StoreInv, OneClientPerInstance

\* A step in which one client goes on, neither starting nor ending.
LEMMA RunningKeepsStore ==
  ASSUME StoreInv, NEW c \in Client, pc[c] # "none",
         NEW x \in PC \ {"none"}, pc' = [pc EXCEPT ![c] = x],
         fails' \in [Client -> Nat], UNCHANGED <<inst, port, cancelled>>
  PROVE  StoreInv'
<1>1. Acting' = Acting
  BY DEF Acting, StoreInv, StoreType
<1>2. StoreType' /\ ClientsSane'
  BY DEF StoreInv, StoreType, ClientsSane
<1>3. OneClientPerInstance'
  BY <1>1 DEF StoreInv, OneClientPerInstance, Known
<1> QED BY <1>2, <1>3 DEF StoreInv

\* The end of a client that was cancelled.
LEMMA StopKeepsStore ==
  ASSUME StoreInv, NEW c \in Client, Stop(c)
  PROVE  StoreInv'
<1>1. /\ cancelled[c] /\ inst' = inst
      /\ pc' = [pc EXCEPT ![c] = "none"] /\ port' = [port EXCEPT ![c] = NoPort]
      /\ fails' = [fails EXCEPT ![c] = 0]
      /\ cancelled' = [cancelled EXCEPT ![c] = FALSE]
  BY DEF Stop, Gone
<1>2. StoreType
  BY DEF StoreInv
<1>3. StoreType' /\ ClientsSane'
  BY <1>1 DEF StoreInv, StoreType, ClientsSane, PC
<1>4. Acting' = Acting
  BY <1>1, <1>2 DEF Acting, StoreType
<1>5. \A d \in Acting : port'[d] = port[d]
  BY <1>1, <1>2 DEF Acting, StoreType
<1>6. OneClientPerInstance'
  BY <1>1, <1>4, <1>5 DEF StoreInv, OneClientPerInstance, Known
<1> QED BY <1>3, <1>6 DEF StoreInv

\* The end of a client that gave up, whoever has its port by now.
LEMMA RemoveDeadKeepsStore ==
  ASSUME StoreInv, NEW c \in Client, RemoveDead(c)
  PROVE  StoreInv'
<1> DEFINE p == port[c]
<1>1. /\ pc[c] = "remove" /\ p \in Port
      /\ inst' = [inst EXCEPT ![p] = NoInstance]
      /\ cancelled' = [CancelledAt(p) EXCEPT ![c] = FALSE]
      /\ pc' = [pc EXCEPT ![c] = "none"] /\ port' = [port EXCEPT ![c] = NoPort]
      /\ fails' = [fails EXCEPT ![c] = 0]
  BY DEF RemoveDead, Gone, StoreInv, ClientsSane
<1> HIDE DEF p
<1>2. StoreType
  BY DEF StoreInv
<1>3. \A d \in Client \ {c} :
        cancelled'[d] <=> cancelled[d] \/ (Known(p) /\ d = inst[p].client)
  BY <1>1, <1>2, CancelledType DEF StoreType
<1>4. StoreType'
  BY <1>1, <1>2, CancelledType DEF StoreType, PC
<1>5. ~cancelled'[c] /\ pc'[c] = "none"
  BY <1>1, <1>2, CancelledType DEF StoreType
<1>6. \A d \in Client \ {c} : pc'[d] = pc[d] /\ port'[d] = port[d]
  BY <1>1, <1>2 DEF StoreType
<1>7. ClientsSane'
  <2> SUFFICES ASSUME NEW d \in Client
               PROVE  IF pc'[d] = "none" THEN ~cancelled'[d]
                                         ELSE port'[d] \in Port
    BY DEF ClientsSane
  <2>1. CASE d = c
    BY <1>5, <2>1
  <2>2. CASE d # c
    <3>1. Known(p) => inst[p].client \in Acting
      BY <1>1 DEF StoreInv, OneClientPerInstance
    <3> QED BY <1>3, <1>6, <2>2, <3>1 DEF StoreInv, ClientsSane, Acting
  <2> QED BY <2>1, <2>2
<1>8. ASSUME NEW q \in Port, Known(q)'
      PROVE  inst'[q].client \in Acting' /\ port'[inst'[q].client] = q
  <2> DEFINE d == inst[q].client
  <2>1. q # p /\ Known(q) /\ inst'[q] = inst[q]
    BY <1>1, <1>2, <1>8 DEF Known, StoreType
  <2>2. /\ d \in Acting /\ port[d] = q
        /\ Known(p) => port[inst[p].client] = p
    BY <1>1, <2>1 DEF StoreInv, OneClientPerInstance
  <2>3. d # c /\ ~(Known(p) /\ d = inst[p].client)
    BY <2>1, <2>2 DEF p
  <2>4. d \in Client \ {c} /\ pc[d] # "none" /\ ~cancelled[d]
    BY <2>2, <2>3 DEF Acting
  <2>5. pc'[d] # "none" /\ ~cancelled'[d] /\ port'[d] = q
    BY <1>3, <1>6, <2>2, <2>3, <2>4
  <2> QED BY <2>1, <2>4, <2>5 DEF Acting
<1>9. ASSUME NEW d \in Acting'
      PROVE  Known(port[d])' /\ inst'[port'[d]].client = d
  <2>1. d \in Client \ {c} /\ pc'[d] # "none" /\ ~cancelled'[d]
    BY <1>5 DEF Acting
  <2>2. /\ pc[d] # "none" /\ port'[d] = port[d] /\ ~cancelled[d]
        /\ ~(Known(p) /\ d = inst[p].client)
    BY <1>3, <1>6, <2>1
  <2>3. Known(port[d]) /\ inst[port[d]].client = d /\ port[d] \in Port
    BY <2>1, <2>2
       DEF StoreInv, ClientsSane, OneClientPerInstance, Acting
  <2>4. inst'[port[d]] = inst[port[d]]
    BY <1>1, <1>2, <2>2, <2>3 DEF StoreType
  <2> QED BY <2>2, <2>3, <2>4 DEF Known
<1> QED BY <1>4, <1>7, <1>8, <1>9 DEF StoreInv, OneClientPerInstance

\* The store of a process that is gone, or has just been started.
LEMMA EmptyKeepsStore ==
  ASSUME inst' = [p \in Port |-> NoInstance],
         pc' = [c \in Client |-> "none"], port' = [c \in Client |-> NoPort],
         cancelled' = [c \in Client |-> FALSE], fails' = [c \in Client |-> 0]
  PROVE  StoreInv'
BY DEF StoreInv, StoreType, ClientsSane, OneClientPerInstance, Acting, Known,
       PC

-----------------------------------------------------------------------------
(* The steps of Next.                                                      *)

LEMMA TypeSplits == TypeOK <=> StoreType /\ OtherType
BY DEF TypeOK, StoreType, OtherType

\* How many instances are shown at a pane is a number: ports are finite.
LEMMA TrackedCount ==
  ASSUME NEW w \in Target
  PROVE  Cardinality(TrackedAt(w)) \in Nat
<1>1. TrackedAt(w) \subseteq Port
  BY DEF TrackedAt
<1>2. IsFiniteSet(TrackedAt(w))
  BY <1>1, PortAssumption, FS_Subset
<1> QED BY <1>2, FS_CardinalityType

LEMMA StoreUnchanged ==
  ASSUME StoreInv, UNCHANGED storeVars
  PROVE  StoreInv'
BY DEF storeVars, StoreInv, StoreType, ClientsSane, OneClientPerInstance,
       Acting, Known

LEMMA InitInv == Init => IInv
<1> SUFFICES ASSUME Init PROVE IInv
  OBVIOUS
<1>1. StoreInv
  BY DEF Init, EmptyStore, StoreInv, StoreType, ClientsSane,
         OneClientPerInstance, Acting, Known, PC
<1>2. OtherType /\ ScannerSane
  BY DEF Init, Nothing, OtherType, ScannerSane, SPC
<1> QED BY <1>1, <1>2 DEF IInv

\* Launches and exits of agents.
LEMMA AgentStep ==
  ASSUME IInv, NEW w \in Target,
         \/ \E p \in Port : LaunchWrapped(w, p) \/ LaunchPlain(w, p)
         \/ LaunchClaude(w) \/ Quit(w)
  PROVE  IInv'
<1>1. UNCHANGED storeVars /\ UNCHANGED scannerVars
  BY DEF LaunchWrapped, LaunchPlain, LaunchClaude, Quit
<1>2. ScannerSane'
  BY <1>1 DEF IInv, ScannerSane, scannerVars
<1>3. OtherType'
  <2> USE DEF IInv, OtherType, scannerVars, serverVars
  <2>1. ASSUME NEW p \in Port, LaunchWrapped(w, p) PROVE OtherType'
    BY <1>1, <2>1 DEF LaunchWrapped, Registration
  <2>2. ASSUME NEW p \in Port, LaunchPlain(w, p) PROVE OtherType'
    BY <1>1, <2>2 DEF LaunchPlain
  <2>3. CASE LaunchClaude(w)
    BY <1>1, <2>3 DEF LaunchClaude
  <2>4. CASE Quit(w)
    BY <1>1, <2>4 DEF Quit
  <2> QED BY <2>1, <2>2, <2>3, <2>4
<1> QED BY <1>1, <1>2, <1>3, StoreUnchanged DEF IInv

\* Registrations, handled or refused.
LEMMA RegistrationStep ==
  ASSUME IInv, NEW r \in regs, HandleRegister(r) \/ Refuse(r)
  PROVE  IInv'
<1>1. r.port \in Port /\ r.pane \in Target
  BY DEF IInv, OtherType, Registration
<1>2. OtherType' /\ ScannerSane'
  BY DEF HandleRegister, Refuse, IInv, OtherType, ScannerSane, agentVars,
         serverVars, scannerVars
<1>3. StoreInv'
  <2>1. CASE HandleRegister(r)
    BY <1>1, <2>1, RegisterKeepsStore DEF HandleRegister, IInv
  <2>2. CASE Refuse(r)
    BY <2>2, StoreUnchanged DEF Refuse, IInv
  <2> QED BY <2>1, <2>2
<1> QED BY <1>2, <1>3 DEF IInv

\* The steps of an SSE client.
LEMMA ClientStepInv ==
  ASSUME IInv, NEW c \in Client, ClientStep(c)
  PROVE  IInv'
<1>1. OtherType' /\ ScannerSane'
  BY DEF ClientStep, Connect, ConnectFails, StreamEnds, Stop, NotCancelled,
         RemoveDead, Glitch, outside, agentVars, serverVars, scannerVars,
         IInv, OtherType, ScannerSane
<1>2. StoreInv'
  <2> USE DEF IInv
  <2>1. CASE Connect(c)
    BY <2>1, RunningKeepsStore DEF Connect, PC, StoreInv, StoreType
  <2>2. CASE ConnectFails(c)
    <3>1. /\ fails' \in [Client -> Nat] /\ pc[c] # "none"
          /\ UNCHANGED <<inst, port, cancelled>>
      BY <2>2 DEF ConnectFails, Failed, StoreInv, StoreType
    <3>2. PICK x \in {"ended", "connect"} : pc' = [pc EXCEPT ![c] = x]
      BY <2>2 DEF ConnectFails, Failed
    <3> QED BY <3>1, <3>2, RunningKeepsStore DEF PC
  <2>3. CASE StreamEnds(c)
    <3>1. /\ fails' \in [Client -> Nat] /\ pc[c] # "none"
          /\ UNCHANGED <<inst, port, cancelled>>
      BY <2>3 DEF StreamEnds, Failed, StoreInv, StoreType
    <3>2. PICK x \in {"ended", "connect"} : pc' = [pc EXCEPT ![c] = x]
      BY <2>3 DEF StreamEnds, Failed
    <3> QED BY <3>1, <3>2, RunningKeepsStore DEF PC
  <2>4. CASE Stop(c)
    BY <2>4, StopKeepsStore
  <2>5. CASE NotCancelled(c)
    BY <2>5, RunningKeepsStore DEF NotCancelled, PC, StoreInv, StoreType
  <2>6. CASE RemoveDead(c)
    BY <2>6, RemoveDeadKeepsStore
  <2> QED BY <2>1, <2>2, <2>3, <2>4, <2>5, <2>6 DEF ClientStep
<1> QED BY <1>1, <1>2 DEF IInv

\* The steps of the pane scanner.
LEMMA ScanStep ==
  ASSUME IInv, Scan
  PROVE  IInv'
<1> USE DEF IInv, OtherType, ScannerSane, world, agentVars, serverVars, SPC
<1>1. CASE ListPanes
  BY <1>1, StoreUnchanged DEF ListPanes
<1>2. ASSUME NEW w \in Target, Visit(w) PROVE IInv'
  BY <1>2, StoreUnchanged DEF Visit
<1>3. CASE Discover
  BY <1>3, StoreUnchanged DEF Discover, Continue
<1>4. CASE RegisterFound
  BY <1>4, RegisterKeepsStore DEF RegisterFound, Continue
<1>5. CASE TrackedTargets
  <2>1. gone' \in [Target -> Nat]
    BY <1>5, TrackedCount DEF TrackedTargets
  <2> QED BY <1>5, <2>1, StoreUnchanged DEF TrackedTargets
<1>6. ASSUME NEW w \in Target, PaneGone(w) PROVE IInv'
  <2>1. gone' \in [Target -> Nat]
    BY <1>6 DEF PaneGone
  <2> QED BY <1>6, <2>1, StoreUnchanged DEF PaneGone, TrackedAt
<1>7. CASE RemoveGone
  BY <1>7, RemoveKeepsStore DEF RemoveGone
<1>8. CASE ScanDone
  BY <1>8, StoreUnchanged DEF ScanDone
<1> QED BY <1>1, <1>2, <1>3, <1>4, <1>5, <1>6, <1>7, <1>8 DEF Scan

LEMMA StepInv == IInv /\ [Next]_vars => IInv'
<1> SUFFICES ASSUME IInv, [Next]_vars PROVE IInv'
  OBVIOUS
<1>1. ASSUME NEW w \in Target,
             \/ \E p \in Port : LaunchWrapped(w, p) \/ LaunchPlain(w, p)
             \/ LaunchClaude(w) \/ Quit(w)
      PROVE  IInv'
  BY <1>1, AgentStep
<1>2. ASSUME NEW r \in regs, HandleRegister(r) \/ Refuse(r) PROVE IInv'
  BY <1>2, RegistrationStep
<1>3. ASSUME NEW c \in Client, ClientStep(c) PROVE IInv'
  BY <1>3, ClientStepInv
<1>4. CASE Scan
  BY <1>4, ScanStep
<1>5. CASE Start
  BY <1>5, StoreUnchanged
     DEF Start, IInv, OtherType, ScannerSane, agentVars, scannerVars
<1>6. CASE Crash
  <2>1. StoreInv'
    BY <1>6, EmptyKeepsStore DEF Crash
  <2>2. OtherType' /\ ScannerSane'
    BY <1>6 DEF Crash, IInv, OtherType, ScannerSane, agentVars, Nothing, SPC
  <2> QED BY <2>1, <2>2 DEF IInv
<1>7. CASE UNCHANGED vars
  BY <1>7, StoreUnchanged
     DEF vars, storeVars, agentVars, serverVars, scannerVars, IInv, OtherType,
         ScannerSane
<1> QED BY <1>1, <1>2, <1>3, <1>4, <1>5, <1>6, <1>7 DEF Next

\* The inductive invariant: types, clients and instances that belong together
\* one to one, and a scanner that has in hand what it is about to use.
THEOREM Inductive == Spec => []IInv
<1> QED BY InitInv, StepInv, PTL DEF Spec

\* Every variable keeps its type.
THEOREM TypeCorrect == Spec => []TypeOK
<1>1. IInv => TypeOK
  BY TypeSplits DEF IInv, StoreInv
<1> QED BY <1>1, Inductive, PTL

\* One instance has one SSE client: no instance without a client that would
\* notice its end, no client left over that was not cancelled.
THEOREM OneClient == Spec => []OneClientPerInstance
<1>1. IInv => OneClientPerInstance
  BY DEF IInv, StoreInv
<1> QED BY <1>1, Inductive, PTL
=============================================================================
