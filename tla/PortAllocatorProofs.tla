------------------------- MODULE PortAllocatorProofs -------------------------
(***************************************************************************)
(* Proofs about PortAllocator, for every range of ports and every set of   *)
(* wrappers.                                                               *)
(*                                                                         *)
(* HeldOnce is not inductive: it says nothing of a port before it is       *)
(* handed out for the second time.  ScanPassed says how far the scan has   *)
(* come: a wrapper has been passed by everything between its port and the  *)
(* position of the scan, going round.                                      *)
(***************************************************************************)
EXTENDS PortAllocator, TLAPS

\* The ports after p and before nextPort, going round the range.
Behind(p) ==
  {q \in Port : IF p < nextPort THEN p < q /\ q < nextPort
                                ELSE q > p \/ q < nextPort}

\* The ports from nextPort on and before c, going round the range.
Skipped(c) ==
  {q \in Port : IF nextPort <= c THEN nextPort <= q /\ q < c
                                 ELSE q >= nextPort \/ q < c}

\* A pending wrapper was passed by every port that the scan came by since.
ScanPassed ==
  \A w \in Wrapper : Pending(w) => Behind(held[w]) \subseteq passed[w]

IInv == TypeOK /\ ScanPassed /\ HeldOnce

-----------------------------------------------------------------------------
\* What the scan steps over is in use (the loop of handlePort).
LEMMA ScanSkips ==
  ASSUME TypeOK, NEW c \in Port, FirstFree(c)
  PROVE  c \notin known /\ Skipped(c) \subseteq known
<1>1. nextPort \in Port
  BY DEF TypeOK
<1>2. PICK i \in 0 .. MaxPort - MinPort :
        /\ c = Candidate(i) /\ c \notin known
        /\ \A j \in 0 .. i - 1 : Candidate(j) \in known
  BY DEF FirstFree
<1>3. ASSUME NEW q \in Skipped(c)
      PROVE  q \in known
  <2>1. \E j \in 0 .. i - 1 : Candidate(j) = q
    <3>1. CASE q >= nextPort
      <4>1. q - nextPort \in 0 .. i - 1
        BY <1>1, <1>2, <3>1, RangeAssumption DEF Skipped, Candidate, Port
      <4>2. Candidate(q - nextPort) = q
        BY <1>1, <3>1, RangeAssumption DEF Skipped, Candidate, Port
      <4> QED
        BY <4>1, <4>2
    <3>2. CASE ~(q >= nextPort)
      <4> DEFINE j == q - nextPort + (MaxPort - MinPort + 1)
      <4>1. j \in 0 .. i - 1
        BY <1>1, <1>2, <3>2, RangeAssumption DEF Skipped, Candidate, Port
      <4>2. Candidate(j) = q
        BY <1>1, <3>2, RangeAssumption DEF Skipped, Candidate, Port
      <4> QED
        BY <4>1, <4>2
    <3> QED
      BY <3>1, <3>2
  <2> QED
    BY <2>1, <1>2
<1> QED
  BY <1>2, <1>3

\* TypeOK holds at first.
LEMMA InitType == Init => TypeOK
<1> SUFFICES ASSUME Init PROVE TypeOK
  OBVIOUS
<1>1. nextPort \in Port
  BY RangeAssumption DEF Init, Port
<1> QED
  BY <1>1 DEF Init, TypeOK

\* Every step keeps the types, and the scan in its range.
LEMMA NextType == TypeOK /\ [Next]_vars => TypeOK'
<1> SUFFICES ASSUME TypeOK, [Next]_vars
             PROVE  TypeOK'
  OBVIOUS
<1>1. ASSUME NEW w \in Wrapper, NEW c \in Port, HandlePort(w, c)
      PROVE  TypeOK'
  <2>1. Following(c) \in Port
    BY RangeAssumption DEF Following, Port
  <2>2. \A v \in Wrapper : passed'[v] \subseteq Port
    BY <1>1 DEF HandlePort, TypeOK
  <2>3. passed' \in [Wrapper -> SUBSET Port]
    BY <1>1, <2>2 DEF HandlePort
  <2> QED
    BY <1>1, <2>1, <2>3 DEF HandlePort, TypeOK
<1>2. ASSUME NEW w \in Wrapper, NEW c \in Port, RandomPort(w, c)
      PROVE  TypeOK'
  BY <1>2 DEF RandomPort, TypeOK
<1>3. ASSUME NEW w \in Wrapper, Register(w)
      PROVE  TypeOK'
  <2>1. up => held[w] \in Port
    BY <1>3 DEF Register, TypeOK
  <2> QED
    BY <1>3, <2>1 DEF Register, TypeOK
<1>4. ASSUME NEW w \in Wrapper, Leave(w)
      PROVE  TypeOK'
  BY <1>4 DEF Leave, TypeOK
<1>5. ASSUME NEW p \in Port, Discover(p) \/ Remove(p)
      PROVE  TypeOK'
  BY <1>5 DEF Discover, Remove, TypeOK
<1>6. CASE Stop
  <2>1. MinPort \in Port
    BY RangeAssumption DEF Port
  <2> QED
    BY <1>6, <2>1 DEF Stop, TypeOK
<1>7. CASE Start
  BY <1>7 DEF Start, TypeOK
<1>8. CASE UNCHANGED vars
  BY <1>8 DEF vars, TypeOK
<1> QED
  BY <1>1, <1>2, <1>3, <1>4, <1>5, <1>6, <1>7, <1>8 DEF Next

-----------------------------------------------------------------------------
\* Handing out c moves the scan by the ports it skipped, and by c itself.
LEMMA ScanMoves ==
  ASSUME TypeOK, NEW c \in Port, nextPort' = Following(c), NEW p \in Port
  PROVE  /\ Behind(p)' \subseteq Behind(p) \union Skipped(c) \union {c}
         /\ p = c => Port \ {p} \subseteq Behind(p) \union Skipped(c)
<1>1. nextPort \in Port
  BY DEF TypeOK
<1>2. Behind(p)' \subseteq Behind(p) \union Skipped(c) \union {c}
  BY <1>1, RangeAssumption DEF Behind, Skipped, Following, Port
<1>3. p = c => Port \ {p} \subseteq Behind(p) \union Skipped(c)
  BY <1>1, RangeAssumption DEF Behind, Skipped, Port
<1> QED
  BY <1>2, <1>3

\* A step that hands out no port, and no port anew, keeps the invariant.
LEMMA OthersKeep ==
  ASSUME ScanPassed, HeldOnce,
         nextPort' = nextPort, passed' = passed,
         \A w \in Wrapper : Pending(w)' => Pending(w) /\ held'[w] = held[w]
  PROVE  ScanPassed' /\ HeldOnce'
<1>1. ScanPassed'
  BY DEF ScanPassed, Behind
<1>2. HeldOnce'
  BY DEF HeldOnce
<1> QED
  BY <1>1, <1>2

\* handlePort keeps the invariant.
LEMMA HandlePortKeeps ==
  ASSUME IInv, NEW w \in Wrapper, NEW c \in Port, HandlePort(w, c)
  PROVE  ScanPassed' /\ HeldOnce'
<1>1. TypeOK /\ ScanPassed /\ HeldOnce
  BY DEF IInv
<1>2. nextPort' = Following(c) /\ FirstFree(c)
  BY DEF HandlePort
<1>3. Skipped(c) \subseteq known
  BY <1>1, <1>2, ScanSkips
<1>4. held'[w] = c /\ passed'[w] = {}
  BY <1>1 DEF HandlePort, TypeOK
<1>5. ASSUME NEW v \in Wrapper, v # w
      PROVE  /\ held'[v] = held[v] /\ Pending(v)' = Pending(v)
             /\ passed'[v] = passed[v] \union known \union {c}
  BY <1>1, <1>5 DEF HandlePort, TypeOK, Pending
<1>6. ASSUME NEW v \in Wrapper, Pending(v)
      PROVE  held[v] \in Port /\ Behind(held[v]) \subseteq passed[v]
  BY <1>1, <1>6 DEF TypeOK, ScanPassed, Pending
<1>7. ScanPassed'
  <2> SUFFICES ASSUME NEW v \in Wrapper, Pending(v)'
               PROVE  Behind(held[v])' \subseteq passed'[v]
    BY DEF ScanPassed
  <2>1. CASE v = w
    <3>1. Behind(c)' = {}
      BY <1>2, RangeAssumption DEF Behind, Following, Port
    <3>2. Behind(held[v])' = Behind(c)'
      BY <2>1, <1>4 DEF Behind
    <3> QED
      BY <3>1, <3>2
  <2>2. CASE v # w
    <3>1. Behind(held[v])'
            \subseteq Behind(held[v]) \union Skipped(c) \union {c}
      <4>1. PICK p \in Port : p = held[v] /\ p = held'[v]
        BY <2>2, <1>5, <1>6
      <4>2. Behind(p)' \subseteq Behind(p) \union Skipped(c) \union {c}
        BY <1>1, <1>2, ScanMoves
      <4>3. Behind(held[v])' = Behind(p)'
        BY <4>1 DEF Behind
      <4> QED
        BY <4>1, <4>2, <4>3
    <3> QED
      BY <3>1, <2>2, <1>3, <1>5, <1>6
  <2> QED
    BY <2>1, <2>2
<1>8. ASSUME NEW v \in Wrapper, v # w, Pending(v), held[v] = c
      PROVE  Port \ {held'[v]} \subseteq passed'[v]
  <2>1. Port \ {c} \subseteq Behind(c) \union Skipped(c)
    BY <1>1, <1>2, ScanMoves
  <2> QED
    BY <2>1, <1>3, <1>5, <1>6, <1>8
<1>9. HeldOnce'
  <2> SUFFICES ASSUME NEW u \in Wrapper, NEW v \in Wrapper, u # v,
                      Pending(u)', Pending(v)', held'[u] = held'[v]
               PROVE  \E x \in {u, v} : Port \ {held'[x]} \subseteq passed'[x]
    BY DEF HeldOnce
  <2>1. CASE u = w
    BY <2>1, <1>4, <1>5, <1>8
  <2>2. CASE v = w
    BY <2>2, <1>4, <1>5, <1>8
  <2>3. CASE u # w /\ v # w
    <3>1. PICK x \in {u, v} : Port \ {held[x]} \subseteq passed[x]
      BY <2>3, <1>1, <1>5 DEF HeldOnce
    <3> QED
      BY <3>1, <2>3, <1>5
  <2> QED
    BY <2>1, <2>2, <2>3
<1> QED
  BY <1>7, <1>9

\* The invariant is inductive.
LEMMA NextKeeps == IInv /\ [Next]_vars => IInv'
<1> SUFFICES ASSUME IInv, [Next]_vars
             PROVE  IInv'
  OBVIOUS
<1>1. TypeOK /\ ScanPassed /\ HeldOnce
  BY DEF IInv
<1>2. TypeOK'
  BY <1>1, NextType
<1>3. ASSUME NEW w \in Wrapper, NEW c \in Port, HandlePort(w, c)
      PROVE  ScanPassed' /\ HeldOnce'
  BY <1>3, HandlePortKeeps
<1>4. ASSUME NEW w \in Wrapper, NEW c \in Port, RandomPort(w, c)
      PROVE  ScanPassed' /\ HeldOnce'
  <2>1. \A v \in Wrapper : Pending(v)' => Pending(v) /\ held'[v] = held[v]
    BY <1>1, <1>4 DEF RandomPort, Pending, TypeOK
  <2> QED
    BY <2>1, <1>1, <1>4, OthersKeep DEF RandomPort
<1>5. ASSUME NEW w \in Wrapper, Register(w) \/ Leave(w)
      PROVE  ScanPassed' /\ HeldOnce'
  <2>1. \A v \in Wrapper : Pending(v)' => Pending(v) /\ held'[v] = held[v]
    BY <1>1, <1>5 DEF Register, Leave, Pending, TypeOK
  <2> QED
    BY <2>1, <1>1, <1>5, OthersKeep DEF Register, Leave
<1>6. ASSUME NEW p \in Port, Discover(p) \/ Remove(p)
      PROVE  ScanPassed' /\ HeldOnce'
  <2>1. \A v \in Wrapper : Pending(v)' => Pending(v) /\ held'[v] = held[v]
    BY <1>6 DEF Discover, Remove, Pending
  <2> QED
    BY <2>1, <1>1, <1>6, OthersKeep DEF Discover, Remove
<1>7. CASE Stop
  <2>1. \A v \in Wrapper : ~Pending(v)'
    BY <1>7 DEF Stop, Pending
  <2> QED
    BY <2>1, <1>2 DEF ScanPassed, HeldOnce, IInv
<1>8. CASE Start \/ UNCHANGED vars
  <2>1. \A v \in Wrapper : Pending(v)' => Pending(v) /\ held'[v] = held[v]
    BY <1>8 DEF Start, vars, Pending
  <2> QED
    BY <2>1, <1>1, <1>2, <1>8, OthersKeep DEF Start, vars, IInv
<1> QED
  BY <1>2, <1>3, <1>4, <1>5, <1>6, <1>7, <1>8 DEF Next, IInv

-----------------------------------------------------------------------------
\* The invariant holds of every behaviour.
LEMMA Invariance == Spec => []IInv
<1>1. Init => IInv
  <2>1. Init => ScanPassed /\ HeldOnce
    BY DEF Init, ScanPassed, HeldOnce, Pending
  <2> QED
    BY <2>1, InitType DEF IInv
<1> QED
  BY <1>1, NextKeeps, PTL DEF Spec

\* The types hold, and the position of the scan never leaves the range
\* (nextPort, which wraps when it passes maxPort).
THEOREM ScanStaysInRange == Spec => []TypeOK
<1>1. IInv => TypeOK
  BY DEF IInv
<1> QED
  BY <1>1, Invariance, PTL

\* A port that no instance has registered yet is handed out again only after
\* the scan has gone round, whatever the size of the range, and however many
\* wrappers wait (handlePort).
THEOREM PortHeldOnce == Spec => []HeldOnce
<1>1. IInv => HeldOnce
  BY DEF IInv
<1> QED
  BY <1>1, Invariance, PTL

=============================================================================
