----------------------- MODULE ClaudeTrackingProofs ------------------------
(***************************************************************************)
(* Proofs about ClaudeTracking, for any number of panes, sessions,         *)
(* launches, reports and restarts.                                         *)
(***************************************************************************)
EXTENDS ClaudeTracking, SequenceTheorems, FiniteSetTheorems, TLAPS

\* Where the scanner is tells which of its variables are set; the object it
\* is about to write to is the one of the session it has just registered.
ScannerInv ==
  /\ spc \in {"find", "get", "assign", "register", "write"} => pane \in Target
  /\ spc \in {"get", "assign", "register", "write", "remove"} => found \in Sid
  /\ handle # NoSid => spc = "write" /\ handle = found /\ Known(handle)

\* Without a server there is no store and no scanner.
DownInv ==
  ~up => /\ spc = "idle" /\ pending = <<>>
         /\ \A s \in Sid : ~Known(s)

TypeInv == TypeOK /\ ScannerInv /\ DownInv

-----------------------------------------------------------------------------
(* Sequences, and the calls of the store.                                  *)

\* RemoveAt moves what comes after the removed place up by one.
LEMMA RemoveAtProperties ==
  ASSUME NEW S, NEW q \in Seq(S), NEW i \in DOMAIN q
  PROVE  /\ SE!RemoveAt(q, i) \in Seq(S)
         /\ Len(SE!RemoveAt(q, i)) = Len(q) - 1
         /\ \A j \in 1 .. Len(q) - 1 :
              SE!RemoveAt(q, i)[j] = IF j < i THEN q[j] ELSE q[j + 1]
<1> DEFINE a == SubSeq(q, 1, i - 1)
           b == SubSeq(q, i + 1, Len(q))
<1>1. Len(q) \in Nat /\ i \in 1 .. Len(q)
  BY LenProperties
<1>2. \A j \in 1 .. Len(q) : q[j] \in S
  BY ElementOfSeq
<1>3. /\ a \in Seq(S) /\ Len(a) = i - 1
      /\ \A j \in 1 .. i - 1 : a[j] = q[j]
  <2>1. \A j \in 1 .. i - 1 : q[j] \in S
    BY <1>1, <1>2
  <2>2. /\ a \in Seq(S)
        /\ Len(a) = IF 1 <= i - 1 THEN (i - 1) - 1 + 1 ELSE 0
        /\ \A j \in 1 .. (i - 1) - 1 + 1 : a[j] = q[1 + j - 1]
    BY <1>1, <2>1, SubSeqProperties
  <2> QED
    BY <1>1, <2>2
<1>4. /\ b \in Seq(S) /\ Len(b) = Len(q) - i
      /\ \A j \in 1 .. Len(q) - i : b[j] = q[i + j]
  <2>1. \A j \in i + 1 .. Len(q) : q[j] \in S
    BY <1>1, <1>2
  <2>2. /\ b \in Seq(S)
        /\ Len(b) = IF i + 1 <= Len(q) THEN Len(q) - (i + 1) + 1 ELSE 0
        /\ \A j \in 1 .. Len(q) - (i + 1) + 1 : b[j] = q[(i + 1) + j - 1]
    BY <1>1, <2>1, SubSeqProperties
  <2> QED
    BY <1>1, <2>2
<1>5. /\ a \o b \in Seq(S) /\ Len(a \o b) = Len(a) + Len(b)
      /\ \A j \in 1 .. Len(a) + Len(b) :
           (a \o b)[j] = IF j <= Len(a) THEN a[j] ELSE b[j - Len(a)]
  BY <1>3, <1>4, ConcatProperties
<1>6. SE!RemoveAt(q, i) = a \o b
  BY DEF SE!RemoveAt
<1> HIDE DEF a, b
<1>7. ASSUME NEW j \in 1 .. Len(q) - 1
      PROVE  (a \o b)[j] = IF j < i THEN q[j] ELSE q[j + 1]
  <2>1. CASE j < i
    BY <1>1, <1>3, <1>4, <1>5, <2>1
  <2>2. CASE ~(j < i)
    <3>1. (a \o b)[j] = b[j - Len(a)]
      <4>1. j \in 1 .. Len(a) + Len(b) /\ ~(j <= Len(a))
        BY <1>1, <1>3, <1>4, <2>2
      <4> QED
        BY <1>5, <4>1
    <3>2. j - Len(a) \in 1 .. Len(q) - i /\ i + (j - Len(a)) = j + 1
      BY <1>1, <1>3, <2>2
    <3> QED
      BY <1>4, <2>2, <3>1, <3>2
  <2> QED
    BY <2>1, <2>2
<1>8. (i - 1) + (Len(q) - i) = Len(q) - 1
  BY <1>1
<1>9. Len(a \o b) = Len(q) - 1
  BY <1>3, <1>4, <1>5, <1>8
<1> QED
  BY <1>5, <1>6, <1>7, <1>9

\* Sessions are records, and absence is not one.
LEMMA StoreFacts ==
  ASSUME TypeOK
  PROVE  /\ NoSession \notin Session
         /\ \A s \in Sid : Known(s) => sessions[s] \in Session
         /\ DOMAIN pending = 1 .. Len(pending) /\ Len(pending) \in Nat
         /\ \A i \in DOMAIN pending : pending[i] \in PendingReg
         /\ \A s \in Sid : /\ DOMAIN hooks[s] = 1 .. Len(hooks[s])
                           /\ Len(hooks[s]) \in Nat
                           /\ \A i \in DOMAIN hooks[s] : hooks[s][i] \in Hook
<1>1. pending \in Seq(PendingReg)
  BY DEF TypeOK, StoreType
<1>2. \A s \in Sid : hooks[s] \in Seq(Hook)
  BY DEF TypeOK
<1>3. \A s \in Sid : Known(s) => sessions[s] \in Session
  BY DEF TypeOK, StoreType, Known
<1> QED
  BY <1>1, <1>2, <1>3, NoSessionAssumption, LenProperties, ElementOfSeq

\* What Register makes of the store: other sessions are left alone; the
\* session is known afterwards, either with the pane and the state it had, or
\* idle at no pane or at that of a registration with its directory.
LEMMA RegisterEffect ==
  ASSUME TypeOK, NEW s \in Sid, NEW cwd \in Cwd, Register(s, cwd)
  PROVE  /\ StoreType' /\ Known(s)'
         /\ \A r \in Sid : r # s => sessions'[r] = sessions[r]
         /\ \/ /\ Known(s) /\ pending' = pending
               /\ sessions'[s].target = sessions[s].target
               /\ sessions'[s].state = sessions[s].state
            \/ /\ ~Known(s) /\ pending' = pending
               /\ sessions'[s].state = "idle"
               /\ sessions'[s].target = NoTarget
            \/ /\ ~Known(s) /\ sessions'[s].state = "idle"
               /\ \E i \in DOMAIN pending :
                    /\ pending[i].cwd = cwd
                    /\ sessions'[s].target = pending[i].target
                    /\ pending' = SE!RemoveAt(pending, i)
<1>1. NoSession \notin Session
  BY StoreFacts
<1>2. sessions \in [Sid -> Session \union {NoSession}]
  BY DEF TypeOK, StoreType
<1>3. CASE RegisterKnown(s, cwd)
  <2>1. sessions[s] \in Session
    BY <1>3, StoreFacts DEF RegisterKnown
  <2>2. [sessions[s] EXCEPT !.cwd = cwd] \in Session
    BY <2>1 DEF Session
  <2>3. sessions' = [sessions EXCEPT ![s] = [sessions[s] EXCEPT !.cwd = cwd]]
    BY <1>3 DEF RegisterKnown
  <2>4. /\ sessions'[s] = [sessions[s] EXCEPT !.cwd = cwd]
        /\ sessions' \in [Sid -> Session \union {NoSession}]
        /\ \A r \in Sid : r # s => sessions'[r] = sessions[r]
    BY <1>2, <2>2, <2>3
  <2>5. pending' = pending
    BY <1>3 DEF RegisterKnown
  <2>6. /\ sessions'[s].target = sessions[s].target
        /\ sessions'[s].state = sessions[s].state
    BY <2>1, <2>4 DEF Session
  <2>7. Known(s) /\ Known(s)'
    BY <1>1, <1>3, <2>2, <2>4 DEF RegisterKnown, Known
  <2> QED
    BY <2>4, <2>5, <2>6, <2>7 DEF TypeOK, StoreType
<1>4. CASE RegisterClaiming(s, cwd)
  <2>1. PICK i \in DOMAIN pending :
          /\ Match(cwd, i)
          /\ sessions' = [sessions EXCEPT ![s] =
                            NewSession(pending[i].target, cwd)]
          /\ pending' = SE!RemoveAt(pending, i)
    BY <1>4 DEF RegisterClaiming
  <2>2. pending[i] \in PendingReg /\ pending \in Seq(PendingReg)
    BY StoreFacts DEF TypeOK, StoreType
  <2>3. pending' \in Seq(PendingReg)
    BY <2>1, <2>2, RemoveAtProperties
  <2>4. /\ NewSession(pending[i].target, cwd) \in Session
        /\ NewSession(pending[i].target, cwd).state = "idle"
        /\ NewSession(pending[i].target, cwd).target = pending[i].target
    BY <2>2 DEF NewSession, Session, PendingReg, State
  <2>5. /\ sessions'[s] = NewSession(pending[i].target, cwd)
        /\ sessions' \in [Sid -> Session \union {NoSession}]
        /\ \A r \in Sid : r # s => sessions'[r] = sessions[r]
    BY <1>2, <2>1, <2>4
  <2>6. ~Known(s) /\ Known(s)' /\ pending[i].cwd = cwd
    BY <1>1, <1>4, <2>1, <2>4, <2>5 DEF RegisterClaiming, Known, Match
  <2> QED
    BY <2>1, <2>3, <2>4, <2>5, <2>6 DEF StoreType
<1>5. CASE RegisterUnclaimed(s, cwd)
  <2>1. /\ NewSession(NoTarget, cwd) \in Session
        /\ NewSession(NoTarget, cwd).state = "idle"
        /\ NewSession(NoTarget, cwd).target = NoTarget
    BY DEF NewSession, Session, State
  <2>2. /\ sessions'[s] = NewSession(NoTarget, cwd)
        /\ sessions' \in [Sid -> Session \union {NoSession}]
        /\ \A r \in Sid : r # s => sessions'[r] = sessions[r]
    BY <1>2, <1>5, <2>1 DEF RegisterUnclaimed
  <2>3. ~Known(s) /\ Known(s)' /\ pending' = pending
    BY <1>1, <1>5, <2>1, <2>2 DEF RegisterUnclaimed, Known
  <2> QED
    BY <2>1, <2>2, <2>3 DEF TypeOK, StoreType
<1> QED
  BY <1>3, <1>4, <1>5 DEF Register

\* The calls that store one field of one session.
LEMMA SetStateEffect ==
  ASSUME TypeOK, NEW s \in Sid, NEW st \in State, SetState(s, st)
  PROVE  /\ StoreType' /\ pending' = pending
         /\ \A r \in Sid : /\ Known(r)' <=> Known(r)
                           /\ r # s => sessions'[r] = sessions[r]
         /\ Known(s) => /\ sessions'[s].target = sessions[s].target
                        /\ sessions'[s].state = st
<1>1. CASE Known(s)
  <2>1. sessions[s] \in Session /\ NoSession \notin Session
    BY <1>1, StoreFacts
  <2>2. /\ [sessions[s] EXCEPT !.state = st] \in Session
        /\ [sessions[s] EXCEPT !.state = st].target = sessions[s].target
        /\ [sessions[s] EXCEPT !.state = st].state = st
    BY <2>1 DEF Session
  <2>3. sessions' = [sessions EXCEPT ![s] = [sessions[s] EXCEPT !.state = st]]
    BY <1>1 DEF SetState
  <2>4. /\ sessions'[s] = [sessions[s] EXCEPT !.state = st]
        /\ sessions' \in [Sid -> Session \union {NoSession}]
        /\ \A r \in Sid : r # s => sessions'[r] = sessions[r]
    BY <2>2, <2>3 DEF TypeOK, StoreType
  <2> QED
    BY <1>1, <2>1, <2>2, <2>4 DEF SetState, TypeOK, StoreType, Known
<1>2. CASE ~Known(s)
  BY <1>2 DEF SetState, TypeOK, StoreType, Known
<1> QED
  BY <1>1, <1>2

LEMMA SetTargetEffect ==
  ASSUME TypeOK, NEW s \in Sid, NEW w \in Target, Known(s),
         sessions' = [sessions EXCEPT ![s].target = w]
  PROVE  /\ sessions' \in [Sid -> Session \union {NoSession}]
         /\ \A r \in Sid : /\ Known(r)' <=> Known(r)
                           /\ r # s => sessions'[r] = sessions[r]
         /\ sessions'[s].target = w
         /\ sessions'[s].state = sessions[s].state
<1>1. sessions[s] \in Session /\ NoSession \notin Session
  BY StoreFacts
<1>2. /\ [sessions[s] EXCEPT !.target = w] \in Session
      /\ [sessions[s] EXCEPT !.target = w].target = w
      /\ [sessions[s] EXCEPT !.target = w].state = sessions[s].state
  BY <1>1 DEF Session
<1>3. sessions' = [sessions EXCEPT ![s] = [sessions[s] EXCEPT !.target = w]]
  OBVIOUS
<1>4. /\ sessions'[s] = [sessions[s] EXCEPT !.target = w]
      /\ sessions' \in [Sid -> Session \union {NoSession}]
      /\ \A r \in Sid : r # s => sessions'[r] = sessions[r]
  BY <1>2, <1>3 DEF TypeOK, StoreType
<1> QED
  BY <1>1, <1>2, <1>4 DEF Known

\* A hook is sent: it comes last, and the others keep their places.
LEMMA PostEffect ==
  ASSUME TypeOK, NEW s \in Sid, NEW event \in {"start", "end"} \union State,
         NEW w \in Target, Post(s, event, w)
  PROVE  /\ hooks' \in [Sid -> Seq(Hook)] /\ misled' \subseteq Sid
         /\ \A r \in Sid : r # s => hooks'[r] = hooks[r]
         /\ DOMAIN hooks'[s] = 1 .. Len(hooks[s]) + 1
         /\ \A j \in 1 .. Len(hooks[s]) : hooks'[s][j] = hooks[s][j]
         /\ hooks'[s][Len(hooks[s]) + 1] = [event |-> event, cwd |-> CwdOf[w]]
<1> DEFINE e == [event |-> event, cwd |-> CwdOf[w]]
<1>1. e \in Hook
  BY CwdAssumption DEF Hook
<1>2. hooks[s] \in Seq(Hook) /\ hooks \in [Sid -> Seq(Hook)]
  BY DEF TypeOK
<1>3. hooks' = [hooks EXCEPT ![s] = Append(hooks[s], e)]
  BY DEF Post
<1> HIDE DEF e
<1>4. /\ Append(hooks[s], e) \in Seq(Hook)
      /\ Len(Append(hooks[s], e)) = Len(hooks[s]) + 1
      /\ \A i \in 1 .. Len(hooks[s]) : Append(hooks[s], e)[i] = hooks[s][i]
      /\ Append(hooks[s], e)[Len(hooks[s]) + 1] = e
  BY <1>1, <1>2, AppendProperties
<1>5. /\ hooks'[s] = Append(hooks[s], e)
      /\ \A r \in Sid : r # s => hooks'[r] = hooks[r]
  BY <1>2, <1>3
<1>6. hooks' \in [Sid -> Seq(Hook)]
  BY <1>2, <1>3, <1>4
<1>7. DOMAIN Append(hooks[s], e) = 1 .. Len(hooks[s]) + 1
  BY <1>4, LenProperties
<1>8. misled' \subseteq Sid
  BY DEF Post, TypeOK
<1> QED
  BY <1>4, <1>5, <1>6, <1>7, <1>8 DEF e

\* A hook is taken: those after it move up by one.
LEMMA TakeEffect ==
  ASSUME TypeOK, NEW s \in Sid, NEW i, Take(s, i)
  PROVE  /\ hooks' \in [Sid -> Seq(Hook)] /\ misled' \subseteq Sid
         /\ \A r \in Sid : r # s => hooks'[r] = hooks[r]
         /\ i \in 1 .. Len(hooks[s]) /\ Len(hooks[s]) \in Nat
         /\ DOMAIN hooks'[s] = 1 .. Len(hooks[s]) - 1
         /\ \A j \in 1 .. Len(hooks[s]) - 1 :
              hooks'[s][j] = IF j < i THEN hooks[s][j] ELSE hooks[s][j + 1]
<1>1. hooks[s] \in Seq(Hook) /\ hooks \in [Sid -> Seq(Hook)]
  BY DEF TypeOK
<1>2. /\ i \in DOMAIN hooks[s]
      /\ hooks' = [hooks EXCEPT ![s] = SE!RemoveAt(hooks[s], i)]
  BY DEF Take
<1>3. /\ SE!RemoveAt(hooks[s], i) \in Seq(Hook)
      /\ Len(SE!RemoveAt(hooks[s], i)) = Len(hooks[s]) - 1
      /\ \A j \in 1 .. Len(hooks[s]) - 1 : SE!RemoveAt(hooks[s], i)[j] =
           IF j < i THEN hooks[s][j] ELSE hooks[s][j + 1]
  BY <1>1, <1>2, RemoveAtProperties
<1>4. /\ hooks'[s] = SE!RemoveAt(hooks[s], i)
      /\ \A r \in Sid : r # s => hooks'[r] = hooks[r]
  BY <1>1, <1>2
<1>5. hooks' \in [Sid -> Seq(Hook)]
  BY <1>1, <1>2, <1>3
<1>6. DOMAIN hooks[s] = 1 .. Len(hooks[s]) /\ Len(hooks[s]) \in Nat
  BY <1>1, LenProperties
<1>7. DOMAIN SE!RemoveAt(hooks[s], i) = 1 .. Len(hooks[s]) - 1
  BY <1>3, LenProperties
<1>8. misled' \subseteq Sid
  BY DEF Take, TypeOK
<1> QED
  BY <1>2, <1>3, <1>4, <1>5, <1>6, <1>7, <1>8

-----------------------------------------------------------------------------
(* Type correctness.                                                       *)

\* The server and its scanner are not there at first.
LEMMA InitType == Init => TypeInv
<1> SUFFICES ASSUME Init PROVE TypeInv
  OBVIOUS
<1>1. TypeOK
  <2>1. StoreType
    BY EmptySeq DEF Init, StoreInit, StoreType
  <2>2. hooks \in [Sid -> Seq(Hook)] /\ regs \in [Target -> Nat]
    BY EmptySeq DEF Init, Nothing
  <2>3. /\ status \in [Sid -> State] /\ spc \in SPC
        /\ agent \in [Target -> Sid \union {NoSid}]
        /\ gone \in [Target -> Nat] /\ others \in [Target -> Nat]
    BY DEF Init, State, SPC, Nothing
  <2>4. launches \in Nat /\ reports \in Nat /\ starts \in Nat
    BY DEF Init
  <2> QED
    BY <2>1, <2>2, <2>3, <2>4, Zenon DEF Init, TypeOK
<1>2. ScannerInv /\ DownInv
  BY DEF Init, StoreInit, ScannerInv, DownInv, Known
<1> QED
  BY <1>1, <1>2 DEF TypeInv

\* The agents and the network know nothing of the server.
LEMMA TypeAgents ==
  ASSUME TypeInv, UNCHANGED <<storeVars, serverVars, scannerVars>>,
         TypeOK'
  PROVE  TypeInv'
BY DEF TypeInv, TypeOK, ScannerInv, DownInv, Known, storeVars, serverVars,
       scannerVars

LEMMA LaunchType ==
  ASSUME TypeInv, NEW w \in Target, NEW s \in Sid, NEW named \in BOOLEAN,
         Launch(w, s, named)
  PROVE  TypeInv'
<1>1. Post(s, "start", w) /\ TypeOK
  BY DEF Launch, TypeInv
<1>2. hooks' \in [Sid -> Seq(Hook)] /\ misled' \subseteq Sid
  BY <1>1, PostEffect
<1>3. /\ agent' \in [Target -> Sid \union {NoSid}]
      /\ status' \in [Sid -> State]
      /\ ran' \subseteq Sid \X Target /\ launches' \in Nat
      /\ regs' \in [Target -> Nat]
  BY <1>1 DEF Launch, TypeOK, State
<1>4. TypeOK'
  BY <1>1, <1>2, <1>3 DEF Launch, TypeOK, StoreType, storeVars, serverVars,
                          scannerVars
<1> QED
  BY <1>4, TypeAgents DEF Launch

LEMMA ReportType ==
  ASSUME TypeInv, NEW w \in Target,
         NEW st \in {"running", "permission", "idle"}, Report(w, st)
  PROVE  TypeInv'
<1>1. Post(agent[w], st, w) /\ TypeOK /\ agent[w] \in Sid /\ st \in State
  BY DEF Report, TypeInv, TypeOK, State
<1>2. hooks' \in [Sid -> Seq(Hook)] /\ misled' \subseteq Sid
  BY <1>1, PostEffect
<1>3. status' \in [Sid -> State] /\ reports' \in Nat
  BY <1>1 DEF Report, TypeOK
<1>4. TypeOK'
  BY <1>1, <1>2, <1>3 DEF Report, TypeOK, StoreType, storeVars, serverVars,
                          scannerVars
<1> QED
  BY <1>4, TypeAgents DEF Report

LEMMA ExitType ==
  ASSUME TypeInv, NEW w \in Target, Exit(w) \/ Kill(w)
  PROVE  TypeInv'
<1>1. TypeOK /\ agent[w] \in Sid
  BY DEF Exit, Kill, TypeInv, TypeOK
<1>2. hooks' \in [Sid -> Seq(Hook)] /\ misled' \subseteq Sid
  <2>1. CASE Exit(w)
    BY <1>1, <2>1, PostEffect DEF Exit
  <2>2. CASE Kill(w)
    BY <1>1, <2>2 DEF Kill, TypeOK
  <2> QED
    BY <2>1, <2>2
<1>3. agent' \in [Target -> Sid \union {NoSid}]
  BY <1>1 DEF Exit, Kill, TypeOK
<1>4. TypeOK'
  BY <1>1, <1>2, <1>3 DEF Exit, Kill, TypeOK, StoreType, storeVars,
                          serverVars, scannerVars, netVars
<1> QED
  BY <1>4, TypeAgents DEF Exit, Kill

LEMMA OpenCodeType ==
  ASSUME TypeInv, NEW w \in Target, StartOpenCode(w) \/ EndOpenCode(w)
  PROVE  TypeInv'
<1>1. TypeOK
  BY DEF TypeInv
<1>2. opencode' \subseteq Target
  BY <1>1 DEF StartOpenCode, EndOpenCode, TypeOK
<1>3. others' \in [Target -> Nat]
  <2>1. others \in [Target -> Nat]
    BY <1>1 DEF TypeOK
  <2>2. others' = [others EXCEPT ![w] = @ + 1] \/ others' = others
    BY DEF StartOpenCode, EndOpenCode
  <2> QED
    BY <2>1, <2>2
<1>4. TypeOK'
  BY <1>1, <1>2, <1>3 DEF StartOpenCode, EndOpenCode, TypeOK, StoreType,
                          storeVars, serverVars, scannerVars, netVars
<1> QED
  BY <1>4, TypeAgents DEF StartOpenCode, EndOpenCode

-----------------------------------------------------------------------------

\* A handler runs while there is a server, leaves the scanner alone, and makes
\* nothing unknown that the scanner is about to write to.
LEMMA TypeHandlers ==
  ASSUME TypeInv, TypeOK', up,
         UNCHANGED <<up, spc, pane, found>>,
         handle' # NoSid => handle' = handle /\ Known(handle)'
  PROVE  TypeInv'
BY DEF TypeInv, ScannerInv, DownInv

LEMMA SessionStartType ==
  ASSUME TypeInv, NEW s \in Sid, NEW i, SessionStart(s, i)
  PROVE  TypeInv'
<1>1. TypeOK /\ up /\ Take(s, i) /\ Register(s, hooks[s][i].cwd)
  BY DEF SessionStart, TypeInv
<1>2. /\ hooks' \in [Sid -> Seq(Hook)] /\ misled' \subseteq Sid
      /\ i \in DOMAIN hooks[s]
  BY <1>1, TakeEffect DEF Take
<1>3. hooks[s][i].cwd \in Cwd
  BY <1>1, <1>2, StoreFacts DEF Hook
<1>4. /\ StoreType' /\ Known(s)'
      /\ \A r \in Sid : r # s => sessions'[r] = sessions[r]
  BY <1>1, <1>3, RegisterEffect
<1>5. TypeOK'
  BY <1>1, <1>2, <1>4, Zenon DEF SessionStart, TypeOK, agentVars, serverVars,
                                 scannerVars
<1>6. handle' = handle /\ (handle # NoSid => Known(handle)')
  BY <1>1, <1>4 DEF SessionStart, TypeInv, ScannerInv, TypeOK, Known,
                    scannerVars
<1> QED
  BY <1>1, <1>5, <1>6, TypeHandlers DEF SessionStart, serverVars, scannerVars

LEMMA StateHookType ==
  ASSUME TypeInv, NEW s \in Sid, NEW i, StateHook(s, i)
  PROVE  TypeInv'
<1>1. /\ TypeOK /\ up /\ Take(s, i) /\ hooks[s][i].event \in State
      /\ SetState(s, hooks[s][i].event)
  BY DEF StateHook, TypeInv
<1>2. hooks' \in [Sid -> Seq(Hook)] /\ misled' \subseteq Sid
  BY <1>1, TakeEffect
<1>3. /\ StoreType'
      /\ \A r \in Sid : /\ Known(r)' <=> Known(r)
                        /\ r # s => sessions'[r] = sessions[r]
  BY <1>1, SetStateEffect
<1>4. TypeOK'
  BY <1>1, <1>2, <1>3, Zenon DEF StateHook, TypeOK, agentVars, serverVars,
                                 scannerVars
<1>5. handle' = handle /\ (handle # NoSid => Known(handle)')
  BY <1>1, <1>3 DEF StateHook, TypeInv, ScannerInv, TypeOK, scannerVars
<1> QED
  BY <1>1, <1>4, <1>5, TypeHandlers DEF StateHook, serverVars, scannerVars

\* Remove makes the session unknown and leaves the others alone.
LEMMA RemoveEffect ==
  ASSUME TypeOK, NEW s \in Sid, Remove(s)
  PROVE  /\ StoreType' /\ ~Known(s)' /\ pending' = pending
         /\ \A r \in Sid : r # s => sessions'[r] = sessions[r]
BY DEF Remove, TypeOK, StoreType, Known

LEMMA SessionEndType ==
  ASSUME TypeInv, NEW s \in Sid, NEW i, SessionEnd(s, i)
  PROVE  TypeInv'
<1>1. TypeOK /\ up /\ Take(s, i) /\ Remove(s)
  BY DEF SessionEnd, TypeInv
<1>2. hooks' \in [Sid -> Seq(Hook)] /\ misled' \subseteq Sid
  BY <1>1, TakeEffect
<1>3. StoreType' /\ \A r \in Sid : r # s => sessions'[r] = sessions[r]
  BY <1>1, RemoveEffect
<1>4. handle' \in Sid \union {NoSid}
  BY <1>1 DEF SessionEnd, TypeOK
<1>5. TypeOK'
  BY <1>1, <1>2, <1>3, <1>4, Zenon DEF SessionEnd, TypeOK, agentVars,
                                       serverVars
<1>6. handle' # NoSid => handle' = handle /\ Known(handle)'
  BY <1>1, <1>3 DEF SessionEnd, TypeInv, ScannerInv, TypeOK, Known
<1> QED
  BY <1>1, <1>5, <1>6, TypeHandlers DEF SessionEnd, serverVars

LEMMA RequestType ==
  ASSUME TypeInv, (\E w \in Target : PreRegister(w)) \/ Refuse \/ PrunePending
  PROVE  TypeInv'
<1>1. TypeOK
  BY DEF TypeInv
<1>2. ASSUME NEW w \in Target, PreRegister(w)
      PROVE  TypeInv'
  <2>1. regs' \in [Target -> Nat]
    BY <1>1, <1>2 DEF PreRegister, TypeOK
  <2>2. StoreType' /\ sessions' = sessions
    <3>1. [target |-> w, cwd |-> CwdOf[w]] \in PendingReg
      BY CwdAssumption DEF PendingReg
    <3>2. pending' = Append(pending, [target |-> w, cwd |-> CwdOf[w]])
      BY <1>2 DEF PreRegister, AddPending
    <3>3. pending' \in Seq(PendingReg)
      BY <1>1, <3>1, <3>2, AppendProperties DEF TypeOK, StoreType
    <3> QED
      BY <1>1, <1>2, <3>3 DEF PreRegister, AddPending, TypeOK, StoreType
  <2>3. TypeOK'
    BY <1>1, <1>2, <2>1, <2>2, Zenon DEF PreRegister, TypeOK, agentVars,
                                         serverVars, scannerVars
  <2>4. handle' = handle /\ (handle # NoSid => Known(handle)')
    BY <1>2, <2>2 DEF PreRegister, TypeInv, ScannerInv, Known, scannerVars
  <2> QED
    BY <1>2, <2>3, <2>4, TypeHandlers DEF PreRegister, serverVars, scannerVars
<1>3. ASSUME Refuse
      PROVE  TypeInv'
  <2>1. /\ hooks' \in [Sid -> Seq(Hook)] /\ misled' \subseteq Sid
        /\ regs' \in [Target -> Nat]
    <3>1. ASSUME NEW s \in Sid, NEW i \in DOMAIN hooks[s], Take(s, i),
                 UNCHANGED regs
          PROVE  /\ hooks' \in [Sid -> Seq(Hook)] /\ misled' \subseteq Sid
                 /\ regs' \in [Target -> Nat]
      BY <1>1, <3>1, TakeEffect DEF TypeOK
    <3>2. ASSUME NEW w \in Target, regs[w] > 0, UNCHANGED <<hooks, misled>>,
                 regs' = [regs EXCEPT ![w] = @ - 1]
          PROVE  /\ hooks' \in [Sid -> Seq(Hook)] /\ misled' \subseteq Sid
                 /\ regs' \in [Target -> Nat]
      BY <1>1, <3>2 DEF TypeOK
    <3> QED
      BY <1>3, <3>1, <3>2 DEF Refuse
  <2>2. TypeOK'
    BY <1>1, <1>3, <2>1, Zenon DEF Refuse, TypeOK, StoreType, agentVars,
                                   serverVars, scannerVars, storeVars
  <2> QED
    BY <1>3, <2>2, TypeAgents DEF Refuse
<1>4. ASSUME PrunePending
      PROVE  TypeInv'
  <2>1. PICK n \in DOMAIN pending : PruneStalePending(n)
    BY <1>4 DEF PrunePending
  <2>2. pending \in Seq(PendingReg) /\ DOMAIN pending = 1 .. Len(pending)
        /\ Len(pending) \in Nat
    BY <1>1, StoreFacts DEF TypeOK, StoreType
  <2>3. \A j \in n + 1 .. Len(pending) : pending[j] \in PendingReg
    BY <2>2, ElementOfSeq
  <2>4. SubSeq(pending, n + 1, Len(pending)) \in Seq(PendingReg)
    BY <2>2, <2>3, SubSeqProperties
  <2>5. StoreType' /\ sessions' = sessions
    BY <1>1, <2>1, <2>4 DEF PruneStalePending, TypeOK, StoreType
  <2>6. TypeOK'
    BY <1>1, <1>4, <2>5, Zenon DEF PrunePending, TypeOK, agentVars,
                                   serverVars, scannerVars, netVars
  <2>7. handle' = handle /\ (handle # NoSid => Known(handle)')
    BY <1>4, <2>5 DEF PrunePending, TypeInv, ScannerInv, Known, scannerVars
  <2> QED
    BY <1>4, <2>6, <2>7, TypeHandlers DEF PrunePending, serverVars, scannerVars
<1> QED
  BY <1>2, <1>3, <1>4

-----------------------------------------------------------------------------

\* The scanner's own steps, which leave the store alone.
LEMMA ScanReadType ==
  ASSUME TypeInv,
         \/ ListPanes \/ (\E w \in Target : Visit(w)) \/ Find \/ Get
         \/ TrackedTargets \/ (\E w \in Target : PaneGone(w)) \/ ScanDone
  PROVE  TypeInv'
<1>1. TypeOK /\ ScannerInv /\ DownInv
  BY DEF TypeInv
<1> USE DEF outside, storeVars, agentVars, netVars, serverVars
<1>2. CASE ListPanes
  <2>1. TypeOK'
    <3>1. /\ todo' \subseteq Target /\ listed' \subseteq Target
          /\ spc' \in SPC
      BY <1>1, <1>2 DEF ListPanes, TypeOK, SPC
    <3> QED
      BY <1>1, <1>2, <3>1, Zenon DEF ListPanes, TypeOK, StoreType
  <2> QED
    BY <1>1, <1>2, <2>1 DEF ListPanes, TypeInv, ScannerInv, DownInv, Known
<1>3. ASSUME NEW w \in Target, Visit(w)
      PROVE  TypeInv'
  <2>1. TypeOK'
    BY <1>1, <1>3 DEF Visit, TypeOK, StoreType, SPC
  <2> QED
    BY <1>1, <1>3, <2>1 DEF Visit, TypeInv, ScannerInv, DownInv, Known
<1>4. CASE Find
  <2>1. pane \in Target
    BY <1>1, <1>4 DEF Find, ScannerInv
  <2>2. TypeOK'
    BY <1>1, <1>4, <2>1 DEF Find, Continue, TypeOK, StoreType, SPC
  <2>3. ScannerInv'
    BY <1>1, <1>4, <2>1, <2>2 DEF Find, Continue, TypeOK, ScannerInv, Known
  <2> QED
    BY <1>1, <1>4, <2>2, <2>3 DEF Find, TypeInv, DownInv, Known
<1>5. CASE Get
  <2>1. pane \in Target /\ found \in Sid
    BY <1>1, <1>5 DEF Get, ScannerInv
  <2>2. TypeOK'
    BY <1>1, <1>5, <2>1 DEF Get, Continue, TypeOK, StoreType, SPC
  <2>3. ScannerInv'
    BY <1>1, <1>5, <2>1 DEF Get, Continue, ScannerInv, Known
  <2> QED
    BY <1>1, <1>5, <2>2, <2>3 DEF Get, TypeInv, DownInv, Known
<1>6. CASE TrackedTargets
  <2>1. \A w \in Target : Cardinality(TrackedAt(w)) \in Nat
    <3>1. \A w \in Target : IsFiniteSet(TrackedAt(w))
      BY FiniteAssumption, FS_Subset DEF TrackedAt
    <3> QED
      BY <3>1, FS_CardinalityType
  <2>2. gone' \in [Target -> Nat]
    <3>1. PICK more \in [Target -> 0 .. MaxOthers] :
            gone' = [w \in Target |->
                       IF w \in listed THEN 0
                                       ELSE Cardinality(TrackedAt(w)) + more[w]]
      BY <1>6 DEF TrackedTargets
    <3>2. \A w \in Target : more[w] \in Nat
      BY EnvironmentAssumption
    <3>3. \A w \in Target : Cardinality(TrackedAt(w)) + more[w] \in Nat
      BY <2>1, <3>2
    <3> QED
      BY <3>1, <3>3
  <2>3. TypeOK'
    BY <1>1, <1>6, <2>2 DEF TrackedTargets, TypeOK, StoreType, SPC
  <2> QED
    BY <1>1, <1>6, <2>3 DEF TrackedTargets, TypeInv, ScannerInv, DownInv, Known
<1>7. ASSUME NEW w \in Target, PaneGone(w)
      PROVE  TypeInv'
  <2>1. gone' \in [Target -> Nat]
    BY <1>1, <1>7 DEF PaneGone, TypeOK
  <2>2. found' \in Sid \union {NoSid} /\ (spc' = "remove" => found' \in Sid)
    BY <1>1, <1>7 DEF PaneGone, TypeOK, TrackedAt
  <2>3. TypeOK'
    BY <1>1, <1>7, <2>1, <2>2 DEF PaneGone, TypeOK, StoreType, SPC
  <2>4. ScannerInv'
    BY <1>1, <1>7, <2>2 DEF PaneGone, ScannerInv, Known
  <2> QED
    BY <1>1, <1>7, <2>3, <2>4 DEF PaneGone, TypeInv, DownInv, Known
<1>8. CASE ScanDone
  <2>1. TypeOK'
    BY <1>1, <1>8 DEF ScanDone, TypeOK, StoreType, SPC
  <2> QED
    BY <1>1, <1>8, <2>1 DEF ScanDone, TypeInv, ScannerInv, DownInv, Known
<1> QED
  BY <1>2, <1>3, <1>4, <1>5, <1>6, <1>7, <1>8

\* Assign and WriteTarget put the pane that the scanner visits into a session
\* the store has, if it has it.
LEMMA TargetWritten ==
  ASSUME TypeInv, Assign \/ WriteTarget
  PROVE  /\ StoreType' /\ pending' = pending
         /\ pane \in Target /\ found \in Sid
         /\ \/ sessions' = sessions
            \/ /\ Known(found) /\ sessions'[found].target = pane
               /\ sessions'[found].state = sessions[found].state
         /\ \A r \in Sid : /\ Known(r)' <=> Known(r)
                           /\ r # found => sessions'[r] = sessions[r]
<1>1. TypeOK /\ pane \in Target /\ found \in Sid
  BY DEF TypeInv, ScannerInv, Assign, WriteTarget
<1>2. pending' = pending
  BY DEF Assign, SetPaneTarget, WriteTarget
<1>3. CASE sessions' = sessions
  BY <1>1, <1>2, <1>3 DEF TypeOK, StoreType, Known
<1>4. CASE sessions' # sessions
  <2>1. /\ Known(found)
        /\ sessions' = [sessions EXCEPT ![found].target = pane]
    BY <1>4 DEF Assign, SetPaneTarget, WriteTarget, TypeInv, ScannerInv
  <2>2. /\ sessions' \in [Sid -> Session \union {NoSession}]
        /\ \A r \in Sid : /\ Known(r)' <=> Known(r)
                          /\ r # found => sessions'[r] = sessions[r]
        /\ sessions'[found].target = pane
        /\ sessions'[found].state = sessions[found].state
    BY <1>1, <2>1, SetTargetEffect
  <2>3. StoreType'
    BY <1>1, <1>2, <2>2 DEF TypeOK, StoreType
  <2> QED
    BY <1>1, <1>2, <2>1, <2>2, <2>3
<1> QED
  BY <1>3, <1>4

LEMMA ScanWriteType ==
  ASSUME TypeInv, Assign \/ RegisterFound \/ WriteTarget \/ RemoveGone
  PROVE  TypeInv'
<1>1. TypeOK /\ ScannerInv /\ DownInv
  BY DEF TypeInv
<1> USE DEF outside, agentVars, netVars, serverVars
<1>2. CASE Assign \/ WriteTarget
  <2>1. /\ StoreType' /\ pane \in Target /\ found \in Sid
        /\ \A r \in Sid : /\ Known(r)' <=> Known(r)
                          /\ r # found => sessions'[r] = sessions[r]
    BY <1>2, TargetWritten
  <2>2. up /\ handle' = NoSid /\ spc' = "visit" /\ pane' = NoTarget
        /\ found' = NoSid
    BY <1>1, <1>2 DEF Assign, WriteTarget, Continue, ScannerInv
  <2>3. spc' \in SPC
    BY <2>2 DEF SPC
  <2>4. /\ UNCHANGED <<agentVars, netVars, serverVars, listed, todo, gone>>
    BY <1>2 DEF Assign, WriteTarget
  <2>5. TypeOK'
    BY <1>1, <2>1, <2>2, <2>3, <2>4, Zenon DEF TypeOK
  <2>6. up'
    BY <2>2, <2>4
  <2> QED
    BY <2>2, <2>5, <2>6 DEF TypeInv, ScannerInv, DownInv
<1>3. CASE RegisterFound
  <2>1. /\ pane \in Target /\ found \in Sid /\ Register(found, CwdOf[pane])
        /\ CwdOf[pane] \in Cwd /\ found' = found
    BY <1>1, <1>3, CwdAssumption DEF RegisterFound, ScannerInv
  <2>2. StoreType' /\ Known(found)'
    BY <1>1, <2>1, RegisterEffect
  <2>3. spc' \in SPC
    BY <1>3 DEF RegisterFound, SPC
  <2>4. TypeOK'
    BY <1>1, <1>3, <2>1, <2>2, <2>3, Zenon DEF RegisterFound, TypeOK
  <2>5. ScannerInv'
    BY <1>3, <2>1, <2>2 DEF RegisterFound, ScannerInv
  <2> QED
    BY <1>3, <2>4, <2>5 DEF RegisterFound, TypeInv, DownInv
<1>4. CASE RemoveGone
  <2>1. found \in Sid /\ Remove(found)
    BY <1>1, <1>4 DEF RemoveGone, ScannerInv
  <2>2. StoreType'
    BY <1>1, <2>1, RemoveEffect
  <2>3. spc' \in SPC
    BY <1>4 DEF RemoveGone, SPC
  <2>4. TypeOK'
    BY <1>1, <1>4, <2>2, <2>3, Zenon DEF RemoveGone, TypeOK
  <2>5. ScannerInv'
    BY <1>1, <1>4 DEF RemoveGone, ScannerInv
  <2> QED
    BY <1>4, <2>4, <2>5 DEF RemoveGone, TypeInv, DownInv
<1> QED
  BY <1>2, <1>3, <1>4

\* What the server finds when it starts: the sessions of the live processes,
\* at no pane, in an unknown state.
LEMMA StartEffect ==
  ASSUME TypeInv, Start
  PROVE  /\ StoreType' /\ pending' = <<>>
         /\ \A s \in Sid : Known(s)' =>
              /\ sessions'[s].target = NoTarget
              /\ sessions'[s].state = "unknown"
<1> DEFINE live == [s \in Live |-> CwdOf[PaneOf(s)]]
           new(s) == [NewSession(NoTarget, live[s]) EXCEPT !.state = "unknown"]
<1>1. /\ sessions' = [s \in Sid |-> IF s \in Live THEN new(s) ELSE NoSession]
      /\ pending' = <<>>
  BY DEF Start, Recover
<1>2. \A s \in Live : live[s] \in Cwd
  <2>1. \A s \in Live : PaneOf(s) \in Target
    BY DEF Live, PaneOf
  <2> QED
    BY <2>1, CwdAssumption
<1>3. \A s \in Live : /\ new(s) \in Session
                      /\ new(s).target = NoTarget /\ new(s).state = "unknown"
  BY <1>2 DEF NewSession, Session, State
<1> HIDE DEF new, live
<1>4. \A s \in Sid : sessions'[s] = IF s \in Live THEN new(s) ELSE NoSession
  BY <1>1
<1>5. StoreType'
  BY <1>1, <1>3, EmptySeq DEF StoreType
<1> QED
  BY <1>1, <1>3, <1>4, <1>5 DEF Known

LEMMA ServerType ==
  ASSUME TypeInv, Start \/ Crash
  PROVE  TypeInv'
<1>1. TypeOK /\ ScannerInv /\ DownInv
  BY DEF TypeInv
<1>2. CASE Start
  <2>1. StoreType'
    BY <1>2, StartEffect
  <2>2. up' = TRUE /\ starts' \in Nat /\ spc = "idle" /\ handle = NoSid
    BY <1>1, <1>2 DEF Start, TypeOK, ScannerInv, DownInv
  <2>3. TypeOK'
    BY <1>1, <1>2, <2>1, <2>2, Zenon DEF Start, TypeOK, agentVars, netVars,
                                         scannerVars
  <2> QED
    BY <1>1, <1>2, <2>2, <2>3 DEF Start, TypeInv, ScannerInv, DownInv,
                                  scannerVars
<1>3. CASE Crash
  <2>1. StoreType' /\ \A s \in Sid : ~Known(s)'
    BY <1>3, EmptySeq DEF Crash, StoreType, Known
  <2>2. spc' \in SPC /\ gone' \in [Target -> Nat]
    BY <1>3 DEF Crash, SPC, Nothing
  <2>3. TypeOK'
    BY <1>1, <1>3, <2>1, <2>2, Zenon DEF Crash, TypeOK, agentVars, netVars
  <2> QED
    BY <1>3, <2>1, <2>3 DEF Crash, TypeInv, ScannerInv, DownInv
<1> QED
  BY <1>2, <1>3

LEMMA TypeStep == TypeInv /\ [Next]_vars => TypeInv'
<1> SUFFICES ASSUME TypeInv, [Next]_vars PROVE TypeInv'
  OBVIOUS
<1>1. CASE UNCHANGED vars
  <2>1. TypeOK'
    BY <1>1, Zenon DEF TypeInv, TypeOK, StoreType, vars, storeVars, agentVars,
                       netVars, serverVars, scannerVars
  <2> QED
    BY <1>1, <2>1, TypeAgents DEF vars
<1>2. CASE \E w \in Target : Exit(w) \/ Kill(w) \/ PreRegister(w)
  BY <1>2, ExitType, RequestType
<1>3. CASE \E s \in Sid : Handle(s)
  BY <1>3, SessionStartType, StateHookType, SessionEndType DEF Handle
<1>4. CASE Scan
  BY <1>4, ScanReadType, ScanWriteType DEF Scan
<1> QED
  BY <1>1, <1>2, <1>3, <1>4, LaunchType, ReportType, OpenCodeType, RequestType,
     ServerType DEF Next

\* Every variable keeps its type, whatever is lost, late or restarted: the
\* scanner in particular writes to no object of a session that is removed.
THEOREM TypeCorrect == Spec => []TypeOK
<1>1. TypeInv => TypeOK
  BY DEF TypeInv
<1> QED
  BY InitType, TypeStep, <1>1, PTL DEF Spec

-----------------------------------------------------------------------------
(* Which session is shown at which pane.                                   *)
(*                                                                         *)
(* A hook says no more than a directory, and a registration is claimed by  *)
(* its directory: what connects a session with a pane on every way that    *)
(* the two take is the directory that claude was started in.               *)

AgentsRan == \A w \in Target : agent[w] # NoSid => <<agent[w], w>> \in ran

HooksRan ==
  \A s \in Sid : \A i \in DOMAIN hooks[s] : RanIn(s, hooks[s][i].cwd)

\* A registration carries the directory of the pane it names.
PendingOfPane ==
  \A i \in DOMAIN pending : pending[i].cwd = CwdOf[pending[i].target]

\* The scanner assigns a pane only to a session it has seen running there.
ScanRan ==
  spc \in {"get", "assign", "register", "write"} => <<found, pane>> \in ran

PaneInv == AgentsRan /\ HooksRan /\ PendingOfPane /\ ScanRan /\ OwnDirectory

\* The history only grows.
LEMMA RanGrows == TypeInv /\ [Next]_vars => ran \subseteq ran'
<1> SUFFICES ASSUME [Next]_vars PROVE ran \subseteq ran'
  OBVIOUS
<1> USE DEF outside, agentVars, vars
<1>1. CASE Scan
  BY <1>1 DEF Scan, ListPanes, Visit, Find, Get, Assign, RegisterFound,
              WriteTarget, TrackedTargets, PaneGone, RemoveGone, ScanDone
<1>2. CASE \E s \in Sid : Handle(s)
  BY <1>2 DEF Handle, SessionStart, StateHook, SessionEnd
<1> QED
  BY <1>1, <1>2 DEF Next, Launch, Report, Exit, Kill, StartOpenCode,
                    EndOpenCode, PreRegister, Refuse, PrunePending, Start, Crash

LEMMA RanInGrows ==
  ASSUME ran \subseteq ran', NEW s, NEW cwd, RanIn(s, cwd)
  PROVE  RanIn(s, cwd)'
BY DEF RanIn

\* Nothing but the history and the network changes.
LEMMA PaneAgents ==
  ASSUME TypeInv, PaneInv, ran \subseteq ran', AgentsRan', HooksRan',
         UNCHANGED <<storeVars, scannerVars>>
  PROVE  PaneInv'
<1>1. PendingOfPane' /\ ScanRan'
  BY DEF PaneInv, PendingOfPane, ScanRan, storeVars, scannerVars
<1>2. OwnDirectory'
  BY RanInGrows DEF PaneInv, OwnDirectory, TrackedAt, Known, storeVars
<1> QED
  BY <1>1, <1>2 DEF PaneInv

\* A claude sends its hooks from the directory of its pane.
LEMMA HooksPosted ==
  ASSUME TypeInv, HooksRan, ran \subseteq ran',
         NEW s \in Sid, NEW w \in Target,
         NEW event \in {"start", "end"} \union State, Post(s, event, w),
         <<s, w>> \in ran'
  PROVE  HooksRan'
<1>1. TypeOK
  BY DEF TypeInv
<1>2. RanIn(s, CwdOf[w])'
  BY DEF RanIn
<1> SUFFICES ASSUME NEW r \in Sid, NEW i \in DOMAIN hooks'[r]
             PROVE  RanIn(r, hooks[r][i].cwd)'
  BY DEF HooksRan
<1>3. CASE r # s
  <2>1. hooks'[r] = hooks[r]
    BY <1>1, <1>3, PostEffect
  <2> QED
    BY <2>1, RanInGrows DEF HooksRan
<1>4. CASE r = s /\ i = Len(hooks[s]) + 1
  <2>1. hooks'[r][i].cwd = CwdOf[w]
    <3>1. hooks'[s][Len(hooks[s]) + 1] = [event |-> event, cwd |-> CwdOf[w]]
      BY <1>1, PostEffect
    <3> QED
      BY <1>4, <3>1
  <2> QED
    BY <1>2, <1>4, <2>1
<1>5. CASE r = s /\ i # Len(hooks[s]) + 1
  <2>1. Len(hooks[s]) \in Nat /\ DOMAIN hooks[s] = 1 .. Len(hooks[s])
    BY <1>1, StoreFacts
  <2>2. i \in 1 .. Len(hooks[s]) + 1
    BY <1>1, <1>5, PostEffect
  <2>3. i \in DOMAIN hooks[s]
    BY <1>5, <2>1, <2>2
  <2>4. hooks'[s][i] = hooks[s][i]
    BY <1>1, <2>1, <2>3, PostEffect
  <2> QED
    BY <1>5, <2>3, <2>4, RanInGrows DEF HooksRan
<1> QED
  BY <1>3, <1>4, <1>5

LEMMA HooksTaken ==
  ASSUME TypeInv, HooksRan, ran' = ran, NEW s \in Sid, NEW i, Take(s, i)
  PROVE  HooksRan'
<1>1. TypeOK
  BY DEF TypeInv
<1> SUFFICES ASSUME NEW r \in Sid, NEW j \in DOMAIN hooks'[r]
             PROVE  RanIn(r, hooks[r][j].cwd)'
  BY DEF HooksRan
<1>2. \E k \in DOMAIN hooks[r] : hooks'[r][j] = hooks[r][k]
  <2>1. CASE r # s
    BY <1>1, <2>1, TakeEffect
  <2>2. CASE r = s
    <3>1. DOMAIN hooks[s] = 1 .. Len(hooks[s]) /\ Len(hooks[s]) \in Nat
      BY <1>1, StoreFacts
    <3>2. /\ DOMAIN hooks'[s] = 1 .. Len(hooks[s]) - 1
          /\ hooks'[s][j] = IF j < i THEN hooks[s][j] ELSE hooks[s][j + 1]
      BY <1>1, <2>2, TakeEffect
    <3>3. j \in DOMAIN hooks[s] /\ j + 1 \in DOMAIN hooks[s]
      BY <2>2, <3>1, <3>2
    <3> QED
      BY <2>2, <3>2, <3>3
  <2> QED
    BY <2>1, <2>2
<1> QED
  BY <1>2, RanInGrows DEF HooksRan

LEMMA PaneAgentSteps ==
  ASSUME TypeInv, PaneInv, ran \subseteq ran',
         \/ \E w \in Target, s \in Sid, named \in BOOLEAN : Launch(w, s, named)
         \/ \E w \in Target, st \in {"running", "permission", "idle"} :
              Report(w, st)
         \/ \E w \in Target : Exit(w) \/ Kill(w)
         \/ \E w \in Target : StartOpenCode(w) \/ EndOpenCode(w)
  PROVE  PaneInv'
<1>1. TypeOK /\ AgentsRan /\ HooksRan
  BY DEF TypeInv, PaneInv
<1>2. ASSUME NEW w \in Target, NEW s \in Sid, NEW named \in BOOLEAN,
             Launch(w, s, named)
      PROVE  PaneInv'
  <2>1. <<s, w>> \in ran' /\ Post(s, "start", w)
    BY <1>2 DEF Launch
  <2>2. HooksRan'
    BY <1>1, <2>1, HooksPosted
  <2>3. AgentsRan'
    BY <1>1, <1>2 DEF Launch, AgentsRan, TypeOK
  <2> QED
    BY <1>2, <2>2, <2>3, PaneAgents DEF Launch
<1>3. ASSUME NEW w \in Target, NEW st \in {"running", "permission", "idle"},
             Report(w, st)
      PROVE  PaneInv'
  <2>1. /\ agent[w] \in Sid /\ <<agent[w], w>> \in ran' /\ st \in State
        /\ Post(agent[w], st, w)
    BY <1>1, <1>3 DEF Report, TypeOK, AgentsRan, State
  <2>2. HooksRan'
    BY <1>1, <2>1, HooksPosted
  <2>3. AgentsRan'
    BY <1>1, <1>3 DEF Report, AgentsRan
  <2> QED
    BY <1>3, <2>2, <2>3, PaneAgents DEF Report
<1>4. ASSUME NEW w \in Target, Exit(w) \/ Kill(w)
      PROVE  PaneInv'
  <2>1. agent[w] \in Sid /\ <<agent[w], w>> \in ran'
    BY <1>1, <1>4 DEF Exit, Kill, TypeOK, AgentsRan
  <2>2. HooksRan'
    <3>1. CASE Exit(w)
      BY <1>1, <2>1, <3>1, HooksPosted DEF Exit
    <3>2. CASE Kill(w)
      BY <1>1, <3>2 DEF Kill, HooksRan, RanIn
    <3> QED
      BY <1>4, <3>1, <3>2
  <2>3. AgentsRan'
    BY <1>1, <1>4 DEF Exit, Kill, AgentsRan, TypeOK
  <2> QED
    BY <1>4, <2>2, <2>3, PaneAgents DEF Exit, Kill
<1>5. ASSUME NEW w \in Target, StartOpenCode(w) \/ EndOpenCode(w)
      PROVE  PaneInv'
  <2>1. UNCHANGED <<agent, hooks, ran>>
    BY <1>5 DEF StartOpenCode, EndOpenCode, netVars
  <2>2. AgentsRan' /\ HooksRan'
    BY <1>1, <2>1 DEF AgentsRan, HooksRan, RanIn
  <2> QED
    BY <1>5, <2>2, PaneAgents DEF StartOpenCode, EndOpenCode
<1> QED
  BY <1>2, <1>3, <1>4, <1>5

\* A session that Register makes known is shown at no pane, or at that of a
\* registration with a directory it has run in.
LEMMA RegisterKeepsPanes ==
  ASSUME TypeInv, PaneInv, ran' = ran, NEW s \in Sid, NEW cwd \in Cwd,
         RanIn(s, cwd), Register(s, cwd)
  PROVE  PendingOfPane' /\ OwnDirectory'
<1>1. TypeOK /\ PendingOfPane /\ OwnDirectory
  BY DEF TypeInv, PaneInv
<1>2. /\ Known(s)'
      /\ \A r \in Sid : r # s => sessions'[r] = sessions[r]
      /\ \/ /\ Known(s) /\ pending' = pending
            /\ sessions'[s].target = sessions[s].target
         \/ /\ ~Known(s) /\ pending' = pending
            /\ sessions'[s].target = NoTarget
         \/ \E i \in DOMAIN pending :
              /\ pending[i].cwd = cwd
              /\ sessions'[s].target = pending[i].target
              /\ pending' = SE!RemoveAt(pending, i)
  BY <1>1, RegisterEffect
<1>3. pending \in Seq(PendingReg) /\ DOMAIN pending = 1 .. Len(pending)
      /\ Len(pending) \in Nat
  BY <1>1, StoreFacts DEF TypeOK, StoreType
<1>4. PendingOfPane'
  <2>1. CASE pending' = pending
    BY <1>1, <2>1 DEF PendingOfPane
  <2>2. ASSUME NEW i \in DOMAIN pending, pending' = SE!RemoveAt(pending, i)
        PROVE  PendingOfPane'
    <3>1. /\ pending' \in Seq(PendingReg) /\ Len(pending') = Len(pending) - 1
          /\ \A j \in 1 .. Len(pending) - 1 :
               pending'[j] = IF j < i THEN pending[j] ELSE pending[j + 1]
      BY <1>3, <2>2, RemoveAtProperties
    <3>2. DOMAIN pending' = 1 .. Len(pending) - 1
      BY <3>1, LenProperties
    <3>3. \A j \in DOMAIN pending' :
            \E k \in DOMAIN pending : pending'[j] = pending[k]
      BY <1>3, <3>1, <3>2
    <3> QED
      BY <1>1, <3>3 DEF PendingOfPane
  <2> QED
    BY <1>2, <2>1, <2>2
<1>5. OwnDirectory'
  <2> SUFFICES ASSUME NEW r \in Sid, NEW w \in Target, r \in TrackedAt(w)'
               PROVE  RanIn(r, CwdOf[w])
    BY DEF OwnDirectory, RanIn
  <2>1. sessions'[r].target = w /\ Known(r)'
    BY DEF TrackedAt
  <2>2. CASE r # s
    BY <1>1, <1>2, <2>1, <2>2 DEF OwnDirectory, TrackedAt, Known
  <2>3. CASE r = s /\ Known(s) /\ sessions'[s].target = sessions[s].target
    BY <1>1, <2>1, <2>3 DEF OwnDirectory, TrackedAt
  <2>4. CASE r = s /\ sessions'[s].target = NoTarget
    BY <2>1, <2>4, NoTargetAssumption
  <2>5. ASSUME r = s, NEW i \in DOMAIN pending, pending[i].cwd = cwd,
               sessions'[s].target = pending[i].target
        PROVE  RanIn(r, CwdOf[w])
    BY <1>1, <2>1, <2>5 DEF PendingOfPane
  <2> QED
    BY <1>2, <2>2, <2>3, <2>4, <2>5
<1> QED
  BY <1>4, <1>5

\* The requests, while there is a server and while there is none.
LEMMA PaneRequestSteps ==
  ASSUME TypeInv, PaneInv, ran \subseteq ran',
         \/ \E s \in Sid : Handle(s)
         \/ \E w \in Target : PreRegister(w)
         \/ Refuse \/ PrunePending
  PROVE  PaneInv'
<1>1. /\ TypeOK
      /\ AgentsRan /\ HooksRan /\ PendingOfPane /\ ScanRan /\ OwnDirectory
  BY DEF TypeInv, PaneInv
<1>2. UNCHANGED <<agent, ran, spc, found, pane>>
  BY DEF Handle, SessionStart, StateHook, SessionEnd, PreRegister, Refuse,
         PrunePending, agentVars, scannerVars
<1>3. AgentsRan' /\ ScanRan'
  BY <1>1, <1>2 DEF AgentsRan, ScanRan
<1>4. ASSUME NEW s \in Sid, NEW i, SessionStart(s, i)
      PROVE  PaneInv'
  <2>1. HooksRan'
    BY <1>1, <1>2, <1>4, HooksTaken DEF SessionStart
  <2>2. i \in DOMAIN hooks[s]
    BY <1>4 DEF SessionStart, Take
  <2>3. hooks[s][i].cwd \in Cwd /\ RanIn(s, hooks[s][i].cwd)
    BY <1>1, <2>2, StoreFacts DEF Hook, HooksRan
  <2>4. PendingOfPane' /\ OwnDirectory'
    BY <1>2, <1>4, <2>3, RegisterKeepsPanes DEF SessionStart
  <2> QED
    BY <1>3, <2>1, <2>4 DEF PaneInv
<1>5. ASSUME NEW s \in Sid, NEW i, StateHook(s, i)
      PROVE  PaneInv'
  <2>1. HooksRan'
    BY <1>1, <1>2, <1>5, HooksTaken DEF StateHook
  <2>2. PICK st \in State : SetState(s, st)
    BY <1>5 DEF StateHook
  <2>3. /\ pending' = pending
        /\ \A r \in Sid : /\ Known(r)' <=> Known(r)
                          /\ r # s => sessions'[r] = sessions[r]
        /\ Known(s) => sessions'[s].target = sessions[s].target
    BY <1>1, <2>2, SetStateEffect
  <2>4. \A w \in Target : TrackedAt(w)' \subseteq TrackedAt(w)
    BY <2>3 DEF TrackedAt
  <2>5. OwnDirectory' /\ PendingOfPane'
    BY <1>1, <1>2, <2>3, <2>4 DEF OwnDirectory, RanIn, PendingOfPane
  <2> QED
    BY <1>3, <2>1, <2>5 DEF PaneInv
<1>6. ASSUME NEW s \in Sid, NEW i, SessionEnd(s, i)
      PROVE  PaneInv'
  <2>1. HooksRan'
    BY <1>1, <1>2, <1>6, HooksTaken DEF SessionEnd
  <2>2. /\ pending' = pending /\ ~Known(s)'
        /\ \A r \in Sid : r # s => sessions'[r] = sessions[r]
    BY <1>1, <1>6, RemoveEffect DEF SessionEnd
  <2>3. \A w \in Target : TrackedAt(w)' \subseteq TrackedAt(w)
    BY <2>2 DEF TrackedAt, Known
  <2>4. OwnDirectory' /\ PendingOfPane'
    BY <1>1, <1>2, <2>2, <2>3 DEF OwnDirectory, RanIn, PendingOfPane
  <2> QED
    BY <1>3, <2>1, <2>4 DEF PaneInv
<1>7. ASSUME NEW w \in Target, PreRegister(w)
      PROVE  PaneInv'
  <2>1. sessions' = sessions /\ hooks' = hooks
    BY <1>7 DEF PreRegister, AddPending
  <2>2. HooksRan' /\ OwnDirectory'
    BY <1>1, <1>2, <2>1 DEF HooksRan, OwnDirectory, RanIn, TrackedAt, Known
  <2>3. PendingOfPane'
    <3> DEFINE reg == [target |-> w, cwd |-> CwdOf[w]]
    <3>1. pending' = Append(pending, reg)
      BY <1>7 DEF PreRegister, AddPending
    <3>2. pending \in Seq(PendingReg) /\ reg \in PendingReg
      BY <1>1, CwdAssumption DEF TypeOK, StoreType, PendingReg
    <3>3. reg.cwd = CwdOf[reg.target]
      OBVIOUS
    <3> HIDE DEF reg
    <3>4. /\ pending' \in Seq(PendingReg) /\ Len(pending') = Len(pending) + 1
          /\ \A j \in 1 .. Len(pending) : pending'[j] = pending[j]
          /\ pending'[Len(pending) + 1] = reg
      BY <3>1, <3>2, AppendProperties
    <3>5. /\ DOMAIN pending = 1 .. Len(pending) /\ Len(pending) \in Nat
          /\ DOMAIN pending' = 1 .. Len(pending) + 1
      BY <3>2, <3>4, LenProperties
    <3>6. ASSUME NEW j \in DOMAIN pending'
          PROVE  pending'[j].cwd = CwdOf[pending'[j].target]
      <4>1. CASE j = Len(pending) + 1
        BY <3>3, <3>4, <4>1
      <4>2. CASE j # Len(pending) + 1
        <5>1. j \in DOMAIN pending /\ pending'[j] = pending[j]
          BY <3>4, <3>5, <4>2
        <5> QED
          BY <1>1, <5>1 DEF PendingOfPane
      <4> QED
        BY <4>1, <4>2
    <3> QED
      BY <3>6 DEF PendingOfPane
  <2> QED
    BY <1>3, <2>2, <2>3 DEF PaneInv
<1>8. CASE Refuse
  <2>1. HooksRan'
    <3>1. CASE hooks' = hooks
      BY <1>1, <1>2, <3>1 DEF HooksRan, RanIn
    <3>2. CASE \E s \in Sid : \E i \in DOMAIN hooks[s] : Take(s, i)
      BY <1>1, <1>2, <3>2, HooksTaken
    <3> QED
      BY <1>8, <3>1, <3>2 DEF Refuse
  <2>2. OwnDirectory' /\ PendingOfPane'
    BY <1>1, <1>2, <1>8 DEF Refuse, storeVars, OwnDirectory, RanIn, TrackedAt,
                            Known, PendingOfPane
  <2> QED
    BY <1>3, <2>1, <2>2 DEF PaneInv
<1>9. CASE PrunePending
  <2>1. /\ sessions' = sessions /\ hooks' = hooks
        /\ \E n \in 1 .. Len(pending) :
             pending' = SubSeq(pending, n + 1, Len(pending))
    BY <1>9 DEF PrunePending, PruneStalePending, netVars
  <2>2. HooksRan' /\ OwnDirectory'
    BY <1>1, <1>2, <2>1 DEF HooksRan, OwnDirectory, RanIn, TrackedAt, Known
  <2>3. PICK n \in 1 .. Len(pending) :
          pending' = SubSeq(pending, n + 1, Len(pending))
    BY <2>1
  <2>4. /\ DOMAIN pending = 1 .. Len(pending) /\ Len(pending) \in Nat
        /\ \A j \in n + 1 .. Len(pending) : pending[j] \in PendingReg
    BY <1>1, StoreFacts
  <2>5. /\ pending' \in Seq(PendingReg)
        /\ Len(pending') = IF n + 1 <= Len(pending)
                             THEN Len(pending) - (n + 1) + 1 ELSE 0
        /\ \A j \in 1 .. Len(pending) - (n + 1) + 1 :
             pending'[j] = pending[(n + 1) + j - 1]
    BY <2>3, <2>4, SubSeqProperties
  <2>6. DOMAIN pending' = 1 .. Len(pending')
    BY <2>5, LenProperties
  <2>7. ASSUME NEW j \in DOMAIN pending'
        PROVE  \E k \in DOMAIN pending : pending'[j] = pending[k]
    <3> DEFINE len == Len(pending)
    <3>0. n \in 1 .. len /\ len \in Nat
      BY <2>4
    <3>1. j \in 1 .. (IF n + 1 <= len THEN len - (n + 1) + 1 ELSE 0)
      BY <2>5, <2>6
    <3> HIDE DEF len
    <3>2. j \in 1 .. len - (n + 1) + 1 /\ (n + 1) + j - 1 \in 1 .. len
      BY <3>0, <3>1
    <3> USE DEF len
    <3>3. /\ j \in 1 .. Len(pending) - (n + 1) + 1
          /\ (n + 1) + j - 1 \in DOMAIN pending
      BY <2>4, <3>2
    <3> QED
      BY <2>5, <3>3
  <2>8. PendingOfPane'
    BY <1>1, <2>7 DEF PendingOfPane
  <2> QED
    BY <1>3, <2>2, <2>8 DEF PaneInv
<1> QED
  BY <1>4, <1>5, <1>6, <1>7, <1>8, <1>9 DEF Handle

\* The scanner, and the server itself.
LEMMA PaneServerSteps ==
  ASSUME TypeInv, TypeInv', PaneInv, ran \subseteq ran',
         Scan \/ Start \/ Crash
  PROVE  PaneInv'
<1>1. /\ TypeOK /\ ScannerInv
      /\ AgentsRan /\ HooksRan /\ PendingOfPane /\ ScanRan /\ OwnDirectory
  BY DEF TypeInv, PaneInv
<1> USE DEF outside, agentVars, netVars
<1>2. UNCHANGED <<agent, ran, hooks>>
  BY DEF Scan, ListPanes, Visit, Find, Get, Assign, RegisterFound, WriteTarget,
         TrackedTargets, PaneGone, RemoveGone, ScanDone, Start, Crash
<1>3. AgentsRan' /\ HooksRan'
  BY <1>1, <1>2 DEF AgentsRan, HooksRan, RanIn
<1>4. CASE \/ ListPanes \/ (\E w \in Target : Visit(w)) \/ Find \/ Get
           \/ TrackedTargets \/ (\E w \in Target : PaneGone(w)) \/ ScanDone
  <2>1. UNCHANGED storeVars
    BY <1>4 DEF ListPanes, Visit, Find, Get, TrackedTargets, PaneGone, ScanDone
  <2>2. ScanRan'
    BY <1>1, <1>4 DEF ListPanes, Visit, Find, Get, TrackedTargets, PaneGone,
                      ScanDone, Continue, ScanRan, ScannerInv, AgentsRan
  <2>3. OwnDirectory' /\ PendingOfPane'
    BY <1>1, <1>2, <2>1 DEF storeVars, OwnDirectory, RanIn, TrackedAt, Known,
                            PendingOfPane
  <2> QED
    BY <1>3, <2>2, <2>3 DEF PaneInv
<1>5. CASE Assign \/ WriteTarget
  <2>1. /\ pending' = pending /\ pane \in Target /\ found \in Sid
        /\ sessions' = sessions \/ sessions'[found].target = pane
        /\ \A r \in Sid : /\ Known(r)' <=> Known(r)
                          /\ r # found => sessions'[r] = sessions[r]
    BY <1>5, TargetWritten
  <2>2. <<found, pane>> \in ran
    BY <1>1, <1>5 DEF Assign, WriteTarget, ScanRan
  <2>3. ASSUME NEW s \in Sid, NEW w \in Target, s \in TrackedAt(w)'
        PROVE  s \in TrackedAt(w) \/ (s = found /\ w = pane)
    BY <2>1, <2>3 DEF TrackedAt, Known
  <2>4. OwnDirectory'
    BY <1>1, <1>2, <2>1, <2>2, <2>3 DEF OwnDirectory, RanIn
  <2>5. ScanRan'
    BY <1>5 DEF Assign, WriteTarget, Continue, ScanRan
  <2>6. PendingOfPane'
    BY <1>1, <2>1 DEF PendingOfPane
  <2> QED
    BY <1>3, <2>4, <2>5, <2>6 DEF PaneInv
<1>6. CASE RegisterFound
  <2>1. /\ pane \in Target /\ found \in Sid /\ Register(found, CwdOf[pane])
        /\ <<found, pane>> \in ran /\ CwdOf[pane] \in Cwd
    BY <1>1, <1>6, CwdAssumption DEF RegisterFound, ScannerInv, ScanRan
  <2>2. RanIn(found, CwdOf[pane])
    BY <2>1 DEF RanIn
  <2>3. PendingOfPane' /\ OwnDirectory'
    BY <1>2, <2>1, <2>2, RegisterKeepsPanes
  <2>4. ScanRan'
    BY <1>2, <1>6, <2>1 DEF RegisterFound, ScanRan
  <2> QED
    BY <1>3, <2>3, <2>4 DEF PaneInv
<1>7. CASE RemoveGone
  <2>1. found \in Sid /\ Remove(found)
    BY <1>1, <1>7 DEF RemoveGone, ScannerInv
  <2>2. /\ pending' = pending
        /\ \A r \in Sid : Known(r)' => r # found /\ sessions'[r] = sessions[r]
    BY <1>1, <2>1, RemoveEffect
  <2>3. \A w \in Target : TrackedAt(w)' \subseteq TrackedAt(w)
    BY <2>2 DEF TrackedAt, Known
  <2>4. OwnDirectory' /\ PendingOfPane' /\ ScanRan'
    BY <1>1, <1>2, <1>7, <2>2, <2>3 DEF OwnDirectory, RanIn, PendingOfPane,
                                        ScanRan, RemoveGone
  <2> QED
    BY <1>3, <2>4 DEF PaneInv
<1>8. CASE Start
  <2>1. /\ pending' = <<>>
        /\ \A s \in Sid : Known(s)' => sessions'[s].target = NoTarget
    BY <1>8, StartEffect
  <2>2. OwnDirectory' /\ PendingOfPane'
    BY <2>1, NoTargetAssumption DEF OwnDirectory, TrackedAt, PendingOfPane
  <2>3. ScanRan'
    BY <1>1, <1>8 DEF Start, scannerVars, ScanRan
  <2> QED
    BY <1>3, <2>2, <2>3 DEF PaneInv
<1>9. CASE Crash
  <2>1. pending' = <<>> /\ spc' = "idle" /\ \A s \in Sid : ~Known(s)'
    BY <1>9 DEF Crash, Known
  <2>2. OwnDirectory' /\ PendingOfPane' /\ ScanRan'
    BY <2>1 DEF OwnDirectory, TrackedAt, PendingOfPane, ScanRan
  <2> QED
    BY <1>3, <2>2 DEF PaneInv
<1> QED
  BY <1>4, <1>5, <1>6, <1>7, <1>8, <1>9 DEF Scan

LEMMA PaneStep == TypeInv /\ PaneInv /\ [Next]_vars => PaneInv'
<1> SUFFICES ASSUME TypeInv, PaneInv, [Next]_vars PROVE PaneInv'
  OBVIOUS
<1>1. ran \subseteq ran' /\ TypeInv'
  BY RanGrows, TypeStep
<1>2. CASE UNCHANGED vars
  BY <1>2 DEF vars, storeVars, agentVars, netVars, scannerVars, PaneInv,
              AgentsRan, HooksRan, PendingOfPane, ScanRan, OwnDirectory, RanIn,
              TrackedAt, Known
<1>3. CASE Next
  BY <1>1, <1>3, PaneAgentSteps, PaneRequestSteps, PaneServerSteps DEF Next
<1> QED
  BY <1>2, <1>3

\* Whatever the order of the hooks, with kills, resumed sessions and
\* restarts: a session is shown only at a pane in whose directory it has run.
THEOREM ShownInItsDirectory == Spec => []OwnDirectory
<1>1. Init => PaneInv
  BY NoTargetAssumption DEF Init, StoreInit, PaneInv, AgentsRan, HooksRan,
     PendingOfPane, ScanRan, OwnDirectory, TrackedAt, Known
<1>2. PaneInv => OwnDirectory
  BY DEF PaneInv
<1> QED
  BY InitType, TypeStep, PaneStep, <1>1, <1>2, PTL DEF Spec

-----------------------------------------------------------------------------
(* Which state is shown, whatever the order of the hooks.                  *)
(*                                                                         *)
(* A session is shown as working although its agent is idle, or has ended, *)
(* only while the hook that says so is on its way; and the reports on      *)
(* their way are followed by it too.  A last word that overtakes a report  *)
(* breaks this, and so does the end of a claude at work without a word;    *)
(* the next word of rest, whenever it is sent, restores it.                *)

\* The agent of the session does nothing, if there is one.
Settled(s) == s \in Live => status[s] = "idle"

ShownWorking(s) == Known(s) /\ sessions[s].state \in Working

\* What is shown, and every report on its way, is closed by a later one.
SettlesAfter(s) ==
  /\ ShownWorking(s) => Closes(s, 0)
  /\ \A i \in DOMAIN hooks[s] : hooks[s][i].event \in Working => Closes(s, i)

ReportInv == \A s \in Sid \ misled : Settled(s) => SettlesAfter(s)

\* No step of the scanner or the server makes a session working.
LEMMA NobodyReports ==
  ASSUME ReportInv, UNCHANGED <<agent, status, hooks, misled>>,
         \A s \in Sid : ShownWorking(s)' => ShownWorking(s)
  PROVE  ReportInv'
BY DEF ReportInv, Settled, SettlesAfter, Closes, Live

\* One more report, by an agent that then is not settled or has been and is.
LEMMA ReportPosted ==
  ASSUME TypeInv, ReportInv, NEW s \in Sid, NEW w \in Target,
         NEW event \in {"start", "end"} \union State, Post(s, event, w),
         UNCHANGED sessions,
         \A r \in Sid \ {s} : Settled(r)' => Settled(r),
         Settled(s)' => event \in Closing \/ (event = "start" /\ Settled(s))
  PROVE  ReportInv'
<1> DEFINE n == Len(hooks[s])
<1>1. TypeOK
  BY DEF TypeInv
<1>2. n \in Nat /\ DOMAIN hooks[s] = 1 .. n
  BY <1>1, StoreFacts
<1>3. /\ \A r \in Sid : r # s => hooks'[r] = hooks[r]
      /\ DOMAIN hooks'[s] = 1 .. n + 1
      /\ \A j \in 1 .. n : hooks'[s][j] = hooks[s][j]
      /\ hooks'[s][n + 1] = [event |-> event, cwd |-> CwdOf[w]]
  BY <1>1, PostEffect
<1>4. hooks'[s][n + 1].event = event
  BY <1>3
<1> HIDE DEF n
<1> SUFFICES ASSUME NEW r \in Sid, r \notin misled', Settled(r)'
             PROVE  SettlesAfter(r)'
  BY DEF ReportInv
<1>5. CASE r # s
  <2>0. r \notin misled
    BY <1>5 DEF Post
  <2>1. SettlesAfter(r) /\ hooks'[r] = hooks[r]
    BY <1>3, <1>5, <2>0 DEF ReportInv
  <2> QED
    BY <2>1 DEF SettlesAfter, ShownWorking, Known, Closes
<1>6. CASE r = s /\ event \in Closing
  <2>1. \A i \in 0 .. n : Closes(s, i)'
    <3>1. n + 1 \in DOMAIN hooks'[s] /\ \A i \in 0 .. n : n + 1 > i
      BY <1>2, <1>3
    <3> QED
      BY <1>4, <1>6, <3>1 DEF Closes
  <2>2. \A i \in DOMAIN hooks'[s] :
          hooks'[s][i].event \in Working => i \in 0 .. n
    BY <1>2, <1>3, <1>4, <1>6 DEF Working, Closing
  <2>3. 0 \in 0 .. n
    BY <1>2
  <2> QED
    BY <1>6, <2>1, <2>2, <2>3 DEF SettlesAfter
<1>7. CASE r = s /\ event = "start" /\ Settled(s)
  <2>0. s \notin misled
    BY <1>7 DEF Post, Closing
  <2>1. SettlesAfter(s)
    BY <1>7, <2>0 DEF ReportInv
  <2>2. \A i : Closes(s, i) => Closes(s, i)'
    BY <1>2, <1>3 DEF Closes
  <2>3. \A i \in DOMAIN hooks'[s] : hooks'[s][i].event \in Working =>
          i \in DOMAIN hooks[s] /\ hooks[s][i].event \in Working
    BY <1>2, <1>3, <1>4, <1>7 DEF Working
  <2> QED
    BY <1>7, <2>1, <2>2, <2>3 DEF SettlesAfter, ShownWorking, Known
<1> QED
  BY <1>5, <1>6, <1>7

\* A report is handled, or refused, whichever it is.
LEMMA ReportTaken ==
  ASSUME TypeInv, ReportInv, NEW s \in Sid, NEW i, Take(s, i),
         UNCHANGED <<agent, status>>,
         \A r \in Sid \ {s} : ShownWorking(r)' => ShownWorking(r),
         ShownWorking(s)' => \/ hooks[s][i].event \in Working
                             \/ /\ hooks[s][i].event \notin Closing
                                /\ ShownWorking(s)
  PROVE  ReportInv'
<1> DEFINE n == Len(hooks[s])
<1>1. TypeOK
  BY DEF TypeInv
<1>2. n \in Nat /\ DOMAIN hooks[s] = 1 .. n
  BY <1>1, StoreFacts
<1>3. /\ \A r \in Sid : r # s => hooks'[r] = hooks[r]
      /\ i \in 1 .. n /\ DOMAIN hooks'[s] = 1 .. n - 1
      /\ \A j \in 1 .. n - 1 :
           hooks'[s][j] = IF j < i THEN hooks[s][j] ELSE hooks[s][j + 1]
  BY <1>1, TakeEffect
<1> HIDE DEF n
<1> SUFFICES ASSUME NEW r \in Sid, r \notin misled', Settled(r)'
             PROVE  SettlesAfter(r)'
  BY DEF ReportInv
<1>4. r \notin misled /\ Settled(r)
  BY DEF Take, Settled, Live
<1>5. SettlesAfter(r)
  BY <1>4 DEF ReportInv
<1>6. CASE r # s
  <2>1. hooks'[r] = hooks[r]
    BY <1>3, <1>6
  <2> QED
    BY <1>5, <1>6, <2>1 DEF SettlesAfter, Closes
<1>7. CASE r = s
  <2>1. ~Overtakes(s, i)
    BY <1>7 DEF Take
  <2>2. ASSUME NEW k \in 0 .. n, NEW c \in 1 .. n, k # i, c # i, c > k,
               hooks[s][c].event \in Closing
        PROVE  Closes(s, IF k < i THEN k ELSE k - 1)'
    <3> DEFINE d == IF c < i THEN c ELSE c - 1
               l == IF k < i THEN k ELSE k - 1
    <3>1. d \in 1 .. n - 1 /\ d > l
      BY <1>2, <1>3, <2>2
    <3>2. hooks'[s][d] = hooks[s][c]
      <4>1. CASE c < i
        BY <1>3, <3>1, <4>1
      <4>2. CASE ~(c < i)
        <5>1. d = c - 1 /\ ~(d < i) /\ d + 1 = c
          BY <1>2, <1>3, <2>2, <4>2
        <5> HIDE DEF d
        <5> QED
          BY <1>3, <3>1, <5>1
      <4> QED
        BY <4>1, <4>2
    <3> HIDE DEF d, l
    <3>3. Closes(s, l)'
      BY <1>3, <2>2, <3>1, <3>2 DEF Closes
    <3> QED
      BY <3>3 DEF l
  <2>3. ASSUME NEW m \in DOMAIN hooks'[s], hooks'[s][m].event \in Working
        PROVE  Closes(s, m)'
    <3> DEFINE k == IF m < i THEN m ELSE m + 1
    <3>1. /\ k \in 1 .. n /\ k # i /\ (k < i => k = m) /\ (~(k < i) => k - 1 = m)
          /\ hooks'[s][m] = hooks[s][k]
      BY <1>2, <1>3
    <3> HIDE DEF k
    <3>2. PICK c \in 1 .. n : c > k /\ hooks[s][c].event \in Closing
      BY <1>2, <1>5, <1>7, <2>3, <3>1 DEF SettlesAfter, Closes
    <3>3. \E e \in 1 .. n : e # i /\ e > k /\ hooks[s][e].event \in Closing
      <4>1. CASE c # i
        BY <3>2, <4>1
      <4>2. CASE c = i
        <5>1. k \in 1 .. i - 1 /\ hooks[s][k].event \in Working
          BY <1>2, <1>3, <2>3, <3>1, <3>2, <4>2
        <5>2. Closes(s, i)
          BY <2>1, <3>2, <4>2, <5>1 DEF Overtakes
        <5>3. PICK e \in 1 .. n : e > i /\ hooks[s][e].event \in Closing
          BY <1>2, <5>2 DEF Closes
        <5>4. e # i /\ e > k
          BY <1>2, <1>3, <5>1, <5>3
        <5> QED
          BY <5>3, <5>4
      <4> QED
        BY <4>1, <4>2
    <3>4. k \in 0 .. n
      BY <1>2, <3>1
    <3>5. Closes(s, IF k < i THEN k ELSE k - 1)'
      BY <2>2, <3>1, <3>3, <3>4
    <3> QED
      BY <3>1, <3>5
  <2>4. ASSUME ShownWorking(s)'
        PROVE  Closes(s, 0)'
    <3>1. \E c \in 1 .. n : c # i /\ c > 0 /\ hooks[s][c].event \in Closing
      <4>1. CASE hooks[s][i].event \in Working
        <5>1. PICK c \in 1 .. n : c > i /\ hooks[s][c].event \in Closing
          BY <1>2, <1>3, <1>5, <1>7, <4>1 DEF SettlesAfter, Closes
        <5>2. c # i /\ c > 0
          BY <1>2, <1>3, <5>1
        <5> QED
          BY <5>1, <5>2
      <4>2. CASE hooks[s][i].event \notin Closing /\ ShownWorking(s)
        BY <1>2, <1>5, <1>7, <4>2 DEF SettlesAfter, Closes
      <4> QED
        BY <2>4, <4>1, <4>2
    <3>2. 0 \in 0 .. n /\ 0 < i /\ 0 # i
      BY <1>2, <1>3
    <3>3. Closes(s, IF 0 < i THEN 0 ELSE 0 - 1)'
      BY <2>2, <3>1, <3>2
    <3> QED
      BY <3>2, <3>3
  <2> QED
    BY <1>7, <2>3, <2>4 DEF SettlesAfter
<1> QED
  BY <1>6, <1>7

LEMMA ReportAgentSteps ==
  ASSUME TypeInv, ReportInv,
         \/ \E w \in Target, s \in Sid, named \in BOOLEAN : Launch(w, s, named)
         \/ \E w \in Target, st \in {"running", "permission", "idle"} :
              Report(w, st)
         \/ \E w \in Target : Exit(w) \/ Kill(w)
         \/ \E w \in Target : StartOpenCode(w) \/ EndOpenCode(w)
  PROVE  ReportInv'
<1>1. TypeOK
  BY DEF TypeInv
<1>2. ASSUME NEW w \in Target, NEW s \in Sid, NEW named \in BOOLEAN,
             Launch(w, s, named)
      PROVE  ReportInv'
  <2>1. Post(s, "start", w) /\ sessions' = sessions /\ Settled(s)
    BY <1>2 DEF Launch, storeVars, Settled
  <2>2. /\ Live \subseteq Live'
        /\ \A r \in Sid \ {s} : status'[r] = status[r]
    BY <1>1, <1>2 DEF Launch, Live, TypeOK
  <2>3. \A r \in Sid \ {s} : Settled(r)' => Settled(r)
    BY <2>2 DEF Settled
  <2> QED
    BY <2>1, <2>3, ReportPosted
<1>3. ASSUME NEW w \in Target, NEW st \in {"running", "permission", "idle"},
             Report(w, st)
      PROVE  ReportInv'
  <2>1. PICK s \in Sid : s = agent[w] /\ s \in Live
    BY <1>1, <1>3 DEF Report, TypeOK, Live
  <2>2. /\ Post(s, st, w) /\ st \in State
        /\ sessions' = sessions /\ agent' = agent
    BY <1>3, <2>1 DEF Report, storeVars, State
  <2>3. /\ status'[s] = st
        /\ \A r \in Sid \ {s} : status'[r] = status[r]
    BY <1>1, <1>3, <2>1 DEF Report, TypeOK
  <2>4. \A r \in Sid \ {s} : Settled(r)' => Settled(r)
    BY <2>2, <2>3 DEF Settled, Live
  <2>5. Settled(s)' => st \in Closing
    BY <2>1, <2>2, <2>3 DEF Settled, Live, Closing
  <2> QED
    BY <2>2, <2>4, <2>5, ReportPosted
<1>4. ASSUME NEW w \in Target, Exit(w)
      PROVE  ReportInv'
  <2>1. PICK s \in Sid : s = agent[w]
    BY <1>1, <1>4 DEF Exit, TypeOK
  <2>2. Post(s, "end", w) /\ sessions' = sessions /\ status' = status
    BY <1>4, <2>1 DEF Exit, storeVars
  <2>3. Live \ {s} \subseteq Live'
    BY <1>1, <1>4, <2>1 DEF Exit, Live, TypeOK
  <2>4. \A r \in Sid \ {s} : Settled(r)' => Settled(r)
    BY <2>2, <2>3 DEF Settled
  <2> QED
    BY <2>2, <2>4, ReportPosted DEF Closing
<1>5. ASSUME NEW w \in Target, Kill(w)
      PROVE  ReportInv'
  <2>1. PICK s \in Sid : s = agent[w] /\ s \in Live
    BY <1>1, <1>5 DEF Kill, TypeOK, Live
  <2>2. UNCHANGED <<sessions, hooks, status>>
    BY <1>5 DEF Kill, storeVars
  <2>3. Live \ {s} \subseteq Live'
    BY <1>1, <1>5, <2>1 DEF Kill, Live, TypeOK
  <2>4. ASSUME NEW r \in Sid \ misled', Settled(r)'
        PROVE  r \notin misled /\ Settled(r)
    BY <1>5, <2>1, <2>2, <2>3, <2>4 DEF Kill, Settled
  <2>5. \A r \in Sid : SettlesAfter(r)' <=> SettlesAfter(r)
    BY <2>2 DEF SettlesAfter, ShownWorking, Known, Closes
  <2> QED
    BY <2>4, <2>5 DEF ReportInv
<1>6. ASSUME NEW w \in Target, StartOpenCode(w) \/ EndOpenCode(w)
      PROVE  ReportInv'
  <2>1. UNCHANGED <<agent, status, hooks, misled, sessions>>
    BY <1>6 DEF StartOpenCode, EndOpenCode, netVars, storeVars
  <2> QED
    BY <2>1, NobodyReports DEF ShownWorking, Known
<1> QED
  BY <1>2, <1>3, <1>4, <1>5, <1>6

LEMMA ReportRequestSteps ==
  ASSUME TypeInv, ReportInv,
         \/ \E s \in Sid : Handle(s)
         \/ \E w \in Target : PreRegister(w)
         \/ Refuse \/ PrunePending
  PROVE  ReportInv'
<1>1. TypeOK /\ DownInv
  BY DEF TypeInv
<1>2. UNCHANGED <<agent, status>>
  BY DEF Handle, SessionStart, StateHook, SessionEnd, PreRegister, Refuse,
         PrunePending, agentVars
<1>4. ASSUME NEW s \in Sid, NEW i \in DOMAIN hooks[s], SessionStart(s, i)
      PROVE  ReportInv'
  <2>1. Take(s, i) /\ hooks[s][i].event = "start"
    BY <1>4 DEF SessionStart
  <2>2. hooks[s][i].cwd \in Cwd
    BY <1>1, StoreFacts DEF Hook
  <2>3. /\ \A r \in Sid : r # s => sessions'[r] = sessions[r]
        /\ \/ Known(s) /\ sessions'[s].state = sessions[s].state
           \/ sessions'[s].state = "idle"
    BY <1>1, <1>4, <2>2, RegisterEffect DEF SessionStart
  <2>4. \A r \in Sid : ShownWorking(r)' => ShownWorking(r)
    BY <2>3 DEF ShownWorking, Known, Working
  <2> QED
    BY <1>2, <2>1, <2>4, ReportTaken DEF Closing
<1>5. ASSUME NEW s \in Sid, NEW i \in DOMAIN hooks[s], StateHook(s, i)
      PROVE  ReportInv'
  <2>1. PICK st \in State : st = hooks[s][i].event /\ SetState(s, st)
    BY <1>5 DEF StateHook
  <2>2. Take(s, i)
    BY <1>5 DEF StateHook
  <2>3. /\ \A r \in Sid : /\ Known(r)' <=> Known(r)
                          /\ r # s => sessions'[r] = sessions[r]
        /\ Known(s) => sessions'[s].state = st
    BY <1>1, <2>1, SetStateEffect
  <2>4. /\ \A r \in Sid \ {s} : ShownWorking(r)' => ShownWorking(r)
        /\ ShownWorking(s)' => st \in Working
    BY <2>3 DEF ShownWorking
  <2> QED
    BY <1>2, <2>1, <2>2, <2>4, ReportTaken
<1>6. ASSUME NEW s \in Sid, NEW i \in DOMAIN hooks[s], SessionEnd(s, i)
      PROVE  ReportInv'
  <2>1. Take(s, i) /\ Remove(s)
    BY <1>6 DEF SessionEnd
  <2>2. /\ ~Known(s)'
        /\ \A r \in Sid : r # s => sessions'[r] = sessions[r]
    BY <1>1, <2>1, RemoveEffect
  <2>3. /\ \A r \in Sid \ {s} : ShownWorking(r)' => ShownWorking(r)
        /\ ~ShownWorking(s)'
    BY <2>2 DEF ShownWorking, Known
  <2> QED
    BY <1>2, <2>1, <2>3, ReportTaken
<1>7. ASSUME NEW w \in Target, PreRegister(w)
      PROVE  ReportInv'
  <2>1. UNCHANGED <<sessions, hooks, misled>>
    BY <1>7 DEF PreRegister, AddPending
  <2> QED
    BY <1>2, <2>1, NobodyReports DEF ShownWorking, Known
<1>8. CASE Refuse
  <2>1. sessions' = sessions /\ \A s \in Sid : ~ShownWorking(s)
    BY <1>1, <1>8 DEF Refuse, storeVars, DownInv, ShownWorking
  <2>2. \A s \in Sid : ~ShownWorking(s)'
    BY <2>1 DEF ShownWorking, Known
  <2>3. CASE UNCHANGED <<hooks, misled>>
    BY <1>2, <2>2, <2>3, NobodyReports
  <2>4. CASE \E s \in Sid : \E i \in DOMAIN hooks[s] : Take(s, i)
    BY <1>2, <2>2, <2>4, ReportTaken
  <2> QED
    BY <1>8, <2>3, <2>4 DEF Refuse
<1>9. CASE PrunePending
  <2>1. UNCHANGED <<sessions, hooks, misled>>
    BY <1>9 DEF PrunePending, PruneStalePending, netVars
  <2> QED
    BY <1>2, <2>1, NobodyReports DEF ShownWorking, Known
<1> QED
  BY <1>4, <1>5, <1>6, <1>7, <1>8, <1>9 DEF Handle

LEMMA ReportServerSteps ==
  ASSUME TypeInv, ReportInv, Scan \/ Start \/ Crash
  PROVE  ReportInv'
<1>1. TypeOK /\ ScannerInv
  BY DEF TypeInv
<1> USE DEF outside, agentVars, netVars
<1>2. UNCHANGED <<agent, status, hooks, misled>>
  BY DEF Scan, ListPanes, Visit, Find, Get, Assign, RegisterFound, WriteTarget,
         TrackedTargets, PaneGone, RemoveGone, ScanDone, Start, Crash
<1>3. \A s \in Sid : ShownWorking(s)' => ShownWorking(s)
  <2>1. CASE \/ ListPanes \/ (\E w \in Target : Visit(w)) \/ Find \/ Get
             \/ TrackedTargets \/ (\E w \in Target : PaneGone(w)) \/ ScanDone
    <3>1. sessions' = sessions
      BY <2>1 DEF ListPanes, Visit, Find, Get, TrackedTargets, PaneGone,
                  ScanDone, storeVars
    <3> QED
      BY <3>1 DEF ShownWorking, Known
  <2>2. CASE Assign \/ WriteTarget
    <3>1. /\ found \in Sid
          /\ \/ sessions' = sessions
             \/ sessions'[found].state = sessions[found].state
          /\ \A r \in Sid : /\ Known(r)' <=> Known(r)
                            /\ r # found => sessions'[r] = sessions[r]
      BY <2>2, TargetWritten
    <3> QED
      BY <3>1 DEF ShownWorking
  <2>3. CASE RegisterFound
    <3>1. /\ found \in Sid /\ Register(found, CwdOf[pane])
          /\ CwdOf[pane] \in Cwd
      BY <1>1, <2>3, CwdAssumption DEF RegisterFound, ScannerInv
    <3>2. /\ \A r \in Sid : r # found => sessions'[r] = sessions[r]
          /\ \/ Known(found) /\ sessions'[found].state = sessions[found].state
             \/ sessions'[found].state = "idle"
      BY <1>1, <3>1, RegisterEffect
    <3> QED
      BY <3>2 DEF ShownWorking, Known, Working
  <2>4. CASE RemoveGone
    <3>1. found \in Sid /\ Remove(found)
      BY <1>1, <2>4 DEF RemoveGone, ScannerInv
    <3>2. \A r \in Sid : Known(r)' => r # found /\ sessions'[r] = sessions[r]
      BY <1>1, <3>1, RemoveEffect
    <3> QED
      BY <3>2 DEF ShownWorking, Known
  <2>5. CASE Start
    BY <2>5, StartEffect DEF ShownWorking, Working
  <2>6. CASE Crash
    BY <2>6 DEF Crash, ShownWorking, Known
  <2> QED
    BY <2>1, <2>2, <2>3, <2>4, <2>5, <2>6 DEF Scan
<1> QED
  BY <1>2, <1>3, NobodyReports

LEMMA ReportStep == TypeInv /\ ReportInv /\ [Next]_vars => ReportInv'
<1> SUFFICES ASSUME TypeInv, ReportInv, [Next]_vars PROVE ReportInv'
  OBVIOUS
<1>1. CASE UNCHANGED vars
  BY <1>1, NobodyReports DEF vars, storeVars, agentVars, netVars, ShownWorking,
                             Known
<1>2. CASE Next
  BY <1>2, ReportAgentSteps, ReportRequestSteps, ReportServerSteps DEF Next
<1> QED
  BY <1>1, <1>2

\* Whatever the order in which its hooks are handled, an agent that is idle
\* is not shown as one that works once they are handled: not after a restart,
\* not when the scanner removes and registers the session between two hooks,
\* not when it continues an earlier one.  The sessions excepted are those whose
\* last word overtook an older report, or that were killed at work, and have
\* not come to rest since.
THEOREM IdleShownIdle == Spec => []IdleIsNotBusy
<1>1. Init => ReportInv
  BY DEF Init, StoreInit, ReportInv, SettlesAfter, ShownWorking, Known
<1>2. TypeInv /\ ReportInv => IdleIsNotBusy
  <2> SUFFICES ASSUME TypeInv, ReportInv, NEW s \in Live \ misled, Known(s),
                      status[s] = "idle", hooks[s] = <<>>
               PROVE  sessions[s].state \in {"idle", "unknown"}
    BY DEF IdleIsNotBusy
  <2>1. s \in Sid
    BY DEF TypeInv, TypeOK, Live
  <2>2. SettlesAfter(s)
    BY <2>1 DEF ReportInv, Settled
  <2>3. sessions[s].state \notin Working
    BY <2>2 DEF SettlesAfter, ShownWorking, Closes
  <2>4. sessions[s].state \in State
    BY <2>1, StoreFacts DEF TypeInv, Session
  <2> QED
    BY <2>3, <2>4 DEF Working, State
<1> QED
  BY InitType, TypeStep, ReportStep, <1>1, <1>2, PTL DEF Spec
=============================================================================
