-------------------------- MODULE OpenCodeSseProofs --------------------------
(***************************************************************************)
(* Proofs about OpenCodeSse, for any number of sessions, clients, events,  *)
(* registrations and glitches, and any length of the streams.              *)
(*                                                                         *)
(* What is shown is right once all is handled because of what is still to  *)
(* come before that: the last event in the stream of the instance's client *)
(* that tells of a session tells the truth, and where there is none the    *)
(* store, or the answer that is being stored, has the truth already.       *)
(***************************************************************************)
EXTENDS OpenCodeSse, SequenceTheorems, TLAPS

-----------------------------------------------------------------------------
(* What is in a stream.                                                    *)

About(e, s, kinds) == e.sid = s /\ e.kind \in kinds

Has(q, s, kinds) == \E k \in DOMAIN q : About(q[k], s, kinds)

\* e is the last event of these kinds about s.
LastOf(q, s, kinds, e) ==
  \E k \in DOMAIN q :
    /\ q[k] = e /\ About(e, s, kinds)
    /\ \A j \in DOMAIN q : j > k => ~About(q[j], s, kinds)

Turning == {"idle", "busy", "retry", "odd", "asked", "replied"}
Telling == {"created"} \union Turning
Titling == {"created", "updated"}

\* What the session does when the event is sent.
Tells(e) == CASE e.kind \in {"created", "idle"} -> "idle"
              [] e.kind \in {"busy", "retry", "replied"} -> "busy"
              [] e.kind = "odd" -> "odd"
              [] e.kind = "asked" -> "asking"

\* A session is created before and deleted after everything else.
InOrder(q, s) ==
  \A j, k \in DOMAIN q :
    j < k /\ q[j].sid = s /\ q[k].sid = s =>
      q[j].kind # "deleted" /\ q[k].kind # "created"

\* What an event says was so once.
Said(e) ==
  /\ \/ e.kind = "connected" /\ e.sid = NoSid
     \/ e.kind # "connected" /\ e.sid \in Sid
  /\ e.sid \in Sid => e.title <= title[e.sid] /\ real[e.sid] # "none"
  /\ e.kind = "deleted" => real[e.sid] = "deleted"

-----------------------------------------------------------------------------
(* The parts of the inductive invariant.                                   *)

Before  == {"none", "list0", "store0", "connect"}
Storing == {"store0", "store", "apply"}

ProcessType ==
  /\ real \in [Sid -> {"none", "idle", "busy", "odd", "asking", "deleted"}]
  /\ title \in [Sid -> 0 .. MaxTitle]
  /\ left \in [sessions : Nat, events : Nat, regs : Nat, glitches : Nat]

\* What TypeOK says of an instance.
Listed(order, s) == \E k \in DOMAIN order : order[k] = s

Once(order) == \A j, k \in DOMAIN order : order[j] = order[k] => j = k

Fits(i) ==
  i = NoInstance \/ /\ i \in InstanceType
                    /\ \A s \in Sid : Knows(i, s) <=> Listed(i.order, s)
                    /\ Once(i.order)

RowType ==
  (Sid \union {NoSid}) \X (State) \X (0 .. MaxTitle)

ServerType ==
  /\ Fits(inst) /\ row \subseteq RowType
  /\ handler \subseteq [client : Client, hint : Sid \union {NoSid}]
  /\ heard \subseteq Sid /\ listed \in BOOLEAN /\ untold \subseteq Sid
  /\ foreign \subseteq Sid

\* The client of the instance is the one that has not been cancelled; it has
\* a stream once it is connected.
ClientInv ==
  /\ pc \in [Client -> PC] /\ cancelled \in [Client -> BOOLEAN]
  /\ \A c \in Client : /\ Current(c) <=> pc[c] # "none" /\ ~cancelled[c]
                       /\ pc[c] = "none" => ~cancelled[c]
                       /\ pc[c] \in Before => stream[c] = <<>>
  /\ heard # {} \/ listed => inst # NoInstance /\ pc[inst.client] \notin Before

AnswerInv ==
  /\ DOMAIN answer = Client
  /\ \A c \in Client :
       /\ pc[c] \notin Storing => DOMAIN answer[c] = {}
       /\ \A s \in DOMAIN answer[c] :
            /\ s \in Sid /\ real[s] # "none"
            /\ pc[c] # "apply" => answer[c][s] \in 0 .. title[s]

StreamInv ==
  /\ stream \in [Client -> Seq(EventType)]
  /\ \A c \in Client : /\ \A k \in DOMAIN stream[c] : Said(stream[c][k])
                       /\ \A s \in Sid : InOrder(stream[c], s)

\* Nothing is known of a session that is still to come.
KnownInv ==
  /\ \A s \in Sid : Knows(inst, s) =>
       real[s] # "none" /\ inst.sessions[s].title <= title[s]
  /\ \A s \in heard : real[s] # "none"

BaseInv ==
  ProcessType /\ ServerType /\ ClientInv /\ AnswerInv /\ StreamInv /\ KnownInv

\* The row is right, or the instance's client has yet to reconcile: it is not
\* at the stream, or it will be led away from it to get the list.
PublishInv ==
  handler = {} /\ foreign = {} =>
    \/ row = Rows(inst)
    \/ /\ inst # NoInstance
       /\ \/ pc[inst.client] # "read"
          \/ Has(stream[inst.client], NoSid, {"connected"})

\* The state of a session, once the client has stored its answer.
Shown(c, s) ==
  IF pc[c] = "apply" /\ s \in DOMAIN answer[c]
    THEN MapOpenCodeStatus(answer[c][s])
    ELSE inst.sessions[s].state

\* Another client has nothing to write about the session.
NothingOf(d, s) ==
  /\ \A k \in DOMAIN stream[d] : stream[d][k].sid # s
  /\ s \notin DOMAIN answer[d]

StateInv(c, s) ==
  /\ \A e \in EventType : LastOf(stream[c], s, Telling, e) /\ Exists(s) =>
       /\ Tells(e) = real[s]
       /\ e.kind = "created" /\ Knows(inst, s) =>
            Shown(c, s) \in {"idle", "unknown"}
  /\ Has(stream[c], s, {"created"}) =>
       \A d \in Client \ {c} : NothingOf(d, s)
  /\ s \in heard /\ Exists(s) =>
       /\ Knows(inst, s)
       /\ Has(stream[c], s, Turning) \/ Shown(c, s) = Truth(s)

\* The session is in the list that the client is storing.
Listing(c, s) == pc[c] \in {"store0", "store"} /\ s \in DOMAIN answer[c]

TitleInv(c, s) ==
  /\ \A e \in EventType : LastOf(stream[c], s, Titling, e) => e.title = title[s]
  /\ listed /\ s \notin untold \union foreign /\ Exists(s) =>
       \/ Has(stream[c], s, Titling)
       \/ Listing(c, s) /\ answer[c][s] = title[s]
       \/ /\ ~Listing(c, s)
          /\ Knows(inst, s) /\ inst.sessions[s].title = title[s]
  /\ s \notin untold \union foreign /\ real[s] = "deleted" =>
       \/ Has(stream[c], s, {"deleted"})
       \/ ~Knows(inst, s) /\ ~Listing(c, s) /\ ~Has(stream[c], s, Titling)

StatesInv == \A c \in Client, s \in Sid : Current(c) => StateInv(c, s)
TitlesInv == \A c \in Client, s \in Sid : Current(c) => TitleInv(c, s)

-----------------------------------------------------------------------------
(* Streams.                                                                *)

\* An event is sent: it comes last.
LEMMA AppendEffect ==
  ASSUME NEW q \in Seq(EventType), NEW e \in EventType,
         NEW p, p = Append(q, e)
  PROVE  /\ p \in Seq(EventType)
         /\ \A k \in DOMAIN p : p[k] = e \/ \E j \in DOMAIN q : p[k] = q[j]
         /\ \A s, kinds : Has(p, s, kinds) <=> Has(q, s, kinds) \/ About(e, s, kinds)
         /\ \A s, kinds, f : LastOf(p, s, kinds, f) =>
              \/ f = e /\ About(e, s, kinds)
              \/ ~About(e, s, kinds) /\ LastOf(q, s, kinds, f)
         /\ \A s : /\ InOrder(q, s)
                   /\ e.sid = s => \A k \in DOMAIN q : q[k].sid = s =>
                        e.kind # "created" /\ q[k].kind # "deleted"
                   => InOrder(p, s)
<1> DEFINE n == Len(q)
<1>1. DOMAIN q = 1 .. n /\ n \in Nat
  BY LenProperties
<1>2. /\ p \in Seq(EventType) /\ Len(p) = n + 1
      /\ \A i \in 1 .. n : p[i] = q[i]
      /\ p[n + 1] = e
  BY AppendProperties
<1>3. DOMAIN p = 1 .. n + 1
  BY <1>2, LenProperties
<1> HIDE DEF n
<1>4. \A k \in DOMAIN p : k = n + 1 \/ k \in DOMAIN q
  BY <1>1, <1>3
<1>5. \A k \in DOMAIN q : k \in DOMAIN p /\ p[k] = q[k] /\ n + 1 > k
  BY <1>1, <1>2, <1>3
<1>6. n + 1 \in DOMAIN p
  BY <1>1, <1>3
<1>7. \A k \in DOMAIN p : p[k] = e \/ \E j \in DOMAIN q : p[k] = q[j]
  BY <1>2, <1>4, <1>5
<1>8. ASSUME NEW s, NEW kinds
      PROVE  Has(p, s, kinds) <=> Has(q, s, kinds) \/ About(e, s, kinds)
  BY <1>2, <1>4, <1>5, <1>6 DEF Has
<1>9. ASSUME NEW s, NEW kinds, NEW f, LastOf(p, s, kinds, f)
      PROVE  \/ f = e /\ About(e, s, kinds)
             \/ ~About(e, s, kinds) /\ LastOf(q, s, kinds, f)
  <2>1. PICK k \in DOMAIN p :
          /\ p[k] = f /\ About(f, s, kinds)
          /\ \A j \in DOMAIN p : j > k => ~About(p[j], s, kinds)
    BY <1>9 DEF LastOf
  <2>2. CASE k = n + 1
    BY <1>2, <2>1, <2>2
  <2>3. CASE k \in DOMAIN q
    <3>1. ~About(e, s, kinds)
      BY <1>2, <1>5, <1>6, <2>1, <2>3
    <3>2. LastOf(q, s, kinds, f)
      BY <1>5, <2>1, <2>3 DEF LastOf
    <3> QED
      BY <3>1, <3>2
  <2> QED
    BY <1>4, <2>2, <2>3
<1>10. ASSUME NEW s, InOrder(q, s),
              e.sid = s => \A k \in DOMAIN q : q[k].sid = s =>
                             e.kind # "created" /\ q[k].kind # "deleted"
       PROVE  InOrder(p, s)
  <2> SUFFICES ASSUME NEW j \in DOMAIN p, NEW k \in DOMAIN p,
                      j < k, p[j].sid = s, p[k].sid = s
               PROVE  p[j].kind # "deleted" /\ p[k].kind # "created"
    BY DEF InOrder
  <2>1. j \in DOMAIN q
    BY <1>1, <1>3
  <2>2. CASE k \in DOMAIN q
    BY <1>5, <1>10, <2>1, <2>2 DEF InOrder
  <2>3. CASE k = n + 1
    BY <1>2, <1>5, <1>10, <2>1, <2>3
  <2> QED
    BY <1>4, <2>2, <2>3
<1> QED
  BY <1>2, <1>7, <1>8, <1>9, <1>10

\* An event is handled: it was the first.
LEMMA TailEffect ==
  ASSUME NEW q \in Seq(EventType), q # <<>>
  PROVE  /\ Head(q) \in EventType /\ Tail(q) \in Seq(EventType)
         /\ \E k \in DOMAIN q : Head(q) = q[k]
         /\ \A k \in DOMAIN Tail(q) : \E j \in DOMAIN q : Tail(q)[k] = q[j]
         /\ \A s, kinds : Has(q, s, kinds) <=>
              Has(Tail(q), s, kinds) \/ About(Head(q), s, kinds)
         /\ \A s, kinds, f :
              LastOf(Tail(q), s, kinds, f) => LastOf(q, s, kinds, f)
         /\ \A s, kinds : About(Head(q), s, kinds) /\ ~Has(Tail(q), s, kinds) =>
              LastOf(q, s, kinds, Head(q))
         /\ \A s : InOrder(q, s) =>
              /\ InOrder(Tail(q), s)
              /\ Head(q).sid = s => \A k \in DOMAIN Tail(q) :
                   Tail(q)[k].sid = s =>
                     Head(q).kind # "deleted" /\ Tail(q)[k].kind # "created"
<1> DEFINE n == Len(q)
           h == Head(q)
           p == Tail(q)
<1>1. DOMAIN q = 1 .. n /\ n \in Nat /\ n # 0
  BY LenProperties, EmptySeq
<1>2. /\ h \in EventType /\ p \in Seq(EventType) /\ Len(p) = n - 1
      /\ \A i \in 1 .. Len(p) : p[i] = q[i + 1]
  BY HeadTailProperties
<1>3. DOMAIN p = 1 .. n - 1
  BY <1>2, LenProperties
<1>4. h = q[1] /\ 1 \in DOMAIN q
  BY <1>1
<1> HIDE DEF n, h, p
<1>5. \A k \in DOMAIN p : k + 1 \in DOMAIN q /\ p[k] = q[k + 1] /\ k + 1 > 1
  BY <1>1, <1>2, <1>3
<1>6. \A k \in DOMAIN q : \/ k = 1
                          \/ k - 1 \in DOMAIN p /\ p[k - 1] = q[k]
  <2> SUFFICES ASSUME NEW k \in DOMAIN q, k # 1
               PROVE  k - 1 \in DOMAIN p /\ p[k - 1] = q[k]
    OBVIOUS
  <2>1. k - 1 \in 1 .. n - 1 /\ (k - 1) + 1 = k
    BY <1>1
  <2> QED
    BY <1>2, <1>3, <2>1
<1>7. ASSUME NEW s, NEW kinds
      PROVE  Has(q, s, kinds) <=> Has(p, s, kinds) \/ About(h, s, kinds)
  BY <1>4, <1>5, <1>6 DEF Has
<1>8. ASSUME NEW s, NEW kinds, NEW f, LastOf(p, s, kinds, f)
      PROVE  LastOf(q, s, kinds, f)
  <2>1. PICK k \in DOMAIN p :
          /\ p[k] = f /\ About(f, s, kinds)
          /\ \A j \in DOMAIN p : j > k => ~About(p[j], s, kinds)
    BY <1>8 DEF LastOf
  <2>2. ASSUME NEW j \in DOMAIN q, j > k + 1
        PROVE  ~About(q[j], s, kinds)
    <3>1. j # 1 /\ j - 1 > k
      BY <1>1, <1>3, <2>2
    <3> QED
      BY <1>6, <2>1, <3>1
  <2>3. k + 1 \in DOMAIN q /\ q[k + 1] = f
    BY <1>5, <2>1
  <2> QED
    BY <2>1, <2>2, <2>3 DEF LastOf
<1>9. ASSUME NEW s, NEW kinds, About(h, s, kinds), ~Has(p, s, kinds)
      PROVE  LastOf(q, s, kinds, h)
  <2>1. \A j \in DOMAIN q : j > 1 => ~About(q[j], s, kinds)
    BY <1>1, <1>6, <1>9 DEF Has
  <2> QED
    BY <1>4, <1>9, <2>1 DEF LastOf
<1>10. ASSUME NEW s, InOrder(q, s)
       PROVE  /\ InOrder(p, s)
              /\ h.sid = s => \A k \in DOMAIN p : p[k].sid = s =>
                   h.kind # "deleted" /\ p[k].kind # "created"
  <2>1. ASSUME NEW j \in DOMAIN p, NEW k \in DOMAIN p,
               j < k, p[j].sid = s, p[k].sid = s
        PROVE  p[j].kind # "deleted" /\ p[k].kind # "created"
    <3>1. j + 1 < k + 1
      BY <1>3, <2>1
    <3> QED
      BY <1>5, <1>10, <2>1, <3>1 DEF InOrder
  <2>2. ASSUME h.sid = s, NEW k \in DOMAIN p, p[k].sid = s
        PROVE  h.kind # "deleted" /\ p[k].kind # "created"
    BY <1>4, <1>5, <1>10, <2>2 DEF InOrder
  <2> QED
    BY <2>1, <2>2 DEF InOrder
<1>11. /\ \E k \in DOMAIN q : h = q[k]
       /\ \A k \in DOMAIN p : \E j \in DOMAIN q : p[k] = q[j]
  BY <1>4, <1>5
<1> QED
  BY <1>2, <1>7, <1>8, <1>9, <1>10, <1>11 DEF h, p

-----------------------------------------------------------------------------
(* The store.                                                              *)

Session == [state : State, title : 0 .. MaxTitle]

\* j is what a method of the store makes of i: session s at most is changed.
Touched(i, j, s) ==
  /\ Fits(j) /\ (j = NoInstance <=> i = NoInstance)
  /\ i # NoInstance => j.client = i.client
  /\ \A r \in Sid \ {s} : /\ Knows(j, r) <=> Knows(i, r)
                          /\ i # NoInstance => j.sessions[r] = i.sessions[r]

LEMMA ConstantFacts ==
  /\ MaxTitle \in Nat /\ 0 \in 0 .. MaxTitle /\ NoSession \notin Session
  /\ \A i \in InstanceType : i # NoInstance
<1>1. MaxTitle \in Nat
  BY BoundAssumption
<1>2. \A t \in 0 .. MaxTitle : t \in Nat
  BY <1>1
<1>3. \A x \in Session : x \in [state : State, title : Nat]
  BY <1>2 DEF Session
<1>4. InstanceType \subseteq
        [sessions: [Sid -> {NoSession} \union [state: State, title: Nat]],
         order: Seq(Sid), active: Sid \union {NoSid}, client: Client]
  <2> SUFFICES ASSUME NEW i \in InstanceType
               PROVE  i \in [sessions: [Sid -> {NoSession} \union
                                                 [state: State, title: Nat]],
                             order: Seq(Sid), active: Sid \union {NoSid},
                             client: Client]
    OBVIOUS
  <2>1. i.sessions \in [Sid -> {NoSession} \union Session]
    BY DEF InstanceType, Session
  <2>2. i.sessions \in [Sid -> {NoSession} \union [state: State, title: Nat]]
    BY <1>3, <2>1
  <2> QED
    BY <2>2 DEF InstanceType
<1> QED
  BY <1>1, <1>3, <1>4, NothingAssumption

LEMMA KnownSession ==
  ASSUME NEW i, Fits(i), NEW s \in Sid
  PROVE  Knows(i, s) => i.sessions[s] \in Session
BY DEF Fits, Knows, InstanceType, Session

\* RemoveAt moves what comes after the removed place up by one.
LEMMA RemoveAtProperties ==
  ASSUME NEW S, NEW q \in Seq(S), NEW i \in DOMAIN q
  PROVE  /\ SE!RemoveAt(q, i) \in Seq(S)
         /\ Len(SE!RemoveAt(q, i)) = Len(q) - 1
         /\ \A j \in 1 .. Len(q) - 1 :
              SE!RemoveAt(q, i)[j] = IF j < i THEN q[j] ELSE q[j + 1]
<1> DEFINE a == SubSeq(q, 1, i - 1)
           b == SubSeq(q, i + 1, Len(q))
<1>1. Len(q) \in Nat /\ i \in 1 .. Len(q)
  BY LenProperties
<1>2. \A j \in 1 .. Len(q) : q[j] \in S
  BY ElementOfSeq
<1>3. /\ a \in Seq(S) /\ Len(a) = i - 1
      /\ \A j \in 1 .. i - 1 : a[j] = q[j]
  <2>1. \A j \in 1 .. i - 1 : q[j] \in S
    BY <1>1, <1>2
  <2>2. /\ a \in Seq(S)
        /\ Len(a) = IF 1 <= i - 1 THEN (i - 1) - 1 + 1 ELSE 0
        /\ \A j \in 1 .. (i - 1) - 1 + 1 : a[j] = q[1 + j - 1]
    BY <1>1, <2>1, SubSeqProperties
  <2> QED
    BY <1>1, <2>2
<1>4. /\ b \in Seq(S) /\ Len(b) = Len(q) - i
      /\ \A j \in 1 .. Len(q) - i : b[j] = q[i + j]
  <2>1. \A j \in i + 1 .. Len(q) : q[j] \in S
    BY <1>1, <1>2
  <2>2. /\ b \in Seq(S)
        /\ Len(b) = IF i + 1 <= Len(q) THEN Len(q) - (i + 1) + 1 ELSE 0
        /\ \A j \in 1 .. Len(q) - (i + 1) + 1 : b[j] = q[(i + 1) + j - 1]
    BY <1>1, <2>1, SubSeqProperties
  <2> QED
    BY <1>1, <2>2
<1>5. /\ a \o b \in Seq(S) /\ Len(a \o b) = Len(a) + Len(b)
      /\ \A j \in 1 .. Len(a) + Len(b) :
           (a \o b)[j] = IF j <= Len(a) THEN a[j] ELSE b[j - Len(a)]
  BY <1>3, <1>4, ConcatProperties
<1>6. SE!RemoveAt(q, i) = a \o b
  BY DEF SE!RemoveAt
<1> HIDE DEF a, b
<1>7. ASSUME NEW j \in 1 .. Len(q) - 1
      PROVE  (a \o b)[j] = IF j < i THEN q[j] ELSE q[j + 1]
  <2>1. CASE j < i
    BY <1>1, <1>3, <1>4, <1>5, <2>1
  <2>2. CASE ~(j < i)
    <3>1. (a \o b)[j] = b[j - Len(a)]
      <4>1. j \in 1 .. Len(a) + Len(b) /\ ~(j <= Len(a))
        BY <1>1, <1>3, <1>4, <2>2
      <4> QED
        BY <1>5, <4>1
    <3>2. j - Len(a) \in 1 .. Len(q) - i /\ i + (j - Len(a)) = j + 1
      BY <1>1, <1>3, <2>2
    <3> QED
      BY <1>4, <2>2, <3>1, <3>2
  <2> QED
    BY <2>1, <2>2
<1>8. (i - 1) + (Len(q) - i) = Len(q) - 1
  BY <1>1
<1>9. Len(a \o b) = Len(q) - 1
  BY <1>3, <1>4, <1>5, <1>8
<1> QED
  BY <1>5, <1>6, <1>7, <1>9

\* A session is listed once, and no more when it is taken out.
LEMMA WithoutProperties ==
  ASSUME NEW order \in Seq(Sid), Once(order), NEW s \in Sid
  PROVE  /\ Without(order, s) \in Seq(Sid) /\ Once(Without(order, s))
         /\ \A r : Listed(Without(order, s), r) <=> r # s /\ Listed(order, r)
<1>1. CASE ~Listed(order, s)
  BY <1>1 DEF Listed, Without
<1>2. CASE Listed(order, s)
  <2> DEFINE n == Len(order)
             i == CHOOSE k \in DOMAIN order : order[k] = s
             w == SE!RemoveAt(order, i)
  <2>1. i \in DOMAIN order /\ order[i] = s
    BY <1>2 DEF Listed
  <2>2. Without(order, s) = w
    BY <1>2 DEF Listed, Without
  <2> HIDE DEF i
  <2>3. /\ w \in Seq(Sid) /\ Len(w) = n - 1
        /\ \A j \in 1 .. n - 1 : w[j] = IF j < i THEN order[j] ELSE order[j + 1]
    BY <2>1, RemoveAtProperties
  <2>4. DOMAIN order = 1 .. n /\ n \in Nat
    BY LenProperties
  <2> HIDE DEF w, n
  <2>5. DOMAIN w = 1 .. n - 1
    BY <2>3, LenProperties
  <2> DEFINE at(j) == IF j < i THEN j ELSE j + 1
  <2>6. \A j \in DOMAIN w : /\ at(j) \in DOMAIN order /\ at(j) # i
                            /\ w[j] = order[at(j)]
    BY <2>1, <2>3, <2>4, <2>5
  <2>7. \A j, k \in DOMAIN w : at(j) = at(k) => j = k
    BY <2>1, <2>4, <2>5
  <2>8. Once(w)
    BY <2>6, <2>7 DEF Once
  <2>9. ASSUME NEW r, Listed(w, r)
        PROVE  r # s /\ Listed(order, r)
    <3>1. PICK j \in DOMAIN w : w[j] = r
      BY <2>9 DEF Listed
    <3> QED
      BY <2>1, <2>6, <3>1 DEF Listed, Once
  <2>10. ASSUME NEW r, r # s, Listed(order, r)
         PROVE  Listed(w, r)
    <3>1. PICK k \in DOMAIN order : order[k] = r
      BY <2>10 DEF Listed
    <3>2. k # i
      BY <2>1, <2>10, <3>1
    <3>3. PICK j \in DOMAIN w : at(j) = k
      <4>1. CASE k < i
        <5>1. k \in DOMAIN w /\ at(k) = k
          BY <2>1, <2>4, <2>5, <4>1
        <5> QED
          BY <5>1
      <4>2. CASE ~(k < i)
        <5>1. k - 1 \in DOMAIN w /\ at(k - 1) = k
          BY <2>1, <2>4, <2>5, <3>2, <4>2
        <5> QED
          BY <5>1
      <4> QED
        BY <4>1, <4>2
    <3> QED
      BY <2>6, <3>1, <3>3 DEF Listed
  <2> QED
    BY <2>2, <2>3, <2>8, <2>9, <2>10
<1> QED
  BY <1>1, <1>2

\* The session that is updated comes first.
LEMMA FirstProperties ==
  ASSUME NEW order \in Seq(Sid), Once(order), NEW s \in Sid,
         NEW p, p = <<s>> \o Without(order, s)
  PROVE  /\ p \in Seq(Sid) /\ Once(p)
         /\ \A r : Listed(p, r) <=> r = s \/ Listed(order, r)
<1> DEFINE w == Without(order, s)
           m == Len(w)
<1>1. /\ w \in Seq(Sid) /\ Once(w)
      /\ \A r : Listed(w, r) <=> r # s /\ Listed(order, r)
  BY WithoutProperties
<1>2. <<s>> \in Seq(Sid) /\ Len(<<s>>) = 1 /\ <<s>>[1] = s
  OBVIOUS
<1>3. DOMAIN w = 1 .. m /\ m \in Nat
  BY <1>1, LenProperties
<1> HIDE DEF w
<1>4. /\ p \in Seq(Sid) /\ Len(p) = 1 + m
      /\ \A i \in 1 .. 1 + m : p[i] = IF i <= 1 THEN <<s>>[i] ELSE w[i - 1]
  BY <1>1, <1>2, ConcatProperties DEF w
<1>5. DOMAIN p = 1 .. 1 + m
  BY <1>4, LenProperties
<1> HIDE DEF m
<1>6. p[1] = s /\ 1 \in DOMAIN p
  BY <1>2, <1>3, <1>4, <1>5
<1>7. \A k \in DOMAIN p : \/ k = 1
                          \/ k - 1 \in DOMAIN w /\ p[k] = w[k - 1]
  <2> SUFFICES ASSUME NEW k \in DOMAIN p, k # 1
               PROVE  k - 1 \in DOMAIN w /\ p[k] = w[k - 1]
    OBVIOUS
  <2>1. k \in 1 .. 1 + m /\ ~(k <= 1) /\ k - 1 \in 1 .. m
    BY <1>3, <1>5
  <2> QED
    BY <1>3, <1>4, <2>1
<1>8. \A k \in DOMAIN w : k + 1 \in DOMAIN p /\ p[k + 1] = w[k]
  <2> SUFFICES ASSUME NEW k \in DOMAIN w
               PROVE  k + 1 \in DOMAIN p /\ p[k + 1] = w[k]
    OBVIOUS
  <2>1. k + 1 \in 1 .. 1 + m /\ ~(k + 1 <= 1) /\ (k + 1) - 1 = k
    BY <1>3
  <2> QED
    BY <1>4, <1>5, <2>1
<1>9. Once(p)
  <2> SUFFICES ASSUME NEW j \in DOMAIN p, NEW k \in DOMAIN p, p[j] = p[k]
               PROVE  j = k
    BY DEF Once
  <2>1. ASSUME NEW k1 \in DOMAIN p, k1 # 1 PROVE p[k1] # s
    BY <1>1, <1>7, <2>1 DEF Listed
  <2>2. CASE j = 1 \/ k = 1
    BY <1>6, <2>1, <2>2
  <2>3. CASE j # 1 /\ k # 1
    <3>1. j - 1 = k - 1
      BY <1>1, <1>7, <2>3 DEF Once
    <3> QED
      BY <1>3, <1>5, <3>1
  <2> QED
    BY <2>2, <2>3
<1>10. ASSUME NEW r
       PROVE  Listed(p, r) <=> r = s \/ Listed(order, r)
  <2>1. Listed(p, r) <=> r = s \/ Listed(w, r)
    BY <1>6, <1>7, <1>8 DEF Listed
  <2> QED
    BY <1>1, <2>1
<1> QED
  BY <1>4, <1>9, <1>10

LEMMA PutEffect ==
  ASSUME NEW i \in InstanceType, Fits(i), NEW s \in Sid, NEW x \in Session,
         NEW j, j = Put(i, s, x)
  PROVE  /\ Touched(i, j, s) /\ j \in InstanceType
         /\ j.sessions[s] = x /\ Knows(j, s)
<1> DEFINE p == <<s>> \o Without(i.order, s)
<1>1. i # NoInstance /\ x # NoSession
  BY ConstantFacts
<1>2. /\ i.order \in Seq(Sid) /\ Once(i.order)
      /\ \A r \in Sid : Knows(i, r) <=> Listed(i.order, r)
  BY <1>1 DEF Fits, InstanceType
<1>3. /\ p \in Seq(Sid) /\ Once(p)
      /\ \A r : Listed(p, r) <=> r = s \/ Listed(i.order, r)
  BY <1>2, FirstProperties
<1>4. j = [i EXCEPT !.sessions = [i.sessions EXCEPT ![s] = x], !.order = p]
  BY DEF Put, InstanceType
<1> HIDE DEF p
<1>5. i.sessions \in [Sid -> {NoSession} \union Session]
  BY DEF InstanceType, Session
<1>6. /\ j.sessions = [i.sessions EXCEPT ![s] = x] /\ j.order = p
      /\ j.client = i.client /\ j.active = i.active
  BY <1>4 DEF InstanceType
<1>7. j.sessions \in [Sid -> {NoSession} \union Session]
  BY <1>5, <1>6
<1>8. j \in InstanceType
  BY <1>3, <1>4, <1>6, <1>7 DEF InstanceType, Session
<1>9. j # NoInstance
  BY <1>8, ConstantFacts
<1>10. j.sessions[s] = x /\ \A r \in Sid \ {s} : j.sessions[r] = i.sessions[r]
  BY <1>5, <1>6
<1>11. Knows(j, s) /\ \A r \in Sid \ {s} : Knows(j, r) <=> Knows(i, r)
  BY <1>1, <1>9, <1>10 DEF Knows
<1>12. \A r \in Sid : Knows(j, r) <=> Listed(j.order, r)
  BY <1>2, <1>3, <1>6, <1>11
<1> QED
  BY <1>1, <1>3, <1>6, <1>8, <1>9, <1>10, <1>11, <1>12 DEF Touched, Fits

\* UpsertSession stores the title, a new session idle.
LEMMA UpsertEffect ==
  ASSUME NEW i, Fits(i), NEW s \in Sid, NEW t \in 0 .. MaxTitle,
         NEW j, j = UpsertSession(i, s, t)
  PROVE  /\ Touched(i, j, s)
         /\ i # NoInstance =>
              /\ Knows(j, s)
              /\ j.sessions[s].state =
                   IF Knows(i, s) THEN i.sessions[s].state ELSE "idle"
              /\ j.sessions[s].title =
                   IF Knows(i, s) /\ t = 0 THEN i.sessions[s].title ELSE t
<1>1. CASE i = NoInstance
  BY <1>1 DEF UpsertSession, Touched, Fits, Knows
<1>2. CASE i # NoInstance /\ Knows(i, s)
  <2> DEFINE x == [i.sessions[s] EXCEPT !.title = IF t = 0 THEN @ ELSE t]
  <2>1. i.sessions[s] \in Session
    BY <1>2, KnownSession
  <2>2. /\ x \in Session /\ x.state = i.sessions[s].state
        /\ x.title = IF t = 0 THEN i.sessions[s].title ELSE t
    BY <2>1 DEF Session
  <2>3. j = Put(i, s, x) /\ i \in InstanceType
    BY <1>2 DEF UpsertSession, Fits
  <2> HIDE DEF x
  <2>4. Touched(i, j, s) /\ j.sessions[s] = x /\ Knows(j, s)
    BY <2>2, <2>3, PutEffect
  <2> QED
    BY <1>2, <2>2, <2>4
<1>3. CASE i # NoInstance /\ ~Knows(i, s)
  <2> DEFINE x == [state |-> "idle", title |-> t]
  <2>1. x \in Session /\ x.state = "idle" /\ x.title = t
    BY DEF Session, State
  <2>2. j = Put(i, s, x) /\ i \in InstanceType
    BY <1>3 DEF UpsertSession, Fits
  <2> HIDE DEF x
  <2>3. Touched(i, j, s) /\ j.sessions[s] = x /\ Knows(j, s)
    BY <2>1, <2>2, PutEffect
  <2> QED
    BY <1>3, <2>1, <2>3
<1> QED
  BY <1>1, <1>2, <1>3

\* SetSessionState stores the state of a known session, and nothing else.
LEMMA SetSessionStateEffect ==
  ASSUME NEW i, Fits(i), NEW s \in Sid, NEW st \in State,
         NEW j, j = SetSessionState(i, s, st)
  PROVE  /\ Touched(i, j, s)
         /\ Knows(j, s) <=> Knows(i, s)
         /\ ~Knows(i, s) => j = i
         /\ Knows(i, s) => /\ j.sessions[s].state = st
                           /\ j.sessions[s].title = i.sessions[s].title
<1>1. CASE ~Knows(i, s)
  BY <1>1 DEF SetSessionState, Touched, Fits, Knows
<1>2. CASE Knows(i, s)
  <2> DEFINE x == [i.sessions[s] EXCEPT !.state = st]
             p == Put(i, s, x)
  <2>1. i.sessions[s] \in Session
    BY <1>2, KnownSession
  <2>2. x \in Session /\ x.state = st /\ x.title = i.sessions[s].title
    BY <2>1 DEF Session
  <2>3. j = [p EXCEPT !.active = s] /\ i \in InstanceType
    BY <1>2 DEF SetSessionState, Knows, Fits
  <2> HIDE DEF x
  <2>4. /\ Touched(i, p, s) /\ p \in InstanceType
        /\ p.sessions[s] = x /\ Knows(p, s)
    BY <2>2, <2>3, PutEffect
  <2> HIDE DEF p
  <2>5. /\ j \in InstanceType /\ j.sessions = p.sessions /\ j.order = p.order
        /\ j.client = p.client
    BY <2>3, <2>4 DEF InstanceType
  <2>6. i # NoInstance /\ j # NoInstance /\ p # NoInstance
    BY <2>3, <2>4, <2>5, ConstantFacts
  <2>7. \A r \in Sid : Knows(j, r) <=> Knows(p, r)
    BY <2>5, <2>6 DEF Knows
  <2>8. Fits(j)
    BY <2>4, <2>5, <2>6, <2>7 DEF Fits, Touched
  <2>9. Touched(i, j, s)
    BY <2>4, <2>5, <2>6, <2>7, <2>8 DEF Touched
  <2> QED
    BY <1>2, <2>2, <2>4, <2>5, <2>7, <2>9
<1> QED
  BY <1>1, <1>2

\* RemoveSession takes the session out.
LEMMA RemoveSessionEffect ==
  ASSUME NEW i, Fits(i), NEW s \in Sid, NEW j, j = RemoveSession(i, s)
  PROVE  Touched(i, j, s) /\ ~Knows(j, s)
<1>1. CASE ~Knows(i, s)
  BY <1>1 DEF RemoveSession, Touched, Fits, Knows
<1>2. CASE Knows(i, s)
  <2> DEFINE w == Without(i.order, s)
  <2>1. i \in InstanceType /\ i # NoInstance
    BY <1>2, ConstantFacts DEF Fits, Knows
  <2>2. /\ i.order \in Seq(Sid) /\ Once(i.order)
        /\ \A r \in Sid : Knows(i, r) <=> Listed(i.order, r)
    BY <2>1 DEF Fits, InstanceType
  <2>3. /\ w \in Seq(Sid) /\ Once(w)
        /\ \A r : Listed(w, r) <=> r # s /\ Listed(i.order, r)
    BY <2>2, WithoutProperties
  <2>4. j = [i EXCEPT !.sessions = [i.sessions EXCEPT ![s] = NoSession],
                      !.order = w]
    BY <1>2, <2>1 DEF RemoveSession, InstanceType
  <2> HIDE DEF w
  <2>5. i.sessions \in [Sid -> {NoSession} \union Session]
    BY <2>1 DEF InstanceType, Session
  <2>6. /\ j.sessions = [i.sessions EXCEPT ![s] = NoSession] /\ j.order = w
        /\ j.client = i.client
    BY <2>1, <2>4 DEF InstanceType
  <2>7. j.sessions \in [Sid -> {NoSession} \union Session]
    BY <2>5, <2>6
  <2>8. j \in InstanceType /\ j # NoInstance
    <3>1. j \in InstanceType
      BY <2>1, <2>3, <2>4, <2>6, <2>7 DEF InstanceType, Session
    <3> QED
      BY <3>1, ConstantFacts
  <2>9. /\ j.sessions[s] = NoSession
        /\ \A r \in Sid \ {s} : j.sessions[r] = i.sessions[r]
    BY <2>5, <2>6
  <2>10. ~Knows(j, s) /\ \A r \in Sid \ {s} : Knows(j, r) <=> Knows(i, r)
    BY <2>1, <2>8, <2>9 DEF Knows
  <2>11. \A r \in Sid : Knows(j, r) <=> Listed(j.order, r)
    BY <2>2, <2>3, <2>6, <2>10
  <2> QED
    BY <2>1, <2>3, <2>6, <2>8, <2>9, <2>10, <2>11 DEF Touched, Fits
<1> QED
  BY <1>1, <1>2

LEMMA StatusState == \A x : MapOpenCodeStatus(x) \in State
BY DEF MapOpenCodeStatus, State

\* What an event makes of its session.
LEMMA AfterEffect ==
  ASSUME NEW i, Fits(i), NEW e \in EventType, e.sid \in Sid,
         e.kind \notin {"connected", "replied"},
         NEW s, s = e.sid, NEW j, j = After(i, e)
  PROVE  /\ Touched(i, j, s)
         /\ ~Changed(i, e) => j = i
         /\ e.kind \in Titling /\ i # NoInstance =>
              /\ Knows(j, s)
              /\ j.sessions[s].state =
                   IF Knows(i, s) THEN i.sessions[s].state ELSE "idle"
              /\ j.sessions[s].title =
                   IF Knows(i, s) /\ e.title = 0 THEN i.sessions[s].title
                                                 ELSE e.title
         /\ e.kind = "deleted" => ~Knows(j, s)
         /\ e.kind \in {"idle", "busy", "retry", "odd", "asked", "part"} =>
              /\ Knows(j, s) <=> Knows(i, s)
              /\ Knows(i, s) =>
                   /\ j.sessions[s].title = i.sessions[s].title
                   /\ j.sessions[s].state =
                        CASE e.kind = "asked" -> "permission"
                          [] e.kind = "part" -> IF i.sessions[s].state = "idle"
                                                  THEN "idle" ELSE "running"
                          [] OTHER -> MapOpenCodeStatus(e.kind)
<1>1. /\ e.kind \in {"created", "updated", "idle", "busy", "retry", "odd", "asked",
                     "part", "deleted"}
      /\ e.title \in 0 .. MaxTitle
  BY DEF EventType, StatusKind
<1>2. CASE e.kind \in Titling
  <2>1. j = UpsertSession(i, s, e.title)
    BY <1>2 DEF After, Titling, StatusKind
  <2>2. ~Changed(i, e) => j = i
    BY <1>2, <2>1 DEF Changed, UpsertSession, Titling, StatusKind
  <2> QED
    BY <1>1, <1>2, <2>1, <2>2, UpsertEffect DEF Titling
<1>3. CASE e.kind \in {"idle", "busy", "retry", "odd", "asked"}
  <2> DEFINE st == IF e.kind = "asked" THEN "permission"
                   ELSE MapOpenCodeStatus(e.kind)
  <2>1. j = SetSessionState(i, s, st) /\ st \in State
    BY <1>3, StatusState DEF After, StatusKind, State
  <2>2. ~Changed(i, e) => ~Knows(i, s)
    BY <1>3 DEF Changed, StatusKind
  <2>3. /\ Touched(i, j, s)
        /\ Knows(j, s) <=> Knows(i, s)
        /\ ~Knows(i, s) => j = i
        /\ Knows(i, s) => /\ j.sessions[s].state = st
                          /\ j.sessions[s].title = i.sessions[s].title
    <3>1. s \in Sid /\ j = SetSessionState(i, s, st) /\ st \in State
      BY <2>1
    <3> HIDE DEF st
    <3> QED
      BY <3>1, SetSessionStateEffect
  <2> HIDE DEF st
  <2>4. st = CASE e.kind = "asked" -> "permission"
               [] OTHER -> MapOpenCodeStatus(e.kind)
    BY DEF st
  <2> QED
    BY <1>3, <2>2, <2>3, <2>4 DEF Titling
<1>4. CASE e.kind = "part"
  <2>1. j = SetSessionStateIf(i, s, "running", "idle")
    BY <1>4 DEF After, StatusKind
  <2>2. Changed(i, e) <=> Knows(i, s) /\ i.sessions[s].state # "idle"
    BY <1>4 DEF Changed, StatusKind
  <2>3. CASE Changed(i, e)
    <3>1. j = SetSessionState(i, s, "running") /\ "running" \in State
      BY <2>1, <2>2, <2>3 DEF SetSessionStateIf, State
    <3> QED
      BY <1>4, <2>2, <2>3, <3>1, SetSessionStateEffect DEF Titling
  <2>4. CASE ~Changed(i, e)
    <3>1. j = i /\ Touched(i, j, s)
      BY <2>1, <2>2, <2>4 DEF SetSessionStateIf, Touched
    <3> QED
      BY <1>4, <2>2, <2>4, <3>1 DEF Titling
  <2> QED
    BY <2>3, <2>4
<1>5. CASE e.kind = "deleted"
  <2>1. j = RemoveSession(i, s) /\ Changed(i, e)
    BY <1>5 DEF After, Changed, StatusKind
  <2> QED
    BY <1>5, <2>1, RemoveSessionEffect DEF Titling
<1> QED
  BY <1>1, <1>2, <1>3, <1>4, <1>5 DEF Titling

\* The row of an instance is that of one of its sessions, or of the wrapper.
LEMMA RowsType ==
  ASSUME NEW i, Fits(i)
  PROVE  Rows(i) \subseteq RowType
<1>1. CASE i = NoInstance
  BY <1>1 DEF Rows, RowType
<1>2. CASE i # NoInstance
  <2> DEFINE best == IF i.active # NoSid /\ Knows(i, i.active) THEN i.active
                     ELSE IF i.order # <<>> THEN Head(i.order) ELSE NoSid
  <2>1. /\ i.active \in Sid \union {NoSid} /\ i.order \in Seq(Sid)
        /\ \A r \in Sid : Knows(i, r) <=> Listed(i.order, r)
    BY <1>2 DEF Fits, InstanceType
  <2>2. ASSUME i.order # <<>>
        PROVE  Head(i.order) \in Sid /\ Knows(i, Head(i.order))
    <3>1. Head(i.order) \in Sid /\ 1 \in DOMAIN i.order /\ Head(i.order) = i.order[1]
      BY <2>1, <2>2, HeadTailProperties, EmptySeq, LenProperties
    <3> QED
      BY <2>1, <3>1 DEF Listed
  <2>3. best # NoSid => best \in Sid /\ Knows(i, best)
    BY <2>1, <2>2
  <2>4. Row(i) = IF best = NoSid THEN <<NoSid, "unknown", 0>>
                 ELSE <<best, i.sessions[best].state, i.sessions[best].title>>
    BY DEF Row
  <2> HIDE DEF best
  <2>5. CASE best = NoSid
    BY <1>2, <2>4, <2>5, ConstantFacts DEF Rows, RowType, State
  <2>6. CASE best # NoSid
    <3>1. i.sessions[best] \in Session
      BY <2>3, <2>6, KnownSession
    <3> QED
      BY <1>2, <2>3, <2>4, <2>6, <3>1 DEF Rows, RowType, Session
  <2> QED
    BY <2>5, <2>6
<1> QED
  BY <1>1, <1>2

-----------------------------------------------------------------------------
(* The base of the inductive invariant.                                    *)

LEMMA BaseImpliesTypeOK == BaseInv => TypeOK
<1> SUFFICES ASSUME BaseInv PROVE TypeOK
  OBVIOUS
<1>1. /\ inst = NoInstance \/
           /\ inst \in InstanceType
           /\ \A s \in Sid : Knows(inst, s) <=>
                \E k \in DOMAIN inst.order : inst.order[k] = s
           /\ \A j, k \in DOMAIN inst.order :
                inst.order[j] = inst.order[k] => j = k
  BY DEF BaseInv, ServerType, Fits, Listed, Once
<1>2. \A c \in Client : stream[c] \in Seq(EventType)
  BY DEF BaseInv, StreamInv
<1>3. \A c \in Client : cancelled[c] => ~Current(c)
  BY DEF BaseInv, ClientInv
<1> QED
  BY <1>1, <1>2, <1>3 DEF BaseInv, ProcessType, ServerType, RowType, ClientInv, TypeOK

LEMMA SpendEffect ==
  ASSUME ProcessType, Spend("events") \/ Spend("regs") \/ Spend("glitches")
  PROVE  left' \in [sessions : Nat, events : Nat, regs : Nat, glitches : Nat]
<1>1. left \in [sessions : Nat, events : Nat, regs : Nat, glitches : Nat]
  BY DEF ProcessType
<1>2. CASE Spend("events")
  BY <1>1, <1>2 DEF Spend
<1>3. CASE Spend("regs")
  BY <1>1, <1>3 DEF Spend
<1>4. CASE Spend("glitches")
  BY <1>1, <1>4 DEF Spend
<1> QED
  BY <1>2, <1>3, <1>4

\* The process had no session of ours at first, or some.
LEMMA InitBase == Init => BaseInv
<1> SUFFICES ASSUME Init PROVE BaseInv
  OBVIOUS
<1>1. ProcessType
  BY ConstantFacts, BoundAssumption DEF Init, ProcessType
<1>2. ServerType
  BY DEF Init, ServerType, Fits
<1>3. ClientInv
  BY DEF Init, ClientInv, PC, Current, Before
<1>4. AnswerInv
  BY DEF Init, AnswerInv, NoAnswer
<1>5. StreamInv
  BY EmptySeq DEF Init, StreamInv, InOrder
<1>6. KnownInv
  BY DEF Init, KnownInv, Knows
<1> QED
  BY <1>1, <1>2, <1>3, <1>4, <1>5, <1>6 DEF BaseInv

\* There is one client with an open stream at most, that of the instance.
LEMMA OneClient ==
  ASSUME ClientInv
  PROVE  /\ \A c \in Client : Open(c) <=> Current(c) /\ pc[c] \notin Before
         /\ \A c, d \in Client : Current(c) /\ Current(d) => c = d
         /\ \A c \in Client : Current(c) => inst # NoInstance /\ inst.client = c
BY DEF ClientInv, Open, Current, Before, PC

\* Streams are shortened, or begin.
LEMMA StreamFrame ==
  ASSUME BaseInv, UNCHANGED process, DOMAIN stream' = Client,
         stream' = [c \in Client |-> stream'[c]],
         \A c \in Client : \/ stream'[c] = stream[c]
                           \/ stream'[c] = <<>>
                           \/ stream[c] # <<>> /\ stream'[c] = Tail(stream[c])
                           \/ stream'[c] = <<Event("connected", NoSid, 0)>>
  PROVE  StreamInv'
<1>1. \A e : Said(e)' <=> Said(e)
  BY DEF Said, process
<1>2. ASSUME NEW c \in Client
      PROVE  /\ stream'[c] \in Seq(EventType)
             /\ \A k \in DOMAIN stream'[c] : Said(stream'[c][k])
             /\ \A s \in Sid : InOrder(stream'[c], s)
  <2>1. /\ stream[c] \in Seq(EventType)
        /\ \A k \in DOMAIN stream[c] : Said(stream[c][k])
        /\ \A s \in Sid : InOrder(stream[c], s)
    BY DEF BaseInv, StreamInv
  <2>2. CASE stream'[c] = stream[c]
    BY <2>1, <2>2
  <2>3. CASE stream'[c] = <<>>
    BY <2>3, EmptySeq DEF InOrder
  <2>4. CASE stream[c] # <<>> /\ stream'[c] = Tail(stream[c])
    BY <2>1, <2>4, TailEffect
  <2>5. CASE stream'[c] = <<Event("connected", NoSid, 0)>>
    <3> DEFINE e == Event("connected", NoSid, 0)
    <3>1. /\ e \in EventType /\ e.kind = "connected" /\ e.sid = NoSid
      BY ConstantFacts DEF Event, EventType
    <3>2. Said(e)
      BY <3>1, NothingAssumption DEF Said
    <3> HIDE DEF e
    <3>3. /\ stream'[c] = <<e>> /\ DOMAIN <<e>> = 1 .. 1
          /\ \A k \in DOMAIN <<e>> : <<e>>[k] = e
      BY <2>5 DEF e
    <3>4. <<e>> \in Seq(EventType)
      BY <3>1
    <3>5. \A s \in Sid : InOrder(<<e>>, s)
      BY <3>3 DEF InOrder
    <3> QED
      BY <3>2, <3>3, <3>4, <3>5
  <2> QED
    BY <2>2, <2>3, <2>4, <2>5
<1> QED
  BY <1>1, <1>2 DEF StreamInv

\* A client stores a session that exists, or did.
LEMMA KnownFrame ==
  ASSUME BaseInv, UNCHANGED process, NEW s \in Sid, real[s] # "none",
         Touched(inst, inst', s),
         Knows(inst', s) => inst'.sessions[s].title <= title[s],
         \A r \in Sid : r \in heard' => r \in heard \union {s}
  PROVE  /\ \A r \in Sid : Knows(inst', r) =>
              real'[r] # "none" /\ inst'.sessions[r].title <= title'[r]
         /\ \A c \in Client : Current(c)' <=> Current(c)
         /\ \A r \in Sid : r \in heard' => real'[r] # "none"
<1>1. \A r \in Sid \ {s} : Knows(inst', r) =>
         Knows(inst, r) /\ inst'.sessions[r] = inst.sessions[r]
  BY DEF Touched, Knows
<1>2. \A c \in Client : Current(c)' <=> Current(c)
  BY DEF Touched, Current
<1> QED
  BY <1>1, <1>2 DEF BaseInv, KnownInv, process

-----------------------------------------------------------------------------
(* Steps of the process.                                                   *)

\* Something happens to session s, and e is told to who has a stream.
Happens(s, e) ==
  /\ e \in EventType /\ e.sid = s /\ e.kind # "connected"
  /\ stream' = [d \in Client |-> IF Open(d) THEN Append(stream[d], e)
                                            ELSE stream[d]]
  /\ UNCHANGED server
  /\ real' \in [Sid -> {"none", "idle", "busy", "odd", "asking", "deleted"}]
  /\ title' \in [Sid -> 0 .. MaxTitle]
  /\ left' \in [sessions : Nat, events : Nat, regs : Nat, glitches : Nat]
  /\ \A r \in Sid \ {s} : real'[r] = real[r] /\ title'[r] = title[r]
  /\ IF e.kind = "created" THEN real[s] = "none" ELSE Exists(s)
  /\ e.kind \in Telling => real'[s] = Tells(e)
  /\ e.kind \in {"updated", "part"} => real'[s] = real[s]
  /\ e.kind = "deleted" => real'[s] = "deleted"
  /\ title'[s] >= title[s] /\ e.title <= title'[s]
  /\ IF e.kind \in Titling THEN e.title = title'[s] ELSE title'[s] = title[s]
  /\ untold' = IF e.kind = "deleted" /\ ~Told THEN untold \union {s} ELSE untold

LEMMA EventOf ==
  ASSUME NEW s \in Sid, NEW t \in 0 .. MaxTitle,
         NEW kind \in {"created", "updated", "idle", "busy", "retry", "odd",
                       "asked", "replied", "part", "deleted"}
  PROVE  /\ Event(kind, s, t) \in EventType
         /\ Event(kind, s, t).kind = kind /\ Event(kind, s, t).sid = s
         /\ Event(kind, s, t).title = t
BY DEF Event, EventType, StatusKind

LEMMA ProcessHappens ==
  ASSUME BaseInv, NEW s \in Sid, Process(s)
  PROVE  \E e : Happens(s, e)
<1>1. /\ real \in [Sid -> {"none", "idle", "busy", "odd", "asking", "deleted"}]
      /\ title \in [Sid -> 0 .. MaxTitle] /\ ProcessType
      /\ real[s] \in {"none", "idle", "busy", "odd", "asking", "deleted"}
      /\ title[s] \in 0 .. MaxTitle /\ title[s] \in Nat /\ MaxTitle \in Nat
      /\ 0 <= title[s] /\ title[s] >= title[s] /\ 0 \in 0 .. MaxTitle
  BY ConstantFacts DEF BaseInv, ProcessType
<1>2. ASSUME NEW kind \in {"created", "updated", "idle", "busy", "retry",
                           "odd", "asked", "replied", "part", "deleted"},
             NEW t \in 0 .. MaxTitle, Send(kind, s, t),
             NEW e, e = Event(kind, s, t)
      PROVE  /\ e \in EventType /\ e.kind = kind /\ e.sid = s /\ e.title = t
             /\ left' \in [sessions : Nat, events : Nat, regs : Nat,
                           glitches : Nat]
             /\ stream' = [d \in Client |-> IF Open(d) THEN Append(stream[d], e)
                                                       ELSE stream[d]]
  BY <1>1, <1>2, EventOf, SpendEffect DEF Send
<1>3. CASE Create(s)
  <2> DEFINE e == Event("created", s, title[s])
  <2>1. /\ Send("created", s, title[s]) /\ real' = [real EXCEPT ![s] = "idle"]
        /\ title' = title /\ real[s] = "none" /\ untold' = untold
        /\ UNCHANGED server
    BY <1>3 DEF Create
  <2>2. /\ e \in EventType /\ e.kind = "created" /\ e.sid = s /\ e.title = title[s]
        /\ left' \in [sessions : Nat, events : Nat, regs : Nat, glitches : Nat]
        /\ stream' = [d \in Client |-> IF Open(d) THEN Append(stream[d], e)
                                                  ELSE stream[d]]
    BY <1>1, <1>2, <2>1
  <2> HIDE DEF e
  <2> QED
    BY <1>1, <2>1, <2>2 DEF Happens, Tells, Telling, Turning, Titling
<1>4. CASE Rename(s)
  <2> DEFINE e == Event("updated", s, title[s] + 1)
  <2>1. /\ Send("updated", s, title[s] + 1) /\ real' = real /\ Exists(s)
        /\ title' = [title EXCEPT ![s] = @ + 1] /\ title[s] < MaxTitle
        /\ untold' = untold /\ UNCHANGED server
    BY <1>4 DEF Rename
  <2>2. title[s] + 1 \in 0 .. MaxTitle
    BY <1>1, <2>1
  <2>3. /\ e \in EventType /\ e.kind = "updated" /\ e.sid = s
        /\ e.title = title[s] + 1
        /\ left' \in [sessions : Nat, events : Nat, regs : Nat, glitches : Nat]
        /\ stream' = [d \in Client |-> IF Open(d) THEN Append(stream[d], e)
                                                  ELSE stream[d]]
    BY <1>2, <2>1, <2>2
  <2> HIDE DEF e
  <2>4. /\ title' \in [Sid -> 0 .. MaxTitle] /\ title'[s] = title[s] + 1
        /\ \A r \in Sid \ {s} : title'[r] = title[r]
        /\ title[s] + 1 >= title[s] /\ title[s] + 1 <= title[s] + 1
    BY <1>1, <2>1, <2>2
  <2> QED
    BY <1>1, <2>1, <2>3, <2>4 DEF Happens, Telling, Turning, Titling
<1>5. CASE Delete(s)
  <2> DEFINE e == Event("deleted", s, 0)
  <2>1. /\ Send("deleted", s, 0) /\ real' = [real EXCEPT ![s] = "deleted"]
        /\ title' = title /\ Exists(s) /\ UNCHANGED server
        /\ untold' = IF Told THEN untold ELSE untold \union {s}
    BY <1>5 DEF Delete
  <2>2. /\ e \in EventType /\ e.kind = "deleted" /\ e.sid = s /\ e.title = 0
        /\ left' \in [sessions : Nat, events : Nat, regs : Nat, glitches : Nat]
        /\ stream' = [d \in Client |-> IF Open(d) THEN Append(stream[d], e)
                                                  ELSE stream[d]]
    BY <1>1, <1>2, <2>1
  <2> HIDE DEF e
  <2> QED
    BY <1>1, <2>1, <2>2 DEF Happens, Telling, Turning, Titling
<1>6. CASE Part(s)
  <2> DEFINE e == Event("part", s, 0)
  <2>1. /\ Send("part", s, 0) /\ real' = real
        /\ title' = title /\ Exists(s) /\ UNCHANGED server /\ untold' = untold
    BY <1>6 DEF Part
  <2>2. /\ e \in EventType /\ e.kind = "part" /\ e.sid = s /\ e.title = 0
        /\ left' \in [sessions : Nat, events : Nat, regs : Nat, glitches : Nat]
        /\ stream' = [d \in Client |-> IF Open(d) THEN Append(stream[d], e)
                                                  ELSE stream[d]]
    BY <1>1, <1>2, <2>1
  <2> HIDE DEF e
  <2> QED
    BY <1>1, <2>1, <2>2 DEF Happens, Telling, Turning, Titling
<1>7. ASSUME NEW from, NEW to, NEW kind, Turn(s, from, to, kind),
             from \subseteq {"idle", "busy", "odd", "asking"},
             \/ to = "busy" /\ kind \in {"busy", "retry", "replied"}
             \/ to = "odd" /\ kind = "odd"
             \/ to = "asking" /\ kind = "asked"
             \/ to = "idle" /\ kind = "idle"
      PROVE  \E e : Happens(s, e)
  <2> DEFINE e == Event(kind, s, 0)
  <2>1. /\ Send(kind, s, 0) /\ real' = [real EXCEPT ![s] = to]
        /\ title' = title /\ Exists(s) /\ UNCHANGED server /\ untold' = untold
    BY <1>7 DEF Turn, Exists
  <2>2. /\ e \in EventType /\ e.kind = kind /\ e.sid = s /\ e.title = 0
        /\ left' \in [sessions : Nat, events : Nat, regs : Nat, glitches : Nat]
        /\ stream' = [d \in Client |-> IF Open(d) THEN Append(stream[d], e)
                                                  ELSE stream[d]]
    BY <1>1, <1>2, <1>7, <2>1
  <2> HIDE DEF e
  <2>3. /\ real' \in [Sid -> {"none", "idle", "busy", "odd", "asking", "deleted"}]
        /\ real'[s] = to /\ \A r \in Sid \ {s} : real'[r] = real[r]
    BY <1>1, <1>7, <2>1
  <2>4. kind \in Telling /\ to = Tells(e)
    BY <1>7, <2>2 DEF Tells, Telling, Turning
  <2> QED
    BY <1>1, <1>7, <2>1, <2>2, <2>3, <2>4 DEF Happens, Titling
<1>8. CASE Turn(s, {"idle", "odd"}, "busy", "busy")
  BY <1>7, <1>8
<1>9. CASE Turn(s, {"busy"}, "busy", "retry")
  BY <1>7, <1>9
<1>10. CASE Turn(s, {"idle", "busy"}, "odd", "odd")
  BY <1>7, <1>10
<1>11. CASE Turn(s, {"busy"}, "asking", "asked")
  BY <1>7, <1>11
<1>12. CASE Turn(s, {"asking"}, "busy", "replied")
  BY <1>7, <1>12
<1>13. CASE Turn(s, {"busy", "odd", "asking"}, "idle", "idle")
  BY <1>7, <1>13
<1> QED
  BY <1>3, <1>4, <1>5, <1>6, <1>8, <1>9, <1>10, <1>11, <1>12, <1>13 DEF Process

\* The session is not forgotten, and its title does not go back.
LEMMA HappensFacts ==
  ASSUME BaseInv, NEW s \in Sid, NEW e, Happens(s, e)
  PROVE  /\ \A r \in Sid : /\ real[r] # "none" => real'[r] # "none"
                           /\ title[r] <= title'[r] /\ title'[r] \in Nat
                           /\ title[r] \in Nat
                           /\ real[r] = "deleted" => real'[r] = "deleted"
         /\ real'[s] # "none" /\ real[s] # "deleted"
         /\ \A c \in Client : Current(c)' <=> Current(c)
<1>1. /\ real \in [Sid -> {"none", "idle", "busy", "odd", "asking", "deleted"}]
      /\ title \in [Sid -> 0 .. MaxTitle] /\ MaxTitle \in Nat
      /\ real' \in [Sid -> {"none", "idle", "busy", "odd", "asking", "deleted"}]
      /\ title' \in [Sid -> 0 .. MaxTitle]
  BY ConstantFacts DEF BaseInv, ProcessType, Happens
<1>2. \A r \in Sid : title[r] \in Nat /\ title'[r] \in Nat
  BY <1>1
<1>3. \A r \in Sid : title[r] <= title'[r]
  BY <1>2 DEF Happens
<1>4. /\ e.kind \in {"created", "updated", "idle", "busy", "retry", "odd", "asked",
                     "replied", "part", "deleted"}
      /\ e.kind = "created" => real[s] = "none"
      /\ e.kind # "created" => real[s] \in {"idle", "busy", "odd", "asking"}
      /\ e.kind \in Telling => real'[s] = Tells(e)
      /\ e.kind \in {"updated", "part"} => real'[s] = real[s]
      /\ e.kind = "deleted" => real'[s] = "deleted"
  BY DEF Happens, EventType, StatusKind, Exists
<1>5. e.kind \in Telling => Tells(e) # "none"
  BY DEF Telling, Turning, Tells
<1>6. real'[s] # "none" /\ real[s] # "deleted"
  BY <1>4, <1>5 DEF Telling, Turning
<1>7. \A r \in Sid \ {s} : real'[r] = real[r]
  BY DEF Happens
<1>8. \A c \in Client : Current(c)' <=> Current(c)
  BY DEF Happens, server, Current
<1> QED
  BY <1>2, <1>3, <1>6, <1>7, <1>8

LEMMA ProcessBase ==
  ASSUME BaseInv, NEW s \in Sid, NEW e, Happens(s, e)
  PROVE  BaseInv'
<1>1. /\ \A r \in Sid : /\ real[r] # "none" => real'[r] # "none"
                        /\ title[r] <= title'[r] /\ title'[r] \in Nat
                        /\ title[r] \in Nat
                        /\ real[r] = "deleted" => real'[r] = "deleted"
      /\ real'[s] # "none" /\ real[s] # "deleted"
      /\ \A c \in Client : Current(c)' <=> Current(c)
  BY HappensFacts
<1>2. UNCHANGED <<inst, row, handler, pc, cancelled, answer, heard, listed,
                  foreign>>
  BY DEF Happens, server
<1>3. ProcessType'
  BY DEF Happens, ProcessType
<1>4. ServerType'
  BY <1>2 DEF Happens, BaseInv, ServerType
<1>5. ClientInv'
  <2>1. ASSUME NEW c \in Client, pc[c] \in Before
        PROVE  stream'[c] = <<>>
    <3>1. ~Open(c) /\ stream[c] = <<>>
      BY <2>1, OneClient DEF BaseInv, ClientInv
    <3> QED
      BY <3>1 DEF Happens
  <2> QED
    BY <1>1, <1>2, <2>1 DEF BaseInv, ClientInv
<1>6. AnswerInv'
  <2>1. ASSUME NEW c \in Client, NEW r \in DOMAIN answer[c]
        PROVE  /\ r \in Sid /\ real'[r] # "none"
               /\ pc[c] # "apply" => answer[c][r] \in 0 .. title'[r]
    <3>1. /\ r \in Sid /\ real[r] # "none"
          /\ pc[c] # "apply" => answer[c][r] \in 0 .. title[r]
      BY <2>1 DEF BaseInv, AnswerInv
    <3>2. \A x \in 0 .. title[r] : x \in 0 .. title'[r]
      BY <1>1, <3>1
    <3> QED
      BY <1>1, <3>1, <3>2
  <2> QED
    BY <1>2, <2>1 DEF BaseInv, AnswerInv
<1>7. KnownInv'
  <2>1. ASSUME NEW r \in Sid, Knows(inst, r)
        PROVE  real'[r] # "none" /\ inst.sessions[r].title <= title'[r]
    <3>1. inst.sessions[r] \in Session
      BY <2>1, KnownSession DEF BaseInv, ServerType
    <3>2. inst.sessions[r].title \in Nat
      BY <3>1, ConstantFacts DEF Session
    <3>3. inst.sessions[r].title <= title[r] /\ real[r] # "none"
      BY <2>1 DEF BaseInv, KnownInv
    <3> QED
      BY <1>1, <3>2, <3>3
  <2> QED
    BY <1>1, <1>2, <2>1 DEF BaseInv, KnownInv, ServerType
<1>8. StreamInv'
  <2>1. ASSUME NEW f \in EventType, Said(f) PROVE Said(f)'
    BY <1>1, <2>1, ConstantFacts DEF Said, EventType
  <2>2. Said(e)'
    BY <1>1 DEF Said, Happens
  <2>3. ASSUME NEW c \in Client
        PROVE  /\ stream'[c] \in Seq(EventType)
               /\ \A k \in DOMAIN stream'[c] : Said(stream[c][k])'
               /\ \A r \in Sid : InOrder(stream'[c], r)
    <3>1. /\ stream[c] \in Seq(EventType)
          /\ \A k \in DOMAIN stream[c] :
               stream[c][k] \in EventType /\ Said(stream[c][k])
          /\ \A r \in Sid : InOrder(stream[c], r)
      BY ElementOfSeq, LenProperties DEF BaseInv, StreamInv
    <3>2. CASE Open(c)
      <4>1. stream'[c] = Append(stream[c], e) /\ e \in EventType /\ e.sid = s
        BY <3>2 DEF Happens
      <4>2. \A k \in DOMAIN stream[c] : stream[c][k].sid = s =>
              e.kind # "created" /\ stream[c][k].kind # "deleted"
        BY <1>1, <3>1 DEF Said, Happens
      <4>3. \A k \in DOMAIN stream'[c] : \/ stream'[c][k] = e
                                         \/ \E j \in DOMAIN stream[c] :
                                              stream'[c][k] = stream[c][j]
        BY <3>1, <4>1, AppendEffect
      <4>4. \A k \in DOMAIN stream'[c] : Said(stream[c][k])'
        BY <2>1, <2>2, <3>1, <4>3
      <4>5. ASSUME NEW r \in Sid
            PROVE  InOrder(stream'[c], r)
        <5>1. /\ InOrder(stream[c], r)
              /\ e.sid = r => \A k \in DOMAIN stream[c] : stream[c][k].sid = r =>
                   e.kind # "created" /\ stream[c][k].kind # "deleted"
          BY <3>1, <4>1, <4>2
        <5> QED
          BY <3>1, <4>1, <5>1, AppendEffect
      <4>6. stream'[c] \in Seq(EventType)
        BY <3>1, <4>1, AppendEffect
      <4> QED
        BY <4>4, <4>5, <4>6
    <3>3. CASE ~Open(c)
      <4>1. stream'[c] = stream[c]
        BY <3>3 DEF Happens
      <4> QED
        BY <2>1, <3>1, <4>1
    <3> QED
      BY <3>2, <3>3
  <2>4. stream' = [c \in Client |-> stream'[c]]
    BY DEF Happens
  <2> QED
    BY <2>3, <2>4 DEF StreamInv
<1> QED
  BY <1>3, <1>4, <1>5, <1>6, <1>7, <1>8 DEF BaseInv

-----------------------------------------------------------------------------
(* Registrations.                                                          *)

\* Another title, another active session: the same sessions.
LEMMA NewInstanceFits ==
  ASSUME NEW c \in Client, NEW i, i = NewInstance(c)
  PROVE  /\ Fits(i) /\ i # NoInstance /\ i.client = c
         /\ \A s \in Sid : ~Knows(i, s)
<1>1. /\ i.sessions = [s \in Sid |-> NoSession] /\ i.order = <<>>
      /\ i.active = NoSid /\ i.client = c
  BY DEF NewInstance
<1>2. i \in InstanceType
  <2>1. i.sessions \in [Sid -> {NoSession} \union Session] /\ <<>> \in Seq(Sid)
    BY <1>1, EmptySeq
  <2> QED
    BY <1>1, <2>1 DEF NewInstance, InstanceType, Session
<1>3. i # NoInstance /\ \A s \in Sid : ~Knows(i, s)
  BY <1>1, <1>2, ConstantFacts DEF Knows
<1> QED
  BY <1>1, <1>2, <1>3, EmptySeq DEF Fits, Listed, Once

LEMMA RegisterEffect ==
  ASSUME BaseInv, NEW hint \in {NoSid} \union Sid, Register(hint)
  PROVE  /\ inst' # NoInstance /\ Fits(inst') /\ \A s \in Sid : ~Knows(inst', s)
         /\ inst'.client \in Client /\ pc[inst'.client] = "none"
         /\ pc' = [pc EXCEPT ![inst'.client] = "list0"]
         /\ \A d \in Client : cancelled'[d] = (cancelled[d] \/ Current(d))
         /\ cancelled' \in [Client -> BOOLEAN]
         /\ left' \in [sessions : Nat, events : Nat, regs : Nat, glitches : Nat]
         /\ heard' = {} /\ listed' = FALSE /\ untold' = {} /\ foreign' = {}
         /\ handler' = handler \union {[client |-> inst'.client, hint |-> hint]}
         /\ UNCHANGED <<process, row, stream, answer>>
<1> DEFINE c == CHOOSE d \in Free : TRUE
<1>1. c \in Client /\ pc[c] = "none"
  <2>1. c \in Free
    BY DEF Register
  <2> QED
    BY <2>1 DEF Free
<1>2. /\ inst' = NewInstance(c) /\ pc' = [pc EXCEPT ![c] = "list0"]
      /\ handler' = handler \union {[client |-> c, hint |-> hint]}
  BY DEF Register
<1> HIDE DEF c
<1>3. /\ Fits(inst') /\ inst' # NoInstance /\ inst'.client = c
      /\ \A s \in Sid : ~Knows(inst', s)
  BY <1>1, <1>2, NewInstanceFits
<1>4. cancelled' = [d \in Client |-> cancelled[d] \/ Current(d)]
  BY DEF Register, Cancel, Current
<1>5. \A d \in Client : cancelled[d] \in BOOLEAN
  BY DEF BaseInv, ClientInv
<1>6. \A d \in Client : Current(d) \in BOOLEAN
  BY DEF Current
<1>7. /\ \A d \in Client : cancelled'[d] = (cancelled[d] \/ Current(d))
      /\ cancelled' \in [Client -> BOOLEAN]
  BY <1>4, <1>5, <1>6
<1>8. left' \in [sessions : Nat, events : Nat, regs : Nat, glitches : Nat]
  BY SpendEffect DEF Register, BaseInv
<1> QED
  BY <1>1, <1>2, <1>3, <1>7, <1>8 DEF Register, Forget

LEMMA RegisterBase ==
  ASSUME BaseInv, NEW hint \in {NoSid} \union Sid, Register(hint)
  PROVE  BaseInv'
<1>1. /\ inst' # NoInstance /\ Fits(inst') /\ \A s \in Sid : ~Knows(inst', s)
      /\ inst'.client \in Client /\ pc[inst'.client] = "none"
      /\ pc' = [pc EXCEPT ![inst'.client] = "list0"]
      /\ \A d \in Client : cancelled'[d] = (cancelled[d] \/ Current(d))
      /\ cancelled' \in [Client -> BOOLEAN]
      /\ left' \in [sessions : Nat, events : Nat, regs : Nat, glitches : Nat]
      /\ heard' = {} /\ listed' = FALSE /\ untold' = {} /\ foreign' = {}
      /\ handler' = handler \union {[client |-> inst'.client, hint |-> hint]}
      /\ UNCHANGED <<process, row, stream, answer>>
  BY RegisterEffect
<1>2. ProcessType'
  BY <1>1 DEF BaseInv, ProcessType, process
<1>3. ServerType'
  <2>1. handler' \subseteq [client : Client, hint : Sid \union {NoSid}]
    BY <1>1 DEF BaseInv, ServerType
  <2> QED
    BY <1>1, <2>1 DEF BaseInv, ServerType
<1>4. ClientInv'
  <2>1. /\ pc \in [Client -> PC]
        /\ \A d \in Client : /\ Current(d) <=> pc[d] # "none" /\ ~cancelled[d]
                             /\ pc[d] = "none" => ~cancelled[d]
                             /\ pc[d] \in Before => stream[d] = <<>>
    BY DEF BaseInv, ClientInv
  <2>2. pc' \in [Client -> PC]
    BY <1>1, <2>1 DEF PC
  <2>3. ASSUME NEW d \in Client
        PROVE  /\ Current(d)' <=> pc'[d] # "none" /\ ~cancelled'[d]
               /\ pc'[d] = "none" => ~cancelled'[d]
               /\ pc'[d] \in Before => stream'[d] = <<>>
    <3>1. CASE d = inst'.client
      <4>1. pc'[d] = "list0" /\ ~cancelled'[d] /\ stream[d] = <<>>
        BY <1>1, <2>1, <3>1 DEF Before
      <4> QED
        BY <1>1, <3>1, <4>1 DEF Current
    <3>2. CASE d # inst'.client
      <4>1. pc'[d] = pc[d]
        BY <1>1, <2>1, <3>2
      <4> QED
        BY <1>1, <2>1, <3>2, <4>1 DEF Current
    <3> QED
      BY <3>1, <3>2
  <2> QED
    BY <1>1, <2>2, <2>3 DEF ClientInv
<1>5. AnswerInv'
  <2>1. /\ pc \in [Client -> PC] /\ AnswerInv
    BY DEF BaseInv, ClientInv
  <2>2. \A d \in Client : \/ pc'[d] = pc[d]
                          \/ pc'[d] = "list0" /\ pc[d] = "none"
    BY <1>1, <2>1
  <2>3. \A d \in Client : pc'[d] \notin Storing => DOMAIN answer[d] = {}
    BY <2>1, <2>2 DEF AnswerInv, Storing
  <2>4. ASSUME NEW d \in Client, NEW s \in DOMAIN answer[d]
        PROVE  pc'[d] = pc[d]
    BY <2>1, <2>2, <2>4 DEF AnswerInv, Storing
  <2> QED
    BY <1>1, <2>1, <2>3, <2>4 DEF AnswerInv, process
<1>6. StreamInv'
  BY <1>1, StreamFrame DEF BaseInv, StreamInv
<1>7. KnownInv'
  BY <1>1 DEF KnownInv
<1> QED
  BY <1>2, <1>3, <1>4, <1>5, <1>6, <1>7 DEF BaseInv

\* The hint is stored: the sessions are the same.
LEMMA RegisteredEffect ==
  ASSUME BaseInv, NEW h, Registered(h)
  PROVE  /\ Fits(inst') /\ (inst' = NoInstance <=> inst = NoInstance)
         /\ \A s \in Sid : Knows(inst', s) <=> Knows(inst, s)
         /\ inst # NoInstance => /\ inst'.client = inst.client
                                 /\ inst'.sessions = inst.sessions
         /\ \A c \in Client : Current(c)' <=> Current(c)
<1> DEFINE Hinted == inst # NoInstance /\ inst.client = h.client /\ h.hint # NoSid
<1>1. CASE ~Hinted
  BY <1>1 DEF Registered, BaseInv, ServerType, Current
<1>2. CASE Hinted
  <2>1. inst' = [inst EXCEPT !.active = h.hint] /\ inst # NoInstance
    BY <1>2 DEF Registered
  <2>2. h.hint \in Sid \union {NoSid}
    BY DEF Registered, BaseInv, ServerType
  <2>3. inst \in InstanceType
    BY <2>1 DEF BaseInv, ServerType, Fits
  <2>4. /\ inst' \in InstanceType /\ inst'.sessions = inst.sessions
        /\ inst'.order = inst.order /\ inst'.client = inst.client
    BY <2>1, <2>2, <2>3 DEF InstanceType
  <2>5. inst' # NoInstance
    BY <2>4, ConstantFacts
  <2>6. \A s \in Sid : Knows(inst', s) <=> Knows(inst, s)
    BY <2>1, <2>4, <2>5 DEF Knows
  <2> QED
    BY <2>1, <2>4, <2>5, <2>6 DEF BaseInv, ServerType, Fits, Current
<1> QED
  BY <1>1, <1>2

LEMMA RegisteredBase ==
  ASSUME BaseInv, NEW h, Registered(h)
  PROVE  BaseInv'
<1>1. /\ Fits(inst') /\ (inst' = NoInstance <=> inst = NoInstance)
      /\ \A s \in Sid : Knows(inst', s) <=> Knows(inst, s)
      /\ inst # NoInstance => /\ inst'.client = inst.client
                              /\ inst'.sessions = inst.sessions
      /\ \A c \in Client : Current(c)' <=> Current(c)
  BY RegisteredEffect
<1>2. /\ UNCHANGED <<process, pc, cancelled, stream, answer, left, history>>
      /\ handler' \subseteq handler /\ row' = Rows(inst')
  BY DEF Registered
<1>3. ProcessType' /\ AnswerInv'
  BY <1>2 DEF BaseInv, ProcessType, AnswerInv, process
<1>4. ServerType'
  BY <1>1, <1>2, RowsType DEF BaseInv, ServerType, history
<1>5. ClientInv'
  BY <1>1, <1>2 DEF BaseInv, ClientInv, history
<1>6. StreamInv'
  BY <1>2, StreamFrame DEF BaseInv, StreamInv
<1>7. KnownInv'
  BY <1>1, <1>2 DEF BaseInv, KnownInv, process, history, Knows
<1> QED
  BY <1>3, <1>4, <1>5, <1>6, <1>7 DEF BaseInv

LEMMA RemoveBase ==
  ASSUME BaseInv, Remove
  PROVE  BaseInv'
<1>1. /\ inst' = NoInstance /\ row' = {} /\ heard' = {} /\ listed' = FALSE
      /\ untold' = {} /\ foreign' = {}
      /\ UNCHANGED <<process, handler, pc, stream, answer, left>>
  BY DEF Remove, Forget
<1>2. cancelled' = [d \in Client |-> cancelled[d] \/ Current(d)]
  BY DEF Remove, Cancel, Current
<1>3. ProcessType' /\ AnswerInv'
  BY <1>1 DEF BaseInv, ProcessType, AnswerInv, process
<1>4. ServerType'
  BY <1>1 DEF BaseInv, ServerType, Fits
<1>5. ClientInv'
  <2>1. /\ pc \in [Client -> PC] /\ cancelled \in [Client -> BOOLEAN]
        /\ \A d \in Client : /\ Current(d) <=> pc[d] # "none" /\ ~cancelled[d]
                             /\ pc[d] = "none" => ~cancelled[d]
                             /\ pc[d] \in Before => stream[d] = <<>>
    BY DEF BaseInv, ClientInv
  <2>2. \A d \in Client : Current(d) \in BOOLEAN
    BY DEF Current
  <2>3. /\ \A d \in Client : cancelled'[d] = (cancelled[d] \/ Current(d))
        /\ cancelled' \in [Client -> BOOLEAN]
    BY <1>2, <2>1, <2>2
  <2>4. \A d \in Client : ~Current(d)'
    BY <1>1 DEF Current
  <2> QED
    BY <1>1, <2>1, <2>3, <2>4 DEF ClientInv
<1>6. StreamInv'
  BY <1>1, StreamFrame DEF BaseInv, StreamInv
<1>7. KnownInv'
  BY <1>1 DEF KnownInv, Knows
<1> QED
  BY <1>3, <1>4, <1>5, <1>6, <1>7 DEF BaseInv

-----------------------------------------------------------------------------
(* Steps of a client.                                                      *)

\* Client c goes from one place to the next.
LEMMA GotoClientInv ==
  ASSUME BaseInv, NEW c \in Client, NEW l \in PC \ {"none"},
         pc[c] # "none", pc' = [pc EXCEPT ![c] = l], cancelled' = cancelled,
         \A d \in Client : Current(d)' <=> Current(d),
         \A d \in Client \ {c} : stream'[d] = stream[d],
         l \in Before => stream'[c] = <<>>,
         l \in Before /\ Current(c) => heard' = {} /\ ~listed',
         heard' # {} \/ listed' => heard # {} \/ listed \/ Current(c)
  PROVE  ClientInv'
<1>1. /\ pc \in [Client -> PC] /\ cancelled \in [Client -> BOOLEAN]
      /\ \A d \in Client : /\ Current(d) <=> pc[d] # "none" /\ ~cancelled[d]
                           /\ pc[d] = "none" => ~cancelled[d]
                           /\ pc[d] \in Before => stream[d] = <<>>
      /\ heard # {} \/ listed => inst # NoInstance /\ pc[inst.client] \notin Before
  BY DEF BaseInv, ClientInv
<1>2. /\ pc' \in [Client -> PC] /\ pc'[c] = l
      /\ \A d \in Client \ {c} : pc'[d] = pc[d]
  BY <1>1
<1>3. \A d \in Client : /\ Current(d)' <=> pc'[d] # "none" /\ ~cancelled'[d]
                        /\ pc'[d] = "none" => ~cancelled'[d]
                        /\ pc'[d] \in Before => stream'[d] = <<>>
  BY <1>1, <1>2
<1>4. ASSUME heard' # {} \/ listed'
      PROVE  inst' # NoInstance /\ pc'[inst'.client] \notin Before
  <2>1. PICK d \in Client : Current(d) /\ (d = c \/ pc[d] \notin Before)
    <3>1. CASE Current(c)
      BY <3>1
    <3>2. CASE ~Current(c)
      <4>1. inst # NoInstance /\ pc[inst.client] \notin Before
        BY <1>1, <1>4, <3>2
      <4>2. inst.client \in Client
        BY <4>1 DEF BaseInv, ServerType, Fits, InstanceType
      <4> QED
        BY <4>1, <4>2 DEF Current
    <3> QED
      BY <3>1, <3>2
  <2>2. inst' # NoInstance /\ inst'.client = d
    BY <2>1 DEF Current
  <2>3. CASE d = c
    BY <1>2, <1>4, <2>1, <2>2, <2>3
  <2>4. CASE d # c
    BY <1>2, <2>1, <2>2, <2>4
  <2> QED
    BY <2>3, <2>4
<1> QED
  BY <1>1, <1>2, <1>3, <1>4 DEF ClientInv

\* The answers of the others stay.
LEMMA AnswerFrame ==
  ASSUME BaseInv, UNCHANGED process, NEW c \in Client, NEW l \in PC,
         pc' = [pc EXCEPT ![c] = l], DOMAIN answer' = Client,
         \A d \in Client \ {c} : answer'[d] = answer[d],
         l \notin Storing => DOMAIN answer'[c] = {},
         \A s \in DOMAIN answer'[c] :
           /\ s \in Sid /\ real[s] # "none"
           /\ l # "apply" => answer'[c][s] \in 0 .. title[s]
  PROVE  AnswerInv'
<1>1. /\ pc'[c] = l /\ \A d \in Client \ {c} : pc'[d] = pc[d]
  BY DEF BaseInv, ClientInv
<1>2. ASSUME NEW d \in Client
      PROVE  /\ pc'[d] \notin Storing => DOMAIN answer'[d] = {}
             /\ \A s \in DOMAIN answer'[d] :
                  /\ s \in Sid /\ real'[s] # "none"
                  /\ pc'[d] # "apply" => answer'[d][s] \in 0 .. title'[s]
  <2>1. CASE d = c
    BY <1>1, <2>1 DEF process
  <2>2. CASE d # c
    BY <1>1, <2>2 DEF BaseInv, AnswerInv, process
  <2> QED
    BY <2>1, <2>2
<1> QED
  BY <1>2 DEF AnswerInv

LEMMA ExistingFacts ==
  ASSUME BaseInv
  PROVE  /\ DOMAIN Titles = Existing
         /\ \A shape : DOMAIN Statuses(shape) = Existing
         /\ \A s \in Existing :
              /\ s \in Sid /\ real[s] # "none"
              /\ Titles[s] = title[s] /\ Titles[s] \in 0 .. title[s]
              /\ real[s] # "asking" =>
                   MapOpenCodeStatus(Statuses("string")[s]) = Truth(s)
              /\ real[s] = "idle" => \A shape :
                   MapOpenCodeStatus(Statuses(shape)[s]) \in {"idle", "unknown"}
         /\ \A shape \in AnswerShape :
              shape # "other" => Statuses(shape) = Statuses("string")
<1>1. \A s \in Sid : title[s] \in Nat
  BY ConstantFacts DEF BaseInv, ProcessType
<1>2. ASSUME NEW s \in Existing
      PROVE  /\ s \in Sid /\ real[s] # "none"
             /\ Titles[s] = title[s] /\ Titles[s] \in 0 .. title[s]
             /\ real[s] # "asking" =>
                  MapOpenCodeStatus(Statuses("string")[s]) = Truth(s)
             /\ real[s] = "idle" => \A shape :
                  MapOpenCodeStatus(Statuses(shape)[s]) \in {"idle", "unknown"}
  <2>1. s \in Sid /\ real[s] \in {"idle", "busy", "odd", "asking"}
    BY DEF Existing, Exists
  <2>2. Statuses("string")[s] = Status(s)
    BY DEF Statuses, Decoded
  <2>3. real[s] # "asking" => MapOpenCodeStatus(Status(s)) = Truth(s)
    BY <2>1 DEF Status, MapOpenCodeStatus, Truth
  <2>4. ASSUME real[s] = "idle", NEW shape
        PROVE  MapOpenCodeStatus(Statuses(shape)[s]) \in {"idle", "unknown"}
    BY <2>4 DEF Statuses, Decoded, Status, MapOpenCodeStatus
  <2> QED
    BY <1>1, <2>1, <2>2, <2>3, <2>4 DEF Titles
<1> QED
  BY <1>2 DEF Titles, Statuses, Decoded, AnswerShape

\* A client that is answered is the instance's own.
LEMMA ReceiveEffect ==
  ASSUME BaseInv, NEW c \in Client, NEW f, NEW l \in Storing,
         pc[c] \in {"list0", "list", "status"}, Receive(c, f, l)
  PROVE  /\ Current(c) /\ left' = left
         /\ DOMAIN answer' = Client /\ answer'[c] = f
         /\ \A d \in Client \ {c} : answer'[d] = answer[d]
         /\ \E m : /\ pc' = [pc EXCEPT ![c] = m]
                   /\ \/ m = l
                      \/ /\ m = IF pc[c] = "list0" THEN "connect" ELSE "publish"
                         /\ DOMAIN f = {}
<1>1. Current(c)
  BY DEF Receive, BaseInv, ClientInv
<1>2. /\ DOMAIN answer = Client /\ left' = left
      /\ answer' = [answer EXCEPT ![c] = f]
  BY DEF Receive, BaseInv, AnswerInv
<1>3. /\ DOMAIN answer' = Client /\ answer'[c] = f
      /\ \A d \in Client \ {c} : answer'[d] = answer[d]
  BY <1>2
<1>4. CASE f = NoAnswer
  <2>1. DOMAIN f = {}
    BY <1>4 DEF NoAnswer
  <2>2. pc' = [pc EXCEPT ![c] = IF pc[c] = "list0" THEN "connect" ELSE "publish"]
    BY <1>4 DEF Receive, Proceed, Goto
  <2> QED
    BY <1>1, <1>2, <1>3, <2>1, <2>2
<1>5. CASE f # NoAnswer
  <2>1. pc' = [pc EXCEPT ![c] = l]
    BY <1>5 DEF Receive, Goto
  <2> QED
    BY <1>1, <1>2, <1>3, <2>1
<1> QED
  BY <1>4, <1>5

\* What all GETs have in common.
LEMMA GetBase ==
  ASSUME BaseInv, NEW c \in Client, Get(c)
  PROVE  BaseInv'
<1>1. UNCHANGED <<process, inst, row, handler, cancelled, stream, untold, foreign>>
  BY DEF Get
<1>2. /\ pc \in [Client -> PC]
      /\ \A d \in Client : Current(d)' <=> Current(d)
      /\ pc[c] \in Before => stream[c] = <<>>
      /\ Current(c) /\ pc[c] \in Before => heard = {} /\ ~listed
      /\ \A s \in heard : s \in Sid /\ real[s] # "none"
  BY <1>1 DEF BaseInv, ClientInv, Current, KnownInv, ServerType
<1>3. \A s \in Existing : s \in Sid /\ real[s] # "none"
  BY ExistingFacts
<1>4. ASSUME pc[c] \in {"list0", "list", "status"}, NEW m \in PC \ {"none"},
             pc' = [pc EXCEPT ![c] = m], m \in Before => pc[c] \in Before,
             pc[c] \in Before => heard' = heard /\ listed' = listed,
             \A s \in heard' : s \in heard \union Existing,
             listed' \in BOOLEAN,
             heard' # {} \/ listed' => heard # {} \/ listed \/ Current(c),
             left' \in [sessions : Nat, events : Nat, regs : Nat,
                        glitches : Nat], AnswerInv'
      PROVE  BaseInv'
  <2>1. ProcessType'
    BY <1>1, <1>4 DEF BaseInv, ProcessType, process
  <2>2. ServerType'
    BY <1>1, <1>2, <1>3, <1>4 DEF BaseInv, ServerType
  <2>3. ClientInv'
    <3>1. /\ m \in Before => stream'[c] = <<>>
          /\ m \in Before /\ Current(c) => heard' = {} /\ ~listed'
          /\ pc[c] # "none" /\ \A d \in Client \ {c} : stream'[d] = stream[d]
      BY <1>1, <1>2, <1>4
    <3> QED
      BY <1>1, <1>2, <1>4, <3>1, GotoClientInv
  <2>4. StreamInv'
    BY <1>1, StreamFrame DEF BaseInv, StreamInv
  <2>5. KnownInv'
    BY <1>1, <1>2, <1>3, <1>4 DEF BaseInv, KnownInv, process
  <2> QED
    BY <1>4, <2>1, <2>2, <2>3, <2>4, <2>5 DEF BaseInv
<1>5. ProcessType /\ left \in [sessions : Nat, events : Nat, regs : Nat,
                               glitches : Nat] /\ listed \in BOOLEAN
  BY DEF BaseInv, ProcessType, ServerType
<1>6. ASSUME NEW f, NEW l \in Storing, pc[c] \in {"list0", "list", "status"},
             Receive(c, f, l), pc[c] = "list0" <=> l = "store0",
             DOMAIN f = Existing,
             \A s \in Existing : l # "apply" => f[s] \in 0 .. title[s],
             pc[c] \in Before => heard' = heard /\ listed' = listed,
             \A s \in heard' : s \in heard \union Existing, listed' \in BOOLEAN
      PROVE  BaseInv'
  <2>1. /\ Current(c) /\ left' = left
        /\ DOMAIN answer' = Client /\ answer'[c] = f
        /\ \A d \in Client \ {c} : answer'[d] = answer[d]
    BY <1>6, ReceiveEffect
  <2>2. PICK m : /\ pc' = [pc EXCEPT ![c] = m]
                 /\ \/ m = l
                    \/ /\ m = IF pc[c] = "list0" THEN "connect" ELSE "publish"
                       /\ DOMAIN f = {}
    BY <1>6, ReceiveEffect
  <2>3. m \in PC \ {"none"} /\ (m \in Before => pc[c] \in Before)
    BY <1>6, <2>2 DEF PC, Before, Storing
  <2>4. m \notin Storing => DOMAIN f = {}
    BY <1>6, <2>2
  <2>5. \A s \in DOMAIN f : m # "apply" => f[s] \in 0 .. title[s]
    BY <1>6, <2>2
  <2>6. AnswerInv'
    <3>1. /\ pc' = [pc EXCEPT ![c] = m] /\ m \in PC /\ UNCHANGED process
          /\ m \notin Storing => DOMAIN answer'[c] = {}
      BY <1>1, <2>1, <2>2, <2>3, <2>4
    <3>2. \A s \in DOMAIN answer'[c] :
            /\ s \in Sid /\ real[s] # "none"
            /\ m # "apply" => answer'[c][s] \in 0 .. title[s]
      BY <1>3, <1>6, <2>1, <2>5
    <3> QED
      BY <2>1, <3>1, <3>2, AnswerFrame
  <2> QED
    BY <1>4, <1>5, <1>6, <2>1, <2>2, <2>3, <2>6
<1>7. CASE GetInitial(c)
  BY <1>5, <1>6, <1>7, ExistingFacts DEF GetInitial, Storing
<1>8. CASE GetSessions(c)
  BY <1>5, <1>6, <1>8, ExistingFacts DEF GetSessions, Storing, Before
<1>9. CASE GetStatus(c)
  <2>1. PICK shape \in AnswerShape :
          /\ Receive(c, Statuses(shape), "apply")
          /\ \A s \in heard' : s \in heard \union Existing
    BY <1>9 DEF GetStatus
  <2>2. pc[c] = "status" /\ listed' = listed
    BY <1>9 DEF GetStatus
  <2> DEFINE f == Statuses(shape)
  <2>3. DOMAIN f = Existing
    BY ExistingFacts
  <2> HIDE DEF f
  <2> QED
    BY <1>5, <1>6, <2>1, <2>2, <2>3 DEF Storing, Before, f
<1>10. CASE GetFails(c)
  <2> DEFINE m == IF pc[c] = "list0" THEN "connect" ELSE "publish"
  <2>1. /\ pc[c] \in {"list0", "list", "status"}
        /\ UNCHANGED <<answer, heard, listed>>
        /\ pc' = [pc EXCEPT ![c] = m]
    BY <1>10 DEF GetFails, Proceed, Goto
  <2>2. left' \in [sessions : Nat, events : Nat, regs : Nat, glitches : Nat]
    BY <1>5, <1>10, SpendEffect DEF GetFails
  <2>3. m \in PC \ {"none"} /\ (m \in Before => pc[c] \in Before)
    BY <2>1 DEF PC, Before
  <2>4. AnswerInv'
    <3>1. DOMAIN answer[c] = {} /\ DOMAIN answer = Client
      BY <2>1 DEF BaseInv, AnswerInv, Storing
    <3> QED
      BY <1>1, <2>1, <2>3, <3>1, AnswerFrame
  <2> QED
    BY <1>4, <1>5, <2>1, <2>2, <2>3, <2>4
<1> QED
  BY <1>7, <1>8, <1>9, <1>10 DEF Get

\* One session of the answer is stored.
StoresOne(c, s, m) ==
  /\ s \in DOMAIN answer[c] /\ pc[c] \in Storing
  /\ Touched(inst, inst', s)
  /\ DOMAIN answer' = Client /\ DOMAIN answer'[c] = DOMAIN answer[c] \ {s}
  /\ \A d \in Client \ {c} : answer'[d] = answer[d]
  /\ \A r \in DOMAIN answer'[c] : answer'[c][r] = answer[c][r]
  /\ pc' = [pc EXCEPT ![c] = m]
  /\ \/ m = pc[c]
     \/ /\ m = IF pc[c] = "store0" THEN "connect" ELSE "publish"
        /\ DOMAIN answer'[c] = {}
  /\ Blur(c, s)
  /\ UNCHANGED <<process, row, handler, cancelled, stream, left, listed, untold>>
  /\ pc[c] = "apply" =>
       /\ Knows(inst', s) <=> Knows(inst, s)
       /\ Knows(inst, s) => /\ inst'.sessions[s].state =
                                 MapOpenCodeStatus(answer[c][s])
                            /\ inst'.sessions[s].title = inst.sessions[s].title
  /\ pc[c] # "apply" /\ inst # NoInstance =>
       /\ Knows(inst', s)
       /\ inst'.sessions[s].state =
            IF Knows(inst, s) THEN inst.sessions[s].state ELSE "idle"
       /\ inst'.sessions[s].title =
            IF Knows(inst, s) /\ answer[c][s] = 0 THEN inst.sessions[s].title
                                                  ELSE answer[c][s]

LEMMA StoreOneStores ==
  ASSUME BaseInv, NEW c \in Client, StoreOne(c)
  PROVE  \E s, m : StoresOne(c, s, m)
<1>1. PICK s \in DOMAIN answer[c] :
        /\ inst' = IF pc[c] = "apply"
                     THEN SetSessionState(inst, s, MapOpenCodeStatus(answer[c][s]))
                     ELSE UpsertSession(inst, s, answer[c][s])
        /\ answer' = [answer EXCEPT ![c] =
             [r \in DOMAIN answer[c] \ {s} |-> answer[c][r]]]
        /\ Blur(c, s)
  BY DEF StoreOne
<1>2. /\ s \in Sid /\ pc[c] \in Storing /\ Fits(inst) /\ DOMAIN answer = Client
      /\ pc[c] # "apply" => answer[c][s] \in 0 .. title[s]
      /\ title[s] \in 0 .. MaxTitle /\ MaxTitle \in Nat /\ pc \in [Client -> PC]
  BY ConstantFacts
     DEF StoreOne, BaseInv, AnswerInv, ServerType, ProcessType, ClientInv, Storing
<1>3. /\ DOMAIN answer' = Client /\ DOMAIN answer'[c] = DOMAIN answer[c] \ {s}
      /\ answer'[c] = [r \in DOMAIN answer[c] \ {s} |-> answer[c][r]]
      /\ \A d \in Client \ {c} : answer'[d] = answer[d]
      /\ \A r \in DOMAIN answer'[c] : answer'[c][r] = answer[c][r]
  BY <1>1, <1>2
<1>4. UNCHANGED <<process, row, handler, cancelled, stream, left, listed, untold>>
  BY DEF StoreOne
<1>5. \E m : /\ pc' = [pc EXCEPT ![c] = m]
             /\ \/ m = pc[c]
                \/ /\ m = IF pc[c] = "store0" THEN "connect" ELSE "publish"
                   /\ DOMAIN answer'[c] = {}
  <2>1. CASE answer'[c] = NoAnswer
    <3>1. DOMAIN answer'[c] = {}
      BY <2>1 DEF NoAnswer
    <3>2. pc' = [pc EXCEPT ![c] = IF pc[c] = "store0" THEN "connect" ELSE "publish"]
      BY <1>2, <2>1 DEF StoreOne, Proceed, Goto, Storing
    <3> QED
      BY <3>1, <3>2
  <2>2. CASE answer'[c] # NoAnswer
    <3>1. pc' = pc
      BY <2>2 DEF StoreOne
    <3>2. pc' = [pc EXCEPT ![c] = pc[c]]
      BY <1>2, <3>1
    <3> QED
      BY <3>2
  <2> QED
    BY <2>1, <2>2
<1>6. CASE pc[c] = "apply"
  <2> DEFINE st == MapOpenCodeStatus(answer[c][s])
  <2>1. inst' = SetSessionState(inst, s, st) /\ st \in State
    BY <1>1, <1>6, StatusState
  <2> HIDE DEF st
  <2>2. /\ Touched(inst, inst', s)
        /\ Knows(inst', s) <=> Knows(inst, s)
        /\ Knows(inst, s) => /\ inst'.sessions[s].state = st
                             /\ inst'.sessions[s].title = inst.sessions[s].title
    BY <1>2, <2>1, SetSessionStateEffect
  <2> QED
    BY <1>1, <1>2, <1>3, <1>4, <1>5, <1>6, <2>2 DEF StoresOne, st
<1>7. CASE pc[c] # "apply"
  <2>1. /\ inst' = UpsertSession(inst, s, answer[c][s])
        /\ answer[c][s] \in 0 .. MaxTitle
    BY <1>1, <1>2, <1>7
  <2>2. /\ Touched(inst, inst', s)
        /\ inst # NoInstance =>
             /\ Knows(inst', s)
             /\ inst'.sessions[s].state =
                  IF Knows(inst, s) THEN inst.sessions[s].state ELSE "idle"
             /\ inst'.sessions[s].title =
                  IF Knows(inst, s) /\ answer[c][s] = 0
                    THEN inst.sessions[s].title ELSE answer[c][s]
    BY <1>2, <2>1, UpsertEffect
  <2> QED
    BY <1>1, <1>2, <1>3, <1>4, <1>5, <1>7, <2>2 DEF StoresOne
<1> QED
  BY <1>6, <1>7

LEMMA StoreOneBase ==
  ASSUME BaseInv, NEW c \in Client, NEW s, NEW m, StoresOne(c, s, m)
  PROVE  BaseInv'
<1>1. /\ s \in DOMAIN answer[c] /\ pc[c] \in Storing
      /\ Touched(inst, inst', s)
      /\ UNCHANGED <<process, row, handler, cancelled, stream, left, listed,
                     untold>>
      /\ pc' = [pc EXCEPT ![c] = m]
      /\ \/ m = pc[c]
         \/ /\ m = IF pc[c] = "store0" THEN "connect" ELSE "publish"
            /\ DOMAIN answer'[c] = {}
  BY DEF StoresOne
<1>2. /\ s \in Sid /\ real[s] # "none"
      /\ pc[c] # "apply" => answer[c][s] \in 0 .. title[s]
      /\ title[s] \in 0 .. MaxTitle /\ MaxTitle \in Nat
      /\ heard \subseteq Sid /\ foreign \subseteq Sid
  BY <1>1, ConstantFacts DEF BaseInv, AnswerInv, ProcessType, ServerType
<1>3. heard' \subseteq heard /\ foreign' \subseteq Sid
  BY <1>2 DEF StoresOne, Blur
<1>4. Knows(inst', s) => inst'.sessions[s].title <= title[s]
  <2>1. Knows(inst, s) => inst.sessions[s].title <= title[s]
    BY <1>2 DEF BaseInv, KnownInv
  <2>2. CASE pc[c] = "apply"
    BY <2>1, <2>2 DEF StoresOne
  <2>3. CASE pc[c] # "apply"
    <3>1. answer[c][s] <= title[s]
      BY <1>2, <2>3
    <3>2. Knows(inst', s) => inst # NoInstance
      BY <1>1 DEF Touched, Knows
    <3> QED
      BY <2>1, <2>3, <3>1, <3>2 DEF StoresOne
  <2> QED
    BY <2>2, <2>3
<1>5. /\ \A r \in Sid : Knows(inst', r) =>
           real'[r] # "none" /\ inst'.sessions[r].title <= title'[r]
      /\ \A d \in Client : Current(d)' <=> Current(d)
      /\ \A r \in Sid : r \in heard' => real'[r] # "none"
  BY <1>1, <1>2, <1>3, <1>4, KnownFrame
<1>6. ProcessType' /\ KnownInv'
  BY <1>1, <1>2, <1>3, <1>5 DEF BaseInv, ProcessType, KnownInv, process
<1>7. ServerType'
  BY <1>1, <1>2, <1>3 DEF BaseInv, ServerType, Touched
<1>8. ClientInv'
  <2>1. /\ pc[c] \in Before => stream[c] = <<>>
        /\ Current(c) /\ pc[c] \in Before => heard = {} /\ ~listed
    BY DEF BaseInv, ClientInv, Current
  <2>2. /\ m \in PC \ {"none"} /\ pc[c] # "none"
        /\ m \in Before => pc[c] \in Before
    BY <1>1 DEF PC, Storing, Before
  <2>3. /\ m \in Before => stream'[c] = <<>>
        /\ m \in Before /\ Current(c) => heard' = {} /\ ~listed'
        /\ heard' # {} \/ listed' => heard # {} \/ listed \/ Current(c)
        /\ \A d \in Client \ {c} : stream'[d] = stream[d]
    BY <1>1, <1>3, <2>1, <2>2
  <2> QED
    BY <1>1, <1>5, <2>2, <2>3, GotoClientInv
<1>9. AnswerInv'
  <2>1. /\ DOMAIN answer' = Client /\ DOMAIN answer'[c] = DOMAIN answer[c] \ {s}
        /\ \A d \in Client \ {c} : answer'[d] = answer[d]
        /\ \A r \in DOMAIN answer'[c] : answer'[c][r] = answer[c][r]
    BY DEF StoresOne
  <2>2. m \notin Storing => DOMAIN answer'[c] = {}
    BY <1>1
  <2>3. \A r \in DOMAIN answer'[c] : m = pc[c]
    BY <1>1
  <2>4. \A r \in DOMAIN answer'[c] :
          /\ r \in Sid /\ real[r] # "none"
          /\ m # "apply" => answer'[c][r] \in 0 .. title[r]
    BY <2>1, <2>3 DEF BaseInv, AnswerInv
  <2>5. m \in PC
    BY <1>1 DEF PC, Storing
  <2>6. UNCHANGED process
    BY <1>1
  <2> QED
    BY <1>1, <2>1, <2>2, <2>4, <2>5, <2>6, AnswerFrame
<1>10. StreamInv'
  BY <1>1, StreamFrame DEF BaseInv, StreamInv
<1> QED
  BY <1>6, <1>7, <1>8, <1>9, <1>10 DEF BaseInv

\* Steps that change neither the instance nor an answer.
LEMMA GotoBase ==
  ASSUME BaseInv, NEW c \in Client, NEW l \in PC \ {"none"},
         pc[c] \notin Storing \union {"none"}, l \notin Storing,
         pc' = [pc EXCEPT ![c] = l],
         UNCHANGED <<process, inst, handler, cancelled, answer, foreign>>,
         left' \in [sessions : Nat, events : Nat, regs : Nat, glitches : Nat],
         row' \subseteq RowType, untold' \subseteq Sid,
         heard' \subseteq heard, listed' \in BOOLEAN, listed' => listed,
         l \in Before => stream'[c] = <<>> /\ heard' = {} /\ ~listed',
         DOMAIN stream' = Client, stream' = [d \in Client |-> stream'[d]],
         \A d \in Client \ {c} : stream'[d] = stream[d],
         \/ stream'[c] = stream[c]
         \/ stream'[c] = <<>>
         \/ stream[c] # <<>> /\ stream'[c] = Tail(stream[c])
         \/ stream'[c] = <<Event("connected", NoSid, 0)>>
  PROVE  BaseInv'
<1>1. ProcessType' /\ KnownInv'
  BY DEF BaseInv, ProcessType, KnownInv, process
<1>2. ServerType'
  BY DEF BaseInv, ServerType
<1>3. ClientInv'
  <2>1. \A d \in Client : Current(d)' <=> Current(d)
    BY DEF Current
  <2> QED
    BY <2>1, GotoClientInv
<1>4. AnswerInv'
  <2>1. DOMAIN answer = Client /\ DOMAIN answer[c] = {}
    BY DEF BaseInv, AnswerInv
  <2> QED
    BY <2>1, AnswerFrame
<1>5. StreamInv'
  <2>1. \A d \in Client : \/ stream'[d] = stream[d]
                          \/ stream'[d] = <<>>
                          \/ stream[d] # <<>> /\ stream'[d] = Tail(stream[d])
                          \/ stream'[d] = <<Event("connected", NoSid, 0)>>
    OBVIOUS
  <2> QED
    BY <2>1, StreamFrame
<1> QED
  BY <1>1, <1>2, <1>3, <1>4, <1>5 DEF BaseInv

LEMMA BaseShape ==
  ASSUME BaseInv, NEW c \in Client
  PROVE  /\ DOMAIN stream = Client /\ stream = [d \in Client |-> stream[d]]
         /\ pc \in [Client -> PC] /\ pc[c] \in PC
         /\ left \in [sessions : Nat, events : Nat, regs : Nat, glitches : Nat]
         /\ row \subseteq RowType /\ Rows(inst) \subseteq RowType
         /\ untold \subseteq Sid /\ listed \in BOOLEAN /\ heard \subseteq Sid
         /\ Current(c) /\ pc[c] \in Before => heard = {} /\ ~listed
         /\ pc[c] \in Before => stream[c] = <<>>
BY RowsType DEF BaseInv, StreamInv, ProcessType, ServerType, ClientInv, Current

LEMMA ConnectBase ==
  ASSUME BaseInv, NEW c \in Client, Connect(c)
  PROVE  BaseInv'
<1>1. /\ pc[c] = "connect"
      /\ stream' = [stream EXCEPT ![c] = <<Event("connected", NoSid, 0)>>]
      /\ pc' = [pc EXCEPT ![c] = "read"]
      /\ UNCHANGED <<process, inst, row, handler, cancelled, answer, left,
                     history>>
  BY DEF Connect, Goto
<1>2. /\ DOMAIN stream' = Client /\ stream' = [d \in Client |-> stream'[d]]
      /\ \A d \in Client \ {c} : stream'[d] = stream[d]
      /\ stream'[c] = <<Event("connected", NoSid, 0)>>
  BY <1>1, BaseShape
<1>3. "read" \in PC \ {"none"} /\ "read" \notin Storing /\ "read" \notin Before
  BY DEF PC, Storing, Before
<1> QED
  BY <1>1, <1>2, <1>3, BaseShape, GotoBase DEF history, Storing

LEMMA ReconcileBase ==
  ASSUME BaseInv, NEW c \in Client, Reconcile(c)
  PROVE  BaseInv'
<1>1. /\ pc[c] = "publish" /\ row' = Rows(inst)
      /\ pc' = [pc EXCEPT ![c] = "read"]
      /\ UNCHANGED <<process, inst, handler, cancelled, stream, answer, left,
                     history>>
  BY DEF Reconcile, Goto
<1>2. /\ DOMAIN stream' = Client /\ stream' = [d \in Client |-> stream'[d]]
      /\ \A d \in Client \ {c} : stream'[d] = stream[d]
      /\ stream'[c] = stream[c]
  BY <1>1, BaseShape
<1>3. "read" \in PC \ {"none"} /\ "read" \notin Storing /\ "read" \notin Before
  BY DEF PC, Storing, Before
<1> QED
  BY <1>1, <1>2, <1>3, BaseShape, GotoBase DEF history, Storing

LEMMA StreamEndsBase ==
  ASSUME BaseInv, NEW c \in Client, StreamEnds(c)
  PROVE  BaseInv'
<1>1. /\ pc[c] = "read" /\ stream' = [stream EXCEPT ![c] = <<>>]
      /\ pc' = [pc EXCEPT ![c] = "connect"]
      /\ heard' = {} /\ listed' = FALSE /\ untold' \subseteq untold \union Sid
      /\ UNCHANGED <<process, inst, row, handler, cancelled, answer, foreign>>
      /\ left' \in [sessions : Nat, events : Nat, regs : Nat, glitches : Nat]
  BY SpendEffect DEF StreamEnds, Goto, BaseInv
<1>2. /\ DOMAIN stream' = Client /\ stream' = [d \in Client |-> stream'[d]]
      /\ \A d \in Client \ {c} : stream'[d] = stream[d]
      /\ stream'[c] = <<>>
  BY <1>1, BaseShape
<1>3. "connect" \in PC \ {"none"} /\ "connect" \notin Storing
  BY DEF PC, Storing
<1>4. untold' \subseteq Sid /\ heard' \subseteq heard
  BY <1>1, BaseShape
<1> QED
  BY <1>1, <1>2, <1>3, <1>4, BaseShape, GotoBase DEF Storing

LEMMA StopBase ==
  ASSUME BaseInv, NEW c \in Client, Stop(c)
  PROVE  BaseInv'
<1>1. /\ cancelled[c] /\ pc[c] \in {"connect", "read"}
      /\ pc' = [pc EXCEPT ![c] = "none"]
      /\ cancelled' = [cancelled EXCEPT ![c] = FALSE]
      /\ stream' = [stream EXCEPT ![c] = <<>>]
      /\ UNCHANGED <<process, inst, row, handler, answer, left, history>>
  BY DEF Stop, Goto
<1>2. /\ DOMAIN stream' = Client /\ stream' = [d \in Client |-> stream'[d]]
      /\ \A d \in Client \ {c} : stream'[d] = stream[d]
      /\ stream'[c] = <<>>
  BY <1>1, BaseShape
<1>3. ProcessType' /\ KnownInv' /\ ServerType'
  BY <1>1 DEF BaseInv, ProcessType, KnownInv, ServerType, process, history
<1>4. ClientInv'
  <2>1. /\ pc \in [Client -> PC] /\ cancelled \in [Client -> BOOLEAN]
        /\ \A d \in Client : /\ Current(d) <=> pc[d] # "none" /\ ~cancelled[d]
                             /\ pc[d] = "none" => ~cancelled[d]
                             /\ pc[d] \in Before => stream[d] = <<>>
        /\ heard # {} \/ listed =>
             inst # NoInstance /\ pc[inst.client] \notin Before
    BY DEF BaseInv, ClientInv
  <2>2. /\ pc' \in [Client -> PC] /\ cancelled' \in [Client -> BOOLEAN]
        /\ pc'[c] = "none" /\ ~cancelled'[c]
        /\ \A d \in Client \ {c} : pc'[d] = pc[d] /\ cancelled'[d] = cancelled[d]
    BY <1>1, <2>1 DEF PC
  <2>3. ~Current(c) /\ \A d \in Client : Current(d)' <=> Current(d)
    BY <1>1, <2>1 DEF Current
  <2>4. \A d \in Client : /\ Current(d)' <=> pc'[d] # "none" /\ ~cancelled'[d]
                          /\ pc'[d] = "none" => ~cancelled'[d]
                          /\ pc'[d] \in Before => stream'[d] = <<>>
    BY <1>2, <2>1, <2>2, <2>3
  <2>5. inst # NoInstance => inst.client \in Client /\ inst.client # c
    BY <2>3 DEF BaseInv, ServerType, Fits, InstanceType, Current
  <2> QED
    BY <1>1, <2>1, <2>2, <2>4, <2>5 DEF ClientInv, history
<1>5. AnswerInv'
  <2>1. DOMAIN answer = Client /\ DOMAIN answer[c] = {}
    BY <1>1 DEF BaseInv, AnswerInv, Storing
  <2>2. "none" \in PC
    BY DEF PC
  <2> QED
    BY <1>1, <2>1, <2>2, AnswerFrame
<1>6. StreamInv'
  BY <1>1, <1>2, StreamFrame
<1> QED
  BY <1>3, <1>4, <1>5, <1>6 DEF BaseInv

\* The first event of the stream is handled.
Handles(c, e) ==
  /\ pc[c] = "read" /\ stream[c] # <<>> /\ e = Head(stream[c])
  /\ e \in EventType /\ Said(e)
  /\ DOMAIN stream' = Client /\ stream' = [d \in Client |-> stream'[d]]
  /\ \A d \in Client \ {c} : stream'[d] = stream[d]
  /\ stream'[c] = Tail(stream[c])
  /\ UNCHANGED <<process, row, handler, cancelled, answer, left, listed, untold>>

Applies(c, e) ==
  /\ Handles(c, e) /\ e.sid \in Sid /\ e.kind \notin {"connected", "replied"}
  /\ inst' = After(inst, e) /\ Touched(inst, inst', e.sid)
  /\ pc' = [pc EXCEPT ![c] = IF Changed(inst, e) THEN "publish" ELSE "read"]
  /\ Hear(c, e)

Asks(c, e) ==
  /\ Handles(c, e) /\ UNCHANGED <<inst, foreign>>
  /\ \/ /\ e.kind = "connected" /\ e.sid = NoSid
        /\ pc' = [pc EXCEPT ![c] = "list"] /\ heard' = heard
     \/ /\ e.kind = "replied" /\ e.sid \in Sid
        /\ pc' = [pc EXCEPT ![c] = "status"]
        /\ heard' = IF Current(c) THEN heard \ {e.sid} ELSE heard

LEMMA HandleEventHandles ==
  ASSUME BaseInv, NEW c \in Client, HandleEvent(c)
  PROVE  \E e : Applies(c, e) \/ Asks(c, e)
<1> DEFINE e == Head(stream[c])
<1>1. /\ pc[c] = "read" /\ stream[c] # <<>>
      /\ stream' = [stream EXCEPT ![c] = Tail(stream[c])]
      /\ UNCHANGED <<process, row, handler, cancelled, answer, left, listed,
                     untold>>
      /\ Apply(c, e) \/ Ask(c, e)
  BY DEF HandleEvent
<1>2. /\ stream[c] \in Seq(EventType)
      /\ \A k \in DOMAIN stream[c] : Said(stream[c][k])
  BY DEF BaseInv, StreamInv
<1>3. e \in EventType /\ Said(e)
  <2>1. e \in EventType /\ \E k \in DOMAIN stream[c] : e = stream[c][k]
    BY <1>1, <1>2, TailEffect
  <2> QED
    BY <1>2, <2>1
<1>4. /\ DOMAIN stream' = Client /\ stream' = [d \in Client |-> stream'[d]]
      /\ \A d \in Client \ {c} : stream'[d] = stream[d]
      /\ stream'[c] = Tail(stream[c])
  BY <1>1, BaseShape
<1>5. Handles(c, e)
  BY <1>1, <1>3, <1>4 DEF Handles
<1> HIDE DEF e
<1>6. CASE Apply(c, e)
  <2>1. e.kind \notin {"connected", "replied"} /\ inst' = After(inst, e)
    BY <1>6 DEF Apply
  <2>2. e.sid \in Sid
    BY <1>3, <2>1 DEF Said
  <2>3. Touched(inst, inst', e.sid)
    BY <1>3, <2>1, <2>2, AfterEffect DEF BaseInv, ServerType
  <2> QED
    BY <1>5, <1>6, <2>1, <2>2, <2>3 DEF Apply, Goto, Applies
<1>7. CASE Ask(c, e)
  <2>1. /\ e.kind = "connected" => e.sid = NoSid
        /\ e.kind = "replied" => e.sid \in Sid
    BY <1>3 DEF Said
  <2> QED
    BY <1>5, <1>7, <2>1 DEF Ask, Goto, Asks
<1> QED
  BY <1>1, <1>6, <1>7

LEMMA AppliesBase ==
  ASSUME BaseInv, NEW c \in Client, NEW e, Applies(c, e)
  PROVE  BaseInv'
<1>1. /\ pc[c] = "read" /\ stream[c] # <<>>
      /\ e \in EventType /\ Said(e)
      /\ DOMAIN stream' = Client /\ stream' = [d \in Client |-> stream'[d]]
      /\ \A d \in Client \ {c} : stream'[d] = stream[d]
      /\ stream'[c] = Tail(stream[c])
      /\ UNCHANGED <<process, row, handler, cancelled, answer, left, listed,
                     untold>>
      /\ e.sid \in Sid /\ e.kind \notin {"connected", "replied"}
      /\ inst' = After(inst, e) /\ Touched(inst, inst', e.sid)
      /\ pc' = [pc EXCEPT ![c] = IF Changed(inst, e) THEN "publish" ELSE "read"]
  BY DEF Applies, Handles
<1> DEFINE s == e.sid
           l == IF Changed(inst, e) THEN "publish" ELSE "read"
<1>2. /\ s \in Sid /\ real[s] # "none" /\ e.title <= title[s]
      /\ Knows(inst, s) => inst.sessions[s].title <= title[s]
      /\ Fits(inst) /\ heard \subseteq Sid /\ foreign \subseteq Sid
  BY <1>1 DEF Said, BaseInv, KnownInv, ServerType
<1>3. heard' \subseteq heard \union {s} /\ foreign' \subseteq foreign \union {s}
  BY DEF Applies, Hear, Blur
<1>4. Knows(inst', s) => inst'.sessions[s].title <= title[s]
  <2>1. /\ e.kind \in Titling /\ inst # NoInstance =>
             inst'.sessions[s].title =
                IF Knows(inst, s) /\ e.title = 0 THEN inst.sessions[s].title
                                                 ELSE e.title
        /\ e.kind = "deleted" => ~Knows(inst', s)
        /\ e.kind \in {"idle", "busy", "retry", "odd", "asked", "part"} =>
             /\ Knows(inst', s) <=> Knows(inst, s)
             /\ Knows(inst, s) => inst'.sessions[s].title = inst.sessions[s].title
    BY <1>1, <1>2, AfterEffect
  <2>2. e.kind \in Titling \union {"deleted", "idle", "busy", "retry", "odd", "asked",
                                "part"}
    BY <1>1 DEF EventType, StatusKind, Titling
  <2>3. Knows(inst', s) => inst # NoInstance
    BY <1>1 DEF Touched, Knows
  <2> QED
    BY <1>2, <2>1, <2>2, <2>3
<1>5. /\ \A r \in Sid : Knows(inst', r) =>
           real'[r] # "none" /\ inst'.sessions[r].title <= title'[r]
      /\ \A d \in Client : Current(d)' <=> Current(d)
      /\ \A r \in Sid : r \in heard' => real'[r] # "none"
  BY <1>1, <1>2, <1>3, <1>4, KnownFrame
<1>6. l \in PC \ {"none"} /\ l \notin Storing /\ l \notin Before
  BY DEF PC, Storing, Before
<1>7. ProcessType' /\ KnownInv'
  BY <1>1, <1>2, <1>3, <1>5 DEF BaseInv, ProcessType, KnownInv, process
<1>8. ServerType'
  BY <1>1, <1>2, <1>3 DEF BaseInv, ServerType, Touched
<1>9. ClientInv'
  <2>1. heard' # {} \/ listed' => heard # {} \/ listed \/ Current(c)
    BY <1>1 DEF Applies, Hear, Blur
  <2> HIDE DEF l
  <2> QED
    BY <1>1, <1>5, <1>6, <2>1, GotoClientInv DEF l
<1>10. AnswerInv'
  <2>1. DOMAIN answer = Client /\ DOMAIN answer[c] = {}
    BY <1>1 DEF BaseInv, AnswerInv, Storing
  <2> QED
    BY <1>1, <1>6, <2>1, AnswerFrame
<1>11. StreamInv'
  BY <1>1, StreamFrame
<1> QED
  BY <1>7, <1>8, <1>9, <1>10, <1>11 DEF BaseInv

LEMMA AsksBase ==
  ASSUME BaseInv, NEW c \in Client, NEW e, Asks(c, e)
  PROVE  BaseInv'
<1>1. /\ pc[c] = "read" /\ stream[c] # <<>>
      /\ DOMAIN stream' = Client /\ stream' = [d \in Client |-> stream'[d]]
      /\ \A d \in Client \ {c} : stream'[d] = stream[d]
      /\ stream'[c] = Tail(stream[c])
      /\ UNCHANGED <<process, row, handler, cancelled, answer, left, listed,
                     untold, inst, foreign>>
      /\ heard' \subseteq heard
  BY DEF Asks, Handles
<1>2. PICK l \in {"list", "status"} : pc' = [pc EXCEPT ![c] = l]
  BY DEF Asks
<1>3. l \in PC \ {"none"} /\ l \notin Storing /\ l \notin Before
  BY <1>2 DEF PC, Storing, Before
<1> QED
  BY <1>1, <1>2, <1>3, BaseShape, GotoBase DEF Storing

LEMMA StutterBase ==
  ASSUME BaseInv, UNCHANGED vars
  PROVE  BaseInv'
<1>1. UNCHANGED <<real, title, inst, row, handler, pc, cancelled, stream, answer,
                  left, heard, listed, untold, foreign>>
  BY DEF vars, process, history
<1>2. StreamInv'
  BY <1>1, StreamFrame DEF BaseInv, StreamInv, process
<1> QED
  BY <1>1, <1>2 DEF BaseInv, ProcessType, ServerType, ClientInv, AnswerInv,
                    KnownInv, Current

LEMMA NextBase == BaseInv /\ [Next]_vars => BaseInv'
<1> SUFFICES ASSUME BaseInv, [Next]_vars PROVE BaseInv'
  OBVIOUS
<1>1. ASSUME NEW s \in Sid, Process(s) PROVE BaseInv'
  BY <1>1, ProcessHappens, ProcessBase
<1>2. ASSUME NEW hint \in {NoSid} \union {s \in Sid : Exists(s)}, Register(hint)
      PROVE  BaseInv'
  BY <1>2, RegisterBase
<1>3. ASSUME NEW h \in handler, Registered(h) PROVE BaseInv'
  BY <1>3, RegisteredBase
<1>4. CASE Remove
  BY <1>4, RemoveBase
<1>5. ASSUME NEW c \in Client, ClientStep(c) PROVE BaseInv'
  <2>1. CASE Get(c)
    BY <2>1, GetBase
  <2>2. CASE StoreOne(c)
    BY <2>2, StoreOneStores, StoreOneBase
  <2>3. CASE Connect(c)
    BY <2>3, ConnectBase
  <2>4. CASE HandleEvent(c)
    BY <2>4, HandleEventHandles, AppliesBase, AsksBase
  <2>5. CASE Reconcile(c)
    BY <2>5, ReconcileBase
  <2>6. CASE StreamEnds(c)
    BY <2>6, StreamEndsBase
  <2>7. CASE Stop(c)
    BY <2>7, StopBase
  <2> QED
    BY <1>5, <2>1, <2>2, <2>3, <2>4, <2>5, <2>6, <2>7 DEF ClientStep
<1>6. CASE UNCHANGED vars
  BY <1>6, StutterBase
<1> QED
  BY <1>1, <1>2, <1>3, <1>4, <1>5, <1>6 DEF Next

\* Every variable keeps its type; a client that was cancelled is not that of
\* the instance (Store.Register and Store.Remove cancel before they return).
THEOREM TypeCorrect == Spec => []TypeOK
<1>1. Spec => []BaseInv
  BY InitBase, NextBase, PTL DEF Spec
<1> QED
  BY <1>1, BaseImpliesTypeOK, PTL

-----------------------------------------------------------------------------
(* The panes table.                                                        *)

\* A step of client c leaves the row; if c is the instance's client, it has
\* yet to reconcile or has changed nothing.
LEMMA PublishFrame ==
  ASSUME BaseInv, PublishInv, NEW c \in Client,
         UNCHANGED <<row, handler>>, foreign' = {} => foreign = {},
         inst' = NoInstance <=> inst = NoInstance,
         inst # NoInstance => inst'.client = inst.client,
         \A d \in Client \ {c} : pc'[d] = pc[d] /\ stream'[d] = stream[d],
         ~Current(c) /\ foreign' = {} => inst' = inst,
         Current(c) =>
           \/ pc'[c] # "read"
           \/ Has(stream'[c], NoSid, {"connected"})
           \/ /\ inst' = inst /\ pc[c] = "read"
              /\ ~Has(stream[c], NoSid, {"connected"})
  PROVE  PublishInv'
<1> SUFFICES ASSUME handler = {}, foreign' = {}
             PROVE  \/ row = Rows(inst')
                    \/ /\ inst # NoInstance
                       /\ \/ pc'[inst.client] # "read"
                          \/ Has(stream'[inst.client], NoSid, {"connected"})
  BY DEF PublishInv, Has
<1>1. \/ row = Rows(inst)
      \/ /\ inst # NoInstance
         /\ \/ pc[inst.client] # "read"
            \/ Has(stream[inst.client], NoSid, {"connected"})
  BY DEF PublishInv
<1>2. inst # NoInstance => inst.client \in Client
  BY DEF BaseInv, ServerType, Fits, InstanceType
<1>3. CASE Current(c)
  BY <1>1, <1>3 DEF Current
<1>4. CASE ~Current(c)
  BY <1>1, <1>2, <1>4 DEF Current
<1> QED
  BY <1>3, <1>4

LEMMA PublishProcess ==
  ASSUME BaseInv, PublishInv, NEW s \in Sid, NEW e, Happens(s, e)
  PROVE  PublishInv'
<1>1. /\ UNCHANGED <<inst, row, handler, pc, foreign>> /\ e \in EventType
      /\ \A d \in Client : \/ stream'[d] = stream[d]
                           \/ stream'[d] = Append(stream[d], e)
  BY DEF Happens, server
<1>2. \A d \in Client : stream[d] \in Seq(EventType)
  BY DEF BaseInv, StreamInv
<1>3. ASSUME NEW d \in Client, Has(stream[d], NoSid, {"connected"})
      PROVE  Has(stream'[d], NoSid, {"connected"})
  BY <1>1, <1>2, <1>3, AppendEffect
<1>4. inst # NoInstance => inst.client \in Client
  BY DEF BaseInv, ServerType, Fits, InstanceType
<1> SUFFICES ASSUME handler = {}, foreign = {}
             PROVE  \/ row = Rows(inst)
                    \/ /\ inst # NoInstance
                       /\ \/ pc[inst.client] # "read"
                          \/ Has(stream'[inst.client], NoSid, {"connected"})
  BY <1>1 DEF PublishInv, Has
<1> QED
  BY <1>3, <1>4 DEF PublishInv

LEMMA PublishGet ==
  ASSUME BaseInv, PublishInv, NEW c \in Client, Get(c)
  PROVE  PublishInv'
<1>1. UNCHANGED <<inst, row, handler, stream, foreign>>
  BY DEF Get
<1>2. pc \in [Client -> PC]
  BY BaseShape
<1>3. pc'[c] # "read" /\ \A d \in Client \ {c} : pc'[d] = pc[d]
  <2>1. CASE GetFails(c)
    BY <1>2, <2>1 DEF GetFails, Proceed, Goto
  <2>2. ASSUME NEW f, NEW l \in Storing, Receive(c, f, l)
        PROVE  pc'[c] # "read" /\ \A d \in Client \ {c} : pc'[d] = pc[d]
    BY <1>2, <2>2 DEF Receive, Proceed, Goto, Storing
  <2>3. CASE GetInitial(c)
    BY <2>2, <2>3 DEF GetInitial, Storing
  <2>4. CASE GetSessions(c)
    BY <2>2, <2>4 DEF GetSessions, Storing
  <2>5. CASE GetStatus(c)
    <3>1. PICK shape : Receive(c, Statuses(shape), "apply")
      BY <2>5 DEF GetStatus
    <3> QED
      BY <2>2, <3>1 DEF Storing
  <2> QED
    BY <2>1, <2>3, <2>4, <2>5 DEF Get
<1> QED
  BY <1>1, <1>3, PublishFrame

LEMMA PublishStoreOne ==
  ASSUME BaseInv, PublishInv, NEW c \in Client, NEW s, NEW m, StoresOne(c, s, m)
  PROVE  PublishInv'
<1>1. /\ UNCHANGED <<row, handler, stream>> /\ Blur(c, s)
      /\ Touched(inst, inst', s) /\ pc' = [pc EXCEPT ![c] = m]
      /\ m # "read"
  BY DEF StoresOne, Storing
<1>2. pc \in [Client -> PC]
  BY BaseShape
<1>3. pc'[c] # "read" /\ \A d \in Client \ {c} : pc'[d] = pc[d]
  BY <1>1, <1>2
<1>4. /\ foreign' = {} => foreign = {}
      /\ ~Current(c) => foreign' # {}
  BY <1>1 DEF Blur
<1> QED
  BY <1>1, <1>3, <1>4, PublishFrame DEF Touched

LEMMA PublishHandle ==
  ASSUME BaseInv, PublishInv, NEW c \in Client, NEW e,
         Applies(c, e) \/ Asks(c, e)
  PROVE  PublishInv'
<1>1. /\ UNCHANGED <<row, handler>> /\ pc[c] = "read" /\ stream[c] # <<>>
      /\ \A d \in Client \ {c} : stream'[d] = stream[d]
      /\ stream'[c] = Tail(stream[c]) /\ e = Head(stream[c]) /\ e \in EventType
  BY DEF Applies, Asks, Handles
<1>2. pc \in [Client -> PC] /\ stream[c] \in Seq(EventType) /\ Fits(inst)
  BY BaseShape DEF BaseInv, StreamInv, ServerType
<1>3. CASE Asks(c, e)
  <2>1. UNCHANGED <<inst, foreign>>
    BY <1>3 DEF Asks
  <2>2. pc'[c] # "read" /\ \A d \in Client \ {c} : pc'[d] = pc[d]
    BY <1>2, <1>3 DEF Asks
  <2> QED
    BY <1>1, <2>1, <2>2, PublishFrame
<1>4. CASE Applies(c, e)
  <2>1. /\ e.sid \in Sid /\ e.kind \notin {"connected", "replied"}
        /\ inst' = After(inst, e) /\ Touched(inst, inst', e.sid)
        /\ pc' = [pc EXCEPT ![c] = IF Changed(inst, e) THEN "publish" ELSE "read"]
        /\ Hear(c, e)
    BY <1>4 DEF Applies
  <2>2. /\ ~Changed(inst, e) => inst' = inst
        /\ Changed(inst, e) => pc'[c] # "read"
        /\ \A d \in Client \ {c} : pc'[d] = pc[d]
    BY <1>1, <1>2, <2>1, AfterEffect
  <2>3. /\ foreign' = {} => foreign = {}
        /\ ~Current(c) => foreign' # {}
    BY <2>1 DEF Hear, Blur
  <2>4. Has(stream[c], NoSid, {"connected"}) =>
          Has(stream'[c], NoSid, {"connected"})
    BY <1>1, <1>2, <2>1, TailEffect DEF About
  <2> QED
    BY <1>1, <2>1, <2>2, <2>3, <2>4, PublishFrame DEF Touched
<1> QED
  BY <1>3, <1>4

LEMMA PublishNext == BaseInv /\ PublishInv /\ [Next]_vars => PublishInv'
<1> SUFFICES ASSUME BaseInv, PublishInv, [Next]_vars PROVE PublishInv'
  OBVIOUS
<1>1. ASSUME NEW s \in Sid, Process(s) PROVE PublishInv'
  BY <1>1, ProcessHappens, PublishProcess
<1>2. ASSUME NEW hint \in {NoSid} \union {s \in Sid : Exists(s)}, Register(hint)
      PROVE  PublishInv'
  <2>1. handler' # {}
    BY <1>2, RegisterEffect
  <2> QED
    BY <2>1 DEF PublishInv
<1>3. ASSUME NEW h \in handler, Registered(h) PROVE PublishInv'
  BY <1>3 DEF Registered, PublishInv
<1>4. CASE Remove
  BY <1>4 DEF Remove, PublishInv, Rows
<1>5. ASSUME NEW c \in Client, ClientStep(c) PROVE PublishInv'
  <2>1. CASE Get(c)
    BY <2>1, PublishGet
  <2>2. CASE StoreOne(c)
    BY <2>2, StoreOneStores, PublishStoreOne
  <2>3. CASE Connect(c)
    <3> DEFINE e == Event("connected", NoSid, 0)
    <3>1. /\ stream' = [stream EXCEPT ![c] = <<e>>]
          /\ pc' = [pc EXCEPT ![c] = "read"]
          /\ UNCHANGED <<inst, row, handler, foreign>>
      BY <2>3 DEF Connect, Goto, history
    <3>2. /\ stream'[c] = <<e>>
          /\ \A d \in Client \ {c} : pc'[d] = pc[d] /\ stream'[d] = stream[d]
      BY <3>1, BaseShape
    <3>3. Has(stream'[c], NoSid, {"connected"})
      BY <3>2 DEF Has, About, Event
    <3> QED
      BY <3>1, <3>2, <3>3, PublishFrame
  <2>4. CASE HandleEvent(c)
    BY <2>4, HandleEventHandles, PublishHandle
  <2>5. CASE Reconcile(c)
    BY <2>5 DEF Reconcile, PublishInv
  <2>6. CASE StreamEnds(c)
    <3>1. /\ stream' = [stream EXCEPT ![c] = <<>>]
          /\ pc' = [pc EXCEPT ![c] = "connect"]
          /\ UNCHANGED <<inst, row, handler, foreign>>
      BY <2>6 DEF StreamEnds, Goto
    <3>2. /\ pc'[c] # "read"
          /\ \A d \in Client \ {c} : pc'[d] = pc[d] /\ stream'[d] = stream[d]
      BY <3>1, BaseShape
    <3> QED
      BY <3>1, <3>2, PublishFrame
  <2>7. CASE Stop(c)
    <3>1. /\ stream' = [stream EXCEPT ![c] = <<>>]
          /\ pc' = [pc EXCEPT ![c] = "none"]
          /\ UNCHANGED <<inst, row, handler, foreign>>
      BY <2>7 DEF Stop, Goto, history
    <3>2. /\ pc'[c] # "read"
          /\ \A d \in Client \ {c} : pc'[d] = pc[d] /\ stream'[d] = stream[d]
      BY <3>1, BaseShape
    <3> QED
      BY <3>1, <3>2, PublishFrame
  <2> QED
    BY <1>5, <2>1, <2>2, <2>3, <2>4, <2>5, <2>6, <2>7 DEF ClientStep
<1>6. CASE UNCHANGED vars
  BY <1>6 DEF vars, history, PublishInv, Has
<1> QED
  BY <1>1, <1>2, <1>3, <1>4, <1>5, <1>6 DEF Next

\* When all clients have handled all events, the panes table has the row that
\* ActivePanes makes of the instance (every handleEvent that changes the
\* store is followed by Reconcile).
THEOREM QuietRowIsRight == Spec => []QuietIsPublished
<1> DEFINE Inv == BaseInv /\ PublishInv
<1>1. Init => Inv
  BY InitBase DEF Init, PublishInv, Rows
<1>2. Inv /\ [Next]_vars => Inv'
  BY NextBase, PublishNext
<1>3. Inv => QuietIsPublished
  <2> SUFFICES ASSUME BaseInv, PublishInv, handler = {}, foreign = {},
                      \A c \in Client : /\ pc[c] \in {"none", "read"}
                                        /\ stream[c] = <<>>
               PROVE  row = Rows(inst)
    BY DEF QuietIsPublished
  <2>1. ASSUME inst # NoInstance
        PROVE  /\ pc[inst.client] = "read"
               /\ ~Has(stream[inst.client], NoSid, {"connected"})
    <3>1. inst.client \in Client /\ Current(inst.client)
      BY <2>1 DEF BaseInv, ServerType, Fits, InstanceType, Current
    <3>2. pc[inst.client] # "none"
      BY <3>1 DEF BaseInv, ClientInv
    <3> QED
      BY <3>1, <3>2, EmptySeq DEF Has
  <2> QED
    BY <2>1 DEF PublishInv
<1> HIDE DEF Inv
<1> QED
  BY <1>1, <1>2, <1>3, PTL DEF Spec

-----------------------------------------------------------------------------
(* The states of the sessions.                                             *)

\* Nothing is said of the session on this connection, or was.
LEMMA NothingSaid ==
  ASSUME NEW c \in Client, NEW s \in Sid,
         \A k \in DOMAIN stream'[c] : stream'[c][k].sid # s, s \notin heard'
  PROVE  StateInv(c, s)'
<1>1. /\ \A kinds : ~Has(stream[c], s, kinds)'
      /\ \A kinds, e : ~LastOf(stream[c], s, kinds, e)'
  BY DEF Has, LastOf, About
<1> QED
  BY <1>1 DEF StateInv

\* The shape of the goal, step by step.
LEMMA StateFrom ==
  ASSUME NEW c \in Client, NEW s \in Sid, StateInv(c, s),
         UNCHANGED process,
         \A e : LastOf(stream'[c], s, Telling, e) =>
                  LastOf(stream[c], s, Telling, e),
         Has(stream'[c], s, {"created"}) => Has(stream[c], s, {"created"}),
         \A d \in Client \ {c} : NothingOf(d, s) => NothingOf(d, s)',
         \A e \in EventType : LastOf(stream'[c], s, Telling, e) /\ Exists(s)
           /\ e.kind = "created" /\ Knows(inst', s) => Shown(c, s)' \in {"idle", "unknown"},
         s \in heard' /\ Exists(s) =>
           /\ Knows(inst', s)
           /\ Has(stream'[c], s, Turning) \/ Shown(c, s)' = Truth(s)
  PROVE  StateInv(c, s)'
<1>1. /\ Exists(s)' <=> Exists(s)
      /\ Truth(s)' = Truth(s) /\ real' = real
  BY DEF Exists, Truth, process
<1>2. /\ \A kinds : Has(stream[c], s, kinds)' <=> Has(stream'[c], s, kinds)
      /\ \A kinds, e : LastOf(stream[c], s, kinds, e)' <=>
                         LastOf(stream'[c], s, kinds, e)
  BY DEF Has, LastOf, About
<1>3. Knows(inst, s)' <=> Knows(inst', s)
  BY DEF Knows
<1>4. ASSUME NEW e \in EventType, LastOf(stream'[c], s, Telling, e), Exists(s)
      PROVE  /\ Tells(e) = real[s]
             /\ e.kind = "created" /\ Knows(inst', s) => Shown(c, s)' \in {"idle", "unknown"}
  BY <1>4 DEF StateInv
<1>5. ASSUME Has(stream'[c], s, {"created"}), NEW d \in Client \ {c}
      PROVE  NothingOf(d, s)'
  BY <1>5 DEF StateInv
<1> QED
  BY <1>1, <1>2, <1>3, <1>4, <1>5 DEF StateInv

\* Where the stream, the instance and the answer stay, all does.
LEMMA StateFrame ==
  ASSUME NEW c \in Client, NEW s \in Sid, StateInv(c, s),
         UNCHANGED process, stream'[c] = stream[c],
         \A d \in Client \ {c} : NothingOf(d, s) => NothingOf(d, s)',
         Knows(inst', s) <=> Knows(inst, s),
         Knows(inst, s) => Shown(c, s)' = Shown(c, s),
         s \in heard' => s \in heard
  PROVE  StateInv(c, s)'
<1>1. \A e \in EventType : LastOf(stream'[c], s, Telling, e) /\ Exists(s)
        /\ e.kind = "created" /\ Knows(inst', s) => Shown(c, s)' \in {"idle", "unknown"}
  BY DEF StateInv
<1>2. s \in heard' /\ Exists(s) =>
        /\ Knows(inst', s)
        /\ Has(stream'[c], s, Turning) \/ Shown(c, s)' = Truth(s)
  BY DEF StateInv
<1> QED
  BY <1>1, <1>2, StateFrom

\* Another client, which is cancelled, writes only sessions that it has in its
\* hands, and that leave `heard'.
LEMMA StateOther ==
  ASSUME BaseInv, NEW c \in Client, NEW s \in Sid, StateInv(c, s),
         NEW d \in Client \ {c}, UNCHANGED process,
         stream'[c] = stream[c], answer'[c] = answer[c], pc'[c] = pc[c],
         \A x \in Client \ {c} : NothingOf(x, s) => NothingOf(x, s)',
         \/ /\ Knows(inst', s) <=> Knows(inst, s)
            /\ Knows(inst, s) => inst'.sessions[s] = inst.sessions[s]
            /\ s \in heard' => s \in heard
         \/ ~NothingOf(d, s) /\ s \notin heard'
  PROVE  StateInv(c, s)'
<1>1. CASE /\ Knows(inst', s) <=> Knows(inst, s)
           /\ Knows(inst, s) => inst'.sessions[s] = inst.sessions[s]
           /\ s \in heard' => s \in heard
  <2>1. Knows(inst, s) => Shown(c, s)' = Shown(c, s)
    BY <1>1 DEF Shown
  <2> QED
    BY <1>1, <2>1, StateFrame
<1>2. CASE ~NothingOf(d, s) /\ s \notin heard'
  <2>1. ~Has(stream[c], s, {"created"})
    BY <1>2 DEF StateInv
  <2>2. \A e : LastOf(stream[c], s, Telling, e) => e.kind # "created"
    BY <2>1 DEF LastOf, Has, About
  <2> QED
    BY <1>2, <2>2, StateFrom
<1> QED
  BY <1>1, <1>2

LEMMA StateProcess ==
  ASSUME BaseInv, NEW s0 \in Sid, NEW e, Happens(s0, e),
         NEW c \in Client, NEW s \in Sid, Current(c), StateInv(c, s)
  PROVE  StateInv(c, s)'
<1>1. /\ e \in EventType /\ e.sid = s0 /\ e.kind # "connected"
      /\ UNCHANGED <<inst, row, handler, pc, cancelled, answer, heard, listed,
                     foreign>>
      /\ \A d \in Client : stream'[d] = IF Open(d) THEN Append(stream[d], e)
                                                   ELSE stream[d]
  BY DEF Happens, server
<1>2. \A d \in Client \ {c} : stream'[d] = stream[d]
  BY <1>1, OneClient DEF BaseInv
<1>3. CASE pc[c] \in Before
  <2>1. stream'[c] = <<>> /\ heard' = {}
    BY <1>1, <1>3, BaseShape, OneClient DEF BaseInv
  <2> QED
    BY <2>1, EmptySeq, NothingSaid
<1>4. CASE pc[c] \notin Before
  <2>1. stream'[c] = Append(stream[c], e) /\ stream[c] \in Seq(EventType)
    BY <1>1, <1>4, OneClient DEF BaseInv, StreamInv
  <2>2. /\ \A kinds : Has(stream'[c], s, kinds) <=>
                        Has(stream[c], s, kinds) \/ About(e, s, kinds)
        /\ \A kinds, f : LastOf(stream'[c], s, kinds, f) =>
             \/ f = e /\ About(e, s, kinds)
             \/ ~About(e, s, kinds) /\ LastOf(stream[c], s, kinds, f)
    BY <1>1, <2>1, AppendEffect
  <2>3. /\ \A kinds : Has(stream[c], s, kinds)' <=> Has(stream'[c], s, kinds)
        /\ \A kinds, f : LastOf(stream[c], s, kinds, f)' <=>
                           LastOf(stream'[c], s, kinds, f)
        /\ Knows(inst, s)' <=> Knows(inst, s)
        /\ Shown(c, s)' = Shown(c, s)
        /\ \A d \in Client \ {c} : NothingOf(d, s)' <=> NothingOf(d, s)
    BY <1>1, <1>2 DEF Has, LastOf, About, Knows, Shown, NothingOf
  <2>4. CASE s # s0
    <3>1. \A kinds : ~About(e, s, kinds)
      BY <1>1, <2>4 DEF About
    <3>2. real'[s] = real[s]
      BY <2>4 DEF Happens
    <3>3. (Exists(s)' <=> Exists(s)) /\ Truth(s)' = Truth(s)
      BY <3>2 DEF Exists, Truth
    <3> QED
      BY <1>1, <2>2, <2>3, <3>1, <3>2, <3>3 DEF StateInv
  <2>5. CASE s = s0
    <3>1. /\ IF e.kind = "created" THEN real[s] = "none" ELSE Exists(s)
          /\ e.kind \in Telling => real'[s] = Tells(e)
          /\ e.kind \in {"updated", "part"} => real'[s] = real[s]
          /\ e.kind = "deleted" => real'[s] = "deleted"
      BY <2>5 DEF Happens
    <3>2. real[s] = "none" => /\ ~Knows(inst, s) /\ s \notin heard
                              /\ \A d \in Client : NothingOf(d, s)
      BY DEF BaseInv, KnownInv, AnswerInv, StreamInv, Said, NothingOf
    <3>3. e.kind \notin Telling /\ Exists(s)' =>
            Exists(s) /\ real'[s] = real[s] /\ Truth(s)' = Truth(s)
      BY <1>1, <3>1 DEF Exists, EventType, StatusKind, Telling, Turning, Truth
    <3>4. ASSUME NEW f \in EventType, LastOf(stream'[c], s, Telling, f), Exists(s)'
          PROVE  /\ Tells(f) = real'[s]
                 /\ f.kind = "created" /\ Knows(inst, s) =>
                      Shown(c, s) \in {"idle", "unknown"}
      <4>1. CASE f = e /\ About(e, s, Telling)
        BY <3>1, <3>2, <4>1 DEF About
      <4>2. CASE ~About(e, s, Telling) /\ LastOf(stream[c], s, Telling, f)
        BY <1>1, <2>5, <3>3, <3>4, <4>2 DEF About, StateInv
      <4> QED
        BY <2>2, <3>4, <4>1, <4>2
    <3>5. ASSUME Has(stream'[c], s, {"created"}), NEW d \in Client \ {c}
          PROVE  NothingOf(d, s)
      BY <2>2, <3>1, <3>2, <3>5 DEF About, StateInv
    <3>6. ASSUME s \in heard, Exists(s)'
          PROVE  /\ Knows(inst, s)
                 /\ Has(stream'[c], s, Turning) \/ Shown(c, s) = Truth(s)'
      <4>1. Exists(s)
        BY <3>1, <3>2, <3>6
      <4>2. CASE e.kind \in Telling
        <5>1. e.kind # "created"
          BY <3>1, <3>2, <3>6
        <5>2. About(e, s, Turning)
          BY <1>1, <2>5, <4>2, <5>1 DEF About, Telling
        <5> QED
          BY <2>2, <3>6, <4>1, <5>2 DEF StateInv
      <4>3. CASE e.kind \notin Telling
        BY <2>2, <3>3, <3>6, <4>1, <4>3 DEF StateInv
      <4> QED
        BY <4>2, <4>3
    <3> QED
      BY <1>1, <2>3, <3>4, <3>5, <3>6 DEF StateInv
  <2> QED
    BY <2>4, <2>5
<1> QED
  BY <1>3, <1>4

\* A client leaves the streams and the answers of the others alone, and has
\* no more in its own hands than before if it is not that of the instance.
LEMMA NothingFrame ==
  ASSUME NEW d \in Client, NEW s \in Sid, BaseInv,
         \/ stream'[d] = stream[d]
         \/ stream'[d] = <<>>
         \/ stream[d] # <<>> /\ stream'[d] = Tail(stream[d])
         \/ stream'[d] = <<Event("connected", NoSid, 0)>>,
         DOMAIN answer'[d] \subseteq DOMAIN answer[d]
  PROVE  NothingOf(d, s) => NothingOf(d, s)'
<1> SUFFICES ASSUME NothingOf(d, s), NEW k \in DOMAIN stream'[d]
             PROVE  stream'[d][k].sid # s
  BY DEF NothingOf
<1>1. CASE stream'[d] = stream[d]
  BY <1>1 DEF NothingOf
<1>2. CASE stream'[d] = <<>>
  BY <1>2, EmptySeq
<1>3. CASE stream[d] # <<>> /\ stream'[d] = Tail(stream[d])
  <2>1. stream[d] \in Seq(EventType)
    BY DEF BaseInv, StreamInv
  <2>2. \E j \in DOMAIN stream[d] : stream'[d][k] = stream[d][j]
    BY <1>3, <2>1, TailEffect
  <2> QED
    BY <2>2 DEF NothingOf
<1>4. CASE stream'[d] = <<Event("connected", NoSid, 0)>>
  <2>1. stream'[d][k] = Event("connected", NoSid, 0)
    BY <1>4
  <2> QED
    BY <2>1, NothingAssumption DEF Event
<1> QED
  BY <1>1, <1>2, <1>3, <1>4

\* A step of another client.
LEMMA StateOtherStep ==
  ASSUME BaseInv, NEW d \in Client, ClientStep(d),
         NEW c \in Client \ {d}, Current(c), NEW s \in Sid, StateInv(c, s)
  PROVE  StateInv(c, s)'
<1> DEFINE Kept ==
      /\ UNCHANGED process
      /\ stream'[c] = stream[c] /\ answer'[c] = answer[c] /\ pc'[c] = pc[c]
      /\ \A x \in Client \ {c} : NothingOf(x, s) => NothingOf(x, s)'
<1>1. cancelled[d] \/ pc[d] = "none"
  BY OneClient DEF BaseInv, ClientInv
<1>2. /\ ~Current(d) /\ pc \in [Client -> PC] /\ DOMAIN stream = Client
      /\ DOMAIN answer = Client
  BY OneClient, BaseShape DEF BaseInv, AnswerInv
<1>3. ASSUME UNCHANGED process, UNCHANGED answer, DOMAIN stream' = Client,
             NEW l, pc' = [pc EXCEPT ![d] = l],
             \A x \in Client \ {d} : stream'[x] = stream[x],
             \/ stream'[d] = stream[d]
             \/ stream'[d] = <<>>
             \/ stream[d] # <<>> /\ stream'[d] = Tail(stream[d])
             \/ stream'[d] = <<Event("connected", NoSid, 0)>>
      PROVE  Kept
  <2>1. ASSUME NEW x \in Client \ {c}, NothingOf(x, s) PROVE NothingOf(x, s)'
    <3>1. \/ stream'[x] = stream[x]
          \/ stream'[x] = <<>>
          \/ stream[x] # <<>> /\ stream'[x] = Tail(stream[x])
          \/ stream'[x] = <<Event("connected", NoSid, 0)>>
      BY <1>3
    <3>2. DOMAIN answer'[x] \subseteq DOMAIN answer[x]
      BY <1>3
    <3> QED
      BY <2>1, <3>1, <3>2, NothingFrame
  <2>2. pc'[c] = pc[c] /\ stream'[c] = stream[c]
    BY <1>2, <1>3
  <2> QED
    BY <1>3, <2>1, <2>2
<1>4. ASSUME Kept, UNCHANGED inst, heard' \subseteq heard
      PROVE  StateInv(c, s)'
  BY <1>4, StateOther
<1>5. CASE Get(d)
  <2>1. CASE GetFails(d)
    <3>1. /\ UNCHANGED <<process, inst, stream, answer, heard>>
          /\ pc' = [pc EXCEPT ![d] =
               IF pc[d] \in {"list0", "store0"} THEN "connect" ELSE "publish"]
      BY <1>5, <2>1 DEF Get, GetFails, Proceed, Goto
    <3>2. Kept
      BY <1>2, <1>3, <3>1
    <3> QED
      BY <1>4, <3>1, <3>2
  <2>2. CASE ~GetFails(d)
    BY <1>1, <1>5, <2>2 DEF Get, GetInitial, GetSessions, GetStatus, Receive
  <2> QED
    BY <2>1, <2>2
<1>6. CASE StoreOne(d)
  <2>1. PICK s0, m : StoresOne(d, s0, m)
    BY <1>6, StoreOneStores
  <2>2. /\ s0 \in DOMAIN answer[d] /\ Touched(inst, inst', s0)
        /\ DOMAIN answer'[d] = DOMAIN answer[d] \ {s0}
        /\ \A x \in Client \ {d} : answer'[x] = answer[x]
        /\ pc' = [pc EXCEPT ![d] = m] /\ Blur(d, s0)
        /\ UNCHANGED <<process, stream>>
    BY <2>1 DEF StoresOne
  <2>3. ASSUME NEW x \in Client \ {c}, NothingOf(x, s) PROVE NothingOf(x, s)'
    BY <2>2, <2>3 DEF NothingOf
  <2>4. Kept
    BY <1>2, <2>2, <2>3
  <2>5. heard' = heard \ {s0}
    BY <1>2, <2>2 DEF Blur
  <2>6. CASE s = s0
    BY <2>2, <2>4, <2>5, <2>6, StateOther DEF NothingOf
  <2>7. CASE s # s0
    <3>1. /\ Knows(inst', s) <=> Knows(inst, s)
          /\ Knows(inst, s) => inst'.sessions[s] = inst.sessions[s]
          /\ s \in heard' => s \in heard
      BY <2>2, <2>5, <2>7 DEF Touched, Knows
    <3> QED
      BY <2>4, <3>1, StateOther
  <2> QED
    BY <2>6, <2>7
<1>7. CASE HandleEvent(d)
  <2>1. PICK e : Applies(d, e) \/ Asks(d, e)
    BY <1>7, HandleEventHandles
  <2>2. /\ pc[d] = "read" /\ stream[d] # <<>> /\ e = Head(stream[d])
        /\ DOMAIN stream' = Client
        /\ \A x \in Client \ {d} : stream'[x] = stream[x]
        /\ stream'[d] = Tail(stream[d]) /\ UNCHANGED <<process, answer>>
        /\ stream[d] \in Seq(EventType)
    BY <2>1 DEF Applies, Asks, Handles, BaseInv, StreamInv
  <2>3. PICK l : pc' = [pc EXCEPT ![d] = l]
    BY <2>1 DEF Applies, Asks
  <2>4. Kept
    BY <1>3, <2>2, <2>3
  <2>5. CASE Asks(d, e)
    BY <1>2, <1>4, <2>4, <2>5 DEF Asks
  <2>6. CASE Applies(d, e)
    <3>1. /\ e.sid \in Sid /\ Touched(inst, inst', e.sid)
          /\ heard' = heard \ {e.sid}
      BY <1>2, <2>6 DEF Applies, Hear, Blur
    <3>2. CASE s = e.sid
      <4>1. ~NothingOf(d, s)
        BY <2>2, <3>2, TailEffect DEF NothingOf
      <4> QED
        BY <2>4, <3>1, <3>2, <4>1, StateOther
    <3>3. CASE s # e.sid
      <4>1. /\ Knows(inst', s) <=> Knows(inst, s)
            /\ Knows(inst, s) => inst'.sessions[s] = inst.sessions[s]
            /\ s \in heard' => s \in heard
        BY <3>1, <3>3 DEF Touched, Knows
      <4> QED
        BY <2>4, <4>1, StateOther
    <3> QED
      BY <3>2, <3>3
  <2> QED
    BY <2>1, <2>5, <2>6
<1>8. CASE Connect(d)
  <2>1. /\ stream' = [stream EXCEPT ![d] = <<Event("connected", NoSid, 0)>>]
        /\ pc' = [pc EXCEPT ![d] = "read"]
        /\ UNCHANGED <<process, inst, answer, heard>>
    BY <1>8 DEF Connect, Goto, history
  <2>2. Kept
    BY <1>2, <1>3, <2>1
  <2> QED
    BY <1>4, <2>1, <2>2
<1>9. CASE Reconcile(d)
  <2>1. /\ pc' = [pc EXCEPT ![d] = "read"]
        /\ UNCHANGED <<process, inst, stream, answer, heard>>
    BY <1>9 DEF Reconcile, Goto, history
  <2>2. Kept
    BY <1>2, <1>3, <2>1
  <2> QED
    BY <1>4, <2>1, <2>2
<1>10. CASE StreamEnds(d) \/ Stop(d)
  <2>1. /\ stream' = [stream EXCEPT ![d] = <<>>]
        /\ UNCHANGED <<process, inst, answer>> /\ heard' \subseteq heard
    BY <1>10 DEF StreamEnds, Stop, history
  <2>2. PICK l : pc' = [pc EXCEPT ![d] = l]
    BY <1>10 DEF StreamEnds, Stop, Goto
  <2>3. Kept
    BY <1>2, <1>3, <2>1, <2>2
  <2> QED
    BY <1>4, <2>1, <2>3
<1> QED
  BY <1>5, <1>6, <1>7, <1>8, <1>9, <1>10 DEF ClientStep

\* A step of the client of the instance that is not about an event.
LEMMA StateOwnQuiet ==
  ASSUME BaseInv, NEW c \in Client, Current(c), NEW s \in Sid, StateInv(c, s),
         \/ Get(c) \/ Connect(c) \/ Reconcile(c) \/ StreamEnds(c) \/ Stop(c)
  PROVE  StateInv(c, s)'
<1>1. /\ pc \in [Client -> PC] /\ DOMAIN stream = Client /\ ~cancelled[c]
      /\ pc[c] \in Before => heard = {} /\ stream[c] = <<>>
  BY BaseShape DEF BaseInv, ClientInv
<1>2. CASE Get(c)
  <2>1. UNCHANGED <<process, inst, stream>>
    BY <1>2 DEF Get
  <2>2. CASE pc[c] = "list0"
    <3>1. heard = {} /\ heard' = heard /\ stream'[c] = <<>>
      BY <1>1, <1>2, <2>1, <2>2
         DEF Before, Get, GetInitial, GetSessions, GetStatus, GetFails
    <3> QED
      BY <3>1, EmptySeq, NothingSaid
  <2>3. CASE GetFails(c) /\ pc[c] # "list0"
    <3>1. /\ UNCHANGED <<answer, heard>> /\ pc[c] \in {"list", "status"}
          /\ pc' = [pc EXCEPT ![c] = "publish"]
      BY <2>3 DEF GetFails, Proceed, Goto
    <3>2. pc[c] # "apply" /\ pc'[c] # "apply"
      BY <1>1, <3>1
    <3>3. Shown(c, s)' = Shown(c, s)
      BY <2>1, <3>2 DEF Shown
    <3>4. \A d \in Client \ {c} : NothingOf(d, s) => NothingOf(d, s)'
      BY <2>1, <3>1 DEF NothingOf
    <3>5. Knows(inst', s) <=> Knows(inst, s)
      BY <2>1 DEF Knows
    <3> QED
      BY <2>1, <3>1, <3>3, <3>4, <3>5, StateFrame
  <2>4. CASE GetSessions(c)
    <3>1. Receive(c, Titles, "store") /\ pc[c] = "list" /\ heard' = heard
      BY <2>4 DEF GetSessions
    <3>2. /\ \A d \in Client \ {c} : answer'[d] = answer[d]
          /\ pc'[c] \in {"store", "publish"}
      BY <1>1, <3>1, ReceiveEffect DEF Storing
    <3>3. Shown(c, s)' = Shown(c, s)
      BY <2>1, <3>1, <3>2 DEF Shown
    <3>4. \A d \in Client \ {c} : NothingOf(d, s) => NothingOf(d, s)'
      BY <2>1, <3>2 DEF NothingOf
    <3>5. Knows(inst', s) <=> Knows(inst, s)
      BY <2>1 DEF Knows
    <3> QED
      BY <2>1, <3>1, <3>3, <3>4, <3>5, StateFrame
  <2>5. CASE GetStatus(c)
    <3>1. PICK shape \in AnswerShape :
            /\ Receive(c, Statuses(shape), "apply")
            /\ heard' = IF shape = "other" THEN heard \ Existing
                        ELSE (heard \union {r \in Existing : Knows(inst, r)})
                             \ {r \in Sid : real[r] = "asking"}
      BY <2>5 DEF GetStatus
    <3> DEFINE f == Statuses(shape)
    <3>2. /\ \A d \in Client \ {c} : answer'[d] = answer[d]
          /\ answer'[c] = f /\ DOMAIN f = Existing
          /\ \/ pc'[c] = "apply"
             \/ pc'[c] = "publish" /\ DOMAIN f = {}
      <4>1. pc[c] = "status" /\ "apply" \in Storing
        BY <2>5 DEF GetStatus, Storing
      <4>2. DOMAIN f = Existing
        BY ExistingFacts
      <4>3. Receive(c, f, "apply")
        BY <3>1
      <4> HIDE DEF f
      <4> QED
        BY <1>1, <4>1, <4>2, <4>3, ReceiveEffect
    <3>3. Exists(s) => /\ Shown(c, s)' = MapOpenCodeStatus(f[s])
                       /\ real[s] = "idle" =>
                            MapOpenCodeStatus(f[s]) \in {"idle", "unknown"}
                       /\ shape # "other" /\ real[s] # "asking" =>
                            MapOpenCodeStatus(f[s]) = Truth(s)
      <4>1. Exists(s) => Shown(c, s)' = MapOpenCodeStatus(f[s])
        BY <3>2 DEF Existing, Shown
      <4>2. Exists(s) => s \in Existing
        BY DEF Existing
      <4>3. real[s] = "idle" /\ s \in Existing =>
              MapOpenCodeStatus(f[s]) \in {"idle", "unknown"}
        BY ExistingFacts
      <4>4. shape # "other" => f = Statuses("string")
        BY ExistingFacts
      <4>5. s \in Existing /\ shape # "other" /\ real[s] # "asking" =>
              MapOpenCodeStatus(f[s]) = Truth(s)
        BY <4>4, ExistingFacts
      <4> QED
        BY <4>1, <4>2, <4>3, <4>5
    <3> HIDE DEF f
    <3>4. \A d \in Client \ {c} : NothingOf(d, s) => NothingOf(d, s)'
      BY <2>1, <3>2 DEF NothingOf
    <3>5. Knows(inst', s) <=> Knows(inst, s)
      BY <2>1 DEF Knows
    <3>6. \A e \in EventType : LastOf(stream'[c], s, Telling, e) /\ Exists(s)
            /\ e.kind = "created" /\ Knows(inst', s) =>
                 Shown(c, s)' \in {"idle", "unknown"}
      BY <2>1, <3>3 DEF StateInv, Tells
    <3>7. s \in heard' /\ Exists(s) =>
            Knows(inst', s) /\ Shown(c, s)' = Truth(s)
      <4> SUFFICES ASSUME s \in heard', Exists(s)
                   PROVE  Knows(inst', s) /\ Shown(c, s)' = Truth(s)
        OBVIOUS
      <4>1. shape # "other" /\ real[s] # "asking"
        BY <3>1 DEF Existing
      <4>2. Knows(inst, s)
        BY <3>1, <4>1 DEF StateInv
      <4> QED
        BY <3>3, <3>5, <4>1, <4>2
    <3> QED
      BY <2>1, <3>4, <3>6, <3>7, StateFrom
  <2> QED
    BY <1>2, <2>2, <2>3, <2>4, <2>5 DEF Get, GetInitial
<1>3. CASE Connect(c)
  <2>1. /\ stream'[c] = <<Event("connected", NoSid, 0)>> /\ heard' = {}
    BY <1>1, <1>3 DEF Connect, history, Before
  <2>2. \A k \in DOMAIN stream'[c] : stream'[c][k] = Event("connected", NoSid, 0)
    BY <2>1
  <2>3. \A k \in DOMAIN stream'[c] : stream'[c][k].sid # s
    BY <2>2, NothingAssumption DEF Event
  <2> QED
    BY <2>1, <2>3, NothingSaid
<1>4. CASE Reconcile(c)
  <2>1. /\ UNCHANGED <<process, inst, stream, answer, heard>> /\ pc[c] = "publish"
        /\ pc' = [pc EXCEPT ![c] = "read"]
    BY <1>4 DEF Reconcile, Goto, history
  <2>2. pc'[c] # "apply" /\ pc[c] # "apply"
    BY <1>1, <2>1
  <2>3. /\ Shown(c, s)' = Shown(c, s)
        /\ \A d \in Client \ {c} : NothingOf(d, s) => NothingOf(d, s)'
        /\ Knows(inst', s) <=> Knows(inst, s)
    BY <2>1, <2>2 DEF Shown, NothingOf, Knows
  <2> QED
    BY <2>1, <2>3, StateFrame
<1>5. CASE StreamEnds(c)
  <2>1. stream'[c] = <<>> /\ heard' = {}
    BY <1>1, <1>5 DEF StreamEnds
  <2> QED
    BY <2>1, EmptySeq, NothingSaid
<1>6. CASE Stop(c)
  BY <1>1, <1>6 DEF Stop
<1> QED
  BY <1>2, <1>3, <1>4, <1>5, <1>6

LEMMA StateOwnStore ==
  ASSUME BaseInv, NEW c \in Client, Current(c), NEW s \in Sid, StateInv(c, s),
         NEW s0, NEW m, StoresOne(c, s0, m)
  PROVE  StateInv(c, s)'
<1>1. /\ s0 \in DOMAIN answer[c] /\ pc[c] \in Storing
      /\ Touched(inst, inst', s0) /\ UNCHANGED <<process, stream>>
      /\ DOMAIN answer'[c] = DOMAIN answer[c] \ {s0}
      /\ \A d \in Client \ {c} : answer'[d] = answer[d]
      /\ \A r \in DOMAIN answer'[c] : answer'[c][r] = answer[c][r]
      /\ pc' = [pc EXCEPT ![c] = m] /\ inst # NoInstance /\ heard' = heard
      /\ \/ m = pc[c]
         \/ /\ m = IF pc[c] = "store0" THEN "connect" ELSE "publish"
            /\ DOMAIN answer'[c] = {}
  BY DEF StoresOne, Current, Blur
<1>2. /\ pc'[c] = m /\ s0 \in Sid
      /\ pc[c] # "apply" => m # "apply"
  BY <1>1, BaseShape DEF BaseInv, AnswerInv, Storing
<1>3. \A d \in Client \ {c} : NothingOf(d, s) => NothingOf(d, s)'
  BY <1>1 DEF NothingOf
<1>4. CASE s # s0
  <2>1. /\ Knows(inst', s) <=> Knows(inst, s)
        /\ inst'.sessions[s] = inst.sessions[s]
    BY <1>1, <1>4 DEF Touched
  <2>2. Shown(c, s)' = Shown(c, s)
    BY <1>1, <1>2, <1>4, <2>1 DEF Shown
  <2> QED
    BY <1>1, <1>3, <2>1, <2>2, StateFrame
<1>5. CASE s = s0
  <2>1. Shown(c, s)' = inst'.sessions[s].state
    BY <1>1, <1>5 DEF Shown
  <2>2. CASE pc[c] = "apply"
    <3>1. /\ Knows(inst', s) <=> Knows(inst, s)
          /\ Knows(inst, s) =>
               inst'.sessions[s].state = MapOpenCodeStatus(answer[c][s])
      BY <1>5, <2>2 DEF StoresOne
    <3>2. Shown(c, s) = MapOpenCodeStatus(answer[c][s])
      BY <1>1, <1>5, <2>2 DEF Shown
    <3> QED
      BY <1>1, <1>3, <2>1, <3>1, <3>2, StateFrame
  <2>3. CASE pc[c] # "apply"
    <3>1. /\ Knows(inst', s)
          /\ inst'.sessions[s].state =
               IF Knows(inst, s) THEN inst.sessions[s].state ELSE "idle"
      BY <1>1, <1>5, <2>3 DEF StoresOne
    <3>2. Shown(c, s) = inst.sessions[s].state
      BY <2>3 DEF Shown
    <3>3. \A e \in EventType : LastOf(stream'[c], s, Telling, e) /\ Exists(s)
            /\ e.kind = "created" /\ Knows(inst', s) => Shown(c, s)' \in {"idle", "unknown"}
      BY <1>1, <2>1, <3>1, <3>2 DEF StateInv
    <3>4. s \in heard' /\ Exists(s) =>
            /\ Knows(inst', s)
            /\ Has(stream'[c], s, Turning) \/ Shown(c, s)' = Truth(s)
      BY <1>1, <2>1, <3>1, <3>2 DEF StateInv
    <3> QED
      BY <1>1, <1>3, <3>3, <3>4, StateFrom
  <2> QED
    BY <2>2, <2>3
<1> QED
  BY <1>4, <1>5

LEMMA StateOwnHandle ==
  ASSUME BaseInv, NEW c \in Client, Current(c), NEW s \in Sid, StateInv(c, s),
         NEW e, Applies(c, e) \/ Asks(c, e)
  PROVE  StateInv(c, s)'
<1>1. /\ pc[c] = "read" /\ stream[c] # <<>> /\ e = Head(stream[c])
      /\ e \in EventType /\ Said(e)
      /\ \A d \in Client \ {c} : stream'[d] = stream[d]
      /\ stream'[c] = Tail(stream[c]) /\ UNCHANGED <<process, answer>>
      /\ stream[c] \in Seq(EventType) /\ InOrder(stream[c], s)
  BY DEF Applies, Asks, Handles, BaseInv, StreamInv
<1>2. /\ \A kinds : Has(stream[c], s, kinds) <=>
                      Has(stream'[c], s, kinds) \/ About(e, s, kinds)
      /\ \A kinds, f : LastOf(stream'[c], s, kinds, f) =>
                         LastOf(stream[c], s, kinds, f)
      /\ \A kinds : About(e, s, kinds) /\ ~Has(stream'[c], s, kinds) =>
                      LastOf(stream[c], s, kinds, e)
      /\ e.sid = s => \A k \in DOMAIN stream'[c] : stream'[c][k].sid = s =>
                        stream'[c][k].kind # "created"
  BY <1>1, TailEffect
<1>3. \A d \in Client \ {c} : NothingOf(d, s) => NothingOf(d, s)'
  BY <1>1 DEF NothingOf
<1>4. /\ pc'[c] # "apply" /\ Shown(c, s) = inst.sessions[s].state
      /\ Shown(c, s)' = inst'.sessions[s].state
  <2>1. pc'[c] # "apply"
    BY <1>1, BaseShape DEF Applies, Asks
  <2> QED
    BY <1>1, <2>1 DEF Shown
<1>5. CASE e.sid # s
  <2>1. /\ Knows(inst', s) <=> Knows(inst, s)
        /\ Knows(inst, s) => inst'.sessions[s] = inst.sessions[s]
        /\ s \in heard' => s \in heard
    BY <1>5 DEF Applies, Asks, Hear, Blur, Touched, Knows
  <2>2. \A kinds : Has(stream[c], s, kinds) <=> Has(stream'[c], s, kinds)
    BY <1>2, <1>5 DEF About
  <2>3. \A f \in EventType : LastOf(stream'[c], s, Telling, f) /\ Exists(s)
          /\ f.kind = "created" /\ Knows(inst', s) => Shown(c, s)' \in {"idle", "unknown"}
    BY <1>2, <1>4, <2>1 DEF StateInv
  <2>4. s \in heard' /\ Exists(s) =>
          /\ Knows(inst', s)
          /\ Has(stream'[c], s, Turning) \/ Shown(c, s)' = Truth(s)
    BY <1>4, <2>1, <2>2 DEF StateInv
  <2> QED
    BY <1>1, <1>2, <1>3, <2>3, <2>4, StateFrom
<1>6. CASE e.sid = s
  <2>1. \A f : LastOf(stream'[c], s, Telling, f) => f.kind # "created"
    BY <1>2, <1>6 DEF LastOf, About
  <2>2. ASSUME s \in heard', Exists(s)
        PROVE  /\ Knows(inst', s)
               /\ \/ Has(stream'[c], s, Turning)
                  \/ inst'.sessions[s].state = Truth(s)
    <3>1. Applies(c, e)
      BY <1>6, <2>2, NothingAssumption DEF Asks
    <3>2. /\ e.kind \notin {"connected", "replied"} /\ inst' = After(inst, e)
          /\ inst # NoInstance /\ Hear(c, e) /\ Fits(inst)
      BY <3>1 DEF Applies, Current, BaseInv, ServerType
    <3>3. /\ e.kind \in Titling =>
               /\ Knows(inst', s)
               /\ inst'.sessions[s].state =
                    IF Knows(inst, s) THEN inst.sessions[s].state ELSE "idle"
          /\ e.kind \in {"idle", "busy", "retry", "odd", "asked", "part"} =>
               /\ Knows(inst', s) <=> Knows(inst, s)
               /\ Knows(inst, s) => inst'.sessions[s].state =
                    CASE e.kind = "asked" -> "permission"
                      [] e.kind = "part" -> IF inst.sessions[s].state = "idle"
                                              THEN "idle" ELSE "running"
                      [] OTHER -> MapOpenCodeStatus(e.kind)
      BY <1>1, <1>6, <3>2, AfterEffect
    <3>4. s \in heard => /\ Knows(inst, s)
                         /\ \/ Has(stream[c], s, Turning)
                            \/ inst.sessions[s].state = Truth(s)
      BY <1>4, <2>2 DEF StateInv
    <3>5. heard' = IF e.kind = "part" /\ Knows(inst, s)
                        /\ inst.sessions[s].state \in {"permission", "unknown"}
                     THEN heard \ {s}
                   ELSE IF \/ /\ e.kind = "created"
                              /\ Knows(inst, s) =>
                                   inst.sessions[s].state # "unknown"
                           \/ /\ e.kind \in {"idle", "busy", "retry", "odd", "asked"}
                              /\ Knows(inst, s)
                     THEN heard \union {s} ELSE heard
      <4>1. {"idle", "busy", "retry", "odd", "asked"} = StatusKind \union {"asked"}
        BY DEF StatusKind
      <4> QED
        BY <1>6, <3>2, <4>1 DEF Hear
    <3>6. e.kind \in Telling /\ ~Has(stream'[c], s, Turning) =>
            /\ Tells(e) = real[s]
            /\ e.kind = "created" /\ Knows(inst, s) =>
                 inst.sessions[s].state \in {"idle", "unknown"}
      <4> SUFFICES ASSUME e.kind \in Telling, ~Has(stream'[c], s, Turning)
                   PROVE  /\ Tells(e) = real[s]
                          /\ e.kind = "created" /\ Knows(inst, s) =>
                               inst.sessions[s].state \in {"idle", "unknown"}
        OBVIOUS
      <4>1. ~Has(stream'[c], s, Telling)
        BY <1>2, <1>6 DEF Has, About, Telling
      <4>2. LastOf(stream[c], s, Telling, e)
        BY <1>2, <1>6, <4>1 DEF About
      <4> QED
        BY <1>1, <1>4, <2>2, <4>2 DEF StateInv
    <3>7. e.kind # "deleted"
      BY <1>1, <1>6, <2>2 DEF Said, Exists
    <3>8. CASE e.kind = "created"
      <4>1. Knows(inst', s) /\ Tells(e) = "idle" /\ e.kind \in Telling
        BY <3>3, <3>8 DEF Titling, Tells, Telling
      <4>2. CASE Knows(inst, s) => inst.sessions[s].state # "unknown"
        <5>1. ~Has(stream'[c], s, Turning) => Truth(s) = "idle"
          BY <3>6, <4>1 DEF Truth
        <5> QED
          BY <3>3, <3>6, <3>8, <4>1, <4>2, <5>1 DEF Titling
      <4>3. CASE Knows(inst, s) /\ inst.sessions[s].state = "unknown"
        <5>1. s \in heard
          BY <2>2, <3>5, <3>8, <4>3
        <5>2. Has(stream[c], s, Turning) <=> Has(stream'[c], s, Turning)
          BY <1>2, <3>8 DEF About, Turning
        <5> QED
          BY <3>3, <3>4, <3>8, <4>1, <4>3, <5>1, <5>2 DEF Titling
      <4> QED
        BY <4>2, <4>3
    <3>9. CASE e.kind = "updated"
      <4>1. Has(stream[c], s, Turning) <=> Has(stream'[c], s, Turning)
        BY <1>2, <3>9 DEF About, Turning
      <4> QED
        BY <2>2, <3>3, <3>4, <3>5, <3>9, <4>1 DEF Titling
    <3>10. CASE e.kind \in {"idle", "busy", "retry", "odd", "asked"}
      <4>1. Knows(inst, s)
        BY <2>2, <3>4, <3>5, <3>10
      <4>2. ~Has(stream'[c], s, Turning) => real[s] = Tells(e)
        BY <3>6, <3>10 DEF Telling, Turning
      <4>3. inst'.sessions[s].state =
              CASE e.kind = "asked" -> "permission"
                [] OTHER -> MapOpenCodeStatus(e.kind)
        BY <3>3, <3>10, <4>1
      <4>4. real[s] = Tells(e) => inst'.sessions[s].state = Truth(s)
        BY <3>10, <4>3 DEF Tells, Truth, MapOpenCodeStatus
      <4> QED
        BY <3>3, <3>10, <4>1, <4>2, <4>4
    <3>11. CASE e.kind = "part"
      <4>1. Has(stream[c], s, Turning) <=> Has(stream'[c], s, Turning)
        BY <1>2, <3>11 DEF About, Turning
      <4>2. /\ Knows(inst, s)
            /\ inst.sessions[s].state \notin {"permission", "unknown"}
        BY <2>2, <3>4, <3>5, <3>11
      <4>3. inst.sessions[s].state \in State
        BY <3>2, <4>2, KnownSession DEF Session
      <4> QED
        BY <2>2, <3>3, <3>4, <3>5, <3>11, <4>1, <4>2, <4>3 DEF State
    <3> QED
      BY <1>1, <3>2, <3>7, <3>8, <3>9, <3>10, <3>11 DEF EventType, StatusKind
  <2>3. Has(stream'[c], s, {"created"}) => Has(stream[c], s, {"created"})
    BY <1>2
  <2> QED
    BY <1>1, <1>2, <1>3, <1>4, <2>1, <2>2, <2>3, StateFrom
<1> QED
  BY <1>5, <1>6

LEMMA StatesNext == BaseInv /\ StatesInv /\ [Next]_vars => StatesInv'
<1> SUFFICES ASSUME BaseInv, StatesInv, [Next]_vars,
                    NEW c \in Client, NEW s \in Sid, Current(c)'
             PROVE  StateInv(c, s)'
  BY DEF StatesInv
<1>1. Current(c) => StateInv(c, s)
  BY DEF StatesInv
<1>2. ASSUME NEW s0 \in Sid, Process(s0) PROVE StateInv(c, s)'
  <2>1. PICK e : Happens(s0, e)
    BY <1>2, ProcessHappens
  <2>2. Current(c)
    BY <2>1, HappensFacts
  <2> QED
    BY <1>1, <2>1, <2>2, StateProcess
<1>3. ASSUME NEW hint \in {NoSid} \union {r \in Sid : Exists(r)}, Register(hint)
      PROVE  StateInv(c, s)'
  <2>1. c = inst'.client /\ pc[c] = "none" /\ heard' = {} /\ stream' = stream
    BY <1>3, RegisterEffect DEF Current
  <2>2. stream'[c] = <<>>
    BY <2>1, BaseShape DEF Before
  <2> QED
    BY <2>1, <2>2, EmptySeq, NothingSaid
<1>4. ASSUME NEW h \in handler, Registered(h) PROVE StateInv(c, s)'
  <2>1. /\ Current(c) /\ inst # NoInstance /\ inst'.sessions = inst.sessions
        /\ Knows(inst', s) <=> Knows(inst, s)
    BY <1>4, RegisteredEffect DEF Current
  <2>2. UNCHANGED <<process, pc, stream, answer, heard>>
    BY <1>4 DEF Registered, history
  <2>3. /\ Shown(c, s)' = Shown(c, s)
        /\ \A d \in Client \ {c} : NothingOf(d, s) => NothingOf(d, s)'
    BY <2>1, <2>2 DEF Shown, NothingOf
  <2> QED
    BY <1>1, <2>1, <2>2, <2>3, StateFrame
<1>5. CASE Remove
  BY <1>5 DEF Remove, Current
<1>6. ASSUME NEW d \in Client, ClientStep(d) PROVE StateInv(c, s)'
  <2>1. Current(c)
    <3>1. CASE Get(d) \/ Connect(d) \/ Reconcile(d) \/ StreamEnds(d) \/ Stop(d)
      BY <3>1 DEF Get, Connect, Reconcile, StreamEnds, Stop, Current
    <3>2. CASE StoreOne(d)
      BY <3>2, StoreOneStores DEF StoresOne, Touched, Current
    <3>3. CASE HandleEvent(d)
      BY <3>3, HandleEventHandles DEF Applies, Asks, Touched, Current
    <3> QED
      BY <1>6, <3>1, <3>2, <3>3 DEF ClientStep
  <2>2. CASE d = c
    <3>1. CASE Get(c) \/ Connect(c) \/ Reconcile(c) \/ StreamEnds(c) \/ Stop(c)
      BY <1>1, <2>1, <3>1, StateOwnQuiet
    <3>2. CASE StoreOne(c)
      BY <1>1, <2>1, <3>2, StoreOneStores, StateOwnStore
    <3>3. CASE HandleEvent(c)
      BY <1>1, <2>1, <3>3, HandleEventHandles, StateOwnHandle
    <3> QED
      BY <1>6, <2>2, <3>1, <3>2, <3>3 DEF ClientStep
  <2>3. CASE d # c
    BY <1>1, <1>6, <2>1, <2>3, StateOtherStep
  <2> QED
    BY <2>2, <2>3
<1>7. CASE UNCHANGED vars
  <2>1. UNCHANGED <<process, inst, pc, stream, answer, heard>>
    BY <1>7 DEF vars, history
  <2>2. /\ Current(c) /\ Shown(c, s)' = Shown(c, s)
        /\ \A d \in Client \ {c} : NothingOf(d, s) => NothingOf(d, s)'
        /\ Knows(inst', s) <=> Knows(inst, s)
    BY <2>1 DEF Shown, NothingOf, Knows, Current
  <2> QED
    BY <1>1, <2>1, <2>2, StateFrame
<1> QED
  BY <1>2, <1>3, <1>4, <1>5, <1>6, <1>7 DEF Next

\* When all events are handled, a session whose state the client has heard and
\* understood on this connection is stored with the state it has (handleEvent,
\* refreshSessionStatus, mapOpenCodeStatus).
THEOREM HeardStateIsShown == Spec => []StateShown
<1> DEFINE Inv == BaseInv /\ StatesInv
<1>1. Init => Inv
  BY InitBase DEF Init, StatesInv, Current
<1>2. Inv /\ [Next]_vars => Inv'
  BY NextBase, StatesNext
<1>3. Inv => StateShown
  <2> SUFFICES ASSUME BaseInv, StatesInv, Drained, NEW s \in heard, Exists(s)
               PROVE  inst.sessions[s].state = Truth(s)
    BY DEF StateShown
  <2> DEFINE c == inst.client
  <2>1. /\ c \in Client /\ Current(c) /\ pc[c] = "read" /\ stream[c] = <<>>
        /\ s \in Sid
    BY DEF Drained, BaseInv, ServerType, Fits, InstanceType, Current
  <2>2. StateInv(c, s) /\ ~Has(stream[c], s, Turning)
    BY <2>1, EmptySeq DEF StatesInv, Has
  <2>3. Shown(c, s) = inst.sessions[s].state
    BY <2>1 DEF Shown
  <2> QED
    BY <2>2, <2>3 DEF StateInv
<1> HIDE DEF Inv
<1> QED
  BY <1>1, <1>2, <1>3, PTL DEF Spec

-----------------------------------------------------------------------------
(* The titles of the sessions, and which there are.                        *)

\* The shape of the goal, step by step.
LEMMA TitleFrom ==
  ASSUME NEW c \in Client, NEW s \in Sid, UNCHANGED process,
         \A e \in EventType : LastOf(stream'[c], s, Titling, e) =>
           e.title = title[s],
         listed' /\ s \notin untold' \union foreign' /\ Exists(s) =>
           \/ Has(stream'[c], s, Titling)
           \/ Listing(c, s)' /\ answer'[c][s] = title[s]
           \/ /\ ~Listing(c, s)'
              /\ Knows(inst', s) /\ inst'.sessions[s].title = title[s],
         s \notin untold' \union foreign' /\ real[s] = "deleted" =>
           \/ Has(stream'[c], s, {"deleted"})
           \/ /\ ~Knows(inst', s) /\ ~Listing(c, s)'
              /\ ~Has(stream'[c], s, Titling)
  PROVE  TitleInv(c, s)'
<1>1. /\ Exists(s)' <=> Exists(s)
      /\ real' = real /\ title' = title
  BY DEF Exists, process
<1>2. /\ \A kinds : Has(stream[c], s, kinds)' <=> Has(stream'[c], s, kinds)
      /\ \A kinds, e : LastOf(stream[c], s, kinds, e)' <=>
                         LastOf(stream'[c], s, kinds, e)
      /\ Knows(inst, s)' <=> Knows(inst', s)
  BY DEF Has, LastOf, About, Knows
<1> QED
  BY <1>1, <1>2 DEF TitleInv

\* Where the stream, the instance and the list stay, all does.
LEMMA TitleFrame ==
  ASSUME NEW c \in Client, NEW s \in Sid, TitleInv(c, s),
         UNCHANGED process, stream'[c] = stream[c],
         s \in untold \union foreign => s \in untold' \union foreign',
         \/ s \in foreign'
         \/ /\ listed' => listed
            /\ Knows(inst', s) <=> Knows(inst, s)
            /\ Knows(inst, s) =>
                 inst'.sessions[s].title = inst.sessions[s].title
            /\ Listing(c, s)' <=> Listing(c, s)
            /\ Listing(c, s) => answer'[c][s] = answer[c][s]
  PROVE  TitleInv(c, s)'
<1>1. \A e \in EventType : LastOf(stream'[c], s, Titling, e) =>
        e.title = title[s]
  BY DEF TitleInv
<1>2. listed' /\ s \notin untold' \union foreign' /\ Exists(s) =>
        \/ Has(stream'[c], s, Titling)
        \/ Listing(c, s)' /\ answer'[c][s] = title[s]
        \/ /\ ~Listing(c, s)'
           /\ Knows(inst', s) /\ inst'.sessions[s].title = title[s]
  BY DEF TitleInv
<1>3. s \notin untold' \union foreign' /\ real[s] = "deleted" =>
        \/ Has(stream'[c], s, {"deleted"})
        \/ /\ ~Knows(inst', s) /\ ~Listing(c, s)'
           /\ ~Has(stream'[c], s, Titling)
  BY DEF TitleInv
<1> QED
  BY <1>1, <1>2, <1>3, TitleFrom

\* There is no stream, and no list that has been asked for on it.
LEMMA NoneTitled ==
  ASSUME NEW c \in Client, NEW s \in Sid, UNCHANGED process,
         \A k \in DOMAIN stream'[c] : stream'[c][k].sid # s, ~listed',
         s \notin untold' \union foreign' /\ real[s] = "deleted" =>
           ~Knows(inst', s) /\ ~Listing(c, s)'
  PROVE  TitleInv(c, s)'
<1>1. /\ \A kinds : ~Has(stream'[c], s, kinds)
      /\ \A kinds, e : ~LastOf(stream'[c], s, kinds, e)
  BY DEF Has, LastOf, About
<1> QED
  BY <1>1, TitleFrom

LEMMA TitleProcess ==
  ASSUME BaseInv, NEW s0 \in Sid, NEW e, Happens(s0, e),
         NEW c \in Client, NEW s \in Sid, Current(c), TitleInv(c, s)
  PROVE  TitleInv(c, s)'
<1>1. /\ e \in EventType /\ e.sid = s0 /\ e.kind # "connected"
      /\ UNCHANGED <<inst, row, handler, pc, cancelled, answer, heard, listed,
                     foreign>>
      /\ \A d \in Client : stream'[d] = IF Open(d) THEN Append(stream[d], e)
                                                   ELSE stream[d]
      /\ untold' = IF e.kind = "deleted" /\ ~Told THEN untold \union {s0}
                                                  ELSE untold
      /\ \A r \in Sid \ {s0} : real'[r] = real[r] /\ title'[r] = title[r]
      /\ IF e.kind = "created" THEN real[s0] = "none" ELSE Exists(s0)
      /\ e.kind \in Telling => real'[s0] = Tells(e)
      /\ e.kind \in {"updated", "part"} => real'[s0] = real[s0]
      /\ e.kind = "deleted" => real'[s0] = "deleted"
      /\ IF e.kind \in Titling THEN e.title = title'[s0]
                               ELSE title'[s0] = title[s0]
  BY DEF Happens, server
<1>2. /\ real[s0] # "deleted"
      /\ e.kind # "deleted" => real'[s0] # "deleted"
  <2>1. real[s0] # "deleted"
    BY HappensFacts
  <2>2. e.kind \in Telling => Tells(e) # "deleted"
    BY DEF Telling, Turning, Tells
  <2> QED
    BY <1>1, <2>1, <2>2 DEF EventType, StatusKind, Telling, Turning
<1>3. /\ Knows(inst, s)' <=> Knows(inst, s)
      /\ Listing(c, s)' <=> Listing(c, s)
      /\ \A kinds : Has(stream[c], s, kinds)' <=> Has(stream'[c], s, kinds)
      /\ \A kinds, f : LastOf(stream[c], s, kinds, f)' <=>
                         LastOf(stream'[c], s, kinds, f)
  BY <1>1 DEF Knows, Listing, Has, LastOf, About
<1>4. CASE pc[c] \in Before
  <2>1. stream'[c] = <<>> /\ stream[c] = <<>> /\ ~listed
    BY <1>1, <1>4, BaseShape, OneClient DEF BaseInv
  <2>2. ~Told
    BY <1>4, OneClient DEF BaseInv, Told
  <2>3. /\ \A kinds : ~Has(<<>>, s, kinds)
        /\ \A kinds, f : ~LastOf(<<>>, s, kinds, f)
    BY EmptySeq DEF Has, LastOf
  <2>4. s \notin untold' \union foreign /\ real'[s] = "deleted" =>
          s \notin untold \union foreign /\ real[s] = "deleted"
    BY <1>1, <1>2, <2>2
  <2> QED
    BY <1>1, <1>3, <2>1, <2>3, <2>4 DEF TitleInv
<1>5. CASE pc[c] \notin Before
  <2>1. stream'[c] = Append(stream[c], e) /\ stream[c] \in Seq(EventType)
    BY <1>1, <1>5, OneClient DEF BaseInv, StreamInv
  <2>2. /\ \A kinds : Has(stream'[c], s, kinds) <=>
                        Has(stream[c], s, kinds) \/ About(e, s, kinds)
        /\ \A kinds, f : LastOf(stream'[c], s, kinds, f) =>
             \/ f = e /\ About(e, s, kinds)
             \/ ~About(e, s, kinds) /\ LastOf(stream[c], s, kinds, f)
    BY <1>1, <2>1, AppendEffect
  <2>3. s \in untold \union foreign => s \in untold' \union foreign'
    BY <1>1
  <2>4. CASE s # s0
    <3>1. \A kinds : ~About(e, s, kinds)
      BY <1>1, <2>4 DEF About
    <3>2. real'[s] = real[s] /\ title'[s] = title[s]
      BY <1>1, <2>4
    <3>3. Exists(s)' <=> Exists(s)
      BY <3>2 DEF Exists
    <3> QED
      BY <1>1, <1>3, <2>2, <2>3, <3>1, <3>2, <3>3 DEF TitleInv
  <2>5. CASE s = s0
    <3>1. ASSUME NEW f \in EventType, LastOf(stream'[c], s, Titling, f)
          PROVE  f.title = title'[s]
      <4>1. CASE f = e /\ About(e, s, Titling)
        BY <1>1, <2>5, <4>1 DEF About
      <4>2. CASE ~About(e, s, Titling) /\ LastOf(stream[c], s, Titling, f)
        BY <1>1, <2>5, <3>1, <4>2 DEF About, TitleInv
      <4> QED
        BY <2>2, <3>1, <4>1, <4>2
    <3>2. ASSUME listed, s \notin untold' \union foreign, Exists(s)'
          PROVE  \/ Has(stream'[c], s, Titling)
                 \/ Listing(c, s) /\ answer[c][s] = title'[s]
                 \/ /\ ~Listing(c, s)
                    /\ Knows(inst, s) /\ inst.sessions[s].title = title'[s]
      <4>1. CASE e.kind \in Titling
        BY <1>1, <2>2, <2>5, <4>1 DEF About
      <4>2. CASE e.kind \notin Titling
        <5>1. Exists(s) /\ title'[s] = title[s] /\ s \notin untold \union foreign
          BY <1>1, <2>3, <2>5, <3>2, <4>2 DEF Titling
        <5> QED
          BY <2>2, <3>2, <5>1 DEF TitleInv
      <4> QED
        BY <4>1, <4>2
    <3>3. real'[s] = "deleted" => Has(stream'[c], s, {"deleted"})
      BY <1>1, <1>2, <2>2, <2>5 DEF About
    <3> QED
      BY <1>1, <1>3, <3>1, <3>2, <3>3 DEF TitleInv
  <2> QED
    BY <2>4, <2>5
<1> QED
  BY <1>4, <1>5

\* A step of another client.
LEMMA TitleOtherStep ==
  ASSUME BaseInv, NEW d \in Client, ClientStep(d),
         NEW c \in Client \ {d}, Current(c), NEW s \in Sid, TitleInv(c, s)
  PROVE  TitleInv(c, s)'
<1>1. /\ ~Current(d) /\ pc \in [Client -> PC] /\ DOMAIN stream = Client
      /\ cancelled[d] \/ pc[d] = "none"
  BY OneClient, BaseShape DEF BaseInv, ClientInv
<1>2. ASSUME UNCHANGED <<process, listed>>, untold \subseteq untold',
             foreign \subseteq foreign',
             stream'[c] = stream[c], answer'[c] = answer[c], pc'[c] = pc[c],
             \/ s \in foreign'
             \/ /\ Knows(inst', s) <=> Knows(inst, s)
                /\ Knows(inst, s) => inst'.sessions[s] = inst.sessions[s]
      PROVE  TitleInv(c, s)'
  <2>1. Listing(c, s)' <=> Listing(c, s)
    BY <1>2 DEF Listing
  <2> QED
    BY <1>2, <2>1, TitleFrame
<1>3. CASE Get(d)
  <2>1. GetFails(d)
    BY <1>1, <1>3 DEF Get, GetInitial, GetSessions, GetStatus, Receive
  <2>2. UNCHANGED <<process, inst, stream, answer, listed, untold, foreign>>
    BY <1>3, <2>1 DEF Get, GetFails
  <2>3. pc'[c] = pc[c]
    BY <1>1, <2>1 DEF GetFails, Proceed, Goto
  <2> QED
    BY <1>2, <2>2, <2>3
<1>4. CASE StoreOne(d)
  <2>1. PICK s0, m : StoresOne(d, s0, m)
    BY <1>4, StoreOneStores
  <2>2. /\ Touched(inst, inst', s0) /\ foreign' = foreign \union {s0}
        /\ pc'[c] = pc[c] /\ answer'[c] = answer[c]
        /\ UNCHANGED <<process, stream, listed, untold>>
    BY <1>1, <2>1 DEF StoresOne, Blur
  <2>3. s # s0 => /\ Knows(inst', s) <=> Knows(inst, s)
                  /\ Knows(inst, s) => inst'.sessions[s] = inst.sessions[s]
    BY <2>2 DEF Touched, Knows
  <2> QED
    BY <1>2, <2>2, <2>3
<1>5. CASE HandleEvent(d)
  <2>1. PICK e : Applies(d, e) \/ Asks(d, e)
    BY <1>5, HandleEventHandles
  <2>2. /\ stream'[c] = stream[c] /\ pc'[c] = pc[c]
        /\ UNCHANGED <<process, answer, listed, untold>>
    BY <1>1, <2>1 DEF Applies, Asks, Handles
  <2>3. CASE Asks(d, e)
    BY <1>2, <2>2, <2>3 DEF Asks
  <2>4. CASE Applies(d, e)
    <3>1. Touched(inst, inst', e.sid) /\ foreign' = foreign \union {e.sid}
      BY <1>1, <2>4 DEF Applies, Hear, Blur
    <3>2. s # e.sid => /\ Knows(inst', s) <=> Knows(inst, s)
                       /\ Knows(inst, s) => inst'.sessions[s] = inst.sessions[s]
      BY <3>1 DEF Touched, Knows
    <3> QED
      BY <1>2, <2>2, <3>1, <3>2
  <2> QED
    BY <2>1, <2>3, <2>4
<1>6. CASE Connect(d) \/ Reconcile(d) \/ Stop(d)
  <2>1. /\ UNCHANGED <<process, inst, answer, listed, untold, foreign>>
        /\ stream'[c] = stream[c] /\ pc'[c] = pc[c]
    BY <1>1, <1>6 DEF Connect, Reconcile, Stop, Goto, history
  <2> QED
    BY <1>2, <2>1
<1>7. CASE StreamEnds(d)
  BY <1>1, <1>7 DEF StreamEnds
<1> QED
  BY <1>3, <1>4, <1>5, <1>6, <1>7 DEF ClientStep

\* A step of the client of the instance that is not about an event.
LEMMA TitleOwnQuiet ==
  ASSUME BaseInv, NEW c \in Client, Current(c), NEW s \in Sid, TitleInv(c, s),
         \/ Get(c) \/ Connect(c) \/ Reconcile(c) \/ StreamEnds(c) \/ Stop(c)
  PROVE  TitleInv(c, s)'
<1>1. /\ pc \in [Client -> PC] /\ DOMAIN stream = Client /\ ~cancelled[c]
      /\ pc[c] \in Before => ~listed /\ stream[c] = <<>>
      /\ pc[c] \notin Storing => DOMAIN answer[c] = {}
  BY BaseShape DEF BaseInv, ClientInv, AnswerInv
<1>2. /\ \A kinds : ~Has(<<>>, s, kinds)
      /\ \A k \in DOMAIN <<>> : <<>>[k].sid # s
  BY EmptySeq DEF Has
<1>3. CASE Get(c)
  <2>1. UNCHANGED <<process, inst, stream, untold, foreign>>
    BY <1>3 DEF Get
  <2>2. Knows(inst', s) <=> Knows(inst, s)
    BY <2>1 DEF Knows
  <2>3. s \in Existing <=> Exists(s)
    BY DEF Existing
  <2>4. CASE pc[c] = "list0"
    <3>1. ~listed' /\ ~listed /\ stream'[c] = <<>> /\ stream[c] = <<>>
      BY <1>1, <1>3, <2>1, <2>4
         DEF Before, Get, GetInitial, GetSessions, GetStatus, GetFails
    <3>2. DOMAIN answer'[c] \subseteq Existing
      <4>1. CASE GetInitial(c)
        <5>1. Receive(c, Titles, "store0")
          BY <4>1 DEF GetInitial
        <5>2. answer'[c] = Titles
          BY <2>4, <5>1, ReceiveEffect DEF Storing
        <5> QED
          BY <5>2, ExistingFacts
      <4>2. CASE GetFails(c)
        BY <1>1, <2>4, <4>2 DEF GetFails, Storing
      <4> QED
        BY <1>3, <2>4, <4>1, <4>2 DEF Get, GetSessions, GetStatus
    <3>3. s \notin untold' \union foreign' /\ real[s] = "deleted" =>
            ~Knows(inst', s) /\ ~Listing(c, s)'
      BY <1>2, <2>1, <2>2, <2>3, <3>1, <3>2 DEF TitleInv, Listing, Exists
    <3> QED
      BY <1>2, <2>1, <3>1, <3>3, NoneTitled
  <2>5. CASE GetFails(c) /\ pc[c] # "list0"
    <3>1. /\ UNCHANGED <<answer, listed>> /\ pc[c] \in {"list", "status"}
      BY <2>5 DEF GetFails
    <3>2. DOMAIN answer[c] = {} /\ DOMAIN answer'[c] = {}
      BY <1>1, <3>1 DEF Storing
    <3>3. ~Listing(c, s) /\ ~Listing(c, s)'
      BY <3>2 DEF Listing
    <3> QED
      BY <2>1, <2>2, <3>1, <3>3, TitleFrame
  <2>6. CASE GetSessions(c)
    <3>1. Receive(c, Titles, "store") /\ pc[c] = "list"
      BY <2>6 DEF GetSessions
    <3>2. /\ answer'[c] = Titles
          /\ \/ pc'[c] = "store"
             \/ pc'[c] = "publish" /\ DOMAIN Titles = {}
      BY <1>1, <3>1, ReceiveEffect DEF Storing
    <3>3. Exists(s) => Listing(c, s)' /\ answer'[c][s] = title[s]
      BY <2>3, <3>2, ExistingFacts DEF Listing
    <3>4. ~Exists(s) => ~Listing(c, s)'
      BY <2>3, <3>2, ExistingFacts DEF Listing
    <3>5. s \notin untold' \union foreign' /\ real[s] = "deleted" =>
            \/ Has(stream'[c], s, {"deleted"})
            \/ /\ ~Knows(inst', s) /\ ~Listing(c, s)'
               /\ ~Has(stream'[c], s, Titling)
      BY <2>1, <2>2, <3>4 DEF TitleInv, Exists
    <3>6. \A e \in EventType : LastOf(stream'[c], s, Titling, e) =>
            e.title = title[s]
      BY <2>1 DEF TitleInv
    <3> QED
      BY <2>1, <3>3, <3>5, <3>6, TitleFrom
  <2>7. CASE GetStatus(c)
    <3>1. /\ pc[c] = "status" /\ listed' = listed
          /\ \E f : Receive(c, f, "apply")
      BY <2>7 DEF GetStatus
    <3>2. pc'[c] \in {"apply", "publish"}
      BY <1>1, <3>1, ReceiveEffect DEF Storing
    <3>3. ~Listing(c, s) /\ ~Listing(c, s)'
      BY <3>1, <3>2 DEF Listing
    <3> QED
      BY <2>1, <2>2, <3>1, <3>3, TitleFrame
  <2> QED
    BY <1>3, <2>4, <2>5, <2>6, <2>7 DEF Get, GetInitial
<1>4. CASE Connect(c)
  <2>1. /\ stream'[c] = <<Event("connected", NoSid, 0)>> /\ ~listed'
        /\ stream[c] = <<>> /\ pc'[c] = "read" /\ UNCHANGED process
        /\ inst' = inst /\ untold' = untold /\ foreign' = foreign
    BY <1>1, <1>4 DEF Connect, Goto, history, Before
  <2>2. \A k \in DOMAIN stream'[c] : stream'[c][k] = Event("connected", NoSid, 0)
    BY <2>1
  <2>3. \A k \in DOMAIN stream'[c] : stream'[c][k].sid # s
    BY <2>2, NothingAssumption DEF Event
  <2>4. s \notin untold' \union foreign' /\ real[s] = "deleted" =>
          ~Knows(inst', s) /\ ~Listing(c, s)'
    BY <1>2, <2>1 DEF TitleInv, Listing, Knows
  <2> QED
    BY <2>1, <2>3, <2>4, NoneTitled
<1>5. CASE Reconcile(c)
  <2>1. /\ UNCHANGED <<process, inst, stream, answer, listed, untold, foreign>>
        /\ pc[c] = "publish" /\ pc' = [pc EXCEPT ![c] = "read"]
    BY <1>5 DEF Reconcile, Goto, history
  <2>2. /\ ~Listing(c, s) /\ ~Listing(c, s)'
        /\ Knows(inst', s) <=> Knows(inst, s)
    BY <1>1, <2>1 DEF Listing, Knows
  <2> QED
    BY <2>1, <2>2, TitleFrame
<1>6. CASE StreamEnds(c)
  <2>1. /\ stream'[c] = <<>> /\ ~listed' /\ pc'[c] = "connect"
        /\ UNCHANGED <<process, inst, foreign>>
        /\ untold' = untold \union
                       {r \in Sid : real[r] = "deleted" /\ Knows(inst, r)}
    BY <1>1, <1>6 DEF StreamEnds, Goto
  <2>2. s \notin untold' \union foreign' /\ real[s] = "deleted" =>
          ~Knows(inst', s) /\ ~Listing(c, s)'
    BY <2>1 DEF Listing, Knows
  <2> QED
    BY <1>2, <2>1, <2>2, NoneTitled
<1>7. CASE Stop(c)
  BY <1>1, <1>7 DEF Stop
<1> QED
  BY <1>3, <1>4, <1>5, <1>6, <1>7

LEMMA TitleOwnStore ==
  ASSUME BaseInv, NEW c \in Client, Current(c), NEW s \in Sid, TitleInv(c, s),
         NEW s0, NEW m, StoresOne(c, s0, m)
  PROVE  TitleInv(c, s)'
<1>1. /\ s0 \in DOMAIN answer[c] /\ pc[c] \in Storing
      /\ Touched(inst, inst', s0) /\ UNCHANGED <<process, stream, listed, untold>>
      /\ DOMAIN answer'[c] = DOMAIN answer[c] \ {s0}
      /\ \A r \in DOMAIN answer'[c] : answer'[c][r] = answer[c][r]
      /\ pc' = [pc EXCEPT ![c] = m] /\ inst # NoInstance /\ foreign' = foreign
      /\ \/ m = pc[c]
         \/ /\ m = IF pc[c] = "store0" THEN "connect" ELSE "publish"
            /\ DOMAIN answer'[c] = {}
  BY DEF StoresOne, Current, Blur
<1>2. /\ pc'[c] = m /\ s0 \in Sid
      /\ pc[c] # "apply" => answer[c][s0] \in 0 .. title[s0]
  BY <1>1, BaseShape DEF BaseInv, AnswerInv
<1>3. CASE pc[c] = "apply"
  <2>1. ~Listing(c, s) /\ ~Listing(c, s)'
    BY <1>1, <1>2, <1>3 DEF Listing
  <2>2. /\ Knows(inst', s) <=> Knows(inst, s)
        /\ Knows(inst, s) => inst'.sessions[s].title = inst.sessions[s].title
    <3>1. CASE s = s0
      BY <1>3, <3>1 DEF StoresOne
    <3>2. CASE s # s0
      BY <1>1, <3>2 DEF Touched
    <3> QED
      BY <3>1, <3>2
  <2> QED
    BY <1>1, <2>1, <2>2, TitleFrame
<1>4. CASE pc[c] # "apply" /\ s # s0
  <2>1. /\ Knows(inst', s) <=> Knows(inst, s)
        /\ inst'.sessions[s] = inst.sessions[s]
    BY <1>1, <1>4 DEF Touched
  <2>2. /\ Listing(c, s)' <=> Listing(c, s)
        /\ Listing(c, s) => answer'[c][s] = answer[c][s]
    BY <1>1, <1>2, <1>4 DEF Listing, Storing
  <2> QED
    BY <1>1, <2>1, <2>2, TitleFrame
<1>5. CASE pc[c] # "apply" /\ s = s0
  <2>1. Listing(c, s) /\ ~Listing(c, s)'
    BY <1>1, <1>5 DEF Listing, Storing
  <2>2. /\ Knows(inst', s)
        /\ inst'.sessions[s].title =
             IF Knows(inst, s) /\ answer[c][s] = 0 THEN inst.sessions[s].title
                                                   ELSE answer[c][s]
    BY <1>1, <1>5 DEF StoresOne
  <2>3. Knows(inst, s) => inst.sessions[s].title \in 0 .. title[s]
    <3>1. Knows(inst, s) => /\ inst.sessions[s] \in Session
                            /\ inst.sessions[s].title <= title[s]
      BY KnownSession DEF BaseInv, ServerType, KnownInv
    <3>2. title[s] \in Nat /\ MaxTitle \in Nat
      BY ConstantFacts DEF BaseInv, ProcessType
    <3> QED
      BY <3>1, <3>2 DEF Session
  <2>4. answer[c][s] = title[s] => inst'.sessions[s].title = title[s]
    BY <1>2, <1>5, <2>2, <2>3
  <2>5. listed' /\ s \notin untold' \union foreign' /\ Exists(s) =>
          \/ Has(stream'[c], s, Titling)
          \/ Knows(inst', s) /\ inst'.sessions[s].title = title[s]
    BY <1>1, <2>1, <2>2, <2>4 DEF TitleInv
  <2>6. s \notin untold' \union foreign' /\ real[s] = "deleted" =>
          Has(stream'[c], s, {"deleted"})
    BY <1>1, <2>1 DEF TitleInv
  <2>7. \A e \in EventType : LastOf(stream'[c], s, Titling, e) =>
          e.title = title[s]
    BY <1>1 DEF TitleInv
  <2> QED
    BY <1>1, <2>1, <2>5, <2>6, <2>7, TitleFrom
<1> QED
  BY <1>3, <1>4, <1>5

LEMMA TitleOwnHandle ==
  ASSUME BaseInv, NEW c \in Client, Current(c), NEW s \in Sid, TitleInv(c, s),
         NEW e, Applies(c, e) \/ Asks(c, e)
  PROVE  TitleInv(c, s)'
<1>1. /\ pc[c] = "read" /\ stream[c] # <<>> /\ e = Head(stream[c])
      /\ e \in EventType /\ Said(e)
      /\ stream'[c] = Tail(stream[c])
      /\ UNCHANGED <<process, answer, listed, untold>>
      /\ stream[c] \in Seq(EventType) /\ InOrder(stream[c], s)
  BY DEF Applies, Asks, Handles, BaseInv, StreamInv
<1>2. /\ \A kinds : Has(stream[c], s, kinds) <=>
                      Has(stream'[c], s, kinds) \/ About(e, s, kinds)
      /\ \A kinds, f : LastOf(stream'[c], s, kinds, f) =>
                         LastOf(stream[c], s, kinds, f)
      /\ \A kinds : About(e, s, kinds) /\ ~Has(stream'[c], s, kinds) =>
                      LastOf(stream[c], s, kinds, e)
      /\ e.sid = s => \A k \in DOMAIN stream'[c] : stream'[c][k].sid = s =>
                        e.kind # "deleted"
  BY <1>1, TailEffect
<1>3. ~Listing(c, s) /\ ~Listing(c, s)' /\ foreign' = foreign
  <2>1. pc'[c] \in {"publish", "read", "list", "status"}
    BY BaseShape DEF Applies, Asks
  <2>2. foreign' = foreign
    BY DEF Applies, Asks, Hear
  <2> QED
    BY <1>1, <2>1, <2>2 DEF Listing
<1>4. \A f \in EventType : LastOf(stream'[c], s, Titling, f) =>
        f.title = title[s]
  BY <1>2 DEF TitleInv
\* An event that is not about the titles of this session.
<1>5. ASSUME \A kinds \in {Titling, {"deleted"}} : ~About(e, s, kinds),
             Knows(inst', s) <=> Knows(inst, s),
             Knows(inst, s) =>
               inst'.sessions[s].title = inst.sessions[s].title
      PROVE  TitleInv(c, s)'
  <2>1. /\ Has(stream[c], s, Titling) <=> Has(stream'[c], s, Titling)
        /\ Has(stream[c], s, {"deleted"}) <=> Has(stream'[c], s, {"deleted"})
    BY <1>2, <1>5
  <2>2. listed' /\ s \notin untold' \union foreign' /\ Exists(s) =>
          \/ Has(stream'[c], s, Titling)
          \/ Knows(inst', s) /\ inst'.sessions[s].title = title[s]
    BY <1>1, <1>3, <1>5, <2>1 DEF TitleInv
  <2>3. s \notin untold' \union foreign' /\ real[s] = "deleted" =>
          \/ Has(stream'[c], s, {"deleted"})
          \/ ~Knows(inst', s) /\ ~Has(stream'[c], s, Titling)
    BY <1>1, <1>3, <1>5, <2>1 DEF TitleInv
  <2> QED
    BY <1>1, <1>3, <1>4, <2>2, <2>3, TitleFrom
<1>6. CASE e.sid # s
  <2>1. /\ Knows(inst', s) <=> Knows(inst, s)
        /\ Knows(inst, s) => inst'.sessions[s] = inst.sessions[s]
    BY <1>6 DEF Applies, Asks, Touched, Knows
  <2> QED
    BY <1>5, <1>6, <2>1 DEF About
<1>7. CASE e.sid = s /\ Asks(c, e)
  BY <1>5, <1>7, NothingAssumption DEF Asks, About, Titling, Knows
<1>8. CASE e.sid = s /\ Applies(c, e)
  <2>1. /\ e.kind \notin {"connected", "replied"} /\ inst' = After(inst, e)
        /\ inst # NoInstance /\ Fits(inst)
    BY <1>8 DEF Applies, Current, BaseInv, ServerType
  <2>2. /\ e.kind \in Titling =>
             /\ Knows(inst', s)
             /\ inst'.sessions[s].title =
                  IF Knows(inst, s) /\ e.title = 0 THEN inst.sessions[s].title
                                                   ELSE e.title
        /\ e.kind = "deleted" => ~Knows(inst', s)
        /\ e.kind \in {"idle", "busy", "retry", "odd", "asked", "part"} =>
             /\ Knows(inst', s) <=> Knows(inst, s)
             /\ Knows(inst, s) =>
                  inst'.sessions[s].title = inst.sessions[s].title
    BY <1>1, <1>8, <2>1, AfterEffect
  <2>3. CASE e.kind \in Titling
    <3>1. Knows(inst, s) => inst.sessions[s].title \in 0 .. title[s]
      <4>1. Knows(inst, s) => /\ inst.sessions[s] \in Session
                              /\ inst.sessions[s].title <= title[s]
        BY <2>1, KnownSession DEF BaseInv, KnownInv
      <4>2. title[s] \in Nat /\ MaxTitle \in Nat
        BY ConstantFacts DEF BaseInv, ProcessType
      <4> QED
        BY <4>1, <4>2 DEF Session
    <3>2. Has(stream[c], s, Titling)
      BY <1>2, <1>8, <2>3 DEF About
    <3>3. ~Has(stream'[c], s, Titling) => inst'.sessions[s].title = title[s]
      <4> SUFFICES ASSUME ~Has(stream'[c], s, Titling)
                   PROVE  inst'.sessions[s].title = title[s]
        OBVIOUS
      <4>1. LastOf(stream[c], s, Titling, e)
        BY <1>2, <1>8, <2>3 DEF About
      <4>2. e.title = title[s]
        BY <1>1, <4>1 DEF TitleInv
      <4> QED
        BY <2>2, <2>3, <3>1, <4>2
    <3>4. real[s] = "deleted" /\ s \notin untold' \union foreign' =>
            Has(stream'[c], s, {"deleted"})
      <4>1. ~About(e, s, {"deleted"})
        BY <2>3 DEF About, Titling
      <4> QED
        BY <1>1, <1>2, <1>3, <3>2, <4>1 DEF TitleInv
    <3> QED
      BY <1>1, <1>3, <1>4, <2>2, <2>3, <3>3, <3>4, TitleFrom
  <2>4. CASE e.kind = "deleted"
    <3>1. ~Has(stream'[c], s, Titling) /\ ~Knows(inst', s)
      BY <1>2, <1>8, <2>2, <2>4 DEF Has, About
    <3>2. ~Exists(s)
      BY <1>1, <1>8, <2>4 DEF Said, Exists
    <3> QED
      BY <1>1, <1>3, <1>4, <3>1, <3>2, TitleFrom
  <2>5. CASE e.kind \in {"idle", "busy", "retry", "odd", "asked", "part"}
    BY <1>5, <2>2, <2>5 DEF About, Titling
  <2> QED
    BY <1>1, <2>1, <2>3, <2>4, <2>5 DEF EventType, StatusKind, Titling
<1> QED
  BY <1>6, <1>7, <1>8

LEMMA TitlesNext == BaseInv /\ TitlesInv /\ [Next]_vars => TitlesInv'
<1> SUFFICES ASSUME BaseInv, TitlesInv, [Next]_vars,
                    NEW c \in Client, NEW s \in Sid, Current(c)'
             PROVE  TitleInv(c, s)'
  BY DEF TitlesInv
<1>1. Current(c) => TitleInv(c, s)
  BY DEF TitlesInv
<1>2. ASSUME NEW s0 \in Sid, Process(s0) PROVE TitleInv(c, s)'
  <2>1. PICK e : Happens(s0, e)
    BY <1>2, ProcessHappens
  <2>2. Current(c)
    BY <2>1, HappensFacts
  <2> QED
    BY <1>1, <2>1, <2>2, TitleProcess
<1>3. ASSUME NEW hint \in {NoSid} \union {r \in Sid : Exists(r)}, Register(hint)
      PROVE  TitleInv(c, s)'
  <2>1. /\ c = inst'.client /\ pc[c] = "none" /\ listed' = FALSE
        /\ pc' = [pc EXCEPT ![c] = "list0"] /\ ~Knows(inst', s)
        /\ UNCHANGED <<process, stream>>
    BY <1>3, RegisterEffect DEF Current
  <2>2. stream'[c] = <<>> /\ pc'[c] = "list0"
    BY <2>1, BaseShape DEF Before
  <2>3. ~Listing(c, s)'
    BY <2>2 DEF Listing
  <2>4. \A k \in DOMAIN stream'[c] : stream'[c][k].sid # s
    BY <2>2, EmptySeq
  <2> QED
    BY <2>1, <2>3, <2>4, NoneTitled
<1>4. ASSUME NEW h \in handler, Registered(h) PROVE TitleInv(c, s)'
  <2>1. /\ Current(c) /\ inst # NoInstance /\ inst'.sessions = inst.sessions
        /\ Knows(inst', s) <=> Knows(inst, s)
    BY <1>4, RegisteredEffect DEF Current
  <2>2. UNCHANGED <<process, pc, stream, answer, listed, untold, foreign>>
    BY <1>4 DEF Registered, history
  <2>3. Listing(c, s)' <=> Listing(c, s)
    BY <2>2 DEF Listing
  <2> QED
    BY <1>1, <2>1, <2>2, <2>3, TitleFrame
<1>5. CASE Remove
  BY <1>5 DEF Remove, Current
<1>6. ASSUME NEW d \in Client, ClientStep(d) PROVE TitleInv(c, s)'
  <2>1. Current(c)
    <3>1. CASE Get(d) \/ Connect(d) \/ Reconcile(d) \/ StreamEnds(d) \/ Stop(d)
      BY <3>1 DEF Get, Connect, Reconcile, StreamEnds, Stop, Current
    <3>2. CASE StoreOne(d)
      BY <3>2, StoreOneStores DEF StoresOne, Touched, Current
    <3>3. CASE HandleEvent(d)
      BY <3>3, HandleEventHandles DEF Applies, Asks, Touched, Current
    <3> QED
      BY <1>6, <3>1, <3>2, <3>3 DEF ClientStep
  <2>2. CASE d = c
    <3>1. CASE Get(c) \/ Connect(c) \/ Reconcile(c) \/ StreamEnds(c) \/ Stop(c)
      BY <1>1, <2>1, <3>1, TitleOwnQuiet
    <3>2. CASE StoreOne(c)
      BY <1>1, <2>1, <3>2, StoreOneStores, TitleOwnStore
    <3>3. CASE HandleEvent(c)
      BY <1>1, <2>1, <3>3, HandleEventHandles, TitleOwnHandle
    <3> QED
      BY <1>6, <2>2, <3>1, <3>2, <3>3 DEF ClientStep
  <2>3. CASE d # c
    BY <1>1, <1>6, <2>1, <2>3, TitleOtherStep
  <2> QED
    BY <2>2, <2>3
<1>7. CASE UNCHANGED vars
  <2>1. UNCHANGED <<process, inst, pc, stream, answer, listed, untold, foreign>>
    BY <1>7 DEF vars, history
  <2>2. /\ Current(c)
        /\ Listing(c, s)' <=> Listing(c, s)
        /\ Knows(inst', s) <=> Knows(inst, s)
    BY <2>1 DEF Listing, Knows, Current
  <2> QED
    BY <1>1, <2>1, <2>2, TitleFrame
<1> QED
  BY <1>2, <1>3, <1>4, <1>5, <1>6, <1>7 DEF Next

\* When all events are handled and the list of the connection was received,
\* the instance has exactly the sessions of the process, with their last
\* titles: the list is asked for after server.connected, so that what it does
\* not have yet is still to come (handleEvent, fetchSessions).
THEOREM ListedMetadataIsShown == Spec => []MetadataShown
<1> DEFINE Inv == BaseInv /\ TitlesInv
<1>1. Init => Inv
  BY InitBase DEF Init, TitlesInv, Current
<1>2. Inv /\ [Next]_vars => Inv'
  BY NextBase, TitlesNext
<1>3. Inv => MetadataShown
  <2> SUFFICES ASSUME BaseInv, TitlesInv, Drained, listed,
                      NEW s \in Sid \ (untold \union foreign)
               PROVE  /\ Exists(s) <=> Knows(inst, s)
                      /\ Exists(s) => inst.sessions[s].title = title[s]
    BY DEF MetadataShown
  <2> DEFINE c == inst.client
  <2>1. /\ c \in Client /\ Current(c) /\ pc[c] = "read" /\ stream[c] = <<>>
    BY DEF Drained, BaseInv, ServerType, Fits, InstanceType, Current
  <2>2. TitleInv(c, s) /\ \A kinds : ~Has(stream[c], s, kinds)
    BY <2>1, EmptySeq DEF TitlesInv, Has
  <2>3. ~Listing(c, s)
    BY <2>1 DEF Listing
  <2>4. Exists(s) => Knows(inst, s) /\ inst.sessions[s].title = title[s]
    BY <2>2, <2>3 DEF TitleInv
  <2>5. real[s] = "deleted" => ~Knows(inst, s)
    BY <2>2, <2>3 DEF TitleInv
  <2>6. Exists(s) \/ real[s] = "none" \/ real[s] = "deleted"
    BY DEF BaseInv, ProcessType, Exists
  <2> QED
    BY <2>4, <2>5, <2>6 DEF BaseInv, KnownInv
<1> HIDE DEF Inv
<1> QED
  BY <1>1, <1>2, <1>3, PTL DEF Spec

=============================================================================
