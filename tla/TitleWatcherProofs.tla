------------------------- MODULE TitleWatcherProofs -------------------------
(***************************************************************************)
(* Proofs about TitleWatcher, for any number of sessions, lines, titles    *)
(* and restarts, and any size of the watcher's window.                     *)
(*                                                                         *)
(* A title never goes back by the watcher alone: what the watcher is about *)
(* to store is the last title of the transcript, or it will be told of the *)
(* write that made it stale.                                               *)
(***************************************************************************)
EXTENDS TitleWatcher, SequenceTheorems, TLAPS

Title == 0 .. MaxTitle
Event == {"dir", "write"} \X Sid

Queued(e) == \E k \in DOMAIN events : events[k] = e

\* The file system tells of nothing but what is watched.
WatchInv ==
  /\ file \in [Sid -> Seq(Title)] /\ events \in Seq(Event)
  /\ watched # {} => watching
  /\ \A s \in Sid : /\ Queued(<<"dir", s>>) => s \in dirs
                    /\ Queued(<<"write", s>>) => s \in watched
  /\ watcher # Idle => watcher[2] \in watched
  /\ phase = "down" => tracked = {} /\ reader = Idle
  /\ phase = "up" => todo = {}

\* No title comes before it is written; what the watcher has read is the
\* last one, or a later write is queued.
TitleInv ==
  /\ \A s \in Sid : name[s] <= LastTitle(file[s])
  /\ reader[1] = "update" => reader[3] <= LastTitle(file[reader[2]])
  /\ watcher[1] = "update" =>
       \/ watcher[3] = LastTitle(file[watcher[2]])
       \/ /\ watcher[3] < LastTitle(file[watcher[2]])
          /\ Queued(<<"write", watcher[2]>>)

IInv == TypeOK /\ WatchInv /\ TitleInv

-----------------------------------------------------------------------------
(* The last title of a transcript.                                         *)

LEMMA LastIs ==
  ASSUME NEW lines \in Seq(Title), NEW k \in DOMAIN lines, IsLast(lines, k)
  PROVE  LastTitle(lines) = lines[k]
<1>1. DOMAIN lines = 1 .. Len(lines) /\ Len(lines) \in Nat
  BY LenProperties
<1>2. \A j \in DOMAIN lines : IsLast(lines, j) => j = k
  BY <1>1 DEF IsLast
<1>3. (CHOOSE j \in DOMAIN lines : IsLast(lines, j)) = k
  BY <1>2
<1> QED
  BY <1>3 DEF LastTitle

LEMMA LastTitleType ==
  ASSUME NEW lines \in Seq(Title)
  PROVE  LastTitle(lines) \in Title
<1>1. CASE \E k \in DOMAIN lines : IsLast(lines, k)
  <2>1. PICK k \in DOMAIN lines : IsLast(lines, k)
    BY <1>1
  <2>2. lines[k] \in Title
    BY LenProperties, ElementOfSeq
  <2> QED
    BY <2>1, <2>2, LastIs
<1>2. CASE ~\E k \in DOMAIN lines : IsLast(lines, k)
  BY <1>2, BoundAssumption DEF LastTitle, Title
<1> QED
  BY <1>1, <1>2

\* A line without a title leaves it, one with a title is the new one.
LEMMA LastTitleAppend ==
  ASSUME NEW lines \in Seq(Title), NEW x \in Title
  PROVE  LastTitle(Append(lines, x)) = IF x = 0 THEN LastTitle(lines) ELSE x
<1> DEFINE n == Len(lines)
           more == Append(lines, x)
<1>1. DOMAIN lines = 1 .. n /\ n \in Nat
  BY LenProperties
<1>2. /\ more \in Seq(Title) /\ Len(more) = n + 1
      /\ \A i \in 1 .. n : more[i] = lines[i]
      /\ more[n + 1] = x
  BY AppendProperties
<1>3. DOMAIN more = 1 .. n + 1
  BY <1>2, LenProperties
<1> HIDE DEF n, more
<1>4. CASE x # 0
  <2>1. IsLast(more, n + 1)
    BY <1>1, <1>2, <1>3, <1>4 DEF IsLast
  <2>2. n + 1 \in DOMAIN more
    BY <1>1, <1>3
  <2>3. LastTitle(more) = x
    BY <1>2, <2>1, <2>2, LastIs
  <2> QED
    BY <1>4, <2>3 DEF more
<1>5. CASE x = 0
  <2>1. \A k \in DOMAIN lines : IsLast(lines, k) <=> IsLast(more, k)
    BY <1>1, <1>2, <1>3, <1>5 DEF IsLast
  <2>2. ~IsLast(more, n + 1)
    BY <1>2, <1>5 DEF IsLast
  <2>3. CASE \E k \in DOMAIN lines : IsLast(lines, k)
    <3>1. PICK k \in DOMAIN lines : IsLast(lines, k)
      BY <2>3
    <3>2. k \in DOMAIN more /\ IsLast(more, k) /\ more[k] = lines[k]
      BY <1>1, <1>2, <1>3, <2>1, <3>1
    <3>3. LastTitle(lines) = lines[k]
      BY <3>1, LastIs
    <3>4. LastTitle(more) = more[k]
      BY <1>2, <3>2, LastIs
    <3> QED
      BY <1>5, <3>2, <3>3, <3>4 DEF more
  <2>4. CASE ~\E k \in DOMAIN lines : IsLast(lines, k)
    <3>1. ~\E k \in DOMAIN more : IsLast(more, k)
      <4>1. \A k \in DOMAIN more : k = n + 1 \/ k \in DOMAIN lines
        BY <1>1, <1>3
      <4> QED
        BY <2>1, <2>2, <2>4, <4>1
    <3> QED
      BY <1>5, <2>4, <3>1 DEF LastTitle, more
  <2> QED
    BY <2>3, <2>4
<1> QED
  BY <1>4, <1>5

\* The last lines hold the last title, or none.
LEMMA LastTitleOfWindow ==
  ASSUME NEW lines \in Seq(Title)
  PROVE  LastTitle(LastLines(lines)) \in {0, LastTitle(lines)}
<1> DEFINE n == Len(lines)
           from == n - Window
           tail == SubSeq(lines, n - Window + 1, n)
<1>1. DOMAIN lines = 1 .. n /\ n \in Nat /\ Window \in Nat \ {0}
  BY LenProperties, BoundAssumption
<1>2. CASE n <= Window
  BY <1>2 DEF LastLines
<1>3. CASE ~(n <= Window)
  <2>1. from \in Nat /\ from + 1 \in Int /\ n \in Int /\ from + 1 <= n
    BY <1>1, <1>3
  <2>2. \A i \in from + 1 .. n : lines[i] \in Title
    BY <1>1, <2>1, ElementOfSeq
  <2>3. /\ tail \in Seq(Title)
        /\ Len(tail) = IF from + 1 <= n THEN n - (from + 1) + 1 ELSE 0
        /\ \A i \in 1 .. n - (from + 1) + 1 : tail[i] = lines[from + 1 + i - 1]
    BY <2>1, <2>2, SubSeqProperties
  <2>4. LastLines(lines) = tail
    BY <1>3 DEF LastLines
  <2> HIDE DEF n, from, tail
  <2>5. Len(tail) = n - from
    BY <1>1, <2>1, <2>3
  <2>6. DOMAIN tail = 1 .. n - from
    BY <2>3, <2>5, LenProperties
  <2>7. \A i \in 1 .. n - from :
          tail[i] = lines[from + i] /\ from + i \in DOMAIN lines
    BY <1>1, <2>1, <2>3
  <2>8. CASE \E k \in DOMAIN tail : IsLast(tail, k)
    <3>1. PICK k \in DOMAIN tail : IsLast(tail, k)
      BY <2>8
    <3>2. ASSUME NEW j \in DOMAIN lines, j > from + k
          PROVE  lines[j] = 0
      <4>1. j - from \in 1 .. n - from /\ j - from > k /\ from + (j - from) = j
        BY <1>1, <2>1, <2>6, <3>2
      <4>2. tail[j - from] = 0
        BY <2>6, <3>1, <4>1 DEF IsLast
      <4> QED
        BY <2>7, <4>1, <4>2
    <3>3. IsLast(lines, from + k) /\ from + k \in DOMAIN lines
      BY <2>6, <2>7, <3>1, <3>2 DEF IsLast
    <3>4. LastTitle(lines) = lines[from + k]
      BY <3>3, LastIs
    <3>5. LastTitle(tail) = tail[k]
      BY <2>3, <3>1, LastIs
    <3> QED
      BY <2>4, <2>6, <2>7, <3>4, <3>5
  <2>9. CASE ~\E k \in DOMAIN tail : IsLast(tail, k)
    BY <2>4, <2>9 DEF LastTitle
  <2> QED
    BY <2>8, <2>9
<1> QED
  BY <1>2, <1>3

-----------------------------------------------------------------------------
(* What the readers do, and the queue.                                     *)

LEMMA DoingShape ==
  /\ Idle \in Doing /\ Idle[1] = "idle"
  /\ \A a \in {"register", "read"}, s \in Sid :
       /\ <<a, s>> \in Doing /\ <<a, s>>[1] = a /\ <<a, s>>[2] = s
       /\ <<a, s>> # Idle
  /\ \A s \in Sid, t \in 1 .. MaxTitle :
       /\ <<"update", s, t>> \in Doing /\ <<"update", s, t>> # Idle
       /\ <<"update", s, t>>[1] = "update"
       /\ <<"update", s, t>>[2] = s /\ <<"update", s, t>>[3] = t
  /\ \A d \in Doing :
       \/ d = Idle
       \/ d # Idle /\ d[1] \in {"register", "read"} /\ d[2] \in Sid
       \/ /\ d # Idle /\ d[1] = "update" /\ d[2] \in Sid
          /\ d[3] \in 1 .. MaxTitle
BY DEF Doing, Idle

LEMMA Doings ==
  ASSUME NEW d \in Doing
  PROVE  /\ d[1] = "update" => d # Idle /\ d[2] \in Sid /\ d[3] \in 1 .. MaxTitle
         /\ d[1] \in {"register", "read"} => d # Idle /\ d[2] \in Sid
<1>1. \/ d = Idle /\ d[1] = "idle"
      \/ d # Idle /\ d[1] \in {"register", "read"} /\ d[2] \in Sid
      \/ d # Idle /\ d[1] = "update" /\ d[2] \in Sid /\ d[3] \in 1 .. MaxTitle
  BY DoingShape
<1> QED
  BY <1>1

\* The file system tells of something once.
LEMMA TellEffect ==
  ASSUME events \in Seq(Event), NEW e \in Event, Tell(e)
  PROVE  /\ events' \in Seq(Event)
         /\ \A f : Queued(f)' <=> Queued(f) \/ f = e
<1> DEFINE n == Len(events)
<1>1. DOMAIN events = 1 .. n /\ n \in Nat
  BY LenProperties
<1>2. CASE Queued(e)
  BY <1>2 DEF Tell, Queued
<1>3. CASE ~Queued(e)
  <2>1. events' = Append(events, e)
    BY <1>3 DEF Tell, Queued
  <2>2. /\ events' \in Seq(Event) /\ Len(events') = n + 1
        /\ \A i \in 1 .. n : events'[i] = events[i]
        /\ events'[n + 1] = e
    BY <2>1, AppendProperties
  <2>3. DOMAIN events' = 1 .. n + 1
    BY <2>2, LenProperties
  <2> HIDE DEF n
  <2>4. ASSUME NEW f, Queued(f)'
        PROVE  Queued(f) \/ f = e
    <3>1. PICK k \in 1 .. n + 1 : events'[k] = f
      BY <2>3, <2>4 DEF Queued
    <3>2. k = n + 1 \/ k \in 1 .. n
      BY <1>1
    <3> QED
      BY <1>1, <2>2, <3>1, <3>2 DEF Queued
  <2>5. ASSUME NEW f, Queued(f) \/ f = e
        PROVE  Queued(f)'
    <3>1. n + 1 \in 1 .. n + 1 /\ \A k \in 1 .. n : k \in 1 .. n + 1
      BY <1>1
    <3> QED
      BY <1>1, <2>2, <2>3, <2>5, <3>1 DEF Queued
  <2> QED
    BY <2>2, <2>4, <2>5
<1> QED
  BY <1>2, <1>3

\* The watcher takes the first event.
LEMMA TailEffect ==
  ASSUME events \in Seq(Event), events # <<>>, events' = Tail(events)
  PROVE  /\ events' \in Seq(Event)
         /\ Head(events) \in Event /\ Queued(Head(events))
         /\ \A f : Queued(f)' => Queued(f)
         /\ \A f : Queued(f) => Queued(f)' \/ f = Head(events)
<1> DEFINE n == Len(events)
<1>1. DOMAIN events = 1 .. n /\ n \in Nat /\ n # 0
  BY LenProperties, EmptySeq
<1>2. /\ Head(events) \in Event /\ events' \in Seq(Event)
      /\ Len(events') = n - 1
      /\ \A i \in 1 .. Len(events') : events'[i] = events[i + 1]
  BY HeadTailProperties
<1>3. DOMAIN events' = 1 .. n - 1
  BY <1>2, LenProperties
<1>4. Head(events) = events[1]
  OBVIOUS
<1> HIDE DEF n
<1>5. ASSUME NEW f, Queued(f)'
      PROVE  Queued(f)
  <2>1. PICK k \in 1 .. n - 1 : events'[k] = f
    BY <1>3, <1>5 DEF Queued
  <2>2. k + 1 \in 1 .. n /\ events[k + 1] = f
    BY <1>1, <1>2, <2>1
  <2> QED
    BY <1>1, <2>2 DEF Queued
<1>6. ASSUME NEW f, Queued(f), f # Head(events)
      PROVE  Queued(f)'
  <2>1. PICK k \in 1 .. n : events[k] = f
    BY <1>1, <1>6 DEF Queued
  <2>2. k - 1 \in 1 .. n - 1 /\ (k - 1) + 1 = k
    BY <1>1, <1>4, <1>6, <2>1
  <2>3. events'[k - 1] = f
    BY <1>2, <2>1, <2>2
  <2> QED
    BY <1>3, <2>2, <2>3 DEF Queued
<1>7. Queued(Head(events))
  BY <1>1, <1>4 DEF Queued
<1> QED
  BY <1>2, <1>5, <1>6, <1>7

-----------------------------------------------------------------------------
(* The transcripts.                                                        *)

LEMMA InitInv == Init => IInv
<1> SUFFICES ASSUME Init PROVE IInv
  OBVIOUS
<1>1. Zero \in [Sid -> Title] /\ \A s \in Sid : Zero[s] = 0
  BY BoundAssumption DEF Zero, Title
<1>2. /\ \A s \in Sid : file[s] \in Seq(Title) /\ Len(file[s]) = 0
      /\ file \in [Sid -> Seq(Title)] /\ events \in Seq(Event)
      /\ DOMAIN events = {}
  BY EmptySeq, LenProperties DEF Init
<1>3. TypeOK
  <2>1. \A s \in Sid : Len(file[s]) <= MaxLines
    <3>1. 0 <= MaxLines
      BY BoundAssumption
    <3>2. \A s \in Sid : Len(file[s]) = 0
      BY <1>2
    <3> QED
      BY <3>1, <3>2
  <2>2. watchDue \in [Sid -> Title] /\ scanDue \in [Sid -> Title]
    BY <1>1 DEF Init
  <2>3. name \in [Sid -> Title] /\ \A s \in Sid \ tracked : name[s] = 0
    BY <1>1 DEF Init
  <2>4. watcher \in Doing /\ reader \in Doing /\ starts \in 0 .. MaxStarts
    BY DoingShape, BoundAssumption DEF Init
  <2>5. dirs \subseteq Sid /\ watched \subseteq dirs
    BY DEF Init
  <2>6. \A k \in DOMAIN events : events[k] \in {"dir", "write"} \X Sid
    BY <1>2
  <2> QED
    BY <1>2, <2>1, <2>2, <2>3, <2>4, <2>5, <2>6 DEF Init, TypeOK, Title
<1>4. WatchInv
  BY <1>2 DEF Init, WatchInv, Queued
<1>5. TitleInv
  <2>1. \A s \in Sid : LastTitle(file[s]) \in Nat
    <3>1. \A s \in Sid : LastTitle(file[s]) \in Title
      BY <1>2, LastTitleType
    <3>2. Title \subseteq Nat
      BY DEF Title
    <3> QED
      BY <3>1, <3>2
  <2> QED
    BY <1>1, <2>1, DoingShape DEF Init, TitleInv
<1> QED
  BY <1>3, <1>4, <1>5 DEF IInv

\* Facts that every step starts from.
LEMMA TypeFacts ==
  ASSUME IInv
  PROVE  /\ events \in Seq(Event) /\ file \in [Sid -> Seq(Title)]
         /\ \A s \in Sid : /\ file[s] \in Seq(Title)
                           /\ LastTitle(file[s]) \in Title
                           /\ name[s] \in Title
         /\ name \in [Sid -> Title]
         /\ watchDue \in [Sid -> Title] /\ scanDue \in [Sid -> Title]
         /\ Title \subseteq Nat /\ 0 \in Title
         /\ \A t \in 1 .. MaxTitle : t \in Title
BY LastTitleType, BoundAssumption DEF IInv, WatchInv, TypeOK, Title

\* A session's transcript is one of the queue's elements' type.
LEMMA EventsTyped ==
  ASSUME NEW q \in Seq(Event)
  PROVE  \A k \in DOMAIN q : q[k] \in {"dir", "write"} \X Sid
BY LenProperties, ElementOfSeq DEF Event

LEMMA EventShape ==
  /\ \A e \in Event : \/ e = <<"dir", e[2]>> /\ e[1] = "dir" /\ e[2] \in Sid
                      \/ e = <<"write", e[2]>> /\ e[1] = "write" /\ e[2] \in Sid
  /\ \A s \in Sid : <<"dir", s>> \in Event /\ <<"write", s>> \in Event
  /\ \A s, r : /\ <<"dir", s>> # <<"write", r>>
               /\ <<"dir", s>> = <<"dir", r>> => s = r
               /\ <<"write", s>> = <<"write", r>> => s = r
BY DEF Event

LEMMA MkdirKeeps ==
  ASSUME IInv, NEW s \in Sid, Mkdir(s)
  PROVE  IInv'
<1>1. TypeOK /\ WatchInv /\ TitleInv
  BY DEF IInv
<1>2. /\ events' \in Seq(Event)
      /\ \A f : Queued(f)' => Queued(f) \/ f = <<"dir", s>>
      /\ \A f : Queued(f) => Queued(f)'
  <2>1. CASE watching
    BY <2>1, TypeFacts, TellEffect, EventShape DEF Mkdir
  <2>2. CASE ~watching
    BY <2>2, TypeFacts DEF Mkdir, Queued
  <2> QED
    BY <2>1, <2>2
<1>3. ~watching => events' = events
  BY DEF Mkdir
<1>4. TypeOK'
  BY <1>1, <1>2, <1>3, EventsTyped, Zenon DEF Mkdir, TypeOK, procVars, due
<1>5. WatchInv'
  BY <1>1, <1>2, EventShape DEF Mkdir, WatchInv, procVars
<1>6. TitleInv'
  BY <1>1, <1>2 DEF Mkdir, TitleInv
<1> QED
  BY <1>4, <1>5, <1>6 DEF IInv

\* A line is written; a title is newer than those before it.
LEMMA WriteKeeps ==
  ASSUME IInv, NEW s \in Sid, NEW x \in Title,
         x # 0 => x > LastTitle(file[s]), Write(s, x)
  PROVE  IInv'
<1>1. TypeOK /\ WatchInv /\ TitleInv
  BY DEF IInv
<1>2. /\ events' \in Seq(Event)
      /\ \A f : Queued(f)' => \/ Queued(f)
                              \/ f = <<"write", s>> /\ s \in watched
      /\ \A f : Queued(f) => Queued(f)'
      /\ s \in watched => Queued(<<"write", s>>)'
  <2>1. CASE s \in watched
    BY <2>1, TypeFacts, TellEffect, EventShape DEF Write
  <2>2. CASE s \notin watched
    BY <2>2, TypeFacts DEF Write, Queued
  <2> QED
    BY <2>1, <2>2
<1>3. ~watching => events' = events
  BY <1>1 DEF Write, WatchInv
<1>4. /\ file' = [file EXCEPT ![s] = Append(file[s], x)]
      /\ file[s] \in Seq(Title) /\ file \in [Sid -> Seq(Title)]
  BY TypeFacts DEF Write
<1>5. /\ Append(file[s], x) \in Seq(Title)
      /\ Len(Append(file[s], x)) = Len(file[s]) + 1
  BY <1>4, AppendProperties
<1>6. /\ file' \in [Sid -> Seq(Title)] /\ file'[s] = Append(file[s], x)
      /\ \A r \in Sid : r # s => file'[r] = file[r]
  BY <1>4, <1>5
<1>7. \A r \in Sid : Len(file'[r]) <= MaxLines
  <2>1. Len(file[s]) \in Nat /\ Len(file[s]) < MaxLines
    BY <1>4, LenProperties DEF Write
  <2> QED
    <3>1. Len(file[s]) + 1 <= MaxLines
      BY <2>1, BoundAssumption
    <3>2. Len(file'[s]) <= MaxLines
      BY <1>5, <1>6, <3>1
    <3> QED
      BY <1>1, <1>6, <3>2 DEF TypeOK
<1>8. watchDue' \in [Sid -> Title]
  BY TypeFacts DEF Write
<1>9. TypeOK'
  <2>1. \A r \in Sid : file'[r] \in Seq(Title)
    BY <1>6
  <2> QED
    BY <1>1, <1>2, <1>3, <1>7, <1>8, <2>1, EventsTyped, Zenon
       DEF Write, TypeOK, procVars, Title
<1>10. WatchInv'
  BY <1>1, <1>2, <1>6, EventShape DEF Write, WatchInv, procVars
<1>11. /\ LastTitle(file'[s]) = IF x = 0 THEN LastTitle(file[s]) ELSE x
       /\ \A r \in Sid : r # s => LastTitle(file'[r]) = LastTitle(file[r])
  BY <1>4, <1>6, LastTitleAppend
<1>12. \A r \in Sid : /\ LastTitle(file'[r]) >= LastTitle(file[r])
                      /\ LastTitle(file'[r]) \in Nat
                      /\ LastTitle(file'[r]) # LastTitle(file[r]) => r = s
  BY <1>11, TypeFacts
<1>13. TitleInv'
  <2>1. UNCHANGED <<name, reader, watcher>>
    BY DEF Write
  <2>2. \A r \in Sid : name'[r] <= LastTitle(file'[r])
    BY <1>1, <1>12, <2>1, TypeFacts DEF TitleInv
  <2>3. ASSUME reader[1] = "update"
        PROVE  reader[3] <= LastTitle(file'[reader[2]])
    <3>1. reader[2] \in Sid /\ reader[3] \in Nat
      <4>1. reader \in Doing
        BY <1>1 DEF TypeOK
      <4> QED
        BY <2>3, <4>1, Doings
    <3>2. reader[3] <= LastTitle(file[reader[2]])
      BY <1>1, <2>3 DEF TitleInv
    <3>3. /\ LastTitle(file'[reader[2]]) >= LastTitle(file[reader[2]])
          /\ LastTitle(file'[reader[2]]) \in Nat
          /\ LastTitle(file[reader[2]]) \in Nat
      BY <1>12, <3>1, TypeFacts
    <3> QED
      BY <3>1, <3>2, <3>3
  <2>4. ASSUME watcher[1] = "update"
        PROVE  \/ watcher[3] = LastTitle(file'[watcher[2]])
               \/ /\ watcher[3] < LastTitle(file'[watcher[2]])
                  /\ Queued(<<"write", watcher[2]>>)'
    <3>1. watcher[2] \in Sid /\ watcher[3] \in Nat /\ watcher[2] \in watched
      <4>1. watcher \in Doing
        BY <1>1 DEF TypeOK
      <4>2. watcher # Idle /\ watcher[2] \in Sid /\ watcher[3] \in 1 .. MaxTitle
        BY <2>4, <4>1, Doings
      <4> QED
        BY <1>1, <4>2 DEF WatchInv
    <3>2. CASE LastTitle(file'[watcher[2]]) = LastTitle(file[watcher[2]])
      BY <1>1, <1>2, <2>1, <2>4, <3>2 DEF TitleInv
    <3>3. CASE LastTitle(file'[watcher[2]]) # LastTitle(file[watcher[2]])
      <4>1. watcher[2] = s /\ Queued(<<"write", watcher[2]>>)'
        BY <1>2, <1>12, <2>1, <3>1, <3>3
      <4>2. LastTitle(file'[watcher[2]]) > LastTitle(file[watcher[2]])
        BY <1>12, <3>1, <3>3, TypeFacts
      <4>3. watcher[3] <= LastTitle(file[watcher[2]])
        BY <1>1, <2>4, <3>1, TypeFacts DEF TitleInv
      <4> QED
        BY <1>12, <3>1, <4>1, <4>2, <4>3, TypeFacts
    <3> QED
      BY <3>2, <3>3
  <2> QED
    BY <2>1, <2>2, <2>3, <2>4 DEF TitleInv
<1> QED
  BY <1>9, <1>10, <1>13 DEF IInv

LEMMA AgentSteps ==
  ASSUME IInv, NEW s \in Sid, Mkdir(s) \/ WriteTitle(s) \/ WriteOther(s)
  PROVE  IInv'
<1>1. CASE WriteTitle(s)
  <2>1. LastTitle(file[s]) \in Title /\ LastTitle(file[s]) < MaxTitle
    BY <1>1, TypeFacts DEF WriteTitle
  <2>2. LastTitle(file[s]) + 1 \in Title
    BY <2>1, BoundAssumption DEF Title
  <2>3. LastTitle(file[s]) + 1 > LastTitle(file[s])
    BY <2>1 DEF Title
  <2> QED
    BY <1>1, <2>2, <2>3, WriteKeeps DEF WriteTitle
<1>2. CASE WriteOther(s)
  BY <1>2, WriteKeeps, TypeFacts DEF WriteOther
<1> QED
  BY <1>1, <1>2, MkdirKeeps

-----------------------------------------------------------------------------
(* The store, the readers and the server.                                  *)

\* A step that writes no transcript, tells of nothing and stores no title,
\* except that it may take titles away; the readers may go on.
LEMMA OtherKeeps ==
  ASSUME IInv, TypeOK', WatchInv',
         UNCHANGED <<file, events>>,
         \A s \in Sid : name'[s] \in {0, name[s]},
         watcher' \in {Idle, watcher},
         reader'[1] = "update" =>
           reader'[3] <= LastTitle(file[reader'[2]])
  PROVE  IInv'
<1>1. \A s \in Sid : name'[s] <= LastTitle(file[s])
  <2>1. \A s \in Sid : LastTitle(file[s]) \in Nat
    BY TypeFacts
  <2>2. \A s \in Sid : name[s] <= LastTitle(file[s])
    BY DEF IInv, TitleInv
  <2> QED
    BY <2>1, <2>2
<1>2. watcher'[1] = "update" => watcher' = watcher
  BY DoingShape
<1>3. TitleInv'
  BY <1>1, <1>2 DEF IInv, TitleInv, Queued
<1> QED
  BY <1>3 DEF IInv

LEMMA StoreSteps ==
  ASSUME IInv, NEW s \in Sid, SessionStart(s) \/ Remove(s) \/ Discover(s)
  PROVE  IInv'
<1>1. TypeOK /\ WatchInv /\ TitleInv
  BY DEF IInv
<1>2. UNCHANGED <<agentVars, procVars, watched, events, watcher>>
  BY DEF SessionStart, Remove, Discover
<1>3. /\ name' \in [Sid -> Title]
      /\ \A r \in Sid : name'[r] \in {0, name[r]}
      /\ \A r \in Sid \ tracked' : name'[r] = 0
      /\ watchDue' \in [Sid -> Title] /\ scanDue' \in [Sid -> Title]
  <2>1. /\ 0 \in Title /\ name \in [Sid -> Title]
        /\ watchDue \in [Sid -> Title] /\ scanDue \in [Sid -> Title]
    BY TypeFacts
  <2>2. \A r \in Sid \ tracked : name[r] = 0
    BY <1>1 DEF TypeOK
  <2>3. CASE SessionStart(s)
    BY <2>1, <2>2, <2>3 DEF SessionStart, due
  <2>4. CASE Remove(s)
    BY <2>1, <2>2, <2>4 DEF Remove
  <2>5. CASE Discover(s)
    BY <2>1, <2>2, <2>5 DEF Discover, due
  <2> QED
    BY <2>3, <2>4, <2>5
<1>4. reader' \in Doing /\ (reader'[1] = "update" => reader' = reader)
  <2>1. CASE Discover(s)
    BY <2>1, DoingShape DEF Discover
  <2>2. CASE SessionStart(s) \/ Remove(s)
    BY <1>1, <2>2 DEF SessionStart, Remove, TypeOK
  <2> QED
    BY <2>1, <2>2
<1>5. tracked' \subseteq Sid /\ todo \subseteq tracked' /\ phase = "up"
  <2>1. phase = "up" /\ todo = {}
    BY <1>1 DEF SessionStart, Remove, Discover, WatchInv
  <2> QED
    BY <1>1, <2>1 DEF SessionStart, Remove, Discover, TypeOK
<1>6. TypeOK'
  BY <1>1, <1>2, <1>3, <1>4, <1>5, Zenon DEF TypeOK, agentVars, procVars, Title
<1>7. WatchInv'
  BY <1>1, <1>2, <1>5 DEF WatchInv, Queued, agentVars, procVars
<1> QED
  BY <1>1, <1>2, <1>3, <1>4, <1>6, <1>7, OtherKeeps DEF agentVars, TitleInv

LEMMA RecoverSteps ==
  ASSUME IInv,
         \/ \E live \in SUBSET Sid : Start(live)
         \/ \E s \in Sid : RecoverTitle(s)
         \/ WatchTitles \/ RegisterFound \/ ScanSessionTitle
  PROVE  IInv'
<1>1. TypeOK /\ WatchInv /\ TitleInv
  BY DEF IInv
<1>2. UNCHANGED <<file, dirs, events, watcher>>
  BY DEF Start, RecoverTitle, WatchTitles, RegisterFound, ScanSessionTitle,
         agentVars
<1>3. Zero \in [Sid -> Title] /\ \A s \in Sid : Zero[s] = 0
  BY BoundAssumption DEF Zero, Title
<1>4. ASSUME NEW live \in SUBSET Sid, Start(live)
      PROVE  IInv'
  <2>1. /\ name' = Zero /\ tracked' = live /\ todo' = live
        /\ phase' = "recovering" /\ phase = "down"
        /\ UNCHANGED <<watching, watched, reader, watchDue>>
    BY <1>4 DEF Start
  <2>2. scanDue' \in [Sid -> Title]
    BY <1>4, TypeFacts DEF Start
  <2>3. starts' \in 0 .. MaxStarts
    BY <1>1, <1>4, BoundAssumption DEF Start, TypeOK
  <2>4. ~watching
    BY <1>1, <2>1 DEF TypeOK
  <2>5. TypeOK'
    BY <1>1, <1>2, <1>3, <2>1, <2>2, <2>3, <2>4, Zenon DEF TypeOK, Title
  <2>6. WatchInv'
    BY <1>1, <1>2, <2>1 DEF WatchInv, Queued
  <2> QED
    BY <1>1, <1>2, <1>3, <2>1, <2>5, <2>6, OtherKeeps DEF TitleInv
<1>5. ASSUME NEW s \in Sid, RecoverTitle(s)
      PROVE  IInv'
  <2>1. reader' \in Doing /\ reader'[1] # "update"
    BY <1>5, DoingShape DEF RecoverTitle
  <2>2. TypeOK'
    <3>1. todo' \subseteq tracked
      BY <1>1, <1>5 DEF RecoverTitle, TypeOK
    <3> QED
      BY <1>1, <1>2, <1>5, <2>1, <3>1, Zenon DEF RecoverTitle, TypeOK, due
  <2>3. WatchInv'
    BY <1>1, <1>2, <1>5 DEF RecoverTitle, WatchInv, Queued
  <2> QED
    BY <1>2, <1>5, <2>1, <2>2, <2>3, OtherKeeps DEF RecoverTitle
<1>6. CASE WatchTitles
  <2>1. ~watching /\ phase' = "up" /\ todo' = {}
    BY <1>1, <1>6 DEF WatchTitles, TypeOK
  <2>2. watching' \in BOOLEAN /\ watched' = dirs /\ (watched' # {} => watching')
    BY <1>6 DEF WatchTitles
  <2>3. TypeOK'
    BY <1>1, <1>2, <1>6, <2>1, <2>2, Zenon DEF WatchTitles, TypeOK, due
  <2>4. watcher = Idle /\ \A f : ~Queued(f)
    BY <1>1, <2>1 DEF TypeOK, Queued
  <2>5. WatchInv'
    BY <1>1, <1>2, <2>1, <2>2, <2>4 DEF WatchInv, Queued
  <2> QED
    BY <1>1, <1>2, <1>6, <2>3, <2>5, OtherKeeps DEF WatchTitles, TitleInv
<1>7. CASE RegisterFound
  <2>1. reader[2] \in Sid
    BY <1>1, <1>7, Doings DEF RegisterFound, TypeOK
  <2>2. reader' \in Doing /\ reader'[1] # "update"
    BY <1>7, <2>1, DoingShape DEF RegisterFound
  <2>3. /\ tracked' = tracked \union {reader[2]}
        /\ UNCHANGED <<procVars, watched, name, watchDue>>
    BY <1>7 DEF RegisterFound
  <2>4. scanDue' \in [Sid -> Title]
    BY <1>7, <2>1, TypeFacts DEF RegisterFound
  <2>5. tracked' \subseteq Sid /\ todo \subseteq tracked'
        /\ \A s \in Sid \ tracked' : name[s] = 0
    BY <1>1, <2>1, <2>3 DEF TypeOK
  <2>6. TypeOK'
    BY <1>1, <1>2, <2>2, <2>3, <2>4, <2>5, Zenon DEF TypeOK, procVars, Title
  <2>7. WatchInv'
    <3>1. phase # "down"
      BY <1>1, <1>7, DoingShape DEF RegisterFound, WatchInv
    <3> QED
      BY <1>1, <1>2, <2>3, <3>1 DEF WatchInv, Queued, procVars
  <2> QED
    BY <1>2, <2>2, <2>3, <2>6, <2>7, OtherKeeps
<1>8. CASE ScanSessionTitle
  <2>1. reader[2] \in Sid
    BY <1>1, <1>8, Doings DEF ScanSessionTitle, TypeOK
  <2>2. /\ reader' \in Doing
        /\ reader'[1] = "update" => reader'[3] <= LastTitle(file[reader'[2]])
    <3>1. CASE LastTitle(file[reader[2]]) = 0
      BY <1>8, <3>1, DoingShape DEF ScanSessionTitle
    <3>2. CASE LastTitle(file[reader[2]]) # 0
      <4>1. LastTitle(file[reader[2]]) \in 1 .. MaxTitle
        BY <2>1, <3>2, TypeFacts, BoundAssumption DEF Title
      <4>2. reader' = <<"update", reader[2], LastTitle(file[reader[2]])>>
        BY <1>8, <3>2 DEF ScanSessionTitle
      <4> QED
        BY <2>1, <4>1, <4>2, DoingShape
    <3> QED
      BY <3>1, <3>2
  <2>3. UNCHANGED <<procVars, watched, tracked, name, due>>
    BY <1>8 DEF ScanSessionTitle
  <2>4. TypeOK'
    BY <1>1, <1>2, <2>2, <2>3, Zenon DEF TypeOK, procVars, due
  <2>5. WatchInv'
    <3>1. phase # "down"
      BY <1>1, <1>8, DoingShape DEF ScanSessionTitle, WatchInv
    <3> QED
      BY <1>1, <1>2, <2>3, <3>1 DEF WatchInv, Queued, procVars
  <2> QED
    BY <1>2, <2>2, <2>3, <2>4, <2>5, OtherKeeps
<1> QED
  BY <1>4, <1>5, <1>6, <1>7, <1>8

\* Storing what a reader has read keeps the types of what is due.
LEMMA OverwrittenType ==
  ASSUME NEW d \in [Sid -> Title], NEW r, r[2] \in Sid, 0 \in Title
  PROVE  Overwritten(d, r) \in [Sid -> Title]
BY DEF Overwritten

\* A title that is in the transcript is stored.
LEMMA UpdateEffect ==
  ASSUME IInv, NEW s \in Sid, NEW t \in 1 .. MaxTitle, UpdateName(s, t)
  PROVE  /\ name' \in [Sid -> Title]
         /\ \A r \in Sid : name'[r] = name[r] \/ (r = s /\ name'[r] = t)
         /\ \A r \in Sid \ tracked : name'[r] = 0
<1>1. name \in [Sid -> Title] /\ t \in Title
  BY TypeFacts
<1>2. \A r \in Sid \ tracked : name[r] = 0
  BY DEF IInv, TypeOK
<1> QED
  BY <1>1, <1>2 DEF UpdateName

LEMMA StoreFoundKeeps == IInv /\ StoreFound => IInv'
<1> SUFFICES ASSUME IInv, StoreFound PROVE IInv'
  OBVIOUS
<1>1. TypeOK /\ WatchInv /\ TitleInv
  BY DEF IInv
<1>2. PICK s \in Sid, t \in 1 .. MaxTitle :
        s = reader[2] /\ t = reader[3] /\ reader # Idle
  BY <1>1, Doings DEF StoreFound, TypeOK
<1>3. t <= LastTitle(file[s])
  BY <1>1, <1>2 DEF StoreFound, TitleInv
<1>4. /\ name' \in [Sid -> Title]
      /\ \A r \in Sid : name'[r] = name[r] \/ (r = s /\ name'[r] = t)
      /\ \A r \in Sid \ tracked : name'[r] = 0
  <2>1. UpdateName(s, t)
    BY <1>2 DEF StoreFound
  <2> QED
    BY <2>1, UpdateEffect
<1>5. watchDue' \in [Sid -> Title]
  BY <1>2, TypeFacts, OverwrittenType DEF StoreFound
<1>6. /\ reader' = Idle
      /\ UNCHANGED <<agentVars, procVars, watched, events, tracked, watcher,
                     scanDue>>
  BY DEF StoreFound
<1>7. TypeOK'
  BY <1>1, <1>4, <1>5, <1>6, DoingShape, Zenon
     DEF TypeOK, agentVars, procVars, Title
<1>8. WatchInv'
  BY <1>1, <1>6 DEF WatchInv, Queued, agentVars, procVars
<1>9. TitleInv'
  <2>1. \A r \in Sid : name'[r] <= LastTitle(file[r])
    BY <1>1, <1>3, <1>4 DEF TitleInv
  <2> QED
    BY <1>1, <1>6, <2>1, DoingShape DEF TitleInv, Queued, agentVars
<1> QED
  BY <1>7, <1>8, <1>9 DEF IInv

LEMMA StoreTitleKeeps == IInv /\ StoreTitle => IInv'
<1> SUFFICES ASSUME IInv, StoreTitle PROVE IInv'
  OBVIOUS
<1>1. TypeOK /\ WatchInv /\ TitleInv
  BY DEF IInv
<1>2. PICK s \in Sid, t \in 1 .. MaxTitle :
        s = watcher[2] /\ t = watcher[3] /\ watcher # Idle
  BY <1>1, Doings DEF StoreTitle, TypeOK
<1>3. t <= LastTitle(file[s])
  <2>1. LastTitle(file[s]) \in Nat
    BY TypeFacts
  <2> QED
    BY <1>1, <1>2, <2>1 DEF StoreTitle, TitleInv
<1>4. /\ name' \in [Sid -> Title]
      /\ \A r \in Sid : name'[r] = name[r] \/ (r = s /\ name'[r] = t)
      /\ \A r \in Sid \ tracked : name'[r] = 0
  <2>1. UpdateName(s, t)
    BY <1>2 DEF StoreTitle
  <2> QED
    BY <2>1, UpdateEffect
<1>5. scanDue' \in [Sid -> Title]
  BY <1>2, TypeFacts, OverwrittenType DEF StoreTitle
<1>6. /\ watcher' = Idle
      /\ UNCHANGED <<agentVars, procVars, watched, events, tracked, reader,
                     watchDue>>
  BY DEF StoreTitle
<1>7. TypeOK'
  BY <1>1, <1>4, <1>5, <1>6, DoingShape, Zenon
     DEF TypeOK, agentVars, procVars, Title
<1>8. WatchInv'
  BY <1>1, <1>6 DEF WatchInv, Queued, agentVars, procVars
<1>9. TitleInv'
  <2>1. \A r \in Sid : name'[r] <= LastTitle(file[r])
    BY <1>1, <1>3, <1>4 DEF TitleInv
  <2> QED
    BY <1>1, <1>6, <2>1, DoingShape DEF TitleInv, Queued, agentVars
<1> QED
  BY <1>7, <1>8, <1>9 DEF IInv

LEMMA WatchSteps == IInv /\ (WatchDir \/ TakeWrite) => IInv'
<1> SUFFICES ASSUME IInv, WatchDir \/ TakeWrite PROVE IInv'
  OBVIOUS
<1>1. TypeOK /\ WatchInv /\ TitleInv
  BY DEF IInv
<1>2. /\ watching /\ watcher = Idle
      /\ events # <<>> /\ events' = Tail(events)
      /\ UNCHANGED <<agentVars, procVars, tracked, name, reader, due>>
  BY DEF WatchDir, TakeWrite
<1>3. /\ events' \in Seq(Event)
      /\ Head(events) \in Event /\ Queued(Head(events))
      /\ \A f : Queued(f)' => Queued(f)
  BY <1>2, TypeFacts, TailEffect
<1>4. PICK s \in Sid :
        \/ Head(events) = <<"dir", s>> /\ Head(events)[1] = "dir"
        \/ Head(events) = <<"write", s>> /\ Head(events)[1] = "write"
  BY <1>3, EventShape
<1>5. Head(events)[2] = s
  BY <1>4
<1>6. \/ /\ watched' = watched \union {s} /\ s \in dirs
         /\ watcher' = Idle
      \/ /\ watched' = watched /\ s \in watched
         /\ watcher' \in {Idle, <<"read", s>>}
  <2>1. CASE WatchDir
    <3>1. Queued(<<"dir", s>>)
      BY <1>3, <1>4, <2>1 DEF WatchDir
    <3> QED
      BY <1>1, <1>2, <1>5, <2>1, <3>1 DEF WatchDir, WatchInv
  <2>2. CASE TakeWrite
    <3>1. Queued(<<"write", s>>)
      BY <1>3, <1>4, <2>2 DEF TakeWrite
    <3> QED
      BY <1>1, <1>5, <2>2, <3>1 DEF TakeWrite, WatchInv
  <2> QED
    BY <2>1, <2>2
<1>7. /\ watcher' \in Doing /\ watcher'[1] # "update"
      /\ watcher' # Idle => watcher'[2] \in watched'
      /\ watched \subseteq watched' /\ watched' \subseteq dirs
  BY <1>1, <1>6, DoingShape DEF TypeOK
<1>8. TypeOK'
  BY <1>1, <1>2, <1>3, <1>7, EventsTyped, Zenon
     DEF TypeOK, agentVars, procVars, due
<1>9. WatchInv'
  BY <1>1, <1>2, <1>3, <1>7 DEF WatchInv, agentVars, procVars
<1>10. TitleInv'
  BY <1>1, <1>2, <1>7 DEF TitleInv, agentVars
<1> QED
  BY <1>8, <1>9, <1>10 DEF IInv

LEMMA ReadTailKeeps == IInv /\ ReadTail => IInv'
<1> SUFFICES ASSUME IInv, ReadTail PROVE IInv'
  OBVIOUS
<1>1. TypeOK /\ WatchInv /\ TitleInv
  BY DEF IInv
<1>2. PICK s \in Sid : s = watcher[2] /\ watcher # Idle
  BY <1>1, Doings DEF ReadTail, TypeOK
<1>3. s \in watched /\ watching
  BY <1>1, <1>2 DEF WatchInv
<1>4. \/ watcher' = Idle
      \/ /\ LastTitle(file[s]) \in 1 .. MaxTitle
         /\ watcher' = <<"update", s, LastTitle(file[s])>>
  <2> DEFINE t == LastTitle(LastLines(file[s]))
  <2>1. watcher' = IF t = 0 THEN Idle ELSE <<"update", s, t>>
    BY <1>2 DEF ReadTail
  <2>2. t \in {0, LastTitle(file[s])} /\ LastTitle(file[s]) \in Title
    BY LastTitleOfWindow, TypeFacts
  <2> HIDE DEF t
  <2> QED
    BY <2>1, <2>2, BoundAssumption DEF Title
<1>5. /\ watcher' \in Doing
      /\ watcher' # Idle => watcher'[2] = s
      /\ watcher'[1] = "update" => watcher'[3] = LastTitle(file[s])
  BY <1>4, DoingShape
<1>6. UNCHANGED <<agentVars, procVars, watched, events, tracked, name, reader,
                  due>>
  BY DEF ReadTail
<1>7. TypeOK'
  BY <1>1, <1>3, <1>5, <1>6, Zenon DEF TypeOK, agentVars, procVars, due
<1>8. WatchInv'
  BY <1>1, <1>3, <1>5, <1>6 DEF WatchInv, Queued, agentVars, procVars
<1>9. TitleInv'
  <2>1. watcher'[1] = "update" => watcher'[2] = s
    BY <1>5, DoingShape
  <2> QED
    BY <1>1, <1>5, <1>6, <2>1 DEF TitleInv, agentVars
<1> QED
  BY <1>7, <1>8, <1>9 DEF IInv

LEMMA CrashKeeps == IInv /\ Crash => IInv'
<1> SUFFICES ASSUME IInv, Crash PROVE IInv'
  OBVIOUS
<1>1. TypeOK /\ WatchInv /\ TitleInv
  BY DEF IInv
<1>2. Zero \in [Sid -> Title] /\ \A s \in Sid : Zero[s] = 0
  BY BoundAssumption DEF Zero, Title
<1>3. /\ events' \in Seq(Event) /\ DOMAIN events' = {}
      /\ watcher' \in Doing /\ reader' \in Doing
  BY EmptySeq, DoingShape DEF Crash
<1>4. TypeOK'
  <2>1. /\ watched' = {} /\ todo' = {} /\ tracked' = {} /\ watching' = FALSE
        /\ events' = <<>> /\ watcher' = Idle /\ phase' = "down"
        /\ name' = Zero /\ watchDue' = Zero /\ scanDue' = Zero
        /\ UNCHANGED <<dirs, file, starts>>
    BY DEF Crash, agentVars
  <2>2. \A k \in DOMAIN events' : events'[k] \in {"dir", "write"} \X Sid
    BY <1>3
  <2> QED
    BY <1>1, <1>2, <1>3, <2>1, <2>2, Zenon DEF TypeOK, Title
<1>5. WatchInv'
  BY <1>1, <1>3 DEF Crash, WatchInv, Queued, agentVars
<1>6. TitleInv'
  <2>1. \A s \in Sid : LastTitle(file[s]) \in Nat
    BY TypeFacts
  <2> QED
    BY <1>2, <2>1, DoingShape DEF Crash, TitleInv, agentVars
<1> QED
  BY <1>4, <1>5, <1>6 DEF IInv

LEMMA NextKeeps == IInv /\ [Next]_vars => IInv'
<1> SUFFICES ASSUME IInv, [Next]_vars PROVE IInv'
  OBVIOUS
<1>1. CASE UNCHANGED vars
  <2>1. TypeOK'
    BY <1>1, Zenon DEF IInv, TypeOK, vars, agentVars, procVars, due
  <2>2. WatchInv' /\ TitleInv'
    BY <1>1 DEF IInv, WatchInv, TitleInv, Queued, vars, agentVars, procVars
  <2> QED
    BY <2>1, <2>2 DEF IInv
<1>2. CASE Next
  BY <1>2, AgentSteps, StoreSteps, RecoverSteps, StoreFoundKeeps,
     StoreTitleKeeps, WatchSteps, ReadTailKeeps, CrashKeeps
     DEF Next, ReaderStep, WatcherStep
<1> QED
  BY <1>1, <1>2

\* Every variable keeps its type; nothing is watched, queued or read for a
\* server that does not run.
THEOREM TypeCorrect == Spec => []TypeOK
<1>1. IInv => TypeOK
  BY DEF IInv
<1> QED
  BY InitInv, NextKeeps, <1>1, PTL DEF Spec

\* What a step may do to the title of a session that stays tracked.
TitleStep ==
  \A s \in tracked \intersect tracked' : name'[s] < name[s] =>
    \/ reader[1] = "update" /\ reader[2] = s
    \/ \E k \in DOMAIN events : events[k] = <<"write", s>>

\* Only the two readers store titles; the watcher stores an older one only
\* with a write queued that it has yet to look at.
LEMMA TitleStepKept == IInv /\ [Next]_vars => TitleStep
<1> SUFFICES ASSUME IInv, [Next]_vars,
                    NEW s \in tracked \intersect tracked', name'[s] < name[s]
             PROVE  \/ reader[1] = "update" /\ reader[2] = s
                    \/ Queued(<<"write", s>>)
  BY DEF TitleStep, Queued
<1>1. TypeOK /\ WatchInv /\ TitleInv /\ s \in Sid
  BY DEF IInv, TypeOK
<1>2. name[s] \in Nat /\ LastTitle(file[s]) \in Nat /\ name[s] <= LastTitle(file[s])
  BY <1>1, TypeFacts DEF TitleInv
<1>3. name'[s] # name[s]
  BY <1>2
<1>4. CASE StoreFound
  <2>1. reader[2] \in Sid
    BY <1>1, <1>4, Doings DEF StoreFound, TypeOK
  <2>2. reader[2] = s
    BY <1>1, <1>3, <1>4, <2>1 DEF StoreFound, UpdateName, TypeOK
  <2> QED
    BY <1>4, <2>2 DEF StoreFound
<1>5. CASE StoreTitle
  <2>1. watcher[2] \in Sid /\ watcher[3] \in Nat
    BY <1>1, <1>5, Doings DEF StoreTitle, TypeOK
  <2>2. watcher[2] = s /\ name'[s] = watcher[3]
    BY <1>1, <1>3, <1>5, <2>1 DEF StoreTitle, UpdateName, TypeOK
  <2>3. watcher[3] # LastTitle(file[s])
    BY <1>2, <2>1, <2>2
  <2> QED
    BY <1>1, <1>5, <2>2, <2>3 DEF StoreTitle, TitleInv
<1>6. CASE \E r \in Sid : SessionStart(r) \/ Remove(r)
  BY <1>1, <1>3, <1>6 DEF SessionStart, Remove, TypeOK
<1>7. CASE \E live \in SUBSET Sid : Start(live)
  BY <1>1, <1>7 DEF Start, WatchInv
<1>8. CASE Crash
  BY <1>8 DEF Crash
<1>9. ASSUME name' = name
      PROVE  FALSE
  BY <1>3, <1>9
<1>10. CASE \E r \in Sid : Mkdir(r) \/ WriteTitle(r) \/ WriteOther(r) \/ Discover(r)
  BY <1>9, <1>10 DEF Mkdir, WriteTitle, WriteOther, Write, Discover
<1>11. CASE \/ \E r \in Sid : RecoverTitle(r)
            \/ WatchTitles \/ RegisterFound \/ ScanSessionTitle
            \/ WatchDir \/ TakeWrite \/ ReadTail \/ UNCHANGED vars
  BY <1>9, <1>11 DEF RecoverTitle, WatchTitles, RegisterFound,
     ScanSessionTitle, WatchDir, TakeWrite, ReadTail, vars
<1> QED
  BY <1>4, <1>5, <1>6, <1>7, <1>8, <1>10, <1>11
     DEF Next, ReaderStep, WatcherStep

\* The title of a tracked session goes back only by the scanner, or while the
\* watcher has a write to look at that will bring it forward again.
THEOREM TitlesGoForward == Spec => TitleNeverGoesBack
<1>1. IInv /\ [Next]_vars => [TitleStep]_vars
  BY TitleStepKept
<1> QED
  BY InitInv, NextKeeps, <1>1, PTL DEF Spec, TitleNeverGoesBack, TitleStep
=============================================================================
