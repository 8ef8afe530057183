-------------------------- MODULE PickerWatchProofs --------------------------
(***************************************************************************)
(* Proofs about PickerWatch, for any number of pickers, widths, tables and *)
(* toggles.                                                                *)
(*                                                                         *)
(* QuietIsCurrent speaks of the moments at which nothing is under way.     *)
(* Delivered says what brings the announced table to fzf at the others: a  *)
(* generation that the loop has not read, a post that it is about to make, *)
(* a reload that is to read the table or has read it.                      *)
(***************************************************************************)
EXTENDS PickerWatch, ColumnBudgetProofs

Delivered(p) ==
  \/ gen # lastGen[p]
  \/ loop[p] = "post"
  \/ Len(reload[p]) = 2
  \/ Len(reload[p]) = 3 /\ due[p] <= reload[p][3]
  \/ reload[p] = <<>> /\ due[p] <= view[p][3]

\* Only an open picker is owed a table, and only one that was committed.
Owed(p) ==
  /\ lastGen[p] <= gen /\ due[p] <= version
  /\ due[p] # -1 => Watches(p)

\* What fzf shows, and is about to show, was laid out for the pane.
OwnWidth(p) ==
  p \notin visited =>
    /\ view[p][2] = cols[p]
    /\ reload[p] # <<>> => reload[p][2] = cols[p]

\* Only an open picker reloads.
Reloading(p) == reload[p] # <<>> => pc[p] = "open"

Promise(p) == Owed(p) /\ Delivered(p) /\ OwnWidth(p) /\ Reloading(p)

IInv == TypeOK /\ \A p \in Picker : Promise(p)

-----------------------------------------------------------------------------
\* The three shapes of a reload.
LEMMA ReloadShape ==
  /\ <<>> \in Reloads /\ Len(<<>>) = 0
  /\ \A m \in Views, w \in Width :
       /\ <<m, w>> \in Reloads /\ Len(<<m, w>>) = 2 /\ <<m, w>> # <<>>
       /\ <<m, w>>[1] = m /\ <<m, w>>[2] = w
  /\ \A m \in Views, w \in Width, n \in Nat \union {-1} :
       /\ <<m, w, n>> \in Reloads /\ <<m, w, n>> \in Shown
       /\ Len(<<m, w, n>>) = 3 /\ <<m, w, n>> # <<>>
       /\ <<m, w, n>>[1] = m /\ <<m, w, n>>[2] = w /\ <<m, w, n>>[3] = n
  /\ \A r \in Reloads :
       \/ r = <<>>
       \/ Len(r) = 2 /\ r # <<>> /\ r[1] \in Views /\ r[2] \in Width
       \/ Len(r) = 3 /\ r # <<>> /\ r \in Shown /\ r[3] \in Nat \union {-1}
BY DEF Reloads, Shown

\* Nothing is owed and nothing is under way at first.
LEMMA InitInv == Init => IInv
<1> SUFFICES ASSUME Init PROVE IInv
  OBVIOUS
<1>1. TypeOK
  <2>1. <<"active", 0, 0>> \in Shown
    BY DEF Shown, Views, Width
  <2> QED
    BY <2>1, NobodyAssumption DEF Init, TypeOK, Width, Reloads
<1>2. \A p \in Picker : Promise(p)
  BY DEF Init, Promise, Owed, Delivered, OwnWidth, Reloading, Watches
<1> QED
  BY <1>1, <1>2 DEF IInv

-----------------------------------------------------------------------------
(* The steps of the server.                                                *)

\* A step that concerns the server alone, and announces nothing.
LEMMA Unannounced ==
  ASSUME IInv, TypeOK', version' >= version,
         UNCHANGED <<gen, fzfVars, pickVars, loopVars, due>>
  PROVE  IInv'
<1> SUFFICES ASSUME NEW p \in Picker
             PROVE  Promise(p)'
  BY DEF IInv
<1>1. Owed(p) /\ Delivered(p) /\ OwnWidth(p) /\ Reloading(p) /\ TypeOK
  BY DEF IInv, Promise
<1>2. Owed(p)'
  BY <1>1 DEF Owed, Watches, TypeOK, loopVars, pickVars
<1>3. Delivered(p)' /\ OwnWidth(p)' /\ Reloading(p)'
  BY <1>1 DEF Delivered, OwnWidth, Reloading, loopVars, fzfVars, pickVars
<1> QED
  BY <1>2, <1>3 DEF Promise

LEMMA BeginCommitKeeps == IInv /\ BeginCommit => IInv'
<1> SUFFICES ASSUME IInv, BeginCommit PROVE IInv'
  OBVIOUS
<1>1. TypeOK'
  BY DEF IInv, TypeOK, BeginCommit, loopVars, fzfVars, pickVars
<1>2. version' >= version
  BY DEF IInv, TypeOK, BeginCommit
<1> QED
  BY <1>1, <1>2, Unannounced DEF BeginCommit

LEMMA CommitKeeps == IInv /\ Commit => IInv'
<1> SUFFICES ASSUME IInv, Commit PROVE IInv'
  OBVIOUS
<1>1. version \in Nat
  BY DEF IInv, TypeOK
<1>2. version' \in Nat /\ version' >= version
  BY <1>1 DEF Commit
<1>3. TypeOK'
  BY <1>2, Zenon DEF IInv, TypeOK, Commit, loopVars, fzfVars, pickVars
<1> QED
  BY <1>2, <1>3, Unannounced DEF Commit

LEMMA ServerDiesKeeps == IInv /\ ServerDies => IInv'
<1> SUFFICES ASSUME IInv, ServerDies PROVE IInv'
  OBVIOUS
<1>1. TypeOK'
  BY DEF IInv, TypeOK, ServerDies, loopVars, fzfVars, pickVars
<1>2. version' >= version
  BY DEF IInv, TypeOK, ServerDies
<1> QED
  BY <1>1, <1>2, Unannounced DEF ServerDies

\* An announcement is a generation that no loop has read.
LEMMA AnnounceKeeps == IInv /\ Announce => IInv'
<1> SUFFICES ASSUME IInv, Announce PROVE IInv'
  OBVIOUS
<1>1. TypeOK
  BY DEF IInv
<1>2. TypeOK'
  <2>1. due' \in [Picker -> Nat \union {-1}]
    BY <1>1 DEF TypeOK, Announce
  <2>2. gen' \in Nat
    BY <1>1 DEF TypeOK, Announce
  <2> QED
    BY <1>1, <2>1, <2>2, Zenon
    DEF TypeOK, Announce, loopVars, fzfVars, pickVars
<1>3. ASSUME NEW p \in Picker
      PROVE  Promise(p)'
  <2>1. Owed(p) /\ OwnWidth(p) /\ Reloading(p)
    BY DEF IInv, Promise
  <2>2. gen' # lastGen'[p] /\ lastGen'[p] <= gen'
    BY <1>1, <2>1 DEF Owed, TypeOK, Announce, loopVars
  <2>3. Watches(p)' = Watches(p)
    BY DEF Watches, Announce, loopVars, pickVars
  <2>4. due'[p] <= version' /\ (due'[p] # -1 => Watches(p))
    BY <1>1, <2>1 DEF Owed, TypeOK, Announce
  <2>5. OwnWidth(p)' /\ Reloading(p)'
    BY <2>1 DEF OwnWidth, Reloading, Announce, fzfVars, pickVars
  <2> QED
    BY <2>2, <2>3, <2>4, <2>5 DEF Promise, Owed, Delivered
<1> QED
  BY <1>2, <1>3 DEF IInv

-----------------------------------------------------------------------------
(* The steps of a picker.                                                  *)

\* A picker whose own state a step leaves alone.
LEMMA Untouched ==
  ASSUME NEW q \in Picker, Promise(q),
         UNCHANGED <<version, gen>>, q \in visited => q \in visited',
         pc'[q] = pc[q], cols'[q] = cols[q], view'[q] = view[q],
         loop'[q] = loop[q], lastGen'[q] = lastGen[q],
         reload'[q] = reload[q], due'[q] = due[q]
  PROVE  Promise(q)'
BY DEF Promise, Owed, Delivered, OwnWidth, Reloading, Watches

\* A step of p that leaves the others alone.
LEMMA StepOf ==
  ASSUME IInv, TypeOK', NEW p \in Picker, Promise(p)',
         UNCHANGED <<version, gen>>,
         \A q \in Picker \ {p} :
           /\ q \in visited => q \in visited'
           /\ pc'[q] = pc[q] /\ cols'[q] = cols[q] /\ view'[q] = view[q]
           /\ loop'[q] = loop[q] /\ lastGen'[q] = lastGen[q]
           /\ reload'[q] = reload[q] /\ due'[q] = due[q]
  PROVE  IInv'
<1> SUFFICES ASSUME NEW q \in Picker, q # p
             PROVE  Promise(q)'
  BY DEF IInv
<1> QED
  BY Untouched DEF IInv

LEMMA OpenKeeps ==
  ASSUME IInv, NEW p \in Picker, Open(p)
  PROVE  IInv'
<1>1. TypeOK /\ Owed(p) /\ Reloading(p)
  BY DEF IInv, Promise
<1>2. due[p] = -1 /\ due'[p] = -1
  BY <1>1 DEF Owed, Watches, Open
<1>3. PICK c \in Cols : /\ cols' = [cols EXCEPT ![p] = c]
                        /\ view' = [view EXCEPT ![p] = <<"active", c, version>>]
  BY DEF Open
<1>4. /\ view'[p] = <<"active", c, version>> /\ view'[p] \in Shown
      /\ view'[p][2] = c /\ view'[p][3] = version /\ cols'[p] = c
  BY <1>1, <1>3 DEF TypeOK, Shown, Views, Width
<1>5. TypeOK'
  <2>1. view' \in [Picker -> Shown] /\ cols' \in [Picker -> Width]
    BY <1>1, <1>3, <1>4 DEF TypeOK, Width
  <2>2. /\ loop' \in [Picker -> {"off", "first", "sleep", "post"}]
        /\ pc' \in [Picker -> {"closed", "starting", "open"}]
        /\ \A q \in Picker : pc'[q] = "open" <=> owner = q
    BY <1>1 DEF Open, TypeOK
  <2> QED
    BY <1>1, <2>1, <2>2, Zenon DEF Open, TypeOK, serverVars
<1>6. Promise(p)'
  <2>1. Owed(p)'
    BY <1>1, <1>2 DEF Owed, Open, TypeOK, serverVars
  <2>2. version \in Nat /\ reload'[p] = reload[p] /\ reload[p] \in Reloads
    BY <1>1 DEF TypeOK, Open
  <2>3. Delivered(p)'
    BY <1>2, <1>4, <2>2, ReloadShape DEF Delivered
  <2>4. reload'[p] = <<>>
    BY <1>1, <2>2 DEF Reloading, Open
  <2> QED
    BY <1>4, <2>1, <2>3, <2>4 DEF Promise, OwnWidth, Reloading
<1> QED
  BY <1>1, <1>5, <1>6, StepOf DEF Open, TypeOK, serverVars

\* Closing forgets what the picker was owed.
LEMMA CloseKeeps ==
  ASSUME IInv, NEW p \in Picker, Close(p)
  PROVE  IInv'
<1>1. TypeOK
  BY DEF IInv
<1>2. TypeOK'
  <2>1. <<"active", 0, 0>> \in Shown /\ <<>> \in Reloads /\ 0 \in Width
    BY DEF Shown, Reloads, Views, Width
  <2>2. /\ view' \in [Picker -> Shown] /\ reload' \in [Picker -> Reloads]
        /\ cols' \in [Picker -> Width]
    BY <1>1, <2>1 DEF Close, TypeOK
  <2>3. lastGen' \in [Picker -> Nat] /\ due' \in [Picker -> Nat \union {-1}]
    BY <1>1 DEF Close, TypeOK
  <2>4. /\ loop' \in [Picker -> {"off", "first", "sleep", "post"}]
        /\ pc' \in [Picker -> {"closed", "starting", "open"}]
        /\ owner' \in Picker \union {Nobody}
        /\ \A q \in Picker : pc'[q] = "open" <=> owner' = q
    BY <1>1, NobodyAssumption DEF Close, TypeOK
  <2> QED
    BY <1>1, <2>2, <2>3, <2>4, Zenon DEF Close, TypeOK, serverVars
<1>3. Promise(p)'
  <2>1. due'[p] = -1 /\ lastGen'[p] = 0 /\ version' \in Nat /\ gen' \in Nat
    BY <1>1 DEF Close, TypeOK, serverVars
  <2>2. /\ reload'[p] = <<>> /\ view'[p] = <<"active", 0, 0>>
        /\ cols'[p] = 0
    BY <1>1 DEF Close, TypeOK
  <2> QED
    BY <2>1, <2>2 DEF Promise, Owed, Delivered, OwnWidth, Reloading
<1> QED
  BY <1>1, <1>2, <1>3, StepOf DEF Close, TypeOK, serverVars

LEMMA ListenKeeps ==
  ASSUME IInv, NEW p \in Picker, Listen(p)
  PROVE  IInv'
<1>1. TypeOK /\ Promise(p)
  BY DEF IInv
<1>2. TypeOK'
  <2>1. /\ pc' \in [Picker -> {"closed", "starting", "open"}]
        /\ \A q \in Picker : pc'[q] = "open" <=> owner' = q
    BY <1>1, NobodyAssumption DEF Listen, TypeOK
  <2> QED
    BY <1>1, <2>1, Zenon DEF Listen, TypeOK, serverVars, loopVars
<1>3. due[p] = -1
  BY <1>1 DEF Promise, Owed, Watches, Listen
<1>4. Promise(p)'
  BY <1>1, <1>3
  DEF Promise, Owed, Delivered, OwnWidth, Reloading, Listen, serverVars,
      loopVars, TypeOK
<1> QED
  BY <1>1, <1>2, <1>4, StepOf DEF Listen, TypeOK, serverVars, loopVars

\* A reload that is to read the table shows what is owed.
LEMMA ToggleKeeps ==
  ASSUME IInv, NEW p \in Picker, NEW m \in Views, Toggle(p, m)
  PROVE  IInv'
<1>1. TypeOK /\ Promise(p)
  BY DEF IInv
<1>2. cols[p] \in Width
  BY <1>1 DEF TypeOK
<1>3. reload'[p] = <<m, cols[p]>>
  BY <1>1 DEF Toggle, TypeOK
<1>4. /\ reload'[p] \in Reloads /\ Len(reload'[p]) = 2
      /\ reload'[p][2] = cols[p]
  BY <1>2, <1>3, ReloadShape
<1>5. TypeOK'
  <2>1. reload' \in [Picker -> Reloads]
    BY <1>1, <1>3, <1>4 DEF Toggle, TypeOK
  <2>2. toggles' \in Nat
    BY <1>1 DEF Toggle, TypeOK
  <2> QED
    BY <1>1, <2>1, <2>2, Zenon DEF Toggle, TypeOK, serverVars, loopVars
<1>6. Promise(p)'
  BY <1>1, <1>4
  DEF Promise, Owed, Watches, Delivered, OwnWidth, Reloading, Toggle,
      serverVars, loopVars
<1> QED
  BY <1>1, <1>5, <1>6, StepOf DEF Toggle, TypeOK, serverVars, loopVars

\* A reload reads the last table, and what is owed was committed.
LEMMA LoadRowsKeeps ==
  ASSUME IInv, NEW p \in Picker, LoadRows(p)
  PROVE  IInv'
<1>1. TypeOK /\ Promise(p)
  BY DEF IInv
<1>2. reload'[p] = <<reload[p][1], reload[p][2], version>>
  BY <1>1 DEF LoadRows, TypeOK
<1>3. /\ reload'[p] \in Reloads /\ Len(reload'[p]) = 3
      /\ reload'[p][2] = reload[p][2] /\ reload'[p][3] = version
      /\ reload[p] # <<>>
  <2>1. reload[p] \in Reloads /\ Len(reload[p]) = 2 /\ version \in Nat
    BY <1>1 DEF TypeOK, LoadRows
  <2>2. reload[p][1] \in Views /\ reload[p][2] \in Width /\ reload[p] # <<>>
    BY <2>1, ReloadShape
  <2> QED
    BY <1>2, <2>1, <2>2, ReloadShape
<1>4. TypeOK'
  <2>1. reload' \in [Picker -> Reloads]
    BY <1>1, <1>2, <1>3 DEF LoadRows, TypeOK
  <2> QED
    BY <1>1, <2>1, Zenon DEF LoadRows, TypeOK, serverVars, loopVars, pickVars
<1>5. Promise(p)'
  BY <1>1, <1>3
  DEF Promise, Owed, Watches, Delivered, OwnWidth, Reloading, LoadRows,
      serverVars, loopVars, pickVars
<1> QED
  BY <1>1, <1>4, <1>5, StepOf
  DEF LoadRows, TypeOK, serverVars, loopVars, pickVars

\* A reload that was locked out is excused.
LEMMA LoadNothingKeeps ==
  ASSUME IInv, NEW p \in Picker, LoadNothing(p)
  PROVE  IInv'
<1>1. TypeOK /\ Promise(p)
  BY DEF IInv
<1>2. reload'[p] = <<reload[p][1], reload[p][2], -1>> /\ due'[p] = -1
  BY <1>1 DEF LoadNothing, TypeOK
<1>3. /\ reload'[p] \in Reloads /\ Len(reload'[p]) = 3
      /\ reload'[p][2] = reload[p][2] /\ reload'[p][3] = -1
      /\ reload[p] # <<>>
  <2>1. reload[p] \in Reloads /\ Len(reload[p]) = 2 /\ -1 \in Nat \union {-1}
    BY <1>1 DEF TypeOK, LoadNothing
  <2>2. reload[p][1] \in Views /\ reload[p][2] \in Width /\ reload[p] # <<>>
    BY <2>1, ReloadShape
  <2> QED
    BY <1>2, <2>1, <2>2, ReloadShape
<1>4. TypeOK'
  <2>1. reload' \in [Picker -> Reloads] /\ due' \in [Picker -> Nat \union {-1}]
    BY <1>1, <1>2, <1>3 DEF LoadNothing, TypeOK
  <2> QED
    BY <1>1, <2>1, Zenon
    DEF LoadNothing, TypeOK, serverVars, loopVars, pickVars
<1>5. Promise(p)'
  BY <1>1, <1>2, <1>3
  DEF Promise, Owed, Delivered, OwnWidth, Reloading, LoadNothing, serverVars,
      loopVars, pickVars, TypeOK
<1> QED
  BY <1>1, <1>4, <1>5, StepOf
  DEF LoadNothing, TypeOK, serverVars, loopVars, pickVars

\* fzf shows what the reload has read.
LEMMA ShowRowsKeeps ==
  ASSUME IInv, NEW p \in Picker, ShowRows(p)
  PROVE  IInv'
<1>1. TypeOK /\ Promise(p)
  BY DEF IInv
<1>2. reload[p] \in Shown /\ Len(reload[p]) = 3 /\ reload[p] # <<>>
  <2>1. reload[p] \in Reloads /\ Len(reload[p]) = 3
    BY <1>1 DEF TypeOK, ShowRows
  <2>2. reload[p] # <<>> /\ Len(reload[p]) # 2
    <3>1. reload[p] # <<>>
      <4> SUFFICES ASSUME reload[p] = <<>> PROVE FALSE
        OBVIOUS
      <4> QED
        BY <2>1
    <3>2. Len(reload[p]) # 2
      BY <2>1
    <3> QED
      BY <3>1, <3>2
  <2>3. reload[p] \in Shown
    BY <2>1, <2>2, ReloadShape, Zenon
  <2> QED
    BY <2>1, <2>2, <2>3
<1>3. view'[p] = reload[p] /\ reload'[p] = <<>>
  BY <1>1 DEF ShowRows, TypeOK
<1>4. TypeOK'
  <2>1. view' \in [Picker -> Shown] /\ reload' \in [Picker -> Reloads]
    BY <1>1, <1>2, ReloadShape DEF ShowRows, TypeOK
  <2> QED
    BY <1>1, <2>1, Zenon DEF ShowRows, TypeOK, serverVars, loopVars, pickVars
<1>5. Promise(p)'
  <2>1. Owed(p)'
    BY <1>1 DEF Promise, Owed, Watches, ShowRows, serverVars, loopVars, pickVars
  <2>2. Delivered(p)'
    BY <1>1, <1>2, <1>3, ReloadShape
    DEF Promise, Delivered, ShowRows, serverVars, loopVars
  <2>3. OwnWidth(p)' /\ Reloading(p)'
    BY <1>1, <1>2, <1>3
    DEF Promise, OwnWidth, Reloading, ShowRows, pickVars
  <2> QED
    BY <2>1, <2>2, <2>3 DEF Promise
<1> QED
  BY <1>1, <1>4, <1>5, StepOf
  DEF ShowRows, TypeOK, serverVars, loopVars, pickVars

-----------------------------------------------------------------------------
(* The steps of the loop.                                                  *)

\* Until it has read a generation the loop owes nothing.
LEMMA FirstReadKeeps ==
  ASSUME IInv, NEW p \in Picker, FirstRead(p)
  PROVE  IInv'
<1>1. TypeOK /\ Promise(p)
  BY DEF IInv
<1>2. TypeOK'
  <2>1. /\ lastGen' \in [Picker -> Nat]
        /\ loop' \in [Picker -> {"off", "first", "sleep", "post"}]
    BY <1>1 DEF FirstRead, TypeOK
  <2> QED
    BY <1>1, <2>1, Zenon DEF FirstRead, TypeOK, serverVars, fzfVars, pickVars
<1>3. due[p] = -1
  BY <1>1 DEF Promise, Owed, Watches, FirstRead
<1>4. /\ lastGen'[p] = gen /\ gen \in Nat /\ reload[p] \in Reloads
      /\ view[p][3] \in Nat \union {-1} /\ version \in Nat
  <2>1. view[p] \in Shown
    BY <1>1 DEF TypeOK
  <2> QED
    BY <1>1, <2>1 DEF FirstRead, TypeOK, Shown
<1>5. Owed(p)'
  BY <1>3, <1>4 DEF Owed, FirstRead, serverVars
<1>6. Delivered(p)'
  <2>1. \/ reload[p] = <<>>
        \/ Len(reload[p]) = 2
        \/ Len(reload[p]) = 3 /\ reload[p][3] \in Nat \union {-1}
    BY <1>4, ReloadShape, Zenon
  <2> QED
    BY <1>3, <1>4, <2>1 DEF Delivered, FirstRead, fzfVars
<1>7. OwnWidth(p)' /\ Reloading(p)'
  BY <1>1 DEF Promise, OwnWidth, Reloading, FirstRead, fzfVars, pickVars
<1> QED
  BY <1>1, <1>2, <1>5, <1>6, <1>7, StepOf
  DEF Promise, FirstRead, TypeOK, serverVars, fzfVars, pickVars

\* A generation that was read is posted.
LEMMA PollKeeps ==
  ASSUME IInv, NEW p \in Picker, Poll(p)
  PROVE  IInv'
<1>1. TypeOK /\ Promise(p)
  BY DEF IInv
<1>2. TypeOK'
  <2>1. /\ lastGen' \in [Picker -> Nat]
        /\ loop' \in [Picker -> {"off", "first", "sleep", "post"}]
    BY <1>1 DEF Poll, TypeOK
  <2> QED
    BY <1>1, <2>1, Zenon DEF Poll, TypeOK, serverVars, fzfVars, pickVars
<1>3. lastGen'[p] = gen /\ loop'[p] = "post" /\ gen \in Nat
  BY <1>1 DEF Poll, TypeOK
<1>4. Owed(p)' /\ Delivered(p)'
  BY <1>1, <1>3
  DEF Promise, Owed, Delivered, Watches, Poll, serverVars, pickVars
<1>5. OwnWidth(p)' /\ Reloading(p)'
  BY <1>1 DEF Promise, OwnWidth, Reloading, Poll, fzfVars, pickVars
<1> QED
  BY <1>1, <1>2, <1>4, <1>5, StepOf
  DEF Promise, Poll, TypeOK, serverVars, fzfVars, pickVars

\* A post that is lost found no fzf that p could owe a table.
LEMMA PostKeeps ==
  ASSUME IInv, NEW p \in Picker, Post(p)
  PROVE  IInv'
<1>1. TypeOK
  BY DEF IInv
<1>2. cols[p] \in Width
  BY <1>1 DEF TypeOK
<1>3. /\ <<"active", cols[p]>> \in Reloads /\ Len(<<"active", cols[p]>>) = 2
      /\ <<"active", cols[p]>> # <<>> /\ <<"active", cols[p]>>[2] = cols[p]
  BY <1>2, ReloadShape DEF Views
<1>4. /\ owner \in Picker => reload'[owner] = <<"active", cols[p]>>
      /\ \A q \in Picker : q # owner => reload'[q] = reload[q]
  BY <1>1, NobodyAssumption DEF Post, TypeOK
<1>5. TypeOK'
  <2>1. reload' \in [Picker -> Reloads]
    BY <1>1, <1>3, <1>4 DEF Post, TypeOK
  <2>2. visited' \subseteq Picker
    BY <1>1 DEF Post, TypeOK
  <2>3. loop' \in [Picker -> {"off", "first", "sleep", "post"}]
    BY <1>1 DEF Post, TypeOK
  <2> QED
    BY <1>1, <2>1, <2>2, <2>3, Zenon DEF Post, TypeOK, serverVars
<1>6. ASSUME NEW q \in Picker
      PROVE  Promise(q)'
  <2>1. Promise(q)
    BY DEF IInv
  <2>2. q \in visited => q \in visited'
    BY DEF Post
  <2>3. /\ pc'[q] = pc[q] /\ cols'[q] = cols[q] /\ view'[q] = view[q]
        /\ lastGen'[q] = lastGen[q] /\ due'[q] = due[q]
        /\ version' = version /\ gen' = gen /\ owner' = owner
    BY DEF Post, serverVars
  <2>4. loop'[q] = IF q = p THEN "sleep" ELSE loop[q]
    BY <1>1 DEF Post, TypeOK
  <2>5. Owed(q)'
    BY <2>1, <2>3, <2>4 DEF Promise, Owed, Watches, Post
  <2>6. CASE q = owner
    <3>1. reload'[q] = <<"active", cols[p]>> /\ pc[q] = "open"
      BY <1>1, <1>4, <2>6 DEF TypeOK
    <3>2. Delivered(q)' /\ Reloading(q)'
      BY <1>3, <2>3, <3>1 DEF Delivered, Reloading
    <3>3. OwnWidth(q)'
      <4>1. CASE q = p
        BY <1>3, <2>1, <2>2, <2>3, <3>1, <4>1 DEF Promise, OwnWidth
      <4>2. CASE q # p
        <5>1. q \in visited'
          BY <2>6, <4>2, NobodyAssumption DEF Post
        <5> QED
          BY <5>1 DEF OwnWidth
      <4> QED
        BY <4>1, <4>2
    <3> QED
      BY <2>5, <3>2, <3>3 DEF Promise
  <2>7. CASE q # owner
    <3>1. reload'[q] = reload[q]
      BY <1>4, <2>7
    <3>2. due[q] = -1
      BY <1>1, <2>1, <2>7 DEF Promise, Owed, Watches, TypeOK
    <3>3. OwnWidth(q)' /\ Reloading(q)'
      BY <2>1, <2>2, <2>3, <3>1 DEF Promise, OwnWidth, Reloading
    <3>4. Delivered(q)'
      <4>1. reload[q] = <<>>
        BY <1>1, <2>1, <2>7 DEF Promise, Reloading, TypeOK
      <4>2. view[q] \in Shown
        BY <1>1 DEF TypeOK
      <4>3. view[q][3] \in Nat \union {-1}
        BY <4>2 DEF Shown
      <4> QED
        BY <2>3, <3>1, <3>2, <4>1, <4>3 DEF Delivered
    <3> QED
      BY <2>5, <3>3, <3>4 DEF Promise
  <2> QED
    BY <2>6, <2>7
<1> QED
  BY <1>5, <1>6 DEF IInv

-----------------------------------------------------------------------------
LEMMA NextKeeps == IInv /\ [Next]_vars => IInv'
<1> SUFFICES ASSUME IInv, [Next]_vars PROVE IInv'
  OBVIOUS
<1>1. CASE BeginCommit \/ Commit \/ Announce \/ ServerDies
  BY <1>1, BeginCommitKeeps, CommitKeeps, AnnounceKeeps, ServerDiesKeeps
<1>2. ASSUME NEW p \in Picker, Open(p) \/ Quit(p)
      PROVE  IInv'
  BY <1>2, OpenKeeps, CloseKeeps DEF Quit
<1>3. ASSUME NEW p \in Picker, FzfStep(p)
      PROVE  IInv'
  BY <1>3, ListenKeeps, CloseKeeps, LoadRowsKeeps, LoadNothingKeeps,
     ShowRowsKeeps DEF FzfStep, PortTaken
<1>4. ASSUME NEW p \in Picker, LoopStep(p)
      PROVE  IInv'
  BY <1>4, FirstReadKeeps, PollKeeps, PostKeeps DEF LoopStep
<1>5. ASSUME NEW p \in Picker, NEW m \in Views, Toggle(p, m)
      PROVE  IInv'
  BY <1>5, ToggleKeeps
<1>6. CASE UNCHANGED vars
  BY <1>6
  DEF IInv, TypeOK, Promise, Owed, Delivered, OwnWidth, Reloading, Watches,
      vars, serverVars, fzfVars, pickVars, loopVars
<1> QED
  BY <1>1, <1>2, <1>3, <1>4, <1>5, <1>6 DEF Next

LEMMA Invariance == Spec => []IInv
BY InitInv, NextKeeps, PTL DEF Spec

\* Every variable keeps its type, and the picker whose fzf listens on the
\* port is the open one.
THEOREM PickerTypes == Spec => []TypeOK
<1>1. IInv => TypeOK
  BY DEF IInv
<1> QED
  BY <1>1, Invariance, PTL

\* A picker at rest shows the last table that was announced to it, however
\* many pickers start beside it and post to its port (_state_watcher).
THEOREM QuietPickerIsCurrent == Spec => []QuietIsCurrent
<1>1. IInv => QuietIsCurrent
  <2> SUFFICES ASSUME IInv, NEW p \in Picker, loop[p] = "sleep",
                      lastGen[p] = gen, reload[p] = <<>>
               PROVE  due[p] <= view[p][3]
    BY DEF QuietIsCurrent
  <2>1. Delivered(p)
    BY DEF IInv, Promise
  <2>2. Len(reload[p]) = 0
    BY ReloadShape
  <2> QED
    BY <2>1, <2>2 DEF Delivered
<1> QED
  BY <1>1, Invariance, PTL

\* The rows of a picker fit in its pane and are readable, on a pane of any
\* width, unless another picker posted to its port (lines 70 to 148, 425).
THEOREM LayoutOfPickers == Spec => []LayoutHolds
<1>1. IInv => LayoutHolds
  <2> SUFFICES ASSUME IInv, NEW p \in Picker, p \notin visited
               PROVE  /\ cols[p] >= 40 => RowWidth(view[p][2]) <= cols[p]
                      /\ Readable(view[p][2])
    BY DEF LayoutHolds
  <2>1. view[p][2] = cols[p]
    BY DEF IInv, Promise, OwnWidth
  <2>2. cols[p] \in Nat
    <3>1. cols[p] \in Width
      BY DEF IInv, TypeOK
    <3>2. CASE cols[p] \in Cols
      BY <3>2, ColsAssumption
    <3>3. CASE cols[p] = 0
      BY <3>3
    <3> QED
      BY <3>1, <3>2, <3>3 DEF Width
  <2>3. Fits(cols[p]) /\ Readable(cols[p])
    BY <2>2, RowsFit, ColumnsReadable
  <2> QED
    BY <2>1, <2>3 DEF Fits
<1> QED
  BY <1>1, Invariance, PTL

=============================================================================
