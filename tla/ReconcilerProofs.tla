-------------------------- MODULE ReconcilerProofs --------------------------
(***************************************************************************)
(* Proofs about Reconciler, for any number of goroutines, any rows, any    *)
(* bound: type correctness, the inductive invariant, the safety properties *)
(* of the module and that it implements Publication.                       *)
(***************************************************************************)
EXTENDS Reconciler, FiniteSetTheorems, TLAPS

-----------------------------------------------------------------------------
(* The parts of the inductive invariant.                                   *)

\* The sets of rows that computePill counts are finite.
FiniteInv ==
  /\ \A t \in Tool : IsFiniteSet(store[t])
  /\ \A p \in Proc : IsFiniteSet(allPanes[p])

\* Between Lock() and Unlock() there is the holder of r.mu and nobody else.
HolderInv == \A p \in Proc : pc[p] \in Holding <=> lock = p

\* No goroutine without a process; main() reconciles once, while starting.
ProcessInv ==
  /\ ~Running => \A p \in Proc : pc[p] = "idle"
  /\ phase = "starting" <=> pc[Main] # "idle"

\* The generation of the process is not behind the option's, unless it could
\* not be read.
GenInv ==
  /\ Running /\ ~misread => optGen <= gen
  /\ ~tmux => optGen = 0

\* What the holder has read is at least as new as what the database shows.
VersionInv ==
  /\ \A t \in Tool : shownVer[t] <= ver[t]
  /\ \A p \in Proc, t \in Tool : seenVer[p][t] <= ver[t]
  /\ \A p \in Proc :
       /\ pc[p] \in {"opencode", "names", "write"}
            => shownVer["claude"] <= seenVer[p]["claude"]
       /\ pc[p] \in {"names", "write"}
            => shownVer["opencode"] <= seenVer[p]["opencode"]

Owed    == \E p \in Proc : pc[p] = "owes"
Pending == \E p \in Proc : pc[p] \in {"owes"} \union BeforeWrite

\* A store holds rows of its own tool.
StoreInv == \A t \in Tool : \A r \in store[t] : r.tool = t

\* What the holder has read of a store is what the store holds, unless the
\* store has moved on.
ReadInv ==
  \A p \in Proc :
    /\ pc[p] \in {"idle", "owes", "claude"} => allPanes[p] = {}
    /\ pc[p] = "opencode" =>
         /\ \A r \in allPanes[p] : r.tool = "claude"
         /\ seenVer[p]["claude"] = ver["claude"]
              => allPanes[p] = store["claude"]
    /\ pc[p] = "names" =>
         \A t \in Tool :
           seenVer[p][t] = ver[t] => RowsOf(t, allPanes[p]) = store[t]
    /\ pc[p] = "write" =>
         /\ seenVer[p] = ver => SameButTitles(allPanes[p], AllRows)
         /\ \A t \in Tool : pills[p][t] # NoPill
         /\ \A t \in Tool :
              seenVer[p][t] = ver[t] => pills[p][t] = ComputePill(store[t], t)

\* Stores that goroutine p, which holds r.mu, has read.
HasRead(p, t) ==
  pc[p] \in {"names", "write"} \/ (pc[p] = "opencode" /\ t = "claude")

\* A mutation that is owed a Reconcile() is in what the holder has read, or
\* somebody is going to reconcile after it.
OwedInv ==
  /\ \A t \in Tool : owed[t] <= ver[t]
  /\ \A p \in Proc, t \in Tool :
       HasRead(p, t) => Owed \/ owed[t] <= seenVer[p][t]

\* The pills of the holder that sets them are the committed snapshot's.
PillInv ==
  /\ \A p \in Proc : pc[p] \in {"pills", "gen"} =>
       /\ pills[p] = shownPill
       /\ \A t \in Tool : t \notin todo[p] =>
            prevPill[t] = shownPill[t]
  /\ \A p \in Proc : pc[p] # "pills" => todo[p] = {}
  /\ PrevPillOfSnapshot
  /\ \A t \in Tool \ missed : prevPill[t] # NoPill => optPill[t] = prevPill[t]

\* The snapshot in the database is of the stores as long as they have not
\* moved on.
ShownInv ==
  /\ shownVer = ver => DatabaseShows(AllRows)
  /\ \A t \in Tool :
       /\ shownPill[t] # NoPill
       /\ shownVer[t] = ver[t] => shownPill[t] = ComputePill(store[t], t)

\* With no reconciliation on its way to a commit, the database has all that
\* was owed to it, and prevPill has the pills of its snapshot or will.
FreshInv ==
  Running /\ ~lostWrite /\ ~Pending =>
    \A t \in Tool :
      /\ owed[t] <= shownVer[t]
      /\ \/ prevPill[t] = shownPill[t]
         \/ \E p \in Proc : pc[p] = "pills" /\ t \in todo[p]

-----------------------------------------------------------------------------
(* Type correctness.                                                       *)

\* computePill of finitely many rows is a pill: a count is positive unless the
\* state is idle.
LEMMA PillType ==
  ASSUME NEW rows, IsFiniteSet(rows), NEW t
  PROVE  ComputePill(rows, t) \in Pill
<1> DEFINE mine       == RowsOf(t, rows)
           running    == {r \in mine : r.state = "running"}
           permission == {r \in mine : r.state = "permission"}
<1>1. IsFiniteSet(mine) /\ IsFiniteSet(running) /\ IsFiniteSet(permission)
  BY FS_Subset DEF RowsOf
<1>2. /\ mine # {} => Cardinality(mine) \in Nat \ {0}
      /\ running # {} => Cardinality(running) \in Nat \ {0}
      /\ permission # {} => Cardinality(permission) \in Nat \ {0}
  BY <1>1, FS_CardinalityType, FS_EmptySet
<1> QED
  BY <1>2 DEF ComputePill, Pill

\* A goroutine's own variables, when it returns.
LEMMA UnlockType ==
  ASSUME TypeOK, FiniteInv, NEW p \in Proc, Unlock(p)
  PROVE  /\ phase' \in {"starting", "up", "closing", "down", "stopped"}
         /\ pc' \in [Proc -> PC] /\ lock' \in Proc \union {NoProc}
         /\ allPanes' \in [Proc -> SUBSET Row]
         /\ seenVer' \in [Proc -> [Tool -> Nat]]
         /\ pills' \in [Proc -> [Tool -> Pill \union {NoPill}]]
         /\ \A q \in Proc : IsFiniteSet(allPanes'[q])
<1>1. NoVersions \in [Tool -> Nat] /\ NoPills \in [Tool -> Pill \union {NoPill}]
  BY DEF NoVersions, NoPills
<1>2. IsFiniteSet({})
  BY FS_EmptySet
<1> QED
  BY <1>1, <1>2 DEF Unlock, TypeOK, FiniteInv, PC

\* The types hold before the first server process.
THEOREM InitType == Init => TypeOK /\ FiniteInv
<1> SUFFICES ASSUME Init PROVE TypeOK /\ FiniteInv
  OBVIOUS
<1>1. NoVersions \in [Tool -> Nat] /\ NoPills \in [Tool -> Pill \union {NoPill}]
  BY DEF NoVersions, NoPills
<1>2. TypeOK
  <2>1. \A t : ComputePill({}, t) \in Pill
    BY FS_EmptySet, PillType
  <2> QED
    BY <1>1, <2>1 DEF Init, TypeOK, PC
<1>3. FiniteInv
  BY FS_EmptySet DEF Init, FiniteInv
<1> QED
  BY <1>2, <1>3

\* Every action keeps the types, and the counted sets of rows finite.
THEOREM TypeStep ==
  ASSUME TypeOK, FiniteInv, [Next]_vars
  PROVE  TypeOK' /\ FiniteInv'
<1> USE DEF memVars, localVars, dbVars, tmuxVars
<1>0. NoVersions \in [Tool -> Nat] /\ NoPills \in [Tool -> Pill \union {NoPill}]
  BY DEF NoVersions, NoPills
<1>1. ASSUME NEW p \in Proc, Acquire(p) PROVE TypeOK' /\ FiniteInv'
  <2>1. TypeOK'
    BY <1>1 DEF Acquire, TypeOK, PC, Holding, BeforeWrite
  <2>2. FiniteInv'
    BY <1>1 DEF Acquire, TypeOK, FiniteInv
  <2> QED
    BY <2>1, <2>2
<1>2. ASSUME NEW p \in Proc, NEW t \in Tool,
             NEW next \in {"opencode", "names"}, ReadProvider(p, t, next)
      PROVE  TypeOK' /\ FiniteInv'
  <2>1. TypeOK'
    BY <1>2 DEF ReadProvider, TypeOK, PC, Holding, BeforeWrite
  <2>2. IsFiniteSet(allPanes[p]) /\ IsFiniteSet(store[t])
    BY <1>2 DEF ReadProvider, FiniteInv, Tool
  <2>3. IsFiniteSet(allPanes[p] \union store[t])
    BY <2>2, FS_Union
  <2>4. FiniteInv'
    BY <1>2, <2>3 DEF ReadProvider, TypeOK, FiniteInv
  <2> QED
    BY <2>1, <2>4
<1>3. ASSUME NEW p \in Proc, CacheNames(p) PROVE TypeOK' /\ FiniteInv'
  <2>1. [t \in Tool |-> ComputePill(allPanes[p], t)]
          \in [Tool -> Pill \union {NoPill}]
    <3>1. IsFiniteSet(allPanes[p])
      BY <1>3 DEF CacheNames, FiniteInv
    <3> QED
      BY <3>1, PillType
  <2>2. PICK R \in Cacheable(allPanes[p]) :
          /\ names' \in Cached(R)
          /\ \E f \in Looked(allPanes[p], R) :
               allPanes' = [allPanes EXCEPT ![p] =
                              {[r EXCEPT !.name = f[r]] : r \in @}]
    BY <1>3 DEF CacheNames
  <2>3. PICK f \in Looked(allPanes[p], R) :
          allPanes' = [allPanes EXCEPT ![p] =
                         {[r EXCEPT !.name = f[r]] : r \in @}]
    BY <2>2
  <2>4. {[r EXCEPT !.name = f[r]] : r \in allPanes[p]} \in SUBSET Row
    <3>1. allPanes[p] \in SUBSET Row
      BY DEF TypeOK
    <3>2. f \in [allPanes[p] -> Name \union {NoName}]
      BY DEF Looked
    <3>3. ASSUME NEW r \in allPanes[p] PROVE [r EXCEPT !.name = f[r]] \in Row
      BY <3>1, <3>2 DEF Row
    <3> QED
      BY <3>3
  <2>5. allPanes' \in [Proc -> SUBSET Row]
    BY <2>3, <2>4 DEF TypeOK
  <2>6. names' \in [Tool -> [Sid -> Name \union {NoName}]]
    BY <2>2 DEF Cached
  <2>7. TypeOK'
    BY <1>3, <2>1, <2>5, <2>6
       DEF CacheNames, TypeOK, PC, Holding, BeforeWrite
  <2>8. FiniteInv'
    <3> DEFINE G == [r \in allPanes[p] |-> [r EXCEPT !.name = f[r]]]
               T == {[r EXCEPT !.name = f[r]] : r \in allPanes[p]}
    <3>1. G \in Surjection(allPanes[p], T)
      BY DEF Surjection
    <3>2. IsFiniteSet(T)
      BY <3>1, FS_Surjection DEF FiniteInv
    <3> QED
      BY <1>3, <2>3, <3>2 DEF CacheNames, TypeOK, FiniteInv
  <2> QED
    BY <2>7, <2>8
<1>4. ASSUME NEW p \in Proc, CommitSnapshot(p) PROVE TypeOK' /\ FiniteInv'
  <2>1. panes' \in SUBSET Row
    BY <1>4 DEF CommitSnapshot, Tables, TypeOK
  <2>2. CASE Changed(p)
    <3>1. TypeOK'
      <4>1. pc' \in [Proc -> PC] /\ todo' \in [Proc -> SUBSET Tool]
        BY <1>4, <2>2 DEF CommitSnapshot, TypeOK, PC, Holding
      <4>2. gen' \in Nat /\ UNCHANGED <<phase, lock, allPanes, seenVer, pills>>
        BY <1>4, <2>2 DEF CommitSnapshot, TypeOK
      <4>3. shownVer' \in [Tool -> Nat]
            /\ shownPill' \in [Tool -> Pill \union {NoPill}]
        BY <1>4 DEF CommitSnapshot, TypeOK
      <4> QED
        BY <1>4, <2>1, <4>1, <4>2, <4>3 DEF CommitSnapshot, TypeOK
    <3>2. FiniteInv'
      BY <1>4, <2>2 DEF CommitSnapshot, TypeOK, FiniteInv
    <3> QED
      BY <3>1, <3>2
  <2>3. CASE ~Changed(p)
    <3>1. Unlock(p)
      BY <1>4, <2>3 DEF CommitSnapshot
    <3>2. TypeOK'
      BY <1>4, <2>1, <2>3, <3>1, UnlockType DEF CommitSnapshot, TypeOK
    <3>3. FiniteInv'
      BY <1>4, <3>1, UnlockType DEF CommitSnapshot, FiniteInv
    <3> QED
      BY <3>2, <3>3
  <2> QED
    BY <2>2, <2>3
<1>5. ASSUME NEW p \in Proc, FailSnapshot(p) PROVE TypeOK' /\ FiniteInv'
  <2>1. Unlock(p)
    BY <1>5 DEF FailSnapshot
  <2>2. TypeOK'
    BY <1>5, <2>1, UnlockType DEF FailSnapshot, TypeOK
  <2>3. FiniteInv'
    BY <1>5, <2>1, UnlockType DEF FailSnapshot, FiniteInv
  <2> QED
    BY <2>2, <2>3
<1>6. ASSUME NEW p \in Proc, NEW t \in Tool, SetPill(p, t)
      PROVE  TypeOK' /\ FiniteInv'
  <2>1. TypeOK'
    BY <1>6 DEF SetPill, SetOption, TypeOK, PC, Holding, BeforeWrite
  <2>2. FiniteInv'
    BY <1>6 DEF SetPill, TypeOK, FiniteInv
  <2> QED
    BY <2>1, <2>2
<1>7. ASSUME NEW p \in Proc, SetGen(p) PROVE TypeOK' /\ FiniteInv'
  <2>1. Unlock(p)
    BY <1>7 DEF SetGen
  <2>2. TypeOK'
    BY <1>7, <2>1, UnlockType DEF SetGen, TypeOK
  <2>3. FiniteInv'
    BY <1>7, <2>1, UnlockType DEF SetGen, FiniteInv
  <2> QED
    BY <2>2, <2>3
<1>8. ASSUME NEW p \in Proc, NEW t \in Tool, Mutate(p, t)
      PROVE  TypeOK' /\ FiniteInv'
  <2>1. PICK R \in Contents[t] : store' = [store EXCEPT ![t] = R]
    BY <1>8 DEF Mutate
  <2>2. R \in SUBSET Row /\ IsFiniteSet(R)
    BY ContentsAssumption
  <2>3. TypeOK'
    BY <1>8, <2>1, <2>2 DEF Mutate, TypeOK, PC
  <2>4. FiniteInv'
    BY <1>8, <2>1, <2>2 DEF Mutate, TypeOK, FiniteInv
  <2> QED
    BY <2>3, <2>4
<1>9. CASE Start
  <2>1. TypeOK'
    <3>1. starts' \in Nat
      BY <1>9 DEF Start, TypeOK
    <3>4. gen' \in {0, optGen} /\ misread' \in BOOLEAN
      BY <1>9 DEF Start, ReadGen
    <3>5. gen' \in Nat /\ misread' \in BOOLEAN
      BY <3>4 DEF TypeOK
    <3>2. store' \in [Tool -> SUBSET Row] /\ ver' \in [Tool -> Nat]
          /\ owed' \in [Tool -> Nat]
      BY <1>9 DEF Start, TypeOK
    <3>3. pc' \in [Proc -> PC]
      BY <1>9 DEF Start, TypeOK, PC
    <3> QED
      BY <1>0, <1>9, <3>1, <3>2, <3>3, <3>5 DEF Start, TypeOK
  <2>2. FiniteInv'
    BY <1>9, FS_EmptySet DEF Start, FiniteInv
  <2> QED
    BY <2>1, <2>2
<1>10. CASE Crash \/ Exit
  <2>1. Vanish /\ phase' \in {"down", "stopped"}
    BY <1>10 DEF Crash, Exit
  <2>2. TypeOK'
    BY <1>0, <2>1 DEF Vanish, TypeOK, PC
  <2>3. FiniteInv'
    BY <2>1, FS_EmptySet DEF Vanish, FiniteInv
  <2> QED
    BY <2>2, <2>3
<1>11. CASE Shutdown
  BY <1>11 DEF Shutdown, TypeOK, FiniteInv
<1>12. CASE TmuxStart
  BY <1>12 DEF TmuxStart, TypeOK, FiniteInv
<1>13. CASE TmuxExit
  BY <1>0, <1>13 DEF TmuxExit, TypeOK, FiniteInv
<1>14. CASE UNCHANGED vars
  BY <1>14 DEF vars, TypeOK, FiniteInv
<1>15. CASE FetchInitial
  <2>1. PICK R \in Contents["opencode"] :
          store' = [store EXCEPT !["opencode"] = R]
    BY <1>15 DEF FetchInitial
  <2>2. R \in SUBSET Row /\ IsFiniteSet(R)
    BY ContentsAssumption DEF Tool
  <2>3. TypeOK'
    BY <1>15, <2>1, <2>2 DEF FetchInitial, TypeOK, Tool
  <2>4. FiniteInv'
    BY <1>15, <2>1, <2>2 DEF FetchInitial, TypeOK, FiniteInv, Tool
  <2> QED
    BY <2>3, <2>4
<1> QED
  BY <1>1, <1>2, <1>3, <1>4, <1>5, <1>6, <1>7, <1>8, <1>9, <1>10, <1>11, <1>12,
     <1>13, <1>14, <1>15
     DEF Next, HolderStep, Tool

\* Every variable keeps its type, whatever the instance.
THEOREM TypeCorrect == Spec => []TypeOK
<1>1. Init => TypeOK /\ FiniteInv
  BY InitType
<1>2. TypeOK /\ FiniteInv /\ [Next]_vars => (TypeOK /\ FiniteInv)'
  BY TypeStep
<1> QED
  BY <1>1, <1>2, PTL DEF Spec

-----------------------------------------------------------------------------
(* Mutual exclusion, and the life of the process.                          *)

MutexInv == HolderInv /\ ProcessInv

\* The change a HolderStep that does not return makes to the control state.
LEMMA StayHolding ==
  ASSUME TypeOK, MutexInv, NEW p \in Proc, pc[p] \in Holding,
         UNCHANGED <<phase, lock>>,
         \E next \in Holding : pc' = [pc EXCEPT ![p] = next]
  PROVE  MutexInv'
  BY DEF TypeOK, MutexInv, HolderInv, ProcessInv, Running, Holding, BeforeWrite

\* The deferred Unlock() leaves nobody between Lock() and Unlock().
LEMMA ReturnHolding ==
  ASSUME TypeOK, MutexInv, NEW p \in Proc, pc[p] \in Holding, Unlock(p)
  PROVE  MutexInv'
<1>1. HolderInv'
  BY ProcAssumption
     DEF Unlock, TypeOK, MutexInv, HolderInv, Holding, BeforeWrite
<1>2. ProcessInv'
  <2>1. Running
    BY DEF MutexInv, ProcessInv, Holding, BeforeWrite
  <2>2. CASE p = Main
    BY <2>2 DEF Unlock, TypeOK, ProcessInv, Running
  <2>3. CASE p # Main
    BY <2>1, <2>3, ProcAssumption
       DEF Unlock, TypeOK, MutexInv, ProcessInv, Running
  <2> QED
    BY <2>2, <2>3
<1> QED
  BY <1>1, <1>2 DEF MutexInv

\* Every action keeps r.mu with the one goroutine that reconciles.
THEOREM MutexStep ==
  ASSUME TypeOK, MutexInv, [Next]_vars
  PROVE  MutexInv'
<1> USE DEF memVars, localVars, dbVars, tmuxVars
<1>1. ASSUME NEW p \in Proc, Acquire(p) PROVE MutexInv'
  <2>1. lock = NoProc /\ pc[p] = "owes" /\ pc' = [pc EXCEPT ![p] = "claude"]
        /\ lock' = p /\ phase' = phase
    BY <1>1 DEF Acquire
  <2>2. HolderInv'
    BY <2>1, ProcAssumption DEF TypeOK, MutexInv, HolderInv, Holding, BeforeWrite
  <2>3. ProcessInv'
    BY <2>1 DEF TypeOK, MutexInv, ProcessInv, Running
  <2> QED
    BY <2>2, <2>3 DEF MutexInv
<1>2. ASSUME NEW p \in Proc, NEW t \in Tool,
             NEW next \in {"opencode", "names"}, ReadProvider(p, t, next)
      PROVE  MutexInv'
  BY <1>2, StayHolding DEF ReadProvider, Holding, BeforeWrite, Tool
<1>3. ASSUME NEW p \in Proc, CacheNames(p) PROVE MutexInv'
  BY <1>3, StayHolding DEF CacheNames, Holding, BeforeWrite
<1>4. ASSUME NEW p \in Proc, CommitSnapshot(p) PROVE MutexInv'
  BY <1>4, StayHolding, ReturnHolding
     DEF CommitSnapshot, Holding, BeforeWrite
<1>5. ASSUME NEW p \in Proc, FailSnapshot(p) PROVE MutexInv'
  BY <1>5, ReturnHolding DEF FailSnapshot, Holding, BeforeWrite
<1>6. ASSUME NEW p \in Proc, NEW t \in Tool, SetPill(p, t) PROVE MutexInv'
  <2>1. pc' = [pc EXCEPT ![p] = IF todo[p] = {t} THEN "gen" ELSE "pills"]
    BY <1>6 DEF SetPill, TypeOK
  <2> QED
    BY <1>6, <2>1, StayHolding DEF SetPill, Holding
<1>7. ASSUME NEW p \in Proc, SetGen(p) PROVE MutexInv'
  BY <1>7, ReturnHolding DEF SetGen, Holding
<1>8. ASSUME NEW p \in Proc, NEW t \in Tool, Mutate(p, t) PROVE MutexInv'
  BY <1>8 DEF Mutate, TypeOK, MutexInv, HolderInv, ProcessInv, Running,
              Holding, BeforeWrite
<1>9. CASE Start
  BY <1>9, ProcAssumption
     DEF Start, TypeOK, MutexInv, HolderInv, ProcessInv, Running, Holding,
         BeforeWrite
<1>10. CASE Crash \/ Exit
  BY <1>10, ProcAssumption
     DEF Crash, Exit, Vanish, MutexInv, HolderInv, ProcessInv, Running,
         Holding, BeforeWrite
<1>11. CASE Shutdown
  BY <1>11 DEF Shutdown, MutexInv, HolderInv, ProcessInv, Running
<1>12. CASE FetchInitial \/ TmuxStart \/ TmuxExit \/ UNCHANGED vars
  BY <1>12 DEF FetchInitial, TmuxStart, TmuxExit, vars, MutexInv, HolderInv,
               ProcessInv, Running
<1> QED
  BY <1>1, <1>2, <1>3, <1>4, <1>5, <1>6, <1>7, <1>8, <1>9, <1>10, <1>11, <1>12
     DEF Next, HolderStep, Tool

\* At first nobody holds r.mu.
THEOREM InitMutex == Init => MutexInv
  BY ProcAssumption
     DEF Init, MutexInv, HolderInv, ProcessInv, Running, Holding, BeforeWrite

-----------------------------------------------------------------------------
(* The generation.                                                         *)

\* At first no generation is published.
THEOREM InitGen == Init => GenInv
  BY DEF Init, GenInv, Running

\* Every action keeps r.gen at or ahead of @agents-gen: NewReconciler resumes
\* from the option, and a lost tmux server takes its options with it.
THEOREM GenStep ==
  ASSUME TypeOK, MutexInv, GenInv, [Next]_vars
  PROVE  GenInv' /\ (tmux /\ tmux' /\ ~misread => optGen' >= optGen)
<1> USE DEF memVars, localVars, dbVars, tmuxVars
<1> DEFINE Goal ==
             GenInv' /\ (tmux /\ tmux' /\ ~misread => optGen' >= optGen)
<1>1. ASSUME NEW p \in Proc, Acquire(p) \/ CacheNames(p) PROVE Goal
  BY <1>1 DEF Acquire, CacheNames, TypeOK, GenInv, Running
<1>2. ASSUME NEW p \in Proc, NEW t \in Tool, NEW next, ReadProvider(p, t, next)
      PROVE  Goal
  BY <1>2 DEF ReadProvider, TypeOK, GenInv, Running
<1>3. ASSUME NEW p \in Proc, pc[p] # "idle", Unlock(p) PROVE Running /\ Running'
  BY <1>3 DEF Unlock, MutexInv, ProcessInv, Running
<1>4. ASSUME NEW p \in Proc, CommitSnapshot(p) PROVE Goal
  <2>1. Running
    BY <1>4 DEF CommitSnapshot, MutexInv, ProcessInv, Running
  <2>2. gen' >= gen
    BY <1>4 DEF CommitSnapshot, TypeOK
  <2>3. UNCHANGED <<tmux, optGen, misread>>
    BY <1>4 DEF CommitSnapshot
  <2>4. gen' \in Nat
    BY <1>4 DEF CommitSnapshot, TypeOK
  <2> QED
    BY <2>1, <2>2, <2>3, <2>4 DEF GenInv, TypeOK
<1>5. ASSUME NEW p \in Proc, FailSnapshot(p) PROVE Goal
  <2>1. Running
    BY <1>3, <1>5 DEF FailSnapshot
  <2> QED
    BY <1>5, <2>1 DEF FailSnapshot, TypeOK, GenInv
<1>6. ASSUME NEW p \in Proc, NEW t \in Tool, SetPill(p, t) PROVE Goal
  BY <1>6 DEF SetPill, TypeOK, GenInv, Running
<1>7. ASSUME NEW p \in Proc, SetGen(p) PROVE Goal
  <2>1. Running
    BY <1>3, <1>7 DEF SetGen
  <2>2. ~misread => optGen <= gen
    BY <2>1 DEF GenInv
  <2>3. PICK ok \in Accepted : /\ optGen' = IF ok THEN gen ELSE optGen
                               /\ misread' = (misread /\ ~ok)
    BY <1>7 DEF SetGen
  <2>4. UNCHANGED <<gen, tmux>> /\ (ok => tmux) /\ ok \in BOOLEAN
    BY <1>7, <2>3 DEF SetGen, Accepted
  <2> QED
    BY <2>1, <2>2, <2>3, <2>4 DEF TypeOK, GenInv
<1>8. ASSUME NEW p \in Proc, NEW t \in Tool, Mutate(p, t) PROVE Goal
  BY <1>8 DEF Mutate, TypeOK, GenInv, Running
<1>9. CASE Start
  BY <1>9 DEF Start, ReadGen, TypeOK, GenInv
<1>10. CASE Crash \/ Exit
  BY <1>10 DEF Crash, Exit, Vanish, TypeOK, GenInv, Running
<1>11. CASE Shutdown \/ FetchInitial
  BY <1>11 DEF Shutdown, FetchInitial, TypeOK, GenInv, Running
<1>12. CASE TmuxStart
  BY <1>12 DEF TmuxStart, TypeOK, GenInv, Running
<1>13. CASE TmuxExit
  BY <1>13 DEF TmuxExit, TypeOK, GenInv
<1>14. CASE UNCHANGED vars
  BY <1>14 DEF vars, TypeOK, GenInv, Running
<1> QED
  BY <1>1, <1>2, <1>4, <1>5, <1>6, <1>7, <1>8, <1>9, <1>10, <1>11, <1>12,
     <1>13, <1>14
     DEF Next, HolderStep, Tool

\* @agents-gen never goes back while a tmux server lives, except for the first
\* value of a process that could not read it.
THEOREM GenNeverGoesBack == Spec => GenMonotonic
<1>1. Init => TypeOK /\ FiniteInv /\ MutexInv /\ GenInv
  BY InitType, InitMutex, InitGen
<1>2. TypeOK /\ FiniteInv /\ MutexInv /\ GenInv /\ [Next]_vars
        => (TypeOK /\ FiniteInv /\ MutexInv /\ GenInv)'
  BY TypeStep, MutexStep, GenStep
<1>3. TypeOK /\ MutexInv /\ GenInv /\ [Next]_vars
        => [tmux /\ tmux' /\ ~misread => optGen' >= optGen]_vars
  BY GenStep
<1> QED
  BY <1>1, <1>2, <1>3, PTL DEF Spec, GenMonotonic

-----------------------------------------------------------------------------
(* Versions, and that the module implements Publication.                   *)

\* At first no store has a version.
THEOREM InitVersion == Init => VersionInv
  BY DEF Init, VersionInv, NoVersions, Tool

\* A step that changes nothing that VersionInv speaks of.
LEMMA VersionUnchanged ==
  ASSUME VersionInv, UNCHANGED <<ver, seenVer, shownVer>>,
         \A p \in Proc : pc'[p] \in {"opencode", "names", "write"}
                           => pc'[p] = pc[p]
  PROVE  VersionInv'
  BY DEF VersionInv

\* A return forgets the versions the goroutine has read.
LEMMA VersionReturn ==
  ASSUME TypeOK, VersionInv, NEW p \in Proc, Unlock(p), UNCHANGED ver,
         shownVer' = shownVer \/ (pc[p] = "write" /\ shownVer' = seenVer[p]),
         \A q \in Proc : q # p => pc[q] \notin Holding
  PROVE  VersionInv'
<1>1. \A q \in Proc : pc'[q] \notin {"opencode", "names", "write"}
  BY DEF Unlock, TypeOK, Holding, BeforeWrite
<1>2. \A q \in Proc, t \in Tool : seenVer'[q][t] <= ver[t]
  BY DEF Unlock, TypeOK, VersionInv, NoVersions
<1>3. \A t \in Tool : shownVer'[t] <= ver[t]
  BY DEF VersionInv
<1> QED
  BY <1>1, <1>2, <1>3 DEF VersionInv

\* Beside the holder of r.mu nobody is inside Reconcile().
LEMMA OneHolder ==
  ASSUME MutexInv, NEW p \in Proc, pc[p] \in Holding
  PROVE  \A q \in Proc : q # p => pc[q] \notin Holding
  BY DEF MutexInv, HolderInv

\* Every action keeps what the holder has read at least as new as what the
\* database shows: reads under r.mu are in the order of the commits.
THEOREM VersionStep ==
  ASSUME TypeOK, MutexInv, VersionInv, [Next]_vars
  PROVE  VersionInv'
<1> USE DEF memVars, localVars, dbVars, tmuxVars
<1>1. ASSUME NEW p \in Proc, Acquire(p) PROVE VersionInv'
  BY <1>1, VersionUnchanged DEF Acquire, TypeOK
<1>2. ASSUME NEW p \in Proc, ReadProvider(p, "claude", "opencode")
      PROVE  VersionInv'
  <2>1. \A q \in Proc : q # p => pc[q] \notin Holding
    BY <1>2, OneHolder DEF ReadProvider, Holding, BeforeWrite
  <2> QED
    BY <1>2, <2>1 DEF ReadProvider, TypeOK, VersionInv, Tool, Holding, BeforeWrite
<1>3. ASSUME NEW p \in Proc, ReadProvider(p, "opencode", "names")
      PROVE  VersionInv'
  <2>1. \A q \in Proc : q # p => pc[q] \notin Holding
    BY <1>3, OneHolder DEF ReadProvider, Holding, BeforeWrite
  <2> QED
    BY <1>3, <2>1 DEF ReadProvider, TypeOK, VersionInv, Tool, Holding, BeforeWrite
<1>4. ASSUME NEW p \in Proc, CacheNames(p) PROVE VersionInv'
  BY <1>4 DEF CacheNames, TypeOK, VersionInv
<1>5. ASSUME NEW p \in Proc, CommitSnapshot(p) PROVE VersionInv'
  <2>1. \A q \in Proc : q # p => pc[q] \notin Holding
    BY <1>5, OneHolder DEF CommitSnapshot, Holding, BeforeWrite
  <2>2. CASE Changed(p)
    BY <1>5, <2>1, <2>2
       DEF CommitSnapshot, TypeOK, VersionInv, Holding, BeforeWrite
  <2>3. CASE ~Changed(p)
    BY <1>5, <2>1, <2>3, VersionReturn DEF CommitSnapshot
  <2> QED
    BY <2>2, <2>3
<1>6. ASSUME NEW p \in Proc, FailSnapshot(p) \/ SetGen(p) PROVE VersionInv'
  <2>1. \A q \in Proc : q # p => pc[q] \notin Holding
    BY <1>6, OneHolder DEF FailSnapshot, SetGen, Holding, BeforeWrite
  <2> QED
    BY <1>6, <2>1, VersionReturn DEF FailSnapshot, SetGen
<1>7. ASSUME NEW p \in Proc, NEW t \in Tool, SetPill(p, t) PROVE VersionInv'
  BY <1>7, VersionUnchanged DEF SetPill, TypeOK
<1>8. ASSUME NEW t \in Tool, ver' = [ver EXCEPT ![t] = @ + 1],
             UNCHANGED <<seenVer, shownVer>>,
             \A p \in Proc : pc'[p] \in {pc[p], "owes"}
      PROVE  VersionInv'
  <2>1. \A u \in Tool : ver'[u] >= ver[u] /\ ver'[u] \in Nat /\ ver[u] \in Nat
    BY <1>8 DEF TypeOK
  <2>2. /\ \A u \in Tool : shownVer'[u] = shownVer[u] /\ shownVer[u] \in Nat
        /\ \A p \in Proc, u \in Tool :
             seenVer'[p][u] = seenVer[p][u] /\ seenVer[p][u] \in Nat
    BY <1>8 DEF TypeOK
  <2> QED
    BY <1>8, <2>1, <2>2 DEF VersionInv
<1>12. ASSUME NEW p \in Proc, NEW t \in Tool, Mutate(p, t) PROVE VersionInv'
  BY <1>8, <1>12 DEF Mutate, TypeOK
<1>13. CASE FetchInitial
  BY <1>8, <1>13 DEF FetchInitial, Tool
<1>9. CASE Start
  BY <1>9 DEF Start, TypeOK, VersionInv
<1>10. CASE Crash \/ Exit
  BY <1>10 DEF Crash, Exit, Vanish, TypeOK, VersionInv, NoVersions
<1>11. CASE Shutdown \/ TmuxStart \/ TmuxExit \/ UNCHANGED vars
  BY <1>11, VersionUnchanged DEF Shutdown, TmuxStart, TmuxExit, vars
<1> QED
  BY <1>1, <1>2, <1>3, <1>4, <1>5, <1>6, <1>7, <1>9, <1>10, <1>11, <1>12, <1>13
     DEF Next, HolderStep

\* Every action is a step of Publication or leaves its variables alone.
LEMMA PublicationStep ==
  ASSUME TypeOK, TypeOK', VersionInv, [Next]_vars
  PROVE  [Published!Next]_<<ver, shownVer>>
<1> USE DEF memVars, localVars, dbVars, tmuxVars
<1>1. ASSUME NEW p \in Proc, CommitSnapshot(p) PROVE Published!Publish
  <2>1. shownVer' = seenVer[p] /\ pc[p] = "write" /\ ver' = ver
    BY <1>1 DEF CommitSnapshot
  <2>2. \A t \in Tool : shownVer[t] <= seenVer[p][t] /\ seenVer[p][t] <= ver[t]
    BY <2>1 DEF VersionInv, Tool
  <2> QED
    BY <2>1, <2>2 DEF TypeOK, Published!Publish
<1>2. ASSUME NEW p \in Proc,
             Acquire(p) \/ CacheNames(p) \/ FailSnapshot(p) \/ SetGen(p)
      PROVE  UNCHANGED <<ver, shownVer>>
  BY <1>2 DEF Acquire, CacheNames, FailSnapshot, SetGen
<1>3. ASSUME NEW p \in Proc, NEW t, NEW next,
             ReadProvider(p, t, next) \/ SetPill(p, t)
      PROVE  UNCHANGED <<ver, shownVer>>
  BY <1>3 DEF ReadProvider, SetPill
<1>4. ASSUME NEW p \in Proc, NEW t \in Tool, Mutate(p, t)
      PROVE  Published!Advance
  BY <1>4 DEF Mutate, TypeOK, Published!Advance
<1>7. ASSUME FetchInitial PROVE Published!Advance
  BY <1>7 DEF FetchInitial, TypeOK, Published!Advance, Tool
<1>5. ASSUME Start PROVE Published!Advance
  <2>1. ver' = [t \in Tool |-> ver[t] + 1] /\ UNCHANGED shownVer
    BY <1>5 DEF Start
  <2> QED
    BY <2>1 DEF TypeOK, Published!Advance
<1>6. CASE Crash \/ Exit \/ Shutdown \/ TmuxStart \/ TmuxExit \/ UNCHANGED vars
  BY <1>6 DEF Crash, Exit, Vanish, Shutdown, TmuxStart, TmuxExit, vars
<1> QED
  BY <1>1, <1>2, <1>3, <1>4, <1>5, <1>6, <1>7
     DEF Next, HolderStep, Published!Next

\* The database shows versions of the stores that existed and never goes
\* back to an older one: the module implements Publication.
THEOREM ImplementsPublication == Spec => PublicationSpec
<1> DEFINE IInv == TypeOK /\ FiniteInv /\ MutexInv /\ VersionInv
<1>1. Init => IInv
  BY InitType, InitMutex, InitVersion
<1>2. IInv /\ [Next]_vars => IInv'
  BY TypeStep, MutexStep, VersionStep
<1>3. Init => Published!Init
  BY DEF Init, Published!Init, NoVersions
<1>4. IInv /\ IInv' /\ [Next]_vars => [Published!Next]_<<ver, shownVer>>
  BY PublicationStep
<1> QED
  BY <1>1, <1>2, <1>3, <1>4, PTL
     DEF Spec, PublicationSpec, Published!Spec, Published!vars

-----------------------------------------------------------------------------
(* The database and the pills are up to date when nobody reconciles.       *)

FreshnessInv == StoreInv /\ ReadInv /\ OwedInv /\ PillInv /\ ShownInv /\ FreshInv

\* At first there is nothing to be stale.
THEOREM InitFreshness == Init => FreshnessInv
<1> SUFFICES ASSUME Init PROVE FreshnessInv
  OBVIOUS
<1>1. StoreInv
  BY DEF Init, StoreInv
<1>2. ReadInv
  BY DEF Init, ReadInv
<1>3. OwedInv
  BY DEF Init, OwedInv, HasRead, NoVersions
<1>4. PillInv
  BY DEF Init, PillInv, PrevPillOfSnapshot, NoPills
<1>5. ShownInv
  <2>1. \A t \in Tool : ComputePill({}, t) # NoPill
    BY FS_EmptySet, PillType, PillAssumption
  <2> QED
    BY <2>1 DEF Init, ShownInv, DatabaseShows, SameButTitles, AllRows, Tool
<1>6. FreshInv
  BY DEF Init, FreshInv, Running
<1> QED
  BY <1>1, <1>2, <1>3, <1>4, <1>5, <1>6 DEF FreshnessInv

\* A commit shows the rows it inserts, up to those that share a target.
LEMMA TablesShow ==
  ASSUME NEW A, NEW rows, NEW P \in Tables(A), SameButTitles(A, rows)
  PROVE  SameButTitles(P, rows)
<1>1. P \subseteq A /\ \A r \in A : \E q \in P : q.target = r.target
  BY DEF Tables
<1>2. ASSUME NEW r \in rows PROVE \E q \in P : q.target = r.target
  <2>1. PICK a \in A : a.target = r.target
    BY DEF SameButTitles
  <2> QED
    BY <1>1, <2>1
<1> QED
  BY <1>1, <1>2 DEF SameButTitles

\* Filling in titles changes nothing but titles.
LEMMA TitlesOnly ==
  ASSUME NEW rows \in SUBSET Row, NEW f
  PROVE  SameButTitles({[r EXCEPT !.name = f[r]] : r \in rows}, rows)
<1> DEFINE A == {[r EXCEPT !.name = f[r]] : r \in rows}
<1>1. ASSUME NEW r \in rows PROVE \E q \in A : q.target = r.target
  <2>1. [r EXCEPT !.name = f[r]].target = r.target
    BY DEF Row
  <2> QED
    BY <2>1
<1>2. ASSUME NEW q \in A PROVE \E r \in rows : q = [r EXCEPT !.name = q.name]
  <2>1. PICK r \in rows : q = [r EXCEPT !.name = f[r]]
    OBVIOUS
  <2>2. q.name = f[r]
    BY <2>1 DEF Row
  <2> QED
    BY <2>1, <2>2
<1> QED
  BY <1>1, <1>2 DEF SameButTitles

\* A pill depends on the rows of its own tool alone.
LEMMA PillOfRows ==
  ASSUME NEW rows, NEW mine, NEW t, RowsOf(t, rows) = mine
  PROVE  ComputePill(rows, t) = ComputePill(mine, t)
<1>1. RowsOf(t, mine) = mine
  BY DEF RowsOf
<1> QED
  BY <1>1 DEF ComputePill

\* While the stores stay the same, so do their rows taken together.
LEMMA RowsUnchanged == ASSUME UNCHANGED store PROVE AllRows' = AllRows
  BY DEF AllRows

\* A step of a goroutine that does not owe leaves the others owing.
LEMMA StillOwed ==
  ASSUME TypeOK, NEW p \in Proc, pc[p] # "owes", NEW c,
         pc' = [pc EXCEPT ![p] = c]
  PROVE  Owed => Owed'
  BY DEF TypeOK, Owed

\* What FreshnessInv says of the stores, where they and the database stay.
LEMMA StoresFrame ==
  ASSUME StoreInv, ShownInv, UNCHANGED <<store, ver, panes, shownVer, shownPill>>
  PROVE  StoreInv' /\ ShownInv'
<1>1. AllRows' = AllRows
  BY RowsUnchanged
<1> QED
  BY <1>1 DEF StoreInv, ShownInv, DatabaseShows

\* A store that moves on is no longer the one that the database shows, or that
\* anybody has read.
LEMMA StoreMoves ==
  ASSUME TypeOK, VersionInv, ReadInv, ShownInv, NEW t \in Tool,
         ver' = [ver EXCEPT ![t] = @ + 1],
         \A u \in Tool : u # t => store'[u] = store[u],
         UNCHANGED <<allPanes, seenVer, pills, shownVer, shownPill>>,
         \A p \in Proc : pc'[p] = pc[p] \/ (pc[p] = "idle" /\ pc'[p] = "owes")
  PROVE  ReadInv' /\ ShownInv'
<1>1. ver'[t] = ver[t] + 1 /\ ver[t] \in Nat
      /\ \A u \in Tool : u # t => ver'[u] = ver[u]
  BY DEF TypeOK
<1>2. shownVer'[t] # ver'[t] /\ \A p \in Proc : seenVer'[p][t] # ver'[t]
  BY <1>1 DEF VersionInv, TypeOK
<1>3. shownVer' # ver' /\ \A p \in Proc : seenVer'[p] # ver'
  BY <1>2
<1>4. ShownInv'
  BY <1>1, <1>2, <1>3 DEF ShownInv
<1>5. ASSUME NEW p \in Proc, pc'[p] = "opencode",
             seenVer'[p]["claude"] = ver'["claude"]
      PROVE  allPanes'[p] = store'["claude"]
  BY <1>1, <1>2, <1>5 DEF ReadInv, Tool
<1>6. ASSUME NEW p \in Proc, pc'[p] = "names", NEW u \in Tool,
             seenVer'[p][u] = ver'[u]
      PROVE  RowsOf(u, allPanes'[p]) = store'[u]
  BY <1>1, <1>2, <1>6 DEF ReadInv
<1>7. ASSUME NEW p \in Proc, pc'[p] = "write", NEW u \in Tool
      PROVE  /\ pills'[p][u] # NoPill
             /\ seenVer'[p][u] = ver'[u]
                  => pills'[p][u] = ComputePill(store'[u], u)
  BY <1>1, <1>2, <1>7 DEF ReadInv
<1>8. ReadInv'
  BY <1>3, <1>5, <1>6, <1>7 DEF ReadInv
<1> QED
  BY <1>4, <1>8

\* r.mu is taken.
LEMMA FreshAcquire ==
  ASSUME TypeOK, MutexInv, FreshnessInv, NEW p \in Proc, Acquire(p)
  PROVE  FreshnessInv'
<1> USE DEF memVars, localVars, dbVars, tmuxVars
<1>1. pc[p] = "owes" /\ pc' = [pc EXCEPT ![p] = "claude"]
      /\ \A q \in Proc : pc[q] \notin Holding
  BY ProcAssumption DEF Acquire, MutexInv, HolderInv
<1>2. \A q \in Proc : pc'[q] = IF q = p THEN "claude" ELSE pc[q]
  BY <1>1 DEF TypeOK
<1>3. \A q \in Proc : pc'[q] \notin Holding \ {"claude"}
  BY <1>1, <1>2 DEF Holding, BeforeWrite
<1>4. \A q \in Proc : pc'[q] \notin {"opencode", "names", "write", "pills", "gen"}
  BY <1>3 DEF Holding, BeforeWrite
<1>5. StoreInv' /\ ShownInv'
  BY StoresFrame DEF Acquire, FreshnessInv
<1>6. ReadInv'
  BY <1>1, <1>2, <1>4 DEF Acquire, FreshnessInv, ReadInv
<1>7. OwedInv'
  BY <1>4 DEF Acquire, FreshnessInv, OwedInv, HasRead
<1>8. PillInv'
  BY <1>1, <1>2, <1>4
     DEF Acquire, FreshnessInv, PillInv, PrevPillOfSnapshot, Holding
<1>9. FreshInv'
  BY <1>2 DEF FreshInv, Pending, BeforeWrite
<1> QED
  BY <1>5, <1>6, <1>7, <1>8, <1>9 DEF FreshnessInv

\* A store is read.
LEMMA FreshRead ==
  ASSUME TypeOK, MutexInv, FreshnessInv, NEW p \in Proc,
         \/ ReadProvider(p, "claude", "opencode")
         \/ ReadProvider(p, "opencode", "names")
  PROVE  FreshnessInv'
<1> USE DEF memVars, localVars, dbVars, tmuxVars
<1> DEFINE t    == pc[p]
           next == IF t = "claude" THEN "opencode" ELSE "names"
<1>1. /\ t \in {"claude", "opencode"}
      /\ pc' = [pc EXCEPT ![p] = next]
      /\ allPanes' = [allPanes EXCEPT ![p] = @ \union store[t]]
      /\ seenVer' = [seenVer EXCEPT ![p][t] = ver[t]]
      /\ UNCHANGED <<phase, memVars, lock, pills, todo, prevPill, dbVars,
                     tmuxVars>>
  BY DEF ReadProvider
<1>2. \A q \in Proc : q # p => pc[q] \notin Holding
  BY <1>1, OneHolder DEF Holding, BeforeWrite
<1>3. \A q \in Proc : q # p =>
        /\ pc'[q] = pc[q] /\ allPanes'[q] = allPanes[q]
        /\ pc'[q] \in {"idle", "owes"}
  BY <1>1, <1>2 DEF TypeOK, PC
<1>4. /\ pc'[p] = next
      /\ allPanes'[p] = allPanes[p] \union store[t]
      /\ seenVer'[p] = [seenVer[p] EXCEPT ![t] = ver[t]]
      /\ seenVer'[p][t] = ver[t] /\ t \in Tool
      /\ \A u \in Tool : u # t => seenVer'[p][u] = seenVer[p][u]
  BY <1>1 DEF TypeOK, Tool
<1> HIDE DEF next, t
<1>5. Owed => Owed'
  BY <1>1, StillOwed DEF t
<1>6. StoreInv' /\ ShownInv'
  BY <1>1, StoresFrame DEF FreshnessInv
<1>7. ReadInv'
  <2>1. ASSUME NEW q \in Proc, q # p PROVE allPanes'[q] = {}
    BY <1>3, <2>1 DEF FreshnessInv, ReadInv
  <2>2. CASE t = "claude"
    <3>1. allPanes'[p] = store["claude"] /\ pc'[p] = "opencode"
      BY <1>4, <2>2 DEF FreshnessInv, ReadInv, t, next
    <3>2. \A r \in store["claude"] : r.tool = "claude"
      BY DEF FreshnessInv, StoreInv, Tool
    <3> QED
      BY <1>1, <1>3, <2>1, <3>1, <3>2 DEF ReadInv
  <2>3. CASE t = "opencode"
    <3>1. pc'[p] = "names" /\ allPanes'[p] = allPanes[p] \union store["opencode"]
      BY <1>4, <2>3 DEF next
    <3>2. /\ \A r \in store["opencode"] : r.tool = "opencode"
          /\ \A r \in allPanes[p] : r.tool = "claude"
          /\ seenVer[p]["claude"] = ver["claude"]
               => allPanes[p] = store["claude"]
      BY <2>3 DEF FreshnessInv, StoreInv, ReadInv, Tool, t
    <3>3. RowsOf("opencode", allPanes'[p]) = store["opencode"]
      BY <3>1, <3>2 DEF RowsOf
    <3>4. RowsOf("claude", allPanes'[p]) = allPanes[p]
      BY <3>1, <3>2 DEF RowsOf
    <3>5. seenVer'[p]["claude"] = seenVer[p]["claude"]
      BY <1>4, <2>3 DEF Tool
    <3>6. \A u \in Tool :
            seenVer'[p][u] = ver[u] => RowsOf(u, allPanes'[p]) = store[u]
      BY <3>2, <3>3, <3>4, <3>5 DEF Tool
    <3> QED
      BY <1>1, <1>3, <2>1, <3>1, <3>6 DEF ReadInv
  <2> QED
    BY <1>1, <2>2, <2>3
<1>8. OwedInv'
  <2>1. \A q \in Proc, u \in Tool : HasRead(q, u)' => q = p
    BY <1>3 DEF HasRead
  <2>2. \A u \in Tool : HasRead(p, u)' => HasRead(p, u) \/ u = t
    BY <1>1, <1>4 DEF HasRead, t, next, Tool
  <2>3. owed[t] <= seenVer'[p][t]
    BY <1>4 DEF FreshnessInv, OwedInv
  <2>4. ASSUME NEW u \in Tool, HasRead(p, u)'
        PROVE  Owed' \/ owed[u] <= seenVer'[p][u]
    BY <1>4, <1>5, <2>2, <2>3, <2>4 DEF FreshnessInv, OwedInv
  <2> QED
    BY <1>1, <2>1, <2>4 DEF FreshnessInv, OwedInv
<1>9. PillInv'
  <2>1. \A q \in Proc : pc'[q] \notin {"pills", "gen"} /\ todo'[q] = {}
    BY <1>1, <1>2, <1>3, <1>4 DEF FreshnessInv, PillInv, next, t, Holding
  <2>2. \A q \in Proc : pc[q] \notin {"pills", "gen"}
    BY <1>1, <1>2 DEF t, Holding
  <2> QED
    BY <1>1, <2>1, <2>2 DEF FreshnessInv, PillInv, PrevPillOfSnapshot
<1>10. FreshInv'
  BY <1>4 DEF FreshInv, Pending, BeforeWrite, next
<1> QED
  BY <1>6, <1>7, <1>8, <1>9, <1>10 DEF FreshnessInv

\* The pills are computed and the titles looked up.
LEMMA FreshNames ==
  ASSUME TypeOK, FiniteInv, MutexInv, FreshnessInv,
         NEW p \in Proc, CacheNames(p)
  PROVE  FreshnessInv'
<1> USE DEF memVars, localVars, dbVars, tmuxVars
<1>1. /\ pc[p] = "names" /\ pc' = [pc EXCEPT ![p] = "write"]
      /\ pills' = [pills EXCEPT ![p] =
                     [t \in Tool |-> ComputePill(allPanes[p], t)]]
      /\ UNCHANGED <<phase, memVars, lock, seenVer, todo, prevPill, panes,
                     shownVer, shownPill, lostWrite, tmuxVars>>
  BY DEF CacheNames
<1>2. PICK R, f :
        allPanes' = [allPanes EXCEPT ![p] =
                       {[r EXCEPT !.name = f[r]] : r \in @}]
  BY DEF CacheNames
<1>3. \A q \in Proc : q # p => pc[q] \notin Holding
  BY <1>1, OneHolder DEF Holding, BeforeWrite
<1>4. Owed => Owed'
  BY <1>1, StillOwed
<1>5. pc'[p] = "write" /\ \A q \in Proc : q # p =>
        /\ pc'[q] = pc[q] /\ allPanes'[q] = allPanes[q]
        /\ pc'[q] \in {"idle", "owes"}
  BY <1>1, <1>2, <1>3 DEF TypeOK, PC
<1>6. StoreInv' /\ ShownInv'
  BY <1>1, StoresFrame DEF FreshnessInv
<1>7. ReadInv'
  <2>1. SameButTitles(allPanes'[p], allPanes[p])
    <3>1. allPanes[p] \in SUBSET Row
          /\ allPanes'[p] = {[r EXCEPT !.name = f[r]] : r \in allPanes[p]}
      BY <1>2 DEF TypeOK
    <3>2. SameButTitles({[r EXCEPT !.name = f[r]] : r \in allPanes[p]},
                        allPanes[p])
      BY <3>1, TitlesOnly, Zenon
    <3> QED
      BY <3>1, <3>2, Zenon
  <2>2. \A t \in Tool :
          /\ pills'[p][t] = ComputePill(allPanes[p], t)
          /\ seenVer[p][t] = ver[t] => RowsOf(t, allPanes[p]) = store[t]
    BY <1>1 DEF TypeOK, FreshnessInv, ReadInv
  <2>3. ASSUME NEW t \in Tool, seenVer'[p][t] = ver'[t]
        PROVE  pills'[p][t] = ComputePill(store'[t], t)
    <3>1. RowsOf(t, allPanes[p]) = store[t] /\ store' = store
      BY <1>1, <2>2, <2>3
    <3>2. ComputePill(allPanes[p], t) = ComputePill(store[t], t)
      BY <3>1, PillOfRows
    <3> QED
      BY <2>2, <3>1, <3>2
  <2>4. ASSUME seenVer'[p] = ver' PROVE SameButTitles(allPanes'[p], AllRows')
    <3>1. \A t \in Tool : RowsOf(t, allPanes[p]) = store[t]
      BY <1>1, <2>2, <2>4
    <3>2. allPanes[p] \subseteq Row
      BY DEF TypeOK
    <3>3. allPanes[p] = AllRows
      BY <3>1, <3>2 DEF RowsOf, AllRows, Row, Tool
    <3> QED
      BY <1>1, <2>1, <3>3, RowsUnchanged
  <2>5. ASSUME NEW q \in Proc, q # p PROVE allPanes'[q] = {}
    BY <1>5, <2>5 DEF FreshnessInv, ReadInv
  <2>6. \A t \in Tool : pills'[p][t] # NoPill
    BY <2>2, PillType, PillAssumption DEF FiniteInv
  <2> QED
    BY <1>5, <2>3, <2>4, <2>5, <2>6 DEF ReadInv
<1>8. OwedInv'
  <2>1. \A q \in Proc, u \in Tool :
          HasRead(q, u)' => q = p /\ HasRead(p, u)
    BY <1>1, <1>5 DEF HasRead
  <2> QED
    BY <1>1, <1>4, <2>1 DEF FreshnessInv, OwedInv
<1>9. PillInv'
  BY <1>1, <1>3, <1>5 DEF FreshnessInv, PillInv, PrevPillOfSnapshot, Holding
<1>10. FreshInv'
  BY <1>5 DEF FreshInv, Pending, BeforeWrite
<1> QED
  BY <1>6, <1>7, <1>8, <1>9, <1>10 DEF FreshnessInv

\* When nobody is left before the commit, nobody has read anything.
LEMMA NobodyReads ==
  ASSUME TypeOK, TypeOK', ReadInv, NEW p \in Proc,
         \A q \in Proc : q # p => pc[q] \notin Holding,
         allPanes' = [allPanes EXCEPT ![p] = {}] \/ pc'[p] \in {"pills", "gen"},
         pc'[p] \in {"idle", "pills", "gen"},
         \A q \in Proc : q # p => pc'[q] = pc[q] /\ allPanes'[q] = allPanes[q]
  PROVE  ReadInv' /\ \A q \in Proc, t \in Tool : ~HasRead(q, t)'
<1>1. ASSUME NEW q \in Proc, q # p
      PROVE  pc'[q] \in {"idle", "owes"} /\ allPanes'[q] = {}
  BY <1>1 DEF TypeOK, PC, ReadInv
<1>2. pc'[p] = "idle" => allPanes'[p] = {}
  BY DEF TypeOK
<1> QED
  BY <1>1, <1>2 DEF ReadInv, HasRead

\* CommitSnapshot puts on the database what the holder has read; if no pill
\* changed there is nothing to set.
LEMMA FreshCommit ==
  ASSUME TypeOK, TypeOK', MutexInv, FreshnessInv,
         NEW p \in Proc, CommitSnapshot(p)
  PROVE  FreshnessInv'
<1> USE DEF memVars, localVars, dbVars, tmuxVars
<1>1. /\ pc[p] = "write" /\ panes' \in Tables(allPanes[p])
      /\ shownVer' = seenVer[p] /\ shownPill' = pills[p] /\ lostWrite' = FALSE
      /\ UNCHANGED <<memVars, prevPill, optPill, missed>>
  BY DEF CommitSnapshot
<1>2. \A q \in Proc : q # p => pc[q] \notin Holding
  BY <1>1, OneHolder DEF Holding, BeforeWrite
<1>3. StoreInv'
  BY <1>1 DEF FreshnessInv, StoreInv
<1>4. ShownInv'
  <2>1. ASSUME shownVer' = ver' PROVE DatabaseShows(AllRows)'
    <3>1. SameButTitles(allPanes[p], AllRows)
      BY <1>1, <2>1 DEF FreshnessInv, ReadInv
    <3>2. SameButTitles(panes', AllRows)
      BY <1>1, <3>1, TablesShow
    <3> QED
      BY <1>1, <3>2, RowsUnchanged DEF DatabaseShows
  <2> QED
    BY <1>1, <2>1 DEF FreshnessInv, ReadInv, ShownInv
<1>5. \A t \in Tool : Owed \/ owed'[t] <= shownVer'[t]
  BY <1>1 DEF FreshnessInv, OwedInv, HasRead
<1>6. CASE Changed(p)
  <2>1. /\ pc' = [pc EXCEPT ![p] = "pills"] /\ todo' = [todo EXCEPT ![p] = Tool]
        /\ UNCHANGED <<phase, lock, allPanes, pills>>
    BY <1>6 DEF CommitSnapshot
  <2>2. ReadInv' /\ \A q \in Proc, t \in Tool : ~HasRead(q, t)'
    BY <1>2, <2>1, NobodyReads DEF TypeOK, FreshnessInv
  <2>3. OwedInv'
    BY <1>1, <2>2 DEF FreshnessInv, OwedInv
  <2>4. pc'[p] = "pills" /\ todo'[p] = Tool
    BY <2>1 DEF TypeOK
  <2>5. PillInv'
    BY <1>1, <1>2, <2>1, <2>4
       DEF TypeOK, FreshnessInv, PillInv, PrevPillOfSnapshot, Holding
  <2>6. Owed => Pending'
    BY <1>1, <2>1, StillOwed DEF Owed, Pending
  <2>7. FreshInv'
    BY <1>5, <2>4, <2>6 DEF FreshInv
  <2> QED
    BY <1>3, <1>4, <2>2, <2>3, <2>5, <2>7 DEF FreshnessInv
<1>7. CASE ~Changed(p)
  <2>1. Unlock(p) /\ UNCHANGED todo
    BY <1>7 DEF CommitSnapshot
  <2>2. ReadInv' /\ \A q \in Proc, t \in Tool : ~HasRead(q, t)'
    BY <1>2, <2>1, NobodyReads DEF Unlock, TypeOK, FreshnessInv
  <2>3. OwedInv'
    BY <1>1, <2>2 DEF FreshnessInv, OwedInv
  <2>4. \A t \in Tool : prevPill'[t] = shownPill'[t]
    BY <1>1, <1>7 DEF Changed
  <2>5. PillInv'
    BY <1>1, <1>2, <2>1, <2>4
       DEF Unlock, TypeOK, FreshnessInv, PillInv, PrevPillOfSnapshot, Holding
  <2>6. Owed => Pending'
    BY <1>1, <2>1, StillOwed DEF Unlock, Owed, Pending
  <2>7. FreshInv'
    BY <1>5, <2>4, <2>6 DEF FreshInv
  <2> QED
    BY <1>3, <1>4, <2>2, <2>3, <2>5, <2>7 DEF FreshnessInv
<1> QED
  BY <1>6, <1>7

\* A failed commit leaves prevPill with the pills of the last good snapshot.
LEMMA FreshFail ==
  ASSUME TypeOK, TypeOK', MutexInv, FreshnessInv,
         NEW p \in Proc, FailSnapshot(p)
  PROVE  FreshnessInv'
<1> USE DEF memVars, localVars, dbVars, tmuxVars
<1>1. /\ pc[p] = "write" /\ Unlock(p) /\ lostWrite' = TRUE
      /\ UNCHANGED <<memVars, panes, prevPill, shownVer, shownPill, todo,
                     optPill, missed>>
  BY DEF FailSnapshot
<1>2. \A q \in Proc : q # p => pc[q] \notin Holding
  BY <1>1, OneHolder DEF Holding, BeforeWrite
<1>3. StoreInv' /\ ShownInv'
  BY <1>1, StoresFrame DEF FreshnessInv
<1>4. ReadInv' /\ \A q \in Proc, t \in Tool : ~HasRead(q, t)'
  BY <1>1, <1>2, NobodyReads DEF Unlock, TypeOK, FreshnessInv
<1>5. OwedInv'
  BY <1>1, <1>4 DEF FreshnessInv, OwedInv
<1>6. PillInv'
  BY <1>1, <1>2
     DEF Unlock, TypeOK, FreshnessInv, PillInv, PrevPillOfSnapshot, Holding
<1>7. FreshInv'
  BY <1>1 DEF FreshInv
<1> QED
  BY <1>3, <1>4, <1>5, <1>6, <1>7 DEF FreshnessInv

\* A round of the loop brings prevPill to the snapshot, and the pill option
\* with it unless set-option fails.
LEMMA FreshSetPill ==
  ASSUME TypeOK, TypeOK', MutexInv, FreshnessInv,
         NEW p \in Proc, NEW t \in Tool, SetPill(p, t)
  PROVE  FreshnessInv'
<1> USE DEF memVars, localVars, dbVars, tmuxVars
<1>1. /\ pc[p] = "pills" /\ t \in todo[p]
      /\ SetOption(p, t)
      /\ prevPill' = [prevPill EXCEPT ![t] = pills[p][t]]
      /\ todo' = [todo EXCEPT ![p] = @ \ {t}]
      /\ pc' = IF todo[p] = {t} THEN [pc EXCEPT ![p] = "gen"] ELSE pc
      /\ UNCHANGED <<phase, memVars, allPanes, seenVer, pills, dbVars>>
  BY DEF SetPill
<1>2. \A q \in Proc : q # p => pc[q] \notin Holding
  BY <1>1, OneHolder DEF Holding
<1>3. StoreInv' /\ ShownInv'
  BY <1>1, StoresFrame DEF FreshnessInv
<1>4. ReadInv' /\ \A q \in Proc, u \in Tool : ~HasRead(q, u)'
  BY <1>1, <1>2, NobodyReads DEF TypeOK, FreshnessInv
<1>5. OwedInv'
  BY <1>1, <1>4 DEF FreshnessInv, OwedInv
<1>6. \A q \in Proc : q # p => pc'[q] = pc[q] /\ pc'[q] \notin Holding
  BY <1>1, <1>2 DEF TypeOK
<1>7. pc'[p] \in {"pills", "gen"} /\ (pc'[p] = "gen" => todo'[p] = {})
  BY <1>1 DEF TypeOK
<1>8. pills[p] = shownPill /\ prevPill'[t] = shownPill[t]
  BY <1>1 DEF TypeOK, FreshnessInv, PillInv
<1>9. \A u \in Tool : u # t =>
        prevPill'[u] = prevPill[u] /\ (u \in todo'[p] <=> u \in todo[p])
  BY <1>1 DEF TypeOK
<1>10. \A u \in Tool : u \notin todo'[p] => prevPill'[u] = shownPill'[u]
  BY <1>1, <1>8, <1>9 DEF FreshnessInv, PillInv
<1>11. PillInv'
  <2>1. \A q \in Proc : pc'[q] # "pills" => todo'[q] = {}
    BY <1>1, <1>6, <1>7 DEF TypeOK, FreshnessInv, PillInv
  <2>2. PrevPillOfSnapshot'
    BY <1>7 DEF PrevPillOfSnapshot
  <2>3. ASSUME NEW u \in Tool \ missed', prevPill'[u] # NoPill
        PROVE  optPill'[u] = prevPill'[u]
    <3>1. PICK ok \in Accepted :
            /\ optPill' = IF ok THEN [optPill EXCEPT ![t] = pills[p][t]]
                                ELSE optPill
            /\ missed' = IF ok THEN missed \ {t} ELSE missed \union {t}
      BY <1>1 DEF SetOption
    <3>2. CASE u = t
      BY <1>8, <2>3, <3>1, <3>2 DEF TypeOK
    <3>3. CASE u # t
      <4>1. u \notin missed /\ optPill'[u] = optPill[u]
        BY <2>3, <3>1, <3>3 DEF TypeOK
      <4> QED
        BY <1>9, <2>3, <3>3, <4>1 DEF FreshnessInv, PillInv
    <3> QED
      BY <3>2, <3>3
  <2>4. pills' = pills /\ shownPill' = shownPill
    BY <1>1
  <2> QED
    BY <1>6, <1>8, <1>10, <2>1, <2>2, <2>3, <2>4 DEF PillInv, Holding
<1>12. FreshInv'
  <2>1. Running' <=> Running
    BY <1>1 DEF Running
  <2>2. Pending => Pending'
    <3>1. SUFFICES ASSUME NEW q \in Proc, pc[q] \in {"owes"} \union BeforeWrite
                   PROVE  Pending'
      BY DEF Pending
    <3>2. pc'[q] = pc[q]
      BY <1>1, <1>6, <3>1 DEF BeforeWrite
    <3> QED
      BY <3>1, <3>2 DEF Pending
  <2>3. \A u \in Tool : \/ prevPill'[u] = shownPill'[u]
                        \/ pc'[p] = "pills" /\ u \in todo'[p]
    BY <1>7, <1>10
  <2> QED
    BY <1>1, <2>1, <2>2, <2>3 DEF FreshnessInv, FreshInv
<1> QED
  BY <1>3, <1>4, <1>5, <1>11, <1>12 DEF FreshnessInv

\* When the generation is set, no pill is left to set.
LEMMA FreshSetGen ==
  ASSUME TypeOK, TypeOK', MutexInv, FreshnessInv, NEW p \in Proc, SetGen(p)
  PROVE  FreshnessInv'
<1> USE DEF memVars, localVars, dbVars, tmuxVars
<1>1. /\ pc[p] = "gen" /\ Unlock(p) /\ pc' = [pc EXCEPT ![p] = "idle"]
      /\ UNCHANGED <<memVars, todo, prevPill, dbVars, optPill, missed>>
  BY DEF SetGen, Unlock
<1>2. \A q \in Proc : q # p => pc[q] \notin Holding
  BY <1>1, OneHolder DEF Holding
<1>3. StoreInv' /\ ShownInv'
  BY <1>1, StoresFrame DEF FreshnessInv
<1>4. ReadInv' /\ \A q \in Proc, t \in Tool : ~HasRead(q, t)'
  BY <1>1, <1>2, NobodyReads DEF Unlock, TypeOK, FreshnessInv
<1>5. OwedInv'
  BY <1>1, <1>4 DEF FreshnessInv, OwedInv
<1>6. todo[p] = {} /\ \A t \in Tool : prevPill[t] = shownPill[t]
  BY <1>1 DEF FreshnessInv, PillInv
<1>7. PillInv'
  BY <1>1, <1>2, <1>6
     DEF TypeOK, FreshnessInv, PillInv, PrevPillOfSnapshot, Holding
<1>8. FreshInv'
  <2>1. Running
    BY <1>1 DEF MutexInv, ProcessInv
  <2>2. Pending => Pending'
    BY <1>1 DEF TypeOK, Pending, BeforeWrite
  <2> QED
    BY <1>1, <1>6, <2>1, <2>2 DEF FreshnessInv, FreshInv
<1> QED
  BY <1>3, <1>4, <1>5, <1>7, <1>8 DEF FreshnessInv

\* A mutation is owed a reconciliation from the moment it is made.
LEMMA FreshMutate ==
  ASSUME TypeOK, MutexInv, VersionInv, FreshnessInv,
         NEW p \in Proc, NEW t \in Tool, Mutate(p, t)
  PROVE  FreshnessInv'
<1> USE DEF memVars, localVars, dbVars, tmuxVars
<1>1. /\ pc[p] \in {"idle", "owes"} /\ pc' = [pc EXCEPT ![p] = "owes"]
      /\ ver' = [ver EXCEPT ![t] = @ + 1]
      /\ owed' = [owed EXCEPT ![t] = ver'[t]]
      /\ UNCHANGED <<allPanes, seenVer, pills, todo, prevPill, dbVars, optPill,
                     missed>>
  BY DEF Mutate
<1>2. PICK R \in Contents[t] : store' = [store EXCEPT ![t] = R]
  BY DEF Mutate
<1>3. pc'[p] = "owes" /\ Owed' /\ \A q \in Proc : q # p => pc'[q] = pc[q]
  BY <1>1 DEF TypeOK, Owed
<1>4. StoreInv'
  BY <1>2, ContentsAssumption DEF TypeOK, FreshnessInv, StoreInv
<1>5. ReadInv' /\ ShownInv'
  <2>1. \A u \in Tool : u # t => store'[u] = store[u]
    BY <1>2 DEF TypeOK
  <2>2. \A q \in Proc : pc'[q] = pc[q] \/ (pc[q] = "idle" /\ pc'[q] = "owes")
    BY <1>1, <1>3
  <2> QED
    BY <1>1, <2>1, <2>2, StoreMoves DEF FreshnessInv
<1>6. OwedInv'
  <2>1. \A u \in Tool : owed'[u] <= ver'[u]
    BY <1>1 DEF TypeOK, FreshnessInv, OwedInv
  <2> QED
    BY <1>3, <2>1 DEF OwedInv
<1>7. PillInv'
  BY <1>1, <1>3 DEF FreshnessInv, PillInv, PrevPillOfSnapshot
<1>8. FreshInv'
  BY <1>3 DEF FreshInv, Pending
<1> QED
  BY <1>4, <1>5, <1>6, <1>7, <1>8 DEF FreshnessInv

\* An initial list is stored and nothing is owed: the store has moved on.
LEMMA FreshFetch ==
  ASSUME TypeOK, VersionInv, FreshnessInv, FetchInitial
  PROVE  FreshnessInv'
<1> USE DEF memVars, localVars, dbVars, tmuxVars
<1>1. /\ ver' = [ver EXCEPT !["opencode"] = @ + 1] /\ "opencode" \in Tool
      /\ UNCHANGED <<phase, owed, pc, allPanes, seenVer, pills, todo, prevPill,
                     dbVars, optPill, missed>>
  BY DEF FetchInitial, Tool
<1>2. PICK R \in Contents["opencode"] :
        store' = [store EXCEPT !["opencode"] = R]
  BY DEF FetchInitial
<1>3. StoreInv'
  BY <1>1, <1>2, ContentsAssumption DEF TypeOK, FreshnessInv, StoreInv
<1>4. ReadInv' /\ ShownInv'
  <2>1. \A u \in Tool : u # "opencode" => store'[u] = store[u]
    BY <1>2 DEF TypeOK
  <2> QED
    BY <1>1, <2>1, StoreMoves DEF FreshnessInv
<1>5. OwedInv'
  <2>1. \A u \in Tool : owed[u] <= ver'[u]
    BY <1>1 DEF TypeOK, FreshnessInv, OwedInv
  <2> QED
    BY <1>1, <2>1 DEF FreshnessInv, OwedInv, HasRead, Owed
<1>6. PillInv'
  BY <1>1 DEF FreshnessInv, PillInv, PrevPillOfSnapshot
<1>7. FreshInv'
  BY <1>1 DEF FreshnessInv, FreshInv, Running, Pending
<1> QED
  BY <1>3, <1>4, <1>5, <1>6, <1>7 DEF FreshnessInv

\* main() owes the reconciliation of a new process.
LEMMA FreshStart ==
  ASSUME TypeOK, MutexInv, VersionInv, FreshnessInv, Start
  PROVE  FreshnessInv'
<1> USE DEF localVars
<1>1. /\ \A p \in Proc : pc[p] = "idle"
      /\ pc' = [pc EXCEPT ![Main] = "owes"] /\ prevPill' = NoPills
      /\ store' = [t \in Tool |-> {}]
      /\ ver' = [t \in Tool |-> ver[t] + 1] /\ owed' = ver'
      /\ UNCHANGED <<allPanes, pills, todo, panes, shownVer, shownPill>>
  BY DEF Start, MutexInv, ProcessInv, Running
<1>2. pc'[Main] = "owes" /\ \A p \in Proc : pc'[p] \in {"idle", "owes"}
  BY <1>1, ProcAssumption DEF TypeOK
<1>3. \A t \in Tool : ver'[t] = ver[t] + 1 /\ ver[t] \in Nat /\ "claude" \in Tool
  BY <1>1 DEF TypeOK, Tool
<1>4. StoreInv'
  BY <1>1 DEF StoreInv
<1>5. ShownInv'
  <2>1. \A t \in Tool : shownVer'[t] # ver'[t]
    BY <1>1, <1>3 DEF VersionInv, TypeOK
  <2>2. shownVer' # ver'
    BY <1>3, <2>1 DEF Tool
  <2>3. \A t \in Tool : shownPill'[t] # NoPill
    BY <1>1 DEF FreshnessInv, ShownInv
  <2> QED
    BY <2>1, <2>2, <2>3 DEF ShownInv
<1>6. ReadInv'
  BY <1>1, <1>2 DEF FreshnessInv, ReadInv
<1>7. OwedInv'
  BY <1>1, <1>2, <1>3 DEF OwedInv, HasRead
<1>8. PillInv'
  BY <1>1, <1>2 DEF FreshnessInv, PillInv, PrevPillOfSnapshot, NoPills
<1>9. FreshInv'
  BY <1>2, ProcAssumption DEF FreshInv, Pending
<1> QED
  BY <1>4, <1>5, <1>6, <1>7, <1>8, <1>9 DEF FreshnessInv

\* Without a process there is nothing but what the database shows.
LEMMA FreshVanish ==
  ASSUME FreshnessInv, Crash \/ Exit
  PROVE  FreshnessInv'
<1> USE DEF memVars, dbVars, tmuxVars
<1>1. Vanish /\ ~Running'
  BY DEF Crash, Exit, Running
<1>2. /\ \A p \in Proc : pc'[p] = "idle" /\ allPanes'[p] = {} /\ todo'[p] = {}
      /\ prevPill' = NoPills
      /\ UNCHANGED <<memVars, panes, shownVer, shownPill>>
  BY <1>1 DEF Vanish
<1>3. StoreInv' /\ ShownInv'
  BY <1>2, StoresFrame DEF FreshnessInv
<1>4. ReadInv'
  BY <1>2 DEF ReadInv
<1>5. OwedInv'
  BY <1>2 DEF FreshnessInv, OwedInv, HasRead
<1>6. PillInv'
  BY <1>2 DEF PillInv, PrevPillOfSnapshot, NoPills
<1>7. FreshInv'
  BY <1>1 DEF FreshInv
<1> QED
  BY <1>3, <1>4, <1>5, <1>6, <1>7 DEF FreshnessInv

\* Steps of the environment, and stuttering.
LEMMA FreshOutside ==
  ASSUME TypeOK, FreshnessInv,
         Shutdown \/ TmuxStart \/ TmuxExit \/ UNCHANGED vars
  PROVE  FreshnessInv'
<1> USE DEF memVars, localVars, dbVars, tmuxVars
<1>1. /\ UNCHANGED <<memVars, pc, localVars, prevPill, dbVars>>
      /\ Running' <=> Running
  BY DEF Shutdown, TmuxStart, TmuxExit, vars, Running
<1>2. UNCHANGED <<optPill, missed>> \/ missed' = Tool
  BY DEF Shutdown, TmuxStart, TmuxExit, vars
<1>3. StoreInv' /\ ShownInv'
  BY <1>1, StoresFrame DEF FreshnessInv
<1>4. ReadInv'
  BY <1>1, RowsUnchanged DEF FreshnessInv, ReadInv
<1>5. OwedInv'
  BY <1>1 DEF FreshnessInv, OwedInv, HasRead, Owed
<1>6. PillInv'
  BY <1>1, <1>2 DEF FreshnessInv, PillInv, PrevPillOfSnapshot
<1>7. FreshInv'
  BY <1>1 DEF FreshnessInv, FreshInv, Pending
<1> QED
  BY <1>3, <1>4, <1>5, <1>6, <1>7 DEF FreshnessInv

\* Every action keeps the freshness part of the invariant.
THEOREM FreshnessStep ==
  ASSUME TypeOK, TypeOK', FiniteInv, MutexInv, VersionInv, FreshnessInv,
         [Next]_vars
  PROVE  FreshnessInv'
<1>1. ASSUME NEW p \in Proc, Acquire(p) PROVE FreshnessInv'
  BY <1>1, FreshAcquire
<1>2. ASSUME NEW p \in Proc, HolderStep(p) PROVE FreshnessInv'
  BY <1>2, FreshRead, FreshNames, FreshCommit, FreshFail, FreshSetPill,
     FreshSetGen DEF HolderStep
<1>3. ASSUME NEW p \in Proc, NEW t \in Tool, Mutate(p, t) PROVE FreshnessInv'
  BY <1>3, FreshMutate
<1> QED
  BY <1>1, <1>2, <1>3, FreshFetch, FreshStart, FreshVanish, FreshOutside
     DEF Next

IInv ==
  TypeOK /\ FiniteInv /\ MutexInv /\ GenInv /\ VersionInv /\ FreshnessInv

\* IInv is an invariant: it holds at first and every step preserves it.
THEOREM Inductive == Spec => []IInv
<1>1. Init => IInv
  BY InitType, InitMutex, InitGen, InitVersion, InitFreshness DEF IInv
<1>2. IInv /\ [Next]_vars => IInv'
  BY TypeStep, MutexStep, GenStep, VersionStep, FreshnessStep DEF IInv
<1> QED
  BY <1>1, <1>2, PTL DEF Spec

\* When the last Reconcile() has returned, and its write succeeded, the panes
\* table has what a Reconcile() was called for, and shows what the stores hold
\* unless something was stored without one.
THEOREM DatabaseFresh == Spec => []QuiescentFresh
<1>1. IInv => QuiescentFresh
  <2> SUFFICES ASSUME IInv, phase = "up", AllReturned, ~lostWrite
               PROVE  /\ \A t \in Tool : shownVer[t] >= owed[t]
                      /\ shownVer = ver => DatabaseShows(AllRows)
    BY DEF QuiescentFresh
  <2>1. Running /\ ~Pending
    BY DEF AllReturned, Running, Pending, BeforeWrite
  <2>2. \A t \in Tool : owed[t] <= shownVer[t]
    BY <2>1 DEF IInv, FreshnessInv, FreshInv
  <2> QED
    BY <2>2 DEF IInv, TypeOK, FreshnessInv, ShownInv
<1> QED
  BY <1>1, Inductive, PTL

\* And so does a pill on the status line, unless the set-option of that pill
\* has failed or went with its tmux server.
THEOREM PillsFresh == Spec => []QuiescentPills
<1>1. IInv => QuiescentPills
  <2> SUFFICES ASSUME IInv, phase = "up", AllReturned, ~lostWrite,
                      NEW t \in Tool \ missed, shownVer[t] = ver[t]
               PROVE  optPill[t] = ComputePill(store[t], t)
    BY DEF QuiescentPills
  <2>1. Running /\ ~Pending /\ \A p \in Proc : pc[p] # "pills"
    BY DEF AllReturned, Running, Pending, BeforeWrite
  <2>2. prevPill[t] = shownPill[t]
    BY <2>1 DEF IInv, FreshnessInv, FreshInv
  <2>3. shownPill[t] = ComputePill(store[t], t)
    BY DEF IInv, FreshnessInv, ShownInv
  <2>4. prevPill[t] # NoPill
    <3>1. IsFiniteSet(store[t])
      BY DEF IInv, FiniteInv
    <3> QED
      BY <2>2, <2>3, <3>1, PillType, PillAssumption
  <2> QED
    BY <2>2, <2>3, <2>4 DEF IInv, FreshnessInv, PillInv
<1> QED
  BY <1>1, Inductive, PTL

\* A snapshot that was not committed leaves prevPill alone.
THEOREM PrevPillIsPublished == Spec => []PrevPillOfSnapshot
<1>1. IInv => PrevPillOfSnapshot
  BY DEF IInv, FreshnessInv, PillInv
<1> QED
  BY <1>1, Inductive, PTL

\* The new generation announces a snapshot that is in the database and whose
\* pills are set, as far as set-option has not failed.
THEOREM GenAnnounces == Spec => GenAnnouncesSnapshot
<1> USE DEF memVars, localVars, dbVars, tmuxVars
<1>1. ASSUME IInv, [Next]_vars, optGen' > optGen, NEW t \in Tool \ missed
      PROVE  optPill[t] = shownPill[t]
  <2>1. ASSUME NEW p \in Proc, SetGen(p)
        PROVE  optPill[t] = shownPill[t]
    <3>1. pc[p] = "gen"
      BY <2>1 DEF SetGen
    <3>2. prevPill[t] = shownPill[t] /\ pills[p] = shownPill
      BY <1>1, <3>1 DEF IInv, FreshnessInv, PillInv
    <3>3. shownPill[t] # NoPill
      BY <1>1 DEF IInv, FreshnessInv, ShownInv
    <3> QED
      BY <1>1, <3>2, <3>3 DEF IInv, FreshnessInv, PillInv
  <2>2. optGen \in Nat /\ (UNCHANGED optGen \/ optGen' = 0
                             \/ \E p \in Proc : SetGen(p))
    BY <1>1 DEF Next, Acquire, HolderStep, ReadProvider, CacheNames,
                CommitSnapshot, FailSnapshot, SetPill, Mutate, FetchInitial,
                Start, Crash, Exit, Vanish, Shutdown, TmuxStart, TmuxExit,
                vars, IInv, TypeOK
  <2> QED
    BY <1>1, <2>1, <2>2
<1>2. IInv /\ [Next]_vars
        => [optGen' > optGen
              => \A t \in Tool \ missed : optPill[t] = shownPill[t]]_vars
  BY <1>1
<1> QED
  BY <1>2, Inductive, PTL DEF Spec, GenAnnouncesSnapshot

-----------------------------------------------------------------------------
(* Titles.                                                                 *)

\* A session without a title and with one row only is not in the cache: a
\* snapshot that may be committed has looked its sessions up, and the cache
\* has not changed since.
LookedInv ==
  phase # "closing" =>
    \A p \in Proc : pc[p] = "write" =>
      \A r \in allPanes[p] :
        /\ r.sid # NoSid /\ r.name = NoName
        /\ SameSession(allPanes[p], r.tool, r.sid) = {r}
        => names[r.tool][r.sid] = NoName

\* Where nobody comes to the commit and nobody who is there is disturbed.
LEMMA LookedFrame ==
  ASSUME LookedInv, UNCHANGED names, phase' # "closing" => phase # "closing",
         \A p \in Proc : pc'[p] = "write" =>
           pc[p] = "write" /\ allPanes'[p] = allPanes[p]
  PROVE  LookedInv'
  BY DEF LookedInv, SameSession

\* The loop over the rows: where no lookup fails, a row that leaves it without
\* a title has no title in the cache, or another row of its session has one.
LEMMA LookedNames ==
  ASSUME "lookup" \notin MayFail, TypeOK, MutexInv,
         NEW p \in Proc, CacheNames(p)
  PROVE  LookedInv'
<1>1. PICK R \in Cacheable(allPanes[p]) :
        /\ names' \in Cached(R)
        /\ \E f \in Looked(allPanes[p], R) :
             allPanes' = [allPanes EXCEPT ![p] =
                            {[r EXCEPT !.name = f[r]] : r \in @}]
  BY DEF CacheNames
<1>2. PICK f \in Looked(allPanes[p], R) :
        allPanes' = [allPanes EXCEPT ![p] =
                       {[r EXCEPT !.name = f[r]] : r \in @}]
  BY <1>1
<1>3. /\ pc[p] = "names" /\ pc' = [pc EXCEPT ![p] = "write"]
      /\ phase' = phase /\ pc \in [Proc -> PC]
      /\ allPanes[p] \in SUBSET Row
      /\ allPanes'[p] = {[r EXCEPT !.name = f[r]] : r \in allPanes[p]}
  BY <1>2 DEF CacheNames, TypeOK
<1>4. \A q \in Proc : pc'[q] = "write" => q = p
  <2>1. \A q \in Proc : q # p => pc[q] # "write"
    BY <1>3, OneHolder DEF Holding, BeforeWrite
  <2> QED
    BY <1>3, <2>1
<1>5. R \subseteq Titled(allPanes[p])
  BY <1>1 DEF Cacheable
<1>6. ASSUME phase # "closing", NEW r \in allPanes[p], NEW x,
             x = [r EXCEPT !.name = f[r]],
             x.sid # NoSid, x.name = NoName,
             SameSession(allPanes'[p], x.tool, x.sid) = {x}
      PROVE  names'[x.tool][x.sid] = NoName
  <2> DEFINE t == r.tool
             s == r.sid
  <2>1. /\ x.tool = t /\ x.sid = s /\ x.name = f[r] /\ f[r] = NoName
        /\ t \in Tool /\ s \in Sid
    BY <1>3, <1>6 DEF Row
  <2>2. IF r.name = NoName /\ r.sid # NoSid
          THEN \/ f[r] = names[t][s]
               \/ \E q \in SameSession(R, t, s) : f[r] = q.name
               \/ ("lookup" \in MayFail \/ phase = "closing") /\ f[r] = NoName
          ELSE f[r] = r.name
    BY <1>2 DEF Looked
  <2>3. \A q \in SameSession(R, t, s) :
          /\ q \in allPanes[p] /\ q.tool = t /\ q.sid = s /\ q.name # NoName
    BY <1>5 DEF SameSession, Titled
  <2>4. r.name = NoName /\ names[t][s] = NoName
    BY <1>6, <2>1, <2>2, <2>3
  <2>5. SameSession(R, t, s) = {}
    <3> SUFFICES ASSUME NEW q \in SameSession(R, t, s) PROVE FALSE
      OBVIOUS
    <3> DEFINE y == [q EXCEPT !.name = f[q]]
    <3>1. q \in allPanes[p] /\ q \in Row /\ q.name # NoName
      BY <1>3, <2>3
    <3>2. f[q] = q.name
      BY <1>2, <3>1 DEF Looked
    <3>3. y \in allPanes'[p]
      BY <1>3, <3>1
    <3>4. y.tool = t /\ y.sid = s /\ y.name # NoName
      BY <2>3, <3>1, <3>2 DEF Row
    <3> HIDE DEF y
    <3>5. y \in SameSession(allPanes'[p], t, s)
      BY <3>3, <3>4 DEF SameSession
    <3> QED
      BY <1>6, <2>1, <3>4, <3>5
  <2>6. names'[t][s] = names[t][s]
    BY <1>1, <2>1, <2>5 DEF Cached
  <2> QED
    BY <2>1, <2>4, <2>6
<1>7. ASSUME phase # "closing", NEW x \in allPanes'[p],
             x.sid # NoSid, x.name = NoName,
             SameSession(allPanes'[p], x.tool, x.sid) = {x}
      PROVE  names'[x.tool][x.sid] = NoName
  BY <1>3, <1>6, <1>7
<1> QED
  BY <1>3, <1>4, <1>7 DEF LookedInv, SameSession

\* Every action keeps the titles of the holder's rows looked up.
LEMMA LookedStep ==
  ASSUME "lookup" \notin MayFail, TypeOK, MutexInv, LookedInv, [Next]_vars
  PROVE  LookedInv'
<1> USE DEF memVars, localVars, dbVars, tmuxVars
<1>1. ASSUME NEW p \in Proc, Acquire(p) PROVE LookedInv'
  BY <1>1, LookedFrame DEF Acquire, TypeOK
<1>2. ASSUME NEW p \in Proc,
             \/ ReadProvider(p, "claude", "opencode")
             \/ ReadProvider(p, "opencode", "names")
      PROVE  LookedInv'
  BY <1>2, LookedFrame DEF ReadProvider, TypeOK
<1>3. ASSUME NEW p \in Proc, CacheNames(p) PROVE LookedInv'
  BY <1>3, LookedNames
<1>4. ASSUME NEW p \in Proc, CommitSnapshot(p) \/ FailSnapshot(p) \/ SetGen(p)
      PROVE  LookedInv'
  <2>1. \A q \in Proc : q # p => pc[q] # "write"
    BY <1>4, OneHolder
       DEF CommitSnapshot, FailSnapshot, SetGen, Holding, BeforeWrite
  <2>2. \A q \in Proc : pc'[q] # "write"
    BY <1>4, <2>1 DEF CommitSnapshot, FailSnapshot, SetGen, Unlock, TypeOK
  <2> QED
    BY <2>2 DEF LookedInv
<1>5. ASSUME NEW p \in Proc, NEW t \in Tool, SetPill(p, t) PROVE LookedInv'
  BY <1>5, LookedFrame DEF SetPill, TypeOK
<1>6. ASSUME NEW p \in Proc, NEW t \in Tool, Mutate(p, t) PROVE LookedInv'
  BY <1>6, LookedFrame DEF Mutate, TypeOK
<1>7. CASE Start
  <2>1. \A q \in Proc : pc[q] = "idle"
    BY <1>7 DEF Start, MutexInv, ProcessInv, Running
  <2>2. \A q \in Proc : pc'[q] # "write"
    BY <1>7, <2>1 DEF Start, TypeOK
  <2> QED
    BY <2>2 DEF LookedInv
<1>8. CASE Crash \/ Exit
  BY <1>8 DEF Crash, Exit, Vanish, LookedInv
<1>9. CASE FetchInitial \/ Shutdown \/ TmuxStart \/ TmuxExit \/ UNCHANGED vars
  BY <1>9, LookedFrame DEF FetchInitial, Shutdown, TmuxStart, TmuxExit, vars
<1> QED
  BY <1>1, <1>2, <1>3, <1>4, <1>5, <1>6, <1>7, <1>8, <1>9 DEF Next, HolderStep

\* Only a commit changes the panes table, and it inserts what was looked up.
LEMMA LookedCommit ==
  ASSUME TypeOK, MutexInv, LookedInv, [Next]_vars, panes' # panes,
         NEW p \in Proc, pc[p] = "write", NEW r \in panes',
         r.sid # NoSid, r.name = NoName,
         SameSession(allPanes[p], r.tool, r.sid) = {r}
  PROVE  names[r.tool][r.sid] = NoName
<1>1. PICK q \in Proc : CommitSnapshot(q)
  BY DEF Next, Acquire, HolderStep, ReadProvider, CacheNames, FailSnapshot,
         SetPill, SetGen, Mutate, FetchInitial, Start, Crash, Exit, Vanish,
         Shutdown, TmuxStart, TmuxExit, vars, dbVars
<1>2. pc[q] = "write" /\ phase # "closing"
  BY <1>1 DEF CommitSnapshot
<1>3. r \in allPanes[p]
  BY DEF SameSession
<1> QED
  BY <1>2, <1>3 DEF LookedInv

\* As long as no lookup fails, no commit shows a session of the cache without
\* its title: the loop of Reconcile() looks up each title it does not store.
THEOREM TitlesStay ==
  ASSUME "lookup" \notin MayFail
  PROVE  Spec => TitledSessionsStayTitled
<1> DEFINE Inv == TypeOK /\ FiniteInv /\ MutexInv /\ LookedInv
<1>1. Init => Inv
  BY InitType, InitMutex DEF Init, LookedInv
<1>2. Inv /\ [Next]_vars => Inv'
  BY TypeStep, MutexStep, LookedStep
<1>3. Inv /\ [Next]_vars =>
        [panes' # panes =>
           \A p \in Proc : pc[p] = "write" =>
             \A r \in panes' :
               /\ r.sid # NoSid /\ r.name = NoName
               /\ SameSession(allPanes[p], r.tool, r.sid) = {r}
               => names[r.tool][r.sid] = NoName]_vars
  BY LookedCommit
<1> HIDE DEF Inv
<1> QED
  BY <1>1, <1>2, <1>3, PTL DEF Spec, TitledSessionsStayTitled
=============================================================================
