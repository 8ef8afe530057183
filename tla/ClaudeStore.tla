---------------------------- MODULE ClaudeStore ----------------------------
(***************************************************************************)
(* claude.Store: the sessions the server knows and the pre-registrations   *)
(* of the shell wrapper that no session has claimed yet.                   *)
(*                                                                         *)
(* Every method runs under the store's own lock: one step of the module    *)
(* that composes them.  Left out: titles and timestamps, and               *)
(* MatchPendingByTarget, which nothing calls.                              *)
(***************************************************************************)
EXTENDS Naturals, Sequences

SE == INSTANCE SequencesExt

CONSTANTS
  Sid,                  \* session ids
  Target, NoTarget,     \* tmux pane targets; the empty Session.PaneTarget
  Cwd,                  \* working directories
  NoSession             \* what the map holds for a session it does not have

State == {"idle", "running", "permission", "unknown"}

Session == [target: Target \union {NoTarget}, cwd: Cwd, state: State]

PendingReg == [target: Target, cwd: Cwd]

ASSUME NoTargetAssumption == NoTarget \notin Target

ASSUME NoSessionAssumption == NoSession \notin Session

VARIABLES
  sessions,             \* s.sessions, a map from session ids to objects
  pending               \* s.pending, the oldest first

storeVars == <<sessions, pending>>

StoreType ==
  /\ sessions \in [Sid -> Session \union {NoSession}]
  /\ pending \in Seq(PendingReg)

StoreInit ==
  /\ sessions = [s \in Sid |-> NoSession]
  /\ pending = <<>>

Known(s) == sessions[s] # NoSession

\* The sessions shown at a pane.
TrackedAt(w) == {s \in Sid : Known(s) /\ sessions[s].target = w}

-----------------------------------------------------------------------------

SetState(s, st) ==
  /\ sessions' = IF Known(s) THEN [sessions EXCEPT ![s].state = st]
                             ELSE sessions
  /\ UNCHANGED pending

MatchLatest(cwd, i) == i = Len(pending) /\ i # 0

\* matchPending: the most recent registration with this directory, whatever
\* pane it names.
Match(cwd, i) ==
  /\ i \in DOMAIN pending /\ pending[i].cwd = cwd
  /\ \A j \in DOMAIN pending : pending[j].cwd = cwd => j <= i

NoMatch(cwd) == \A i \in DOMAIN pending : pending[i].cwd # cwd

NewSession(target, cwd) == [target |-> target, cwd |-> cwd, state |-> "idle"]

\* A session the store knows keeps its state and its pane.
RegisterKnown(s, cwd) ==
  /\ Known(s)
  /\ sessions' = [sessions EXCEPT ![s].cwd = cwd]
  /\ UNCHANGED pending

RegisterClaiming(s, cwd) ==
  /\ ~Known(s)
  /\ \E i \in DOMAIN pending :
       /\ Match(cwd, i)
       /\ sessions' = [sessions EXCEPT ![s] =
                         NewSession(pending[i].target, cwd)]
       /\ pending' = SE!RemoveAt(pending, i)

RegisterUnclaimed(s, cwd) ==
  /\ ~Known(s) /\ NoMatch(cwd)
  /\ sessions' = [sessions EXCEPT ![s] = NewSession(NoTarget, cwd)]
  /\ UNCHANGED pending

Register(s, cwd) ==
  RegisterKnown(s, cwd) \/ RegisterClaiming(s, cwd) \/ RegisterUnclaimed(s, cwd)

Remove(s) ==
  /\ sessions' = [sessions EXCEPT ![s] = NoSession]
  /\ UNCHANGED pending

\* SetPaneTarget, which knows the session by its id.
SetPaneTarget(s, target) ==
  /\ sessions' = IF Known(s) THEN [sessions EXCEPT ![s].target = target]
                             ELSE sessions
  /\ UNCHANGED pending

AddPending(target, cwd) ==
  /\ pending' = Append(pending, [target |-> target, cwd |-> cwd])
  /\ UNCHANGED sessions

\* PruneStalePending drops what is older than two minutes.  Registrations are
\* appended as they are created, so these are the first ones.
PruneStalePending(n) ==
  /\ n \in 1 .. Len(pending)
  /\ pending' = SubSeq(pending, n + 1, Len(pending))
  /\ UNCHANGED sessions

\* ScanActiveSessions, at the start of the server: the sessions of the live
\* processes, whose state and pane nobody knows yet.
Recover(live) ==
  /\ sessions' = [s \in Sid |->
                    IF s \in DOMAIN live
                      THEN [NewSession(NoTarget, live[s])
                              EXCEPT !.state = "unknown"]
                      ELSE NoSession]
  /\ pending' = <<>>
=============================================================================
