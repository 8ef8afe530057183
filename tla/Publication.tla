---------------------------- MODULE Publication ----------------------------
(***************************************************************************)
(* What state.Reconciler promises to the readers of the state database,    *)
(* with nothing of how it keeps the promise.                               *)
(*                                                                         *)
(* Every session store has a history of versions, one per mutation.  The   *)
(* database shows one version of each store.  A store moves on whenever a  *)
(* handler mutates it; from time to time a publication brings the database *)
(* forward, to versions that existed, and never back.                      *)
(***************************************************************************)
EXTENDS Naturals

CONSTANT Store          \* the session stores that feed the database

VARIABLES current,      \* current[s]: version of the store in memory
          shown         \* shown[s]: version the database shows

TypeOK ==
  /\ current \in [Store -> Nat]
  /\ shown \in [Store -> Nat]

Init ==
  /\ current = [s \in Store |-> 0]
  /\ shown = [s \in Store |-> 0]

\* Some handlers mutate some of the stores; a restart replaces all of them.
Advance ==
  /\ current' \in [Store -> Nat]
  /\ \A s \in Store : current'[s] >= current[s]
  /\ UNCHANGED shown

\* A transaction commits.  The stores are read one after the other, under
\* locks of their own, so the versions need not be from one instant.
Publish ==
  /\ shown' \in [Store -> Nat]
  /\ \A s \in Store : shown[s] <= shown'[s] /\ shown'[s] <= current[s]
  /\ UNCHANGED current

Next == Advance \/ Publish

vars == <<current, shown>>

Spec == Init /\ [][Next]_vars
=============================================================================
