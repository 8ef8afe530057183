-------------------------- MODULE MCClaudeTracking --------------------------
(***************************************************************************)
(* Values for the constants of ClaudeTracking: two panes with directories  *)
(* of their own, and two sessions.                                         *)
(***************************************************************************)
EXTENDS ClaudeTracking, TLC

CONSTANTS w1, w2, c1, c2, s1, s2

MCTarget == {w1, w2}
MCCwd    == {c1, c2}
TwoSids  == {s1, s2}

AnySids == [w \in MCTarget |-> TwoSids]

\* For the liveness properties, which TLC checks without symmetry: opencode is
\* started in the first pane only, and of two sessions that run in different
\* panes, the first pane has s1.
OnePane == {w1}
SomeSids == [w \in MCTarget |-> IF w = w1 THEN TwoSids ELSE {s2}]

OwnDirectories == [w \in MCTarget |-> IF w = w1 THEN c1 ELSE c2]

\* Sessions are alike; panes are, if their directories go with them.
Sids      == Permutations(TwoSids)
SamePanes == (w1 :> w1 @@ w2 :> w2 @@ c1 :> c1 @@ c2 :> c2)
SwapPanes == (w1 :> w2 @@ w2 :> w1 @@ c1 :> c2 @@ c2 :> c1)
Symmetry  == {p @@ q : p \in Sids, q \in {SamePanes, SwapPanes}}
=============================================================================
