----------------------------- MODULE MCOpenCode -----------------------------
(***************************************************************************)
(* Values for the constants of OpenCodeInstances: two panes, two ports,    *)
(* and one client more than there are instances.                           *)
(***************************************************************************)
EXTENDS OpenCodeInstances

CONSTANTS w1, w2, p1, p2, c1, c2, c3

TwoPanes     == {w1, w2}
TwoPorts     == {p1, p2}
ThreeClients == {c1, c2, c3}
=============================================================================
