---------------------------- MODULE MCOpenCodeSse ----------------------------
(* Two sessions of one opencode process and two SSE clients.               *)
EXTENDS OpenCodeSse, TLC

CONSTANTS s1, s2

SidDef == {s1,s2}

budget(s, e, r, g) ==
  [sessions |-> s, events |-> e, regs |-> r, glitches |-> g]

\* One client and many events, fewer with a glitch; two registrations, hence
\* two clients, with few events, or with a glitch and one session alone.
BudgetDef == {budget(2, 3, 1, 0), budget(2, 2, 1, 1),
              budget(2, 1, 2, 0), budget(1, 2, 2, 1)}

Symmetry == Permutations(SidDef)

=============================================================================
