---------------------------- MODULE MCReconciler ----------------------------
(***************************************************************************)
(* Values for the constants of Reconciler: a Claude session that moves     *)
(* through its states with and without a title, an OpenCode instance that  *)
(* may share its pane target, main() and two more goroutines.              *)
(***************************************************************************)
EXTENDS Reconciler, TLC

CONSTANTS p1, p2, main, nobody, w1, w2

MCTarget == {w1, w2}
MCKey    == {"k1", "k2"}
MCSid    == {"s1"}
MCNoSid  == "none"
MCName   == {"title"}
MCNoName == ""
MCProc   == {p1, p2, main}

row(t, k, w, s, st, n) ==
  [tool |-> t, key |-> k, target |-> w, sid |-> s, state |-> st, name |-> n]

Claude(st, n)      == row("claude", "k1", w1, "s1", st, n)
OpenCode(w, st, n) == row("opencode", "k1", w, "s1", st, n)
SecondClaude(st)   == row("claude", "k2", w2, "none", st, "")
Registered(w)      == row("opencode", "k1", w, "none", "unknown", "")

\* Several rows, so that counts and urgency matter, and a shared target; a
\* title that comes and goes, as with a restart, which forgets it; an instance
\* before and after its sessions are listed.
UrgencyContents ==
  [t \in {"claude", "opencode"} |->
     IF t = "claude"
       THEN {{}, {Claude("running", ""), SecondClaude("permission")},
                 {Claude("idle", "title"), SecondClaude("permission")}}
       ELSE {{Registered(w1)}, {OpenCode(w1, "idle", "")}}]

\* One row per store, for the liveness properties.
SmallContents ==
  [t \in {"claude", "opencode"} |->
     IF t = "claude" THEN {{}, {Claude("running", "")}}
                     ELSE {{OpenCode(w2, "idle", "")}}]

\* main() is not like the others; the handlers are alike.
HandlerSymmetry == Permutations({p1, p2})
=============================================================================
