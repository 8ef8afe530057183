---------------------------- MODULE ColumnBudget ----------------------------
(***************************************************************************)
(* The widths of the five columns of the navigator, from the width of its  *)
(* pane: desired widths, reduced column by column to their minimums, and   *)
(* the first two further down to the three dots that truncate_str needs.   *)
(***************************************************************************)
EXTENDS Integers

SafetyCols == 2

Overhead == 13

AtLeast(n, low) == IF n < low THEN low ELSE n

PadTarget(cols) == AtLeast(cols - SafetyCols, 20)

ColBudgetOfPane(cols) == AtLeast(PadTarget(cols), 20)

ColBudget(cols) == AtLeast(PadTarget(cols) - Overhead, 20)

\* By how much a column of width w is reduced: to no less than its minimum.
Decrease(deficit, w, minimum) ==
  IF deficit <= 0 THEN 0
  ELSE IF deficit < w - minimum THEN deficit ELSE w - minimum

\* The stages in the order of the script: session, directory, tmux session,
\* host, age, then session and directory once more.
Widths(cols) ==
  LET d0 == 30 + 30 + 10 + 20 + 10 - ColBudget(cols)
      session == Decrease(d0, 30, 10)       d1 == d0 - session
      dir     == Decrease(d1, 30, 10)       d2 == d1 - dir
      tmux    == Decrease(d2, 20, 8)        d3 == d2 - tmux
      host    == Decrease(d3, 10, 6)        d4 == d3 - host
      age     == Decrease(d4, 10, 6)        d5 == d4 - age
      more    == Decrease(d5, 30 - session, 3)
      last    == Decrease(d5 - more, 30 - dir, 3)
  IN [session |-> 30 - session - more, dir |-> 30 - dir - last,
      host |-> 10 - host, tmux |-> 20 - tmux, age |-> 10 - age]

Sum(w) == w.session + w.dir + w.host + w.tmux + w.age

\* A row: the dot, a space, the glyph and its space, two spaces before each
\* column, the columns.
RowWidth(cols) == 1 + 1 + 2 + 5 * 2 + Sum(Widths(cols))

\* No row is wider than a pane of 40 cells or more, although the overhead of
\* a row is 14 and not the 13 that the script reserves for it.
Fits(cols) == cols >= 40 => RowWidth(cols) <= cols

\* Every column has room for the three dots of truncate_str, and its own
\* minimum on a pane of 55 cells or more.
Readable(cols) ==
  LET w == Widths(cols)
  IN /\ w.session >= 3 /\ w.dir >= 3 /\ w.host >= 6 /\ w.tmux >= 8 /\ w.age >= 6
     /\ cols >= 55 => w.session >= 10 /\ w.dir >= 10

=============================================================================
