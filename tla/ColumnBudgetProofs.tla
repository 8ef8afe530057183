------------------------- MODULE ColumnBudgetProofs -------------------------
(***************************************************************************)
(* For every width of the pane, by following the deficit through the       *)
(* stages: as long as something is left of it, every column before is at   *)
(* its minimum.                                                            *)
(***************************************************************************)
EXTENDS ColumnBudget, TLAPS

LEMMA Budget ==
  ASSUME NEW cols \in Nat
  PROVE  /\ ColBudget(cols) \in Int /\ ColBudget(cols) >= 20
         /\ cols >= 40 => ColBudget(cols) = cols - 15
         /\ cols < 40 => ColBudget(cols) <= 24
BY DEF ColBudget, PadTarget, AtLeast, SafetyCols, Overhead

\* What all stages together leave of the columns.
LEMMA Stages ==
  ASSUME NEW cols \in Nat
  PROVE  LET w == Widths(cols) IN
         /\ w.session \in 3 .. 30 /\ w.dir \in 3 .. 30 /\ w.host \in 6 .. 10
         /\ w.tmux \in 8 .. 20 /\ w.age \in 6 .. 10
         /\ Sum(w) <= ColBudget(cols) \/ Sum(w) = 26
         /\ ColBudget(cols) >= 40 => w.session >= 10 /\ w.dir >= 10
<1> DEFINE d0 == 30 + 30 + 10 + 20 + 10 - ColBudget(cols)
           session == Decrease(d0, 30, 10)   d1 == d0 - session
           dir == Decrease(d1, 30, 10)       d2 == d1 - dir
           tmux == Decrease(d2, 20, 8)       d3 == d2 - tmux
           host == Decrease(d3, 10, 6)       d4 == d3 - host
           age == Decrease(d4, 10, 6)        d5 == d4 - age
           more == Decrease(d5, 30 - session, 3)
           last == Decrease(d5 - more, 30 - dir, 3)
<1>0. d0 = 100 - ColBudget(cols) /\ d0 \in Int /\ ColBudget(cols) \in Int
  BY Budget
<1>1. Widths(cols) =
        [session |-> 30 - session - more, dir |-> 30 - dir - last,
         host |-> 10 - host, tmux |-> 20 - tmux, age |-> 10 - age]
  BY DEF Widths
<1> HIDE DEF d0, d1, d2, d3, d4, d5, session, dir, tmux, host, age, more, last
<1>2. /\ session \in 0 .. 20 /\ d1 = d0 - session /\ d1 \in Int
      /\ d0 <= 0 => session = 0
      /\ d0 > 0 => d1 >= 0
      /\ d1 > 0 => session = 20
  BY <1>0 DEF session, d1, Decrease
<1>3. /\ dir \in 0 .. 20 /\ d2 = d1 - dir /\ d2 \in Int
      /\ d1 <= 0 => dir = 0
      /\ d1 > 0 => d2 >= 0
      /\ d2 > 0 => dir = 20
  BY <1>2 DEF dir, d2, Decrease
<1>4. /\ tmux \in 0 .. 12 /\ d3 = d2 - tmux /\ d3 \in Int
      /\ d2 <= 0 => tmux = 0
      /\ d2 > 0 => d3 >= 0
      /\ d3 > 0 => tmux = 12
  BY <1>3 DEF tmux, d3, Decrease
<1>5. /\ host \in 0 .. 4 /\ d4 = d3 - host /\ d4 \in Int
      /\ d3 <= 0 => host = 0
      /\ d3 > 0 => d4 >= 0
      /\ d4 > 0 => host = 4
  BY <1>4 DEF host, d4, Decrease
<1>6. /\ age \in 0 .. 4 /\ d5 = d4 - age /\ d5 \in Int
      /\ d4 <= 0 => age = 0
      /\ d4 > 0 => d5 >= 0
      /\ d5 > 0 => age = 4
  BY <1>5 DEF age, d5, Decrease
<1>7. /\ more \in 0 .. 27 - session
      /\ d5 <= 0 => more = 0
      /\ d5 > 0 => d5 - more >= 0
      /\ d5 - more > 0 => more = 27 - session
  BY <1>2, <1>6 DEF more, Decrease
<1>8. /\ last \in 0 .. 27 - dir
      /\ d5 - more <= 0 => last = 0
      /\ d5 - more > 0 => d5 - more - last >= 0
      /\ d5 - more - last > 0 => last = 27 - dir
  BY <1>2, <1>3, <1>6, <1>7 DEF last, Decrease
<1>9. /\ 100 - session - more - dir - last - host - tmux - age <= ColBudget(cols)
         \/ 100 - session - more - dir - last - host - tmux - age = 26
      /\ ColBudget(cols) >= 40 => more = 0 /\ last = 0
  BY <1>0, <1>2, <1>3, <1>4, <1>5, <1>6, <1>7, <1>8
<1>10. Sum(Widths(cols)) =
         100 - session - more - dir - last - host - tmux - age
  BY <1>1, <1>2, <1>3, <1>4, <1>5, <1>6, <1>7, <1>8 DEF Sum
<1>11. /\ Widths(cols).session = 30 - session - more
       /\ Widths(cols).dir = 30 - dir - last
       /\ Widths(cols).tmux \in 8 .. 20
       /\ Widths(cols).host \in 6 .. 10 /\ Widths(cols).age \in 6 .. 10
  BY <1>1, <1>4, <1>5, <1>6
<1>12. /\ 30 - session - more \in 3 .. 30 /\ 30 - dir - last \in 3 .. 30
       /\ ColBudget(cols) >= 40 =>
            30 - session - more >= 10 /\ 30 - dir - last >= 10
  BY <1>2, <1>3, <1>7, <1>8, <1>9
<1>13. Sum(Widths(cols)) <= ColBudget(cols) \/ Sum(Widths(cols)) = 26
  BY <1>9, <1>10
<1> QED BY <1>11, <1>12, <1>13

\* A row of the navigator is never wider than a pane of 40 cells or more.
THEOREM RowsFit == \A cols \in Nat : Fits(cols)
<1> SUFFICES ASSUME NEW cols \in Nat, cols >= 40
             PROVE  RowWidth(cols) <= cols
  BY DEF Fits
<1>1. Sum(Widths(cols)) \in Int
  BY Stages DEF Sum
<1>2. Sum(Widths(cols)) <= cols - 15 \/ Sum(Widths(cols)) = 26
  BY Stages, Budget
<1> QED BY <1>1, <1>2 DEF RowWidth

\* Every column keeps room for the dots of truncate_str, on a pane of any
\* width, and the first two their minimum on one of 55 cells or more.
THEOREM ColumnsReadable == \A cols \in Nat : Readable(cols)
<1> SUFFICES ASSUME NEW cols \in Nat PROVE Readable(cols)
  OBVIOUS
<1>1. cols >= 55 => ColBudget(cols) >= 40
  BY Budget
<1> QED BY <1>1, Stages DEF Readable

=============================================================================
