--------------------------- MODULE AlphaSelector ---------------------------
(***************************************************************************)
(* The class AlphaSelector of server/alpha_selector.hpp: a grid over the   *)
(* city whose cells adapt the alpha of the queries that start in them.     *)
(*                                                                         *)
(* Every method holds mu_ from start to end: one action each.  The doubles *)
(* are fixed-point: alpha in hundredths, ratios of costs in thousandths    *)
(* (One is 1.0).  Comparisons of means are multiplied out by count.        *)
(***************************************************************************)
EXTENDS Integers

CONSTANTS gridW_, gridH_,
          latMin_, latMax_, lonMin_, lonMax_,
          budget_       \* in thousandths

ASSUME SelectorAssumption ==
  /\ gridW_ \in Nat \ {0} /\ gridH_ \in Nat \ {0}
  /\ latMin_ \in Int /\ latMax_ \in Int /\ latMin_ < latMax_
  /\ lonMin_ \in Int /\ lonMax_ \in Int /\ lonMin_ < lonMax_
  /\ budget_ \in Nat

One == 1000
Cells == 0 .. gridW_ * gridH_ - 1

VARIABLE cells_      \* per cell: sumRatio, count, alpha

AtMost(x, bound) == IF x < bound THEN x ELSE bound
AtLeast(x, bound) == IF x > bound THEN x ELSE bound

-----------------------------------------------------------------------------
(* The cast to int truncates; a place west or south of the grid has a      *)
(* negative quotient, and ends up in cell 0 of its row or column.          *)
cellIdx(lat, lon) ==
  LET r == AtMost(((lat - latMin_) * gridH_) \div (latMax_ - latMin_), gridH_ - 1)
      c == AtMost(((lon - lonMin_) * gridW_) \div (lonMax_ - lonMin_), gridW_ - 1)
  IN  AtLeast(r, 0) * gridW_ + AtLeast(c, 0)

SelectorInit == cells_ = [c \in Cells |-> [sumRatio |-> 0, count |-> 0, alpha |-> 100]]

selectAlpha(lat, lon) == cells_[cellIdx(lat, lon)].alpha

(* meanRatio() - 1, times count, in thousandths                            *)
Excess(c) == c.sumRatio - One * c.count

Adapted(c) ==
  IF 2 * Excess(c) < budget_ * c.count /\ c.alpha < 150
    THEN AtMost(c.alpha + 5, 150)
  ELSE IF Excess(c) > budget_ * c.count THEN AtLeast(c.alpha - 10, 100)
  ELSE c.alpha

observe(lat, lon, costRatio) ==
  LET i == cellIdx(lat, lon)
      c == [cells_[i] EXCEPT !.sumRatio = @ + costRatio, !.count = @ + 1]
  IN  cells_' = [cells_ EXCEPT ![i] = [c EXCEPT !.alpha = Adapted(c)]]

=============================================================================
