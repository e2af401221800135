------------------------------- MODULE Budget -------------------------------
(***************************************************************************)
(* Budget reallocation (domain/budget.py): maximise sum(score * x) with    *)
(* the total preserved and every x within its bounds.  The greedy fill is  *)
(* written in closed form: a campaign takes what the campaigns filled      *)
(* before it leave of the headroom, up to its own room.                    *)
(***************************************************************************)
EXTENDS Integers, FiniteSets, Functions

CONSTANTS Efficiency,        \* log1p(roas) / log1p(3) in ten-thousandths, by roas per mille
          MaxChangePct       \* how far one plan may move a budget, in per cent

(* The one fact about the logarithm the allocator relies on: it ranks      *)
(* every ROAS strictly, so that no cap makes two campaigns look alike.     *)
ASSUME EfficiencyStrict ==
  /\ DOMAIN Efficiency \subseteq Nat
  /\ \A r, q \in DOMAIN Efficiency :
       /\ Efficiency[r] \in Nat
       /\ r < q => Efficiency[r] < Efficiency[q]

ASSUME ChangeBounded == MaxChangePct \in 0..100

BudgetFloor == 1
Larger(a, b) == IF a > b THEN a ELSE b
Smaller(a, b) == IF a < b THEN a ELSE b
SumOver(f, S) == FoldFunctionOnSet(+, 0, f, S)

Roas(s) == IF s.cost = 0 THEN 0 ELSE (1000 * s.revenue) \div s.cost

AllocationScore(s) ==
  LET weight == 500 + (300 * Smaller(Larger(s.impressions, 2000), 10000)) \div 10000
                    + (200 * Smaller(s.conversions, 10)) \div 10
  IN  Larger((Efficiency[Roas(s)] * weight) \div 1000, 1)

(* Only campaigns that spent take part; spend stands in for a missing budget. *)
Eligible(snapshots) == {c \in DOMAIN snapshots : snapshots[c].cost > 0}
Baseline(s, budget) == Larger(IF budget > 0 THEN budget ELSE s.cost, BudgetFloor)

\* Broken variant: campaigns are filled in the order they are listed.
FilledInOrder(snapshots, a, b) == a < b

FilledBefore(snapshots, a, b) ==
  LET x == AllocationScore(snapshots[a])  y == AllocationScore(snapshots[b])
      r == Roas(snapshots[a])             q == Roas(snapshots[b])
  IN  x > y \/ (x = y /\ (r > q \/ (r = q /\ a < b)))

ReleasedBefore(snapshots, a, b) ==
  LET x == AllocationScore(snapshots[a])  y == AllocationScore(snapshots[b])
  IN  x < y \/ (x = y /\ a < b)

FloorOf(budget) == Larger((budget * (100 - MaxChangePct)) \div 100, BudgetFloor)
CeilingOf(budget) == (budget * (100 + MaxChangePct)) \div 100

Floors(current, held) ==
  [c \in DOMAIN current |-> IF c \in held THEN current[c] ELSE FloorOf(current[c])]

(* What the fill still has to place above the floors. *)
Headroom(current, floors) ==
  SumOver(current, DOMAIN current) - SumOver(floors, DOMAIN current)

\* Broken variant: all holds are released at once.
KeptOrNone(snapshots, current, held) ==
  IF Headroom(current, Floors(current, held)) > 0 THEN held ELSE {}

(* Holds that would leave nothing to place are released, weakest score     *)
(* first, until the plan can move again.                                   *)
KeptHolds(snapshots, current, held) ==
  LET through(c) == {d \in held : d = c \/ ReleasedBefore(snapshots, d, c)}
      moves(h) == Headroom(current, Floors(current, h)) > 0
  IN  IF moves(held) THEN held
      ELSE UNION {held \ through(c) : c \in {d \in held : moves(held \ through(d))}}

Allocate(snapshots, budgets, protected) ==
  LET campaigns == Eligible(snapshots)
      current == [c \in campaigns |-> Baseline(snapshots[c], budgets[c])]
      held == protected \cap campaigns
      kept == KeptHolds(snapshots, current, held)
      floors == Floors(current, kept)
      room == [c \in campaigns |-> CeilingOf(current[c]) - floors[c]]
      left(c) == Headroom(current, floors)
                 - SumOver(room, {d \in campaigns : FilledBefore(snapshots, d, c)})
  IN  [c \in campaigns |->
         [current |-> current[c],
          recommended |-> floors[c] + Smaller(room[c], Larger(left(c), 0)),
          held |-> c \in kept]]
=============================================================================
