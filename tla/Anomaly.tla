------------------------------ MODULE Anomaly ------------------------------
(***************************************************************************)
(* The rule-based detector (domain/anomaly.py) over the delivery snapshots *)
(* of domain/kpi.py.  Pure operators: no state.                            *)
(*                                                                         *)
(* Rates are compared by cross multiplication, so no rounding is involved; *)
(* a gap is kept in thousandths, rounded down, which loses nothing at the  *)
(* bands (0.2, 0.5) cut out of it.  A snapshot is a record of counts and   *)
(* of whole units of money; a portfolio maps each campaign to one.         *)
(***************************************************************************)
EXTENDS Integers, FiniteSets

Snapshot == [impressions : Nat, clicks : Nat, conversions : Nat,
             cost : Nat, revenue : Nat]

(* What PerformanceSnapshot refuses: a physically impossible funnel. *)
ConsistentFunnel(s) == s.clicks =< s.impressions /\ s.conversions =< s.clicks

(* Reconciled delivery: a stored slot several feeds wrote to is clamped. *)
Lesser(a, b) == IF a < b THEN a ELSE b
Reconciled(s) == LET clicks == Lesser(s.clicks, s.impressions)
                 IN  [s EXCEPT !.clicks = clicks,
                               !.conversions = Lesser(s.conversions, clicks)]

(***************************************************************************)
(* AlertThresholds, with the defaults of the settings.                     *)
(***************************************************************************)
CtrFloor          == 5       \* per mille
CpaCeiling        == 200
MinImpressions    == 100
MinClicks         == 20
MinSpendForRoas   == 100
BurnMultiplier    == 1250    \* per mille of the daily budget
BurnCritical      == 1875
BurnHysteresis    == 50      \* per mille of the critical line
FrequencyCeiling  == 6

CriticalGap == 500
WarningGap  == 200

Severities == {"critical", "warning", "info"}

SeverityFromGap(gap) == IF gap >= CriticalGap THEN "critical"
                        ELSE IF gap >= WarningGap THEN "warning" ELSE "info"

(* Relative distance past a positive threshold, in thousandths. *)
Gap(excess, threshold) == (1000 * excess) \div threshold

Alert(c, rule, severity, gap) ==
  [campaign |-> c, rule |-> rule, severity |-> severity, gap |-> gap]

Graded(c, rule, gap) == {Alert(c, rule, SeverityFromGap(gap), gap)}

CheckCtr(c, s) ==
  IF s.impressions >= MinImpressions /\ 1000 * s.clicks < CtrFloor * s.impressions
  THEN Graded(c, "low_ctr", Gap(CtrFloor * s.impressions - 1000 * s.clicks,
                                CtrFloor * s.impressions))
  ELSE {}

CheckCpa(c, s) ==
  IF /\ s.conversions > 0 /\ s.clicks >= MinClicks
     /\ s.cost > CpaCeiling * s.conversions
  THEN Graded(c, "high_cpa", Gap(s.cost - CpaCeiling * s.conversions,
                                 CpaCeiling * s.conversions))
  ELSE {}

(* The ROAS floor is one unit of revenue for each unit of cost. *)
CheckRoas(c, s) ==
  IF s.cost >= MinSpendForRoas /\ s.revenue < s.cost
  THEN Graded(c, "low_roas", Gap(s.cost - s.revenue, s.cost))
  ELSE {}

(* Average daily spend against the daily budget.  A campaign that was      *)
(* critical in the pass before stays critical inside the hysteresis band.  *)
Burns(s, budget, days, line) == 1000 * s.cost >= line * budget * days
InHysteresisBand(s, budget, days) ==
  1000000 * s.cost >= BurnCritical * (1000 - BurnHysteresis) * budget * days

CheckBurnRate(c, s, budget, days, wasCritical) ==
  IF budget > 0 /\ 1000 * s.cost > BurnMultiplier * budget * days
  THEN LET critical == \/ Burns(s, budget, days, BurnCritical)
                       \/ wasCritical /\ InHysteresisBand(s, budget, days)
       IN  {Alert(c, "burn_rate", IF critical THEN "critical" ELSE "warning",
                  Gap(1000 * s.cost - BurnMultiplier * budget * days,
                      BurnMultiplier * budget * days))}
  ELSE {}

(* A campaign whose reach is unknown (0) is not checked for fatigue. *)
CheckFrequency(c, s, reach) ==
  IF reach > 0 /\ s.impressions > FrequencyCeiling * reach
  THEN Graded(c, "frequency_fatigue",
              Gap(s.impressions - FrequencyCeiling * reach, FrequencyCeiling * reach))
  ELSE {}

(* Every rule over every snapshot.  One alert per rule and campaign, so    *)
(* that the fingerprints are distinct and deduplicate keeps them all.      *)
Detect(snapshots, budgets, reach, days, prior) ==
  UNION {LET s == snapshots[c]
         IN  CheckCtr(c, s) \cup CheckCpa(c, s) \cup CheckRoas(c, s)
             \cup CheckBurnRate(c, s, budgets[c], days, c \in prior)
             \cup CheckFrequency(c, s, reach[c])
         : c \in DOMAIN snapshots}

SeverityRank(s) == CASE s = "critical" -> 0 [] s = "warning" -> 1 [] OTHER -> 2
=============================================================================
