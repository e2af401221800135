------------------------------ MODULE Bidding ------------------------------
(***************************************************************************)
(* The bid recommendation (domain/pricing.py, agents/bidding.py) and the   *)
(* evidence gate that pauses a creative (domain/scoring.py).               *)
(* Multipliers are in ten-thousandths, confidences in thousandths.         *)
(***************************************************************************)
EXTENDS Integers

AtMost(x, bound) == IF x > bound THEN bound ELSE x

(* The multiplier of a campaign that earned s.revenue for s.cost against a *)
(* target ROAS in tenths: ratio >= r/10 iff 100 * revenue >= r*target*cost.*)
Clears(s, target, tenths) == 100 * s.revenue >= tenths * target * s.cost

RoasMultiplier(s, target) ==
  IF target =< 0 THEN 10000
  ELSE IF s.cost = 0 \/ s.revenue = 0 THEN 6000
  ELSE IF Clears(s, target, 20) THEN 13000
  ELSE IF Clears(s, target, 12) THEN 11000
  ELSE IF Clears(s, target, 8)  THEN 10000
  ELSE IF Clears(s, target, 5)  THEN 8000
  ELSE 6000

(* Bids are eased until the campaign has left the learning phase. *)
LearningImpressions == 10000
VolumeMultiplier(s) ==
  8500 + (1500 * AtMost(s.impressions, LearningImpressions)) \div LearningImpressions

Multiplier(s, target) == (RoasMultiplier(s, target) * VolumeMultiplier(s)) \div 10000

(* How much delivery evidence backs the price: never an anomaly's weight. *)
BidConfidence(s) ==
  AtMost(350 + (450 * AtMost(s.impressions, 50000)) \div 50000
             + (IF s.cost > 0 /\ s.revenue > 0 THEN 200 ELSE 0), 980)

Decision(c, s, target) == [campaign   |-> c,
                           multiplier |-> Multiplier(s, target),
                           confidence |-> BidConfidence(s)]

(* The move that counts as a proposal at all. *)
BidMoveThreshold == 500
Raises(d) == d.multiplier - 10000 >= BidMoveThreshold
Lowers(d) == 10000 - d.multiplier >= BidMoveThreshold

(***************************************************************************)
(* score_performance and should_pause.  A score of 100 is 100000 here.     *)
(***************************************************************************)
CtrComponent(s) ==
  IF s.impressions = 0 THEN 0 ELSE AtMost((600000 * s.clicks) \div s.impressions, 30000)
CvrComponent(s) ==
  IF s.clicks = 0 THEN 0 ELSE AtMost((250000 * s.conversions) \div s.clicks, 25000)
CpaComponent(s) ==
  IF s.conversions = 0 THEN 10000
  ELSE 20000 - AtMost((100 * s.cost) \div s.conversions, 20000)
RoasComponent(s) ==
  IF s.cost = 0 THEN 0 ELSE AtMost((25000 * s.revenue) \div (3 * s.cost), 25000)

ScoreConfidence(s) == 250 + (500 * AtMost(s.impressions, 20000)) \div 20000
                          + (250 * AtMost(s.conversions, 20)) \div 20

(* Thin evidence pulls the score to the neutral midpoint. *)
Score(s) ==
  LET raw == CtrComponent(s) + CvrComponent(s) + CpaComponent(s) + RoasComponent(s)
  IN  (raw * ScoreConfidence(s) + 50000 * (1000 - ScoreConfidence(s))) \div 1000

PauseMinImpressions == 500
PauseMinConfidence  == 600
CreativeThreshold   == 40000

ShouldPause(s) == /\ s.impressions >= PauseMinImpressions
                  /\ ScoreConfidence(s) >= PauseMinConfidence
                  /\ Score(s) < CreativeThreshold
=============================================================================
