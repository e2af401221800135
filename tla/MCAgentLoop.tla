---------------------------- MODULE MCAgentLoop ----------------------------
(* Portfolios of two campaigns in which every rule of the loop can fire.   *)
EXTENDS AgentLoop, TLC

Delivery(i, k, v, c, r) == [impressions |-> i, clicks |-> k, conversions |-> v,
                            cost |-> c, revenue |-> r]

(* 214% of a daily budget of 100 over a week, and twice its target. *)
Runaway  == Delivery(60000, 900, 10, 1500, 3000)
(* 183%: inside the hysteresis band below the critical line. *)
Marginal == Delivery(60000, 900, 10, 1280, 2560)
(* Burning at 136% below its ROAS floor, on little evidence. *)
Learning == Delivery(8000, 100, 4, 950, 760)
(* Spend without revenue and hardly a click. *)
Starved  == Delivery(25000, 20, 0, 200, 0)
(* As far over budget as Runaway, with less delivery behind it. *)
Overspent == Delivery(20000, 400, 10, 1500, 3000)
Idle     == Delivery(0, 0, 0, 0, 0)
Healthy  == Delivery(20000, 800, 40, 400, 2000)
Strong   == Delivery(12000, 500, 20, 400, 1200)

MCEfficiency == (0 :> 0) @@ (800 :> 4240) @@ (2000 :> 7925) @@ (3000 :> 10000)
                @@ (5000 :> 12925)

Asset(id, active, control, d) == [id |-> id, active |-> active,
                                  control |-> control, delivery |-> d]
NoAssets == <<{}, {}>>

World(s1, s2, targets, creatives, synced, writes, invalid) ==
  [snapshots |-> <<s1, s2>>, budgets |-> <<100, 200>>, targets |-> targets,
   creatives |-> creatives, synced |-> synced, days |-> 7,
   agentWrites |-> writes, invalid |-> invalid]

MCPortfolios ==
  { World(Runaway, Healthy, <<10, 20>>, NoAssets, {1, 2}, TRUE, {}),
    World(Marginal, Starved, <<20, 20>>, NoAssets, {1}, FALSE, {<<1, "pause_campaign">>}),
    World(Learning, Starved, <<20, 20>>,
          <<{Asset("a", TRUE, TRUE, Healthy)}, {Asset("b", TRUE, FALSE, Starved)}>>,
          {1, 2}, TRUE, {}),
    World(Strong, Healthy, <<10, 20>>, NoAssets, {1, 2}, TRUE, {}),
    World(Learning, Strong, <<20, 10>>, NoAssets, {2}, FALSE, {}),
    World(Overspent, Strong, <<10, 10>>, NoAssets, {1, 2}, TRUE, {}),
    World(Learning, Idle, <<20, 20>>, <<{Asset("a", TRUE, TRUE, Healthy)}, {}>>,
          {1}, FALSE, {}),
    World(Learning, Idle, <<20, 20>>, NoAssets, {1}, TRUE, {}) }
=============================================================================
