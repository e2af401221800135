----------------------------- MODULE AgentLoop -----------------------------
(***************************************************************************)
(* The supervisor loop: monitor, audience, creative, bidding, optimize and *)
(* critic, once per iteration, over one shared state, until the run has    *)
(* nothing left to do; then the run's proposals and alerts are persisted.  *)
(* (orchestrator/graph.py, orchestrator/state.py, agents/*.py)             *)
(*                                                                         *)
(* An agent is one step: between two agents only cancellation can come,    *)
(* which RunLifecycle models.  Channels written with append_list           *)
(* (proposals, findings, drafts) grow; those written with replace_list     *)
(* (alerts, decisions) are overwritten.  What the run reads from outside,  *)
(* snapshots, budgets, targets and creatives, is loaded once per run.      *)
(***************************************************************************)
EXTENDS Integers, FiniteSets, Anomaly, Bidding, Budget, Critic

CONSTANTS Portfolios,        \* what a run may be asked to look at
          MaxIterations,     \* of a run
          MaxCalls,          \* tool calls the agents of one run may make
          MaxLiveChecks,     \* campaigns reconciled with their network per iteration
          MaxPreflights,     \* proposals rehearsed per iteration
          MaxTargets,        \* campaigns that get new copy per iteration
          VariantCounts,     \* how many usable variants the model may answer with
          MaxRuns            \* bound: runs one after the other

ASSUME LoopBounds ==
  /\ MaxIterations \in Nat \ {0} /\ MaxCalls \in Nat
  /\ MaxLiveChecks \in Nat /\ MaxPreflights \in Nat /\ MaxTargets \in Nat
  /\ VariantCounts \subseteq Nat \ {0}
  /\ MaxRuns \in Nat \ {0}

(* A run loads its campaigns and their creatives as lists. *)
ASSUME PortfoliosFinite ==
  \A w \in Portfolios : /\ IsFiniteSet(DOMAIN w.snapshots)
                        /\ \A c \in DOMAIN w.snapshots : IsFiniteSet(w.creatives[c])

(* What the agents are handed is a possible funnel, already reconciled. *)
ASSUME DeliveryPossible ==
  \A w \in Portfolios : \A c \in DOMAIN w.snapshots :
    LET s == w.snapshots[c]
    IN  /\ s \in Snapshot /\ ConsistentFunnel(s) /\ Reconciled(s) = s
        /\ \A k \in w.creatives[c] : k.delivery \in Snapshot

(* Campaigns are numbered in the order of their ids, a budget is an amount *)
(* and a target a number of tenths, and the table of logarithms covers     *)
(* every ROAS that occurs.                                                 *)
ASSUME BudgetsComparable ==
  \A w \in Portfolios : \A c \in DOMAIN w.snapshots :
    /\ c \in Int
    /\ w.budgets[c] \in Nat /\ w.targets[c] \in Int
    /\ Roas(w.snapshots[c]) \in DOMAIN Efficiency

VARIABLES
  world,        \* AgentContext of the current run
  run,          \* its number
  pc,           \* the node about to run
  iteration,
  alerts, decisions, drafts, proposals, findings, complete,  \* AgentState
  calls,        \* tool calls left to the run
  queue,        \* the run's persisted proposals, with their status
  burning       \* campaigns whose stored burn-rate alert is critical

vars == <<world, run, pc, iteration, alerts, decisions, drafts, proposals,
          findings, complete, calls, queue, burning>>

Campaigns == DOMAIN world.snapshots
Nodes == {"monitor", "audience", "creative", "bidding", "optimize", "critic",
          "finalise", "done"}

(* The state a run is seeded with; the executor counts its calls from zero. *)
Init ==
  /\ world \in Portfolios
  /\ run = 1
  /\ pc = "monitor" /\ iteration = 0
  /\ alerts = {} /\ decisions = {} /\ proposals = {} /\ findings = {}
  /\ drafts = [c \in Campaigns |-> 0]
  /\ complete = FALSE
  /\ calls = MaxCalls
  /\ queue = {}
  /\ burning = {}

(***************************************************************************)
(* Monitor                                                                 *)
(***************************************************************************)
NoReach == [c \in Campaigns |-> 0]    \* the monitor passes no reach

(* The burn-rate verdicts the alerts channel still holds. *)
PriorBurnRate == {a.campaign : a \in {b \in alerts : /\ b.rule = "burn_rate"
                                                     /\ b.severity = "critical"}}

Alerted(found) == {a.campaign : a \in found}
WorstRank(found, c) ==
  CHOOSE r \in 0..2 :
    /\ \E a \in found : a.campaign = c /\ SeverityRank(a.severity) = r
    /\ \A a \in found : a.campaign = c => SeverityRank(a.severity) >= r

(* Worst first; a campaign without an external id takes a place, no call. *)
Checked(found) ==
  {c \in Alerted(found) :
     Cardinality({d \in Alerted(found) :
        \/ WorstRank(found, d) < WorstRank(found, c)
        \/ WorstRank(found, d) = WorstRank(found, c) /\ d < c}) < MaxLiveChecks}

\* Broken variant: calls past the budget are charged too.
SpendPastZero(n) == calls' = calls - n
Spend(n) == calls' = Larger(calls - n, 0)

Monitor ==
  /\ pc = "monitor"
  /\ LET found == Detect(world.snapshots, world.budgets, NoReach, world.days,
                         PriorBurnRate)
     IN  /\ alerts' = found
         /\ Spend(Cardinality(Checked(found) \cap world.synced))
  /\ pc' = "audience"
  /\ UNCHANGED <<world, run, iteration, decisions, drafts, proposals, findings,
                 complete, queue, burning>>

(* Segments and a hypothesis for the reader; no other agent reads them. *)
Audience ==
  /\ pc = "audience"
  /\ pc' = "creative"
  /\ UNCHANGED <<world, run, iteration, alerts, decisions, drafts, proposals,
                 findings, complete, calls, queue, burning>>

(***************************************************************************)
(* Creative: copy for campaigns with volume and a weak signal.             *)
(***************************************************************************)
NeedsNewCreative(s) ==
  /\ s.impressions >= MinImpressions
  /\ \/ 1000 * s.clicks < 2 * CtrFloor * s.impressions
     \/ s.clicks = 0 \/ 1000 * s.conversions < 40 * s.clicks
     \/ 10000 * s.clicks < 175 * s.impressions

(* In the order of their ids, as far as the cap of one iteration goes. *)
InNeed == {c \in Campaigns : NeedsNewCreative(world.snapshots[c])}
Targets == {c \in InNeed : Cardinality({d \in InNeed : d < c}) < MaxTargets}

(* The model's unique variants, or those of the rules when it fails: some. *)
Creative ==
  /\ pc = "creative"
  /\ \E variants \in [Targets -> VariantCounts] :
       drafts' = [c \in Campaigns |->
                    IF c \in Targets THEN drafts[c] + variants[c] ELSE drafts[c]]
  /\ pc' = "bidding"
  /\ UNCHANGED <<world, run, iteration, alerts, decisions, proposals, findings,
                 complete, calls, queue, burning>>

BiddingStep ==
  /\ pc = "bidding"
  /\ decisions' = {Decision(c, world.snapshots[c], world.targets[c]) : c \in Campaigns}
  /\ pc' = "optimize"
  /\ UNCHANGED <<world, run, iteration, alerts, drafts, proposals, findings,
                 complete, calls, queue, burning>>

(***************************************************************************)
(* Optimize: candidates from every rule, one kept per intent.              *)
(***************************************************************************)
Unset == "unset"      \* no severity, no direction

Proposal(c, creative, type, confidence, severity, direction, order) ==
  [campaign |-> c, creative |-> creative, type |-> type, confidence |-> confidence,
   severity |-> severity, direction |-> direction, order |-> order,
   urgency |-> 0,            \* what _action writes when no caller passes one
   iteration |-> iteration + 1, blocked |-> FALSE]

Poor(c) == {k \in world.creatives[c] : k.active /\ ShouldPause(k.delivery)}

CreativeActions ==
  LET named == UNION {{Proposal(c, k.id, "pause_creative", 800, Unset, Unset, 1)
                       : k \in Poor(c)} : c \in Campaigns}
  IN  IF named # {} THEN named
      ELSE {Proposal(c, NoCreative, "pause_creative", 450, Unset, Unset, 1)
            : c \in {d \in Campaigns : ShouldPause(world.snapshots[d])}}

(* A campaign this run bids up, and that clears its target, is not cut. *)
HoldAtTarget == {d.campaign : d \in {e \in decisions :
                   /\ Raises(e)
                   /\ world.targets[e.campaign] > 0
                   /\ Clears(world.snapshots[e.campaign], world.targets[e.campaign], 10)}}

Allocations == Allocate(world.snapshots, world.budgets, HoldAtTarget)

Moved(a) == 100 * (Larger(a.recommended, a.current) - Smaller(a.recommended, a.current))
            > 5 * a.current

BudgetActions ==
  {Proposal(c, NoCreative, "adjust_budget", 750, Unset,
            IF Allocations[c].recommended > Allocations[c].current
            THEN "increase" ELSE "decrease", 2)
   : c \in {d \in DOMAIN Allocations : Moved(Allocations[d])}}

BidActions ==
  {Proposal(d.campaign, NoCreative, "adjust_bid", d.confidence, Unset,
            IF d.multiplier > 10000 THEN "increase" ELSE "decrease", 3)
   : d \in {e \in decisions : Raises(e) \/ Lowers(e)}}

(* The remedy of a fired rule.  Lowering a bid names no direction. *)
Remedy(rule) == CASE rule \in {"high_cpa", "burn_rate"} -> "pause_campaign"
                  [] rule \in {"low_ctr", "frequency_fatigue"} -> "refresh_creative"
                  [] OTHER -> "adjust_bid"

AlertActions ==
  {Proposal(a.campaign, NoCreative, Remedy(a.rule),
            IF a.severity = "critical" THEN 900 ELSE 700, a.severity, Unset,
            10 + 2 * SeverityRank(a.severity) + IF a.rule = "high_cpa" THEN 1 ELSE 0)
   : a \in alerts}

ExperimentActions ==
  {Proposal(c, NoCreative, "start_ab_test",
            IF \E k \in world.creatives[c] : k.control THEN 850 ELSE 600, Unset, Unset, 20)
   : c \in {d \in Campaigns : drafts[d] >= 2}}

Candidates == CreativeActions \cup BudgetActions \cup BidActions
              \cup AlertActions \cup ExperimentActions

(* The highest confidence per intent; of equals the one proposed first. *)
Deduped(candidates) ==
  {p \in candidates : ~\E q \in candidates :
     /\ Intent(q) = Intent(p)
     /\ \/ q.confidence > p.confidence
        \/ q.confidence = p.confidence /\ q.order < p.order}

(* What implies a tool call: a synced campaign, or a named creative. *)
Rehearsable(p) ==
  \/ p.type \in {"adjust_budget", "pause_campaign"} /\ p.campaign \in world.synced
  \/ p.type = "pause_creative" /\ p.creative # NoCreative

(* The first n of S in the order the proposals are handed over. *)
FirstOf(S, n) ==
  {R \in SUBSET S :
     /\ Cardinality(R) = Smaller(n, Cardinality(S))
     /\ \A p \in R, q \in S \ R :
          \/ p.confidence > q.confidence
          \/ p.confidence = q.confidence /\ p.campaign =< q.campaign}

(* Past the tool budget a call is answered budget_exhausted, which refuses *)
(* without blocking.  Arguments outside the tool's schema are refused as   *)
(* such; a deployment that lets agents write may see any call fail.        *)
Refusals(answered) ==
  LET invalid == {p \in answered : <<p.campaign, p.type>> \in world.invalid}
  IN  IF world.agentWrites THEN {invalid \cup more : more \in SUBSET answered}
      ELSE {invalid}

(* Stop at the cap, when no anomaly is left, or with nothing to propose. *)
ShouldComplete(proposed) ==
  iteration + 1 >= MaxIterations \/ alerts = {} \/ proposed = {}

Optimize ==
  /\ pc = "optimize"
  /\ LET proposed == Deduped(Candidates)
         rehearsable == {p \in proposed : Rehearsable(p)}
     IN  /\ \E attempted \in FirstOf(rehearsable, MaxPreflights) :
            \E answered \in FirstOf(attempted, calls) :
            \E refused \in Refusals(answered) :
              /\ proposals' = proposals \cup
                   {[p EXCEPT !.blocked = p \in refused] : p \in proposed}
              /\ Spend(Cardinality(attempted))
         /\ complete' = ShouldComplete(proposed)
  /\ iteration' = iteration + 1
  /\ pc' = "critic"
  /\ UNCHANGED <<world, run, alerts, decisions, drafts, findings, queue, burning>>

(***************************************************************************)
(* Critic, routing, and what the service persists.                         *)
(***************************************************************************)
RouteAfterCritic == IF complete \/ iteration >= MaxIterations \/ alerts = {}
                    THEN "finalise" ELSE "monitor"

CriticStep ==
  /\ pc = "critic"
  /\ findings' = IF proposals = {} THEN findings
                 ELSE findings \cup {Review(proposals, iteration)}
  /\ pc' = RouteAfterCritic
  /\ UNCHANGED <<world, run, iteration, alerts, decisions, drafts, proposals,
                 complete, calls, queue, burning>>

(* Every proposal is stored, a withheld one as suppressed; the alerts of   *)
(* the last iteration refresh their rows, and no row is ever resolved here.*)
Finalise ==
  /\ pc = "finalise"
  /\ queue' = {[proposal |-> p,
                status |-> IF p \in SuppressedBy(findings) THEN "suppressed"
                           ELSE "proposed"] : p \in proposals}
  /\ burning' = LET burns == {a \in alerts : a.rule = "burn_rate"}
                IN  (burning \ Alerted(burns)) \cup PriorBurnRate
  /\ pc' = "done"
  /\ UNCHANGED <<world, run, iteration, alerts, decisions, drafts, proposals,
                 findings, complete, calls>>

(* The next run, over whatever the portfolio has become. *)
NextRun ==
  /\ pc = "done" /\ run < MaxRuns
  /\ world' \in Portfolios
  /\ run' = run + 1
  /\ pc' = "monitor" /\ iteration' = 0
  /\ alerts' = {} /\ decisions' = {} /\ proposals' = {} /\ findings' = {}
  /\ drafts' = [c \in DOMAIN world'.snapshots |-> 0]
  /\ complete' = FALSE
  /\ calls' = MaxCalls
  /\ queue' = {}
  /\ UNCHANGED burning

Next == Monitor \/ Audience \/ Creative \/ BiddingStep \/ Optimize
        \/ CriticStep \/ Finalise \/ NextRun

Spec == Init /\ [][Next]_vars

-----------------------------------------------------------------------------
(***************************************************************************)
(* Properties                                                              *)
(***************************************************************************)
ProposalTypes == {"pause_creative", "adjust_budget", "adjust_bid",
                  "pause_campaign", "refresh_creative", "start_ab_test"}

(* The shape of the state. *)
TypeOK ==
  /\ world \in Portfolios
  /\ run \in 1..MaxRuns
  /\ pc \in Nodes
  /\ iteration \in 0..MaxIterations
  /\ \A a \in alerts : a.campaign \in Campaigns /\ a.severity \in Severities
  /\ \A d \in decisions : d.campaign \in Campaigns /\ d.confidence \in 0..980
  /\ drafts \in [Campaigns -> Nat]
  /\ \A p \in proposals : /\ p.campaign \in Campaigns /\ p.type \in ProposalTypes
                          /\ p.confidence \in 0..1000
                          /\ p.iteration \in 1..iteration
  /\ \A f \in findings : f.iteration \in 1..iteration /\ f.withheld \subseteq proposals
  /\ complete \in BOOLEAN
  /\ calls \in 0..MaxCalls
  /\ \A row \in queue : row.proposal \in proposals
  /\ burning \subseteq UNION {DOMAIN w.snapshots : w \in Portfolios}

Open == {row.proposal : row \in {r \in queue : r.status = "proposed"}}

(* An operator decides an intent once: however often the loop raised it,   *)
(* and whichever of its copies the network refused, one row of it is open, *)
(* and no open row contradicts another (critic.py _repeats, _conflicts,    *)
(* read through state.py suppressed_action_ids).                           *)
QueueIsCoherent == OnePerIntent(Open) /\ Coherent(Open)

(* The run implements ReviewQueue: until it is done nothing is on offer,   *)
(* what it raised only grows (append_list), and one step publishes a       *)
(* selection that repeats, contradicts and retries nothing                 *)
(* (optimization.py _finalise).                                            *)
Queue == INSTANCE ReviewQueue WITH
           raised  <- proposals,
           offered <- Open,
           stage   <- IF pc = "done" THEN "published" ELSE "deliberating"

PublishesOnce == Queue!QueueSpec

(* Withholding never loses anything to a refusal: an executable proposal   *)
(* that is not open has an executable rival, an open copy of itself or one *)
(* it contradicts; and a campaign with an executable proposal has an open  *)
(* one.  A refused copy must not take the executable one with it           *)
(* (critic.py _unexecutable runs before _repeats).                         *)
NothingLostToRefusals ==
  pc = "done" =>
    \A p \in proposals : ~p.blocked =>
      /\ \E q \in Open : q.campaign = p.campaign
      /\ \E q \in proposals :
           /\ ~q.blocked
           /\ \/ q \in Open /\ Intent(q) = Intent(p)
              \/ Contradict(p, q) \/ Contradict(q, p)

(* What the passes of all iterations together withheld leaves open exactly *)
(* what the last pass, which judged the whole accumulation, left open: no  *)
(* earlier verdict on a smaller pool outlives its reasons (state.py        *)
(* suppressed_action_ids unions the findings of every iteration).          *)
VerdictsAgree ==
  \A f \in findings : f.iteration = iteration /\ pc # "critic"
     => Surviving(proposals, findings) = proposals \ f.withheld

(* Two open proposals that move a campaign's spend opposite ways are never *)
(* handed over silently: the last pass escalates the campaign (critic.py   *)
(* _spend_direction).                                                      *)
OpposedSpendEscalated ==
  pc = "done" =>
    \A up, down \in Open :
      /\ up.campaign = down.campaign
      /\ {up.type, down.type} \subseteq {"adjust_bid", "adjust_budget"}
      /\ up.direction = "increase" /\ down.direction = "decrease"
      => \E f \in findings : f.iteration = iteration /\ up.campaign \in f.escalated

(* The plan preserves the total, keeps every budget in its bounds, and no  *)
(* transfer between two campaigns that their bounds allow would raise the  *)
(* objective: the greedy fill is the optimum (budget.py allocate).         *)
PlanIsOptimal ==
  pc = "optimize" =>
    LET plan == Allocations
        score(c) == AllocationScore(world.snapshots[c])
    IN  /\ SumOver([c \in DOMAIN plan |-> plan[c].recommended], DOMAIN plan)
             = SumOver([c \in DOMAIN plan |-> plan[c].current], DOMAIN plan)
        /\ \A c \in DOMAIN plan :
             plan[c].recommended \in FloorOf(plan[c].current)..CeilingOf(plan[c].current)
        /\ \A c, d \in DOMAIN plan :
             \/ score(c) =< score(d)
             \/ plan[c].recommended = CeilingOf(plan[c].current)
             \/ plan[d].recommended = FloorOf(plan[d].current)
             \/ plan[d].held /\ plan[d].recommended = plan[d].current

(* A run that bids a campaign up does not cut its budget.  A hold is given *)
(* up only where keeping all would freeze the whole plan, weakest first,   *)
(* and no more of them than it takes (optimize.py _hold_at_target,         *)
(* budget.py _apply_holds).                                                *)
HoldsReleasedLast ==
  pc = "optimize" =>
    LET plan == Allocations
        score(c) == AllocationScore(world.snapshots[c])
        kept == {c \in DOMAIN plan : plan[c].held}
        released == (HoldAtTarget \cap DOMAIN plan) \ kept
        frozen(held) == \A c \in DOMAIN plan \ held :
                           plan[c].current = FloorOf(plan[c].current)
    IN  /\ \A c \in kept : plan[c].recommended >= plan[c].current
        /\ \A r \in released, d \in kept : score(r) =< score(d)
        /\ released # {} => /\ frozen(HoldAtTarget)
                            /\ \E r \in released : frozen(kept \cup {r})

(* A clearly critical anomaly is undebatable: a proposal to pause that is  *)
(* backed by one, past the line by the margin, is not withheld in favour   *)
(* of delivery evidence (docs/production/02-architecture.md:177-184).      *)
ClearlyCritical(c) == \E a \in alerts : /\ a.campaign = c
                                        /\ Remedy(a.rule) = "pause_campaign"
                                        /\ a.severity = "critical"
                                        /\ a.gap >= DominanceLine
CriticalPauseStands ==
  pc = "done" =>
    \A p \in proposals : /\ p.type = "pause_campaign" /\ ~p.blocked
                         /\ ClearlyCritical(p.campaign)
       => \E q \in Open : q.campaign = p.campaign /\ q.type = "pause_campaign"

(* A campaign whose stored burn-rate alert is critical stays critical      *)
(* until its ratio has fallen out of the hysteresis band (anomaly.py:35-37)*)
CriticalIsSticky ==
  [][pc = "monitor" =>
       \A c \in burning \cap Campaigns :
         /\ InHysteresisBand(world.snapshots[c], world.budgets[c], world.days)
         => c \in {a.campaign : a \in {b \in alerts' : /\ b.rule = "burn_rate"
                                                       /\ b.severity = "critical"}}]_vars
=============================================================================
