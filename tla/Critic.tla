------------------------------- MODULE Critic -------------------------------
(***************************************************************************)
(* The critic (agents/critic.py): one pass over every proposal a run has   *)
(* accumulated.  Pure operators over sets of proposals.  A proposal is     *)
(*   [campaign, creative, type, confidence, severity, urgency, direction,  *)
(*    blocked, iteration, order]                                           *)
(* and is identified by its intent and iteration: the optimizer leaves one *)
(* per intent in an iteration.  Confidences and urgencies are per mille;   *)
(* creative is NoCreative for a proposal about a whole campaign.           *)
(***************************************************************************)
EXTENDS Integers, FiniteSets

NoCreative == "none"
SpendTypes == {"adjust_budget", "adjust_bid"}

Intent(p) == <<p.campaign, p.creative, p.type>>
Scope(p) == <<p.campaign, p.creative>>

(***************************************************************************)
(* Standing: severity first, then confidence; then the fresher iteration.  *)
(***************************************************************************)
SevRank(p) == IF p.severity = "critical" THEN 1 ELSE 0

RankAbove(q, p) == \/ SevRank(q) > SevRank(p)
                   \/ SevRank(q) = SevRank(p) /\ q.confidence > p.confidence

Stronger(q, p) == \/ RankAbove(q, p)
                  \/ ~RankAbove(p, q) /\ q.iteration > p.iteration

(* Clearly critical: past the critical line by the dominance margin. *)
DominanceLine == 500 + 100
Dominates(p) == SevRank(p) = 1 /\ p.urgency >= DominanceLine

Outranks(challenger, keeper) ==
  IF Dominates(challenger) # Dominates(keeper) THEN Dominates(challenger)
  ELSE challenger.confidence > keeper.confidence

Strongest(S) == CHOOSE p \in S : \A q \in S : ~RankAbove(q, p)

(***************************************************************************)
(* The passes, in their order.  Each returns what stays in the pool.       *)
(***************************************************************************)
\* Broken variant: refused proposals stay in the pool.
ExecutableOrNot(pool) == pool

(* A proposal the rehearsal saw refused leaves before anything is compared.*)
Executable(pool) == {p \in pool : ~p.blocked}

(* The same intent, raised once per iteration, is decided once. *)
Distinct(pool) ==
  {p \in pool : ~\E q \in pool : Intent(q) = Intent(p) /\ Stronger(q, p)}

(* One row of a conflict table in one scope. *)
Withheld(pool, scope, dominant, contradicted) ==
  LET strong == {p \in pool : Scope(p) = scope /\ p.type = dominant}
      weak == {p \in pool : Scope(p) = scope /\ p.type \in contradicted}
  IN  IF strong = {} \/ weak = {} THEN {}
      ELSE IF Outranks(Strongest(weak), Strongest(strong)) THEN strong ELSE weak

Settle(pool, scopes, dominant, contradicted) ==
  pool \ UNION {Withheld(pool, s, dominant, contradicted) : s \in scopes}

Scopes(pool) == {Scope(p) : p \in pool}
CreativeScopes(pool) == {Scope(p) : p \in {q \in pool : q.creative # NoCreative}}

\* Broken variant: only the first row of the table is applied.
CampaignConflictsSpend(pool) ==
  Settle(pool, Scopes(pool), "pause_campaign", SpendTypes)

CampaignConflicts(pool) ==
  LET afterSpend == Settle(pool, Scopes(pool), "pause_campaign", SpendTypes)
      afterResume == Settle(afterSpend, Scopes(pool), "pause_campaign", {"resume_campaign"})
  IN  Settle(afterResume, Scopes(pool), "pause_campaign", {"start_ab_test"})

CreativeConflicts(pool) ==
  LET afterResume == Settle(pool, CreativeScopes(pool), "pause_creative", {"resume_creative"})
  IN  Settle(afterResume, CreativeScopes(pool), "pause_creative", {"refresh_creative"})

\* Broken variant: repeats are settled before refusals.
SurvivorsRepeatsFirst(actions) ==
  CreativeConflicts(CampaignConflicts(Executable(Distinct(actions))))

Survivors(actions) ==
  CreativeConflicts(CampaignConflicts(Distinct(Executable(actions))))

\* Broken variant: only bids are compared.
OpposedBids(pool) ==
  {c \in {p.campaign : p \in pool} :
     \E up, down \in {p \in pool : p.campaign = c /\ p.type = "adjust_bid"} :
       up.direction = "increase" /\ down.direction = "decrease"}

(* Spend pulled both ways is not settled here: a human has to choose. *)
Opposed(pool) ==
  {c \in {p.campaign : p \in pool} :
     \E up, down \in {p \in pool : p.campaign = c /\ p.type \in SpendTypes} :
       up.direction = "increase" /\ down.direction = "decrease"}

\* Broken variant: only the iteration's own proposals are judged.
ReviewFresh(actions, iteration) ==
  LET fresh == {p \in actions : p.iteration = iteration}
  IN  [iteration |-> iteration,
       withheld  |-> fresh \ Survivors(fresh),
       escalated |-> Opposed(Survivors(fresh))]

(* A pass is recorded as findings; it never removes a proposal. *)
Review(actions, iteration) ==
  [iteration |-> iteration,
   withheld  |-> actions \ Survivors(actions),
   escalated |-> Opposed(Survivors(actions))]

(* What every consumer of the state reads: everything any pass withheld is *)
(* left out, whatever a later pass thought of it.                          *)
SuppressedBy(findings) == UNION {f.withheld : f \in findings}
Surviving(actions, findings) == actions \ SuppressedBy(findings)

(***************************************************************************)
(* What the queue promises its reader.                                     *)
(***************************************************************************)
OnePerIntent(Q) == \A p, q \in Q : Intent(p) = Intent(q) => p = q

Contradict(p, q) ==
  /\ Scope(p) = Scope(q)
  /\ \/ /\ p.type = "pause_campaign"
        /\ q.type \in {"adjust_budget", "adjust_bid", "resume_campaign", "start_ab_test"}
     \/ /\ p.creative # NoCreative
        /\ p.type = "pause_creative"
        /\ q.type \in {"resume_creative", "refresh_creative"}

Coherent(Q) == \A p, q \in Q : ~Contradict(p, q)
=============================================================================
