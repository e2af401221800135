-------------------------- MODULE AgentLoop_proofs --------------------------
(***************************************************************************)
(* What a run publishes, for every portfolio, number of iterations and     *)
(* tool budget.                                                            *)
(*                                                                         *)
(* - It is a coherent queue, and AgentLoop implements ReviewQueue.  What   *)
(*   survives one pass of the critic neither contradicts itself nor holds  *)
(*   anything refused, whatever it was given; and it holds an intent once  *)
(*   because the optimizer never raises an intent twice in an iteration.   *)
(* - It is what the last pass left open, no more and no less, although all *)
(*   passes suppress: a run raises the same proposals in every iteration,  *)
(*   so that a pass only confirms the ones before it.                      *)
(* - Nothing executable is lost, and opposed spend is always escalated.    *)
(* - Its budget plan keeps the total and every bound, is worth the most of *)
(*   all that do, and releases a hold only when every weaker one is gone.  *)
(* - A pause rests on a sample, and a campaign bid up is not cut while any *)
(*   other budget could give.                                              *)
(***************************************************************************)
EXTENDS AgentLoop, SumTheorems

-----------------------------------------------------------------------------
(* One pass of the critic *)

\* Settling a row of the table leaves one of its two sides in each scope.
LEMMA SettleSeparates ==
  ASSUME NEW pool, NEW scopes, NEW dominant, NEW contradicted,
         NEW p \in Settle(pool, scopes, dominant, contradicted),
         NEW q \in Settle(pool, scopes, dominant, contradicted),
         Scope(p) = Scope(q), Scope(p) \in scopes, p.type = dominant, q.type \in contradicted
  PROVE  FALSE
<1> DEFINE s == Scope(p)
           strong == {r \in pool : Scope(r) = s /\ r.type = dominant}
           weak == {r \in pool : Scope(r) = s /\ r.type \in contradicted}
<1>1. p \in strong /\ q \in weak
  BY DEF Settle
<1>2. Withheld(pool, s, dominant, contradicted) \in {strong, weak}
  BY <1>1 DEF Withheld
<1>3. p \in Withheld(pool, s, dominant, contradicted) \/ q \in Withheld(pool, s, dominant, contradicted)
  BY <1>1, <1>2
<1> QED
  BY <1>3 DEF Settle

\* Settling only withholds.
LEMMA SettleShrinks ==
  ASSUME NEW pool, NEW scopes, NEW dominant, NEW contradicted
  PROVE  Settle(pool, scopes, dominant, contradicted) \subseteq pool
  BY DEF Settle

\* Once the campaign table is settled, nothing to be paused is also to be spent on,
\* resumed or experimented with.
LEMMA CampaignsSettled ==
  ASSUME NEW pool,
         NEW p \in CampaignConflicts(pool), NEW q \in CampaignConflicts(pool),
         Scope(p) = Scope(q), p.type = "pause_campaign",
         q.type \in {"adjust_budget", "adjust_bid", "resume_campaign", "start_ab_test"}
  PROVE  FALSE
<1> DEFINE scopes == Scopes(pool)
           afterSpend == Settle(pool, scopes, "pause_campaign", SpendTypes)
           afterResume == Settle(afterSpend, scopes, "pause_campaign", {"resume_campaign"})
           afterTest == Settle(afterResume, scopes, "pause_campaign", {"start_ab_test"})
<1>1. p \in afterTest /\ q \in afterTest
  BY DEF CampaignConflicts
<1>2. p \in afterResume /\ q \in afterResume
  BY <1>1, SettleShrinks
<1>3. p \in afterSpend /\ q \in afterSpend
  BY <1>2, SettleShrinks
<1>4. p \in pool /\ Scope(p) \in scopes
  BY <1>3, SettleShrinks DEF Scopes
<1> HIDE DEF scopes, afterTest, afterResume, afterSpend
<1>5. CASE q.type \in SpendTypes
  BY <1>3, <1>4, <1>5, SettleSeparates DEF afterSpend
<1>6. CASE q.type = "resume_campaign"
  BY <1>2, <1>4, <1>6, SettleSeparates DEF afterResume
<1>7. CASE q.type = "start_ab_test"
  BY <1>1, <1>4, <1>7, SettleSeparates DEF afterTest
<1> QED
  BY <1>5, <1>6, <1>7 DEF SpendTypes

\* And no creative to be paused is also to be resumed or refreshed.
LEMMA CreativesSettled ==
  ASSUME NEW pool,
         NEW p \in CreativeConflicts(pool), NEW q \in CreativeConflicts(pool),
         Scope(p) = Scope(q), p.creative # NoCreative, p.type = "pause_creative",
         q.type \in {"resume_creative", "refresh_creative"}
  PROVE  FALSE
<1> DEFINE scopes == CreativeScopes(pool)
           afterResume == Settle(pool, scopes, "pause_creative", {"resume_creative"})
           afterRefresh == Settle(afterResume, scopes, "pause_creative", {"refresh_creative"})
<1>1. p \in afterRefresh /\ q \in afterRefresh
  BY DEF CreativeConflicts
<1>2. p \in afterResume /\ q \in afterResume
  BY <1>1, SettleShrinks
<1>3. p \in pool /\ Scope(p) \in scopes
  BY <1>2, SettleShrinks DEF CreativeScopes
<1> HIDE DEF scopes, afterRefresh, afterResume
<1>4. CASE q.type = "resume_creative"
  BY <1>2, <1>3, <1>4, SettleSeparates DEF afterResume
<1>5. CASE q.type = "refresh_creative"
  BY <1>1, <1>3, <1>5, SettleSeparates DEF afterRefresh
<1> QED
  BY <1>4, <1>5

\* The passes of a review only withhold.
LEMMA ConflictsShrink ==
  ASSUME NEW pool
  PROVE  CampaignConflicts(pool) \subseteq pool /\ CreativeConflicts(pool) \subseteq pool
  BY DEF CampaignConflicts, CreativeConflicts, Settle

\* Two copies of an intent of which neither is the stronger are of one iteration.
LEMMA StrongerDecides ==
  ASSUME NEW p, NEW q, p.confidence \in Int, q.confidence \in Int,
         p.iteration \in Int, q.iteration \in Int,
         ~Stronger(p, q), ~Stronger(q, p)
  PROVE  p.iteration = q.iteration
<1>1. SevRank(p) \in Int /\ SevRank(q) \in Int
  BY DEF SevRank
<1> QED
  BY <1>1 DEF Stronger, RankAbove

\* What survives a review can be approved from top to bottom, if no intent was
\* raised twice in an iteration.
LEMMA SurvivorsApprovable ==
  ASSUME NEW S,
         \A p \in S : p.confidence \in Int /\ p.iteration \in Int,
         \A p, q \in S : Intent(p) = Intent(q) /\ p.iteration = q.iteration => p = q
  PROVE  /\ Survivors(S) \subseteq S
         /\ OnePerIntent(Survivors(S)) /\ Coherent(Survivors(S))
         /\ \A p \in Survivors(S) : ~p.blocked
<1> DEFINE pool == Distinct(Executable(S))
           settled == CampaignConflicts(pool)
           rest == CreativeConflicts(settled)
<1>1. Survivors(S) = rest /\ rest \subseteq settled /\ settled \subseteq pool
  BY ConflictsShrink DEF Survivors
<1>2. pool \subseteq S /\ \A p \in pool : ~p.blocked
  BY DEF Distinct, Executable
<1>3. ASSUME NEW p \in pool, NEW q \in pool, Intent(p) = Intent(q) PROVE p = q
  <2>1. ~Stronger(p, q) /\ ~Stronger(q, p)
    BY <1>3 DEF Distinct
  <2>2. p.iteration = q.iteration
    BY <1>2, <2>1, StrongerDecides
  <2> QED
    BY <1>2, <1>3, <2>2
<1>4. OnePerIntent(rest)
  BY <1>1, <1>3 DEF OnePerIntent
<1>5. ASSUME NEW p \in rest, NEW q \in rest, Contradict(p, q) PROVE FALSE
  <2>1. CASE p.type = "pause_campaign"
             /\ q.type \in {"adjust_budget", "adjust_bid", "resume_campaign", "start_ab_test"}
    <3>1. p \in settled /\ q \in settled /\ Scope(p) = Scope(q)
      BY <1>1, <1>5 DEF Contradict
    <3> HIDE DEF pool, rest
    <3> QED
      BY <2>1, <3>1, CampaignsSettled
  <2>2. CASE p.creative # NoCreative /\ p.type = "pause_creative"
             /\ q.type \in {"resume_creative", "refresh_creative"}
    <3>1. Scope(p) = Scope(q)
      BY <1>5 DEF Contradict
    <3> HIDE DEF settled
    <3> QED
      BY <2>2, <3>1, CreativesSettled
  <2> QED
    BY <1>5, <2>1, <2>2 DEF Contradict
<1> HIDE DEF pool, settled, rest
<1> QED
  BY <1>1, <1>2, <1>4, <1>5 DEF Coherent

-----------------------------------------------------------------------------
(* What one pass decides, proposal by proposal *)

\* What the optimizer proposes, as far as the critic looks at it: only creatives are
\* paused by name, nobody sets an urgency, a budget move has one standing, and only what
\* is rehearsed can be refused.
Entry(p) ==
  /\ p.confidence \in Int /\ p.iteration \in Int /\ p.urgency = 0
  /\ p.type \in ProposalTypes
  /\ p.creative # NoCreative => p.type = "pause_creative"
  /\ p.type = "adjust_budget" => p.confidence = 750 /\ p.severity = Unset
  /\ p.type = "adjust_bid" /\ p.severity = "critical" => p.confidence = 900
  /\ p.blocked => p.type \in {"adjust_budget", "pause_campaign", "pause_creative"}

\* A pool in which repeats are settled.
Pool(X) == (\A p \in X : Entry(p)) /\ OnePerIntent(X)

\* The pool's proposals of some types about what p is about.
Beside(X, p, types) == {q \in X : Scope(q) = Scope(p) /\ q.type \in types}

\* In a settled pool the strongest of the spend moves, or of the experiments, of a scope
\* is the one most confident: severity never puts a weaker confidence ahead.
LEMMA StrongestIsMostConfident ==
  ASSUME NEW X, Pool(X), NEW p, NEW types,
         types = SpendTypes \/ types = {"start_ab_test"} \/ types = {"pause_campaign"},
         Beside(X, p, types) # {}
  PROVE  LET t == Strongest(Beside(X, p, types)) IN
           t \in Beside(X, p, types) /\ \A q \in Beside(X, p, types) : q.confidence <= t.confidence
<1> DEFINE W == Beside(X, p, types)
<1>1. \A q \in W : /\ q \in X /\ Entry(q) /\ Scope(q) = Scope(p) /\ q.type \in types
  BY DEF Beside, Pool
<1>2. \A q, r \in W : q.type = r.type => q = r
  BY <1>1 DEF Pool, OnePerIntent, Intent, Scope
<1>3. \A q \in W : SevRank(q) \in {0, 1} /\ q.confidence \in Int
  BY <1>1 DEF SevRank, Entry
<1>4. PICK a \in W : TRUE
  OBVIOUS
<1>5. \A q, r, s \in W : q = r \/ q = s \/ r = s
  BY <1>1, <1>2 DEF SpendTypes
<1> HIDE DEF W
<1>6. \E t \in W : \A q \in W : ~RankAbove(q, t)
  <2>1. CASE \A q \in W : ~RankAbove(q, a)
    BY <1>4, <2>1
  <2>2. ASSUME NEW b \in W, RankAbove(b, a) PROVE \A q \in W : ~RankAbove(q, b)
    <3>1. ~RankAbove(b, b) /\ ~RankAbove(a, b)
      BY <1>3, <1>4, <2>2 DEF RankAbove
    <3>2. a # b
      BY <2>2, <3>1
    <3> QED
      BY <1>4, <1>5, <3>1, <3>2
  <2> QED
    BY <2>1, <2>2
<1> DEFINE t == Strongest(W)
<1>7. t \in W /\ \A q \in W : ~RankAbove(q, t)
  BY <1>6 DEF Strongest
<1> HIDE DEF t
<1>8. ASSUME NEW q \in W PROVE q.confidence <= t.confidence
  <2>1. CASE q = t
    BY <1>3, <2>1
  <2>2. CASE SevRank(q) = SevRank(t)
    BY <1>3, <1>7, <2>2 DEF RankAbove
  <2>3. CASE q # t /\ SevRank(q) # SevRank(t)
    <3>1. SevRank(t) = 1 /\ SevRank(q) = 0
      BY <1>3, <1>7, <2>3 DEF RankAbove
    <3>2. t.type # q.type
      BY <1>2, <1>7, <2>3
    <3>3. types = SpendTypes
      BY <1>1, <1>7, <3>2
    <3>4. t.severity = "critical" /\ t.type = "adjust_bid"
      BY <1>1, <1>7, <3>1, <3>3 DEF SevRank, SpendTypes, Entry, Unset
    <3>5. q.type = "adjust_budget"
      BY <1>1, <3>2, <3>3, <3>4 DEF SpendTypes
    <3> QED
      BY <1>1, <1>7, <3>4, <3>5 DEF Entry
  <2> QED
    BY <2>1, <2>2, <2>3
<1> QED
  BY <1>7, <1>8 DEF W, t

\* Nothing in a settled pool is clearly critical, so confidence alone outranks.
LEMMA ConfidenceOutranks ==
  ASSUME NEW X, Pool(X), NEW p \in X, NEW q \in X
  PROVE  Outranks(p, q) <=> p.confidence > q.confidence
<1>1. p.urgency = 0 /\ q.urgency = 0
  BY DEF Pool, Entry
<1>2. Dominates(p) = FALSE /\ Dominates(q) = FALSE
  BY <1>1 DEF Dominates, DominanceLine
<1>3. ~(Dominates(p) # Dominates(q))
  BY <1>2
<1> QED
  BY <1>3, Zenon DEF Outranks

\* A row of the table withholds the pause of a scope if one of the contradicted is more
\* confident, and otherwise all of the contradicted.
LEMMA RowWithholds ==
  ASSUME NEW X, Pool(X), NEW types, types = SpendTypes \/ types = {"start_ab_test"},
         NEW p \in X, p.type = "pause_campaign"
  PROVE  Withheld(X, Scope(p), "pause_campaign", types)
           = IF \E w \in Beside(X, p, types) : w.confidence > p.confidence
             THEN {p} ELSE Beside(X, p, types)
<1> DEFINE weak == Beside(X, p, types)
           strong == {q \in X : Scope(q) = Scope(p) /\ q.type = "pause_campaign"}
<1>1. strong = {p} /\ p.confidence \in Int
  BY DEF Pool, OnePerIntent, Intent, Scope, Entry
<1>2. Strongest(strong) = p
  <2>1. ~RankAbove(p, p)
    BY <1>1 DEF RankAbove, SevRank
  <2> QED
    BY <1>1, <2>1 DEF Strongest
<1>3. weak = {q \in X : Scope(q) = Scope(p) /\ q.type \in types}
  BY DEF Beside
<1>4. CASE weak = {}
  BY <1>1, <1>3, <1>4 DEF Withheld
<1>5. CASE weak # {}
  <2> DEFINE t == Strongest(weak)
  <2>1. t \in weak /\ \A q \in weak : q.confidence <= t.confidence
    BY <1>5, StrongestIsMostConfident
  <2>2. \A q \in weak : q \in X /\ q.confidence \in Int
    BY DEF Beside, Pool, Entry
  <2>3. Outranks(t, p) <=> t.confidence > p.confidence
    BY <2>1, <2>2, ConfidenceOutranks
  <2>4. Outranks(t, p) <=> \E w \in weak : w.confidence > p.confidence
    <3> HIDE DEF t, weak
    <3> QED
      BY <1>1, <2>1, <2>2, <2>3
  <2>5. Withheld(X, Scope(p), "pause_campaign", types)
          = IF Outranks(Strongest(weak), Strongest(strong)) THEN strong ELSE weak
    <3> HIDE DEF t
    <3> QED
    BY <1>1, <1>3, <1>5 DEF Withheld
  <2> HIDE DEF strong
  <2> QED
    BY <1>1, <1>2, <2>4, <2>5
<1> QED
  BY <1>4, <1>5

\* A scope nobody wants to pause is left alone.
LEMMA RowNeedsPause ==
  ASSUME NEW X, NEW types, NEW s,
         ~\E p \in X : Scope(p) = s /\ p.type = "pause_campaign"
  PROVE  Withheld(X, s, "pause_campaign", types) = {}
  BY DEF Withheld

\* What a row leaves in the pool.
LEMMA RowKeeps ==
  ASSUME NEW X, Pool(X), NEW types, types = SpendTypes \/ types = {"start_ab_test"},
         NEW scopes, Scopes(X) \subseteq scopes, NEW p \in X
  PROVE  p \in Settle(X, scopes, "pause_campaign", types) <=>
           /\ p.type = "pause_campaign" =>
                \A w \in Beside(X, p, types) : w.confidence <= p.confidence
           /\ p.type \in types =>
                \A t \in Beside(X, p, {"pause_campaign"}) :
                  \E w \in Beside(X, p, types) : w.confidence > t.confidence
<1> DEFINE away(s) == Withheld(X, s, "pause_campaign", types)
<1>1. Scope(p) \in scopes
  BY DEF Scopes
<1>2. \A s : away(s) \subseteq {q \in X : Scope(q) = s}
  BY DEF Withheld
<1>3. p \in Settle(X, scopes, "pause_campaign", types) <=> p \notin away(Scope(p))
  BY <1>1, <1>2 DEF Settle
<1>4. "pause_campaign" \notin types
  BY DEF SpendTypes
<1>5. \A q \in X : q.confidence \in Int
  BY DEF Pool, Entry
<1> HIDE DEF away
<1>6. CASE p.type = "pause_campaign"
  <2>1. away(Scope(p)) = IF \E w \in Beside(X, p, types) : w.confidence > p.confidence
                         THEN {p} ELSE Beside(X, p, types)
    BY <1>6, RowWithholds DEF away
  <2>2. p \notin Beside(X, p, types)
    BY <1>4, <1>6 DEF Beside
  <2>3. \A w \in Beside(X, p, types) : w.confidence \in Int
    BY <1>5 DEF Beside
  <2>4. p \notin away(Scope(p)) <=> \A w \in Beside(X, p, types) : w.confidence <= p.confidence
    BY <1>5, <2>1, <2>2, <2>3
  <2> QED
    BY <1>3, <1>4, <1>6, <2>4
<1>7. CASE p.type \in types
  <2>1. CASE Beside(X, p, {"pause_campaign"}) = {}
    <3>1. away(Scope(p)) = {}
      BY <2>1, RowNeedsPause DEF away, Beside
    <3> QED
      BY <1>3, <1>4, <1>7, <2>1, <3>1
  <2>2. ASSUME NEW t \in Beside(X, p, {"pause_campaign"}) 
        PROVE  p \in Settle(X, scopes, "pause_campaign", types)
                 <=> \E w \in Beside(X, p, types) : w.confidence > t.confidence
    <3>1. t \in X /\ t.type = "pause_campaign" /\ Scope(t) = Scope(p)
      BY DEF Beside
    <3>2. Beside(X, t, types) = Beside(X, p, types) /\ p \in Beside(X, p, types)
      BY <1>7, <3>1 DEF Beside
    <3>3. away(Scope(p)) = IF \E w \in Beside(X, p, types) : w.confidence > t.confidence
                           THEN {t} ELSE Beside(X, p, types)
      BY <3>1, <3>2, RowWithholds DEF away
    <3>4. p # t
      BY <1>4, <1>7, <3>1
    <3> QED
      BY <1>3, <3>2, <3>3, <3>4
  <2>3. p.type # "pause_campaign"
    BY <1>4, <1>7
  <2> QED
    BY <1>7, <2>1, <2>2, <2>3
<1>8. CASE p.type # "pause_campaign" /\ p.type \notin types
  <2>1. CASE Beside(X, p, {"pause_campaign"}) = {}
    <3>1. away(Scope(p)) = {}
      BY <2>1, RowNeedsPause DEF away, Beside
    <3> QED
      BY <1>3, <1>8, <3>1
  <2>2. ASSUME NEW t \in Beside(X, p, {"pause_campaign"}) PROVE p \notin away(Scope(p))
    <3>1. t \in X /\ t.type = "pause_campaign" /\ Scope(t) = Scope(p)
      BY DEF Beside
    <3>2. away(Scope(p)) \subseteq {t} \cup Beside(X, t, types)
      BY <3>1, RowWithholds DEF away
    <3> QED
      BY <1>8, <3>1, <3>2 DEF Beside
  <2> QED
    BY <1>3, <1>8, <2>1, <2>2
<1> QED
  BY <1>6, <1>7, <1>8

\* A row whose contradicted side is empty leaves everything.
LEMMA RowIdle ==
  ASSUME NEW X, NEW scopes, NEW dominant, NEW contradicted,
         \A q \in X : Scope(q) \in scopes => q.type \notin contradicted
  PROVE  Settle(X, scopes, dominant, contradicted) = X
<1>1. \A s \in scopes : Withheld(X, s, dominant, contradicted) = {}
  BY DEF Withheld
<1> QED
  BY <1>1 DEF Settle

\* What would have to yield for a campaign to be paused.
Rivals(X, p) == Beside(X, p, SpendTypes \cup {"start_ab_test"})

\* The verdict on a proposal of a settled pool: a pause stands if it is as confident as
\* all that it contradicts, and what it contradicts stands if the pause does not.
Stands(X, p) ==
  /\ p.type = "pause_campaign" => \A w \in Rivals(X, p) : w.confidence <= p.confidence
  /\ p.type \in SpendTypes =>
       \A t \in Beside(X, p, {"pause_campaign"}) :
         \E w \in Beside(X, p, SpendTypes) : w.confidence > t.confidence
  /\ p.type = "start_ab_test" =>
       \A t \in Beside(X, p, {"pause_campaign"}) :
         \E w \in Rivals(X, p) : w.confidence > t.confidence

\* The pass withholds exactly what does not stand.
LEMMA PassDecides ==
  ASSUME NEW X, Pool(X), NEW p \in X
  PROVE  p \in CreativeConflicts(CampaignConflicts(X)) <=> Stands(X, p)
<1> DEFINE afterSpend == Settle(X, Scopes(X), "pause_campaign", SpendTypes)
           afterTest == Settle(afterSpend, Scopes(X), "pause_campaign", {"start_ab_test"})
<1>1. afterSpend \subseteq X /\ Scopes(afterSpend) \subseteq Scopes(X)
  BY DEF Settle, Scopes
<1>2. Pool(afterSpend)
  BY <1>1 DEF Pool, OnePerIntent
<1>3. CampaignConflicts(X) = afterTest
  <2>1. \A q \in afterSpend : q.type \notin {"resume_campaign"}
    BY <1>2 DEF Pool, Entry, ProposalTypes
  <2> HIDE DEF afterSpend
  <2>2. Settle(afterSpend, Scopes(X), "pause_campaign", {"resume_campaign"}) = afterSpend
    BY <2>1, RowIdle
  <2> QED
    BY <2>2 DEF CampaignConflicts, afterSpend
<1>4. CreativeConflicts(afterTest) = afterTest
  <2> DEFINE scopes == CreativeScopes(afterTest)
  <2>1. \A q \in afterTest : Entry(q)
    BY <1>2 DEF Settle, Pool
  <2> HIDE DEF afterTest
  <2>2. \A q \in afterTest : q.type \notin {"resume_creative"}
    BY <2>1 DEF Entry, ProposalTypes
  <2>3. \A q \in afterTest : Scope(q) \in scopes => q.type \notin {"refresh_creative"}
    BY <2>1 DEF CreativeScopes, Scope, Entry
  <2> HIDE DEF scopes
  <2>4. Settle(afterTest, scopes, "pause_creative", {"resume_creative"}) = afterTest
    BY <2>2, RowIdle
  <2>5. Settle(afterTest, scopes, "pause_creative", {"refresh_creative"}) = afterTest
    BY <2>3, RowIdle
  <2> QED
    BY <2>4, <2>5 DEF CreativeConflicts, scopes
<1>5. \A q \in X : q \in afterSpend <=>
        /\ q.type = "pause_campaign" =>
             \A w \in Beside(X, q, SpendTypes) : w.confidence <= q.confidence
        /\ q.type \in SpendTypes =>
             \A t \in Beside(X, q, {"pause_campaign"}) :
               \E w \in Beside(X, q, SpendTypes) : w.confidence > t.confidence
  BY RowKeeps
<1>6. \A q \in afterSpend : q \in afterTest <=>
        /\ q.type = "pause_campaign" =>
             \A w \in Beside(afterSpend, q, {"start_ab_test"}) : w.confidence <= q.confidence
        /\ q.type = "start_ab_test" =>
             \A t \in Beside(afterSpend, q, {"pause_campaign"}) :
               \E w \in Beside(afterSpend, q, {"start_ab_test"}) : w.confidence > t.confidence
  <2> HIDE DEF afterSpend
  <2> QED
    BY <1>1, <1>2, RowKeeps
<1>7. \A q \in X : Beside(afterSpend, q, {"start_ab_test"}) = Beside(X, q, {"start_ab_test"})
  <2> HIDE DEF afterSpend
  <2> QED
    BY <1>1, <1>5 DEF Beside, SpendTypes
<1>8. \A q \in X : Rivals(X, q) = Beside(X, q, SpendTypes) \cup Beside(X, q, {"start_ab_test"})
  BY DEF Rivals, Beside
<1>9. afterTest \subseteq afterSpend
  BY DEF Settle
<1> HIDE DEF afterSpend, afterTest
<1>10. p \in afterTest <=> Stands(X, p)
  <2>1. CASE p.type = "pause_campaign"
    <3>1. p \in afterTest <=> \A w \in Rivals(X, p) : w.confidence <= p.confidence
      BY <1>5, <1>6, <1>7, <1>8, <1>9, <2>1 DEF SpendTypes
    <3> QED
      BY <2>1, <3>1 DEF Stands, SpendTypes
  <2>2. CASE p.type \in SpendTypes
    <3>1. p.type # "pause_campaign" /\ p.type # "start_ab_test"
      BY <2>2 DEF SpendTypes
    <3> QED
      BY <1>5, <1>6, <1>9, <2>2, <3>1 DEF Stands
  <2>3. CASE p.type = "start_ab_test"
    <3>1. p \in afterSpend
      BY <1>5, <2>3 DEF SpendTypes
    <3>2. p \in afterTest <=> \A t \in Beside(afterSpend, p, {"pause_campaign"}) :
                                \E w \in Beside(X, p, {"start_ab_test"}) : w.confidence > t.confidence
      BY <1>6, <1>7, <2>3, <3>1
    <3>3. \A t \in Beside(X, p, {"pause_campaign"}) :
            t \in afterSpend <=> ~\E w \in Beside(X, p, SpendTypes) : w.confidence > t.confidence
      <4> TAKE t \in Beside(X, p, {"pause_campaign"})
      <4>1. t \in X /\ t.type = "pause_campaign" /\ Scope(t) = Scope(p)
        BY DEF Beside
      <4>2. Beside(X, t, SpendTypes) = Beside(X, p, SpendTypes)
        BY <4>1 DEF Beside
      <4>3. \A w \in Beside(X, p, SpendTypes) : w.confidence \in Int /\ t.confidence \in Int
        BY <4>1 DEF Beside, Pool, Entry
      <4>4. t \in afterSpend <=> \A w \in Beside(X, p, SpendTypes) : w.confidence <= t.confidence
        BY <1>5, <4>1, <4>2 DEF SpendTypes
      <4> QED
        BY <4>3, <4>4
    <3>4. \A t : t \in Beside(afterSpend, p, {"pause_campaign"})
                   <=> t \in Beside(X, p, {"pause_campaign"}) /\ t \in afterSpend
      BY <1>1 DEF Beside
    <3>5. Stands(X, p) <=> \A t \in Beside(X, p, {"pause_campaign"}) :
                             \E w \in Rivals(X, p) : w.confidence > t.confidence
      BY <2>3 DEF Stands, SpendTypes
    <3> QED
      BY <1>8, <3>2, <3>3, <3>4, <3>5
  <2>4. CASE p.type \notin SpendTypes \cup {"pause_campaign", "start_ab_test"}
    BY <1>5, <1>6, <1>9, <2>4 DEF Stands
  <2> QED
    BY <2>1, <2>2, <2>3, <2>4
<1> QED
  BY <1>3, <1>4, <1>10

-----------------------------------------------------------------------------
(* A proposal and its copies *)

\* Some date of a bounded set of dates is the latest.
LEMMA LatestExists ==
  ASSUME NEW n \in Nat, NEW T \in SUBSET (1..n), T # {}
  PROVE  \E i \in T : \A j \in T : j <= i
<1> DEFINE Since(i) == i..n
           Sets == {Since(i) : i \in T}
           S == 1..n
<1>1. IsFiniteSet(S) /\ FiniteSubsetsOf(S) = SUBSET S
  BY FS_Interval, FS_FiniteSubsetsOfFinite
<1>2. IsWellFoundedOn(StrictSubsetOrdering(S), SUBSET S)
  <2> HIDE DEF S
  <2> QED
    BY <1>1, FS_StrictSubsetOrderingWellFounded
<1>3. Sets \subseteq SUBSET S /\ Sets # {}
  <2>1. \A i \in T : Since(i) \in SUBSET S
    OBVIOUS
  <2> HIDE DEF Since
  <2> QED
    BY <2>1
<1>4. \E s \in Sets : \A t \in Sets : ~(<<t, s>> \in StrictSubsetOrdering(S))
  <2> HIDE DEF S, Sets
  <2> QED
    BY <1>2, <1>3, WFMin
<1>5. PICK i \in T : \A t \in Sets : ~(<<t, Since(i)>> \in StrictSubsetOrdering(S))
  <2> HIDE DEF Since, S
  <2> QED
    BY <1>4
<1>6. ASSUME NEW j \in T, i < j PROVE FALSE
  <2>1. Since(j) \in Sets /\ Since(j) \in SUBSET S /\ Since(i) \in SUBSET S
    BY <1>3
  <2>2. Since(j) \subseteq Since(i) /\ i \in Since(i) /\ i \notin Since(j)
    BY <1>6
  <2> HIDE DEF Since, S
  <2> QED
    BY <1>5, <2>1, <2>2 DEF StrictSubsetOrdering
<1> QED
  BY <1>6

\* What a run has raised by iteration n: an intent keeps its standing, is raised once an
\* iteration and up to the last, and a bid from the first.
Raised(B, n) ==
  /\ \A p \in B : Entry(p) /\ p.iteration \in 1..n
  /\ \A p, q \in B : Intent(p) = Intent(q) => p.confidence = q.confidence /\ p.severity = q.severity
  /\ \A p, q \in B : Intent(p) = Intent(q) /\ p.iteration = q.iteration => p = q
  /\ \A p \in B : \E q \in B : Intent(q) = Intent(p) /\ q.iteration = n
  /\ \A p \in B : p.type = "adjust_bid" => \E q \in B : Intent(q) = Intent(p) /\ q.iteration = 1

\* The pool the conflicts are judged over: of the executable copies the freshest.
Current(B) == Distinct(Executable(B))

\* A proposal is in it if it is executable and no executable copy is fresher.
LEMMA CurrentIs ==
  ASSUME NEW B, NEW n, Raised(B, n), NEW p
  PROVE  p \in Current(B) <=>
           /\ p \in B /\ ~p.blocked
           /\ \A q \in B : Intent(q) = Intent(p) /\ ~q.blocked => q.iteration <= p.iteration
<1>1. \A q, r \in B : Intent(q) = Intent(r) => (Stronger(q, r) <=> q.iteration > r.iteration)
  <2>1. \A q \in B : q.confidence \in Int
    BY DEF Raised, Entry
  <2>2. \A q, r \in B : Intent(q) = Intent(r) => ~RankAbove(q, r)
    BY <2>1 DEF Raised, RankAbove, SevRank
  <2> QED
    BY <2>2 DEF Stronger
<1>2. \A q \in B : q.iteration \in Int
  BY DEF Raised, Entry
<1> QED
  BY <1>1, <1>2 DEF Current, Distinct, Executable

\* And each intent is in it once.
LEMMA CurrentPool ==
  ASSUME NEW B, NEW n, Raised(B, n)
  PROVE  Pool(Current(B))
<1>1. \A p \in Current(B) : p \in B /\ Entry(p)
  BY CurrentIs DEF Raised
<1>2. ASSUME NEW p \in Current(B), NEW q \in Current(B), Intent(p) = Intent(q) PROVE p = q
  <2>1. p.iteration \in Int /\ q.iteration \in Int
    BY <1>1 DEF Entry
  <2>2. p.iteration <= q.iteration /\ q.iteration <= p.iteration
    BY <1>2, CurrentIs
  <2> QED
    BY <1>1, <1>2, <2>1, <2>2 DEF Raised
<1> QED
  BY <1>1, <1>2 DEF Pool, OnePerIntent

\* What survives a pass stands in that pool.
LEMMA SurvivorsStand ==
  ASSUME NEW B, NEW n, Raised(B, n), NEW p
  PROVE  p \in Survivors(B) <=> p \in Current(B) /\ Stands(Current(B), p)
<1> DEFINE X == Current(B)
<1>1. Pool(X)
  BY CurrentPool
<1>2. Survivors(B) = CreativeConflicts(CampaignConflicts(X))
  BY DEF Survivors, Current
<1> HIDE DEF X
<1>3. CreativeConflicts(CampaignConflicts(X)) \subseteq X
  BY ConflictsShrink
<1>4. p \in Survivors(B) <=> p \in X /\ Stands(X, p)
  BY <1>1, <1>2, <1>3, PassDecides
<1> QED
  BY <1>4 DEF X

\* An executable proposal has a freshest executable copy.
LEMMA FreshestCopy ==
  ASSUME NEW B, NEW n \in Nat, Raised(B, n), NEW p \in B, ~p.blocked
  PROVE  \E r \in Current(B) : /\ r \in B /\ Intent(r) = Intent(p)
                               /\ r.confidence = p.confidence /\ r.severity = p.severity
<1> DEFINE copies == {q \in B : Intent(q) = Intent(p) /\ ~q.blocked}
           dates == {q.iteration : q \in copies}
<1>1. dates \in SUBSET (1..n) /\ dates # {}
  BY DEF Raised
<1> HIDE DEF dates
<1>2. PICK i \in dates : \A j \in dates : j <= i
  BY <1>1, LatestExists
<1>3. PICK r \in copies : r.iteration = i
  BY DEF dates
<1>4. \A q \in copies : q.iteration <= r.iteration
  BY <1>2, <1>3 DEF dates
<1>5. r \in Current(B)
  BY <1>4, CurrentIs
<1> QED
  BY <1>5 DEF Raised

\* An executable copy of the last iteration is the freshest.
LEMMA LastIsCurrent ==
  ASSUME NEW B, NEW n \in Nat, Raised(B, n), NEW q \in B, q.iteration = n, ~q.blocked
  PROVE  q \in Current(B)
  BY CurrentIs DEF Raised

\* What the critic withheld from the first iterations it would withhold again from all of
\* them: a survivor of the whole survived each smaller pass.
LEMMA VerdictsLast ==
  ASSUME NEW n \in Nat, NEW B, Raised(B, n),
         NEW A, A = {p \in B : p.iteration < n}, Raised(A, n - 1),
         NEW p \in A, p \in Survivors(B)
  PROVE  p \in Survivors(A)
<1> DEFINE X == Current(A)
           Y == Current(B)
<1>1. Pool(X) /\ Pool(Y)
  BY CurrentPool
<1>2. p \in Y /\ Stands(Y, p) /\ p \in B /\ ~p.blocked /\ p.iteration < n
  BY SurvivorsStand, CurrentIs
<1>3. p \in X
  BY <1>2, CurrentIs
\* The copy the last iteration raised was refused, for it would be fresher.
<1>4. p.type \in {"adjust_budget", "pause_campaign", "pause_creative"}
  <2>1. PICK q \in B : Intent(q) = Intent(p) /\ q.iteration = n
    BY <1>2 DEF Raised
  <2>2. p.iteration \in Int /\ q.iteration > p.iteration
    BY <1>2, <2>1 DEF Raised, Entry
  <2>3. ~q.blocked => q.iteration <= p.iteration
    BY <1>2, <2>1, CurrentIs
  <2>4. q.blocked
    BY <2>1, <2>2, <2>3
  <2> QED
    BY <2>1, <2>4 DEF Raised, Entry, Intent
\* What was executable before has a copy in the later pool.
<1>5. ASSUME NEW t \in X
      PROVE  \E r \in Y : Intent(r) = Intent(t) /\ r.confidence = t.confidence
  <2>1. t \in A /\ ~t.blocked
    BY CurrentIs
  <2> QED
    BY <2>1, FreshestCopy
\* And a bid of the later pool has one in the earlier.
<1>6. ASSUME NEW w \in Y, w.type = "adjust_bid"
      PROVE  \E r \in X : Intent(r) = Intent(w) /\ r.confidence = w.confidence
  <2>1. w \in B
    BY CurrentIs
  <2>2. PICK a \in B : Intent(a) = Intent(w) /\ a.iteration = 1
    BY <1>6, <2>1 DEF Raised
  <2>3. a \in A /\ a.confidence = w.confidence /\ a.type = "adjust_bid"
    BY <1>2, <1>6, <2>1, <2>2 DEF Raised, Intent
  <2>4. ~a.blocked /\ n - 1 \in Nat
    BY <1>2, <2>2, <2>3 DEF Raised, Entry
  <2>5. PICK r \in X : Intent(r) = Intent(a) /\ r.confidence = a.confidence
    BY <2>3, <2>4, FreshestCopy
  <2> QED
    BY <2>2, <2>3, <2>5
<1>7. \A q, r : Intent(q) = Intent(r) => Scope(q) = Scope(r) /\ q.type = r.type
  BY DEF Intent, Scope
<1> HIDE DEF X, Y
<1>8. Stands(X, p)
  <2>1. CASE p.type = "pause_campaign"
    <3>1. ASSUME NEW w \in Rivals(X, p) PROVE w.confidence <= p.confidence
      <4>1. w \in X /\ Scope(w) = Scope(p) /\ w.type \in SpendTypes \cup {"start_ab_test"}
        BY DEF Rivals, Beside
      <4>2. PICK r \in Y : Intent(r) = Intent(w) /\ r.confidence = w.confidence
        BY <1>5, <4>1
      <4>3. r \in Rivals(Y, p)
        BY <1>7, <4>1, <4>2 DEF Rivals, Beside
      <4> QED
        BY <1>2, <2>1, <4>2, <4>3 DEF Stands
    <3> QED
      BY <2>1, <3>1 DEF Stands, SpendTypes
  <2>2. CASE p.type = "adjust_budget"
    <3>1. ASSUME NEW t \in Beside(X, p, {"pause_campaign"})
          PROVE  \E w \in Beside(X, p, SpendTypes) : w.confidence > t.confidence
      <4>1. t \in X /\ Scope(t) = Scope(p) /\ t.type = "pause_campaign"
        BY DEF Beside
      <4>2. PICK r \in Y : Intent(r) = Intent(t) /\ r.confidence = t.confidence
        BY <1>5, <4>1
      <4>3. r \in Beside(Y, p, {"pause_campaign"})
        BY <1>7, <4>1, <4>2 DEF Beside
      <4>4. PICK w \in Beside(Y, p, SpendTypes) : w.confidence > t.confidence
        BY <1>2, <2>2, <4>2, <4>3 DEF Stands, SpendTypes
      <4>5. CASE w.type = "adjust_bid"
        <5>1. PICK v \in X : Intent(v) = Intent(w) /\ v.confidence = w.confidence
          BY <1>6, <4>5 DEF Beside
        <5>2. v \in Beside(X, p, SpendTypes)
          BY <1>7, <5>1 DEF Beside
        <5> QED
          BY <4>4, <5>1, <5>2
      <4>6. CASE w.type = "adjust_budget"
        <5>1. w = p
          BY <1>1, <1>2, <2>2, <4>6 DEF Beside, Pool, OnePerIntent, Intent, Scope
        <5> QED
          BY <1>3, <2>2, <4>4, <5>1 DEF Beside, SpendTypes
      <4> QED
        BY <4>4, <4>5, <4>6 DEF Beside, SpendTypes
    <3> QED
      BY <2>2, <3>1 DEF Stands, SpendTypes
  <2>3. CASE p.type = "pause_creative"
    BY <2>3 DEF Stands, SpendTypes
  <2> QED
    BY <1>4, <2>1, <2>2, <2>3
<1> QED
  BY <1>3, <1>8, SurvivorsStand DEF X

\* Withholding loses nothing: whatever is executable is decided by a survivor, or
\* contradicts something executable, and its campaign keeps a survivor.
LEMMA NothingLost ==
  ASSUME NEW n \in Nat, NEW B, Raised(B, n), NEW p \in B, ~p.blocked
  PROVE  /\ \E q \in Survivors(B) : q.campaign = p.campaign
         /\ \E q \in B : /\ ~q.blocked
                         /\ \/ q \in Survivors(B) /\ Intent(q) = Intent(p)
                            \/ Contradict(p, q) \/ Contradict(q, p)
<1> DEFINE X == Current(B)
<1>1. Pool(X) /\ \A q \in X : q \in B /\ ~q.blocked /\ q.confidence \in Int
  <2>1. Pool(X) /\ \A q \in X : q \in B /\ ~q.blocked
    BY CurrentPool, CurrentIs
  <2> HIDE DEF X
  <2> QED
    BY <2>1 DEF Raised, Entry
<1>2. PICK r \in X : Intent(r) = Intent(p)
  BY FreshestCopy
<1>3. \A q : q \in Survivors(B) <=> q \in X /\ Stands(X, q)
  BY SurvivorsStand
<1>4. r.campaign = p.campaign /\ r.type = p.type /\ Scope(r) = Scope(p)
  BY <1>2 DEF Intent, Scope
<1>5. \A q : Scope(q) = Scope(r) => q.campaign = p.campaign
  BY <1>4 DEF Scope
<1> HIDE DEF X
<1>6. CASE Stands(X, r)
  BY <1>1, <1>2, <1>3, <1>4, <1>6
<1>7. ASSUME ~Stands(X, r), r.type # "pause_campaign"
      PROVE  \E t \in Beside(X, r, {"pause_campaign"}) :
               \A w \in Beside(X, r, SpendTypes) : w.confidence <= t.confidence
  <2>1. \A t \in Beside(X, r, {"pause_campaign"}) : t.confidence \in Int
    BY <1>1 DEF Beside
  <2>2. \A w \in Beside(X, r, SpendTypes) : w.confidence \in Int /\ w \in Rivals(X, r)
    BY <1>1 DEF Beside, Rivals
  <2> QED
    BY <1>7, <2>1, <2>2 DEF Stands
<1>8. CASE ~Stands(X, r) /\ r.type # "pause_campaign"
  <2>1. PICK t \in Beside(X, r, {"pause_campaign"}) :
          \A w \in Beside(X, r, SpendTypes) : w.confidence <= t.confidence
    BY <1>7, <1>8
  <2>2. t \in X /\ t.type = "pause_campaign" /\ Scope(t) = Scope(r)
    BY DEF Beside
  <2>3. r.type \in SpendTypes \cup {"start_ab_test"}
    BY <1>8 DEF Stands
  <2>4. Contradict(t, p)
    BY <1>4, <2>2, <2>3 DEF Contradict, SpendTypes
  <2>5. \E q \in Survivors(B) : Scope(q) = Scope(r)
    <3>1. CASE Stands(X, t)
      BY <1>3, <2>2, <3>1
    <3>2. CASE ~Stands(X, t)
      <4>1. PICK w \in Rivals(X, t) : ~(w.confidence <= t.confidence)
        BY <2>2, <3>2 DEF Stands, SpendTypes
      <4>2. w \in X /\ Scope(w) = Scope(r) /\ w.confidence > t.confidence
        BY <1>1, <2>2, <4>1 DEF Rivals, Beside
      <4>3. w.type = "start_ab_test"
        BY <2>1, <2>2, <4>1, <4>2 DEF Rivals, Beside
      <4>4. \A u \in Beside(X, w, {"pause_campaign"}) : u = t
        BY <1>1, <2>2, <4>2 DEF Beside, Pool, OnePerIntent, Intent, Scope
      <4>5. w \in Rivals(X, w)
        BY <4>2, <4>3 DEF Rivals, Beside
      <4>6. Stands(X, w)
        BY <4>2, <4>3, <4>4, <4>5 DEF Stands, SpendTypes
      <4> QED
        BY <1>3, <4>2, <4>6
    <3> QED
      BY <3>1, <3>2
  <2> QED
    BY <1>1, <1>5, <2>2, <2>4, <2>5
<1>9. CASE ~Stands(X, r) /\ r.type = "pause_campaign"
  <2>1. PICK w \in Rivals(X, r) : ~(w.confidence <= r.confidence)
    BY <1>9 DEF Stands, SpendTypes
  <2>2. w \in X /\ Scope(w) = Scope(r) /\ w.type \in SpendTypes \cup {"start_ab_test"}
    BY DEF Rivals, Beside
  <2>3. w.confidence > r.confidence
    BY <1>1, <2>1, <2>2
  <2>4. \A u \in Beside(X, w, {"pause_campaign"}) : u = r
    BY <1>1, <1>9, <2>2 DEF Beside, Pool, OnePerIntent, Intent, Scope
  <2>5. w \in Rivals(X, w) /\ (w.type \in SpendTypes => w \in Beside(X, w, SpendTypes))
    BY <2>2 DEF Rivals, Beside
  <2>6. Stands(X, w)
    BY <2>2, <2>3, <2>4, <2>5 DEF Stands, SpendTypes
  <2>7. Contradict(p, w)
    BY <1>4, <1>9, <2>2 DEF Contradict, SpendTypes
  <2> QED
    BY <1>1, <1>3, <1>5, <2>2, <2>6, <2>7
<1> QED
  BY <1>6, <1>8, <1>9

-----------------------------------------------------------------------------
(* One intent an iteration *)

\* What the earlier agents hand to the optimizer.
Handed ==
  /\ world \in Portfolios /\ iteration \in Nat
  /\ \A a \in alerts : a.severity \in Severities
  /\ \A d \in decisions : d.confidence \in Int
  /\ \A d, e \in decisions : d.campaign = e.campaign => d = e

\* A candidate is nothing but what its rule wrote, and its place is a number.
Placed(p) ==
  /\ p = [campaign |-> p.campaign, creative |-> p.creative, type |-> p.type,
          confidence |-> p.confidence, severity |-> p.severity, direction |-> p.direction,
          order |-> p.order, urgency |-> 0, iteration |-> iteration + 1, blocked |-> FALSE]
  /\ p.confidence \in Int /\ p.order \in Int

\* Each rule gives its candidates a place of their own, and there the severity and
\* the direction follow from the campaign and the place.
BudgetDirection(c) ==
  IF Allocations[c].recommended > Allocations[c].current THEN "increase" ELSE "decrease"
BidDirection(d) == IF d.multiplier > 10000 THEN "increase" ELSE "decrease"
TestConfidence(c) == IF \E k \in world.creatives[c] : k.control THEN 850 ELSE 600

Pauses(p) == /\ p.order = 1 /\ p.severity = Unset /\ p.direction = Unset
             /\ p.type = "pause_creative"
Moves(p) == /\ p.order = 2 /\ p.severity = Unset /\ p.direction = BudgetDirection(p.campaign)
            /\ p.type = "adjust_budget" /\ p.creative = NoCreative /\ p.confidence = 750
Bids(p) == /\ p.order = 3 /\ p.severity = Unset
           /\ \E d \in decisions : d.campaign = p.campaign /\ p.direction = BidDirection(d)
           /\ p.type = "adjust_bid" /\ p.creative = NoCreative
Remedies(p) ==
  /\ p.direction = Unset /\ p.creative = NoCreative
  /\ p.type \in {"pause_campaign", "refresh_creative", "adjust_bid"}
  /\ \/ p.severity = "critical" /\ p.order \in {10, 11} /\ p.confidence = 900
     \/ p.severity = "warning" /\ p.order \in {12, 13}
     \/ p.severity = "info" /\ p.order \in {14, 15}
Tests(p) == /\ p.order = 20 /\ p.severity = Unset /\ p.direction = Unset
            /\ p.type = "start_ab_test" /\ p.creative = NoCreative
            /\ p.confidence = TestConfidence(p.campaign)

\* A creative is paused by its own name, or for its campaign.
LEMMA PausesPlaced ==
  ASSUME NEW p \in CreativeActions
  PROVE  Placed(p) /\ Pauses(p)
<1>1. ASSUME NEW c, NEW k
      PROVE  LET r == Proposal(c, k, "pause_creative", 800, Unset, Unset, 1) IN Placed(r) /\ Pauses(r)
  BY DEF Proposal, Placed, Pauses
<1>2. ASSUME NEW c
      PROVE  LET r == Proposal(c, NoCreative, "pause_creative", 450, Unset, Unset, 1)
             IN  Placed(r) /\ Pauses(r)
  BY DEF Proposal, Placed, Pauses
<1> DEFINE named == UNION {{Proposal(c, k.id, "pause_creative", 800, Unset, Unset, 1)
                            : k \in Poor(c)} : c \in Campaigns}
           whole == {Proposal(c, NoCreative, "pause_creative", 450, Unset, Unset, 1)
                     : c \in {d \in Campaigns : ShouldPause(world.snapshots[d])}}
<1>3. p \in named \/ p \in whole
  BY DEF CreativeActions
<1>4. CASE p \in named
  <2>1. PICK c \in Campaigns :
          p \in {Proposal(c, k.id, "pause_creative", 800, Unset, Unset, 1) : k \in Poor(c)}
    BY <1>4, Zenon
  <2>2. PICK k \in Poor(c) : p = Proposal(c, k.id, "pause_creative", 800, Unset, Unset, 1)
    BY <2>1, Zenon
  <2>3. PICK name : name = k.id
    OBVIOUS
  <2>4. p = Proposal(c, name, "pause_creative", 800, Unset, Unset, 1)
    BY <2>2, <2>3
  <2> QED
    BY <1>1, <2>4
<1>5. CASE p \in whole
  <2>1. PICK c : p = Proposal(c, NoCreative, "pause_creative", 450, Unset, Unset, 1)
    BY <1>5, Zenon
  <2> QED
    BY <1>2, <2>1
<1> QED
  BY <1>3, <1>4, <1>5

\* A budget moves one way.
LEMMA MovesPlaced ==
  ASSUME NEW p \in BudgetActions
  PROVE  Placed(p) /\ Moves(p)
<1>1. ASSUME NEW c
      PROVE  LET r == Proposal(c, NoCreative, "adjust_budget", 750, Unset, BudgetDirection(c), 2)
             IN  Placed(r) /\ Moves(r)
  BY DEF Proposal, Placed, Moves
<1>2. \E c : p = Proposal(c, NoCreative, "adjust_budget", 750, Unset, BudgetDirection(c), 2)
  <2>1. PICK c \in {d \in DOMAIN Allocations : Moved(Allocations[d])} :
          p = Proposal(c, NoCreative, "adjust_budget", 750, Unset,
                       IF Allocations[c].recommended > Allocations[c].current
                       THEN "increase" ELSE "decrease", 2)
    BY Zenon DEF BudgetActions
  <2>2. BudgetDirection(c) = IF Allocations[c].recommended > Allocations[c].current
                             THEN "increase" ELSE "decrease"
    BY DEF BudgetDirection
  <2>3. p = Proposal(c, NoCreative, "adjust_budget", 750, Unset, BudgetDirection(c), 2)
    BY <2>1, <2>2
  <2> QED
    BY <2>3
<1> QED
  BY <1>1, <1>2

\* A bid moves the way of a decision.
LEMMA BidsPlaced ==
  ASSUME Handed, NEW p \in BidActions
  PROVE  Placed(p) /\ Bids(p)
<1>1. ASSUME NEW d \in decisions
      PROVE  LET r == Proposal(d.campaign, NoCreative, "adjust_bid", d.confidence, Unset,
                               BidDirection(d), 3)
             IN  Placed(r) /\ Bids(r)
  BY DEF Proposal, Placed, Bids, Handed
<1> DEFINE bid(d) == Proposal(d.campaign, NoCreative, "adjust_bid", d.confidence, Unset,
                              BidDirection(d), 3)
<1>2. BidActions = {bid(d) : d \in {e \in decisions : Raises(e) \/ Lowers(e)}}
  BY DEF BidActions, BidDirection
<1>3. \E d \in decisions : p = bid(d)
  <2> HIDE DEF bid
  <2> QED
    BY <1>2
<1> QED
  BY <1>1, <1>3

\* The remedy of an alert has its severity.
LEMMA RemediesPlaced ==
  ASSUME Handed, NEW p \in AlertActions
  PROVE  Placed(p) /\ Remedies(p)
<1> DEFINE confidence(a) == IF a.severity = "critical" THEN 900 ELSE 700
           place(a) == 10 + 2 * SeverityRank(a.severity) + IF a.rule = "high_cpa" THEN 1 ELSE 0
<1>1. PICK a \in alerts :
        p = Proposal(a.campaign, NoCreative, Remedy(a.rule), confidence(a), a.severity, Unset, place(a))
  BY Zenon DEF AlertActions
<1>2. a.severity \in Severities /\ confidence(a) \in Int
  BY DEF Handed
<1>3. /\ place(a) \in Int /\ Remedy(a.rule) \in {"pause_campaign", "refresh_creative", "adjust_bid"}
      /\ \/ a.severity = "critical" /\ place(a) \in {10, 11} /\ confidence(a) = 900
         \/ a.severity = "warning" /\ place(a) \in {12, 13}
         \/ a.severity = "info" /\ place(a) \in {14, 15}
  BY <1>2 DEF Severities, SeverityRank, Remedy
<1> HIDE DEF confidence, place
<1> QED
  BY <1>1, <1>2, <1>3 DEF Proposal, Placed, Remedies

\* An experiment is proposed last.
LEMMA TestsPlaced ==
  ASSUME NEW p \in ExperimentActions
  PROVE  Placed(p) /\ Tests(p)
<1>1. ASSUME NEW c
      PROVE  LET r == Proposal(c, NoCreative, "start_ab_test", TestConfidence(c), Unset, Unset, 20)
             IN  Placed(r) /\ Tests(r)
  <2>1. TestConfidence(c) \in Int
    BY DEF TestConfidence
  <2> QED
    BY <2>1 DEF Proposal, Placed, Tests
<1>2. \E c : p = Proposal(c, NoCreative, "start_ab_test", TestConfidence(c), Unset, Unset, 20)
  BY Zenon DEF ExperimentActions, TestConfidence
<1> QED
  BY <1>1, <1>2

\* Every candidate is one of the five kinds.
LEMMA CandidateKinds ==
  ASSUME Handed, NEW p \in Candidates
  PROVE  Placed(p) /\ (Pauses(p) \/ Moves(p) \/ Bids(p) \/ Remedies(p) \/ Tests(p))
  BY PausesPlaced, MovesPlaced, BidsPlaced, RemediesPlaced, TestsPlaced DEF Candidates

\* The campaign and the place decide what a candidate of a rule says.
LEMMA KindsDecide ==
  ASSUME Handed, NEW p, NEW q, p.order \in Int, q.order \in Int, p.order = q.order,
         p.campaign = q.campaign,
         Pauses(p) \/ Moves(p) \/ Bids(p) \/ Remedies(p) \/ Tests(p),
         Pauses(q) \/ Moves(q) \/ Bids(q) \/ Remedies(q) \/ Tests(q)
  PROVE  p.severity = q.severity /\ p.direction = q.direction
<1>1. Bids(p) /\ Bids(q) => p.direction = q.direction /\ p.severity = q.severity
  BY DEF Bids, Handed
<1>2. Remedies(p) /\ Remedies(q) => p.severity = q.severity /\ p.direction = q.direction
  BY DEF Remedies
<1>3. Remedies(p) => p.order \notin {1, 2, 3, 20}
  BY DEF Remedies
<1>4. Remedies(q) => q.order \notin {1, 2, 3, 20}
  BY DEF Remedies
<1> QED
  BY <1>1, <1>2, <1>3, <1>4 DEF Pauses, Moves, Bids, Tests

\* Of the candidates of one intent deduplication keeps one.
LEMMA DedupedOnce ==
  ASSUME Handed, NEW p \in Deduped(Candidates), NEW q \in Deduped(Candidates),
         Intent(p) = Intent(q)
  PROVE  p = q
<1>1. p \in Candidates /\ q \in Candidates /\ Placed(p) /\ Placed(q)
  BY CandidateKinds DEF Deduped
<1>2. p.confidence = q.confidence /\ p.order = q.order
  BY <1>1 DEF Deduped, Placed
<1>3. p.campaign = q.campaign /\ p.creative = q.creative /\ p.type = q.type
  BY DEF Intent
<1>4. p.severity = q.severity /\ p.direction = q.direction
  BY <1>1, <1>2, <1>3, CandidateKinds, KindsDecide DEF Placed
<1> QED
  BY <1>1, <1>2, <1>3, <1>4 DEF Placed

-----------------------------------------------------------------------------
(* The inductive invariant *)

\* Proposals are dated, and those of one iteration differ in their intent.
ProposalsDated ==
  /\ \A p \in proposals : p.confidence \in Int /\ p.iteration \in Int /\ p.iteration <= iteration
  /\ \A p, q \in proposals : Intent(p) = Intent(q) /\ p.iteration = q.iteration => p = q

\* The last pass has judged all that will be published, and only a run that is
\* done has published anything.
ReviewedAndHeld ==
  /\ pc \in {"finalise", "done"} /\ proposals # {} => Review(proposals, iteration) \in findings
  /\ pc # "done" => queue = {}
  /\ pc = "done" => Open = Surviving(proposals, findings)

LoopIInv == Handed /\ ProposalsDated /\ ReviewedAndHeld

\* A run starts with nothing raised, found or published.
LEMMA InitLoopIInv == Init => LoopIInv
  BY DEF Init, LoopIInv, Handed, ProposalsDated, ReviewedAndHeld

\* The detector grades every alert.
LEMMA DetectGrades ==
  ASSUME NEW snapshots, NEW budgets, NEW reach, NEW days, NEW prior,
         NEW a \in Detect(snapshots, budgets, reach, days, prior)
  PROVE  a.severity \in Severities
<1>1. PICK c \in DOMAIN snapshots :
        \/ a \in CheckCtr(c, snapshots[c])
        \/ a \in CheckCpa(c, snapshots[c])
        \/ a \in CheckRoas(c, snapshots[c])
        \/ a \in CheckBurnRate(c, snapshots[c], budgets[c], days, c \in prior)
        \/ a \in CheckFrequency(c, snapshots[c], reach[c])
  BY DEF Detect
<1>2. \A rule, gap : \A b \in Graded(c, rule, gap) : b.severity \in Severities
  BY DEF Graded, Alert, SeverityFromGap, Severities
<1>3. a \in CheckCtr(c, snapshots[c]) => a.severity \in Severities
  BY <1>2 DEF CheckCtr
<1>4. a \in CheckCpa(c, snapshots[c]) => a.severity \in Severities
  BY <1>2 DEF CheckCpa
<1>5. a \in CheckRoas(c, snapshots[c]) => a.severity \in Severities
  BY <1>2 DEF CheckRoas
<1>6. a \in CheckBurnRate(c, snapshots[c], budgets[c], days, c \in prior) => a.severity \in Severities
  BY DEF CheckBurnRate, Alert, Severities
<1>7. a \in CheckFrequency(c, snapshots[c], reach[c]) => a.severity \in Severities
  BY <1>2 DEF CheckFrequency
<1> QED
  BY <1>1, <1>3, <1>4, <1>5, <1>6, <1>7

\* The confidence in a bid has its bounds, because delivery has.
LEMMA BidConfidenceBounded ==
  ASSUME NEW s \in Snapshot
  PROVE  BidConfidence(s) \in 0..980
<1> DEFINE share == (450 * AtMost(s.impressions, 50000)) \div 50000
           bonus == IF s.cost > 0 /\ s.revenue > 0 THEN 200 ELSE 0
<1>1. AtMost(s.impressions, 50000) \in Nat
  BY DEF AtMost, Snapshot
<1>2. share \in Nat /\ bonus \in Nat
  BY <1>1
<1>3. BidConfidence(s) = AtMost(350 + share + bonus, 980)
  BY DEF BidConfidence
<1> HIDE DEF share, bonus
<1>4. AtMost(350 + share + bonus, 980) \in 0..980
  BY <1>2 DEF AtMost
<1> QED
  BY <1>3, <1>4

\* The optimizer adds each intent once, dated with its iteration.
LEMMA OptimizeDates ==
  ASSUME LoopIInv, Optimize
  PROVE  ProposalsDated' /\ proposals \subseteq proposals'
<1>1. PICK refused :
        /\ iteration' = iteration + 1
        /\ proposals' = proposals \cup
             {[p EXCEPT !.blocked = p \in refused] : p \in Deduped(Candidates)}
  BY DEF Optimize
<1> DEFINE sent(p) == [p EXCEPT !.blocked = p \in refused]
           new == {sent(p) : p \in Deduped(Candidates)}
<1>2. iteration \in Nat /\ Handed
  BY DEF LoopIInv, Handed
<1>3. ASSUME NEW p \in Deduped(Candidates)
      PROVE  /\ sent(p).confidence \in Int /\ sent(p).iteration = iteration + 1
             /\ Intent(sent(p)) = Intent(p)
  <2>1. Placed(p)
    BY <1>2, CandidateKinds DEF Deduped
  <2> QED
    BY <2>1 DEF Placed, Intent
<1>4. ASSUME NEW n \in new
      PROVE  n.confidence \in Int /\ n.iteration = iteration + 1
  <2> HIDE DEF sent
  <2> QED
    BY <1>3
<1>5. ASSUME NEW n \in new, NEW m \in new, Intent(n) = Intent(m) PROVE n = m
  <2>1. PICK p \in Deduped(Candidates) : n = sent(p)
    OBVIOUS
  <2>2. PICK q \in Deduped(Candidates) : m = sent(q)
    OBVIOUS
  <2> HIDE DEF sent
  <2>3. Intent(p) = Intent(q)
    BY <1>3, <1>5, <2>1, <2>2
  <2> QED
    BY <1>2, <2>1, <2>2, <2>3, DedupedOnce
<1>6. \A p \in proposals : p.confidence \in Int /\ p.iteration \in Int /\ p.iteration <= iteration
  BY DEF LoopIInv, ProposalsDated
<1>7. \A p, q \in proposals : Intent(p) = Intent(q) /\ p.iteration = q.iteration => p = q
  BY DEF LoopIInv, ProposalsDated
<1>8. proposals' = proposals \cup new
  BY <1>1
<1> HIDE DEF new
<1>9. \A p \in proposals' :
        p.confidence \in Int /\ p.iteration \in Int /\ p.iteration <= iteration'
  BY <1>1, <1>2, <1>4, <1>6, <1>8
<1>10. ASSUME NEW p \in proposals', NEW q \in proposals', Intent(p) = Intent(q),
              p.iteration = q.iteration
       PROVE  p = q
  <2>1. p \in new <=> q \in new
    BY <1>2, <1>4, <1>6, <1>8, <1>10
  <2>2. CASE p \in new
    BY <1>5, <1>10, <2>1, <2>2
  <2>3. CASE p \notin new
    BY <1>7, <1>8, <1>10, <2>1, <2>3
  <2> QED
    BY <2>2, <2>3
<1> QED
  BY <1>8, <1>9, <1>10 DEF ProposalsDated, Intent

\* What a run that is done leaves open is what none of its passes withheld.
LEMMA FinaliseOpens ==
  ASSUME Finalise
  PROVE  Open' = Surviving(proposals, findings)
<1> DEFINE suppressed == SuppressedBy(findings)
<1>1. queue' = {[proposal |-> p, status |-> IF p \in suppressed THEN "suppressed" ELSE "proposed"]
                : p \in proposals}
  BY DEF Finalise
<1> HIDE DEF suppressed
<1>2. ASSUME NEW p PROVE p \in Open' => p \in proposals /\ p \notin suppressed
  BY <1>1 DEF Open
<1>3. ASSUME NEW p \in proposals, p \notin suppressed PROVE p \in Open'
  <2>1. [proposal |-> p, status |-> "proposed"] \in queue'
    BY <1>1, <1>3
  <2> QED
    BY <2>1 DEF Open
<1> QED
  BY <1>2, <1>3 DEF Surviving, suppressed

\* Every step keeps the invariant.
LEMMA LoopStep == LoopIInv /\ [Next]_vars => LoopIInv'
<1> SUFFICES ASSUME LoopIInv, [Next]_vars PROVE LoopIInv'
  OBVIOUS
<1> USE DEF LoopIInv
<1>1. CASE Monitor
  <2>1. ReviewedAndHeld' /\ ProposalsDated'
    BY <1>1 DEF Monitor, ReviewedAndHeld, ProposalsDated
  <2>2. Handed'
    BY <1>1, DetectGrades DEF Monitor, Handed
  <2> QED
    BY <2>1, <2>2
<1>2. CASE Audience
  BY <1>2 DEF Audience, ReviewedAndHeld, ProposalsDated, Handed
<1>3. CASE Creative
  BY <1>3 DEF Creative, ReviewedAndHeld, ProposalsDated, Handed
<1>4. CASE BiddingStep
  <2>1. ReviewedAndHeld' /\ ProposalsDated'
    BY <1>4 DEF BiddingStep, ReviewedAndHeld, ProposalsDated
  <2>2. \A c \in Campaigns : world.snapshots[c] \in Snapshot
    BY DeliveryPossible DEF Handed, Campaigns
  <2>3. /\ \A d \in decisions' : d.confidence \in Int
        /\ \A d, e \in decisions' : d.campaign = e.campaign => d = e
    <3>1. decisions' = {Decision(c, world.snapshots[c], world.targets[c]) : c \in Campaigns}
      BY <1>4 DEF BiddingStep
    <3>2. \A c \in Campaigns :
            LET d == Decision(c, world.snapshots[c], world.targets[c])
            IN  d.campaign = c /\ d.confidence = BidConfidence(world.snapshots[c])
      BY DEF Decision
    <3>3. \A c \in Campaigns : BidConfidence(world.snapshots[c]) \in Int
      <4> TAKE c \in Campaigns
      <4>1. BidConfidence(world.snapshots[c]) \in 0..980
        BY <2>2, BidConfidenceBounded
      <4> QED
        BY <4>1
    <3> QED
      BY <3>1, <3>2, <3>3
  <2>4. Handed'
    BY <1>4, <2>3 DEF BiddingStep, Handed
  <2> QED
    BY <2>1, <2>4
<1>5. CASE Optimize
  <2>1. Handed' /\ ReviewedAndHeld'
    BY <1>5 DEF Optimize, Handed, ReviewedAndHeld
  <2> QED
    BY <1>5, <2>1, OptimizeDates
<1>6. CASE CriticStep
  <2>1. Handed' /\ ProposalsDated'
    BY <1>6 DEF CriticStep, Handed, ProposalsDated
  <2>2. ReviewedAndHeld'
    BY <1>6 DEF CriticStep, ReviewedAndHeld, RouteAfterCritic
  <2> QED
    BY <2>1, <2>2
<1>7. CASE Finalise
  <2>1. Handed' /\ ProposalsDated'
    BY <1>7 DEF Finalise, Handed, ProposalsDated
  <2>2. Open' = Surviving(proposals, findings)
    BY <1>7, FinaliseOpens
  <2>3. ReviewedAndHeld'
    BY <1>7, <2>2 DEF Finalise, ReviewedAndHeld
  <2> QED
    BY <2>1, <2>3
<1>8. CASE NextRun
  BY <1>8 DEF NextRun, Handed, ProposalsDated, ReviewedAndHeld
<1>9. CASE UNCHANGED vars
  BY <1>9 DEF vars, Handed, ProposalsDated, ReviewedAndHeld, Open
<1> QED
  BY <1>1, <1>2, <1>3, <1>4, <1>5, <1>6, <1>7, <1>8, <1>9 DEF Next

\* In every reachable state the strengthened invariant holds.
LEMMA LoopInvariant == Spec => []LoopIInv
  BY InitLoopIInv, LoopStep, PTL DEF Spec

-----------------------------------------------------------------------------
(* Results *)

\* What is left of the proposals of a reviewed run can be approved in any order.
LEMMA ReviewedApprovable ==
  ASSUME LoopIInv, pc \in {"finalise", "done"}
  PROVE  LET Q == Surviving(proposals, findings) IN
           OnePerIntent(Q) /\ Coherent(Q) /\ \A p \in Q : ~p.blocked
<1> DEFINE Q == Surviving(proposals, findings)
<1>1. Q \subseteq Survivors(proposals)
  <2>1. CASE proposals = {}
    BY <2>1 DEF Surviving
  <2>2. CASE proposals # {}
    <3>1. Review(proposals, iteration) \in findings
      BY <2>2 DEF LoopIInv, ReviewedAndHeld
    <3>2. proposals \ Survivors(proposals) \subseteq SuppressedBy(findings)
      BY <3>1 DEF SuppressedBy, Review
    <3> QED
      BY <3>2 DEF Surviving
  <2> QED
    BY <2>1, <2>2
<1>2. /\ OnePerIntent(Survivors(proposals)) /\ Coherent(Survivors(proposals))
      /\ \A p \in Survivors(proposals) : ~p.blocked
  BY SurvivorsApprovable DEF LoopIInv, ProposalsDated
<1> HIDE DEF Q
<1>3. OnePerIntent(Q) /\ Coherent(Q) /\ \A p \in Q : ~p.blocked
  BY <1>1, <1>2 DEF OnePerIntent, Coherent
<1> QED
  BY <1>3 DEF Q

\* However often the loop iterates, and whatever the networks refuse, one open row
\* decides an intent and no open row contradicts another (agents/critic.py _repeats,
\* _conflicts, through orchestrator/state.py suppressed_action_ids).
THEOREM QueueAlwaysCoherent == Spec => []QueueIsCoherent
<1>1. ASSUME LoopIInv PROVE QueueIsCoherent
  <2>1. CASE pc = "done"
    BY <1>1, <2>1, ReviewedApprovable DEF LoopIInv, ReviewedAndHeld, QueueIsCoherent
  <2>2. CASE pc # "done"
    <3>1. Open = {}
      BY <1>1, <2>2 DEF LoopIInv, ReviewedAndHeld, Open
    <3> QED
      BY <3>1 DEF QueueIsCoherent, OnePerIntent, Coherent
  <2> QED
    BY <2>1, <2>2
<1> QED
  BY <1>1, LoopInvariant, PTL

\* A step of the loop is a step of the queue it promises, or leaves it alone.
LEMMA StepRefines ==
  LoopIInv /\ LoopIInv' /\ [Next]_vars
    => [Queue!QueueNext]_<<proposals, Open, IF pc = "done" THEN "published" ELSE "deliberating">>
<1> DEFINE stage == IF pc = "done" THEN "published" ELSE "deliberating"
<1> SUFFICES ASSUME LoopIInv, LoopIInv', [Next]_vars
             PROVE  Queue!QueueNext \/ UNCHANGED <<proposals, Open, stage>>
  BY DEF Queue!QueueNext
<1>1. CASE Monitor
  BY <1>1 DEF Monitor, Open
<1>2. CASE Audience
  BY <1>2 DEF Audience, Open
<1>3. CASE Creative
  BY <1>3 DEF Creative, Open
<1>4. CASE BiddingStep
  BY <1>4 DEF BiddingStep, Open
<1>5. CASE Optimize
  <2>1. proposals \subseteq proposals' /\ Open' = Open /\ pc = "optimize" /\ pc' = "critic"
    BY <1>5, OptimizeDates DEF Optimize, Open
  <2> QED
    BY <2>1 DEF Queue!QueueNext, Queue!Raise
<1>6. CASE CriticStep
  BY <1>6 DEF CriticStep, Open, RouteAfterCritic
<1>7. CASE Finalise
  <2>1. /\ pc = "finalise" /\ pc' = "done" /\ proposals' = proposals
        /\ Open' = Surviving(proposals, findings)
    BY <1>7, FinaliseOpens DEF Finalise
  <2>2. OnePerIntent(Open') /\ Coherent(Open') /\ \A p \in Open' : ~p.blocked
    BY <2>1, ReviewedApprovable
  <2>3. Open' \subseteq proposals
    BY <2>1 DEF Surviving
  <2>4. Queue!Approvable(Open')
    BY <2>2 DEF Queue!Approvable, Queue!OnePerIntent, Queue!Coherent, Queue!Contradict,
       Queue!Intent, Queue!Scope, Queue!NoCreative, OnePerIntent, Coherent, Contradict, Intent,
       Scope, NoCreative
  <2> QED
    BY <2>1, <2>3, <2>4 DEF Queue!QueueNext, Queue!Publish
<1>8. CASE NextRun
  <2>1. pc = "done" /\ pc' = "monitor" /\ proposals' = {} /\ Open' = {}
    BY <1>8 DEF NextRun, Open
  <2> QED
    BY <2>1 DEF Queue!QueueNext, Queue!Restart
<1>9. CASE UNCHANGED vars
  BY <1>9 DEF vars, Open
<1> QED
  BY <1>1, <1>2, <1>3, <1>4, <1>5, <1>6, <1>7, <1>8, <1>9 DEF Next

\* The loop implements ReviewQueue: it only raises until, in one step, it publishes a
\* selection that can be approved from top to bottom (services/optimization.py _finalise).
THEOREM LoopImplementsQueue == Spec => PublishesOnce
<1>1. Init => Queue!QueueInit
  BY DEF Init, Queue!QueueInit, Open
<1> QED
  BY <1>1, LoopInvariant, StepRefines, PTL DEF Spec, PublishesOnce, Queue!QueueSpec

-----------------------------------------------------------------------------
(* What the rules would propose does not change while a run iterates *)

\* The same proposal under another date.
Dated(p, i) ==
  [campaign |-> p.campaign, creative |-> p.creative, type |-> p.type,
   confidence |-> p.confidence, severity |-> p.severity, direction |-> p.direction,
   order |-> p.order, urgency |-> 0, iteration |-> i, blocked |-> FALSE]
Redated(S, i) == {Dated(p, i) : p \in S}

\* A proposal depends on the iteration for its date only.
LEMMA ProposalRedated ==
  ASSUME NEW c, NEW k, NEW type, NEW confidence, NEW severity, NEW direction, NEW order
  PROVE  LET p == Proposal(c, k, type, confidence, severity, direction, order) IN
           p' = Dated(p, iteration' + 1)
  BY DEF Proposal, Dated

\* What a rule proposes depends on what the rule reads, and for its date on the iteration.
LEMMA PausesRedated ==
  ASSUME UNCHANGED world
  PROVE  CreativeActions' = Redated(CreativeActions, iteration' + 1)
<1> DEFINE one(c, k) == Proposal(c, k.id, "pause_creative", 800, Unset, Unset, 1)
           all(c) == Proposal(c, NoCreative, "pause_creative", 450, Unset, Unset, 1)
           named == UNION {{one(c, k) : k \in Poor(c)} : c \in Campaigns}
           whole == {all(c) : c \in {d \in Campaigns : ShouldPause(world.snapshots[d])}}
           i == iteration' + 1
<1>1. CreativeActions = IF named # {} THEN named ELSE whole
  BY Zenon DEF CreativeActions
<1>2. CreativeActions' = IF named' # {} THEN named' ELSE whole'
  BY Zenon DEF CreativeActions
<1>3. Campaigns' = Campaigns /\ \A c : Poor(c)' = Poor(c)
  BY DEF Poor, Campaigns
<1>4. \A c, k : one(c, k)' = Dated(one(c, k), i)
  BY ProposalRedated
<1>5. \A c : all(c)' = Dated(all(c), i)
  BY ProposalRedated
<1>6. \A c : {one(c, k) : k \in Poor(c)}' = Redated({one(c, k) : k \in Poor(c)}, i)
  BY <1>3, <1>4 DEF Redated
<1>7. named' = Redated(named, i)
  <2> DEFINE ones(c) == {one(c, k) : k \in Poor(c)}
             each == {ones(c) : c \in Campaigns}
  <2>1. \A c : ones(c)' = Redated(ones(c), i)
    BY <1>6
  <2>2. each' = {Redated(s, i) : s \in each}
    <3> HIDE DEF ones, i
    <3> QED
      BY <1>3, <2>1
  <2>3. named = UNION each /\ named' = UNION each'
    OBVIOUS
  <2> HIDE DEF named, each, i
  <2> QED
    BY <2>2, <2>3 DEF Redated
<1>8. whole' = Redated(whole, i)
  BY <1>3, <1>5 DEF Redated
<1>9. named = {} <=> Redated(named, i) = {}
  <2> HIDE DEF named
  <2> QED
    BY DEF Redated
<1> QED
  <2> HIDE DEF named, whole, i
  <2> QED
    BY <1>1, <1>2, <1>7, <1>8, <1>9 DEF i

LEMMA MovesRedated ==
  ASSUME UNCHANGED <<world, decisions>>
  PROVE  BudgetActions' = Redated(BudgetActions, iteration' + 1)
<1> DEFINE one(c) == Proposal(c, NoCreative, "adjust_budget", 750, Unset,
                              IF Allocations[c].recommended > Allocations[c].current
                              THEN "increase" ELSE "decrease", 2)
           due == {d \in DOMAIN Allocations : Moved(Allocations[d])}
<1>1. Allocations' = Allocations
  <2>1. HoldAtTarget' = HoldAtTarget
    BY DEF HoldAtTarget
  <2> QED
    BY <2>1 DEF Allocations
<1>2. due' = due
  BY <1>1
<1>3. \A c : one(c)' = Dated(one(c), iteration' + 1)
  BY <1>1 DEF Proposal, Dated
<1>4. BudgetActions = {one(c) : c \in due} /\ BudgetActions' = {one(c) : c \in due}'
  BY Zenon DEF BudgetActions
<1> QED
  BY <1>2, <1>3, <1>4 DEF Redated

LEMMA BidsRedated ==
  ASSUME UNCHANGED decisions
  PROVE  BidActions' = Redated(BidActions, iteration' + 1)
<1> DEFINE one(d) == Proposal(d.campaign, NoCreative, "adjust_bid", d.confidence, Unset,
                              IF d.multiplier > 10000 THEN "increase" ELSE "decrease", 3)
           due == {e \in decisions : Raises(e) \/ Lowers(e)}
<1>1. due' = due
  OBVIOUS
<1>2. \A d : one(d)' = Dated(one(d), iteration' + 1)
  BY DEF Proposal, Dated
<1>3. BidActions = {one(d) : d \in due} /\ BidActions' = {one(d) : d \in due}'
  BY DEF BidActions
<1> QED
  BY <1>1, <1>2, <1>3 DEF Redated

LEMMA RemediesRedated ==
  ASSUME UNCHANGED alerts
  PROVE  AlertActions' = Redated(AlertActions, iteration' + 1)
<1> DEFINE one(a) ==
      Proposal(a.campaign, NoCreative, Remedy(a.rule),
               IF a.severity = "critical" THEN 900 ELSE 700, a.severity, Unset,
               10 + 2 * SeverityRank(a.severity) + IF a.rule = "high_cpa" THEN 1 ELSE 0)
<1>1. \A a : one(a)' = Dated(one(a), iteration' + 1)
  BY DEF Proposal, Dated
<1>2. AlertActions = {one(a) : a \in alerts} /\ AlertActions' = {one(a) : a \in alerts}'
  BY Zenon DEF AlertActions
<1> QED
  BY <1>1, <1>2 DEF Redated

\* Drafts accumulate, so a campaign that could experiment still can.
LEMMA TestsRedated ==
  ASSUME UNCHANGED world,
         \A c \in Campaigns : drafts[c] \in Nat /\ drafts'[c] \in Nat /\ drafts[c] <= drafts'[c]
  PROVE  Redated(ExperimentActions, iteration' + 1) \subseteq ExperimentActions'
<1> DEFINE one(c) == Proposal(c, NoCreative, "start_ab_test",
                              IF \E k \in world.creatives[c] : k.control THEN 850 ELSE 600,
                              Unset, Unset, 20)
           due == {d \in Campaigns : drafts[d] >= 2}
<1>1. due \subseteq due'
  BY DEF Campaigns
<1>2. \A c : one(c)' = Dated(one(c), iteration' + 1)
  BY DEF Proposal, Dated
<1>3. ExperimentActions = {one(c) : c \in due} /\ ExperimentActions' = {one(c) : c \in due}'
  BY Zenon DEF ExperimentActions
<1> QED
  BY <1>1, <1>2, <1>3 DEF Redated

\* What one agent may do to what the optimizer reads: nothing but add drafts.
Steady ==
  /\ UNCHANGED <<world, alerts, decisions>>
  /\ \A c \in Campaigns : drafts[c] \in Nat /\ drafts'[c] \in Nat /\ drafts[c] <= drafts'[c]

Like(p, q) == Intent(p) = Intent(q) /\ p.confidence = q.confidence /\ p.severity = q.severity

\* Only experiments join the candidates of a run while it iterates.
LEMMA CandidatesKept ==
  ASSUME Handed, Handed', Steady
  PROVE  /\ Redated(Candidates, iteration' + 1) \subseteq Candidates'
         /\ \A p \in Candidates' : p \in Redated(Candidates, iteration' + 1) \/ p \in ExperimentActions'
<1> DEFINE i == iteration' + 1
           rest == CreativeActions \cup BudgetActions \cup BidActions \cup AlertActions
<1>1. rest' = Redated(CreativeActions, i) \cup Redated(BudgetActions, i)
              \cup Redated(BidActions, i) \cup Redated(AlertActions, i)
  BY PausesRedated, MovesRedated, BidsRedated, RemediesRedated DEF Steady
<1>2. rest' = Redated(rest, i)
  <2> HIDE DEF i
  <2> QED
    BY <1>1 DEF Redated
<1>3. Redated(ExperimentActions, i) \subseteq ExperimentActions'
  BY TestsRedated DEF Steady
<1>4. Candidates = rest \cup ExperimentActions /\ Candidates' = rest' \cup ExperimentActions'
  BY DEF Candidates
<1> HIDE DEF rest
<1>5. Redated(Candidates, i) = Redated(rest, i) \cup Redated(ExperimentActions, i)
  <2> HIDE DEF i
  <2> QED
    BY <1>4 DEF Redated
<1> QED
  BY <1>2, <1>3, <1>4, <1>5

\* An experiment of the next state says the same as one of this state would.
LEMMA TestsNext ==
  ASSUME UNCHANGED world, NEW r \in ExperimentActions'
  PROVE  r.type = "start_ab_test" /\ r.confidence = TestConfidence(r.campaign) /\ r.order = 20
<1> DEFINE one(c) == Proposal(c, NoCreative, "start_ab_test",
                              IF \E k \in world.creatives[c] : k.control THEN 850 ELSE 600,
                              Unset, Unset, 20)
<1>1. ExperimentActions' = {one(c) : c \in {d \in Campaigns : drafts[d] >= 2}}'
  BY Zenon DEF ExperimentActions
<1>2. PICK c : r = one(c)'
  BY <1>1
<1>3. one(c)' = Dated(one(c), iteration' + 1)
  BY DEF Proposal, Dated
<1>4. one(c).type = "start_ab_test" /\ one(c).confidence = TestConfidence(c)
      /\ one(c).order = 20 /\ one(c).campaign = c
  BY DEF Proposal, TestConfidence
<1> HIDE DEF one
<1> QED
  BY <1>2, <1>3, <1>4 DEF Dated

\* So what deduplication keeps for an intent keeps its standing.
LEMMA OffersKept ==
  ASSUME Handed, Handed', Steady, NEW o \in Deduped(Candidates)
  PROVE  \E q \in Deduped(Candidates') : Like(o, q)
<1> DEFINE i == iteration' + 1
           q == Dated(o, i)
<1>1. /\ o \in Candidates
      /\ \A s \in Candidates : Intent(s) = Intent(o) =>
           ~(s.confidence > o.confidence \/ (s.confidence = o.confidence /\ s.order < o.order))
  BY DEF Deduped
<1>2. q \in Candidates' /\ \A p \in Candidates' : p \in Redated(Candidates, i) \/ p \in ExperimentActions'
  BY <1>1, CandidatesKept DEF Redated
<1>3. \A s : /\ Intent(Dated(s, i)) = Intent(s) /\ Dated(s, i).confidence = s.confidence
             /\ Dated(s, i).order = s.order /\ Dated(s, i).severity = s.severity
  BY DEF Dated, Intent
<1>4. ASSUME NEW r \in Candidates', Intent(r) = Intent(q),
             r.confidence > q.confidence \/ (r.confidence = q.confidence /\ r.order < q.order)
      PROVE  FALSE
  <2> HIDE DEF i
  <2>1. CASE r \in Redated(Candidates, i)
    <3>1. PICK s \in Candidates : r = Dated(s, i)
      BY <2>1 DEF Redated
    <3> QED
      BY <1>1, <1>3, <1>4, <3>1
  <2>2. CASE r \in ExperimentActions'
    <3>1. r.type = "start_ab_test" /\ r.confidence = TestConfidence(r.campaign) /\ r.order = 20
      BY <2>2, TestsNext DEF Steady
    <3>2. Intent(r) = Intent(o)
      BY <1>3, <1>4
    <3>3. o.type = "start_ab_test" /\ o.campaign = r.campaign
      BY <3>1, <3>2 DEF Intent
    <3>4. Placed(o) /\ (Pauses(o) \/ Moves(o) \/ Bids(o) \/ Remedies(o) \/ Tests(o))
      BY <1>1, CandidateKinds
    <3>5. Tests(o)
      BY <3>3, <3>4 DEF Pauses, Moves, Bids, Remedies
    <3>6. o.confidence = r.confidence /\ o.order = r.order /\ r.order \in Int /\ o.confidence \in Int
      BY <3>1, <3>3, <3>4, <3>5 DEF Tests, Placed
    <3> HIDE DEF q
    <3>7. q.confidence = o.confidence /\ q.order = o.order
      BY <1>3 DEF q
    <3> QED
      BY <1>4, <3>6, <3>7
  <2> QED
    BY <1>2, <2>1, <2>2
<1>5. q \in Deduped(Candidates')
  <2> HIDE DEF q
  <2> QED
    BY <1>2, <1>4 DEF Deduped
<1>6. Like(o, q)
  BY <1>3 DEF Like
<1> QED
  BY <1>5, <1>6

\* And no bid joins later.
LEMMA BidsStay ==
  ASSUME Handed, Handed', Steady, NEW q \in Deduped(Candidates'), q.type = "adjust_bid"
  PROVE  \E o \in Deduped(Candidates) : o.type = "adjust_bid" /\ Intent(o) = Intent(q)
<1> DEFINE i == iteration' + 1
<1>1. /\ q \in Candidates'
      /\ \A s \in Candidates' : Intent(s) = Intent(q) =>
           ~(s.confidence > q.confidence \/ (s.confidence = q.confidence /\ s.order < q.order))
  BY DEF Deduped
<1>2. /\ \A s \in Candidates : Dated(s, i) \in Candidates'
      /\ \A p \in Candidates' : p \in Redated(Candidates, i) \/ p \in ExperimentActions'
  BY CandidatesKept DEF Redated
<1>3. \A s : /\ Intent(Dated(s, i)) = Intent(s) /\ Dated(s, i).confidence = s.confidence
             /\ Dated(s, i).order = s.order /\ Dated(s, i).type = s.type
  BY DEF Dated, Intent
<1>4. q \notin ExperimentActions'
  BY TestsNext DEF Steady
<1> HIDE DEF i
<1>5. PICK o \in Candidates : q = Dated(o, i)
  BY <1>1, <1>2, <1>4 DEF Redated
<1>6. o \in Deduped(Candidates)
  BY <1>1, <1>2, <1>3, <1>5 DEF Deduped
<1> QED
  BY <1>3, <1>5, <1>6

-----------------------------------------------------------------------------
(* The inductive invariant of the verdicts *)

\* What the detector finds, and what the bidder decides, in every iteration of a run.
Firing == Detect(world.snapshots, world.budgets, NoReach, world.days, {})
Decided == {Decision(c, world.snapshots[c], world.targets[c]) : c \in Campaigns}

Informed ==
  /\ drafts \in [Campaigns -> Nat]
  /\ alerts = IF iteration = 0 /\ pc = "monitor" THEN {} ELSE Firing
  /\ iteration > 0 \/ pc = "optimize" => decisions = Decided
  /\ pc \in {"critic", "finalise", "done"} => iteration > 0

\* What has been raised is what the rules still propose, every iteration anew.
Accumulated ==
  /\ \A p \in proposals : Entry(p) /\ p.iteration \in 1..iteration
  /\ \A p \in proposals : \E o \in Deduped(Candidates) : Like(p, o)
  /\ \A p \in proposals : \E q \in proposals : Intent(q) = Intent(p) /\ q.iteration = iteration
  /\ iteration > 0 =>
       \A o \in Deduped(Candidates) : o.type = "adjust_bid" =>
         \E p \in proposals : p.iteration = 1 /\ Intent(p) = Intent(o)

\* What the last pass has judged, and what its verdicts and the earlier ones are.
Judged == IF pc = "critic" THEN {p \in proposals : p.iteration < iteration} ELSE proposals

Verdicts ==
  /\ pc = "critic" => Raised(Judged, iteration - 1)
  /\ \A f \in findings :
       /\ f.withheld \subseteq Judged /\ f.withheld \cap Survivors(Judged) = {}
       /\ f.iteration \in Int /\ f.iteration <= iteration
       /\ f.iteration = iteration => pc # "critic" /\ f = Review(proposals, iteration)

VerdictIInv == LoopIInv /\ Informed /\ Accumulated /\ Verdicts

\* Then the proposals of the run so far are what the critic's lemmas ask for.
LEMMA AccumulatedRaised ==
  ASSUME LoopIInv, Accumulated
  PROVE  Raised(proposals, iteration)
<1>1. ASSUME NEW p \in proposals, NEW q \in proposals, Intent(p) = Intent(q)
      PROVE  p.confidence = q.confidence /\ p.severity = q.severity
  <2>1. PICK o \in Deduped(Candidates) : Like(p, o)
    BY DEF Accumulated
  <2>2. PICK r \in Deduped(Candidates) : Like(q, r)
    BY DEF Accumulated
  <2>3. o = r
    BY <1>1, <2>1, <2>2, DedupedOnce DEF LoopIInv, Like
  <2> QED
    BY <2>1, <2>2, <2>3 DEF Like
<1>2. ASSUME NEW p \in proposals, p.type = "adjust_bid"
      PROVE  \E q \in proposals : Intent(q) = Intent(p) /\ q.iteration = 1
  <2>1. PICK o \in Deduped(Candidates) : Like(p, o)
    BY DEF Accumulated
  <2>2. Intent(o) = Intent(p) /\ o.type = "adjust_bid"
    BY <1>2, <2>1 DEF Like, Intent
  <2>3. iteration > 0
    BY DEF Accumulated, LoopIInv, Handed
  <2> QED
    BY <2>1, <2>2, <2>3 DEF Accumulated
<1>3. \A p, q \in proposals : Intent(p) = Intent(q) /\ p.iteration = q.iteration => p = q
  BY DEF LoopIInv, ProposalsDated
<1> QED
  BY <1>1, <1>2, <1>3 DEF Accumulated, Raised

\* The hysteresis of the burn rate only confirms what the first detection found: whoever
\* was critical then is past the line, and the delivery has not changed since.
LEMMA DetectStable ==
  ASSUME NEW snapshots, NEW budgets, NEW reach, NEW days, NEW found, NEW prior,
         found = Detect(snapshots, budgets, reach, days, {}),
         prior = {a.campaign : a \in {b \in found : b.rule = "burn_rate" /\ b.severity = "critical"}}
  PROVE  Detect(snapshots, budgets, reach, days, prior) = found
<1>1. \A c, rule, gap : \A a \in Graded(c, rule, gap) : a.rule = rule
  BY DEF Graded, Alert
<1>2. ASSUME NEW c \in DOMAIN snapshots, c \in prior
      PROVE  Burns(snapshots[c], budgets[c], days, BurnCritical)
  <2>1. PICK a \in found : a.campaign = c /\ a.rule = "burn_rate" /\ a.severity = "critical"
    BY <1>2
  <2>2. PICK d \in DOMAIN snapshots :
          \/ a \in CheckCtr(d, snapshots[d])
          \/ a \in CheckCpa(d, snapshots[d])
          \/ a \in CheckRoas(d, snapshots[d])
          \/ a \in CheckBurnRate(d, snapshots[d], budgets[d], days, d \in {})
          \/ a \in CheckFrequency(d, snapshots[d], reach[d])
    BY <2>1 DEF Detect
  <2>3. a \notin CheckCtr(d, snapshots[d])
    BY <1>1, <2>1 DEF CheckCtr
  <2>4. a \notin CheckCpa(d, snapshots[d])
    BY <1>1, <2>1 DEF CheckCpa
  <2>5. a \notin CheckRoas(d, snapshots[d])
    BY <1>1, <2>1 DEF CheckRoas
  <2>6. a \notin CheckFrequency(d, snapshots[d], reach[d])
    BY <1>1, <2>1 DEF CheckFrequency
  <2>7. a \in CheckBurnRate(d, snapshots[d], budgets[d], days, d \in {})
    BY <2>2, <2>3, <2>4, <2>5, <2>6
  <2>8. a.campaign = d /\ Burns(snapshots[d], budgets[d], days, BurnCritical)
    BY <2>1, <2>7 DEF CheckBurnRate, Alert
  <2> QED
    BY <2>1, <2>8
<1>3. ASSUME NEW c \in DOMAIN snapshots
      PROVE  CheckBurnRate(c, snapshots[c], budgets[c], days, c \in prior)
               = CheckBurnRate(c, snapshots[c], budgets[c], days, c \in {})
  <2>1. CASE c \notin prior
    <3>1. (c \in prior) = FALSE /\ (c \in {}) = FALSE
      BY <2>1
    <3> QED
      BY <3>1
  <2>2. CASE c \in prior
    <3> DEFINE plain == IF budgets[c] > 0 /\ 1000 * snapshots[c].cost > BurnMultiplier * budgets[c] * days
                        THEN {Alert(c, "burn_rate", "critical",
                                    Gap(1000 * snapshots[c].cost - BurnMultiplier * budgets[c] * days,
                                        BurnMultiplier * budgets[c] * days))}
                        ELSE {}
    <3>1. Burns(snapshots[c], budgets[c], days, BurnCritical)
      BY <1>2, <2>2
    <3>2. CheckBurnRate(c, snapshots[c], budgets[c], days, TRUE) = plain
      BY <3>1 DEF CheckBurnRate
    <3>3. CheckBurnRate(c, snapshots[c], budgets[c], days, FALSE) = plain
      BY <3>1 DEF CheckBurnRate
    <3>4. (c \in prior) = TRUE /\ (c \in {}) = FALSE
      BY <2>2
    <3> HIDE DEF plain
    <3> QED
      BY <3>2, <3>3, <3>4
  <2> QED
    BY <2>1, <2>2
<1> QED
  BY <1>3 DEF Detect

\* A run starts uninformed, with nothing raised or judged.
LEMMA InitVerdictIInv == Init => VerdictIInv
<1> SUFFICES ASSUME Init PROVE VerdictIInv
  OBVIOUS
<1>1. LoopIInv
  BY InitLoopIInv
<1>2. Informed
  BY DEF Init, Informed, Campaigns
<1>3. Accumulated
  BY DEF Init, Accumulated
<1>4. Verdicts
  BY DEF Init, Verdicts
<1> QED
  BY <1>1, <1>2, <1>3, <1>4 DEF VerdictIInv

\* Within a run the world stands still.
LEMMA InputsKept ==
  ASSUME UNCHANGED world
  PROVE  Firing' = Firing /\ Decided' = Decided /\ Campaigns' = Campaigns
  BY DEF Firing, Decided, Campaigns, NoReach

\* The monitor finds what it found, or in the first iteration what there is to find.
LEMMA MonitorFinds ==
  ASSUME Informed, Monitor
  PROVE  alerts' = Firing
<1>1. alerts' = Detect(world.snapshots, world.budgets, NoReach, world.days, PriorBurnRate)
  BY DEF Monitor
<1>2. CASE iteration = 0
  <2>1. PriorBurnRate = {}
    BY <1>2 DEF Monitor, Informed, PriorBurnRate
  <2> QED
    BY <1>1, <2>1 DEF Firing
<1>3. CASE iteration # 0
  <2>1. alerts = Firing
    BY <1>3 DEF Informed
  <2> QED
    BY <1>1, <2>1, DetectStable DEF Firing, PriorBurnRate
<1> QED
  BY <1>2, <1>3

\* An agent's step within a run, and what it leaves the optimizer with.
AgentStep == Monitor \/ Audience \/ Creative \/ BiddingStep \/ Optimize \/ CriticStep \/ Finalise

\* Copy is only ever added.
LEMMA CreativeDrafts ==
  ASSUME drafts \in [Campaigns -> Nat], Creative
  PROVE  drafts' \in [Campaigns -> Nat] /\ \A c \in Campaigns : drafts[c] <= drafts'[c]
<1>1. PICK variants \in [Targets -> VariantCounts] :
        drafts' = [c \in Campaigns |->
                    IF c \in Targets THEN drafts[c] + variants[c] ELSE drafts[c]]
  BY DEF Creative
<1>2. \A c \in Targets : variants[c] \in Nat
  BY LoopBounds
<1> QED
  BY <1>1, <1>2

\* Every step leaves the agents' findings what they are.
LEMMA InformedStep ==
  ASSUME LoopIInv, Informed, [Next]_vars
  PROVE  Informed'
<1>0. iteration \in Nat
  BY DEF LoopIInv, Handed
<1>1. CASE Monitor
  <2>1. alerts' = Firing
    BY <1>1, MonitorFinds
  <2>2. UNCHANGED <<world, iteration, decisions, drafts>> /\ pc = "monitor" /\ pc' = "audience"
    BY <1>1 DEF Monitor
  <2> QED
    BY <2>1, <2>2, InputsKept DEF Informed
<1>2. CASE Audience
  BY <1>2, InputsKept DEF Audience, Informed
<1>3. CASE Creative
  <2>1. drafts' \in [Campaigns -> Nat]
    BY <1>3, CreativeDrafts DEF Informed
  <2> QED
    BY <1>3, <2>1, InputsKept DEF Creative, Informed
<1>4. CASE BiddingStep
  <2>1. decisions' = Decided /\ UNCHANGED <<world, iteration, alerts, drafts>>
        /\ pc = "bidding" /\ pc' = "optimize"
    BY <1>4 DEF BiddingStep, Decided
  <2> QED
    BY <2>1, InputsKept DEF Informed
<1>5. CASE Optimize
  <2>1. /\ UNCHANGED <<world, alerts, decisions, drafts>> /\ iteration' = iteration + 1
        /\ pc = "optimize" /\ pc' = "critic"
    BY <1>5 DEF Optimize
  <2> QED
    BY <1>0, <2>1, InputsKept DEF Informed
<1>6. CASE CriticStep
  <2>1. /\ UNCHANGED <<world, iteration, alerts, decisions, drafts>>
        /\ pc = "critic" /\ pc' \in {"finalise", "monitor"}
    BY <1>6 DEF CriticStep, RouteAfterCritic
  <2>2. alerts = Firing
    BY <2>1 DEF Informed
  <2>3. iteration > 0
    BY <2>1 DEF Informed
  <2> QED
    BY <2>1, <2>2, <2>3, InputsKept DEF Informed
<1>7. CASE Finalise
  BY <1>7, InputsKept DEF Finalise, Informed
<1>8. CASE NextRun
  BY <1>8 DEF NextRun, Informed, Campaigns
<1>9. CASE UNCHANGED vars
  BY <1>9, InputsKept DEF vars, Informed
<1> QED
  BY <1>1, <1>2, <1>3, <1>4, <1>5, <1>6, <1>7, <1>8, <1>9 DEF Next

\* Each agent leaves the optimizer with what it had, or with more drafts.
LEMMA AgentsSteady ==
  ASSUME LoopIInv, Informed, AgentStep, iteration > 0
  PROVE  Steady
<1> USE DEF Steady, Informed
<1>0. alerts = Firing /\ decisions = Decided
  OBVIOUS
<1>1. CASE Monitor
  <2>1. alerts' = alerts
    BY <1>0, <1>1, MonitorFinds
  <2> QED
    BY <1>1, <2>1 DEF Monitor
<1>2. CASE Audience
  BY <1>2 DEF Audience
<1>3. CASE Creative
  BY <1>3, CreativeDrafts DEF Creative
<1>4. CASE BiddingStep
  <2>1. decisions' = decisions
    BY <1>0, <1>4 DEF BiddingStep, Decided
  <2> QED
    BY <1>4, <2>1 DEF BiddingStep
<1>5. CASE Optimize
  BY <1>5 DEF Optimize
<1>6. CASE CriticStep
  BY <1>6 DEF CriticStep
<1>7. CASE Finalise
  BY <1>7 DEF Finalise
<1> QED
  BY <1>1, <1>2, <1>3, <1>4, <1>5, <1>6, <1>7 DEF AgentStep

\* Until the optimizer runs again nothing is raised, and what was raised stays proposed.
LEMMA AccumulatedKept ==
  ASSUME Accumulated, Handed, Handed', UNCHANGED <<proposals, iteration>>,
         iteration > 0 => Steady
  PROVE  Accumulated'
<1>1. ASSUME NEW p \in proposals
      PROVE  \E q \in Deduped(Candidates') : Like(p, q)
  <2>1. PICK o \in Deduped(Candidates) : Like(p, o)
    BY DEF Accumulated
  <2>2. Steady
    BY DEF Accumulated, Handed
  <2>3. PICK q \in Deduped(Candidates') : Like(o, q)
    BY <2>2, OffersKept
  <2>4. Like(p, q)
    BY <2>1, <2>3 DEF Like
  <2> QED
    BY <2>4
<1>2. ASSUME iteration > 0, NEW q \in Deduped(Candidates'), q.type = "adjust_bid"
      PROVE  \E p \in proposals : p.iteration = 1 /\ Intent(p) = Intent(q)
  <2>1. PICK o \in Deduped(Candidates) : o.type = "adjust_bid" /\ Intent(o) = Intent(q)
    BY <1>2, BidsStay
  <2> QED
    BY <1>2, <2>1 DEF Accumulated
<1>3. \A p \in proposals : Entry(p) /\ p.iteration \in 1..iteration
  BY DEF Accumulated
<1>4. \A p \in proposals : \E q \in proposals : Intent(q) = Intent(p) /\ q.iteration = iteration
  BY DEF Accumulated
<1> QED
  BY <1>1, <1>2, <1>3, <1>4 DEF Accumulated

\* What the optimizer sends is an entry: only what it rehearses can be refused.
LEMMA SentIsEntry ==
  ASSUME Handed, NEW o \in Deduped(Candidates), NEW blocked \in BOOLEAN,
         blocked => o.type \in {"adjust_budget", "pause_campaign", "pause_creative"}
  PROVE  Entry([o EXCEPT !.blocked = blocked])
<1>1. Placed(o) /\ (Pauses(o) \/ Moves(o) \/ Bids(o) \/ Remedies(o) \/ Tests(o))
  BY CandidateKinds DEF Deduped
<1> DEFINE p == [o EXCEPT !.blocked = blocked]
<1>2. /\ p.confidence = o.confidence /\ p.iteration = iteration + 1 /\ p.urgency = 0
      /\ p.type = o.type /\ p.creative = o.creative /\ p.severity = o.severity
      /\ p.blocked = blocked /\ o.confidence \in Int /\ p.iteration \in Int
  BY <1>1 DEF Placed, Handed
<1> SUFFICES Entry(p)
  OBVIOUS
<1> HIDE DEF p
<1>3. CASE Pauses(o)
  BY <1>2, <1>3 DEF Pauses, Entry, ProposalTypes
<1>4. CASE Moves(o)
  BY <1>2, <1>4 DEF Moves, Entry, ProposalTypes
<1>5. CASE Bids(o)
  BY <1>2, <1>5 DEF Bids, Entry, ProposalTypes, Unset
<1>6. CASE Remedies(o)
  BY <1>2, <1>6 DEF Remedies, Entry, ProposalTypes
<1>7. CASE Tests(o)
  BY <1>2, <1>7 DEF Tests, Entry, ProposalTypes
<1> QED
  BY <1>1, <1>3, <1>4, <1>5, <1>6, <1>7

\* Only the rehearsable are refused.
LEMMA RefusedRehearsed ==
  ASSUME Optimize
  PROVE  \E refused :
           /\ proposals' = proposals \cup {[o EXCEPT !.blocked = o \in refused] : o \in Deduped(Candidates)}
           /\ \A o \in refused : o.type \in {"adjust_budget", "pause_campaign", "pause_creative"}
<1> DEFINE proposed == Deduped(Candidates)
           rehearsable == {p \in proposed : Rehearsable(p)}
<1>1. PICK attempted \in FirstOf(rehearsable, MaxPreflights) :
      \E answered \in FirstOf(attempted, calls) : \E refused \in Refusals(answered) :
        proposals' = proposals \cup {[p EXCEPT !.blocked = p \in refused] : p \in proposed}
  BY Zenon DEF Optimize
<1>2. PICK answered \in FirstOf(attempted, calls) : \E refused \in Refusals(answered) :
        proposals' = proposals \cup {[p EXCEPT !.blocked = p \in refused] : p \in proposed}
  BY <1>1
<1>3. PICK refused \in Refusals(answered) :
        proposals' = proposals \cup {[p EXCEPT !.blocked = p \in refused] : p \in proposed}
  BY <1>2
<1>4. attempted \subseteq rehearsable /\ answered \subseteq attempted
  BY DEF FirstOf
<1>5. refused \subseteq answered
  BY DEF Refusals
<1>6. \A o \in refused : o.type \in {"adjust_budget", "pause_campaign", "pause_creative"}
  BY <1>4, <1>5 DEF Rehearsable
<1> QED
  BY <1>3, <1>6

\* The optimizer raises every intent again that was raised before, and no bid it had not.
LEMMA OptimizeAccumulates ==
  ASSUME LoopIInv, LoopIInv', Informed, Accumulated, Optimize
  PROVE  Accumulated' /\ proposals = {p \in proposals' : p.iteration < iteration'}
<1>1. PICK refused :
        /\ proposals' = proposals \cup {[o EXCEPT !.blocked = o \in refused] : o \in Deduped(Candidates)}
        /\ \A o \in refused : o.type \in {"adjust_budget", "pause_campaign", "pause_creative"}
  BY RefusedRehearsed
<1> DEFINE sent(o) == [o EXCEPT !.blocked = o \in refused]
           new == {sent(o) : o \in Deduped(Candidates)}
<1>2. iteration \in Nat /\ iteration' = iteration + 1 /\ Handed /\ Handed' /\ pc = "optimize"
  BY DEF LoopIInv, Handed, Optimize
<1>3. Steady
  BY DEF Optimize, Informed, Steady
<1>4. ASSUME NEW o \in Deduped(Candidates)
      PROVE  Entry(sent(o)) /\ sent(o).iteration = iteration + 1 /\ Like(sent(o), o)
  <2>1. Placed(o)
    BY <1>2, CandidateKinds DEF Deduped
  <2>2. sent(o).iteration = iteration + 1 /\ Like(sent(o), o)
    BY <2>1 DEF Placed, Like, Intent
  <2> DEFINE blocked == o \in refused
  <2>3. blocked \in BOOLEAN /\ (blocked => o.type \in {"adjust_budget", "pause_campaign", "pause_creative"})
    BY <1>1
  <2> HIDE DEF blocked
  <2>4. Entry([o EXCEPT !.blocked = blocked])
    BY <1>2, <2>3, SentIsEntry
  <2> QED
    BY <2>2, <2>4 DEF blocked
<1>5. proposals' = proposals \cup new
  BY <1>1
<1>6. \A o \in Deduped(Candidates) : sent(o) \in new
  OBVIOUS
<1>7. ASSUME NEW p \in new
      PROVE  \E o \in Deduped(Candidates) : p = sent(o)
  OBVIOUS
<1> HIDE DEF sent, new
<1>8. ASSUME NEW p \in proposals'
      PROVE  \E o \in Deduped(Candidates) : Like(p, o)
  BY <1>4, <1>5, <1>7 DEF Accumulated
<1>9. \A p \in proposals' : \E q \in Deduped(Candidates') : Like(p, q)
  <2> TAKE p \in proposals'
  <2>1. PICK o \in Deduped(Candidates) : Like(p, o)
    BY <1>8
  <2>2. PICK q \in Deduped(Candidates') : Like(o, q)
    BY <1>2, <1>3, OffersKept
  <2>3. Like(p, q)
    BY <2>1, <2>2 DEF Like
  <2> QED
    BY <2>3
<1>10. \A p \in proposals' : \E q \in proposals' : Intent(q) = Intent(p) /\ q.iteration = iteration'
  <2> TAKE p \in proposals'
  <2>1. PICK o \in Deduped(Candidates) : Like(p, o)
    BY <1>8
  <2>2. sent(o) \in proposals' /\ sent(o).iteration = iteration' /\ Like(sent(o), o)
    BY <1>2, <1>4, <1>5, <1>6
  <2> QED
    BY <2>1, <2>2 DEF Like
<1>11. ASSUME NEW q \in Deduped(Candidates'), q.type = "adjust_bid"
       PROVE  \E p \in proposals' : p.iteration = 1 /\ Intent(p) = Intent(q)
  <2>1. PICK o \in Deduped(Candidates) : o.type = "adjust_bid" /\ Intent(o) = Intent(q)
    BY <1>2, <1>3, <1>11, BidsStay
  <2>2. CASE iteration = 0
    <3>1. sent(o) \in proposals' /\ sent(o).iteration = 1 /\ Like(sent(o), o)
      BY <1>2, <1>4, <1>5, <1>6, <2>2
    <3> QED
      BY <2>1, <3>1 DEF Like
  <2>3. CASE iteration > 0
    BY <1>5, <2>1, <2>3 DEF Accumulated
  <2> QED
    BY <1>2, <2>2, <2>3
<1>12. \A p \in proposals : Entry(p) /\ p.iteration \in 1..iteration
  BY DEF Accumulated
<1>13. \A p \in new : Entry(p) /\ p.iteration = iteration + 1
  BY <1>4, <1>7
<1>14. \A p \in proposals' : Entry(p) /\ p.iteration \in 1..iteration'
  BY <1>2, <1>5, <1>12, <1>13
<1>15. proposals = {p \in proposals' : p.iteration < iteration'}
  BY <1>2, <1>5, <1>12, <1>13
<1> QED
  BY <1>9, <1>10, <1>11, <1>14, <1>15 DEF Accumulated

\* So every step keeps the accumulation in order.
LEMMA AccumulatedStep ==
  ASSUME LoopIInv, LoopIInv', Informed, Accumulated, [Next]_vars
  PROVE  Accumulated'
<1>0. Handed /\ Handed' /\ iteration \in Nat
  BY DEF LoopIInv, Handed
<1>1. CASE Optimize
  BY <1>1, OptimizeAccumulates
<1>2. CASE AgentStep /\ ~Optimize
  <2>1. UNCHANGED <<proposals, iteration>>
    BY <1>2 DEF AgentStep, Monitor, Audience, Creative, BiddingStep, CriticStep, Finalise
  <2>2. iteration > 0 => Steady
    BY <1>2, AgentsSteady
  <2> QED
    BY <1>0, <2>1, <2>2, AccumulatedKept
<1>3. CASE NextRun
  BY <1>3 DEF NextRun, Accumulated
<1>4. CASE UNCHANGED vars
  <2>1. UNCHANGED <<proposals, iteration>> /\ UNCHANGED <<world, alerts, decisions, drafts>>
    BY <1>4 DEF vars
  <2>2. Steady
    BY <2>1 DEF Steady, Informed
  <2> QED
    BY <1>0, <2>1, <2>2, AccumulatedKept
<1> QED
  BY <1>1, <1>2, <1>3, <1>4 DEF Next, AgentStep

\* No verdict is overturned: the last pass confirms all earlier ones.
LEMMA VerdictsStep ==
  ASSUME VerdictIInv, LoopIInv', Informed', Accumulated', [Next]_vars
  PROVE  Verdicts'
<1> USE DEF VerdictIInv
<1>0. iteration \in Nat /\ Raised(proposals, iteration)
  BY AccumulatedRaised DEF LoopIInv, Handed
<1>1. CASE Optimize
  <2>1. pc = "optimize" /\ pc' = "critic" /\ iteration' = iteration + 1 /\ findings' = findings
    BY <1>1 DEF Optimize
  <2>2. Judged' = proposals /\ Judged = proposals
    BY <1>1, <2>1, OptimizeAccumulates DEF Judged
  <2>3. Raised(Judged', iteration' - 1)
    BY <1>0, <2>1, <2>2
  <2>4. ASSUME NEW f \in findings'
        PROVE  /\ f.withheld \subseteq Judged' /\ f.withheld \cap Survivors(Judged') = {}
               /\ f.iteration \in Int /\ f.iteration < iteration'
    BY <1>0, <2>1, <2>2 DEF Verdicts
  <2>5. \A f \in findings' : f.iteration <= iteration' /\ f.iteration # iteration'
    BY <1>0, <2>1, <2>4
  <2> QED
    BY <2>1, <2>3, <2>4, <2>5 DEF Verdicts
<1>2. CASE CriticStep
  <2>1. /\ pc = "critic" /\ pc' \in {"finalise", "monitor"} /\ UNCHANGED <<proposals, iteration>>
        /\ findings' = IF proposals = {} THEN findings ELSE findings \cup {Review(proposals, iteration)}
    BY <1>2 DEF CriticStep, RouteAfterCritic
  <2>2. Judged = {p \in proposals : p.iteration < iteration} /\ Judged' = proposals
    BY <2>1 DEF Judged
  <2>3. Raised(Judged, iteration - 1)
    BY <2>1 DEF Verdicts
  <2>4. \A p \in Judged : p \in Survivors(proposals) => p \in Survivors(Judged)
    BY <1>0, <2>2, <2>3, VerdictsLast
  <2>5. ASSUME NEW f \in findings
        PROVE  /\ f.withheld \subseteq proposals /\ f.withheld \cap Survivors(proposals) = {}
               /\ f.iteration \in Int /\ f.iteration < iteration
    <3>1. /\ f.withheld \subseteq Judged /\ f.withheld \cap Survivors(Judged) = {}
          /\ f.iteration \in Int /\ f.iteration <= iteration /\ f.iteration # iteration
      BY <2>1 DEF Verdicts
    <3>2. f.iteration < iteration
      BY <1>0, <3>1
    <3> QED
      BY <2>2, <2>4, <3>1, <3>2
  <2> DEFINE last == Review(proposals, iteration)
  <2>6. /\ last.withheld = proposals \ Survivors(proposals) /\ last.iteration = iteration
    BY DEF Review
  <2>7. \A f \in findings' : f \in findings \/ f = last
    BY <2>1
  <2> HIDE DEF last
  <2>8. ASSUME NEW f \in findings'
        PROVE  /\ f.withheld \subseteq proposals /\ f.withheld \cap Survivors(proposals) = {}
               /\ f.iteration \in Int /\ f.iteration <= iteration
               /\ f.iteration = iteration => f = last
    BY <1>0, <2>5, <2>6, <2>7
  <2>9. last = Review(proposals', iteration') /\ pc' # "critic"
    BY <2>1 DEF last
  <2> QED
    BY <2>1, <2>2, <2>8, <2>9 DEF Verdicts
<1>3. CASE Monitor \/ Audience \/ Creative \/ BiddingStep \/ Finalise
  <2>1. UNCHANGED <<proposals, iteration, findings>> /\ pc # "critic" /\ pc' # "critic"
    BY <1>3 DEF Monitor, Audience, Creative, BiddingStep, Finalise
  <2>2. Judged' = Judged
    BY <2>1 DEF Judged
  <2> QED
    BY <2>1, <2>2 DEF Verdicts
<1>4. CASE NextRun
  BY <1>4 DEF NextRun, Verdicts
<1>5. CASE UNCHANGED vars
  <2>1. UNCHANGED <<proposals, iteration, findings, pc>>
    BY <1>5 DEF vars
  <2>2. Judged' = Judged
    BY <2>1 DEF Judged
  <2> QED
    BY <2>1, <2>2 DEF Verdicts
<1> QED
  BY <1>1, <1>2, <1>3, <1>4, <1>5 DEF Next

\* Every step keeps the invariant of the verdicts.
LEMMA VerdictStep == VerdictIInv /\ [Next]_vars => VerdictIInv'
<1> SUFFICES ASSUME VerdictIInv, [Next]_vars PROVE VerdictIInv'
  OBVIOUS
<1>1. LoopIInv'
  BY LoopStep DEF VerdictIInv
<1>2. Informed'
  BY InformedStep DEF VerdictIInv
<1>3. Accumulated'
  BY <1>1, AccumulatedStep DEF VerdictIInv
<1>4. Verdicts'
  BY <1>1, <1>2, <1>3, VerdictsStep
<1> QED
  BY <1>1, <1>2, <1>3, <1>4 DEF VerdictIInv

\* In every reachable state that invariant holds.
LEMMA VerdictInvariant == Spec => []VerdictIInv
  BY InitVerdictIInv, VerdictStep, PTL DEF Spec

-----------------------------------------------------------------------------
(* Results on the verdicts *)

\* The passes of all iterations together leave open exactly what the last one left open.
LEMMA OnlyLastVerdict ==
  ASSUME VerdictIInv, NEW f \in findings, f.iteration = iteration, pc # "critic"
  PROVE  f = Review(proposals, iteration) /\ Surviving(proposals, findings) = Survivors(proposals)
<1>1. f = Review(proposals, iteration)
  BY DEF VerdictIInv, Verdicts
<1>2. f.withheld = proposals \ Survivors(proposals)
  BY <1>1 DEF Review
<1>3. \A g \in findings : g.withheld \cap Survivors(proposals) = {}
  BY DEF VerdictIInv, Verdicts, Judged
<1>4. Survivors(proposals) \subseteq proposals
  BY SurvivorsApprovable DEF VerdictIInv, LoopIInv, ProposalsDated
<1>5. SuppressedBy(findings) \cap Survivors(proposals) = {}
  BY <1>3 DEF SuppressedBy
<1>6. proposals \ Survivors(proposals) \subseteq SuppressedBy(findings)
  BY <1>2 DEF SuppressedBy
<1> QED
  BY <1>1, <1>4, <1>5, <1>6 DEF Surviving

\* No verdict of an earlier pass, on a smaller pool, outlives its reasons: the passes of
\* all iterations leave open what the last one left open (orchestrator/state.py
\* suppressed_action_ids unions the findings of every iteration).
THEOREM VerdictsAlwaysAgree == Spec => []VerdictsAgree
<1>1. ASSUME VerdictIInv PROVE VerdictsAgree
  <2> SUFFICES ASSUME NEW f \in findings, f.iteration = iteration, pc # "critic"
               PROVE  Surviving(proposals, findings) = proposals \ f.withheld
    BY DEF VerdictsAgree
  <2>1. f = Review(proposals, iteration) /\ Surviving(proposals, findings) = Survivors(proposals)
    BY <1>1, OnlyLastVerdict
  <2>2. Survivors(proposals) \subseteq proposals
    BY <1>1, SurvivorsApprovable DEF VerdictIInv, LoopIInv, ProposalsDated
  <2> QED
    BY <2>1, <2>2 DEF Review
<1> QED
  BY <1>1, VerdictInvariant, PTL

\* What a run that is done leaves open is what survived its last pass.
LEMMA OpenSurvived ==
  ASSUME VerdictIInv, pc = "done"
  PROVE  Open = Survivors(proposals) /\ (proposals # {} => Review(proposals, iteration) \in findings)
<1>1. Open = Surviving(proposals, findings)
  BY DEF VerdictIInv, LoopIInv, ReviewedAndHeld
<1>2. CASE proposals = {}
  <2>1. Survivors(proposals) \subseteq proposals
    BY SurvivorsApprovable DEF VerdictIInv, LoopIInv, ProposalsDated
  <2> QED
    BY <1>1, <1>2, <2>1 DEF Surviving
<1>3. CASE proposals # {}
  <2>1. Review(proposals, iteration) \in findings
    BY <1>3 DEF VerdictIInv, LoopIInv, ReviewedAndHeld
  <2>2. Review(proposals, iteration).iteration = iteration
    BY DEF Review
  <2> QED
    BY <1>1, <2>1, <2>2, OnlyLastVerdict
<1> QED
  BY <1>2, <1>3

\* A campaign whose spend two open proposals move opposite ways is escalated by the
\* last pass (agents/critic.py _spend_direction).
THEOREM OpposedSpendAlwaysEscalated == Spec => []OpposedSpendEscalated
<1>1. ASSUME VerdictIInv PROVE OpposedSpendEscalated
  <2> SUFFICES ASSUME pc = "done", NEW up \in Open, NEW down \in Open,
                      up.campaign = down.campaign, {up.type, down.type} \subseteq SpendTypes,
                      up.direction = "increase", down.direction = "decrease"
               PROVE  \E f \in findings : f.iteration = iteration /\ up.campaign \in f.escalated
    BY DEF OpposedSpendEscalated, SpendTypes
  <2>1. Open = Survivors(proposals) /\ (proposals # {} => Review(proposals, iteration) \in findings)
    BY <1>1, OpenSurvived
  <2>2. proposals # {}
    BY <1>1, <2>1, SurvivorsApprovable DEF VerdictIInv, LoopIInv, ProposalsDated
  <2>3. up.campaign \in Opposed(Open)
    BY DEF Opposed
  <2>4. /\ Review(proposals, iteration).iteration = iteration
        /\ Review(proposals, iteration).escalated = Opposed(Open)
    BY <2>1 DEF Review
  <2> QED
    BY <2>1, <2>2, <2>3, <2>4
<1> QED
  BY <1>1, VerdictInvariant, PTL

\* A refusal takes nothing with it: what is executable is decided by an open copy or
\* contradicts something executable, and its campaign has something open (agents/critic.py
\* _unexecutable before _repeats).
THEOREM NothingEverLostToRefusals == Spec => []NothingLostToRefusals
<1>1. ASSUME VerdictIInv PROVE NothingLostToRefusals
  <2> SUFFICES ASSUME pc = "done", NEW p \in proposals, ~p.blocked
               PROVE  /\ \E q \in Open : q.campaign = p.campaign
                      /\ \E q \in proposals :
                           /\ ~q.blocked
                           /\ \/ q \in Open /\ Intent(q) = Intent(p)
                              \/ Contradict(p, q) \/ Contradict(q, p)
    BY DEF NothingLostToRefusals
  <2>1. Open = Survivors(proposals)
    BY <1>1, OpenSurvived
  <2>2. iteration \in Nat /\ Raised(proposals, iteration)
    BY <1>1, AccumulatedRaised DEF VerdictIInv, LoopIInv, Handed
  <2> QED
    BY <2>1, <2>2, NothingLost
<1> QED
  BY <1>1, VerdictInvariant, PTL

-----------------------------------------------------------------------------
(* Type correctness *)

\* What a run handles is finite.
LEMMA FiniteImage ==
  ASSUME NEW S, IsFiniteSet(S), NEW f
  PROVE  IsFiniteSet({f[x] : x \in S})
<1> DEFINE T == {f[x] : x \in S}
           g == [x \in S |-> f[x]]
<1>1. g \in Surjection(S, T)
  BY DEF Surjection
<1> HIDE DEF g, T
<1>2. IsFiniteSet(T)
  BY <1>1, FS_Surjection
<1> QED
  BY <1>2 DEF T

\* A rule fires at most once for a campaign.
LEMMA FiringFinite ==
  ASSUME world \in Portfolios
  PROVE  IsFiniteSet(Firing)
<1> DEFINE of == [c \in Campaigns |->
                    LET s == world.snapshots[c]
                    IN  CheckCtr(c, s) \cup CheckCpa(c, s) \cup CheckRoas(c, s)
                        \cup CheckBurnRate(c, s, world.budgets[c], world.days, c \in {})
                        \cup CheckFrequency(c, s, NoReach[c])]
           each == {of[c] : c \in Campaigns}
<1>1. Firing = UNION each
  BY DEF Firing, Detect, Campaigns
<1>2. IsFiniteSet(Campaigns)
  BY PortfoliosFinite DEF Campaigns
<1>3. ASSUME NEW c \in Campaigns PROVE IsFiniteSet(of[c])
  <2> DEFINE s == world.snapshots[c]
             x1 == CheckCtr(c, s)
             x2 == CheckCpa(c, s)
             x3 == CheckRoas(c, s)
             x4 == CheckBurnRate(c, s, world.budgets[c], world.days, c \in {})
             x5 == CheckFrequency(c, s, NoReach[c])
  <2>1. \A x : IsFiniteSet({x}) /\ IsFiniteSet({})
    BY FS_Singleton, FS_EmptySet
  <2>2. IsFiniteSet(x1)
    BY <2>1 DEF CheckCtr, Graded
  <2>3. IsFiniteSet(x2)
    BY <2>1 DEF CheckCpa, Graded
  <2>4. IsFiniteSet(x3)
    BY <2>1 DEF CheckRoas, Graded
  <2>5. IsFiniteSet(x4)
    <3>1. \A x, y \in x4 : x = y
      BY DEF CheckBurnRate
    <3>2. x4 = {} \/ \E x : x4 = {x}
      <4> HIDE DEF x4
      <4> QED
        BY <3>1
    <3> QED
      BY <2>1, <3>2
  <2>6. IsFiniteSet(x5)
    BY <2>1 DEF CheckFrequency, Graded
  <2>7. of[c] = x1 \cup x2 \cup x3 \cup x4 \cup x5
    OBVIOUS
  <2> HIDE DEF x1, x2, x3, x4, x5, of
  <2>8. IsFiniteSet(x1 \cup x2)
    BY <2>2, <2>3, FS_Union
  <2>9. IsFiniteSet(x1 \cup x2 \cup x3)
    BY <2>4, <2>8, FS_Union
  <2>10. IsFiniteSet(x1 \cup x2 \cup x3 \cup x4)
    BY <2>5, <2>9, FS_Union
  <2>11. IsFiniteSet(x1 \cup x2 \cup x3 \cup x4 \cup x5)
    BY <2>6, <2>10, FS_Union
  <2> QED
    BY <2>7, <2>11
<1> HIDE DEF of
<1>4. IsFiniteSet(each)
  BY <1>2, FiniteImage
<1>5. \A e \in each : IsFiniteSet(e)
  BY <1>3
<1> HIDE DEF each
<1> QED
  BY <1>1, <1>4, <1>5, FS_UNION

\* A campaign gets one decision.
LEMMA DecidedFinite ==
  ASSUME world \in Portfolios
  PROVE  IsFiniteSet(Decided)
<1> DEFINE of == [c \in Campaigns |-> Decision(c, world.snapshots[c], world.targets[c])]
<1>1. IsFiniteSet(Campaigns)
  BY PortfoliosFinite DEF Campaigns
<1>2. Decided = {of[c] : c \in Campaigns}
  BY DEF Decided
<1> HIDE DEF of
<1> QED
  BY <1>1, <1>2, FiniteImage

\* And a rule proposes at most one action for each thing it reads.
LEMMA CandidatesFinite ==
  ASSUME world \in Portfolios, IsFiniteSet(alerts), IsFiniteSet(decisions)
  PROVE  IsFiniteSet(Candidates)
<1>1. IsFiniteSet(Campaigns) /\ \A c \in Campaigns : IsFiniteSet(world.creatives[c])
  BY PortfoliosFinite DEF Campaigns
<1>2. IsFiniteSet(CreativeActions)
  <2> DEFINE one(c, k) == Proposal(c, k.id, "pause_creative", 800, Unset, Unset, 1)
             ones == [c \in Campaigns |-> {one(c, k) : k \in Poor(c)}]
             each == {ones[c] : c \in Campaigns}
             poor == {d \in Campaigns : ShouldPause(world.snapshots[d])}
             all == [c \in Campaigns |-> Proposal(c, NoCreative, "pause_creative", 450, Unset, Unset, 1)]
  <2>1. ASSUME NEW c \in Campaigns PROVE IsFiniteSet(ones[c])
    <3> DEFINE f == [k \in Poor(c) |-> one(c, k)]
    <3>1. IsFiniteSet(Poor(c))
      <4>1. Poor(c) \subseteq world.creatives[c]
        BY DEF Poor
      <4> QED
        BY <1>1, <4>1, FS_Subset
    <3>2. ones[c] = {f[k] : k \in Poor(c)}
      OBVIOUS
    <3> HIDE DEF f, ones
    <3> QED
      BY <3>1, <3>2, FiniteImage
  <2>2. UNION each = UNION {{one(c, k) : k \in Poor(c)} : c \in Campaigns}
    OBVIOUS
  <2>3. {all[c] : c \in poor} = {Proposal(c, NoCreative, "pause_creative", 450, Unset, Unset, 1) : c \in poor}
    OBVIOUS
  <2>4. CreativeActions = UNION each \/ CreativeActions = {all[c] : c \in poor}
    BY <2>2, <2>3, Zenon DEF CreativeActions
  <2> HIDE DEF ones, all
  <2>5. IsFiniteSet(each)
    BY <1>1, FiniteImage
  <2>6. \A e \in each : IsFiniteSet(e)
    BY <2>1
  <2>7. IsFiniteSet(UNION each)
    <3> HIDE DEF each
    <3> QED
      BY <2>5, <2>6, FS_UNION
  <2>8. IsFiniteSet(poor)
    BY <1>1, FS_Subset
  <2>9. IsFiniteSet({all[c] : c \in poor})
    <3> HIDE DEF poor
    <3> QED
      BY <2>8, FiniteImage
  <2> QED
    BY <2>4, <2>7, <2>9
<1>3. IsFiniteSet(BudgetActions)
  <2> DEFINE due == {d \in DOMAIN Allocations : Moved(Allocations[d])}
             f == [c \in due |-> Proposal(c, NoCreative, "adjust_budget", 750, Unset,
                                   IF Allocations[c].recommended > Allocations[c].current
                                   THEN "increase" ELSE "decrease", 2)]
  <2>1. due \subseteq Campaigns
    BY DEF Allocations, Allocate, Eligible, Campaigns
  <2>2. IsFiniteSet(due)
    <3> HIDE DEF due
    <3> QED
      BY <1>1, <2>1, FS_Subset
  <2>3. BudgetActions = {f[c] : c \in due}
    BY DEF BudgetActions
  <2> HIDE DEF f, due
  <2> QED
    BY <2>2, <2>3, FiniteImage
<1>4. IsFiniteSet(BidActions)
  <2> DEFINE due == {e \in decisions : Raises(e) \/ Lowers(e)}
             f == [d \in due |-> Proposal(d.campaign, NoCreative, "adjust_bid", d.confidence, Unset,
                                   IF d.multiplier > 10000 THEN "increase" ELSE "decrease", 3)]
             bid(d) == Proposal(d.campaign, NoCreative, "adjust_bid", d.confidence, Unset,
                                IF d.multiplier > 10000 THEN "increase" ELSE "decrease", 3)
  <2>1. IsFiniteSet(due)
    BY FS_Subset
  <2>2. BidActions = {bid(d) : d \in due}
    BY DEF BidActions
  <2>3. {bid(d) : d \in due} = {f[d] : d \in due}
    <3>1. \A d \in due : f[d] = bid(d)
      OBVIOUS
    <3> HIDE DEF f, due, bid
    <3> QED
      BY <3>1
  <2>4. BidActions = {f[d] : d \in due}
    <3> HIDE DEF f, due, bid
    <3> QED
      BY <2>2, <2>3
  <2> HIDE DEF f, due
  <2> QED
    BY <2>1, <2>4, FiniteImage
<1>5. IsFiniteSet(AlertActions)
  <2> DEFINE f == [a \in alerts |->
               Proposal(a.campaign, NoCreative, Remedy(a.rule),
                 IF a.severity = "critical" THEN 900 ELSE 700, a.severity, Unset,
                 10 + 2 * SeverityRank(a.severity) + IF a.rule = "high_cpa" THEN 1 ELSE 0)]
  <2>1. AlertActions = {f[a] : a \in alerts}
    BY DEF AlertActions
  <2> HIDE DEF f
  <2> QED
    BY <2>1, FiniteImage
<1>6. IsFiniteSet(ExperimentActions)
  <2> DEFINE due == {d \in Campaigns : drafts[d] >= 2}
             f == [c \in due |-> Proposal(c, NoCreative, "start_ab_test",
                                   IF \E k \in world.creatives[c] : k.control THEN 850 ELSE 600,
                                   Unset, Unset, 20)]
             test(c) == Proposal(c, NoCreative, "start_ab_test",
                                 IF \E k \in world.creatives[c] : k.control THEN 850 ELSE 600,
                                 Unset, Unset, 20)
  <2>1. IsFiniteSet(due)
    BY <1>1, FS_Subset
  <2>2. ExperimentActions = {test(c) : c \in due}
    BY Zenon DEF ExperimentActions
  <2>3. \A c \in due : f[c] = test(c)
    OBVIOUS
  <2>4. ExperimentActions = {f[c] : c \in due}
    <3> HIDE DEF f, due, test
    <3> QED
      BY <2>2, <2>3
  <2> HIDE DEF f, due
  <2> QED
    BY <2>1, <2>4, FiniteImage
<1>7. IsFiniteSet(CreativeActions \cup BudgetActions)
  BY <1>2, <1>3, FS_Union
<1>8. IsFiniteSet(CreativeActions \cup BudgetActions \cup BidActions)
  BY <1>4, <1>7, FS_Union
<1>9. IsFiniteSet(CreativeActions \cup BudgetActions \cup BidActions \cup AlertActions)
  BY <1>5, <1>8, FS_Union
<1>10. IsFiniteSet(CreativeActions \cup BudgetActions \cup BidActions \cup AlertActions \cup ExperimentActions)
  BY <1>6, <1>9, FS_Union
<1> QED
  BY <1>10 DEF Candidates

\* Nothing a rule writes is out of bounds.
LEMMA DetectWithin ==
  ASSUME NEW a \in Firing
  PROVE  a.campaign \in Campaigns
<1>1. PICK c \in Campaigns :
        \/ a \in CheckCtr(c, world.snapshots[c])
        \/ a \in CheckCpa(c, world.snapshots[c])
        \/ a \in CheckRoas(c, world.snapshots[c])
        \/ a \in CheckBurnRate(c, world.snapshots[c], world.budgets[c], world.days, c \in {})
        \/ a \in CheckFrequency(c, world.snapshots[c], NoReach[c])
  BY DEF Firing, Detect, Campaigns
<1>2. \A rule, gap : \A b \in Graded(c, rule, gap) : b.campaign = c
  BY DEF Graded, Alert
<1>3. a \in CheckCtr(c, world.snapshots[c]) => a.campaign = c
  BY <1>2 DEF CheckCtr
<1>4. a \in CheckCpa(c, world.snapshots[c]) => a.campaign = c
  BY <1>2 DEF CheckCpa
<1>5. a \in CheckRoas(c, world.snapshots[c]) => a.campaign = c
  BY <1>2 DEF CheckRoas
<1>6. a \in CheckBurnRate(c, world.snapshots[c], world.budgets[c], world.days, c \in {}) => a.campaign = c
  BY DEF CheckBurnRate, Alert
<1>7. a \in CheckFrequency(c, world.snapshots[c], NoReach[c]) => a.campaign = c
  BY <1>2 DEF CheckFrequency
<1> QED
  BY <1>1, <1>3, <1>4, <1>5, <1>6, <1>7

\* A decision is about a campaign of the run.
LEMMA DecidedWithin ==
  ASSUME world \in Portfolios, NEW d \in Decided
  PROVE  d.campaign \in Campaigns /\ d.confidence \in 0..980
<1>1. PICK c \in Campaigns : d = Decision(c, world.snapshots[c], world.targets[c])
  BY DEF Decided
<1>2. world.snapshots[c] \in Snapshot
  BY DeliveryPossible DEF Campaigns
<1>3. BidConfidence(world.snapshots[c]) \in 0..980
  BY <1>2, BidConfidenceBounded
<1> QED
  BY <1>1, <1>3 DEF Decision

\* And so is what is proposed, with a confidence within bounds.
LEMMA CandidatesWithin ==
  ASSUME \A a \in alerts : a.campaign \in Campaigns,
         \A d \in decisions : d.campaign \in Campaigns /\ d.confidence \in 0..980,
         NEW p \in Candidates
  PROVE  p.campaign \in Campaigns /\ p.confidence \in 0..1000
<1>1. CASE p \in CreativeActions
  <2> DEFINE one(c, k) == Proposal(c, k.id, "pause_creative", 800, Unset, Unset, 1)
             all(c) == Proposal(c, NoCreative, "pause_creative", 450, Unset, Unset, 1)
             named == UNION {{one(c, k) : k \in Poor(c)} : c \in Campaigns}
             whole == {all(c) : c \in {d \in Campaigns : ShouldPause(world.snapshots[d])}}
  <2>1. p \in named \/ p \in whole
    BY <1>1 DEF CreativeActions
  <2>2. \A c, k : one(c, k).campaign = c /\ one(c, k).confidence = 800
    BY DEF Proposal
  <2>3. \A c : all(c).campaign = c /\ all(c).confidence = 450
    BY DEF Proposal
  <2> HIDE DEF one, all
  <2>4. CASE p \in named
    <3>1. PICK c \in Campaigns : p \in {one(c, k) : k \in Poor(c)}
      BY <2>4
    <3>2. PICK k \in Poor(c) : p = one(c, k)
      BY <3>1
    <3> QED
      BY <2>2, <3>2
  <2>5. CASE p \in whole
    <3>1. PICK c \in Campaigns : p = all(c)
      BY <2>5
    <3> QED
      BY <2>3, <3>1
  <2> QED
    BY <2>1, <2>4, <2>5
<1>2. CASE p \in BudgetActions
  <2> DEFINE move(c) == Proposal(c, NoCreative, "adjust_budget", 750, Unset,
                                 IF Allocations[c].recommended > Allocations[c].current
                                 THEN "increase" ELSE "decrease", 2)
             due == {d \in DOMAIN Allocations : Moved(Allocations[d])}
  <2>1. BudgetActions = {move(c) : c \in due}
    BY DEF BudgetActions
  <2>2. \A c : move(c).campaign = c /\ move(c).confidence = 750
    BY DEF Proposal
  <2>3. due \subseteq Campaigns
    BY DEF Allocations, Allocate, Eligible, Campaigns
  <2> HIDE DEF move, due
  <2>4. PICK c \in due : p = move(c)
    BY <1>2, <2>1
  <2> QED
    BY <2>2, <2>3, <2>4
<1>3. CASE p \in BidActions
  <2> DEFINE bid(d) == Proposal(d.campaign, NoCreative, "adjust_bid", d.confidence, Unset,
                                IF d.multiplier > 10000 THEN "increase" ELSE "decrease", 3)
  <2>1. BidActions = {bid(d) : d \in {e \in decisions : Raises(e) \/ Lowers(e)}}
    BY DEF BidActions
  <2>2. \A d : bid(d).campaign = d.campaign /\ bid(d).confidence = d.confidence
    BY DEF Proposal
  <2> HIDE DEF bid
  <2>3. PICK d \in decisions : p = bid(d)
    BY <1>3, <2>1
  <2> QED
    BY <2>2, <2>3
<1>4. CASE p \in AlertActions
  <2> DEFINE remedy(a) ==
        Proposal(a.campaign, NoCreative, Remedy(a.rule),
                 IF a.severity = "critical" THEN 900 ELSE 700, a.severity, Unset,
                 10 + 2 * SeverityRank(a.severity) + IF a.rule = "high_cpa" THEN 1 ELSE 0)
  <2>1. PICK a \in alerts : p = remedy(a)
    BY <1>4, Zenon DEF AlertActions
  <2>2. \A b : remedy(b).campaign = b.campaign /\ remedy(b).confidence \in {700, 900}
    BY DEF Proposal
  <2> HIDE DEF remedy
  <2> QED
    BY <2>1, <2>2
<1>5. CASE p \in ExperimentActions
  <2> DEFINE test(c) == Proposal(c, NoCreative, "start_ab_test",
                                 IF \E k \in world.creatives[c] : k.control THEN 850 ELSE 600,
                                 Unset, Unset, 20)
             due == {d \in Campaigns : drafts[d] >= 2}
  <2>1. ExperimentActions = {test(c) : c \in due}
    BY Zenon DEF ExperimentActions
  <2>2. \A c : test(c).campaign = c /\ test(c).confidence \in {600, 850}
    BY DEF Proposal
  <2>3. due \subseteq Campaigns
    OBVIOUS
  <2> HIDE DEF test, due
  <2>4. PICK c \in due : p = test(c)
    BY <1>5, <2>1
  <2> QED
    BY <2>2, <2>3, <2>4
<1> QED
  BY <1>1, <1>2, <1>3, <1>4, <1>5 DEF Candidates

\* The bounds of the state, and which node may run in which iteration.
Bounded ==
  /\ run \in 1..MaxRuns /\ pc \in Nodes
  /\ iteration <= MaxIterations
  /\ pc \in {"monitor", "audience", "creative", "bidding", "optimize"} => iteration < MaxIterations
  /\ (alerts = {} \/ alerts = Firing) /\ (decisions = {} \/ decisions = Decided)
  /\ \A p \in proposals : p.campaign \in Campaigns /\ p.confidence \in 0..1000
  /\ \A f \in findings : f.iteration \in 1..iteration
  /\ complete \in BOOLEAN
  /\ calls \in 0..MaxCalls
  /\ \A row \in queue : row.proposal \in proposals
  /\ burning \subseteq UNION {DOMAIN w.snapshots : w \in Portfolios}

TypeIInv == VerdictIInv /\ Bounded

\* Which is what the type invariant says.
LEMMA TypeFollows == TypeIInv => TypeOK
<1> SUFFICES ASSUME TypeIInv PROVE TypeOK
  OBVIOUS
<1>1. world \in Portfolios /\ iteration \in Nat
  BY DEF TypeIInv, VerdictIInv, LoopIInv, Handed
<1>2. \A a \in alerts : a.campaign \in Campaigns /\ a.severity \in Severities
  BY DetectWithin DEF TypeIInv, VerdictIInv, LoopIInv, Handed, Bounded
<1>3. \A d \in decisions : d.campaign \in Campaigns /\ d.confidence \in 0..980
  BY <1>1, DecidedWithin DEF TypeIInv, Bounded
<1>4. \A p \in proposals : p.type \in ProposalTypes /\ p.iteration \in 1..iteration
  BY DEF TypeIInv, VerdictIInv, Accumulated, Entry
<1>5. \A f \in findings : f.withheld \subseteq proposals
  BY DEF TypeIInv, VerdictIInv, Verdicts, Judged
<1>6. drafts \in [Campaigns -> Nat] /\ iteration \in 0..MaxIterations
  BY <1>1, LoopBounds DEF TypeIInv, VerdictIInv, Informed, Bounded
<1> QED
  BY <1>1, <1>2, <1>3, <1>4, <1>5, <1>6 DEF TypeIInv, Bounded, TypeOK

\* Calls are spent down to none.
LEMMA SpendWithin ==
  ASSUME calls \in 0..MaxCalls, NEW n \in Nat, Spend(n)
  PROVE  calls' \in 0..MaxCalls
  BY LoopBounds DEF Spend, Larger

\* The monitor spends a call for each campaign it reconciles.
LEMMA MonitorSpends ==
  ASSUME TypeIInv, Monitor
  PROVE  calls' \in 0..MaxCalls
<1>1. PICK found : /\ found = Detect(world.snapshots, world.budgets, NoReach, world.days, PriorBurnRate)
                   /\ alerts' = found
                   /\ Spend(Cardinality(Checked(found) \cap world.synced))
  BY DEF Monitor
<1>2. found = Firing /\ world \in Portfolios /\ calls \in 0..MaxCalls
  BY <1>1, MonitorFinds DEF TypeIInv, VerdictIInv, LoopIInv, Handed, Bounded
<1> DEFINE checked == Checked(found) \cap world.synced
<1>3. checked \subseteq Campaigns
  BY <1>2, DetectWithin DEF Checked, Alerted
<1>4. IsFiniteSet(Campaigns)
  BY <1>2, PortfoliosFinite DEF Campaigns
<1> HIDE DEF checked
<1>5. Cardinality(checked) \in Nat
  BY <1>3, <1>4, FS_Subset, FS_CardinalityType
<1> QED
  BY <1>1, <1>2, <1>5, SpendWithin DEF checked

\* The optimizer spends a call for each rehearsal.
LEMMA OptimizeSpends ==
  ASSUME TypeIInv, Optimize
  PROVE  calls' \in 0..MaxCalls
<1> DEFINE rehearsable == {p \in Deduped(Candidates) : Rehearsable(p)}
<1>1. PICK attempted \in FirstOf(rehearsable, MaxPreflights) : Spend(Cardinality(attempted))
  <2>1. \E attempted \in FirstOf(rehearsable, MaxPreflights) :
          \E answered \in FirstOf(attempted, calls) : \E refused \in Refusals(answered) :
            Spend(Cardinality(attempted))
    BY Zenon DEF Optimize
  <2> QED
    BY <2>1, Zenon
<1>2. attempted \subseteq Candidates
  BY DEF FirstOf, Deduped
<1>3. world \in Portfolios /\ calls \in 0..MaxCalls
  BY DEF TypeIInv, VerdictIInv, LoopIInv, Handed, Bounded
<1>4. (alerts = {} \/ alerts = Firing) /\ (decisions = {} \/ decisions = Decided)
  BY DEF TypeIInv, Bounded
<1>5. IsFiniteSet({}) /\ IsFiniteSet(Firing) /\ IsFiniteSet(Decided)
  BY <1>3, FS_EmptySet, FiringFinite, DecidedFinite
<1>6. IsFiniteSet(alerts)
  BY <1>4, <1>5
<1>7. IsFiniteSet(decisions)
  BY <1>4, <1>5
<1>8. IsFiniteSet(Candidates)
  BY <1>3, <1>6, <1>7, CandidatesFinite
<1>9. Cardinality(attempted) \in Nat
  BY <1>2, <1>8, FS_Subset, FS_CardinalityType
<1> QED
  BY <1>1, <1>3, <1>9, SpendWithin

\* A run starts within its bounds.
LEMMA InitBounded == Init => Bounded
<1> SUFFICES ASSUME Init PROVE Bounded
  OBVIOUS
<1>1. 1 \in 1..MaxRuns /\ 0 < MaxIterations /\ MaxCalls \in 0..MaxCalls
  BY LoopBounds
<1>2. alerts = {} /\ decisions = {} /\ proposals = {} /\ findings = {} /\ queue = {} /\ burning = {}
  BY DEF Init
<1>3. run = 1 /\ pc = "monitor" /\ iteration = 0 /\ complete = FALSE /\ calls = MaxCalls
  BY DEF Init
<1>4. run \in 1..MaxRuns /\ pc \in Nodes /\ complete \in BOOLEAN /\ calls \in 0..MaxCalls
  BY <1>1, <1>3 DEF Nodes
<1>5. iteration <= MaxIterations /\ iteration < MaxIterations
  BY <1>1, <1>3, LoopBounds
<1>6. burning \subseteq UNION {DOMAIN w.snapshots : w \in Portfolios}
  BY <1>2
<1> QED
  BY <1>2, <1>4, <1>5, <1>6, Zenon DEF Bounded

\* And every step stays within them.
LEMMA BoundedStep ==
  ASSUME TypeIInv, VerdictIInv', [Next]_vars
  PROVE  Bounded'
<1> USE DEF TypeIInv
<1>0. iteration \in Nat /\ world \in Portfolios
  BY DEF VerdictIInv, LoopIInv, Handed
<1>1. CASE Monitor
  <2>1. alerts' = Firing /\ calls' \in 0..MaxCalls
    BY <1>1, MonitorFinds, MonitorSpends DEF VerdictIInv
  <2>2. /\ UNCHANGED <<world, run, iteration, decisions, proposals, findings, complete, queue, burning>>
        /\ pc = "monitor" /\ pc' = "audience"
    BY <1>1 DEF Monitor
  <2> QED
    BY <2>1, <2>2, InputsKept DEF Bounded, Nodes
<1>2. CASE Audience
  BY <1>2, InputsKept DEF Audience, Bounded, Nodes
<1>3. CASE Creative
  BY <1>3, InputsKept DEF Creative, Bounded, Nodes
<1>4. CASE BiddingStep
  <2>1. decisions' = Decided
    BY <1>4 DEF BiddingStep, Decided
  <2> QED
    BY <1>4, <2>1, InputsKept DEF BiddingStep, Bounded, Nodes
<1>5. CASE Optimize
  <2>1. calls' \in 0..MaxCalls
    BY <1>5, OptimizeSpends
  <2>2. /\ UNCHANGED <<world, run, alerts, decisions, findings, queue, burning>>
        /\ pc = "optimize" /\ pc' = "critic" /\ iteration' = iteration + 1
        /\ complete' = ShouldComplete(Deduped(Candidates))
    BY <1>5 DEF Optimize
  <2>3. complete' \in BOOLEAN
    BY <2>2 DEF ShouldComplete
  <2>4. iteration' <= MaxIterations
    BY <1>0, <2>2, LoopBounds DEF Bounded
  <2>5. \A a \in alerts : a.campaign \in Campaigns
    BY DetectWithin DEF Bounded
  <2>6. \A d \in decisions : d.campaign \in Campaigns /\ d.confidence \in 0..980
    BY <1>0, DecidedWithin DEF Bounded
  <2>7. ASSUME NEW p \in proposals' PROVE p.campaign \in Campaigns /\ p.confidence \in 0..1000
    <3>1. PICK refused :
            proposals' = proposals \cup {[o EXCEPT !.blocked = o \in refused] : o \in Deduped(Candidates)}
      BY <1>5, RefusedRehearsed
    <3>2. CASE p \in proposals
      BY <3>2 DEF Bounded
    <3>3. CASE p \notin proposals
      <4>1. PICK o \in Deduped(Candidates) : p = [o EXCEPT !.blocked = o \in refused]
        BY <3>1, <3>3
      <4>2. o \in Candidates /\ Placed(o)
        BY CandidateKinds DEF Deduped, VerdictIInv, LoopIInv
      <4>3. o.campaign \in Campaigns /\ o.confidence \in 0..1000
        BY <2>5, <2>6, <4>2, CandidatesWithin
      <4>4. p.campaign = o.campaign /\ p.confidence = o.confidence
        BY <4>1, <4>2 DEF Placed
      <4> QED
        BY <4>3, <4>4
    <3> QED
      BY <3>2, <3>3
  <2>8. \A f \in findings' : f.iteration \in 1..iteration'
    BY <1>0, <2>2 DEF Bounded
  <2>9. \A row \in queue' : row.proposal \in proposals'
    BY <1>5, OptimizeDates, <2>2 DEF Bounded, VerdictIInv
  <2> QED
    BY <2>1, <2>2, <2>3, <2>4, <2>7, <2>8, <2>9, InputsKept DEF Bounded, Nodes
<1>6. CASE CriticStep
  <2>1. /\ UNCHANGED <<world, run, iteration, alerts, decisions, proposals, complete, calls, queue, burning>>
        /\ pc = "critic"
        /\ findings' = IF proposals = {} THEN findings ELSE findings \cup {Review(proposals, iteration)}
        /\ pc' = "finalise" \/ (pc' = "monitor" /\ ~(iteration >= MaxIterations))
    BY <1>6 DEF CriticStep, RouteAfterCritic
  <2>2. iteration > 0
    BY <2>1 DEF VerdictIInv, Informed
  <2>3. \A f \in findings' : f.iteration \in 1..iteration
    BY <1>0, <2>1, <2>2 DEF Bounded, Review
  <2>4. pc' = "monitor" => iteration < MaxIterations
    BY <1>0, <2>1, LoopBounds
  <2> QED
    BY <2>1, <2>3, <2>4, InputsKept DEF Bounded, Nodes
<1>7. CASE Finalise
  <2>1. /\ UNCHANGED <<world, run, iteration, alerts, decisions, proposals, findings, complete, calls>>
        /\ pc' = "done"
        /\ burning' \subseteq burning \cup PriorBurnRate
    BY <1>7 DEF Finalise
  <2>2. \A row \in queue' : row.proposal \in proposals
    BY <1>7 DEF Finalise
  <2>3. PriorBurnRate \subseteq Campaigns
    BY DetectWithin DEF PriorBurnRate, Bounded
  <2>4. burning' \subseteq UNION {DOMAIN w.snapshots : w \in Portfolios}
    BY <1>0, <2>1, <2>3 DEF Campaigns, Bounded
  <2> QED
    BY <2>1, <2>2, <2>4, InputsKept DEF Bounded, Nodes
<1>8. CASE NextRun
  <2>1. run' \in 1..MaxRuns /\ 0 < MaxIterations /\ MaxCalls \in 0..MaxCalls
    BY <1>8, LoopBounds DEF NextRun, Bounded
  <2>2. /\ alerts' = {} /\ decisions' = {} /\ proposals' = {} /\ findings' = {} /\ queue' = {}
        /\ burning' = burning
    BY <1>8 DEF NextRun
  <2>3. pc' = "monitor" /\ iteration' = 0 /\ complete' = FALSE /\ calls' = MaxCalls
    BY <1>8 DEF NextRun
  <2>4. run' \in 1..MaxRuns /\ pc' \in Nodes /\ complete' \in BOOLEAN /\ calls' \in 0..MaxCalls
    BY <2>1, <2>3 DEF Nodes
  <2>5. iteration' <= MaxIterations /\ iteration' < MaxIterations
    BY <2>1, <2>3, LoopBounds
  <2>6. burning' \subseteq UNION {DOMAIN w.snapshots : w \in Portfolios}
    BY <2>2 DEF Bounded
  <2> QED
    BY <2>2, <2>4, <2>5, <2>6, Zenon DEF Bounded
<1>9. CASE UNCHANGED vars
  BY <1>9, InputsKept DEF vars, Bounded
<1> QED
  BY <1>1, <1>2, <1>3, <1>4, <1>5, <1>6, <1>7, <1>8, <1>9 DEF Next

\* The state of the loop has its shape: every row, verdict, alert and decision is about
\* a campaign of the portfolio, every verdict is on proposals of the run, and no agent
\* spends a call the run does not have (orchestrator/state.py, tools/executor.py).
THEOREM LoopWellTyped == Spec => []TypeOK
<1>1. Init => TypeIInv
  BY InitVerdictIInv, InitBounded DEF TypeIInv
<1>2. TypeIInv /\ [Next]_vars => TypeIInv'
  <2> SUFFICES ASSUME TypeIInv, [Next]_vars PROVE TypeIInv'
    OBVIOUS
  <2>1. VerdictIInv'
    BY VerdictStep DEF TypeIInv
  <2> QED
    BY <2>1, BoundedStep DEF TypeIInv
<1> QED
  BY <1>1, <1>2, TypeFollows, PTL DEF Spec

-----------------------------------------------------------------------------
(* The budget plan: bounds, orders and scores *)

\* What a campaign is compared by is a number.
Scored(snapshots, C) ==
  \A c \in C : c \in Int /\ AllocationScore(snapshots[c]) \in Nat /\ Roas(snapshots[c]) \in Nat

\* The campaigns that are filled, and those that are released, before each.
FillOrder(snapshots, C) == [c \in C |-> {d \in C : FilledBefore(snapshots, d, c)}]
ReleaseOrder(snapshots, C) == [c \in C |-> {d \in C : ReleasedBefore(snapshots, d, c)}]

LEMMA NaturalProduct ==
  ASSUME NEW a \in Nat, NEW b \in Nat
  PROVE  a * b \in Nat
OBVIOUS

\* A score is a number as soon as the logarithm of the ROAS is.
LEMMA ScoreIsNumber ==
  ASSUME NEW s \in Snapshot, Roas(s) \in DOMAIN Efficiency
  PROVE  AllocationScore(s) \in Nat /\ Roas(s) \in Nat
<1> DEFINE seen == Smaller(Larger(s.impressions, 2000), 10000)
           sold == Smaller(s.conversions, 10)
           weight == 500 + (300 * seen) \div 10000 + (200 * sold) \div 10
<1>1. seen \in Nat /\ sold \in Nat
  BY DEF Snapshot, Larger, Smaller
<1>2. weight \in Nat
  <2> HIDE DEF seen, sold
  <2> QED
    BY <1>1
<1>3. Efficiency[Roas(s)] \in Nat /\ Roas(s) \in Nat
  BY EfficiencyStrict
<1> DEFINE scaled == Efficiency[Roas(s)] * weight
<1>4. scaled \in Nat
  <2> HIDE DEF weight
  <2> QED
    BY <1>2, <1>3, NaturalProduct
<1>5. Larger(scaled \div 1000, 1) \in Nat
  <2> HIDE DEF scaled
  <2> QED
    BY <1>4 DEF Larger
<1> QED
  BY <1>3, <1>5 DEF AllocationScore

\* Both orders rank strictly and totally: the id decides between equals.
LEMMA RankedStrictly ==
  ASSUME NEW snapshots, NEW C, Scored(snapshots, C)
  PROVE  Ordered(C, FillOrder(snapshots, C)) /\ Ordered(C, ReleaseOrder(snapshots, C))
<1> DEFINE score(c) == AllocationScore(snapshots[c])
           roas(c) == Roas(snapshots[c])
<1>1. \A c \in C : c \in Int /\ score(c) \in Nat /\ roas(c) \in Nat
  BY DEF Scored
<1>2. \A a, b : FilledBefore(snapshots, a, b) <=>
        score(a) > score(b) \/ (score(a) = score(b) /\ (roas(a) > roas(b) \/ (roas(a) = roas(b) /\ a < b)))
  BY DEF FilledBefore
<1>3. \A a, b : ReleasedBefore(snapshots, a, b) <=>
        score(a) < score(b) \/ (score(a) = score(b) /\ a < b)
  BY DEF ReleasedBefore
<1> HIDE DEF score, roas
<1>4. Ordered(C, FillOrder(snapshots, C))
  BY <1>1, <1>2 DEF Ordered, FillOrder
<1>5. Ordered(C, ReleaseOrder(snapshots, C))
  BY <1>1, <1>3 DEF Ordered, ReleaseOrder
<1> QED
  BY <1>4, <1>5

\* A budget lies between the bounds one plan may move it to.
LEMMA BudgetWithinBounds ==
  ASSUME NEW b \in Nat, b >= BudgetFloor
  PROVE  /\ FloorOf(b) \in Nat /\ CeilingOf(b) \in Nat
         /\ FloorOf(b) =< b /\ b =< CeilingOf(b)
<1> DEFINE low == b * (100 - MaxChangePct)
           high == b * (100 + MaxChangePct)
           step == b * MaxChangePct
<1>1. MaxChangePct \in Nat /\ 100 - MaxChangePct \in Nat /\ 100 + MaxChangePct \in Nat
  BY ChangeBounded
<1>2. low \in Nat /\ high \in Nat /\ step \in Nat
  BY <1>1, NaturalProduct
<1>3. low = 100 * b - step /\ high = 100 * b + step
  BY <1>1
<1> HIDE DEF low, high, step
<1>4. low \div 100 \in Nat /\ low \div 100 =< b /\ high \div 100 \in Nat /\ b =< high \div 100
  BY <1>2, <1>3
<1> QED
  BY <1>4 DEF FloorOf, CeilingOf, Larger, BudgetFloor, low, high

-----------------------------------------------------------------------------
(* The budget plan: filling best first, releasing weakest first *)

\* The plan, once it is settled which holds are kept.
Plan(snapshots, current, kept) ==
  LET floors == Floors(current, kept)
      room == [c \in DOMAIN current |-> CeilingOf(current[c]) - floors[c]]
      left(c) == Headroom(current, floors)
                 - SumOver(room, {d \in DOMAIN current : FilledBefore(snapshots, d, c)})
  IN  [c \in DOMAIN current |->
         [current |-> current[c],
          recommended |-> floors[c] + Smaller(room[c], Larger(left(c), 0)),
          held |-> c \in kept]]

\* The bounds of a campaign with the holds that are kept.
LEMMA FloorsWithinBounds ==
  ASSUME NEW C, NEW current \in [C -> Nat], \A c \in C : current[c] >= BudgetFloor, NEW kept
  PROVE  /\ Floors(current, kept) \in [C -> Nat]
         /\ \A c \in C : /\ FloorOf(current[c]) =< Floors(current, kept)[c]
                         /\ Floors(current, kept)[c] =< current[c]
                         /\ current[c] =< CeilingOf(current[c]) /\ CeilingOf(current[c]) \in Nat
                         /\ FloorOf(current[c]) \in Nat
                         /\ c \in kept => Floors(current, kept)[c] = current[c]
                         /\ c \notin kept => Floors(current, kept)[c] = FloorOf(current[c])
<1>1. \A c \in C : /\ FloorOf(current[c]) \in Nat /\ CeilingOf(current[c]) \in Nat
                   /\ FloorOf(current[c]) =< current[c] /\ current[c] =< CeilingOf(current[c])
  BY BudgetWithinBounds
<1> QED
  BY <1>1 DEF Floors

\* What is above the floors is an amount, and there is room for it.
LEMMA HeadroomFits ==
  ASSUME NEW C, IsFiniteSet(C), NEW current \in [C -> Nat],
         \A c \in C : current[c] >= BudgetFloor, NEW kept
  PROVE  LET floors == Floors(current, kept)
             room == [c \in C |-> CeilingOf(current[c]) - floors[c]]
         IN  /\ Headroom(current, floors) = Total(current, C) - Total(floors, C)
             /\ Headroom(current, floors) \in Nat
             /\ room \in [C -> Nat]
             /\ Headroom(current, floors) =< Total(room, C)
<1> DEFINE floors == Floors(current, kept)
           room == [c \in C |-> CeilingOf(current[c]) - floors[c]]
           above == [c \in C |-> current[c] - floors[c]]
<1>1. /\ floors \in [C -> Nat]
      /\ \A c \in C : floors[c] =< current[c] /\ current[c] =< CeilingOf(current[c])
                      /\ CeilingOf(current[c]) \in Nat
  BY FloorsWithinBounds
<1> HIDE DEF floors
<1>2. Headroom(current, floors) = Total(current, C) - Total(floors, C)
  BY <1>1, SumIsFold DEF Headroom, SumOver
<1>3. room \in [C -> Nat] /\ above \in [C -> Nat] /\ \A c \in C : above[c] =< room[c]
  <2>1. \A c \in C : /\ CeilingOf(current[c]) - floors[c] \in Nat
                     /\ current[c] - floors[c] \in Nat
                     /\ current[c] - floors[c] =< CeilingOf(current[c]) - floors[c]
    BY <1>1
  <2> QED
    BY <2>1
<1>4. \A c \in C : current[c] = floors[c] + above[c]
  BY <1>1
<1> HIDE DEF room, above
<1>5. Total(current, C) = Total(floors, C) + Total(above, C)
  BY <1>1, <1>3, <1>4, SumAdds
<1>6. Total(above, C) =< Total(room, C)
  BY <1>3, SumMonotonic
<1>7. Total(above, C) \in Nat /\ Total(floors, C) \in Nat
  <2>1. C \in SUBSET C
    OBVIOUS
  <2> QED
    BY <2>1, <1>1, <1>3, SumUnfolds
<1> QED
  BY <1>2, <1>3, <1>5, <1>6, <1>7 DEF room, floors

\* Whatever holds are kept, the fill preserves the total, stays within the bounds and
\* starves a campaign only for those ranked before it (budget.py _greedy_optimum).
FillsBest(snapshots, C, current, kept) ==
  LET plan == Plan(snapshots, current, kept)
      score(c) == AllocationScore(snapshots[c])
  IN  /\ Total([c \in C |-> plan[c].recommended], C) = Total(current, C)
      /\ \A c \in C : /\ plan[c].recommended \in Nat
                      /\ FloorOf(current[c]) =< plan[c].recommended
                      /\ plan[c].recommended =< CeilingOf(current[c])
                      /\ c \in kept => current[c] =< plan[c].recommended
      /\ \A c, d \in C :
           \/ score(c) =< score(d)
           \/ plan[c].recommended = CeilingOf(current[c])
           \/ plan[d].recommended = Floors(current, kept)[d]

LEMMA FillIsOptimal ==
  ASSUME NEW snapshots, NEW C, IsFiniteSet(C), Scored(snapshots, C),
         NEW current \in [C -> Nat], \A c \in C : current[c] >= BudgetFloor,
         NEW kept
  PROVE  FillsBest(snapshots, C, current, kept)
<1> DEFINE floors == Floors(current, kept)
           room == [c \in C |-> CeilingOf(current[c]) - floors[c]]
           amount == Headroom(current, floors)
           before == FillOrder(snapshots, C)
           left(c) == amount - Total(room, before[c])
           given == [c \in C |-> IF left(c) =< 0 THEN 0
                                 ELSE IF left(c) < room[c] THEN left(c) ELSE room[c]]
           plan == Plan(snapshots, current, kept)
           rec == [c \in C |-> plan[c].recommended]
<1>1. /\ floors \in [C -> Nat]
      /\ \A c \in C : /\ FloorOf(current[c]) =< floors[c] /\ floors[c] =< current[c]
                      /\ FloorOf(current[c]) \in Nat
                      /\ current[c] =< CeilingOf(current[c]) /\ CeilingOf(current[c]) \in Nat
                      /\ c \in kept => floors[c] = current[c]
  BY FloorsWithinBounds
<1>2. /\ amount = Total(current, C) - Total(floors, C) /\ amount \in Nat
      /\ room \in [C -> Nat] /\ amount =< Total(room, C)
  BY HeadroomFits
<1>3. Ordered(C, before)
  BY RankedStrictly
<1>4. \A c \in C : before[c] \in SUBSET C /\ Total(room, before[c]) \in Nat
  <2>1. \A c \in C : before[c] \in SUBSET C
    BY <1>3 DEF Ordered
  <2> HIDE DEF room, before
  <2> QED
    BY <2>1, <1>2, SumUnfolds
<1>5. \A c \in C : left(c) \in Int /\ room[c] \in Nat
  <2> HIDE DEF room, before, amount
  <2> QED
    BY <1>2, <1>4
<1>6. given \in [C -> Nat]
  <2> HIDE DEF left, room
  <2> QED
    BY <1>5
<1>7. \A c \in C : plan[c].recommended = floors[c] + given[c]
  <2>1. \A c \in C : plan[c].recommended = floors[c] + Smaller(room[c], Larger(left(c), 0))
    <3>1. DOMAIN current = C
      OBVIOUS
    <3>2. \A c \in C : SumOver(room, {d \in C : FilledBefore(snapshots, d, c)})
                         = Total(room, before[c])
      BY SumIsFold DEF SumOver, FillOrder
    <3>3. \A c \in C : plan[c].recommended = floors[c] + Smaller(room[c],
                Larger(amount - SumOver(room, {d \in C : FilledBefore(snapshots, d, c)}), 0))
      BY <3>1 DEF Plan
    <3> HIDE DEF floors, room, amount, before, plan
    <3> QED
      BY <3>2, <3>3
  <2> HIDE DEF floors, room, left, plan
  <2> QED
    BY <2>1, <1>5 DEF Smaller, Larger
<1>8. Total(given, C) = amount
  <2>1. \A c \in C : LET left2 == amount - Total(room, before[c])
                     IN  given[c] = IF left2 =< 0 THEN 0
                                    ELSE IF left2 < room[c] THEN left2 ELSE room[c]
    OBVIOUS
  <2> HIDE DEF room, amount, before, given
  <2> QED
    BY <2>1, <1>2, <1>3, <1>6, GreedyFillsAll
<1>9. \A c \in C : rec[c] = floors[c] + given[c] /\ given[c] \in Nat /\ given[c] =< room[c]
                   /\ room[c] = CeilingOf(current[c]) - floors[c]
                   /\ rec[c] = plan[c].recommended
  <2>1. \A c \in C : given[c] =< room[c] /\ given[c] = IF left(c) =< 0 THEN 0
                                    ELSE IF left(c) < room[c] THEN left(c) ELSE room[c]
    <3> HIDE DEF left, room
    <3> QED
      BY <1>5
  <2> HIDE DEF given, plan, floors
  <2> QED
    BY <1>6, <1>7, <2>1
<1>10. rec \in [C -> Nat] /\ Total(rec, C) = Total(current, C)
  <2> HIDE DEF rec, given, floors, amount, room
  <2>1. rec \in [C -> Nat]
    <3>1. \A c \in C : floors[c] + given[c] \in Nat
      BY <1>1, <1>6
    <3>2. rec = [c \in C |-> floors[c] + given[c]]
      BY <1>7 DEF rec
    <3> QED
      BY <3>1, <3>2
  <2>2. Total(rec, C) = Total(floors, C) + Total(given, C)
    BY <1>1, <1>6, <1>9, <2>1, SumAdds
  <2>3. Total(floors, C) \in Nat /\ Total(current, C) \in Nat
    <3>1. C \in SUBSET C
      OBVIOUS
    <3> QED
      BY <3>1, <1>1, SumUnfolds
  <2> QED
    BY <2>1, <2>2, <2>3, <1>2, <1>8
<1>11. \A c \in C : /\ plan[c].recommended \in Nat
                    /\ FloorOf(current[c]) =< plan[c].recommended
                    /\ plan[c].recommended =< CeilingOf(current[c])
                    /\ c \in kept => current[c] =< plan[c].recommended
  <2> HIDE DEF rec, given, floors, room, plan
  <2> QED
    BY <1>1, <1>9
<1>12. ASSUME NEW c \in C, NEW d \in C, AllocationScore(snapshots[c]) > AllocationScore(snapshots[d]),
              plan[c].recommended # CeilingOf(current[c])
       PROVE  plan[d].recommended = floors[d]
  <2>1. left(c) < room[c]
    <3>1. given[c] # room[c]
      <4> HIDE DEF given, room, floors, plan, rec
      <4> QED
        BY <1>1, <1>9, <1>12
    <3>2. left(c) >= room[c] => given[c] = room[c]
      <4> HIDE DEF left, room
      <4> QED
        BY <1>5
    <3> HIDE DEF left, room, given
    <3> QED
      BY <3>1, <3>2, <1>5
  <2>2. c \in before[d] /\ before[c] \subseteq before[d] /\ c \notin before[c]
    <3>1. c \in before[d]
      BY <1>12 DEF FillOrder, FilledBefore
    <3> HIDE DEF before
    <3> QED
      BY <3>1, <1>3 DEF Ordered
  <2> DEFINE upto == before[c] \cup {c}
  <2>3. upto \in SUBSET before[d] /\ upto \in SUBSET C /\ upto \ {c} = before[c] /\ c \in upto
    <3> HIDE DEF before
    <3> QED
      BY <1>4, <2>2
  <2>4. Total(room, upto) = room[c] + Total(room, before[c])
    <3> HIDE DEF upto, before, room
    <3> QED
      BY <2>3, <1>2, SumPick
  <2>5. Total(room, upto) =< Total(room, before[d])
    <3> HIDE DEF upto, before, room
    <3> QED
      BY <2>3, <1>2, <1>4, SumOfPart
  <2>6. left(d) =< 0
    <3> HIDE DEF upto, before, room, amount
    <3> QED
      BY <2>1, <2>4, <2>5, <1>2, <1>4, <1>5
  <2>7. given[d] = 0
    <3> HIDE DEF left
    <3> QED
      BY <2>6
  <2> HIDE DEF given, floors, plan
  <2> QED
    BY <2>7, <1>1, <1>7
<1>13. \A c, d \in C : \/ AllocationScore(snapshots[c]) =< AllocationScore(snapshots[d])
                       \/ plan[c].recommended = CeilingOf(current[c])
                       \/ plan[d].recommended = floors[d]
  <2>1. \A c \in C : AllocationScore(snapshots[c]) \in Nat
    BY DEF Scored
  <2> HIDE DEF plan, floors
  <2> QED
    BY <2>1, <1>12
<1> QED
  BY <1>10, <1>11, <1>13 DEF FillsBest

\* With these holds every budget that is not held is at its floor: nothing can move.
Frozen(current, holds) == \A c \in DOMAIN current \ holds : current[c] = FloorOf(current[c])

LEMMA NoHeadroomFreezes ==
  ASSUME NEW C, IsFiniteSet(C), NEW current \in [C -> Nat],
         \A c \in C : current[c] >= BudgetFloor, NEW holds,
         ~(Headroom(current, Floors(current, holds)) > 0)
  PROVE  Frozen(current, holds)
<1> DEFINE floors == Floors(current, holds)
<1>1. /\ floors \in [C -> Nat]
      /\ \A c \in C : /\ floors[c] =< current[c]
                      /\ c \notin holds => floors[c] = FloorOf(current[c])
  BY FloorsWithinBounds
<1>2. Headroom(current, floors) = Total(current, C) - Total(floors, C)
      /\ Headroom(current, floors) \in Nat
  BY HeadroomFits
<1>3. Total(floors, C) \in Nat /\ Total(current, C) \in Nat
  <2>1. C \in SUBSET C
    OBVIOUS
  <2> QED
    BY <2>1, <1>1, SumUnfolds
<1> HIDE DEF floors
<1>4. Total(current, C) =< Total(floors, C)
  BY <1>2, <1>3 DEF floors
<1>5. \A c \in C : floors[c] = current[c]
  BY <1>1, <1>4, SumMonotonic
<1> QED
  BY <1>1, <1>5 DEF Frozen

\* Holds are released weakest first, only if keeping all freezes the plan, and the last
\* one released was one too many to keep (budget.py _apply_holds).
YieldsWeakest(snapshots, current, held) ==
  LET kept == KeptHolds(snapshots, current, held)
  IN  /\ kept \subseteq held
      /\ \A r \in held \ kept, d \in kept :
           AllocationScore(snapshots[r]) =< AllocationScore(snapshots[d])
      /\ held \ kept # {} => /\ Frozen(current, held)
                             /\ \E r \in held \ kept : Frozen(current, kept \cup {r})

LEMMA HoldsYieldWeakestFirst ==
  ASSUME NEW snapshots, NEW C, IsFiniteSet(C), Scored(snapshots, C),
         NEW current \in [C -> Nat], \A c \in C : current[c] >= BudgetFloor,
         NEW held \in SUBSET C
  PROVE  YieldsWeakest(snapshots, current, held)
<1> DEFINE score(c) == AllocationScore(snapshots[c])
           before == ReleaseOrder(snapshots, C)
           through(c) == {d \in held : d = c \/ ReleasedBefore(snapshots, d, c)}
           moves(h) == Headroom(current, Floors(current, h)) > 0
           Enough == {d \in held : moves(held \ through(d))}
           kept == KeptHolds(snapshots, current, held)
<1>1. kept = IF moves(held) THEN held ELSE UNION {held \ through(c) : c \in Enough}
  BY DEF KeptHolds
<1>2. \A h : ~moves(h) => Frozen(current, h)
  BY NoHeadroomFreezes
<1>3. Ordered(C, before)
  BY RankedStrictly
<1>4. \A c, d \in C : /\ d \in before[c] => score(d) =< score(c)
                      /\ d \notin before[c] /\ d # c => score(c) =< score(d)
  <2>1. \A c \in C : score(c) \in Nat /\ c \in Int
    BY DEF Scored
  <2>2. \A c, d \in C : d \in before[c] <=>
          score(d) < score(c) \/ (score(d) = score(c) /\ d < c)
    BY DEF ReleaseOrder, ReleasedBefore
  <2> HIDE DEF score, before
  <2> QED
    BY <2>1, <2>2
<1>5. \A c \in C : through(c) = {d \in held : d = c \/ d \in before[c]} /\ score(c) \in Nat
  BY DEF ReleaseOrder, Scored
<1>6. Enough \in SUBSET held /\ \A c \in held \ Enough : ~moves(held \ through(c))
  OBVIOUS
<1> HIDE DEF moves, Enough, through, before, kept, score
<1>7. CASE moves(held)
  BY <1>1, <1>7 DEF kept, YieldsWeakest
<1>8. CASE ~moves(held)
  <2>1. kept = UNION {held \ through(c) : c \in Enough}
    BY <1>1, <1>8
  <2>2. kept \subseteq held
    BY <2>1
  <2>3. ASSUME NEW r \in held \ kept, NEW d \in kept PROVE score(r) =< score(d)
    <3>1. PICK c \in Enough : d \in held \ through(c)
      BY <2>1
    <3>2. r \in through(c)
      BY <2>1, <2>3
    <3>3. score(r) =< score(c) /\ score(c) =< score(d)
      BY <1>4, <1>5, <1>6, <3>1, <3>2, <2>2
    <3> QED
      BY <3>3, <1>5, <1>6, <2>2
  <2>4. ASSUME held \ kept # {} PROVE \E r \in held \ kept : Frozen(current, kept \cup {r})
    <3>1. CASE Enough = {}
      <4>1. kept = {}
        BY <2>1, <3>1
      <4>2. PICK m \in held : \A d \in held : d = m \/ d \in before[m]
        <5>1. held # {}
          BY <2>4
        <5> QED
          BY <5>1, <1>3, LastExists
      <4>3. held \ through(m) = {}
        BY <4>2, <1>5
      <4>4. Frozen(current, {})
        BY <4>3, <3>1, <1>2, <1>6
      <4>5. Frozen(current, kept \cup {m})
        BY <4>1, <4>4 DEF Frozen
      <4> QED
        BY <4>1, <4>5
    <3>2. CASE Enough # {}
      <4>1. PICK c \in Enough : \A d \in Enough : d = c \/ c \in before[d]
        <5>1. Enough \in SUBSET C
          BY <1>6
        <5> QED
          BY <5>1, <3>2, <1>3, FirstExists
      <4>2. c \in held /\ c \in C /\ c \notin before[c]
        BY <1>3, <1>6 DEF Ordered
      <4>3. \A d \in Enough : through(c) \subseteq through(d)
        <5> SUFFICES ASSUME NEW d \in Enough, d # c PROVE through(c) \subseteq through(d)
          OBVIOUS
        <5>1. c \in before[d] /\ before[c] \subseteq before[d]
          BY <4>1, <4>2, <1>3, <1>6 DEF Ordered
        <5> QED
          BY <5>1, <4>2, <1>5, <1>6
      <4>4. kept = held \ through(c)
        BY <2>1, <4>3
      <4> DEFINE Earlier == held \cap before[c]
      <4>5. c \notin kept /\ kept \cup {c} = held \ Earlier
        BY <4>2, <4>4, <1>5
      <4>6. CASE Earlier = {}
        BY <4>2, <4>5, <4>6, <1>2, <1>8
      <4>7. CASE Earlier # {}
        <5>1. PICK p \in Earlier : \A d \in Earlier : d = p \/ d \in before[p]
          <6>1. Earlier \in SUBSET C
            OBVIOUS
          <6> HIDE DEF Earlier
          <6> QED
            BY <6>1, <4>7, <1>3, LastExists
        <5>2. p \in held /\ p \in before[c] /\ before[p] \subseteq before[c] /\ c \notin before[p]
          BY <4>2, <1>3 DEF Ordered
        <5>3. through(p) = Earlier
          BY <5>1, <5>2, <1>5
        <5>4. p \notin Enough
          BY <4>1, <4>2, <5>2
        <5>5. Frozen(current, held \ Earlier)
          BY <5>2, <5>3, <5>4, <1>2, <1>6
        <5> QED
          BY <5>5, <4>2, <4>5
      <4> QED
        BY <4>6, <4>7
    <3> QED
      BY <3>1, <3>2
  <2>5. Frozen(current, held)
    BY <1>2, <1>8
  <2> QED
    BY <2>2, <2>3, <2>4, <2>5 DEF kept, score, YieldsWeakest
<1> QED
  BY <1>7, <1>8

\* A portfolio's campaigns are scored, and their baselines are budgets.
LEMMA PortfolioScored ==
  ASSUME world \in Portfolios
  PROVE  LET C == Eligible(world.snapshots)
             current == [c \in C |-> Baseline(world.snapshots[c], world.budgets[c])]
         IN  /\ IsFiniteSet(C) /\ Scored(world.snapshots, C)
             /\ current \in [C -> Nat] /\ \A c \in C : current[c] >= BudgetFloor
<1> DEFINE C == Eligible(world.snapshots)
           base(c) == Baseline(world.snapshots[c], world.budgets[c])
<1>1. C \subseteq DOMAIN world.snapshots
  BY DEF Eligible
<1>2. IsFiniteSet(C)
  BY <1>1, PortfoliosFinite, FS_Subset
<1>3. \A c \in C : /\ c \in Int /\ world.budgets[c] \in Nat /\ world.snapshots[c] \in Snapshot
                   /\ Roas(world.snapshots[c]) \in DOMAIN Efficiency
  BY <1>1, BudgetsComparable, DeliveryPossible
<1>4. Scored(world.snapshots, C)
  BY <1>3, ScoreIsNumber DEF Scored
<1>5. \A c \in C : base(c) \in Nat /\ base(c) >= BudgetFloor
  BY <1>3 DEF Baseline, Larger, BudgetFloor, Snapshot
<1> HIDE DEF C, base
<1>6. [c \in C |-> base(c)] \in [C -> Nat] /\ \A c \in C : [e \in C |-> base(e)][c] >= BudgetFloor
  BY <1>5
<1> QED
  BY <1>2, <1>4, <1>6 DEF C, base

\* The plan of the run is the fill, with the holds that were kept.
LEMMA AllocationsFill ==
  LET C == Eligible(world.snapshots)
      current == [c \in C |-> Baseline(world.snapshots[c], world.budgets[c])]
      kept == KeptHolds(world.snapshots, current, HoldAtTarget \cap C)
  IN  /\ Allocations = Plan(world.snapshots, current, kept)
      /\ DOMAIN Allocations = C
      /\ \A c \in C : Allocations[c].current = current[c] /\ Allocations[c].held = (c \in kept)
<1> DEFINE C == Eligible(world.snapshots)
           current == [c \in C |-> Baseline(world.snapshots[c], world.budgets[c])]
           kept == KeptHolds(world.snapshots, current, HoldAtTarget \cap C)
<1>1. DOMAIN current = C
  OBVIOUS
<1>2. Allocations = Plan(world.snapshots, current, kept)
  <2> HIDE DEF C
  <2> QED
    BY <1>1 DEF Allocations, Allocate, Plan, C
<1>3. DOMAIN Allocations = C
  <2> HIDE DEF current, kept
  <2> QED
    BY <1>1, <1>2 DEF Plan
<1>4. \A c \in C : Allocations[c].current = current[c] /\ Allocations[c].held = (c \in kept)
  <2> HIDE DEF current, kept
  <2> QED
    BY <1>1, <1>2 DEF Plan
<1> QED
  BY <1>2, <1>3, <1>4

\* The greedy fill is the optimum: the plan preserves the total, keeps every budget in
\* its bounds, and no transfer those bounds allow raises the objective
\* (budget.py allocate), for any number of campaigns, budgets, scores and bounds.
THEOREM PlanAlwaysOptimal == Spec => []PlanIsOptimal
<1>1. world \in Portfolios => PlanIsOptimal
  <2> SUFFICES ASSUME world \in Portfolios PROVE PlanIsOptimal
    OBVIOUS
  <2> DEFINE C == Eligible(world.snapshots)
             current == [c \in C |-> Baseline(world.snapshots[c], world.budgets[c])]
             kept == KeptHolds(world.snapshots, current, HoldAtTarget \cap C)
             plan == Allocations
             rec == [c \in C |-> plan[c].recommended]
             score(c) == AllocationScore(world.snapshots[c])
  <2>1. /\ IsFiniteSet(C) /\ Scored(world.snapshots, C)
        /\ current \in [C -> Nat] /\ \A c \in C : current[c] >= BudgetFloor
    BY PortfolioScored
  <2>2. /\ plan = Plan(world.snapshots, current, kept) /\ DOMAIN plan = C
        /\ \A c \in C : plan[c].current = current[c] /\ plan[c].held = (c \in kept)
    BY AllocationsFill
  <2> HIDE DEF C, current, kept, plan
  <2>3. /\ Total(rec, C) = Total(current, C)
        /\ \A c \in C : /\ plan[c].recommended \in Nat
                        /\ FloorOf(current[c]) =< plan[c].recommended
                        /\ plan[c].recommended =< CeilingOf(current[c])
        /\ \A c, d \in C : \/ score(c) =< score(d)
                           \/ plan[c].recommended = CeilingOf(current[c])
                           \/ plan[d].recommended = Floors(current, kept)[d]
    <3>1. FillsBest(world.snapshots, C, current, kept)
      BY <2>1, FillIsOptimal
    <3>2. Plan(world.snapshots, current, kept) = plan
      BY <2>2
    <3> QED
      BY <3>1, <3>2 DEF FillsBest
  <2>4. SumOver(rec, C) = SumOver([c \in C |-> plan[c].current], C)
    <3>1. [c \in C |-> plan[c].current] = current
      BY <2>1, <2>2
    <3>2. SumOver(rec, C) = Total(rec, C) /\ SumOver(current, C) = Total(current, C)
      BY SumIsFold DEF SumOver
    <3> HIDE DEF rec
    <3> QED
      BY <2>3, <3>1, <3>2
  <2>5. \A c \in C : /\ FloorOf(current[c]) \in Nat /\ CeilingOf(current[c]) \in Nat
                     /\ c \in kept => Floors(current, kept)[c] = current[c]
                     /\ c \notin kept => Floors(current, kept)[c] = FloorOf(current[c])
    BY <2>1, FloorsWithinBounds
  <2>6. \A c \in C : plan[c].recommended \in FloorOf(plan[c].current)..CeilingOf(plan[c].current)
    BY <2>2, <2>3, <2>5
  <2>7. ASSUME NEW c \in C, NEW d \in C
        PROVE  \/ score(c) =< score(d)
               \/ plan[c].recommended = CeilingOf(plan[c].current)
               \/ plan[d].recommended = FloorOf(plan[d].current)
               \/ plan[d].held /\ plan[d].recommended = plan[d].current
    <3>1. plan[c].current = current[c] /\ plan[d].current = current[d] /\ plan[d].held = (d \in kept)
      BY <2>2
    <3>2. \/ score(c) =< score(d)
          \/ plan[c].recommended = CeilingOf(current[c])
          \/ plan[d].recommended = Floors(current, kept)[d]
      BY <2>3
    <3> HIDE DEF score
    <3> QED
      BY <3>1, <3>2, <2>5
  <2> HIDE DEF score
  <2> QED
    BY <2>2, <2>4, <2>6, <2>7 DEF PlanIsOptimal, plan, score, rec
<1>2. LoopIInv => world \in Portfolios
  BY DEF LoopIInv, Handed
<1> QED
  BY <1>1, <1>2, LoopInvariant, PTL

\* A hold on a campaign the run bids up is given up only where keeping all of them would
\* freeze the plan, weakest score first, and no more than it takes
\* (optimize.py _hold_at_target, budget.py _apply_holds).
THEOREM HoldsAlwaysReleasedLast == Spec => []HoldsReleasedLast
<1>1. world \in Portfolios => HoldsReleasedLast
  <2> SUFFICES ASSUME world \in Portfolios PROVE HoldsReleasedLast
    OBVIOUS
  <2> DEFINE C == Eligible(world.snapshots)
             current == [c \in C |-> Baseline(world.snapshots[c], world.budgets[c])]
             holds == HoldAtTarget
             held == holds \cap C
             kept == KeptHolds(world.snapshots, current, held)
             plan == Allocations
             score(c) == AllocationScore(world.snapshots[c])
  <2>1. /\ IsFiniteSet(C) /\ Scored(world.snapshots, C)
        /\ current \in [C -> Nat] /\ \A c \in C : current[c] >= BudgetFloor
    BY PortfolioScored
  <2>2. /\ plan = Plan(world.snapshots, current, kept) /\ DOMAIN plan = C
        /\ \A c \in C : plan[c].current = current[c] /\ plan[c].held = (c \in kept)
    BY AllocationsFill
  <2>3. held \in SUBSET C
    OBVIOUS
  <2> HIDE DEF C, current, plan, holds
  <2>4. /\ kept \subseteq held
        /\ \A r \in held \ kept, d \in kept : score(r) =< score(d)
        /\ held \ kept # {} => /\ Frozen(current, held)
                               /\ \E r \in held \ kept : Frozen(current, kept \cup {r})
    <3>1. YieldsWeakest(world.snapshots, current, held)
      <4> HIDE DEF held
      <4> QED
        BY <2>1, <2>3, HoldsYieldWeakestFirst
    <3> HIDE DEF held
    <3> QED
      BY <3>1 DEF YieldsWeakest
  <2> HIDE DEF kept
  <2>5. \A c \in C : /\ plan[c].recommended \in Nat /\ current[c] \in Nat
                     /\ c \in kept => current[c] =< plan[c].recommended
    <3>1. FillsBest(world.snapshots, C, current, kept)
      BY <2>1, FillIsOptimal
    <3>2. Plan(world.snapshots, current, kept) = plan
      BY <2>2
    <3> QED
      BY <2>1, <3>1, <3>2 DEF FillsBest
  <2>7. {c \in DOMAIN plan : plan[c].held} = kept
    BY <2>2, <2>3, <2>4
  <2>8. (holds \cap DOMAIN plan) \ kept = held \ kept
    BY <2>2
  <2> DEFINE frozen(h) == \A c \in DOMAIN plan \ h : plan[c].current = FloorOf(plan[c].current)
  <2>9. \A h : frozen(h) <=> Frozen(current, h)
    <3>1. DOMAIN current = C
      BY <2>1
    <3> QED
      BY <2>2, <3>1 DEF Frozen
  <2>10. Frozen(current, held) <=> Frozen(current, holds)
    <3>1. C \ held = C \ holds /\ DOMAIN current = C
      BY <2>1
    <3> HIDE DEF held
    <3> QED
      BY <3>1 DEF Frozen
  <2>11. \A c \in kept : plan[c].recommended >= plan[c].current
    BY <2>2, <2>3, <2>4, <2>5
  <2>12. HoldAtTarget = holds /\ Allocations = plan
    BY DEF holds, plan
  <2> HIDE DEF score, frozen, held
  <2>13. /\ \A c \in kept : plan[c].recommended >= plan[c].current
         /\ \A r \in (holds \cap DOMAIN plan) \ kept, d \in kept : score(r) =< score(d)
         /\ (holds \cap DOMAIN plan) \ kept # {} =>
              /\ frozen(holds)
              /\ \E r \in (holds \cap DOMAIN plan) \ kept : frozen(kept \cup {r})
    BY <2>4, <2>8, <2>9, <2>10, <2>11
  <2> QED
    BY <2>7, <2>12, <2>13 DEF HoldsReleasedLast, score, frozen
<1>2. LoopIInv => world \in Portfolios
  BY DEF LoopIInv, Handed
<1> QED
  BY <1>1, <1>2, LoopInvariant, PTL

-----------------------------------------------------------------------------
(* The budget plan: no reallocation is worth more *)

\* What a plan is worth: every unit of budget earns the score of its campaign.
Worth(snapshots, C, x) == Total([c \in C |-> AllocationScore(snapshots[c]) * x[c]], C)

\* Budget moved to a score above the margin is worth more than the margin, below it less.
LEMMA AroundMargin ==
  ASSUME NEW s \in Nat, NEW m \in Nat, NEW r \in Nat, NEW x \in Nat,
         s > m => x =< r, s < m => r =< x
  PROVE  s * x + m * r =< s * r + m * x
<1>1. \A a, b, g \in Nat : a =< b => a * g =< b * g
  <2> SUFFICES ASSUME NEW a \in Nat, NEW b \in Nat, NEW g \in Nat, a =< b
               PROVE  a * g =< b * g
    OBVIOUS
  <2>1. (b - a) * g >= 0 /\ b * g = a * g + (b - a) * g
    OBVIOUS
  <2> QED
    BY <2>1
<1>2. \A a, y, g \in Nat : a * (y + g) = a * y + a * g /\ a * y \in Nat /\ a * g \in Nat
  OBVIOUS
<1>3. CASE x < r
  <2> DEFINE gap == r - x
  <2>1. gap \in Nat /\ r = x + gap /\ m =< s
    BY <1>3
  <2> HIDE DEF gap
  <2>2. m * gap =< s * gap
    BY <1>1, <2>1
  <2> QED
    BY <1>2, <2>1, <2>2
<1>4. CASE r < x
  <2> DEFINE gap == x - r
  <2>1. gap \in Nat /\ x = r + gap /\ s =< m
    BY <1>4
  <2> HIDE DEF gap
  <2>2. s * gap =< m * gap
    BY <1>1, <2>1
  <2> QED
    BY <1>2, <2>1, <2>2
<1>5. CASE x = r
  <2>1. s * x \in Nat /\ m * x \in Nat
    BY <1>2
  <2> QED
    BY <1>5, <2>1
<1> QED
  BY <1>3, <1>4, <1>5

\* No other way to spend the same total within the same bounds is worth more: with the
\* least score that was given anything as margin, the scores above it are at their
\* ceilings and those below it at their floors (budget.py: "the exact optimum").
LEMMA FillMaximises ==
  ASSUME NEW snapshots, NEW C, IsFiniteSet(C), Scored(snapshots, C),
         NEW current \in [C -> Nat], \A c \in C : current[c] >= BudgetFloor, NEW kept,
         NEW x \in [C -> Nat], Total(x, C) = Total(current, C),
         \A c \in C : Floors(current, kept)[c] =< x[c] /\ x[c] =< CeilingOf(current[c])
  PROVE  Worth(snapshots, C, x)
           =< Worth(snapshots, C, [c \in C |-> Plan(snapshots, current, kept)[c].recommended])
<1> DEFINE floors == Floors(current, kept)
           rec == [c \in C |-> Plan(snapshots, current, kept)[c].recommended]
           score == [c \in C |-> AllocationScore(snapshots[c])]
           before == FillOrder(snapshots, C)
           Given == {c \in C : rec[c] > floors[c]}
<1>1. /\ floors \in [C -> Nat]
      /\ \A c \in C : /\ CeilingOf(current[c]) \in Nat
                      /\ c \in kept => floors[c] = current[c]
                      /\ c \notin kept => floors[c] = FloorOf(current[c])
  BY FloorsWithinBounds
<1>2. score \in [C -> Nat] /\ Ordered(C, before)
      /\ \A c, d \in C : d \in before[c] => score[d] >= score[c]
  <2>1. \A c \in C : AllocationScore(snapshots[c]) \in Nat
    BY DEF Scored
  <2>2. \A c, d \in C : d \in before[c] => score[d] >= score[c]
    BY <2>1 DEF FillOrder, FilledBefore
  <2> QED
    BY <2>1, <2>2, RankedStrictly
<1>3. /\ Total(rec, C) = Total(current, C) /\ rec \in [C -> Nat]
      /\ \A c \in C : floors[c] =< rec[c] /\ rec[c] =< CeilingOf(current[c])
      /\ \A c, d \in C : score[c] > score[d] =>
           rec[c] = CeilingOf(current[c]) \/ rec[d] = floors[d]
  <2> DEFINE plan == Plan(snapshots, current, kept)
  <2>1. FillsBest(snapshots, C, current, kept)
    BY FillIsOptimal
  <2>2. /\ Total(rec, C) = Total(current, C)
        /\ \A c \in C : /\ plan[c].recommended \in Nat
                        /\ FloorOf(current[c]) =< plan[c].recommended
                        /\ plan[c].recommended =< CeilingOf(current[c])
                        /\ c \in kept => current[c] =< plan[c].recommended
        /\ \A c, d \in C : \/ AllocationScore(snapshots[c]) =< AllocationScore(snapshots[d])
                           \/ plan[c].recommended = CeilingOf(current[c])
                           \/ plan[d].recommended = floors[d]
    BY <2>1 DEF FillsBest
  <2>3. \A c \in C : rec[c] = plan[c].recommended /\ score[c] = AllocationScore(snapshots[c])
    OBVIOUS
  <2>4. rec \in [C -> Nat]
    <3> HIDE DEF plan
    <3> QED
      BY <2>2 DEF plan
  <2> HIDE DEF plan, rec, score, floors
  <2>5. \A c \in C : floors[c] =< rec[c] /\ rec[c] =< CeilingOf(current[c])
    BY <1>1, <2>2, <2>3
  <2>6. \A c, d \in C : score[c] > score[d] =>
           rec[c] = CeilingOf(current[c]) \/ rec[d] = floors[d]
    BY <1>2, <2>2, <2>3
  <2> QED
    BY <2>2, <2>4, <2>5, <2>6
<1> HIDE DEF floors, rec, score, before
<1>4. PICK m \in Nat : \A c \in C : /\ score[c] > m => x[c] =< rec[c]
                                    /\ score[c] < m => rec[c] =< x[c]
  <2>1. CASE Given = {}
    <3>1. \A c \in C : rec[c] = floors[c]
      BY <1>1, <1>3, <2>1
    <3>2. \A c \in C : rec[c] =< x[c]
      BY <3>1 DEF floors
    <3>3. \A c \in C : rec[c] = x[c]
      <4>1. Total(x, C) =< Total(rec, C)
        <5>1. C \in SUBSET C
          OBVIOUS
        <5>2. Total(x, C) \in Nat
          BY <5>1, SumUnfolds
        <5> QED
          BY <5>2, <1>3
      <4> QED
        BY <3>2, <4>1, <1>3, SumMonotonic
    <3>4. \A c \in C : x[c] =< rec[c]
      BY <3>3, <1>3
    <3> QED
      BY <3>2, <3>4
  <2>2. CASE Given # {}
    <3>1. PICK p \in Given : \A d \in Given : d = p \/ d \in before[p]
      <4>1. Given \in SUBSET C
        OBVIOUS
      <4> HIDE DEF Given
      <4> QED
        BY <2>2, <4>1, <1>2, LastExists
    <3>2. p \in C /\ score[p] \in Nat /\ rec[p] # floors[p]
      BY <1>1, <1>2, <1>3, <3>1
    <3>3. ASSUME NEW c \in C, score[c] > score[p] PROVE x[c] =< rec[c]
      BY <3>2, <3>3, <1>3
    <3>4. ASSUME NEW c \in C, score[c] < score[p] PROVE rec[c] =< x[c]
      <4>1. c \notin Given
        BY <1>2, <3>1, <3>2, <3>4
      <4>2. rec[c] = floors[c]
        BY <1>1, <1>3, <4>1
      <4> QED
        BY <4>2 DEF floors
    <3> QED
      BY <3>2, <3>3, <3>4
  <2> QED
    BY <2>1, <2>2
<1> DEFINE worthX == [c \in C |-> score[c] * x[c]]
           worthR == [c \in C |-> score[c] * rec[c]]
           marginX == [c \in C |-> m * x[c]]
           marginR == [c \in C |-> m * rec[c]]
           less == [c \in C |-> worthX[c] + marginR[c]]
           more == [c \in C |-> worthR[c] + marginX[c]]
<1>5. \A c \in C : /\ score[c] * x[c] \in Nat /\ score[c] * rec[c] \in Nat
                   /\ m * x[c] \in Nat /\ m * rec[c] \in Nat
                   /\ score[c] * x[c] + m * rec[c] =< score[c] * rec[c] + m * x[c]
  <2> TAKE c \in C
  <2>1. score[c] \in Nat /\ x[c] \in Nat /\ rec[c] \in Nat
    BY <1>2, <1>3
  <2>2. /\ score[c] * x[c] \in Nat /\ score[c] * rec[c] \in Nat
        /\ m * x[c] \in Nat /\ m * rec[c] \in Nat
    BY <2>1, NaturalProduct
  <2>3. score[c] * x[c] + m * rec[c] =< score[c] * rec[c] + m * x[c]
    BY <1>4, <2>1, AroundMargin
  <2> QED
    BY <2>2, <2>3
<1>6. /\ worthX \in [C -> Nat] /\ worthR \in [C -> Nat]
      /\ marginX \in [C -> Nat] /\ marginR \in [C -> Nat]
      /\ less \in [C -> Nat] /\ more \in [C -> Nat]
      /\ \A c \in C : less[c] = worthX[c] + marginR[c] /\ more[c] = worthR[c] + marginX[c]
                      /\ less[c] =< more[c]
  <2>1. \A c \in C : /\ worthX[c] = score[c] * x[c] /\ worthR[c] = score[c] * rec[c]
                     /\ marginX[c] = m * x[c] /\ marginR[c] = m * rec[c]
                     /\ less[c] = worthX[c] + marginR[c] /\ more[c] = worthR[c] + marginX[c]
    OBVIOUS
  <2>2. worthX \in [C -> Nat] /\ worthR \in [C -> Nat] /\ marginX \in [C -> Nat] /\ marginR \in [C -> Nat]
    BY <1>5
  <2> HIDE DEF worthX, worthR, marginX, marginR
  <2>3. less \in [C -> Nat] /\ more \in [C -> Nat]
    BY <2>2
  <2> HIDE DEF less, more
  <2> QED
    BY <2>1, <2>2, <2>3, <1>5
<1>7. Total(marginX, C) = Total(marginR, C) /\ Total(marginR, C) \in Nat
  <2>1. Total(marginX, C) = m * Total(x, C) /\ Total(marginR, C) = m * Total(rec, C)
    BY <1>3, SumScales
  <2>2. C \in SUBSET C
    OBVIOUS
  <2> HIDE DEF marginX, marginR
  <2> QED
    BY <2>1, <2>2, <1>3, <1>6, SumUnfolds
<1> HIDE DEF worthX, worthR, marginX, marginR, less, more
<1>8. /\ Total(less, C) = Total(worthX, C) + Total(marginR, C)
      /\ Total(more, C) = Total(worthR, C) + Total(marginX, C)
      /\ Total(less, C) =< Total(more, C)
  <2>1. Total(less, C) = Total(worthX, C) + Total(marginR, C)
    BY <1>6, SumAdds
  <2>2. Total(more, C) = Total(worthR, C) + Total(marginX, C)
    BY <1>6, SumAdds
  <2>3. Total(less, C) =< Total(more, C)
    BY <1>6, SumMonotonic
  <2> QED
    BY <2>1, <2>2, <2>3
<1>9. Total(worthX, C) \in Nat /\ Total(worthR, C) \in Nat
  <2>1. C \in SUBSET C
    OBVIOUS
  <2> QED
    BY <2>1, <1>6, SumUnfolds
<1>10. Total(worthX, C) =< Total(worthR, C)
  BY <1>7, <1>8, <1>9
<1>11. Worth(snapshots, C, x) = Total(worthX, C) /\ Worth(snapshots, C, rec) = Total(worthR, C)
  <2>1. [c \in C |-> AllocationScore(snapshots[c]) * x[c]] = worthX
    BY DEF worthX, score
  <2>2. [c \in C |-> AllocationScore(snapshots[c]) * rec[c]] = worthR
    BY DEF worthR, score
  <2> QED
    BY <2>1, <2>2 DEF Worth
<1> QED
  BY <1>10, <1>11 DEF rec

\* A reallocation the bounds of the plan allow: of the same total, no budget past the
\* change limit, none below it, and none that is held below what it is now.
Allowed(plan, x) ==
  /\ x \in [DOMAIN plan -> Nat]
  /\ SumOver(x, DOMAIN plan) = SumOver([c \in DOMAIN plan |-> plan[c].current], DOMAIN plan)
  /\ \A c \in DOMAIN plan :
       /\ IF plan[c].held THEN plan[c].current =< x[c] ELSE FloorOf(plan[c].current) =< x[c]
       /\ x[c] =< CeilingOf(plan[c].current)

PlanIsMaximal ==
  pc = "optimize" =>
    LET plan == Allocations
        worth(x) == SumOver([c \in DOMAIN plan |-> AllocationScore(world.snapshots[c]) * x[c]],
                            DOMAIN plan)
    IN  \A x : Allowed(plan, x) => worth(x) =< worth([c \in DOMAIN plan |-> plan[c].recommended])

\* "A greedy fill in descending score order yields the exact optimum" (budget.py:9-10):
\* no allowed reallocation, of all there are and not only of those a single transfer
\* away, is worth more than the plan.
THEOREM PlanAlwaysMaximal == Spec => []PlanIsMaximal
<1>1. world \in Portfolios => PlanIsMaximal
  <2> SUFFICES ASSUME world \in Portfolios PROVE PlanIsMaximal
    OBVIOUS
  <2> DEFINE C == Eligible(world.snapshots)
             current == [c \in C |-> Baseline(world.snapshots[c], world.budgets[c])]
             kept == KeptHolds(world.snapshots, current, HoldAtTarget \cap C)
             plan == Allocations
             rec == [c \in C |-> plan[c].recommended]
             worth(x) == SumOver([c \in C |-> AllocationScore(world.snapshots[c]) * x[c]], C)
  <2>1. /\ IsFiniteSet(C) /\ Scored(world.snapshots, C)
        /\ current \in [C -> Nat] /\ \A c \in C : current[c] >= BudgetFloor
    BY PortfolioScored
  <2>2. /\ plan = Plan(world.snapshots, current, kept) /\ DOMAIN plan = C
        /\ \A c \in C : plan[c].current = current[c] /\ plan[c].held = (c \in kept)
    BY AllocationsFill
  <2> HIDE DEF C, current, kept, plan
  <2>3. ASSUME NEW x, Allowed(plan, x) PROVE worth(x) =< worth(rec)
    <3>1. x \in [C -> Nat] /\ SumOver(x, C) = SumOver([c \in C |-> plan[c].current], C)
      BY <2>2, <2>3 DEF Allowed
    <3>2. Total(x, C) = Total(current, C)
      <4>1. [c \in C |-> plan[c].current] = current
        BY <2>1, <2>2
      <4>2. SumOver(x, C) = Total(x, C) /\ SumOver(current, C) = Total(current, C)
        BY SumIsFold DEF SumOver
      <4> QED
        BY <3>1, <4>1, <4>2
    <3>3. \A c \in C : Floors(current, kept)[c] =< x[c] /\ x[c] =< CeilingOf(current[c])
      <4>1. \A c \in C : /\ c \in kept => Floors(current, kept)[c] = current[c]
                         /\ c \notin kept => Floors(current, kept)[c] = FloorOf(current[c])
        BY <2>1, FloorsWithinBounds
      <4>2. \A c \in C : /\ IF c \in kept THEN current[c] =< x[c] ELSE FloorOf(current[c]) =< x[c]
                         /\ x[c] =< CeilingOf(current[c])
        BY <2>2, <2>3 DEF Allowed
      <4> QED
        BY <4>1, <4>2
    <3> DEFINE filled == [c \in C |-> Plan(world.snapshots, current, kept)[c].recommended]
    <3>4. Worth(world.snapshots, C, x) =< Worth(world.snapshots, C, filled)
      BY <2>1, <3>1, <3>2, <3>3, FillMaximises
    <3>5. filled = rec
      BY <2>2
    <3>6. \A y : worth(y) = Worth(world.snapshots, C, y)
      BY SumIsFold DEF SumOver, Worth
    <3> HIDE DEF worth, rec, filled
    <3> QED
      BY <3>4, <3>5, <3>6
  <2>4. DOMAIN Allocations = C /\ Allocations = plan
    BY <2>2 DEF plan
  <2> QED
    BY <2>3, <2>4 DEF PlanIsMaximal
<1>2. LoopIInv => world \in Portfolios
  BY DEF LoopIInv, Handed
<1> QED
  BY <1>1, <1>2, LoopInvariant, PTL
-----------------------------------------------------------------------------
(* What a pause and a raised bid rest on *)

\* Impressions of delivery, or conversions in their stead, that a verdict of 0.6 takes.
Proven(s) == s.impressions + 500 * AtMost(s.conversions, 20) >= 14000

\* Nothing is paused on thin evidence, in any iteration: an active creative for its own
\* delivery, or the campaign's rotation for the campaign's.
PausesAreProven ==
  \A p \in proposals : p.type = "pause_creative" =>
    \/ /\ p.creative = NoCreative /\ Proven(world.snapshots[p.campaign])
    \/ \E k \in world.creatives[p.campaign] :
         k.id = p.creative /\ k.active /\ Proven(k.delivery)

\* The campaigns whose bid this run raises.
BidUp == {d.campaign : d \in {e \in decisions : Raises(e)}}

\* A bid worth raising has cleared the target with room to spare, so the second condition
\* of a hold never decides: the campaigns held are those the run bids up.
HoldsAreBidUp == pc = "optimize" => HoldAtTarget = BidUp

\* A run does not say "bid more here" and "spend less here" about one campaign, unless
\* no budget outside the held ones has anything to give.
BidUpNotCut ==
  pc = "optimize" =>
    \A up \in BidActions, down \in BudgetActions :
      /\ up.campaign = down.campaign
      /\ up.direction = "increase" /\ down.direction = "decrease"
      => \A c \in DOMAIN Allocations \ HoldAtTarget :
           Allocations[c].current = FloorOf(Allocations[c].current)

\* The confidence gate is a gate on the sample: the score cannot open it.
LEMMA PauseNeedsSample ==
  ASSUME NEW s \in Snapshot, ShouldPause(s)
  PROVE  Proven(s)
<1> DEFINE seen == AtMost(s.impressions, 20000)
           won == AtMost(s.conversions, 20)
<1>1. seen \in Nat /\ seen <= s.impressions /\ won \in Nat /\ s.impressions \in Nat
  BY DEF AtMost, Snapshot
<1>2. 250 + (500 * seen) \div 20000 + (250 * won) \div 20 >= 600
  BY DEF ShouldPause, ScoreConfidence, PauseMinConfidence
<1> HIDE DEF seen
<1>3. Proven(s) <=> s.impressions + 500 * won >= 14000
  BY DEF Proven
<1> HIDE DEF won
<1>4. 20000 * ((500 * seen) \div 20000) <= 500 * seen /\ (500 * seen) \div 20000 \in Int
  BY <1>1
<1>5. 20 * ((250 * won) \div 20) <= 250 * won /\ (250 * won) \div 20 \in Int
  BY <1>1
<1>6. s.impressions + 500 * won >= 14000
  <2> DEFINE a == (500 * seen) \div 20000
             b == (250 * won) \div 20
  <2>1. a \in Int /\ b \in Int /\ 20000 * a <= 500 * seen /\ 20 * b <= 250 * won /\ 250 + a + b >= 600
    BY <1>2, <1>4, <1>5
  <2> HIDE DEF a, b
  <2>2. 40 * a <= seen /\ 2 * b <= 25 * won /\ a + b >= 350
    BY <1>1, <2>1
  <2> QED
    BY <1>1, <2>1, <2>2
<1> QED
  BY <1>3, <1>6

\* The only rule that pauses creatives is the one that has their evidence.
LEMMA PausesHaveEvidence ==
  ASSUME Handed, NEW o \in Candidates, o.type = "pause_creative"
  PROVE  \/ /\ o.creative = NoCreative /\ o.campaign \in Campaigns
            /\ Proven(world.snapshots[o.campaign])
         \/ \E k \in world.creatives[o.campaign] :
              k.id = o.creative /\ k.active /\ Proven(k.delivery)
<1>1. o \in CreativeActions
  BY MovesPlaced, BidsPlaced, RemediesPlaced, TestsPlaced
     DEF Candidates, Moves, Bids, Remedies, Tests
<1>2. \A c \in Campaigns : /\ world.snapshots[c] \in Snapshot
                           /\ \A k \in world.creatives[c] : k.delivery \in Snapshot
  BY DeliveryPossible DEF Handed, Campaigns
<1> DEFINE named == UNION {{Proposal(c, k.id, "pause_creative", 800, Unset, Unset, 1)
                            : k \in Poor(c)} : c \in Campaigns}
           whole == {Proposal(c, NoCreative, "pause_creative", 450, Unset, Unset, 1)
                     : c \in {d \in Campaigns : ShouldPause(world.snapshots[d])}}
<1>3. o \in named \/ o \in whole
  BY <1>1 DEF CreativeActions
<1>4. CASE o \in named
  <2>1. PICK c \in Campaigns :
          o \in {Proposal(c, k.id, "pause_creative", 800, Unset, Unset, 1) : k \in Poor(c)}
    BY <1>4, Zenon
  <2>2. PICK k \in Poor(c) : o = Proposal(c, k.id, "pause_creative", 800, Unset, Unset, 1)
    BY <2>1, Zenon
  <2>3. k \in world.creatives[c] /\ k.active /\ ShouldPause(k.delivery)
    BY <2>2 DEF Poor
  <2>4. k.delivery \in Snapshot
    BY <1>2, <2>3
  <2>5. Proven(k.delivery)
    BY <2>3, <2>4, PauseNeedsSample
  <2>6. o.campaign = c /\ o.creative = k.id
    BY <2>2 DEF Proposal
  <2> QED
    BY <2>3, <2>5, <2>6
<1>5. CASE o \in whole
  <2>1. PICK c \in {d \in Campaigns : ShouldPause(world.snapshots[d])} :
          o = Proposal(c, NoCreative, "pause_creative", 450, Unset, Unset, 1)
    BY <1>5, Zenon
  <2>2. o.campaign = c /\ o.creative = NoCreative
    BY <2>1 DEF Proposal
  <2>3. Proven(world.snapshots[c])
    BY <1>2, <2>1, PauseNeedsSample
  <2> QED
    BY <2>1, <2>2, <2>3
<1> QED
  BY <1>3, <1>4, <1>5

\* "Pause creatives that are proven bad, never ones that are merely new"
\* (optimize.py _creative_actions; scoring.py should_pause: "pausing is never driven by a
\* handful of impressions"), for every proposal of every iteration.
THEOREM PausesAlwaysProven == Spec => []PausesAreProven
<1>1. ASSUME VerdictIInv PROVE PausesAreProven
  <2> SUFFICES ASSUME NEW p \in proposals, p.type = "pause_creative"
               PROVE  \/ /\ p.creative = NoCreative /\ Proven(world.snapshots[p.campaign])
                      \/ \E k \in world.creatives[p.campaign] :
                           k.id = p.creative /\ k.active /\ Proven(k.delivery)
    BY DEF PausesAreProven
  <2>1. PICK o \in Deduped(Candidates) : Like(p, o)
    BY <1>1 DEF VerdictIInv, Accumulated
  <2>2. o \in Candidates /\ o.campaign = p.campaign /\ o.creative = p.creative
        /\ o.type = "pause_creative"
    BY <2>1 DEF Deduped, Like, Intent
  <2>3. Handed
    BY <1>1 DEF VerdictIInv, LoopIInv
  <2> HIDE DEF Proven
  <2> QED
    BY <2>2, <2>3, PausesHaveEvidence
<1> QED
  BY <1>1, VerdictInvariant, PTL

\* Easing never raises a bid.
LEMMA VolumeBounded ==
  ASSUME NEW s \in Snapshot
  PROVE  VolumeMultiplier(s) \in 0..10000
<1> DEFINE seen == AtMost(s.impressions, LearningImpressions)
<1>1. seen \in Nat /\ seen <= 10000
  BY DEF AtMost, LearningImpressions, Snapshot
<1>2. VolumeMultiplier(s) = 8500 + (1500 * seen) \div 10000
  BY DEF VolumeMultiplier, LearningImpressions
<1> HIDE DEF seen
<1>3. seen \in Int /\ 0 <= 1500 * seen /\ 1500 * seen <= 15000000
  BY <1>1
<1>4. \A n \in Int : 0 <= n /\ n <= 15000000 => n \div 10000 \in 0..1500
  OBVIOUS
<1>5. (1500 * seen) \div 10000 \in 0..1500
  <2> 1500 * seen \in Int
    BY <1>3
  <2> QED
    BY <1>3, <1>4
<1> QED
  BY <1>2, <1>5

\* A multiplier past the threshold takes a return well above the target.
LEMMA RaisedIsEarned ==
  ASSUME NEW s \in Snapshot, NEW target \in Int, NEW c, Raises(Decision(c, s, target))
  PROVE  target > 0 /\ Clears(s, target, 10)
<1>1. s.impressions \in Nat /\ s.cost \in Nat /\ s.revenue \in Nat
  BY DEF Snapshot
<1> DEFINE roas == RoasMultiplier(s, target)
           volume == VolumeMultiplier(s)
<1>2. volume \in 0..10000
  BY VolumeBounded
<1>3. (roas * volume) \div 10000 >= 10500
  <2>1. Raises(Decision(c, s, target)) <=> (roas * volume) \div 10000 - 10000 >= 500
    BY DEF Raises, Decision, Multiplier, BidMoveThreshold
  <2>2. (roas * volume) \div 10000 \in Int
    <3>1. roas \in Int /\ volume \in Int
      <4>1. roas \in Int
        BY DEF RoasMultiplier
      <4>2. volume \in Int
        <5> HIDE DEF volume
        <5> QED
          BY <1>2
      <4> QED
        BY <4>1, <4>2
    <3> HIDE DEF roas, volume
    <3> QED
      BY <3>1
  <2> HIDE DEF roas, volume
  <2> QED
    BY <2>1, <2>2
<1>4. roas \in {6000, 8000, 10000, 11000, 13000}
  BY DEF RoasMultiplier
<1>5. roas > 10000
  <2>1. SUFFICES ASSUME roas \in {6000, 8000, 10000} PROVE FALSE
    BY <1>4
  <2> HIDE DEF roas, volume
  <2>2. roas * volume <= 100000000
    BY <1>2, <2>1
  <2>3. roas * volume \in Int
    BY <1>2, <2>1
  <2>4. (roas * volume) \div 10000 <= 10000
    BY <2>2, <2>3
  <2> QED
    BY <1>3, <2>3, <2>4
<1>6. target > 0 /\ (Clears(s, target, 20) \/ Clears(s, target, 12))
  <2>1. \/ target > 0 /\ (Clears(s, target, 20) \/ Clears(s, target, 12))
        \/ roas \in {6000, 8000, 10000}
    BY DEF RoasMultiplier
  <2> HIDE DEF roas
  <2> QED
    BY <1>5, <2>1
<1>7. Clears(s, target, 10)
  <2>1. target * s.cost \in Nat /\ 10 * target * s.cost = 10 * (target * s.cost)
        /\ 12 * target * s.cost = 12 * (target * s.cost) /\ 20 * target * s.cost = 20 * (target * s.cost)
    BY <1>1, <1>6
  <2> DEFINE due == target * s.cost
  <2>2. due \in Nat /\ (100 * s.revenue >= 20 * due \/ 100 * s.revenue >= 12 * due)
    BY <1>6, <2>1 DEF Clears
  <2> HIDE DEF due
  <2>3. 100 * s.revenue >= 10 * due
    BY <1>1, <2>2
  <2> QED
    BY <2>1, <2>3 DEF Clears, due
<1> QED
  BY <1>6, <1>7

\* Both multipliers are whole, and so is their product.
LEMMA MultiplierWhole ==
  ASSUME NEW s \in Snapshot, NEW target
  PROVE  Multiplier(s, target) \in Int
<1>1. VolumeMultiplier(s) \in Int
  BY DEF VolumeMultiplier, AtMost, LearningImpressions, Snapshot
<1>2. RoasMultiplier(s, target) \in Int
  BY DEF RoasMultiplier
<1> QED
  BY <1>1, <1>2 DEF Multiplier

\* The hold asks for no more than the bid already did (optimize.py _hold_at_target: "two
\* conditions, and both are required").
THEOREM HoldsAlwaysBidUp == Spec => []HoldsAreBidUp
<1>1. ASSUME VerdictIInv, pc = "optimize" PROVE HoldAtTarget = BidUp
  <2>1. world \in Portfolios /\ decisions = Decided
    BY <1>1 DEF VerdictIInv, LoopIInv, Handed, Informed
  <2>2. ASSUME NEW e \in decisions, Raises(e)
        PROVE  /\ world.targets[e.campaign] > 0
               /\ Clears(world.snapshots[e.campaign], world.targets[e.campaign], 10)
    <3>1. PICK c \in Campaigns : e = Decision(c, world.snapshots[c], world.targets[c])
      BY <2>1 DEF Decided
    <3>2. world.snapshots[c] \in Snapshot /\ world.targets[c] \in Int
      BY <2>1, DeliveryPossible, BudgetsComparable DEF Campaigns
    <3>3. e.campaign = c
      BY <3>1 DEF Decision
    <3>4. Raises(Decision(c, world.snapshots[c], world.targets[c]))
      BY <2>2, <3>1
    <3> QED
      BY <3>2, <3>3, <3>4, RaisedIsEarned
  <2>3. {e \in decisions :
           /\ Raises(e)
           /\ world.targets[e.campaign] > 0
           /\ Clears(world.snapshots[e.campaign], world.targets[e.campaign], 10)}
          = {e \in decisions : Raises(e)}
    BY <2>2
  <2> QED
    BY <2>3 DEF HoldAtTarget, BidUp
<1>2. VerdictIInv => HoldsAreBidUp
  BY <1>1 DEF HoldsAreBidUp
<1> QED
  BY <1>2, VerdictInvariant, PTL

\* The amounts of a plan are whole.
LEMMA PlanIsWhole ==
  ASSUME world \in Portfolios, pc = "optimize", PlanIsOptimal, NEW c \in DOMAIN Allocations
  PROVE  Allocations[c].current \in Nat /\ Allocations[c].recommended \in Int
<1>1. Allocations[c].current \in Nat
  BY AllocationsFill, PortfolioScored
<1>2. Allocations[c].recommended \in FloorOf(Allocations[c].current)..CeilingOf(Allocations[c].current)
  BY DEF PlanIsOptimal
<1> QED
  BY <1>1, <1>2

\* "The guard exists to stop one run from saying 'bid more here' and 'spend less here'
\* about the same campaign" (optimize.py _hold_at_target): it fails to only where nothing
\* but held budgets could give, for every portfolio.
THEOREM BidUpNeverCut == Spec => []BidUpNotCut
<1>1. ASSUME VerdictIInv, HoldsReleasedLast, HoldsAreBidUp, PlanIsOptimal PROVE BidUpNotCut
  <2> SUFFICES ASSUME pc = "optimize", NEW up \in BidActions, NEW down \in BudgetActions,
                      up.campaign = down.campaign,
                      up.direction = "increase", down.direction = "decrease"
               PROVE  \A c \in DOMAIN Allocations \ HoldAtTarget :
                        Allocations[c].current = FloorOf(Allocations[c].current)
    BY DEF BidUpNotCut
  <2> DEFINE plan == Allocations
             c == up.campaign
  <2>1. c \in DOMAIN plan /\ Moved(plan[c]) /\ BudgetDirection(c) = "decrease"
    <3>1. PICK e \in {d \in DOMAIN plan : Moved(plan[d])} :
            down = Proposal(e, NoCreative, "adjust_budget", 750, Unset,
                            IF plan[e].recommended > plan[e].current
                            THEN "increase" ELSE "decrease", 2)
      BY Zenon DEF BudgetActions
    <3>2. down.campaign = e /\ down.direction = BudgetDirection(e)
      BY <3>1 DEF Proposal, BudgetDirection
    <3> QED
      BY <3>1, <3>2
  <2>2. c \in HoldAtTarget
    <3>1. PICK d \in {e \in decisions : Raises(e) \/ Lowers(e)} :
            up = Proposal(d.campaign, NoCreative, "adjust_bid", d.confidence, Unset,
                          BidDirection(d), 3)
      <4> DEFINE bid(d) == Proposal(d.campaign, NoCreative, "adjust_bid", d.confidence, Unset,
                                    BidDirection(d), 3)
      <4>1. BidActions = {bid(d) : d \in {e \in decisions : Raises(e) \/ Lowers(e)}}
        BY DEF BidActions, BidDirection
      <4> HIDE DEF bid
      <4>2. \E d \in {e \in decisions : Raises(e) \/ Lowers(e)} : up = bid(d)
        BY <4>1
      <4> QED
        BY <4>2 DEF bid
    <3>2. c = d.campaign /\ d.multiplier > 10000
      BY <3>1 DEF Proposal, BidDirection
    <3>3. d.multiplier \in Int
      <4>1. PICK b \in Campaigns : d = Decision(b, world.snapshots[b], world.targets[b])
        BY <1>1 DEF VerdictIInv, Informed, Decided
      <4>2. world.snapshots[b] \in Snapshot
        BY <1>1, DeliveryPossible DEF VerdictIInv, LoopIInv, Handed, Campaigns
      <4> QED
        BY <4>1, <4>2, MultiplierWhole DEF Decision
    <3>4. Raises(d)
      BY <3>1, <3>2, <3>3 DEF Raises, Lowers, BidMoveThreshold
    <3> QED
      BY <1>1, <3>2, <3>4 DEF HoldsAreBidUp, BidUp
  <2> DEFINE kept == {d \in DOMAIN plan : plan[d].held}
  <2>3. c \notin kept
    <3>1. SUFFICES ASSUME c \in kept PROVE FALSE
      OBVIOUS
    <3>2. plan[c].recommended >= plan[c].current
      BY <1>1, <3>1 DEF HoldsReleasedLast
    <3>3. plan[c].current \in Nat /\ plan[c].recommended \in Int
      BY <1>1, <2>1, PlanIsWhole DEF VerdictIInv, LoopIInv, Handed
    <3>4. plan[c].recommended = plan[c].current
      BY <2>1, <3>2, <3>3 DEF BudgetDirection
    <3> QED
      BY <2>1, <3>3, <3>4 DEF Moved, Larger, Smaller
  <2>4. (HoldAtTarget \cap DOMAIN plan) \ kept # {}
    BY <2>1, <2>2, <2>3
  <2> QED
    BY <1>1, <2>4 DEF HoldsReleasedLast
<1> QED
  BY <1>1, VerdictInvariant, HoldsAlwaysReleasedLast, HoldsAlwaysBidUp, PlanAlwaysOptimal, PTL
=============================================================================
