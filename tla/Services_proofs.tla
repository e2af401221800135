-------------------------- MODULE Services_proofs --------------------------
(***************************************************************************)
(* What the services beside the agents promise, for every value of their   *)
(* constants: the month's spend stays bounded and the totals of a run      *)
(* match its rows, no client passes twice the limit in a window, what      *)
(* fires is listed once, a metric holds the last word, the mirror catches  *)
(* up; and each keeps to its specification beside the others.              *)
(***************************************************************************)
EXTENDS Accounts_proofs, MCServices, SumTheorems

-----------------------------------------------------------------------------
(* The language model: the inductive invariant *)

Fragment == (0..Attempts) \X Nat
CallState == [pc : CallPhases, prompt : Prompts \cup {"none"}, attempt : 0..Attempts,
              shown : Seq(Fragment), source : {"none", "cache", "provider", "mock"},
              cost : 0..MaxCost]

\* The part of the state the totals and the rendered text depend on.
LedgerTypes ==
  /\ spent \in [Callers -> Nat] /\ tally \in [Callers -> Nat]
  /\ call \in [Callers -> CallState]
  /\ cut \subseteq Callers

\* Between the ledger's commit and the tally exactly this call's cost is missing.
Owed(k) == IF k.pc = "tally" THEN k.cost ELSE 0
TallyLags == \A c \in Callers \ cut : spent[c] = tally[c] + Owed(call[c])

\* Where a call stands decides which attempt it is at and where its text is from.
Unanswered == {"idle", "budget", "cache", "queued", "calling", "waiting", "mock"}
Answered == {"store", "record", "tally"}
Advanced(k) ==
  /\ k.pc \in {"idle", "budget", "cache", "queued"} => k.attempt = 0
  /\ k.pc \in {"calling", "waiting", "mock"} \cup Answered => k.attempt >= 1
  /\ k.pc = "waiting" => k.attempt < Attempts
  /\ k.pc \in Unanswered => k.source = "none"
  /\ k.pc \in Answered => k.source \in {"provider", "mock"}

\* Only the first attempt ever streams, each fragment once and in order; a
\* provider that streamed has streamed to the end when it answers.
Streamed(k) ==
  \/ k.source = "cache" /\ k.pc = "returned" /\ k.shown = <<Whole>>
  \/ /\ k.source # "cache"
     /\ \A i \in DOMAIN k.shown : k.shown[i] = <<1, i>>
     /\ k.attempt = 0 => k.shown = <<>>
     /\ k.source = "provider" /\ k.attempt = 1 => Len(k.shown) = Fragments
     /\ k.pc = "returned" => k.source # "none" /\ k.attempt >= 1

CallsSound == \A c \in Callers : Advanced(call[c]) /\ Streamed(call[c])

GatewayIInv == LedgerTypes /\ TallyLags /\ CallsSound

-----------------------------------------------------------------------------
(* The language model: the invariant is inductive *)

\* A caller without a call has shown nothing and owes nothing.
LEMMA NoCallSound ==
  NoCall \in CallState /\ Advanced(NoCall) /\ Streamed(NoCall) /\ Owed(NoCall) = 0
  BY GatewayBounds DEF NoCall, CallState, CallPhases, Fragment, Advanced, Streamed, Owed,
     Unanswered, Answered

\* Nothing is spent and nobody calls when the gateways come up.
LEMMA GatewayInitIInv == GatewayInit => GatewayIInv
  BY NoCallSound DEF GatewayInit, GatewayIInv, LedgerTypes, TallyLags, CallsSound

\* Before the second attempt every fragment shown is the current attempt's.
LEMMA ShownIsLength ==
  ASSUME GatewayIInv, NEW c \in Callers, call[c].pc = "calling", call[c].attempt = 1
  PROVE  Shown(c) = Len(call[c].shown)
<1>1. call[c].shown \in Seq(Fragment) /\ Streamed(call[c]) /\ call[c].source # "cache"
  BY DEF GatewayIInv, LedgerTypes, CallsSound, CallState, Advanced, Unanswered
<1>2. \A i \in DOMAIN call[c].shown : call[c].shown[i] = <<1, i>>
  BY <1>1 DEF Streamed
<1>3. {i \in DOMAIN call[c].shown : call[c].shown[i][1] = call[c].attempt}
        = 1..Len(call[c].shown)
  BY <1>1, <1>2
<1> DEFINE n == Len(call[c].shown)
<1>4. n \in Nat
  BY <1>1
<1>5. Cardinality(1..n) = IF 1 > n THEN 0 ELSE n - 1 + 1
  <2> HIDE DEF n
  <2> SUFFICES ASSUME NEW a \in Int, NEW b \in Int, a = 1, b = n
               PROVE  Cardinality(a..b) = IF a > b THEN 0 ELSE b - a + 1
    BY <1>4
  <2> QED
    BY FS_Interval
<1>6. Cardinality(1..n) = n
  <2> HIDE DEF n
  <2> QED
    BY <1>4, <1>5
<1> QED
  BY <1>3, <1>6 DEF Shown

\* A call moves on by itself: what has to be shown of a step is about the caller
\* that takes it, its rows and its total.
LEMMA OneCallMoves ==
  ASSUME GatewayIInv, NEW c \in Callers, NEW k \in CallState, Goes(c, k),
         Advanced(k), Streamed(k),
         NEW s \in Nat, NEW n \in Nat,
         spent' = [spent EXCEPT ![c] = s], tally' = [tally EXCEPT ![c] = n],
         cut \subseteq cut', cut' \subseteq Callers,
         c \notin cut' => s = n + Owed(k)
  PROVE  GatewayIInv'
<1>1. call' = [call EXCEPT ![c] = k] /\ call' \in [Callers -> CallState]
  BY DEF GatewayIInv, LedgerTypes, Goes
<1>2. LedgerTypes'
  BY <1>1 DEF GatewayIInv, LedgerTypes
<1>3. TallyLags'
  <2> SUFFICES ASSUME NEW d \in Callers \ cut' PROVE spent'[d] = tally'[d] + Owed(call'[d])
    BY DEF TallyLags, Owed
  <2>1. CASE d = c
    BY <1>1, <2>1 DEF GatewayIInv, LedgerTypes
  <2>2. CASE d # c
    BY <1>1, <2>2 DEF GatewayIInv, LedgerTypes, TallyLags
  <2> QED
    BY <2>1, <2>2
<1>4. CallsSound'
  <2> SUFFICES ASSUME NEW d \in Callers PROVE Advanced(call'[d]) /\ Streamed(call'[d])
    BY DEF CallsSound, Advanced, Streamed
  <2> QED
    BY <1>1 DEF GatewayIInv, LedgerTypes, CallsSound
<1> QED
  BY <1>2, <1>3, <1>4 DEF GatewayIInv

\* A step that neither records nor tallies leaves the books as they are.
LEMMA QuietCallMoves ==
  ASSUME GatewayIInv, NEW c \in Callers, NEW k \in CallState, Goes(c, k),
         Advanced(k), Streamed(k), UNCHANGED <<spent, tally>>,
         \/ cut' = cut /\ Owed(k) = Owed(call[c])
         \/ cut' = cut \cup {c}
  PROVE  GatewayIInv'
<1> DEFINE s == spent[c]
           n == tally[c]
<1>1. spent' = [spent EXCEPT ![c] = s] /\ s \in Nat
  BY DEF GatewayIInv, LedgerTypes
<1>2. tally' = [tally EXCEPT ![c] = n] /\ n \in Nat
  BY DEF GatewayIInv, LedgerTypes
<1>3. cut \subseteq cut' /\ cut' \subseteq Callers
  BY DEF GatewayIInv, LedgerTypes
<1>4. c \notin cut' => s = n + Owed(k)
  BY DEF GatewayIInv, TallyLags
<1> HIDE DEF s, n
<1> QED
  BY <1>1, <1>2, <1>3, <1>4, OneCallMoves

\* Every step keeps the invariant.
LEMMA GatewayStep == GatewayIInv /\ [GatewayNext]_gatewayVars => GatewayIInv'
<1> SUFFICES ASSUME GatewayIInv, [GatewayNext]_gatewayVars PROVE GatewayIInv'
  OBVIOUS
<1>0. \A c \in Callers :
        /\ call[c] \in CallState /\ Advanced(call[c]) /\ Streamed(call[c])
        /\ call[c].pc # "tally" => Owed(call[c]) = 0
        /\ spent[c] \in Nat /\ tally[c] \in Nat
  BY DEF GatewayIInv, LedgerTypes, CallsSound, Owed
<1> USE GatewayBounds DEF At
<1>1. ASSUME NEW c \in Callers, NEW p \in Prompts, StartCall(c, p) PROVE GatewayIInv'
  <2> DEFINE k == [NoCall EXCEPT !.pc = "budget", !.prompt = p]
  <2>1. k \in CallState /\ Advanced(k) /\ Streamed(k) /\ Owed(k) = 0
    BY NoCallSound DEF NoCall, CallState, CallPhases, Advanced, Streamed, Owed, Unanswered,
       Answered, Fragment
  <2>2. Goes(c, k) /\ UNCHANGED <<spent, tally, cut>> /\ call[c].pc = "idle"
    BY <1>1 DEF StartCall
  <2> QED
    BY <1>0, <2>1, <2>2, QuietCallMoves
<1>2. ASSUME NEW c \in Callers, EnforceBudget(c) PROVE GatewayIInv'
  <2> DEFINE k == [call[c] EXCEPT !.pc = "cache"]
  <2>1. call[c].pc = "budget" /\ UNCHANGED <<spent, tally, cut>> /\ (Goes(c, k) \/ Goes(c, NoCall))
    BY <1>2 DEF EnforceBudget
  <2>2. k \in CallState
    BY <1>0 DEF CallState, CallPhases
  <2>3. Advanced(k) /\ Streamed(k) /\ Owed(k) = 0
    BY <1>0, <2>1 DEF CallState, Advanced, Streamed, Owed, Unanswered, Answered
  <2> QED
    BY <1>0, <2>1, <2>2, <2>3, NoCallSound, QuietCallMoves
<1>3. ASSUME NEW c \in Callers, ReadCache(c) PROVE GatewayIInv'
  <2> DEFINE hit == [call[c] EXCEPT !.pc = "returned", !.source = "cache", !.shown = <<Whole>>]
             miss == [call[c] EXCEPT !.pc = "queued"]
  <2>1. call[c].pc = "cache" /\ UNCHANGED <<spent, tally, cut>> /\ (Goes(c, hit) \/ Goes(c, miss))
    BY <1>3 DEF ReadCache
  <2>3. <<Whole>> \in Seq(Fragment)
    BY DEF Whole, Fragment
  <2>2. miss \in CallState /\ hit \in CallState
    BY <1>0, <2>3 DEF CallState, CallPhases
  <2>4. Advanced(miss) /\ Streamed(miss) /\ Owed(miss) = 0
    BY <1>0, <2>1 DEF CallState, Advanced, Streamed, Owed, Unanswered, Answered
  <2>5. Advanced(hit) /\ Streamed(hit) /\ Owed(hit) = 0
    BY <1>0, <2>1, <2>3 DEF CallState, Advanced, Streamed, Owed, Unanswered, Answered
  <2> QED
    BY <1>0, <2>1, <2>2, <2>4, <2>5, QuietCallMoves
<1>4. ASSUME NEW c \in Callers, Acquire(c) PROVE GatewayIInv'
  <2> DEFINE k == [call[c] EXCEPT !.pc = "calling", !.attempt = 1]
  <2>1. call[c].pc = "queued" /\ UNCHANGED <<spent, tally, cut>> /\ Goes(c, k)
    BY <1>4 DEF Acquire
  <2>0. 1 \in 0..Attempts
    BY GatewayBounds
  <2>2. k \in CallState
    BY <1>0, <2>0, <2>1 DEF CallState, CallPhases
  <2>3. Advanced(k) /\ Owed(k) = 0
    BY <1>0, <2>1 DEF CallState, Advanced, Owed, Unanswered, Answered
  <2>4. Streamed(k)
    BY <1>0, <2>1 DEF CallState, Streamed, Advanced, Unanswered
  <2> QED
    BY <1>0, <2>1, <2>2, <2>3, <2>4, QuietCallMoves
<1>5. ASSUME NEW c \in Callers, StreamFragment(c) PROVE GatewayIInv'
  <2>1. /\ call[c].pc = "calling" /\ call[c].attempt = 1 /\ call[c].source = "none"
        /\ UNCHANGED <<spent, tally, cut>>
    BY <1>0, <1>5 DEF StreamFragment, Forwards, Advanced, Unanswered
  <2>2. Shown(c) = Len(call[c].shown) /\ Len(call[c].shown) \in Nat
        /\ call[c].shown \in Seq(Fragment)
    BY <1>0, <2>1, ShownIsLength DEF CallState
  <2> DEFINE n == Len(call[c].shown) + 1
             shown == Append(call[c].shown, <<1, n>>)
             k == [call[c] EXCEPT !.shown = shown]
  <2>3. Goes(c, k)
    BY <1>5, <2>1, <2>2 DEF StreamFragment
  <2>4. <<1, n>> \in Fragment
    BY <2>2 DEF Fragment
  <2>5. shown \in Seq(Fragment) /\ \A i \in DOMAIN shown : shown[i] = <<1, i>>
    <3>1. \A i \in DOMAIN call[c].shown : call[c].shown[i] = <<1, i>>
      BY <1>0, <2>1 DEF Streamed
    <3> QED
      BY <2>2, <2>4, <3>1
  <2> HIDE DEF shown
  <2>0. call[c] \in CallState
    BY <1>0
  <2>6. k \in CallState
    BY <2>0, <2>5 DEF CallState
  <2>7. Advanced(k) /\ Owed(k) = 0
    BY <1>0, <2>1 DEF CallState, Advanced, Owed, Unanswered, Answered
  <2>8. Streamed(k)
    BY <1>0, <2>1, <2>5 DEF CallState, Streamed
  <2> QED
    BY <1>0, <2>1, <2>3, <2>6, <2>7, <2>8, QuietCallMoves
<1>6. ASSUME NEW c \in Callers, NEW cost \in 0..MaxCost, AttemptSucceeds(c, cost)
      PROVE GatewayIInv'
  <2> DEFINE k == [call[c] EXCEPT !.pc = "store", !.source = "provider", !.cost = cost]
  <2>1. call[c].pc = "calling" /\ UNCHANGED <<spent, tally, cut>> /\ Goes(c, k)
    BY <1>6 DEF AttemptSucceeds
  <2>2. call[c].attempt = 1 => Len(call[c].shown) = Fragments
    BY <1>6, <2>1, ShownIsLength DEF AttemptSucceeds, Forwards
  <2>3. k \in CallState
    BY <1>0 DEF CallState, CallPhases
  <2>4. Advanced(k) /\ Owed(k) = 0
    BY <1>0, <2>1 DEF CallState, Advanced, Owed, Unanswered, Answered
  <2>5. Streamed(k)
    BY <1>0, <2>1, <2>2 DEF CallState, Streamed, Advanced, Unanswered
  <2> QED
    BY <1>0, <2>1, <2>3, <2>4, <2>5, QuietCallMoves
<1>7. ASSUME NEW c \in Callers, AttemptFails(c) PROVE GatewayIInv'
  <2> DEFINE again == [call[c] EXCEPT !.pc = "waiting"]
             degraded == [call[c] EXCEPT !.pc = "mock"]
  <2>1. /\ call[c].pc = "calling" /\ UNCHANGED <<spent, tally, cut>>
        /\ \/ call[c].attempt < Attempts /\ Goes(c, again)
           \/ Goes(c, degraded) \/ Goes(c, NoCall)
    <3>1. call[c].attempt \in Nat
      BY <1>0 DEF CallState
    <3> QED
      BY <1>7, <3>1 DEF AttemptFails
  <2>2. again \in CallState /\ degraded \in CallState
    BY <1>0 DEF CallState, CallPhases
  <2>3. call[c].attempt < Attempts => Advanced(again)
    BY <1>0, <2>1 DEF CallState, Advanced, Unanswered, Answered
  <2>4. Streamed(again) /\ Owed(again) = 0
    BY <1>0, <2>1 DEF CallState, Streamed, Owed
  <2>5. Advanced(degraded)
    BY <1>0, <2>1 DEF CallState, Advanced, Unanswered, Answered
  <2>6. Streamed(degraded) /\ Owed(degraded) = 0
    BY <1>0, <2>1 DEF CallState, Streamed, Owed
  <2> QED
    BY <1>0, <2>1, <2>2, <2>3, <2>4, <2>5, <2>6, NoCallSound, QuietCallMoves
<1>8. ASSUME NEW c \in Callers, Retry(c) PROVE GatewayIInv'
  <2> DEFINE k == [call[c] EXCEPT !.pc = "calling", !.attempt = @ + 1]
  <2>1. call[c].pc = "waiting" /\ UNCHANGED <<spent, tally, cut>> /\ Goes(c, k)
    BY <1>8 DEF Retry
  <2>2. call[c].attempt + 1 \in 0..Attempts /\ call[c].attempt + 1 # 1 /\ call[c].attempt + 1 # 0
    BY <1>0, <2>1 DEF CallState, Advanced
  <2>3. k \in CallState
    BY <1>0, <2>1, <2>2 DEF CallState, CallPhases
  <2>4. Advanced(k) /\ Owed(k) = 0
    BY <1>0, <2>1, <2>2 DEF CallState, Advanced, Owed, Unanswered, Answered
  <2>5. Streamed(k)
    BY <1>0, <2>1, <2>2 DEF CallState, Streamed, Advanced, Unanswered
  <2> QED
    BY <1>0, <2>1, <2>3, <2>4, <2>5, QuietCallMoves
<1>9. ASSUME NEW c \in Callers, Degrade(c) PROVE GatewayIInv'
  <2> DEFINE k == [call[c] EXCEPT !.pc = "store", !.source = "mock", !.cost = 0]
  <2>1. call[c].pc = "mock" /\ UNCHANGED <<spent, tally, cut>> /\ Goes(c, k)
    BY <1>9 DEF Degrade
  <2>0. 0 \in 0..MaxCost /\ "mock" \in {"none", "cache", "provider", "mock"}
    BY GatewayBounds
  <2>2. k \in CallState
    BY <1>0, <2>0, <2>1 DEF CallState, CallPhases
  <2>3. Advanced(k) /\ Owed(k) = 0
    BY <1>0, <2>1 DEF CallState, Advanced, Owed, Unanswered, Answered
  <2>4. Streamed(k)
    BY <1>0, <2>1 DEF CallState, Streamed, Advanced, Unanswered
  <2> QED
    BY <1>0, <2>1, <2>2, <2>3, <2>4, QuietCallMoves
<1>10. ASSUME NEW c \in Callers, WriteCache(c) PROVE GatewayIInv'
  <2> DEFINE k == [call[c] EXCEPT !.pc = "record"]
  <2>1. call[c].pc = "store" /\ UNCHANGED <<spent, tally, cut>> /\ Goes(c, k)
    BY <1>10 DEF WriteCache
  <2>2. k \in CallState /\ Advanced(k) /\ Streamed(k) /\ Owed(k) = 0
    BY <1>0, <2>1 DEF CallState, CallPhases, Advanced, Streamed, Owed, Unanswered, Answered
  <2> QED
    BY <1>0, <2>1, <2>2, QuietCallMoves
<1>11. ASSUME NEW c \in Callers, Record(c) PROVE GatewayIInv'
  <2> DEFINE k == [call[c] EXCEPT !.pc = "tally"]
             s == spent[c] + call[c].cost
  <2>1. /\ call[c].pc = "record" /\ Goes(c, k)
        /\ spent' = [spent EXCEPT ![c] = s]
        /\ tally' = [tally EXCEPT ![c] = tally[c]] /\ cut' = cut
    BY <1>11 DEF Record, GatewayIInv, LedgerTypes
  <2>0. k \in CallState /\ Advanced(k) /\ Streamed(k)
    <3>1. k \in CallState
      BY <1>0, <2>1 DEF CallState, CallPhases
    <3>2. Advanced(k)
      BY <1>0, <2>1 DEF CallState, Advanced, Unanswered, Answered
    <3>3. Streamed(k)
      BY <1>0, <2>1 DEF CallState, Streamed, Advanced, Answered
    <3> QED
      BY <3>1, <3>2, <3>3
  <2>2. Owed(k) = call[c].cost /\ s \in Nat
    BY <1>0, <2>1, <2>0 DEF CallState, Owed
  <2>3. c \notin cut => spent[c] = tally[c]
    BY <1>0, <2>1 DEF GatewayIInv, TallyLags
  <2>4. c \notin cut => s = tally[c] + Owed(k)
    BY <2>2, <2>3
  <2>5. cut \subseteq cut' /\ cut' \subseteq Callers
    BY <2>1 DEF GatewayIInv, LedgerTypes
  <2> HIDE DEF k, s
  <2> QED
    BY <1>0, <2>0, <2>1, <2>2, <2>4, <2>5, OneCallMoves
<1>12. ASSUME NEW c \in Callers, RecordFails(c) PROVE GatewayIInv'
  BY <1>0, <1>12, NoCallSound, QuietCallMoves DEF RecordFails
<1>13. ASSUME NEW c \in Callers, TallyUsage(c) PROVE GatewayIInv'
  <2> DEFINE k == [call[c] EXCEPT !.pc = "returned"]
             n == tally[c] + call[c].cost
  <2>1. /\ call[c].pc = "tally" /\ Goes(c, k)
        /\ spent' = [spent EXCEPT ![c] = spent[c]]
        /\ tally' = [tally EXCEPT ![c] = n] /\ cut' = cut
    BY <1>13 DEF TallyUsage, GatewayIInv, LedgerTypes
  <2>0. k \in CallState /\ Advanced(k) /\ Streamed(k)
    <3>1. k \in CallState
      BY <1>0, <2>1 DEF CallState, CallPhases
    <3>2. Advanced(k)
      BY <1>0, <2>1 DEF CallState, Advanced, Unanswered, Answered
    <3>3. Streamed(k)
      BY <1>0, <2>1 DEF CallState, Streamed, Advanced, Answered
    <3> QED
      BY <3>1, <3>2, <3>3
  <2>2. Owed(k) = 0 /\ n \in Nat
    BY <1>0, <2>1, <2>0 DEF CallState, Owed
  <2>3. c \notin cut => spent[c] = n + Owed(k)
    BY <1>0, <2>1, <2>2 DEF GatewayIInv, TallyLags, Owed
  <2>4. cut \subseteq cut' /\ cut' \subseteq Callers
    BY <2>1 DEF GatewayIInv, LedgerTypes
  <2> HIDE DEF k, n
  <2> QED
    BY <1>0, <2>0, <2>1, <2>2, <2>3, <2>4, OneCallMoves
<1>14. ASSUME NEW c \in Callers, Consume(c) PROVE GatewayIInv'
  BY <1>0, <1>14, NoCallSound, QuietCallMoves DEF Consume
<1>15. ASSUME NEW c \in Callers, Interrupt(c) PROVE GatewayIInv'
  BY <1>0, <1>15, NoCallSound, QuietCallMoves DEF Interrupt
<1>16. ASSUME NEW g \in Gateways, NEW p \in Prompts, Forget(g, p) PROVE GatewayIInv'
  BY <1>16 DEF Forget, GatewayIInv, LedgerTypes, TallyLags, CallsSound, Owed, Advanced, Streamed
<1>17. CASE UNCHANGED gatewayVars
  BY <1>17 DEF gatewayVars, GatewayIInv, LedgerTypes, TallyLags, CallsSound, Owed, Advanced, Streamed
<1> QED
  BY <1>1, <1>2, <1>3, <1>4, <1>5, <1>6, <1>7, <1>8, <1>9, <1>10, <1>11, <1>12, <1>13,
     <1>14, <1>15, <1>16, <1>17 DEF GatewayNext

\* In every reachable state the strengthened invariant holds.
LEMMA GatewayInvariant == GatewaySpec => []GatewayIInv
  BY GatewayInitIInv, GatewayStep, PTL DEF GatewaySpec

-----------------------------------------------------------------------------
(* The language model: results *)

\* "These numbers always agree with the llm_spend rows of the run"
\* (gateway.py:107-111), whenever no call of the run is in flight and none was
\* interrupted between the ledger's commit and the tally.
THEOREM TotalsAlwaysMatch == GatewaySpec => []TotalsMatchLedger
<1>1. GatewayIInv => TotalsMatchLedger
  <2> SUFFICES ASSUME GatewayIInv, NEW c \in Callers,
                      call[c].pc \in {"idle", "returned"}, c \notin cut
               PROVE  tally[c] = spent[c]
    BY DEF TotalsMatchLedger
  <2> QED
    BY DEF GatewayIInv, LedgerTypes, TallyLags, Owed
<1> QED
  BY <1>1, GatewayInvariant, PTL

\* However many attempts a completion takes, its consumer renders no fragment twice
\* or out of order, and all of an answer it has followed (gateway.py:143-149, 247-255).
THEOREM FragmentsRenderedOnce == GatewaySpec => []RenderedOnce
<1>1. ASSUME GatewayIInv, NEW c \in Callers
      PROVE  LET shown == call[c].shown
             IN  /\ \A i \in DOMAIN shown : shown[i][1] = shown[1][1]
                 /\ \A i, j \in DOMAIN shown : i < j => shown[i][2] < shown[j][2]
                 /\ call[c].pc = "returned" /\ (call[c].source = "cache" \/ call[c].attempt = 1)
                      /\ call[c].source # "mock"
                      => shown[Len(shown)][2] = Fragments
  <2>1. call[c] \in CallState /\ call[c].shown \in Seq(Fragment)
    BY <1>1 DEF GatewayIInv, LedgerTypes, CallState
  <2>2. CASE call[c].source = "cache"
    BY <1>1, <2>1, <2>2 DEF GatewayIInv, CallsSound, Streamed, Whole
  <2>3. CASE call[c].source # "cache"
    <3>1. \A i \in DOMAIN call[c].shown : call[c].shown[i] = <<1, i>> /\ i >= 1 /\ 1 \in DOMAIN call[c].shown
      BY <1>1, <2>1, <2>3 DEF GatewayIInv, CallsSound, Streamed
    <3>2. call[c].pc = "returned" /\ call[c].attempt = 1 /\ call[c].source # "mock"
            => Len(call[c].shown) = Fragments
      BY <1>1, <2>1, <2>3 DEF GatewayIInv, CallsSound, Streamed, CallState
    <3>3. Len(call[c].shown) = Fragments => call[c].shown[Len(call[c].shown)][2] = Fragments
      BY <2>1, <3>1, GatewayBounds
    <3> QED
      BY <2>1, <2>3, <3>1, <3>2, <3>3
  <2> QED
    BY <2>2, <2>3
<1>2. GatewayIInv => RenderedOnce
  BY <1>1 DEF RenderedOnce
<1> QED
  BY <1>2, GatewayInvariant, PTL

-----------------------------------------------------------------------------
(* The language model: the shape of its state *)

\* The rest of the gateway's state: who has begun a call and what the cache can answer.
GatewayTypes ==
  /\ earlier \in Nat /\ latched \subseteq Gateways
  /\ cache \in [Gateways -> SUBSET Prompts] /\ made \in [Callers -> 0..MaxCalls]

\* A consumer has been shown no more than a whole text, and a call is about a prompt.
CallFits(k) == Len(k.shown) <= Fragments /\ (k.pc # "idle" => k.prompt \in Prompts)
CallsFit == \A c \in Callers : CallFits(call[c])

LEMMA NoCallFits == CallFits(NoCall) /\ NoCall.pc = "idle"
  BY GatewayBounds DEF NoCall, CallFits

\* A call that goes on with the text and the prompt it has still fits.
LEMMA CallsStillFit ==
  ASSUME GatewayIInv, CallsFit, NEW c \in Callers, NEW k, Goes(c, k), CallFits(k)
  PROVE  CallsFit'
<1> SUFFICES ASSUME NEW d \in Callers PROVE CallFits(call'[d])
  BY DEF CallsFit, CallFits
<1>1. call'[d] = IF d = c THEN k ELSE call[d]
  BY DEF Goes, GatewayIInv, LedgerTypes
<1> QED
  BY <1>1 DEF CallsFit

LEMMA GatewayTypesStep ==
  GatewayIInv /\ GatewayTypes /\ CallsFit /\ [GatewayNext]_gatewayVars
    => GatewayTypes' /\ CallsFit'
<1> SUFFICES ASSUME GatewayIInv, GatewayTypes, CallsFit, [GatewayNext]_gatewayVars
             PROVE  GatewayTypes' /\ CallsFit'
  OBVIOUS
<1>0. \A c \in Callers : call[c] \in CallState /\ CallFits(call[c]) /\ Home[c] \in Gateways
  BY GatewayBounds DEF GatewayIInv, LedgerTypes, CallsFit
<1>1. ASSUME NEW c \in Callers, NEW p \in Prompts, StartCall(c, p)
      PROVE  GatewayTypes' /\ CallsFit'
  <2> DEFINE k == [NoCall EXCEPT !.pc = "budget", !.prompt = p]
  <2>1. made[c] + 1 \in 0..MaxCalls
    BY <1>1, GatewayBounds DEF StartCall, GatewayTypes
  <2>2. GatewayTypes'
    BY <1>1, <2>1 DEF StartCall, GatewayTypes
  <2>3. CallFits(k)
    BY GatewayBounds DEF NoCall, CallFits
  <2> QED
    BY <1>1, <2>2, <2>3, CallsStillFit DEF StartCall
<1>2. ASSUME NEW c \in Callers, EnforceBudget(c) PROVE GatewayTypes' /\ CallsFit'
  <2> DEFINE k == [call[c] EXCEPT !.pc = "cache"]
  <2>1. GatewayTypes'
    BY <1>0, <1>2 DEF EnforceBudget, GatewayTypes
  <2>2. CallFits(k)
    BY <1>0, <1>2 DEF EnforceBudget, CallState, CallFits, At
  <2>3. Goes(c, k) \/ Goes(c, NoCall)
    BY <1>2 DEF EnforceBudget
  <2> QED
    BY <2>1, <2>2, <2>3, NoCallFits, CallsStillFit
<1>3. ASSUME NEW c \in Callers, ReadCache(c) PROVE GatewayTypes' /\ CallsFit'
  <2> DEFINE hit == [call[c] EXCEPT !.pc = "returned", !.source = "cache", !.shown = <<Whole>>]
             miss == [call[c] EXCEPT !.pc = "queued"]
  <2>1. Goes(c, hit) \/ Goes(c, miss)
    BY <1>3 DEF ReadCache
  <2>2. CallFits(hit)
    BY <1>0, <1>3, GatewayBounds DEF ReadCache, CallState, CallFits, At
  <2>3. CallFits(miss)
    BY <1>0, <1>3 DEF ReadCache, CallState, CallFits, At
  <2>4. GatewayTypes'
    BY <1>3 DEF ReadCache, GatewayTypes
  <2> QED
    BY <2>1, <2>2, <2>3, <2>4, CallsStillFit
<1>4. ASSUME NEW c \in Callers, StreamFragment(c) PROVE GatewayTypes' /\ CallsFit'
  <2> DEFINE k == [call[c] EXCEPT !.shown = Append(@, <<call[c].attempt, Shown(c) + 1>>)]
  <2>1. /\ call[c].pc = "calling" /\ call[c].attempt = 1 /\ Shown(c) < Fragments
        /\ Goes(c, k) /\ UNCHANGED <<earlier, latched, cache, made>>
    BY <1>4 DEF StreamFragment, Forwards, At
  <2>2. Shown(c) = Len(call[c].shown) /\ call[c].shown \in Seq(Fragment)
    BY <1>0, <2>1, ShownIsLength DEF CallState
  <2>3. Len(k.shown) = Len(call[c].shown) + 1 /\ k.pc = call[c].pc /\ k.prompt = call[c].prompt
    BY <1>0, <2>2 DEF CallState
  <2>4. CallFits(k)
    <3>1. Len(call[c].shown) \in Nat /\ Len(call[c].shown) < Fragments
      BY <2>1, <2>2
    <3> QED
      BY <1>0, <2>3, <3>1, GatewayBounds DEF CallFits
  <2>5. GatewayTypes'
    BY <2>1 DEF GatewayTypes
  <2> HIDE DEF k
  <2> QED
    BY <2>1, <2>4, <2>5, CallsStillFit
<1>5. ASSUME NEW c \in Callers, NEW cost \in 0..MaxCost, AttemptSucceeds(c, cost)
      PROVE  GatewayTypes' /\ CallsFit'
  <2> DEFINE k == [call[c] EXCEPT !.pc = "store", !.source = "provider", !.cost = cost]
  <2>1. CallFits(k)
    BY <1>0, <1>5 DEF AttemptSucceeds, CallState, CallFits, At
  <2>2. Goes(c, k) /\ GatewayTypes'
    BY <1>5 DEF AttemptSucceeds, GatewayTypes
  <2> QED
    BY <2>1, <2>2, CallsStillFit
<1>6. ASSUME NEW c \in Callers, AttemptFails(c) PROVE GatewayTypes' /\ CallsFit'
  <2> DEFINE again == [call[c] EXCEPT !.pc = "waiting"]
             degraded == [call[c] EXCEPT !.pc = "mock"]
  <2>1. call[c].pc = "calling" /\ (Goes(c, again) \/ Goes(c, degraded) \/ Goes(c, NoCall))
    <3>1. call[c].attempt \in Nat /\ Attempts \in Nat
      BY <1>0, GatewayBounds DEF CallState
    <3> QED
      BY <1>6, <3>1 DEF AttemptFails, At
  <2>2. CallFits(again) /\ CallFits(degraded)
    BY <1>0, <2>1 DEF CallState, CallFits
  <2>3. GatewayTypes'
    BY <1>6 DEF AttemptFails, GatewayTypes
  <2> QED
    BY <2>1, <2>2, <2>3, NoCallFits, CallsStillFit
<1>7. ASSUME NEW c \in Callers, Acquire(c) \/ Retry(c) PROVE GatewayTypes' /\ CallsFit'
  <2> DEFINE k(n) == [call[c] EXCEPT !.pc = "calling", !.attempt = n]
  <2>1. call[c].pc # "idle" /\ \E n \in {1, call[c].attempt + 1} : Goes(c, k(n))
    BY <1>7 DEF Acquire, Retry, At
  <2>2. \A n : CallFits(k(n))
    BY <1>0, <2>1 DEF CallState, CallFits
  <2>3. GatewayTypes'
    BY <1>7 DEF Acquire, Retry, GatewayTypes
  <2> HIDE DEF k
  <2> QED
    BY <2>1, <2>2, <2>3, CallsStillFit
<1>8. ASSUME NEW c \in Callers, Degrade(c) PROVE GatewayTypes' /\ CallsFit'
  <2> DEFINE k == [call[c] EXCEPT !.pc = "store", !.source = "mock", !.cost = 0]
  <2>1. CallFits(k)
    BY <1>0, <1>8 DEF Degrade, CallState, CallFits, At
  <2>2. Goes(c, k) /\ GatewayTypes'
    BY <1>8 DEF Degrade, GatewayTypes
  <2> QED
    BY <2>1, <2>2, CallsStillFit
<1>9. ASSUME NEW c \in Callers, WriteCache(c) PROVE GatewayTypes' /\ CallsFit'
  <2> DEFINE k == [call[c] EXCEPT !.pc = "record"]
  <2>1. call[c].pc = "store" /\ Goes(c, k)
    BY <1>9 DEF WriteCache, At
  <2>2. call[c].prompt \in Prompts /\ CallFits(k)
    BY <1>0, <2>1 DEF CallState, CallFits
  <2>3. GatewayTypes'
    BY <1>0, <1>9, <2>2 DEF WriteCache, GatewayTypes
  <2> QED
    BY <2>1, <2>2, <2>3, CallsStillFit
<1>10. ASSUME NEW c \in Callers, Record(c) PROVE GatewayTypes' /\ CallsFit'
  <2> DEFINE k == [call[c] EXCEPT !.pc = "tally"]
  <2>1. CallFits(k)
    BY <1>0, <1>10 DEF Record, CallState, CallFits, At
  <2>2. Goes(c, k) /\ GatewayTypes'
    BY <1>10 DEF Record, GatewayTypes
  <2> QED
    BY <2>1, <2>2, CallsStillFit
<1>11. ASSUME NEW c \in Callers, TallyUsage(c) PROVE GatewayTypes' /\ CallsFit'
  <2> DEFINE k == [call[c] EXCEPT !.pc = "returned"]
  <2>1. CallFits(k)
    BY <1>0, <1>11 DEF TallyUsage, CallState, CallFits, At
  <2>2. Goes(c, k) /\ GatewayTypes'
    BY <1>11 DEF TallyUsage, GatewayTypes
  <2> QED
    BY <2>1, <2>2, CallsStillFit
<1>12. ASSUME NEW c \in Callers, RecordFails(c) \/ Consume(c) \/ Interrupt(c)
       PROVE  GatewayTypes' /\ CallsFit'
  <2>1. Goes(c, NoCall) /\ GatewayTypes'
    BY <1>12 DEF RecordFails, Consume, Interrupt, GatewayTypes
  <2> QED
    BY <2>1, NoCallFits, CallsStillFit
<1>13. ASSUME NEW g \in Gateways, NEW p \in Prompts, Forget(g, p)
       PROVE  GatewayTypes' /\ CallsFit'
  BY <1>13 DEF Forget, GatewayTypes, CallsFit, CallFits
<1>14. CASE UNCHANGED gatewayVars
  BY <1>14 DEF gatewayVars, GatewayTypes, CallsFit, CallFits
<1> QED
  BY <1>1, <1>2, <1>3, <1>4, <1>5, <1>6, <1>7, <1>8, <1>9, <1>10, <1>11, <1>12, <1>13,
     <1>14 DEF GatewayNext

\* Type correctness of the gateway: no consumer is shown more than a whole text, no
\* caller starts more calls than it may, and only prompts are cached.
THEOREM GatewayWellTyped == GatewaySpec => []GatewayTypeOK
<1>1. GatewayInit => GatewayTypes /\ CallsFit
  BY NoCallFits, GatewayBounds DEF GatewayInit, GatewayTypes, CallsFit
<1>2. GatewayIInv /\ GatewayTypes /\ CallsFit => GatewayTypeOK
  BY DEF GatewayIInv, LedgerTypes, CallState, GatewayTypes, CallsFit, CallFits, GatewayTypeOK
<1> QED
  BY <1>1, <1>2, GatewayTypesStep, GatewayInvariant, PTL DEF GatewaySpec

-----------------------------------------------------------------------------
(* The language model: its budget *)

\* The callers that passed the budget check and have yet to record their row: each
\* may still spend, and the others must pass the check again first.
LetThrough == {c \in Callers : At(c, {"cache", "queued", "calling", "waiting", "mock",
                                    "store", "record"})}

\* Until the limit is reached anyone may be admitted; from then on what the month
\* has cost and what the admitted calls can add stay below the bound together.
Exposed ==
  Limit > 0 =>
    \/ MonthToDate < Limit
    \/ MonthToDate = earlier /\ LetThrough = {}
    \/ MonthToDate + Cardinality(LetThrough) * MaxCost < Limit + Cardinality(Callers) * MaxCost

BudgetIInv == earlier \in Nat /\ Exposed

LEMMA Products ==
  /\ \A a, b, m \in Nat : a =< b => a * m =< b * m
  /\ \A a, m \in Nat : a * m \in Nat /\ (a + 1) * m = a * m + m
<1>1. \A a, b, m \in Nat : a =< b => a * m =< b * m
  <2> SUFFICES ASSUME NEW a \in Nat, NEW b \in Nat, NEW m \in Nat, a =< b
               PROVE  a * m =< b * m
    OBVIOUS
  <2>1. (b - a) * m >= 0 /\ b * m = a * m + (b - a) * m  OBVIOUS
  <2> QED BY <2>1
<1>2. \A a, m \in Nat : a * m \in Nat /\ (a + 1) * m = a * m + m  OBVIOUS
<1> QED BY <1>1, <1>2

LEMMA MonthIsSum ==
  /\ MonthToDate = earlier + Total(spent, DOMAIN spent)
  /\ MonthToDate' = earlier' + Total(spent', DOMAIN spent')
BY DEF MonthToDate, FoldFunction, FoldFunctionOnSet, MapThenFoldSet, Total, Sums, Pick

LEMMA SpendIsSum ==
  ASSUME GatewayIInv, earlier \in Nat
  PROVE  /\ MonthToDate = earlier + Total(spent, Callers)
         /\ Total(spent, Callers) \in Nat /\ MonthToDate \in Nat
<1>1. spent \in [Callers -> Nat] /\ DOMAIN spent = Callers  BY DEF GatewayIInv, LedgerTypes
<1>2. Total(spent, Callers) \in Nat
  <2>1. Callers \in SUBSET Callers /\ IsFiniteSet(Callers)  BY GatewayBounds
  <2> QED BY <1>1, <2>1, SumUnfolds
<1> QED BY <1>1, <1>2, MonthIsSum

LEMMA AdmittedFinite ==
  ASSUME NEW S, S \subseteq Callers
  PROVE  /\ IsFiniteSet(S) /\ Cardinality(S) \in Nat
         /\ Cardinality(S) =< Cardinality(Callers) /\ Cardinality(Callers) \in Nat
BY GatewayBounds, FS_Subset, FS_CardinalityType

\* A step that spends nothing and admits nobody.
LEMMA NobodyAdmitted ==
  ASSUME GatewayIInv, BudgetIInv, UNCHANGED <<spent, earlier>>, LetThrough' \subseteq LetThrough
  PROVE  BudgetIInv'
<1>1. MonthToDate' = MonthToDate /\ MonthToDate \in Nat
  BY SpendIsSum, MonthIsSum DEF BudgetIInv
<1>2. /\ LetThrough \subseteq Callers /\ IsFiniteSet(LetThrough) /\ Cardinality(LetThrough) \in Nat
      /\ Cardinality(LetThrough') \in Nat /\ Cardinality(LetThrough') =< Cardinality(LetThrough)
  <2>1. LetThrough \subseteq Callers  BY DEF LetThrough
  <2>2. IsFiniteSet(LetThrough) /\ Cardinality(LetThrough) \in Nat  BY <2>1, AdmittedFinite
  <2>3. IsFiniteSet(LetThrough') /\ Cardinality(LetThrough') =< Cardinality(LetThrough)
    BY <2>2, FS_Subset
  <2> QED BY <2>1, <2>2, <2>3, FS_CardinalityType
<1>3. Cardinality(LetThrough') * MaxCost =< Cardinality(LetThrough) * MaxCost
  BY <1>2, Products, GatewayBounds
<1>4. /\ Cardinality(LetThrough') * MaxCost \in Nat /\ Cardinality(LetThrough) * MaxCost \in Nat
      /\ Cardinality(Callers) * MaxCost \in Nat /\ Limit \in Nat
  BY <1>2, AdmittedFinite, Products, GatewayBounds
<1>5. LetThrough = {} => LetThrough' = {}  OBVIOUS
<1> DEFINE m == MonthToDate
           a == Cardinality(LetThrough) * MaxCost
           b == Cardinality(LetThrough') * MaxCost
           n == Cardinality(Callers) * MaxCost
<1>6. m + a < Limit + n => m + b < Limit + n
  <2> HIDE DEF m, a, b, n
  <2>1. m \in Nat /\ a \in Nat /\ b \in Nat /\ n \in Nat /\ b =< a /\ Limit \in Nat
    BY <1>1, <1>3, <1>4 DEF m, a, b, n
  <2> QED BY <2>1
<1> QED BY <1>1, <1>5, <1>6 DEF BudgetIInv, Exposed

LEMMA BudgetStep ==
  GatewayIInv /\ BudgetIInv /\ [GatewayNext]_gatewayVars => BudgetIInv'
<1> SUFFICES ASSUME GatewayIInv, BudgetIInv, [GatewayNext]_gatewayVars PROVE BudgetIInv'
  OBVIOUS
<1>0. /\ call \in [Callers -> CallState] /\ spent \in [Callers -> Nat] /\ earlier \in Nat
      /\ IsFiniteSet(Callers) /\ MaxCost \in Nat /\ Limit \in Nat
  BY GatewayBounds DEF GatewayIInv, LedgerTypes, BudgetIInv
<1> DEFINE Exposing == {"cache", "queued", "calling", "waiting", "mock", "store", "record"}
<1>quiet. ASSUME NEW c \in Callers, NEW k, Goes(c, k), UNCHANGED <<spent, earlier>>,
                 k.pc \in Exposing => call[c].pc \in Exposing
          PROVE  BudgetIInv'
  <2>1. LetThrough' \subseteq LetThrough
    BY <1>quiet, <1>0 DEF LetThrough, At, Goes
  <2> QED BY <1>quiet, <2>1, NobodyAdmitted
<1>1. ASSUME NEW c \in Callers, EnforceBudget(c) PROVE BudgetIInv'
  <2> DEFINE refused == Home[c] \in latched \/ (Limit > 0 /\ MonthToDate >= Limit)
  <2>1. CASE refused
    <3>1. Goes(c, NoCall) /\ NoCall.pc = "idle"  BY <1>1, <2>1 DEF EnforceBudget, NoCall
    <3> QED BY <1>1, <3>1, <1>quiet DEF EnforceBudget
  <2>2. CASE ~refused
    <3>1. MonthToDate' = MonthToDate /\ MonthToDate \in Nat /\ earlier' = earlier
      BY <1>0, <1>1, SpendIsSum, MonthIsSum DEF EnforceBudget
    <3>2. Limit > 0 => MonthToDate < Limit  BY <2>2, <3>1, <1>0
    <3> QED BY <3>1, <3>2, <1>0 DEF BudgetIInv, Exposed
  <2> QED BY <2>1, <2>2
<1>2. ASSUME NEW c \in Callers, Record(c) PROVE BudgetIInv'
  <2> DEFINE k == call[c].cost
             m == MonthToDate
             n == Cardinality(Callers)
             a == Cardinality(LetThrough)
  <2>1. k \in Nat /\ k =< MaxCost  BY <1>0 DEF CallState
  <2>2. c \in LetThrough /\ LetThrough \subseteq Callers  BY <1>2 DEF Record, LetThrough, At
  <2>3. LetThrough' = LetThrough \ {c}
    BY <1>0, <1>2 DEF Record, LetThrough, At, Goes
  <2>4. a \in Nat /\ n \in Nat /\ a =< n /\ IsFiniteSet(LetThrough)
    BY <2>2, AdmittedFinite
  <2>5. Cardinality(LetThrough') = a - 1 /\ a - 1 \in Nat
    <3>1. Cardinality(LetThrough \ {c}) = a - 1 /\ IsFiniteSet(LetThrough \ {c})
      BY <2>2, <2>4, FS_RemoveElement
    <3>2. Cardinality(LetThrough \ {c}) \in Nat  BY <3>1, FS_CardinalityType
    <3> QED BY <2>3, <3>1, <3>2
  <2>6. m \in Nat /\ m = earlier + Total(spent, Callers) /\ Total(spent, Callers) \in Nat
    BY <1>0, SpendIsSum
  <2>7. MonthToDate' = m + k
    <3>1. earlier' = earlier /\ spent' = [spent EXCEPT ![c] = spent[c] + k]
      BY <1>2 DEF Record
    <3>2. spent' \in [Callers -> Nat] /\ DOMAIN spent' = Callers  BY <1>0, <2>1, <3>1
    <3>3. MonthToDate' = earlier + Total(spent', Callers)  BY <3>1, <3>2, MonthIsSum
    <3> DEFINE f == spent
    <3>4. Total([f EXCEPT ![c] = f[c] + k], Callers) = Total(f, Callers) + k
      <4>1. f \in [Callers -> Nat] /\ IsFiniteSet(Callers)  BY <1>0
      <4>2. k \in Nat  BY <2>1
      <4> HIDE DEF f, k
      <4> QED BY <4>1, <4>2, SumGrows
    <3>5. Total(spent', Callers) = Total(spent, Callers) + k  BY <3>1, <3>4
    <3> HIDE DEF k, m
    <3> QED BY <3>3, <3>5, <2>6, <2>1, <1>0
  <2>8. /\ (a - 1) * MaxCost + MaxCost = a * MaxCost /\ (a - 1) * MaxCost \in Nat
        /\ n * MaxCost \in Nat /\ a * MaxCost =< n * MaxCost
    <3>1. ((a - 1) + 1) * MaxCost = (a - 1) * MaxCost + MaxCost
      BY <2>5, <1>0, Products
    <3>2. (a - 1) + 1 = a  BY <2>4
    <3> QED BY <3>1, <3>2, <2>4, <2>5, <1>0, Products
  <2>9. Limit > 0 => MonthToDate' + (a - 1) * MaxCost < Limit + n * MaxCost
    <3>1. Limit > 0 => m < Limit \/ m + a * MaxCost < Limit + n * MaxCost
      BY <2>2 DEF BudgetIInv, Exposed
    <3> DEFINE x == (a - 1) * MaxCost
               y == n * MaxCost
               z == a * MaxCost
    <3>2. x \in Nat /\ y \in Nat /\ x + MaxCost = z /\ z =< y  BY <2>8
    <3>3. Limit > 0 => m < Limit \/ m + z < Limit + y  BY <3>1
    <3> HIDE DEF x, y, z, m, k
    <3>4. Limit > 0 => MonthToDate' + x < Limit + y
      BY <3>2, <3>3, <2>1, <2>6, <2>7, <1>0
    <3> QED BY <3>4 DEF x, y
  <2> QED BY <2>5, <2>9, <1>2, <1>0 DEF BudgetIInv, Exposed, Record
<1>3. ASSUME NEW c \in Callers, NEW p \in Prompts, StartCall(c, p) PROVE BudgetIInv'
  BY <1>3, <1>quiet DEF StartCall, NoCall
<1>4. ASSUME NEW c \in Callers,
             \/ ReadCache(c) \/ Acquire(c) \/ StreamFragment(c) \/ AttemptFails(c)
             \/ Retry(c) \/ Degrade(c) \/ \E cost \in 0..MaxCost : AttemptSucceeds(c, cost)
             \/ WriteCache(c) \/ RecordFails(c) \/ TallyUsage(c) \/ Consume(c) \/ Interrupt(c)
      PROVE  BudgetIInv'
  <2>1. call[c] \in CallState  BY <1>0
  <2>2. ReadCache(c) => BudgetIInv'
    BY <1>quiet, <2>1 DEF ReadCache, At, CallState
  <2>3. Acquire(c) \/ Retry(c) => BudgetIInv'
    BY <1>quiet, <2>1 DEF Acquire, Retry, At, CallState
  <2>4. StreamFragment(c) => BudgetIInv'
    BY <1>quiet, <2>1 DEF StreamFragment, At, CallState
  <2>5. AttemptFails(c) => BudgetIInv'
    BY <1>quiet, <2>1 DEF AttemptFails, At, CallState, NoCall
  <2>6. Degrade(c) \/ WriteCache(c) => BudgetIInv'
    BY <1>quiet, <2>1 DEF Degrade, WriteCache, At, CallState
  <2>7. (\E cost \in 0..MaxCost : AttemptSucceeds(c, cost)) => BudgetIInv'
    BY <1>quiet, <2>1 DEF AttemptSucceeds, At, CallState
  <2>8. RecordFails(c) \/ Consume(c) \/ Interrupt(c) => BudgetIInv'
    BY <1>quiet DEF RecordFails, Consume, Interrupt, NoCall
  <2>9. TallyUsage(c) => BudgetIInv'
    BY <1>quiet, <2>1 DEF TallyUsage, At, CallState
  <2> QED BY <1>4, <2>2, <2>3, <2>4, <2>5, <2>6, <2>7, <2>8, <2>9
<1>5. ASSUME NEW g \in Gateways, NEW p \in Prompts, Forget(g, p) PROVE BudgetIInv'
  BY <1>5, NobodyAdmitted DEF Forget, LetThrough, At
<1>6. CASE UNCHANGED gatewayVars
  BY <1>6, NobodyAdmitted DEF gatewayVars, LetThrough, At
<1> QED BY <1>1, <1>2, <1>3, <1>4, <1>5, <1>6 DEF GatewayNext

\* The budget is checked before a call and charged after it; what the month costs
\* still stays below the limit and one call for each caller
\* (gateway.py _enforce_budget).
THEOREM OvershootAlwaysBounded == GatewaySpec => []OvershootBounded
<1>1. GatewayInit => BudgetIInv
  <2> SUFFICES ASSUME GatewayInit PROVE BudgetIInv  OBVIOUS
  <2>1. earlier \in Nat /\ LetThrough = {} /\ spent \in [Callers -> Nat]
    BY GatewayBounds DEF GatewayInit, LetThrough, At, NoCall
  <2>2. Total(spent, Callers) = 0
    <3>1. \A c \in Callers : spent[c] = 0  BY DEF GatewayInit
    <3>2. /\ Callers \in SUBSET Callers /\ {} \in SUBSET Callers /\ IsFiniteSet(Callers)
          /\ \A c \in Callers \ {} : spent[c] = 0
      BY <3>1, GatewayBounds
    <3>3. Total(spent, Callers) = Total(spent, {})  BY <2>1, <3>2, SumSkipsZeros
    <3>4. Total(spent, {}) = 0  BY <2>1, <3>2, SumUnfolds
    <3> QED BY <3>3, <3>4
  <2>3. MonthToDate = earlier  BY <2>1, <2>2, SpendIsSum, GatewayInitIInv
  <2> QED BY <2>1, <2>3 DEF BudgetIInv, Exposed
<1>2. GatewayIInv /\ BudgetIInv => OvershootBounded
  <2> SUFFICES ASSUME GatewayIInv, BudgetIInv, Limit > 0, MonthToDate > earlier
               PROVE  MonthToDate < Limit + Cardinality(Callers) * MaxCost
    BY DEF OvershootBounded
  <2>1. MonthToDate \in Nat /\ earlier \in Nat /\ Limit \in Nat
    BY SpendIsSum, GatewayBounds DEF BudgetIInv
  <2>2. Cardinality(Callers) * MaxCost \in Nat /\ Cardinality(LetThrough) * MaxCost \in Nat
    <3>1. LetThrough \subseteq Callers  BY DEF LetThrough
    <3> QED BY <3>1, AdmittedFinite, Products, GatewayBounds
  <2> DEFINE n == Cardinality(Callers) * MaxCost
             a == Cardinality(LetThrough) * MaxCost
  <2>3. MonthToDate < Limit \/ MonthToDate + a < Limit + n
    BY <2>1 DEF BudgetIInv, Exposed
  <2>4. n \in Nat /\ a \in Nat  BY <2>2
  <2> HIDE DEF n, a
  <2>5. MonthToDate < Limit + n  BY <2>1, <2>3, <2>4
  <2> QED BY <2>5 DEF n
<1> QED BY <1>1, <1>2, BudgetStep, GatewayInvariant, GatewayInitIInv, GatewayStep, PTL DEF GatewaySpec

-----------------------------------------------------------------------------
(* Rate limiting: windows and spans *)

\* Division with remainder, for a window of any length.
Aligned(n, w) == n - (n % w)

LEMMA Multiples ==
  ASSUME NEW w \in Nat \ {0}, NEW a \in Nat, NEW b \in Nat, a < b
  PROVE  (a * w) + w =< b * w
<1>1. (b - a - 1) * w >= 0 /\ b * w = (a * w) + w + ((b - a - 1) * w)  OBVIOUS
<1>2. a * w \in Nat /\ b * w \in Nat  OBVIOUS
<1> QED BY <1>1, <1>2

LEMMA Division ==
  ASSUME NEW w \in Nat \ {0}, NEW n \in Nat
  PROVE  /\ n \div w \in Nat /\ n % w \in 0..(w - 1)
         /\ n = ((n \div w) * w) + (n % w)
         /\ (n % w = 0) <=> \E q \in Nat : n = q * w
<1>1. n \div w \in Nat /\ n % w \in 0..(w - 1) /\ n = ((n \div w) * w) + (n % w)  OBVIOUS
<1>2. ASSUME n % w = 0 PROVE \E q \in Nat : n = q * w
  <2> DEFINE d == n \div w
  <2>1. d \in Nat /\ n = (d * w) + 0  BY <1>1, <1>2
  <2>2. d * w \in Nat  BY <2>1
  <2> HIDE DEF d
  <2>3. n = d * w  BY <2>1, <2>2
  <2> QED BY <2>1, <2>3
<1>3. ASSUME NEW q \in Nat, n = q * w PROVE n % w = 0
  <2> DEFINE d == n \div w
             r == n % w
  <2>1. d \in Nat /\ r \in 0..(w - 1) /\ n = (d * w) + r  BY <1>1
  <2> HIDE DEF d, r
  <2>0. d * w \in Nat /\ q * w \in Nat  BY <2>1
  <2>2. CASE d = q
    <3>1. q * w = (q * w) + r  BY <2>1, <2>2, <1>3
    <3> QED BY <3>1, <2>0, <2>1
  <2>3. CASE d < q
    <3>1. (d * w) + w =< q * w  BY <2>1, <2>3, Multiples
    <3> QED BY <3>1, <2>1, <1>3
  <2>4. CASE d > q
    <3>1. (q * w) + w =< d * w  BY <2>1, <2>4, Multiples
    <3> QED BY <3>1, <2>1, <1>3
  <2>5. r = 0  BY <2>1, <2>2, <2>3, <2>4
  <2> QED BY <2>5 DEF r
<1> QED BY <1>1, <1>2, <1>3

\* A moment lies in exactly one aligned window, and a new one starts where the
\* last one ends.
LEMMA OneWindow ==
  ASSUME NEW w \in Nat \ {0}, NEW n \in Nat
  PROVE  /\ Aligned(n, w) \in Nat /\ Aligned(n, w) % w = 0
         /\ Aligned(n, w) =< n /\ n < Aligned(n, w) + w
         /\ (Aligned(n, w) + w) % w = 0
         /\ \A low \in Nat : low % w = 0 /\ low =< n /\ n < low + w => low = Aligned(n, w)
         /\ Aligned(n + 1, w) \in {Aligned(n, w), n + 1}
<1>1. ASSUME NEW m \in Nat
      PROVE  \E q \in Nat : /\ Aligned(m, w) = q * w /\ q * w \in Nat
                            /\ q * w =< m /\ m < (q * w) + w
  <2>1. m \div w \in Nat /\ m % w \in 0..(w - 1) /\ m = ((m \div w) * w) + (m % w)
    BY Division
  <2>2. (m \div w) * w \in Nat  BY <2>1
  <2> QED BY <2>1, <2>2 DEF Aligned
<1>2. PICK q \in Nat : /\ Aligned(n, w) = q * w /\ q * w \in Nat
                       /\ q * w =< n /\ n < (q * w) + w
  BY <1>1
<1>3. Aligned(n, w) % w = 0  BY <1>2, Division
<1>4. (Aligned(n, w) + w) % w = 0
  <2>1. (q + 1) * w = (q * w) + w /\ q + 1 \in Nat  OBVIOUS
  <2>2. Aligned(n, w) + w \in Nat /\ Aligned(n, w) + w = (q + 1) * w  BY <1>2, <2>1
  <2> QED BY <2>1, <2>2, Division
<1>5. ASSUME NEW low \in Nat, low % w = 0, low =< n, n < low + w
      PROVE  low = Aligned(n, w)
  <2>1. PICK p \in Nat : low = p * w  BY <1>5, Division
  <2>2. CASE p = q  BY <2>1, <2>2, <1>2
  <2>3. CASE p < q
    <3>1. (p * w) + w =< q * w  BY <2>3, Multiples
    <3> QED BY <3>1, <2>1, <1>2, <1>5
  <2>4. CASE p > q
    <3>1. (q * w) + w =< p * w  BY <2>4, Multiples
    <3> QED BY <3>1, <2>1, <1>2, <1>5
  <2> QED BY <2>2, <2>3, <2>4
<1>6. Aligned(n + 1, w) \in {Aligned(n, w), n + 1}
  <2>1. PICK p \in Nat : /\ Aligned(n + 1, w) = p * w /\ p * w \in Nat
                         /\ p * w =< n + 1 /\ n + 1 < (p * w) + w
    <3>1. n + 1 \in Nat  OBVIOUS
    <3> QED BY <3>1, <1>1
  <2>2. CASE p * w = n + 1  BY <2>1, <2>2
  <2>3. CASE p * w # n + 1
    <3>1. p * w =< n /\ n < (p * w) + w  BY <2>1, <2>3
    <3>2. (p * w) % w = 0  BY <2>1, Division
    <3>3. p * w = Aligned(n, w)  BY <2>1, <3>1, <3>2, <1>5
    <3> QED BY <2>1, <3>3
  <2> QED BY <2>2, <2>3
<1> QED BY <1>2, <1>3, <1>4, <1>5, <1>6

\* The requests of a client let in within a window's length of a moment.
Within(c, low) == {i \in DOMAIN admitted[c] : admitted[c][i] \in low..(low + Window - 1)}

LimiterTypes ==
  /\ second \in 0..LastSecond
  /\ windows \in [Clients -> [start : -1..LastSecond, count : Nat]]
  /\ admitted \in [Clients -> Seq(Nat)]
  /\ \A c \in Clients : \A i \in DOMAIN admitted[c] : admitted[c][i] \in 0..second

\* The bucket of a client counts what was let in since its window began; without a
\* bucket for the current window nothing was.
Counted ==
  \A c \in Clients :
    /\ windows[c].start =< second
    /\ windows[c].start = WindowStart => Cardinality(Within(c, WindowStart)) = windows[c].count
    /\ windows[c].start # WindowStart => Within(c, WindowStart) = {}
EveryWindow == \A c \in Clients : \A low \in Nat :
                 low % Window = 0 => Cardinality(Within(c, low)) =< LimitOf[c]

LimiterIInv == LimiterTypes /\ Counted /\ EveryWindow

LEMMA WithinFinite ==
  ASSUME LimiterTypes, NEW c \in Clients, NEW low
  PROVE  IsFiniteSet(Within(c, low)) /\ Cardinality(Within(c, low)) \in Nat
<1>1. DOMAIN admitted[c] = 1..Len(admitted[c]) /\ Len(admitted[c]) \in Nat
  BY DEF LimiterTypes
<1>2. IsFiniteSet(DOMAIN admitted[c])  BY <1>1, FS_Interval
<1>3. Within(c, low) \in SUBSET DOMAIN admitted[c]  BY DEF Within
<1> QED BY <1>2, <1>3, FS_Subset, FS_CardinalityType

LEMMA WindowNow ==
  ASSUME LimiterTypes
  PROVE  /\ second \in Nat /\ Window \in Nat \ {0} /\ WindowStart = Aligned(second, Window)
         /\ WindowStart \in 0..second /\ second < WindowStart + Window
         /\ WindowStart % Window = 0
<1>1. second \in Nat /\ Window \in Nat \ {0}  BY LimiterBounds DEF LimiterTypes
<1>2. WindowStart = Aligned(second, Window)  BY DEF WindowStart, Aligned
<1> QED BY <1>1, <1>2, OneWindow

\* Dropping stale buckets never drops one of the current window.
LEMMA PrunedKeepsCurrent ==
  ASSUME LimiterTypes, NEW held \in [Clients -> [start : -1..LastSecond, count : Nat]]
  PROVE  /\ Pruned(held) \in [Clients -> [start : -1..LastSecond, count : Nat]]
         /\ \A c \in Clients :
              /\ held[c].start = WindowStart => Pruned(held)[c] = held[c]
              /\ Pruned(held)[c] = held[c] \/ (held[c].start # WindowStart /\ Pruned(held)[c] = NoBucket)
<1>1. WindowStart \in 0..second /\ second < WindowStart + Window /\ second \in Nat
  BY WindowNow
<1>2. Window \in Nat /\ Retention \in Nat /\ Retention >= Window /\ LastSecond \in Nat
  BY LimiterBounds
<1>3. NoBucket \in [start : -1..LastSecond, count : Nat]  BY <1>2 DEF NoBucket
<1>4. \A c \in Clients : held[c].start = WindowStart => ~(held[c].start < second - Retention)
  BY <1>1, <1>2
<1> QED BY <1>3, <1>4 DEF Pruned

\* A request let in: it counts in the current window and in no other.
LEMMA OneMore ==
  ASSUME LimiterTypes, NEW c \in Clients, Admitted(c), UNCHANGED second
  PROVE  /\ LimiterTypes => admitted' \in [Clients -> Seq(Nat)]
         /\ \A d \in Clients : \A i \in DOMAIN admitted'[d] : admitted'[d][i] \in 0..second
         /\ \A d \in Clients \ {c} : \A low \in Nat : Within(d, low)' = Within(d, low)
         /\ \A low \in Nat : low % Window = 0 /\ low # WindowStart => Within(c, low)' = Within(c, low)
         /\ Cardinality(Within(c, WindowStart)') = Cardinality(Within(c, WindowStart)) + 1
<1> DEFINE a == admitted[c]
           n == Len(a)
<1>1. a \in Seq(Nat) /\ n \in Nat /\ second \in Nat /\ \A i \in 1..n : a[i] \in 0..second
  BY WindowNow DEF LimiterTypes
<1>2. /\ admitted' \in [Clients -> Seq(Nat)] /\ admitted'[c] = Append(a, second)
      /\ \A d \in Clients \ {c} : admitted'[d] = admitted[d]
  BY <1>1 DEF Admitted, LimiterTypes
<1>3. /\ DOMAIN admitted'[c] = 1..(n + 1) /\ admitted'[c][n + 1] = second
      /\ \A i \in 1..n : admitted'[c][i] = a[i]
  <2> HIDE DEF a
  <2> QED BY <1>1, <1>2
<1>4. \A d \in Clients : \A i \in DOMAIN admitted'[d] : admitted'[d][i] \in 0..second
  <2> TAKE d \in Clients
  <2>1. CASE d = c
    <3> HIDE DEF a, n
    <3> QED BY <2>1, <1>1, <1>3
  <2>2. CASE d # c  BY <2>2, <1>2 DEF LimiterTypes
  <2> QED BY <2>1, <2>2
<1>5. \A d \in Clients \ {c} : \A low \in Nat : Within(d, low)' = Within(d, low)
  BY <1>2 DEF Within
<1>6. DOMAIN a = 1..n  BY <1>1
<1>7. ASSUME NEW low \in Nat
      PROVE  Within(c, low)' = IF second \in low..(low + Window - 1)
                               THEN Within(c, low) \cup {n + 1} ELSE Within(c, low)
  <2>1. Within(c, low) = {i \in 1..n : a[i] \in low..(low + Window - 1)}
    BY <1>6 DEF Within
  <2>2. Within(c, low)' = {i \in 1..(n + 1) : admitted'[c][i] \in low..(low + Window - 1)}
    BY <1>3 DEF Within
  <2>3. 1..(n + 1) = 1..n \cup {n + 1} /\ n + 1 \notin 1..n  BY <1>1
  <2> HIDE DEF a, n
  <2> QED BY <2>1, <2>2, <2>3, <1>3
<1>8. WindowStart' = WindowStart  BY DEF WindowStart
<1>9. WindowStart \in Nat /\ second \in WindowStart..(WindowStart + Window - 1)
  BY WindowNow
<1>10. Cardinality(Within(c, WindowStart)') = Cardinality(Within(c, WindowStart)) + 1
  <2>1. Within(c, WindowStart)' = Within(c, WindowStart) \cup {n + 1}
    <3> DEFINE low == WindowStart
    <3>1. low \in Nat /\ low' = low  BY <1>8, <1>9
    <3>2. Within(c, low)' = {i \in DOMAIN admitted'[c] : admitted'[c][i] \in low..(low + Window - 1)}
      BY <1>8 DEF Within
    <3> QED BY <1>7, <1>9, <3>2 DEF Within
  <2>2. n + 1 \notin Within(c, WindowStart)  BY <1>1, <1>6 DEF Within
  <2> HIDE DEF n
  <2> QED BY <2>1, <2>2, WithinFinite, FS_AddElement
<1>11. ASSUME NEW low \in Nat, low % Window = 0, low # WindowStart
       PROVE  Within(c, low)' = Within(c, low)
  <2>1. ~(low =< second /\ second < low + Window)
    <3>1. second \in Nat /\ Window \in Nat \ {0} /\ WindowStart = Aligned(second, Window)
      BY WindowNow
    <3> QED BY <1>11, <3>1, OneWindow
  <2>2. second \notin low..(low + Window - 1)  BY <2>1, <1>1, WindowNow
  <2> QED BY <2>2, <1>7
<1> QED BY <1>2, <1>4, <1>5, <1>10, <1>11

\* The steps of the limiter, when a request is let in.
LEMMA LetIn ==
  ASSUME LimiterIInv, NEW c \in Clients, Admitted(c), UNCHANGED second,
         NEW held \in [Clients -> [start : -1..LastSecond, count : Nat]],
         windows' = held,
         \A d \in Clients \ {c} : \/ held[d] = windows[d]
                                  \/ windows[d].start # WindowStart /\ held[d] = NoBucket,
         held[c].start = WindowStart,
         held[c].count = Cardinality(Within(c, WindowStart)) + 1,
         held[c].count =< LimitOf[c]
  PROVE  LimiterIInv'
<1>0. LimiterTypes /\ Counted /\ EveryWindow  BY DEF LimiterIInv
<1>1. /\ WindowStart' = WindowStart /\ second \in Nat /\ WindowStart \in 0..second
      /\ WindowStart % Window = 0
  BY <1>0, WindowNow DEF WindowStart
<1>2. /\ admitted' \in [Clients -> Seq(Nat)]
      /\ \A d \in Clients : \A i \in DOMAIN admitted'[d] : admitted'[d][i] \in 0..second
      /\ \A d \in Clients \ {c} : \A low \in Nat : Within(d, low)' = Within(d, low)
      /\ \A low \in Nat : low % Window = 0 /\ low # WindowStart => Within(c, low)' = Within(c, low)
      /\ Cardinality(Within(c, WindowStart)') = Cardinality(Within(c, WindowStart)) + 1
  BY <1>0, OneMore
<1>3. LimiterTypes'  BY <1>0, <1>2 DEF LimiterTypes
<1>4. Counted'
  <2> SUFFICES ASSUME NEW d \in Clients
               PROVE  /\ held[d].start =< second
                      /\ held[d].start = WindowStart
                           => Cardinality(Within(d, WindowStart)') = held[d].count
                      /\ held[d].start # WindowStart => Within(d, WindowStart)' = {}
    BY <1>1 DEF Counted, Within
  <2>1. CASE d = c  BY <2>1, <1>1, <1>2
  <2>2. CASE d # c
    <3>1. Within(d, WindowStart)' = Within(d, WindowStart)  BY <2>2, <1>1, <1>2
    <3>2. CASE held[d] = windows[d]  BY <3>1, <3>2, <1>0 DEF Counted
    <3>3. CASE windows[d].start # WindowStart /\ held[d] = NoBucket
      BY <3>1, <3>3, <1>0, <1>1 DEF Counted, NoBucket
    <3> QED BY <2>2, <3>2, <3>3
  <2> QED BY <2>1, <2>2
<1>5. EveryWindow'
  <2> SUFFICES ASSUME NEW d \in Clients, NEW low \in Nat, low % Window = 0
               PROVE  Cardinality(Within(d, low)') =< LimitOf[d]
    BY DEF EveryWindow, Within
  <2>1. CASE d = c /\ low = WindowStart
    <3>1. Cardinality(Within(c, low)') = held[c].count
      BY <2>1, <1>1, <1>2 DEF Within
    <3> QED BY <2>1, <3>1
  <2>2. CASE ~(d = c /\ low = WindowStart)
    <3>1. Within(d, low)' = Within(d, low)  BY <2>2, <1>2
    <3> QED BY <3>1, <1>0 DEF EveryWindow
  <2> QED BY <2>1, <2>2
<1> QED BY <1>3, <1>4, <1>5 DEF LimiterIInv

LEMMA LimiterStep == LimiterIInv /\ [LimiterNext]_limiterVars => LimiterIInv'
<1> SUFFICES ASSUME LimiterIInv, [LimiterNext]_limiterVars PROVE LimiterIInv'
  OBVIOUS
<1>0. LimiterTypes /\ Counted /\ EveryWindow  BY DEF LimiterIInv
<1> DEFINE Buckets == [start : -1..LastSecond, count : Nat]
<1>now. /\ second \in Nat /\ Window \in Nat \ {0} /\ WindowStart = Aligned(second, Window)
        /\ WindowStart \in 0..second /\ second \in 0..LastSecond /\ WindowStart \in -1..LastSecond
        /\ LimitOf \in [Clients -> Nat \ {0}] /\ windows \in [Clients -> Buckets]
  <2>1. LastSecond \in Nat /\ second \in 0..LastSecond  BY <1>0, LimiterBounds DEF LimiterTypes
  <2>2. WindowStart \in -1..LastSecond  BY <1>0, <2>1, WindowNow
  <2> QED BY <1>0, <2>1, <2>2, LimiterBounds, WindowNow DEF LimiterTypes
<1>1. ASSUME ClockTicks PROVE LimiterIInv'
  <2>1. second' = second + 1 /\ UNCHANGED <<windows, admitted>> /\ second' \in 0..LastSecond
    BY <1>1, <1>now, LimiterBounds DEF ClockTicks
  <2>2. \A c \in Clients, low \in Nat : Within(c, low)' = Within(c, low)
    BY <2>1 DEF Within
  <2>3. LimiterTypes'
    <3>1. \A c \in Clients : \A i \in DOMAIN admitted[c] : admitted[c][i] \in 0..second'
      BY <1>0, <1>now, <2>1 DEF LimiterTypes
    <3> QED BY <1>0, <2>1, <3>1 DEF LimiterTypes
  <2>4. EveryWindow'
    <3> SUFFICES ASSUME NEW c \in Clients, NEW low \in Nat, low % Window = 0
                 PROVE  Cardinality(Within(c, low)') =< LimitOf[c]
      BY DEF EveryWindow, Within
    <3> QED BY <2>2, <1>0 DEF EveryWindow
  <2>5. Counted'
    <3>1. WindowStart' = Aligned(second + 1, Window)  BY <2>1 DEF WindowStart, Aligned
    <3>2. WindowStart' \in {WindowStart, second + 1}  BY <3>1, <1>now, OneWindow
    <3> DEFINE next == WindowStart'
    <3>3. next \in Nat  BY <3>2, <1>now
    <3> SUFFICES ASSUME NEW c \in Clients
                 PROVE  /\ windows[c].start =< second + 1
                        /\ windows[c].start = next => Cardinality(Within(c, next)) = windows[c].count
                        /\ windows[c].start # next => Within(c, next) = {}
      BY <2>1 DEF Counted, Within
    <3>4. windows[c].start \in Int /\ windows[c].start =< second
      BY <1>0, <1>now DEF Counted
    <3>5. CASE next = WindowStart
      <4> HIDE DEF next
      <4> QED BY <3>4, <3>5, <1>0, <1>now DEF Counted
    <3>6. CASE next = second + 1
      <4> HIDE DEF next
      <4>1. \A i \in DOMAIN admitted[c] : admitted[c][i] \in 0..second
        BY <1>0 DEF LimiterTypes
      <4>2. Within(c, next) = {}  BY <3>6, <4>1, <1>now DEF Within
      <4> QED BY <3>4, <3>6, <4>2, <1>now
    <3> QED BY <3>2, <3>5, <3>6
  <2> QED BY <2>3, <2>4, <2>5 DEF LimiterIInv
<1>2. ASSUME NEW c \in Clients, OpenWindow(c) PROVE LimiterIInv'
  <2> DEFINE new == [start |-> WindowStart, count |-> 1]
             held == [windows EXCEPT ![c] = new]
  <2>1. /\ windows' = Pruned(held) /\ Admitted(c) /\ UNCHANGED second
        /\ windows[c].start # WindowStart
    BY <1>2 DEF OpenWindow
  <2>2. new \in Buckets /\ new.start = WindowStart /\ new.count = 1  BY <1>now
  <2> HIDE DEF new
  <2>3. held \in [Clients -> Buckets] /\ held[c] = new
        /\ \A d \in Clients \ {c} : held[d] = windows[d]
    BY <2>2, <1>now
  <2> HIDE DEF held
  <2>4. /\ Pruned(held) \in [Clients -> Buckets] /\ Pruned(held)[c] = new
        /\ \A d \in Clients \ {c} : \/ Pruned(held)[d] = windows[d]
                                    \/ windows[d].start # WindowStart /\ Pruned(held)[d] = NoBucket
    BY <2>2, <2>3, <1>0, PrunedKeepsCurrent
  <2>5. Cardinality(Within(c, WindowStart)) = 0
    BY <2>1, <1>0, FS_EmptySet DEF Counted
  <2>6. 1 =< LimitOf[c]  BY <1>now
  <2> QED BY <2>1, <2>2, <2>4, <2>5, <2>6, LetIn
<1>3. ASSUME NEW c \in Clients, Count(c) PROVE LimiterIInv'
  <2> DEFINE b == windows[c]
             held == [windows EXCEPT ![c].count = @ + 1]
  <2>1. /\ windows' = held /\ Admitted(c) /\ UNCHANGED second
        /\ b.start = WindowStart /\ b.count < LimitOf[c]
    BY <1>3 DEF Count
  <2>2. b \in Buckets /\ b.count \in Nat /\ LimitOf[c] \in Nat  BY <1>now
  <2>3. /\ held \in [Clients -> Buckets] /\ held[c].start = b.start
        /\ held[c].count = b.count + 1
        /\ \A d \in Clients \ {c} : held[d] = windows[d]
    BY <2>2, <1>now
  <2>4. b.count = Cardinality(Within(c, WindowStart))
    BY <2>1, <1>0 DEF Counted
  <2>5. held[c].count =< LimitOf[c]  BY <2>1, <2>2, <2>3
  <2> HIDE DEF b, held
  <2> QED BY <2>1, <2>3, <2>4, <2>5, LetIn
<1>4. ASSUME UNCHANGED limiterVars PROVE LimiterIInv'
  BY <1>4, <1>0 DEF limiterVars, LimiterIInv, LimiterTypes, Counted, EveryWindow, Within, WindowStart
<1> QED BY <1>1, <1>2, <1>3, <1>4 DEF LimiterNext, RefuseRequest

LEMMA LimiterInvariant == LimiterSpec => []LimiterIInv
<1>1. LimiterInit => LimiterIInv
  <2> SUFFICES ASSUME LimiterInit PROVE LimiterIInv  OBVIOUS
  <2>1. LimiterTypes
    <3>1. NoBucket \in [start : -1..LastSecond, count : Nat]
      BY LimiterBounds DEF NoBucket
    <3> QED BY <3>1, LimiterBounds DEF LimiterInit, LimiterTypes
  <2>2. \A c \in Clients, low \in Nat : Within(c, low) = {}  BY DEF LimiterInit, Within
  <2>3. second = 0 /\ WindowStart \in Nat
    <3>1. WindowStart \in 0..second  BY <2>1, WindowNow
    <3> QED BY <3>1 DEF LimiterInit
  <2>4. Counted  BY <2>2, <2>3 DEF LimiterInit, Counted, NoBucket
  <2>5. EveryWindow  BY <2>2, FS_EmptySet, LimiterBounds DEF EveryWindow
  <2> QED BY <2>1, <2>4, <2>5 DEF LimiterIInv
<1> QED BY <1>1, LimiterStep, PTL DEF LimiterSpec

\* The shape of the limiter's state.
THEOREM LimiterWellTyped == LimiterSpec => []LimiterTypeOK
<1>1. LimiterIInv => LimiterTypeOK  BY DEF LimiterIInv, LimiterTypes, LimiterTypeOK
<1> QED BY <1>1, LimiterInvariant, PTL

\* A window admits no more than the limit, and no span of a window's length more
\* than twice as much, whatever buckets were dropped (core/middleware.py allow, _prune).
THEOREM NeverTwiceTheLimit == LimiterSpec => []AtMostTwiceTheLimit
<1>1. ASSUME LimiterIInv, NEW c \in Clients, NEW from \in 0..second
      PROVE  /\ from % Window = 0 => Cardinality(Within(c, from)) =< LimitOf[c]
             /\ Cardinality(Within(c, from)) =< 2 * LimitOf[c]
  <2>0. LimiterTypes /\ EveryWindow  BY <1>1 DEF LimiterIInv
  <2>1. from \in Nat /\ Window \in Nat \ {0} /\ LimitOf[c] \in Nat
    BY <2>0, WindowNow, LimiterBounds
  <2> DEFINE a == Aligned(from, Window)
             b == a + Window
  <2>2. a \in Nat /\ a % Window = 0 /\ a =< from /\ from < a + Window /\ b % Window = 0
    BY <2>1, OneWindow
  <2> HIDE DEF a
  <2>3. b \in Nat  BY <2>1, <2>2
  <2>4. \A m \in Nat : m \in from..(from + Window - 1)
                         => m \in a..(a + Window - 1) \/ m \in b..(b + Window - 1)
    BY <2>1, <2>2
  <2>5. Within(c, from) \subseteq Within(c, a) \cup Within(c, b)
    <3>1. \A i \in DOMAIN admitted[c] : admitted[c][i] \in Nat
      BY <2>0 DEF LimiterTypes
    <3> HIDE DEF b
    <3> QED BY <2>4, <3>1 DEF Within
  <2> HIDE DEF b
  <2>6. /\ Cardinality(Within(c, a)) =< LimitOf[c] /\ Cardinality(Within(c, b)) =< LimitOf[c]
        /\ from % Window = 0 => Cardinality(Within(c, from)) =< LimitOf[c]
    BY <2>0, <2>1, <2>2, <2>3 DEF EveryWindow
  <2>7. /\ IsFiniteSet(Within(c, a)) /\ IsFiniteSet(Within(c, b))
        /\ Cardinality(Within(c, a)) \in Nat /\ Cardinality(Within(c, b)) \in Nat
        /\ Cardinality(Within(c, from)) \in Nat
    BY <2>0, WithinFinite
  <2> DEFINE A == Within(c, a)
             B == Within(c, b)
  <2>8. /\ IsFiniteSet(A \cup B)
        /\ Cardinality(A \cup B) = Cardinality(A) + Cardinality(B) - Cardinality(A \cap B)
        /\ Cardinality(A \cap B) \in Nat /\ Cardinality(A \cup B) \in Nat
    <3> HIDE DEF A, B
    <3>1. IsFiniteSet(A) /\ IsFiniteSet(B)  BY <2>7 DEF A, B
    <3>2. IsFiniteSet(A \cap B)  BY <3>1, FS_Intersection
    <3> QED BY <3>1, <3>2, FS_Union, FS_CardinalityType
  <2>9. Cardinality(Within(c, from)) =< Cardinality(A \cup B)
    BY <2>5, <2>8, FS_Subset
  <2> DEFINE ca == Cardinality(A)
             cb == Cardinality(B)
             cc == Cardinality(A \cap B)
             cf == Cardinality(Within(c, from))
             lim == LimitOf[c]
  <2>10. cf =< ca + cb - cc /\ ca =< lim /\ cb =< lim /\ ca \in Nat /\ cb \in Nat
         /\ cc \in Nat /\ cf \in Nat /\ lim \in Nat
    BY <2>1, <2>6, <2>7, <2>8, <2>9
  <2> HIDE DEF ca, cb, cc, cf, lim
  <2>11. cf =< 2 * lim  BY <2>10
  <2> QED BY <2>6, <2>11 DEF cf, lim
<1>2. LimiterIInv => AtMostTwiceTheLimit
  BY <1>1 DEF AtMostTwiceTheLimit, Within
<1> QED BY <1>2, LimiterInvariant, PTL

-----------------------------------------------------------------------------
(* Alerts: what fires is on an operator's list, once *)

AlertRow == [status : {"open", "acknowledged", "resolved"}, level : AlertLevels,
             twin : BOOLEAN]
OpenAlertTx == [pc : {"insert", "refresh", "refreshed", "acknowledge", "resolve"}, row : Nat,
                level : AlertLevels \cup {"none"}, held : SUBSET Nat, alone : BOOLEAN,
                saw : {"none", "open", "acknowledged", "resolved"}]

AlertTypes ==
  /\ rows \in Seq(AlertRow)
  /\ ltx \in [AlertTx -> OpenAlertTx \cup {NoAlertTx}]
  /\ firing \in BOOLEAN /\ blind \in BOOLEAN

\* What an open transaction knows: only an insert has no row, and found none live;
\* a refresh found its row unresolved.
Informed(x) ==
  /\ x.row \in 0..Len(rows)
  /\ x.pc = "insert" => x.alone /\ x.level \in AlertLevels
  /\ x.pc # "insert" => x.row >= 1
  /\ x.pc \in {"refresh", "refreshed"} => x.saw # "resolved" /\ x.level \in AlertLevels
AllInformed == \A t \in AlertTx : ltx[t].pc # "idle" => Informed(ltx[t])

\* At most one live row is not a twin.
OneEldest == \A r, s \in LiveRows : ~rows[r].twin /\ ~rows[s].twin => r = s
FiringIsListed == firing => LiveRows # {} \/ blind

AlertIInv == AlertTypes /\ AllInformed /\ OneEldest /\ FiringIsListed

\* Every step keeps the invariant: per action, what becomes of the rows.
LEMMA AlertStep == AlertIInv /\ [AlertsNext]_alertVars => AlertIInv'
<1> SUFFICES ASSUME AlertIInv, [AlertsNext]_alertVars PROVE AlertIInv'
  OBVIOUS
<1>0. AlertTypes /\ AllInformed /\ OneEldest /\ FiringIsListed  BY DEF AlertIInv
<1>open. ASSUME NEW t \in AlertTx, ltx[t].pc # "idle"
         PROVE  ltx[t] \in OpenAlertTx /\ Informed(ltx[t])
  BY <1>0, <1>open DEF AlertTypes, AllInformed, NoAlertTx
\* A step that leaves the rows alone.
<1>still. ASSUME NEW t \in AlertTx, NEW x \in OpenAlertTx \cup {NoAlertTx},
                 ltx' = [ltx EXCEPT ![t] = x], x # NoAlertTx => Informed(x),
                 UNCHANGED <<rows, blind>>, firing' \in {firing, FALSE}
          PROVE  AlertIInv'
  <2>1. AlertTypes'  BY <1>0, <1>still DEF AlertTypes
  <2>2. AllInformed'
    <3> SUFFICES ASSUME NEW o \in AlertTx, ltx'[o].pc # "idle" PROVE Informed(ltx[o])'
      BY DEF AllInformed, Informed
    <3>1. CASE o = t
      <4>1. ltx'[o] = x /\ x # NoAlertTx
        BY <3>1, <1>0, <1>still DEF AlertTypes, NoAlertTx
      <4> QED BY <4>1, <1>still DEF Informed
    <3>2. CASE o # t
      <4>1. ltx'[o] = ltx[o]  BY <3>2, <1>0, <1>still DEF AlertTypes
      <4> QED BY <4>1, <1>open, <1>still DEF Informed
    <3> QED BY <3>1, <3>2
  <2>3. LiveRows' = LiveRows  BY <1>still DEF LiveRows
  <2>4. OneEldest'  BY <1>0, <1>still, <2>3 DEF OneEldest
  <2>5. FiringIsListed'  BY <1>0, <1>still, <2>3 DEF FiringIsListed, AlertTypes
  <2> QED BY <2>1, <2>2, <2>4, <2>5 DEF AlertIInv
\* A commit: the transaction ends and one row is another.
<1>commit. ASSUME NEW t \in AlertTx, EndAlert(t), NEW n \in Seq(AlertRow), rows' = n,
                  Len(n) >= Len(rows), firing' \in BOOLEAN, blind' \in BOOLEAN,
                  OneEldest', FiringIsListed'
           PROVE  AlertIInv'
  <2>1. AlertTypes'  BY <1>0, <1>commit DEF AlertTypes, EndAlert
  <2>2. AllInformed'
    <3> SUFFICES ASSUME NEW o \in AlertTx, ltx'[o].pc # "idle" PROVE Informed(ltx[o])'
      BY DEF AllInformed, Informed
    <3>1. o # t /\ ltx'[o] = ltx[o]
      BY <1>0, <1>commit DEF AlertTypes, EndAlert, NoAlertTx
    <3>2. ltx[o] \in OpenAlertTx /\ Informed(ltx[o])  BY <3>1, <1>open
    <3>3. ltx[o].row \in 0..Len(n)
      <4>1. Len(rows) \in Nat /\ Len(n) \in Nat  BY <1>0, <1>commit DEF AlertTypes
      <4> QED BY <4>1, <3>2, <1>commit DEF Informed
    <3> QED BY <3>1, <3>2, <3>3, <1>commit DEF Informed
  <2> QED BY <1>commit, <2>1, <2>2 DEF AlertIInv
<1>len. Len(rows) \in Nat /\ DOMAIN rows = 1..Len(rows)  BY <1>0 DEF AlertTypes
<1>live. LiveRows \subseteq 1..Len(rows)  BY <1>len DEF LiveRows
<1>1. ASSUME NEW t \in AlertTx, NEW level \in AlertLevels, DetectRead(t, level)
      PROVE  AlertIInv'
  <2>1. PICK row \in IF LiveRows = {} THEN {0} ELSE LiveRows :
               BeginAlert(t, IF row = 0 THEN "insert" ELSE "refresh", row, level)
    BY <1>1 DEF DetectRead, Matching
  <2> DEFINE x == [pc |-> IF row = 0 THEN "insert" ELSE "refresh", row |-> row,
                   level |-> level, held |-> {}, alone |-> LiveRows = {},
                   saw |-> IF row = 0 THEN "none" ELSE rows[row].status]
  <2>2. CASE row = 0
    <3>1. LiveRows = {}  BY <2>1, <2>2, <1>live
    <3>2. x = [pc |-> "insert", row |-> 0, level |-> level, held |-> {}, alone |-> TRUE,
               saw |-> "none"]
      BY <2>2, <3>1
    <3>3. x \in OpenAlertTx /\ Informed(x)
      <4> HIDE DEF x
      <4> QED BY <3>2, <1>len DEF OpenAlertTx, Informed
    <3>4. ltx' = [ltx EXCEPT ![t] = x] /\ UNCHANGED <<rows, firing, blind>>
      BY <2>1 DEF BeginAlert
    <3> HIDE DEF x
    <3> QED BY <3>3, <3>4, <1>still
  <2>3. CASE row # 0
    <3>1. row \in LiveRows /\ row \in 1..Len(rows) /\ rows[row] \in AlertRow
      BY <2>1, <2>3, <1>live, <1>len, <1>0 DEF AlertTypes
    <3>2. rows[row].status \in {"open", "acknowledged", "resolved"}
          /\ rows[row].status # "resolved"
      BY <3>1 DEF AlertRow, LiveRows
    <3>3. x \in OpenAlertTx
      BY <2>3, <3>1, <3>2, <1>len DEF OpenAlertTx
    <3>4. Informed(x)  BY <2>3, <3>1, <3>2, <1>len DEF Informed
    <3>5. ltx' = [ltx EXCEPT ![t] = x] /\ UNCHANGED <<rows, firing, blind>>
      BY <2>1 DEF BeginAlert
    <3> HIDE DEF x
    <3> QED BY <3>3, <3>4, <3>5, <1>still
  <2> QED BY <2>2, <2>3
<1>2. ASSUME NEW t \in AlertTx, NEW r \in DOMAIN rows, AcknowledgeRead(t, r) \/ ResolveRead(t, r)
      PROVE  AlertIInv'
  <2>1. r \in 1..Len(rows) /\ r # 0 /\ rows[r] \in AlertRow  BY <1>0, <1>len DEF AlertTypes
  <2>2. PICK pc \in {"acknowledge", "resolve"} : BeginAlert(t, pc, r, "none")
    BY <1>2 DEF AcknowledgeRead, ResolveRead
  <2> DEFINE x == [pc |-> pc, row |-> r, level |-> "none", held |-> {},
                   alone |-> LiveRows = {}, saw |-> rows[r].status]
  <2>3. x \in OpenAlertTx /\ Informed(x)
    BY <2>1, <1>len DEF OpenAlertTx, Informed, AlertRow
  <2>4. ltx' = [ltx EXCEPT ![t] = x] /\ UNCHANGED <<rows, firing, blind>>
    BY <2>1, <2>2 DEF BeginAlert
  <2> HIDE DEF x
  <2> QED BY <2>3, <2>4, <1>still
<1>3. ASSUME NEW t \in AlertTx, RefreshRow(t) PROVE AlertIInv'
  <2> DEFINE x == [ltx[t] EXCEPT !.held = {ltx[t].row}, !.pc = "refreshed"]
  <2>1. ltx[t] \in OpenAlertTx /\ Informed(ltx[t]) /\ ltx[t].pc = "refresh"
    BY <1>3, <1>open DEF RefreshRow
  <2>2. x \in OpenAlertTx /\ Informed(x)
    BY <2>1 DEF OpenAlertTx, Informed
  <2>3. ltx' = [ltx EXCEPT ![t] = x] /\ UNCHANGED <<rows, firing, blind>>
    BY <1>3, <1>0 DEF RefreshRow, AlertTypes
  <2> HIDE DEF x
  <2> QED BY <2>2, <2>3, <1>still
<1>4. ASSUME NEW t \in AlertTx, AbortAlert(t) PROVE AlertIInv'
  BY <1>4, <1>still DEF AbortAlert, EndAlert
<1>5. ASSUME NEW t \in AlertTx, RefreshRowCommit(t) PROVE AlertIInv'
  <2> DEFINE x == ltx[t]
             n == [rows EXCEPT ![x.row].level = x.level]
  <2>1. x \in OpenAlertTx /\ Informed(x) /\ x.pc = "refreshed"
    BY <1>5, <1>open DEF RefreshRowCommit
  <2>2. /\ x.row \in 1..Len(rows) /\ rows[x.row] \in AlertRow /\ x.level \in AlertLevels
        /\ x.saw # "resolved"
    BY <2>1, <1>0, <1>len DEF Informed, OpenAlertTx, AlertTypes
  <2>3. n \in Seq(AlertRow) /\ Len(n) = Len(rows) /\ DOMAIN n = DOMAIN rows
    BY <2>2, <1>0 DEF AlertTypes, AlertRow
  <2>4. \A r \in DOMAIN rows : n[r].status = rows[r].status /\ n[r].twin = rows[r].twin
    BY <2>2, <1>0 DEF AlertTypes, AlertRow
  <2>5. /\ rows' = n /\ firing' = TRUE
        /\ blind' = (blind \/ (x.saw # "resolved" /\ rows[x.row].status = "resolved"))
    BY <1>5 DEF RefreshRowCommit
  <2> HIDE DEF x, n
  <2>6. LiveRows' = LiveRows  BY <2>3, <2>4, <2>5 DEF LiveRows
  <2>7. OneEldest'  BY <1>0, <2>4, <2>5, <2>6 DEF OneEldest, LiveRows
  <2>8. x.row \in LiveRows \/ rows[x.row].status = "resolved"
    BY <2>2, <1>len DEF LiveRows
  <2>9. FiringIsListed' /\ firing' \in BOOLEAN /\ blind' \in BOOLEAN
    BY <2>2, <2>5, <2>6, <2>8, <1>0 DEF FiringIsListed, AlertTypes
  <2> QED BY <1>5, <2>3, <2>5, <2>7, <2>9, <1>commit, <1>len DEF RefreshRowCommit
<1>6. ASSUME NEW t \in AlertTx, InsertCommit(t) PROVE AlertIInv'
  <2> DEFINE x == ltx[t]
             row == [status |-> "open", level |-> x.level, twin |-> x.alone /\ LiveRows # {}]
             n == Append(rows, row)
  <2>1. x \in OpenAlertTx /\ Informed(x) /\ x.pc = "insert"
    BY <1>6, <1>open DEF InsertCommit
  <2>2. x.alone = TRUE /\ x.level \in AlertLevels
    BY <2>1 DEF Informed, OpenAlertTx
  <2>3. row \in AlertRow /\ row.status = "open" /\ row.twin = (LiveRows # {})
    BY <2>2 DEF AlertRow
  <2>4. rows' = n /\ firing' = TRUE /\ UNCHANGED blind  BY <1>6 DEF InsertCommit
  <2> HIDE DEF x, row
  <2>5. /\ n \in Seq(AlertRow) /\ Len(n) = Len(rows) + 1 /\ n[Len(rows) + 1] = row
        /\ \A r \in DOMAIN rows : n[r] = rows[r]
        /\ DOMAIN n = DOMAIN rows \cup {Len(rows) + 1}
    BY <2>3, <1>0, <1>len DEF AlertTypes
  <2> HIDE DEF n
  <2>6. LiveRows' = LiveRows \cup {Len(rows) + 1}
    <3>1. LiveRows' = {r \in DOMAIN rows \cup {Len(rows) + 1} : n[r].status # "resolved"}
      BY <2>4, <2>5 DEF LiveRows
    <3> QED BY <3>1, <2>3, <2>5 DEF LiveRows
  <2>7. OneEldest'
    <3> SUFFICES ASSUME NEW r \in LiveRows', NEW s \in LiveRows', ~n[r].twin, ~n[s].twin
                 PROVE  r = s
      BY <2>4 DEF OneEldest
    <3>1. CASE LiveRows = {}  BY <3>1, <2>6
    <3>2. CASE LiveRows # {}
      <4>1. row.twin  BY <3>2, <2>3
      <4>2. r \in LiveRows /\ s \in LiveRows  BY <4>1, <2>5, <2>6
      <4>3. n[r] = rows[r] /\ n[s] = rows[s]  BY <4>2, <2>5 DEF LiveRows
      <4> QED BY <4>2, <4>3, <1>0 DEF OneEldest
    <3> QED BY <3>1, <3>2
  <2>8. FiringIsListed'  BY <2>6 DEF FiringIsListed
  <2>9. firing' \in BOOLEAN /\ blind' \in BOOLEAN  BY <2>4, <1>0 DEF AlertTypes
  <2> QED BY <1>6, <2>4, <2>5, <2>7, <2>8, <2>9, <1>commit, <1>len DEF InsertCommit
<1>7. ASSUME NEW t \in AlertTx, AcknowledgeCommit(t) PROVE AlertIInv'
  <2> DEFINE x == ltx[t]
             r == x.row
             new == [rows[r] EXCEPT !.status = "acknowledged",
                                    !.twin = @ \/ (r \notin LiveRows /\ LiveRows # {})]
             n == [rows EXCEPT ![r] = new]
  <2>1. x \in OpenAlertTx /\ Informed(x) /\ x.pc = "acknowledge"
    BY <1>7, <1>open DEF AcknowledgeCommit
  <2>2. r \in 1..Len(rows) /\ r \in DOMAIN rows /\ rows[r] \in AlertRow
    BY <2>1, <1>0, <1>len DEF Informed, OpenAlertTx, AlertTypes
  <2>3. CASE x.saw = "acknowledged"
    <3>1. ltx' = [ltx EXCEPT ![t] = NoAlertTx] /\ UNCHANGED <<rows, firing, blind>>
      BY <1>7, <2>3 DEF AcknowledgeCommit, EndAlert
    <3> QED BY <3>1, <1>still
  <2>4. CASE x.saw # "acknowledged"
    <3>1. rows' = n /\ UNCHANGED <<firing, blind>>
      <4>1. rows' = [rows EXCEPT ![r].status = "acknowledged",
                                 ![r].twin = @ \/ (r \notin LiveRows /\ LiveRows # {})]
        BY <1>7, <2>4 DEF AcknowledgeCommit
      <4>2. @ = n  BY <2>2, <1>0 DEF AlertTypes, AlertRow
      <4> QED BY <1>7, <4>1, <4>2 DEF AcknowledgeCommit
    <3>2. /\ new \in AlertRow /\ new.status = "acknowledged"
          /\ new.twin = (rows[r].twin \/ (r \notin LiveRows /\ LiveRows # {}))
      BY <2>2 DEF AlertRow
    <3> HIDE DEF x, r, new
    <3>3. /\ n \in Seq(AlertRow) /\ Len(n) = Len(rows) /\ DOMAIN n = DOMAIN rows
          /\ n[r] = new /\ \A s \in DOMAIN rows \ {r} : n[s] = rows[s]
      BY <2>2, <3>2, <1>0 DEF AlertTypes
    <3> HIDE DEF n
    <3>4. LiveRows' = LiveRows \cup {r}
      <4>1. LiveRows' = {s \in DOMAIN rows : n[s].status # "resolved"}
        BY <3>1, <3>3 DEF LiveRows
      <4> QED BY <4>1, <2>2, <3>2, <3>3 DEF LiveRows
    <3>5. OneEldest'
      <4> SUFFICES ASSUME NEW p \in LiveRows', NEW s \in LiveRows', ~n[p].twin, ~n[s].twin
                   PROVE  p = s
        BY <3>1 DEF OneEldest
      <4>1. CASE LiveRows = {}  BY <4>1, <3>4
      <4>2. CASE LiveRows # {}
        <5>1. \A q \in LiveRows' : ~n[q].twin => q \in LiveRows /\ ~rows[q].twin
          BY <4>2, <3>2, <3>3, <3>4, <2>2 DEF LiveRows
        <5> QED BY <5>1, <1>0 DEF OneEldest
      <4> QED BY <4>1, <4>2
    <3>6. FiringIsListed'  BY <3>4 DEF FiringIsListed
    <3>7. firing' \in BOOLEAN /\ blind' \in BOOLEAN  BY <3>1, <1>0 DEF AlertTypes
    <3>8. EndAlert(t) /\ Len(n) >= Len(rows)  BY <1>7, <3>3, <1>len DEF AcknowledgeCommit
    <3> QED BY <3>1, <3>3, <3>5, <3>6, <3>7, <3>8, <1>commit
  <2> QED BY <2>3, <2>4
<1>8. ASSUME NEW t \in AlertTx, ResolveCommit(t) PROVE AlertIInv'
  <2> DEFINE x == ltx[t]
             r == x.row
             new == [rows[r] EXCEPT !.status = "resolved", !.twin = FALSE]
             n == [rows EXCEPT ![r] = new]
  <2>1. x \in OpenAlertTx /\ Informed(x) /\ x.pc = "resolve"
    BY <1>8, <1>open DEF ResolveCommit
  <2>2. r \in 1..Len(rows) /\ r \in DOMAIN rows /\ rows[r] \in AlertRow
    BY <2>1, <1>0, <1>len DEF Informed, OpenAlertTx, AlertTypes
  <2>3. CASE x.saw = "resolved"
    <3>1. ltx' = [ltx EXCEPT ![t] = NoAlertTx] /\ UNCHANGED <<rows, blind>> /\ firing' = FALSE
      BY <1>8, <2>3 DEF ResolveCommit, EndAlert
    <3> QED BY <3>1, <1>still
  <2>4. CASE x.saw # "resolved"
    <3>1. rows' = n /\ firing' = FALSE /\ UNCHANGED blind
      <4>1. rows' = [rows EXCEPT ![r].status = "resolved", ![r].twin = FALSE]
        BY <1>8, <2>4 DEF ResolveCommit
      <4>2. @ = n  BY <2>2, <1>0 DEF AlertTypes, AlertRow
      <4> QED BY <1>8, <4>1, <4>2 DEF ResolveCommit
    <3>2. new \in AlertRow /\ new.status = "resolved"  BY <2>2 DEF AlertRow
    <3> HIDE DEF x, r, new
    <3>3. /\ n \in Seq(AlertRow) /\ Len(n) = Len(rows) /\ DOMAIN n = DOMAIN rows
          /\ n[r] = new /\ \A s \in DOMAIN rows \ {r} : n[s] = rows[s]
      BY <2>2, <3>2, <1>0 DEF AlertTypes
    <3> HIDE DEF n
    <3>4. LiveRows' = LiveRows \ {r}
      <4>1. LiveRows' = {s \in DOMAIN rows : n[s].status # "resolved"}
        BY <3>1, <3>3 DEF LiveRows
      <4> QED BY <4>1, <2>2, <3>2, <3>3 DEF LiveRows
    <3>5. OneEldest'
      BY <3>1, <3>3, <3>4, <1>0 DEF OneEldest, LiveRows
    <3>6. FiringIsListed'  BY <3>1 DEF FiringIsListed
    <3>7. firing' \in BOOLEAN /\ blind' \in BOOLEAN  BY <3>1, <1>0 DEF AlertTypes
    <3>8. EndAlert(t) /\ Len(n) >= Len(rows)  BY <1>8, <3>3, <1>len DEF ResolveCommit
    <3> QED BY <3>1, <3>3, <3>5, <3>6, <3>7, <3>8, <1>commit
  <2> QED BY <2>3, <2>4
<1>9. CASE UNCHANGED alertVars
  BY <1>9, <1>0 DEF alertVars, AlertIInv, AlertTypes, AllInformed, Informed, OneEldest,
     FiringIsListed, LiveRows
<1> QED BY <1>1, <1>2, <1>3, <1>4, <1>5, <1>6, <1>7, <1>8, <1>9 DEF AlertsNext

LEMMA AlertInvariant == AlertsSpec => []AlertIInv
<1>1. AlertsInit => AlertIInv
  <2> SUFFICES ASSUME AlertsInit PROVE AlertIInv  OBVIOUS
  <2>1. AlertTypes
    <3>1. rows \in Seq(AlertRow)  BY DEF AlertsInit
    <3>2. ltx \in [AlertTx -> OpenAlertTx \cup {NoAlertTx}]  BY DEF AlertsInit
    <3>3. firing \in BOOLEAN /\ blind \in BOOLEAN  BY DEF AlertsInit
    <3> QED BY <3>1, <3>2, <3>3 DEF AlertTypes
  <2>2. AllInformed  BY DEF AlertsInit, AllInformed, NoAlertTx
  <2>3. LiveRows = {} /\ firing = FALSE  BY DEF AlertsInit, LiveRows
  <2> QED BY <2>1, <2>2, <2>3 DEF AlertIInv, OneEldest, FiringIsListed
<1> QED BY <1>1, AlertStep, PTL DEF AlertsSpec

\* The shape of the alert rows and of the transactions on them.
THEOREM AlertsWellTyped == AlertsSpec => []AlertsTypeOK
<1>1. AlertIInv => AlertsTypeOK
  <2> SUFFICES ASSUME AlertIInv PROVE AlertsTypeOK  OBVIOUS
  <2>1. \A r \in DOMAIN rows : rows[r] \in AlertRow  BY DEF AlertIInv, AlertTypes
  <2> QED BY <2>1 DEF AlertIInv, AlertTypes, AlertRow, AllInformed, Informed, AlertsTypeOK
<1> QED BY <1>1, AlertInvariant, PTL

\* Whatever operators and overlapping detections do, what was detected and not
\* resolved since is on the list, and once (repositories/alerts.py
\* upsert_from_detection, acknowledge).
THEOREM FiringAlwaysListedOnce == AlertsSpec => []FiringIsListedOnce
<1>1. AlertIInv => FiringIsListedOnce
  <2> SUFFICES ASSUME AlertIInv PROVE FiringIsListedOnce  OBVIOUS
  <2> DEFINE eldest == {r \in LiveRows : ~rows[r].twin}
  <2>1. Cardinality(eldest) =< 1
    <3>1. CASE eldest = {}  BY <3>1, FS_EmptySet
    <3>2. CASE eldest # {}
      <4>1. PICK r \in eldest : TRUE  BY <3>2
      <4>2. eldest = {r}  BY <4>1 DEF AlertIInv, OneEldest
      <4> QED BY <4>2, FS_Singleton
    <3> QED BY <3>1, <3>2
  <2> QED BY <2>1 DEF AlertIInv, FiringIsListed, FiringIsListedOnce
<1> QED BY <1>1, AlertInvariant, PTL

-----------------------------------------------------------------------------
(* Ingestion: the records of a batch *)

RecordSeqs == {b.records : b \in Batches}

\* A nonempty set of positions has a first.
LEMMA FirstPosition ==
  ASSUME NEW n \in Nat, NEW T \in SUBSET (1..n), T # {}
  PROVE  \E i \in T : \A j \in T : i =< j
<1> DEFINE Upto(i) == 1..i
           Sets == {Upto(i) : i \in T}
<1>1. IsFiniteSet(1..n)  BY FS_Interval
<1>2. Sets \subseteq SUBSET (1..n) /\ Sets # {}
  <2>1. \A i \in T : Upto(i) \in SUBSET (1..n)  OBVIOUS
  <2> HIDE DEF Upto
  <2> QED BY <2>1
<1>3. \E s \in Sets : \A t \in Sets : t \subseteq s => t = s
  <2> DEFINE S == 1..n
  <2>1. IsFiniteSet(S) /\ Sets \subseteq SUBSET S /\ Sets # {}  BY <1>1, <1>2
  <2> HIDE DEF S, Sets
  <2> QED BY <2>1, SomeMinimal
<1>4. PICK i \in T : \A t \in Sets : t \subseteq Upto(i) => t = Upto(i)
  <2> HIDE DEF Upto
  <2> QED BY <1>3
<1>5. \A j \in T : i =< j
  <2> SUFFICES ASSUME NEW j \in T, j < i PROVE FALSE  OBVIOUS
  <2>1. Upto(j) \subseteq Upto(i) /\ Upto(j) \in Sets  OBVIOUS
  <2>2. Upto(j) = Upto(i)  BY <1>4, <2>1
  <2>3. i \in Upto(i) /\ i \notin Upto(j)  OBVIOUS
  <2> QED BY <2>2, <2>3
<1> QED BY <1>5

LEMMA Positions ==
  ASSUME NEW b \in RecordSeqs
  PROVE  /\ Len(b) \in Nat /\ DOMAIN b = 1..Len(b)
         /\ Kept(b) \subseteq DOMAIN b /\ IsFiniteSet(DOMAIN b)
         /\ \A i \in DOMAIN b : \A c \in Measured : b[i][c] \in Int \cup {Absent}
<1>1. b \in Seq(Range(b))
      /\ \A i \in DOMAIN b : \A c \in {"impressions", "clicks"} : b[i][c] \in Int \cup {Absent}
  BY IngestBounds DEF RecordSeqs
<1>2. Len(b) \in Nat /\ DOMAIN b = 1..Len(b)
  <2> DEFINE U == Range(b)
  <2>1. b \in Seq(U)  BY <1>1
  <2> HIDE DEF U
  <2> QED BY <2>1
<1>3. IsFiniteSet(DOMAIN b)  BY <1>2, FS_Interval
<1>4. Kept(b) \subseteq DOMAIN b  BY DEF Kept, AttributedIn
<1> QED BY <1>1, <1>2, <1>3, <1>4 DEF Measured

\* A kept record is attributed to one slot, of its campaign, and no other to the same.
LEMMA KeptSlots ==
  ASSUME NEW b \in RecordSeqs, NEW i \in Kept(b)
  PROVE  /\ SlotOf(b[i]) \in Slots /\ SlotOf(b[i])[1] = TargetOf(b[i])
         /\ \A j \in Kept(b) : SlotOf(b[i]) = SlotOf(b[j]) => i = j
<1>1. i \in AttributedIn(b) /\ i \notin Colliding(b)  BY DEF Kept
<1>2. Attributable(b[i])  BY <1>1 DEF AttributedIn, UnresolvedIn
<1>3. TargetOf(b[i]) \in Campaigns
  <2>1. Named(b[i]) # {}
    <3>1. Cardinality(Named(b[i])) = 1  BY <1>2 DEF Attributable
    <3> QED BY <3>1, FS_EmptySet
  <2> QED BY <2>1, <1>2 DEF TargetOf, Attributable
<1>4. SlotOf(b[i]) \in Slots
  <2>1. CASE b[i].creative = Absent  BY <1>3, <2>1 DEF SlotOf, Slots
  <2>2. CASE b[i].creative # Absent  BY <1>2, <2>2 DEF SlotOf, Slots, Attributable
  <2> QED BY <2>1, <2>2
<1>5. \A j \in Kept(b) : SlotOf(b[i]) = SlotOf(b[j]) => i = j
  BY <1>1 DEF Kept, Colliding
<1> QED BY <1>4, <1>5 DEF SlotOf

\* What becomes of the records adds up: every one of them is malformed, unresolved,
\* colliding or kept, and the kept ones have a slot each.
LEMMA EveryRecordCounted ==
  ASSUME NEW b \in RecordSeqs, NEW known
  PROVE  LET named == {SlotOf(b[i]) : i \in Kept(b)}
             out == Cardinality(Malformed(b) \cup Colliding(b))
         IN  /\ Cardinality(named \ known) \in Nat /\ Cardinality(named \cap known) \in Nat
             /\ out \in Nat /\ Cardinality(UnresolvedIn(b)) \in Nat
             /\ Len(b) = Cardinality(named \ known) + out
                         + Cardinality(named \cap known) + Cardinality(UnresolvedIn(b))
<1> DEFINE named == {SlotOf(b[i]) : i \in Kept(b)}
           A == Malformed(b) \cup Colliding(b)
           B == UnresolvedIn(b)
           K == Kept(b)
           D == DOMAIN b
<1>1. /\ D = A \cup B \cup K /\ A \cap B = {} /\ A \cap K = {} /\ B \cap K = {}
  BY DEF Malformed, Colliding, UnresolvedIn, AttributedIn, Kept
<1>2. IsFiniteSet(D) /\ Cardinality(D) = Len(b)
  <2>1. Len(b) \in Nat /\ D = 1..Len(b) /\ IsFiniteSet(D)  BY Positions
  <2> DEFINE n == Len(b)
  <2>2. Cardinality(1..n) = n
    <3>1. n \in Nat  BY <2>1
    <3> HIDE DEF n
    <3>2. Cardinality(1..n) = IF 1 > n THEN 0 ELSE n - 1 + 1  BY <3>1, FS_Interval
    <3> QED BY <3>1, <3>2
  <2> QED BY <2>1, <2>2
<1>3. IsFiniteSet(named) /\ Cardinality(named) = Cardinality(K)
  <2> DEFINE f == [i \in K |-> SlotOf(b[i])]
  <2>1. f \in Bijection(K, named)
    <3>1. \A i, j \in K : SlotOf(b[i]) = SlotOf(b[j]) => i = j  BY KeptSlots
    <3>2. f \in Injection(K, named)  BY <3>1 DEF Injection, IsInjective
    <3>3. f \in Surjection(K, named)  BY DEF Surjection
    <3> QED BY <3>2, <3>3 DEF Bijection
  <2>2. IsFiniteSet(K)
    <3>1. K \in SUBSET D  BY <1>1
    <3> QED BY <1>2, <3>1, FS_Subset
  <2>3. ExistsBijection(K, named)  BY <2>1 DEF ExistsBijection
  <2> HIDE DEF named, K
  <2> QED BY <2>2, <2>3, FS_Bijection
<1> HIDE DEF named, A, B, K, D
<1>4. IsFiniteSet(A) /\ IsFiniteSet(B) /\ IsFiniteSet(K)
  <2>1. A \in SUBSET D /\ B \in SUBSET D /\ K \in SUBSET D  BY <1>1
  <2> QED BY <2>1, <1>2, FS_Subset
<1>5. /\ Cardinality(A \cup B) = Cardinality(A) + Cardinality(B) /\ IsFiniteSet(A \cup B)
      /\ Cardinality(A) \in Nat /\ Cardinality(B) \in Nat /\ Cardinality(K) \in Nat
  <2>1. Cardinality(A \cap B) = 0  BY <1>1, FS_EmptySet
  <2>2. Cardinality(A) \in Nat /\ Cardinality(B) \in Nat /\ Cardinality(K) \in Nat
    BY <1>4, FS_CardinalityType
  <2>3. Cardinality(A \cup B) = Cardinality(A) + Cardinality(B) - Cardinality(A \cap B)
        /\ IsFiniteSet(A \cup B)
    BY <1>4, FS_Union
  <2> QED BY <2>1, <2>2, <2>3
<1>6. Cardinality(D) = Cardinality(A) + Cardinality(B) + Cardinality(K)
  <2>1. (A \cup B) \cap K = {} /\ D = (A \cup B) \cup K  BY <1>1
  <2>2. Cardinality((A \cup B) \cap K) = 0  BY <2>1, FS_EmptySet
  <2>3. Cardinality((A \cup B) \cup K)
          = Cardinality(A \cup B) + Cardinality(K) - Cardinality((A \cup B) \cap K)
    BY <1>4, <1>5, FS_Union
  <2> QED BY <2>1, <2>2, <2>3, <1>5
<1>7. /\ Cardinality(named \ known) = Cardinality(named) - Cardinality(named \cap known)
      /\ Cardinality(named \ known) \in Nat /\ Cardinality(named \cap known) \in Nat
  <2>1. /\ IsFiniteSet(named \ known) /\ IsFiniteSet(named \cap known)
        /\ Cardinality(named \ known) = Cardinality(named) - Cardinality(named \cap known)
    BY <1>3, FS_Difference, FS_Intersection
  <2> QED BY <2>1, FS_CardinalityType
<1>8. Len(b) = Cardinality(named \ known) + Cardinality(A)
               + Cardinality(named \cap known) + Cardinality(B)
  BY <1>2, <1>3, <1>5, <1>6, <1>7
<1> QED BY <1>5, <1>7, <1>8 DEF named, A, B
-----------------------------------------------------------------------------
(* Ingestion: the last word *)

Columns == DOMAIN NoRow
IsRow(r) == r = [c \in Columns |-> r[c]]

\* The rows d and the reports q are parameters, so that a state and its successor
\* are compared by the same operators.
Spoke(q, s, c) == {n \in DOMAIN q : ~q[n].dry /\ s \in DOMAIN q[n].said
                                    /\ c \in DOMAIN q[n].said[s]}
LastSpoke(q, s, c) == {n \in Spoke(q, s, c) : \A m \in Spoke(q, s, c) : m > n => q[m].begun < n}
Creators(q, s) == {n \in DOMAIN q : ~q[n].dry /\ s \in q[n].created}

\* The column holds v, or what a batch that committed after the b-th made of it.
Since(d, q, s, c, v, b) ==
  d[s][c] = v \/ \E n \in LastSpoke(q, s, c) : n > b /\ d[s][c] = q[n].said[s][c]

\* What the transaction x says of a slot, and the slot it is at.
SlotsOf(x) == {SlotOf(x.records[i]) : i \in Kept(x.records)}
Word(x, s) ==
  LET r == x.records[CHOOSE i \in Kept(x.records) : SlotOf(x.records[i]) = s]
  IN  [c \in Asserts(r) \cup {"feed", "batch"} |->
         CASE c = "feed" -> x.feed [] c = "batch" -> x.batch [] OTHER -> r[c]]
Turn(x) == CHOOSE i \in x.todo : \A j \in x.todo : i =< j
TurnSlot(x) == SlotOf(x.records[Turn(x)])

TxFields == {"pc", "batch", "feed", "dry", "records", "known", "todo", "begun",
             "loaded", "drafts"}

\* What a draft leaves out of the batch's word the row already held when it was loaded.
DraftSound(x, d, q, s) ==
  /\ \A c \in DOMAIN x.drafts[s] :
       c \in DOMAIN Word(x, s) /\ x.drafts[s][c] = Word(x, s)[c]
  /\ \A c \in DOMAIN Word(x, s) \ DOMAIN x.drafts[s] :
       Since(d, q, s, c, Word(x, s)[c], x.begun)
  /\ "batch" \in DOMAIN x.drafts[s] \/ d[s] # NoRow

LoadedSound(x, d, q) ==
  /\ x.todo # {} /\ IsRow(x.loaded)
  /\ x.loaded # NoRow => d[TurnSlot(x)] # NoRow
  /\ \A c \in Columns : Since(d, q, TurnSlot(x), c, x.loaded[c], x.begun)

Sound(x, d, q) ==
  /\ DOMAIN x = TxFields /\ x.pc \in {"writing", "loaded"} /\ x.dry \in BOOLEAN
  /\ x.batch \in Nat \ {0} /\ x.begun \in 0..Len(q)
  /\ x.records \in RecordSeqs /\ x.todo \subseteq Kept(x.records)
  /\ IF x.dry THEN x.todo = {} /\ DOMAIN x.drafts = {}
     ELSE DOMAIN x.drafts = {SlotOf(x.records[i]) : i \in Kept(x.records) \ x.todo}
  /\ \A s \in DOMAIN x.drafts : DraftSound(x, d, q, s)
  /\ x.pc = "loaded" => LoadedSound(x, d, q)
  /\ \A s \in x.known : s \in Slots /\ d[s] # NoRow
  /\ \A s \in SlotsOf(x) \ x.known : \A n \in Creators(q, s) : x.begun < n

RowsSound(d) ==
  /\ d = [s \in Slots |-> d[s]]
  /\ \A s \in Slots : IsRow(d[s]) /\ d[s].batch \in Nat /\ (d[s] # NoRow => d[s].batch # 0)

LastWords(d, q) ==
  \A s \in Slots : \A c \in Columns :
    IF Spoke(q, s, c) = {} THEN d[s][c] = NoRow[c]
    ELSE \E n \in LastSpoke(q, s, c) : d[s][c] = q[n].said[s][c]

CreatedOnce(d, q) ==
  \A s \in Slots : /\ d[s] # NoRow <=> Creators(q, s) # {}
                   /\ \A m, n \in Creators(q, s) : m > n => q[m].begun < n

AddsUp(r) == r.received = Cardinality(r.created) + r.rejected
                          + Cardinality(r.updated) + r.unresolved

IngestIInv ==
  /\ DOMAIN itx = IngestTx /\ opened \in Nat /\ reports \in Seq(Range(reports))
  /\ RowsSound(daily)
  /\ \A t \in IngestTx : itx[t].pc # "idle" => Sound(itx[t], daily, reports)
  /\ LastWords(daily, reports) /\ CreatedOnce(daily, reports)
  /\ \A n \in DOMAIN reports : AddsUp(reports[n])

\* The first record left is one of those left.
LEMMA TurnIsLeft ==
  ASSUME NEW x, x.records \in RecordSeqs, x.todo \subseteq Kept(x.records), x.todo # {}
  PROVE  Turn(x) \in x.todo
<1> DEFINE b == x.records
           n == Len(b)
<1>1. n \in Nat /\ Kept(b) \subseteq 1..n  BY Positions
<1>2. x.todo \in SUBSET (1..n)  BY <1>1
<1> HIDE DEF n
<1>3. \E i \in x.todo : \A j \in x.todo : i =< j  BY <1>1, <1>2, FirstPosition
<1> QED BY <1>3 DEF Turn

\* The word of a slot is the record kept for it, with its provenance.
LEMMA WordOfSlot ==
  ASSUME NEW x, x.records \in RecordSeqs, NEW i \in Kept(x.records)
  PROVE  LET r == x.records[i] IN
         /\ Word(x, SlotOf(r)) = [c \in Asserts(r) \cup {"feed", "batch"} |->
                CASE c = "feed" -> x.feed [] c = "batch" -> x.batch [] OTHER -> r[c]]
         /\ DOMAIN Word(x, SlotOf(r)) \subseteq Columns
         /\ "batch" \in DOMAIN Word(x, SlotOf(r)) /\ Word(x, SlotOf(r)).batch = x.batch
<1> DEFINE r == x.records[i]
           j == CHOOSE k \in Kept(x.records) : SlotOf(x.records[k]) = SlotOf(r)
<1>1. j \in Kept(x.records) /\ SlotOf(x.records[j]) = SlotOf(r)  OBVIOUS
<1>2. j = i
  <2> HIDE DEF j
  <2> QED BY <1>1, KeptSlots
<1>3. Word(x, SlotOf(r)) = [c \in Asserts(x.records[j]) \cup {"feed", "batch"} |->
         CASE c = "feed" -> x.feed [] c = "batch" -> x.batch [] OTHER -> x.records[j][c]]
  BY DEF Word
<1>4. Word(x, SlotOf(r)) = [c \in Asserts(r) \cup {"feed", "batch"} |->
         CASE c = "feed" -> x.feed [] c = "batch" -> x.batch [] OTHER -> r[c]]
  <2> HIDE DEF j
  <2> QED BY <1>2, <1>3
<1>5. Asserts(r) \subseteq {"impressions", "clicks"}  BY DEF Asserts, Measured
<1>6. Columns = {"impressions", "clicks", "feed", "batch"}  BY DEF Columns, NoRow
<1> QED BY <1>4, <1>5, <1>6

LEMMA Appended ==
  ASSUME NEW q, q \in Seq(Range(q)), NEW r, NEW p, p = Append(q, r)
  PROVE  /\ p \in Seq(Range(p)) /\ Len(q) \in Nat /\ Len(p) = Len(q) + 1
         /\ DOMAIN q = 1..Len(q) /\ DOMAIN p = 1..Len(p)
         /\ p[Len(p)] = r /\ \A i \in DOMAIN q : p[i] = q[i]
<1> DEFINE U == Range(q) \cup {r}
<1>1. q \in Seq(U)
  <2> DEFINE W == Range(q)
  <2>1. q \in Seq(W)  OBVIOUS
  <2>2. W \subseteq U  OBVIOUS
  <2> HIDE DEF W, U
  <2> QED BY <2>1, <2>2
<1>2. r \in U  OBVIOUS
<1> HIDE DEF U
<1>3. /\ p \in Seq(U) /\ Len(q) \in Nat /\ Len(p) = Len(q) + 1
      /\ DOMAIN q = 1..Len(q) /\ DOMAIN p = 1..Len(p)
      /\ p[Len(p)] = r /\ \A i \in DOMAIN q : p[i] = q[i]
  BY <1>1, <1>2
<1>4. p \in Seq(Range(p))
  <2>1. \A i \in 1..Len(p) : p[i] \in Range(p)  BY <1>3 DEF Range
  <2> DEFINE W == Range(p)
  <2> HIDE DEF W
  <2>2. \A i \in 1..Len(p) : p[i] \in W  BY <2>1 DEF W
  <2>3. p \in Seq(W)  BY <1>3, <2>2
  <2> QED BY <2>3 DEF W
<1> QED BY <1>3, <1>4

\* The rows d and reports q become e and p as the transaction x commits.
Lands(x, d, q, e, p) ==
  /\ RowsSound(d) /\ q \in Seq(Range(q))
  /\ Sound(x, d, q) /\ x.todo = {}
  /\ e = [s \in Slots |-> IF s \in DOMAIN x.drafts THEN Over(x.drafts[s], d[s]) ELSE d[s]]
  /\ \E r : /\ p = Append(q, r) /\ r.dry = x.dry /\ r.begun = x.begun
            /\ r.created = SlotsOf(x) \ x.known
            /\ r.said = [s \in SlotsOf(x) |-> Word(x, s)]

Speaks(x, s, c) == ~x.dry /\ s \in SlotsOf(x) /\ c \in DOMAIN Word(x, s)

\* A column the batch says nothing of stays; one it speaks of takes its word, or held
\* the word already when the batch loaded it.
LEMMA LandedRows ==
  ASSUME NEW x, NEW d, NEW q, NEW e, NEW p, Lands(x, d, q, e, p),
         NEW s \in Slots
  PROVE  /\ IsRow(e[s])
         /\ \A c \in Columns :
              IF Speaks(x, s, c)
              THEN \/ e[s][c] = Word(x, s)[c]
                   \/ e[s][c] = d[s][c] /\ Since(d, q, s, c, Word(x, s)[c], x.begun)
              ELSE e[s][c] = d[s][c]
<1>1. /\ Sound(x, d, q) /\ x.todo = {} /\ x.records \in RecordSeqs /\ x.dry \in BOOLEAN
      /\ IsRow(d[s])
      /\ e[s] = IF s \in DOMAIN x.drafts THEN Over(x.drafts[s], d[s]) ELSE d[s]
  BY DEF Lands, Sound, RowsSound
<1>2. CASE s \notin DOMAIN x.drafts
  <2>1. x.dry \/ s \notin SlotsOf(x)  BY <1>1, <1>2 DEF Sound, SlotsOf
  <2> QED BY <1>1, <1>2, <2>1 DEF Speaks
<1>3. CASE s \in DOMAIN x.drafts
  <2>1. ~x.dry /\ s \in SlotsOf(x) /\ DraftSound(x, d, q, s)
    BY <1>1, <1>3 DEF Sound, SlotsOf
  <2>2. PICK i \in Kept(x.records) : s = SlotOf(x.records[i])  BY <2>1 DEF SlotsOf
  <2>3. DOMAIN Word(x, s) \subseteq Columns  BY <1>1, <2>2, WordOfSlot
  <2>4. DOMAIN d[s] = Columns  BY <1>1 DEF IsRow
  <2>5. DOMAIN x.drafts[s] \subseteq DOMAIN Word(x, s)  BY <2>1 DEF DraftSound
  <2>6. e[s] = [c \in Columns |-> IF c \in DOMAIN x.drafts[s] THEN x.drafts[s][c]
                                  ELSE d[s][c]]
    <3>1. DOMAIN x.drafts[s] \cup DOMAIN d[s] = Columns  BY <2>3, <2>4, <2>5
    <3> QED BY <1>1, <1>3, <3>1 DEF Over
  <2>7. IsRow(e[s])  BY <2>6 DEF IsRow
  <2>8. ASSUME NEW c \in Columns
        PROVE  IF Speaks(x, s, c)
               THEN \/ e[s][c] = Word(x, s)[c]
                    \/ e[s][c] = d[s][c] /\ Since(d, q, s, c, Word(x, s)[c], x.begun)
               ELSE e[s][c] = d[s][c]
    <3>1. CASE c \in DOMAIN x.drafts[s]
      BY <2>1, <2>5, <2>6, <3>1 DEF Speaks, DraftSound
    <3>2. CASE c \notin DOMAIN x.drafts[s]
      BY <2>1, <2>6, <3>2 DEF Speaks, DraftSound
    <3> QED BY <3>1, <3>2
  <2> QED BY <2>7, <2>8
<1> QED BY <1>2, <1>3

\* The batch is the last to speak of what it speaks of; of the earlier ones, those
\* that committed while it was open remain beside it.
LEMMA LandedSpeech ==
  ASSUME NEW x, NEW d, NEW q, NEW e, NEW p, Lands(x, d, q, e, p),
         NEW s, NEW c
  PROVE  /\ Spoke(p, s, c) = IF Speaks(x, s, c) THEN Spoke(q, s, c) \cup {Len(p)}
                             ELSE Spoke(q, s, c)
         /\ \A n : n \in LastSpoke(p, s, c) <=>
              IF Speaks(x, s, c)
              THEN n = Len(p) \/ (n \in LastSpoke(q, s, c) /\ x.begun < n)
              ELSE n \in LastSpoke(q, s, c)
         /\ Speaks(x, s, c) => p[Len(p)].said[s][c] = Word(x, s)[c]
         /\ \A n \in Spoke(q, s, c) : p[n] = q[n] /\ n \in 1..Len(q)
         /\ Len(q) \in Nat /\ Len(p) = Len(q) + 1 /\ x.begun \in 0..Len(q)
<1>1. PICK r : /\ p = Append(q, r) /\ r.dry = x.dry /\ r.begun = x.begun
               /\ r.said = [z \in SlotsOf(x) |-> Word(x, z)]
  BY DEF Lands
<1>2. /\ Len(q) \in Nat /\ Len(p) = Len(q) + 1
      /\ DOMAIN q = 1..Len(q) /\ DOMAIN p = 1..Len(p)
      /\ p[Len(p)] = r /\ \A i \in DOMAIN q : p[i] = q[i]
  <2>1. q \in Seq(Range(q))  BY DEF Lands
  <2> QED BY <1>1, <2>1, Appended
<1>3. x.begun \in 0..Len(q) /\ x.dry \in BOOLEAN  BY DEF Lands, Sound
<1>4. \A n \in Spoke(q, s, c) : p[n] = q[n] /\ n \in 1..Len(q)
  BY <1>2 DEF Spoke
<1>5. DOMAIN p = DOMAIN q \cup {Len(p)} /\ Len(p) \notin DOMAIN q  BY <1>2
<1>6. Len(p) \in Spoke(p, s, c) <=> Speaks(x, s, c)
  BY <1>1, <1>2, <1>5 DEF Spoke, Speaks
<1>7. \A n \in DOMAIN q : n \in Spoke(p, s, c) <=> n \in Spoke(q, s, c)
  BY <1>2, <1>5 DEF Spoke
<1>8. Spoke(p, s, c) = IF Speaks(x, s, c) THEN Spoke(q, s, c) \cup {Len(p)}
                       ELSE Spoke(q, s, c)
  <2>1. Spoke(p, s, c) \subseteq DOMAIN p /\ Spoke(q, s, c) \subseteq DOMAIN q  BY DEF Spoke
  <2>2. CASE Speaks(x, s, c)
    <3> SUFFICES ASSUME NEW n PROVE n \in Spoke(p, s, c) <=> n \in Spoke(q, s, c) \cup {Len(p)}
      BY <2>2
    <3> QED BY <1>5, <1>6, <1>7, <2>1, <2>2
  <2>3. CASE ~Speaks(x, s, c)
    <3> SUFFICES ASSUME NEW n PROVE n \in Spoke(p, s, c) <=> n \in Spoke(q, s, c)
      BY <2>3
    <3> QED BY <1>5, <1>6, <1>7, <2>1, <2>3
  <2> QED BY <2>2, <2>3
<1>9. Speaks(x, s, c) => p[Len(p)].said[s][c] = Word(x, s)[c]
  BY <1>1, <1>2 DEF Speaks
<1>10. ASSUME NEW n
       PROVE  n \in LastSpoke(p, s, c) <=>
                IF Speaks(x, s, c)
                THEN n = Len(p) \/ (n \in LastSpoke(q, s, c) /\ x.begun < n)
                ELSE n \in LastSpoke(q, s, c)
  <2>1. p[Len(p)].begun = x.begun  BY <1>1, <1>2
  <2>2. CASE ~Speaks(x, s, c)  BY <2>2, <1>4, <1>8 DEF LastSpoke
  <2>3. CASE Speaks(x, s, c)
    <3>1. Spoke(p, s, c) = Spoke(q, s, c) \cup {Len(p)}  BY <2>3, <1>8
    <3>2. \A m \in Spoke(q, s, c) : m < Len(p) /\ m # Len(p) /\ Len(p) > m /\ ~(m > Len(p))
      BY <1>2, <1>4
    <3>3. ~(Len(p) > Len(p))  BY <1>2
    <3>4. CASE n = Len(p)
      <4>1. \A m \in Spoke(p, s, c) : ~(m > n)  BY <3>1, <3>2, <3>3, <3>4
      <4>2. n \in LastSpoke(p, s, c)  BY <3>1, <3>4, <4>1 DEF LastSpoke
      <4> QED BY <2>3, <3>4, <4>2
    <3>5. CASE n \in Spoke(q, s, c)
      BY <2>1, <2>3, <3>1, <3>2, <3>5, <1>4 DEF LastSpoke
    <3>6. CASE n \notin Spoke(p, s, c)  BY <2>3, <3>1, <3>6 DEF LastSpoke
    <3> QED BY <3>1, <3>4, <3>5, <3>6
  <2> QED BY <2>2, <2>3
<1> QED BY <1>2, <1>3, <1>4, <1>8, <1>9, <1>10

\* What a transaction saw holds on, or was overtaken by a batch that came later.
LEMMA SinceSurvives ==
  ASSUME NEW x, NEW d, NEW q, NEW e, NEW p, Lands(x, d, q, e, p),
         NEW s \in Slots, NEW c \in Columns, NEW v, NEW b \in 0..Len(q),
         Since(d, q, s, c, v, b)
  PROVE  Since(e, p, s, c, v, b)
<1> DEFINE w == Word(x, s)[c]
           k == Len(p)
<1>1. /\ Len(q) \in Nat /\ k = Len(q) + 1 /\ x.begun \in 0..Len(q)
      /\ \A n \in Spoke(q, s, c) : p[n] = q[n] /\ n \in 1..Len(q)
      /\ Speaks(x, s, c) => p[k].said[s][c] = w
  BY LandedSpeech
<1>2. \A n : n \in LastSpoke(p, s, c) <=>
        IF Speaks(x, s, c) THEN n = k \/ (n \in LastSpoke(q, s, c) /\ x.begun < n)
        ELSE n \in LastSpoke(q, s, c)
  BY LandedSpeech
<1>3. IF Speaks(x, s, c)
      THEN e[s][c] = w \/ (e[s][c] = d[s][c] /\ Since(d, q, s, c, w, x.begun))
      ELSE e[s][c] = d[s][c]
  BY LandedRows
<1>4. \A n \in LastSpoke(q, s, c) : p[n] = q[n] /\ n \in 1..Len(q)
  BY <1>1 DEF LastSpoke
<1>5. k > b  BY <1>1
<1> HIDE DEF k, w
<1>6. CASE ~Speaks(x, s, c)  BY <1>2, <1>3, <1>4, <1>6 DEF Since
<1>7. CASE Speaks(x, s, c) /\ e[s][c] = w
  BY <1>1, <1>2, <1>5, <1>7 DEF Since
<1>8. CASE Speaks(x, s, c) /\ e[s][c] = d[s][c] /\ d[s][c] = w
  BY <1>1, <1>2, <1>5, <1>8 DEF Since
<1>9. ASSUME Speaks(x, s, c), e[s][c] = d[s][c],
             NEW n \in LastSpoke(q, s, c), n > x.begun, d[s][c] = q[n].said[s][c]
      PROVE  Since(e, p, s, c, v, b)
  <2>1. n \in LastSpoke(p, s, c) /\ p[n] = q[n] /\ n \in 1..Len(q)
    BY <1>1, <1>2, <1>4, <1>9
  <2>2. CASE d[s][c] = v  BY <1>9, <2>2 DEF Since
  <2>3. ASSUME NEW m \in LastSpoke(q, s, c), m > b, d[s][c] = q[m].said[s][c]
        PROVE  Since(e, p, s, c, v, b)
    <3>1. p[m] = q[m] /\ m \in 1..Len(q)  BY <1>4
    <3>2. CASE m > x.begun
      <4>1. m \in LastSpoke(p, s, c)  BY <1>1, <1>2, <1>9, <3>1, <3>2
      <4> QED BY <1>9, <2>3, <3>1, <4>1 DEF Since
    <3>3. CASE ~(m > x.begun)
      <4>1. n > b  BY <1>1, <1>9, <2>1, <2>3, <3>1, <3>3
      <4> QED BY <1>9, <2>1, <4>1 DEF Since
    <3> QED BY <3>2, <3>3
  <2> QED BY <2>2, <2>3 DEF Since
<1> QED BY <1>3, <1>6, <1>7, <1>8, <1>9 DEF Since

LEMMA LandedWords ==
  ASSUME NEW x, NEW d, NEW q, NEW e, NEW p, Lands(x, d, q, e, p), LastWords(d, q)
  PROVE  LastWords(e, p)
<1> SUFFICES ASSUME NEW s \in Slots, NEW c \in Columns
             PROVE  IF Spoke(p, s, c) = {} THEN e[s][c] = NoRow[c]
                    ELSE \E n \in LastSpoke(p, s, c) : e[s][c] = p[n].said[s][c]
  BY DEF LastWords
<1> DEFINE w == Word(x, s)[c]
           k == Len(p)
<1>1. /\ \A n \in Spoke(q, s, c) : p[n] = q[n]
      /\ Speaks(x, s, c) => p[k].said[s][c] = w
      /\ Spoke(p, s, c) = IF Speaks(x, s, c) THEN Spoke(q, s, c) \cup {k}
                          ELSE Spoke(q, s, c)
      /\ x.begun \in 0..Len(q) /\ Len(q) \in Nat
  BY LandedSpeech
<1>2. \A n : n \in LastSpoke(p, s, c) <=>
        IF Speaks(x, s, c) THEN n = k \/ (n \in LastSpoke(q, s, c) /\ x.begun < n)
        ELSE n \in LastSpoke(q, s, c)
  BY LandedSpeech
<1>3. IF Speaks(x, s, c)
      THEN e[s][c] = w \/ (e[s][c] = d[s][c] /\ Since(d, q, s, c, w, x.begun))
      ELSE e[s][c] = d[s][c]
  BY LandedRows
<1>4. \A n \in LastSpoke(q, s, c) : p[n] = q[n] /\ n \in 1..Len(q)
  BY LandedSpeech DEF LastSpoke
<1> HIDE DEF k, w
<1>5. CASE ~Speaks(x, s, c)  BY <1>1, <1>2, <1>3, <1>4, <1>5 DEF LastWords
<1>6. CASE Speaks(x, s, c)
  <2>1. Spoke(p, s, c) # {}  BY <1>1, <1>6
  <2>2. k \in LastSpoke(p, s, c) /\ p[k].said[s][c] = w  BY <1>1, <1>2, <1>6
  <2>3. CASE e[s][c] = w  BY <2>1, <2>2, <2>3
  <2>4. ASSUME NEW n \in LastSpoke(q, s, c), n > x.begun, e[s][c] = q[n].said[s][c]
        PROVE  \E m \in LastSpoke(p, s, c) : e[s][c] = p[m].said[s][c]
    <3>1. x.begun < n  BY <1>1, <1>4, <2>4
    <3> QED BY <1>2, <1>4, <1>6, <2>4, <3>1
  <2> QED BY <1>3, <1>6, <2>1, <2>2, <2>3, <2>4 DEF Since
<1> QED BY <1>5, <1>6

\* A row that is there stays there, and a draft makes one.
LEMMA LandedStored ==
  ASSUME NEW x, NEW d, NEW q, NEW e, NEW p, Lands(x, d, q, e, p)
  PROVE  /\ RowsSound(e)
         /\ \A s \in Slots : e[s] # NoRow <=> d[s] # NoRow \/ (~x.dry /\ s \in SlotsOf(x))
<1>0. RowsSound(d) /\ Sound(x, d, q) /\ x.todo = {} /\ x.records \in RecordSeqs
      /\ x.batch \in Nat \ {0} /\ x.dry \in BOOLEAN
  BY DEF Lands, Sound
<1>1. ASSUME NEW s \in Slots
      PROVE  /\ IsRow(e[s]) /\ e[s].batch \in Nat /\ (e[s] # NoRow => e[s].batch # 0)
             /\ e[s] # NoRow <=> d[s] # NoRow \/ (~x.dry /\ s \in SlotsOf(x))
  <2>1. IsRow(d[s]) /\ IsRow(e[s]) /\ d[s].batch \in Nat /\ (d[s] # NoRow => d[s].batch # 0)
    BY <1>0, LandedRows DEF RowsSound
  <2>2. /\ "batch" \in Columns /\ NoRow.batch = 0
        /\ Columns = {"impressions", "clicks", "feed", "batch"}
    BY DEF Columns, NoRow
  <2>3. CASE x.dry \/ s \notin SlotsOf(x)
    <3>1. \A c \in Columns : e[s][c] = d[s][c]  BY <2>3, LandedRows DEF Speaks
    <3>2. e[s] = d[s]  BY <2>1, <3>1 DEF IsRow
    <3> QED BY <2>1, <2>3, <3>2
  <2>4. CASE ~x.dry /\ s \in SlotsOf(x)
    <3>1. PICK i \in Kept(x.records) : s = SlotOf(x.records[i])  BY <2>4 DEF SlotsOf
    <3>2. "batch" \in DOMAIN Word(x, s) /\ Word(x, s).batch = x.batch
      BY <1>0, <3>1, WordOfSlot
    <3>3. Speaks(x, s, "batch")  BY <2>4, <3>2 DEF Speaks
    <3>4. e[s].batch = x.batch \/ e[s].batch = d[s].batch  BY <2>2, <3>2, <3>3, LandedRows
    <3>5. s \in DOMAIN x.drafts  BY <1>0, <2>4 DEF Sound, SlotsOf
    <3>6. DraftSound(x, d, q, s)  BY <1>0, <3>5 DEF Sound
    <3>7. e[s].batch # 0
      <4>1. CASE d[s] # NoRow  BY <1>0, <2>1, <3>4, <4>1
      <4>2. CASE "batch" \in DOMAIN x.drafts[s]
        <5>1. x.drafts[s].batch = x.batch  BY <3>2, <3>6, <4>2 DEF DraftSound
        <5>2. e[s] = Over(x.drafts[s], d[s])  BY <3>5 DEF Lands
        <5>3. e[s].batch = x.batch  BY <4>2, <5>1, <5>2 DEF Over
        <5> QED BY <1>0, <5>3
      <4> QED BY <3>6, <4>1, <4>2 DEF DraftSound
    <3>8. e[s].batch \in Nat /\ e[s] # NoRow  BY <1>0, <2>1, <2>2, <3>4, <3>7
    <3> QED BY <2>1, <2>4, <3>7, <3>8
  <2> QED BY <2>3, <2>4
<1>2. e = [s \in Slots |-> e[s]]  BY DEF Lands
<1> QED BY <1>1, <1>2 DEF RowsSound

LEMMA LandedCreators ==
  ASSUME NEW x, NEW d, NEW q, NEW e, NEW p, Lands(x, d, q, e, p), NEW s
  PROVE  /\ Creators(p, s) = IF ~x.dry /\ s \in SlotsOf(x) \ x.known
                             THEN Creators(q, s) \cup {Len(p)} ELSE Creators(q, s)
         /\ \A n \in Creators(q, s) : p[n] = q[n] /\ n \in 1..Len(q)
         /\ p[Len(p)].begun = x.begun /\ Len(q) \in Nat /\ Len(p) = Len(q) + 1
<1>1. PICK r : /\ p = Append(q, r) /\ r.dry = x.dry /\ r.begun = x.begun
               /\ r.created = SlotsOf(x) \ x.known
  BY DEF Lands
<1>2. /\ Len(q) \in Nat /\ Len(p) = Len(q) + 1
      /\ DOMAIN q = 1..Len(q) /\ DOMAIN p = 1..Len(p)
      /\ p[Len(p)] = r /\ \A i \in DOMAIN q : p[i] = q[i]
  <2>1. q \in Seq(Range(q))  BY DEF Lands
  <2> QED BY <1>1, <2>1, Appended
<1>3. \A n \in Creators(q, s) : p[n] = q[n] /\ n \in 1..Len(q)  BY <1>2 DEF Creators
<1>4. DOMAIN p = DOMAIN q \cup {Len(p)} /\ Len(p) \notin DOMAIN q  BY <1>2
<1>5. Len(p) \in Creators(p, s) <=> ~x.dry /\ s \in SlotsOf(x) \ x.known
  BY <1>1, <1>2, <1>4 DEF Creators
<1>6. \A n \in DOMAIN q : n \in Creators(p, s) <=> n \in Creators(q, s)
  BY <1>2, <1>4 DEF Creators
<1>7. Creators(p, s) \subseteq DOMAIN p /\ Creators(q, s) \subseteq DOMAIN q  BY DEF Creators
<1>8. CASE ~x.dry /\ s \in SlotsOf(x) \ x.known
  <2> SUFFICES ASSUME NEW n PROVE n \in Creators(p, s) <=> n \in Creators(q, s) \cup {Len(p)}
    BY <1>1, <1>2, <1>3, <1>8
  <2> QED BY <1>4, <1>5, <1>6, <1>7, <1>8
<1>9. CASE ~(~x.dry /\ s \in SlotsOf(x) \ x.known)
  <2> SUFFICES ASSUME NEW n PROVE n \in Creators(p, s) <=> n \in Creators(q, s)
    BY <1>1, <1>2, <1>3, <1>9
  <2> QED BY <1>4, <1>5, <1>6, <1>7, <1>9
<1> QED BY <1>8, <1>9

LEMMA LandedOnce ==
  ASSUME NEW x, NEW d, NEW q, NEW e, NEW p, Lands(x, d, q, e, p), CreatedOnce(d, q)
  PROVE  CreatedOnce(e, p)
<1>0. Sound(x, d, q)  BY DEF Lands
<1> SUFFICES ASSUME NEW s \in Slots
             PROVE  /\ e[s] # NoRow <=> Creators(p, s) # {}
                    /\ \A m, n \in Creators(p, s) : m > n => p[m].begun < n
  BY DEF CreatedOnce
<1>1. /\ d[s] # NoRow <=> Creators(q, s) # {}
      /\ \A m, n \in Creators(q, s) : m > n => q[m].begun < n
  BY DEF CreatedOnce
<1>2. /\ Creators(p, s) = IF ~x.dry /\ s \in SlotsOf(x) \ x.known
                          THEN Creators(q, s) \cup {Len(p)} ELSE Creators(q, s)
      /\ \A n \in Creators(q, s) : p[n] = q[n] /\ n \in 1..Len(q)
      /\ p[Len(p)].begun = x.begun /\ Len(q) \in Nat /\ Len(p) = Len(q) + 1
  BY LandedCreators
<1>3. e[s] # NoRow <=> d[s] # NoRow \/ (~x.dry /\ s \in SlotsOf(x))  BY LandedStored
<1>4. s \in x.known => d[s] # NoRow  BY <1>0 DEF Sound
<1>5. s \in SlotsOf(x) \ x.known => \A n \in Creators(q, s) : x.begun < n
  BY <1>0 DEF Sound
<1>6. e[s] # NoRow <=> Creators(p, s) # {}  BY <1>1, <1>2, <1>3, <1>4
<1>7. ASSUME NEW m \in Creators(p, s), NEW n \in Creators(p, s), m > n
      PROVE  p[m].begun < n
  <2>1. CASE m \in Creators(q, s) /\ n \in Creators(q, s)  BY <1>1, <1>2, <1>7, <2>1
  <2>2. CASE m = Len(p) /\ n \in Creators(q, s) /\ s \in SlotsOf(x) \ x.known
    BY <1>2, <1>5, <2>2
  <2>3. CASE n = Len(p) /\ (m = Len(p) \/ m \in Creators(q, s))
    <3>1. m \in Nat /\ n \in Nat /\ ~(m > n)  BY <1>2, <2>3
    <3> QED BY <1>7, <3>1
  <2> QED BY <1>2, <2>1, <2>2, <2>3
<1> QED BY <1>6, <1>7

\* A transaction that is still open stays sound as another one commits.
LEMMA OpenSurvives ==
  ASSUME NEW x, NEW d, NEW q, NEW e, NEW p, Lands(x, d, q, e, p),
         NEW y, Sound(y, d, q)
  PROVE  Sound(y, e, p)
<1>1. /\ DOMAIN y = TxFields /\ y.pc \in {"writing", "loaded"} /\ y.dry \in BOOLEAN
      /\ y.batch \in Nat \ {0} /\ y.begun \in 0..Len(q)
      /\ y.records \in RecordSeqs /\ y.todo \subseteq Kept(y.records)
      /\ IF y.dry THEN y.todo = {} /\ DOMAIN y.drafts = {}
         ELSE DOMAIN y.drafts = {SlotOf(y.records[i]) : i \in Kept(y.records) \ y.todo}
  BY DEF Sound
<1>2. \A s \in Slots : d[s] # NoRow => e[s] # NoRow  BY LandedStored
<1>3. \A i \in Kept(y.records) : /\ SlotOf(y.records[i]) \in Slots
                                 /\ DOMAIN Word(y, SlotOf(y.records[i])) \subseteq Columns
  BY <1>1, KeptSlots, WordOfSlot
<1>4. Len(q) \in Nat /\ Len(p) = Len(q) + 1  BY LandedSpeech
<1>5. ASSUME NEW s \in DOMAIN y.drafts PROVE DraftSound(y, e, p, s)
  <2>1. s \in Slots /\ DOMAIN Word(y, s) \subseteq Columns  BY <1>1, <1>3
  <2>2. DraftSound(y, d, q, s)  BY DEF Sound
  <2>3. ASSUME NEW c \in DOMAIN Word(y, s) \ DOMAIN y.drafts[s]
        PROVE  Since(e, p, s, c, Word(y, s)[c], y.begun)
    <3>1. Since(d, q, s, c, Word(y, s)[c], y.begun) /\ c \in Columns
      BY <2>1, <2>2 DEF DraftSound
    <3> QED BY <1>1, <2>1, <3>1, SinceSurvives
  <2> QED BY <1>2, <2>1, <2>2, <2>3 DEF DraftSound
<1>6. ASSUME y.pc = "loaded" PROVE LoadedSound(y, e, p)
  <2>1. LoadedSound(y, d, q)  BY <1>6 DEF Sound
  <2>2. Turn(y) \in y.todo  BY <1>1, <2>1, TurnIsLeft DEF LoadedSound
  <2>3. TurnSlot(y) \in Slots  BY <1>1, <1>3, <2>2 DEF TurnSlot
  <2>4. ASSUME NEW c \in Columns
        PROVE  Since(e, p, TurnSlot(y), c, y.loaded[c], y.begun)
    BY <1>1, <2>1, <2>3, SinceSurvives DEF LoadedSound
  <2> QED BY <1>2, <2>1, <2>3, <2>4 DEF LoadedSound
<1>7. \A s \in y.known : s \in Slots /\ e[s] # NoRow  BY <1>2 DEF Sound
<1>8. ASSUME NEW s \in SlotsOf(y) \ y.known, NEW n \in Creators(p, s) PROVE y.begun < n
  <2>1. n \in Creators(q, s) \/ n = Len(p)  BY LandedCreators
  <2>2. \A m \in Creators(q, s) : y.begun < m  BY DEF Sound
  <2>3. CASE n = Len(p)  BY <1>1, <1>4, <2>3
  <2> QED BY <2>1, <2>2, <2>3
<1>9. y.begun \in 0..Len(p)  BY <1>1, <1>4
<1> QED BY <1>1, <1>5, <1>6, <1>7, <1>8, <1>9 DEF Sound

LEMMA IngestStep == IngestIInv /\ [IngestNext]_ingestVars => IngestIInv'
<1> SUFFICES ASSUME IngestIInv, [IngestNext]_ingestVars PROVE IngestIInv'
  OBVIOUS
<1> DEFINE d == daily
           q == reports
<1>0. /\ DOMAIN itx = IngestTx /\ opened \in Nat /\ q \in Seq(Range(q))
      /\ RowsSound(d) /\ LastWords(d, q) /\ CreatedOnce(d, q)
      /\ \A n \in DOMAIN q : AddsUp(q[n])
  BY DEF IngestIInv
<1>sound. \A t \in IngestTx : itx[t].pc # "idle" => Sound(itx[t], d, q)
  BY DEF IngestIInv
<1>idle. NoIngestTx.pc = "idle"  BY DEF NoIngestTx
\* A step that changes one transaction only.
<1>one. ASSUME NEW t \in IngestTx, NEW y, itx' = [itx EXCEPT ![t] = y],
               y.pc # "idle" => Sound(y, d, q), opened' \in Nat,
               UNCHANGED <<daily, reports>>
        PROVE  IngestIInv'
  <2>1. \A o \in IngestTx : itx'[o] = IF o = t THEN y ELSE itx[o]  BY <1>0, <1>one
  <2>2. DOMAIN itx' = IngestTx  BY <1>0, <1>one
  <2>3. \A o \in IngestTx : itx'[o].pc # "idle" => Sound(itx'[o], daily', reports')
    BY <2>1, <1>one, <1>sound
  <2> QED BY <1>0, <1>one, <2>2, <2>3 DEF IngestIInv
<1>1. ASSUME NEW t \in IngestTx, NEW sent \in Batches, OpenBatch(t, sent)
      PROVE  IngestIInv'
  <2> DEFINE b == sent.records
             y == [pc |-> "writing", batch |-> opened + 1, feed |-> sent.feed,
                   dry |-> sent.dry, records |-> b, known |-> KnownSlots(b),
                   todo |-> IF sent.dry THEN {} ELSE Kept(b), begun |-> Len(reports),
                   loaded |-> NoRow, drafts |-> <<>>]
  <2>1. /\ itx' = [itx EXCEPT ![t] = y] /\ opened' = opened + 1
        /\ UNCHANGED <<daily, reports>>
    BY <1>1 DEF OpenBatch
  <2>2. b \in RecordSeqs /\ sent.dry \in BOOLEAN  BY IngestBounds DEF RecordSeqs
  <2>3. \A s \in KnownSlots(b) : s \in Slots /\ d[s] # NoRow  BY DEF KnownSlots, Stored
  <2>4. ASSUME NEW s \in SlotsOf(y) \ y.known, NEW n \in Creators(q, s) PROVE y.begun < n
    <3>1. PICK i \in Kept(b) : s = SlotOf(b[i])  BY DEF SlotsOf
    <3>2. s \in Slots /\ s[1] = TargetOf(b[i])  BY <2>2, <3>1, KeptSlots
    <3>3. d[s] = NoRow  BY <3>1, <3>2 DEF KnownSlots, Stored
    <3>4. Creators(q, s) = {}  BY <1>0, <3>2, <3>3 DEF CreatedOnce
    <3> QED BY <3>4
  <2>5. Len(q) \in Nat
    <3> DEFINE U == Range(q)
    <3>1. q \in Seq(U)  BY <1>0
    <3> HIDE DEF U, q
    <3> QED BY <3>1
  <2>6. /\ DOMAIN y = TxFields /\ y.pc = "writing" /\ y.batch \in Nat \ {0}
        /\ y.begun \in 0..Len(q) /\ y.todo \subseteq Kept(b)
        /\ y.records = b /\ y.dry = sent.dry /\ y.known = KnownSlots(b)
        /\ DOMAIN y.drafts = {} /\ y.todo = IF sent.dry THEN {} ELSE Kept(b)
    BY <1>0, <2>5 DEF TxFields
  <2> HIDE DEF y
  <2>7. Sound(y, d, q)
    BY <2>2, <2>3, <2>4, <2>6 DEF Sound
  <2>8. opened' \in Nat  BY <1>0, <2>1
  <2> QED BY <1>one, <2>1, <2>7, <2>8
<1>2. ASSUME NEW t \in IngestTx, Load(t) PROVE IngestIInv'
  <2> DEFINE x == itx[t]
             y == [x EXCEPT !.pc = "loaded", !.loaded = d[TurnSlot(x)]]
  <2>1. /\ itx' = [itx EXCEPT ![t] = y]
        /\ x.pc = "writing" /\ x.todo # {} /\ UNCHANGED <<daily, opened, reports>>
    <3>1. TurnSlot(x) = CurrentSlot(t)
      BY DEF CurrentSlot, CurrentRecord, Current, TurnSlot, Turn
    <3>2. itx' = [itx EXCEPT ![t].pc = "loaded", ![t].loaded = d[TurnSlot(x)]]
      BY <1>2, <3>1 DEF Load
    <3> QED BY <1>0, <1>2, <3>2 DEF Load
  <2>2. Sound(x, d, q)  BY <1>sound, <2>1
  <2>3. /\ DOMAIN y = TxFields /\ y.pc = "loaded" /\ y.loaded = d[TurnSlot(x)]
        /\ \A f \in TxFields \ {"pc", "loaded"} : y[f] = x[f]
    BY <2>2 DEF Sound, TxFields
  <2> HIDE DEF y
  <2>4. /\ y.batch = x.batch /\ y.feed = x.feed /\ y.dry = x.dry /\ y.records = x.records
        /\ y.known = x.known /\ y.todo = x.todo /\ y.begun = x.begun /\ y.drafts = x.drafts
    BY <2>3 DEF TxFields
  <2>5. /\ Turn(y) = Turn(x) /\ TurnSlot(y) = TurnSlot(x) /\ SlotsOf(y) = SlotsOf(x)
        /\ \A s : Word(y, s) = Word(x, s)
    BY <2>4 DEF Turn, TurnSlot, SlotsOf, Word
  <2>6. Turn(x) \in x.todo /\ x.todo \subseteq Kept(x.records) /\ x.records \in RecordSeqs
    BY <2>1, <2>2, TurnIsLeft DEF Sound
  <2>7. TurnSlot(x) \in Slots  BY <2>6, KeptSlots DEF TurnSlot
  <2>8. LoadedSound(y, d, q)
    BY <1>0, <2>1, <2>3, <2>4, <2>5, <2>7 DEF LoadedSound, RowsSound, Since
  <2>9. \A s \in DOMAIN y.drafts : DraftSound(y, d, q, s)
    BY <2>2, <2>4, <2>5 DEF Sound, DraftSound
  <2>10. Sound(y, d, q)  BY <2>2, <2>3, <2>4, <2>5, <2>8, <2>9 DEF Sound
  <2> QED BY <1>one, <1>0, <2>1, <2>10
<1>3. ASSUME NEW t \in IngestTx, Flush(t) PROVE IngestIInv'
  <2> DEFINE x == itx[t]
             s == TurnSlot(x)
             i == Turn(x)
             w == Changed(x.loaded, Word(x, s))
             f == [z \in DOMAIN x.drafts \cup {s} |-> IF z = s THEN w ELSE x.drafts[z]]
             y == [x EXCEPT !.pc = "writing", !.todo = @ \ {i}, !.loaded = NoRow, !.drafts = f]
  <2>0. x.pc = "loaded"  BY <1>3 DEF Flush
  <2>1. Sound(x, d, q) /\ LoadedSound(x, d, q)  BY <1>sound, <2>0 DEF Sound
  <2>2. i \in x.todo /\ x.todo \subseteq Kept(x.records) /\ x.records \in RecordSeqs
    BY <2>1, TurnIsLeft DEF Sound, LoadedSound
  <2>3. s = SlotOf(x.records[i]) /\ s \in Slots  BY <2>2, KeptSlots DEF TurnSlot
  <2>4. /\ Word(x, s) = Supplied(t, CurrentRecord(t))
        /\ DOMAIN Word(x, s) \subseteq Columns
        /\ "batch" \in DOMAIN Word(x, s) /\ Word(x, s).batch = x.batch
    <3> DEFINE r == x.records[i]
    <3>1. r = CurrentRecord(t)  BY DEF CurrentRecord, Current, Turn
    <3>2. i \in Kept(x.records)  BY <2>2
    <3> HIDE DEF i
    <3>3. /\ Word(x, SlotOf(r)) = [c \in Asserts(r) \cup {"feed", "batch"} |->
                CASE c = "feed" -> x.feed [] c = "batch" -> x.batch [] OTHER -> r[c]]
          /\ DOMAIN Word(x, SlotOf(r)) \subseteq Columns
          /\ "batch" \in DOMAIN Word(x, SlotOf(r)) /\ Word(x, SlotOf(r)).batch = x.batch
      BY <2>2, <3>2, WordOfSlot
    <3>4. Word(x, SlotOf(r)) = Supplied(t, r)  BY <3>3 DEF Supplied
    <3> HIDE DEF r, s
    <3> QED BY <2>3, <3>1, <3>3, <3>4 DEF r
  <2>5. itx' = [itx EXCEPT ![t] = y] /\ UNCHANGED <<daily, opened, reports>>
    <3>1. s = CurrentSlot(t) /\ i = Current(t)
      BY DEF CurrentSlot, CurrentRecord, Current, TurnSlot, Turn
    <3>2. itx' = [itx EXCEPT ![t].pc = "writing", ![t].todo = @ \ {i}, ![t].loaded = NoRow,
                             ![t].drafts = [z \in DOMAIN @ \cup {s} |-> IF z = s THEN w ELSE @[z]]]
      BY <1>3, <2>4, <3>1 DEF Flush
    <3>3. UNCHANGED <<daily, opened, reports>>  BY <1>3 DEF Flush
    <3> HIDE DEF s, i, w
    <3> QED BY <1>0, <3>2, <3>3
  <2>6. /\ DOMAIN y = TxFields /\ y.pc = "writing" /\ y.todo = x.todo \ {i} /\ y.drafts = f
        /\ \A g \in TxFields \ {"pc", "todo", "loaded", "drafts"} : y[g] = x[g]
    <3> HIDE DEF f, i
    <3> QED BY <2>1 DEF Sound, TxFields
  <2> HIDE DEF y
  <2>7. /\ y.batch = x.batch /\ y.feed = x.feed /\ y.dry = x.dry /\ y.records = x.records
        /\ y.known = x.known /\ y.begun = x.begun
    BY <2>6 DEF TxFields
  <2>8. SlotsOf(y) = SlotsOf(x) /\ \A z : Word(y, z) = Word(x, z)
    BY <2>7 DEF SlotsOf, Word
  <2>9. ~x.dry /\ x.dry \in BOOLEAN  BY <2>1, <2>2 DEF Sound
  <2>10. DOMAIN y.drafts = {SlotOf(y.records[j]) : j \in Kept(y.records) \ y.todo}
    <3>1. DOMAIN x.drafts = {SlotOf(x.records[j]) : j \in Kept(x.records) \ x.todo}
      BY <2>1, <2>9 DEF Sound
    <3>2. DOMAIN y.drafts = DOMAIN x.drafts \cup {s}  BY <2>6
    <3>3. Kept(x.records) \ y.todo = (Kept(x.records) \ x.todo) \cup {i}  BY <2>2, <2>6
    <3> HIDE DEF s, i
    <3> QED BY <2>3, <2>7, <3>1, <3>2, <3>3
  <2>11. w = [c \in {c \in DOMAIN Word(x, s) : Word(x, s)[c] # x.loaded[c]} |-> Word(x, s)[c]]
    BY DEF Changed
  <2>12. DraftSound(y, d, q, s)
    <3>1. y.drafts[s] = w  BY <2>6
    <3> HIDE DEF w, s, x
    <3>2. ASSUME NEW c \in DOMAIN Word(x, s) \ DOMAIN w
          PROVE  Since(d, q, s, c, Word(x, s)[c], x.begun)
      <4>1. Word(x, s)[c] = x.loaded[c] /\ c \in Columns  BY <2>4, <2>11
      <4>2. Since(d, q, s, c, x.loaded[c], x.begun)  BY <2>1, <4>1 DEF LoadedSound, s
      <4> QED BY <4>1, <4>2
    <3>3. "batch" \in DOMAIN w \/ d[s] # NoRow
      <4>1. CASE x.loaded # NoRow  BY <2>1, <4>1 DEF LoadedSound, s
      <4>2. CASE x.loaded = NoRow
        <5>1. x.loaded.batch = 0 /\ x.batch \in Nat \ {0}  BY <2>1, <4>2 DEF NoRow, Sound
        <5> QED BY <2>4, <2>11, <5>1
      <4> QED BY <4>1, <4>2
    <3> QED BY <2>7, <2>8, <2>11, <3>1, <3>2, <3>3 DEF DraftSound
  <2>13. ASSUME NEW z \in DOMAIN y.drafts PROVE DraftSound(y, d, q, z)
    <3>1. CASE z = s  BY <2>12, <3>1
    <3>2. CASE z # s
      <4>1. z \in DOMAIN x.drafts /\ y.drafts[z] = x.drafts[z]  BY <2>6, <3>2
      <4>2. DraftSound(x, d, q, z)  BY <2>1, <4>1 DEF Sound
      <4> QED BY <2>7, <2>8, <4>1, <4>2 DEF DraftSound
    <3> QED BY <3>1, <3>2
  <2> HIDE DEF f, w, s, i
  <2>14. Sound(y, d, q)  BY <2>1, <2>2, <2>6, <2>7, <2>8, <2>9, <2>10, <2>13 DEF Sound
  <2> QED BY <1>one, <1>0, <2>5, <2>14
<1>4. ASSUME NEW t \in IngestTx, CommitBatch(t) PROVE IngestIInv'
  <2> DEFINE x == itx[t]
             r == Report(t)
             e == daily'
             p == reports'
  <2>1. /\ x.pc = "writing" /\ x.todo = {} /\ p = Append(q, r)
        /\ e = [s \in Slots |-> IF s \in DOMAIN x.drafts THEN Over(x.drafts[s], d[s]) ELSE d[s]]
        /\ itx' = [itx EXCEPT ![t] = NoIngestTx] /\ UNCHANGED opened
    BY <1>4 DEF CommitBatch
  <2>2. Sound(x, d, q)  BY <1>sound, <2>1
  <2>3. /\ r.dry = x.dry /\ r.begun = x.begun /\ r.created = SlotsOf(x) \ x.known
        /\ r.said = [s \in SlotsOf(x) |-> Word(x, s)]
    BY DEF Report, SlotsNamed, SlotsOf, Word, Supplied
  <2>4. Lands(x, d, q, e, p)
    <3> HIDE DEF r, x, e, p
    <3> QED BY <1>0, <2>1, <2>2, <2>3 DEF Lands
  <2>5. AddsUp(r)
    <3>1. x.records \in RecordSeqs  BY <2>2 DEF Sound
    <3> QED BY <3>1, EveryRecordCounted DEF AddsUp, Report, SlotsNamed
  <2>6. /\ p \in Seq(Range(p)) /\ DOMAIN q = 1..Len(q) /\ DOMAIN p = 1..Len(p)
        /\ Len(q) \in Nat /\ Len(p) = Len(q) + 1
        /\ p[Len(p)] = r /\ \A i \in DOMAIN q : p[i] = q[i]
    <3>1. q \in Seq(Range(q)) /\ p = Append(q, r)  BY <1>0, <2>1
    <3> HIDE DEF r, p, q
    <3>2. p \in Seq(Range(p))  BY <3>1, Appended
    <3>3. DOMAIN q = 1..Len(q) /\ DOMAIN p = 1..Len(p)  BY <3>1, Appended
    <3>4. Len(q) \in Nat /\ Len(p) = Len(q) + 1  BY <3>1, Appended
    <3>5. p[Len(p)] = r  BY <3>1, Appended
    <3>6. \A i \in DOMAIN q : p[i] = q[i]  BY <3>1, Appended
    <3> QED BY <3>2, <3>3, <3>4, <3>5, <3>6
  <2>7. \A n \in DOMAIN p : AddsUp(p[n])
    <3> HIDE DEF r, p, q
    <3> QED BY <1>0, <2>5, <2>6
  <2>8. RowsSound(e) /\ LastWords(e, p) /\ CreatedOnce(e, p)
    <3> HIDE DEF x, e, p, d, q
    <3> QED BY <1>0, <2>4, LandedStored, LandedWords, LandedOnce
  <2>9. ASSUME NEW o \in IngestTx, itx'[o].pc # "idle" PROVE Sound(itx'[o], e, p)
    <3>1. itx'[o] = itx[o] /\ itx[o].pc # "idle"  BY <1>0, <1>idle, <2>1, <2>9
    <3>2. Sound(itx[o], d, q)  BY <1>sound, <3>1
    <3>3. Sound(itx[o], e, p)
      <4> HIDE DEF x, e, p, d, q
      <4> QED BY <2>4, <3>2, OpenSurvives
    <3> QED BY <3>1, <3>3
  <2>10. DOMAIN itx' = IngestTx /\ opened' \in Nat  BY <1>0, <2>1
  <2> QED BY <2>6, <2>7, <2>8, <2>9, <2>10 DEF IngestIInv
<1>5. ASSUME NEW t \in IngestTx, AbortBatch(t) PROVE IngestIInv'
  <2>1. itx' = [itx EXCEPT ![t] = NoIngestTx] /\ UNCHANGED <<daily, opened, reports>>
    BY <1>5 DEF AbortBatch
  <2> QED BY <1>one, <1>0, <1>idle, <2>1
<1>6. CASE UNCHANGED ingestVars  BY <1>6 DEF ingestVars, IngestIInv
<1> QED BY <1>1, <1>2, <1>3, <1>4, <1>5, <1>6 DEF IngestNext

LEMMA IngestStart == IngestInit => IngestIInv
<1> SUFFICES ASSUME IngestInit PROVE IngestIInv  OBVIOUS
<1>1. /\ daily = [s \in Slots |-> NoRow] /\ itx = [t \in IngestTx |-> NoIngestTx]
      /\ opened = 0 /\ reports = <<>>
  BY DEF IngestInit
<1>2. reports \in Seq(Range(reports)) /\ DOMAIN reports = {}
  <2> DEFINE U == Range(<<>>)
  <2>1. <<>> \in Seq(U)  OBVIOUS
  <2> HIDE DEF U
  <2> QED BY <1>1, <2>1 DEF U
<1>3. RowsSound(daily)  BY <1>1 DEF RowsSound, IsRow, NoRow, Columns
<1>4. \A s, c : Spoke(reports, s, c) = {} /\ Creators(reports, s) = {}
  BY <1>2 DEF Spoke, Creators
<1>5. LastWords(daily, reports) /\ CreatedOnce(daily, reports)
  BY <1>1, <1>4 DEF LastWords, CreatedOnce
<1>6. \A t \in IngestTx : itx[t].pc = "idle"  BY <1>1 DEF NoIngestTx
<1> QED BY <1>1, <1>2, <1>3, <1>5, <1>6 DEF IngestIInv

\* In every reachable state of the ingestion its transactions are sound.
LEMMA IngestInvariant == IngestSpec => []IngestIInv
<1> QED BY IngestStart, IngestStep, PTL DEF IngestSpec

\* A column holds what the last batch to assert it said, or one that overlapped the
\* last: upsert_daily keeps every column the record leaves out.
THEOREM LastWordAlwaysStands == IngestSpec => []LastWordStands
<1>1. IngestIInv => LastWordStands
  BY DEF IngestIInv, LastWords, LastWordStands, Spoke, LastSpoke, Columns
<1> QED BY <1>1, IngestInvariant, PTL

\* A report counts every record it received, and a slot is reported created exactly
\* when it holds a row, more than once only by batches that overlapped.
THEOREM ReportsAlwaysAddUp == IngestSpec => []ReportsAddUp
<1>1. IngestIInv => ReportsAddUp
  BY DEF IngestIInv, CreatedOnce, Creators, AddsUp, ReportsAddUp, Stored
<1> QED BY <1>1, IngestInvariant, PTL

-----------------------------------------------------------------------------
(* Ingestion: the shape of its state *)

\* What a column may hold once n batches have been opened.
Fits(c, v, n) ==
  /\ c \in Measured => v \in Nat
  /\ c = "feed" => v \in Feeds \cup {Absent}
  /\ c = "batch" => v \in 0..n
RowsFit(d, n) == \A s \in Slots : \A c \in Columns : Fits(c, d[s][c], n)

\* Every batch is numbered once: it is open in one transaction or has been reported
\* in one report, and never both.
Numbered(T, x, q, n) ==
  /\ \A t \in T : x[t].pc # "idle" =>
       /\ x[t].batch \in 1..n /\ x[t].feed \in Feeds
       /\ \A o \in T \ {t} : x[o].pc # "idle" => x[o].batch # x[t].batch
       /\ \A i \in DOMAIN q : q[i].batch # x[t].batch
  /\ \A i \in DOMAIN q : q[i].batch \in 1..n
  /\ \A i, j \in DOMAIN q : q[i].batch = q[j].batch => i = j

IngestTypes ==
  /\ opened \in 0..MaxBatches /\ RowsFit(daily, opened)
  /\ Numbered(IngestTx, itx, reports, opened)

\* A kept record says only what a column may hold.
LEMMA WordFits ==
  ASSUME NEW x, x.records \in RecordSeqs, x.feed \in Feeds, NEW n \in Nat, x.batch \in 1..n,
         NEW i \in Kept(x.records), NEW c \in DOMAIN Word(x, SlotOf(x.records[i]))
  PROVE  Fits(c, Word(x, SlotOf(x.records[i]))[c], n)
<1> DEFINE b == x.records
           r == b[i]
           w == Word(x, SlotOf(r))
<1>1. w = [k \in Asserts(r) \cup {"feed", "batch"} |->
             CASE k = "feed" -> x.feed [] k = "batch" -> x.batch [] OTHER -> r[k]]
  BY WordOfSlot
<1>2. i \in DOMAIN b /\ i \notin Malformed(b)
  BY DEF Kept, AttributedIn
<1>3. ~SemanticProblem(r)
  BY <1>2 DEF Malformed
<1>4. \A k \in Measured : r[k] \in Int \cup {Absent}
  BY <1>2, Positions
<1>5. \A k \in Asserts(r) : k \in Measured /\ k # "feed" /\ k # "batch" /\ r[k] \in Nat
  <2> SUFFICES ASSUME NEW k \in Asserts(r)
               PROVE  k \in Measured /\ k # "feed" /\ k # "batch" /\ r[k] \in Nat
    OBVIOUS
  <2>1. k \in Measured /\ r[k] # Absent
    BY DEF Asserts
  <2>2. r[k] \in Int /\ ~(r[k] < 0)
    BY <1>3, <1>4, <2>1 DEF SemanticProblem
  <2> QED
    BY <2>1, <2>2 DEF Measured
<1>6. c \in Asserts(r) \cup {"feed", "batch"}
  BY <1>1
<1>7. "feed" \notin Measured /\ "batch" \notin Measured
  BY DEF Measured
<1> HIDE DEF w, r, b
<1>8. CASE c = "feed"
  BY <1>1, <1>7, <1>8 DEF Fits, w, r, b
<1>9. CASE c = "batch"
  BY <1>1, <1>7, <1>9 DEF Fits, w, r, b
<1>10. CASE c \in Asserts(r)
  BY <1>1, <1>5, <1>10 DEF Fits, w, r, b
<1> QED
  BY <1>6, <1>8, <1>9, <1>10

\* A transaction that goes on under its own number leaves the numbering as it is.
LEMMA NumbersStay ==
  ASSUME NEW x, NEW q, NEW n \in Nat, Numbered(IngestTx, x, q, n),
         NEW t \in IngestTx, DOMAIN x = IngestTx, NEW y, NEW z, z = [x EXCEPT ![t] = y],
         \/ y.pc = "idle"
         \/ x[t].pc # "idle" /\ y.batch = x[t].batch /\ y.feed = x[t].feed
  PROVE  Numbered(IngestTx, z, q, n)
<1>1. \A o \in IngestTx : z[o] = IF o = t THEN y ELSE x[o]
  OBVIOUS
<1> QED
  BY <1>1 DEF Numbered

LEMMA IngestTypesStep ==
  IngestIInv /\ IngestTypes /\ [IngestNext]_ingestVars => IngestTypes'
<1> SUFFICES ASSUME IngestIInv, IngestTypes, [IngestNext]_ingestVars PROVE IngestTypes'
  OBVIOUS
<1>0. /\ DOMAIN itx = IngestTx /\ opened \in 0..MaxBatches /\ opened \in Nat
      /\ Numbered(IngestTx, itx, reports, opened) /\ RowsFit(daily, opened)
  BY IngestBounds DEF IngestTypes, IngestIInv
<1>sound. \A t \in IngestTx : itx[t].pc # "idle" => Sound(itx[t], daily, reports)
  BY DEF IngestIInv
<1>q. DOMAIN reports = 1..Len(reports) /\ Len(reports) \in Nat
  <2> DEFINE U == Range(reports)
  <2>1. reports \in Seq(U)
    BY DEF IngestIInv
  <2> HIDE DEF U
  <2> QED
    BY <2>1
<1>1. ASSUME NEW t \in IngestTx, NEW sent \in Batches, OpenBatch(t, sent)
      PROVE  IngestTypes'
  <2> DEFINE y == itx'[t]
  <2>1. /\ itx[t].pc = "idle" /\ opened < MaxBatches /\ opened' = opened + 1
        /\ UNCHANGED <<daily, reports>>
        /\ \A o \in IngestTx \ {t} : itx'[o] = itx[o]
        /\ y.batch = opened + 1 /\ y.feed = sent.feed
    BY <1>0, <1>1 DEF OpenBatch
  <2>2. opened' \in 0..MaxBatches
    BY <1>0, <2>1, IngestBounds
  <2>3. RowsFit(daily', opened')
    <3>1. \A k : k \in 0..opened => k \in 0..(opened + 1)
      BY <1>0
    <3> QED
      BY <1>0, <2>1, <3>1 DEF RowsFit, Fits
  <2>4. \A k : k \in 1..opened => k \in 1..(opened + 1) /\ k # opened + 1
    BY <1>0
  <2>5. opened + 1 \in 1..(opened + 1) /\ sent.feed \in Feeds
    BY <1>0, IngestBounds
  <2>6. Numbered(IngestTx, itx', reports', opened')
    <3> HIDE DEF y
    <3>1. ASSUME NEW o \in IngestTx, itx'[o].pc # "idle"
          PROVE  /\ itx'[o].batch \in 1..opened' /\ itx'[o].feed \in Feeds
                 /\ \A p \in IngestTx \ {o} : itx'[p].pc # "idle" => itx'[p].batch # itx'[o].batch
                 /\ \A i \in DOMAIN reports : reports[i].batch # itx'[o].batch
      <4>1. CASE o = t
        BY <1>0, <2>1, <2>4, <2>5, <4>1 DEF Numbered, y
      <4>2. CASE o # t
        BY <1>0, <2>1, <2>4, <3>1, <4>2 DEF Numbered, y
      <4> QED
        BY <4>1, <4>2
    <3>2. \A i \in DOMAIN reports : reports[i].batch \in 1..opened'
      BY <1>0, <2>1, <2>4 DEF Numbered
    <3>3. \A i, j \in DOMAIN reports : reports[i].batch = reports[j].batch => i = j
      BY <1>0 DEF Numbered
    <3> QED
      BY <2>1, <3>1, <3>2, <3>3 DEF Numbered
  <2> QED
    BY <2>2, <2>3, <2>6 DEF IngestTypes
<1>2. ASSUME NEW t \in IngestTx, NEW y, itx' = [itx EXCEPT ![t] = y],
             \/ y.pc = "idle"
             \/ itx[t].pc # "idle" /\ y.batch = itx[t].batch /\ y.feed = itx[t].feed,
             UNCHANGED <<daily, opened, reports>>
      PROVE  IngestTypes'
  <2>1. Numbered(IngestTx, itx', reports, opened)
    BY <1>0, <1>2, NumbersStay
  <2> QED
    BY <1>0, <1>2, <2>1 DEF IngestTypes, RowsFit, Fits
<1>3. ASSUME NEW t \in IngestTx, Load(t) \/ Flush(t) PROVE IngestTypes'
  <2> DEFINE y == itx'[t]
  <2>1. /\ itx[t].pc # "idle" /\ UNCHANGED <<daily, opened, reports>>
    BY <1>3 DEF Load, Flush
  <2>2. itx[t].pc # "idle" /\ DOMAIN itx[t] = TxFields
    BY <1>sound, <2>1 DEF Sound
  <2>3. itx' = [itx EXCEPT ![t] = y] /\ y.batch = itx[t].batch /\ y.feed = itx[t].feed
    <3>1. CASE Load(t)
      BY <1>0, <2>2, <3>1 DEF Load, TxFields
    <3>2. CASE Flush(t)
      <4> DEFINE i == Current(t)
                 s == CurrentSlot(t)
                 w == Changed(itx[t].loaded, Supplied(t, CurrentRecord(t)))
      <4>1. itx' = [itx EXCEPT ![t].pc = "writing", ![t].todo = @ \ {i}, ![t].loaded = NoRow,
                      ![t].drafts = [z \in DOMAIN @ \cup {s} |-> IF z = s THEN w ELSE @[z]]]
        BY <3>2 DEF Flush
      <4> HIDE DEF i, s, w
      <4> QED
        BY <1>0, <2>2, <4>1 DEF TxFields
    <3> QED
      BY <1>3, <3>1, <3>2
  <2> HIDE DEF y
  <2> QED
    BY <1>2, <2>1, <2>2, <2>3
<1>4. ASSUME NEW t \in IngestTx, AbortBatch(t) PROVE IngestTypes'
  <2>1. itx' = [itx EXCEPT ![t] = NoIngestTx] /\ UNCHANGED <<daily, opened, reports>>
    BY <1>4 DEF AbortBatch
  <2> QED
    BY <1>2, <2>1 DEF NoIngestTx
<1>5. ASSUME NEW t \in IngestTx, CommitBatch(t) PROVE IngestTypes'
  <2> DEFINE x == itx[t]
             r == Report(t)
             q == reports
             p == reports'
             d == daily
             e == daily'
  <2>1. /\ x.pc = "writing" /\ x.todo = {} /\ p = Append(q, r)
        /\ e = [s \in Slots |-> IF s \in DOMAIN x.drafts THEN Over(x.drafts[s], d[s]) ELSE d[s]]
        /\ itx' = [itx EXCEPT ![t] = NoIngestTx] /\ UNCHANGED opened
    BY <1>5 DEF CommitBatch
  <2>2. /\ Sound(x, d, q) /\ x.batch \in 1..opened /\ x.feed \in Feeds
        /\ \A i \in DOMAIN q : q[i].batch # x.batch
    BY <1>0, <1>sound, <2>1 DEF Numbered
  <2>3. /\ r.dry = x.dry /\ r.begun = x.begun /\ r.created = SlotsOf(x) \ x.known
        /\ r.said = [s \in SlotsOf(x) |-> Word(x, s)] /\ r.batch = x.batch
    BY DEF Report, SlotsNamed, SlotsOf, Word, Supplied
  <2>4. Lands(x, d, q, e, p)
    <3>1. RowsSound(d) /\ q \in Seq(Range(q))
      BY DEF IngestIInv
    <3> HIDE DEF r, x, e, p, d, q
    <3> QED
      BY <2>1, <2>2, <2>3, <3>1 DEF Lands
  <2>5. RowsFit(e, opened)
    <3> SUFFICES ASSUME NEW s \in Slots, NEW c \in Columns PROVE Fits(c, e[s][c], opened)
      BY DEF RowsFit
    <3> HIDE DEF r, x, e, p, d, q
    <3>1. \/ e[s][c] = d[s][c]
          \/ Speaks(x, s, c) /\ e[s][c] = Word(x, s)[c]
      BY <2>4, LandedRows
    <3>2. CASE e[s][c] = d[s][c]
      BY <1>0, <3>2 DEF RowsFit, d
    <3>3. CASE Speaks(x, s, c) /\ e[s][c] = Word(x, s)[c]
      <4>1. PICK i \in Kept(x.records) : s = SlotOf(x.records[i])
        BY <3>3 DEF Speaks, SlotsOf
      <4>2. x.records \in RecordSeqs
        BY <2>2 DEF Sound
      <4>3. c \in DOMAIN Word(x, SlotOf(x.records[i]))
        BY <3>3, <4>1 DEF Speaks
      <4> QED
        BY <1>0, <2>2, <3>3, <4>1, <4>2, <4>3, WordFits
    <3> QED
      BY <3>1, <3>2, <3>3
  <2>6. /\ Len(q) \in Nat /\ DOMAIN q = 1..Len(q) /\ DOMAIN p = 1..(Len(q) + 1)
        /\ p[Len(q) + 1] = r /\ \A i \in DOMAIN q : p[i] = q[i]
    <3>1. q \in Seq(Range(q))
      BY DEF IngestIInv
    <3> HIDE DEF r, p, q
    <3>2. Len(q) \in Nat /\ Len(p) = Len(q) + 1
      BY <2>1, <3>1, Appended
    <3>3. DOMAIN q = 1..Len(q) /\ DOMAIN p = 1..Len(p)
      BY <2>1, <3>1, Appended
    <3>4. p[Len(p)] = r
      BY <2>1, <3>1, Appended
    <3>5. \A i \in DOMAIN q : p[i] = q[i]
      BY <2>1, <3>1, Appended
    <3> QED
      BY <3>2, <3>3, <3>4, <3>5
  <2>7. \A i \in DOMAIN p : i \in DOMAIN q \/ i = Len(q) + 1
    BY <2>6
  <2>8. Len(q) + 1 \notin DOMAIN q
    BY <2>6
  <2>9. \A o \in IngestTx : itx'[o].pc # "idle" => o # t /\ itx'[o] = itx[o]
    BY <1>0, <2>1 DEF NoIngestTx
  <2>10. Numbered(IngestTx, itx', p, opened)
    <3>1. ASSUME NEW o \in IngestTx, itx'[o].pc # "idle"
          PROVE  /\ itx'[o].batch \in 1..opened /\ itx'[o].feed \in Feeds
                 /\ \A k \in IngestTx \ {o} : itx'[k].pc # "idle" => itx'[k].batch # itx'[o].batch
                 /\ \A i \in DOMAIN p : p[i].batch # itx'[o].batch
      <4>1. o # t /\ itx'[o] = itx[o] /\ itx[o].pc # "idle"
        BY <2>9, <3>1
      <4>2. itx[o].batch # x.batch /\ \A i \in DOMAIN q : q[i].batch # itx[o].batch
        BY <1>0, <2>1, <4>1 DEF Numbered
      <4>3. \A i \in DOMAIN p : p[i].batch # itx[o].batch
        <5> HIDE DEF r, p, q, x
        <5> QED
          BY <2>3, <2>6, <2>7, <4>2
      <4> QED
        BY <1>0, <2>9, <4>1, <4>3 DEF Numbered
    <3>2. \A i \in DOMAIN q : q[i].batch \in 1..opened
      BY <1>0 DEF Numbered
    <3>3. \A i, j \in DOMAIN q : q[i].batch = q[j].batch => i = j
      BY <1>0 DEF Numbered
    <3> HIDE DEF r, p, q, x
    <3>4. \A i \in DOMAIN p : p[i].batch \in 1..opened
      BY <2>2, <2>3, <2>6, <2>7, <3>2
    <3>5. \A i, j \in DOMAIN p : p[i].batch = p[j].batch => i = j
      BY <2>2, <2>3, <2>6, <2>7, <3>3
    <3> QED
      BY <3>1, <3>4, <3>5 DEF Numbered
  <2> QED
    BY <1>0, <2>1, <2>5, <2>10 DEF IngestTypes
<1>6. CASE UNCHANGED ingestVars
  BY <1>0, <1>6 DEF ingestVars, IngestTypes, RowsFit, Fits, Numbered
<1> QED
  BY <1>1, <1>3, <1>4, <1>5, <1>6 DEF IngestNext

\* No more reports than batches: distinct reports are of distinct batches.
LEMMA ReportsWithinOpened ==
  ASSUME IngestIInv, IngestTypes
  PROVE  Len(reports) =< opened
<1> DEFINE n == Len(reports)
           R == 1..n
           B == 1..opened
           f == [i \in R |-> reports[i].batch]
<1>1. n \in Nat /\ DOMAIN reports = R /\ opened \in Nat
  <2> DEFINE U == Range(reports)
  <2>1. reports \in Seq(U) /\ opened \in Nat
    BY DEF IngestIInv
  <2> HIDE DEF U
  <2> QED
    BY <2>1
<1>2. f \in [R -> B] /\ \A i, j \in R : f[i] = f[j] => i = j
  BY <1>1 DEF IngestTypes, Numbered
<1>3. IsFiniteSet(R) /\ IsFiniteSet(B) /\ Cardinality(R) = n /\ Cardinality(B) = opened
  <2>1. \A k \in Nat : IsFiniteSet(1..k) /\ Cardinality(1..k) = k
    <3> SUFFICES ASSUME NEW k \in Nat PROVE IsFiniteSet(1..k) /\ Cardinality(1..k) = k
      OBVIOUS
    <3>1. IsFiniteSet(1..k) /\ Cardinality(1..k) = IF 1 > k THEN 0 ELSE k - 1 + 1
      <4> SUFFICES ASSUME NEW a \in Int, NEW b \in Int, a = 1, b = k
                   PROVE  IsFiniteSet(a..b) /\ Cardinality(a..b) = IF a > b THEN 0 ELSE b - a + 1
        OBVIOUS
      <4> QED
        BY FS_Interval
    <3> QED
      BY <3>1
  <2> HIDE DEF n
  <2> QED
    BY <1>1, <2>1
<1>4. ~(Cardinality(B) < Cardinality(R))
  <2> HIDE DEF f, R, B
  <2> QED
    BY <1>2, <1>3, FS_PigeonHole
<1> HIDE DEF n
<1>5. n =< opened
  BY <1>1, <1>3, <1>4
<1> QED
  BY <1>5 DEF n

\* Type correctness of the ingestion: no negative or invented value is ever stored, and
\* every report is of an opened batch, a batch of its own.
THEOREM IngestWellTyped == IngestSpec => []IngestTypeOK
<1>1. IngestInit => IngestTypes
  BY IngestBounds DEF IngestInit, IngestTypes, RowsFit, Fits, Numbered, NoRow, NoIngestTx,
     Columns, Measured
<1>2. IngestIInv /\ IngestTypes => IngestTypeOK
  <2> SUFFICES ASSUME IngestIInv, IngestTypes PROVE IngestTypeOK
    OBVIOUS
  <2>1. \A s \in Slots : /\ daily[s].impressions \in Nat /\ daily[s].clicks \in Nat
                         /\ daily[s].batch \in 0..opened
                         /\ daily[s].feed \in Feeds \cup {Absent}
    <3>1. "impressions" \in Columns /\ "clicks" \in Columns /\ "batch" \in Columns
          /\ "feed" \in Columns
      BY DEF Columns, NoRow
    <3> QED
      BY <3>1 DEF IngestTypes, RowsFit, Fits, Measured
  <2>2. /\ opened \in 0..MaxBatches /\ Len(reports) =< opened
        /\ \A i, j \in DOMAIN reports : /\ reports[i].batch \in 1..opened
                                       /\ reports[i].batch = reports[j].batch => i = j
    BY ReportsWithinOpened DEF IngestTypes, Numbered
  <2>3. ASSUME NEW t \in IngestTx, itx[t].pc # "idle" PROVE DOMAIN itx[t].drafts \subseteq Slots
    <3>1. Sound(itx[t], daily, reports) /\ itx[t].records \in RecordSeqs
      BY <2>3 DEF IngestIInv, Sound
    <3>2. \A i \in Kept(itx[t].records) : SlotOf(itx[t].records[i]) \in Slots
      BY <3>1, KeptSlots
    <3> QED
      BY <3>1, <3>2 DEF Sound
  <2> QED
    BY <2>1, <2>2, <2>3 DEF IngestTypeOK
<1> QED
  BY <1>1, <1>2, IngestTypesStep, IngestInvariant, PTL DEF IngestSpec

-----------------------------------------------------------------------------
(* The warehouse mirror *)

MirrorTypes ==
  /\ DOMAIN primary \subseteq MirrorSlots /\ primary \in [DOMAIN primary -> Delivered]
  /\ versions \in [MirrorSlots -> Seq(Delivered)]
  /\ DOMAIN exports = Syncs
  /\ fresh \in BOOLEAN

\* A sync holds slots of the primary, and what is left to insert is among them.
Copies == UNION {[D -> Delivered] : D \in SUBSET MirrorSlots}
RunningExport == [running : {TRUE}, rows : Copies, left : SUBSET MirrorSlots,
                  current : BOOLEAN]
Exporting(e) ==
  /\ e \in RunningExport
  /\ DOMAIN e.rows \subseteq DOMAIN primary /\ e.left \subseteq DOMAIN e.rows
ExportsSound == \A m \in Syncs : exports[m] = NoExport \/ Exporting(exports[m])

\* The mirror has no slot the primary lacks; the newest versions of these slots are
\* the primary's.
NoStranger == \A s \in MirrorSlots : versions[s] # <<>> => s \in DOMAIN primary
Mirrored(S, v) == \A s \in S : v[s] # <<>> /\ Last(v[s]) = primary[s]

\* A sync nothing has overtaken read the primary as it is, and what it has inserted
\* is still the newest.
CurrentLands ==
  \A m \in Syncs : exports[m].running /\ exports[m].current =>
    exports[m].rows = primary /\ Mirrored(DOMAIN primary \ exports[m].left, versions)
FreshIsMirrored == fresh => Mirrored(DOMAIN primary, versions)

MirrorIInv ==
  MirrorTypes /\ ExportsSound /\ NoStranger /\ CurrentLands /\ FreshIsMirrored

\* Appending a value of the primary to some slots leaves mirrored slots mirrored.
LEMMA MirrorStep == MirrorIInv /\ [MirrorNext]_mirrorVars => MirrorIInv'
<1> SUFFICES ASSUME MirrorIInv, [MirrorNext]_mirrorVars PROVE MirrorIInv'
  OBVIOUS
<1>0. MirrorTypes /\ ExportsSound /\ NoStranger /\ CurrentLands /\ FreshIsMirrored
  BY DEF MirrorIInv
<1>no. ~NoExport.running  BY DEF NoExport
<1>run. ASSUME NEW m \in Syncs, exports[m].running PROVE Exporting(exports[m])
  BY <1>0, <1>run, <1>no DEF ExportsSound
<1>out. ASSUME NEW m \in Syncs
        PROVE  /\ Outdated(exports[m]) = NoExport \/ Exporting(Outdated(exports[m]))
               /\ Outdated(exports[m]).running => ~Outdated(exports[m]).current
  <2>1. CASE exports[m] = NoExport  BY <2>1, <1>no DEF Outdated
  <2>2. CASE Exporting(exports[m])
    <3> DEFINE e == exports[m]
    <3>1. e \in RunningExport /\ e.running  BY <2>2 DEF Exporting, RunningExport
    <3>2. Outdated(e) = [e EXCEPT !.current = FALSE]  BY <3>1 DEF Outdated
    <3>3. /\ Outdated(e) \in RunningExport /\ ~Outdated(e).current
          /\ Outdated(e).rows = e.rows /\ Outdated(e).left = e.left
      BY <3>1, <3>2 DEF RunningExport
    <3> QED BY <2>2, <3>3 DEF Exporting
  <2> QED BY <2>1, <2>2, <1>0 DEF ExportsSound
<1>1. ASSUME NEW s \in MirrorSlots, NEW v \in Delivered, PrimaryWrite(s, v)
      PROVE  MirrorIInv'
  <2>1. /\ primary' = [z \in DOMAIN primary \cup {s} |-> IF z = s THEN v ELSE primary[z]]
        /\ exports' = [m \in Syncs |-> Outdated(exports[m])]
        /\ fresh' = FALSE /\ UNCHANGED versions
    BY <1>1 DEF PrimaryWrite
  <2>2. DOMAIN primary \subseteq DOMAIN primary'  BY <2>1
  <2>3. MirrorTypes'  BY <2>1, <1>0 DEF MirrorTypes
  <2>4. ExportsSound'
    <3> SUFFICES ASSUME NEW m \in Syncs, exports'[m] # NoExport PROVE Exporting(exports[m])'
      BY DEF ExportsSound
    <3>1. exports'[m] = Outdated(exports[m])  BY <2>1
    <3> QED BY <3>1, <2>2, <1>out DEF Exporting
  <2>5. NoStranger'  BY <2>1, <2>2, <1>0 DEF NoStranger
  <2>6. CurrentLands'  BY <2>1, <1>out DEF CurrentLands
  <2>7. FreshIsMirrored'  BY <2>1 DEF FreshIsMirrored
  <2> QED BY <2>3, <2>4, <2>5, <2>6, <2>7 DEF MirrorIInv
<1>2. ASSUME NEW m \in Syncs, Export(m) PROVE MirrorIInv'
  <2> DEFINE e == [running |-> TRUE, rows |-> primary, left |-> DOMAIN primary,
                   current |-> TRUE]
  <2>1. exports' = [exports EXCEPT ![m] = e] /\ UNCHANGED <<primary, versions, fresh>>
    BY <1>2 DEF Export
  <2>2. Exporting(e)
    <3>1. primary \in Copies /\ DOMAIN primary \in SUBSET MirrorSlots
      BY <1>0 DEF MirrorTypes, Copies
    <3> QED BY <3>1 DEF Exporting, RunningExport
  <2>3. \A o \in Syncs : exports'[o] = IF o = m THEN e ELSE exports[o]
    BY <2>1, <1>0 DEF MirrorTypes
  <2>4. MirrorTypes'  BY <2>1, <1>0 DEF MirrorTypes
  <2>5. ExportsSound'
    <3> SUFFICES ASSUME NEW o \in Syncs, exports'[o] # NoExport PROVE Exporting(exports[o])'
      BY DEF ExportsSound
    <3> QED BY <2>1, <2>2, <2>3, <1>0 DEF Exporting, ExportsSound
  <2>6. CurrentLands'
    <3> SUFFICES ASSUME NEW o \in Syncs, exports'[o].running, exports'[o].current
                 PROVE  exports'[o].rows = primary /\ Mirrored(DOMAIN primary \ exports'[o].left, versions)
      BY <2>1 DEF CurrentLands, Mirrored
    <3>1. CASE o = m
      <4>1. exports'[o].rows = primary /\ exports'[o].left = DOMAIN primary  BY <3>1, <2>3
      <4> QED BY <4>1 DEF Mirrored
    <3>2. CASE o # m  BY <3>2, <2>3, <1>0 DEF CurrentLands
    <3> QED BY <3>1, <3>2
  <2>7. NoStranger' /\ FreshIsMirrored'
    BY <2>1, <1>0 DEF NoStranger, FreshIsMirrored, Mirrored
  <2> QED BY <2>4, <2>5, <2>6, <2>7 DEF MirrorIInv
<1>3. ASSUME NEW m \in Syncs, InsertChunk(m) PROVE MirrorIInv'
  <2> DEFINE e == exports[m]
  <2>1. e.running /\ Exporting(e)  BY <1>3, <1>run DEF InsertChunk
  <2>2. PICK chunk \in SUBSET e.left :
          /\ versions' = [s \in MirrorSlots |-> IF s \in chunk THEN Append(versions[s], e.rows[s])
                                                ELSE versions[s]]
          /\ exports' = [o \in Syncs |->
               IF o = m THEN [e EXCEPT !.left = @ \ chunk]
               ELSE IF e.rows # primary THEN Outdated(exports[o]) ELSE exports[o]]
    BY <1>3 DEF InsertChunk, kSubset
  <2>3. fresh' = (fresh /\ e.rows = primary) /\ UNCHANGED primary
    BY <1>3 DEF InsertChunk
  <2> DEFINE f == [e EXCEPT !.left = @ \ chunk]
  <2>4. /\ f \in RunningExport /\ f.rows = e.rows /\ f.left = e.left \ chunk
        /\ f.running = e.running /\ f.current = e.current
    BY <2>1 DEF Exporting, RunningExport
  <2>5. Exporting(f)
    <3> HIDE DEF f
    <3> QED BY <2>1, <2>4 DEF Exporting
  <2> HIDE DEF e
  <2>6. chunk \subseteq MirrorSlots /\ \A s \in chunk : s \in DOMAIN primary /\ e.rows[s] \in Delivered
    <3>1. e.rows \in Copies  BY <2>1 DEF Exporting, RunningExport
    <3>2. \A s \in DOMAIN e.rows : e.rows[s] \in Delivered  BY <3>1 DEF Copies
    <3> QED BY <2>1, <3>2, <1>0 DEF Exporting, MirrorTypes
  <2>7. \A s \in MirrorSlots :
          /\ s \notin chunk => versions'[s] = versions[s]
          /\ s \in chunk => /\ versions'[s] \in Seq(Delivered) /\ versions'[s] # <<>>
                            /\ Last(versions'[s]) = e.rows[s]
    <3> TAKE s \in MirrorSlots
    <3>1. CASE s \in chunk
      <4>1. versions'[s] = Append(versions[s], e.rows[s]) /\ versions[s] \in Seq(Delivered)
            /\ e.rows[s] \in Delivered
        BY <3>1, <2>2, <2>6, <1>0 DEF MirrorTypes
      <4> QED BY <3>1, <4>1 DEF Last
    <3>2. CASE s \notin chunk  BY <3>2, <2>2
    <3> QED BY <3>1, <3>2
  <2>8. MirrorTypes'
    <3>1. versions' \in [MirrorSlots -> Seq(Delivered)]  BY <2>2, <2>7, <1>0 DEF MirrorTypes
    <3>2. DOMAIN exports' = Syncs /\ fresh' \in BOOLEAN
      BY <2>2, <2>3, <1>0 DEF MirrorTypes
    <3> QED BY <3>1, <3>2, <2>3, <1>0 DEF MirrorTypes
  <2>9. ExportsSound'
    <3> SUFFICES ASSUME NEW o \in Syncs, exports'[o] # NoExport PROVE Exporting(exports[o])'
      BY DEF ExportsSound
    <3>1. CASE o = m
      <4>1. exports'[o] = f  BY <3>1, <2>2
      <4> HIDE DEF f
      <4> QED BY <4>1, <2>3, <2>5 DEF Exporting
    <3>2. CASE o # m
      <4>1. exports'[o] \in {Outdated(exports[o]), exports[o]}  BY <3>2, <2>2
      <4>2. Exporting(exports'[o])  BY <4>1, <1>out, <1>0 DEF ExportsSound
      <4> QED BY <4>2, <2>3 DEF Exporting
    <3> QED BY <3>1, <3>2
  <2>10. NoStranger'  BY <2>3, <2>6, <2>7, <1>0 DEF NoStranger
  <2>11. ASSUME e.rows = primary, NEW S, S \subseteq DOMAIN primary, Mirrored(S, versions)
         PROVE  Mirrored(S \cup chunk, versions')
    <3> SUFFICES ASSUME NEW s \in S \cup chunk
                 PROVE  versions'[s] # <<>> /\ Last(versions'[s]) = primary[s]
      BY <2>3 DEF Mirrored
    <3>1. s \in MirrorSlots  BY <2>6, <2>11, <1>0 DEF MirrorTypes
    <3> QED BY <3>1, <2>7, <2>11 DEF Mirrored
  <2>12. FreshIsMirrored'
    <3> SUFFICES ASSUME fresh' PROVE Mirrored(DOMAIN primary, versions')  BY <2>3 DEF FreshIsMirrored, Mirrored
    <3>1. e.rows = primary /\ Mirrored(DOMAIN primary, versions)  BY <2>3, <1>0 DEF FreshIsMirrored
    <3>2. DOMAIN primary \cup chunk = DOMAIN primary  BY <2>6
    <3> QED BY <3>1, <3>2, <2>3, <2>11 DEF Mirrored
  <2>13. CurrentLands'
    <3> SUFFICES ASSUME NEW o \in Syncs, exports'[o].running, exports'[o].current
                 PROVE  exports'[o].rows = primary
                        /\ Mirrored(DOMAIN primary \ exports'[o].left, versions')
      BY <2>3 DEF CurrentLands, Mirrored
    <3>1. CASE o = m
      <4>1. exports'[o] = f  BY <3>1, <2>2
      <4>2. e.current /\ e.rows = exports'[o].rows /\ exports'[o].left = e.left \ chunk
        <5> HIDE DEF f
        <5> QED BY <4>1, <2>4
      <4>3. e.rows = primary /\ Mirrored(DOMAIN primary \ e.left, versions)
        BY <4>2, <2>1, <1>0 DEF CurrentLands, e
      <4>4. DOMAIN primary \ exports'[o].left = (DOMAIN primary \ e.left) \cup chunk
        BY <4>2, <2>6
      <4> DEFINE S == DOMAIN primary \ e.left
      <4>5. Mirrored(S \cup chunk, versions')  BY <4>3, <2>11
      <4> QED BY <4>2, <4>3, <4>4, <4>5, <2>3 DEF Mirrored
    <3>2. CASE o # m
      <4>1. CASE e.rows # primary
        <5>1. exports'[o] = Outdated(exports[o])  BY <3>2, <4>1, <2>2
        <5> QED BY <5>1, <1>out
      <4>2. CASE e.rows = primary
        <5>1. exports'[o] = exports[o]  BY <3>2, <4>2, <2>2
        <5> DEFINE S == DOMAIN primary \ exports[o].left
        <5>2. exports[o].rows = primary /\ Mirrored(S, versions)  BY <5>1, <1>0 DEF CurrentLands
        <5>3. Mirrored(S \cup chunk, versions')  BY <4>2, <5>2, <2>11
        <5> QED BY <5>1, <5>2, <5>3, <2>3 DEF Mirrored
      <4> QED BY <4>1, <4>2
    <3> QED BY <3>1, <3>2
  <2> QED BY <2>8, <2>9, <2>10, <2>12, <2>13 DEF MirrorIInv
<1>4. ASSUME NEW m \in Syncs, SyncDone(m) \/ SyncFails(m) PROVE MirrorIInv'
  <2>1. /\ exports' = [exports EXCEPT ![m] = NoExport] /\ UNCHANGED <<primary, versions>>
        /\ exports[m].running
    BY <1>4 DEF SyncDone, SyncFails
  <2>2. \A o \in Syncs : exports'[o] = IF o = m THEN NoExport ELSE exports[o]
    BY <2>1, <1>0 DEF MirrorTypes
  <2>3. fresh' \in BOOLEAN /\ FreshIsMirrored'
    <3>1. CASE SyncFails(m)
      BY <3>1, <2>1, <1>0 DEF SyncFails, MirrorTypes, FreshIsMirrored, Mirrored
    <3>2. CASE SyncDone(m)
      <4>1. fresh' = (fresh \/ exports[m].current) /\ exports[m].left = {}
        BY <3>2 DEF SyncDone
      <4>2. exports[m].current \in BOOLEAN  BY <2>1, <1>run DEF Exporting, RunningExport
      <4>3. exports[m].current => Mirrored(DOMAIN primary \ exports[m].left, versions)
        BY <2>1, <1>0 DEF CurrentLands
      <4>4. fresh' => Mirrored(DOMAIN primary, versions)  BY <4>1, <4>3, <1>0 DEF FreshIsMirrored
      <4> QED BY <4>1, <4>2, <4>4, <2>1, <1>0 DEF MirrorTypes, FreshIsMirrored, Mirrored
    <3> QED BY <1>4, <3>1, <3>2
  <2>4. MirrorTypes'  BY <2>1, <2>3, <1>0 DEF MirrorTypes
  <2>5. ExportsSound'
    <3> SUFFICES ASSUME NEW o \in Syncs, exports'[o] # NoExport PROVE Exporting(exports[o])'
      BY DEF ExportsSound
    <3> QED BY <2>1, <2>2, <1>0 DEF Exporting, ExportsSound
  <2>6. CurrentLands'
    <3> SUFFICES ASSUME NEW o \in Syncs, exports'[o].running, exports'[o].current
                 PROVE  exports'[o].rows = primary /\ Mirrored(DOMAIN primary \ exports'[o].left, versions)
      BY <2>1 DEF CurrentLands, Mirrored
    <3> QED BY <2>2, <1>no, <1>0 DEF CurrentLands
  <2>7. NoStranger'  BY <2>1, <1>0 DEF NoStranger
  <2> QED BY <2>3, <2>4, <2>5, <2>6, <2>7 DEF MirrorIInv
<1>5. ASSUME NEW s \in MirrorSlots, BackgroundMerge(s) PROVE MirrorIInv'
  <2>1. /\ versions' = [versions EXCEPT ![s] = <<Last(versions[s])>>] /\ Len(versions[s]) > 1
        /\ UNCHANGED <<primary, exports, fresh>>
    BY <1>5 DEF BackgroundMerge
  <2>2. versions[s] \in Seq(Delivered) /\ Last(versions[s]) \in Delivered
    BY <2>1, <1>0 DEF MirrorTypes, Last
  <2>3. \A z \in MirrorSlots : /\ versions'[z] \in Seq(Delivered)
                               /\ versions'[z] # <<>> <=> versions[z] # <<>>
                               /\ Last(versions'[z]) = Last(versions[z])
    <3> TAKE z \in MirrorSlots
    <3>1. CASE z = s
      <4>1. versions'[z] = <<Last(versions[s])>>  BY <3>1, <2>1, <1>0 DEF MirrorTypes
      <4>2. versions[s] # <<>>  BY <2>1, <2>2
      <4> DEFINE v == Last(versions[s])
      <4>3. versions'[z] = <<v>> /\ v \in Delivered  BY <4>1, <2>2
      <4> HIDE DEF v
      <4>4. versions'[z] \in Seq(Delivered) /\ versions'[z] # <<>> /\ Last(versions'[z]) = v
        BY <4>3 DEF Last
      <4> QED BY <3>1, <4>2, <4>4 DEF v
    <3>2. CASE z # s  BY <3>2, <2>1, <1>0 DEF MirrorTypes
    <3> QED BY <3>1, <3>2
  <2>4. MirrorTypes'
    <3>1. versions' \in [MirrorSlots -> Seq(Delivered)]  BY <2>1, <2>3, <1>0 DEF MirrorTypes
    <3> QED BY <3>1, <2>1, <1>0 DEF MirrorTypes
  <2>5. ExportsSound'  BY <2>1, <1>0 DEF ExportsSound, Exporting
  <2>6. NoStranger'  BY <2>1, <2>3, <1>0 DEF NoStranger
  <2>7. \A S \in SUBSET DOMAIN primary : Mirrored(S, versions) => Mirrored(S, versions')
    <3>1. DOMAIN primary \subseteq MirrorSlots  BY <1>0 DEF MirrorTypes
    <3> QED BY <3>1, <2>1, <2>3 DEF Mirrored
  <2>8. CurrentLands'
    <3> SUFFICES ASSUME NEW o \in Syncs, exports[o].running, exports[o].current
                 PROVE  exports[o].rows = primary /\ Mirrored(DOMAIN primary \ exports[o].left, versions')
      BY <2>1 DEF CurrentLands, Mirrored
    <3> DEFINE S == DOMAIN primary \ exports[o].left
    <3>1. exports[o].rows = primary /\ Mirrored(S, versions)  BY <1>0 DEF CurrentLands
    <3>2. Mirrored(S, versions')  BY <3>1, <2>7
    <3> QED BY <3>1, <3>2
  <2>9. FreshIsMirrored'
    <3>1. fresh => Mirrored(DOMAIN primary, versions)  BY <1>0 DEF FreshIsMirrored
    <3> QED BY <3>1, <2>1, <2>7 DEF FreshIsMirrored, Mirrored
  <2> QED BY <2>4, <2>5, <2>6, <2>8, <2>9 DEF MirrorIInv
<1>6. CASE UNCHANGED mirrorVars
  BY <1>6, <1>0 DEF mirrorVars, MirrorIInv, MirrorTypes, ExportsSound, Exporting, NoStranger,
     CurrentLands, FreshIsMirrored, Mirrored
<1> QED BY <1>1, <1>2, <1>3, <1>4, <1>5, <1>6 DEF MirrorNext

LEMMA MirrorInvariant == MirrorSpec => []MirrorIInv
<1>1. MirrorInit => MirrorIInv
  <2> SUFFICES ASSUME MirrorInit PROVE MirrorIInv  OBVIOUS
  <2>1. DOMAIN primary = {} /\ primary \in [{} -> Delivered]  BY DEF MirrorInit
  <2>2. MirrorTypes
    <3>1. versions \in [MirrorSlots -> Seq(Delivered)]  BY DEF MirrorInit
    <3>2. DOMAIN exports = Syncs /\ fresh \in BOOLEAN  BY DEF MirrorInit
    <3> QED BY <2>1, <3>1, <3>2 DEF MirrorTypes
  <2>3. ExportsSound /\ CurrentLands
    BY DEF MirrorInit, ExportsSound, CurrentLands, NoExport
  <2>4. NoStranger /\ FreshIsMirrored  BY DEF MirrorInit, NoStranger, FreshIsMirrored
  <2> QED BY <2>2, <2>3, <2>4 DEF MirrorIInv
<1> QED BY <1>1, MirrorStep, PTL DEF MirrorSpec

\* The reader's sum of the newest versions is a sum in the sense of the lemmas above.
LEMMA NewestIsSum ==
  ASSUME MirrorTypes
  PROVE  LET newest == [s \in MirrorSlots |-> Newest(s)]
         IN  /\ newest \in [MirrorSlots -> Nat]
             /\ MapThenSumSet(Newest, MirrorCreatives) = Total(newest, MirrorCreatives)
<1> DEFINE newest == [s \in MirrorSlots |-> Newest(s)]
           S == MirrorCreatives
           Reads(g) == g = [s \in SUBSET S |-> IF s = {} THEN 0
                                               ELSE Newest(Pick(s)) + g[s \ {Pick(s)}]]
           iter == CHOOSE g : Reads(g)
<1>1. newest \in [MirrorSlots -> Nat]
  <2> SUFFICES ASSUME NEW s \in MirrorSlots PROVE Newest(s) \in Nat  OBVIOUS
  <2>1. versions[s] \in Seq(Delivered) /\ Delivered \subseteq Nat
    BY MirrorBounds DEF MirrorTypes
  <2>2. versions[s] # <<>> => Last(versions[s]) \in Delivered  BY <2>1 DEF Last
  <2> QED BY <2>1, <2>2 DEF Newest
<1>2. MapThenSumSet(Newest, S) = iter[S]
  BY DEF MapThenSumSet, MapThenFoldSet, Newest, Pick
<1>3. \A g : Reads(g) <=> Sums(g, newest, S)
  <2>1. \A s \in SUBSET S : s # {} => newest[Pick(s)] = Newest(Pick(s))
    BY DEF MirrorSlots, Pick
  <2> SUFFICES ASSUME NEW g PROVE Reads(g) <=> Sums(g, newest, S)  OBVIOUS
  <2> HIDE DEF newest
  <2>2. [s \in SUBSET S |-> IF s = {} THEN 0 ELSE Newest(Pick(s)) + g[s \ {Pick(s)}]]
          = [s \in SUBSET S |-> IF s = {} THEN 0 ELSE newest[Pick(s)] + g[s \ {Pick(s)}]]
    BY <2>1
  <2> QED BY <2>2 DEF Sums
<1>4. /\ IsFiniteSet(MirrorSlots) /\ S \in SUBSET MirrorSlots /\ S \in SUBSET S
  BY MirrorBounds, FS_AddElement DEF MirrorSlots
<1>5. PICK g : Sums(g, newest, S)
  <2> HIDE DEF newest
  <2> QED BY <1>1, <1>4, SumExists
<1>6. Sums(iter, newest, S)
  <2>1. \E h : Reads(h)  BY <1>3, <1>5
  <2> HIDE DEF Reads
  <2>2. Reads(iter)  BY <2>1
  <2> HIDE DEF iter
  <2> QED BY <2>2, <1>3
<1>7. iter[S] = Total(newest, S)
  <2> DEFINE total == CHOOSE h : Sums(h, newest, S)
  <2> HIDE DEF newest, iter
  <2>1. Sums(total, newest, S)
    <3>1. \E h : Sums(h, newest, S)  BY <1>5
    <3> QED BY <3>1
  <2> HIDE DEF total
  <2>2. iter[S] = total[S]  BY <1>4, <1>6, <2>1, SumsAgree
  <2> QED BY <2>2 DEF total, Total
<1> QED BY <1>1, <1>2, <1>7

\* The shape of the primary, of the mirror's versions and of the running syncs: the
\* mirror has no slot the primary lacks, and a sync inserts only what it read.
THEOREM MirrorWellTyped == MirrorSpec => []MirrorTypeOK
<1>1. MirrorIInv => MirrorTypeOK
  BY DEF MirrorIInv, MirrorTypes, ExportsSound, Exporting, NoExport, NoStranger, MirrorTypeOK
<1> QED BY <1>1, MirrorInvariant, PTL

\* However often windows were replayed, chunks failed and syncs overlapped, once a
\* sync has run whole on the last of the primary both readers say the same: no
\* delivery is counted twice, by version or by granularity
\* (services/warehouse_sync.py; infra/warehouse.py _relation, _delivery_relation).
THEOREM MirrorAlwaysConverges == MirrorSpec => []MirrorConverges
<1>1. ASSUME MirrorIInv, fresh PROVE ClickHouseDelivery = SqlDelivery
  <2> DEFINE D == DOMAIN primary
             S == MirrorCreatives
             newest == [s \in MirrorSlots |-> Newest(s)]
  <2>1. /\ D \subseteq MirrorSlots /\ primary \in [D -> Nat] /\ MirrorTypes
        /\ Mirrored(D, versions) /\ NoStranger
    BY <1>1, MirrorBounds DEF MirrorIInv, MirrorTypes, FreshIsMirrored
  <2>2. \A s \in MirrorSlots : /\ s \in D <=> versions[s] # <<>>
                               /\ Newest(s) = IF s \in D THEN primary[s] ELSE 0
    BY <2>1 DEF Mirrored, NoStranger, Newest
  <2>3. CASE RollUp \in D
    <3>1. versions[RollUp] # <<>> /\ Newest(RollUp) = primary[RollUp]
      BY <2>2, <2>3 DEF MirrorSlots
    <3> QED BY <2>3, <3>1 DEF ClickHouseDelivery, SqlDelivery
  <2>4. CASE RollUp \notin D
    <3>1. versions[RollUp] = <<>>  BY <2>2, <2>4 DEF MirrorSlots
    <3>2. D \subseteq S  BY <2>1, <2>4 DEF MirrorSlots
    <3>3. IsFiniteSet(MirrorSlots) /\ S \in SUBSET MirrorSlots /\ IsFiniteSet(D)
      <4>1. IsFiniteSet(MirrorSlots)  BY MirrorBounds, FS_AddElement DEF MirrorSlots
      <4> QED BY <4>1, <2>1, FS_Subset DEF MirrorSlots
    <3>4. newest \in [MirrorSlots -> Nat] /\ MapThenSumSet(Newest, S) = Total(newest, S)
      BY <2>1, NewestIsSum
    <3>5. ClickHouseDelivery = Total(newest, S)
      BY <3>1, <3>4 DEF ClickHouseDelivery
    <3>6. SqlDelivery = Total(primary, D)
      <4>1. MapThenSumSet(LAMBDA s : primary[s], D) = Total(primary, D)  BY SumIsMapped
      <4> QED BY <2>4, <4>1 DEF SqlDelivery
    <3>7. \A s \in MirrorSlots : newest[s] = IF s \in D THEN primary[s] ELSE 0
      BY <2>2
    <3> HIDE DEF newest, D, S
    <3>8. Total(newest, S) = Total(newest, D)
      <4>1. D \in SUBSET S /\ \A s \in S \ D : newest[s] = 0  BY <3>2, <3>3, <3>7
      <4> QED BY <3>3, <3>4, <4>1, SumSkipsZeros
    <3>9. Total(newest, D) = Total(primary, D)
      <4>1. D \in SUBSET MirrorSlots /\ D \subseteq D /\ \A s \in D : newest[s] = primary[s]
        BY <2>1, <3>7
      <4> QED BY <3>3, <3>4, <2>1, <4>1, SumSame
    <3> QED BY <3>5, <3>6, <3>8, <3>9
  <2> QED BY <2>3, <2>4
<1>2. MirrorIInv => MirrorConverges  BY <1>1 DEF MirrorConverges
<1> QED BY <1>2, MirrorInvariant, PTL

-----------------------------------------------------------------------------
(* The services side by side *)

\* Wherever a behaviour works, each service does its own steps or nothing.
LEMMA StepsOfServices ==
  [Next]_<<focus, accountVars, alertVars, gatewayVars, limiterVars, ingestVars, mirrorVars>>
    => /\ [AccountsNext]_accountVars /\ [AlertsNext]_alertVars /\ [GatewayNext]_gatewayVars
       /\ [LimiterNext]_limiterVars /\ [IngestNext]_ingestVars /\ [MirrorNext]_mirrorVars
       /\ UNCHANGED focus
BY DEF Next

\* Each service keeps to its own specification beside the others, so that whatever is
\* proved of one holds where they run together.
THEOREM ServicesStandAlone ==
  Spec => /\ AccountsSpec /\ AlertsSpec /\ GatewaySpec
          /\ LimiterSpec /\ IngestSpec /\ MirrorSpec
<1>1. Init => /\ AccountsInit /\ AlertsInit /\ GatewayInit
              /\ LimiterInit /\ IngestInit /\ MirrorInit
  BY DEF Init
<1> QED
  BY <1>1, StepsOfServices, PTL DEF Spec, AccountsSpec, AlertsSpec, GatewaySpec, LimiterSpec,
     IngestSpec, MirrorSpec

\* Type correctness of all the services.
THEOREM ServicesWellTyped == Spec => []ServicesTypeOK
<1> DEFINE Services == {"accounts", "alerts", "gateway", "limiter", "ingest", "mirror"}
<1>1. Init => focus \in Services
  BY DEF Init
<1>2. focus \in Services /\ UNCHANGED focus => (focus \in Services)'
  OBVIOUS
<1>3. focus \in Services /\ AccountsTypeOK /\ AlertsTypeOK /\ GatewayTypeOK /\ LimiterTypeOK
        /\ IngestTypeOK /\ MirrorTypeOK => ServicesTypeOK
  BY DEF ServicesTypeOK
<1> HIDE DEF Services
<1> QED
  BY <1>1, <1>2, <1>3, StepsOfServices, ServicesStandAlone, AccountsTyped, AlertsWellTyped,
     GatewayWellTyped, LimiterWellTyped, IngestWellTyped, MirrorWellTyped, PTL DEF Spec
=============================================================================
