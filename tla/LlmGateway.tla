----------------------------- MODULE LlmGateway -----------------------------
(***************************************************************************)
(* Access to the language model (llm/gateway.py, llm/ledger.py): budget,   *)
(* cache, bounded concurrency, retries and the fall-back to the mock.      *)
(*                                                                         *)
(* A gateway lives in one process; the ledger is shared.  A call is split  *)
(* at its awaits.  Text is a run of numbered fragments: fragment i of      *)
(* attempt a is <<a, i>>, so that two attempts never say the same.  The    *)
(* provider, the mock (free) and the cached text are external.             *)
(***************************************************************************)
EXTENDS Integers, FiniteSets, Sequences, Functions

CONSTANTS Callers, Gateways, Home,    \* the gateway each caller uses
          Prompts,                    \* cache keys
          Limit,                      \* monthly_budget_usd; 0 is no limit
          MaxCost,                    \* bound: what one completion may cost
          Permits, Attempts, Fragments,
          FailOpen,                   \* fail_open_to_mock
          MaxCalls                    \* bound: calls per caller

ASSUME GatewayBounds ==
  /\ Home \in [Callers -> Gateways]
  /\ Limit \in Nat /\ MaxCost \in Nat /\ MaxCalls \in Nat
  /\ Permits \in Nat \ {0} /\ Attempts \in Nat \ {0} /\ Fragments \in Nat \ {0}
  /\ FailOpen \in BOOLEAN /\ IsFiniteSet(Callers)

VARIABLES spent,      \* committed rows of the month, summed per caller's run
          earlier,    \* what the rows of other runs sum up to
          latched,    \* gateways that have seen the limit reached
          cache,      \* per gateway: the prompts it can answer
          call,       \* per caller
          tally,      \* per caller's run: cost folded into its totals
          cut,        \* history: callers interrupted between ledger and tally
          made        \* calls started

gatewayVars == <<spent, earlier, latched, cache, call, tally, cut, made>>

NoCall == [pc |-> "idle", prompt |-> "none", attempt |-> 0, shown |-> <<>>,
           source |-> "none", cost |-> 0]
Whole == <<0, Fragments>>     \* a cached text arrives in one piece

GatewayInit ==
  /\ spent = [c \in Callers |-> 0] /\ earlier \in {0, Limit}
  /\ latched = {}
  /\ cache = [g \in Gateways |-> {}]
  /\ call = [c \in Callers |-> NoCall]
  /\ tally = [c \in Callers |-> 0]
  /\ cut = {}
  /\ made = [c \in Callers |-> 0]

MonthToDate == earlier + FoldFunction(+, 0, spent)
At(c, pcs) == call[c].pc \in pcs
Goes(c, r) == call' = [call EXCEPT ![c] = r]
Holding(g) == {c \in Callers : Home[c] = g /\ At(c, {"calling", "waiting", "mock"})}

StartCall(c, p) ==
  /\ At(c, {"idle"}) /\ made[c] < MaxCalls
  /\ made' = [made EXCEPT ![c] = @ + 1]
  /\ Goes(c, [NoCall EXCEPT !.pc = "budget", !.prompt = p])
  /\ UNCHANGED <<spent, earlier, latched, cache, tally, cut>>

\* Broken variant: the limit itself may be exceeded.
EnforceBudgetLate(c) ==
  /\ At(c, {"budget"})
  /\ LET refused == Home[c] \in latched \/ (Limit > 0 /\ MonthToDate > Limit)
     IN  /\ latched' = IF refused THEN latched \cup {Home[c]} ELSE latched
         /\ Goes(c, IF refused THEN NoCall ELSE [call[c] EXCEPT !.pc = "cache"])
  /\ UNCHANGED <<spent, earlier, cache, tally, cut, made>>

(* Once latched, a gateway refuses without asking the ledger again. *)
EnforceBudget(c) ==
  /\ At(c, {"budget"})
  /\ LET refused == Home[c] \in latched \/ (Limit > 0 /\ MonthToDate >= Limit)
     IN  /\ latched' = IF refused THEN latched \cup {Home[c]} ELSE latched
         /\ Goes(c, IF refused THEN NoCall ELSE [call[c] EXCEPT !.pc = "cache"])
  /\ UNCHANGED <<spent, earlier, cache, tally, cut, made>>

(* A hit is free: it is neither recorded nor tallied. *)
ReadCache(c) ==
  /\ At(c, {"cache"})
  /\ Goes(c, IF call[c].prompt \in cache[Home[c]]
             THEN [call[c] EXCEPT !.pc = "returned", !.source = "cache",
                                  !.shown = <<Whole>>]
             ELSE [call[c] EXCEPT !.pc = "queued"])
  /\ UNCHANGED <<spent, earlier, latched, cache, tally, cut, made>>

Acquire(c) ==
  /\ At(c, {"queued"})
  /\ Cardinality(Holding(Home[c])) < Permits
  /\ Goes(c, [call[c] EXCEPT !.pc = "calling", !.attempt = 1])
  /\ UNCHANGED <<spent, earlier, latched, cache, tally, cut, made>>

\* Broken variant: every attempt streams to the consumer.
ForwardsAlways(c) == TRUE

(* Only the first attempt has the consumer's handler. *)
Forwards(c) == call[c].attempt = 1

Shown(c) == Cardinality({i \in DOMAIN call[c].shown : call[c].shown[i][1] = call[c].attempt})

StreamFragment(c) ==
  /\ At(c, {"calling"}) /\ Forwards(c)
  /\ Shown(c) < Fragments
  /\ Goes(c, [call[c] EXCEPT !.shown = Append(@, <<call[c].attempt, Shown(c) + 1>>)])
  /\ UNCHANGED <<spent, earlier, latched, cache, tally, cut, made>>

(* The provider answers, having streamed all of it if it streamed at all. *)
AttemptSucceeds(c, cost) ==
  /\ At(c, {"calling"})
  /\ Forwards(c) => Shown(c) = Fragments
  /\ Goes(c, [call[c] EXCEPT !.pc = "store", !.source = "provider", !.cost = cost])
  /\ UNCHANGED <<spent, earlier, latched, cache, tally, cut, made>>

(* An error, or an empty completion; what was shown stays shown. *)
AttemptFails(c) ==
  /\ At(c, {"calling"})
  /\ Goes(c, CASE call[c].attempt < Attempts -> [call[c] EXCEPT !.pc = "waiting"]
               [] call[c].attempt >= Attempts /\ FailOpen -> [call[c] EXCEPT !.pc = "mock"]
               [] OTHER -> NoCall)
  /\ UNCHANGED <<spent, earlier, latched, cache, tally, cut, made>>

Retry(c) ==
  /\ At(c, {"waiting"})
  /\ Goes(c, [call[c] EXCEPT !.pc = "calling", !.attempt = @ + 1])
  /\ UNCHANGED <<spent, earlier, latched, cache, tally, cut, made>>

Degrade(c) ==
  /\ At(c, {"mock"})
  /\ Goes(c, [call[c] EXCEPT !.pc = "store", !.source = "mock", !.cost = 0])
  /\ UNCHANGED <<spent, earlier, latched, cache, tally, cut, made>>

(* A degraded answer is not kept. *)
WriteCache(c) ==
  /\ At(c, {"store"})
  /\ cache' = [cache EXCEPT ![Home[c]] =
                 IF call[c].source = "mock" THEN @ ELSE @ \cup {call[c].prompt}]
  /\ Goes(c, [call[c] EXCEPT !.pc = "record"])
  /\ UNCHANGED <<spent, earlier, latched, tally, cut, made>>

Record(c) ==
  /\ At(c, {"record"})
  /\ spent' = [spent EXCEPT ![c] = @ + call[c].cost]
  /\ Goes(c, [call[c] EXCEPT !.pc = "tally"])
  /\ UNCHANGED <<earlier, latched, cache, tally, cut, made>>

\* Broken variant: a failed ledger write is swallowed.
RecordFailsQuietly(c) ==
  /\ At(c, {"record"})
  /\ Goes(c, [call[c] EXCEPT !.pc = "tally"])
  /\ UNCHANGED <<spent, earlier, latched, cache, tally, cut, made>>

(* A ledger that cannot be written ends the call. *)
RecordFails(c) ==
  /\ At(c, {"record"})
  /\ Goes(c, NoCall)
  /\ UNCHANGED <<spent, earlier, latched, cache, tally, cut, made>>

TallyUsage(c) ==
  /\ At(c, {"tally"})
  /\ tally' = [tally EXCEPT ![c] = @ + call[c].cost]
  /\ Goes(c, [call[c] EXCEPT !.pc = "returned"])
  /\ UNCHANGED <<spent, earlier, latched, cache, cut, made>>

Consume(c) ==
  /\ At(c, {"returned"})
  /\ Goes(c, NoCall)
  /\ UNCHANGED <<spent, earlier, latched, cache, tally, cut, made>>

(* The task is cancelled at an await.  At "tally" the ledger's commit has  *)
(* reached the database and its answer has not reached the task.           *)
Interrupt(c) ==
  /\ ~At(c, {"idle", "returned"})
  /\ cut' = IF At(c, {"tally"}) THEN cut \cup {c} ELSE cut
  /\ Goes(c, NoCall)
  /\ UNCHANGED <<spent, earlier, latched, cache, tally, made>>

(* Entries live for cache_ttl_seconds, or until a full cache evicts them. *)
Forget(g, p) ==
  /\ p \in cache[g]
  /\ cache' = [cache EXCEPT ![g] = @ \ {p}]
  /\ UNCHANGED <<spent, earlier, latched, call, tally, cut, made>>

GatewayNext ==
  \/ \E c \in Callers :
       \/ \E p \in Prompts : StartCall(c, p)
       \/ EnforceBudget(c) \/ ReadCache(c) \/ Acquire(c)
       \/ StreamFragment(c) \/ AttemptFails(c) \/ Retry(c) \/ Degrade(c)
       \/ \E cost \in 0..MaxCost : AttemptSucceeds(c, cost)
       \/ WriteCache(c) \/ Record(c) \/ RecordFails(c) \/ TallyUsage(c)
       \/ Consume(c) \/ Interrupt(c)
  \/ \E g \in Gateways, p \in Prompts : Forget(g, p)

GatewaySpec == GatewayInit /\ [][GatewayNext]_gatewayVars

-----------------------------------------------------------------------------
(***************************************************************************)
(* Properties                                                              *)
(***************************************************************************)
CallPhases == {"idle", "budget", "cache", "queued", "calling", "waiting", "mock", "store",
               "record", "tally", "returned"}

(* The shape of the state. *)
GatewayTypeOK ==
  /\ spent \in [Callers -> Nat] /\ earlier \in Nat /\ tally \in [Callers -> Nat]
  /\ latched \subseteq Gateways /\ cache \in [Gateways -> SUBSET Prompts]
  /\ \A c \in Callers :
       /\ call[c].pc \in CallPhases /\ call[c].attempt \in 0..Attempts
       /\ call[c].cost \in 0..MaxCost
       /\ Len(call[c].shown) =< Fragments
  /\ cut \subseteq Callers /\ made \in [Callers -> 0..MaxCalls]

(* The budget is checked before a call and charged after it, so it can be  *)
(* overspent; but by no more than what the calls already admitted when it  *)
(* was reached cost, one for each caller (gateway.py _enforce_budget).     *)
OvershootBounded ==
  Limit > 0 /\ MonthToDate > earlier
    => MonthToDate < Limit + Cardinality(Callers) * MaxCost

(* "These numbers always agree with the llm_spend rows of the run"         *)
(* (gateway.py:107-111): whenever no call of it is in flight, unless one   *)
(* was interrupted after its row had been committed.                       *)
TotalsMatchLedger ==
  \A c \in Callers : call[c].pc \in {"idle", "returned"} /\ c \notin cut
                       => tally[c] = spent[c]

(* A consumer never renders a text twice or mixed from two attempts, and   *)
(* one that followed the answer it gets from its first attempt, or from    *)
(* the cache, has rendered all of it (gateway.py:143-149, 247-255).        *)
RenderedOnce ==
  \A c \in Callers :
    LET shown == call[c].shown
    IN  /\ \A i \in DOMAIN shown : shown[i][1] = shown[1][1]
        /\ \A i, j \in DOMAIN shown : i < j => shown[i][2] < shown[j][2]
        /\ call[c].pc = "returned" /\ (call[c].source = "cache" \/ call[c].attempt = 1)
             /\ call[c].source # "mock"
             => shown[Len(shown)][2] = Fragments
=============================================================================
