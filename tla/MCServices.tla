----------------------------- MODULE MCServices -----------------------------
(***************************************************************************)
(* One run for the services that share no state.  A behaviour works on one *)
(* of them, its focus, and leaves the others where they start, so that the *)
(* state spaces add up rather than multiply.                               *)
(***************************************************************************)
EXTENDS Accounts, Alerts, LlmGateway, RateLimits, MetricIngest, WarehouseMirror

CONSTANTS c1, c2, g1, k1, k2

VARIABLE focus

MCHome == (c1 :> g1) @@ (c2 :> g1)
MCLimitOf == (k1 :> 1) @@ (k2 :> 2)
MCOwnerOf == ("k" :> "a")

Claim(campaign, external, creative, impressions, clicks) ==
  [campaign |-> campaign, external |-> external, creative |-> creative,
   impressions |-> impressions, clicks |-> clicks, ahead |-> FALSE]
Views(n) == Claim("a", Absent, Absent, n, Absent)
Hits(n) == Claim("a", "a", Absent, Absent, n)
Banner(n) == Claim(Absent, "a", "k", n, 1)
Tomorrow == [Claim("b", Absent, Absent, 1, 1) EXCEPT !.ahead = TRUE]
Sent(feed, dry, records) == [feed |-> feed, dry |-> dry, records |-> records]

(* Two feeds that measure different columns, batches that take their slots *)
(* in opposite orders, a rehearsal, and every way a record is refused.     *)
MCBatches ==
  { Sent("f", FALSE, <<Views(2)>>),
    Sent("g", FALSE, <<Hits(1), Claim("b", Absent, "k", 1, 1)>>),
    Sent("f", FALSE, <<Banner(1), Views(2)>>),
    Sent("g", FALSE, <<Views(1), Banner(2)>>),
    Sent("f", TRUE, <<Views(1), Claim("a", "b", Absent, 1, 1), Tomorrow>>),
    Sent("g", FALSE, <<Views(1), Hits(1), Claim("b", Absent, Absent, 1, 2),
                       Claim("z", Absent, Absent, 1, 1),
                       Claim("b", Absent, Absent, -1, Absent)>>) }

Init ==
  /\ AccountsInit /\ AlertsInit /\ GatewayInit /\ LimiterInit
  /\ IngestInit /\ MirrorInit
  /\ focus \in {"accounts", "alerts", "gateway", "limiter", "ingest", "mirror"}
  /\ focus # "gateway" => earlier = 0

Next ==
  /\ UNCHANGED focus
  /\ \/ /\ focus = "accounts" /\ AccountsNext
        /\ UNCHANGED <<alertVars, gatewayVars, limiterVars, ingestVars, mirrorVars>>
     \/ /\ focus = "alerts" /\ AlertsNext
        /\ UNCHANGED <<accountVars, gatewayVars, limiterVars, ingestVars, mirrorVars>>
     \/ /\ focus = "gateway" /\ GatewayNext
        /\ UNCHANGED <<accountVars, alertVars, limiterVars, ingestVars, mirrorVars>>
     \/ /\ focus = "limiter" /\ LimiterNext
        /\ UNCHANGED <<accountVars, alertVars, gatewayVars, ingestVars, mirrorVars>>
     \/ /\ focus = "ingest" /\ IngestNext
        /\ UNCHANGED <<accountVars, alertVars, gatewayVars, limiterVars, mirrorVars>>
     \/ /\ focus = "mirror" /\ MirrorNext
        /\ UNCHANGED <<accountVars, alertVars, gatewayVars, limiterVars, ingestVars>>

Spec == Init /\ [][Next]_<<focus, accountVars, alertVars, gatewayVars, limiterVars,
                          ingestVars, mirrorVars>>

(* Interchangeable transactions. *)
Interchangeable == Permutations(AccountTx)

(* The shape of the state. *)
ServicesTypeOK ==
  CASE focus = "accounts" -> AccountsTypeOK
    [] focus = "alerts" -> AlertsTypeOK
    [] focus = "gateway" -> GatewayTypeOK
    [] focus = "limiter" -> LimiterTypeOK
    [] focus = "ingest" -> IngestTypeOK
    [] focus = "mirror" -> MirrorTypeOK
=============================================================================
