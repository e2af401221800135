--------------------------- MODULE IngestScheduler ---------------------------
(***************************************************************************)
(* The scheduled pull of one feed: which days a tick asks for, the         *)
(* database lease that keeps ticks of several processes apart, and the     *)
(* watermark that records what the feed has covered.  Feeds have a lease   *)
(* and a watermark each and share nothing, so one feed is modelled.        *)
(*                                                                         *)
(* A tick commits three transactions: claim the lease; pull, ingest and    *)
(* advance the watermark; record the outcome and let the lease go.  The    *)
(* second reads the watermark and writes it back without a row lock, and   *)
(* the days a capped tick leaves out are reported only when it returns.    *)
(***************************************************************************)
EXTENDS Integers, FiniteSets

CONSTANTS
  Process,     \* processes that tick: CronJob pods, resident loops, manual runs
  Rehearsing,  \* those of them that run with dry_run
  Forcing,     \* those that run with --force
  Nobody,
  NoMark,      \* no watermark row
  Lookback,    \* INGEST__LOOKBACK_DAYS
  MaxCatchup,  \* INGEST__MAX_CATCHUP_DAYS
  Busy,        \* the days of which the feed has rows to write
  MaxDay,      \* bound: last calendar day of a behaviour
  MaxStall,    \* bound: midnights a tick may straddle (activeDeadlineSeconds)
  MaxCrashes   \* bound: process crashes in one behaviour

\* _catchup_must_cover_the_lookback and the field bounds of IngestSettings; a tick
\* straddles no more midnights than the lookback has days (the pod that runs it has
\* half an hour, activeDeadlineSeconds, and the lookback is one day at least).
ASSUME IngestAssumption ==
  /\ Rehearsing \subseteq Process /\ Forcing \subseteq Process
  /\ Nobody \notin Process
  /\ Lookback \in Nat \ {0}
  /\ MaxCatchup \in Nat /\ MaxCatchup >= Lookback
  /\ Busy \subseteq Int
  /\ MaxDay \in Nat /\ MaxCrashes \in Nat
  /\ MaxStall \in Nat /\ MaxStall =< Lookback
  /\ NoMark \notin [start : Int, end : Int]

VARIABLES
  today,     \* the calendar day, UTC
  mark,      \* committed watermark row: the covered span
  lease,     \* committed lease row: holder, and whether it is absent, free,
             \* held or past its expiry
  pc,        \* where each tick stands
  plan,      \* the window each tick decided on
  owed,      \* the days behind that plan's gap_days, to be reported by its tick
  seen,      \* the watermark row each tick's transaction has read
  rows,      \* the days of which each open pull has written, and locks, a row
  pulled,    \* history: days some committed pull or backfill asked the feed for
  declared,  \* history: days some tick reported as a gap when it returned
  unsaid,    \* history: gap days of ticks that died between landing and returning
  overrun,   \* history: processes whose lease expired during their tick
  bypassed,  \* history: open pulls that a pull with no row in common has
             \* overtaken since they read, one of the two past its TTL
  crashes

planVars    == <<plan, owed>>
pullVars    == <<seen, rows, bypassed>>
leaseVars   == <<lease, overrun>>
historyVars == <<pulled, declared, unsaid>>
vars == <<today, mark, pc, crashes, planVars, pullVars, leaseVars, historyVars>>

\* Windows are inclusive at both ends and never empty.
Span == {s \in [start : Int, end : Int] : s.start <= s.end}
NoSpan == [start |-> 0, end |-> -1]
LeaseStates == {"absent", "free", "held", "expired"}
TickPc == {"idle", "claiming", "inserting", "pulling", "advancing", "releasing", "failing"}

TypeOK ==
  /\ today \in 0..MaxDay
  /\ mark \in Span \cup {NoMark}
  /\ lease \in [state : LeaseStates, holder : Process \cup {Nobody}]
  /\ pc \in [Process -> TickPc]
  /\ plan \in [Process -> Span \cup {NoSpan}]
  /\ owed \in [Process -> SUBSET Int]
  /\ seen \in [Process -> Span \cup {NoMark}]
  /\ rows \in [Process -> SUBSET Int]
  /\ pulled \subseteq Int /\ declared \subseteq Int /\ unsaid \subseteq Int
  /\ overrun \subseteq Process /\ bypassed \subseteq Process
  /\ crashes \in 0..MaxCrashes

Init ==
  /\ today = 0
  /\ mark = NoMark
  /\ lease = [state |-> "absent", holder |-> Nobody]
  /\ pc = [p \in Process |-> "idle"]
  /\ plan = [p \in Process |-> NoSpan]
  /\ owed = [p \in Process |-> {}]
  /\ seen = [p \in Process |-> NoMark]
  /\ rows = [p \in Process |-> {}]
  /\ pulled = {} /\ declared = {} /\ unsaid = {}
  /\ overrun = {} /\ bypassed = {}
  /\ crashes = 0

Days(s) == s.start .. s.end

-----------------------------------------------------------------------------
(* plan_window *)

\* Broken variant: the lookback is counted forward.
NominalAhead(day) == day + Lookback - 1

Nominal(day) == day - Lookback + 1
Floor(day)   == day - MaxCatchup + 1

Reason(day, m) ==
  IF m = NoMark THEN "first"
  ELSE IF m.start <= Nominal(day) /\ m.end >= day THEN "covered"
  ELSE IF m.end + 1 >= Nominal(day) THEN "nominal"
  ELSE IF m.end + 1 >= Floor(day) THEN "catchup"
  ELSE "capped"

Window(day, m) ==
  [start |-> CASE Reason(day, m) \in {"first", "covered", "nominal"} -> Nominal(day)
               [] Reason(day, m) = "catchup" -> m.end + 1
               [] Reason(day, m) = "capped"  -> Floor(day),
   end   |-> day]

\* The days behind gap_days.
Gap(day, m) == IF Reason(day, m) = "capped" THEN m.end + 1 .. Floor(day) - 1 ELSE {}

-----------------------------------------------------------------------------
(* IngestScheduler.tick *)

Goes(p, from, to) == pc[p] = from /\ pc' = [pc EXCEPT ![p] = to]

\* The transaction of a pull ends: what it read and what it locked are gone.
Closes(p) ==
  /\ seen' = [seen EXCEPT ![p] = NoMark]
  /\ rows' = [rows EXCEPT ![p] = {}]

\* The tick is over, and its local variables are gone.
Leaves(p, from) ==
  /\ Goes(p, from, "idle") /\ Closes(p)
  /\ plan' = [plan EXCEPT ![p] = NoSpan]
  /\ owed' = [owed EXCEPT ![p] = {}]
  /\ overrun' = overrun \ {p}
  /\ bypassed' = bypassed \ {p}

\* _tick_out, the single exit of a tick that got this far: whatever the outcome,
\* it reports gap_days.
Returns(p, from) ==
  /\ Leaves(p, from)
  /\ declared' = declared \cup owed[p]
  /\ UNCHANGED <<pulled, unsaid>>

\* _plan_with_watermark.  A covered window is skipped unless the tick is forced.
PlanTick(p) ==
  /\ Reason(today, mark) = "covered" => p \in Forcing
  /\ Goes(p, "idle", "claiming")
  /\ plan' = [plan EXCEPT ![p] = Window(today, mark)]
  /\ owed' = [owed EXCEPT ![p] = Gap(today, mark)]
  /\ UNCHANGED <<today, mark, pullVars, historyVars, leaseVars, crashes>>

HeldBy(p) == [state |-> "held", holder |-> p]

\* Broken variant: no take-over of an expired lease.
ClaimFreeOnly(p) ==
  /\ lease.state = "free"
  /\ Goes(p, "claiming", "pulling")
  /\ lease' = HeldBy(p)
  /\ UNCHANGED <<today, mark, planVars, pullVars, historyVars, overrun, crashes>>

\* The conditional UPDATE of LeaseRepository.acquire matches the row.
Claim(p) ==
  /\ lease.state \in {"free", "expired"}
  /\ Goes(p, "claiming", "pulling")
  /\ lease' = HeldBy(p)
  /\ UNCHANGED <<today, mark, planVars, pullVars, historyVars, overrun, crashes>>

\* LOST_LEASE.
ClaimLost(p) ==
  /\ lease.state = "held"
  /\ Returns(p, "claiming")
  /\ UNCHANGED <<today, mark, lease, crashes>>

\* No row to update: go on to insert it.
ClaimFirst(p) ==
  /\ lease.state = "absent"
  /\ Goes(p, "claiming", "inserting")
  /\ UNCHANGED <<today, mark, planVars, pullVars, historyVars, leaseVars, crashes>>

Insert(p) ==
  /\ lease.state = "absent"
  /\ Goes(p, "inserting", "pulling")
  /\ lease' = HeldBy(p)
  /\ UNCHANGED <<today, mark, planVars, pullVars, historyVars, overrun, crashes>>

\* The primary key arbitrates: the loser rolls back even if the row is free again.
InsertLost(p) ==
  /\ lease.state # "absent"
  /\ Returns(p, "inserting")
  /\ UNCHANGED <<today, mark, lease, crashes>>

Writing(q) == pc[q] = "advancing" /\ q \notin Rehearsing

\* upsert_daily waits for the row locks of an open pull that wrote the same rows.
RowsFree(p, written) ==
  \A q \in Process \ {p} : Writing(q) => rows[q] \cap written = {}

\* _pull: the feed has answered, the rows are written and advance has read the
\* watermark, all uncommitted.  A pull writes rows of some busy days of its window,
\* and may write none: a record may be rejected or resolve to no campaign, a later
\* answer may hold what an earlier one did not, and a rehearsal writes nothing.
PullRead(p) ==
  /\ Goes(p, "pulling", "advancing")
  /\ \E written \in IF p \in Rehearsing THEN {{}} ELSE SUBSET (Busy \cap Days(plan[p])) :
       /\ RowsFree(p, written)
       /\ rows' = [rows EXCEPT ![p] = written]
  /\ seen' = [seen EXCEPT ![p] = mark]
  /\ UNCHANGED <<today, mark, planVars, bypassed, historyVars, leaseVars, crashes>>

\* Broken variant: the watermark is the window of the most recent pull.
AdvancedToWindow(p) == IF p \in Rehearsing THEN mark ELSE plan[p]

\* The row advance leaves behind, the hull of the span and the window.  The ORM
\* writes a column only if its value differs from the one that was read.
Advanced(p) ==
  IF p \in Rehearsing THEN mark
  ELSE IF seen[p] = NoMark THEN plan[p]
  ELSE [start |-> IF plan[p].start < seen[p].start THEN plan[p].start ELSE mark.start,
        end   |-> IF plan[p].end > seen[p].end THEN plan[p].end ELSE mark.end]

\* Open pulls the commit of p overtakes: no row lock orders the two, and the
\* lease does not either because one of them has outlived its TTL.
Overtakes(p) ==
  {q \in Process \ {p} : /\ Writing(p) /\ Writing(q) /\ rows[q] \cap rows[p] = {}
                         /\ {p, q} \cap overrun # {}}

PullCommit(p) ==
  /\ seen[p] = NoMark => mark = NoMark \/ p \in Rehearsing
  /\ Goes(p, "advancing", "releasing") /\ Closes(p)
  /\ mark' = Advanced(p)
  /\ pulled' = IF p \in Rehearsing THEN pulled ELSE pulled \cup Days(plan[p])
  /\ bypassed' = (bypassed \cup Overtakes(p)) \ {p}
  /\ UNCHANGED <<today, planVars, declared, unsaid, leaseVars, crashes>>

\* Broken variant: the watermark is kept when the rows roll back.
PullFailsAdvanced(p) ==
  /\ seen[p] = NoMark => mark = NoMark
  /\ Goes(p, "advancing", "failing") /\ Closes(p)
  /\ mark' = Advanced(p)
  /\ bypassed' = bypassed \ {p}
  /\ UNCHANGED <<today, planVars, historyVars, leaseVars, crashes>>

\* The feed, the ingest or the commit raised (an insert of the watermark may
\* meet another's): everything of _pull rolls back.
PullFails(p) ==
  /\ \E from \in {"pulling", "advancing"} : Goes(p, from, "failing")
  /\ Closes(p)
  /\ bypassed' = bypassed \ {p}
  /\ UNCHANGED <<today, mark, planVars, historyVars, leaseVars, crashes>>

\* Broken variant: the release is not guarded on the holder.
ReleaseAnyones(p) ==
  /\ \E from \in {"releasing", "failing"} : Returns(p, from)
  /\ lease' = [state |-> "free", holder |-> Nobody]
  /\ UNCHANGED <<today, mark, crashes>>

\* record_outcome clears the row if this process is still its holder, expired
\* or not.
Release(p) ==
  /\ \E from \in {"releasing", "failing"} : Returns(p, from)
  /\ lease' = IF lease.holder = p THEN [state |-> "free", holder |-> Nobody] ELSE lease
  /\ UNCHANGED <<today, mark, crashes>>

\* _release swallows its own failure: the lease stays held until it expires.
ReleaseFails(p) ==
  /\ \E from \in {"releasing", "failing"} : Returns(p, from)
  /\ UNCHANGED <<today, mark, lease, crashes>>

\* The span of p's pull is stored and its gap is in no log and no row yet.
Untold(p) == pc[p] = "releasing" /\ p \notin Rehearsing

\* The process dies and a later pod or loop takes its place.  If it had landed,
\* the next plan starts from a span that covers its gap and reports none.
Crash(p) ==
  /\ crashes < MaxCrashes
  /\ pc[p] # "idle" /\ Leaves(p, pc[p])
  /\ crashes' = crashes + 1
  /\ unsaid' = IF Untold(p) THEN unsaid \cup owed[p] ELSE unsaid
  /\ UNCHANGED <<today, mark, lease, pulled, declared>>

-----------------------------------------------------------------------------
(* The environment *)

Working(p) == pc[p] \in {"pulling", "advancing", "releasing", "failing"}

\* The lease outlives its TTL, whether its holder is dead or only slow.
Expire ==
  /\ lease.state = "held"
  /\ lease' = [lease EXCEPT !.state = "expired"]
  /\ overrun' = overrun \cup {p \in Process : Working(p) /\ lease.holder = p}
  /\ UNCHANGED <<today, mark, pc, planVars, pullVars, historyVars, crashes>>

Midnight ==
  /\ today < MaxDay
  /\ \A p \in Process : pc[p] # "idle" => today - plan[p].end < MaxStall
  /\ today' = today + 1
  /\ UNCHANGED <<mark, pc, planVars, pullVars, historyVars, leaseVars, crashes>>

\* adoptimizer ingest --start --end over the reported gap: it pulls, and leaves
\* the watermark and the lease alone.
Backfill ==
  /\ ~ declared \subseteq pulled
  /\ pulled' = pulled \cup declared
  /\ UNCHANGED <<today, mark, pc, planVars, pullVars, declared, unsaid, leaseVars, crashes>>

-----------------------------------------------------------------------------
TickStep(p) ==
  \/ PlanTick(p) \/ Claim(p) \/ ClaimLost(p) \/ ClaimFirst(p) \/ Insert(p)
  \/ InsertLost(p) \/ PullRead(p) \/ PullCommit(p) \/ PullFails(p)
  \/ Release(p) \/ ReleaseFails(p)

Next ==
  \/ \E p \in Process : TickStep(p) \/ Crash(p)
  \/ Expire \/ Midnight \/ Backfill

Spec == Init /\ [][Next]_vars

\* The schedule fires for ever (run_forever, the CronJob) and a tick never hangs
\* (its pod has a deadline); an outage of the feed or the database ends, so that
\* a tick that keeps trying gets its pull through; a held lease reaches its
\* expiry.  Days need not pass and nobody owes a backfill.
Fairness ==
  /\ \A p \in Process : WF_vars(TickStep(p)) /\ SF_vars(PullRead(p)) /\ SF_vars(PullCommit(p))
  /\ WF_vars(Expire)

FairSpec == Spec /\ Fairness

-----------------------------------------------------------------------------
(* Properties *)

\* Days pulled, reported, or on their way into the report of a tick; the one way
\* to lose a gap is a tick that dies between the commit of its pull and its return.
Accounted ==
  pulled \cup declared \cup unsaid \cup UNION {owed[p] : p \in {q \in Process : Untold(q)}}

\* Every day inside the watermark is accounted for: neither a rollback, a rehearsal,
\* a take-over of the lease, pulls that overtake each other nor a tick that straddles
\* midnight makes the span claim a day nobody asked for and no tick was to report,
\* except for the `unsaid` gap of a tick that died after landing (plan_window, tick,
\* _pull, advance).
NoSilentHole == mark # NoMark => Days(mark) \subseteq Accounted

\* Pulls overlap only after one of them outlived its TTL, and a slow holder
\* cannot free the lease of whoever took over (acquire, record_outcome).
OneLiveHolder ==
  \A p \in Process : Working(p) /\ p \notin overrun => lease = HeldBy(p)

\* Whatever a crashed or slow holder leaves behind, every day since the first
\* pull is eventually pulled or reported, or its tick died after it had landed and
\* before it returned: the schedule cannot be wedged by a lease nobody releases
\* (run_forever, TTL take-over).
EveryDayAccounted ==
  \A d \in 1 - Lookback .. MaxDay :
    (today >= d /\ mark # NoMark /\ mark.start <= d) ~> (d \in pulled \cup declared \cup unsaid)

\* advance reads the watermark and writes it back without a lock, and still the
\* watermark only widens, because the lease or the locks on the rows that two
\* overlapping pulls share order their reads.  It narrows in one case only: one of
\* the two outlived its TTL and they wrote no row in common, `bypassed` (advance,
\* upsert_daily, acquire).
WatermarkOnlyWidens ==
  [][mark # NoMark =>
       /\ mark' # NoMark
       /\ \/ mark'.start <= mark.start /\ mark'.end >= mark.end
          \/ \E p \in bypassed : PullCommit(p)]_vars

\* What the capped-tick test says of a gap beyond the catch-up bound: its days
\* stay owed, so the span the feed "has covered" excludes them until a backfill.
OwedDaysStayOwed ==
  mark # NoMark => \A d \in declared \ pulled : d \notin Days(mark)
=============================================================================
