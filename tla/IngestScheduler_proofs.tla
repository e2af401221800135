----------------------- MODULE IngestScheduler_proofs -----------------------
(***************************************************************************)
(* Safety of the scheduled pull for any processes, lookback, catch-up      *)
(* bound and calendar.  Ticks plan from a watermark that other ticks move, *)
(* even backwards, before they commit.  Two things hold it together: every *)
(* window under way touches the span or leaves only days its own tick will *)
(* report, and a pull that commits on a stale watermark was overtaken by   *)
(* one it shares no row with, after one of the two had lost its lease.     *)
(***************************************************************************)
EXTENDS IngestScheduler, TLAPS

-----------------------------------------------------------------------------
(* The inductive invariant *)

UnderWay(p) == pc[p] # "idle"

\* A window under way ends on a recent day and covers the lookback at least.
WindowsAreRecent ==
  \A p \in Process : UnderWay(p) =>
    /\ plan[p].end <= today /\ today - plan[p].end <= MaxStall
    /\ plan[p].start <= Nominal(plan[p].end)
    /\ plan[p] \in Span

\* Open pulls have no row in common.
RowsAreLocked ==
  \A p, q \in Process : Writing(p) /\ Writing(q) /\ p # q => rows[p] \cap rows[q] = {}

\* The watermark an open pull has read is the one stored, or it was overtaken.
StaleIsBypassed ==
  \A p \in Process : Writing(p) /\ seen[p] # mark => p \in bypassed

\* The spans open pulls have read still share a day with the stored one.
SpansShareADay ==
  /\ \A p \in Process : Writing(p) /\ seen[p] # NoMark => mark # NoMark
  /\ mark # NoMark =>
       \E d \in Days(mark) : \A p \in Process :
         Writing(p) /\ seen[p] # NoMark => d \in Days(seen[p])

\* A window under way touches the span, or the days between are accounted for or
\* its own tick's to report.
WindowsMeetTheSpan ==
  mark # NoMark =>
    /\ mark.end <= today
    /\ \A p \in Process : UnderWay(p) =>
         /\ mark.start <= plan[p].end + 1
         /\ (mark.end + 1 .. plan[p].start - 1) \subseteq Accounted \cup owed[p]

IInv ==
  /\ TypeOK
  /\ WindowsAreRecent
  /\ RowsAreLocked
  /\ StaleIsBypassed
  /\ SpansShareADay
  /\ WindowsMeetTheSpan
  /\ NoSilentHole
  /\ OneLiveHolder

-----------------------------------------------------------------------------
(* Windows *)

\* plan_window: the window ends today, reaches back over the lookback at least,
\* and what it leaves out behind the watermark is what it reports as the gap.
LEMMA WindowShape ==
  ASSUME NEW day \in Int, NEW m \in Span \cup {NoMark}
  PROVE  /\ Window(day, m) \in Span
         /\ Window(day, m).end = day
         /\ Window(day, m).start <= Nominal(day)
         /\ Gap(day, m) \subseteq Int
         /\ m # NoMark =>
              (m.end + 1 .. Window(day, m).start - 1) \subseteq Gap(day, m)
<1> USE IngestAssumption DEF Window, Nominal, Floor, Gap
<1>1. CASE m = NoMark
  BY <1>1 DEF Reason, Span
<1>2. CASE m # NoMark
  BY <1>2 DEF Reason, Span
<1> QED
  BY <1>1, <1>2

\* Any two windows under way share a day or are adjacent.
LEMMA WindowsTouch ==
  ASSUME TypeOK, WindowsAreRecent, NEW p \in Process, NEW q \in Process, UnderWay(p), UnderWay(q)
  PROVE  plan[p].start <= plan[q].end + 1
  BY IngestAssumption DEF WindowsAreRecent, TypeOK, Span, Nominal

-----------------------------------------------------------------------------
(* The invariant is inductive *)

\* No feed has a watermark or a lease row before its first tick.
LEMMA InitIInv == Init => IInv
  BY IngestAssumption DEF Init, IInv, TypeOK, WindowsAreRecent, RowsAreLocked, StaleIsBypassed,
     SpansShareADay, WindowsMeetTheSpan, NoSilentHole, OneLiveHolder, UnderWay, Writing, Working,
     LeaseStates, TickPc

\* advance: a rehearsal leaves the watermark; the first pull stores its window; a
\* later one keeps a bound or replaces it by that of its window, and a bound it
\* replaces is beyond what it had read.
LEMMA AdvancedShape ==
  ASSUME IInv, NEW p \in Process, PullCommit(p)
  PROVE  /\ p \in Rehearsing => Advanced(p) = mark
         /\ p \notin Rehearsing =>
              /\ plan[p] \in Span
              /\ Advanced(p) \in Span
              /\ mark = NoMark => Advanced(p) = plan[p]
              /\ mark # NoMark =>
                   /\ mark \in Span /\ seen[p] \in Span
                   /\ \/ Advanced(p).start = mark.start /\ plan[p].start >= seen[p].start
                      \/ Advanced(p).start = plan[p].start /\ plan[p].start < seen[p].start
                   /\ \/ Advanced(p).end = mark.end /\ plan[p].end <= seen[p].end
                      \/ Advanced(p).end = plan[p].end /\ plan[p].end > seen[p].end
<1>1. CASE p \in Rehearsing
  BY <1>1 DEF Advanced
<1>2. ASSUME p \notin Rehearsing PROVE Writing(p) /\ plan[p] \in Span
  BY <1>2 DEF IInv, PullCommit, Goes, Writing, WindowsAreRecent, UnderWay
<1>3. CASE p \notin Rehearsing /\ mark = NoMark
  <2>1. seen[p] = NoMark
    BY <1>2, <1>3 DEF IInv, SpansShareADay
  <2> QED
    BY <1>2, <1>3, <2>1 DEF Advanced
<1>4. CASE p \notin Rehearsing /\ mark # NoMark
  <2>1. mark \in Span /\ seen[p] \in Span /\ seen[p] # NoMark
    BY <1>4 DEF IInv, TypeOK, PullCommit
  <2>2. PICK d \in Days(mark) : d \in Days(seen[p])
    BY <1>2, <1>4, <2>1 DEF IInv, SpansShareADay
  <2>3. d \in Int /\ mark.start <= d /\ d <= mark.end /\ seen[p].start <= d /\ d <= seen[p].end
    BY <2>1, <2>2 DEF Days, Span
  <2> QED
    BY <1>2, <1>4, <2>1, <2>3 DEF Advanced, Span
<1> QED
  BY <1>1, <1>3, <1>4

\* Every step keeps the variables in their types: windows and the span stay
\* non-empty.
LEMMA TypeStep == IInv /\ [Next]_vars => TypeOK'
<1> SUFFICES ASSUME IInv, [Next]_vars PROVE TypeOK'
  OBVIOUS
<1> USE IngestAssumption DEF IInv, TypeOK, LeaseStates, TickPc, leaseVars, historyVars, planVars, pullVars
<1>1. ASSUME NEW p \in Process, TickStep(p) \/ Crash(p) PROVE TypeOK'
  <2>1. CASE PlanTick(p)
    <3>1. Window(today, mark) \in Span /\ Gap(today, mark) \subseteq Int
      BY WindowShape
    <3> QED
      BY <2>1, <3>1 DEF PlanTick, Goes
  <2>2. CASE Claim(p)
    BY <2>2 DEF Claim, Goes, HeldBy
  <2>3. CASE ClaimLost(p)
    BY <2>3 DEF ClaimLost, Returns, Leaves, Closes, Goes
  <2>4. CASE ClaimFirst(p)
    BY <2>4 DEF ClaimFirst, Goes
  <2>5. CASE Insert(p)
    BY <2>5 DEF Insert, Goes, HeldBy
  <2>6. CASE InsertLost(p)
    BY <2>6 DEF InsertLost, Returns, Leaves, Closes, Goes
  <2>7. CASE PullRead(p)
    <3>1. PICK written \in SUBSET Int : rows' = [rows EXCEPT ![p] = written]
      BY <2>7 DEF PullRead
    <3> QED
      BY <2>7, <3>1 DEF PullRead, Goes
  <2>8. CASE PullCommit(p)
    <3>1. mark' \in Span \cup {NoMark}
      BY <2>8, AdvancedShape DEF PullCommit
    <3>2. plan[p] \in Span
      BY <2>8 DEF PullCommit, Goes, WindowsAreRecent, UnderWay
    <3>3. Days(plan[p]) \subseteq Int
      BY <3>2 DEF Days, Span
    <3>4. pulled' \subseteq Int
      BY <2>8, <3>3 DEF PullCommit
    <3>5. bypassed' \subseteq Process
      BY <2>8 DEF PullCommit, Overtakes
    <3> QED
      BY <2>8, <3>1, <3>4, <3>5 DEF PullCommit, Goes, Closes
  <2>9. CASE PullFails(p)
    BY <2>9 DEF PullFails, Goes, Closes
  <2>10. CASE Release(p)
    <3>1. declared' \subseteq Int
      BY <2>10 DEF Release, Returns
    <3>2. pc' \in [Process -> TickPc]
      BY <2>10 DEF Release, Returns, Leaves, Goes
    <3>3. owed' \in [Process -> SUBSET Int] /\ plan' \in [Process -> Span \cup {NoSpan}]
      BY <2>10 DEF Release, Returns, Leaves
    <3>4. seen' \in [Process -> Span \cup {NoMark}] /\ rows' \in [Process -> SUBSET Int]
      BY <2>10 DEF Release, Returns, Leaves, Closes
    <3> QED
      BY <2>10, <3>1, <3>2, <3>3, <3>4 DEF Release, Returns, Leaves
  <2>11. CASE ReleaseFails(p)
    <3>1. declared' \subseteq Int
      BY <2>11 DEF ReleaseFails, Returns
    <3>2. pc' \in [Process -> TickPc]
      BY <2>11 DEF ReleaseFails, Returns, Leaves, Goes
    <3>3. owed' \in [Process -> SUBSET Int] /\ plan' \in [Process -> Span \cup {NoSpan}]
      BY <2>11 DEF ReleaseFails, Returns, Leaves
    <3>4. seen' \in [Process -> Span \cup {NoMark}] /\ rows' \in [Process -> SUBSET Int]
      BY <2>11 DEF ReleaseFails, Returns, Leaves, Closes
    <3> QED
      BY <2>11, <3>1, <3>2, <3>3, <3>4 DEF ReleaseFails, Returns, Leaves
  <2>12. CASE Crash(p)
    <3>1. unsaid' \subseteq Int
      BY <2>12 DEF Crash
    <3>2. pc' \in [Process -> TickPc]
      BY <2>12 DEF Crash, Leaves, Goes
    <3>3. owed' \in [Process -> SUBSET Int] /\ plan' \in [Process -> Span \cup {NoSpan}]
      BY <2>12 DEF Crash, Leaves
    <3>4. seen' \in [Process -> Span \cup {NoMark}] /\ rows' \in [Process -> SUBSET Int]
      BY <2>12 DEF Crash, Leaves, Closes
    <3> QED
      BY <2>12, <3>1, <3>2, <3>3, <3>4 DEF Crash, Leaves
  <2> QED
    BY <1>1, <2>1, <2>2, <2>3, <2>4, <2>5, <2>6, <2>7, <2>8, <2>9, <2>10, <2>11, <2>12 DEF TickStep
<1>2. CASE Expire
  BY <1>2 DEF Expire
<1>3. CASE Midnight
  BY <1>3 DEF Midnight
<1>4. CASE Backfill
  BY <1>4 DEF Backfill
<1>5. CASE UNCHANGED vars
  BY <1>5 DEF vars
<1> QED
  BY <1>1, <1>2, <1>3, <1>4, <1>5 DEF Next

\* A window is recent when it is planned and, as midnight waits for a tick that
\* has straddled its share, stays so.
LEMMA RecentStep == IInv /\ [Next]_vars => WindowsAreRecent'
<1> SUFFICES ASSUME IInv, [Next]_vars PROVE WindowsAreRecent'
  OBVIOUS
<1> USE IngestAssumption DEF IInv, TypeOK, LeaseStates, TickPc, WindowsAreRecent, UnderWay, leaseVars, historyVars, planVars, pullVars
<1>1. ASSUME NEW p \in Process, TickStep(p) \/ Crash(p) PROVE WindowsAreRecent'
  <2>1. CASE PlanTick(p)
    BY <2>1, WindowShape DEF PlanTick, Goes
  <2>2. CASE Claim(p)
    BY <2>2 DEF Claim, Goes, HeldBy
  <2>3. CASE ClaimLost(p)
    BY <2>3 DEF ClaimLost, Returns, Leaves, Closes, Goes
  <2>4. CASE ClaimFirst(p)
    BY <2>4 DEF ClaimFirst, Goes
  <2>5. CASE Insert(p)
    BY <2>5 DEF Insert, Goes, HeldBy
  <2>6. CASE InsertLost(p)
    BY <2>6 DEF InsertLost, Returns, Leaves, Closes, Goes
  <2>7. CASE PullRead(p)
    BY <2>7 DEF PullRead, Goes
  <2>8. CASE PullCommit(p)
    BY <2>8 DEF PullCommit, Goes, Closes
  <2>9. CASE PullFails(p)
    BY <2>9 DEF PullFails, Goes, Closes
  <2>10. CASE Release(p)
    BY <2>10 DEF Release, Returns, Leaves, Closes, Goes
  <2>11. CASE ReleaseFails(p)
    BY <2>11 DEF ReleaseFails, Returns, Leaves, Closes, Goes
  <2>12. CASE Crash(p)
    BY <2>12 DEF Crash, Leaves, Closes, Goes
  <2> QED
    BY <1>1, <2>1, <2>2, <2>3, <2>4, <2>5, <2>6, <2>7, <2>8, <2>9, <2>10, <2>11, <2>12 DEF TickStep
<1>2. CASE Expire
  BY <1>2 DEF Expire
<1>3. CASE Midnight
  BY <1>3 DEF Midnight, Span
<1>4. CASE Backfill
  BY <1>4 DEF Backfill
<1>5. CASE UNCHANGED vars
  BY <1>5 DEF vars
<1> QED
  BY <1>1, <1>2, <1>3, <1>4, <1>5 DEF Next

\* A pull waits for the rows an open pull has written (upsert_daily).
LEMMA LockStep == IInv /\ [Next]_vars => RowsAreLocked'
<1> SUFFICES ASSUME IInv, [Next]_vars PROVE RowsAreLocked'
  OBVIOUS
<1> USE IngestAssumption DEF IInv, TypeOK, LeaseStates, TickPc, RowsAreLocked, Writing, leaseVars, historyVars, planVars, pullVars
<1>1. ASSUME NEW p \in Process, TickStep(p) \/ Crash(p) PROVE RowsAreLocked'
  <2>1. CASE PlanTick(p)
    BY <2>1 DEF PlanTick, Goes
  <2>2. CASE Claim(p)
    BY <2>2 DEF Claim, Goes, HeldBy
  <2>3. CASE ClaimLost(p)
    BY <2>3 DEF ClaimLost, Returns, Leaves, Closes, Goes
  <2>4. CASE ClaimFirst(p)
    BY <2>4 DEF ClaimFirst, Goes
  <2>5. CASE Insert(p)
    BY <2>5 DEF Insert, Goes, HeldBy
  <2>6. CASE InsertLost(p)
    BY <2>6 DEF InsertLost, Returns, Leaves, Closes, Goes
  <2>7. CASE PullRead(p)
    <3>1. PICK written \in SUBSET Int : RowsFree(p, written) /\ rows' = [rows EXCEPT ![p] = written]
      BY <2>7 DEF PullRead
    <3> QED
      BY <2>7, <3>1 DEF PullRead, Goes, RowsFree
  <2>8. CASE PullCommit(p)
    BY <2>8 DEF PullCommit, Goes, Closes
  <2>9. CASE PullFails(p)
    BY <2>9 DEF PullFails, Goes, Closes
  <2>10. CASE Release(p)
    BY <2>10 DEF Release, Returns, Leaves, Closes, Goes
  <2>11. CASE ReleaseFails(p)
    BY <2>11 DEF ReleaseFails, Returns, Leaves, Closes, Goes
  <2>12. CASE Crash(p)
    BY <2>12 DEF Crash, Leaves, Closes, Goes
  <2> QED
    BY <1>1, <2>1, <2>2, <2>3, <2>4, <2>5, <2>6, <2>7, <2>8, <2>9, <2>10, <2>11, <2>12 DEF TickStep
<1>2. CASE Expire
  BY <1>2 DEF Expire
<1>3. CASE Midnight
  BY <1>3 DEF Midnight
<1>4. CASE Backfill
  BY <1>4 DEF Backfill
<1>5. CASE UNCHANGED vars
  BY <1>5 DEF vars
<1> QED
  BY <1>1, <1>2, <1>3, <1>4, <1>5 DEF Next

\* A commit that moves the watermark overtakes every open pull: they share no row,
\* and of two that work at once one has outlived its TTL.
LEMMA StaleStep == IInv /\ [Next]_vars => StaleIsBypassed'
<1> SUFFICES ASSUME IInv, [Next]_vars PROVE StaleIsBypassed'
  OBVIOUS
<1> USE IngestAssumption DEF IInv, TypeOK, LeaseStates, TickPc, StaleIsBypassed, Writing, leaseVars, historyVars, planVars, pullVars
<1>1. ASSUME NEW p \in Process, TickStep(p) \/ Crash(p) PROVE StaleIsBypassed'
  <2>1. CASE PlanTick(p)
    BY <2>1 DEF PlanTick, Goes
  <2>2. CASE Claim(p)
    BY <2>2 DEF Claim, Goes, HeldBy
  <2>3. CASE ClaimLost(p)
    BY <2>3 DEF ClaimLost, Returns, Leaves, Closes, Goes
  <2>4. CASE ClaimFirst(p)
    BY <2>4 DEF ClaimFirst, Goes
  <2>5. CASE Insert(p)
    BY <2>5 DEF Insert, Goes, HeldBy
  <2>6. CASE InsertLost(p)
    BY <2>6 DEF InsertLost, Returns, Leaves, Closes, Goes
  <2>7. CASE PullRead(p)
    BY <2>7 DEF PullRead, Goes
  <2>8. CASE PullCommit(p)
    <3>1. CASE p \in Rehearsing
      <4>1. mark' = mark
        BY <2>8, <3>1, AdvancedShape DEF PullCommit
      <4> QED
        BY <2>8, <4>1 DEF PullCommit, Goes, Closes
    <3>2. CASE p \notin Rehearsing
      <4>1. ASSUME NEW q \in Process \ {p}, Writing(q) PROVE q \in Overtakes(p)
        <5>1. Writing(p) /\ Working(p) /\ Working(q)
          BY <2>8, <3>2, <4>1 DEF PullCommit, Goes, Working
        <5>2. {p, q} \cap overrun # {}
          BY <4>1, <5>1 DEF OneLiveHolder, HeldBy
        <5>3. rows[q] \cap rows[p] = {}
          BY <4>1, <5>1 DEF RowsAreLocked
        <5> QED
          BY <4>1, <5>1, <5>2, <5>3 DEF Overtakes
      <4>2. ASSUME NEW q \in Process, Writing(q)' PROVE q # p /\ Writing(q)
        BY <2>8, <4>2 DEF PullCommit, Goes
      <4> QED
        BY <2>8, <4>1, <4>2 DEF PullCommit
    <3> QED
      BY <3>1, <3>2
  <2>9. CASE PullFails(p)
    BY <2>9 DEF PullFails, Goes, Closes
  <2>10. CASE Release(p)
    BY <2>10 DEF Release, Returns, Leaves, Closes, Goes
  <2>11. CASE ReleaseFails(p)
    BY <2>11 DEF ReleaseFails, Returns, Leaves, Closes, Goes
  <2>12. CASE Crash(p)
    BY <2>12 DEF Crash, Leaves, Closes, Goes
  <2> QED
    BY <1>1, <2>1, <2>2, <2>3, <2>4, <2>5, <2>6, <2>7, <2>8, <2>9, <2>10, <2>11, <2>12 DEF TickStep
<1>2. CASE Expire
  BY <1>2 DEF Expire
<1>3. CASE Midnight
  BY <1>3 DEF Midnight
<1>4. CASE Backfill
  BY <1>4 DEF Backfill
<1>5. CASE UNCHANGED vars
  BY <1>5 DEF vars
<1> QED
  BY <1>1, <1>2, <1>3, <1>4, <1>5 DEF Next

\* A pull moves a bound of the span only outwards from what it had read, so the
\* day shared by all that was read stays inside.
LEMMA ShareStep == IInv /\ [Next]_vars => SpansShareADay'
<1> SUFFICES ASSUME IInv, [Next]_vars PROVE SpansShareADay'
  OBVIOUS
<1> USE IngestAssumption DEF IInv, TypeOK, LeaseStates, TickPc, SpansShareADay, Writing, leaseVars, historyVars, planVars, pullVars
<1>1. ASSUME NEW p \in Process, TickStep(p) \/ Crash(p) PROVE SpansShareADay'
  <2>1. CASE PlanTick(p)
    BY <2>1 DEF PlanTick, Goes
  <2>2. CASE Claim(p)
    BY <2>2 DEF Claim, Goes, HeldBy
  <2>3. CASE ClaimLost(p)
    BY <2>3 DEF ClaimLost, Returns, Leaves, Closes, Goes
  <2>4. CASE ClaimFirst(p)
    BY <2>4 DEF ClaimFirst, Goes
  <2>5. CASE Insert(p)
    BY <2>5 DEF Insert, Goes, HeldBy
  <2>6. CASE InsertLost(p)
    BY <2>6 DEF InsertLost, Returns, Leaves, Closes, Goes
  <2>7. CASE PullRead(p)
    <3>1. seen' = [seen EXCEPT ![p] = mark] /\ mark' = mark
      BY <2>7 DEF PullRead
    <3>2. ASSUME NEW q \in Process, q # p, Writing(q)' PROVE Writing(q) /\ seen'[q] = seen[q]
      BY <2>7, <3>1, <3>2 DEF PullRead, Goes
    <3>3. CASE mark = NoMark
      BY <3>1, <3>2, <3>3
    <3>4. CASE mark # NoMark
      <4>1. PICK d \in Days(mark) : \A q \in Process : Writing(q) /\ seen[q] # NoMark => d \in Days(seen[q])
        BY <3>4
      <4>2. \A q \in Process : Writing(q)' /\ seen'[q] # NoMark => d \in Days(seen'[q])
        BY <3>1, <3>2, <4>1
      <4>3. Days(mark)' = Days(mark)
        BY <3>1 DEF Days
      <4> QED
        BY <3>1, <3>4, <4>1, <4>2, <4>3 DEF Days
    <3> QED
      BY <3>3, <3>4
  <2>8. CASE PullCommit(p)
    <3>1. \A q \in Process : Writing(q)' => Writing(q) /\ q # p /\ seen'[q] = seen[q]
      BY <2>8 DEF PullCommit, Goes, Closes
    <3>2. CASE p \in Rehearsing
      <4>1. mark' = mark
        BY <2>8, <3>2, AdvancedShape DEF PullCommit
      <4> QED
        BY <3>1, <4>1 DEF Days
    <3>3. CASE p \notin Rehearsing /\ mark = NoMark
      <4>1. mark' = plan[p] /\ plan[p] \in Span
        BY <2>8, <3>3, AdvancedShape DEF PullCommit
      <4>2. mark'.start \in Days(mark') /\ mark' # NoMark
        BY <4>1 DEF Days, Span
      <4>3. \A q \in Process : ~ (Writing(q)' /\ seen'[q] # NoMark)
        BY <3>1, <3>3
      <4> QED
        BY <4>2, <4>3 DEF Days
    <3>4. CASE p \notin Rehearsing /\ mark # NoMark
      <4>1. Writing(p)
        BY <2>8, <3>4 DEF PullCommit, Goes
      <4>2. seen[p] \in Span /\ seen[p] # NoMark
        BY <2>8, <3>4, AdvancedShape DEF Span
      <4>3. PICK d \in Days(mark) : \A q \in Process : Writing(q) /\ seen[q] # NoMark => d \in Days(seen[q])
        BY <3>4
      <4>4. d \in Days(seen[p])
        BY <4>1, <4>2, <4>3
      <4>5. mark' = Advanced(p)
        BY <2>8 DEF PullCommit
      <4>6. d \in Days(mark') /\ mark' # NoMark
        BY <2>8, <3>4, <4>2, <4>3, <4>4, <4>5, AdvancedShape DEF Days, Span
      <4>7. \A q \in Process : Writing(q)' /\ seen'[q] # NoMark => d \in Days(seen'[q])
        BY <3>1, <4>3
      <4> QED
        BY <4>6, <4>7 DEF Days
    <3> QED
      BY <3>2, <3>3, <3>4
  <2>9. CASE PullFails(p)
    BY <2>9 DEF PullFails, Goes, Closes
  <2>10. CASE Release(p)
    BY <2>10 DEF Release, Returns, Leaves, Closes, Goes
  <2>11. CASE ReleaseFails(p)
    BY <2>11 DEF ReleaseFails, Returns, Leaves, Closes, Goes
  <2>12. CASE Crash(p)
    BY <2>12 DEF Crash, Leaves, Closes, Goes
  <2> QED
    BY <1>1, <2>1, <2>2, <2>3, <2>4, <2>5, <2>6, <2>7, <2>8, <2>9, <2>10, <2>11, <2>12 DEF TickStep
<1>2. CASE Expire
  BY <1>2 DEF Expire
<1>3. CASE Midnight
  BY <1>3 DEF Midnight
<1>4. CASE Backfill
  BY <1>4 DEF Backfill
<1>5. CASE UNCHANGED vars
  BY <1>5 DEF vars
<1> QED
  BY <1>1, <1>2, <1>3, <1>4, <1>5 DEF Next

\* What is accounted for stays so: a tick that returns reports its gap and a tick
\* that dies after landing leaves it unsaid.
LEMMA AccountStep == IInv /\ [Next]_vars => Accounted \subseteq Accounted'
<1> SUFFICES ASSUME IInv, [Next]_vars PROVE Accounted \subseteq Accounted'
  OBVIOUS
<1> USE IngestAssumption DEF IInv, TypeOK, LeaseStates, TickPc, Accounted, Untold, leaseVars, historyVars, planVars, pullVars
<1>1. ASSUME NEW p \in Process, TickStep(p) \/ Crash(p) PROVE Accounted \subseteq Accounted'
  <2>1. CASE PlanTick(p)
    BY <2>1 DEF PlanTick, Goes
  <2>2. CASE Claim(p)
    BY <2>2 DEF Claim, Goes, HeldBy
  <2>3. CASE ClaimLost(p)
    BY <2>3 DEF ClaimLost, Returns, Leaves, Closes, Goes
  <2>4. CASE ClaimFirst(p)
    BY <2>4 DEF ClaimFirst, Goes
  <2>5. CASE Insert(p)
    BY <2>5 DEF Insert, Goes, HeldBy
  <2>6. CASE InsertLost(p)
    BY <2>6 DEF InsertLost, Returns, Leaves, Closes, Goes
  <2>7. CASE PullRead(p)
    BY <2>7 DEF PullRead, Goes
  <2>8. CASE PullCommit(p)
    BY <2>8 DEF PullCommit, Goes, Closes
  <2>9. CASE PullFails(p)
    BY <2>9 DEF PullFails, Goes, Closes
  <2>10. CASE Release(p)
    BY <2>10 DEF Release, Returns, Leaves, Closes, Goes
  <2>11. CASE ReleaseFails(p)
    BY <2>11 DEF ReleaseFails, Returns, Leaves, Closes, Goes
  <2>12. CASE Crash(p)
    BY <2>12 DEF Crash, Leaves, Closes, Goes
  <2> QED
    BY <1>1, <2>1, <2>2, <2>3, <2>4, <2>5, <2>6, <2>7, <2>8, <2>9, <2>10, <2>11, <2>12 DEF TickStep
<1>2. CASE Expire
  BY <1>2 DEF Expire
<1>3. CASE Midnight
  BY <1>3 DEF Midnight
<1>4. CASE Backfill
  BY <1>4 DEF Backfill
<1>5. CASE UNCHANGED vars
  BY <1>5 DEF vars
<1> QED
  BY <1>1, <1>2, <1>3, <1>4, <1>5 DEF Next

\* A window meets the span when it is planned; when the span moves, even
\* backwards, what it uncovers was accounted for.
LEMMA MeetStep == IInv /\ [Next]_vars => WindowsMeetTheSpan'
<1> SUFFICES ASSUME IInv, [Next]_vars PROVE WindowsMeetTheSpan'
  OBVIOUS
<1> USE IngestAssumption DEF IInv, TypeOK, LeaseStates, TickPc, WindowsMeetTheSpan, UnderWay, WindowsAreRecent, leaseVars, historyVars, planVars, pullVars
<1>1. ASSUME NEW p \in Process, TickStep(p) \/ Crash(p) PROVE WindowsMeetTheSpan'
  <2>1. CASE PlanTick(p)
    <3>1. plan' = [plan EXCEPT ![p] = Window(today, mark)] /\ owed' = [owed EXCEPT ![p] = Gap(today, mark)]
      BY <2>1 DEF PlanTick
    <3>2. ASSUME mark # NoMark
          PROVE  /\ mark.start <= Window(today, mark).end + 1
                 /\ (mark.end + 1 .. Window(today, mark).start - 1) \subseteq owed'[p]
      BY <3>1, <3>2, WindowShape DEF Span
    <3> QED
      BY <2>1, <3>1, <3>2, AccountStep DEF PlanTick, Goes
  <2>2. CASE Claim(p)
    BY <2>2, AccountStep DEF Claim, Goes, HeldBy
  <2>3. CASE ClaimLost(p)
    BY <2>3, AccountStep DEF ClaimLost, Returns, Leaves, Closes, Goes
  <2>4. CASE ClaimFirst(p)
    BY <2>4, AccountStep DEF ClaimFirst, Goes
  <2>5. CASE Insert(p)
    BY <2>5, AccountStep DEF Insert, Goes, HeldBy
  <2>6. CASE InsertLost(p)
    BY <2>6, AccountStep DEF InsertLost, Returns, Leaves, Closes, Goes
  <2>7. CASE PullRead(p)
    BY <2>7, AccountStep DEF PullRead, Goes
  <2>8. CASE PullCommit(p)
    <3>1. \A q \in Process : UnderWay(q)' => UnderWay(q)
      BY <2>8 DEF PullCommit, Goes
    <3>2. UnderWay(p) /\ mark' = Advanced(p) /\ UNCHANGED <<today, plan, owed>>
      BY <2>8 DEF PullCommit, Goes
    <3>3. CASE p \in Rehearsing
      BY <2>8, <3>1, <3>2, <3>3, AdvancedShape, AccountStep
    <3>4. CASE p \notin Rehearsing /\ mark = NoMark
      <4>1. mark' = plan[p] /\ plan[p] \in Span
        BY <2>8, <3>2, <3>4, AdvancedShape
      <4>2. ASSUME NEW q \in Process, UnderWay(q)
            PROVE  /\ plan[p].start <= plan[q].end + 1
                   /\ (plan[p].end + 1 .. plan[q].start - 1) = {}
        BY <3>2, <4>1, <4>2, WindowsTouch DEF Span
      <4> QED
        BY <3>1, <3>2, <4>1, <4>2
    <3>5. CASE p \notin Rehearsing /\ mark # NoMark
      <4>1. /\ mark \in Span /\ mark' \in Span /\ plan[p] \in Span
            /\ mark'.start \in {mark.start, plan[p].start}
            /\ mark'.end \in {mark.end, plan[p].end}
        BY <2>8, <3>2, <3>5, AdvancedShape
      <4>2. ASSUME NEW q \in Process, UnderWay(q)
            PROVE  /\ mark'.start <= plan[q].end + 1
                   /\ (mark'.end + 1 .. plan[q].start - 1) \subseteq Accounted' \cup owed'[q]
        <5>1. plan[q] \in Span /\ mark.start <= plan[q].end + 1 /\ plan[p].start <= plan[q].end + 1
          BY <3>2, <3>5, <4>2, WindowsTouch
        <5>2. mark'.start <= plan[q].end + 1
          BY <4>1, <5>1
        <5>3. (mark'.end + 1 .. plan[q].start - 1) \subseteq Days(mark) \cup (mark.end + 1 .. plan[q].start - 1)
          BY <3>2, <3>5, <4>1, <5>1 DEF Days, Span
        <5> QED
          BY <3>2, <3>5, <4>2, <5>2, <5>3, AccountStep DEF NoSilentHole
      <4> QED
        BY <3>1, <3>2, <3>5, <4>1, <4>2
    <3> QED
      BY <3>3, <3>4, <3>5
  <2>9. CASE PullFails(p)
    BY <2>9, AccountStep DEF PullFails, Goes, Closes
  <2>10. CASE Release(p)
    BY <2>10, AccountStep DEF Release, Returns, Leaves, Closes, Goes
  <2>11. CASE ReleaseFails(p)
    BY <2>11, AccountStep DEF ReleaseFails, Returns, Leaves, Closes, Goes
  <2>12. CASE Crash(p)
    BY <2>12, AccountStep DEF Crash, Leaves, Closes, Goes
  <2> QED
    BY <1>1, <2>1, <2>2, <2>3, <2>4, <2>5, <2>6, <2>7, <2>8, <2>9, <2>10, <2>11, <2>12 DEF TickStep
<1>2. CASE Expire
  BY <1>2, AccountStep DEF Expire
<1>3. CASE Midnight
  BY <1>3, AccountStep DEF Midnight, Span
<1>4. CASE Backfill
  BY <1>4, AccountStep DEF Backfill
<1>5. CASE UNCHANGED vars
  BY <1>5, AccountStep DEF vars
<1> QED
  BY <1>1, <1>2, <1>3, <1>4, <1>5 DEF Next

\* The span grows by a window and by days that are accounted for or that the tick
\* which moved it is yet to report.
LEMMA HoleStep == IInv /\ [Next]_vars => NoSilentHole'
<1> SUFFICES ASSUME IInv, [Next]_vars PROVE NoSilentHole'
  OBVIOUS
<1> USE IngestAssumption DEF IInv, TypeOK, LeaseStates, TickPc, NoSilentHole, leaseVars, historyVars, planVars, pullVars
<1>1. ASSUME NEW p \in Process, TickStep(p) \/ Crash(p) PROVE NoSilentHole'
  <2>1. CASE PlanTick(p)
    BY <2>1, AccountStep DEF PlanTick, Goes
  <2>2. CASE Claim(p)
    BY <2>2, AccountStep DEF Claim, Goes, HeldBy
  <2>3. CASE ClaimLost(p)
    BY <2>3, AccountStep DEF ClaimLost, Returns, Leaves, Closes, Goes
  <2>4. CASE ClaimFirst(p)
    BY <2>4, AccountStep DEF ClaimFirst, Goes
  <2>5. CASE Insert(p)
    BY <2>5, AccountStep DEF Insert, Goes, HeldBy
  <2>6. CASE InsertLost(p)
    BY <2>6, AccountStep DEF InsertLost, Returns, Leaves, Closes, Goes
  <2>7. CASE PullRead(p)
    BY <2>7, AccountStep DEF PullRead, Goes
  <2>8. CASE PullCommit(p)
    <3>1. CASE p \in Rehearsing
      BY <2>8, <3>1, AdvancedShape, AccountStep DEF PullCommit
    <3>2. ASSUME p \notin Rehearsing
          PROVE  /\ plan[p] \in Span /\ Days(plan[p]) \subseteq Accounted'
                 /\ owed[p] \subseteq Accounted'
      <4>1. owed[p] \subseteq Accounted'
        BY <2>8, <3>2 DEF PullCommit, Goes, Closes, Accounted, Untold
      <4> QED
        BY <2>8, <3>2, <4>1, AdvancedShape DEF PullCommit, Accounted
    <3>3. CASE p \notin Rehearsing /\ mark = NoMark
      BY <2>8, <3>2, <3>3, AdvancedShape DEF PullCommit
    <3>4. CASE p \notin Rehearsing /\ mark # NoMark
      <4>1. /\ mark \in Span /\ mark' \in Span
            /\ mark'.start \in {mark.start, plan[p].start}
            /\ mark'.end \in {mark.end, plan[p].end}
        BY <2>8, <3>4, AdvancedShape DEF PullCommit
      <4>2. /\ mark.start <= plan[p].end + 1
            /\ (mark.end + 1 .. plan[p].start - 1) \subseteq Accounted \cup owed[p]
        BY <2>8, <3>4 DEF PullCommit, Goes, WindowsMeetTheSpan, UnderWay
      <4>3. Days(mark') \subseteq Days(mark) \cup Days(plan[p]) \cup (mark.end + 1 .. plan[p].start - 1)
        BY <3>2, <3>4, <4>1, <4>2 DEF Days, Span
      <4> QED
        BY <3>2, <3>4, <4>2, <4>3, AccountStep
    <3> QED
      BY <3>1, <3>3, <3>4
  <2>9. CASE PullFails(p)
    BY <2>9, AccountStep DEF PullFails, Goes, Closes
  <2>10. CASE Release(p)
    BY <2>10, AccountStep DEF Release, Returns, Leaves, Closes, Goes
  <2>11. CASE ReleaseFails(p)
    BY <2>11, AccountStep DEF ReleaseFails, Returns, Leaves, Closes, Goes
  <2>12. CASE Crash(p)
    BY <2>12, AccountStep DEF Crash, Leaves, Closes, Goes
  <2> QED
    BY <1>1, <2>1, <2>2, <2>3, <2>4, <2>5, <2>6, <2>7, <2>8, <2>9, <2>10, <2>11, <2>12 DEF TickStep
<1>2. CASE Expire
  BY <1>2, AccountStep DEF Expire
<1>3. CASE Midnight
  BY <1>3, AccountStep DEF Midnight
<1>4. CASE Backfill
  BY <1>4, AccountStep DEF Backfill
<1>5. CASE UNCHANGED vars
  BY <1>5, AccountStep DEF vars
<1> QED
  BY <1>1, <1>2, <1>3, <1>4, <1>5 DEF Next

\* A claim succeeds only on a lease no live holder has, and a release clears
\* only the releaser's own.
LEMMA HolderStep == IInv /\ [Next]_vars => OneLiveHolder'
<1> SUFFICES ASSUME IInv, [Next]_vars PROVE OneLiveHolder'
  OBVIOUS
<1> USE IngestAssumption DEF IInv, TypeOK, LeaseStates, TickPc, OneLiveHolder, Working, HeldBy, leaseVars, historyVars, planVars, pullVars
<1>1. ASSUME NEW p \in Process, TickStep(p) \/ Crash(p) PROVE OneLiveHolder'
  <2>1. CASE PlanTick(p)
    BY <2>1 DEF PlanTick, Goes
  <2>2. CASE Claim(p)
    BY <2>2 DEF Claim, Goes, HeldBy
  <2>3. CASE ClaimLost(p)
    BY <2>3 DEF ClaimLost, Returns, Leaves, Closes, Goes
  <2>4. CASE ClaimFirst(p)
    BY <2>4 DEF ClaimFirst, Goes
  <2>5. CASE Insert(p)
    BY <2>5 DEF Insert, Goes, HeldBy
  <2>6. CASE InsertLost(p)
    BY <2>6 DEF InsertLost, Returns, Leaves, Closes, Goes
  <2>7. CASE PullRead(p)
    BY <2>7 DEF PullRead, Goes
  <2>8. CASE PullCommit(p)
    BY <2>8 DEF PullCommit, Goes, Closes
  <2>9. CASE PullFails(p)
    BY <2>9 DEF PullFails, Goes, Closes
  <2>10. CASE Release(p)
    BY <2>10 DEF Release, Returns, Leaves, Closes, Goes
  <2>11. CASE ReleaseFails(p)
    BY <2>11 DEF ReleaseFails, Returns, Leaves, Closes, Goes
  <2>12. CASE Crash(p)
    BY <2>12 DEF Crash, Leaves, Closes, Goes
  <2> QED
    BY <1>1, <2>1, <2>2, <2>3, <2>4, <2>5, <2>6, <2>7, <2>8, <2>9, <2>10, <2>11, <2>12 DEF TickStep
<1>2. CASE Expire
  BY <1>2 DEF Expire
<1>3. CASE Midnight
  BY <1>3 DEF Midnight
<1>4. CASE Backfill
  BY <1>4 DEF Backfill
<1>5. CASE UNCHANGED vars
  BY <1>5 DEF vars
<1> QED
  BY <1>1, <1>2, <1>3, <1>4, <1>5 DEF Next

\* The strengthened invariant holds of every behaviour of the scheduler, for any
\* processes, windows and calendar, under the overlap of pulls, crashes and
\* rehearsals of tick.
THEOREM SchedulerInvariant == Spec => []IInv
<1>1. IInv /\ [Next]_vars => IInv'
  BY TypeStep, RecentStep, LockStep, StaleStep, ShareStep, MeetStep, HoleStep, HolderStep DEF IInv
<1> QED
  BY InitIInv, <1>1, PTL DEF Spec

-----------------------------------------------------------------------------
(* What it gives *)

\* The model is type correct: no plan and no watermark is ever an empty span
\* (plan_window, advance).
THEOREM SchedulerTypes == Spec => []TypeOK
<1>1. IInv => TypeOK
  BY DEF IInv
<1> QED
  BY SchedulerInvariant, <1>1, PTL

\* For every lookback, catch-up bound and calendar, the watermark claims no day
\* that was not pulled, reported or about to be, unless the tick that left it out
\* died between landing and returning (plan_window, tick, _pull, advance).
THEOREM SchedulerNoSilentHole == Spec => []NoSilentHole
<1>1. IInv => NoSilentHole
  BY DEF IInv
<1> QED
  BY SchedulerInvariant, <1>1, PTL

\* Any number of processes: while a tick works within its TTL the lease is its
\* own (acquire, record_outcome).
THEOREM SchedulerSingleFlight == Spec => []OneLiveHolder
<1>1. IInv => OneLiveHolder
  BY DEF IInv
<1> QED
  BY SchedulerInvariant, <1>1, PTL

\* The unlocked read and write of advance narrows the watermark only when the pull
\* that commits was overtaken by one with no row in common and one of the two had
\* outlived its TTL (advance, upsert_daily, acquire).
THEOREM SchedulerWidens == Spec => WatermarkOnlyWidens
<1> DEFINE Widens == mark # NoMark => /\ mark' # NoMark
                                      /\ \/ mark'.start <= mark.start /\ mark'.end >= mark.end
                                         \/ \E p \in bypassed : PullCommit(p)
<1>1. ASSUME IInv, [Next]_vars, mark # NoMark PROVE Widens
  <2>1. mark \in Span
    BY <1>1 DEF IInv, TypeOK
  <2>2. ASSUME NEW p \in Process, PullCommit(p) PROVE Widens
    <3>1. mark' = Advanced(p)
      BY <2>2 DEF PullCommit
    <3>2. CASE p \in Rehearsing
      BY <1>1, <2>1, <2>2, <3>1, <3>2, AdvancedShape DEF Span
    <3>3. CASE p \notin Rehearsing
      <4>1. mark' # NoMark
        BY <1>1, <2>2, <3>1, <3>3, AdvancedShape, IngestAssumption DEF Span
      <4>2. p \in bypassed \/ seen[p] = mark
        BY <1>1, <2>2, <3>3 DEF IInv, StaleIsBypassed, Writing, PullCommit, Goes
      <4>3. seen[p] = mark => mark'.start <= mark.start /\ mark'.end >= mark.end
        BY <1>1, <2>1, <2>2, <3>1, <3>3, AdvancedShape DEF Span
      <4> QED
        BY <2>2, <4>1, <4>2, <4>3
    <3> QED
      BY <3>2, <3>3
  <2>3. CASE mark' = mark
    BY <1>1, <2>1, <2>3 DEF Span
  <2>4. mark' = mark \/ \E p \in Process : PullCommit(p)
    BY <1>1 DEF Next, vars, TickStep, PlanTick, Claim, ClaimLost, ClaimFirst, Insert,
       InsertLost, PullRead, PullFails, Release, ReleaseFails, Crash, Expire, Midnight,
       Backfill
  <2> QED
    BY <2>2, <2>3, <2>4
<1>2. IInv /\ [Next]_vars => Widens
  BY <1>1
<1> QED
  BY SchedulerInvariant, <1>2, PTL DEF Spec, WatermarkOnlyWidens
=============================================================================
