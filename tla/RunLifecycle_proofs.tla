------------------------ MODULE RunLifecycle_proofs ------------------------
(***************************************************************************)
(* Safety of the run lifecycle for any number of requests, keys, replicas, *)
(* operators, agent steps and crashes.  The invariants of RunLifecycle are *)
(* not inductive: whether a write may reopen a row depends on where the    *)
(* task of the row stands, and that is what the strengthening records.     *)
(***************************************************************************)
EXTENDS RunLifecycle, TLAPS

-----------------------------------------------------------------------------
(* The inductive invariant *)

\* A row exists exactly from its insertion on, and a task only after the
\* request that inserted the row answered.
RowsFollowRequests ==
  \A r \in Run :
    /\ request[r] \in {"idle", "looking", "gating", "inserting", "refused"} => ~Exists(r)
    /\ request[r] = "dispatching" => Exists(r)
    /\ task[r] # "none" => request[r] = "replied" /\ Exists(r)

\* Whoever has read a row and not yet written it has read a row that exists.
WritersHaveRows ==
  /\ \A o \in Operator : cancelling[o] # NoRun => Exists(cancelling[o])
  /\ \A p \in Replica : \A r \in sweep[p] : Exists(r)

\* What the control state of a task says of its variables.
TaskLocals ==
  \A r \in Run :
    /\ task[r] = "cleared" => local[r].steps < MaxSteps
    /\ task[r] \in {"ended", "closing"} => local[r].outcome \in Terminal
    /\ started[r] => task[r] \notin {"none", "queued"}

\* Rows of one key are one row, and an answer is a row of the request's key.
KeysAreUnique ==
  /\ \A q, r \in Run :
       Exists(q) /\ Exists(r) /\ keyOf[q] = keyOf[r] /\ keyOf[q] # NoKey => q = r
  /\ \A q \in Run : reply[q] # NoRun =>
       /\ Exists(reply[q])
       /\ reply[q] = q \/ (keyOf[q] # NoKey /\ keyOf[reply[q]] = keyOf[q])

\* Proposals are committed by the last step of the task, and what _finalise
\* found terminal still is.
ClosedRows ==
  \A r \in Run :
    /\ saved[r] => task[r] = "gone" /\ status[r] \in Terminal
    /\ status[r] = "succeeded" => saved[r]
    /\ task[r] = "closing" /\ local[r].read \in Terminal => status[r] \in Terminal

\* A task that began a late step is past the probe that had cleared it, and the
\* next probe finds the row terminal.
LateSteps ==
  \A r \in Run :
    /\ late[r] <= 1
    /\ late[r] = 1 => status[r] \in Terminal /\ task[r] \notin {"none", "queued", "cleared"}

Parts ==
  /\ RowsFollowRequests
  /\ WritersHaveRows
  /\ TaskLocals
  /\ KeysAreUnique
  /\ ClosedRows
  /\ LateSteps

IInv == TypeOK /\ Parts

-----------------------------------------------------------------------------
(* The invariant is inductive *)

\* No run has a row, a task or an answer when the replicas come up.
LEMMA InitIInv == Init => IInv
  BY RunAssumption DEF Init, IInv, Parts, TypeOK, RowsFollowRequests, WritersHaveRows,
     TaskLocals, KeysAreUnique, ClosedRows, LateSteps, Exists, Status, Terminal, Active,
     RequestPc, TaskPc, Locals, NoLocals

\* What execute_run and _finalise assign keeps a task's variables in their types.
LEMMA LocalsUpdates ==
  ASSUME NEW l \in Locals
  PROVE  /\ l.steps \in 0..MaxSteps /\ l.outcome \in Terminal \cup {"none"} /\ l.read \in Status
         /\ \A x \in Terminal : [l EXCEPT !.outcome = x] \in Locals
         /\ \A x \in Status : [l EXCEPT !.read = x] \in Locals
         /\ l.steps < MaxSteps => [l EXCEPT !.steps = @ + 1] \in Locals
<1>1. l = [steps |-> l.steps, outcome |-> l.outcome, read |-> l.read]
      /\ l.steps \in 0..MaxSteps /\ l.outcome \in Terminal \cup {"none"} /\ l.read \in Status
  BY DEF Locals
<1>2. ASSUME NEW x \in Terminal PROVE [l EXCEPT !.outcome = x] \in Locals
  BY DEF Locals
<1>3. ASSUME NEW x \in Status PROVE [l EXCEPT !.read = x] \in Locals
  BY DEF Locals
<1>4. ASSUME l.steps < MaxSteps PROVE [l EXCEPT !.steps = @ + 1] \in Locals
  BY <1>1, <1>4, RunAssumption DEF Locals
<1> QED
  BY <1>1, <1>2, <1>3, <1>4

\* A task that is gone has no variables.
LEMMA NoLocalsType == NoLocals \in Locals
  BY RunAssumption DEF NoLocals, Locals, Terminal, Status

\* Every step keeps the variables in their types; the outcome a task writes as its
\* status is a terminal one because the task only reaches _finalise with one.
LEMMA TypeStep == IInv /\ [Next]_vars => TypeOK'
<1> SUFFICES ASSUME IInv, [Next]_vars PROVE TypeOK'
  OBVIOUS
<1> USE RunAssumption DEF IInv, Parts, TypeOK, TaskLocals, Exists, Status, Terminal, Active,
      TaskPc, RequestPc, requestVars, taskVars, adminVars, worldVars
<1>1. ASSUME NEW q \in Run, StartRun(q) PROVE TypeOK'
  <2>1. CASE Receive(q)
    BY <2>1 DEF Receive, GoesTo
  <2>2. CASE LookupHit(q)
    BY <2>2 DEF LookupHit, GoesTo, KeyHolders
  <2>3. CASE LookupMiss(q)
    BY <2>3 DEF LookupMiss, GoesTo
  <2>4. CASE Admit(q)
    BY <2>4 DEF Admit, GoesTo
  <2>5. CASE Refuse(q)
    BY <2>5 DEF Refuse, GoesTo
  <2>6. CASE InsertWins(q)
    BY <2>6 DEF InsertWins, GoesTo, KeyHolders
  <2>7. CASE InsertLoses(q)
    BY <2>7 DEF InsertLoses, GoesTo, KeyHolders
  <2>8. CASE Dispatch(q)
    BY <2>8 DEF Dispatch, GoesTo
  <2> QED
    BY <1>1, <2>1, <2>2, <2>3, <2>4, <2>5, <2>6, <2>7, <2>8 DEF StartRun
<1>2. ASSUME NEW r \in Run, ExecuteRun(r) PROVE TypeOK'
  <2>1. CASE MarkRunning(r)
    BY <2>1 DEF MarkRunning, TaskGoes
  <2>2. CASE ProbeOpen(r)
    BY <2>2 DEF ProbeOpen, TaskGoes
  <2>3. CASE ProbeClosed(r)
    <3>1. local' \in [Run -> Locals]
      BY <2>3, LocalsUpdates DEF ProbeClosed
    <3> QED
      BY <2>3, <3>1 DEF ProbeClosed, TaskGoes
  <2>4. CASE BeginStep(r)
    <3>1. local[r] \in Locals /\ local[r].steps < MaxSteps
      BY <2>4 DEF BeginStep, TaskGoes
    <3>2. [local[r] EXCEPT !.steps = local[r].steps + 1] \in Locals
      BY <3>1, LocalsUpdates
    <3>3. local' = [local EXCEPT ![r] = [local[r] EXCEPT !.steps = local[r].steps + 1]]
      BY <2>4 DEF BeginStep
    <3>4. local' \in [Run -> Locals]
      BY <3>2, <3>3
    <3> QED
      BY <2>4, <3>4 DEF BeginStep, TaskGoes
  <2>5. CASE EndStep(r)
    BY <2>5 DEF EndStep, TaskGoes
  <2>6. CASE EndGraph(r)
    <3>1. PICK s \in {"succeeded", "failed"} : local' = [local EXCEPT ![r].outcome = s]
      BY <2>6 DEF EndGraph
    <3>2. local' \in [Run -> Locals]
      BY <3>1, LocalsUpdates
    <3> QED
      BY <2>6, <3>2 DEF EndGraph, TaskGoes
  <2>7. CASE FinaliseRead(r)
    <3>1. local' \in [Run -> Locals]
      BY <2>7, LocalsUpdates DEF FinaliseRead
    <3> QED
      BY <2>7, <3>1 DEF FinaliseRead, TaskGoes
  <2>8. CASE FinaliseCommit(r)
    <3>1. local' \in [Run -> Locals]
      BY <2>8, NoLocalsType DEF FinaliseCommit
    <3>2. task[r] = "closing"
      BY <2>8 DEF FinaliseCommit, TaskGoes
    <3>3. local[r].outcome \in Terminal
      BY <3>2
    <3>4. status' \in [Run -> Status]
      BY <2>8, <3>3 DEF FinaliseCommit
    <3> QED
      BY <2>8, <3>1, <3>4 DEF FinaliseCommit, TaskGoes
  <2>9. CASE TaskDies(r)
    <3>1. local' \in [Run -> Locals]
      BY <2>9, NoLocalsType DEF TaskDies
    <3> QED
      BY <2>9, <3>1 DEF TaskDies, TaskGoes
  <2> QED
    BY <1>2, <2>1, <2>2, <2>3, <2>4, <2>5, <2>6, <2>7, <2>8, <2>9 DEF ExecuteRun
<1>3. ASSUME NEW o \in Operator, CancelCommit(o) PROVE TypeOK'
  BY <1>3 DEF CancelCommit
<1>4. ASSUME NEW o \in Operator, CancelAbort(o) PROVE TypeOK'
  BY <1>4 DEF CancelAbort
<1>5. ASSUME NEW o \in Operator, NEW r \in Run, CancelRead(o, r) PROVE TypeOK'
  BY <1>5 DEF CancelRead
<1>6. ASSUME NEW p \in Replica, SweepCommit(p) PROVE TypeOK'
  BY <1>6 DEF SweepCommit
<1>7. ASSUME NEW p \in Replica, Crash(p) PROVE TypeOK'
  BY <1>7, NoLocalsType DEF Crash, InFlight
<1>8. ASSUME NEW p \in Replica, Restart(p) PROVE TypeOK'
  BY <1>8 DEF Restart
<1>9. ASSUME NEW p \in Replica, NEW stale \in SUBSET Run, SweepRead(p, stale)
      PROVE  TypeOK'
  BY <1>9 DEF SweepRead
<1>10. CASE UNCHANGED vars
  BY <1>10 DEF vars
<1> QED
  BY <1>1, <1>2, <1>3, <1>4, <1>5, <1>6, <1>7, <1>8, <1>9, <1>10 DEF Next

\* Every step keeps the relations between rows, requests, tasks and writers.
LEMMA PartsStep == IInv /\ [Next]_vars => Parts'
<1> SUFFICES ASSUME IInv, [Next]_vars PROVE Parts'
  OBVIOUS
<1> USE RunAssumption DEF IInv, Parts, TypeOK, TaskLocals, Exists, Status, Terminal, Active,
      TaskPc, RequestPc, Locals, NoLocals, requestVars, taskVars, adminVars, worldVars,
      RowsFollowRequests, WritersHaveRows, KeysAreUnique, ClosedRows, LateSteps
<1>1. ASSUME NEW q \in Run, StartRun(q) PROVE Parts'
  <2>1. CASE Receive(q)
    BY <2>1 DEF Receive, GoesTo
  <2>2. CASE LookupHit(q)
    BY <2>2 DEF LookupHit, GoesTo, KeyHolders
  <2>3. CASE LookupMiss(q)
    BY <2>3 DEF LookupMiss, GoesTo
  <2>4. CASE Admit(q)
    BY <2>4 DEF Admit, GoesTo
  <2>5. CASE Refuse(q)
    BY <2>5 DEF Refuse, GoesTo
  <2>6. CASE InsertWins(q)
    BY <2>6 DEF InsertWins, GoesTo, KeyHolders
  <2>7. CASE InsertLoses(q)
    BY <2>7 DEF InsertLoses, GoesTo, KeyHolders
  <2>8. CASE Dispatch(q)
    BY <2>8 DEF Dispatch, GoesTo
  <2> QED
    BY <1>1, <2>1, <2>2, <2>3, <2>4, <2>5, <2>6, <2>7, <2>8 DEF StartRun
<1>2. ASSUME NEW r \in Run, ExecuteRun(r) PROVE Parts'
  <2>1. CASE MarkRunning(r)
    BY <2>1 DEF MarkRunning, TaskGoes
  <2>2. CASE ProbeOpen(r)
    BY <2>2 DEF ProbeOpen, TaskGoes
  <2>3. CASE ProbeClosed(r)
    BY <2>3 DEF ProbeClosed, TaskGoes
  <2>4. CASE BeginStep(r)
    BY <2>4 DEF BeginStep, TaskGoes
  <2>5. CASE EndStep(r)
    BY <2>5 DEF EndStep, TaskGoes
  <2>6. CASE EndGraph(r)
    BY <2>6 DEF EndGraph, TaskGoes
  <2>7. CASE FinaliseRead(r)
    BY <2>7 DEF FinaliseRead, TaskGoes
  <2>8. CASE FinaliseCommit(r)
    BY <2>8 DEF FinaliseCommit, TaskGoes
  <2>9. CASE TaskDies(r)
    BY <2>9 DEF TaskDies, TaskGoes
  <2> QED
    BY <1>2, <2>1, <2>2, <2>3, <2>4, <2>5, <2>6, <2>7, <2>8, <2>9 DEF ExecuteRun
<1>3. ASSUME NEW o \in Operator, CancelCommit(o) PROVE Parts'
  BY <1>3 DEF CancelCommit
<1>4. ASSUME NEW o \in Operator, CancelAbort(o) PROVE Parts'
  BY <1>4 DEF CancelAbort
<1>5. ASSUME NEW o \in Operator, NEW r \in Run, CancelRead(o, r) PROVE Parts'
  BY <1>5 DEF CancelRead
<1>6. ASSUME NEW p \in Replica, SweepCommit(p) PROVE Parts'
  BY <1>6 DEF SweepCommit
<1>7. ASSUME NEW p \in Replica, Crash(p) PROVE Parts'
  <2>1. RowsFollowRequests' /\ WritersHaveRows' /\ KeysAreUnique'
    BY <1>7 DEF Crash, InFlight
  <2>2. TaskLocals'
    BY <1>7, NoLocalsType DEF Crash
  <2>3. ClosedRows' /\ LateSteps'
    BY <1>7, NoLocalsType DEF Crash
  <2> QED
    BY <2>1, <2>2, <2>3
<1>8. ASSUME NEW p \in Replica, Restart(p) PROVE Parts'
  BY <1>8 DEF Restart
<1>9. ASSUME NEW p \in Replica, NEW stale \in SUBSET Run, SweepRead(p, stale)
      PROVE  Parts'
  <2>1. \A r \in stale : Exists(r)
    BY <1>9 DEF SweepRead
  <2>3. sweep' = [sweep EXCEPT ![p] = stale] /\ UNCHANGED <<status, cancelling>>
    BY <1>9 DEF SweepRead
  <2>4. WritersHaveRows'
    BY <2>1, <2>3
  <2>2. UNCHANGED <<status, saved, keyOf, reply, request, host, task, local, started, late>>
    BY <1>9 DEF SweepRead
  <2> QED
    BY <2>2, <2>4
<1>10. CASE UNCHANGED vars
  BY <1>10 DEF vars
<1> QED
  BY <1>1, <1>2, <1>3, <1>4, <1>5, <1>6, <1>7, <1>8, <1>9, <1>10 DEF Next

THEOREM RunInvariant == Spec => []IInv
<1>1. IInv /\ [Next]_vars => IInv'
  BY TypeStep, PartsStep DEF IInv
<1> QED
  BY InitIInv, <1>1, PTL DEF Spec

-----------------------------------------------------------------------------
(* What it gives *)

\* The model is type correct: in particular no unfinished outcome is ever
\* written into the status column (mark_finished).
THEOREM RunTypes == Spec => []TypeOK
<1>1. IInv => TypeOK
  BY DEF IInv
<1> QED
  BY RunInvariant, <1>1, PTL

\* Concurrent POST /runs requests with one idempotency key create, dispatch and
\* report one run, through any interleaving and any crash (start_run).
THEOREM RunIdempotence == Spec => []OneRunPerKey
<1>1. ASSUME KeysAreUnique, reply \in [Run -> Run \cup {NoRun}] PROVE OneRunPerKey
  <2>1. ASSUME NEW q \in Run, NEW r \in Run, keyOf[q] = keyOf[r], keyOf[q] # NoKey
        PROVE  /\ Exists(q) /\ Exists(r) => q = r
               /\ reply[q] # NoRun => Exists(reply[q])
    BY <1>1, <2>1 DEF KeysAreUnique
  <2>2. ASSUME NEW q \in Run, reply[q] # NoRun, keyOf[q] # NoKey
        PROVE  reply[q] \in Run /\ Exists(reply[q]) /\ keyOf[reply[q]] = keyOf[q]
    BY <1>1, <2>2 DEF KeysAreUnique
  <2>3. ASSUME NEW q \in Run, NEW r \in Run, keyOf[q] = keyOf[r], keyOf[q] # NoKey,
               reply[q] # NoRun, reply[r] # NoRun
        PROVE  reply[q] = reply[r]
    BY <2>1, <2>2, <2>3
  <2> QED
    BY <2>1, <2>3 DEF OneRunPerKey
<1>2. IInv => OneRunPerKey
  BY <1>1 DEF IInv, Parts, TypeOK
<1> QED
  BY RunInvariant, <1>2, PTL

\* Committed proposals belong to a closed run, and a succeeded run has them
\* (_finalise).
THEOREM RunProposals == Spec => []ProposalsMatchOutcome
<1>1. IInv => ProposalsMatchOutcome
  BY DEF IInv, Parts, ClosedRows, ProposalsMatchOutcome
<1> QED
  BY RunInvariant, <1>1, PTL

\* However many steps a graph has and wherever the row was closed, one agent
\* step at most begins afterwards (_cancellation_check).
THEOREM RunCancellationBound == Spec => []AtMostOneLateStep
<1>1. IInv => AtMostOneLateStep
  BY DEF IInv, Parts, LateSteps, AtMostOneLateStep
<1> QED
  BY RunInvariant, <1>1, PTL

\* A run that was marked running never becomes active again once terminal: the
\* two writers of an active status are behind it (mark_running, create).
THEOREM RunStaysClosed == Spec => StartedRunsStayClosed
<1>1. ASSUME IInv, [Next]_vars, NEW r \in Run, started[r] /\ status[r] \in Terminal
      PROVE  status'[r] \in Terminal
  <2> USE <1>1 DEF IInv, Parts, TypeOK, Terminal
  <2>1. ASSUME NEW q \in Run, StartRun(q) PROVE status'[r] \in Terminal
    BY <2>1 DEF StartRun, Receive, LookupHit, LookupMiss, Admit, Refuse, InsertWins,
       InsertLoses, Dispatch, GoesTo, RowsFollowRequests, TaskLocals, Exists
  <2>2. ASSUME NEW q \in Run, ExecuteRun(q) PROVE status'[r] \in Terminal
    BY <2>2 DEF ExecuteRun, MarkRunning, ProbeOpen, ProbeClosed, BeginStep, EndStep,
       EndGraph, FinaliseRead, FinaliseCommit, TaskDies, TaskGoes, TaskLocals
  <2>3. ASSUME NEW o \in Operator, CancelCommit(o) \/ CancelAbort(o)
        PROVE  status'[r] \in Terminal
    BY <2>3 DEF CancelCommit, CancelAbort
  <2>4. ASSUME NEW o \in Operator, NEW q \in Run, CancelRead(o, q)
        PROVE  status'[r] \in Terminal
    BY <2>4 DEF CancelRead
  <2>5. ASSUME NEW p \in Replica, SweepCommit(p) \/ Crash(p) \/ Restart(p)
        PROVE  status'[r] \in Terminal
    BY <2>5 DEF SweepCommit, Crash, Restart
  <2>6. ASSUME NEW p \in Replica, NEW stale \in SUBSET Run, SweepRead(p, stale)
        PROVE  status'[r] \in Terminal
    BY <2>6 DEF SweepRead
  <2>7. CASE UNCHANGED vars
    BY <2>7 DEF vars
  <2> QED
    BY <2>1, <2>2, <2>3, <2>4, <2>5, <2>6, <2>7 DEF Next
<1>2. IInv /\ [Next]_vars =>
        \A r \in Run : started[r] /\ status[r] \in Terminal => status'[r] \in Terminal
  BY <1>1
<1> QED
  BY RunInvariant, <1>2, PTL DEF Spec, StartedRunsStayClosed
=============================================================================
