---------------------------- MODULE RunLifecycle ----------------------------
(***************************************************************************)
(* The life of an optimization run: POST /runs with an idempotency key,    *)
(* the in-process task that executes it, an operator's cancel, the stale   *)
(* run reaper, and crashes of the API replicas they run in.                *)
(*                                                                         *)
(* Replicas share nothing but the optimization_runs table.  Sessions are   *)
(* READ COMMITTED and take no row locks, so a handler that reads a row,    *)
(* decides and writes it back is two steps here: what it read, and the     *)
(* commit of what it decided.  A handler that writes whatever it read is   *)
(* one step.  A run is named by the request that would create it.          *)
(***************************************************************************)
EXTENDS Integers, FiniteSets

CONSTANTS
  Run,         \* requests to POST /runs, and the rows they may create
  NoRun,
  Key,         \* (Idempotency-Key, actor) pairs
  NoKey,       \* a request without the header
  Replica,     \* API processes
  Operator,    \* concurrent POST /runs/{id}/cancel requests
  Cap,         \* rate_limit.optimize_runs_per_hour, gate on active rows
  MaxSteps,    \* bound: agent steps one task performs
  MaxCrashes   \* bound: replica crashes in one behaviour

ASSUME RunAssumption ==
  /\ NoRun \notin Run
  /\ NoKey \notin Key
  /\ Cap \in Nat \ {0}
  /\ MaxSteps \in Nat \ {0}
  /\ MaxCrashes \in Nat

Terminal == {"succeeded", "failed", "cancelled"}
Active   == {"pending", "running"}
Status   == {"absent"} \cup Active \cup Terminal

RequestPc == {"idle", "looking", "gating", "inserting", "dispatching",
              "replied", "refused", "lost"}
InFlight  == {"looking", "gating", "inserting", "dispatching"}

\* "none": never dispatched; "queued": create_task called; "open": the row was
\* marked running; "cleared": the cancellation probe said go; "step": inside an
\* agent; "ended": the orchestrator returned; "closing": _finalise has read the
\* row; "gone": finished, failed or lost with its process.
TaskPc == {"none", "queued", "open", "cleared", "step", "ended", "closing", "gone"}

VARIABLES
  status,      \* committed status column of each row
  saved,       \* the run's proposals are committed
  keyOf,       \* idempotency key of each request (and of its row)
  host,        \* replica that serves the request and owns the task
  request,     \* control state of POST /runs
  reply,       \* the run a request answered with
  task,        \* control state of execute_run
  local,       \* the task's own variables, lost with it
  cancelling,  \* run a cancel request has read as active
  sweep,       \* rows a reaper sweep has selected
  up,          \* live replicas
  crashes,
  started,     \* history: mark_running has committed for this run
  late,        \* history: agent steps begun while the row was terminal
  cancelled    \* history: a cancel of this run was acknowledged

requestVars == <<keyOf, host, request, reply>>
taskVars    == <<task, local, late>>
adminVars   == <<cancelling, sweep>>
worldVars   == <<up, crashes>>
vars == <<status, saved, keyOf, host, request, reply, task, local, cancelling,
          sweep, up, crashes, started, late, cancelled>>

\* steps: agent steps begun; outcome: what the orchestrator returned; read: the
\* status _finalise found in its transaction.
Locals == [steps : 0..MaxSteps, outcome : Terminal \cup {"none"}, read : Status]
NoLocals == [steps |-> 0, outcome |-> "none", read |-> "absent"]

TypeOK ==
  /\ status \in [Run -> Status]
  /\ saved \in [Run -> BOOLEAN]
  /\ keyOf \in [Run -> Key \cup {NoKey}]
  /\ host \in [Run -> Replica]
  /\ request \in [Run -> RequestPc]
  /\ reply \in [Run -> Run \cup {NoRun}]
  /\ task \in [Run -> TaskPc]
  /\ local \in [Run -> Locals]
  /\ cancelling \in [Operator -> Run \cup {NoRun}]
  /\ sweep \in [Replica -> SUBSET Run]
  /\ up \in [Replica -> BOOLEAN]
  /\ crashes \in 0..MaxCrashes
  /\ started \in [Run -> BOOLEAN]
  /\ late \in [Run -> Nat]
  /\ cancelled \in [Run -> BOOLEAN]

Exists(r) == status[r] # "absent"

\* Rows find_by_idempotency_key returns for the key of request q.
KeyHolders(q) == {r \in Run : Exists(r) /\ keyOf[r] = keyOf[q] /\ keyOf[q] # NoKey}

Init ==
  /\ status = [r \in Run |-> "absent"]
  /\ saved = [r \in Run |-> FALSE]
  /\ keyOf \in [Run -> Key \cup {NoKey}]
  /\ host \in [Run -> Replica]
  /\ request = [r \in Run |-> "idle"]
  /\ reply = [r \in Run |-> NoRun]
  /\ task = [r \in Run |-> "none"]
  /\ local = [r \in Run |-> NoLocals]
  /\ cancelling = [o \in Operator |-> NoRun]
  /\ sweep = [p \in Replica |-> {}]
  /\ up = [p \in Replica |-> TRUE]
  /\ crashes = 0
  /\ started = [r \in Run |-> FALSE]
  /\ late = [r \in Run |-> 0]
  /\ cancelled = [r \in Run |-> FALSE]

-----------------------------------------------------------------------------
(* POST /runs: OptimizationService.start_run *)

GoesTo(q, from, to) ==
  /\ up[host[q]]
  /\ request[q] = from
  /\ request' = [request EXCEPT ![q] = to]

Receive(q) ==
  /\ GoesTo(q, "idle", "looking")
  /\ UNCHANGED <<status, saved, keyOf, host, reply, taskVars, adminVars, worldVars,
                 started, cancelled>>

\* The idempotency lookup finds a row: a replay answers with the stored run and
\* dispatches nothing.
LookupHit(q) ==
  /\ GoesTo(q, "looking", "replied")
  /\ \E r \in KeyHolders(q) : reply' = [reply EXCEPT ![q] = r]
  /\ UNCHANGED <<status, saved, keyOf, host, taskVars, adminVars, worldVars,
                 started, cancelled>>

LookupMiss(q) ==
  /\ KeyHolders(q) = {}
  /\ GoesTo(q, "looking", "gating")
  /\ UNCHANGED <<status, saved, keyOf, host, reply, taskVars, adminVars, worldVars,
                 started, cancelled>>

ActiveCount == Cardinality({r \in Run : status[r] \in Active})

Admit(q) ==
  /\ ActiveCount < Cap
  /\ GoesTo(q, "gating", "inserting")
  /\ UNCHANGED <<status, saved, keyOf, host, reply, taskVars, adminVars, worldVars,
                 started, cancelled>>

\* RunInProgressError.
Refuse(q) ==
  /\ ActiveCount >= Cap
  /\ GoesTo(q, "gating", "refused")
  /\ UNCHANGED <<status, saved, keyOf, host, reply, taskVars, adminVars, worldVars,
                 started, cancelled>>

\* Broken variant: no unique index behind the lookup.
InsertWithoutIndex(q) ==
  /\ GoesTo(q, "inserting", "dispatching")
  /\ status' = [status EXCEPT ![q] = "pending"]
  /\ UNCHANGED <<saved, keyOf, host, reply, taskVars, adminVars, worldVars,
                 started, cancelled>>

\* INSERT and COMMIT; uq_run_idempotency admits one row per key.
InsertWins(q) ==
  /\ KeyHolders(q) = {}
  /\ GoesTo(q, "inserting", "dispatching")
  /\ status' = [status EXCEPT ![q] = "pending"]
  /\ UNCHANGED <<saved, keyOf, host, reply, taskVars, adminVars, worldVars,
                 started, cancelled>>

\* IntegrityError: roll back and answer with the winner, dispatching nothing.
InsertLoses(q) ==
  /\ GoesTo(q, "inserting", "replied")
  /\ \E r \in KeyHolders(q) : reply' = [reply EXCEPT ![q] = r]
  /\ UNCHANGED <<status, saved, keyOf, host, taskVars, adminVars, worldVars,
                 started, cancelled>>

\* _dispatch runs after the commit, in the same process.
Dispatch(q) ==
  /\ GoesTo(q, "dispatching", "replied")
  /\ reply' = [reply EXCEPT ![q] = q]
  /\ task' = [task EXCEPT ![q] = "queued"]
  /\ UNCHANGED <<status, saved, keyOf, host, local, late, adminVars, worldVars,
                 started, cancelled>>

-----------------------------------------------------------------------------
(* The task: OptimizationService.execute_run and _finalise *)

TaskGoes(r, from, to) ==
  /\ up[host[r]]
  /\ task[r] = from
  /\ task' = [task EXCEPT ![r] = to]

\* RunRepository.mark_running overwrites whatever status is stored.
MarkRunning(r) ==
  /\ TaskGoes(r, "queued", "open")
  /\ status' = [status EXCEPT ![r] = "running"]
  /\ started' = [started EXCEPT ![r] = TRUE]
  /\ UNCHANGED <<saved, requestVars, local, late, adminVars, worldVars, cancelled>>

\* Broken variant: the probe does not look at the stored status.
ProbeBlind(r) ==
  /\ local[r].steps < MaxSteps
  /\ TaskGoes(r, "open", "cleared")
  /\ UNCHANGED <<status, saved, requestVars, local, late, adminVars, worldVars,
                 started, cancelled>>

\* raise_if_cancelled asks the probe of _cancellation_check before every agent.
ProbeOpen(r) ==
  /\ local[r].steps < MaxSteps
  /\ status[r] \notin Terminal
  /\ TaskGoes(r, "open", "cleared")
  /\ UNCHANGED <<status, saved, requestVars, local, late, adminVars, worldVars,
                 started, cancelled>>

ProbeClosed(r) ==
  /\ status[r] \in Terminal
  /\ TaskGoes(r, "open", "ended")
  /\ local' = [local EXCEPT ![r].outcome = "cancelled"]
  /\ UNCHANGED <<status, saved, requestVars, late, adminVars, worldVars,
                 started, cancelled>>

\* Broken variant: the progress write also restores status running.
BeginStepReopening(r) ==
  /\ TaskGoes(r, "cleared", "step")
  /\ status' = [status EXCEPT ![r] = "running"]
  /\ local' = [local EXCEPT ![r].steps = @ + 1]
  /\ late' = [late EXCEPT ![r] = IF status[r] \in Terminal THEN @ + 1 ELSE @]
  /\ UNCHANGED <<saved, requestVars, adminVars, worldVars, started, cancelled>>

BeginStep(r) ==
  /\ TaskGoes(r, "cleared", "step")
  /\ local' = [local EXCEPT ![r].steps = @ + 1]
  /\ late' = [late EXCEPT ![r] = IF status[r] \in Terminal THEN @ + 1 ELSE @]
  /\ UNCHANGED <<status, saved, requestVars, adminVars, worldVars, started, cancelled>>

\* The graph goes on to the next agent.
EndStep(r) ==
  /\ local[r].steps < MaxSteps
  /\ TaskGoes(r, "step", "open")
  /\ UNCHANGED <<status, saved, requestVars, local, late, adminVars, worldVars,
                 started, cancelled>>

\* Broken variant: an agent's exception leaves the outcome unset.
EndGraphUnset(r) ==
  /\ TaskGoes(r, "step", "ended")
  /\ UNCHANGED <<status, saved, requestVars, local, late, adminVars, worldVars,
                 started, cancelled>>

\* The last agent returned, or one raised.
EndGraph(r) ==
  /\ TaskGoes(r, "step", "ended")
  /\ \E s \in {"succeeded", "failed"} : local' = [local EXCEPT ![r].outcome = s]
  /\ UNCHANGED <<status, saved, requestVars, late, adminVars, worldVars,
                 started, cancelled>>

\* Broken variant: the proposals are committed ahead of mark_finished.
FinaliseReadSaving(r) ==
  /\ TaskGoes(r, "ended", "closing")
  /\ saved' = [saved EXCEPT ![r] = @ \/ local[r].outcome = "succeeded"]
  /\ local' = [local EXCEPT ![r].read = status[r]]
  /\ UNCHANGED <<status, requestVars, late, adminVars, worldVars, started, cancelled>>

\* _finalise has added its rows and mark_finished has read the stored status.
FinaliseRead(r) ==
  /\ TaskGoes(r, "ended", "closing")
  /\ local' = [local EXCEPT ![r].read = status[r]]
  /\ UNCHANGED <<status, saved, requestVars, late, adminVars, worldVars,
                 started, cancelled>>

\* The commit.  A stored terminal status is kept, but the proposals of a graph
\* that completed are committed either way.
FinaliseCommit(r) ==
  /\ TaskGoes(r, "closing", "gone")
  /\ saved' = [saved EXCEPT ![r] = @ \/ local[r].outcome = "succeeded"]
  /\ status' = [status EXCEPT
        ![r] = IF local[r].read \in Terminal THEN @ ELSE local[r].outcome]
  /\ local' = [local EXCEPT ![r] = NoLocals]
  /\ UNCHANGED <<requestVars, late, adminVars, worldVars, started, cancelled>>

\* mark_running or _finalise raised: its transaction rolls back, the task ends.
TaskDies(r) ==
  /\ \E pc \in {"queued", "ended", "closing"} : TaskGoes(r, pc, "gone")
  /\ local' = [local EXCEPT ![r] = NoLocals]
  /\ UNCHANGED <<status, saved, requestVars, late, adminVars, worldVars,
                 started, cancelled>>

-----------------------------------------------------------------------------
(* POST /runs/{id}/cancel: OptimizationService.cancel.  A service instance is  *)
(* built per request, so its _tasks map is empty and cancellation cooperative. *)

CancelRead(o, r) ==
  /\ cancelling[o] = NoRun
  /\ status[r] \in Active
  /\ cancelling' = [cancelling EXCEPT ![o] = r]
  /\ UNCHANGED <<status, saved, requestVars, taskVars, sweep, worldVars, started,
                 cancelled>>

CancelCommit(o) ==
  /\ cancelling[o] # NoRun
  /\ status' = [status EXCEPT ![cancelling[o]] = "cancelled"]
  /\ cancelled' = [cancelled EXCEPT ![cancelling[o]] = TRUE]
  /\ cancelling' = [cancelling EXCEPT ![o] = NoRun]
  /\ UNCHANGED <<saved, requestVars, taskVars, sweep, worldVars, started>>

\* The request failed or its replica died before the commit.
CancelAbort(o) ==
  /\ cancelling[o] # NoRun
  /\ cancelling' = [cancelling EXCEPT ![o] = NoRun]
  /\ UNCHANGED <<status, saved, requestVars, taskVars, sweep, worldVars, started,
                 cancelled>>

-----------------------------------------------------------------------------
(* The reaper: reap_stale_runs, at startup and from run_reaper_loop.  How long *)
(* a run has been quiet is the environment's choice: a slow agent, or an event *)
(* sink that failed, makes any active row look stale.                          *)

\* Broken variant: only executing rows are swept.
SweepRunning(p, stale) ==
  /\ up[p] /\ sweep[p] = {} /\ stale # {}
  /\ \A r \in stale : status[r] = "running"
  /\ sweep' = [sweep EXCEPT ![p] = stale]
  /\ UNCHANGED <<status, saved, requestVars, taskVars, cancelling, worldVars,
                 started, cancelled>>

SweepRead(p, stale) ==
  /\ up[p] /\ sweep[p] = {} /\ stale # {}
  /\ \A r \in stale : status[r] \in Active
  /\ sweep' = [sweep EXCEPT ![p] = stale]
  /\ UNCHANGED <<status, saved, requestVars, taskVars, cancelling, worldVars,
                 started, cancelled>>

SweepCommit(p) ==
  /\ up[p] /\ sweep[p] # {}
  /\ status' = [r \in Run |-> IF r \in sweep[p] THEN "failed" ELSE status[r]]
  /\ sweep' = [sweep EXCEPT ![p] = {}]
  /\ UNCHANGED <<saved, requestVars, taskVars, cancelling, worldVars, started,
                 cancelled>>

-----------------------------------------------------------------------------
(* A replica dies with its requests, its tasks and its sweep. *)

Crash(p) ==
  /\ up[p] /\ crashes < MaxCrashes
  /\ up' = [up EXCEPT ![p] = FALSE]
  /\ crashes' = crashes + 1
  /\ request' = [q \in Run |->
        IF host[q] = p /\ request[q] \in InFlight THEN "lost" ELSE request[q]]
  /\ task' = [r \in Run |->
        IF host[r] = p /\ task[r] # "none" THEN "gone" ELSE task[r]]
  /\ local' = [r \in Run |-> IF host[r] = p THEN NoLocals ELSE local[r]]
  /\ sweep' = [sweep EXCEPT ![p] = {}]
  /\ UNCHANGED <<status, saved, keyOf, host, reply, late, cancelling, started,
                 cancelled>>

Restart(p) ==
  /\ ~up[p]
  /\ up' = [up EXCEPT ![p] = TRUE]
  /\ UNCHANGED <<status, saved, requestVars, taskVars, adminVars, crashes, started,
                 cancelled>>

-----------------------------------------------------------------------------
StartRun(q) ==
  \/ Receive(q) \/ LookupHit(q) \/ LookupMiss(q) \/ Admit(q) \/ Refuse(q)
  \/ InsertWins(q) \/ InsertLoses(q) \/ Dispatch(q)

ExecuteRun(r) ==
  \/ MarkRunning(r) \/ ProbeOpen(r) \/ ProbeClosed(r) \/ BeginStep(r)
  \/ EndStep(r) \/ EndGraph(r) \/ FinaliseRead(r) \/ FinaliseCommit(r)
  \/ TaskDies(r)

Next ==
  \/ \E r \in Run : StartRun(r) \/ ExecuteRun(r)
  \/ \E o \in Operator : CancelCommit(o) \/ CancelAbort(o)
  \/ \E o \in Operator, r \in Run : CancelRead(o, r)
  \/ \E p \in Replica : SweepCommit(p) \/ Crash(p) \/ Restart(p)
  \/ \E p \in Replica, stale \in SUBSET Run : SweepRead(p, stale)

Spec == Init /\ [][Next]_vars

\* A row whose task is gone emits no event any more, so a sweep made late enough
\* selects it.
SweepFinds(p, r) ==
  /\ task[r] \in {"none", "gone"}
  /\ \E stale \in SUBSET Run : r \in stale /\ SweepRead(p, stale)

\* Requests and operators owe nothing.  A live event loop keeps running its
\* tasks, the reaper loop keeps sweeping and swallows its own errors, a crashed
\* replica is restarted.  A sweep may find its process dead or another sweep
\* under way, so finding an orphan is only repeatedly possible: SF.
Fairness ==
  /\ \A r \in Run : WF_vars(ExecuteRun(r))
  /\ \A p \in Replica : WF_vars(SweepCommit(p)) /\ WF_vars(Restart(p))
  /\ \A p \in Replica, r \in Run : SF_vars(SweepFinds(p, r))

FairSpec == Spec /\ Fairness

-----------------------------------------------------------------------------
(* Properties *)

\* However concurrent POST /runs replays interleave, and whatever dies, an
\* idempotency key names one row, every answer given for the key is that row,
\* and only the request that created it ever dispatched a task
\* (start_run 143-197, index uq_run_idempotency).
OneRunPerKey ==
  \A q, r \in Run :
    keyOf[q] = keyOf[r] /\ keyOf[q] # NoKey =>
      /\ Exists(q) /\ Exists(r) => q = r
      /\ reply[q] # NoRun /\ reply[r] # NoRun => reply[q] = reply[r]
      /\ reply[q] # NoRun => Exists(reply[q])

\* The approval queue never shows proposals of a run that may still execute:
\* committed proposals imply a terminal row, whoever wrote it, and a row that
\* says succeeded has them (_finalise writes both in one transaction).
ProposalsMatchOutcome ==
  \A r \in Run :
    /\ saved[r] => status[r] \in Terminal
    /\ status[r] = "succeeded" => saved[r]

\* Cooperative cancellation is prompt: after a row turned terminal under a
\* working task, from any replica, the task begins at most the one agent step
\* it had already been cleared for (_cancellation_check, raise_if_cancelled).
AtMostOneLateStep == \A r \in Run : late[r] <= 1

\* Once a run has been marked running, a terminal status may be replaced by
\* another terminal status but the run is never active again: no late progress
\* report, sweep or finish reopens it (mark_progress, mark_finished guards).
StartedRunsStayClosed ==
  [][\A r \in Run : started[r] /\ status[r] \in Terminal => status'[r] \in Terminal]_vars

\* Every row ends up terminal for good, although tasks die with their process,
\* transactions fail and requests crash between the commit and the dispatch:
\* the reaper closes what nobody executes (reap_stale_runs, run_reaper_loop).
EveryRunSettles == \A r \in Run : <>[](status[r] \in Terminal \cup {"absent"})

\* What mark_progress and mark_finished promise: no late write resurrects a run
\* an operator cancelled (mark_running makes no such check).
CancelledNeverResurrected ==
  \A r \in Run : cancelled[r] => status[r] \in {"cancelled", "failed"}
=============================================================================
