------------------------------ MODULE ActionGate ------------------------------
(***************************************************************************)
(* From a proposal to a real change: approving and rejecting actions, and  *)
(* executing them one by one or in bulk (ActionService), through the tool  *)
(* executor of the API process the request lands on (ToolExecutor).        *)
(*                                                                         *)
(* The actions all address one synced campaign, of which the database and  *)
(* the ad network each keep the value an action sets (a daily budget, a    *)
(* status).  An execution is one transaction that reads the action, loads  *)
(* the campaign, flushes the local value, calls the network, flushes the   *)
(* verdict and commits; every arrow between those is a step here.          *)
(* Transactions are READ COMMITTED.  A flushed UPDATE locks its row until  *)
(* the end of the transaction, and the session emits none for a value that *)
(* equals the one it loaded.                                               *)
(***************************************************************************)
EXTENDS Integers

CONSTANTS
  Action,
  Value,       \* campaign values
  NoValue,     \* target of an action that pushes nothing; campaign not loaded
  Process,     \* API processes, each with its own ToolExecutor
  Request,     \* concurrent POST /actions/{id}/execute and /actions/bulk
  Operator,    \* concurrent POST /actions/{id}/approve and /reject
  None,
  Deployments, \* settings a deployment may run with
  MaxWrites    \* bound: network writes per action

\* require_action_approval, TOOLS__DRY_RUN, TOOLS__ENABLED
Settings == [approval : BOOLEAN, dryRun : BOOLEAN, tools : BOOLEAN]

ASSUME GateAssumption ==
  /\ Deployments \subseteq Settings
  /\ NoValue \notin Value
  /\ None \notin Action
  /\ MaxWrites \in Nat \ {0}

Status == {"proposed", "suppressed", "approved", "rejected", "executed", "failed"}

\* "choosing": a bulk request has read which actions are proposed; "batch":
\* between two actions of a bulk request; "opened": the action passed the gate
\* and the campaign is loaded; "flushed": the local value is written; "sending",
\* "landed": inside the network call, before and after the network applied it;
\* "done": the call returned.
TxPc == {"idle", "choosing", "batch", "opened", "flushed", "sending", "landed", "done"}

VARIABLES
  settings,    \* deployment settings, fixed
  wants,       \* value each action sets, fixed
  status,      \* committed status of each action
  local,       \* committed value of the campaign row
  remote,      \* the ad network's value
  replays,     \* ToolExecutor._replays: actions with a recorded success
  tx,          \* one transaction per request
  decision,    \* approve or reject in progress
  writes,      \* history: times the network applied the action
  ordered,     \* history: actions an operator approved
  unheard,     \* history: actions settled although the network never applied them
  astray       \* history: see below

rows    == <<status, local>>
history == <<writes, ordered, unheard, astray>>
fixed   == <<settings, wants>>
vars == <<settings, wants, status, local, remote, replays, tx, decision,
          writes, ordered, unheard, astray>>

\* todo: actions a bulk request has yet to execute; draft: statuses flushed in
\* this transaction; mine: the session's campaign value; changed: the campaign
\* row is updated, hence locked; owed: its last change has not reached the
\* network; wrote: the network was written in this transaction; known: act,
\* if the process had recorded a success of it when its execution began.
Tx == [pc : TxPc, at : Process, bulk : BOOLEAN, todo : SUBSET Action,
       act : Action \cup {None}, draft : [Action -> Status \cup {"clean"}],
       mine : Value \cup {NoValue}, changed : BOOLEAN, owed : BOOLEAN,
       wrote : BOOLEAN, known : SUBSET Action]

NoDraft == [a \in Action |-> "clean"]

Idle(p) == [pc |-> "idle", at |-> p, bulk |-> FALSE, todo |-> {}, act |-> None,
            draft |-> NoDraft, mine |-> NoValue, changed |-> FALSE, owed |-> FALSE,
            wrote |-> FALSE, known |-> {}]

Decisions == [act : Action, to : {"approved", "rejected"}]
NoDecision == None

TypeOK ==
  /\ settings \in Deployments
  /\ wants \in [Action -> Value \cup {NoValue}]
  /\ status \in [Action -> Status]
  /\ local \in Value /\ remote \in Value
  /\ replays \in [Process -> SUBSET Action]
  /\ tx \in [Request -> Tx]
  /\ decision \in [Operator -> Decisions \cup {NoDecision}]
  /\ writes \in [Action -> 0..MaxWrites]
  /\ ordered \subseteq Action /\ unheard \subseteq Action
  /\ astray \in BOOLEAN

\* A campaign starts in step with its network; proposals arrive from the critic.
Init ==
  /\ settings \in Deployments
  /\ wants \in [Action -> Value \cup {NoValue}]
  /\ status \in [Action -> {"proposed", "suppressed"}]
  /\ local \in Value /\ remote = local
  /\ replays = [p \in Process |-> {}]
  /\ \E p \in Process : tx = [e \in Request |-> Idle(p)]
  /\ decision = [o \in Operator |-> NoDecision]
  /\ writes = [a \in Action |-> 0]
  /\ ordered = {} /\ unheard = {}
  /\ astray = FALSE

Pushes(a) == wants[a] # NoValue

Update(e, t) == tx' = [tx EXCEPT ![e] = t]

\* Nobody else holds the row lock of action a, of the campaign.
ActionFree(e, a) == \A f \in Request \ {e} : tx[f].draft[a] = "clean"
CampaignFree(e)  == \A f \in Request \ {e} : ~tx[f].changed

-----------------------------------------------------------------------------
(* Approve and reject: read, decide, overwrite. *)

MayBecome(to) == IF to = "approved" THEN {"proposed", "suppressed"}
                                    ELSE {"proposed", "suppressed", "approved"}

DecideRead(o, a, to) ==
  /\ decision[o] = NoDecision
  /\ status[a] \in MayBecome(to)
  /\ decision' = [decision EXCEPT ![o] = [act |-> a, to |-> to]]
  /\ UNCHANGED <<fixed, rows, remote, replays, tx, history>>

DecideCommit(o) ==
  /\ decision[o] # NoDecision
  /\ LET a  == decision[o].act
         to == decision[o].to
     IN /\ \A e \in Request : ActionFree(e, a)
        /\ status' = [status EXCEPT ![a] = to]
        /\ ordered' = IF to = "approved" THEN ordered \cup {a} ELSE ordered
  /\ decision' = [decision EXCEPT ![o] = NoDecision]
  /\ UNCHANGED <<fixed, local, remote, replays, tx, writes, unheard, astray>>

DecideAbort(o) ==
  /\ decision[o] # NoDecision
  /\ decision' = [decision EXCEPT ![o] = NoDecision]
  /\ UNCHANGED <<fixed, rows, remote, replays, tx, history>>

-----------------------------------------------------------------------------
(* Opening: POST /actions/{id}/execute, and POST /actions/bulk *)

\* Broken variant: approval is not asked for.
GateOpen(a) == status[a] \notin {"executed", "rejected"}

\* execute refuses settled actions, then unapproved ones.
Gate(a) ==
  /\ status[a] \notin {"executed", "rejected"}
  /\ settings.approval => status[a] = "approved"

Open(e, p, a) ==
  /\ tx[e].pc = "idle"
  /\ Gate(a)
  /\ Update(e, [Idle(p) EXCEPT !.pc = "opened", !.act = a, !.mine = local,
                               !.known = {a} \cap replays[p]])
  /\ UNCHANGED <<fixed, rows, remote, replays, decision, history>>

\* bulk_approve skips everything that is not proposed.
BulkRead(e, p, ids) ==
  /\ tx[e].pc = "idle"
  /\ ids # {} /\ \A a \in ids : status[a] = "proposed"
  /\ Update(e, [Idle(p) EXCEPT !.pc = "choosing", !.bulk = TRUE, !.todo = ids])
  /\ UNCHANGED <<fixed, rows, remote, replays, decision, history>>

\* The batch is approved; the caller may not have asked to execute it.
BulkApprove(e) ==
  /\ tx[e].pc = "choosing"
  /\ \A a \in tx[e].todo : ActionFree(e, a)
  /\ \E todo \in {tx[e].todo, {}} :
       Update(e, [tx[e] EXCEPT !.pc = "batch", !.todo = todo,
                                 !.draft = [a \in Action |->
                    IF a \in tx[e].todo THEN "approved" ELSE "clean"]])
  /\ ordered' = ordered \cup tx[e].todo
  /\ UNCHANGED <<fixed, rows, remote, replays, decision, writes, unheard, astray>>

\* execute finds the action approved in its own session; the session loads the
\* campaign once.
BulkNext(e, a) ==
  /\ tx[e].pc = "batch" /\ a \in tx[e].todo
  /\ Update(e, [tx[e] EXCEPT !.pc = "opened", !.act = a, !.todo = @ \ {a},
                               !.mine = IF @ = NoValue THEN local ELSE @,
                               !.known = {a} \cap replays[tx[e].at]])
  /\ UNCHANGED <<fixed, rows, remote, replays, decision, history>>

-----------------------------------------------------------------------------
(* Applying: _apply, _push, ToolExecutor.call and the network behind it *)

\* An advisory action has nothing to write.
Advise(e) ==
  /\ tx[e].pc = "opened" /\ ~Pushes(tx[e].act)
  /\ Update(e, [tx[e] EXCEPT !.pc = "done"])
  /\ UNCHANGED <<fixed, rows, remote, replays, decision, history>>

\* Broken variant: the local value is left for the commit to flush.
FlushUnlocked(e) ==
  /\ tx[e].pc = "opened" /\ Pushes(tx[e].act)
  /\ tx[e].mine # wants[tx[e].act]
  /\ Update(e, [tx[e] EXCEPT !.pc = "flushed", !.mine = wants[tx[e].act],
                               !.changed = TRUE, !.owed = TRUE])
  /\ UNCHANGED <<fixed, rows, remote, replays, decision, history>>

\* Broken variant: advisory actions are pushed as well.
FlushAdvisory(e) ==
  /\ tx[e].pc = "opened" /\ tx[e].mine # wants[tx[e].act]
  /\ CampaignFree(e)
  /\ Update(e, [tx[e] EXCEPT !.pc = "flushed", !.mine = wants[tx[e].act],
                               !.changed = TRUE, !.owed = TRUE])
  /\ UNCHANGED <<fixed, rows, remote, replays, decision, history>>

Flush(e) ==
  /\ tx[e].pc = "opened" /\ Pushes(tx[e].act)
  /\ tx[e].mine # wants[tx[e].act]
  /\ CampaignFree(e)
  /\ Update(e, [tx[e] EXCEPT !.pc = "flushed", !.mine = wants[tx[e].act],
                               !.changed = TRUE, !.owed = TRUE])
  /\ UNCHANGED <<fixed, rows, remote, replays, decision, history>>

\* Nothing changed as far as the session knows: no UPDATE, and no lock.
FlushNothing(e) ==
  /\ tx[e].pc = "opened" /\ Pushes(tx[e].act)
  /\ tx[e].mine = wants[tx[e].act]
  /\ Update(e, [tx[e] EXCEPT !.pc = "flushed"])
  /\ UNCHANGED <<fixed, rows, remote, replays, decision, history>>

Recorded(e)  == settings.tools /\ tx[e].act \in replays[tx[e].at]
Rehearsing   == settings.tools /\ settings.dryRun

\* A recorded success is replayed, else a dry run stops short of the network.
\* Without the tool layer the adapter is called directly: neither applies.
CallStops(e) ==
  /\ tx[e].pc = "flushed"
  /\ Recorded(e) \/ Rehearsing
  /\ Update(e, [tx[e] EXCEPT !.pc = "done"])
  /\ UNCHANGED <<fixed, rows, remote, replays, decision, history>>

\* Broken variant: replays are looked up after the call.
SendAnyway(e) ==
  /\ tx[e].pc = "flushed"
  /\ ~Rehearsing
  /\ Update(e, [tx[e] EXCEPT !.pc = "sending"])
  /\ UNCHANGED <<fixed, rows, remote, replays, decision, history>>

\* Broken variant: the key is recorded before the network answers.
SendRecording(e) ==
  /\ tx[e].pc = "flushed"
  /\ ~Recorded(e) /\ ~Rehearsing
  /\ Update(e, [tx[e] EXCEPT !.pc = "sending"])
  /\ replays' = [replays EXCEPT ![tx[e].at] = @ \cup {tx[e].act}]
  /\ UNCHANGED <<fixed, rows, remote, decision, history>>

Send(e) ==
  /\ tx[e].pc = "flushed"
  /\ ~Recorded(e) /\ ~Rehearsing
  /\ Update(e, [tx[e] EXCEPT !.pc = "sending"])
  /\ UNCHANGED <<fixed, rows, remote, replays, decision, history>>

\* The network applies the change.  It now carries what the transaction is
\* about to commit, unless that row is not the transaction's to change.
Land(e) ==
  LET a == tx[e].act IN
  /\ tx[e].pc = "sending" /\ writes[a] < MaxWrites
  /\ remote' = wants[a]
  /\ writes' = [writes EXCEPT ![a] = @ + 1]
  /\ unheard' = unheard \ {a}
  /\ astray' = ~tx[e].changed
  /\ Update(e, [tx[e] EXCEPT !.pc = "landed", !.owed = FALSE, !.wrote = TRUE])
  /\ UNCHANGED <<fixed, rows, replays, decision, ordered>>

\* What the network answered is recorded as a success, keyed on the action.
Record(e) ==
  replays' = IF settings.tools
               THEN [replays EXCEPT ![tx[e].at] = @ \cup {tx[e].act}]
               ELSE replays

Answer(e) ==
  /\ tx[e].pc = "landed"
  /\ Update(e, [tx[e] EXCEPT !.pc = "done"])
  /\ Record(e)
  /\ UNCHANGED <<fixed, rows, remote, decision, history>>

\* The call ends without an exception and without a write.
Unheard(e) ==
  /\ Update(e, [tx[e] EXCEPT !.pc = "done"])
  /\ unheard' = unheard \cup ({tx[e].act} \ {a \in Action : writes[a] > 0})
  /\ UNCHANGED <<fixed, rows, remote, decision, writes, ordered, astray>>

\* The network answers that it did not do it: ExecutionResult.success is false,
\* which neither the executor nor execute looks at.
Decline(e) == tx[e].pc = "sending" /\ Record(e) /\ Unheard(e)

\* Without the tool layer, a campaign whose adapter is not configured is settled
\* without asking anybody.
NoAdapter(e) ==
  /\ tx[e].pc = "flushed" /\ ~settings.tools
  /\ Unheard(e) /\ UNCHANGED replays

\* In a batch a failed call, landed or not, is written down and the batch goes
\* on, with the local change already flushed.
BulkFail(e) ==
  /\ tx[e].bulk /\ tx[e].pc \in {"flushed", "sending", "landed"}
  /\ Update(e, [tx[e] EXCEPT !.pc = "batch", !.draft[tx[e].act] = "failed"])
  /\ UNCHANGED <<fixed, rows, remote, replays, decision, history>>

-----------------------------------------------------------------------------
(* Settling *)

BulkSettle(e) ==
  /\ tx[e].bulk /\ tx[e].pc = "done" /\ ActionFree(e, tx[e].act)
  /\ Update(e, [tx[e] EXCEPT !.pc = "batch", !.draft[tx[e].act] = "executed"])
  /\ UNCHANGED <<fixed, rows, remote, replays, decision, history>>

\* What a commit makes of the campaign row: a change the network never heard of
\* leaves the two apart.
CommitCampaign(e) ==
  /\ local' = IF tx[e].changed THEN tx[e].mine ELSE local
  /\ astray' = (astray \/ tx[e].owed)
  /\ Update(e, Idle(tx[e].at))
  /\ UNCHANGED <<fixed, remote, replays, decision, writes, ordered, unheard>>

\* Flush the verdict and commit.
Commit(e) ==
  /\ ~tx[e].bulk /\ tx[e].pc = "done" /\ ActionFree(e, tx[e].act)
  /\ status' = [status EXCEPT ![tx[e].act] = "executed"]
  /\ CommitCampaign(e)

BulkCommit(e) ==
  /\ tx[e].pc = "batch" /\ tx[e].todo = {}
  /\ status' = [a \in Action |->
        IF tx[e].draft[a] = "clean" THEN status[a] ELSE tx[e].draft[a]]
  /\ CommitCampaign(e)

\* A rollback of what the network was told leaves the two apart.
Orphans(es) == \E e \in es : tx[e].changed /\ tx[e].wrote

\* The transaction rolls back: the network refused or never answered a single
\* execution (its failed status and audit row go too), a flush or the commit
\* failed, the database broke a deadlock, the client went away.
Abort(e) ==
  /\ tx[e].pc # "idle"
  /\ astray' = (astray \/ Orphans({e}))
  /\ Update(e, Idle(tx[e].at))
  /\ UNCHANGED <<fixed, rows, remote, replays, decision, writes, ordered, unheard>>

Crash(p) ==
  LET lost == {e \in Request : tx[e].at = p} IN
  /\ astray' = (astray \/ Orphans(lost))
  /\ tx' = [e \in Request |-> IF e \in lost THEN Idle(p) ELSE tx[e]]
  /\ replays' = [replays EXCEPT ![p] = {}]
  /\ UNCHANGED <<fixed, rows, remote, decision, writes, ordered, unheard>>

-----------------------------------------------------------------------------
Decide(o) ==
  \/ \E a \in Action, to \in {"approved", "rejected"} : DecideRead(o, a, to)
  \/ DecideCommit(o) \/ DecideAbort(o)

Execute(e) ==
  \/ \E p \in Process, a \in Action : Open(e, p, a)
  \/ \E p \in Process, ids \in SUBSET Action : BulkRead(e, p, ids)
  \/ \E a \in Action : BulkNext(e, a)
  \/ BulkApprove(e) \/ Advise(e) \/ Flush(e) \/ FlushNothing(e) \/ CallStops(e)
  \/ Send(e) \/ Land(e) \/ Answer(e) \/ Decline(e) \/ NoAdapter(e)
  \/ BulkFail(e) \/ BulkSettle(e) \/ BulkCommit(e) \/ Commit(e) \/ Abort(e)

Next ==
  \/ \E o \in Operator : Decide(o)
  \/ \E e \in Request : Execute(e)
  \/ \E p \in Process : Crash(p)

Spec == Init /\ [][Next]_vars

-----------------------------------------------------------------------------
(* Properties *)

\* No interleaving of decisions, bulk requests, retries and crashes gets an
\* action to the network without an operator's approval where approval is
\* required, or at all in a rehearsing deployment (execute, _push and
\* ToolExecutor._should_dry_run).
WritesAreSanctioned ==
  \A a \in Action : writes[a] > 0 =>
    /\ settings.approval => a \in ordered
    /\ ~Rehearsing

\* An action the table calls executed did reach the network, whichever of
\* success, replay or overwrite put the status there; but for a rehearsal, and
\* for an execution that took a refusal, or no adapter, for a success (execute
\* 218-226, replays recorded after the handler returns).
ExecutedWasWritten ==
  \A a \in Action :
    status[a] = "executed" /\ Pushes(a) /\ ~Rehearsing /\ a \notin unheard
      => writes[a] > 0

\* Database and ad network hold the same value whenever no execution is under
\* way, except after a transaction that wrote the network rolled back, one that
\* was replayed, rehearsed, refused or failed in a batch committed its local
\* change, or one wrote the network without holding the row; and a later execution that
\* does none of these brings them together again (_apply_budget flushes before
\* it pushes, which serialises executions on the row).
SystemsOfRecordAgree ==
  ~astray /\ (\A e \in Request : ~tx[e].changed) => local = remote

\* Within one process, an execution begun after a success of its action was
\* recorded never reaches the network again, however often execute is retried
\* (idempotency key of _push, ToolExecutor.call).
RetriesReplay ==
  settings.tools =>
    \A e \in Request : tx[e].act \in tx[e].known => tx[e].pc \notin {"sending", "landed"}

\* What the comment on the idempotency key promises of the deployment: while a
\* result is on record, a retried execute does not reach the network again.
RecordedNeverRewritten ==
  [][\A a \in Action :
       (\E p \in Process : a \in replays[p]) => writes'[a] = writes[a]]_vars
=============================================================================
