--------------------------- MODULE ActionGate_proofs ---------------------------
(***************************************************************************)
(* For any number of actions, campaign values, processes, concurrent       *)
(* requests and operators, and any set of deployments: the types of        *)
(* ActionGate, and its four safety invariants, by one inductive invariant. *)
(***************************************************************************)
EXTENDS ActionGate, TLAPS

Executing == {"opened", "flushed", "sending", "landed", "done"}
Calling   == {"flushed", "sending", "landed"}

\* What the control state of a transaction says of its other fields.
Shape ==
  \A e \in Request :
    /\ tx[e].pc = "idle" => tx[e] = Idle(tx[e].at)
    /\ tx[e].pc \in Executing => tx[e].act # None /\ tx[e].mine # NoValue
    /\ tx[e].pc \in Calling => Pushes(tx[e].act) /\ tx[e].mine = wants[tx[e].act]
    /\ tx[e].pc \in {"sending", "landed"} => ~Rehearsing
    /\ tx[e].changed => tx[e].mine # NoValue /\ (tx[e].owed \/ tx[e].wrote)
    /\ tx[e].owed => tx[e].changed

\* Approval precedes everything that can lead to a write.
Sanctions ==
  /\ \A a \in Action : status[a] = "approved" => a \in ordered
  /\ \A e \in Request :
       /\ \A a \in Action : tx[e].draft[a] = "approved" => a \in ordered
       /\ tx[e].pc # "choosing" => tx[e].todo \subseteq ordered
       /\ settings.approval /\ tx[e].pc \in Executing => tx[e].act \in ordered

\* A write, or a call that ended without one, precedes everything that can lead to
\* the status executed.
Answered(a) == writes[a] > 0 \/ a \in unheard

Evidence ==
  /\ \A p \in Process : \A a \in replays[p] : Answered(a)
  /\ \A e \in Request :
       /\ tx[e].pc = "landed" => writes[tx[e].act] > 0
       /\ tx[e].pc = "done" /\ Pushes(tx[e].act) /\ ~Rehearsing => Answered(tx[e].act)
       /\ \A a \in Action :
            tx[e].draft[a] = "executed" /\ Pushes(a) /\ ~Rehearsing => Answered(a)

\* One transaction at a time has changed the campaign row.  Unless astray, the
\* network has either what that transaction will commit or what was committed
\* before it.
RowLock == \A e, f \in Request : tx[e].changed /\ tx[f].changed => e = f

InStep ==
  ~astray =>
    \A e \in Request : tx[e].changed =>
      /\ ~tx[e].owed => remote = tx[e].mine
      /\ tx[e].owed /\ ~tx[e].wrote => local = remote

\* What an execution knew recorded when it began is still recorded when it asks.
Replays ==
  settings.tools =>
    \A e \in Request :
      tx[e].pc \in {"opened", "flushed"} => tx[e].known \subseteq replays[tx[e].at]

IInv ==
  /\ TypeOK /\ Shape
  /\ Sanctions /\ WritesAreSanctioned
  /\ Evidence /\ ExecutedWasWritten
  /\ RowLock /\ InStep /\ SystemsOfRecordAgree
  /\ Replays /\ RetriesReplay

-----------------------------------------------------------------------------
(* Types *)

\* What a request assigns to its transaction keeps it one.
LEMMA TxUpdates ==
  ASSUME NEW t \in Tx, NEW x \in TxPc
  PROVE  /\ [t EXCEPT !.pc = x] \in Tx
         /\ [t EXCEPT !.pc = x, !.owed = FALSE, !.wrote = TRUE] \in Tx
         /\ \A v \in Value :
              [t EXCEPT !.pc = x, !.mine = v, !.changed = TRUE, !.owed = TRUE] \in Tx
         /\ \A a \in Action, s \in Status : [t EXCEPT !.pc = x, !.draft[a] = s] \in Tx
         /\ \A ids \in SUBSET Action, d \in [Action -> Status \cup {"clean"}] :
              [t EXCEPT !.pc = x, !.todo = ids, !.draft = d] \in Tx
         /\ \A a \in Action, v \in Value, k \in SUBSET Action :
              [t EXCEPT !.pc = x, !.act = a, !.mine = v, !.known = k] \in Tx
         /\ \A ids \in SUBSET Action :
              [t EXCEPT !.pc = x, !.bulk = TRUE, !.todo = ids] \in Tx
  BY DEF Tx

\* The same of a batch that opens its next action.
LEMMA TxOpens ==
  ASSUME NEW t \in Tx, NEW a \in Action, NEW ids \in SUBSET Action, NEW v \in Value,
         NEW k \in SUBSET Action
  PROVE  [t EXCEPT !.pc = "opened", !.act = a, !.todo = ids, !.mine = v, !.known = k] \in Tx
  BY DEF Tx, TxPc

\* A request between two transactions.
LEMMA IdleType == ASSUME NEW p \in Process PROVE Idle(p) \in Tx
  BY DEF Tx, Idle, NoDraft, TxPc

\* Every step keeps the variables in their types: only actions that push assign
\* their value to the campaign and to the network.
LEMMA TypeStep ==
  ASSUME TypeOK, Shape, [Next]_vars
  PROVE  TypeOK'
<1> USE GateAssumption DEF TypeOK, fixed, rows, history
<1>update. ASSUME NEW e \in Request, NEW t \in Tx, Update(e, t) PROVE tx' \in [Request -> Tx]
  BY <1>update DEF Update
<1>fields. ASSUME NEW e \in Request
      PROVE  /\ tx[e] \in Tx /\ tx[e].at \in Process /\ tx[e].todo \subseteq Action
             /\ tx[e].act \in Action \cup {None} /\ tx[e].mine \in Value \cup {NoValue}
             /\ tx[e].pc \in Executing => tx[e].act \in Action
             /\ tx[e].changed => tx[e].mine \in Value
             /\ tx[e].pc \in Calling => wants[tx[e].act] \in Value
             /\ tx[e].draft \in [Action -> Status \cup {"clean"}]
             /\ tx[e].owed \in BOOLEAN /\ tx[e].changed \in BOOLEAN
  BY DEF Tx, Shape, Executing, Calling, Pushes
<1>pcs. {"opened", "done", "flushed", "sending", "landed", "batch", "choosing"} \subseteq TxPc
  BY DEF TxPc
<1>1. ASSUME NEW o \in Operator, Decide(o) PROVE TypeOK'
  BY <1>1 DEF Decide, DecideRead, DecideCommit, DecideAbort, Decisions, NoDecision, Status
<1>2. ASSUME NEW e \in Request, NEW p \in Process, NEW a \in Action,
             Open(e, p, a) PROVE TypeOK'
  <2>1. [Idle(p) EXCEPT !.pc = "opened", !.act = a, !.mine = local,
                  !.known = {a} \cap replays[p]] \in Tx
    BY <1>2, <1>pcs, TxUpdates, IdleType DEF Open
  <2>2. tx' \in [Request -> Tx]
    BY <1>2, <1>update, <2>1 DEF Open
  <2> QED
    BY <1>2, <1>fields, <2>2 DEF Open
<1>3. ASSUME NEW e \in Request, NEW p \in Process, NEW ids \in SUBSET Action,
             BulkRead(e, p, ids) PROVE TypeOK'
  <2>1. [Idle(p) EXCEPT !.pc = "choosing", !.bulk = TRUE, !.todo = ids] \in Tx
    BY <1>3, <1>pcs, TxUpdates, IdleType DEF BulkRead
  <2>2. tx' \in [Request -> Tx]
    BY <1>3, <1>update, <2>1 DEF BulkRead
  <2> QED
    BY <1>3, <1>fields, <2>2 DEF BulkRead
<1>4. ASSUME NEW e \in Request, BulkApprove(e) PROVE TypeOK'
  <2> DEFINE d == [a \in Action |-> IF a \in tx[e].todo THEN "approved" ELSE "clean"]
  <2>1. d \in [Action -> Status \cup {"clean"}]
    BY DEF Status
  <2>2. PICK todo \in {tx[e].todo, {}} :
          Update(e, [tx[e] EXCEPT !.pc = "batch", !.todo = todo, !.draft = d])
    BY <1>4 DEF BulkApprove
  <2>3. todo \in SUBSET Action
    BY <1>fields
  <2>4. [tx[e] EXCEPT !.pc = "batch", !.todo = todo, !.draft = d] \in Tx
    BY <1>fields, <1>pcs, <2>1, <2>3, TxUpdates
  <2>5. tx' \in [Request -> Tx]
    BY <1>update, <2>2, <2>4
  <2> QED
    BY <1>4, <1>fields, <2>5 DEF BulkApprove
<1>5. ASSUME NEW e \in Request, NEW a \in Action, BulkNext(e, a) PROVE TypeOK'
  <2> DEFINE v == IF tx[e].mine = NoValue THEN local ELSE tx[e].mine
             k == {a} \cap replays[tx[e].at]
             t == [tx[e] EXCEPT !.pc = "opened", !.act = a, !.todo = tx[e].todo \ {a},
                                !.mine = v, !.known = k]
  <2>1. v \in Value /\ k \in SUBSET Action /\ tx[e].todo \ {a} \in SUBSET Action
    BY <1>fields
  <2>2. t \in Tx
    <3> HIDE DEF v, k, TypeOK
    <3>1. tx[e] \in Tx
      BY <1>fields
    <3> QED
      BY <2>1, <3>1, TxOpens
  <2>3. Update(e, t)
    BY <1>5 DEF BulkNext
  <2>4. tx' \in [Request -> Tx]
    BY <1>update, <2>2, <2>3
  <2> QED
    BY <1>5, <2>4 DEF BulkNext
<1>6. ASSUME NEW e \in Request, Advise(e) PROVE TypeOK'
  <2>1. [tx[e] EXCEPT !.pc = "done"] \in Tx
    BY <1>6, <1>fields, <1>pcs, TxUpdates DEF Advise
  <2>2. tx' \in [Request -> Tx]
    BY <1>6, <1>update, <2>1 DEF Advise
  <2> QED
    BY <1>6, <1>fields, <2>2 DEF Advise
<1>7. ASSUME NEW e \in Request, Flush(e) PROVE TypeOK'
  <2>1. [tx[e] EXCEPT !.pc = "flushed", !.mine = wants[tx[e].act],
                     !.changed = TRUE, !.owed = TRUE] \in Tx
    BY <1>7, <1>fields, <1>pcs, TxUpdates DEF Flush, Pushes, Executing
  <2>2. tx' \in [Request -> Tx]
    BY <1>7, <1>update, <2>1 DEF Flush
  <2> QED
    BY <1>7, <1>fields, <2>2 DEF Flush
<1>8. ASSUME NEW e \in Request, FlushNothing(e) PROVE TypeOK'
  <2>1. [tx[e] EXCEPT !.pc = "flushed"] \in Tx
    BY <1>8, <1>fields, <1>pcs, TxUpdates DEF FlushNothing
  <2>2. tx' \in [Request -> Tx]
    BY <1>8, <1>update, <2>1 DEF FlushNothing
  <2> QED
    BY <1>8, <1>fields, <2>2 DEF FlushNothing
<1>9. ASSUME NEW e \in Request, CallStops(e) PROVE TypeOK'
  <2>1. [tx[e] EXCEPT !.pc = "done"] \in Tx
    BY <1>9, <1>fields, <1>pcs, TxUpdates DEF CallStops
  <2>2. tx' \in [Request -> Tx]
    BY <1>9, <1>update, <2>1 DEF CallStops
  <2> QED
    BY <1>9, <1>fields, <2>2 DEF CallStops
<1>10. ASSUME NEW e \in Request, Send(e) PROVE TypeOK'
  <2>1. [tx[e] EXCEPT !.pc = "sending"] \in Tx
    BY <1>10, <1>fields, <1>pcs, TxUpdates DEF Send
  <2>2. tx' \in [Request -> Tx]
    BY <1>10, <1>update, <2>1 DEF Send
  <2> QED
    BY <1>10, <1>fields, <2>2 DEF Send
<1>11. ASSUME NEW e \in Request, Land(e) PROVE TypeOK'
  <2>1. [tx[e] EXCEPT !.pc = "landed", !.owed = FALSE, !.wrote = TRUE] \in Tx
    BY <1>11, <1>fields, <1>pcs, TxUpdates DEF Land, Executing, Calling
  <2>2. tx' \in [Request -> Tx]
    BY <1>11, <1>update, <2>1 DEF Land
  <2> QED
    BY <1>11, <1>fields, <2>2 DEF Land, Executing, Calling
<1>12. ASSUME NEW e \in Request, Answer(e) PROVE TypeOK'
  <2>1. [tx[e] EXCEPT !.pc = "done"] \in Tx
    BY <1>12, <1>fields, <1>pcs, TxUpdates DEF Answer, Executing
  <2>2. tx' \in [Request -> Tx]
    BY <1>12, <1>update, <2>1 DEF Answer
  <2> QED
    BY <1>12, <1>fields, <2>2 DEF Answer, Record, Executing
<1>20. ASSUME NEW e \in Request, Decline(e) PROVE TypeOK'
  <2>1. [tx[e] EXCEPT !.pc = "done"] \in Tx
    BY <1>20, <1>fields, <1>pcs, TxUpdates DEF Decline, Unheard
  <2>2. tx' \in [Request -> Tx]
    BY <1>20, <1>update, <2>1 DEF Decline, Unheard
  <2> QED
    BY <1>20, <1>fields, <2>2 DEF Decline, Unheard, Record, Executing
<1>21. ASSUME NEW e \in Request, NoAdapter(e) PROVE TypeOK'
  <2>1. [tx[e] EXCEPT !.pc = "done"] \in Tx
    BY <1>21, <1>fields, <1>pcs, TxUpdates DEF NoAdapter, Unheard
  <2>2. tx' \in [Request -> Tx]
    BY <1>21, <1>update, <2>1 DEF NoAdapter, Unheard
  <2> QED
    BY <1>21, <1>fields, <2>2 DEF NoAdapter, Unheard, Executing
<1>13. ASSUME NEW e \in Request, BulkFail(e) PROVE TypeOK'
  <2>1. [tx[e] EXCEPT !.pc = "batch", !.draft[tx[e].act] = "failed"] \in Tx
    BY <1>13, <1>fields, <1>pcs, TxUpdates DEF BulkFail, Executing, Status
  <2>2. tx' \in [Request -> Tx]
    BY <1>13, <1>update, <2>1 DEF BulkFail
  <2> QED
    BY <1>13, <1>fields, <2>2 DEF BulkFail
<1>14. ASSUME NEW e \in Request, BulkSettle(e) PROVE TypeOK'
  <2>1. [tx[e] EXCEPT !.pc = "batch", !.draft[tx[e].act] = "executed"] \in Tx
    BY <1>14, <1>fields, <1>pcs, TxUpdates DEF BulkSettle, Executing, Status
  <2>2. tx' \in [Request -> Tx]
    BY <1>14, <1>update, <2>1 DEF BulkSettle
  <2> QED
    BY <1>14, <1>fields, <2>2 DEF BulkSettle
<1>15. ASSUME NEW e \in Request, BulkCommit(e) PROVE TypeOK'
  <2>1. tx' \in [Request -> Tx]
    BY <1>15, <1>update, <1>fields, IdleType DEF BulkCommit, CommitCampaign
  <2>2. status' \in [Action -> Status]
    BY <1>15, <1>fields DEF BulkCommit, Status, Executing
  <2> QED
    BY <1>15, <1>fields, <2>1, <2>2 DEF BulkCommit, CommitCampaign
<1>16. ASSUME NEW e \in Request, Commit(e) PROVE TypeOK'
  <2>1. tx' \in [Request -> Tx]
    BY <1>16, <1>update, <1>fields, IdleType DEF Commit, CommitCampaign
  <2>2. status' \in [Action -> Status]
    BY <1>16, <1>fields DEF Commit, Status, Executing
  <2> QED
    BY <1>16, <1>fields, <2>1, <2>2 DEF Commit, CommitCampaign
<1>17. ASSUME NEW e \in Request, Abort(e) PROVE TypeOK'
  <2>1. tx' \in [Request -> Tx]
    BY <1>17, <1>update, <1>fields, IdleType DEF Abort
  <2> QED
    BY <1>17, <2>1 DEF Abort
<1>18. ASSUME NEW p \in Process, Crash(p) PROVE TypeOK'
  <2>1. tx' \in [Request -> Tx]
    BY <1>18, IdleType DEF Crash
  <2> QED
    BY <1>18, <2>1 DEF Crash
<1>19. CASE UNCHANGED vars
  BY <1>19 DEF vars
<1> QED
  BY <1>1, <1>2, <1>3, <1>4, <1>5, <1>6, <1>7, <1>8, <1>9, <1>10, <1>11, <1>12, <1>13,
     <1>14, <1>15, <1>16, <1>17, <1>18, <1>19, <1>20, <1>21
  DEF Next, Execute

-----------------------------------------------------------------------------
(* The parts of the invariant *)

\* Control state and fields move together: only a flush changes the session's
\* campaign value, and only an executing request calls the network.
LEMMA ShapeStep ==
  ASSUME TypeOK, Shape, TypeOK', [Next]_vars
  PROVE  Shape'
<1> USE GateAssumption DEF TypeOK, Shape, Executing, Calling, Pushes, Rehearsing, fixed,
                           rows, history, Idle, Tx
<1>1. ASSUME NEW o \in Operator, Decide(o) PROVE Shape'
  BY <1>1
  DEF Decide, DecideRead, DecideCommit, DecideAbort, ActionFree, Decisions, NoDecision,
      MayBecome
<1>2. ASSUME NEW e \in Request, NEW p \in Process, NEW a \in Action, Open(e, p, a)
      PROVE  Shape'
  BY <1>2 DEF Open, Update
<1>3. ASSUME NEW e \in Request, NEW p \in Process, NEW ids \in SUBSET Action,
             BulkRead(e, p, ids)
      PROVE  Shape'
  BY <1>3 DEF BulkRead, Update
<1>4. ASSUME NEW e \in Request, NEW a \in Action, BulkNext(e, a) PROVE Shape'
  BY <1>4 DEF BulkNext, Update
<1>5. ASSUME NEW e \in Request, BulkApprove(e) PROVE Shape'
  <2> DEFINE d == [a \in Action |-> IF a \in tx[e].todo THEN "approved" ELSE "clean"]
  <2>1. PICK todo \in {tx[e].todo, {}} :
          Update(e, [tx[e] EXCEPT !.pc = "batch", !.todo = todo, !.draft = d])
    BY <1>5 DEF BulkApprove
  <2> HIDE DEF d
  <2>2. /\ tx'[e].pc = "batch" /\ tx'[e].mine = tx[e].mine
        /\ tx'[e].changed = tx[e].changed /\ tx'[e].owed = tx[e].owed
        /\ tx'[e].wrote = tx[e].wrote
        /\ \A f \in Request \ {e} : tx'[f] = tx[f]
    BY <2>1 DEF Update
  <2>3. wants' = wants /\ settings' = settings
    BY <1>5 DEF BulkApprove
  <2>4. ASSUME NEW f \in Request, f # e
        PROVE  /\ tx'[f] = tx[f]
               /\ tx'[f].pc = "idle" => tx'[f] = Idle(tx'[f].at)
    BY <2>2, <2>4
  <2>5. "batch" \notin {"idle", "opened", "flushed", "sending", "landed", "done"}
    OBVIOUS
  <2> QED
    BY <2>2, <2>3, <2>4, <2>5
<1>6. ASSUME NEW e \in Request, Advise(e) PROVE Shape'
  BY <1>6 DEF Advise, Update
<1>7. ASSUME NEW e \in Request, Flush(e) PROVE Shape'
  BY <1>7 DEF Flush, Update
<1>8. ASSUME NEW e \in Request, FlushNothing(e) PROVE Shape'
  BY <1>8 DEF FlushNothing, Update
<1>9. ASSUME NEW e \in Request, CallStops(e) PROVE Shape'
  BY <1>9 DEF CallStops, Update
<1>10. ASSUME NEW e \in Request, Send(e) PROVE Shape'
  BY <1>10 DEF Send, Update
<1>11. ASSUME NEW e \in Request, Land(e) PROVE Shape'
  BY <1>11 DEF Land, Update
<1>12. ASSUME NEW e \in Request, Answer(e) PROVE Shape'
  BY <1>12 DEF Answer, Record, Update
<1>20. ASSUME NEW e \in Request, Decline(e) PROVE Shape'
  BY <1>20 DEF Decline, Unheard, Record, Update
<1>21. ASSUME NEW e \in Request, NoAdapter(e) PROVE Shape'
  BY <1>21 DEF NoAdapter, Unheard, Update
<1>13. ASSUME NEW e \in Request, BulkFail(e) PROVE Shape'
  BY <1>13 DEF BulkFail, Update
<1>14. ASSUME NEW e \in Request, BulkSettle(e) PROVE Shape'
  BY <1>14 DEF BulkSettle, Update
<1>15. ASSUME NEW e \in Request, BulkCommit(e) PROVE Shape'
  BY <1>15 DEF BulkCommit, Update, CommitCampaign
<1>16. ASSUME NEW e \in Request, Commit(e) PROVE Shape'
  BY <1>16 DEF Commit, Update, CommitCampaign
<1>17. ASSUME NEW e \in Request, Abort(e) PROVE Shape'
  BY <1>17 DEF Abort, Update, Orphans
<1>18. ASSUME NEW p \in Process, Crash(p) PROVE Shape'
  BY <1>18 DEF Crash, Orphans
<1>19. CASE UNCHANGED vars
  BY <1>19 DEF vars
<1> QED
  BY <1>1, <1>2, <1>3, <1>4, <1>5, <1>6, <1>7, <1>8, <1>9, <1>10, <1>11, <1>12, <1>13,
     <1>14, <1>15, <1>16, <1>17, <1>18, <1>19, <1>20, <1>21
  DEF Next, Execute

\* Approval: status approved comes from an operator's decision alone, and every
\* execution begins at an approved action.
LEMMA SanctionStep ==
  ASSUME TypeOK, Shape, Sanctions, WritesAreSanctioned, [Next]_vars
  PROVE  (Sanctions /\ WritesAreSanctioned)'
<1> USE GateAssumption DEF TypeOK, Shape, Sanctions, WritesAreSanctioned, Gate,
                           Rehearsing, Executing, Calling, fixed, rows, history, Idle,
                           NoDraft, Tx
<1>1. ASSUME NEW o \in Operator, Decide(o) PROVE (Sanctions /\ WritesAreSanctioned)'
  BY <1>1
  DEF Decide, DecideRead, DecideCommit, DecideAbort, ActionFree, Decisions, NoDecision,
      MayBecome
<1>2. ASSUME NEW e \in Request, NEW p \in Process, NEW a \in Action, Open(e, p, a)
      PROVE  (Sanctions /\ WritesAreSanctioned)'
  BY <1>2 DEF Open, Update
<1>3. ASSUME NEW e \in Request, NEW p \in Process, NEW ids \in SUBSET Action,
             BulkRead(e, p, ids)
      PROVE  (Sanctions /\ WritesAreSanctioned)'
  BY <1>3 DEF BulkRead, Update
<1>4. ASSUME NEW e \in Request, NEW a \in Action, BulkNext(e, a)
      PROVE  (Sanctions /\ WritesAreSanctioned)'
  BY <1>4 DEF BulkNext, Update
<1>5. ASSUME NEW e \in Request, BulkApprove(e) PROVE (Sanctions /\ WritesAreSanctioned)'
  BY <1>5 DEF BulkApprove, Update
<1>6. ASSUME NEW e \in Request, Advise(e) PROVE (Sanctions /\ WritesAreSanctioned)'
  BY <1>6 DEF Advise, Update
<1>7. ASSUME NEW e \in Request, Flush(e) PROVE (Sanctions /\ WritesAreSanctioned)'
  BY <1>7 DEF Flush, Update
<1>8. ASSUME NEW e \in Request, FlushNothing(e) PROVE (Sanctions /\ WritesAreSanctioned)'
  BY <1>8 DEF FlushNothing, Update
<1>9. ASSUME NEW e \in Request, CallStops(e) PROVE (Sanctions /\ WritesAreSanctioned)'
  BY <1>9 DEF CallStops, Update
<1>10. ASSUME NEW e \in Request, Send(e) PROVE (Sanctions /\ WritesAreSanctioned)'
  BY <1>10 DEF Send, Update
<1>11. ASSUME NEW e \in Request, Land(e) PROVE (Sanctions /\ WritesAreSanctioned)'
  BY <1>11 DEF Land, Update
<1>12. ASSUME NEW e \in Request, Answer(e) PROVE (Sanctions /\ WritesAreSanctioned)'
  BY <1>12 DEF Answer, Record, Update
<1>20. ASSUME NEW e \in Request, Decline(e) PROVE (Sanctions /\ WritesAreSanctioned)'
  BY <1>20 DEF Decline, Unheard, Record, Update
<1>21. ASSUME NEW e \in Request, NoAdapter(e) PROVE (Sanctions /\ WritesAreSanctioned)'
  BY <1>21 DEF NoAdapter, Unheard, Update
<1>13. ASSUME NEW e \in Request, BulkFail(e) PROVE (Sanctions /\ WritesAreSanctioned)'
  BY <1>13 DEF BulkFail, Update
<1>14. ASSUME NEW e \in Request, BulkSettle(e) PROVE (Sanctions /\ WritesAreSanctioned)'
  BY <1>14 DEF BulkSettle, Update
<1>15. ASSUME NEW e \in Request, BulkCommit(e) PROVE (Sanctions /\ WritesAreSanctioned)'
  BY <1>15 DEF BulkCommit, Update, CommitCampaign
<1>16. ASSUME NEW e \in Request, Commit(e) PROVE (Sanctions /\ WritesAreSanctioned)'
  BY <1>16 DEF Commit, Update, CommitCampaign
<1>17. ASSUME NEW e \in Request, Abort(e) PROVE (Sanctions /\ WritesAreSanctioned)'
  BY <1>17 DEF Abort, Update, Orphans
<1>18. ASSUME NEW p \in Process, Crash(p) PROVE (Sanctions /\ WritesAreSanctioned)'
  BY <1>18 DEF Crash, Orphans
<1>19. CASE UNCHANGED vars
  BY <1>19 DEF vars
<1> QED
  BY <1>1, <1>2, <1>3, <1>4, <1>5, <1>6, <1>7, <1>8, <1>9, <1>10, <1>11, <1>12, <1>13,
     <1>14, <1>15, <1>16, <1>17, <1>18, <1>19, <1>20, <1>21
  DEF Next, Execute

\* Evidence: an answer is recorded after the network applied the action or declined
\* it, and the verdict is flushed after an answer, a replay or a rehearsal.
LEMMA EvidenceStep ==
  ASSUME TypeOK, Shape, Evidence, ExecutedWasWritten, [Next]_vars
  PROVE  (Evidence /\ ExecutedWasWritten)'
<1> USE GateAssumption DEF TypeOK, Shape, Evidence, Answered, ExecutedWasWritten, Pushes,
                           Rehearsing, Recorded, Executing, Calling, fixed, rows, history,
                           Idle, NoDraft, Tx
<1>1. ASSUME NEW o \in Operator, Decide(o) PROVE (Evidence /\ ExecutedWasWritten)'
  BY <1>1
  DEF Decide, DecideRead, DecideCommit, DecideAbort, ActionFree, Decisions, NoDecision,
      MayBecome
<1>2. ASSUME NEW e \in Request, NEW p \in Process, NEW a \in Action, Open(e, p, a)
      PROVE  (Evidence /\ ExecutedWasWritten)'
  BY <1>2 DEF Open, Update
<1>3. ASSUME NEW e \in Request, NEW p \in Process, NEW ids \in SUBSET Action,
             BulkRead(e, p, ids)
      PROVE  (Evidence /\ ExecutedWasWritten)'
  BY <1>3 DEF BulkRead, Update
<1>4. ASSUME NEW e \in Request, NEW a \in Action, BulkNext(e, a)
      PROVE  (Evidence /\ ExecutedWasWritten)'
  BY <1>4 DEF BulkNext, Update
<1>5. ASSUME NEW e \in Request, BulkApprove(e) PROVE (Evidence /\ ExecutedWasWritten)'
  BY <1>5 DEF BulkApprove, Update
<1>6. ASSUME NEW e \in Request, Advise(e) PROVE (Evidence /\ ExecutedWasWritten)'
  BY <1>6 DEF Advise, Update
<1>7. ASSUME NEW e \in Request, Flush(e) PROVE (Evidence /\ ExecutedWasWritten)'
  BY <1>7 DEF Flush, Update
<1>8. ASSUME NEW e \in Request, FlushNothing(e) PROVE (Evidence /\ ExecutedWasWritten)'
  BY <1>8 DEF FlushNothing, Update
<1>9. ASSUME NEW e \in Request, CallStops(e) PROVE (Evidence /\ ExecutedWasWritten)'
  BY <1>9 DEF CallStops, Update
<1>10. ASSUME NEW e \in Request, Send(e) PROVE (Evidence /\ ExecutedWasWritten)'
  BY <1>10 DEF Send, Update
<1>11. ASSUME NEW e \in Request, Land(e) PROVE (Evidence /\ ExecutedWasWritten)'
  BY <1>11 DEF Land, Update
<1>12. ASSUME NEW e \in Request, Answer(e) PROVE (Evidence /\ ExecutedWasWritten)'
  BY <1>12 DEF Answer, Record, Update
<1>20. ASSUME NEW e \in Request, Decline(e) PROVE (Evidence /\ ExecutedWasWritten)'
  BY <1>20 DEF Decline, Unheard, Record, Update
<1>21. ASSUME NEW e \in Request, NoAdapter(e) PROVE (Evidence /\ ExecutedWasWritten)'
  BY <1>21 DEF NoAdapter, Unheard, Update
<1>13. ASSUME NEW e \in Request, BulkFail(e) PROVE (Evidence /\ ExecutedWasWritten)'
  BY <1>13 DEF BulkFail, Update
<1>14. ASSUME NEW e \in Request, BulkSettle(e) PROVE (Evidence /\ ExecutedWasWritten)'
  BY <1>14 DEF BulkSettle, Update
<1>15. ASSUME NEW e \in Request, BulkCommit(e) PROVE (Evidence /\ ExecutedWasWritten)'
  BY <1>15 DEF BulkCommit, Update, CommitCampaign
<1>16. ASSUME NEW e \in Request, Commit(e) PROVE (Evidence /\ ExecutedWasWritten)'
  BY <1>16 DEF Commit, Update, CommitCampaign
<1>17. ASSUME NEW e \in Request, Abort(e) PROVE (Evidence /\ ExecutedWasWritten)'
  BY <1>17 DEF Abort, Update, Orphans
<1>18. ASSUME NEW p \in Process, Crash(p) PROVE (Evidence /\ ExecutedWasWritten)'
  BY <1>18 DEF Crash, Orphans
<1>19. CASE UNCHANGED vars
  BY <1>19 DEF vars
<1> QED
  BY <1>1, <1>2, <1>3, <1>4, <1>5, <1>6, <1>7, <1>8, <1>9, <1>10, <1>11, <1>12, <1>13,
     <1>14, <1>15, <1>16, <1>17, <1>18, <1>19, <1>20, <1>21
  DEF Next, Execute

\* The campaign row: a flush waits for the row and finds it in step or astray, the
\* network then takes the flushed value, and the commit publishes the same value.
LEMMA CampaignStep ==
  ASSUME TypeOK, Shape, RowLock, InStep, SystemsOfRecordAgree, [Next]_vars
  PROVE  (RowLock /\ InStep /\ SystemsOfRecordAgree)'
<1> USE GateAssumption DEF TypeOK, Shape, RowLock, InStep, SystemsOfRecordAgree,
                           CampaignFree, Executing, Calling, fixed, rows, history, Idle,
                           Tx
<1>1. ASSUME NEW o \in Operator, Decide(o)
      PROVE  (RowLock /\ InStep /\ SystemsOfRecordAgree)'
  BY <1>1
  DEF Decide, DecideRead, DecideCommit, DecideAbort, ActionFree, Decisions, NoDecision,
      MayBecome
<1>2. ASSUME NEW e \in Request, NEW p \in Process, NEW a \in Action, Open(e, p, a)
      PROVE  (RowLock /\ InStep /\ SystemsOfRecordAgree)'
  BY <1>2 DEF Open, Update
<1>3. ASSUME NEW e \in Request, NEW p \in Process, NEW ids \in SUBSET Action,
             BulkRead(e, p, ids)
      PROVE  (RowLock /\ InStep /\ SystemsOfRecordAgree)'
  BY <1>3 DEF BulkRead, Update
<1>4. ASSUME NEW e \in Request, NEW a \in Action, BulkNext(e, a)
      PROVE  (RowLock /\ InStep /\ SystemsOfRecordAgree)'
  BY <1>4 DEF BulkNext, Update
<1>5. ASSUME NEW e \in Request, BulkApprove(e)
      PROVE  (RowLock /\ InStep /\ SystemsOfRecordAgree)'
  BY <1>5 DEF BulkApprove, Update
<1>6. ASSUME NEW e \in Request, Advise(e) PROVE (RowLock /\ InStep /\ SystemsOfRecordAgree)'
  BY <1>6 DEF Advise, Update
<1>7. ASSUME NEW e \in Request, Flush(e) PROVE (RowLock /\ InStep /\ SystemsOfRecordAgree)'
  BY <1>7 DEF Flush, Update
<1>8. ASSUME NEW e \in Request, FlushNothing(e)
      PROVE  (RowLock /\ InStep /\ SystemsOfRecordAgree)'
  BY <1>8 DEF FlushNothing, Update
<1>9. ASSUME NEW e \in Request, CallStops(e)
      PROVE  (RowLock /\ InStep /\ SystemsOfRecordAgree)'
  BY <1>9 DEF CallStops, Update
<1>10. ASSUME NEW e \in Request, Send(e) PROVE (RowLock /\ InStep /\ SystemsOfRecordAgree)'
  BY <1>10 DEF Send, Update
<1>11. ASSUME NEW e \in Request, Land(e) PROVE (RowLock /\ InStep /\ SystemsOfRecordAgree)'
  <2>1. tx[e].pc = "sending" /\ tx[e].mine = wants[tx[e].act] /\ remote' = wants[tx[e].act]
    BY <1>11 DEF Land
  <2>2. /\ tx'[e].mine = tx[e].mine /\ tx'[e].changed = tx[e].changed
        /\ tx'[e].owed = FALSE /\ tx'[e].wrote = TRUE
        /\ \A f \in Request \ {e} : tx'[f] = tx[f]
    BY <1>11 DEF Land, Update
  <2>3. astray' = ~tx[e].changed
    BY <1>11 DEF Land
  <2>4. RowLock'
    BY <2>2
  <2>5. InStep'
    BY <2>1, <2>2, <2>3, <2>4
  <2> QED
    BY <2>2, <2>3, <2>4, <2>5
<1>12. ASSUME NEW e \in Request, Answer(e)
      PROVE  (RowLock /\ InStep /\ SystemsOfRecordAgree)'
  BY <1>12 DEF Answer, Record, Update
<1>20. ASSUME NEW e \in Request, Decline(e)
      PROVE  (RowLock /\ InStep /\ SystemsOfRecordAgree)'
  BY <1>20 DEF Decline, Unheard, Record, Update
<1>21. ASSUME NEW e \in Request, NoAdapter(e)
      PROVE  (RowLock /\ InStep /\ SystemsOfRecordAgree)'
  BY <1>21 DEF NoAdapter, Unheard, Update
<1>13. ASSUME NEW e \in Request, BulkFail(e)
      PROVE  (RowLock /\ InStep /\ SystemsOfRecordAgree)'
  BY <1>13 DEF BulkFail, Update
<1>14. ASSUME NEW e \in Request, BulkSettle(e)
      PROVE  (RowLock /\ InStep /\ SystemsOfRecordAgree)'
  BY <1>14 DEF BulkSettle, Update
<1>15. ASSUME NEW e \in Request, BulkCommit(e)
      PROVE  (RowLock /\ InStep /\ SystemsOfRecordAgree)'
  BY <1>15 DEF BulkCommit, Update, CommitCampaign
<1>16. ASSUME NEW e \in Request, Commit(e)
      PROVE  (RowLock /\ InStep /\ SystemsOfRecordAgree)'
  BY <1>16 DEF Commit, Update, CommitCampaign
<1>17. ASSUME NEW e \in Request, Abort(e) PROVE (RowLock /\ InStep /\ SystemsOfRecordAgree)'
  BY <1>17 DEF Abort, Update, Orphans
<1>18. ASSUME NEW p \in Process, Crash(p) PROVE (RowLock /\ InStep /\ SystemsOfRecordAgree)'
  BY <1>18 DEF Crash, Orphans
<1>19. CASE UNCHANGED vars
  BY <1>19 DEF vars
<1> QED
  BY <1>1, <1>2, <1>3, <1>4, <1>5, <1>6, <1>7, <1>8, <1>9, <1>10, <1>11, <1>12, <1>13,
     <1>14, <1>15, <1>16, <1>17, <1>18, <1>19, <1>20, <1>21
  DEF Next, Execute

\* Replays: a process forgets them only with the requests it serves.
LEMMA ReplayStep ==
  ASSUME TypeOK, Shape, Replays, RetriesReplay, [Next]_vars
  PROVE  (Replays /\ RetriesReplay)'
<1> USE GateAssumption DEF TypeOK, Shape, Replays, RetriesReplay, Recorded, Executing,
                           Calling, fixed, rows, history, Idle, Tx
<1>1. ASSUME NEW o \in Operator, Decide(o) PROVE (Replays /\ RetriesReplay)'
  BY <1>1
  DEF Decide, DecideRead, DecideCommit, DecideAbort, ActionFree, Decisions, NoDecision,
      MayBecome
<1>2. ASSUME NEW e \in Request, NEW p \in Process, NEW a \in Action, Open(e, p, a)
      PROVE  (Replays /\ RetriesReplay)'
  BY <1>2 DEF Open, Update
<1>3. ASSUME NEW e \in Request, NEW p \in Process, NEW ids \in SUBSET Action,
             BulkRead(e, p, ids)
      PROVE  (Replays /\ RetriesReplay)'
  BY <1>3 DEF BulkRead, Update
<1>4. ASSUME NEW e \in Request, NEW a \in Action, BulkNext(e, a)
      PROVE  (Replays /\ RetriesReplay)'
  BY <1>4 DEF BulkNext, Update
<1>5. ASSUME NEW e \in Request, BulkApprove(e) PROVE (Replays /\ RetriesReplay)'
  BY <1>5 DEF BulkApprove, Update
<1>6. ASSUME NEW e \in Request, Advise(e) PROVE (Replays /\ RetriesReplay)'
  BY <1>6 DEF Advise, Update
<1>7. ASSUME NEW e \in Request, Flush(e) PROVE (Replays /\ RetriesReplay)'
  BY <1>7 DEF Flush, Update
<1>8. ASSUME NEW e \in Request, FlushNothing(e) PROVE (Replays /\ RetriesReplay)'
  BY <1>8 DEF FlushNothing, Update
<1>9. ASSUME NEW e \in Request, CallStops(e) PROVE (Replays /\ RetriesReplay)'
  BY <1>9 DEF CallStops, Update
<1>10. ASSUME NEW e \in Request, Send(e) PROVE (Replays /\ RetriesReplay)'
  BY <1>10 DEF Send, Update
<1>11. ASSUME NEW e \in Request, Land(e) PROVE (Replays /\ RetriesReplay)'
  BY <1>11 DEF Land, Update
<1>12. ASSUME NEW e \in Request, Answer(e) PROVE (Replays /\ RetriesReplay)'
  BY <1>12 DEF Answer, Record, Update
<1>20. ASSUME NEW e \in Request, Decline(e) PROVE (Replays /\ RetriesReplay)'
  BY <1>20 DEF Decline, Unheard, Record, Update
<1>21. ASSUME NEW e \in Request, NoAdapter(e) PROVE (Replays /\ RetriesReplay)'
  BY <1>21 DEF NoAdapter, Unheard, Update
<1>13. ASSUME NEW e \in Request, BulkFail(e) PROVE (Replays /\ RetriesReplay)'
  BY <1>13 DEF BulkFail, Update
<1>14. ASSUME NEW e \in Request, BulkSettle(e) PROVE (Replays /\ RetriesReplay)'
  BY <1>14 DEF BulkSettle, Update
<1>15. ASSUME NEW e \in Request, BulkCommit(e) PROVE (Replays /\ RetriesReplay)'
  BY <1>15 DEF BulkCommit, Update, CommitCampaign
<1>16. ASSUME NEW e \in Request, Commit(e) PROVE (Replays /\ RetriesReplay)'
  BY <1>16 DEF Commit, Update, CommitCampaign
<1>17. ASSUME NEW e \in Request, Abort(e) PROVE (Replays /\ RetriesReplay)'
  BY <1>17 DEF Abort, Update, Orphans
<1>18. ASSUME NEW p \in Process, Crash(p) PROVE (Replays /\ RetriesReplay)'
  BY <1>18 DEF Crash, Orphans
<1>19. CASE UNCHANGED vars
  BY <1>19 DEF vars
<1> QED
  BY <1>1, <1>2, <1>3, <1>4, <1>5, <1>6, <1>7, <1>8, <1>9, <1>10, <1>11, <1>12, <1>13,
     <1>14, <1>15, <1>16, <1>17, <1>18, <1>19, <1>20, <1>21
  DEF Next, Execute

-----------------------------------------------------------------------------
(* Theorems *)

\* Nothing is approved, executed or under way at first.
LEMMA InitIInv == Init => IInv
<1> SUFFICES ASSUME Init PROVE IInv
  OBVIOUS
<1>1. PICK p \in Process : tx = [e \in Request |-> Idle(p)]
  BY DEF Init
<1>2. \A e \in Request : tx[e] = Idle(p)
  BY <1>1
<1>3. TypeOK
  <2>1. tx \in [Request -> Tx]
    BY <1>1, IdleType
  <2>2. status \in [Action -> Status]
    BY DEF Init, Status
  <2>3. writes \in [Action -> 0..MaxWrites] /\ replays \in [Process -> SUBSET Action]
        /\ decision \in [Operator -> Decisions \cup {NoDecision}]
    BY GateAssumption DEF Init
  <2>4. settings \in Deployments /\ wants \in [Action -> Value \cup {NoValue}]
        /\ local \in Value /\ remote \in Value /\ ordered \subseteq Action
        /\ unheard \subseteq Action /\ astray \in BOOLEAN
    BY DEF Init
  <2> QED
    BY <2>1, <2>2, <2>3, <2>4 DEF TypeOK
<1>4. \A e \in Request :
        /\ tx[e].pc = "idle" /\ tx[e] = Idle(tx[e].at) /\ tx[e].todo = {}
        /\ ~tx[e].changed /\ ~tx[e].owed
        /\ \A a \in Action : tx[e].draft[a] = "clean"
  <2>1. /\ Idle(p).at = p /\ Idle(p).pc = "idle" /\ Idle(p).todo = {}
        /\ ~Idle(p).changed /\ ~Idle(p).owed
        /\ \A a \in Action : Idle(p).draft[a] = "clean"
    BY DEF Idle, NoDraft
  <2> QED
    BY <1>2, <2>1
<1>5. Shape /\ RowLock /\ InStep
  BY <1>4 DEF Shape, RowLock, InStep, Executing, Calling
<1>6. Sanctions /\ Evidence
  <2>1. \A a \in Action : status[a] # "approved"
    BY DEF Init
  <2>2. \A q \in Process : replays[q] = {}
    BY DEF Init
  <2> QED
    BY <1>4, <2>1, <2>2 DEF Sanctions, Evidence, Executing
<1>7. Replays /\ RetriesReplay
  BY <1>4 DEF Replays, RetriesReplay
<1>8. WritesAreSanctioned /\ ExecutedWasWritten /\ SystemsOfRecordAgree
  BY GateAssumption DEF Init, WritesAreSanctioned, ExecutedWasWritten, SystemsOfRecordAgree
<1> QED
  BY <1>3, <1>5, <1>6, <1>7, <1>8 DEF IInv

\* The inductive invariant of the action gate holds in every reachable state.
THEOREM GateInvariant == Spec => []IInv
<1>1. IInv /\ [Next]_vars => IInv'
  BY TypeStep, ShapeStep, SanctionStep, EvidenceStep, CampaignStep, ReplayStep DEF IInv
<1> QED
  BY InitIInv, <1>1, PTL DEF Spec

\* Every variable keeps its type: no step of a request, a decision or a crash
\* leaves a transaction half reset or a campaign without a value.
THEOREM GateTypes == Spec => []TypeOK
<1>1. IInv => TypeOK
  BY DEF IInv
<1> QED
  BY GateInvariant, <1>1, PTL

\* Nothing reaches the network without the approval the deployment asks for, or
\* in a rehearsing deployment (ActionService.execute, ToolExecutor.call).
THEOREM GateSanctions == Spec => []WritesAreSanctioned
<1>1. IInv => WritesAreSanctioned
  BY DEF IInv
<1> QED
  BY GateInvariant, <1>1, PTL

\* Executed on record means written to the network, unless a refusal or a missing
\* adapter was taken for a success (ActionService.execute).
THEOREM GateEvidence == Spec => []ExecutedWasWritten
<1>1. IInv => ExecutedWasWritten
  BY DEF IInv
<1> QED
  BY GateInvariant, <1>1, PTL

\* The flush before the push keeps database and network together, up to the
\* named exceptions (ActionService._apply_budget, _push).
THEOREM GateAgreement == Spec => []SystemsOfRecordAgree
<1>1. IInv => SystemsOfRecordAgree
  BY DEF IInv
<1> QED
  BY GateInvariant, <1>1, PTL

\* A process that has recorded a success replays it (ToolExecutor.call).
THEOREM GateReplays == Spec => []RetriesReplay
<1>1. IInv => RetriesReplay
  BY DEF IInv
<1> QED
  BY GateInvariant, <1>1, PTL
=============================================================================
