---------------------------- MODULE ReviewQueue ----------------------------
(***************************************************************************)
(* What a run promises the operator who reads its approval queue: it only  *)
(* adds to what it has raised while it deliberates, and then publishes, in *)
(* one step, a selection that an operator can approve from top to bottom.  *)
(* Which proposals are selected, and how often the run reconsiders them,   *)
(* is left to the detailed specification: that none is lost without reason *)
(* is NothingLostToRefusals of AgentLoop.                                  *)
(***************************************************************************)
EXTENDS Critic

VARIABLES raised,      \* the proposals of the run so far
          offered,     \* those its queue offers for approval
          stage

Stages == {"deliberating", "published"}

(* Approving any of it, in any order, never undoes or repeats an approval. *)
Approvable(Q) == /\ OnePerIntent(Q)
                 /\ Coherent(Q)
                 /\ \A p \in Q : ~p.blocked

QueueInit == raised = {} /\ offered = {} /\ stage = "deliberating"

Raise == /\ stage = "deliberating"
         /\ raised \subseteq raised'
         /\ UNCHANGED <<offered, stage>>

Publish == /\ stage = "deliberating" /\ stage' = "published"
           /\ offered' \subseteq raised
           /\ Approvable(offered')
           /\ UNCHANGED raised

Restart == /\ stage = "published" /\ stage' = "deliberating"
           /\ raised' = {} /\ offered' = {}

QueueNext == Raise \/ Publish \/ Restart
QueueSpec == QueueInit /\ [][QueueNext]_<<raised, offered, stage>>
=============================================================================
