------------------------------- MODULE Alerts -------------------------------
(***************************************************************************)
(* Stored alerts (repositories/alerts.py): detections, by a run or on      *)
(* demand, and what operators do with their rows, each in a READ COMMITTED *)
(* transaction that reads, flushes and commits.  Fingerprints do not       *)
(* interact: one of them is modelled, and only whether a detection found   *)
(* it firing, and how severe.                                              *)
(***************************************************************************)
EXTENDS Integers, FiniteSets, Sequences, SequencesExt

CONSTANTS AlertTx, AlertLevels,
          MaxAlertRows      \* bound: rows ever inserted

ASSUME AlertBounds == MaxAlertRows \in Nat

VARIABLES rows,        \* committed rows, in order of insertion; history (twin): a
                       \* row became live since this one was looked for, or while it
                       \* was resolved
          ltx,         \* open transactions
          firing,      \* history: detected, and no row of it resolved since
          blind        \* history: a detection refreshed a row resolved meanwhile

alertVars == <<rows, ltx, firing, blind>>

NoAlertTx == [pc |-> "idle"]
LiveRows == {r \in DOMAIN rows : rows[r].status # "resolved"}

AlertsInit ==
  /\ rows = <<>>
  /\ ltx = [t \in AlertTx |-> NoAlertTx]
  /\ firing = FALSE /\ blind = FALSE

BeginAlert(t, pc, row, level) ==
  /\ ltx[t].pc = "idle"
  /\ ltx' = [ltx EXCEPT ![t] =
       [pc |-> pc, row |-> row, level |-> level, held |-> {},
        alone |-> LiveRows = {},
        saw |-> IF row = 0 THEN "none" ELSE rows[row].status]]
  /\ UNCHANGED <<rows, firing, blind>>

EndAlert(t) == ltx' = [ltx EXCEPT ![t] = NoAlertTx]
RowFree(t, r) == \A o \in AlertTx \ {t} : ltx[o].pc # "idle" => r \notin ltx[o].held

\* Broken variant: an acknowledged row is not looked for.
OpenRows == {r \in LiveRows : rows[r].status = "open"}

(* Any of the live rows of the fingerprint, or none: SELECT ... first(). *)
Matching == LiveRows

DetectRead(t, level) ==
  \E row \in IF Matching = {} THEN {0} ELSE Matching :
    BeginAlert(t, IF row = 0 THEN "insert" ELSE "refresh", row, level)

(* A run commits long after this flush, and keeps the row until then. *)
RefreshRow(t) ==
  /\ ltx[t].pc = "refresh" /\ RowFree(t, ltx[t].row)
  /\ ltx' = [ltx EXCEPT ![t].held = {ltx[t].row}, ![t].pc = "refreshed"]
  /\ UNCHANGED <<rows, firing, blind>>

(* The status is not among the refreshed columns. *)
RefreshRowCommit(t) ==
  /\ ltx[t].pc = "refreshed"
  /\ rows' = [rows EXCEPT ![ltx[t].row].level = ltx[t].level]
  /\ blind' = \/ blind
              \/ ltx[t].saw # "resolved" /\ rows[ltx[t].row].status = "resolved"
  /\ firing' = TRUE
  /\ EndAlert(t)

InsertCommit(t) ==
  /\ ltx[t].pc = "insert" /\ Len(rows) < MaxAlertRows
  /\ rows' = Append(rows, [status |-> "open", level |-> ltx[t].level,
                           twin |-> ltx[t].alone /\ LiveRows # {}])
  /\ firing' = TRUE
  /\ EndAlert(t)
  /\ UNCHANGED blind

(* The operator's row is read as it is, whatever its status. *)
AcknowledgeRead(t, r) == r \in DOMAIN rows /\ BeginAlert(t, "acknowledge", r, "none")
ResolveRead(t, r) == r \in DOMAIN rows /\ BeginAlert(t, "resolve", r, "none")

(* A status equal to the one that was read is not written. *)
AcknowledgeCommit(t) ==
  /\ ltx[t].pc = "acknowledge" /\ RowFree(t, ltx[t].row)
  /\ LET r == ltx[t].row
     IN  rows' = IF ltx[t].saw = "acknowledged" THEN rows
                 ELSE [rows EXCEPT ![r].status = "acknowledged",
                                   ![r].twin = @ \/ (r \notin LiveRows /\ LiveRows # {})]
  /\ EndAlert(t)
  /\ UNCHANGED <<firing, blind>>

ResolveCommit(t) ==
  /\ ltx[t].pc = "resolve" /\ RowFree(t, ltx[t].row)
  /\ rows' = IF ltx[t].saw = "resolved" THEN rows
             ELSE [rows EXCEPT ![ltx[t].row].status = "resolved",
                               ![ltx[t].row].twin = FALSE]
  /\ firing' = FALSE
  /\ EndAlert(t)
  /\ UNCHANGED blind

AbortAlert(t) ==
  /\ ltx[t].pc # "idle"
  /\ EndAlert(t)
  /\ UNCHANGED <<rows, firing, blind>>

AlertsNext == \E t \in AlertTx :
  \/ RefreshRow(t) \/ RefreshRowCommit(t) \/ InsertCommit(t)
  \/ AcknowledgeCommit(t) \/ ResolveCommit(t) \/ AbortAlert(t)
  \/ \E level \in AlertLevels : DetectRead(t, level)
  \/ \E r \in DOMAIN rows : AcknowledgeRead(t, r) \/ ResolveRead(t, r)

AlertsSpec == AlertsInit /\ [][AlertsNext]_alertVars

-----------------------------------------------------------------------------
(***************************************************************************)
(* Properties                                                              *)
(***************************************************************************)
(* The shape of the state. *)
AlertsTypeOK ==
  /\ \A r \in DOMAIN rows : /\ rows[r].status \in {"open", "acknowledged", "resolved"}
                            /\ rows[r].level \in AlertLevels
  /\ \A t \in AlertTx : ltx[t].pc # "idle" => ltx[t].row \in 0..Len(rows)
  /\ firing \in BOOLEAN /\ blind \in BOOLEAN

(* What was detected and not resolved since is on an operator's list, and  *)
(* once.  It may be missing only after a detection refreshed a row that    *)
(* was resolved under it, and be there twice only through a row inserted   *)
(* by a detection overlapping another, or acknowledged after it had been   *)
(* resolved (repositories/alerts.py upsert_from_detection, acknowledge).   *)
FiringIsListedOnce ==
  /\ firing => LiveRows # {} \/ blind
  /\ Cardinality({r \in LiveRows : ~rows[r].twin}) =< 1
=============================================================================
