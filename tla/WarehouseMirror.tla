--------------------------- MODULE WarehouseMirror ---------------------------
(***************************************************************************)
(* The ClickHouse copy of daily_metrics (services/warehouse_sync.py,       *)
(* infra/analytics/sink.py, infra/warehouse.py), for one campaign and day: *)
(* the campaign's roll-up and the rows of its creatives.  A sync reads the *)
(* primary's rows once and inserts them in chunks; nothing keeps two syncs *)
(* apart.  The table is a ReplacingMergeTree: every insert adds a version, *)
(* and a merge drops the older ones when ClickHouse gets to it.            *)
(***************************************************************************)
EXTENDS Integers, FiniteSets, Sequences, FiniteSetsExt, SequencesExt

CONSTANTS RollUp, MirrorCreatives,   \* the slots of one campaign and day
          Delivered,                 \* values a feed may assert
          Syncs,                     \* warehouse sync commands, one run each at a time
          BatchSize,                 \* rows of one insert
          MaxWrites, MaxSyncs        \* bounds: writes of the primary, syncs started

ASSUME MirrorBounds ==
  /\ RollUp \notin MirrorCreatives /\ IsFiniteSet(MirrorCreatives)
  /\ Delivered \subseteq Nat
  /\ BatchSize \in Nat \ {0} /\ MaxWrites \in Nat /\ MaxSyncs \in Nat

VARIABLES primary,    \* the value of each stored slot of daily_metrics
          versions,   \* the mirror's versions of each slot, in order of insertion
          exports,    \* what each running sync read, and has yet to insert
          writes, started,
          fresh       \* history: a whole sync landed the primary as it is, and no
                      \* sync that read it before has inserted since

mirrorVars == <<primary, versions, exports, writes, started, fresh>>

MirrorSlots == {RollUp} \cup MirrorCreatives
NoExport == [running |-> FALSE]

MirrorInit ==
  /\ primary = <<>>
  /\ versions = [s \in MirrorSlots |-> <<>>]
  /\ exports = [m \in Syncs |-> NoExport]
  /\ writes = 0 /\ started = 0
  /\ fresh = FALSE

(* History: what this sync lands is not what the primary holds. *)
Outdated(e) == IF e.running THEN [e EXCEPT !.current = FALSE] ELSE e

(* Ingestion commits a slot. *)
PrimaryWrite(s, v) ==
  /\ writes < MaxWrites
  /\ writes' = writes + 1
  /\ primary' = [z \in DOMAIN primary \cup {s} |-> IF z = s THEN v ELSE primary[z]]
  /\ exports' = [m \in Syncs |-> Outdated(exports[m])]
  /\ fresh' = FALSE
  /\ UNCHANGED <<versions, started>>

(* Both granularities are exported, as they are stored. *)
Export(m) ==
  /\ ~exports[m].running /\ started < MaxSyncs /\ primary # <<>>
  /\ started' = started + 1
  /\ exports' = [exports EXCEPT ![m] = [running |-> TRUE, rows |-> primary,
                                        left |-> DOMAIN primary, current |-> TRUE]]
  /\ UNCHANGED <<primary, versions, writes, fresh>>

InsertChunk(m) ==
  /\ exports[m].running /\ exports[m].left # {}
  /\ \E chunk \in kSubset(IF Cardinality(exports[m].left) < BatchSize
                          THEN Cardinality(exports[m].left) ELSE BatchSize,
                          exports[m].left) :
       /\ versions' = [s \in MirrorSlots |->
                         IF s \in chunk THEN Append(versions[s], exports[m].rows[s])
                         ELSE versions[s]]
       /\ exports' = [o \in Syncs |->
            IF o = m THEN [exports[m] EXCEPT !.left = @ \ chunk]
            ELSE IF exports[m].rows # primary THEN Outdated(exports[o]) ELSE exports[o]]
  /\ fresh' = (fresh /\ exports[m].rows = primary)
  /\ UNCHANGED <<primary, writes, started>>

SyncDone(m) ==
  /\ exports[m].running /\ exports[m].left = {}
  /\ exports' = [exports EXCEPT ![m] = NoExport]
  /\ fresh' = (fresh \/ exports[m].current)
  /\ UNCHANGED <<primary, versions, writes, started>>

(* An insert raises: the chunks before it have landed, the rest has not. *)
SyncFails(m) ==
  /\ exports[m].running /\ exports[m].left # {}
  /\ exports' = [exports EXCEPT ![m] = NoExport]
  /\ UNCHANGED <<primary, versions, writes, started, fresh>>

BackgroundMerge(s) ==
  /\ Len(versions[s]) > 1
  /\ versions' = [versions EXCEPT ![s] = <<Last(@)>>]
  /\ UNCHANGED <<primary, exports, writes, started, fresh>>

MirrorNext ==
  \/ \E s \in MirrorSlots : \/ BackgroundMerge(s)
                            \/ \E v \in Delivered : PrimaryWrite(s, v)
  \/ \E m \in Syncs : Export(m) \/ InsertChunk(m) \/ SyncDone(m) \/ SyncFails(m)

MirrorSpec == MirrorInit /\ [][MirrorNext]_mirrorVars

(***************************************************************************)
(* The two readers: what the campaign delivered on the day.                *)
(***************************************************************************)
(* The breakdown fills a bucket that has no roll-up. *)
SqlDelivery ==
  IF RollUp \in DOMAIN primary THEN primary[RollUp]
  ELSE MapThenSumSet(LAMBDA s : primary[s], DOMAIN primary)

\* Broken variant: every version is summed, without FINAL.
EveryVersion(s) == FoldSeq(LAMBDA v, sum : v + sum, 0, versions[s])

(* FINAL: the newest version of a row, whether or not merged. *)
Newest(s) == IF versions[s] = <<>> THEN 0 ELSE Last(versions[s])

ClickHouseDelivery ==
  IF versions[RollUp] # <<>> THEN Newest(RollUp)
  ELSE MapThenSumSet(Newest, MirrorCreatives)

-----------------------------------------------------------------------------
(***************************************************************************)
(* Properties                                                              *)
(***************************************************************************)
(* The shape of the state. *)
MirrorTypeOK ==
  /\ DOMAIN primary \subseteq MirrorSlots
  /\ versions \in [MirrorSlots -> Seq(Delivered)]
  /\ \A s \in MirrorSlots : versions[s] # <<>> => s \in DOMAIN primary
  /\ \A m \in Syncs : exports[m].running =>
       exports[m].left \subseteq DOMAIN exports[m].rows

(* However often a window was replayed, chunks failed and syncs overlapped,*)
(* one sync that runs whole on the last of the primary, with no older one  *)
(* still inserting, makes the warehouse's reader agree with the primary's: *)
(* no delivery is counted twice, by version or by granularity              *)
(* (services/warehouse_sync.py; infra/warehouse.py _relation,              *)
(* _delivery_relation).                                                    *)
MirrorConverges == fresh => ClickHouseDelivery = SqlDelivery
=============================================================================
