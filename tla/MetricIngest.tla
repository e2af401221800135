---------------------------- MODULE MetricIngest ----------------------------
(***************************************************************************)
(* Batches of metric records becoming rows of daily_metrics                *)
(* (services/ingest.py, MetricRepository in repositories/campaigns.py).    *)
(* A batch is one READ COMMITTED transaction: it reads the slots that hold *)
(* a row, then loads and writes its slots one at a time.  A flushed row is *)
(* locked until the transaction ends.  The days of a window do not         *)
(* interact, so one day is modelled, with two of the measured columns.     *)
(***************************************************************************)
EXTENDS Integers, FiniteSets, Sequences, Functions

CONSTANTS Absent,       \* None: not asserted, or no creative
          Campaigns,
          OwnerOf,      \* the campaign of each creative
          Feeds,
          Batches,      \* what may be sent: a feed, its records, and whether to rehearse
          IngestTx,
          MaxBatches    \* bound: batches ever opened

ASSUME IngestBounds ==
  /\ MaxBatches \in Nat
  /\ \A b \in Batches : /\ b.feed \in Feeds /\ b.dry \in BOOLEAN
                         /\ b.records \in Seq(Range(b.records))
                         /\ \A i \in DOMAIN b.records : \A c \in {"impressions", "clicks"} :
                              b.records[i][c] \in Int \cup {Absent}

VARIABLES daily,    \* committed rows, by slot
          itx,      \* open transactions
          opened,   \* batches opened
          reports   \* history: what committed batches reported, in order

ingestVars == <<daily, itx, opened, reports>>

Creatives == DOMAIN OwnerOf
Slots == {<<c, Absent>> : c \in Campaigns} \cup {<<OwnerOf[k], k>> : k \in Creatives}
Measured == {"impressions", "clicks"}
NoRow == [impressions |-> 0, clicks |-> 0, feed |-> Absent, batch |-> 0]
NoIngestTx == [pc |-> "idle"]

IngestInit ==
  /\ daily = [s \in Slots |-> NoRow]
  /\ itx = [t \in IngestTx |-> NoIngestTx]
  /\ opened = 0
  /\ reports = <<>>

Stored(s) == daily[s] # NoRow

(***************************************************************************)
(* What becomes of each record.                                            *)
(***************************************************************************)
Asserts(r) == {c \in Measured : r[c] # Absent}

\* Broken variant: negative values pass.
ProblemButSign(r) ==
  \/ r.campaign = Absent /\ r.external = Absent
  \/ Asserts(r) = Measured /\ r.clicks > r.impressions
  \/ Asserts(r) = {}
  \/ r.ahead

(* Shaped correctly, and says something impossible. *)
SemanticProblem(r) ==
  \/ r.campaign = Absent /\ r.external = Absent
  \/ \E c \in Asserts(r) : r[c] < 0
  \/ Asserts(r) = Measured /\ r.clicks > r.impressions
  \/ Asserts(r) = {}
  \/ r.ahead

(* Platform coordinates stand for the campaign they map to. *)
Named(r) == {r.campaign, r.external} \ {Absent}
TargetOf(r) == CHOOSE c \in Named(r) : TRUE
SlotOf(r) == <<TargetOf(r), r.creative>>

(* Every name given is known, and they agree; so does the creative's owner. *)
Attributable(r) ==
  /\ Cardinality(Named(r)) = 1 /\ Named(r) \subseteq Campaigns
  /\ r.creative # Absent => r.creative \in Creatives /\ OwnerOf[r.creative] = TargetOf(r)

Malformed(b) == {i \in DOMAIN b : SemanticProblem(b[i])}
UnresolvedIn(b) == {i \in DOMAIN b \ Malformed(b) : ~Attributable(b[i])}
AttributedIn(b) == DOMAIN b \ (Malformed(b) \cup UnresolvedIn(b))

(* All the records of a slot asserted twice are refused. *)
Colliding(b) == {i \in AttributedIn(b) : \E j \in AttributedIn(b) \ {i} :
                                           SlotOf(b[j]) = SlotOf(b[i])}
Kept(b) == AttributedIn(b) \ Colliding(b)

(***************************************************************************)
(* The transaction.                                                        *)
(***************************************************************************)
\* Broken variant: a campaign with a row makes every slot of it known.
KnownCampaigns(b) == {s \in Slots : \E i \in Kept(b) : /\ TargetOf(b[i]) = s[1]
                                                       /\ \E z \in Slots : Stored(z) /\ z[1] = s[1]}

(* The slots of the batch's campaigns that hold a row, read once. *)
KnownSlots(b) == {s \in Slots : Stored(s) /\ \E i \in Kept(b) : TargetOf(b[i]) = s[1]}

OpenBatch(t, sent) ==
  /\ itx[t].pc = "idle" /\ opened < MaxBatches
  /\ opened' = opened + 1
  /\ itx' = [itx EXCEPT ![t] =
       [pc |-> "writing", batch |-> opened + 1, feed |-> sent.feed, dry |-> sent.dry,
        records |-> sent.records, known |-> KnownSlots(sent.records),
        todo |-> IF sent.dry THEN {} ELSE Kept(sent.records),
        begun |-> Len(reports),
        loaded |-> NoRow, drafts |-> <<>>]]
  /\ UNCHANGED <<daily, reports>>

(* The kept records are written in the order they came. *)
Current(t) == CHOOSE i \in itx[t].todo : \A j \in itx[t].todo : i =< j
CurrentRecord(t) == itx[t].records[Current(t)]
CurrentSlot(t) == SlotOf(CurrentRecord(t))

(* upsert_daily looks for the row of the slot. *)
Load(t) ==
  /\ itx[t].pc = "writing" /\ itx[t].todo # {}
  /\ itx' = [itx EXCEPT ![t].pc = "loaded", ![t].loaded = daily[CurrentSlot(t)]]
  /\ UNCHANGED <<daily, opened, reports>>

HeldByOther(t, s) == \E o \in IngestTx \ {t} : /\ itx[o].pc # "idle"
                                               /\ s \in DOMAIN itx[o].drafts

(* What the record supplies: None is left out, and provenance rides along. *)
Supplied(t, r) == [c \in Asserts(r) \cup {"feed", "batch"} |->
                     CASE c = "feed" -> itx[t].feed
                       [] c = "batch" -> itx[t].batch
                       [] OTHER -> r[c]]

(* The columns of new, and those of old it leaves out. *)
Over(new, old) == [c \in DOMAIN new \cup DOMAIN old |->
                     IF c \in DOMAIN new THEN new[c] ELSE old[c]]

\* Broken variant: the row is written as it was loaded.
WholeRow(loaded, new) == Over(new, loaded)

(* An UPDATE names the columns whose value differs from the one loaded. *)
Changed(loaded, new) == [c \in {c \in DOMAIN new : new[c] # loaded[c]} |-> new[c]]

(* An INSERT waits for a rival's, and fails on its row: the batch is lost. *)
Flush(t) ==
  /\ itx[t].pc = "loaded" /\ ~HeldByOther(t, CurrentSlot(t))
  /\ itx[t].loaded = NoRow => ~Stored(CurrentSlot(t))
  /\ LET s == CurrentSlot(t)
         written == Changed(itx[t].loaded, Supplied(t, CurrentRecord(t)))
     IN  itx' = [itx EXCEPT ![t].pc = "writing", ![t].todo = @ \ {Current(t)},
                            ![t].loaded = NoRow,
                            ![t].drafts = [z \in DOMAIN @ \cup {s} |->
                                             IF z = s THEN written ELSE @[z]]]
  /\ UNCHANGED <<daily, opened, reports>>

SlotsNamed(t) == {SlotOf(itx[t].records[i]) : i \in Kept(itx[t].records)}

(* Counts are taken from the slots read at the start. *)
Report(t) ==
  LET b == itx[t].records IN
  [feed |-> itx[t].feed, batch |-> itx[t].batch, dry |-> itx[t].dry,
   begun |-> itx[t].begun, received |-> Len(b),
   created |-> SlotsNamed(t) \ itx[t].known, updated |-> SlotsNamed(t) \cap itx[t].known,
   rejected |-> Cardinality(Malformed(b) \cup Colliding(b)),
   unresolved |-> Cardinality(UnresolvedIn(b)),
   said |-> [s \in SlotsNamed(t) |->
               Supplied(t, b[CHOOSE i \in Kept(b) : SlotOf(b[i]) = s])]]

CommitBatch(t) ==
  /\ itx[t].pc = "writing" /\ itx[t].todo = {}
  /\ daily' = [s \in Slots |-> IF s \in DOMAIN itx[t].drafts
                               THEN Over(itx[t].drafts[s], daily[s]) ELSE daily[s]]
  /\ reports' = Append(reports, Report(t))
  /\ itx' = [itx EXCEPT ![t] = NoIngestTx]
  /\ UNCHANGED opened

(* A unique violation, a deadlock, a dropped connection. *)
AbortBatch(t) ==
  /\ itx[t].pc # "idle"
  /\ itx' = [itx EXCEPT ![t] = NoIngestTx]
  /\ UNCHANGED <<daily, opened, reports>>

IngestNext == \E t \in IngestTx :
  \/ Load(t) \/ Flush(t) \/ CommitBatch(t) \/ AbortBatch(t)
  \/ \E sent \in Batches : OpenBatch(t, sent)

IngestSpec == IngestInit /\ [][IngestNext]_ingestVars

-----------------------------------------------------------------------------
(***************************************************************************)
(* Properties                                                              *)
(***************************************************************************)
(* The shape of the state. *)
IngestTypeOK ==
  /\ \A s \in Slots : /\ daily[s].impressions \in Nat /\ daily[s].clicks \in Nat
                      /\ daily[s].batch \in 0..opened
                      /\ daily[s].feed \in Feeds \cup {Absent}
  /\ opened \in 0..MaxBatches /\ Len(reports) =< opened
  /\ \A i, j \in DOMAIN reports : /\ reports[i].batch \in 1..opened
                                 /\ reports[i].batch = reports[j].batch => i = j
  /\ \A t \in IngestTx : itx[t].pc # "idle" => DOMAIN itx[t].drafts \subseteq Slots

(* Every column, provenance included, holds what the last batch to assert  *)
(* it said: a feed that leaves a column out never erases what another one  *)
(* measured, and two batches share a row only where they overlapped        *)
(* (repositories/campaigns.py upsert_daily, infra/db/models.py:160-166).   *)
LastWordStands ==
  \A s \in Slots : \A c \in DOMAIN NoRow :
    LET spoke == {n \in DOMAIN reports : /\ ~reports[n].dry
                                         /\ s \in DOMAIN reports[n].said
                                         /\ c \in DOMAIN reports[n].said[s]}
        last == {n \in spoke : \A m \in spoke : m > n => reports[m].begun < n}
    IN  IF spoke = {} THEN daily[s][c] = NoRow[c]
        ELSE \E n \in last : daily[s][c] = reports[n].said[s][c]

(* Every record received is counted once, and a slot is reported created   *)
(* exactly when it holds a row, by one batch and those that overlapped it  *)
(* (services/ingest.py ingest; schemas/ingest.py reconciles).              *)
ReportsAddUp ==
  /\ \A n \in DOMAIN reports :
       reports[n].received = Cardinality(reports[n].created) + reports[n].rejected
                             + Cardinality(reports[n].updated) + reports[n].unresolved
  /\ \A s \in Slots :
       LET by == {n \in DOMAIN reports : ~reports[n].dry /\ s \in reports[n].created}
       IN  /\ Stored(s) <=> by # {}
           /\ \A m, n \in by : m > n => reports[m].begun < n
=============================================================================
