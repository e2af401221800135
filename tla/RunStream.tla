------------------------------ MODULE RunStream ------------------------------
(***************************************************************************)
(* How the progress of one run reaches the browsers that watch it: the     *)
(* task and the tool executor publish events on the event bus of their     *)
(* process, each event goes to the run_events table and to the queues of   *)
(* the subscribers in that process, and GET /runs/{id}/stream reads the    *)
(* table, then tails the bus.                                              *)
(*                                                                         *)
(* Every process has a bus of its own: counter, history and queues are not *)
(* shared.  A bus runs on one event loop, so what lies between two awaits  *)
(* is one step here; a generator is suspended at every yield.              *)
(***************************************************************************)
EXTENDS Integers, Sequences, FiniteSets

CONSTANTS
  Client,      \* browsers that watch the run, from its first event
  Process,     \* API processes
  Worker,      \* the run's task, as a publisher
  Caller,      \* executions of the run's actions, which publish tool.invoked
  Operator,    \* concurrent cancels and reaper sweeps
  NoEvent,
  End,         \* the marker close_run puts into a queue
  QueueSize,   \* DEFAULT_QUEUE_SIZE
  PageSize,    \* rows one pass reads from the log
  MaxEvents,   \* bound: events published
  MaxFaults    \* bound: process crashes, and writes of events that fail

Publisher == {Worker} \cup Caller

\* no: the publication this is, which no code sees; final: in TERMINAL_EVENTS.
Event == [no : Nat \ {0}, seq : Nat \ {0}, final : BOOLEAN]

ASSUME StreamAssumption ==
  /\ Worker \notin Caller
  /\ NoEvent \notin Event /\ End \notin Event
  /\ QueueSize \in Nat \ {0} /\ PageSize \in Nat \ {0}
  /\ MaxEvents \in Nat /\ MaxFaults \in Nat

\* "opening": about to read the log; "checking": the log is read, the status is
\* not; "paging": emitting what the log had; "tailing": subscribed; "done": the
\* stream was closed by the server; "off": the browser is not connected.
StreamPc == {"off", "opening", "checking", "paging", "tailing", "done"}
\* "closing": _finalise has committed; "lost": the task is gone without that.
TaskPc == {"running", "ended", "closing", "gone", "lost"}

VARIABLES
  closed,      \* the committed status of the run is terminal
  log,         \* committed rows of run_events
  count,       \* EventBus._counters, per process
  history,     \* EventBus._history
  queue,       \* the queue of each client's subscription
  home,        \* process of each publisher, fixed
  publishing,  \* event each publisher is publishing, and how far it is
  task,        \* control state of the run's task
  teardown,    \* cancels and sweeps in progress
  pc, at,      \* control state of each client's stream, and its process (that of
               \* the run while there is none)
  batch,       \* events of the page, or of the replay, yet to be emitted
  sawEnd,      \* the stream's last read of the status said terminal
  cursor,      \* highest sequence number the client has been sent
  timeline,    \* what the client has been sent, over all its connections
  published, faults,
  lossy,       \* history: clients that lost an unseen event to a full queue
  orderly      \* history: no number was used twice or recorded out of order, and
               \* no bus forgot the run in the middle of a publication

busVars    == <<count, history>>
streamVars == <<pc, at, batch, sawEnd, cursor, timeline>>
workVars   == <<publishing, task, published>>
\* What the steps of a stream leave alone.
serverVars == <<closed, log, busVars, home, workVars, teardown, faults, lossy, orderly>>
vars == <<closed, log, count, history, queue, home, publishing, task, teardown,
          pc, at, batch, sawEnd, cursor, timeline, published, faults,
          lossy, orderly>>

Quiet == [phase |-> "quiet", event |-> NoEvent]
Rest(p) == [pc |-> "idle", at |-> p]

TypeOK ==
  /\ closed \in BOOLEAN
  /\ log \subseteq Event
  /\ count \in [Process -> Nat]
  /\ history \in [Process -> SUBSET Event]
  /\ queue \in [Client -> Seq(Event \cup {End})]
  /\ \A c \in Client : Len(queue[c]) <= QueueSize
  /\ home \in [Publisher -> Process]
  /\ publishing \in [Publisher -> [phase : {"quiet", "recording", "fanning"},
                                   event : Event \cup {NoEvent}]]
  /\ task \in TaskPc
  /\ teardown \in [Operator -> [pc : {"idle", "read", "closed"}, at : Process]]
  /\ pc \in [Client -> StreamPc]
  /\ at \in [Client -> Process]
  /\ batch \in [Client -> SUBSET Event]
  /\ sawEnd \in [Client -> BOOLEAN]
  /\ cursor \in [Client -> Nat]
  /\ timeline \in [Client -> Seq(Event)]
  /\ published \in 0..MaxEvents
  /\ faults \in 0..MaxFaults
  /\ lossy \subseteq Client
  /\ orderly \in BOOLEAN

Init ==
  /\ closed = FALSE
  /\ log = {}
  /\ count = [p \in Process |-> 0]
  /\ history = [p \in Process |-> {}]
  /\ queue = [c \in Client |-> <<>>]
  /\ home \in [Publisher -> Process]
  /\ publishing = [x \in Publisher |-> Quiet]
  /\ task = "running"
  /\ teardown = [o \in Operator |-> Rest(home[Worker])]
  /\ pc = [c \in Client |-> "off"]
  /\ at = [c \in Client |-> home[Worker]]
  /\ batch = [c \in Client |-> {}]
  /\ sawEnd = [c \in Client |-> FALSE]
  /\ cursor = [c \in Client |-> 0]
  /\ timeline = [c \in Client |-> <<>>]
  /\ published = 0
  /\ faults = 0
  /\ lossy = {}
  /\ orderly = TRUE

Subscribers(p) == {c \in Client : pc[c] = "tailing" /\ at[c] = p}

-----------------------------------------------------------------------------
(* EventBus.publish: number and remember, record, fan out *)

\* next_seq and the history, in one step; the history limit is not reached.
Number(x, final) ==
  LET p == home[x]
      e == [no |-> published + 1, seq |-> count[p] + 1, final |-> final]
  IN /\ publishing[x] = Quiet
     /\ published < MaxEvents
     /\ published' = published + 1
     /\ count' = [count EXCEPT ![p] = e.seq]
     /\ history' = [history EXCEPT ![p] = @ \cup {e}]
     /\ publishing' = [publishing EXCEPT ![x] = [phase |-> "recording", event |-> e]]
     /\ orderly' = (orderly /\ e.seq = e.no)

\* The orchestrator publishes step events, and one terminal event at the end.
WorkerPublishes ==
  /\ task = "running"
  /\ \E final \in BOOLEAN :
       /\ Number(Worker, final)
       /\ task' = IF final THEN "ended" ELSE "running"
  /\ UNCHANGED <<closed, log, queue, home, teardown, streamVars, faults, lossy>>

\* An approved action of the run is executed, once the run has committed it.
CallerPublishes(x) ==
  /\ task \in {"closing", "gone"}
  /\ Number(x, FALSE)
  /\ UNCHANGED <<closed, log, queue, home, task, teardown, streamVars, faults, lossy>>

Recorded(e) == \E r \in log : r.seq = e.seq

Moves(x, to) == publishing' = [publishing EXCEPT ![x].phase = to]

\* DatabaseEventSink.persist commits the row.
Record(x) ==
  /\ publishing[x].phase = "recording"
  /\ ~Recorded(publishing[x].event)
  /\ log' = log \cup {publishing[x].event}
  /\ orderly' = (orderly /\ \A r \in log : r.seq < publishing[x].event.seq)
  /\ Moves(x, "fanning")
  /\ UNCHANGED <<closed, busVars, queue, home, task, published, teardown,
                 streamVars, faults, lossy>>

\* uq_run_event_seq refuses the row; publish swallows the error.
Collide(x) ==
  /\ publishing[x].phase = "recording"
  /\ Recorded(publishing[x].event)
  /\ Moves(x, "fanning")
  /\ UNCHANGED <<closed, log, busVars, queue, home, task, published, teardown,
                 streamVars, faults, lossy, orderly>>

\* The write fails, or this process never ran a task and has no sink.
RecordFails(x) ==
  /\ publishing[x].phase = "recording"
  /\ faults < MaxFaults
  /\ faults' = faults + 1
  /\ Moves(x, "fanning")
  /\ UNCHANGED <<closed, log, busVars, queue, home, task, published, teardown,
                 streamVars, lossy, orderly>>

Full(c) == Len(queue[c]) = QueueSize

\* Broken variant: a full queue is not relieved.
FanOutGrowing(x) ==
  LET e  == publishing[x].event
      to == Subscribers(home[x])
  IN /\ publishing[x].phase = "fanning"
     /\ queue' = [c \in Client |-> IF c \in to THEN Append(queue[c], e) ELSE queue[c]]
     /\ publishing' = [publishing EXCEPT ![x] = Quiet]
     /\ UNCHANGED <<closed, log, busVars, home, task, published, teardown,
                    streamVars, faults, lossy, orderly>>

\* put_nowait, dropping the oldest entry of a full queue.
FanOut(x) ==
  LET e    == publishing[x].event
      to   == Subscribers(home[x])
      Put(q) == Append(IF Len(q) = QueueSize THEN Tail(q) ELSE q, e)
  IN /\ publishing[x].phase = "fanning"
     /\ queue' = [c \in Client |-> IF c \in to THEN Put(queue[c]) ELSE queue[c]]
     /\ lossy' = lossy \cup {c \in to : /\ Full(c)
                                        /\ Head(queue[c]) # End
                                        /\ Head(queue[c]).seq > cursor[c]}
     /\ publishing' = [publishing EXCEPT ![x] = Quiet]
     /\ UNCHANGED <<closed, log, busVars, home, task, published, teardown,
                    streamVars, faults, orderly>>

-----------------------------------------------------------------------------
(* EventBus.close_run, and who calls it *)

\* Every subscriber gets the end marker, and the run is forgotten.
BusCloses(p) ==
  /\ \A c \in Subscribers(p) : ~Full(c)
  /\ queue' = [c \in Client |->
        IF c \in Subscribers(p) THEN Append(queue[c], End) ELSE queue[c]]
  /\ count' = [count EXCEPT ![p] = 0]
  /\ history' = [history EXCEPT ![p] = {}]
  /\ orderly' = (orderly /\ \A x \in Publisher : home[x] = p => publishing[x] = Quiet)

\* QueueFull escapes: those ahead of the full queue have the marker already.
BusCloseRaises(p) ==
  /\ \E c \in Subscribers(p) : Full(c)
  /\ \E told \in SUBSET {c \in Subscribers(p) : ~Full(c)} :
       queue' = [c \in Client |-> IF c \in told THEN Append(queue[c], End) ELSE queue[c]]
  /\ UNCHANGED <<busVars, orderly>>

\* _finalise commits the proposals and a terminal status, then closes the bus.
Finalise ==
  /\ task = "ended" /\ publishing[Worker] = Quiet
  /\ task' = "closing"
  /\ closed' = TRUE
  /\ UNCHANGED <<log, busVars, queue, home, publishing, published, teardown, streamVars,
                 faults, lossy, orderly>>

\* mark_running raises before anything is published, or _finalise does.
TaskDies ==
  /\ task = "ended" \/ (task = "running" /\ published = 0)
  /\ publishing[Worker] = Quiet
  /\ task' = "lost"
  /\ UNCHANGED <<closed, log, busVars, queue, home, publishing, published, teardown,
                 streamVars, faults, lossy, orderly>>

WorkerCloses ==
  /\ task = "closing"
  /\ BusCloses(home[Worker]) \/ BusCloseRaises(home[Worker])
  /\ task' = "gone"
  /\ UNCHANGED <<closed, log, home, publishing, published, teardown, streamVars,
                 faults, lossy>>

\* cancel and reap_stale_runs: an open run, its status flushed, the bus of the
\* process the call runs in closed, and only then the commit.
TeardownRead(o, p) ==
  /\ teardown[o].pc = "idle" /\ ~closed
  /\ teardown' = [teardown EXCEPT ![o] = [pc |-> "read", at |-> p]]
  /\ UNCHANGED <<closed, log, busVars, queue, home, workVars, streamVars, faults,
                 lossy, orderly>>

TeardownCloses(o) ==
  /\ teardown[o].pc = "read"
  /\ BusCloses(teardown[o].at)
  /\ teardown' = [teardown EXCEPT ![o].pc = "closed"]
  /\ UNCHANGED <<closed, log, home, workVars, streamVars, faults, lossy>>

\* The call fails and its transaction rolls back: the run goes on.
TeardownRaises(o) ==
  /\ teardown[o].pc = "read"
  /\ BusCloseRaises(teardown[o].at)
  /\ teardown' = [teardown EXCEPT ![o] = Rest(home[Worker])]
  /\ UNCHANGED <<closed, log, home, workVars, streamVars, faults, lossy>>

TeardownCommits(o) ==
  /\ teardown[o].pc = "closed"
  /\ closed' = TRUE
  /\ teardown' = [teardown EXCEPT ![o] = Rest(home[Worker])]
  /\ UNCHANGED <<log, busVars, queue, home, workVars, streamVars, faults, lossy, orderly>>

TeardownAborts(o) ==
  /\ teardown[o].pc # "idle"
  /\ teardown' = [teardown EXCEPT ![o] = Rest(home[Worker])]
  /\ UNCHANGED <<closed, log, busVars, queue, home, workVars, streamVars, faults,
                 lossy, orderly>>

-----------------------------------------------------------------------------
(* GET /runs/{id}/stream: event_source, and EventBus.stream inside it *)

Goes(c, from, to) == pc[c] = from /\ pc' = [pc EXCEPT ![c] = to]

\* A browser connects, or connects again with lastSeq, to any process.
Connect(c, p) ==
  /\ Goes(c, "off", "opening")
  /\ at' = [at EXCEPT ![c] = p]
  /\ UNCHANGED <<serverVars, queue, batch, sawEnd, cursor, timeline>>

\* The rows of the log past the cursor, in order, up to the limit.
Page(c) ==
  LET rest == {e \in log : e.seq > cursor[c]}
  IN {e \in rest : Cardinality({f \in rest : f.seq < e.seq}) < PageSize}

ReadLog(c) ==
  /\ Goes(c, "opening", "checking")
  /\ batch' = [batch EXCEPT ![c] = Page(c)]
  /\ UNCHANGED <<serverVars, queue, at, sawEnd, cursor, timeline>>

\* The second statement of the session sees what was committed since.
ReadStatus(c) ==
  /\ Goes(c, "checking", "paging")
  /\ sawEnd' = [sawEnd EXCEPT ![c] = closed]
  /\ UNCHANGED <<serverVars, queue, at, batch, cursor, timeline>>

\* One frame is sent; a terminal event ends the stream.
Sends(c, e) ==
  /\ timeline' = [timeline EXCEPT ![c] = Append(@, e)]
  /\ cursor' = [cursor EXCEPT ![c] = IF e.seq > @ THEN e.seq ELSE @]
  /\ pc' = IF e.final THEN [pc EXCEPT ![c] = "done"] ELSE pc

\* The page, or the replay, in order of sequence numbers.
EmitNext(c) ==
  /\ pc[c] \in {"paging", "tailing"}
  /\ \E e \in batch[c] :
       /\ \A f \in batch[c] : e.seq <= f.seq
       /\ Sends(c, e)
       /\ batch' = [batch EXCEPT ![c] = IF e.final THEN {} ELSE @ \ {e}]
       /\ queue' = IF e.final THEN [queue EXCEPT ![c] = <<>>] ELSE queue
  /\ UNCHANGED <<serverVars, at, sawEnd>>

\* The page is out and the run is over.
PageEnds(c) ==
  /\ batch[c] = {} /\ sawEnd[c]
  /\ Goes(c, "paging", "done")
  /\ UNCHANGED <<serverVars, queue, at, batch, sawEnd, cursor, timeline>>

\* Broken variant: nothing is replayed from the history.
SubscribeOnly(c) ==
  /\ batch[c] = {} /\ ~sawEnd[c]
  /\ Goes(c, "paging", "tailing")
  /\ UNCHANGED <<serverVars, queue, at, batch, sawEnd, cursor, timeline>>

\* Subscribe, and replay what the history holds past the cursor.
Subscribe(c) ==
  /\ batch[c] = {} /\ ~sawEnd[c]
  /\ Goes(c, "paging", "tailing")
  /\ batch' = [batch EXCEPT ![c] = {e \in history[at[c]] : e.seq > cursor[c]}]
  /\ UNCHANGED <<serverVars, queue, at, sawEnd, cursor, timeline>>

Takes(c) == pc[c] = "tailing" /\ batch[c] = {} /\ queue[c] # <<>>

\* Broken variant: what the replay has sent is sent again.
TakeAll(c) ==
  /\ Takes(c) /\ Head(queue[c]) # End
  /\ Sends(c, Head(queue[c]))
  /\ queue' = [queue EXCEPT ![c] = IF Head(@).final THEN <<>> ELSE Tail(@)]
  /\ UNCHANGED <<serverVars, at, batch, sawEnd>>

Take(c) ==
  /\ Takes(c) /\ Head(queue[c]) # End /\ Head(queue[c]).seq > cursor[c]
  /\ Sends(c, Head(queue[c]))
  /\ queue' = [queue EXCEPT ![c] = IF Head(@).final THEN <<>> ELSE Tail(@)]
  /\ UNCHANGED <<serverVars, at, batch, sawEnd>>

\* Seen already, by the number.
Skip(c) ==
  /\ Takes(c) /\ Head(queue[c]) # End /\ Head(queue[c]).seq <= cursor[c]
  /\ queue' = [queue EXCEPT ![c] = Tail(@)]
  /\ UNCHANGED <<serverVars, streamVars>>

\* Broken variant: the marker ends the stream, not just this tail.
TakeEndFinal(c) ==
  /\ Takes(c) /\ Head(queue[c]) = End
  /\ Goes(c, "tailing", "done")
  /\ queue' = [queue EXCEPT ![c] = <<>>]
  /\ UNCHANGED <<serverVars, at, batch, sawEnd, cursor, timeline>>

\* The marker ends the tail; the next pass reads log and status again.
TakeEnd(c) ==
  /\ Takes(c) /\ Head(queue[c]) = End
  /\ Goes(c, "tailing", "opening")
  /\ queue' = [queue EXCEPT ![c] = <<>>]
  /\ UNCHANGED <<serverVars, at, batch, sawEnd, cursor, timeline>>

\* Broken variant: no heartbeat limit.
BeatOn(c) ==
  /\ pc[c] = "tailing" /\ batch[c] = {} /\ queue[c] = <<>>
  /\ UNCHANGED vars

\* STREAM_HEARTBEATS_PER_RESYNC keep-alives went by: back to the log.
Resync(c) ==
  /\ batch[c] = {} /\ queue[c] = <<>>
  /\ Goes(c, "tailing", "opening")
  /\ UNCHANGED <<serverVars, queue, at, batch, sawEnd, cursor, timeline>>

\* Where the streams of some clients are cut, nothing of them stays.
Cut(cs) ==
  /\ pc' = [c \in Client |-> IF c \in cs THEN "off" ELSE pc[c]]
  /\ batch' = [c \in Client |-> IF c \in cs THEN {} ELSE batch[c]]
  /\ queue' = [c \in Client |-> IF c \in cs THEN <<>> ELSE queue[c]]
  /\ sawEnd' = [c \in Client |-> IF c \in cs THEN FALSE ELSE sawEnd[c]]
  /\ at' = [c \in Client |-> IF c \in cs THEN home[Worker] ELSE at[c]]
  /\ UNCHANGED <<cursor, timeline>>

Disconnect(c) ==
  /\ pc[c] \notin {"off", "done"}
  /\ Cut({c})
  /\ UNCHANGED <<serverVars>>

Crash(p) ==
  /\ faults < MaxFaults
  /\ faults' = faults + 1
  /\ count' = [count EXCEPT ![p] = 0]
  /\ history' = [history EXCEPT ![p] = {}]
  /\ Cut({c \in Client : at[c] = p /\ pc[c] \notin {"off", "done"}})
  /\ publishing' = [x \in Publisher |-> IF home[x] = p THEN Quiet ELSE publishing[x]]
  /\ task' = IF home[Worker] = p
               THEN IF task \in {"closing", "gone"} THEN "gone" ELSE "lost"
               ELSE task
  /\ teardown' = [o \in Operator |-> IF teardown[o].at = p THEN Rest(home[Worker]) ELSE teardown[o]]
  /\ UNCHANGED <<closed, log, home, published, lossy, orderly>>

-----------------------------------------------------------------------------
Publish(x) == Record(x) \/ Collide(x) \/ RecordFails(x) \/ FanOut(x)

StreamStep(c) ==
  \/ ReadLog(c) \/ ReadStatus(c) \/ EmitNext(c) \/ PageEnds(c) \/ Subscribe(c)
  \/ Take(c) \/ Skip(c) \/ TakeEnd(c) \/ Resync(c)

Teardown(o) ==
  \/ \E p \in Process : TeardownRead(o, p)
  \/ TeardownCloses(o) \/ TeardownRaises(o) \/ TeardownCommits(o) \/ TeardownAborts(o)

Next ==
  \/ WorkerPublishes \/ Finalise \/ TaskDies \/ WorkerCloses
  \/ \E x \in Caller : CallerPublishes(x)
  \/ \E x \in Publisher : Publish(x)
  \/ \E o \in Operator : Teardown(o)
  \/ \E c \in Client : StreamStep(c) \/ Disconnect(c)
  \/ \E c \in Client, p \in Process : Connect(c, p)
  \/ \E p \in Process : Crash(p)

Spec == Init /\ [][Next]_vars

\* A connected browser keeps reading, or its connection is cut; the server's
\* generator runs whenever it does, and its wait for an event times out.
Fairness == \A c \in Client : WF_vars(StreamStep(c))

FairSpec == Spec /\ Fairness

-----------------------------------------------------------------------------
(* Properties *)

\* Whatever a client is sent, over log pages, replays, live tails, resyncs and
\* reconnects to other processes, its sequence numbers strictly increase: no
\* event twice, none out of order (cursor of event_source, seen of stream).
TimelinesAscend ==
  \A c \in Client : \A i, j \in DOMAIN timeline[c] :
    i < j => timeline[c][i].seq < timeline[c][j].seq

\* A client never skips a recorded event that it has gone past, unless its own
\* queue dropped it, numbers were reused or recorded out of order, or a teardown
\* forgot the run in the middle of a publication (stream subscribes before it
\* replays; a new pass starts from the cursor).
NothingSkipped ==
  \A c \in Client : orderly /\ c \notin lossy =>
    \A e \in log : e.seq <= cursor[c] => \E i \in DOMAIN timeline[c] : timeline[c][i] = e

\* The server ends a stream only for a run that is over: a cancel that closed
\* the bus and then failed, or a bus that closes ahead of the commit, sends the
\* client back to the log (event_source 204-254).
StreamsOutliveTheirRun ==
  \A c \in Client : pc[c] = "done" =>
    closed \/ \E i \in DOMAIN timeline[c] : timeline[c][i].final

\* Once the run is over, every stream that stays connected is ended, in every
\* process, although the marker is lost with full queues, sent to one process
\* only, and missed by who subscribes a moment later (heartbeat_limit).
StreamsEnd == \A c \in Client : closed ~> pc[c] \in {"off", "done"}

\* What the architecture document says of tool calls: each one's event is in
\* run_events once it is published, when the database refuses no write.
EveryCallRecorded ==
  \A x \in Caller : publishing[x].phase = "fanning" => publishing[x].event \in log
=============================================================================
