--------------------------- MODULE RunStream_proofs ---------------------------
(***************************************************************************)
(* Safety of the run stream for any clients, processes, queue and page     *)
(* sizes.  What is yet to be sent of a page or a replay lies beyond the    *)
(* cursor and has one event per number, and a live event is sent only when *)
(* it lies beyond it as well; so the cursor only moves forward, and what a *)
(* client is sent ascends.                                                 *)
(*                                                                         *)
(* The second part follows every event that is anywhere on its way to a    *)
(* client, to show that a stream meets those of its run in order and skips *)
(* none that is recorded.                                                  *)
(***************************************************************************)
EXTENDS RunStream, FiniteSetTheorems, TLAPS

-----------------------------------------------------------------------------
(* The inductive invariant *)

OnePerNumber(es) == \A e, f \in es : e.seq = f.seq => e = f

\* The log has one row per number; a bus gives out each number once, until it
\* forgets the run.
Numbered ==
  /\ OnePerNumber(log)
  /\ \A p \in Process : /\ OnePerNumber(history[p])
                        /\ \A e \in history[p] : e.seq <= count[p]

\* What a stream has yet to emit of a page or a replay is beyond its cursor.
Unread ==
  \A c \in Client : /\ OnePerNumber(batch[c])
                    /\ \A e \in batch[c] : e.seq > cursor[c]

\* The cursor is not behind anything the client was sent.
Sent ==
  \A c \in Client : \A i \in DOMAIN timeline[c] : timeline[c][i].seq <= cursor[c]

\* A publisher on its way holds an event.
Publishing ==
  \A x \in Publisher : publishing[x].phase # "quiet" => publishing[x].event \in Event

\* A stream that read a terminal status is right about it for ever.
Endings == \A c \in Client : sawEnd[c] => closed

IInv ==
  /\ TypeOK /\ Publishing
  /\ Numbered /\ Unread /\ Sent /\ TimelinesAscend
  /\ Endings /\ StreamsOutliveTheirRun

-----------------------------------------------------------------------------
(* Sequences and records *)

Queues == Seq(Event \cup {End})

LEMMA PutType ==
  ASSUME NEW q \in Queues, NEW e \in Event \cup {End}, Len(q) < QueueSize
  PROVE  Append(q, e) \in Queues /\ Len(Append(q, e)) <= QueueSize
BY StreamAssumption DEF Queues

\* put_nowait after drop-oldest never overfills a queue.
LEMMA DropType ==
  ASSUME NEW q \in Queues, NEW e \in Event, Len(q) = QueueSize
  PROVE  Append(Tail(q), e) \in Queues /\ Len(Append(Tail(q), e)) <= QueueSize
<1>1. q # <<>>
  BY StreamAssumption DEF Queues
<1>2. Tail(q) \in Queues /\ Len(Tail(q)) = QueueSize - 1
  BY <1>1 DEF Queues
<1> QED
  BY <1>2, StreamAssumption DEF Queues

LEMMA TakeType ==
  ASSUME NEW q \in Queues, q # <<>>, Len(q) <= QueueSize
  PROVE  /\ Head(q) \in Event \cup {End}
         /\ Tail(q) \in Queues /\ Len(Tail(q)) <= QueueSize
BY StreamAssumption DEF Queues

LEMMA NoQueue == <<>> \in Queues /\ Len(<<>>) <= QueueSize
BY StreamAssumption DEF Queues

\* What is sent comes last.
LEMMA SendType ==
  ASSUME NEW t \in Seq(Event), NEW e \in Event
  PROVE  /\ Append(t, e) \in Seq(Event)
         /\ DOMAIN t = 1..Len(t) /\ Len(t) \in Nat
         /\ DOMAIN Append(t, e) = 1..Len(t) + 1
         /\ \A i \in 1..Len(t) : Append(t, e)[i] = t[i]
         /\ Append(t, e)[Len(t) + 1] = e
OBVIOUS

Phases == [phase : {"quiet", "recording", "fanning"}, event : Event \cup {NoEvent}]
Calls  == [pc : {"idle", "read", "closed"}, at : Process]

LEMMA PublishingType ==
  /\ Quiet \in Phases
  /\ \A e \in Event : [phase |-> "recording", event |-> e] \in Phases
  /\ \A r \in Phases : [r EXCEPT !.phase = "fanning"] \in Phases
BY DEF Phases, Quiet

LEMMA CallType ==
  /\ \A p \in Process : Rest(p) \in Calls /\ [pc |-> "read", at |-> p] \in Calls
  /\ \A r \in Calls : [r EXCEPT !.pc = "closed"] \in Calls /\ r.at \in Process
BY DEF Calls, Rest

-----------------------------------------------------------------------------
(* Publishing *)

\* next_seq: the new event carries a number its bus has not given out since it
\* last forgot the run.
LEMMA NumberStep ==
  ASSUME IInv, NEW x \in Publisher, NEW final \in BOOLEAN, Number(x, final)
  PROVE  /\ published' \in 0..MaxEvents
         /\ count' \in [Process -> Nat] /\ history' \in [Process -> SUBSET Event]
         /\ publishing' \in [Publisher -> Phases] /\ Publishing'
         /\ orderly' \in BOOLEAN
         /\ \A p \in Process : /\ OnePerNumber(history'[p])
                               /\ \A e \in history'[p] : e.seq <= count'[p]
<1> DEFINE p == home[x]
           e == [no |-> published + 1, seq |-> count[p] + 1, final |-> final]
<1>1. p \in Process /\ e \in Event /\ e.seq = count[p] + 1 /\ count[p] \in Nat
  BY DEF IInv, TypeOK, Event
<1>2. /\ published < MaxEvents /\ published' = published + 1
      /\ count' = [count EXCEPT ![p] = e.seq]
      /\ history' = [history EXCEPT ![p] = @ \cup {e}]
      /\ publishing' = [publishing EXCEPT ![x] = [phase |-> "recording", event |-> e]]
      /\ orderly' = (orderly /\ e.seq = e.no)
  BY DEF Number
<1> HIDE DEF e, p
<1>3. published' \in 0..MaxEvents
  BY <1>2, StreamAssumption DEF IInv, TypeOK
<1>4. count' \in [Process -> Nat] /\ history' \in [Process -> SUBSET Event]
  BY <1>1, <1>2 DEF IInv, TypeOK
<1>5. publishing' \in [Publisher -> Phases] /\ Publishing'
  BY <1>1, <1>2, PublishingType DEF IInv, TypeOK, Publishing, Phases
<1>6. orderly' \in BOOLEAN
  BY <1>2
<1>7. ASSUME NEW q \in Process
      PROVE  OnePerNumber(history'[q]) /\ \A f \in history'[q] : f.seq <= count'[q]
  <2>1. CASE q # p
    BY <2>1, <1>2 DEF IInv, TypeOK, Numbered
  <2>2. CASE q = p
    <3>1. history'[q] = history[p] \cup {e} /\ count'[q] = count[p] + 1
      BY <2>2, <1>1, <1>2 DEF IInv, TypeOK
    <3>2. \A f \in history[p] : f.seq \in Nat /\ f.seq <= count[p]
      BY <1>1 DEF IInv, TypeOK, Numbered, Event
    <3>3. OnePerNumber(history[p])
      BY <1>1 DEF IInv, Numbered
    <3> QED
      BY <3>1, <3>2, <3>3, <1>1 DEF OnePerNumber
  <2> QED
    BY <2>1, <2>2
<1> QED
  BY <1>3, <1>4, <1>5, <1>6, <1>7

-----------------------------------------------------------------------------
(* Frames *)

QueueTypes  == queue \in [Client -> Queues] /\ \A c \in Client : Len(queue[c]) <= QueueSize
StreamTypes ==
  /\ pc \in [Client -> StreamPc] /\ at \in [Client -> Process]
  /\ batch \in [Client -> SUBSET Event] /\ sawEnd \in [Client -> BOOLEAN]
  /\ cursor \in [Client -> Nat] /\ timeline \in [Client -> Seq(Event)]
ServerTypes ==
  /\ closed \in BOOLEAN /\ log \subseteq Event
  /\ count \in [Process -> Nat] /\ history \in [Process -> SUBSET Event]
  /\ home \in [Publisher -> Process] /\ publishing \in [Publisher -> Phases]
  /\ task \in TaskPc /\ teardown \in [Operator -> Calls]
  /\ published \in 0..MaxEvents /\ faults \in 0..MaxFaults
  /\ lossy \subseteq Client /\ orderly \in BOOLEAN

LEMMA TypesSplit ==
  /\ TypeOK <=> QueueTypes /\ StreamTypes /\ ServerTypes
  /\ TypeOK' <=> QueueTypes' /\ StreamTypes' /\ ServerTypes'
BY DEF TypeOK, QueueTypes, StreamTypes, ServerTypes, Queues, Phases, Calls

\* What happens in the server leaves what clients were sent, and a run that is
\* over stays over.
LEMMA ServerFrame ==
  ASSUME IInv, UNCHANGED streamVars, closed => closed'
  PROVE  /\ StreamTypes'
         /\ Unread' /\ Sent' /\ TimelinesAscend' /\ Endings' /\ StreamsOutliveTheirRun'
<1>1. pc' = pc /\ at' = at /\ batch' = batch /\ sawEnd' = sawEnd /\ cursor' = cursor
      /\ timeline' = timeline
  BY DEF streamVars
<1>2. StreamTypes'
  BY <1>1, TypesSplit DEF IInv, StreamTypes
<1>3. Unread' /\ Sent' /\ TimelinesAscend'
  BY <1>1 DEF IInv, Unread, Sent, TimelinesAscend
<1>4. Endings' /\ StreamsOutliveTheirRun'
  BY <1>1 DEF IInv, Endings, StreamsOutliveTheirRun
<1> QED
  BY <1>2, <1>3, <1>4

\* What a stream does leaves the server as it is.
LEMMA StreamFrame ==
  ASSUME IInv, UNCHANGED serverVars
  PROVE  ServerTypes' /\ Publishing' /\ Numbered'
<1>1. UNCHANGED <<closed, log, count, history, home, publishing, task, published, teardown,
                  faults, lossy, orderly>>
  BY DEF serverVars, busVars, workVars
<1>2. ServerTypes'
  BY <1>1, TypesSplit DEF IInv, ServerTypes
<1>3. Publishing' /\ Numbered'
  BY <1>1 DEF IInv, Publishing, Numbered
<1> QED
  BY <1>2, <1>3

-----------------------------------------------------------------------------
(* The server's actions *)

LEMMA WorkerPublishesStep == ASSUME IInv, WorkerPublishes PROVE IInv'
<1>1. PICK final \in BOOLEAN : /\ Number(Worker, final)
                               /\ task' = IF final THEN "ended" ELSE "running"
  BY DEF WorkerPublishes
<1>2. UNCHANGED <<closed, log, queue, home, teardown, streamVars, faults, lossy>>
  BY DEF WorkerPublishes
<1>3. Worker \in Publisher /\ task' \in TaskPc
  BY <1>1 DEF Publisher, TaskPc
<1>4. QueueTypes' /\ ServerTypes' /\ Publishing' /\ Numbered'
  BY <1>1, <1>2, <1>3, NumberStep, TypesSplit DEF IInv, QueueTypes, ServerTypes, Numbered
<1> QED
  BY <1>2, <1>4, ServerFrame, TypesSplit DEF IInv

LEMMA CallerPublishesStep ==
  ASSUME IInv, NEW x \in Caller, CallerPublishes(x) PROVE IInv'
<1>1. Number(x, FALSE) /\ x \in Publisher
  BY DEF CallerPublishes, Publisher
<1>2. UNCHANGED <<closed, log, queue, home, task, teardown, streamVars, faults, lossy>>
  BY DEF CallerPublishes
<1>3. QueueTypes' /\ ServerTypes' /\ Publishing' /\ Numbered'
  BY <1>1, <1>2, NumberStep, TypesSplit DEF IInv, QueueTypes, ServerTypes, Numbered
<1> QED
  BY <1>2, <1>3, ServerFrame, TypesSplit DEF IInv

\* The row is written, refused for its number, or fails to be written.
LEMMA RecordingStep ==
  ASSUME IInv, NEW x \in Publisher, Record(x) \/ Collide(x) \/ RecordFails(x)
  PROVE  IInv'
<1> DEFINE e == publishing[x].event
<1>1. /\ publishing[x].phase = "recording" /\ Moves(x, "fanning")
      /\ UNCHANGED <<closed, count, history, queue, home, task, published, teardown, lossy>>
      /\ UNCHANGED streamVars
      /\ \/ log' = log \cup {e} /\ ~Recorded(e)
         \/ log' = log
      /\ orderly' \in BOOLEAN /\ faults' \in 0..MaxFaults
  <2>1. orderly \in BOOLEAN /\ faults \in 0..MaxFaults /\ MaxFaults \in Nat
    BY StreamAssumption DEF IInv, TypeOK
  <2>2. CASE Record(x)
    <3>1. orderly' \in BOOLEAN
      BY <2>2 DEF Record
    <3> QED
      BY <2>1, <2>2, <3>1 DEF Record, busVars
  <2>3. CASE Collide(x)
    BY <2>1, <2>3 DEF Collide, busVars
  <2>4. CASE RecordFails(x)
    BY <2>1, <2>4 DEF RecordFails, busVars
  <2> QED
    BY <2>2, <2>3, <2>4
<1>2. e \in Event /\ publishing \in [Publisher -> Phases]
  BY <1>1, TypesSplit DEF IInv, Publishing, ServerTypes
<1>3. publishing' \in [Publisher -> Phases] /\ Publishing'
  BY <1>1, <1>2, PublishingType DEF IInv, Publishing, Moves, Phases
<1>4. log' \subseteq Event /\ OnePerNumber(log')
  BY <1>1, <1>2 DEF IInv, TypeOK, Numbered, OnePerNumber, Recorded
<1>5. QueueTypes' /\ ServerTypes' /\ Numbered'
  BY <1>1, <1>3, <1>4, TypesSplit DEF IInv, QueueTypes, ServerTypes, Numbered
<1> QED
  BY <1>1, <1>3, <1>5, ServerFrame, TypesSplit DEF IInv

LEMMA FanOutStep == ASSUME IInv, NEW x \in Publisher, FanOut(x) PROVE IInv'
<1> DEFINE e == publishing[x].event
           to == Subscribers(home[x])
           Put(q) == Append(IF Len(q) = QueueSize THEN Tail(q) ELSE q, e)
<1>1. /\ publishing[x].phase = "fanning"
      /\ queue' = [c \in Client |-> IF c \in to THEN Put(queue[c]) ELSE queue[c]]
      /\ publishing' = [publishing EXCEPT ![x] = Quiet]
      /\ UNCHANGED <<closed, log, count, history, home, task, published, teardown, faults,
                     orderly>>
      /\ UNCHANGED streamVars
  BY DEF FanOut, busVars
<1>2. e \in Event /\ \A c \in Client : queue[c] \in Queues /\ Len(queue[c]) <= QueueSize
  BY <1>1, TypesSplit DEF IInv, Publishing, QueueTypes
<1>3. ASSUME NEW c \in Client PROVE Put(queue[c]) \in Queues /\ Len(Put(queue[c])) <= QueueSize
  <2>1. Len(queue[c]) \in Nat
    BY <1>2 DEF Queues
  <2>2. CASE Len(queue[c]) = QueueSize
    BY <1>2, <2>2, DropType
  <2>3. CASE Len(queue[c]) # QueueSize
    <3>1. Len(queue[c]) < QueueSize
      BY <1>2, <2>1, <2>3, StreamAssumption
    <3> QED
      BY <1>2, <2>3, <3>1, PutType
  <2> QED
    BY <2>2, <2>3
<1>4. lossy' \subseteq Client
  BY DEF FanOut, Subscribers, IInv, TypeOK
<1> HIDE DEF to, Put, e
<1>5. QueueTypes'
  BY <1>1, <1>2, <1>3 DEF QueueTypes
<1>6. publishing' \in [Publisher -> Phases] /\ Publishing'
  BY <1>1, PublishingType, TypesSplit DEF IInv, Publishing, ServerTypes, Quiet
<1>7. ServerTypes' /\ Numbered'
  BY <1>1, <1>4, <1>6, TypesSplit DEF IInv, ServerTypes, Numbered
<1> QED
  BY <1>1, <1>5, <1>6, <1>7, ServerFrame, TypesSplit DEF IInv

\* close_run, whether it gets through or not, leaves queues, counter and history
\* well typed and the history numbered.
LEMMA BusStep ==
  ASSUME IInv, NEW p \in Process, BusCloses(p) \/ BusCloseRaises(p)
  PROVE  /\ QueueTypes' /\ orderly' \in BOOLEAN
         /\ count' \in [Process -> Nat] /\ history' \in [Process -> SUBSET Event]
         /\ \A q \in Process : /\ OnePerNumber(history'[q])
                               /\ \A e \in history'[q] : e.seq <= count'[q]
<1>1. \A c \in Client : queue[c] \in Queues /\ Len(queue[c]) <= QueueSize /\ Len(queue[c]) \in Nat
  BY TypesSplit DEF IInv, QueueTypes, Queues
<1>2. \A c \in Client : ~Full(c) =>
        /\ Append(queue[c], End) \in Queues /\ Len(Append(queue[c], End)) <= QueueSize
  <2> SUFFICES ASSUME NEW c \in Client, ~Full(c)
               PROVE  /\ Append(queue[c], End) \in Queues
                      /\ Len(Append(queue[c], End)) <= QueueSize
    OBVIOUS
  <2>1. Len(queue[c]) < QueueSize
    BY <1>1, StreamAssumption DEF Full
  <2> QED
    BY <1>1, <2>1, PutType
<1>3. CASE BusCloses(p)
  <2>1. QueueTypes'
    BY <1>1, <1>2, <1>3 DEF BusCloses, QueueTypes
  <2>2. /\ count' = [count EXCEPT ![p] = 0] /\ history' = [history EXCEPT ![p] = {}]
        /\ orderly' \in BOOLEAN
    BY <1>3 DEF BusCloses
  <2>3. count' \in [Process -> Nat] /\ history' \in [Process -> SUBSET Event]
    BY <2>2 DEF IInv, TypeOK
  <2>4. \A q \in Process : q # p => count'[q] = count[q] /\ history'[q] = history[q]
    BY <2>2 DEF IInv, TypeOK
  <2>5. history'[p] = {}
    BY <2>2 DEF IInv, TypeOK
  <2> QED
    BY <2>1, <2>2, <2>3, <2>4, <2>5 DEF IInv, Numbered, OnePerNumber
<1>4. CASE BusCloseRaises(p)
  <2>1. PICK told \in SUBSET {c \in Subscribers(p) : ~Full(c)} :
          queue' = [c \in Client |-> IF c \in told THEN Append(queue[c], End) ELSE queue[c]]
    BY <1>4 DEF BusCloseRaises
  <2>2. QueueTypes'
    BY <1>1, <1>2, <2>1 DEF QueueTypes
  <2>3. count' = count /\ history' = history /\ orderly' = orderly
    BY <1>4 DEF BusCloseRaises, busVars
  <2> QED
    BY <2>2, <2>3 DEF IInv, TypeOK, Numbered
<1> QED
  BY <1>3, <1>4

\* _finalise, and the close of the bus after it.
LEMMA FinaliseStep ==
  ASSUME IInv, Finalise \/ TaskDies \/ WorkerCloses PROVE IInv'
<1>1. CASE Finalise \/ TaskDies
  <2>1. /\ UNCHANGED <<log, count, history, queue, home, publishing, published, teardown,
                       faults, lossy, orderly>>
        /\ UNCHANGED streamVars
        /\ closed' \in BOOLEAN /\ (closed => closed') /\ task' \in TaskPc
    BY <1>1 DEF Finalise, TaskDies, busVars, TaskPc, IInv, TypeOK
  <2>2. QueueTypes' /\ ServerTypes' /\ Publishing' /\ Numbered'
    BY <2>1, TypesSplit DEF IInv, QueueTypes, ServerTypes, Publishing, Numbered
  <2> QED
    BY <2>1, <2>2, ServerFrame, TypesSplit DEF IInv
<1>2. CASE WorkerCloses
  <2>1. /\ UNCHANGED <<closed, log, home, publishing, published, teardown, faults, lossy>>
        /\ UNCHANGED streamVars
        /\ task' \in TaskPc
        /\ BusCloses(home[Worker]) \/ BusCloseRaises(home[Worker])
    BY <1>2 DEF WorkerCloses, TaskPc
  <2>2. home[Worker] \in Process
    BY DEF IInv, TypeOK, Publisher
  <2>3. /\ QueueTypes' /\ orderly' \in BOOLEAN
        /\ count' \in [Process -> Nat] /\ history' \in [Process -> SUBSET Event]
        /\ \A q \in Process : /\ OnePerNumber(history'[q])
                              /\ \A e \in history'[q] : e.seq <= count'[q]
    BY <2>1, <2>2, BusStep
  <2>4. ServerTypes' /\ Publishing'
    BY <2>1, <2>3, TypesSplit DEF IInv, ServerTypes, Publishing
  <2>5. Numbered'
    BY <2>1, <2>3 DEF IInv, Numbered
  <2> QED
    BY <2>1, <2>3, <2>4, <2>5, ServerFrame, TypesSplit DEF IInv
<1> QED
  BY <1>1, <1>2

LEMMA TeardownStep == ASSUME IInv, NEW o \in Operator, Teardown(o) PROVE IInv'
<1>1. teardown \in [Operator -> Calls] /\ home[Worker] \in Process
  BY TypesSplit DEF IInv, ServerTypes, Publisher
<1>2. teardown' \in [Operator -> Calls]
  <2>1. ASSUME NEW p \in Process, TeardownRead(o, p) PROVE teardown' \in [Operator -> Calls]
    BY <1>1, <2>1, CallType DEF TeardownRead
  <2>2. CASE TeardownCloses(o)
    BY <1>1, <2>2, CallType DEF TeardownCloses
  <2>3. CASE TeardownRaises(o) \/ TeardownCommits(o) \/ TeardownAborts(o)
    BY <1>1, <2>3, CallType DEF TeardownRaises, TeardownCommits, TeardownAborts
  <2> QED
    BY <2>1, <2>2, <2>3 DEF Teardown
<1>3. CASE TeardownCloses(o) \/ TeardownRaises(o)
  <2>1. /\ UNCHANGED <<closed, log, home, publishing, task, published, faults, lossy>>
        /\ UNCHANGED streamVars
        /\ BusCloses(teardown[o].at) \/ BusCloseRaises(teardown[o].at)
    BY <1>3 DEF TeardownCloses, TeardownRaises, workVars
  <2>2. teardown[o].at \in Process
    BY <1>1, CallType
  <2>3. /\ QueueTypes' /\ orderly' \in BOOLEAN
        /\ count' \in [Process -> Nat] /\ history' \in [Process -> SUBSET Event]
        /\ \A q \in Process : /\ OnePerNumber(history'[q])
                              /\ \A e \in history'[q] : e.seq <= count'[q]
    BY <2>1, <2>2, BusStep
  <2>4. ServerTypes' /\ Publishing'
    BY <1>2, <2>1, <2>3, TypesSplit DEF IInv, ServerTypes, Publishing
  <2>5. Numbered'
    BY <2>1, <2>3 DEF IInv, Numbered
  <2> QED
    BY <2>1, <2>3, <2>4, <2>5, ServerFrame, TypesSplit DEF IInv
<1>4. CASE \/ \E p \in Process : TeardownRead(o, p)
           \/ TeardownCommits(o) \/ TeardownAborts(o)
  <2>1. /\ UNCHANGED <<log, count, history, queue, home, publishing, task, published,
                       faults, lossy, orderly>>
        /\ UNCHANGED streamVars
        /\ closed' \in BOOLEAN /\ (closed => closed')
    BY <1>4 DEF TeardownRead, TeardownCommits, TeardownAborts, busVars, workVars, IInv, TypeOK
  <2>2. QueueTypes' /\ ServerTypes' /\ Publishing' /\ Numbered'
    BY <1>2, <2>1, TypesSplit DEF IInv, QueueTypes, ServerTypes, Publishing, Numbered
  <2> QED
    BY <2>1, <2>2, ServerFrame, TypesSplit DEF IInv
<1> QED
  BY <1>3, <1>4 DEF Teardown
-----------------------------------------------------------------------------
(* The streams' actions *)

\* A step that sends nothing moves no cursor; what it leaves of a page or a
\* replay, or puts there, is unread.
LEMMA QuietStep ==
  ASSUME IInv, UNCHANGED <<cursor, timeline>>
  PROVE  Sent' /\ TimelinesAscend'
BY DEF IInv, Sent, TimelinesAscend

\* An event beyond the cursor may be sent: the timeline still ascends, and the
\* cursor moves to the event.
LEMMA SendStep ==
  ASSUME IInv, NEW c \in Client, NEW e \in Event, e.seq > cursor[c], Sends(c, e)
  PROVE  /\ cursor' \in [Client -> Nat] /\ timeline' \in [Client -> Seq(Event)]
         /\ cursor'[c] = e.seq /\ \A d \in Client : d # c => cursor'[d] = cursor[d]
         /\ Sent' /\ TimelinesAscend'
         /\ pc' \in [Client -> StreamPc]
         /\ \A d \in Client : pc'[d] = "done" =>
              pc[d] = "done" \/ \E i \in DOMAIN timeline'[d] : timeline'[d][i].final
         /\ \A d \in Client : \A i \in DOMAIN timeline[d] :
              i \in DOMAIN timeline'[d] /\ timeline'[d][i] = timeline[d][i]
<1> DEFINE t == timeline[c]
           n == Len(t)
<1>1. /\ t \in Seq(Event) /\ cursor[c] \in Nat /\ e.seq \in Nat
      /\ cursor \in [Client -> Nat] /\ timeline \in [Client -> Seq(Event)]
      /\ pc \in [Client -> StreamPc]
  BY DEF IInv, TypeOK, Event
<1>2. /\ timeline' = [timeline EXCEPT ![c] = Append(t, e)]
      /\ cursor' = [cursor EXCEPT ![c] = e.seq]
      /\ pc' = IF e.final THEN [pc EXCEPT ![c] = "done"] ELSE pc
  BY <1>1 DEF Sends
<1>3. /\ Append(t, e) \in Seq(Event)
      /\ DOMAIN t = 1..n /\ n \in Nat
      /\ DOMAIN Append(t, e) = 1..n + 1
      /\ \A i \in 1..n : Append(t, e)[i] = t[i]
      /\ Append(t, e)[n + 1] = e
  BY <1>1, SendType
<1>4. cursor' \in [Client -> Nat] /\ timeline' \in [Client -> Seq(Event)]
  BY <1>1, <1>2, <1>3
<1>5. /\ cursor'[c] = e.seq /\ timeline'[c] = Append(t, e)
      /\ \A d \in Client : d # c => cursor'[d] = cursor[d] /\ timeline'[d] = timeline[d]
  BY <1>1, <1>2
<1>6. \A i \in 1..n : t[i].seq \in Nat /\ t[i].seq < e.seq
  <2>1. \A i \in 1..n : t[i] \in Event /\ t[i].seq <= cursor[c]
    BY <1>1, <1>3 DEF IInv, Sent
  <2> QED
    BY <2>1, <1>1 DEF Event
<1>7. \A i, j \in 1..n : i < j => t[i].seq < t[j].seq
  BY <1>3 DEF IInv, TimelinesAscend
<1> HIDE DEF t, n
<1>8. Sent'
  <2>1. \A i \in 1..n + 1 : Append(t, e)[i].seq <= e.seq
    <3>1. \A i \in 1..n + 1 : i \in 1..n \/ i = n + 1
      BY <1>3
    <3> QED
      BY <3>1, <1>1, <1>3, <1>6
  <2>2. \A i \in DOMAIN timeline'[c] : timeline'[c][i].seq <= cursor'[c]
    BY <2>1, <1>3, <1>5
  <2> QED
    BY <2>2, <1>5 DEF IInv, Sent
<1>9. TimelinesAscend'
  <2>1. \A i, j \in 1..n + 1 : i < j => Append(t, e)[i].seq < Append(t, e)[j].seq
    <3>1. \A i, j \in 1..n + 1 : i < j => i \in 1..n /\ (j \in 1..n \/ j = n + 1)
      BY <1>3
    <3> QED
      BY <3>1, <1>3, <1>6, <1>7
  <2>2. \A i, j \in DOMAIN timeline'[c] : i < j => timeline'[c][i].seq < timeline'[c][j].seq
    BY <2>1, <1>3, <1>5
  <2> QED
    BY <2>2, <1>5 DEF IInv, TimelinesAscend
<1>10. pc' \in [Client -> StreamPc]
  BY <1>1, <1>2 DEF StreamPc
<1>11. \A d \in Client : \A i \in DOMAIN timeline[d] :
         i \in DOMAIN timeline'[d] /\ timeline'[d][i] = timeline[d][i]
  <2>1. \A i \in 1..n : i \in 1..n + 1
    BY <1>3
  <2> QED
    BY <2>1, <1>3, <1>5 DEF t
<1>12. \A d \in Client : pc'[d] = "done" =>
         pc[d] = "done" \/ \E i \in DOMAIN timeline'[d] : timeline'[d][i].final
  <2>1. e.final => timeline'[c][n + 1].final /\ n + 1 \in DOMAIN timeline'[c]
    BY <1>3, <1>5
  <2> QED
    BY <2>1, <1>1, <1>2
<1> QED
  BY <1>4, <1>5, <1>8, <1>9, <1>10, <1>11, <1>12

\* A stream that was ended stays explained by what its client was sent.
LEMMA EndedStep ==
  ASSUME IInv, closed => closed',
         \A c \in Client : pc'[c] = "done" =>
           \/ pc[c] = "done" \/ closed
           \/ \E i \in DOMAIN timeline'[c] : timeline'[c][i].final,
         \A c \in Client : \A i \in DOMAIN timeline[c] :
           i \in DOMAIN timeline'[c] /\ timeline'[c][i] = timeline[c][i]
  PROVE  StreamsOutliveTheirRun'
BY DEF IInv, StreamsOutliveTheirRun

\* Unread survives when the page of one client changes to something unread and
\* no other cursor moves.
LEMMA UnreadStep ==
  ASSUME IInv, NEW c \in Client, NEW b \in SUBSET Event,
         batch' = [batch EXCEPT ![c] = b],
         OnePerNumber(b), \A e \in b : e.seq > cursor'[c],
         \A d \in Client : d # c => cursor'[d] = cursor[d]
  PROVE  batch' \in [Client -> SUBSET Event] /\ Unread'
<1>1. batch \in [Client -> SUBSET Event]
  BY DEF IInv, TypeOK
<1>2. batch' \in [Client -> SUBSET Event]
  BY <1>1
<1>3. batch'[c] = b /\ \A d \in Client : d # c => batch'[d] = batch[d]
  BY <1>1
<1>4. Unread'
  BY <1>3 DEF IInv, Unread
<1> QED
  BY <1>2, <1>4

\* Queues of one client replaced by a shorter one.
LEMMA QueueStep ==
  ASSUME IInv, NEW c \in Client, NEW q \in Queues, Len(q) <= QueueSize,
         queue' = [queue EXCEPT ![c] = q] \/ queue' = queue
  PROVE  QueueTypes'
BY TypesSplit DEF IInv, QueueTypes

\* What the second read of a pass says of the run, and where the stream goes,
\* when nothing is sent.
LEMMA MoveStep ==
  ASSUME IInv, NEW c \in Client, NEW from \in StreamPc, NEW to \in StreamPc,
         Goes(c, from, to), to = "done" => closed,
         UNCHANGED <<serverVars, cursor, timeline>>,
         at' \in [Client -> Process], batch' \in [Client -> SUBSET Event], Unread',
         sawEnd' = sawEnd \/ sawEnd' = [sawEnd EXCEPT ![c] = closed],
         QueueTypes'
  PROVE  IInv'
<1>1. closed' = closed
  BY DEF serverVars
<1>2. /\ pc \in [Client -> StreamPc] /\ sawEnd \in [Client -> BOOLEAN] /\ closed \in BOOLEAN
      /\ cursor \in [Client -> Nat] /\ timeline \in [Client -> Seq(Event)]
  BY DEF IInv, TypeOK
<1>3. pc' \in [Client -> StreamPc]
  BY <1>2 DEF Goes
<1>4. sawEnd' \in [Client -> BOOLEAN] /\ Endings'
  BY <1>1, <1>2 DEF IInv, Endings
<1>5. Sent' /\ TimelinesAscend'
  BY QuietStep
<1>6. StreamsOutliveTheirRun'
  <2>1. \A d \in Client : pc'[d] = "done" => pc[d] = "done" \/ closed
    BY <1>2 DEF Goes
  <2> QED
    BY <1>1, <2>1, EndedStep
<1>7. StreamTypes'
  BY <1>2, <1>3, <1>4 DEF StreamTypes
<1>8. ServerTypes' /\ Publishing' /\ Numbered'
  BY StreamFrame
<1> QED
  BY <1>4, <1>5, <1>6, <1>7, <1>8, TypesSplit DEF IInv

\* What the cursor has passed is not read again: the page is cut from the log,
\* the replay from the history.
LEMMA PassStep ==
  ASSUME IInv, NEW c \in Client,
         ReadLog(c) \/ ReadStatus(c) \/ PageEnds(c) \/ Subscribe(c)
  PROVE  IInv'
<1>1. /\ at \in [Client -> Process] /\ batch \in [Client -> SUBSET Event] /\ QueueTypes
      /\ cursor \in [Client -> Nat] /\ history \in [Process -> SUBSET Event] /\ log \subseteq Event
  BY TypesSplit DEF IInv, TypeOK
<1>2. {"opening", "checking", "paging", "tailing", "done"} \subseteq StreamPc
  BY DEF StreamPc
<1>3. UNCHANGED <<serverVars, cursor, timeline, queue, at>>
  BY DEF ReadLog, ReadStatus, PageEnds, Subscribe
<1>4. at' \in [Client -> Process] /\ QueueTypes'
  BY <1>1, <1>3 DEF QueueTypes
<1>5. CASE ReadLog(c)
  <2>1. Page(c) \in SUBSET Event /\ OnePerNumber(Page(c)) /\ \A e \in Page(c) : e.seq > cursor[c]
    BY <1>1 DEF Page, IInv, Numbered, OnePerNumber
  <2>2. batch' = [batch EXCEPT ![c] = Page(c)] /\ Goes(c, "opening", "checking") /\ sawEnd' = sawEnd
    BY <1>5 DEF ReadLog
  <2>3. batch' \in [Client -> SUBSET Event] /\ Unread'
    BY <1>3, <2>1, <2>2, UnreadStep
  <2> QED
    BY <1>2, <1>3, <1>4, <2>2, <2>3, MoveStep
<1>6. CASE Subscribe(c)
  <2> DEFINE b == {e \in history[at[c]] : e.seq > cursor[c]}
  <2>1. b \in SUBSET Event /\ OnePerNumber(b) /\ \A e \in b : e.seq > cursor[c]
    BY <1>1 DEF IInv, Numbered, OnePerNumber
  <2>2. batch' = [batch EXCEPT ![c] = b] /\ Goes(c, "paging", "tailing") /\ sawEnd' = sawEnd
    BY <1>6 DEF Subscribe
  <2> HIDE DEF b
  <2>3. batch' \in [Client -> SUBSET Event] /\ Unread'
    BY <1>3, <2>1, <2>2, UnreadStep
  <2> QED
    BY <1>2, <1>3, <1>4, <2>2, <2>3, MoveStep
<1>7. CASE ReadStatus(c) \/ PageEnds(c)
  <2>1. batch' = batch
    BY <1>7 DEF ReadStatus, PageEnds
  <2>2. batch' \in [Client -> SUBSET Event] /\ Unread'
    BY <1>1, <1>3, <2>1 DEF IInv, Unread
  <2>3. CASE ReadStatus(c)
    BY <1>2, <1>3, <1>4, <2>2, <2>3, MoveStep DEF ReadStatus
  <2>4. CASE PageEnds(c)
    <3>1. closed
      BY <2>4 DEF PageEnds, IInv, Endings
    <3> QED
      BY <1>2, <1>3, <1>4, <2>2, <2>4, <3>1, MoveStep DEF PageEnds
  <2> QED
    BY <1>7, <2>3, <2>4
<1> QED
  BY <1>5, <1>6, <1>7

\* An event of the page, of the replay or of the queue is sent.
LEMMA SendingStep ==
  ASSUME IInv, NEW c \in Client, NEW e \in Event, e.seq > cursor[c], Sends(c, e),
         UNCHANGED <<serverVars, at, sawEnd>>,
         batch' \in [Client -> SUBSET Event], Unread', QueueTypes'
  PROVE  IInv'
<1>1. closed' = closed
  BY DEF serverVars
<1>2. Sent' /\ TimelinesAscend'
  BY SendStep
<1>3. StreamsOutliveTheirRun'
  BY <1>1, SendStep, EndedStep
<1>4. Endings'
  BY <1>1 DEF IInv, Endings
<1>5. StreamTypes'
  BY SendStep, TypesSplit DEF IInv, StreamTypes
<1> QED
  BY <1>2, <1>3, <1>4, <1>5, StreamFrame, TypesSplit DEF IInv

\* Page and replay go out in order: the lowest number first, so that what is
\* left is beyond it.
LEMMA EmitNextStep == ASSUME IInv, NEW c \in Client, EmitNext(c) PROVE IInv'
<1>1. PICK e \in batch[c] :
        /\ \A f \in batch[c] : e.seq <= f.seq
        /\ Sends(c, e)
        /\ batch' = [batch EXCEPT ![c] = IF e.final THEN {} ELSE @ \ {e}]
        /\ queue' = IF e.final THEN [queue EXCEPT ![c] = <<>>] ELSE queue
  BY DEF EmitNext
<1>2. UNCHANGED <<serverVars, at, sawEnd>>
  BY DEF EmitNext
<1>3. /\ batch[c] \in SUBSET Event /\ OnePerNumber(batch[c]) /\ e.seq > cursor[c]
      /\ \A f \in batch[c] : f.seq \in Nat
  BY DEF IInv, TypeOK, Unread, Event
<1>4. cursor'[c] = e.seq /\ \A d \in Client : d # c => cursor'[d] = cursor[d]
  BY <1>1, <1>3, SendStep
<1> DEFINE b == IF e.final THEN {} ELSE batch[c] \ {e}
<1>5. \A f \in b : f.seq > cursor'[c]
  BY <1>1, <1>3, <1>4 DEF OnePerNumber
<1>6. b \in SUBSET Event /\ OnePerNumber(b)
  BY <1>3 DEF OnePerNumber
<1>7. batch' = [batch EXCEPT ![c] = b]
  BY <1>1
<1> HIDE DEF b
<1>8. batch' \in [Client -> SUBSET Event] /\ Unread'
  BY <1>4, <1>5, <1>6, <1>7, UnreadStep
<1>9. QueueTypes'
  <2>1. queue' = [queue EXCEPT ![c] = <<>>] \/ queue' = queue
    BY <1>1
  <2> QED
    BY <2>1, NoQueue, QueueStep
<1> QED
  BY <1>1, <1>2, <1>3, <1>8, <1>9, SendingStep

\* Live events: sent when they are beyond the cursor, skipped otherwise.
LEMMA TakeStep == ASSUME IInv, NEW c \in Client, Take(c) PROVE IInv'
<1> DEFINE e == Head(queue[c])
           q == IF e.final THEN <<>> ELSE Tail(queue[c])
<1>1. /\ batch[c] = {} /\ queue[c] # <<>> /\ e # End /\ e.seq > cursor[c] /\ Sends(c, e)
      /\ queue' = [queue EXCEPT ![c] = IF Head(@).final THEN <<>> ELSE Tail(@)]
      /\ UNCHANGED <<serverVars, at, batch, sawEnd>>
  BY DEF Take, Takes
<1>2. queue \in [Client -> Queues] /\ Len(queue[c]) <= QueueSize /\ batch \in [Client -> SUBSET Event]
  BY TypesSplit DEF IInv, QueueTypes, TypeOK
<1>3. e \in Event /\ Tail(queue[c]) \in Queues /\ Len(Tail(queue[c])) <= QueueSize
  BY <1>1, <1>2, TakeType
<1>4. q \in Queues /\ Len(q) <= QueueSize
  BY <1>3, NoQueue
<1>5. queue' = [queue EXCEPT ![c] = q]
  BY <1>1, <1>2
<1> HIDE DEF e, q
<1>6. QueueTypes'
  BY <1>4, <1>5, QueueStep
<1>7. \A d \in Client : d # c => cursor'[d] = cursor[d]
  BY <1>1, <1>3, SendStep
<1>8. batch' \in [Client -> SUBSET Event] /\ Unread'
  <2>1. batch' = batch
    BY <1>1
  <2> QED
    BY <1>1, <1>2, <1>7, <2>1 DEF IInv, Unread
<1> QED
  BY <1>1, <1>3, <1>6, <1>8, SendingStep

\* The marker, or silence, sends a stream back to the log; a connection opens.
LEMMA ReturnStep ==
  ASSUME IInv, NEW c \in Client,
         TakeEnd(c) \/ Resync(c) \/ \E p \in Process : Connect(c, p)
  PROVE  IInv'
<1>1. at \in [Client -> Process] /\ batch \in [Client -> SUBSET Event]
  BY DEF IInv, TypeOK
<1>2. /\ UNCHANGED <<serverVars, cursor, timeline>> /\ batch' = batch /\ sawEnd' = sawEnd
      /\ queue' = [queue EXCEPT ![c] = <<>>] \/ queue' = queue
      /\ Goes(c, "tailing", "opening") \/ Goes(c, "off", "opening")
      /\ at' \in [Client -> Process]
  BY <1>1 DEF TakeEnd, Resync, Connect
<1>3. batch' \in [Client -> SUBSET Event] /\ Unread'
  BY <1>1, <1>2 DEF IInv, Unread
<1>4. QueueTypes'
  BY <1>2, NoQueue, QueueStep
<1>5. {"off", "opening", "tailing"} \subseteq StreamPc
  BY DEF StreamPc
<1> QED
  BY <1>2, <1>3, <1>4, <1>5, MoveStep

LEMMA SkipStep == ASSUME IInv, NEW c \in Client, Skip(c) PROVE IInv'
<1>1. /\ queue[c] # <<>> /\ queue' = [queue EXCEPT ![c] = Tail(@)]
      /\ UNCHANGED serverVars /\ UNCHANGED streamVars
  BY DEF Skip, Takes
<1>2. queue \in [Client -> Queues] /\ Len(queue[c]) <= QueueSize
  BY TypesSplit DEF IInv, QueueTypes
<1>3. queue' = [queue EXCEPT ![c] = Tail(queue[c])]
  BY <1>1, <1>2
<1>4. QueueTypes'
  BY <1>1, <1>2, <1>3, TakeType, QueueStep
<1>5. closed' = closed
  BY <1>1 DEF serverVars
<1> QED
  BY <1>1, <1>4, <1>5, ServerFrame, StreamFrame, TypesSplit DEF IInv

\* Streams that are cut leave nothing behind.
LEMMA CutStep ==
  ASSUME IInv, NEW cs \in SUBSET Client, Cut(cs), closed' = closed
  PROVE  /\ QueueTypes' /\ StreamTypes'
         /\ Unread' /\ Sent' /\ TimelinesAscend' /\ Endings' /\ StreamsOutliveTheirRun'
<1>1. QueueTypes /\ StreamTypes /\ home[Worker] \in Process
  BY TypesSplit DEF IInv, ServerTypes, Publisher
<1>2. UNCHANGED <<cursor, timeline>>
  BY DEF Cut
<1>3. QueueTypes'
  BY <1>1, NoQueue DEF Cut, QueueTypes
<1>4. /\ pc' \in [Client -> StreamPc] /\ at' \in [Client -> Process]
      /\ batch' \in [Client -> SUBSET Event] /\ sawEnd' \in [Client -> BOOLEAN]
  BY <1>1 DEF Cut, StreamTypes, StreamPc
<1>5. StreamTypes'
  BY <1>1, <1>2, <1>4 DEF StreamTypes
<1>6. Unread'
  BY <1>2 DEF Cut, IInv, Unread, OnePerNumber
<1>7. Sent' /\ TimelinesAscend'
  BY <1>2, QuietStep
<1>8. Endings' /\ StreamsOutliveTheirRun'
  BY <1>2 DEF Cut, IInv, Endings, StreamsOutliveTheirRun
<1> QED
  BY <1>3, <1>5, <1>6, <1>7, <1>8

LEMMA DisconnectStep == ASSUME IInv, NEW c \in Client, Disconnect(c) PROVE IInv'
<1>1. Cut({c}) /\ UNCHANGED serverVars
  BY DEF Disconnect
<1>2. closed' = closed /\ {c} \in SUBSET Client
  BY <1>1 DEF serverVars
<1> QED
  BY <1>1, <1>2, CutStep, StreamFrame, TypesSplit DEF IInv

\* A crash empties one bus and ends what its process was doing.
LEMMA CrashStep == ASSUME IInv, NEW p \in Process, Crash(p) PROVE IInv'
<1> DEFINE cs == {c \in Client : at[c] = p /\ pc[c] \notin {"off", "done"}}
<1>1. /\ faults < MaxFaults /\ faults' = faults + 1
      /\ count' = [count EXCEPT ![p] = 0] /\ history' = [history EXCEPT ![p] = {}]
      /\ Cut(cs)
      /\ publishing' = [x \in Publisher |-> IF home[x] = p THEN Quiet ELSE publishing[x]]
      /\ teardown' = [o \in Operator |->
                        IF teardown[o].at = p THEN Rest(home[Worker]) ELSE teardown[o]]
      /\ closed' = closed /\ log' = log /\ home' = home /\ published' = published
      /\ lossy' = lossy /\ orderly' = orderly
  BY DEF Crash
<1>2. task' \in TaskPc
  BY DEF Crash, TaskPc, IInv, TypeOK
<1>3. cs \in SUBSET Client
  OBVIOUS
<1> HIDE DEF cs
<1>4. ServerTypes /\ home[Worker] \in Process
  BY TypesSplit DEF IInv, ServerTypes, Publisher
<1>5. faults' \in 0..MaxFaults
  BY <1>1, <1>4, StreamAssumption DEF ServerTypes
<1>6. count' \in [Process -> Nat] /\ history' \in [Process -> SUBSET Event]
  BY <1>1, <1>4 DEF ServerTypes
<1>7. publishing' \in [Publisher -> Phases] /\ Publishing'
  BY <1>1, <1>4, PublishingType DEF ServerTypes, IInv, Publishing, Quiet
<1>8. teardown' \in [Operator -> Calls]
  BY <1>1, <1>4, CallType DEF ServerTypes
<1>9. ServerTypes'
  BY <1>1, <1>2, <1>4, <1>5, <1>6, <1>7, <1>8 DEF ServerTypes
<1>10. Numbered'
  <2>1. \A q \in Process : q # p => count'[q] = count[q] /\ history'[q] = history[q]
    BY <1>1, <1>4 DEF ServerTypes
  <2>2. history'[p] = {}
    BY <1>1, <1>4 DEF ServerTypes
  <2> QED
    BY <1>1, <2>1, <2>2 DEF IInv, Numbered, OnePerNumber
<1> QED
  BY <1>1, <1>3, <1>7, <1>9, <1>10, CutStep, TypesSplit DEF IInv

-----------------------------------------------------------------------------
(* The invariant *)

LEMMA InitIInv == Init => IInv
<1> SUFFICES ASSUME Init PROVE IInv
  OBVIOUS
<1>1. home[Worker] \in Process
  BY DEF Init, Publisher
<1>2. QueueTypes
  BY NoQueue DEF Init, QueueTypes
<1>3. StreamTypes
  BY <1>1 DEF Init, StreamTypes, StreamPc
<1>4. ServerTypes
  <2>1. home \in [Publisher -> Process] /\ teardown \in [Operator -> Calls]
    BY <1>1, CallType DEF Init
  <2>2. publishing \in [Publisher -> Phases]
    BY PublishingType DEF Init
  <2>3. published \in 0..MaxEvents /\ faults \in 0..MaxFaults
    BY StreamAssumption DEF Init
  <2>4. count \in [Process -> Nat] /\ history \in [Process -> SUBSET Event]
    BY DEF Init
  <2> QED
    BY <2>1, <2>2, <2>3, <2>4 DEF Init, ServerTypes, TaskPc
<1>5. Publishing /\ Numbered /\ Endings
  BY DEF Init, Publishing, Numbered, Endings, OnePerNumber, Quiet
<1>6. Unread /\ Sent /\ TimelinesAscend /\ StreamsOutliveTheirRun
  BY DEF Init, Unread, Sent, TimelinesAscend, StreamsOutliveTheirRun, OnePerNumber
<1> QED
  BY <1>2, <1>3, <1>4, <1>5, <1>6, TypesSplit DEF IInv

LEMMA NextIInv == IInv /\ [Next]_vars => IInv'
<1> SUFFICES ASSUME IInv, [Next]_vars PROVE IInv'
  OBVIOUS
<1>1. CASE WorkerPublishes
  BY <1>1, WorkerPublishesStep
<1>2. CASE Finalise \/ TaskDies \/ WorkerCloses
  BY <1>2, FinaliseStep
<1>3. ASSUME NEW x \in Caller, CallerPublishes(x) PROVE IInv'
  BY <1>3, CallerPublishesStep
<1>4. ASSUME NEW x \in Publisher, Publish(x) PROVE IInv'
  BY <1>4, RecordingStep, FanOutStep DEF Publish
<1>5. ASSUME NEW o \in Operator, Teardown(o) PROVE IInv'
  BY <1>5, TeardownStep
<1>6. ASSUME NEW c \in Client, StreamStep(c) PROVE IInv'
  BY <1>6, PassStep, EmitNextStep, TakeStep, SkipStep, ReturnStep DEF StreamStep
<1>7. ASSUME NEW c \in Client, Disconnect(c) PROVE IInv'
  BY <1>7, DisconnectStep
<1>8. ASSUME NEW c \in Client, NEW p \in Process, Connect(c, p) PROVE IInv'
  BY <1>8, ReturnStep
<1>9. ASSUME NEW p \in Process, Crash(p) PROVE IInv'
  BY <1>9, CrashStep
<1>10. CASE UNCHANGED vars
  <2>1. /\ UNCHANGED serverVars /\ UNCHANGED streamVars
        /\ queue' = queue /\ closed' = closed
    BY <1>10 DEF vars, serverVars, streamVars, busVars, workVars
  <2>2. QueueTypes'
    BY <2>1, TypesSplit DEF IInv, QueueTypes
  <2> QED
    BY <2>1, <2>2, ServerFrame, StreamFrame, TypesSplit DEF IInv
<1> QED
  BY <1>1, <1>2, <1>3, <1>4, <1>5, <1>6, <1>7, <1>8, <1>9, <1>10 DEF Next

\* The invariant above holds of every behaviour of the system.
THEOREM StreamInvariant == Spec => []IInv
BY InitIInv, NextIInv, PTL DEF Spec

\* State is well typed whatever the clients, the processes and the sizes: in
\* particular no queue outgrows its size (publish drops, close_run raises).
THEOREM StreamWellTyped == Spec => []TypeOK
<1>1. IInv => TypeOK
  BY DEF IInv
<1> QED
  BY <1>1, StreamInvariant, PTL

\* What a client is sent ascends strictly, across pages, replays, live tails and
\* reconnections (event_source and EventBus.stream).
THEOREM StreamAscends == Spec => []TimelinesAscend
<1>1. IInv => TimelinesAscend
  BY DEF IInv
<1> QED
  BY <1>1, StreamInvariant, PTL

\* The server ends a stream only for a run that is over (event_source).
THEOREM StreamOutlives == Spec => []StreamsOutliveTheirRun
<1>1. IInv => StreamsOutliveTheirRun
  BY DEF IInv
<1> QED
  BY <1>1, StreamInvariant, PTL

-----------------------------------------------------------------------------
(* Nothing is skipped: the inductive invariant *)

InFlight == {x \in Publisher : publishing[x].phase # "quiet"}

\* The events that are still somewhere on their way to a client.
Queued(c) == {queue[c][i] : i \in DOMAIN queue[c]} \ {End}
Known ==
  log \cup (UNION {history[p] : p \in Process}) \cup {publishing[x].event : x \in InFlight}
    \cup (UNION {batch[c] \cup Queued(c) : c \in Client})

\* What is in the log, or may yet be recorded in order.
Recordable ==
  {e \in Known : \/ e \in log
                 \/ \E x \in Publisher : /\ publishing[x].phase = "recording"
                                         /\ publishing[x].event = e
                                         /\ \A r \in log : r.seq < e.seq}

\* The task publishes before the callers do, and its last event is terminal.
TaskInOrder ==
  /\ Worker \in InFlight => task \in {"running", "ended"}
  /\ \A x \in InFlight : x # Worker => task \in {"closing", "gone"}
  /\ task \in {"closing", "gone"} => closed
  /\ task = "running" => \A e \in Known : ~e.final
  /\ orderly /\ task \in {"ended", "closing", "gone"} =>
       /\ published > 0
       /\ \A p \in Process : history[p] # {} => \E g \in history[p] : g.final

\* As long as no number is used twice, one bus has given out all of them, and it
\* remembers all or none.
OneBus ==
  orderly =>
    /\ OnePerNumber(Known) /\ \A e \in Known : e.seq <= published
    /\ \A p \in Process : count[p] > 0 => history[p] # {}
    /\ \A p, q \in Process : history[p] # {} /\ history[q] # {} => p = q
    /\ \A p \in Process : history[p] # {} => Known \subseteq history[p]
    /\ \A x \in InFlight : publishing[x].event \in history[home[x]]
    /\ closed \/ \A e, g \in Known : g.final => e.seq <= g.seq

\* What a stream meets before place i of its queue, and in all.
Before(q, i) == {q[j] : j \in {k \in DOMAIN q : k < i}} \ {End}
Ahead(c, i)  == batch[c] \cup Before(queue[c], i)
Pending(c)   == Ahead(c, Len(queue[c]) + 1)

\* Among these events is one that ends a stream that has come to n.
Ends(es, n) == \E g \in es : g.final /\ g.seq > n

\* No stream has gone past a terminal event and reads on, unless it will be told
\* that the run is over.
NotPastEnd(c) ==
  /\ \/ pc[c] # "done" /\ ~closed
     \/ pc[c] = "paging" /\ ~sawEnd[c]
     \/ pc[c] = "tailing"
     => \A g \in Known : g.final => g.seq > cursor[c]
  /\ \/ pc[c] = "checking" /\ ~closed
     \/ pc[c] = "paging" /\ ~sawEnd[c]
     => \A e \in batch[c], g \in Known : g.final => e.seq <= g.seq

\* A page leaves out nothing that can be in the log, a replay nothing at all.
BatchHasAll(c) ==
  \A e \in batch[c], f \in Known :
    (f \in Recordable \/ pc[c] = "tailing") /\ f.seq > cursor[c] /\ f.seq < e.seq => f \in batch[c]

\* A stream meets an event of its queue after all earlier ones, or never, for the
\* run ends before.
QueueHasAll(c) ==
  pc[c] = "tailing" => \A i \in DOMAIN queue[c] : queue[c][i] # End =>
    \/ Ends(Ahead(c, i), cursor[c])
    \/ \A f \in Known : f.seq > cursor[c] /\ f.seq < queue[c][i].seq => f \in Ahead(c, i)

\* What its bus remembers is on its way to it, or still with the task.
Awaited(c) ==
  pc[c] = "tailing" =>
    \/ Ends(Pending(c), cursor[c])
    \/ \A f \in history[at[c]] : f.seq > cursor[c] =>
         f \in Pending(c) \/ (Worker \in InFlight /\ f = publishing[Worker].event)

\* It was sent all that can be in the log, as far as it has come.
HasAll(c) ==
  \A e \in Recordable : e.seq <= cursor[c] => \E i \in DOMAIN timeline[c] : timeline[c][i] = e

Follows(c) ==
  /\ cursor[c] <= published
  /\ pc[c] # "tailing" => queue[c] = <<>>
  /\ c \notin lossy =>
       NotPastEnd(c) /\ BatchHasAll(c) /\ QueueHasAll(c) /\ Awaited(c) /\ HasAll(c)

SkipIInv ==
  /\ IInv /\ IsFiniteSet(log)
  /\ TaskInOrder /\ OneBus
  /\ orderly => \A c \in Client : Follows(c)

-----------------------------------------------------------------------------
(* Known events and queues *)

Members ==
  \A e : e \in Known <=> \/ e \in log
                         \/ \E p \in Process : e \in history[p]
                         \/ \E x \in InFlight : e = publishing[x].event
                         \/ \E c \in Client : e \in batch[c] \/ e \in Queued(c)

LEMMA KnownIs == Members
<1> SUFFICES \A e : e \in Known <=> \/ e \in log
                                    \/ \E p \in Process : e \in history[p]
                                    \/ \E x \in InFlight : e = publishing[x].event
                                    \/ \E c \in Client : e \in batch[c] \/ e \in Queued(c)
  BY Zenon DEF Members
<1> TAKE e
<1> DEFINE remembered == UNION {history[p] : p \in Process}
           sent == {publishing[x].event : x \in InFlight}
           read == UNION {batch[c] \cup Queued(c) : c \in Client}
<1>1. e \in remembered <=> \E p \in Process : e \in history[p]
  OBVIOUS
<1>2. e \in sent <=> \E x \in InFlight : e = publishing[x].event
  OBVIOUS
<1>3. e \in read <=> \E c \in Client : e \in batch[c] \/ e \in Queued(c)
  OBVIOUS
<1>4. Known = log \cup remembered \cup sent \cup read
  BY DEF Known
<1> HIDE DEF remembered, sent, read
<1> QED
  BY <1>1, <1>2, <1>3, <1>4

LEMMA KnownIsNext == Members'
BY KnownIs, PTL

LEMMA KnownEvents ==
  ASSUME IInv
  PROVE  /\ Known \subseteq Event /\ \A e \in Known : e.seq \in Nat \ {0} /\ e.final \in BOOLEAN
         /\ log \subseteq Known /\ \A p \in Process : history[p] \subseteq Known
         /\ \A x \in InFlight : publishing[x].event \in Known /\ x \in Publisher
         /\ \A c \in Client : /\ batch[c] \subseteq Known /\ Queued(c) \subseteq Known
                              /\ \A i \in DOMAIN queue[c] : queue[c][i] # End => queue[c][i] \in Known
         /\ Recordable \subseteq Known
<1>1. \A c \in Client : \A i \in DOMAIN queue[c] : queue[c][i] \in Event \cup {End}
  BY DEF IInv, TypeOK
<1>2. Known \subseteq Event
  <2>1. \A x \in InFlight : publishing[x].event \in Event
    BY DEF IInv, Publishing, InFlight
  <2>2. log \subseteq Event /\ \A p \in Process : history[p] \subseteq Event
    BY DEF IInv, TypeOK
  <2>3. \A c \in Client : batch[c] \subseteq Event /\ Queued(c) \subseteq Event
    BY <1>1 DEF IInv, TypeOK, Queued
  <2> QED
    BY <2>1, <2>2, <2>3, KnownIs DEF Members
<1>3. log \subseteq Known /\ (\A p \in Process : history[p] \subseteq Known)
      /\ \A x \in InFlight : publishing[x].event \in Known /\ x \in Publisher
  BY KnownIs DEF Members, InFlight
<1>4. \A c \in Client : batch[c] \subseteq Known /\ Queued(c) \subseteq Known
  BY KnownIs DEF Members
<1>5. \A c \in Client : \A i \in DOMAIN queue[c] : queue[c][i] # End => queue[c][i] \in Queued(c)
  BY DEF Queued
<1>6. \A e \in Event : e.seq \in Nat \ {0} /\ e.final \in BOOLEAN
  BY DEF Event
<1>7. Recordable \subseteq Known
  BY DEF Recordable
<1> QED
  BY <1>2, <1>3, <1>4, <1>5, <1>6, <1>7

LEMMA BeforeFirst == \A q \in Queues : Before(q, 1) = {} /\ Before(<<>>, 1) = {}
<1>1. \A q \in Queues : DOMAIN q = 1..Len(q) /\ Len(q) \in Nat
  BY DEF Queues
<1>2. DOMAIN <<>> = {}
  OBVIOUS
<1> QED
  BY <1>1, <1>2 DEF Before

\* One more at the end.
LEMMA BeforeAppend ==
  ASSUME NEW q \in Queues, NEW e \in Event \cup {End}
  PROVE  /\ DOMAIN q = 1..Len(q) /\ Len(q) \in Nat
         /\ DOMAIN Append(q, e) = 1..Len(q) + 1 /\ Len(Append(q, e)) = Len(q) + 1
         /\ \A i \in 1..Len(q) : Append(q, e)[i] = q[i]
         /\ Append(q, e)[Len(q) + 1] = e
         /\ \A i \in 1..Len(q) + 1 : Before(Append(q, e), i) = Before(q, i)
         /\ Before(Append(q, e), Len(q) + 2) = Before(q, Len(q) + 1) \cup ({e} \ {End})
<1> DEFINE n == Len(q)
           r == Append(q, e)
<1>1. /\ DOMAIN q = 1..n /\ n \in Nat
      /\ DOMAIN r = 1..n + 1 /\ Len(r) = n + 1
      /\ \A i \in 1..n : r[i] = q[i]
      /\ r[n + 1] = e
  BY DEF Queues
<1> HIDE DEF n, r
<1>2. ASSUME NEW i \in 1..n + 1 PROVE Before(r, i) = Before(q, i)
  <2>1. {k \in DOMAIN r : k < i} = {k \in DOMAIN q : k < i}
    BY <1>1
  <2>2. \A j \in {k \in DOMAIN q : k < i} : r[j] = q[j]
    BY <1>1
  <2> QED
    BY <2>1, <2>2 DEF Before
<1>3. Before(r, n + 2) = Before(q, n + 1) \cup ({e} \ {End})
  <2>1. {k \in DOMAIN r : k < n + 2} = {k \in DOMAIN q : k < n + 1} \cup {n + 1}
    BY <1>1
  <2>2. \A j \in {k \in DOMAIN q : k < n + 1} : r[j] = q[j]
    BY <1>1
  <2>3. {r[j] : j \in {k \in DOMAIN r : k < n + 2}}
          = {q[j] : j \in {k \in DOMAIN q : k < n + 1}} \cup {e}
    BY <1>1, <2>1, <2>2
  <2> QED
    BY <2>3 DEF Before
<1> QED
  BY <1>1, <1>2, <1>3 DEF n, r

\* One less in front.
LEMMA BeforeTail ==
  ASSUME NEW q \in Queues, q # <<>>
  PROVE  /\ DOMAIN q = 1..Len(q) /\ Len(q) \in Nat \ {0} /\ Head(q) = q[1]
         /\ DOMAIN Tail(q) = 1..Len(q) - 1 /\ Len(Tail(q)) = Len(q) - 1
         /\ \A i \in 1..Len(q) - 1 : Tail(q)[i] = q[i + 1]
         /\ \A i \in 1..Len(q) : Before(q, i + 1) = Before(Tail(q), i) \cup ({Head(q)} \ {End})
<1> DEFINE n == Len(q)
           r == Tail(q)
<1>1. /\ DOMAIN q = 1..n /\ n \in Nat \ {0} /\ Head(q) = q[1]
      /\ DOMAIN r = 1..n - 1 /\ Len(r) = n - 1
      /\ \A i \in 1..n - 1 : r[i] = q[i + 1]
  BY DEF Queues
<1> HIDE DEF n, r
<1>2. ASSUME NEW i \in 1..n
      PROVE  Before(q, i + 1) = Before(r, i) \cup ({q[1]} \ {End})
  <2>1. \A k : k \in DOMAIN q /\ k < i + 1 <=> k = 1 \/ \E j : j \in DOMAIN r /\ j < i /\ k = j + 1
    <3>1. ASSUME NEW k \in DOMAIN q, k < i + 1, k # 1 PROVE \E j : j \in DOMAIN r /\ j < i /\ k = j + 1
      <4>1. k - 1 \in DOMAIN r /\ k - 1 < i /\ k = (k - 1) + 1
        BY <1>1, <3>1
      <4> QED
        BY <4>1
    <3> QED
      BY <1>1, <3>1
  <2>2. \A j \in DOMAIN r : r[j] = q[j + 1]
    BY <1>1
  <2>3. {q[k] : k \in {l \in DOMAIN q : l < i + 1}}
          = {r[j] : j \in {l \in DOMAIN r : l < i}} \cup {q[1]}
    <3>1. ASSUME NEW k \in {l \in DOMAIN q : l < i + 1}
          PROVE  q[k] \in {r[j] : j \in {l \in DOMAIN r : l < i}} \cup {q[1]}
      BY <2>1, <2>2
    <3>2. ASSUME NEW j \in {l \in DOMAIN r : l < i}
          PROVE  r[j] \in {q[k] : k \in {l \in DOMAIN q : l < i + 1}}
      BY <2>1, <2>2
    <3>3. 1 \in {l \in DOMAIN q : l < i + 1}
      BY <1>1
    <3> QED
      BY <3>1, <3>2, <3>3
  <2> QED
    BY <2>3 DEF Before
<1> QED
  BY <1>1, <1>2 DEF n, r

\* The pages are cut off by number.
LEMMA PageHasAll ==
  ASSUME IInv, IsFiniteSet(log), NEW c \in Client, NEW e \in Page(c), NEW f \in log,
         f.seq > cursor[c], f.seq < e.seq
  PROVE  f \in Page(c)
<1> DEFINE rest == {g \in log : g.seq > cursor[c]}
           below(g) == {h \in rest : h.seq < g.seq}
<1>1. IsFiniteSet(rest)
  BY FS_Subset
<1>2. e \in rest /\ f \in rest /\ Cardinality(below(e)) < PageSize
  BY DEF Page
<1>3. \A g \in rest : g.seq \in Nat
  BY DEF IInv, TypeOK, Event
<1>4. below(f) \in SUBSET below(e) /\ below(e) \in SUBSET rest
  BY <1>2, <1>3
<1>5. IsFiniteSet(below(e)) /\ IsFiniteSet(below(f))
  BY <1>1, <1>4, FS_Subset
<1>6. Cardinality(below(f)) <= Cardinality(below(e))
      /\ Cardinality(below(f)) \in Nat /\ Cardinality(below(e)) \in Nat
  BY <1>4, <1>5, FS_Subset, FS_CardinalityType
<1>7. Cardinality(below(f)) < PageSize
  BY <1>2, <1>6, StreamAssumption
<1> QED
  BY <1>2, <1>7 DEF Page

-----------------------------------------------------------------------------
(* What only takes away from what is known *)

\* A bus forgets the run or keeps what it has.
Forgets(p) ==
  \/ history'[p] = history[p] /\ count'[p] = count[p]
  \/ history'[p] = {} /\ count'[p] = 0

\* No publication begins, and one whose bus forgot the run is not under way.
Continues(x) ==
  /\ x \in InFlight /\ publishing'[x].event = publishing[x].event
  /\ orderly' => history'[home[x]] = history[home[x]]

Recedes ==
  /\ Known' \subseteq Known /\ (orderly' => orderly) /\ published' = published
  /\ closed => closed'
  /\ home' = home
  /\ \A p \in Process : Forgets(p)
  /\ \A x \in InFlight' : Continues(x)

LEMMA OneBusRecedes ==
  ASSUME IInv, OneBus, Recedes
  PROVE  OneBus'
<1> SUFFICES ASSUME orderly' PROVE OneBus'
  BY DEF OneBus
<1>1. orderly /\ Known' \subseteq Known /\ published' = published /\ (closed => closed') /\ home' = home
  BY DEF Recedes
<1>2. OnePerNumber(Known') /\ \A e \in Known' : e.seq <= published'
  BY <1>1 DEF OneBus, OnePerNumber
<1>3. \A p \in Process : /\ count'[p] > 0 => history'[p] # {}
                         /\ history'[p] # {} => history'[p] = history[p]
  BY <1>1 DEF OneBus, Recedes, Forgets
<1>4. \A p, q \in Process : history'[p] # {} /\ history'[q] # {} => p = q
  BY <1>1, <1>3 DEF OneBus
<1>5. \A p \in Process : history'[p] # {} => Known' \subseteq history'[p]
  BY <1>1, <1>3 DEF OneBus
<1>6. \A x \in InFlight' : publishing'[x].event \in history'[home'[x]]
  BY <1>1 DEF OneBus, Recedes, Continues
<1>7. closed' \/ \A e, g \in Known' : g.final => e.seq <= g.seq
  BY <1>1 DEF OneBus
<1> QED
  BY <1>2, <1>3, <1>4, <1>5, <1>6, <1>7 DEF OneBus

LEMMA TaskRecedes ==
  ASSUME IInv, TaskInOrder, Recedes, task' = task
  PROVE  TaskInOrder'
<1>1. /\ Known' \subseteq Known /\ (orderly' => orderly) /\ published' = published
      /\ closed => closed'
      /\ \A p \in Process : history'[p] # {} => history'[p] = history[p]
      /\ \A x \in InFlight' : x \in InFlight
  BY DEF Recedes, Forgets, Continues
<1> QED
  BY <1>1 DEF TaskInOrder

\* As far as a client is concerned.
LosesNothing(c) ==
  /\ c \notin lossy' => c \notin lossy
  /\ pc[c] = "tailing" =>
       \A f \in history'[at[c]] : /\ f \in history[at[c]]
                                  /\ Worker \in InFlight /\ f = publishing[Worker].event
                                       => Worker \in InFlight' /\ f = publishing'[Worker].event

LEMMA StandsStill ==
  ASSUME IInv, orderly, NEW c \in Client, Follows(c),
         Known' \subseteq Known, Recordable' \subseteq Recordable, published' = published,
         closed => closed', LosesNothing(c),
         cursor'[c] = cursor[c], timeline'[c] = timeline[c], pc'[c] = pc[c], at'[c] = at[c],
         batch'[c] = batch[c], sawEnd'[c] = sawEnd[c], queue'[c] = queue[c]
  PROVE  Follows(c)'
<1>1. cursor'[c] <= published' /\ (pc'[c] # "tailing" => queue'[c] = <<>>)
  BY DEF Follows
<1> SUFFICES ASSUME c \notin lossy'
             PROVE  (NotPastEnd(c) /\ BatchHasAll(c) /\ QueueHasAll(c) /\ Awaited(c) /\ HasAll(c))'
  BY <1>1 DEF Follows
<1>2. NotPastEnd(c) /\ BatchHasAll(c) /\ QueueHasAll(c) /\ Awaited(c) /\ HasAll(c)
  BY DEF Follows, LosesNothing
<1>3. NotPastEnd(c)' /\ BatchHasAll(c)'
  BY <1>2 DEF NotPastEnd, BatchHasAll
<1>4. QueueHasAll(c)'
  BY <1>2 DEF QueueHasAll, Ahead, Ends
<1>5. Awaited(c)'
  BY <1>2 DEF Awaited, Pending, Ahead, Ends, LosesNothing
<1>6. HasAll(c)'
  BY <1>2 DEF HasAll
<1> QED
  BY <1>3, <1>4, <1>5, <1>6

\* The same when the end marker is put into its queue.
LEMMA StandsTold ==
  ASSUME IInv, orderly, NEW c \in Client, Follows(c),
         Known' \subseteq Known, Recordable' \subseteq Recordable, published' = published,
         closed => closed', LosesNothing(c),
         cursor'[c] = cursor[c], timeline'[c] = timeline[c], pc'[c] = pc[c], at'[c] = at[c],
         batch'[c] = batch[c], sawEnd'[c] = sawEnd[c], queue'[c] = Append(queue[c], End), pc[c] = "tailing"
  PROVE  Follows(c)'
<1> DEFINE q == queue[c]
<1>1. cursor'[c] <= published' /\ (pc'[c] # "tailing" => queue'[c] = <<>>)
  BY DEF Follows
<1> SUFFICES ASSUME c \notin lossy'
             PROVE  (NotPastEnd(c) /\ BatchHasAll(c) /\ QueueHasAll(c) /\ Awaited(c) /\ HasAll(c))'
  BY <1>1 DEF Follows
<1>2. NotPastEnd(c) /\ BatchHasAll(c) /\ QueueHasAll(c) /\ Awaited(c) /\ HasAll(c)
  BY DEF Follows, LosesNothing
<1>3. NotPastEnd(c)' /\ BatchHasAll(c)' /\ HasAll(c)'
  BY <1>2 DEF NotPastEnd, BatchHasAll, HasAll
<1>4. q \in Queues
  BY TypesSplit DEF IInv, QueueTypes
<1>5. /\ DOMAIN q = 1..Len(q) /\ Len(q) \in Nat
      /\ DOMAIN queue'[c] = 1..Len(q) + 1 /\ Len(queue'[c]) = Len(q) + 1
      /\ \A i \in 1..Len(q) : queue'[c][i] = q[i]
      /\ queue'[c][Len(q) + 1] = End
      /\ \A i \in 1..Len(q) + 1 : Before(queue'[c], i) = Before(q, i)
      /\ Before(queue'[c], Len(q) + 2) = Before(q, Len(q) + 1)
  <2>1. Before(Append(q, End), Len(q) + 2) = Before(q, Len(q) + 1) \cup ({End} \ {End})
    BY <1>4, BeforeAppend
  <2>2. /\ DOMAIN q = 1..Len(q) /\ Len(q) \in Nat
        /\ DOMAIN Append(q, End) = 1..Len(q) + 1 /\ Len(Append(q, End)) = Len(q) + 1
        /\ \A i \in 1..Len(q) : Append(q, End)[i] = q[i]
        /\ Append(q, End)[Len(q) + 1] = End
        /\ \A i \in 1..Len(q) + 1 : Before(Append(q, End), i) = Before(q, i)
    BY <1>4, BeforeAppend
  <2> HIDE DEF q
  <2>3. queue'[c] = Append(q, End)
    BY DEF q
  <2> QED
    BY <2>1, <2>2, <2>3
<1>6. \A i \in 1..Len(q) + 1 : Ahead(c, i)' = Ahead(c, i)
  BY <1>5 DEF Ahead
<1>7. Pending(c)' = Pending(c)
  <2>1. Len(q) + 1 + 1 = Len(q) + 2
    BY <1>5
  <2> QED
    BY <1>5, <2>1 DEF Ahead, Pending
<1>8. QueueHasAll(c)'
  <2> SUFFICES ASSUME pc'[c] = "tailing", NEW i \in DOMAIN queue'[c], queue'[c][i] # End
               PROVE  \/ Ends(Ahead(c, i)', cursor'[c])
                      \/ \A f \in Known' : f.seq > cursor'[c] /\ f.seq < queue'[c][i].seq => f \in Ahead(c, i)'
    BY DEF QueueHasAll
  <2>1. i \in DOMAIN q /\ i \in 1..Len(q) + 1 /\ queue'[c][i] = q[i]
    BY <1>5
  <2>2. Ahead(c, i)' = Ahead(c, i)
    BY <1>6, <2>1
  <2>3. \/ Ends(Ahead(c, i), cursor[c])
        \/ \A f \in Known : f.seq > cursor[c] /\ f.seq < q[i].seq => f \in Ahead(c, i)
    BY <1>2, <2>1 DEF QueueHasAll
  <2> QED
    BY <2>1, <2>2, <2>3
<1>9. Awaited(c)'
  BY <1>2, <1>7 DEF Awaited, Ends, LosesNothing
<1> QED
  BY <1>3, <1>8, <1>9

LEMMA KnownWithin ==
  ASSUME NEW es,
         log' \subseteq es, \A p \in Process : history'[p] \subseteq es,
         \A x \in InFlight' : publishing'[x].event \in es,
         \A c \in Client : batch'[c] \subseteq es /\ Queued(c)' \subseteq es
  PROVE  Known' \subseteq es
BY KnownIsNext DEF Members

-----------------------------------------------------------------------------
(* The server's actions, and nothing is skipped *)

\* Nothing happens on the buses.
LEMMA NothingHappens ==
  ASSUME SkipIInv, closed => closed',
         UNCHANGED <<log, count, history, queue, home, publishing, published, pc, at, batch, sawEnd,
                     cursor, timeline, lossy, orderly>>
  PROVE  /\ IsFiniteSet(log') /\ OneBus' /\ (orderly' => \A c \in Client : Follows(c)')
         /\ Recedes
<1>1. InFlight' = InFlight
  BY DEF InFlight
<1>2. \A c \in Client : Queued(c)' = Queued(c)
  BY DEF Queued
<1>3. Known' \subseteq Known
  BY <1>1, <1>2, KnownEvents, KnownWithin DEF SkipIInv
<1>4. Recordable' \subseteq Recordable
  BY <1>3 DEF Recordable
<1>5. Recedes
  BY <1>1, <1>3 DEF Recedes, Forgets, Continues
<1>6. OneBus'
  BY <1>5, OneBusRecedes DEF SkipIInv
<1>7. ASSUME orderly', NEW c \in Client PROVE Follows(c)'
  <2>1. LosesNothing(c)
    BY <1>1 DEF LosesNothing
  <2>2. orderly /\ Follows(c) /\ IInv
    BY <1>7 DEF SkipIInv
  <2> QED
    BY <1>3, <1>4, <2>1, <2>2, StandsStill
<1> QED
  BY <1>5, <1>6, <1>7 DEF SkipIInv

LEMMA FinaliseSkips == ASSUME SkipIInv, Finalise \/ TaskDies PROVE SkipIInv'
<1>1. /\ UNCHANGED <<log, count, history, queue, home, publishing, published, pc, at, batch, sawEnd,
                     cursor, timeline, lossy, orderly>>
      /\ closed => closed'
  BY DEF Finalise, TaskDies, busVars, streamVars
<1>2. /\ IsFiniteSet(log') /\ OneBus' /\ (orderly' => \A c \in Client : Follows(c)')
      /\ Recedes
  BY <1>1, NothingHappens
<1>3. TaskInOrder'
  <2>1. TaskInOrder /\ InFlight' = InFlight /\ Worker \in Publisher
    BY <1>1 DEF SkipIInv, InFlight, Publisher
  <2>2. Worker \notin InFlight
    BY DEF Finalise, TaskDies, InFlight, Quiet
  <2>3. CASE Finalise
    BY <1>1, <2>1, <2>2, <2>3 DEF Finalise, TaskInOrder
  <2>4. CASE TaskDies
    BY <1>1, <2>1, <2>2, <2>4 DEF TaskDies, TaskInOrder
  <2> QED
    BY <2>3, <2>4
<1>4. IInv'
  BY FinaliseStep DEF SkipIInv
<1> QED
  BY <1>2, <1>3, <1>4 DEF SkipIInv

\* A publication begins: the new event is beyond everything there is, and it is on
\* its way with the task, or comes after the end of the run.
LEMMA NumberFollowed ==
  ASSUME SkipIInv, NEW x \in Publisher, NEW final \in BOOLEAN, Number(x, final),
         UNCHANGED <<closed, log, queue, home, pc, at, batch, sawEnd, cursor, timeline, lossy>>,
         IF x = Worker THEN task = "running" ELSE task \in {"closing", "gone"} /\ ~final
  PROVE  /\ OneBus' /\ (orderly' => \A c \in Client : Follows(c)')
         /\ InFlight' = InFlight \cup {x} /\ published' > 0 /\ (orderly' => orderly)
         /\ \A e \in Known' : e \in Known \/ e.final = final
         /\ \A p \in Process : history'[p] \subseteq Known'
         /\ history'[home[x]] # {} /\ \E e \in history'[home[x]] : e.final = final
         /\ \A p \in Process : p # home[x] => history'[p] = history[p]
         /\ history[home[x]] \subseteq history'[home[x]]
         /\ orderly' /\ x # Worker => history[home[x]] # {}
<1> DEFINE p == home[x]
           e == [no |-> published + 1, seq |-> count[p] + 1, final |-> final]
<1>1. /\ publishing[x] = Quiet /\ published' = published + 1
      /\ count' = [count EXCEPT ![p] = e.seq]
      /\ history' = [history EXCEPT ![p] = @ \cup {e}]
      /\ publishing' = [publishing EXCEPT ![x] = [phase |-> "recording", event |-> e]]
      /\ orderly' = (orderly /\ e.seq = e.no)
  BY DEF Number
<1>2. IInv /\ TaskInOrder /\ OneBus
  BY DEF SkipIInv
<1>3. /\ p \in Process /\ e.seq = count[p] + 1 /\ e.no = published + 1 /\ e.final = final
      /\ published \in Nat /\ count \in [Process -> Nat] /\ history \in [Process -> SUBSET Event]
      /\ publishing \in [Publisher -> Phases] /\ e \in Event /\ orderly \in BOOLEAN
  BY <1>2, TypesSplit DEF IInv, TypeOK, ServerTypes, Event
<1> HIDE DEF e, p
<1>4. /\ history'[p] = history[p] \cup {e} /\ count'[p] = e.seq
      /\ \A q \in Process : q # p => history'[q] = history[q] /\ count'[q] = count[q]
      /\ publishing'[x].event = e /\ publishing'[x].phase = "recording"
      /\ \A y \in Publisher : y # x => publishing'[y] = publishing[y]
  BY <1>1, <1>3
<1>5. InFlight' = InFlight \cup {x} /\ x \notin InFlight
  BY <1>1, <1>4 DEF InFlight, Quiet
<1>6. Known' \subseteq Known \cup {e}
  <2>1. \A c \in Client : Queued(c)' = Queued(c)
    BY DEF Queued
  <2>2. \A q \in Process : history'[q] \subseteq Known \cup {e}
    BY <1>2, <1>4, KnownEvents
  <2>3. \A y \in InFlight' : publishing'[y].event \in Known \cup {e}
    BY <1>2, <1>4, <1>5, KnownEvents
  <2>4. log' \subseteq Known \cup {e}
        /\ \A c \in Client : batch'[c] \subseteq Known \cup {e} /\ Queued(c)' \subseteq Known \cup {e}
    BY <1>2, <2>1, KnownEvents
  <2> HIDE DEF Known
  <2> QED
    BY <2>2, <2>3, <2>4, KnownWithin
<1>7. Recordable' \subseteq Recordable \cup {e}
  <2> SUFFICES ASSUME NEW f \in Recordable', f # e PROVE f \in Recordable
    OBVIOUS
  <2>1. f \in Known
    BY <1>6 DEF Recordable
  <2>2. ASSUME NEW y \in Publisher, publishing'[y].phase = "recording", publishing'[y].event = f
        PROVE  publishing[y] = publishing'[y]
    BY <1>4, <2>2
  <2> QED
    BY <2>1, <2>2 DEF Recordable
<1>8. \A f \in Known' : f \in Known \/ f.final = final
  BY <1>3, <1>6
<1>9. \A q \in Process : history'[q] \subseteq Known'
  BY KnownIsNext DEF Members
<1>10. ASSUME orderly' PROVE OneBus' /\ \A c \in Client : Follows(c)'
  <2>1. orderly /\ e.seq = published + 1 /\ count[p] = published
    <3>1. orderly /\ e.seq = e.no
      BY <1>1, <1>10
    <3> QED
      BY <1>3, <3>1
  <2>2. /\ OnePerNumber(Known) /\ \A f \in Known : f.seq <= published
        /\ \A f \in Known : f.seq \in Nat \ {0} /\ f.final \in BOOLEAN
    BY <1>2, <2>1, KnownEvents DEF OneBus
  <2>3. \A q \in Process : q # p => history[q] = {}
    <3>1. CASE published = 0
      <4>1. Known = {}
        BY <2>2, <3>1
      <4> QED
        BY <1>2, <4>1, KnownEvents
    <3>2. CASE published > 0
      BY <1>2, <1>3, <2>1, <3>2 DEF OneBus
    <3> QED
      BY <1>3, <3>1, <3>2
  <2>4. Known \subseteq history[p]
    <3>1. CASE published = 0
      BY <2>2, <3>1
    <3>2. CASE published > 0
      BY <1>2, <1>3, <2>1, <3>2 DEF OneBus
    <3> QED
      BY <1>3, <3>1, <3>2
  <2>5. OneBus'
    <3>1. OnePerNumber(Known')
      BY <1>6, <2>1, <2>2, <1>3 DEF OnePerNumber
    <3>2. \A f \in Known' : f.seq <= published'
      BY <1>1, <1>3, <1>6, <2>1, <2>2
    <3>3. \A q \in Process : history'[q] # {} => q = p
      BY <1>4, <2>3
    <3>4. \A q \in Process : count'[q] > 0 => history'[q] # {}
      BY <1>2, <1>4, <2>1 DEF OneBus
    <3>5. \A q \in Process : history'[q] # {} => Known' \subseteq history'[q]
      BY <1>4, <1>6, <2>4, <3>3
    <3>6. \A y \in InFlight' : publishing'[y].event \in history'[home'[y]]
      <4>1. ASSUME NEW y \in InFlight' PROVE publishing'[y].event \in history'[home[y]]
        <5>1. CASE y = x
          BY <1>4, <5>1 DEF p
        <5>2. CASE y # x
          <6>1. /\ y \in InFlight /\ y \in Publisher /\ publishing'[y] = publishing[y]
                /\ publishing[y].event \in history[home[y]] /\ home[y] \in Process
            BY <1>2, <1>4, <1>5, <2>1, <5>2 DEF OneBus, InFlight, IInv, TypeOK
          <6> QED
            BY <1>4, <6>1
        <5> QED
          BY <5>1, <5>2
      <4> QED
        BY <4>1
    <3>7. closed' \/ \A f, g \in Known' : g.final => f.seq <= g.seq
      <4>1. CASE x = Worker
        <5>1. \A g \in Known : ~g.final
          BY <1>2, <4>1 DEF TaskInOrder
        <5>2. \A f, g \in Known' : g.final => g = e /\ f.seq <= g.seq
          BY <1>3, <1>6, <2>1, <2>2, <5>1
        <5> QED
          BY <5>2
      <4>2. CASE x # Worker
        BY <1>2, <4>2 DEF TaskInOrder
      <4> QED
        BY <4>1, <4>2
    <3> QED
      BY <3>1, <3>2, <3>3, <3>4, <3>5, <3>6, <3>7 DEF OneBus
  <2>6. ASSUME NEW c \in Client PROVE Follows(c)'
    <3>1. Follows(c) /\ cursor[c] \in Nat /\ at[c] \in Process
      BY <1>2, <2>1 DEF SkipIInv, IInv, TypeOK
    <3>2. cursor'[c] <= published' /\ e.seq > cursor[c] /\ (pc'[c] # "tailing" => queue'[c] = <<>>)
      BY <1>1, <1>3, <2>1, <3>1 DEF Follows
    <3> SUFFICES ASSUME c \notin lossy
                 PROVE  (NotPastEnd(c) /\ BatchHasAll(c) /\ QueueHasAll(c) /\ Awaited(c) /\ HasAll(c))'
      BY <3>2 DEF Follows
    <3>3. NotPastEnd(c) /\ BatchHasAll(c) /\ QueueHasAll(c) /\ Awaited(c) /\ HasAll(c)
      BY <3>1 DEF Follows
    <3>4. \A f \in batch[c] : f.seq \in Nat /\ f.seq < e.seq
      BY <1>2, <1>3, <2>1, <2>2, KnownEvents
    <3>5. \A i \in DOMAIN queue[c] : queue[c][i] # End =>
            queue[c][i].seq \in Nat /\ queue[c][i].seq < e.seq
      BY <1>2, <1>3, <2>1, <2>2, KnownEvents
    <3>6. NotPastEnd(c)'
      <4>1. \A g \in Known' : g \in Known \/ (g = e /\ g.seq > cursor[c] /\ \A f \in batch[c] : f.seq <= g.seq)
        BY <1>3, <1>6, <2>1, <3>2, <3>4
      <4> HIDE DEF Known
      <4> QED
        BY <3>3, <4>1 DEF NotPastEnd
    <3>7. BatchHasAll(c)'
      <4> SUFFICES ASSUME NEW g \in batch[c], NEW f \in Known', f \in Recordable' \/ pc[c] = "tailing",
                          f.seq > cursor[c], f.seq < g.seq
                   PROVE  f \in batch[c]
        BY DEF BatchHasAll
      <4>1. f # e
        BY <1>3, <2>1, <3>4
      <4>2. f \in Known /\ (f \in Recordable \/ pc[c] = "tailing")
        BY <1>6, <1>7, <4>1
      <4> QED
        BY <3>3, <4>2 DEF BatchHasAll
    <3>8. QueueHasAll(c)'
      <4> SUFFICES ASSUME pc[c] = "tailing", NEW i \in DOMAIN queue[c], queue[c][i] # End
                   PROVE  \/ Ends(Ahead(c, i)', cursor[c])
                          \/ \A f \in Known' : f.seq > cursor[c] /\ f.seq < queue[c][i].seq => f \in Ahead(c, i)'
        BY DEF QueueHasAll
      <4>1. Ahead(c, i)' = Ahead(c, i)
        BY DEF Ahead
      <4>2. \A f \in Known' : f.seq < queue[c][i].seq => f \in Known
        BY <1>3, <1>6, <2>1, <3>5
      <4> QED
        BY <3>3, <4>1, <4>2 DEF QueueHasAll
    <3>9. Awaited(c)'
      <4> SUFFICES ASSUME pc[c] = "tailing"
                   PROVE  \/ Ends(Pending(c), cursor[c])
                          \/ \A f \in history'[at[c]] : f.seq > cursor[c] =>
                               f \in Pending(c) \/ (Worker \in InFlight' /\ f = publishing'[Worker].event)
        <5>1. Pending(c)' = Pending(c)
          BY DEF Pending, Ahead
        <5> QED
          BY <5>1 DEF Awaited
      <4>1. \/ Ends(Pending(c), cursor[c])
            \/ \A f \in history[at[c]] : f.seq > cursor[c] =>
                 f \in Pending(c) \/ (Worker \in InFlight /\ f = publishing[Worker].event)
        BY <3>3 DEF Awaited
      <4>2. CASE x = Worker
        <5>1. history'[at[c]] \subseteq history[at[c]] \cup {e}
          BY <1>4, <3>1
        <5> QED
          BY <1>4, <1>5, <4>1, <4>2, <5>1
      <4>3. CASE x # Worker
        <5>1. Worker \notin InFlight /\ published > 0
          BY <1>2, <2>1, <4>3 DEF TaskInOrder
        <5>2. CASE at[c] # p
          BY <1>4, <3>1, <4>1, <5>1, <5>2
        <5>3. CASE at[c] = p
          <6>1. history[p] # {}
            BY <1>2, <1>3, <2>1, <5>1 DEF OneBus
          <6>2. PICK g \in history[p] : g.final
            BY <1>2, <1>3, <2>1, <4>3, <6>1 DEF TaskInOrder
          <6>3. g \in Known /\ g.seq > cursor[c]
            BY <1>2, <1>3, <3>3, <6>2, KnownEvents DEF NotPastEnd
          <6> QED
            BY <4>1, <5>1, <5>3, <6>2, <6>3 DEF Ends
        <5> QED
          BY <5>2, <5>3
      <4> QED
        BY <4>2, <4>3
    <3>10. HasAll(c)'
      <4>1. \A f \in Recordable' : f.seq <= cursor[c] => f \in Recordable
        BY <1>3, <1>7, <2>1, <3>1, <3>2
      <4> QED
        BY <3>3, <4>1 DEF HasAll
    <3> QED
      BY <3>6, <3>7, <3>8, <3>9, <3>10
  <2> QED
    BY <2>5, <2>6
<1>11. ASSUME orderly', x # Worker PROVE history[home[x]] # {}
  <2>1. orderly /\ e.seq = e.no
    BY <1>1, <1>11
  <2>2. published > 0 /\ count[p] = published
    BY <1>2, <1>3, <1>11, <2>1 DEF TaskInOrder
  <2> QED
    BY <1>2, <1>3, <2>1, <2>2 DEF OneBus, p
<1>12. OneBus'
  BY <1>10 DEF OneBus
<1>13. published' > 0 /\ (orderly' => orderly)
  <2>1. orderly' => orderly
    BY <1>1
  <2> QED
    BY <1>1, <1>3, <2>1
<1>14. history'[home[x]] # {} /\ history[home[x]] \subseteq history'[home[x]]
       /\ (\E f \in history'[home[x]] : f.final = final)
       /\ \A q \in Process : q # home[x] => history'[q] = history[q]
  BY <1>3, <1>4 DEF p
<1> QED
  BY <1>5, <1>8, <1>9, <1>10, <1>12, <1>13, <1>14, <1>11


LEMMA WorkerPublishesSkips == ASSUME SkipIInv, WorkerPublishes PROVE SkipIInv'
<1>1. PICK final \in BOOLEAN : Number(Worker, final) /\ task' = IF final THEN "ended" ELSE "running"
  BY DEF WorkerPublishes
<1>2. /\ task = "running" /\ Worker \in Publisher
      /\ UNCHANGED <<closed, log, queue, home, pc, at, batch, sawEnd, cursor, timeline, lossy>>
  BY DEF WorkerPublishes, streamVars, Publisher
<1>3. /\ OneBus' /\ (orderly' => \A c \in Client : Follows(c)')
      /\ InFlight' = InFlight \cup {Worker} /\ published' > 0 /\ (orderly' => orderly)
      /\ \A e \in Known' : e \in Known \/ e.final = final
      /\ \E e \in history'[home[Worker]] : e.final = final
      /\ history'[home[Worker]] # {}
  BY <1>1, <1>2, NumberFollowed
<1>4. TaskInOrder'
  <2>1. \A p \in Process : orderly' /\ history'[p] # {} => p = home[Worker]
    <3>1. home[Worker] \in Process
      BY <1>2 DEF SkipIInv, IInv, TypeOK
    <3> QED
      BY <1>3, <3>1 DEF OneBus
  <2>2. TaskInOrder
    BY DEF SkipIInv
  <2>3. \A x \in InFlight : x = Worker
    BY <1>2, <2>2 DEF TaskInOrder
  <2>4. task' = "running" => \A e \in Known' : ~e.final
    BY <1>1, <1>2, <1>3, <2>2 DEF TaskInOrder
  <2>5. task' = "ended" => \E g \in history'[home[Worker]] : g.final
    BY <1>1, <1>3
  <2>6. task' \in {"running", "ended"}
    BY <1>1
  <2> QED
    BY <1>3, <2>1, <2>3, <2>4, <2>5, <2>6 DEF TaskInOrder
<1>5. IInv' /\ IsFiniteSet(log')
  BY <1>2, WorkerPublishesStep DEF SkipIInv
<1> QED
  BY <1>3, <1>4, <1>5 DEF SkipIInv

LEMMA CallerPublishesSkips ==
  ASSUME SkipIInv, NEW x \in Caller, CallerPublishes(x) PROVE SkipIInv'
<1>1. /\ task \in {"closing", "gone"} /\ task' = task /\ Number(x, FALSE)
      /\ x \in Publisher /\ x # Worker
      /\ UNCHANGED <<closed, log, queue, home, pc, at, batch, sawEnd, cursor, timeline, lossy>>
  BY StreamAssumption DEF CallerPublishes, streamVars, Publisher
<1>2. /\ OneBus' /\ (orderly' => \A c \in Client : Follows(c)')
      /\ InFlight' = InFlight \cup {x} /\ published' > 0 /\ (orderly' => orderly)
      /\ \A p \in Process : p # home[x] => history'[p] = history[p]
      /\ history[home[x]] \subseteq history'[home[x]]
      /\ orderly' => history[home[x]] # {}
  BY <1>1, NumberFollowed
<1>3. TaskInOrder'
  <2>1. TaskInOrder /\ home[x] \in Process
    BY <1>1 DEF SkipIInv, IInv, TypeOK
  <2>2. orderly' => \A p \in Process : history'[p] # {} => \E g \in history'[p] : g.final
    BY <1>1, <1>2, <2>1 DEF TaskInOrder
  <2>3. Worker \notin InFlight' /\ closed'
    BY <1>1, <1>2, <2>1 DEF TaskInOrder
  <2> QED
    BY <1>1, <1>2, <2>2, <2>3 DEF TaskInOrder
<1>4. IInv' /\ IsFiniteSet(log')
  BY <1>1, CallerPublishesStep DEF SkipIInv
<1> QED
  BY <1>2, <1>3, <1>4 DEF SkipIInv

\* What is recorded in order could have been; where it is not, order is lost.
LEMMA RecordingSkips ==
  ASSUME SkipIInv, NEW x \in Publisher, Record(x) \/ Collide(x) \/ RecordFails(x)
  PROVE  SkipIInv'
<1> DEFINE e == publishing[x].event
<1>1. /\ publishing[x].phase = "recording" /\ publishing' = [publishing EXCEPT ![x].phase = "fanning"]
      /\ UNCHANGED <<closed, count, history, queue, home, task, published, pc, at, batch, sawEnd,
                     cursor, timeline, lossy>>
      /\ orderly' => orderly
      /\ \/ log' = log \cup {e} /\ (orderly' => \A r \in log : r.seq < e.seq)
         \/ log' = log
  <2>1. CASE Record(x)
    <3>1. orderly' => orderly /\ \A r \in log : r.seq < e.seq
      BY <2>1 DEF Record
    <3> QED
      BY <2>1, <3>1 DEF Record, busVars, streamVars, Moves
  <2>2. CASE Collide(x) \/ RecordFails(x)
    BY <2>2 DEF Collide, RecordFails, busVars, streamVars, Moves
  <2> QED
    BY <2>1, <2>2
<1>2. IInv /\ TaskInOrder /\ OneBus /\ IsFiniteSet(log)
  BY DEF SkipIInv
<1>3. publishing \in [Publisher -> Phases] /\ x \in InFlight /\ e \in Known
  BY <1>1, <1>2, TypesSplit, KnownEvents DEF IInv, ServerTypes, InFlight
<1>4. /\ publishing'[x].event = e /\ publishing'[x].phase = "fanning"
      /\ \A y \in Publisher : y # x => publishing'[y] = publishing[y]
      /\ \A y \in Publisher : publishing'[y].event = publishing[y].event
  BY <1>1, <1>3 DEF Phases
<1>5. InFlight' = InFlight
  BY <1>1, <1>4 DEF InFlight
<1> HIDE DEF e
<1>6. Known' \subseteq Known
  <2>1. \A c \in Client : Queued(c)' = Queued(c)
    BY <1>1 DEF Queued
  <2>2. log' \subseteq Known /\ \A y \in InFlight' : publishing'[y].event \in Known
    BY <1>1, <1>2, <1>3, <1>4, <1>5, KnownEvents
  <2> QED
    BY <1>1, <1>2, <2>1, <2>2, KnownEvents, KnownWithin
<1>7. orderly' => Recordable' \subseteq Recordable
  <2> SUFFICES ASSUME orderly', NEW f \in Recordable' PROVE f \in Recordable
    OBVIOUS
  <2>1. f \in Known
    BY <1>6 DEF Recordable
  <2>2. CASE f \in log'
    BY <1>1, <2>1, <2>2 DEF Recordable, e
  <2>3. ASSUME NEW y \in Publisher, publishing'[y].phase = "recording", publishing'[y].event = f,
               \A r \in log' : r.seq < f.seq
        PROVE  f \in Recordable
    <3>1. publishing[y] = publishing'[y]
      BY <1>4, <2>3
    <3>2. \A r \in log : r.seq < f.seq
      BY <1>1, <2>3
    <3> QED
      BY <2>1, <2>3, <3>1, <3>2 DEF Recordable
  <2> QED
    BY <2>2, <2>3 DEF Recordable
<1>8. Recedes
  BY <1>1, <1>4, <1>5, <1>6 DEF Recedes, Forgets, Continues, InFlight
<1>9. OneBus' /\ TaskInOrder'
  BY <1>1, <1>2, <1>8, OneBusRecedes, TaskRecedes
<1>10. ASSUME orderly', NEW c \in Client PROVE Follows(c)'
  <2>1. LosesNothing(c)
    BY <1>1, <1>4, <1>5 DEF LosesNothing, InFlight
  <2>2. orderly /\ Follows(c)
    BY <1>1, <1>10 DEF SkipIInv
  <2> QED
    BY <1>1, <1>2, <1>6, <1>7, <1>10, <2>1, <2>2, StandsStill
<1>11. IsFiniteSet(log')
  BY <1>1, <1>2, FS_AddElement
<1>12. IInv'
  BY <1>2, RecordingStep
<1> QED
  BY <1>9, <1>10, <1>11, <1>12 DEF SkipIInv

\* What a queue of which the first entry is dropped or taken still holds.
Holds(q, b, n, es) ==
  \A i \in DOMAIN q : q[i] # End =>
    \/ Ends(b \cup Before(q, i), n)
    \/ \A f \in es : f.seq > n /\ f.seq < q[i].seq => f \in b \cup Before(q, i)
HoldsAll(q, b, n, es) ==
  \/ Ends(b \cup Before(q, Len(q) + 1), n)
  \/ \A f \in es : f.seq > n => f \in b \cup Before(q, Len(q) + 1)

\* What is not with the task of what a stream's bus remembers.
Left(c) == {f \in history[at[c]] : ~(Worker \in InFlight /\ f = publishing[Worker].event)}

LEMMA TailHolds ==
  ASSUME NEW q \in Queues, q # <<>>, NEW b \in SUBSET Event, NEW n \in Nat, NEW es, NEW fs,
         Head(q) # End => ~(Head(q).seq > n),
         Holds(q, b, n, es), HoldsAll(q, b, n, fs)
  PROVE  Holds(Tail(q), b, n, es) /\ HoldsAll(Tail(q), b, n, fs)
<1> DEFINE r == Tail(q)
<1>1. /\ DOMAIN q = 1..Len(q) /\ Len(q) \in Nat \ {0}
      /\ DOMAIN r = 1..Len(q) - 1 /\ Len(r) = Len(q) - 1
      /\ \A i \in 1..Len(q) - 1 : r[i] = q[i + 1]
      /\ \A i \in 1..Len(q) : Before(q, i + 1) = Before(r, i) \cup ({Head(q)} \ {End})
  BY BeforeTail
<1> HIDE DEF r
<1>2. \A i \in 1..Len(q) :
        /\ \A f : f \in b \cup Before(q, i + 1) /\ f.seq > n => f \in b \cup Before(r, i)
        /\ Ends(b \cup Before(q, i + 1), n) => Ends(b \cup Before(r, i), n)
  BY <1>1 DEF Ends
<1>3. Holds(r, b, n, es)
  <2> SUFFICES ASSUME NEW i \in DOMAIN r, r[i] # End
               PROVE  \/ Ends(b \cup Before(r, i), n)
                      \/ \A f \in es : f.seq > n /\ f.seq < r[i].seq => f \in b \cup Before(r, i)
    BY DEF Holds
  <2>1. i + 1 \in DOMAIN q /\ q[i + 1] = r[i] /\ i \in 1..Len(q)
    BY <1>1
  <2>2. \/ Ends(b \cup Before(q, i + 1), n)
        \/ \A f \in es : f.seq > n /\ f.seq < r[i].seq => f \in b \cup Before(q, i + 1)
    BY <2>1 DEF Holds
  <2> QED
    BY <1>2, <2>1, <2>2
<1>4. HoldsAll(r, b, n, fs)
  <2>1. Len(r) + 1 = Len(q) /\ Len(q) \in 1..Len(q)
    BY <1>1
  <2>2. \/ Ends(b \cup Before(q, Len(q) + 1), n)
        \/ \A f \in fs : f.seq > n => f \in b \cup Before(q, Len(q) + 1)
    BY DEF HoldsAll
  <2>3. \/ Ends(b \cup Before(r, Len(q)), n)
        \/ \A f \in fs : f.seq > n => f \in b \cup Before(r, Len(q))
    BY <1>2, <2>1, <2>2
  <2> QED
    BY <2>1, <2>3 DEF HoldsAll
<1> QED
  BY <1>3, <1>4 DEF r

LEMMA HoldsIs ==
  ASSUME NEW c \in Client, pc[c] = "tailing"
  PROVE  /\ QueueHasAll(c) <=> Holds(queue[c], batch[c], cursor[c], Known)
         /\ Awaited(c) <=> HoldsAll(queue[c], batch[c], cursor[c], Left(c))
<1>1. QueueHasAll(c) <=> Holds(queue[c], batch[c], cursor[c], Known)
  BY DEF QueueHasAll, Holds, Ahead
<1>2. Awaited(c) <=> HoldsAll(queue[c], batch[c], cursor[c], Left(c))
  BY DEF Awaited, HoldsAll, Pending, Ahead, Left
<1> QED
  BY <1>1, <1>2

LEMMA FanOutSkips == ASSUME SkipIInv, NEW x \in Publisher, FanOut(x) PROVE SkipIInv'
<1> DEFINE e == publishing[x].event
           to == Subscribers(home[x])
           Put(q) == Append(IF Len(q) = QueueSize THEN Tail(q) ELSE q, e)
<1>1. /\ publishing[x].phase = "fanning"
      /\ queue' = [c \in Client |-> IF c \in to THEN Put(queue[c]) ELSE queue[c]]
      /\ lossy' = lossy \cup {c \in to : /\ Full(c)
                                         /\ Head(queue[c]) # End
                                         /\ Head(queue[c]).seq > cursor[c]}
      /\ publishing' = [publishing EXCEPT ![x] = Quiet]
      /\ UNCHANGED <<closed, log, count, history, home, task, published, pc, at, batch, sawEnd,
                     cursor, timeline, orderly>>
  BY DEF FanOut, busVars, streamVars
<1>2. IInv /\ TaskInOrder /\ OneBus /\ IsFiniteSet(log)
  BY DEF SkipIInv
<1>3. /\ publishing \in [Publisher -> Phases] /\ home[x] \in Process /\ x \in InFlight /\ e \in Known
      /\ e \in Event /\ e # End /\ QueueSize \in Nat \ {0}
      /\ queue \in [Client -> Queues] /\ cursor \in [Client -> Nat] /\ batch \in [Client -> SUBSET Event]
      /\ \A c \in Client : Len(queue[c]) <= QueueSize /\ Len(queue[c]) \in Nat
  <2>1. x \in InFlight
    BY <1>1 DEF InFlight
  <2>2. \A q \in Queues : Len(q) \in Nat
    BY DEF Queues
  <2>3. /\ publishing \in [Publisher -> Phases] /\ home[x] \in Process
        /\ queue \in [Client -> Queues] /\ cursor \in [Client -> Nat] /\ batch \in [Client -> SUBSET Event]
        /\ \A c \in Client : Len(queue[c]) <= QueueSize
    BY <1>2, TypesSplit DEF IInv, ServerTypes, QueueTypes, StreamTypes
  <2>4. e \in Known /\ e \in Event /\ e # End
    BY <1>2, <2>1, KnownEvents, StreamAssumption
  <2> QED
    BY <2>1, <2>2, <2>3, <2>4, StreamAssumption
<1>4. /\ publishing'[x] = Quiet /\ InFlight' = InFlight \ {x}
      /\ \A y \in Publisher : y # x => publishing'[y] = publishing[y]
  <2>1. publishing'[x] = Quiet /\ \A y \in Publisher : y # x => publishing'[y] = publishing[y]
    BY <1>1, <1>3
  <2> QED
    BY <2>1 DEF InFlight, Quiet
<1> HIDE DEF e
\* The queue of a subscriber, one entry dropped if it is full.
<1> DEFINE kept(c) == IF Len(queue[c]) = QueueSize THEN Tail(queue[c]) ELSE queue[c]
<1>5. ASSUME NEW c \in to
      PROVE  /\ c \in Client /\ pc[c] = "tailing" /\ at[c] = home[x]
             /\ kept(c) \in Queues /\ queue'[c] = Append(kept(c), e)
             /\ \A i \in DOMAIN kept(c) : \E j \in DOMAIN queue[c] : kept(c)[i] = queue[c][j]
  <2>1. c \in Client /\ pc[c] = "tailing" /\ at[c] = home[x]
    BY DEF Subscribers
  <2>2. queue'[c] = Append(kept(c), e)
    BY <1>1, <2>1
  <2>3. CASE Len(queue[c]) = QueueSize
    <3>1. queue[c] \in Queues /\ queue[c] # <<>>
      BY <1>3, <2>1, <2>3
    <3>2. /\ DOMAIN queue[c] = 1..Len(queue[c]) /\ Len(queue[c]) \in Nat \ {0}
          /\ DOMAIN Tail(queue[c]) = 1..Len(queue[c]) - 1
          /\ \A i \in 1..Len(queue[c]) - 1 : Tail(queue[c])[i] = queue[c][i + 1]
      BY <3>1, BeforeTail
    <3>3. \A i \in DOMAIN Tail(queue[c]) : i + 1 \in DOMAIN queue[c] /\ Tail(queue[c])[i] = queue[c][i + 1]
      BY <3>2
    <3>4. Tail(queue[c]) \in Queues
      BY <3>1 DEF Queues
    <3> QED
      BY <2>1, <2>2, <2>3, <3>3, <3>4
  <2>4. CASE Len(queue[c]) # QueueSize
    BY <1>3, <2>1, <2>2, <2>4
  <2> QED
    BY <2>3, <2>4
<1> HIDE DEF kept
<1>6. Known' \subseteq Known
  <2>1. ASSUME NEW c \in Client PROVE Queued(c)' \subseteq Known
    <3>1. CASE c \notin to
      <4>1. queue'[c] = queue[c]
        BY <1>1, <3>1
      <4> QED
        BY <1>2, <4>1, KnownEvents DEF Queued
    <3>2. CASE c \in to
      <4> SUFFICES ASSUME NEW i \in DOMAIN queue'[c], queue'[c][i] # End PROVE queue'[c][i] \in Known
        BY DEF Queued
      <4>1. /\ DOMAIN kept(c) = 1..Len(kept(c)) /\ Len(kept(c)) \in Nat
            /\ DOMAIN queue'[c] = 1..Len(kept(c)) + 1
            /\ \A j \in 1..Len(kept(c)) : queue'[c][j] = kept(c)[j]
            /\ queue'[c][Len(kept(c)) + 1] = e
        <5>1. kept(c) \in Queues /\ queue'[c] = Append(kept(c), e) /\ e \in Event \cup {End}
          BY <1>3, <1>5, <3>2
        <5> HIDE DEF kept
        <5> QED
          BY <5>1, BeforeAppend
      <4>2. CASE i = Len(kept(c)) + 1
        BY <1>3, <4>1, <4>2
      <4>3. CASE i \in DOMAIN kept(c)
        <5>1. PICK j \in DOMAIN queue[c] : kept(c)[i] = queue[c][j]
          BY <1>5, <3>2, <4>3
        <5> QED
          BY <1>2, <4>1, <4>3, <5>1, KnownEvents
      <4> QED
        BY <4>1, <4>2, <4>3
    <3> QED
      BY <3>1, <3>2
  <2>2. \A y \in InFlight' : publishing'[y].event \in Known
    BY <1>2, <1>4, KnownEvents
  <2> QED
    BY <1>1, <1>2, <2>1, <2>2, KnownEvents, KnownWithin
<1>7. Recordable' \subseteq Recordable
  <2>1. \A y \in Publisher : publishing'[y].phase = "recording" => publishing'[y] = publishing[y]
    BY <1>4 DEF Quiet
  <2> QED
    BY <1>1, <1>6, <2>1 DEF Recordable
<1>8. Recedes
  BY <1>1, <1>4, <1>6 DEF Recedes, Forgets, Continues, InFlight
<1>9. OneBus' /\ TaskInOrder'
  BY <1>1, <1>2, <1>8, OneBusRecedes, TaskRecedes
<1>10. ASSUME orderly', NEW c \in Client PROVE Follows(c)'
  <2>1. orderly /\ Follows(c)
    BY <1>1, <1>10 DEF SkipIInv
  <2>2. e \in history[home[x]]
    BY <1>2, <1>3, <2>1 DEF OneBus, e
  <2>3. CASE c \notin to
    <3>1. queue'[c] = queue[c] /\ (c \notin lossy' => c \notin lossy)
      BY <1>1, <2>3
    <3>2. pc[c] = "tailing" => at[c] # home[x] /\ at[c] \in Process
      BY <1>2, <2>3 DEF Subscribers, IInv, TypeOK
    <3>3. pc[c] = "tailing" => history[at[c]] = {}
      BY <1>2, <1>3, <2>1, <2>2, <3>2 DEF OneBus
    <3>4. LosesNothing(c)
      BY <1>1, <3>1, <3>3 DEF LosesNothing
    <3> QED
      BY <1>1, <1>2, <1>6, <1>7, <2>1, <3>1, <3>4, StandsStill
  <2>4. CASE c \in to
    <3> DEFINE r == kept(c)
               n == cursor[c]
    <3>1. /\ pc[c] = "tailing" /\ at[c] = home[x] /\ r \in Queues /\ queue'[c] = Append(r, e)
      BY <1>5, <2>4
    <3>2. cursor'[c] <= published'
      BY <1>1, <2>1 DEF Follows
    <3> SUFFICES ASSUME c \notin lossy'
                 PROVE  (NotPastEnd(c) /\ BatchHasAll(c) /\ QueueHasAll(c) /\ Awaited(c) /\ HasAll(c))'
      BY <1>1, <3>1, <3>2 DEF Follows
    <3>3. NotPastEnd(c) /\ BatchHasAll(c) /\ QueueHasAll(c) /\ Awaited(c) /\ HasAll(c)
      BY <1>1, <2>1 DEF Follows
    <3>4. NotPastEnd(c)' /\ BatchHasAll(c)' /\ HasAll(c)'
      BY <1>1, <1>6, <1>7, <3>3 DEF NotPastEnd, BatchHasAll, HasAll
    <3>5. Holds(r, batch[c], n, Known) /\ HoldsAll(r, batch[c], n, Left(c))
      <4>1. Holds(queue[c], batch[c], n, Known) /\ HoldsAll(queue[c], batch[c], n, Left(c))
        BY <3>1, <3>3, HoldsIs
      <4>2. CASE Len(queue[c]) # QueueSize
        BY <4>1, <4>2 DEF kept
      <4>3. CASE Len(queue[c]) = QueueSize
        <5>1. queue[c] \in Queues /\ queue[c] # <<>> /\ batch[c] \in SUBSET Event /\ n \in Nat
          BY <1>3, <4>3
        <5>2. Head(queue[c]) # End => ~(Head(queue[c]).seq > n)
          BY <1>1, <2>4, <4>3 DEF Full
        <5>3. Holds(Tail(queue[c]), batch[c], n, Known) /\ HoldsAll(Tail(queue[c]), batch[c], n, Left(c))
          BY <4>1, <5>1, <5>2, TailHolds
        <5> QED
          BY <4>3, <5>3 DEF kept
      <4> QED
        BY <4>2, <4>3
    <3> HIDE DEF r
    <3>6. /\ DOMAIN r = 1..Len(r) /\ Len(r) \in Nat
          /\ DOMAIN queue'[c] = 1..Len(r) + 1 /\ Len(queue'[c]) = Len(r) + 1
          /\ \A i \in 1..Len(r) : queue'[c][i] = r[i]
          /\ queue'[c][Len(r) + 1] = e
          /\ \A i \in 1..Len(r) + 1 : Before(queue'[c], i) = Before(r, i)
          /\ Before(queue'[c], Len(r) + 2) = Before(r, Len(r) + 1) \cup {e}
      <4>1. {e} \ {End} = {e} /\ e \in Event \cup {End} /\ r \in Queues
        BY <1>3, <3>1
      <4>2. /\ DOMAIN r = 1..Len(r) /\ Len(r) \in Nat
            /\ DOMAIN Append(r, e) = 1..Len(r) + 1 /\ Len(Append(r, e)) = Len(r) + 1
            /\ \A i \in 1..Len(r) : Append(r, e)[i] = r[i]
            /\ Append(r, e)[Len(r) + 1] = e
            /\ \A i \in 1..Len(r) + 1 : Before(Append(r, e), i) = Before(r, i)
            /\ Before(Append(r, e), Len(r) + 2) = Before(r, Len(r) + 1) \cup ({e} \ {End})
        BY <4>1, BeforeAppend
      <4> QED
        BY <3>1, <4>1, <4>2
    \* The task has nothing else on its way, and a caller is not overtaken by it.
    <3>7. \A f \in history[at[c]] : f \in Left(c) \/ f = e
      <4>1. CASE x = Worker
        BY <4>1 DEF Left, e
      <4>2. CASE x # Worker
        <5>1. Worker \notin InFlight
          BY <1>2, <1>3, <4>2 DEF TaskInOrder
        <5> QED
          BY <5>1 DEF Left
      <4> QED
        BY <4>1, <4>2
    <3> DEFINE all == batch[c] \cup Before(r, Len(r) + 1)
    <3>8. Ends(all, n) \/ \A f \in history[at[c]] : f.seq > n => f \in all \/ f = e
      BY <3>5, <3>7 DEF HoldsAll
    <3>9. Holds(queue'[c], batch[c], n, Known')
      <4> SUFFICES ASSUME NEW i \in DOMAIN queue'[c], queue'[c][i] # End
                   PROVE  \/ Ends(batch[c] \cup Before(queue'[c], i), n)
                          \/ \A f \in Known' : f.seq > n /\ f.seq < queue'[c][i].seq
                               => f \in batch[c] \cup Before(queue'[c], i)
        BY DEF Holds
      <4>1. i \in 1..Len(r) + 1 /\ Before(queue'[c], i) = Before(r, i)
        BY <3>6
      <4>2. CASE i \in 1..Len(r)
        <5>1. queue'[c][i] = r[i] /\ i \in DOMAIN r
          BY <3>6, <4>2
        <5>2. \/ Ends(batch[c] \cup Before(r, i), n)
              \/ \A f \in Known : f.seq > n /\ f.seq < r[i].seq => f \in batch[c] \cup Before(r, i)
          BY <3>5, <5>1 DEF Holds
        <5> QED
          BY <1>6, <4>1, <5>1, <5>2
      <4>3. CASE i = Len(r) + 1
        <5>1. queue'[c][i] = e /\ e.seq \in Nat
          BY <1>2, <1>3, <3>6, <4>3, KnownEvents
        <5>2. \A f \in Known' : f \in history[at[c]]
          BY <1>2, <1>3, <1>6, <2>1, <2>2, <3>1 DEF OneBus
        <5>3. \A f \in Known' : f.seq < e.seq => f # e
          BY <5>1
        <5> HIDE DEF Known
        <5> QED
          BY <3>8, <4>1, <4>3, <5>1, <5>2, <5>3
      <4> QED
        BY <3>6, <4>1, <4>2, <4>3
    <3>10. HoldsAll(queue'[c], batch[c], n, history[at[c]])
      <4>1. Len(queue'[c]) + 1 = Len(r) + 2
        BY <3>6
      <4>2. batch[c] \cup Before(queue'[c], Len(r) + 2) = all \cup {e}
        BY <3>6
      <4>3. Ends(all \cup {e}, n) \/ \A f \in history[at[c]] : f.seq > n => f \in all \cup {e}
        BY <3>8 DEF Ends
      <4> QED
        BY <4>1, <4>2, <4>3 DEF HoldsAll
    <3>11. QueueHasAll(c)'
      BY <1>1, <3>9 DEF QueueHasAll, Holds, Ahead
    <3>12. Awaited(c)'
      BY <1>1, <3>10 DEF Awaited, HoldsAll, Pending, Ahead
    <3> QED
      BY <3>4, <3>11, <3>12
  <2> QED
    BY <2>3, <2>4
<1>11. IInv'
  BY <1>2, FanOutStep
<1> QED
  BY <1>1, <1>2, <1>9, <1>10, <1>11 DEF SkipIInv

\* A bus closes and forgets a run that nobody is publishing for, or fails to.
LEMMA BusSkips ==
  ASSUME SkipIInv, NEW p \in Process, BusCloses(p) \/ BusCloseRaises(p),
         UNCHANGED <<closed, log, home, publishing, published, pc, at, batch, sawEnd, cursor,
                     timeline, lossy>>
  PROVE  /\ OneBus' /\ Recedes /\ InFlight' = InFlight
         /\ orderly' => \A c \in Client : Follows(c)'
<1> DEFINE hears(c) == (queue'[c] = queue[c]) \/ (queue'[c] = Append(queue[c], End) /\ pc[c] = "tailing")
<1>1. /\ \A c \in Client : hears(c)
      /\ orderly' => orderly
      /\ \A q \in Process : Forgets(q)
      /\ orderly' => \A x \in InFlight : history'[home[x]] = history[home[x]]
  <2>1. /\ history \in [Process -> SUBSET Event] /\ count \in [Process -> Nat]
        /\ home \in [Publisher -> Process]
    BY DEF SkipIInv, IInv, TypeOK
  <2>2. CASE BusCloses(p)
    <3>1. /\ count' = [count EXCEPT ![p] = 0] /\ history' = [history EXCEPT ![p] = {}]
          /\ queue' = [c \in Client |->
                IF c \in Subscribers(p) THEN Append(queue[c], End) ELSE queue[c]]
      BY <2>2 DEF BusCloses
    <3>5. \A c \in Client : hears(c)
      BY <3>1 DEF Subscribers
    <3> HIDE DEF hears
    <3>2. orderly' => orderly /\ \A x \in Publisher : home[x] = p => publishing[x] = Quiet
      BY <2>2 DEF BusCloses
    <3>3. orderly' => \A x \in InFlight : home[x] # p /\ home[x] \in Process
      BY <2>1, <3>2 DEF InFlight, Quiet
    <3>4. \A q \in Process : /\ q = p => history'[q] = {} /\ count'[q] = 0
                             /\ q # p => history'[q] = history[q] /\ count'[q] = count[q]
      BY <2>1, <3>1
    <3> QED
      BY <3>2, <3>3, <3>4, <3>5 DEF Forgets
  <2>3. CASE BusCloseRaises(p)
    <3>1. PICK told \in SUBSET {c \in Subscribers(p) : ~Full(c)} :
            queue' = [c \in Client |-> IF c \in told THEN Append(queue[c], End) ELSE queue[c]]
      BY <2>3 DEF BusCloseRaises
    <3>2. \A c \in Client : hears(c)
      BY <3>1 DEF Subscribers
    <3> HIDE DEF hears
    <3>3. history' = history /\ count' = count /\ orderly' = orderly
      BY <2>3 DEF BusCloseRaises, busVars
    <3> QED
      BY <3>2, <3>3 DEF Forgets
  <2> HIDE DEF hears
  <2> QED
    BY <2>2, <2>3
<1>2. IInv /\ OneBus /\ InFlight' = InFlight
  BY DEF SkipIInv, InFlight
<1>3. Known' \subseteq Known
  <2>1. ASSUME NEW c \in Client PROVE Queued(c)' \subseteq Known
    <3>1. CASE queue'[c] = queue[c]
      BY <1>2, <3>1, KnownEvents DEF Queued
    <3>2. CASE queue'[c] = Append(queue[c], End)
      <4> SUFFICES ASSUME NEW i \in DOMAIN queue'[c], queue'[c][i] # End PROVE queue'[c][i] \in Known
        BY DEF Queued
      <4>1. queue[c] \in Queues
        BY <1>2, TypesSplit DEF IInv, QueueTypes
      <4>2. /\ DOMAIN queue[c] = 1..Len(queue[c]) /\ Len(queue[c]) \in Nat
            /\ DOMAIN queue'[c] = 1..Len(queue[c]) + 1
            /\ \A j \in 1..Len(queue[c]) : queue'[c][j] = queue[c][j]
            /\ queue'[c][Len(queue[c]) + 1] = End
        BY <3>2, <4>1, BeforeAppend
      <4>3. i \in DOMAIN queue[c] /\ queue'[c][i] = queue[c][i]
        BY <4>2
      <4> QED
        BY <1>2, <4>3, KnownEvents
    <3> QED
      BY <1>1, <3>1, <3>2
  <2>2. \A q \in Process : history'[q] \subseteq Known
    BY <1>1, <1>2, KnownEvents DEF Forgets
  <2> QED
    BY <1>2, <2>1, <2>2, KnownEvents, KnownWithin
<1>4. Recordable' \subseteq Recordable
  BY <1>3 DEF Recordable
<1>5. Recedes
  BY <1>1, <1>2, <1>3 DEF Recedes, Continues
<1>6. OneBus'
  BY <1>2, <1>5, OneBusRecedes
<1>7. ASSUME orderly', NEW c \in Client PROVE Follows(c)'
  <2>1. orderly /\ Follows(c) /\ at[c] \in Process
    BY <1>1, <1>2, <1>7 DEF SkipIInv, IInv, TypeOK
  <2>2. LosesNothing(c)
    BY <1>1, <1>2, <2>1 DEF LosesNothing, Forgets
  <2>3. CASE queue'[c] = queue[c]
    BY <1>2, <1>3, <1>4, <2>1, <2>2, <2>3, StandsStill
  <2>4. CASE queue'[c] = Append(queue[c], End) /\ pc[c] = "tailing"
    BY <1>2, <1>3, <1>4, <2>1, <2>2, <2>4, StandsTold
  <2> QED
    BY <1>1, <2>3, <2>4
<1> QED
  BY <1>2, <1>5, <1>6, <1>7

LEMMA WorkerClosesSkips == ASSUME SkipIInv, WorkerCloses PROVE SkipIInv'
<1>1. /\ task = "closing" /\ task' = "gone" /\ home[Worker] \in Process
      /\ BusCloses(home[Worker]) \/ BusCloseRaises(home[Worker])
      /\ UNCHANGED <<closed, log, home, publishing, published, pc, at, batch, sawEnd, cursor,
                     timeline, lossy>>
  BY DEF WorkerCloses, streamVars, SkipIInv, IInv, TypeOK, Publisher
<1>2. /\ OneBus' /\ Recedes /\ InFlight' = InFlight
      /\ orderly' => \A c \in Client : Follows(c)'
  BY <1>1, BusSkips
<1>3. TaskInOrder'
  <2>1. TaskInOrder
    BY DEF SkipIInv
  <2>2. \A p \in Process : history'[p] # {} => history'[p] = history[p]
    BY <1>2 DEF Recedes, Forgets
  <2>3. (orderly' => orderly)
    BY <1>2 DEF Recedes
  <2> QED
    BY <1>1, <1>2, <2>1, <2>2, <2>3 DEF TaskInOrder
<1>4. IInv' /\ IsFiniteSet(log')
  BY <1>1, FinaliseStep DEF SkipIInv
<1> QED
  BY <1>2, <1>3, <1>4 DEF SkipIInv

LEMMA TeardownSkips == ASSUME SkipIInv, NEW o \in Operator, Teardown(o) PROVE SkipIInv'
<1>1. IInv' /\ task' = task /\ log' = log
  BY TeardownStep DEF SkipIInv, Teardown, TeardownRead, TeardownCloses, TeardownRaises,
     TeardownCommits, TeardownAborts, workVars
<1>2. Recedes /\ OneBus' /\ (orderly' => \A c \in Client : Follows(c)')
  <2>1. CASE TeardownCloses(o) \/ TeardownRaises(o)
    <3>1. teardown[o].at \in Process
      BY TypesSplit, CallType DEF SkipIInv, IInv, ServerTypes
    <3>2. /\ BusCloses(teardown[o].at) \/ BusCloseRaises(teardown[o].at)
          /\ UNCHANGED <<closed, log, home, publishing, published, pc, at, batch, sawEnd, cursor,
                         timeline, lossy>>
      BY <2>1 DEF TeardownCloses, TeardownRaises, workVars, streamVars
    <3> QED
      BY <3>1, <3>2, BusSkips
  <2>2. CASE (\E p \in Process : TeardownRead(o, p)) \/ TeardownCommits(o) \/ TeardownAborts(o)
    <3>1. /\ UNCHANGED <<log, count, history, queue, home, publishing, published, pc, at, batch, sawEnd,
                         cursor, timeline, lossy, orderly>>
          /\ closed => closed'
      BY <2>2 DEF TeardownRead, TeardownCommits, TeardownAborts, busVars, workVars, streamVars
    <3> QED
      BY <3>1, NothingHappens
  <2> QED
    BY <2>1, <2>2 DEF Teardown
<1>3. TaskInOrder'
  BY <1>1, <1>2, TaskRecedes DEF SkipIInv
<1> QED
  BY <1>1, <1>2, <1>3 DEF SkipIInv

-----------------------------------------------------------------------------
(* The streams' actions, and nothing is skipped *)

\* A stream that is cut has nothing left to miss.
LEMMA CutOff ==
  ASSUME IInv, orderly, NEW c \in Client, Follows(c), pc[c] # "done",
         Known' \subseteq Known, Recordable' \subseteq Recordable, published' = published,
         closed => closed', c \notin lossy' => c \notin lossy,
         cursor'[c] = cursor[c], timeline'[c] = timeline[c],
         pc'[c] = "off", batch'[c] = {}, queue'[c] = <<>>
  PROVE  Follows(c)'
<1>1. cursor'[c] <= published' /\ (pc'[c] # "tailing" => queue'[c] = <<>>)
  BY DEF Follows
<1> SUFFICES ASSUME c \notin lossy'
             PROVE  (NotPastEnd(c) /\ BatchHasAll(c) /\ QueueHasAll(c) /\ Awaited(c) /\ HasAll(c))'
  BY <1>1 DEF Follows
<1>2. NotPastEnd(c) /\ HasAll(c)
  BY DEF Follows
<1> QED
  BY <1>2 DEF NotPastEnd, BatchHasAll, QueueHasAll, Awaited, HasAll

LEMMA CrashSkips == ASSUME SkipIInv, NEW p \in Process, Crash(p) PROVE SkipIInv'
<1> DEFINE cs == {c \in Client : at[c] = p /\ pc[c] \notin {"off", "done"}}
<1>1. /\ count' = [count EXCEPT ![p] = 0] /\ history' = [history EXCEPT ![p] = {}]
      /\ pc' = [c \in Client |-> IF c \in cs THEN "off" ELSE pc[c]]
      /\ batch' = [c \in Client |-> IF c \in cs THEN {} ELSE batch[c]]
      /\ queue' = [c \in Client |-> IF c \in cs THEN <<>> ELSE queue[c]]
      /\ sawEnd' = [c \in Client |-> IF c \in cs THEN FALSE ELSE sawEnd[c]]
      /\ at' = [c \in Client |-> IF c \in cs THEN home[Worker] ELSE at[c]]
      /\ publishing' = [x \in Publisher |-> IF home[x] = p THEN Quiet ELSE publishing[x]]
      /\ UNCHANGED <<closed, log, home, published, lossy, orderly, cursor, timeline>>
  BY DEF Crash, Cut
<1>2. IInv /\ TaskInOrder /\ OneBus
  BY DEF SkipIInv
<1>3. /\ history \in [Process -> SUBSET Event] /\ count \in [Process -> Nat]
      /\ home \in [Publisher -> Process] /\ at \in [Client -> Process] /\ Worker \in Publisher
      /\ task \in TaskPc
  BY <1>2 DEF IInv, TypeOK, Publisher
<1>4. /\ history'[p] = {} /\ count'[p] = 0
      /\ \A q \in Process : q # p => history'[q] = history[q] /\ count'[q] = count[q]
  BY <1>1, <1>3
<1>5. /\ \A x \in Publisher : publishing'[x] = IF home[x] = p THEN Quiet ELSE publishing[x]
      /\ InFlight' = {x \in InFlight : home[x] # p}
  <2>1. \A x \in Publisher : publishing'[x] = IF home[x] = p THEN Quiet ELSE publishing[x]
    BY <1>1
  <2> QED
    BY <2>1 DEF InFlight, Quiet
<1>6. /\ \A c \in cs : c \in Client /\ pc[c] # "done" /\ pc'[c] = "off" /\ batch'[c] = {} /\ queue'[c] = <<>>
      /\ \A c \in Client : c \notin cs =>
           /\ pc'[c] = pc[c] /\ at'[c] = at[c] /\ batch'[c] = batch[c] /\ sawEnd'[c] = sawEnd[c]
           /\ queue'[c] = queue[c]
  BY <1>1
<1> HIDE DEF cs
<1>7. Known' \subseteq Known
  <2>1. \A c \in Client : Queued(c)' \subseteq Known /\ batch'[c] \subseteq Known
    <3>1. ASSUME NEW c \in Client PROVE Queued(c)' \subseteq Queued(c) /\ batch'[c] \subseteq batch[c]
      BY <1>6 DEF Queued
    <3> QED
      BY <1>2, <3>1, KnownEvents
  <2>2. \A q \in Process : history'[q] \subseteq Known
    BY <1>2, <1>4, KnownEvents
  <2>3. \A x \in InFlight' : publishing'[x].event \in Known
    <3>1. \A x \in InFlight' : x \in InFlight /\ x \in Publisher /\ publishing'[x] = publishing[x]
      BY <1>5 DEF InFlight
    <3> QED
      BY <1>2, <3>1, KnownEvents
  <2> QED
    BY <1>1, <1>2, <2>1, <2>2, <2>3, KnownEvents, KnownWithin
<1>8. Recordable' \subseteq Recordable
  <2>1. \A y \in Publisher : publishing'[y].phase = "recording" => publishing'[y] = publishing[y]
    BY <1>5 DEF Quiet
  <2> QED
    BY <1>1, <1>7, <2>1 DEF Recordable
<1>9. Recedes
  <2>1. \A x \in InFlight' : Continues(x)
    <3>1. \A x \in InFlight' : /\ x \in InFlight /\ publishing'[x] = publishing[x]
                               /\ home[x] # p /\ home[x] \in Process
      BY <1>3, <1>5 DEF InFlight
    <3> QED
      BY <1>4, <3>1 DEF Continues
  <2>2. \A q \in Process : Forgets(q)
    BY <1>4 DEF Forgets
  <2> QED
    BY <1>1, <1>7, <2>1, <2>2 DEF Recedes
<1>10. OneBus'
  BY <1>2, <1>9, OneBusRecedes
<1>11. TaskInOrder'
  <2>1. task' = IF home[Worker] = p
                  THEN IF task \in {"closing", "gone"} THEN "gone" ELSE "lost"
                  ELSE task
    BY DEF Crash
  <2>2. InFlight' \subseteq InFlight /\ (home[Worker] = p => Worker \notin InFlight')
    BY <1>5
  <2>3. \A q \in Process : history'[q] # {} => history'[q] = history[q]
    BY <1>4
  <2>4. CASE home[Worker] # p
    BY <1>1, <1>2, <1>9, <2>1, <2>4, TaskRecedes
  <2>5. CASE home[Worker] = p /\ task \in {"closing", "gone"}
    <3>1. task' = "gone"
      BY <2>1, <2>5
    <3> QED
      BY <1>1, <1>2, <2>2, <2>3, <2>5, <3>1 DEF TaskInOrder
  <2>6. CASE home[Worker] = p /\ task \notin {"closing", "gone"}
    <3>1. task' = "lost" /\ \A x \in InFlight : x = Worker
      BY <1>2, <2>1, <2>6 DEF TaskInOrder
    <3> QED
      BY <2>2, <2>6, <3>1 DEF TaskInOrder
  <2> QED
    BY <2>4, <2>5, <2>6
<1>12. ASSUME orderly', NEW c \in Client PROVE Follows(c)'
  <2>1. orderly /\ Follows(c) /\ at[c] \in Process
    BY <1>1, <1>3, <1>12 DEF SkipIInv
  <2>2. CASE c \in cs
    BY <1>1, <1>2, <1>6, <1>7, <1>8, <2>1, <2>2, CutOff
  <2>3. CASE c \notin cs
    <3>1. LosesNothing(c)
      <4> SUFFICES ASSUME pc[c] = "tailing", NEW f \in history'[at[c]]
                   PROVE  /\ f \in history[at[c]]
                          /\ Worker \in InFlight /\ f = publishing[Worker].event
                               => Worker \in InFlight' /\ f = publishing'[Worker].event
        BY <1>1 DEF LosesNothing
      <4>1. at[c] # p /\ f \in history[at[c]]
        BY <1>4, <2>1
      <4>2. ASSUME Worker \in InFlight, f = publishing[Worker].event PROVE home[Worker] # p
        <5>1. f \in history[home[Worker]] /\ home[Worker] \in Process
          BY <1>2, <1>3, <2>1, <4>2 DEF OneBus
        <5>2. home[Worker] = at[c]
          BY <1>2, <2>1, <4>1, <5>1 DEF OneBus
        <5> QED
          BY <4>1, <5>2
      <4> QED
        BY <1>3, <1>5, <4>1, <4>2
    <3> QED
      BY <1>1, <1>2, <1>6, <1>7, <1>8, <2>1, <2>3, <3>1, StandsStill
  <2> QED
    BY <2>2, <2>3
<1>13. IInv' /\ IsFiniteSet(log')
  BY <1>1, CrashStep DEF SkipIInv
<1> QED
  BY <1>10, <1>11, <1>12, <1>13 DEF SkipIInv

\* A step of one stream is one of that stream alone.
LEMMA OneStream ==
  ASSUME SkipIInv, UNCHANGED serverVars, NEW c \in Client,
         batch'[c] \subseteq Known, Queued(c)' \subseteq Known,
         \A d \in Client : d # c =>
           /\ pc'[d] = pc[d] /\ at'[d] = at[d] /\ batch'[d] = batch[d] /\ sawEnd'[d] = sawEnd[d]
           /\ cursor'[d] = cursor[d] /\ timeline'[d] = timeline[d] /\ queue'[d] = queue[d]
  PROVE  /\ Known' \subseteq Known /\ Recordable' \subseteq Recordable /\ InFlight' = InFlight
         /\ IInv' /\ (orderly => Follows(c)') => SkipIInv'
<1>1. UNCHANGED <<closed, log, count, history, home, publishing, task, published, lossy, orderly>>
  BY DEF serverVars, busVars, workVars
<1>2. IInv /\ TaskInOrder /\ OneBus /\ IsFiniteSet(log)
  BY DEF SkipIInv
<1>3. InFlight' = InFlight
  BY <1>1 DEF InFlight
<1>4. Known' \subseteq Known
  <2>1. ASSUME NEW d \in Client, d # c PROVE Queued(d)' = Queued(d) /\ batch'[d] = batch[d]
    BY <2>1 DEF Queued
  <2>2. \A d \in Client : Queued(d)' \subseteq Known /\ batch'[d] \subseteq Known
    BY <1>2, <2>1, KnownEvents
  <2> QED
    BY <1>1, <1>2, <1>3, <2>2, KnownEvents, KnownWithin
<1>5. Recordable' \subseteq Recordable
  BY <1>1, <1>4 DEF Recordable
<1>6. Recedes
  BY <1>1, <1>3, <1>4 DEF Recedes, Forgets, Continues
<1>7. OneBus' /\ TaskInOrder'
  BY <1>1, <1>2, <1>6, OneBusRecedes, TaskRecedes
<1>8. ASSUME orderly', NEW d \in Client, d # c PROVE Follows(d)'
  <2>1. LosesNothing(d)
    BY <1>1, <1>3 DEF LosesNothing
  <2>2. orderly /\ Follows(d)
    BY <1>1, <1>8 DEF SkipIInv
  <2> QED
    BY <1>1, <1>2, <1>4, <1>5, <1>8, <2>1, <2>2, StandsStill
<1>9. ASSUME IInv', orderly => Follows(c)' PROVE SkipIInv'
  BY <1>1, <1>2, <1>7, <1>8, <1>9 DEF SkipIInv
<1> QED
  BY <1>3, <1>4, <1>5, <1>9

\* A stream that sends nothing and is not on the bus then.
LEMMA MovesOn ==
  ASSUME SkipIInv, orderly, UNCHANGED serverVars, NEW c \in Client,
         Known' \subseteq Known, Recordable' \subseteq Recordable,
         cursor'[c] = cursor[c], timeline'[c] = timeline[c], pc'[c] # "tailing", queue'[c] = <<>>,
         c \notin lossy => NotPastEnd(c)' /\ BatchHasAll(c)'
  PROVE  Follows(c)'
<1>1. published' = published /\ lossy' = lossy /\ Follows(c)
  BY DEF serverVars, workVars, SkipIInv
<1>2. c \notin lossy' => QueueHasAll(c)' /\ Awaited(c)' /\ HasAll(c)'
  BY <1>1 DEF Follows, QueueHasAll, Awaited, HasAll
<1> QED
  BY <1>1, <1>2 DEF Follows

\* A page is cut from the log; while the run is open, no terminal event lies
\* before anything in it.
LEMMA ReadLogSkips == ASSUME SkipIInv, NEW c \in Client, ReadLog(c) PROVE SkipIInv'
<1>1. /\ UNCHANGED serverVars /\ UNCHANGED <<queue, at, sawEnd, cursor, timeline>>
      /\ batch' = [batch EXCEPT ![c] = Page(c)]
      /\ pc[c] = "opening" /\ pc' = [pc EXCEPT ![c] = "checking"]
      /\ closed' = closed
  BY DEF ReadLog, Goes, serverVars
<1>2. IInv /\ OneBus /\ IsFiniteSet(log)
  BY DEF SkipIInv
<1>3. /\ batch'[c] = Page(c) /\ pc'[c] = "checking"
      /\ \A d \in Client : d # c => pc'[d] = pc[d] /\ batch'[d] = batch[d]
  BY <1>1, <1>2 DEF IInv, TypeOK
<1>4. Page(c) \subseteq log /\ Queued(c)' = Queued(c)
  BY <1>1 DEF Page, Queued
<1>5. /\ Known' \subseteq Known /\ Recordable' \subseteq Recordable
      /\ IInv' /\ (orderly => Follows(c)') => SkipIInv'
  BY <1>1, <1>2, <1>3, <1>4, KnownEvents, OneStream
<1>6. ASSUME orderly PROVE Follows(c)'
  <2>1. Follows(c)
    BY <1>6 DEF SkipIInv
  <2>2. ASSUME c \notin lossy PROVE NotPastEnd(c)' /\ BatchHasAll(c)'
    <3>1. NotPastEnd(c)
      BY <2>1, <2>2 DEF Follows
    <3>2. closed \/ \A e, g \in Known : g.final => e.seq <= g.seq
      BY <1>2, <1>6 DEF OneBus
    <3>3. log \subseteq Known
      BY <1>2, KnownEvents
    <3>4. NotPastEnd(c)'
      <4> HIDE DEF Known
      <4> QED
        BY <1>1, <1>3, <1>4, <1>5, <3>1, <3>2, <3>3 DEF NotPastEnd
    <3>5. ASSUME NEW e \in Page(c), NEW f \in Recordable, f.seq > cursor[c], f.seq < e.seq
          PROVE  f \in Page(c)
      <4>1. f \in log
        <5>1. e \in log /\ e.seq \in Nat /\ f.seq \in Nat
          BY <1>2, <1>4, <3>3, KnownEvents DEF Recordable
        <5>2. ~(\A r \in log : r.seq < f.seq)
          BY <3>5, <5>1
        <5> QED
          BY <5>2 DEF Recordable
      <4> QED
        BY <1>2, <3>5, <4>1, PageHasAll
    <3>6. BatchHasAll(c)'
      <4> HIDE DEF Known, Recordable, Page
      <4> QED
        BY <1>1, <1>3, <1>5, <3>5 DEF BatchHasAll
    <3> QED
      BY <3>4, <3>6
  <2>3. queue'[c] = <<>> /\ pc'[c] # "tailing"
    BY <1>1, <1>3, <2>1 DEF Follows
  <2> QED
    BY <1>1, <1>5, <1>6, <2>2, <2>3, MovesOn
<1>7. IInv'
  BY <1>2, PassStep
<1> QED
  BY <1>5, <1>6, <1>7

\* A terminal status may be read late, but not a running one; a pass that ends
\* the stream reads nothing more; one that returns to the log starts anew.
LEMMA MovingSkips ==
  ASSUME SkipIInv, NEW c \in Client,
         \/ ReadStatus(c) \/ PageEnds(c) \/ TakeEnd(c) \/ Resync(c)
         \/ \E p \in Process : Connect(c, p)
  PROVE  SkipIInv'
<1>1. /\ UNCHANGED serverVars /\ batch' = batch /\ cursor' = cursor /\ timeline' = timeline
      /\ closed' = closed
      /\ queue' = queue \/ queue' = [queue EXCEPT ![c] = <<>>]
  BY DEF ReadStatus, PageEnds, TakeEnd, Resync, Connect, serverVars
<1>2. IInv /\ OneBus
  BY DEF SkipIInv
<1>3. /\ pc \in [Client -> StreamPc] /\ at \in [Client -> Process] /\ sawEnd \in [Client -> BOOLEAN]
      /\ queue \in [Client -> Queues]
  BY <1>2, TypesSplit DEF IInv, StreamTypes, QueueTypes
<1>4. \A d \in Client : d # c =>
        pc'[d] = pc[d] /\ at'[d] = at[d] /\ sawEnd'[d] = sawEnd[d] /\ queue'[d] = queue[d]
  BY <1>3 DEF ReadStatus, PageEnds, TakeEnd, Resync, Connect, Goes
<1>5. queue'[c] = queue[c] \/ queue'[c] = <<>>
  BY <1>1, <1>3
<1>6. Queued(c)' \subseteq Queued(c)
  BY <1>5 DEF Queued
<1>7. /\ Known' \subseteq Known /\ Recordable' \subseteq Recordable
      /\ IInv' /\ (orderly => Follows(c)') => SkipIInv'
  BY <1>1, <1>2, <1>4, <1>6, KnownEvents, OneStream
<1>8. \/ pc[c] = "checking" /\ pc'[c] = "paging" /\ sawEnd'[c] = closed /\ queue' = queue
      \/ pc[c] = "paging" /\ pc'[c] = "done" /\ batch[c] = {} /\ queue' = queue
      \/ pc[c] = "tailing" /\ pc'[c] = "opening" /\ batch[c] = {} /\ queue'[c] = <<>>
      \/ pc[c] = "off" /\ pc'[c] = "opening" /\ queue' = queue
  <2>1. CASE ReadStatus(c)
    BY <1>3, <2>1 DEF ReadStatus, Goes
  <2>2. CASE PageEnds(c)
    BY <1>3, <2>2 DEF PageEnds, Goes
  <2>3. CASE TakeEnd(c) \/ Resync(c)
    BY <1>3, <2>3 DEF TakeEnd, Resync, Takes, Goes
  <2>4. CASE \E p \in Process : Connect(c, p)
    BY <1>3, <2>4 DEF Connect, Goes
  <2> QED
    BY <2>1, <2>2, <2>3, <2>4
<1>9. ASSUME orderly PROVE Follows(c)'
  <2>1. Follows(c)
    BY <1>9 DEF SkipIInv
  <2>2. queue'[c] = <<>> /\ pc'[c] # "tailing"
    BY <1>8, <2>1 DEF Follows
  <2>3. ASSUME c \notin lossy PROVE NotPastEnd(c)' /\ BatchHasAll(c)'
    <3>1. NotPastEnd(c) /\ BatchHasAll(c)
      BY <2>1, <2>3 DEF Follows
    <3> HIDE DEF Known, Recordable
    <3>2. NotPastEnd(c)'
      BY <1>1, <1>7, <1>8, <3>1 DEF NotPastEnd
    <3>3. BatchHasAll(c)'
      BY <1>1, <1>7, <1>8, <3>1 DEF BatchHasAll
    <3> QED
      BY <3>2, <3>3
  <2> QED
    BY <1>1, <1>7, <1>9, <2>2, <2>3, MovesOn
<1>10. IInv'
  BY <1>2, PassStep, ReturnStep
<1> QED
  BY <1>7, <1>9, <1>10

\* The replay is all that is known, since a bus that remembers anything of the
\* run remembers all of it.
LEMMA SubscribeSkips == ASSUME SkipIInv, NEW c \in Client, Subscribe(c) PROVE SkipIInv'
<1> DEFINE replay == {e \in history[at[c]] : e.seq > cursor[c]}
<1>1. /\ UNCHANGED serverVars /\ UNCHANGED <<queue, at, sawEnd, cursor, timeline>>
      /\ batch' = [batch EXCEPT ![c] = replay]
      /\ pc[c] = "paging" /\ pc' = [pc EXCEPT ![c] = "tailing"] /\ ~sawEnd[c]
      /\ history' = history /\ published' = published /\ lossy' = lossy
  BY DEF Subscribe, Goes, serverVars, busVars, workVars
<1>2. IInv /\ OneBus /\ at[c] \in Process
  BY DEF SkipIInv, IInv, TypeOK
<1>3. /\ batch'[c] = replay /\ pc'[c] = "tailing"
      /\ \A d \in Client : d # c => pc'[d] = pc[d] /\ batch'[d] = batch[d]
  BY <1>1, <1>2 DEF IInv, TypeOK
<1>4. Queued(c)' = Queued(c) /\ replay \subseteq Known
  BY <1>1, <1>2, KnownEvents DEF Queued
<1>5. /\ Known' \subseteq Known /\ Recordable' \subseteq Recordable
      /\ IInv' /\ (orderly => Follows(c)') => SkipIInv'
  BY <1>1, <1>2, <1>3, <1>4, KnownEvents, OneStream
<1>6. ASSUME orderly PROVE Follows(c)'
  <2>1. Follows(c) /\ queue'[c] = <<>>
    BY <1>1, <1>6 DEF SkipIInv, Follows
  <2>2. ASSUME c \notin lossy
        PROVE  (NotPastEnd(c) /\ BatchHasAll(c) /\ QueueHasAll(c) /\ Awaited(c) /\ HasAll(c))'
    <3>1. NotPastEnd(c) /\ HasAll(c)
      BY <2>1, <2>2 DEF Follows
    <3>2. \A e \in replay, f \in Known : f.seq > cursor[c] => f \in replay
      BY <1>2, <1>6 DEF OneBus
    <3> HIDE DEF Known, Recordable
    <3>3. NotPastEnd(c)' /\ HasAll(c)'
      BY <1>1, <1>3, <1>5, <3>1 DEF NotPastEnd, HasAll
    <3>4. BatchHasAll(c)'
      BY <1>1, <1>3, <1>5, <3>2 DEF BatchHasAll
    <3>5. QueueHasAll(c)'
      BY <2>1 DEF QueueHasAll
    <3>6. Awaited(c)'
      <4>1. \A f \in history'[at'[c]] : f.seq > cursor'[c] => f \in Pending(c)'
        BY <1>1, <1>3 DEF Pending, Ahead
      <4> QED
        BY <4>1 DEF Awaited
    <3> QED
      BY <3>3, <3>4, <3>5, <3>6
  <2> QED
    BY <1>1, <1>3, <2>1, <2>2 DEF Follows
<1>7. IInv'
  BY <1>2, PassStep
<1> QED
  BY <1>5, <1>6, <1>7

\* The tail of a queue is read on.
LEMMA ReadsOn ==
  ASSUME NEW c \in Client, pc'[c] = "tailing",
         Known' \subseteq Known, UNCHANGED <<history, publishing, at>>,
         Holds(queue'[c], batch'[c], cursor'[c], Known),
         HoldsAll(queue'[c], batch'[c], cursor'[c], Left(c))
  PROVE  QueueHasAll(c)' /\ Awaited(c)'
<1>1. QueueHasAll(c)'
  <2> HIDE DEF Known
  <2> QED
    BY DEF QueueHasAll, Holds, Ahead
<1>2. InFlight' = InFlight
  BY DEF InFlight
<1>3. Awaited(c)'
  BY <1>2 DEF Awaited, HoldsAll, Pending, Ahead, Left
<1> QED
  BY <1>1, <1>3

\* A number the client has been sent already.
LEMMA SkipSkips == ASSUME SkipIInv, NEW c \in Client, Skip(c) PROVE SkipIInv'
<1> DEFINE q == queue[c]
<1>1. /\ UNCHANGED serverVars /\ UNCHANGED <<pc, at, batch, sawEnd, cursor, timeline>>
      /\ pc[c] = "tailing" /\ batch[c] = {} /\ q # <<>> /\ Head(q) # End /\ Head(q).seq <= cursor[c]
      /\ queue' = [queue EXCEPT ![c] = Tail(q)]
      /\ published' = published /\ lossy' = lossy /\ history' = history /\ publishing' = publishing
  BY DEF Skip, Takes, serverVars, streamVars, busVars, workVars
<1>2. IInv /\ OneBus /\ queue \in [Client -> Queues] /\ cursor[c] \in Nat
  BY TypesSplit DEF SkipIInv, IInv, QueueTypes, StreamTypes
<1>3. queue'[c] = Tail(q) /\ \A d \in Client : d # c => queue'[d] = queue[d]
  BY <1>1, <1>2
<1>4. /\ DOMAIN q = 1..Len(q) /\ DOMAIN Tail(q) = 1..Len(q) - 1 /\ Len(q) \in Nat \ {0}
      /\ \A i \in 1..Len(q) - 1 : Tail(q)[i] = q[i + 1]
      /\ Head(q) = q[1]
  BY <1>1, <1>2, BeforeTail
<1>5. Queued(c)' \subseteq Queued(c)
  <2>1. \A i \in DOMAIN Tail(q) : i + 1 \in DOMAIN q /\ Tail(q)[i] = q[i + 1]
    BY <1>4
  <2> QED
    BY <1>3, <2>1 DEF Queued
<1>6. /\ Known' \subseteq Known /\ Recordable' \subseteq Recordable
      /\ IInv' /\ (orderly => Follows(c)') => SkipIInv'
  BY <1>1, <1>2, <1>3, <1>5, KnownEvents, OneStream
<1>7. ASSUME orderly PROVE Follows(c)'
  <2>1. Follows(c)
    BY <1>7 DEF SkipIInv
  <2>2. ASSUME c \notin lossy
        PROVE  (NotPastEnd(c) /\ BatchHasAll(c) /\ QueueHasAll(c) /\ Awaited(c) /\ HasAll(c))'
    <3>1. NotPastEnd(c) /\ BatchHasAll(c) /\ QueueHasAll(c) /\ Awaited(c) /\ HasAll(c)
      BY <2>1, <2>2 DEF Follows
    <3>2. Holds(q, batch[c], cursor[c], Known) /\ HoldsAll(q, batch[c], cursor[c], Left(c))
      BY <1>1, <3>1, HoldsIs
    <3>3. ~(Head(q).seq > cursor[c])
      <4>1. Head(q).seq \in Nat
        BY <1>1, <1>2, <1>4, KnownEvents
      <4> QED
        BY <1>1, <1>2, <4>1
    <3>4. Holds(Tail(q), batch[c], cursor[c], Known) /\ HoldsAll(Tail(q), batch[c], cursor[c], Left(c))
      <4>1. q \in Queues /\ batch[c] \in SUBSET Event
        BY <1>1, <1>2
      <4> HIDE DEF q
      <4> QED
        BY <1>1, <1>2, <3>2, <3>3, <4>1, TailHolds
    <3>5. QueueHasAll(c)' /\ Awaited(c)'
      BY <1>1, <1>3, <1>6, <3>4, ReadsOn
    <3> HIDE DEF Known, Recordable
    <3>6. NotPastEnd(c)' /\ BatchHasAll(c)' /\ HasAll(c)'
      <4>1. closed' = closed
        BY <1>1 DEF serverVars
      <4> QED
        BY <1>1, <1>6, <3>1, <4>1 DEF NotPastEnd, BatchHasAll, HasAll
    <3> QED
      BY <3>5, <3>6
  <2> QED
    BY <1>1, <2>1, <2>2 DEF Follows
<1>8. IInv'
  BY <1>2, SkipStep
<1> QED
  BY <1>6, <1>7, <1>8

LEMMA DisconnectSkips == ASSUME SkipIInv, NEW c \in Client, Disconnect(c) PROVE SkipIInv'
<1>1. /\ UNCHANGED serverVars /\ UNCHANGED <<cursor, timeline>> /\ pc[c] \notin {"off", "done"}
      /\ closed' = closed /\ published' = published /\ lossy' = lossy
      /\ pc'[c] = "off" /\ batch'[c] = {} /\ queue'[c] = <<>>
      /\ \A d \in Client : d # c =>
           /\ pc'[d] = pc[d] /\ at'[d] = at[d] /\ batch'[d] = batch[d] /\ sawEnd'[d] = sawEnd[d]
           /\ queue'[d] = queue[d]
  BY DEF Disconnect, Cut, serverVars, workVars
<1>2. IInv /\ Queued(c)' = {}
  BY <1>1 DEF SkipIInv, Queued
<1>3. /\ Known' \subseteq Known /\ Recordable' \subseteq Recordable
      /\ IInv' /\ (orderly => Follows(c)') => SkipIInv'
  BY <1>1, <1>2, OneStream
<1>4. ASSUME orderly PROVE Follows(c)'
  <2>1. Follows(c)
    BY <1>4 DEF SkipIInv
  <2> QED
    BY <1>1, <1>2, <1>3, <1>4, <2>1, CutOff
<1>5. IInv'
  BY <1>2, DisconnectStep
<1> QED
  BY <1>3, <1>4, <1>5

\* An event may be sent next: nothing the client should get lies before it.
NextInLine(c, e) ==
  \A f \in Known : (f \in Recordable \/ pc[c] = "tailing") /\ f.seq > cursor[c] => f.seq >= e.seq

LEMMA SentHasAll ==
  ASSUME SkipIInv, orderly, NEW c \in Client, NEW e \in Known, e.seq > cursor[c], Sends(c, e),
         UNCHANGED serverVars, Recordable' \subseteq Recordable
  PROVE  /\ cursor'[c] = e.seq /\ e \in Event /\ cursor'[c] <= published'
         /\ HasAll(c) /\ NextInLine(c, e) => HasAll(c)'
<1>1. IInv /\ OneBus /\ published' = published /\ timeline[c] \in Seq(Event)
  BY DEF SkipIInv, IInv, TypeOK, serverVars, workVars
<1>2. e \in Event /\ Recordable \subseteq Known /\ \A f \in Known : f.seq \in Nat
  BY <1>1, KnownEvents
<1>3. /\ cursor'[c] = e.seq
      /\ \A i \in DOMAIN timeline[c] : i \in DOMAIN timeline'[c] /\ timeline'[c][i] = timeline[c][i]
  BY <1>1, <1>2, SendStep
<1>4. \E i \in DOMAIN timeline'[c] : timeline'[c][i] = e
  <2>1. timeline' = [timeline EXCEPT ![c] = Append(timeline[c], e)] /\ timeline \in [Client -> Seq(Event)]
    BY <1>1 DEF Sends, SkipIInv, IInv, TypeOK
  <2>2. timeline'[c] = Append(timeline[c], e)
    BY <2>1
  <2>3. /\ DOMAIN Append(timeline[c], e) = 1..Len(timeline[c]) + 1 /\ Len(timeline[c]) \in Nat
        /\ Append(timeline[c], e)[Len(timeline[c]) + 1] = e
    BY <1>1, <1>2, SendType
  <2> QED
    BY <2>2, <2>3
<1>5. OnePerNumber(Known) /\ e.seq <= published
  BY <1>1 DEF OneBus
<1>6. ASSUME HasAll(c), NextInLine(c, e), NEW f \in Recordable', f.seq <= cursor'[c]
      PROVE  \E i \in DOMAIN timeline'[c] : timeline'[c][i] = f
  <2>1. f \in Recordable /\ f \in Known /\ f.seq \in Nat /\ e.seq \in Nat /\ cursor[c] \in Nat
    BY <1>1, <1>2 DEF IInv, TypeOK
  <2>2. CASE f.seq <= cursor[c]
    BY <1>3, <1>6, <2>1, <2>2 DEF HasAll
  <2>3. CASE f.seq > cursor[c]
    <3>1. f.seq = e.seq
      BY <1>3, <1>6, <2>1, <2>3 DEF NextInLine
    <3>2. f = e
      BY <1>5, <2>1, <3>1 DEF OnePerNumber
    <3> QED
      BY <1>4, <3>2
  <2> QED
    BY <2>1, <2>2, <2>3
<1>7. HasAll(c) /\ NextInLine(c, e) => HasAll(c)'
  BY <1>6 DEF HasAll
<1> QED
  BY <1>1, <1>2, <1>3, <1>5, <1>7

\* The last event: the stream is closed.
LEMMA SentLast ==
  ASSUME SkipIInv, orderly, NEW c \in Client, NEW e \in Known, e.seq > cursor[c], Sends(c, e),
         UNCHANGED serverVars, Recordable' \subseteq Recordable,
         pc'[c] = "done", batch'[c] = {}, queue'[c] = <<>>,
         c \notin lossy => HasAll(c) /\ NextInLine(c, e)
  PROVE  Follows(c)'
<1>1. cursor'[c] <= published' /\ (c \notin lossy => HasAll(c)') /\ lossy' = lossy
  BY SentHasAll DEF serverVars
<1>2. NotPastEnd(c)' /\ BatchHasAll(c)' /\ QueueHasAll(c)' /\ Awaited(c)'
  BY DEF NotPastEnd, BatchHasAll, QueueHasAll, Awaited
<1> QED
  BY <1>1, <1>2 DEF Follows

\* An event that is not the last lies before a terminal one, unless the run is
\* over and the stream knows it.
LEMMA EndAhead ==
  ASSUME SkipIInv, orderly, NEW c \in Client, NotPastEnd(c), NEW e \in Known, ~e.final,
         NextInLine(c, e),
         \/ pc[c] = "paging" /\ ~sawEnd[c] /\ e \in batch[c]
         \/ pc[c] = "tailing"
  PROVE  \A g \in Known : g.final => g.seq > e.seq
<1> SUFFICES ASSUME NEW g \in Known, g.final PROVE g.seq > e.seq
  OBVIOUS
<1>1. IInv /\ OnePerNumber(Known) /\ g.seq \in Nat /\ e.seq \in Nat
  BY KnownEvents DEF SkipIInv, OneBus
<1>2. g.seq >= e.seq
  <2>1. CASE pc[c] = "paging" /\ ~sawEnd[c] /\ e \in batch[c]
    BY <1>1, <2>1 DEF NotPastEnd
  <2>2. CASE pc[c] = "tailing"
    BY <2>2 DEF NotPastEnd, NextInLine
  <2> QED
    BY <2>1, <2>2
<1>3. g.seq # e.seq
  BY <1>1 DEF OnePerNumber
<1> QED
  BY <1>1, <1>2, <1>3

\* The cursor moves up, and what it passed is no longer in the batch; no terminal
\* event is passed.
LEMMA Raises ==
  ASSUME NEW q, NEW b, NEW n \in Nat, NEW m \in Nat, n <= m, NEW es, NEW fs,
         \A f \in b : f.seq \in Nat /\ (f.final => f.seq > m),
         \A i \in DOMAIN q : q[i] # End => q[i].seq \in Nat /\ (q[i].final => q[i].seq > m),
         \A f \in es \cup fs : f.seq \in Nat,
         NEW r, r \subseteq b, \A f \in b : f.seq > m => f \in r
  PROVE  /\ Holds(q, b, n, es) => Holds(q, r, m, es)
         /\ HoldsAll(q, b, n, fs) => HoldsAll(q, r, m, fs)
<1>1. ASSUME NEW i
      PROVE  \A f \in b \cup Before(q, i) :
               /\ f.seq \in Nat /\ (f.final => f.seq > m)
               /\ f.seq > m => f \in r \cup Before(q, i)
  BY DEF Before
<1>2. ASSUME NEW i, Ends(b \cup Before(q, i), n) PROVE Ends(r \cup Before(q, i), m)
  <2>1. PICK g \in b \cup Before(q, i) : g.final /\ g.seq > n
    BY <1>2 DEF Ends
  <2>2. g.seq > m /\ g \in r \cup Before(q, i)
    BY <1>1, <2>1
  <2> QED
    BY <2>1, <2>2 DEF Ends
<1>3. ASSUME Holds(q, b, n, es) PROVE Holds(q, r, m, es)
  <2> SUFFICES ASSUME NEW i \in DOMAIN q, q[i] # End
               PROVE  \/ Ends(r \cup Before(q, i), m)
                      \/ \A f \in es : f.seq > m /\ f.seq < q[i].seq => f \in r \cup Before(q, i)
    BY DEF Holds
  <2>1. \/ Ends(b \cup Before(q, i), n)
        \/ \A f \in es : f.seq > n /\ f.seq < q[i].seq => f \in b \cup Before(q, i)
    BY <1>3 DEF Holds
  <2>2. \A f \in es : f.seq > m => f.seq > n
    OBVIOUS
  <2> QED
    BY <1>1, <1>2, <2>1, <2>2
<1>4. ASSUME HoldsAll(q, b, n, fs) PROVE HoldsAll(q, r, m, fs)
  <2> DEFINE i == Len(q) + 1
  <2>1. \/ Ends(b \cup Before(q, i), n)
        \/ \A f \in fs : f.seq > n => f \in b \cup Before(q, i)
    BY <1>4 DEF HoldsAll
  <2>2. \A f \in fs : f.seq > m => f.seq > n
    OBVIOUS
  <2> HIDE DEF i
  <2>3. \/ Ends(r \cup Before(q, i), m)
        \/ \A f \in fs : f.seq > m => f \in r \cup Before(q, i)
    BY <1>1, <1>2, <2>1, <2>2
  <2> QED
    BY <2>3 DEF HoldsAll, i
<1> QED
  BY <1>3, <1>4

\* The page, or the replay.
LEMMA EmitNextSkips == ASSUME SkipIInv, NEW c \in Client, EmitNext(c) PROVE SkipIInv'
<1>1. PICK e \in batch[c] :
        /\ \A f \in batch[c] : e.seq <= f.seq
        /\ Sends(c, e)
        /\ batch' = [batch EXCEPT ![c] = IF e.final THEN {} ELSE @ \ {e}]
        /\ queue' = IF e.final THEN [queue EXCEPT ![c] = <<>>] ELSE queue
  BY DEF EmitNext
<1>2. /\ UNCHANGED serverVars /\ at' = at /\ sawEnd' = sawEnd /\ closed' = closed
      /\ history' = history /\ publishing' = publishing /\ lossy' = lossy
      /\ pc[c] \in {"paging", "tailing"}
  BY DEF EmitNext, serverVars, busVars, workVars
<1>3. /\ IInv /\ OneBus /\ cursor \in [Client -> Nat] /\ queue \in [Client -> Queues]
      /\ pc \in [Client -> StreamPc] /\ batch \in [Client -> SUBSET Event]
      /\ timeline \in [Client -> Seq(Event)]
  BY TypesSplit DEF SkipIInv, IInv, QueueTypes, StreamTypes
<1>4. e \in Known /\ e.seq > cursor[c] /\ e \in Event /\ e.final \in BOOLEAN
  BY <1>3, KnownEvents DEF IInv, Unread
<1>5. /\ cursor'[c] = e.seq /\ \A d \in Client : d # c => cursor'[d] = cursor[d]
      /\ \A d \in Client : d # c => timeline'[d] = timeline[d]
  <2>1. timeline' = [timeline EXCEPT ![c] = Append(@, e)]
    BY <1>1 DEF Sends
  <2>2. \A d \in Client : d # c => timeline'[d] = timeline[d]
    BY <1>3, <2>1
  <2> QED
    BY <1>1, <1>3, <1>4, <2>2, SendStep
<1>6. /\ batch'[c] = (IF e.final THEN {} ELSE batch[c] \ {e})
      /\ queue'[c] = (IF e.final THEN <<>> ELSE queue[c])
      /\ pc'[c] = (IF e.final THEN "done" ELSE pc[c])
      /\ \A d \in Client : d # c => pc'[d] = pc[d] /\ batch'[d] = batch[d] /\ queue'[d] = queue[d]
  BY <1>1, <1>3 DEF Sends
<1>7. batch'[c] \subseteq batch[c] /\ Queued(c)' \subseteq Queued(c)
  BY <1>6 DEF Queued
<1>8. /\ Known' \subseteq Known /\ Recordable' \subseteq Recordable
      /\ IInv' /\ (orderly => Follows(c)') => SkipIInv'
  BY <1>2, <1>3, <1>5, <1>6, <1>7, KnownEvents, OneStream
<1>9. ASSUME orderly PROVE Follows(c)'
  <2>1. Follows(c) /\ OnePerNumber(Known)
    BY <1>3, <1>9 DEF SkipIInv, OneBus
  <2>2. \A f \in Known : f.seq \in Nat /\ f.final \in BOOLEAN
    BY <1>3, KnownEvents
  <2>3. batch[c] \subseteq Known /\ \A i \in DOMAIN queue[c] : queue[c][i] # End => queue[c][i] \in Known
    BY <1>3, KnownEvents
  <2>4. ASSUME c \notin lossy PROVE HasAll(c) /\ NextInLine(c, e) /\ NotPastEnd(c) /\ BatchHasAll(c)
    <3>1. HasAll(c) /\ NotPastEnd(c) /\ BatchHasAll(c)
      BY <2>1, <2>4 DEF Follows
    <3> HIDE DEF Known, Recordable
    <3>2. NextInLine(c, e)
      BY <1>1, <1>4, <2>2, <3>1 DEF BatchHasAll, NextInLine
    <3> QED
      BY <3>1, <3>2
  <2>5. CASE e.final
    BY <1>1, <1>2, <1>4, <1>6, <1>8, <1>9, <2>4, <2>5, SentLast
  <2>6. CASE ~e.final
    <3>1. /\ batch'[c] = batch[c] \ {e} /\ queue'[c] = queue[c] /\ pc'[c] = pc[c]
      BY <1>6, <2>6
    <3>2. cursor'[c] <= published' /\ (c \notin lossy => HasAll(c)')
      BY <1>1, <1>2, <1>4, <1>8, <1>9, <2>4, SentHasAll
    <3>3. ASSUME c \notin lossy
          PROVE  NotPastEnd(c)' /\ BatchHasAll(c)' /\ QueueHasAll(c)' /\ Awaited(c)'
      <4>1. sawEnd[c] => closed
        BY <1>3 DEF IInv, Endings
      <4>2. \/ \A g \in Known : g.final => g.seq > e.seq
            \/ pc[c] = "paging" /\ sawEnd[c] /\ closed
        BY <1>2, <1>4, <1>9, <2>4, <2>6, <3>3, <4>1, EndAhead
      <4>3. NotPastEnd(c)'
        <5>1. pc[c] = "paging" /\ ~sawEnd[c] => \A h \in batch[c], g \in Known : g.final => h.seq <= g.seq
          BY <2>4, <3>3 DEF NotPastEnd
        <5> HIDE DEF Known
        <5> QED
          BY <1>2, <1>5, <1>8, <3>1, <4>2, <5>1 DEF NotPastEnd
      <4>4. BatchHasAll(c)'
        <5> SUFFICES ASSUME NEW h \in batch'[c], NEW f \in Known', f \in Recordable' \/ pc'[c] = "tailing",
                            f.seq > cursor'[c], f.seq < h.seq
                     PROVE  f \in batch'[c]
          BY DEF BatchHasAll
        <5>1. f \in Known /\ (f \in Recordable \/ pc[c] = "tailing") /\ h \in batch[c]
          BY <1>8, <3>1
        <5>2. f.seq > e.seq /\ f.seq \in Nat /\ e.seq \in Nat /\ cursor[c] \in Nat
          BY <1>3, <1>4, <1>5, <2>2, <5>1
        <5>3. f.seq > cursor[c] /\ f # e
          BY <1>4, <5>2
        <5>4. f \in batch[c]
          BY <2>4, <3>3, <5>1, <5>3 DEF BatchHasAll
        <5> QED
          BY <3>1, <5>3, <5>4
      <4>5. QueueHasAll(c)' /\ Awaited(c)'
        <5>1. CASE pc[c] # "tailing"
          BY <3>1, <5>1 DEF QueueHasAll, Awaited
        <5>2. CASE pc[c] = "tailing"
          <6>1. Holds(queue[c], batch[c], cursor[c], Known) /\ HoldsAll(queue[c], batch[c], cursor[c], Left(c))
            BY <2>1, <3>3, <5>2, HoldsIs DEF Follows
          <6>2. \A g \in Known : g.final => g.seq > e.seq
            BY <4>2, <5>2
          <6>3. Left(c) \subseteq Known
            <7>1. at[c] \in Process
              BY <1>3 DEF IInv, TypeOK
            <7> QED
              BY <1>3, <7>1, KnownEvents DEF Left
          <6>4. cursor[c] \in Nat /\ e.seq \in Nat /\ cursor[c] <= e.seq
            BY <1>3, <1>4, <2>2
          <6>5. \A f \in batch[c] : f.seq > e.seq => f \in batch[c] \ {e}
            BY <6>4
          <6>6. /\ \A f \in batch[c] : f.seq \in Nat /\ (f.final => f.seq > e.seq)
                /\ \A i \in DOMAIN queue[c] : queue[c][i] # End =>
                     queue[c][i].seq \in Nat /\ (queue[c][i].final => queue[c][i].seq > e.seq)
                /\ \A f \in Known \cup Left(c) : f.seq \in Nat
            BY <2>2, <2>3, <6>2, <6>3
          <6>7. batch[c] \ {e} \subseteq batch[c]
            OBVIOUS
          <6>8. /\ Holds(queue[c], batch[c] \ {e}, e.seq, Known)
                /\ HoldsAll(queue[c], batch[c] \ {e}, e.seq, Left(c))
            <7> DEFINE q == queue[c]
                       b == batch[c]
                       r == b \ {e}
                       n == cursor[c]
                       m == e.seq
                       left == Left(c)
            <7>1. /\ n \in Nat /\ m \in Nat /\ n <= m
                  /\ \A f \in b : f.seq \in Nat /\ (f.final => f.seq > m)
                  /\ \A i \in DOMAIN q : q[i] # End => q[i].seq \in Nat /\ (q[i].final => q[i].seq > m)
                  /\ \A f \in Known \cup left : f.seq \in Nat
                  /\ r \subseteq b /\ \A f \in b : f.seq > m => f \in r
                  /\ Holds(q, b, n, Known) /\ HoldsAll(q, b, n, left)
              BY <6>1, <6>4, <6>5, <6>6, <6>7
            <7> HIDE DEF q, b, r, n, m, left, Known
            <7>2. Holds(q, r, m, Known) /\ HoldsAll(q, r, m, left)
              BY <7>1, Raises
            <7> QED
              BY <7>2 DEF q, b, r, m, left
          <6> QED
            BY <1>2, <1>5, <1>8, <3>1, <5>2, <6>8, ReadsOn
        <5> QED
          BY <5>1, <5>2
      <4> QED
        BY <4>3, <4>4, <4>5
    <3>4. pc[c] # "tailing" => queue[c] = <<>>
      BY <2>1 DEF Follows
    <3> QED
      BY <1>2, <3>1, <3>2, <3>3, <3>4 DEF Follows
  <2> QED
    BY <1>4, <2>5, <2>6
<1>10. IInv'
  BY <1>3, EmitNextStep
<1> QED
  BY <1>8, <1>9, <1>10

\* A live event.
LEMMA TakeSkips == ASSUME SkipIInv, NEW c \in Client, Take(c) PROVE SkipIInv'
<1> DEFINE q == queue[c]
           e == Head(q)
<1>1. /\ UNCHANGED serverVars /\ UNCHANGED <<at, batch, sawEnd>>
      /\ closed' = closed /\ history' = history /\ publishing' = publishing /\ lossy' = lossy
      /\ pc[c] = "tailing" /\ batch[c] = {} /\ q # <<>> /\ e # End /\ e.seq > cursor[c]
      /\ Sends(c, e)
      /\ queue' = [queue EXCEPT ![c] = IF Head(@).final THEN <<>> ELSE Tail(@)]
  BY DEF Take, Takes, serverVars, busVars, workVars
<1>2. /\ IInv /\ OneBus /\ cursor \in [Client -> Nat] /\ queue \in [Client -> Queues]
      /\ pc \in [Client -> StreamPc] /\ batch \in [Client -> SUBSET Event]
      /\ timeline \in [Client -> Seq(Event)]
  BY TypesSplit DEF SkipIInv, IInv, QueueTypes, StreamTypes
<1>3. /\ DOMAIN q = 1..Len(q) /\ Len(q) \in Nat \ {0} /\ e = q[1]
      /\ DOMAIN Tail(q) = 1..Len(q) - 1
      /\ \A i \in 1..Len(q) - 1 : Tail(q)[i] = q[i + 1]
  BY <1>1, <1>2, BeforeTail
<1>4. \A i \in DOMAIN q : q[i] # End => q[i] \in Known
  BY <1>2, KnownEvents
<1>5. e \in Known /\ e \in Event /\ e.final \in BOOLEAN
  <2>1. 1 \in DOMAIN q
    BY <1>3
  <2> QED
    BY <1>1, <1>2, <1>3, <1>4, <2>1, KnownEvents
<1> HIDE DEF e
<1>6. /\ cursor'[c] = e.seq /\ \A d \in Client : d # c => cursor'[d] = cursor[d]
      /\ \A d \in Client : d # c => timeline'[d] = timeline[d]
  <2>1. timeline' = [timeline EXCEPT ![c] = Append(@, e)]
    BY <1>1 DEF Sends
  <2>2. \A d \in Client : d # c => timeline'[d] = timeline[d]
    BY <1>2, <2>1
  <2> QED
    BY <1>1, <1>2, <1>5, <2>2, SendStep
<1>7. /\ queue'[c] = (IF e.final THEN <<>> ELSE Tail(q))
      /\ pc'[c] = (IF e.final THEN "done" ELSE pc[c])
      /\ \A d \in Client : d # c => pc'[d] = pc[d] /\ queue'[d] = queue[d]
  BY <1>1, <1>2 DEF Sends, e
<1>8. Queued(c)' \subseteq Queued(c)
  <2>1. \A i \in DOMAIN Tail(q) : i + 1 \in DOMAIN q /\ Tail(q)[i] = q[i + 1]
    BY <1>3
  <2> QED
    BY <1>7, <2>1 DEF Queued
<1>9. /\ Known' \subseteq Known /\ Recordable' \subseteq Recordable
      /\ IInv' /\ (orderly => Follows(c)') => SkipIInv'
  BY <1>1, <1>2, <1>6, <1>7, <1>8, KnownEvents, OneStream
<1>10. ASSUME orderly PROVE Follows(c)'
  <2>1. Follows(c)
    BY <1>10 DEF SkipIInv
  <2>2. \A f \in Known : f.seq \in Nat /\ f.final \in BOOLEAN
    BY <1>2, KnownEvents
  <2>3. ASSUME c \notin lossy
        PROVE  /\ HasAll(c) /\ NextInLine(c, e) /\ NotPastEnd(c)
               /\ Holds(q, {}, cursor[c], Known) /\ HoldsAll(q, {}, cursor[c], Left(c))
    <3>1. /\ HasAll(c) /\ NotPastEnd(c)
          /\ Holds(q, {}, cursor[c], Known) /\ HoldsAll(q, {}, cursor[c], Left(c))
      BY <1>1, <2>1, <2>3, HoldsIs DEF Follows
    <3>2. {} \cup Before(q, 1) = {}
      BY <1>2, BeforeFirst
    <3>3. 1 \in DOMAIN q /\ q[1] # End
      BY <1>1, <1>3
    <3>4. \A f \in Known : f.seq > cursor[c] => ~(f.seq < e.seq)
      BY <1>3, <3>1, <3>2, <3>3 DEF Holds, Ends
    <3>5. NextInLine(c, e)
      BY <1>5, <2>2, <3>4 DEF NextInLine
    <3> QED
      BY <3>1, <3>5
  <2>4. CASE e.final
    BY <1>1, <1>5, <1>7, <1>9, <1>10, <2>3, <2>4, SentLast
  <2>5. CASE ~e.final
    <3>1. queue'[c] = Tail(q) /\ pc'[c] = "tailing" /\ batch'[c] = {}
      BY <1>1, <1>7, <2>5
    <3>2. cursor'[c] <= published' /\ (c \notin lossy => HasAll(c)')
      BY <1>1, <1>5, <1>9, <1>10, <2>3, SentHasAll
    <3>3. ASSUME c \notin lossy
          PROVE  NotPastEnd(c)' /\ BatchHasAll(c)' /\ QueueHasAll(c)' /\ Awaited(c)'
      <4>1. \A g \in Known : g.final => g.seq > e.seq
        BY <1>1, <1>5, <1>10, <2>3, <2>5, <3>3, EndAhead
      <4>2. NotPastEnd(c)'
        <5> HIDE DEF Known
        <5> QED
          BY <1>6, <1>9, <3>1, <4>1 DEF NotPastEnd
      <4>3. BatchHasAll(c)'
        BY <3>1 DEF BatchHasAll
      <4>4. Holds(Tail(q), {}, e.seq, Known) /\ HoldsAll(Tail(q), {}, e.seq, Left(c))
        <5> DEFINE n == cursor[c]
                   m == e.seq
                   left == Left(c)
        <5>1. n \in Nat /\ m \in Nat /\ n <= m
          BY <1>1, <1>2, <1>5, <2>2
        <5>2. left \subseteq Known
          <6>1. at[c] \in Process
            BY <1>2 DEF IInv, TypeOK
          <6> QED
            BY <1>2, <6>1, KnownEvents DEF Left
        <5>3. /\ \A i \in DOMAIN q : q[i] # End => q[i].seq \in Nat /\ (q[i].final => q[i].seq > m)
              /\ \A f \in Known \cup left : f.seq \in Nat
          BY <1>4, <2>2, <4>1, <5>2
        <5>4. Holds(q, {}, n, Known) /\ HoldsAll(q, {}, n, left)
          BY <2>3, <3>3
        <5>5. q \in Queues /\ q # <<>> /\ (Head(q) # End => ~(Head(q).seq > m))
          BY <1>1, <1>2, <5>1 DEF e
        <5> HIDE DEF q, n, m, left, Known
        <5>6. Holds(q, {}, m, Known) /\ HoldsAll(q, {}, m, left)
          BY <5>1, <5>3, <5>4, Raises
        <5>7. Holds(Tail(q), {}, m, Known) /\ HoldsAll(Tail(q), {}, m, left)
          BY <5>1, <5>5, <5>6, TailHolds
        <5> QED
          BY <5>7 DEF m, left
      <4>5. QueueHasAll(c)' /\ Awaited(c)'
        BY <1>1, <1>6, <1>9, <3>1, <4>4, ReadsOn
      <4> QED
        BY <4>2, <4>3, <4>5
    <3> QED
      BY <1>1, <3>1, <3>2, <3>3 DEF Follows
  <2> QED
    BY <1>5, <2>4, <2>5
<1>11. IInv'
  BY <1>2, TakeStep
<1> QED
  BY <1>9, <1>10, <1>11

-----------------------------------------------------------------------------
(* Nothing is skipped *)

LEMMA InitSkips == Init => SkipIInv
<1> SUFFICES ASSUME Init PROVE SkipIInv
  OBVIOUS
<1>1. IInv
  BY InitIInv
<1>2. /\ log = {} /\ history = [p \in Process |-> {}] /\ publishing = [x \in Publisher |-> Quiet]
      /\ queue = [c \in Client |-> <<>>] /\ batch = [c \in Client |-> {}]
      /\ pc = [c \in Client |-> "off"] /\ cursor = [c \in Client |-> 0]
      /\ count = [p \in Process |-> 0] /\ published = 0 /\ task = "running"
  BY DEF Init
<1>3. InFlight = {}
  BY <1>2 DEF InFlight, Quiet
<1>4. \A c \in Client : Queued(c) = {}
  BY <1>2 DEF Queued
<1>5. Known = {}
  BY <1>2, <1>3, <1>4, KnownIs DEF Members
<1>6. Recordable = {} /\ IsFiniteSet(log)
  BY <1>2, <1>5, FS_EmptySet DEF Recordable
<1>7. TaskInOrder /\ OneBus
  BY <1>2, <1>3, <1>5 DEF TaskInOrder, OneBus, OnePerNumber
<1>8. \A c \in Client : Follows(c)
  BY <1>2, <1>5, <1>6 DEF Follows, NotPastEnd, BatchHasAll, QueueHasAll, Awaited, HasAll
<1> QED
  BY <1>1, <1>6, <1>7, <1>8 DEF SkipIInv

LEMMA NextSkips == SkipIInv /\ [Next]_vars => SkipIInv'
<1> SUFFICES ASSUME SkipIInv, [Next]_vars PROVE SkipIInv'
  OBVIOUS
<1>1. CASE WorkerPublishes
  BY <1>1, WorkerPublishesSkips
<1>2. CASE Finalise \/ TaskDies \/ WorkerCloses
  BY <1>2, FinaliseSkips, WorkerClosesSkips
<1>3. ASSUME NEW x \in Caller, CallerPublishes(x) PROVE SkipIInv'
  BY <1>3, CallerPublishesSkips
<1>4. ASSUME NEW x \in Publisher, Publish(x) PROVE SkipIInv'
  BY <1>4, RecordingSkips, FanOutSkips DEF Publish
<1>5. ASSUME NEW o \in Operator, Teardown(o) PROVE SkipIInv'
  BY <1>5, TeardownSkips
<1>6. ASSUME NEW c \in Client, StreamStep(c) PROVE SkipIInv'
  BY <1>6, ReadLogSkips, MovingSkips, SubscribeSkips, EmitNextSkips, TakeSkips, SkipSkips DEF StreamStep
<1>7. ASSUME NEW c \in Client, Disconnect(c) PROVE SkipIInv'
  BY <1>7, DisconnectSkips
<1>8. ASSUME NEW c \in Client, NEW p \in Process, Connect(c, p) PROVE SkipIInv'
  BY <1>8, MovingSkips
<1>9. ASSUME NEW p \in Process, Crash(p) PROVE SkipIInv'
  BY <1>9, CrashSkips
<1>10. CASE UNCHANGED vars
  <2>1. UNCHANGED <<closed, log, count, history, queue, home, publishing, task, published, pc, at,
                    batch, sawEnd, cursor, timeline, lossy, orderly>>
    BY <1>10 DEF vars
  <2>2. /\ IsFiniteSet(log') /\ OneBus' /\ (orderly' => \A c \in Client : Follows(c)') /\ Recedes
    BY <2>1, NothingHappens
  <2>3. TaskInOrder'
    BY <2>1, <2>2, TaskRecedes DEF SkipIInv
  <2>4. IInv'
    BY <1>10, NextIInv DEF SkipIInv
  <2> QED
    BY <2>2, <2>3, <2>4 DEF SkipIInv
<1> QED
  BY <1>1, <1>2, <1>3, <1>4, <1>5, <1>6, <1>7, <1>8, <1>9, <1>10 DEF Next

\* A client never skips a recorded event that it has gone past, whatever the
\* pages, replays, live tails, resyncs, crashes and reconnections to other
\* processes, unless its own queue dropped it or order was lost (event_source and
\* EventBus.stream, which subscribes before it replays).
THEOREM StreamSkipsNothing == Spec => []NothingSkipped
<1>1. SkipIInv => NothingSkipped
  <2> SUFFICES ASSUME SkipIInv, NEW c \in Client, orderly, c \notin lossy, NEW e \in log,
                      e.seq <= cursor[c]
               PROVE  \E i \in DOMAIN timeline[c] : timeline[c][i] = e
    BY DEF NothingSkipped
  <2>1. HasAll(c)
    BY DEF SkipIInv, Follows
  <2>2. e \in Recordable
    BY KnownEvents DEF SkipIInv, Recordable
  <2> QED
    BY <2>1, <2>2 DEF HasAll
<1>2. Spec => []SkipIInv
  BY InitSkips, NextSkips, PTL DEF Spec
<1> QED
  BY <1>1, <1>2, PTL
=============================================================================
