----------------------------- MODULE RateLimits -----------------------------
(***************************************************************************)
(* The fixed-window limiter of one API process (core/middleware.py).  Its  *)
(* allow() has no await, so a request is one step.  Time is in seconds.    *)
(***************************************************************************)
EXTENDS Integers, FiniteSets, Sequences

CONSTANTS Clients,
          LimitOf,        \* requests a client may make per window
          Window,         \* length of a window
          Retention,      \* age past which a bucket is stale
          MaxBuckets,     \* buckets held before stale ones are dropped
          LastSecond      \* bound: end of time

ASSUME LimiterBounds ==
  /\ LimitOf \in [Clients -> Nat \ {0}]
  /\ Window \in Nat \ {0} /\ MaxBuckets \in Nat /\ LastSecond \in Nat
  /\ Retention \in Nat /\ Retention >= Window

VARIABLES second, windows,
          admitted        \* history: when each client's requests were let in

limiterVars == <<second, windows, admitted>>

NoBucket == [start |-> -1, count |-> 0]

LimiterInit ==
  /\ second = 0
  /\ windows = [c \in Clients |-> NoBucket]
  /\ admitted = [c \in Clients |-> <<>>]

WindowStart == second - (second % Window)

\* Broken variant: any bucket that is not of this second is dropped.
PrunedAll(held) ==
  IF Cardinality({c \in Clients : held[c] # NoBucket}) < MaxBuckets THEN held
  ELSE [c \in Clients |-> IF held[c].start < second THEN NoBucket ELSE held[c]]

(* Only on the way past a full table, and only what is long over. *)
Pruned(held) ==
  IF Cardinality({c \in Clients : held[c] # NoBucket}) < MaxBuckets THEN held
  ELSE [c \in Clients |-> IF held[c].start < second - Retention THEN NoBucket
                          ELSE held[c]]

Admitted(c) == admitted' = [admitted EXCEPT ![c] = Append(@, second)]

OpenWindow(c) ==
  /\ windows[c].start # WindowStart
  /\ windows' = Pruned([windows EXCEPT ![c] = [start |-> WindowStart, count |-> 1]])
  /\ Admitted(c)
  /\ UNCHANGED second

Count(c) ==
  /\ windows[c].start = WindowStart /\ windows[c].count < LimitOf[c]
  /\ windows' = [windows EXCEPT ![c].count = @ + 1]
  /\ Admitted(c)
  /\ UNCHANGED second

RefuseRequest(c) ==
  /\ windows[c].start = WindowStart /\ windows[c].count >= LimitOf[c]
  /\ UNCHANGED limiterVars

ClockTicks == /\ second < LastSecond
              /\ second' = second + 1
              /\ UNCHANGED <<windows, admitted>>

LimiterNext == \/ ClockTicks
               \/ \E c \in Clients : OpenWindow(c) \/ Count(c) \/ RefuseRequest(c)

LimiterSpec == LimiterInit /\ [][LimiterNext]_limiterVars

-----------------------------------------------------------------------------
(***************************************************************************)
(* Properties                                                              *)
(***************************************************************************)
(* The shape of the state. *)
LimiterTypeOK ==
  /\ second \in 0..LastSecond
  /\ windows \in [Clients -> [start : -1..LastSecond, count : Nat]]
  /\ \A c \in Clients : \A i \in DOMAIN admitted[c] : admitted[c][i] \in 0..second

(* A window admits no more than the limit, and so no span of the same      *)
(* length more than twice as much, whatever buckets are dropped to keep    *)
(* memory bounded (core/middleware.py allow, _prune).                      *)
AtMostTwiceTheLimit ==
  \A c \in Clients : \A from \in 0..second :
    LET within(low) == Cardinality({i \in DOMAIN admitted[c] :
                                      admitted[c][i] \in low..(low + Window - 1)})
    IN  /\ from % Window = 0 => within(from) =< LimitOf[c]
        /\ within(from) =< 2 * LimitOf[c]
=============================================================================
