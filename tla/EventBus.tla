------------------------------ MODULE EventBus ------------------------------
(***************************************************************************)
(* The event bus (platform/eventbus) as one consumer sees it: the          *)
(* append-only log, the publications between their two halves, and the     *)
(* consumer's in-process subscription.                                     *)
(*                                                                         *)
(* An event is its sequence number; log[s] is its type.  publish() first   *)
(* appends in a worker thread and, when that thread's result gets back to  *)
(* the event loop, offers the event to the subscriptions of that moment:   *)
(* two publications may offer in the other order than they appended.       *)
(* Subscriptions do not affect each other, so one is enough.               *)
(***************************************************************************)
EXTENDS Naturals, Sequences, FiniteSets, Functions

CONSTANTS Types,      \* event types
          QueueSize,  \* queue_size of the bus
          MaxEvents   \* bound: length of the log

ASSUME QueueSizeAssumption == QueueSize \in Nat \ {0}
ASSUME MaxEventsAssumption == MaxEvents \in Nat

VARIABLES
  log,       \* EventLog: the types of the events, by sequence number
  inflight,  \* appended events whose publisher has not offered them yet
  patterns,  \* types the subscription asks for (a pattern stands for the types it matches)
  sub,       \* the subscription: none, open, or open with its lagged flag set
  queue      \* Subscription.queue

busVars == <<log, inflight, patterns, sub, queue>>

Events == 1..Len(log)
Matching(after) == {s \in Events : s > after /\ log[s] \in patterns}

(* EventLog.read_after: the first `limit` matching events, as a set, since *)
(* rows come back in the order of their numbers                            *)
ReadAfter(after, limit) ==
  {s \in Matching(after) : Cardinality({r \in Matching(after) : r <= s}) <= limit}

IsFirst(s, S) == s \in S /\ \A r \in S : s <= r
IsLast(s, S) == s \in S /\ \A r \in S : s >= r

BusTypeOK == /\ log \in Seq(Types)
             /\ inflight \subseteq Events
             /\ patterns \subseteq Types
             /\ sub \in {"none", "open", "lagged"}
             /\ queue \in Seq(Events)
             /\ Len(queue) <= QueueSize

BusInit(P) == /\ log = <<>>
              /\ inflight = {}
              /\ patterns = P
              /\ sub = "none"
              /\ queue = <<>>

(* publish, in the worker thread: EventLog.append *)
Record(ty) == /\ Len(log) < MaxEvents
              /\ log' = Append(log, ty)
              /\ inflight' = inflight \cup {Len(log) + 1}
              /\ UNCHANGED <<patterns, sub, queue>>

Accepts(s) == sub # "none" /\ log[s] \in patterns
Full == Len(queue) = QueueSize

(* publish, back on the event loop: put_nowait, or the lagged flag *)
Offer(s) ==
  /\ s \in inflight
  /\ inflight' = inflight \ {s}
  /\ queue' = IF Accepts(s) /\ ~Full THEN Append(queue, s) ELSE queue
  /\ sub' = IF Accepts(s) /\ Full THEN "lagged" ELSE sub
  /\ UNCHANGED <<log, patterns>>

(* subscribe: a new Subscription, with an empty queue *)
Subscribe == sub' = "open" /\ queue' = <<>>

(* Subscription.get, once the queue has an event *)
Get == queue' = Tail(queue)

(* The process ends: publications and subscription are gone, the log stays *)
BusCrash == /\ inflight' = {}
            /\ sub' = "none"
            /\ queue' = <<>>
            /\ UNCHANGED <<log, patterns>>
=============================================================================
