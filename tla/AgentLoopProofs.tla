-------------------------- MODULE AgentLoopProofs ---------------------------
(***************************************************************************)
(* Safety of AgentLoop for every set of types, queue size, read limit,     *)
(* log length and number of crashes: conservation of events, and what      *)
(* holds as long as publications do not overlap.                           *)
(***************************************************************************)
EXTENDS AgentLoop, SequenceTheorems, TLAPS

(* What a process that boots has yet to offer is ahead of the cursor.      *)
BootAhead == /\ loop = "down" => inflight = {}
             /\ loop = "booting" => \A s \in inflight : s > cursor

(* While publications do not overlap at most one is under way, it is the   *)
(* youngest event the process knows of, and the queue is in the order of   *)
(* the log.                                                                *)
Serial ==
  order = "serial" =>
    /\ \A s, r \in inflight : s = r
    /\ loop \in {"catchup", "live"} => \A s \in inflight : s > cursor
    /\ loop = "live" =>
         /\ \A s \in Volatile : s > cursor
         /\ \A i \in 1..Len(queue) :
              /\ current < queue[i]
              /\ \A k \in 1..Len(queue) : i < k => queue[i] < queue[k]
              /\ \A s \in inflight : queue[i] < s
         /\ \A s \in inflight : current < s

IInv == TypeOK /\ NothingVanishes /\ BootAhead /\ Serial

USE QueueSizeAssumption, MaxEventsAssumption, HandledAssumption, LimitAssumption,
    MaxCrashesAssumption

-----------------------------------------------------------------------------
(* The events of a queue: by position, none, one more at the back, one     *)
(* fewer in front.                                                         *)
LEMMA RangeSeq ==
  ASSUME NEW S, NEW q \in Seq(S) PROVE Range(q) = {q[i] : i \in 1..Len(q)}
<1>1. DOMAIN q = 1..Len(q)
  BY LenProperties
<1>2. Range(q) = {q[i] : i \in DOMAIN q}
  BY DEF Range
<1> QED BY <1>1, <1>2, Zenon

LEMMA RangeEmpty == Range(<<>>) = {}
<1>1. <<>> \in Seq({}) /\ Len(<<>>) = 0
  BY EmptySeq
<1>2. Range(<<>>) = {<<>>[i] : i \in 1..Len(<<>>)}
  BY <1>1, RangeSeq
<1>3. 1..Len(<<>>) = {}
  BY <1>1
<1> QED BY <1>2, <1>3

LEMMA RangeAppend ==
  ASSUME NEW S, NEW q \in Seq(S), NEW x \in S
  PROVE  Range(Append(q, x)) = Range(q) \cup {x}
<1>1. /\ Len(Append(q, x)) = Len(q) + 1 /\ Len(q) \in Nat
      /\ \A i \in 1..Len(q) : Append(q, x)[i] = q[i]
      /\ Append(q, x)[Len(q) + 1] = x
      /\ Append(q, x) \in Seq(S)
  BY AppendProperties, LenProperties
<1>2. /\ Range(q) = {q[i] : i \in 1..Len(q)}
      /\ Range(Append(q, x)) = {Append(q, x)[i] : i \in 1..Len(q) + 1}
  BY <1>1, RangeSeq
<1> QED BY <1>1, <1>2

LEMMA RangeTail ==
  ASSUME NEW S, NEW q \in Seq(S), q # <<>>
  PROVE  /\ Head(q) \in S /\ Tail(q) \in Seq(S)
         /\ Len(q) \in Nat \ {0} /\ Len(Tail(q)) = Len(q) - 1
         /\ \A i \in 1..Len(Tail(q)) : Tail(q)[i] = q[i + 1]
         /\ Head(q) = q[1]
         /\ Range(q) = {Head(q)} \cup Range(Tail(q))
<1>1. /\ Head(q) \in S /\ Tail(q) \in Seq(S)
      /\ Len(q) \in Nat \ {0} /\ Len(Tail(q)) = Len(q) - 1
      /\ \A i \in 1..Len(Tail(q)) : Tail(q)[i] = q[i + 1]
  BY HeadTailProperties, EmptySeq
<1>2. Head(q) = q[1]
  BY <1>1
<1>3. ASSUME NEW x \in Range(q) PROVE x \in {Head(q)} \cup Range(Tail(q))
  <2>1. PICK i \in 1..Len(q) : x = q[i]
    BY RangeSeq
  <2>2. CASE i = 1
    BY <2>1, <2>2, <1>2
  <2>3. CASE i # 1
    <3>1. i - 1 \in 1..Len(Tail(q)) /\ Tail(q)[i - 1] = x
      BY <2>1, <2>3, <1>1
    <3> QED BY <3>1, <1>1, RangeSeq
  <2> QED BY <2>2, <2>3
<1>4. {Head(q)} \cup Range(Tail(q)) \subseteq Range(q)
  <2>1. /\ Range(q) = {q[i] : i \in 1..Len(q)}
        /\ Range(Tail(q)) = {Tail(q)[i] : i \in 1..Len(Tail(q))}
    BY <1>1, RangeSeq
  <2> QED BY <1>1, <1>2, <2>1
<1> QED BY <1>1, <1>2, <1>3, <1>4

LEMMA RangeType ==
  ASSUME NEW S, NEW q \in Seq(S) PROVE Range(q) \subseteq S
BY ElementOfSeq, RangeSeq

(* Facts about numbers that the type invariant gives to every proof below. *)
LEMMA Numbers ==
  ASSUME TypeOK
  PROVE  /\ Len(log) \in Nat /\ Events = 1..Len(log)
         /\ cursor \in Nat /\ current \in Nat /\ Idle = 0
         /\ Volatile \subseteq Events
         /\ Len(queue) \in Nat /\ \A i \in 1..Len(queue) : queue[i] \in Events
<1>1. /\ log \in Seq(Types) /\ queue \in Seq(Events) /\ Idle = 0
      /\ backlog \subseteq Events /\ inflight \subseteq Events
      /\ cursor \in 0..Len(log) /\ current \in 0..Len(log)
  BY DEF TypeOK, BusTypeOK, Idle
<1>2. Len(log) \in Nat /\ Len(queue) \in Nat
  BY <1>1, LenProperties
<1>3. Range(queue) \subseteq Events /\ \A i \in 1..Len(queue) : queue[i] \in Events
  BY <1>1, RangeType, ElementOfSeq
<1>4. Events = 1..Len(log) /\ {current} \ {Idle} \subseteq Events
  BY <1>1, <1>2 DEF Events
<1>5. Volatile \subseteq Events
  BY <1>1, <1>3, <1>4 DEF Volatile
<1> QED BY <1>1, <1>2, <1>3, <1>4, <1>5

-----------------------------------------------------------------------------
LEMMA InitInvariant == Init => IInv
<1> SUFFICES ASSUME Init PROVE IInv
  OBVIOUS
<1>1. log \in Seq(Types) /\ queue \in Seq(Events) /\ Len(log) = 0 /\ Len(queue) = 0
  BY EmptySeq DEF Init, BusInit
<1>2. BusTypeOK
  BY <1>1 DEF Init, BusInit, BusTypeOK
<1>3. TypeOK
  BY <1>1, <1>2 DEF Init, BusInit, TypeOK, Idle
<1>4. NothingVanishes /\ BootAhead /\ Serial
  BY <1>1 DEF Init, BusInit, NothingVanishes, BootAhead, Serial, Events
<1> QED BY <1>3, <1>4 DEF IInv

(* The log grows by one event, which is in flight and younger than all.    *)
LEMMA PublishInvariant ==
  ASSUME IInv, NEW ty \in Types, Publish(ty) PROVE IInv'
<1> DEFINE n == Len(log) + 1
<1> USE Numbers DEF IInv
<1>1. /\ log \in Seq(Types) /\ log' = Append(log, ty) /\ inflight' = inflight \cup {n}
      /\ UNCHANGED <<patterns, sub, queue, loopVars, crashes, finished, excused>>
      /\ order' = IF inflight = {} THEN order ELSE "mixed"
      /\ loop # "down"
  BY DEF Publish, Record, TypeOK, BusTypeOK
<1>2. /\ log' \in Seq(Types) /\ Len(log') = n
      /\ \A s \in Events : log'[s] = log[s]
      /\ Events' = Events \cup {n} /\ n \notin Events
  BY <1>1, AppendProperties DEF Events
<1>3. queue' \in Seq(Events')
  BY <1>1, <1>2, SeqMonotonic DEF TypeOK, BusTypeOK
<1>4. TypeOK'
  BY <1>1, <1>2, <1>3 DEF TypeOK, BusTypeOK, loopVars
<1>5. Volatile' = Volatile \cup {n}
  BY <1>1 DEF Volatile, loopVars
<1>6. NothingVanishes'
  BY <1>1, <1>2, <1>5 DEF NothingVanishes, loopVars
<1>7. BootAhead'
  BY <1>1, <1>2 DEF BootAhead, TypeOK, loopVars
<1>8. Serial'
  <2> SUFFICES ASSUME order' = "serial" PROVE Serial'
    BY DEF Serial
  <2>1. order = "serial" /\ inflight = {} /\ inflight' = {n}
    BY <1>1
  <2>2. n > cursor /\ n > current
    BY DEF TypeOK
  <2>3. ASSUME NEW i \in 1..Len(queue) PROVE queue[i] < n
    <3>1. queue[i] \in 1..Len(log)
      OBVIOUS
    <3> QED BY <3>1
  <2> QED BY <1>1, <1>5, <2>1, <2>2, <2>3 DEF Serial, loopVars
<1> QED BY <1>4, <1>6, <1>7, <1>8

(* The offered event goes to the queue or through a crack.                 *)
LEMMA DeliverInvariant ==
  ASSUME IInv, NEW s \in inflight, Deliver(s) PROVE IInv'
<1> USE Numbers DEF IInv
<1>1. /\ inflight' = inflight \ {s} /\ s \in Events
      /\ UNCHANGED <<log, patterns, loopVars, crashes, finished, order>>
      /\ excused \subseteq excused' /\ excused' \subseteq excused \cup {s}
      /\ Events' = Events
  BY DEF Deliver, Offer, TypeOK, BusTypeOK, Events
<1>2. CASE Accepts(s) /\ ~Full
  <2>1. /\ queue' = Append(queue, s) /\ queue \in Seq(Events)
        /\ Len(queue) < QueueSize /\ sub' = sub
    BY <1>2 DEF Deliver, Offer, Full, TypeOK, BusTypeOK
  <2>2. /\ queue' \in Seq(Events) /\ Len(queue') = Len(queue) + 1
        /\ \A i \in 1..Len(queue) : queue'[i] = queue[i]
        /\ queue'[Len(queue) + 1] = s
        /\ Range(queue') = Range(queue) \cup {s}
    BY <1>1, <2>1, AppendProperties, RangeAppend
  <2>3. TypeOK'
    <3>1. BusTypeOK'
      BY <1>1, <2>1, <2>2 DEF TypeOK, BusTypeOK
    <3> QED BY <1>1, <1>2, <2>1, <3>1 DEF TypeOK, Accepts, loopVars
  <2>4. Volatile' = Volatile
    BY <1>1, <2>2 DEF Volatile, loopVars
  <2>5. NothingVanishes' /\ BootAhead'
    BY <1>1, <2>4 DEF NothingVanishes, BootAhead, loopVars
  <2>6. Serial'
    <3> SUFFICES ASSUME order' = "serial" PROVE Serial'
      BY DEF Serial
    <3>1. order = "serial" /\ inflight' = {}
      BY <1>1 DEF Serial
    <3>2. loop = "live" => \A i \in 1..Len(queue') :
             /\ current < queue'[i]
             /\ \A k \in 1..Len(queue') : i < k => queue'[i] < queue'[k]
      <4> SUFFICES ASSUME loop = "live" PROVE \A i \in 1..Len(queue') :
             /\ current < queue'[i]
             /\ \A k \in 1..Len(queue') : i < k => queue'[i] < queue'[k]
        OBVIOUS
      <4>1. /\ current < s
            /\ \A i \in 1..Len(queue) :
                 /\ current < queue[i] /\ queue[i] < s
                 /\ \A k \in 1..Len(queue) : i < k => queue[i] < queue[k]
        BY <3>1 DEF Serial
      <4>2. \A i \in 1..Len(queue') : i \in 1..Len(queue) \/ i = Len(queue) + 1
        BY <2>2
      <4> QED BY <2>2, <4>1, <4>2
    <3> QED BY <1>1, <2>4, <3>1, <3>2 DEF Serial, loopVars
  <2> QED BY <2>3, <2>5, <2>6
<1>3. CASE ~(Accepts(s) /\ ~Full)
  <2>1. queue' = queue
    BY <1>3 DEF Deliver, Offer
  <2>2. sub' = sub \/ (sub # "none" /\ sub' = "lagged")
    BY <1>3 DEF Deliver, Offer, Accepts
  <2>3. TypeOK'
    BY <1>1, <2>1, <2>2 DEF TypeOK, BusTypeOK, loopVars
  <2>4. Volatile \subseteq Volatile' \cup {s} /\ Volatile' \subseteq Volatile
    BY <1>1, <2>1 DEF Volatile, loopVars
  <2>5. log[s] \in Handled =>
          \/ s \in finished' \cup Volatile' \cup excused'
          \/ loop' \in {"down", "booting"} /\ s > cursor'
    <3>1. CASE loop = "booting"
      BY <1>1, <3>1 DEF BootAhead, loopVars
    <3>2. CASE loop = "catchup"
      BY <1>1, <3>2 DEF Deliver, Volatile, loopVars, TypeOK
    <3>3. CASE loop = "live"
      BY <1>1, <1>3, <3>3 DEF Deliver, Accepts, TypeOK
    <3> QED BY <3>1, <3>2, <3>3 DEF BootAhead, TypeOK
  <2>6. NothingVanishes'
    BY <1>1, <2>4, <2>5 DEF NothingVanishes, loopVars
  <2>7. BootAhead' /\ Serial'
    BY <1>1, <2>1, <2>4 DEF BootAhead, Serial, loopVars
  <2> QED BY <2>3, <2>6, <2>7
<1> QED BY <1>2, <1>3

-----------------------------------------------------------------------------
(* Begin hands on every row: the first is dispatched, the others wait.     *)
LEMMA BeginKeeps ==
  ASSUME NEW rows, rows \subseteq Events, TypeOK, loop # "live", Begin(rows)
  PROVE  /\ rows = backlog' \cup ({current'} \ {Idle})
         /\ queue' = <<>>
         /\ \/ loop' = "live" /\ sub' = "open" /\ current' = Idle /\ backlog' = {}
            \/ loop' = "catchup" /\ sub' = "none" /\ current' \in Events /\ backlog' \subseteq Events
<1>1. /\ queue = <<>> /\ sub = "none" /\ Idle = 0 /\ Idle \notin rows
  BY Numbers DEF TypeOK
<1>2. CASE rows = {}
  BY <1>1, <1>2 DEF Begin, Subscribe
<1>3. CASE rows # {}
  BY <1>1, <1>3 DEF Begin, IsFirst
<1> QED BY <1>2, <1>3

(* Starting up: the rows are dispatched or wait, or are beyond the limit.  *)
LEMMA CatchUpInvariant ==
  ASSUME IInv, CatchUp PROVE IInv'
<1> DEFINE rows == ReadAfter(cursor, Limit)
<1> USE Numbers DEF IInv
<1>1. /\ loop = "booting" /\ Begin(rows)
      /\ excused' = excused \cup (Matching(cursor) \ rows)
      /\ order' = IF inflight = {} THEN order ELSE "mixed"
      /\ UNCHANGED <<log, inflight, patterns, crashes, finished>>
      /\ rows = {} => cursor' = cursor
      /\ rows # {} => cursor' \in rows
  BY DEF CatchUp, IsLast
<1>2. rows \subseteq Matching(cursor) /\ Matching(cursor) \subseteq Events /\ Events' = Events
  BY <1>1 DEF ReadAfter, Matching, Events
<1>3. /\ rows = backlog' \cup ({current'} \ {Idle})
      /\ queue' = <<>>
      /\ \/ loop' = "live" /\ sub' = "open" /\ current' = Idle /\ backlog' = {}
         \/ loop' = "catchup" /\ sub' = "none" /\ current' \in Events /\ backlog' \subseteq Events
  BY <1>1, <1>2, BeginKeeps
<1>5. TypeOK'
  <2>1. BusTypeOK'
    BY <1>1, <1>2, <1>3, EmptySeq DEF TypeOK, BusTypeOK
  <2>2. cursor' \in 0..Len(log)
    BY <1>1, <1>2 DEF TypeOK
  <2>3. current' \in 0..Len(log) /\ (loop' = "catchup" => current' # Idle)
    BY <1>3
  <2> QED BY <1>1, <1>2, <1>3, <2>1, <2>2, <2>3 DEF TypeOK
<1>6. Volatile' = rows \cup inflight
  BY <1>1, <1>3, RangeEmpty DEF Volatile
<1>7. \A s \in Events : log[s] \in Handled /\ s > cursor => s \in Matching(cursor)
  BY DEF Matching, TypeOK
<1>8. Volatile = inflight
  BY <1>1, RangeEmpty DEF TypeOK, Volatile
<1>9. NothingVanishes'
  BY <1>1, <1>2, <1>6, <1>7, <1>8 DEF NothingVanishes
<1>10. BootAhead' /\ Serial'
  BY <1>1, <1>3, <1>6 DEF BootAhead, Serial
<1> QED BY <1>5, <1>9, <1>10

(* A row is done with; the next is dispatched, or the loop goes live.      *)
LEMMA CaughtUpInvariant ==
  ASSUME IInv, CaughtUp PROVE IInv'
<1> USE Numbers DEF IInv
<1>1. /\ loop = "catchup" /\ Begin(backlog)
      /\ finished' = finished \cup {current}
      /\ UNCHANGED <<log, inflight, patterns, cursor, crashes, excused, order>>
      /\ Events' = Events /\ backlog \subseteq Events /\ current \in Events
  BY DEF CaughtUp, TypeOK, Events
<1>2. /\ backlog = backlog' \cup ({current'} \ {Idle})
      /\ queue' = <<>>
      /\ \/ loop' = "live" /\ sub' = "open" /\ current' = Idle /\ backlog' = {}
         \/ loop' = "catchup" /\ sub' = "none" /\ current' \in Events /\ backlog' \subseteq Events
  BY <1>1, BeginKeeps
<1>4. TypeOK'
  BY <1>1, <1>2, EmptySeq DEF TypeOK, BusTypeOK, Events
<1>5. Volatile' = backlog \cup inflight /\ Volatile = backlog \cup inflight \cup {current}
  BY <1>1, <1>2, RangeEmpty DEF Volatile, TypeOK
<1>6. NothingVanishes'
  BY <1>1, <1>5 DEF NothingVanishes
<1>7. BootAhead' /\ Serial'
  BY <1>1, <1>2, <1>5 DEF BootAhead, Serial
<1> QED BY <1>4, <1>6, <1>7

(* The next event comes from the head of the queue, if there is one.       *)
LEMMA ConsumeKeeps ==
  ASSUME IInv, loop = "live", Consume, UNCHANGED <<backlog, inflight>>
  PROVE  /\ current' = Idle \/ current' \in Events
         /\ queue' \in Seq(Events) /\ Len(queue') <= Len(queue)
         /\ Volatile' = Volatile \ ({current} \ (Range(queue) \cup inflight))
         /\ Serial /\ order = "serial" =>
              /\ \A i \in 1..Len(queue') :
                   /\ current' < queue'[i] /\ current < queue'[i]
                   /\ \A k \in 1..Len(queue') : i < k => queue'[i] < queue'[k]
                   /\ \A s \in inflight : queue'[i] < s
              /\ \A s \in inflight : current' < s
<1> USE Numbers DEF IInv
<1>1. backlog = {} /\ queue \in Seq(Events)
  BY DEF TypeOK, BusTypeOK
<1>2. CASE queue = <<>>
  BY <1>1, <1>2, RangeEmpty DEF Consume, Volatile, Serial, Events
<1>3. CASE queue # <<>>
  <2>1. current' = Head(queue) /\ queue' = Tail(queue)
    BY <1>3 DEF Consume, Get
  <2>2. /\ Head(queue) \in Events /\ Tail(queue) \in Seq(Events)
        /\ Len(queue) \in Nat \ {0} /\ Len(Tail(queue)) = Len(queue) - 1
        /\ \A i \in 1..Len(Tail(queue)) : Tail(queue)[i] = queue[i + 1]
        /\ Head(queue) = queue[1]
        /\ Range(queue) = {Head(queue)} \cup Range(Tail(queue))
    BY <1>1, <1>3, RangeTail
  <2>3. Volatile' = Volatile \ ({current} \ (Range(queue) \cup inflight))
    BY <1>1, <2>1, <2>2 DEF Volatile, Events
  <2>4. Serial /\ order = "serial" =>
          /\ \A i \in 1..Len(queue') :
               /\ current' < queue'[i] /\ current < queue'[i]
               /\ \A k \in 1..Len(queue') : i < k => queue'[i] < queue'[k]
               /\ \A s \in inflight : queue'[i] < s
          /\ \A s \in inflight : current' < s
    BY <2>1, <2>2 DEF Serial
  <2> QED BY <2>1, <2>2, <2>3, <2>4
<1> QED BY <1>2, <1>3

LEMMA TakeInvariant ==
  ASSUME IInv, Take PROVE IInv'
<1> USE Numbers DEF IInv
<1>1. /\ loop = "live" /\ current = Idle /\ Consume
      /\ UNCHANGED <<log, inflight, patterns, sub,
                     cursor, loop, backlog, crashes, finished, excused, order>>
      /\ Events' = Events
  BY DEF Take, Events
<1>2. TypeOK'
  BY <1>1, ConsumeKeeps DEF TypeOK, BusTypeOK, Events
<1>3. Volatile' = Volatile
  BY <1>1, ConsumeKeeps DEF Volatile
<1>4. NothingVanishes' /\ BootAhead'
  BY <1>1, <1>3 DEF NothingVanishes, BootAhead
<1>5. Serial'
  BY <1>1, <1>3, ConsumeKeeps DEF Serial
<1> QED BY <1>2, <1>4, <1>5

LEMMA FinishInvariant ==
  ASSUME IInv, Finish PROVE IInv'
<1> USE Numbers DEF IInv
<1>1. /\ loop = "live" /\ current # Idle /\ Consume
      /\ finished' = finished \cup {current} /\ cursor' = current
      /\ UNCHANGED <<log, inflight, patterns, sub,
                     loop, backlog, crashes, excused, order>>
      /\ Events' = Events /\ current \in Events
  BY DEF Finish, Events, TypeOK
<1>2. TypeOK'
  <2>1. BusTypeOK'
    BY <1>1, ConsumeKeeps DEF TypeOK, BusTypeOK
  <2> QED BY <1>1, <2>1, ConsumeKeeps DEF TypeOK
<1>3. Volatile \subseteq Volatile' \cup {current}
  BY <1>1, ConsumeKeeps
<1>4. NothingVanishes' /\ BootAhead'
  BY <1>1, <1>3 DEF NothingVanishes, BootAhead
<1>5. Serial'
  <2> SUFFICES ASSUME order = "serial" PROVE Serial'
    BY <1>1 DEF Serial
  <2>1. \A s \in Range(queue) \cup inflight : s > current
    <3>1. queue \in Seq(Events)
      BY DEF TypeOK, BusTypeOK
    <3>2. Range(queue) = {queue[i] : i \in 1..Len(queue)}
      BY <3>1, RangeSeq
    <3> QED BY <1>1, <3>2 DEF Serial
  <2>2. \A s \in Volatile' : s > cursor'
    <3>1. backlog = {}
      BY <1>1 DEF TypeOK
    <3>2. Volatile' \subseteq Range(queue) \cup inflight
      BY <1>1, <2>1, <3>1, ConsumeKeeps DEF Volatile
    <3> QED BY <1>1, <2>1, <3>2
  <2> QED BY <1>1, <2>1, <2>2, ConsumeKeeps DEF Serial
<1> QED BY <1>2, <1>4, <1>5

-----------------------------------------------------------------------------
LEMMA SyncInvariant ==
  ASSUME IInv, NEW extra \in SUBSET (Types \ Handled), Sync(extra) PROVE IInv'
BY DEF IInv, Sync, TypeOK, BusTypeOK, NothingVanishes, BootAhead, Serial, Events,
       Volatile, loopVars, history

LEMMA BootInvariant ==
  ASSUME IInv, Boot PROVE IInv'
BY DEF IInv, Boot, TypeOK, BusTypeOK, NothingVanishes, BootAhead, Serial, Events,
       Volatile, busVars, history

(* What was only in memory is ahead of the cursor or goes through a crack. *)
LEMMA CrashInvariant ==
  ASSUME IInv, Crash PROVE IInv'
<1> USE Numbers DEF IInv
<1>1. /\ crashes' = crashes + 1 /\ crashes < MaxCrashes
      /\ inflight' = {} /\ sub' = "none"
      /\ queue' = <<>>
      /\ loop' = "down" /\ backlog' = {} /\ current' = Idle
      /\ excused' = excused \cup {s \in Volatile : s <= cursor}
      /\ UNCHANGED <<log, patterns, cursor, finished, order>>
      /\ Events' = Events
  BY DEF Crash, BusCrash, Events
<1>2. TypeOK'
  <2>1. BusTypeOK'
    BY <1>1, EmptySeq DEF TypeOK, BusTypeOK
  <2>2. (excused \cup {s \in Volatile : s <= cursor}) \subseteq Events
    BY DEF TypeOK
  <2> QED BY <1>1, <2>1, <2>2 DEF TypeOK
<1>3. NothingVanishes'
  BY <1>1 DEF NothingVanishes, Events
<1>4. BootAhead' /\ Serial'
  BY <1>1 DEF BootAhead, Serial
<1> QED BY <1>2, <1>3, <1>4

LEMMA NextInvariant == IInv /\ [Next]_vars => IInv'
<1> SUFFICES ASSUME IInv, [Next]_vars PROVE IInv'
  OBVIOUS
<1>1. CASE UNCHANGED vars
  BY <1>1 DEF vars, busVars, loopVars, history, IInv, TypeOK, BusTypeOK,
       NothingVanishes, BootAhead, Serial, Events, Volatile
<1>2. CASE Next
  BY <1>2, PublishInvariant, DeliverInvariant, SyncInvariant, CatchUpInvariant,
     CaughtUpInvariant, TakeInvariant, FinishInvariant, BootInvariant, CrashInvariant
  DEF Next, Run
<1> QED BY <1>1, <1>2

(* The inductive invariant holds in every reachable state.                 *)
THEOREM Invariant == Spec => []IInv
BY InitInvariant, NextInvariant, PTL DEF Spec

(* Bus, cursor and loop keep their shape (bus.py:20-115, loop.py:124-138). *)
THEOREM TypeCorrect == Spec => []TypeOK
<1>1. IInv => TypeOK
  BY DEF IInv
<1> QED BY <1>1, Invariant, PTL

(* An event with a handler is dispatched, in memory, to be read again, or  *)
(* went through one of the four cracks; there is no fifth.                 *)
THEOREM Conservation == Spec => []NothingVanishes
<1>1. IInv => NothingVanishes
  BY DEF IInv
<1> QED BY <1>1, Invariant, PTL

(* Publications that do not overlap survive a crash of the live loop.      *)
THEOREM SerialCrashSafety == Spec => []LiveCrashLosesNothing
<1>1. IInv => LiveCrashLosesNothing
  BY DEF IInv, Serial, LiveCrashLosesNothing
<1> QED BY <1>1, Invariant, PTL

-----------------------------------------------------------------------------
(* As long as publications do not overlap, the cursor has seen all that    *)
(* was processed, and the rows of a start are dispatched in their order.   *)
Past ==
  order = "serial" =>
    /\ \A f \in finished : f <= cursor
    /\ loop = "catchup" =>
         /\ current <= cursor /\ \A b \in backlog : current < b /\ b <= cursor
         /\ \A f \in finished : f < current

(* The next event that is dispatched is past all that were processed.      *)
Advances == order' = "serial" /\ current' # current /\ current' # Idle
              => \A f \in finished : f < current'

(* The first of the rows is dispatched, the others come after it.          *)
LEMMA BeginOrder ==
  ASSUME NEW rows \in SUBSET Events, Len(log) \in Nat, Begin(rows)
  PROVE  /\ loop' \in {"catchup", "live"}
         /\ loop' = "live" => current' = Idle
         /\ loop' = "catchup" => /\ current' \in rows /\ backlog' \subseteq rows
                                 /\ \A b \in backlog' : current' < b
<1>1. CASE rows = {}
  BY <1>1 DEF Begin, IsFirst
<1>2. CASE rows # {}
  <2>1. PICK s \in rows : /\ loop' = "catchup" /\ current' = s /\ backlog' = rows \ {s}
                          /\ \A r \in rows : s <= r
    BY <1>2 DEF Begin, IsFirst
  <2>2. \A r \in rows : r \in Nat
    BY DEF Events
  <2> QED BY <2>1, <2>2
<1> QED BY <1>1, <1>2

LEMMA CatchUpPast ==
  ASSUME IInv, Past, CatchUp, order' = "serial" PROVE Past' /\ Advances
<1> DEFINE rows == ReadAfter(cursor, Limit)
<1>1. /\ order = "serial" /\ finished' = finished /\ Begin(rows)
      /\ rows = {} => cursor' = cursor
      /\ rows # {} => IsLast(cursor', rows)
  BY DEF CatchUp
<1>2. rows \in SUBSET Events /\ \A r \in rows : r > cursor /\ r \in Nat
  BY DEF ReadAfter, Matching, Events
<1>3. /\ cursor \in Nat /\ Len(log) \in Nat
      /\ \A f \in finished : f \in Nat /\ f <= cursor
  BY <1>1, Numbers DEF IInv, TypeOK, Past
<1> HIDE DEF rows
<1>4. /\ loop' \in {"catchup", "live"}
      /\ loop' = "live" => current' = Idle
      /\ loop' = "catchup" => /\ current' \in rows /\ backlog' \subseteq rows
                              /\ \A b \in backlog' : current' < b
  BY <1>1, <1>2, <1>3, BeginOrder
<1>5. \A r \in rows : r <= cursor' /\ cursor' \in rows
  BY <1>1, <1>2 DEF IsLast
<1>6. cursor' >= cursor /\ cursor' \in Nat
  BY <1>1, <1>2, <1>3 DEF IsLast
<1>7. \A f \in finished : f <= cursor' /\ \A r \in rows : f < r
  BY <1>2, <1>3, <1>6
<1> QED BY <1>1, <1>4, <1>5, <1>7 DEF Past, Advances

LEMMA CaughtUpPast ==
  ASSUME IInv, Past, CaughtUp, order' = "serial" PROVE Past' /\ Advances
<1>1. /\ loop = "catchup" /\ order = "serial" /\ Begin(backlog)
      /\ finished' = finished \cup {current} /\ cursor' = cursor
      /\ backlog \in SUBSET Events
  BY DEF CaughtUp, IInv, TypeOK
<1>2. /\ cursor \in Nat /\ current \in Nat /\ Len(log) \in Nat
      /\ current <= cursor /\ \A b \in backlog : current < b /\ b <= cursor /\ b \in Nat
      /\ \A f \in finished : f \in Nat /\ f <= cursor /\ f < current
  BY <1>1, Numbers DEF IInv, TypeOK, Past
<1>3. /\ loop' \in {"catchup", "live"}
      /\ loop' = "live" => current' = Idle
      /\ loop' = "catchup" => /\ current' \in backlog /\ backlog' \subseteq backlog
                              /\ \A b \in backlog' : current' < b
  BY <1>1, <1>2, BeginOrder
<1>4. \A f \in finished \cup {current} : f <= cursor /\ \A b \in backlog : f < b
  BY <1>2
<1> QED BY <1>1, <1>2, <1>3, <1>4 DEF Past, Advances

(* What the live loop takes from the queue is ahead of the cursor.         *)
LEMMA LivePast ==
  ASSUME IInv, Past, Take \/ Finish, order' = "serial" PROVE Past' /\ Advances
<1>1. /\ loop = "live" /\ loop' = "live" /\ order = "serial" /\ Consume
      /\ queue \in Seq(Events)
  BY DEF Take, Finish, IInv, TypeOK, BusTypeOK
<1>2. /\ cursor \in Nat /\ current \in Nat
      /\ \A s \in Volatile : s > cursor /\ s \in Nat
      /\ \A f \in finished : f \in Nat /\ f <= cursor
  BY <1>1, Numbers DEF IInv, TypeOK, Past, Serial, Events
<1>3. Advances
  <2>1. CASE queue = <<>>
    BY <1>1, <2>1 DEF Advances, Consume
  <2>2. CASE queue # <<>>
    <3>1. current' = Head(queue) /\ Head(queue) \in Range(queue)
      BY <1>1, <2>2, RangeTail DEF Consume
    <3>2. current' > cursor /\ current' \in Nat
      BY <1>2, <3>1 DEF Volatile
    <3> QED BY <1>2, <3>2 DEF Advances
  <2> QED BY <2>1, <2>2
<1>4. CASE Take
  <2>1. finished' = finished /\ cursor' = cursor
    BY <1>4 DEF Take
  <2> QED BY <1>1, <1>2, <1>3, <2>1 DEF Past
<1>5. CASE Finish
  <2>1. finished' = finished \cup {current} /\ cursor' = current /\ current > cursor
    BY <1>2, <1>5 DEF Finish, Volatile
  <2>2. \A f \in finished \cup {current} : f <= current
    BY <1>2, <2>1
  <2> QED BY <1>1, <1>3, <2>1, <2>2 DEF Past
<1> QED BY <1>4, <1>5

LEMMA NextPast == IInv /\ Past /\ [Next]_vars => Past' /\ Advances
<1> SUFFICES ASSUME IInv, Past, [Next]_vars, order' = "serial" PROVE Past' /\ Advances
  BY DEF Past, Advances
<1>1. CASE Run
  BY <1>1, CatchUpPast, CaughtUpPast, LivePast DEF Run
<1>2. CASE Crash
  BY <1>2 DEF Crash, Past, Advances
<1>3. CASE \/ (\E ty \in Types : Publish(ty)) \/ (\E s \in inflight : Deliver(s))
           \/ (\E extra \in SUBSET (Types \ Handled) : Sync(extra)) \/ Boot \/ UNCHANGED vars
  <2>1. UNCHANGED <<cursor, backlog, current, finished>> /\ order = "serial"
    BY <1>3 DEF Publish, Deliver, Sync, Boot, vars, loopVars, history
  <2>2. loop' = "catchup" => loop = "catchup"
    BY <1>3 DEF Publish, Deliver, Sync, Boot, vars, loopVars
  <2> QED BY <2>1, <2>2 DEF Past, Advances
<1> QED BY <1>1, <1>2, <1>3 DEF Next

(* Publications that do not overlap are dispatched in their order, and     *)
(* none twice, through any number of restarts.                             *)
THEOREM SerialOrder == Spec => SerialDispatchAdvances
<1>1. Init => Past
  BY DEF Init, Past
<1>2. IInv /\ Past /\ [Next]_vars => Past'
  BY NextPast
<1>3. IInv /\ Past /\ [Next]_vars
        => [order' = "serial" /\ current' # current /\ current' # Idle
              => \A s \in finished : s < current']_vars
  BY NextPast DEF Advances
<1> QED BY <1>1, <1>2, <1>3, Invariant, PTL DEF Spec, SerialDispatchAdvances
=============================================================================
