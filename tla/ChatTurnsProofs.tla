-------------------------- MODULE ChatTurnsProofs ---------------------------
(***************************************************************************)
(* Safety of ChatTurns for every number of messages, permits and mishaps:  *)
(* the lock, the permits and the chat's status agree, nothing is left in   *)
(* the inbox of an idle master but through a crack, and no message is lost *)
(* track of.                                                               *)
(***************************************************************************)
EXTENDS ChatTurns, SequenceTheorems, TLAPS

(* An interruption that is still to come is a mishap already counted.      *)
KillerCounted == killer # None => mishaps > 0

IInv == TypeOK /\ KillerCounted /\ RunningIsDriven /\ StrandedOnlyByCrack

USE ModesAssumption, RoutesAssumption, MaxConcurrentAssumption, MaxMessagesAssumption,
    MaxMishapsAssumption DEF None

-----------------------------------------------------------------------------
(* The messages of a queue, and what a longer or a shorter queue holds.    *)
LEMMA QueueRange ==
  ASSUME NEW S, NEW q \in Seq(S) PROVE Range(q) \subseteq S
<1>1. DOMAIN q = 1..Len(q)
  BY LenProperties
<1> QED BY <1>1, ElementOfSeq DEF Range

LEMMA QueueTail ==
  ASSUME NEW S, NEW q \in Seq(S), q # <<>>
  PROVE  Head(q) \in S /\ Tail(q) \in Seq(S)
BY HeadTailProperties, EmptySeq

LEMMA NothingQueued == Range(<<>>) = {}
<1>1. <<>> \in Seq({})
  BY EmptySeq
<1>2. Range(<<>>) \subseteq {}
  BY <1>1, QueueRange
<1> QED BY <1>2

(* A message more makes every bound of the type invariant looser.          *)
LEMMA Wider ==
  ASSUME TypeOK, NEW n \in Nat, n >= arrived, NEW q \in Seq(1..arrived)
  PROVE  /\ 0..arrived \subseteq 0..n /\ 1..arrived \subseteq 1..n
         /\ q \in Seq(1..n)
<1>1. 0..arrived \subseteq 0..n /\ 1..arrived \subseteq 1..n
  BY DEF TypeOK
<1> QED BY <1>1, SeqMonotonic

LEMMA InitInvariant == Init => IInv
<1> SUFFICES ASSUME Init PROVE IInv
  OBVIOUS
<1>1. inbox \in Seq(1..arrived) /\ waiters \in Seq(1..arrived)
  BY EmptySeq DEF Init
<1>2. TypeOK
  <2>1. step \in Steps /\ status \in Statuses /\ PermitsTaken = 0
    BY DEF Init, Steps, Statuses, PermitsTaken, Registered
  <2> QED BY <1>1, <2>1 DEF Init, TypeOK
<1>3. inbox = <<>> /\ Range(inbox) = {}
  BY NothingQueued DEF Init
<1> QED BY <1>2, <1>3
    DEF Init, IInv, KillerCounted, RunningIsDriven, StrandedOnlyByCrack

-----------------------------------------------------------------------------
(* The inbox only grows here while a turn is under way.                    *)
LEMMA ArriveInvariant ==
  ASSUME IInv, NEW mode \in Modes, Arrive(mode) PROVE IInv'
<1> USE DEF IInv
<1> DEFINE n == arrived + 1
<1>1. /\ n \in Nat /\ n >= arrived /\ n \in 1..n /\ arrived' = n /\ n <= MaxMessages
      /\ UNCHANGED <<turn, instance, fed, others, killer, mishaps, outcome, excused>>
      /\ Receive(n, mode)
  BY DEF Arrive, TypeOK
<1>2. /\ inbox \in Seq(1..n) /\ waiters \in Seq(1..n)
      /\ Append(inbox, n) \in Seq(1..n) /\ Append(waiters, n) \in Seq(1..n)
  BY <1>1, Wider, AppendProperties DEF TypeOK
<1>3. /\ inbox' \in Seq(1..n) /\ waiters' \in Seq(1..n)
      /\ judged' \in 0..n /\ judgedFor' \in 0..chat
      /\ status # "running" => inbox' = inbox
  <2>1. judged \in 0..n /\ judgedFor \in 0..chat /\ chat \in 0..chat
    BY <1>1 DEF TypeOK
  <2>2. CASE status = "running" /\ mode = "queue"
    BY <1>1, <1>2, <2>1, <2>2 DEF Receive
  <2>3. CASE status = "running" /\ mode = "judge"
    BY <1>1, <1>2, <2>1, <2>3 DEF Receive
  <2>4. CASE status # "running"
    BY <1>1, <1>2, <2>1, <2>4 DEF Receive
  <2> QED BY <2>2, <2>3, <2>4
<1>4. TypeOK'
  BY <1>1, <1>3, Wider DEF TypeOK, turn, instance, outcome, PermitsTaken, Registered
<1>5. KillerCounted' /\ RunningIsDriven'
  BY <1>1 DEF KillerCounted, RunningIsDriven, turn, instance
<1>6. StrandedOnlyByCrack'
  BY <1>1, <1>3 DEF StrandedOnlyByCrack, RunningIsDriven, turn
<1> QED BY <1>4, <1>5, <1>6

(* A verdict that comes when nobody works the inbox off goes through a crack. *)
LEMMA JudgeInvariant ==
  ASSUME IInv, Judge PROVE IInv'
<1> USE DEF IInv
<1>1. CASE Merge \/ JudgeFails
  <2>1. TypeOK'
    BY <1>1 DEF Merge, JudgeFails, TypeOK, turn, instance, PermitsTaken, Registered
  <2> QED BY <1>1, <2>1 DEF Merge, JudgeFails, KillerCounted, RunningIsDriven,
               StrandedOnlyByCrack, turn, instance
<1>2. CASE Enqueue
  <2>1. /\ judged \in 1..arrived /\ inbox' = Append(inbox, judged)
        /\ excused' = IF step = "idle" THEN excused \cup {judged} ELSE excused
        /\ UNCHANGED <<arrived, waiters, turn, instance, fed, others, killer, mishaps, outcome>>
        /\ judged' = 0 /\ judgedFor' = 0
    BY <1>2 DEF Enqueue, TypeOK
  <2>2. inbox' \in Seq(1..arrived)
    BY <2>1, AppendProperties DEF TypeOK
  <2>3. TypeOK'
    BY <2>1, <2>2 DEF TypeOK, turn, instance, outcome, PermitsTaken, Registered
  <2>4. Range(inbox') \subseteq Range(inbox) \cup {judged}
    <3>1. /\ DOMAIN inbox' = 1..Len(inbox) + 1 /\ Len(inbox) \in Nat
          /\ \A i \in 1..Len(inbox) : inbox'[i] = inbox[i]
          /\ inbox'[Len(inbox) + 1] = judged
          /\ DOMAIN inbox = 1..Len(inbox)
      BY <2>1, AppendProperties, LenProperties DEF TypeOK
    <3> QED BY <3>1 DEF Range
  <2> QED BY <2>1, <2>3, <2>4
          DEF KillerCounted, RunningIsDriven, StrandedOnlyByCrack, turn, instance
<1> QED BY <1>1, <1>2 DEF Judge

-----------------------------------------------------------------------------
(* A turn that begins where no other is under way leaves the permits within *)
(* bounds, and the chat is RUNNING only if the turn runs it.               *)
LEMMA TurnKeeps ==
  ASSUME IInv, NEW m \in 1..arrived, Turn(m), step \in {"idle", "direct", "replying"}
  PROVE  /\ subject' = m /\ step' \in {"direct", "permit", "starting"}
         /\ chat' \in Nat /\ chat' >= chat /\ status' \in Statuses
         /\ fed' \subseteq 1..arrived /\ read' \subseteq 1..arrived /\ lost' \subseteq 1..arrived
         /\ others' \in 0..MaxConcurrent /\ PermitsTaken' <= MaxConcurrent
         /\ mishaps = 0 /\ status' = "running" => step' = "starting"
<1> USE DEF IInv, TypeOK, RunningIsDriven
<1>1. /\ subject' = m /\ step' \in {"direct", "permit", "starting"}
      /\ chat' \in Nat /\ chat' >= chat
      /\ status' \in Statuses
      /\ mishaps = 0 /\ status' = "running" => step' = "starting"
  BY DEF Turn, Run, instance, Statuses, Alive
<1>2. fed' \subseteq 1..arrived /\ read' \subseteq 1..arrived /\ lost' \subseteq 1..arrived
  BY DEF Turn, Run
<1>3. others' \in 0..MaxConcurrent /\ PermitsTaken' <= MaxConcurrent
  BY <1>1 DEF Turn, Run, Free, PermitsTaken, Registered
<1> QED BY <1>1, <1>2, <1>3

LEMMA AcquireInvariant ==
  ASSUME IInv, Acquire PROVE IInv'
<1> USE DEF IInv
<1>1. Head(waiters) \in 1..arrived /\ Tail(waiters) \in Seq(1..arrived)
  BY QueueTail DEF Acquire, TypeOK
<1>2. /\ step = "idle" /\ waiters' = Tail(waiters) /\ Turn(Head(waiters))
      /\ UNCHANGED <<handler, inbox, killer, mishaps, answered, excused>>
  BY DEF Acquire
<1>3. TypeOK'
  <2>1. judged' \in 0..arrived' /\ judgedFor' \in 0..chat' /\ killer' \in 0..chat'
    BY <1>1, <1>2, TurnKeeps DEF TypeOK, handler
  <2>2. step' \in Steps /\ subject' \in 1..arrived /\ (step' = "idle" <=> subject' = 0)
    BY <1>1, <1>2, TurnKeeps DEF Steps
  <2>3. /\ chat' \in Nat /\ status' \in Statuses
        /\ fed' \subseteq 1..arrived /\ read' \subseteq 1..arrived /\ lost' \subseteq 1..arrived
        /\ others' \in 0..MaxConcurrent /\ PermitsTaken' <= MaxConcurrent
    BY <1>1, <1>2, TurnKeeps
  <2>4. /\ arrived' = arrived /\ arrived \in 0..MaxMessages
        /\ inbox' \in Seq(1..arrived) /\ waiters' \in Seq(1..arrived)
        /\ mishaps' \in 0..MaxMishaps
        /\ answered' \subseteq 1..arrived /\ excused' \subseteq 1..arrived
    BY <1>1, <1>2 DEF TypeOK, handler
  <2> QED BY <2>1, <2>2, <2>3, <2>4 DEF TypeOK
<1>4. KillerCounted' /\ RunningIsDriven' /\ StrandedOnlyByCrack'
  BY <1>1, <1>2, TurnKeeps DEF KillerCounted, RunningIsDriven, StrandedOnlyByCrack
<1> QED BY <1>3, <1>4

(* The turn that ends starts the next message of the inbox, or leaves it empty. *)
LEMMA RepliedInvariant ==
  ASSUME IInv, Replied PROVE IInv'
<1> USE DEF IInv
<1>1. /\ step \in {"direct", "replying"} /\ Drain
      /\ answered' = answered \cup {subject} /\ subject \in 1..arrived
      /\ UNCHANGED <<handler, waiters, killer, mishaps, excused>>
  BY DEF Replied, TypeOK
<1>2. CASE inbox = <<>>
  <2>1. /\ step' = "idle" /\ subject' = 0
        /\ UNCHANGED <<inbox, instance, fed, others, read, lost>>
    BY <1>1, <1>2 DEF Drain
  <2>2. TypeOK'
    <3>1. step' \in Steps /\ PermitsTaken' <= MaxConcurrent
      BY <1>1, <2>1 DEF TypeOK, Steps, PermitsTaken, Registered
    <3>2. answered' \subseteq 1..arrived
      BY <1>1 DEF TypeOK
    <3>3. inbox' \in Seq(1..arrived) /\ waiters' \in Seq(1..arrived) /\ arrived' = arrived
      BY <1>1, <2>1 DEF TypeOK, handler
    <3> QED BY <1>1, <2>1, <3>1, <3>2, <3>3 DEF TypeOK, handler, instance
  <2>3. Range(inbox') = {}
    BY <1>2, <2>1, NothingQueued
  <2> QED BY <1>1, <2>1, <2>2, <2>3
          DEF KillerCounted, RunningIsDriven, StrandedOnlyByCrack, instance
<1>3. CASE inbox # <<>>
  <2>1. Head(inbox) \in 1..arrived /\ Tail(inbox) \in Seq(1..arrived)
    BY <1>3, QueueTail DEF TypeOK
  <2>2. Turn(Head(inbox)) /\ inbox' = Tail(inbox)
    BY <1>1, <1>3 DEF Drain
  <2>3. TypeOK'
    <3>1. judgedFor' \in 0..chat' /\ killer' \in 0..chat'
      BY <1>1, <2>1, <2>2, TurnKeeps DEF TypeOK, handler
    <3>2. step' \in Steps /\ subject' \in 1..arrived /\ (step' = "idle" <=> subject' = 0)
      BY <1>1, <2>1, <2>2, TurnKeeps DEF Steps
    <3>3. answered' \subseteq 1..arrived /\ inbox' \in Seq(1..arrived) /\ arrived' = arrived
      BY <1>1, <2>1, <2>2 DEF TypeOK, handler
    <3>4. /\ chat' \in Nat /\ status' \in Statuses
          /\ fed' \subseteq 1..arrived /\ read' \subseteq 1..arrived /\ lost' \subseteq 1..arrived
          /\ others' \in 0..MaxConcurrent /\ PermitsTaken' <= MaxConcurrent
      BY <1>1, <2>1, <2>2, TurnKeeps
    <3>5. /\ judged' \in 0..arrived' /\ waiters' \in Seq(1..arrived) /\ arrived \in 0..MaxMessages
          /\ mishaps' \in 0..MaxMishaps /\ excused' \subseteq 1..arrived
      BY <1>1 DEF TypeOK, handler
    <3> QED BY <3>1, <3>2, <3>3, <3>4, <3>5 DEF TypeOK
  <2> QED BY <1>1, <2>1, <2>2, <2>3, TurnKeeps
          DEF KillerCounted, RunningIsDriven, StrandedOnlyByCrack
<1> QED BY <1>2, <1>3

LEMMA AdvanceInvariant ==
  ASSUME IInv, Permit \/ Started \/ Complete PROVE IInv'
<1> USE DEF IInv
<1>1. CASE Permit
  <2>1. /\ step' = "starting" /\ status' = "running" /\ fed' = {} /\ read' = read \cup fed
        /\ UNCHANGED <<handler, inbox, waiters, subject, chat, others, killer, mishaps,
                       answered, lost, excused>>
        /\ step # "idle"
    BY <1>1 DEF Permit, Run
  <2>2. step' \in Steps /\ status' \in Statuses /\ PermitsTaken' <= MaxConcurrent
    BY <1>1, <2>1 DEF Permit, Free, TypeOK, Steps, Statuses, PermitsTaken, Registered
  <2>3. TypeOK'
    BY <2>1, <2>2 DEF TypeOK, handler
  <2> QED BY <2>1, <2>3 DEF KillerCounted, RunningIsDriven, StrandedOnlyByCrack
<1>2. CASE Started \/ Complete
  <2>1. /\ UNCHANGED <<handler, inbox, waiters, subject, chat, fed, others, killer, mishaps,
                       outcome, excused>>
        /\ step # "idle" /\ step' \in Steps \ {"idle"} /\ status' \in Statuses
        /\ PermitsTaken' = PermitsTaken
    BY <1>2 DEF Started, Complete, instance, TypeOK, Steps, Statuses, PermitsTaken, Registered
  <2>2. TypeOK'
    BY <2>1 DEF TypeOK, handler, outcome
  <2> QED BY <1>2, <2>1, <2>2 DEF Started, Complete, KillerCounted, RunningIsDriven,
               StrandedOnlyByCrack, instance
<1> QED BY <1>1, <1>2

(* A task that dies excuses what it leaves in the inbox.                   *)
LEMMA DieKeeps ==
  ASSUME TypeOK, Die, UNCHANGED <<inbox, others, arrived>>, step # "idle"
  PROVE  /\ step' = "idle" /\ subject' = 0 /\ PermitsTaken' <= MaxConcurrent
         /\ lost' \subseteq 1..arrived /\ excused' \subseteq 1..arrived
         /\ Range(inbox') \subseteq excused'
<1>1. Range(inbox) \subseteq 1..arrived
  BY QueueRange DEF TypeOK
<1>2. subject \in 1..arrived
  BY DEF TypeOK
<1> QED BY <1>1, <1>2 DEF Die, TypeOK, PermitsTaken, Registered

LEMMA FailInvariant ==
  ASSUME IInv, Fail \/ StartFails PROVE IInv'
<1> USE DEF IInv
<1>1. /\ Die /\ step # "idle"
      /\ UNCHANGED <<handler, inbox, waiters, chat, fed, others, killer, answered, read>>
      /\ mishaps' \in 0..MaxMishaps /\ mishaps' >= mishaps
      /\ status' \in Statuses
      /\ mishaps' = 0 => status' # "running"
  BY DEF Fail, StartFails, TypeOK, RunningIsDriven, instance, Statuses
<1>2. /\ step' = "idle" /\ subject' = 0 /\ PermitsTaken' <= MaxConcurrent
      /\ lost' \subseteq 1..arrived /\ excused' \subseteq 1..arrived
      /\ Range(inbox') \subseteq excused'
  BY <1>1, DieKeeps DEF handler
<1>3. TypeOK'
  BY <1>1, <1>2 DEF TypeOK, handler, Steps
<1>4. KillerCounted'
  BY <1>1 DEF KillerCounted, TypeOK
<1> QED BY <1>1, <1>2, <1>3, <1>4 DEF RunningIsDriven, StrandedOnlyByCrack

-----------------------------------------------------------------------------
LEMMA CancelInvariant ==
  ASSUME IInv, Mark \/ Interrupt PROVE IInv'
<1> USE DEF IInv
<1>1. CASE Mark
  <2>1. TypeOK' /\ mishaps' > 0
    BY <1>1 DEF Mark, TypeOK, handler, turn, outcome, Statuses, PermitsTaken, Registered
  <2> QED BY <2>1 DEF KillerCounted, RunningIsDriven, StrandedOnlyByCrack
<1>2. CASE Interrupt
  <2>1. /\ killer' = 0 /\ mishaps > 0
        /\ UNCHANGED <<handler, inbox, waiters, instance, fed, others, mishaps, answered, read>>
    BY <1>2 DEF Interrupt, KillerCounted
  <2>2. CASE Registered /\ killer = chat
    <3>1. Die /\ step # "idle"
      BY <1>2, <2>2 DEF Interrupt, Registered
    <3>2. /\ step' = "idle" /\ subject' = 0 /\ PermitsTaken' <= MaxConcurrent
          /\ lost' \subseteq 1..arrived /\ excused' \subseteq 1..arrived
      BY <2>1, <3>1, DieKeeps DEF handler
    <3>3. TypeOK'
      <4>1. step' \in Steps
        BY <3>2 DEF Steps
      <4>2. killer' \in 0..chat
        BY <2>1 DEF TypeOK
      <4> QED BY <2>1, <3>2, <4>1, <4>2 DEF TypeOK, handler, instance
    <3> QED BY <2>1, <3>3, MaxMishapsAssumption
            DEF KillerCounted, RunningIsDriven, StrandedOnlyByCrack, TypeOK
  <2>3. CASE ~(Registered /\ killer = chat)
    <3>1. UNCHANGED <<turn, lost, excused>>
      BY <1>2, <2>3 DEF Interrupt
    <3>2. TypeOK'
      BY <2>1, <3>1 DEF TypeOK, handler, turn, instance, PermitsTaken, Registered
    <3> QED BY <2>1, <3>2 DEF KillerCounted, RunningIsDriven, StrandedOnlyByCrack, TypeOK
  <2> QED BY <2>2, <2>3
<1> QED BY <1>1, <1>2

LEMMA OthersInvariant ==
  ASSUME IInv, Occupy \/ Release PROVE IInv'
<1> USE DEF IInv
<1>1. TypeOK'
  <2>1. others' \in 0..MaxConcurrent /\ PermitsTaken' <= MaxConcurrent
    BY DEF Occupy, Release, TypeOK, turn, PermitsTaken, Registered
  <2>2. UNCHANGED <<handler, inbox, waiters, turn, instance, fed, killer, mishaps, outcome, excused>>
    BY DEF Occupy, Release
  <2> QED BY <2>1, <2>2 DEF TypeOK, handler, turn, instance, outcome
<1> QED BY <1>1 DEF Occupy, Release, KillerCounted, RunningIsDriven, StrandedOnlyByCrack,
             turn, instance

LEMMA NextInvariant == IInv /\ [Next]_vars => IInv'
<1> SUFFICES ASSUME IInv, [Next]_vars PROVE IInv'
  OBVIOUS
<1>1. CASE UNCHANGED vars
  BY <1>1 DEF vars, handler, turn, instance, outcome, IInv, TypeOK, KillerCounted,
       RunningIsDriven, StrandedOnlyByCrack, PermitsTaken, Registered
<1>2. CASE Next
  BY <1>2, ArriveInvariant, JudgeInvariant, AcquireInvariant, RepliedInvariant,
     AdvanceInvariant, FailInvariant, CancelInvariant, OthersInvariant
  DEF Next, Task
<1> QED BY <1>1, <1>2

(* The inductive invariant holds in every reachable state.                 *)
THEOREM Invariant == Spec => []IInv
BY InitInvariant, NextInvariant, PTL DEF Spec

(* The lock has a holder exactly while a message is worked on, and no more *)
(* runs than permits are under way (master.py:130-149, scheduler.py:24-33). *)
THEOREM TypeCorrect == Spec => []TypeOK
<1>1. IInv => TypeOK
  BY DEF IInv
<1> QED BY <1>1, Invariant, PTL

(* A chat that says RUNNING is being run, unless a cancel_run or a failing *)
(* start interfered (instance.py:156-225).                                 *)
THEOREM Driven == Spec => []RunningIsDriven
<1>1. IInv => RunningIsDriven
  BY DEF IInv
<1> QED BY <1>1, Invariant, PTL

(* An idle master's inbox holds only messages that went through a crack    *)
(* (master.py:117-145).                                                    *)
THEOREM Stranded == Spec => []StrandedOnlyByCrack
<1>1. IInv => StrandedOnlyByCrack
  BY DEF IInv
<1> QED BY <1>1, Invariant, PTL

-----------------------------------------------------------------------------
(* Conservation of the messages.  A step moves messages from one place to   *)
(* another, once, twice or three times.                                     *)

Apart(P) == \A i, k \in 1..8 : i # k => P[i] \cap P[k] = {}
Whole(P) == UNION {P[i] : i \in 1..8}
Moved(P, Q, a, b, X) == /\ a # b /\ X \subseteq P[a]
                        /\ Q[a] = P[a] \ X /\ Q[b] = P[b] \cup X
                        /\ \A i \in 1..8 \ {a, b} : Q[i] = P[i]
Parts(P, n) == Apart(P) /\ Whole(P) = 1..n

Conserved == Parts(Places, arrived) /\ IsInjective(inbox) /\ IsInjective(waiters)

LEMMA ConservedIsConserved == MessagesConserved <=> Conserved
<1>1. DOMAIN Places = 1..8
  BY DEF Places
<1>2. UNION Range(Places) = Whole(Places)
  BY <1>1 DEF Range, Whole
<1> QED BY <1>1, <1>2 DEF MessagesConserved, Conserved, Parts, Apart

LEMMA MovedParts ==
  ASSUME NEW P, NEW Q, NEW a \in 1..8, NEW b \in 1..8, NEW X, NEW n,
         Parts(P, n), Moved(P, Q, a, b, X)
  PROVE  Parts(Q, n)
<1>1. \A m : (\E i \in 1..8 : m \in Q[i]) <=> (\E i \in 1..8 : m \in P[i])
  <2> SUFFICES ASSUME NEW m
               PROVE  (\E i \in 1..8 : m \in Q[i]) <=> (\E i \in 1..8 : m \in P[i])
    OBVIOUS
  <2>1. ASSUME NEW i \in 1..8, m \in Q[i] PROVE \E k \in 1..8 : m \in P[k]
    BY <2>1 DEF Moved
  <2>2. ASSUME NEW i \in 1..8, m \in P[i] PROVE \E k \in 1..8 : m \in Q[k]
    <3>1. CASE i # a
      BY <2>2, <3>1 DEF Moved
    <3>2. CASE i = a
      BY <2>2, <3>2 DEF Moved
    <3> QED BY <3>1, <3>2
  <2> QED BY <2>1, <2>2
<1>2. Whole(Q) = Whole(P)
  BY <1>1 DEF Whole
<1>3. ASSUME NEW i \in 1..8, NEW k \in 1..8, i # k PROVE Q[i] \cap Q[k] = {}
  <2>1. P[i] \cap P[k] = {} /\ (i # a => P[a] \cap P[i] = {}) /\ (k # a => P[a] \cap P[k] = {})
        /\ (i # b => P[b] \cap P[i] = {}) /\ (k # b => P[b] \cap P[k] = {})
    BY <1>3 DEF Parts, Apart
  <2>2. Q[i] \subseteq IF i = b THEN P[b] \cup X ELSE IF i = a THEN P[a] \ X ELSE P[i]
    BY DEF Moved
  <2>3. Q[k] \subseteq IF k = b THEN P[b] \cup X ELSE IF k = a THEN P[a] \ X ELSE P[k]
    BY DEF Moved
  <2> QED BY <1>3, <2>1, <2>2, <2>3 DEF Moved
<1> QED BY <1>2, <1>3 DEF Parts, Apart

(* What a queue holds when a message is added or taken.                    *)
LEMMA AppendRange ==
  ASSUME NEW S, NEW q \in Seq(S), NEW e \in S, IsInjective(q), e \notin Range(q)
  PROVE  Range(Append(q, e)) = Range(q) \cup {e} /\ IsInjective(Append(q, e))
<1>1. /\ Len(q) \in Nat /\ DOMAIN q = 1..Len(q) /\ DOMAIN Append(q, e) = 1..Len(q) + 1
      /\ \A i \in 1..Len(q) : Append(q, e)[i] = q[i]
      /\ Append(q, e)[Len(q) + 1] = e
  BY AppendProperties, LenProperties
<1>2. 1..Len(q) + 1 = (1..Len(q)) \cup {Len(q) + 1}
  BY <1>1
<1> QED BY <1>1, <1>2 DEF Range, IsInjective

LEMMA TailRange ==
  ASSUME NEW S, NEW q \in Seq(S), q # <<>>, IsInjective(q)
  PROVE  /\ Head(q) \in Range(q) /\ Range(Tail(q)) = Range(q) \ {Head(q)}
         /\ IsInjective(Tail(q))
<1>1. /\ Len(q) \in Nat \ {0} /\ DOMAIN q = 1..Len(q) /\ DOMAIN Tail(q) = 1..Len(q) - 1
      /\ \A i \in 1..Len(q) - 1 : Tail(q)[i] = q[i + 1]
      /\ Head(q) = q[1]
  BY HeadTailProperties, LenProperties, EmptySeq
<1>2. \A i \in 1..Len(q) : i = 1 \/ (i - 1 \in 1..Len(q) - 1 /\ q[i] = Tail(q)[i - 1])
  BY <1>1
<1>3. Head(q) \in Range(q)
  BY <1>1 DEF Range
<1>4. Range(Tail(q)) \subseteq Range(q) \ {Head(q)}
  BY <1>1 DEF Range, IsInjective
<1>5. Range(q) \ {Head(q)} \subseteq Range(Tail(q))
  <2> SUFFICES ASSUME NEW e \in Range(q), e # Head(q) PROVE e \in Range(Tail(q))
    OBVIOUS
  <2>1. PICK i \in 1..Len(q) : q[i] = e
    BY <1>1 DEF Range
  <2>2. i - 1 \in 1..Len(q) - 1 /\ Tail(q)[i - 1] = e
    BY <1>1, <1>2, <2>1
  <2> QED BY <1>1, <2>2 DEF Range
<1>6. IsInjective(Tail(q))
  BY <1>1 DEF IsInjective
<1> QED BY <1>3, <1>4, <1>5, <1>6

(* The eight places, by name.                                              *)
At(i, w, j, s, f, a, r, l) == <<i, w, j, s, f, a, r, l>>

LEMMA PlacesAt ==
  /\ Places = At(Range(inbox), Range(waiters), {judged} \ {None}, {subject} \ {None},
                 fed, answered, read, lost)
  /\ Places' = At(Range(inbox'), Range(waiters'), {judged'} \ {None}, {subject'} \ {None},
                  fed', answered', read', lost')
BY DEF Places, At

(* A message that arrives is new in one of the first three.                *)
LEMMA NewParts ==
  ASSUME NEW P, NEW Q, NEW b \in 1..8, NEW n \in Nat, Parts(P, n),
         Q[b] = P[b] \cup {n + 1}, \A i \in 1..8 \ {b} : Q[i] = P[i]
  PROVE  Parts(Q, n + 1)
<1>1. \A i \in 1..8 : n + 1 \notin P[i]
  BY DEF Parts, Whole
<1>2. Whole(Q) = Whole(P) \cup {n + 1}
  BY DEF Whole
<1>3. 1..n + 1 = (1..n) \cup {n + 1}
  OBVIOUS
<1>4. ASSUME NEW i \in 1..8, NEW k \in 1..8, i # k PROVE Q[i] \cap Q[k] = {}
  <2>1. P[i] \cap P[k] = {} /\ n + 1 \notin P[i] /\ n + 1 \notin P[k]
    BY <1>1, <1>4 DEF Parts, Apart
  <2>2. /\ Q[i] \subseteq IF i = b THEN P[b] \cup {n + 1} ELSE P[i]
        /\ Q[k] \subseteq IF k = b THEN P[b] \cup {n + 1} ELSE P[k]
    OBVIOUS
  <2> QED BY <1>4, <2>1, <2>2
<1> QED BY <1>2, <1>3, <1>4 DEF Parts, Apart

(* The moves between them that the code makes.                             *)
LEMMA PartsMoves ==
  ASSUME NEW i, NEW w, NEW j, NEW s, NEW f, NEW a, NEW r, NEW l, NEW n,
         Parts(At(i, w, j, s, f, a, r, l), n)
  PROVE  /\ Parts(At(i \cup j, w, {}, s, f, a, r, l), n)
         /\ Parts(At(i, w, {}, s, f \cup j, a, r, l), n)
         /\ Parts(At(i, w, {}, s, f, a, r, l \cup j), n)
         /\ Parts(At(i, w, j, {}, f, a \cup s, r, l), n)
         /\ Parts(At(i, w, j, {}, f, a, r, l \cup s), n)
         /\ Parts(At(i, w, j, s, {}, a, r \cup f, l), n)
         /\ Parts(At(i, w, j, s, {}, a, r, l \cup f), n)
<1> DEFINE P == At(i, w, j, s, f, a, r, l)
<1>1. Parts(At(i \cup j, w, {}, s, f, a, r, l), n)
  <2>1. Moved(P, At(i \cup j, w, {}, s, f, a, r, l), 3, 1, j)
    BY DEF Moved, At
  <2>2. 3 \in 1..8 /\ 1 \in 1..8
    OBVIOUS
  <2> HIDE DEF P
  <2> QED BY <2>1, <2>2, MovedParts DEF P
<1>2. Parts(At(i, w, {}, s, f \cup j, a, r, l), n)
  <2>1. Moved(P, At(i, w, {}, s, f \cup j, a, r, l), 3, 5, j)
    BY DEF Moved, At
  <2>2. 3 \in 1..8 /\ 5 \in 1..8
    OBVIOUS
  <2> HIDE DEF P
  <2> QED BY <2>1, <2>2, MovedParts DEF P
<1>3. Parts(At(i, w, {}, s, f, a, r, l \cup j), n)
  <2>1. Moved(P, At(i, w, {}, s, f, a, r, l \cup j), 3, 8, j)
    BY DEF Moved, At
  <2>2. 3 \in 1..8 /\ 8 \in 1..8
    OBVIOUS
  <2> HIDE DEF P
  <2> QED BY <2>1, <2>2, MovedParts DEF P
<1>4. Parts(At(i, w, j, {}, f, a \cup s, r, l), n)
  <2>1. Moved(P, At(i, w, j, {}, f, a \cup s, r, l), 4, 6, s)
    BY DEF Moved, At
  <2>2. 4 \in 1..8 /\ 6 \in 1..8
    OBVIOUS
  <2> HIDE DEF P
  <2> QED BY <2>1, <2>2, MovedParts DEF P
<1>5. Parts(At(i, w, j, {}, f, a, r, l \cup s), n)
  <2>1. Moved(P, At(i, w, j, {}, f, a, r, l \cup s), 4, 8, s)
    BY DEF Moved, At
  <2>2. 4 \in 1..8 /\ 8 \in 1..8
    OBVIOUS
  <2> HIDE DEF P
  <2> QED BY <2>1, <2>2, MovedParts DEF P
<1>6. Parts(At(i, w, j, s, {}, a, r \cup f, l), n)
  <2>1. Moved(P, At(i, w, j, s, {}, a, r \cup f, l), 5, 7, f)
    BY DEF Moved, At
  <2>2. 5 \in 1..8 /\ 7 \in 1..8
    OBVIOUS
  <2> HIDE DEF P
  <2> QED BY <2>1, <2>2, MovedParts DEF P
<1>7. Parts(At(i, w, j, s, {}, a, r, l \cup f), n)
  <2>1. Moved(P, At(i, w, j, s, {}, a, r, l \cup f), 5, 8, f)
    BY DEF Moved, At
  <2>2. 5 \in 1..8 /\ 8 \in 1..8
    OBVIOUS
  <2> HIDE DEF P
  <2> QED BY <2>1, <2>2, MovedParts DEF P
<1> QED BY <1>1, <1>2, <1>3, <1>4, <1>5, <1>6, <1>7

(* A message of a queue gets its turn.                                     *)
LEMMA PartsTurns ==
  ASSUME NEW i, NEW w, NEW j, NEW f, NEW a, NEW r, NEW l, NEW n, NEW e,
         Parts(At(i, w, j, {}, f, a, r, l), n)
  PROVE  /\ e \in i => Parts(At(i \ {e}, w, j, {e}, f, a, r, l), n)
         /\ e \in w => Parts(At(i, w \ {e}, j, {e}, f, a, r, l), n)
<1> DEFINE P == At(i, w, j, {}, f, a, r, l)
<1>1. ASSUME e \in i PROVE Parts(At(i \ {e}, w, j, {e}, f, a, r, l), n)
  <2>1. Moved(P, At(i \ {e}, w, j, {e}, f, a, r, l), 1, 4, {e})
    BY <1>1 DEF Moved, At
  <2>2. 1 \in 1..8 /\ 4 \in 1..8
    OBVIOUS
  <2> HIDE DEF P
  <2> QED BY <2>1, <2>2, MovedParts DEF P
<1>2. ASSUME e \in w PROVE Parts(At(i, w \ {e}, j, {e}, f, a, r, l), n)
  <2>1. Moved(P, At(i, w \ {e}, j, {e}, f, a, r, l), 2, 4, {e})
    BY <1>2 DEF Moved, At
  <2>2. 2 \in 1..8 /\ 4 \in 1..8
    OBVIOUS
  <2> HIDE DEF P
  <2> QED BY <2>1, <2>2, MovedParts DEF P
<1> QED BY <1>1, <1>2

(* What a turn does with the messages merged into the chat: keeps them,    *)
(* reads them, or loses them with the instance.                            *)
LEMMA TurnFed ==
  ASSUME NEW m, Turn(m)
  PROVE  /\ subject' = m
         /\ \/ fed' = fed /\ read' = read /\ lost' = lost
            \/ fed' = {} /\ read' = read \cup fed /\ lost' = lost
            \/ fed' = {} /\ read' = read /\ lost' = lost \cup fed
<1> DEFINE unread == IF status \in Alive THEN fed ELSE {}
<1>1. subject' = m
  BY DEF Turn
<1>2. CASE "direct" \in Routes /\ UNCHANGED <<instance, fed, others, read, lost>>
  BY <1>1, <1>2
<1>3. CASE /\ lost' = lost \cup (fed \ unread)
           /\ \/ read' = read \cup unread /\ fed' = {}
              \/ fed' = unread /\ read' = read
  <2>1. CASE unread = fed
    BY <1>1, <1>3, <2>1
  <2>2. CASE unread = {}
    BY <1>1, <1>3, <2>2
  <2> QED BY <2>1, <2>2
<1> QED BY <1>2, <1>3 DEF Turn, Run

LEMMA TurnParts ==
  ASSUME NEW i, NEW w, NEW j, NEW s, NEW a, NEW n, NEW m, Turn(m),
         Parts(At(i, w, j, s, fed, a, read, lost), n)
  PROVE  Parts(At(i, w, j, s, fed', a, read', lost'), n)
<1>1. /\ Parts(At(i, w, j, s, {}, a, read \cup fed, lost), n)
      /\ Parts(At(i, w, j, s, {}, a, read, lost \cup fed), n)
  BY PartsMoves
<1> QED BY <1>1, TurnFed

-----------------------------------------------------------------------------
LEMMA ArriveConserves ==
  ASSUME IInv, Conserved, NEW mode \in Modes, Arrive(mode) PROVE Conserved'
<1> DEFINE n == arrived + 1
<1> USE DEF IInv
<1>1. /\ arrived \in Nat /\ arrived' = n /\ judged = 0
      /\ UNCHANGED <<turn, fed, outcome>> /\ Receive(n, mode)
      /\ n \notin 1..arrived
  BY DEF Arrive, TypeOK
<1>2. /\ inbox \in Seq(1..n) /\ waiters \in Seq(1..n) /\ n \in 1..n
      /\ Range(inbox) \subseteq 1..arrived /\ Range(waiters) \subseteq 1..arrived
  BY <1>1, Wider, QueueRange DEF TypeOK
<1>3. /\ Range(Append(inbox, n)) = Range(inbox) \cup {n} /\ IsInjective(Append(inbox, n))
      /\ Range(Append(waiters, n)) = Range(waiters) \cup {n} /\ IsInjective(Append(waiters, n))
  BY <1>1, <1>2, AppendRange DEF Conserved
<1>4. Parts(Places, arrived)
  BY DEF Conserved
<1>5. CASE inbox' = Append(inbox, n) /\ UNCHANGED <<judged, waiters>>
  <2>1. Range(inbox') = Range(inbox) \cup {n} /\ IsInjective(inbox')
    BY <1>3, <1>5
  <2>2. Places'[1] = Places[1] \cup {n} /\ \A i \in 1..8 \ {1} : Places'[i] = Places[i]
    <3>1. Places'[1] = Range(inbox') /\ Places[1] = Range(inbox)
      BY DEF Places
    <3>2. /\ Places'[2] = Places[2] /\ Places'[3] = Places[3] /\ Places'[4] = Places[4] /\ Places'[5] = Places[5]
          /\ Places'[6] = Places[6] /\ Places'[7] = Places[7] /\ Places'[8] = Places[8]
      BY <1>1, <1>5 DEF Places, turn, outcome
    <3> QED BY <2>1, <3>1, <3>2
  <2>3. Parts(Places', n)
    BY <1>1, <1>4, <2>2, NewParts
  <2> QED BY <1>1, <1>5, <2>1, <2>3 DEF Conserved
<1>6. CASE waiters' = Append(waiters, n) /\ UNCHANGED <<judged, inbox>>
  <2>1. Range(waiters') = Range(waiters) \cup {n} /\ IsInjective(waiters')
    BY <1>3, <1>6
  <2>2. Places'[2] = Places[2] \cup {n} /\ \A i \in 1..8 \ {2} : Places'[i] = Places[i]
    <3>1. Places'[2] = Range(waiters') /\ Places[2] = Range(waiters)
      BY DEF Places
    <3>2. /\ Places'[1] = Places[1] /\ Places'[3] = Places[3] /\ Places'[4] = Places[4] /\ Places'[5] = Places[5]
          /\ Places'[6] = Places[6] /\ Places'[7] = Places[7] /\ Places'[8] = Places[8]
      BY <1>1, <1>6 DEF Places, turn, outcome
    <3> QED BY <2>1, <3>1, <3>2
  <2>3. Parts(Places', n)
    BY <1>1, <1>4, <2>2, NewParts
  <2> QED BY <1>1, <1>6, <2>1, <2>3 DEF Conserved
<1>7. CASE judged' = n /\ UNCHANGED <<inbox, waiters>>
  <2>1. Places'[3] = Places[3] \cup {n} /\ \A i \in 1..8 \ {3} : Places'[i] = Places[i]
    BY <1>1, <1>7 DEF Places, turn, outcome
  <2>2. Parts(Places', n)
    BY <1>1, <1>4, <2>1, NewParts
  <2> QED BY <1>1, <1>7, <2>2 DEF Conserved
<1> QED BY <1>1, <1>5, <1>6, <1>7 DEF Receive

LEMMA JudgeConserves ==
  ASSUME IInv, Conserved, Judge PROVE Conserved'
<1> DEFINE J == {judged} \ {None}
           S == {subject} \ {None}
           W == Range(waiters)
<1>1. /\ judged \in 1..arrived /\ judged' = 0 /\ arrived' = arrived /\ waiters' = waiters
      /\ UNCHANGED <<turn, answered, read>>
  BY DEF Judge, Merge, Enqueue, JudgeFails, IInv, TypeOK, outcome
<1>2. /\ J = {judged} /\ J \subseteq J /\ {judged'} \ {None} = {}
      /\ S' = S /\ W' = W
  BY <1>1 DEF turn
<1>3. Parts(At(Range(inbox), W, J, S, fed, answered, read, lost), arrived)
  BY PlacesAt DEF Conserved
<1>4. /\ Parts(At(Range(inbox) \cup J, W, {}, S, fed, answered, read, lost), arrived)
      /\ Parts(At(Range(inbox), W, {}, S, fed \cup J, answered, read, lost), arrived)
      /\ Parts(At(Range(inbox), W, {}, S, fed, answered, read, lost \cup J), arrived)
  BY <1>3, PartsMoves
<1>5. CASE inbox' = inbox /\ ( \/ fed' = fed \cup J /\ lost' = lost
                               \/ fed' = fed /\ lost' = lost \cup J )
  BY <1>1, <1>2, <1>4, <1>5, PlacesAt DEF Conserved
<1>6. CASE Enqueue
  <2>1. inbox' = Append(inbox, judged) /\ fed' = fed /\ lost' = lost
    BY <1>6 DEF Enqueue, outcome
  <2>2. judged \notin Range(inbox)
    <3>1. Range(inbox) \cap J = {}
      BY <1>3 DEF Parts, Apart, At
    <3> QED BY <1>2, <3>1
  <2>3. Range(inbox') = Range(inbox) \cup J /\ IsInjective(inbox')
    BY <1>1, <1>2, <2>1, <2>2, AppendRange DEF IInv, TypeOK, Conserved
  <2>4. Parts(At(Range(inbox'), W', {judged'} \ {None}, S', fed', answered', read', lost'), arrived)
    BY <1>1, <1>2, <1>4, <2>1, <2>3
  <2> QED BY <1>1, <2>3, <2>4, PlacesAt DEF Conserved
<1> QED BY <1>2, <1>5, <1>6 DEF Judge, Merge, JudgeFails

LEMMA AcquireConserves ==
  ASSUME IInv, Conserved, Acquire PROVE Conserved'
<1> DEFINE J == {judged} \ {None}
           I == Range(inbox)
           W == Range(waiters)
           m == Head(waiters)
<1>1. /\ subject = 0 /\ waiters # <<>> /\ waiters' = Tail(waiters) /\ Turn(m)
      /\ UNCHANGED <<arrived, judged, inbox, answered>>
  BY DEF Acquire, handler, IInv, TypeOK
<1>2. /\ m \in 1..arrived /\ m \in Range(waiters) /\ IsInjective(waiters')
      /\ Range(waiters') = Range(waiters) \ {m}
  BY <1>1, QueueTail, TailRange DEF IInv, TypeOK, Conserved
<1>3. subject' = m /\ {subject'} \ {None} = {m} /\ {subject} \ {None} = {}
  BY <1>1, <1>2, TurnFed
<1>4. Parts(At(I, Range(waiters), J, {}, fed, answered, read, lost), arrived)
  BY <1>3, PlacesAt DEF Conserved
<1>5. Parts(At(I, Range(waiters'), J, {m}, fed, answered, read, lost), arrived)
  <2>1. m \in W /\ Range(waiters') = W \ {m} /\ Parts(At(I, W, J, {}, fed, answered, read, lost), arrived)
    BY <1>2, <1>4
  <2> HIDE DEF m, W, I, J
  <2>2. Parts(At(I, W \ {m}, J, {m}, fed, answered, read, lost), arrived)
    BY <2>1, PartsTurns
  <2> QED BY <2>1, <2>2
<1>6. Parts(At(I, Range(waiters'), J, {m}, fed', answered, read', lost'), arrived)
  BY <1>1, <1>5, TurnParts
<1>7. Parts(Places', arrived')
  BY <1>1, <1>3, <1>6, PlacesAt
<1> QED BY <1>1, <1>2, <1>7 DEF Conserved

LEMMA RepliedConserves ==
  ASSUME IInv, Conserved, Replied PROVE Conserved'
<1> DEFINE J == {judged} \ {None}
           W == Range(waiters)
           m == Head(inbox)
<1>1. /\ subject \in 1..arrived /\ answered' = answered \cup {subject} /\ Drain
      /\ UNCHANGED <<arrived, judged, waiters>>
  BY DEF Replied, handler, IInv, TypeOK
<1>2. {subject} \ {None} = {subject}
  BY <1>1
<1>3. Parts(At(Range(inbox), W, J, {subject}, fed, answered, read, lost), arrived)
  BY <1>2, PlacesAt DEF Conserved
<1>4. Parts(At(Range(inbox), W, J, {}, fed, answered', read, lost), arrived)
  BY <1>1, <1>3, PartsMoves
<1>5. CASE inbox = <<>>
  <2>1. subject' = 0 /\ UNCHANGED <<inbox, fed, read, lost>> /\ {subject'} \ {None} = {}
    BY <1>1, <1>5 DEF Drain
  <2>2. Parts(Places', arrived')
    BY <1>1, <1>4, <2>1, PlacesAt
  <2> QED BY <1>1, <2>1, <2>2 DEF Conserved
<1>6. CASE inbox # <<>>
  <2>1. Turn(m) /\ inbox' = Tail(inbox)
    BY <1>1, <1>6 DEF Drain
  <2>2. /\ m \in 1..arrived /\ m \in Range(inbox) /\ IsInjective(inbox')
        /\ Range(inbox') = Range(inbox) \ {m}
    BY <1>6, <2>1, QueueTail, TailRange DEF IInv, TypeOK, Conserved
  <2>3. subject' = m /\ {subject'} \ {None} = {m}
    BY <2>1, <2>2, TurnFed
  <2>4. Parts(At(Range(inbox'), W, J, {m}, fed, answered', read, lost), arrived)
    BY <1>4, <2>2, PartsTurns
  <2>5. Parts(At(Range(inbox'), W, J, {m}, fed', answered', read', lost'), arrived)
    BY <2>1, <2>4, TurnParts
  <2>6. Parts(Places', arrived')
    BY <1>1, <2>3, <2>5, PlacesAt
  <2> QED BY <1>1, <2>2, <2>6 DEF Conserved
<1> QED BY <1>5, <1>6

(* The message that a task worked on is lost with it.                      *)
LEMMA DieConserves ==
  ASSUME IInv, Conserved, Die, step # "idle",
         UNCHANGED <<arrived, judged, inbox, waiters, fed, answered, read>>
  PROVE  Conserved'
<1> DEFINE J == {judged} \ {None}
           W == Range(waiters)
           I == Range(inbox)
<1>1. /\ subject \in 1..arrived /\ lost' = lost \cup {subject} /\ subject' = 0
  BY DEF Die, IInv, TypeOK
<1>2. {subject} \ {None} = {subject} /\ {subject'} \ {None} = {}
  BY <1>1
<1>3. Parts(At(I, W, J, {subject}, fed, answered, read, lost), arrived)
  BY <1>2, PlacesAt DEF Conserved
<1>4. Parts(At(I, W, J, {}, fed, answered, read, lost'), arrived)
  BY <1>1, <1>3, PartsMoves
<1>5. Parts(Places', arrived')
  BY <1>2, <1>4, PlacesAt
<1> QED BY <1>5 DEF Conserved

LEMMA QuietConserves ==
  ASSUME Conserved,
         UNCHANGED <<arrived, judged, inbox, waiters, subject, fed, outcome>>
  PROVE  Conserved'
  BY DEF Conserved, Places, outcome

LEMMA PermitConserves ==
  ASSUME Conserved, Permit PROVE Conserved'
<1>1. /\ UNCHANGED <<arrived, judged, inbox, waiters, subject, answered, lost>>
      /\ fed' = {} /\ read' = read \cup fed
  BY DEF Permit, Run, handler
<1>2. Parts(At(Range(inbox), Range(waiters), {judged} \ {None}, {subject} \ {None},
               fed, answered, read, lost), arrived)
  BY PlacesAt DEF Conserved
<1>3. Parts(At(Range(inbox), Range(waiters), {judged} \ {None}, {subject} \ {None},
               {}, answered, read \cup fed, lost), arrived)
  BY <1>2, PartsMoves
<1>4. Parts(Places', arrived')
  BY <1>1, <1>3, PlacesAt
<1> QED BY <1>1, <1>4 DEF Conserved

LEMMA NextConserves == IInv /\ Conserved /\ [Next]_vars => Conserved'
<1> SUFFICES ASSUME IInv, Conserved, [Next]_vars PROVE Conserved'
  OBVIOUS
<1>1. CASE Fail \/ StartFails
  BY <1>1, DieConserves DEF Fail, StartFails, handler
<1>2. CASE Interrupt
  <2>1. CASE Registered /\ killer = chat
    <3>1. step # "idle"
      BY <2>1 DEF Registered
    <3> QED BY <1>2, <2>1, <3>1, DieConserves DEF Interrupt, handler
  <2>2. CASE ~(Registered /\ killer = chat)
    BY <1>2, <2>2, QuietConserves DEF Interrupt, handler, turn, outcome
  <2> QED BY <2>1, <2>2
<1>3. CASE Started \/ Complete \/ Mark \/ Occupy \/ Release \/ UNCHANGED vars
  BY <1>3, QuietConserves DEF Started, Complete, Mark, Occupy, Release, vars, handler, turn, outcome
<1> QED BY <1>1, <1>2, <1>3, ArriveConserves, JudgeConserves, AcquireConserves, RepliedConserves,
           PermitConserves DEF Next, Task

LEMMA InitConserves == Init => Conserved
<1> SUFFICES ASSUME Init PROVE Conserved
  OBVIOUS
<1>1. /\ Range(inbox) = {} /\ Range(waiters) = {} /\ DOMAIN inbox = {} /\ DOMAIN waiters = {}
  BY NothingQueued DEF Init
<1>2. \A i \in 1..8 : Places[i] = {}
  BY <1>1 DEF Init, Places
<1>3. Parts(Places, arrived)
  BY <1>2 DEF Init, Parts, Apart, Whole
<1> QED BY <1>1, <1>3 DEF Conserved, IsInjective

(* Every message that arrived is in one place, once, for any number of     *)
(* messages: what the code takes from one queue, table or history it puts  *)
(* into another (master.py:117-141).                                       *)
THEOREM Conservation == Spec => []MessagesConserved
<1>1. Spec => []Conserved
  BY InitConserves, NextConserves, Invariant, PTL DEF Spec
<1> QED BY <1>1, ConservedIsConserved, PTL
=============================================================================
