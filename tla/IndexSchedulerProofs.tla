------------------------ MODULE IndexSchedulerProofs ------------------------
(***************************************************************************)
(* Safety of IndexScheduler for every set of jobs, number of attempts,    *)
(* number of permits and number of faults, and that it implements         *)
(* IndexJob.                                                               *)
(***************************************************************************)
EXTENDS IndexScheduler, FiniteSetTheorems, SequenceTheorems, TLAPS

(* What OneAttemptInFlight needs to survive a requeue and a claim: a task  *)
(* that sleeps before a retry still has an attempt left, and a job that    *)
(* was never enqueued has had none.                                        *)
BackoffAllowed == \A t \in Tasks : phase[t] = "backoff" => AttemptOf(t) < MaxAttempts
AbsentUntouched == \A j \in Jobs : status[j] = "absent" => attempts[j] = 0

IInv == /\ TypeOK
        /\ OneAttemptInFlight
        /\ BackoffAllowed
        /\ AbsentUntouched
        /\ NoOrphanWithoutFault
        /\ FailedOnlyWhenExhausted

USE JobsAssumption, PrioritiesAssumption, MaxAttemptsAssumption,
    ConcurrencyAssumption, MaxFaultsAssumption

-----------------------------------------------------------------------------
(* A task is a job and an attempt number.                                  *)
LEMMA TaskShape ==
  ASSUME NEW t \in Tasks
  PROVE  /\ JobOf(t) \in Jobs
         /\ AttemptOf(t) \in 1..MaxAttempts
         /\ t = <<JobOf(t), AttemptOf(t)>>
BY DEF Tasks, JobOf, AttemptOf

(* The initial table is empty and no task exists.                          *)
LEMMA InitInvariant == Init => IInv
BY DEF Init, IInv, TypeOK, OneAttemptInFlight, BackoffAllowed, AbsentUntouched,
       NoOrphanWithoutFault, FailedOnlyWhenExhausted, Statuses, Phases, Queued,
       Unfinished, Orphaned

-----------------------------------------------------------------------------
(* The callers' threads only touch rows that no task works on.             *)
LEMMA CallerInvariant ==
  ASSUME IInv, Caller PROVE IInv'
<1>1. ASSUME NEW j \in Jobs, Cancel(j) PROVE IInv'
  BY <1>1, TaskShape DEF IInv, TypeOK, OneAttemptInFlight, BackoffAllowed, AbsentUntouched,
       NoOrphanWithoutFault, FailedOnlyWhenExhausted, Statuses, Queued,
       Unfinished, Orphaned, Cancel, SetStatus, scheduler
<1>2. ASSUME NEW j \in Jobs, NEW p \in Priorities, Enqueue(j, p) PROVE IInv'
  <2>1. Cardinality({k \in Jobs : status[k] # "absent"}) \in Nat
    BY FS_Subset, FS_CardinalityType
  <2>2. born' \in [Jobs -> Nat]
    BY <1>2, <2>1 DEF IInv, TypeOK, Enqueue
  <2> QED
    BY <1>2, <2>2, TaskShape DEF IInv, TypeOK, OneAttemptInFlight, BackoffAllowed,
         AbsentUntouched, NoOrphanWithoutFault, FailedOnlyWhenExhausted, Statuses,
         Queued, Unfinished, Orphaned, Enqueue, SetStatus, scheduler
<1>3. ASSUME NEW j \in Jobs, NEW p \in Priorities, Reorder(j, p) PROVE IInv'
  BY <1>3 DEF IInv, TypeOK, OneAttemptInFlight, BackoffAllowed, AbsentUntouched,
       NoOrphanWithoutFault, FailedOnlyWhenExhausted, Statuses, Queued,
       Unfinished, Orphaned, Reorder, scheduler
<1> QED BY <1>1, <1>2, <1>3 DEF Caller

(* A claim starts the only task that works on the job: the row was queued, *)
(* so OneAttemptInFlight says that no earlier task is unfinished.          *)
LEMMA ClaimInvariant ==
  ASSUME IInv, NEW j \in Jobs, Claim(j) PROVE IInv'
<1> DEFINE new == <<j, attempts[j] + 1>>
<1>1. status[j] = "queued" /\ attempts[j] + 1 \in 1..MaxAttempts
  BY DEF IInv, TypeOK, Claim, First, Queued
<1>2. new \in Tasks /\ JobOf(new) = j /\ AttemptOf(new) = attempts[j] + 1
  BY <1>1 DEF Tasks, JobOf, AttemptOf
<1>3. attempts' = [attempts EXCEPT ![j] = attempts[j] + 1] /\ attempts'[j] = attempts[j] + 1
  BY DEF IInv, TypeOK, Claim
<1>4. phase' = [phase EXCEPT ![new] = "waiting"] /\ waiting' = Append(waiting, new)
  BY <1>3 DEF Claim
<1>5. status' = [status EXCEPT ![j] = "running"]
  BY DEF Claim, SetStatus
<1>6. TypeOK'
  BY <1>1, <1>2, <1>3, <1>4, <1>5 DEF IInv, TypeOK, Claim, Statuses, Phases, Queued
<1>7. \A t \in Unfinished : JobOf(t) # j
  BY <1>1 DEF IInv, OneAttemptInFlight
<1>8. Unfinished' = Unfinished \cup {new}
  BY <1>2, <1>4 DEF IInv, TypeOK, Unfinished
<1>9. OneAttemptInFlight'
  BY <1>2, <1>3, <1>5, <1>7, <1>8, TaskShape
  DEF IInv, TypeOK, OneAttemptInFlight, Unfinished
<1>10. BackoffAllowed' /\ AbsentUntouched'
  BY <1>2, <1>3, <1>4, <1>5 DEF IInv, TypeOK, BackoffAllowed, AbsentUntouched
<1>11. NoOrphanWithoutFault'
  BY <1>2, <1>5, <1>8 DEF IInv, TypeOK, NoOrphanWithoutFault, Orphaned, Claim
<1>12. FailedOnlyWhenExhausted'
  BY <1>1, <1>3, <1>5 DEF IInv, TypeOK, FailedOnlyWhenExhausted, Claim
<1> QED BY <1>6, <1>9, <1>10, <1>11, <1>12 DEF IInv

(* Going to sleep and waking up touch nothing the invariant speaks of.     *)
LEMMA LoopInvariant ==
  ASSUME IInv, Loop PROVE IInv'
<1>1. CASE Wake \/ Sleep
  BY <1>1 DEF IInv, TypeOK, OneAttemptInFlight, BackoffAllowed, AbsentUntouched,
       NoOrphanWithoutFault, FailedOnlyWhenExhausted, Queued, Unfinished, Orphaned,
       Wake, Sleep, table
<1>2. CASE \E j \in Jobs : Claim(j)
  BY <1>2, ClaimInvariant
<1> QED BY <1>1, <1>2 DEF Loop

-----------------------------------------------------------------------------
(* A task that moves on without calling finish stays unfinished.           *)
LEMMA AdvanceInvariant ==
  ASSUME IInv, NEW t \in Tasks, Acquire(t) \/ Start(t) \/ Backoff(t) \/ Report(t)
  PROVE  IInv'
<1>1. /\ phase[t] \in Phases /\ phase'[t] \in Phases
      /\ phase' = [phase EXCEPT ![t] = phase'[t]]
      /\ UNCHANGED <<table, loop, faults>>
  BY DEF IInv, TypeOK, Acquire, Start, Backoff, Report, Resume, Phases
<1>2. waiting' \in Seq(Tasks)
  BY HeadTailProperties DEF IInv, TypeOK, Acquire, Start, Backoff, Report
<1>3. TypeOK'
  BY <1>1, <1>2 DEF IInv, TypeOK, Queued, table
<1>4. Unfinished' = Unfinished
  BY DEF IInv, TypeOK, Unfinished, Acquire, Start, Backoff, Report, Resume
<1>5. BackoffAllowed'
  BY DEF IInv, TypeOK, BackoffAllowed, Acquire, Start, Backoff, Report, Resume
<1> QED
  BY <1>1, <1>3, <1>4, <1>5 DEF IInv, OneAttemptInFlight, AbsentUntouched,
       NoOrphanWithoutFault, Orphaned, FailedOnlyWhenExhausted, table

(* finish: the task leaves Unfinished in the step that overwrites its row, *)
(* and no other task is unfinished on that job.                            *)
LEMMA FinishInvariant ==
  ASSUME IInv, NEW t \in Tasks, Succeed(t) \/ Requeue(t) \/ GiveUp(t)
  PROVE  IInv'
<1> DEFINE j == JobOf(t)
<1>1. /\ j \in Jobs /\ AttemptOf(t) \in 1..MaxAttempts
      /\ status[j] = "running" /\ attempts[j] = AttemptOf(t)
  BY TaskShape DEF IInv, OneAttemptInFlight, Unfinished, Succeed, Requeue, GiveUp, Resume
<1>2. /\ phase' = [phase EXCEPT ![t] = "reporting"]
      /\ UNCHANGED <<priority, attempts, born, loop, waiting, faults>>
  BY DEF Succeed, Requeue, GiveUp, Resume
<1>3. PICK s \in {"queued", "done", "failed"} :
        /\ status' = [status EXCEPT ![j] = s]
        /\ s = "queued" => AttemptOf(t) < MaxAttempts
        /\ s = "failed" => AttemptOf(t) = MaxAttempts
  BY DEF IInv, BackoffAllowed, Succeed, Requeue, GiveUp, Resume, Finish, SetStatus
<1>4. TypeOK'
  BY <1>1, <1>2, <1>3 DEF IInv, TypeOK, Statuses, Phases, Queued
<1>5. Unfinished' = Unfinished \ {t}
  BY <1>2 DEF IInv, TypeOK, Unfinished
<1>6. \A u \in Unfinished \ {t} : JobOf(u) # j
  BY <1>1, TaskShape DEF IInv, OneAttemptInFlight, Unfinished
<1>7. OneAttemptInFlight'
  BY <1>2, <1>3, <1>5, <1>6, TaskShape DEF IInv, TypeOK, OneAttemptInFlight, Unfinished
<1>8. BackoffAllowed' /\ AbsentUntouched'
  BY <1>1, <1>2, <1>3 DEF IInv, TypeOK, BackoffAllowed, AbsentUntouched
<1>9. NoOrphanWithoutFault'
  BY <1>1, <1>2, <1>3, <1>5 DEF IInv, TypeOK, NoOrphanWithoutFault, Orphaned
<1>10. FailedOnlyWhenExhausted'
  BY <1>1, <1>2, <1>3 DEF IInv, TypeOK, FailedOnlyWhenExhausted
<1> QED BY <1>4, <1>7, <1>8, <1>9, <1>10 DEF IInv

(* A failed publication, a stop or a crash removes tasks and counts as a   *)
(* fault; what is left unfinished still satisfies OneAttemptInFlight.      *)
LEMMA FaultInvariant ==
  ASSUME IInv, Stop \/ Crash \/ Restart \/ \E t \in Tasks : StartFails(t)
  PROVE  IInv'
<1>1. CASE Restart
  BY <1>1 DEF IInv, TypeOK, OneAttemptInFlight, BackoffAllowed, AbsentUntouched,
       NoOrphanWithoutFault, FailedOnlyWhenExhausted, Queued, Unfinished, Orphaned,
       Restart, table
<1>2. ASSUME NEW t \in Tasks, StartFails(t) PROVE IInv'
  BY <1>2 DEF IInv, TypeOK, OneAttemptInFlight, BackoffAllowed, AbsentUntouched,
       NoOrphanWithoutFault, FailedOnlyWhenExhausted, Queued, Unfinished, Orphaned,
       Phases, StartFails, Resume, table
<1>3. CASE Stop \/ Crash
  <2>1. /\ loop' = "stopped" /\ waiting' = <<>> /\ faults' = faults + 1 /\ faults < MaxFaults
        /\ phase' = [t \in Tasks |-> IF phase[t] = "none" THEN "none" ELSE "gone"]
        /\ UNCHANGED <<priority, attempts, born>>
    BY <1>3 DEF Stop, Crash, Vanish
  <2>2. /\ status' \in [Jobs -> Statuses]
        /\ \A j \in Jobs : status'[j] \in {status[j], "failed"}
    BY <1>3 DEF IInv, TypeOK, Statuses, Stop, Crash
  <2>3. Unfinished' = {}
    BY <2>1 DEF Unfinished
  <2>4. TypeOK'
    BY <2>1, <2>2 DEF IInv, TypeOK, Phases, Queued
  <2>5. BackoffAllowed' /\ AbsentUntouched'
    BY <2>1, <2>2 DEF IInv, TypeOK, BackoffAllowed, AbsentUntouched
  <2>6. faults' > 0
    BY <2>1 DEF IInv, TypeOK
  <2> QED
    BY <2>3, <2>4, <2>5, <2>6 DEF IInv, TypeOK, OneAttemptInFlight, NoOrphanWithoutFault,
         FailedOnlyWhenExhausted
<1> QED BY <1>1, <1>2, <1>3

LEMMA NextInvariant == IInv /\ [Next]_vars => IInv'
<1> SUFFICES ASSUME IInv, [Next]_vars PROVE IInv'
  OBVIOUS
<1>1. CASE Caller
  BY <1>1, CallerInvariant
<1>2. CASE Loop
  BY <1>2, LoopInvariant
<1>3. ASSUME NEW t \in Tasks, Step(t) PROVE IInv'
  BY <1>3, AdvanceInvariant, FinishInvariant DEF Step
<1>4. CASE Stop \/ Crash \/ Restart \/ \E t \in Tasks : StartFails(t)
  BY <1>4, FaultInvariant
<1>5. CASE UNCHANGED vars
  BY <1>5 DEF IInv, TypeOK, OneAttemptInFlight, BackoffAllowed, AbsentUntouched,
       NoOrphanWithoutFault, FailedOnlyWhenExhausted, Queued, Unfinished, Orphaned,
       vars, table, scheduler
<1> QED BY <1>1, <1>2, <1>3, <1>4, <1>5 DEF Next

(* The inductive invariant holds in every reachable state.                 *)
THEOREM Invariant == Spec => []IInv
BY InitInvariant, NextInvariant, PTL DEF Spec

(* Every row and the scheduler's bookkeeping keep their types; no attempt  *)
(* number passes max_attempts (index_queue.py:94, scheduler.py:78).        *)
THEOREM TypeCorrect == Spec => []TypeOK
<1>1. IInv => TypeOK
  BY DEF IInv
<1> QED BY <1>1, Invariant, PTL

(* finish never overwrites a cancelled, settled or re-claimed row          *)
(* (index_queue.py:113-121).                                               *)
THEOREM SingleFlight == Spec => []OneAttemptInFlight
<1>1. IInv => OneAttemptInFlight
  BY DEF IInv
<1> QED BY <1>1, Invariant, PTL

(* Only a fault can leave a running row that nothing will finish.          *)
THEOREM NoOrphans == Spec => []NoOrphanWithoutFault
<1>1. IInv => NoOrphanWithoutFault
  BY DEF IInv
<1> QED BY <1>1, Invariant, PTL

(* A job fails only after its last attempt, or when a shutdown hit it.     *)
THEOREM FailuresAreFinal == Spec => []FailedOnlyWhenExhausted
<1>1. IInv => FailedOnlyWhenExhausted
  BY DEF IInv
<1> QED BY <1>1, Invariant, PTL

-----------------------------------------------------------------------------
(* Every step of the scheduler is a step of the abstract job life cycle,   *)
(* or leaves the table's status and attempts alone.                        *)
LEMMA StepRefines == IInv /\ [Next]_vars => [Lifecycle!Next]_(Lifecycle!vars)
<1> SUFFICES ASSUME IInv, [Next]_vars
             PROVE  Lifecycle!Next \/ UNCHANGED <<status, attempts>>
  BY DEF Lifecycle!vars
<1>1. CASE Caller
  BY <1>1 DEF Caller, Cancel, Enqueue, Reorder, SetStatus, Lifecycle!Next,
       Lifecycle!Cancel, Lifecycle!Enqueue, Lifecycle!Become
<1>2. CASE Loop
  <2>1. CASE Wake \/ Sleep
    BY <2>1 DEF Wake, Sleep, table
  <2>2. ASSUME NEW j \in Jobs, Claim(j) PROVE Lifecycle!Attempt(j)
    BY <2>2 DEF IInv, TypeOK, Claim, First, Queued, SetStatus, Lifecycle!Attempt, Lifecycle!Become
  <2> QED BY <1>2, <2>1, <2>2 DEF Loop, Lifecycle!Next
<1>3. ASSUME NEW t \in Tasks, Step(t)
      PROVE  Lifecycle!Next \/ UNCHANGED <<status, attempts>>
  <2> DEFINE j == JobOf(t)
  <2>1. CASE Acquire(t) \/ Start(t) \/ Backoff(t) \/ Report(t)
    BY <2>1 DEF Acquire, Start, Backoff, Report, table
  <2>2. CASE Succeed(t) \/ Requeue(t) \/ GiveUp(t)
    <3>1. /\ j \in Jobs /\ status[j] = "running" /\ attempts[j] = AttemptOf(t)
          /\ UNCHANGED attempts
      BY <2>2, TaskShape DEF IInv, OneAttemptInFlight, Unfinished, Succeed, Requeue, GiveUp, Resume
    <3>2. Succeed(t) => Lifecycle!Complete(j)
      BY <3>1 DEF Succeed, Finish, SetStatus, Lifecycle!Complete, Lifecycle!Become
    <3>3. Requeue(t) => Lifecycle!Retry(j)
      BY <3>1 DEF IInv, BackoffAllowed, Requeue, Resume, Finish, SetStatus,
           Lifecycle!Retry, Lifecycle!Become
    <3>4. GiveUp(t) => Lifecycle!Exhaust(j)
      BY <3>1 DEF GiveUp, Finish, SetStatus, Lifecycle!Exhaust, Lifecycle!Become
    <3> QED BY <2>2, <3>1, <3>2, <3>3, <3>4 DEF Lifecycle!Next
  <2> QED BY <1>3, <2>1, <2>2 DEF Step
<1>4. CASE Stop
  <2>1. \A j \in Interrupted : status[j] = "running"
    BY DEF IInv, OneAttemptInFlight, Unfinished, Interrupted
  <2>2. Lifecycle!Interrupt(Interrupted) /\ Interrupted \in SUBSET Jobs
    BY <1>4, <2>1 DEF Stop, Vanish, Interrupted, Lifecycle!Interrupt
  <2> QED BY <2>2 DEF Lifecycle!Next
<1>5. CASE Crash \/ Restart \/ (\E t \in Tasks : StartFails(t)) \/ UNCHANGED vars
  BY <1>5 DEF Crash, Vanish, Restart, StartFails, vars, table
<1> QED BY <1>1, <1>2, <1>3, <1>4, <1>5 DEF Next

(* The table and its scheduler implement the life cycle IndexJob promises. *)
THEOREM Refinement == Spec => ImplementsIndexJob
<1>1. Init => Lifecycle!Init
  BY DEF Init, Lifecycle!Init
<1> QED BY <1>1, StepRefines, Invariant, PTL DEF Spec, ImplementsIndexJob, Lifecycle!Spec
=============================================================================
