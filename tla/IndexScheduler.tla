--------------------------- MODULE IndexScheduler ---------------------------
(***************************************************************************)
(* The index queue of the graph service (services/graph/index_queue.py,   *)
(* a sqlite table) and its scheduler (services/graph/scheduler.py, an     *)
(* asyncio loop that claims jobs and runs each in a task of its own,      *)
(* under a semaphore).                                                    *)
(*                                                                         *)
(* A task is named <<job, attempt>>: IndexQueue.next() returns the        *)
(* incremented attempt number and the task keeps that copy of the row.    *)
(* Everything of a task between two awaits is one step.  The capabilities *)
(* enqueue_index, cancel_index and reorder_queue run in worker threads,   *)
(* so they interleave with the loop between any two queries.              *)
(***************************************************************************)
EXTENDS Naturals, Sequences, FiniteSets

CONSTANTS Jobs,          \* jobs that may be enqueued
          Priorities,    \* priorities a caller may ask for; the smaller runs first
          MaxAttempts,   \* max_attempts of the scheduler
          Concurrency,   \* permits of its semaphore
          MaxFaults      \* bound: crashes, stops and failed publications of a behaviour

ASSUME JobsAssumption == IsFiniteSet(Jobs)
ASSUME PrioritiesAssumption == Priorities \subseteq Nat
ASSUME MaxAttemptsAssumption == MaxAttempts \in Nat \ {0}
ASSUME ConcurrencyAssumption == Concurrency \in Nat \ {0}
ASSUME MaxFaultsAssumption == MaxFaults \in Nat

VARIABLES
  (* table index_jobs *)
  status, priority, attempts, born,
  (* the scheduler *)
  loop,      \* _loop: draining the queue, asleep for idle_poll_s, or not running
  phase,     \* where each task of _run_guarded is
  waiting,   \* tasks that wait for a permit, first come first served
  faults     \* faults so far

table == <<status, priority, attempts, born>>
scheduler == <<loop, phase, waiting>>
vars == <<table, scheduler, faults>>

Tasks == Jobs \X (1..MaxAttempts)
JobOf(t) == t[1]
AttemptOf(t) == t[2]

Statuses == {"absent", "queued", "running", "done", "failed", "cancelled"}
Phases == {"none", "waiting", "starting", "running", "backoff", "reporting", "gone"}

(* mutant: a task keeps its permit for good *)
MutantHolding == {t \in Tasks : phase[t] \in Phases \ {"none", "waiting"}}

(* A task holds its permit from the acquisition to its last publication,   *)
(* the back-off sleep included.                                            *)
Holding == {t \in Tasks : phase[t] \in {"starting", "running", "backoff", "reporting"}}
(* A task that has claimed its job and not called finish yet.              *)
Unfinished == {t \in Tasks : phase[t] \in {"waiting", "starting", "running", "backoff"}}
Queued == {j \in Jobs : status[j] = "queued"}

(* ORDER BY priority ASC, created_ts ASC *)
Before(j, k) == \/ priority[j] < priority[k]
                \/ priority[j] = priority[k] /\ born[j] < born[k]
First(j) == j \in Queued /\ \A k \in Queued \ {j} : Before(j, k)

Init == /\ status = [j \in Jobs |-> "absent"]
        /\ priority = [j \in Jobs |-> 0]
        /\ attempts = [j \in Jobs |-> 0]
        /\ born = [j \in Jobs |-> 0]
        /\ loop = "draining"
        /\ phase = [t \in Tasks |-> "none"]
        /\ waiting = <<>>
        /\ faults = 0

-----------------------------------------------------------------------------
(* IndexQueue: one locked statement each *)

SetStatus(j, s) == status' = [status EXCEPT ![j] = s]

Enqueue(j, p) ==
  /\ status[j] = "absent"
  /\ SetStatus(j, "queued")
  /\ priority' = [priority EXCEPT ![j] = p]
  /\ born' = [born EXCEPT ![j] = 1 + Cardinality({k \in Jobs : status[k] # "absent"})]
  /\ UNCHANGED <<attempts, scheduler, faults>>

(* mutant: cancels whatever has not ended *)
MutantCancel(j) ==
  /\ status[j] \in {"queued", "running"}
  /\ SetStatus(j, "cancelled")
  /\ UNCHANGED <<priority, attempts, born, scheduler, faults>>

Cancel(j) ==
  /\ status[j] = "queued"
  /\ SetStatus(j, "cancelled")
  /\ UNCHANGED <<priority, attempts, born, scheduler, faults>>

Reorder(j, p) ==
  /\ status[j] = "queued"
  /\ priority' = [priority EXCEPT ![j] = p]
  /\ UNCHANGED <<status, attempts, born, scheduler, faults>>

(* finish() looks at the job's id alone, never at the status it overwrites *)
Finish(j, ok, retry) == SetStatus(j, IF retry THEN "queued" ELSE IF ok THEN "done" ELSE "failed")

-----------------------------------------------------------------------------
(* IndexScheduler._loop: no await between two claims, so it empties the    *)
(* queue before any task moves                                             *)

Wake == /\ loop = "asleep"
        /\ loop' = "draining"
        /\ UNCHANGED <<table, phase, waiting, faults>>

Claim(j) ==
  /\ loop = "draining"
  /\ First(j)
  /\ SetStatus(j, "running")
  /\ attempts' = [attempts EXCEPT ![j] = @ + 1]
  /\ phase' = [phase EXCEPT ![<<j, attempts'[j]>>] = "waiting"]
  /\ waiting' = Append(waiting, <<j, attempts'[j]>>)
  /\ UNCHANGED <<priority, born, loop, faults>>

Sleep == /\ loop = "draining"
         /\ Queued = {}
         /\ loop' = "asleep"
         /\ UNCHANGED <<table, phase, waiting, faults>>

-----------------------------------------------------------------------------
(* IndexScheduler._run_guarded *)

Resume(t, from, to) == /\ loop # "draining"
                       /\ phase[t] = from
                       /\ phase' = [phase EXCEPT ![t] = to]

Acquire(t) ==
  /\ waiting # <<>> /\ t = Head(waiting)
  /\ Cardinality(Holding) < Concurrency
  /\ Resume(t, "waiting", "starting")
  /\ waiting' = Tail(waiting)
  /\ UNCHANGED <<table, loop, faults>>

Start(t) ==
  /\ Resume(t, "starting", "running")
  /\ UNCHANGED <<table, loop, waiting, faults>>

(* publishing "start" is outside the try: an exception there ends the task *)
StartFails(t) ==
  /\ faults < MaxFaults
  /\ Resume(t, "starting", "gone")
  /\ faults' = faults + 1
  /\ UNCHANGED <<table, loop, waiting>>

Succeed(t) ==
  /\ Resume(t, "running", "reporting")
  /\ Finish(JobOf(t), TRUE, FALSE)
  /\ UNCHANGED <<priority, attempts, born, loop, waiting, faults>>

(* mutant: retries once too often *)
MutantRetry(t) ==
  /\ AttemptOf(t) <= MaxAttempts
  /\ Resume(t, "running", "backoff")
  /\ UNCHANGED <<table, loop, waiting, faults>>

(* mutant: back in the queue before the sleep *)
MutantBackoff(t) ==
  /\ Resume(t, "running", "backoff")
  /\ AttemptOf(t) < MaxAttempts
  /\ Finish(JobOf(t), FALSE, TRUE)
  /\ UNCHANGED <<priority, attempts, born, loop, waiting, faults>>

Backoff(t) ==
  /\ AttemptOf(t) < MaxAttempts
  /\ Resume(t, "running", "backoff")
  /\ UNCHANGED <<table, loop, waiting, faults>>

(* mutant: the task ends without giving the job back *)
MutantRequeue(t) ==
  /\ Resume(t, "backoff", "reporting")
  /\ UNCHANGED <<table, loop, waiting, faults>>

Requeue(t) ==
  /\ Resume(t, "backoff", "reporting")
  /\ Finish(JobOf(t), FALSE, TRUE)
  /\ UNCHANGED <<priority, attempts, born, loop, waiting, faults>>

GiveUp(t) ==
  /\ AttemptOf(t) = MaxAttempts
  /\ Resume(t, "running", "reporting")
  /\ Finish(JobOf(t), FALSE, FALSE)
  /\ UNCHANGED <<priority, attempts, born, loop, waiting, faults>>

(* the last publication returns, or fails: the permit is released          *)
Report(t) ==
  /\ Resume(t, "reporting", "gone")
  /\ UNCHANGED <<table, loop, waiting, faults>>

-----------------------------------------------------------------------------
(* The process.  stop() cancels the loop and every task: the running ones  *)
(* mark their job failed, the others leave the row as it is.  A crash      *)
(* leaves every row as it is.                                              *)

Vanish == /\ loop' = "stopped"
          /\ phase' = [t \in Tasks |-> IF phase[t] = "none" THEN "none" ELSE "gone"]
          /\ waiting' = <<>>
          /\ faults < MaxFaults
          /\ faults' = faults + 1
          /\ UNCHANGED <<priority, attempts, born>>

Interrupted == {j \in Jobs : \E t \in Tasks : JobOf(t) = j /\ phase[t] = "running"}

Stop == /\ loop = "asleep"
        /\ status' = [j \in Jobs |-> IF j \in Interrupted THEN "failed" ELSE status[j]]
        /\ Vanish

Crash == /\ loop # "stopped"
         /\ Vanish
         /\ UNCHANGED status

Restart == /\ loop = "stopped"
           /\ loop' = "draining"
           /\ UNCHANGED <<table, phase, waiting, faults>>

-----------------------------------------------------------------------------
Caller == \E j \in Jobs : \/ Cancel(j)
                          \/ \E p \in Priorities : Enqueue(j, p) \/ Reorder(j, p)
Loop == Wake \/ Sleep \/ \E j \in Jobs : Claim(j)
Step(t) == \/ Acquire(t) \/ Start(t)  \/ Succeed(t) \/ Backoff(t)
           \/ Requeue(t) \/ GiveUp(t) \/ Report(t)

Next == \/ Caller
        \/ Loop
        \/ \E t \in Tasks : Step(t) \/ StartFails(t)
        \/ Stop \/ Crash \/ Restart

(* The event loop runs every ready task in turn, so a task that is ready    *)
(* whenever the drain pauses does run; run_job ends (its engine calls       *)
(* have timeouts); a process that went down is started again.              *)
Fairness == WF_vars(Loop) /\ WF_vars(Restart) /\ \A t \in Tasks : SF_vars(Step(t))

Spec == Init /\ [][Next]_vars
FairSpec == Spec /\ Fairness

-----------------------------------------------------------------------------
Settled == {"done", "failed", "cancelled"}

(* A job marked running that no task of this process will ever finish.     *)
Orphaned(j) == status[j] = "running" /\ \A t \in Unfinished : JobOf(t) # j

(* The rows and the scheduler's bookkeeping keep their shape; no attempt   *)
(* number passes MaxAttempts, and a row is queued only if another attempt  *)
(* is allowed (scheduler.py:78, index_queue.py:104).                       *)
TypeOK == /\ status \in [Jobs -> Statuses]
          /\ priority \in [Jobs -> Nat]
          /\ attempts \in [Jobs -> 0..MaxAttempts]
          /\ born \in [Jobs -> Nat]
          /\ loop \in {"draining", "asleep", "stopped"}
          /\ phase \in [Tasks -> Phases]
          /\ waiting \in Seq(Tasks)
          /\ faults \in 0..MaxFaults
          /\ \A j \in Queued : attempts[j] < MaxAttempts

(* Every task that has not called finish works on the current attempt of a *)
(* job whose row says running: finish, which checks nothing                *)
(* (index_queue.py:113), can never overwrite a cancellation, a newer       *)
(* attempt or a settled row, although a retried job is claimed again while *)
(* the task that gave it back is still publishing.                         *)
OneAttemptInFlight ==
  \A t \in Unfinished : /\ status[JobOf(t)] = "running"
                         /\ attempts[JobOf(t)] = AttemptOf(t)

(* Without a crash, a stop or a failed publication, no running row is left *)
(* without the task that will finish it.                                   *)
NoOrphanWithoutFault == faults = 0 => \A j \in Jobs : ~Orphaned(j)

(* A job is marked failed only after its last attempt, unless a shutdown   *)
(* interrupted it (scheduler.py:75-82).                                    *)
FailedOnlyWhenExhausted ==
  \A j \in Jobs : status[j] = "failed" => attempts[j] = MaxAttempts \/ faults > 0

(* The table and the attempts follow the life cycle promised of a job:     *)
(* only queued jobs are cancelled, attempts are counted and bounded, and a *)
(* settled job stays settled.                                              *)
Lifecycle == INSTANCE IndexJob WITH status <- status, attempts <- attempts
ImplementsIndexJob == Lifecycle!Spec

(* A queued job is eventually settled, however often it is retried and     *)
(* reordered, unless a fault orphans it.                                   *)
QueuedJobsSettle ==
  \A j \in Jobs : status[j] = "queued" ~> status[j] \in Settled \/ Orphaned(j)
=============================================================================
