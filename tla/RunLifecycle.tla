---------------------------- MODULE RunLifecycle -----------------------------
(***************************************************************************)
(* One task run of a subagent and its checkpoint (agent/subagent,          *)
(* agent/runtime/state.py, agent/capabilities/subagents.py): dispatched    *)
(* once, saved step by step, and after a restart resumed or abandoned.     *)
(*                                                                         *)
(* The run's id stays, its instances change: instance 1 is the dispatched  *)
(* one, each resumption builds the next from the checkpoint.  All share    *)
(* one instance id, hence one entry in Spawner.instances and one in        *)
(* Scheduler._tasks.  A status that is set is on disk only after a save,   *)
(* and publications come in between.                                       *)
(*                                                                         *)
(* The transcript is the number of tool calls whose groups are complete;   *)
(* the call after that has the next number, whoever makes it.              *)
(***************************************************************************)
EXTENDS Naturals, FiniteSets

CONSTANTS MaxCalls,      \* bound: tool calls of a run
          GroupSize,     \* bound: tool calls the model asks for at once
          MaxInstances,  \* bound: instances of the run
          MaxCrashes,    \* bound: process deaths
          MaxMishaps     \* bound: cancellations, shutdowns, publications that fail

ASSUME MaxCallsAssumption == MaxCalls \in Nat
ASSUME GroupSizeAssumption == GroupSize \in Nat \ {0}
ASSUME MaxInstancesAssumption == MaxInstances \in Nat \ {0}
ASSUME MaxCrashesAssumption == MaxCrashes \in Nat
ASSUME MaxMishapsAssumption == MaxMishaps \in Nat

VARIABLES
  (* disk *)
  file,      \* status in the checkpoint, or none
  saved,     \* calls in its snapshot: 0 unless it was taken within a turn
  (* the process *)
  up,
  made,      \* instances so far
  registry,  \* Spawner.instances: the instance under the id, 0 if none
  slot,      \* Scheduler._tasks: the instance whose task is there, 0 if none
  killer,    \* instance a cancellation has marked and not interrupted yet, 0 if none
  abandon,   \* that cancellation is part of an abandonment
  (* the instances *)
  status, phase,
  kept,      \* calls of complete groups in the transcript
  asked,     \* size of the group under way, 0 if none
  got,       \* calls of that group that have their result
  (* counters and history *)
  crashes, mishaps,
  ran,       \* calls that were executed
  repeated   \* calls that were executed again

disk == <<file, saved>>
tables == <<made, registry, slot>>
cancellation == <<killer, abandon>>
transcript == <<kept, asked, got>>
faults == <<crashes, mishaps>>
history == <<ran, repeated>>
vars == <<disk, up, tables, cancellation, status, phase, transcript, faults, history>>

Instances == 1..MaxInstances
None == 0
Dispatched == 1

Settled == {"completed", "failed", "cancelled"}
Alive == {"running", "paused"}
Resumable == Alive
Statuses == {"pending"} \cup Alive \cup Settled

(* parked: rebuilt without a task.  waiting: for a permit.  starting:       *)
(* publishes RunStarted.  thinking: awaits the model.  thought, called:     *)
(* publish a step.  calling: runs a tool.  failing, completing: publish     *)
(* the outcome.  unwinding: interrupted.  telling: publishes task.failed.   *)
Working == {"starting", "thinking", "thought", "calling", "called"}
Started == Working \cup {"failing", "completing", "unwinding"}
Tasks == Started \cup {"waiting", "telling"}
Phases == Tasks \cup {"none", "parked", "gone"}

Init == /\ file = "none" /\ saved = 0
        /\ up = TRUE /\ made = 0
        /\ registry = None /\ slot = None
        /\ killer = None /\ abandon = FALSE
        /\ status = [i \in Instances |-> "pending"]
        /\ phase = [i \in Instances |-> "none"]
        /\ kept = [i \in Instances |-> 0]
        /\ asked = [i \in Instances |-> 0]
        /\ got = [i \in Instances |-> 0]
        /\ crashes = 0 /\ mishaps = 0
        /\ ran = {} /\ repeated = {}

-----------------------------------------------------------------------------
(* Dispatch and resumption *)

Dispatch == /\ up /\ made = 0
            /\ made' = Dispatched /\ registry' = Dispatched
            /\ phase' = [phase EXCEPT ![Dispatched] = "waiting"]
            /\ UNCHANGED <<disk, up, slot, cancellation, status, transcript, faults, history>>

(* mutant: whoever is registered *)
MutantBusy == FALSE

Busy == registry # None /\ status[registry] \in Alive

(* resume_run and resume_from_checkpoint *)
Resume(continue) ==
  LET i == made + 1 IN
  /\ up /\ i \in Instances \ {Dispatched}
  /\ ~Busy
  /\ file \in Resumable
  /\ made' = i /\ registry' = i
  /\ status' = [status EXCEPT ![i] = file]
  /\ kept' = [kept EXCEPT ![i] = saved]
  /\ phase' = [phase EXCEPT ![i] = IF continue THEN "waiting" ELSE "parked"]
  /\ UNCHANGED <<disk, up, slot, cancellation, asked, got, faults, history>>

-----------------------------------------------------------------------------
(* Scheduler.run and SubagentInstance.run_turn *)

Move(i, from, to) == /\ up /\ phase[i] = from
                     /\ phase' = [phase EXCEPT ![i] = to]

(* RUNNING, whatever happened during the wait *)
Permit(i) == /\ Move(i, "waiting", "starting")
             /\ slot' = i
             /\ status' = [status EXCEPT ![i] = "running"]
             /\ UNCHANGED <<disk, up, made, registry, cancellation, transcript, faults, history>>

Begin(i) == /\ Move(i, "starting", "thinking")
            /\ UNCHANGED <<disk, up, tables, cancellation, status, transcript, faults, history>>

Think(i) == /\ Move(i, "thinking", "thought")
            /\ UNCHANGED <<disk, up, tables, cancellation, status, transcript, faults, history>>

(* mutant: the group under way is taken as complete *)
MutantPaired(i) == kept[i] + asked[i]

(* the calls that _paired_messages keeps *)
Paired(i) == IF got[i] = asked[i] THEN kept[i] + got[i] ELSE kept[i]

(* mutant: the group never counts *)
MutantUncounted(i) == /\ asked' = [asked EXCEPT ![i] = 0]
                      /\ got' = [got EXCEPT ![i] = 0]
                      /\ UNCHANGED kept

(* mutant: the group counts twice *)
MutantRecounted(i) == /\ kept' = [kept EXCEPT ![i] = Paired(i)]
                      /\ UNCHANGED <<asked, got>>

(* the group is complete *)
CloseGroup(i) == /\ kept' = [kept EXCEPT ![i] = Paired(i)]
                 /\ asked' = [asked EXCEPT ![i] = 0]
                 /\ got' = [got EXCEPT ![i] = 0]

(* mutant: a snapshot as at the end of a turn *)
MutantMidSave(i) == IF i = Dispatched THEN file' = status[i] /\ saved' = 0
                                      ELSE UNCHANGED disk

(* _mid_save_checkpoint: only the dispatched instance was given a store    *)
MidSave(i) == IF i = Dispatched THEN file' = status[i] /\ saved' = Paired(i)
                                ELSE UNCHANGED disk

(* the step is saved, and the reply asks for tools *)
Ask(i, k) == /\ Move(i, "thought", "calling")
             /\ kept[i] + k <= MaxCalls
             /\ MidSave(i)
             /\ asked' = [asked EXCEPT ![i] = k]
             /\ UNCHANGED <<up, tables, cancellation, status, kept, got, faults, history>>

(* the step is saved, and the reply is the answer *)
Answer(i) == /\ Move(i, "thought", "completing")
             /\ MidSave(i)
             /\ status' = [status EXCEPT ![i] = "completed"]
             /\ UNCHANGED <<up, tables, cancellation, transcript, faults, history>>

Call(i) == LET c == kept[i] + got[i] + 1 IN
           /\ Move(i, "calling", "called")
           /\ got' = [got EXCEPT ![i] = @ + 1]
           /\ ran' = ran \cup {c}
           /\ repeated' = IF c \in ran THEN repeated \cup {c} ELSE repeated
           /\ UNCHANGED <<disk, up, tables, cancellation, status, kept, asked, faults>>

(* the step is saved, and the next call of the group or the next round follows *)
Noted(i) ==
  /\ MidSave(i)
  /\ \/ /\ got[i] < asked[i]
        /\ Move(i, "called", "calling")
        /\ UNCHANGED transcript
     \/ /\ got[i] = asked[i]
        /\ Move(i, "called", "thinking")
        /\ CloseGroup(i)
  /\ UNCHANGED <<up, tables, cancellation, status, faults, history>>

(* the step is saved, and a limit on rounds or calls is reached *)
Exhaust(i) == /\ Move(i, "called", "completing")
              /\ got[i] = asked[i]
              /\ MidSave(i)
              /\ CloseGroup(i)
              /\ status' = [status EXCEPT ![i] = "completed"]
              /\ UNCHANGED <<up, tables, cancellation, faults, history>>

(* mutant: the failure is published, the status stays *)
MutantFail(i) ==
  /\ up /\ phase[i] \in {"thinking", "thought", "called"}
  /\ phase' = [phase EXCEPT ![i] = "failing"]
  /\ UNCHANGED <<disk, up, tables, cancellation, status, transcript, faults, history>>

(* the model, or the publication of a step, raises; tools do not *)
Fail(i) == /\ up /\ phase[i] \in {"thinking", "thought", "called"}
           /\ phase' = [phase EXCEPT ![i] = "failing"]
           /\ status' = [status EXCEPT ![i] = "failed"]
           /\ UNCHANGED <<disk, up, tables, cancellation, transcript, faults, history>>

-----------------------------------------------------------------------------
(* The finally of Spawner.start: the snapshot of the turn's end, without   *)
(* its transcript.  The task's entry goes by name, whoever is there.       *)

Leave(i, to) == /\ phase' = [phase EXCEPT ![i] = to]
                /\ slot' = None
                /\ file' = status[i]
                /\ saved' = 0
                /\ UNCHANGED <<up, made, registry, cancellation, status, transcript, history>>

(* a resumed run that raised has its failure told and written back *)
Raised(i) == IF i = Dispatched THEN "gone" ELSE "telling"

End(i) == /\ up
          /\ \/ phase[i] = "completing" /\ Leave(i, "gone")
             \/ phase[i] = "failing" /\ Leave(i, Raised(i))
          /\ UNCHANGED faults

(* publishing the start (outside the try) or the completion raises *)
PublicationFails(i) == /\ up /\ phase[i] \in {"starting", "completing"}
                       /\ mishaps < MaxMishaps /\ mishaps' = mishaps + 1
                       /\ Leave(i, Raised(i))
                       /\ UNCHANGED crashes

Unwind(i) == /\ up /\ phase[i] = "unwinding"
             /\ Leave(i, "gone")
             /\ UNCHANGED faults

(* load, FAILED, save: if the file is still there *)
Tell(i) == /\ Move(i, "telling", "gone")
           /\ file' = IF file = "none" THEN "none" ELSE "failed"
           /\ UNCHANGED <<saved, up, tables, cancellation, status, transcript, faults, history>>

-----------------------------------------------------------------------------
(* cancel_run and abandon_resumable_checkpoint.  Spawner.cancel marks the  *)
(* instance, publishes, and then interrupts the task that is in the table  *)
(* by then: none if the instance still waits for its permit.               *)

Mark(forGood) == /\ up /\ killer = None /\ Busy
                 /\ forGood => file # "none"
                 /\ mishaps < MaxMishaps /\ mishaps' = mishaps + 1
                 /\ killer' = registry /\ abandon' = forGood
                 /\ status' = [status EXCEPT ![registry] = "cancelled"]
                 /\ UNCHANGED <<disk, up, tables, phase, transcript, crashes, history>>

(* the rest of abandon, without an await *)
Forget == /\ registry' = None
          /\ file' = "none" /\ saved' = 0

(* a task that is being interrupted already is interrupted in vain *)
Interrupt == /\ up /\ killer # None
             /\ phase' = IF slot = None THEN phase ELSE [phase EXCEPT ![slot] = "unwinding"]
             /\ slot' = None
             /\ killer' = None /\ abandon' = FALSE
             /\ IF abandon THEN Forget ELSE UNCHANGED <<registry, disk>>
             /\ UNCHANGED <<up, made, status, transcript, faults, ran, repeated>>

(* nobody to cancel *)
AbandonIdle == /\ up /\ ~Busy /\ file # "none"
               /\ Forget
               /\ UNCHANGED <<up, made, slot, cancellation, status, phase, transcript, faults,
                              ran, repeated>>

-----------------------------------------------------------------------------
(* The process *)

(* all of the memory is lost *)
Gone == /\ up' = FALSE
        /\ phase' = [i \in Instances |-> IF phase[i] = "none" THEN "none" ELSE "gone"]
        /\ status' = [i \in Instances |-> "pending"]
        /\ kept' = [i \in Instances |-> 0]
        /\ asked' = kept' /\ got' = kept'
        /\ registry' = None /\ slot' = None
        /\ killer' = None /\ abandon' = FALSE
        /\ UNCHANGED <<made, history>>

Crash == /\ up
         /\ crashes < MaxCrashes /\ crashes' = crashes + 1
         /\ Gone
         /\ UNCHANGED <<disk, mishaps>>

(* An orderly shutdown interrupts every task, and each saves on its way    *)
(* out; the last one stays on disk.                                        *)
Stop == /\ up
        /\ mishaps < MaxMishaps /\ mishaps' = mishaps + 1
        /\ Gone
        /\ LET saving == {i \in Instances : phase[i] \in Started \cup {"waiting"}} IN
           IF saving = {} THEN UNCHANGED disk
           ELSE \E i \in saving : file' = status[i] /\ saved' = 0
        /\ UNCHANGED crashes

(* prepare_resumable_checkpoints *)
Boot == /\ ~up
        /\ up' = TRUE
        /\ file' = IF file \in Alive THEN "paused" ELSE file
        /\ UNCHANGED <<saved, tables, cancellation, status, phase, transcript, faults, history>>

-----------------------------------------------------------------------------
Step(i) == \/ Permit(i) \/ Begin(i) \/ Think(i) \/ Answer(i) \/ Call(i) \/ Noted(i)
           \/ Exhaust(i) \/ Fail(i)
           \/ End(i) \/ Unwind(i) \/ Tell(i)
           \/ \E k \in 1..GroupSize : Ask(i, k)

User == \/ Dispatch \/ AbandonIdle
        \/ \E b \in BOOLEAN : Resume(b) \/ Mark(b)

Next == \/ User \/ Interrupt
        \/ \E i \in Instances : Step(i) \/ PublicationFails(i)
        \/ Crash \/ Stop \/ Boot

(* Permits become free, models and tools return (they have timeouts),      *)
(* publications end, and the process is started again.                     *)
Fairness == /\ WF_vars(Boot) /\ WF_vars(Interrupt)
            /\ \A i \in Instances : WF_vars(Step(i))

Spec == Init /\ [][Next]_vars
FairSpec == Spec /\ Fairness

-----------------------------------------------------------------------------
(* A group fits into the run, and has no more results than calls.          *)
TranscriptOK == /\ kept \in [Instances -> 0..MaxCalls]
                /\ asked \in [Instances -> 0..MaxCalls]
                /\ got \in [Instances -> 0..MaxCalls]
                /\ \A i \in Instances : got[i] <= asked[i] /\ kept[i] + asked[i] <= MaxCalls

(* Instances are made in order; a process that is down has no tasks.       *)
PhasesOK == /\ phase \in [Instances -> Phases]
            /\ \A i \in Instances : /\ i > made <=> phase[i] = "none"
                                    /\ ~up => phase[i] \notin Tasks

(* The state keeps its shape.                                              *)
TypeOK ==
  /\ file \in Statuses \cup {"none"} /\ saved \in 0..MaxCalls
  /\ up \in BOOLEAN /\ abandon \in BOOLEAN
  /\ made \in 0..MaxInstances
  /\ registry \in 0..made /\ slot \in 0..made /\ killer \in 0..made
  /\ status \in [Instances -> Statuses]
  /\ PhasesOK
  /\ TranscriptOK
  /\ crashes \in 0..MaxCrashes /\ mishaps \in 0..MaxMishaps
  /\ repeated \subseteq ran /\ ran \subseteq 1..MaxCalls

(* Unless a cancellation or a failing publication interferes, only one     *)
(* instance works on the run, although a resumption is accepted while the  *)
(* outcome of the instance before is still being published                 *)
(* (spawn.py:111-117, instance.py:204-224).                                *)
OneWorker ==
  mishaps = 0 => \A i, k \in Instances : phase[i] \in Working /\ phase[k] \in Working => i = k

(* The first resumption repeats at most the one group of tool calls that   *)
(* was under way: it starts from the saves of the dispatched instance      *)
(* (instance.py:32-50, 266-283).  A later one may repeat more, as a        *)
(* resumed instance saves nothing before its turn ends (spawn.py:169).     *)
RepeatsBounded == mishaps = 0 /\ made = 2 => Cardinality(repeated) <= GroupSize

(* A resumption skips no call: what a checkpoint or a transcript holds has *)
(* been executed, a group that is not complete is not held                 *)
(* (instance.py:32-50, spawn.py:182-196).                                  *)
NothingSkipped == /\ 1..saved \subseteq ran
                  /\ \A i \in Instances : 1..(kept[i] + got[i]) \subseteq ran

(* While the process is up, a checkpoint that says running belongs to a    *)
(* task that will write the outcome, so the run is not stuck               *)
(* (spawn.py:96-99, state.py:193-207).                                     *)
RunningOnDiskIsDriven ==
  mishaps = 0 /\ up /\ file = "running" => \E i \in Instances : phase[i] \in Tasks

(* A run whose outcome is on disk is not taken up again: crashes and late  *)
(* saves of other instances never make it resumable (state.py:198,         *)
(* spawn.py:146).                                                          *)
SettledStaysSettled ==
  [][mishaps' = 0 /\ file \in Settled => file' \in Settled \cup {"none"}]_vars

(* Every task comes to its end, so a permit that is taken is given back.   *)
TasksEnd ==
  \A i \in Instances : phase[i] \in Tasks ~> phase[i] = "gone"
=============================================================================
