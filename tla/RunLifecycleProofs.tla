------------------------- MODULE RunLifecycleProofs --------------------------
(***************************************************************************)
(* Safety of RunLifecycle for every number of calls, instances, crashes    *)
(* and mishaps: as long as there is no mishap, only one instance works on  *)
(* the run, what the disk calls running is being run, an outcome on disk   *)
(* is not taken back, and the first resumption repeats no more than a      *)
(* group of calls; and, whatever happens, no call is skipped.              *)
(***************************************************************************)
EXTENDS RunLifecycle, FiniteSetTheorems, TLAPS

Engaged == Working \cup {"waiting", "parked"}

(* A cancellation is a mishap already counted.                             *)
KillerCounted == killer # None => mishaps > 0

(* Until there is an instance there is no file; the dispatched instance is *)
(* the only one as long as it works, and none has been saved before it.    *)
FirstAlone == /\ made = 0 => file = "none"
              /\ phase[Dispatched] # "parked"
              /\ phase[Dispatched] \in Working \cup {"waiting"} => made = 1
              /\ phase[Dispatched] = "waiting" => file = "none"
              /\ phase[Dispatched] \in Working => file \in {"none", "running"}

(* Whoever works, or may come to work, is registered as alive, so that no  *)
(* resumption is accepted besides it; the first that waits has no file.    *)
Current(i) == /\ phase[i] \in Engaged => registry = i
              /\ phase[i] \in Working => status[i] = "running"
              /\ phase[i] \in Engaged /\ i # Dispatched => status[i] \in Alive

(* An outcome that is being published is in memory, and nobody is          *)
(* interrupted.                                                            *)
Outcome(i) == /\ phase[i] = "completing" => status[i] = "completed"
              /\ phase[i] = "failing" => status[i] = "failed"
              /\ phase[i] # "unwinding"

Quiet == mishaps = 0 => /\ FirstAlone
                        /\ \A i \in Instances : Current(i) /\ Outcome(i)

(* A call is due while a group is under way, and no group is when a round  *)
(* begins.                                                                 *)
Grouped(i) ==
  /\ phase[i] = "calling" => got[i] < asked[i]
  /\ phase[i] \in {"none", "waiting", "parked", "starting", "thinking", "thought"} =>
       asked[i] = 0 /\ got[i] = 0

Typed == TypeOK /\ \A i \in Instances : Grouped(i)

IInv == Typed /\ KillerCounted /\ Quiet /\ RunningOnDiskIsDriven

USE MaxCallsAssumption, GroupSizeAssumption, MaxInstancesAssumption, MaxCrashesAssumption,
    MaxMishapsAssumption DEF None, Dispatched, Instances
USE DEF Statuses, Alive, Settled, Phases, Tasks, Started, Working

LEMMA InitInvariant == Init => IInv
<1> SUFFICES ASSUME Init PROVE IInv
  OBVIOUS
<1>1. PhasesOK
  BY DEF Init, PhasesOK
<1>2. TranscriptOK /\ \A i \in Instances : Grouped(i)
  BY DEF Init, TranscriptOK, Grouped
<1>3. status \in [Instances -> Statuses]
  BY DEF Init
<1>4. /\ file \in Statuses \cup {"none"} /\ saved \in 0..MaxCalls
      /\ registry \in 0..made /\ slot \in 0..made /\ killer \in 0..made
      /\ made \in 0..MaxInstances
      /\ crashes \in 0..MaxCrashes /\ mishaps \in 0..MaxMishaps
  BY DEF Init
<1>5. Typed
  BY <1>1, <1>2, <1>3, <1>4 DEF Init, Typed, TypeOK
<1>6. KillerCounted /\ Quiet /\ RunningOnDiskIsDriven
  BY DEF Init, KillerCounted, Quiet, FirstAlone, Current, Outcome, RunningOnDiskIsDriven,
         Engaged
<1> QED BY <1>5, <1>6 DEF IInv

-----------------------------------------------------------------------------
(* What keeps the parts of the types.                                      *)
LEMMA TranscriptKept ==
  ASSUME TranscriptOK, UNCHANGED transcript PROVE TranscriptOK'
BY DEF TranscriptOK, transcript

LEMMA TaskMoves ==
  ASSUME PhasesOK, NEW i \in Instances, phase[i] \in Tasks, up, UNCHANGED <<up, made>>,
         NEW p \in Tasks \cup {"gone"}, phase' = [phase EXCEPT ![i] = p]
  PROVE  PhasesOK' /\ ~(i > made)
BY DEF PhasesOK

(* A group that is under way is under way in its phases only.              *)
LEMMA GroupKept ==
  ASSUME NEW i \in Instances, phase \in [Instances -> Phases], UNCHANGED transcript,
         \A j \in Instances : Grouped(j),
         NEW p \in Phases, phase' = [phase EXCEPT ![i] = p],
         \/ p \in {"called", "failing", "completing", "unwinding", "telling", "gone"}
         \/ p = "calling" /\ got[i] < asked[i]
         \/ phase[i] \in {"none", "waiting", "starting", "thinking"} /\ p # "calling"
  PROVE  \A j \in Instances : Grouped(j)'
<1> SUFFICES ASSUME NEW j \in Instances PROVE Grouped(j)'
  OBVIOUS
<1>1. CASE j # i
  <2>1. phase'[j] = phase[j]
    BY <1>1
  <2> QED BY <2>1 DEF Grouped, transcript
<1>2. CASE j = i
  <2>1. phase'[j] = p
    BY <1>2
  <2> QED BY <1>2, <2>1 DEF Grouped, transcript
<1> QED BY <1>1, <1>2

-----------------------------------------------------------------------------
(* Each kind of step keeps the types.                                      *)
LEMMA DispatchTypes ==
  ASSUME Typed, Dispatch PROVE Typed'
<1> USE DEF Typed, TypeOK
<1>1. PhasesOK'
  BY DEF Dispatch, PhasesOK
<1>2. \A i \in Instances : Grouped(i)'
  <2>1. phase[Dispatched] = "none" /\ UNCHANGED transcript
    BY DEF Dispatch, PhasesOK
  <2>2. \A i \in Instances : phase'[i] = IF i = Dispatched THEN "waiting" ELSE phase[i]
    BY DEF Dispatch, PhasesOK
  <2> QED BY <2>1, <2>2 DEF Grouped, transcript
<1>3. /\ made' \in 0..MaxInstances
      /\ registry' \in 0..made' /\ slot' \in 0..made' /\ killer' \in 0..made'
  BY DEF Dispatch, cancellation
<1> QED BY <1>1, <1>2, <1>3, TranscriptKept DEF Dispatch, disk, cancellation, faults, history

LEMMA ResumeTypes ==
  ASSUME Typed, NEW b \in BOOLEAN, Resume(b) PROVE Typed'
<1> USE DEF Typed, TypeOK
<1> DEFINE i == made + 1
           p == IF b THEN "waiting" ELSE "parked"
<1>1. /\ i \in Instances /\ made' = i /\ registry' = i /\ up
      /\ phase' = [phase EXCEPT ![i] = p] /\ p \in {"waiting", "parked"}
      /\ status' = [status EXCEPT ![i] = file] /\ file \in Statuses
      /\ kept' = [kept EXCEPT ![i] = saved]
      /\ UNCHANGED <<disk, up, slot, cancellation, asked, got, faults, history>>
  BY DEF Resume, Resumable
<1>2. phase[i] = "none"
  BY <1>1 DEF PhasesOK
<1>3. PhasesOK'
  BY <1>1 DEF PhasesOK
<1>4. asked[i] = 0 /\ got[i] = 0
  BY <1>1, <1>2 DEF Grouped
<1>5. TranscriptOK'
  <2>1. kept' \in [Instances -> 0..MaxCalls] /\ saved \in 0..MaxCalls
    BY <1>1 DEF TranscriptOK
  <2>2. \A j \in Instances : kept'[j] + asked[j] <= MaxCalls
    BY <1>1, <1>4, <2>1 DEF TranscriptOK
  <2> QED BY <1>1, <2>1, <2>2 DEF TranscriptOK
<1>6. \A j \in Instances : Grouped(j)'
  BY <1>1, <1>4 DEF Grouped, PhasesOK
<1>7. /\ made' \in 0..MaxInstances
      /\ registry' \in 0..made' /\ slot' \in 0..made' /\ killer' \in 0..made'
  BY <1>1 DEF cancellation
<1>8. status' \in [Instances -> Statuses]
  BY <1>1
<1> QED BY <1>1, <1>3, <1>5, <1>6, <1>7, <1>8 DEF disk, cancellation, faults, history

LEMMA CancelTypes ==
  ASSUME Typed, AbandonIdle \/ Interrupt \/ \E b \in BOOLEAN : Mark(b) PROVE Typed'
<1> USE DEF Typed, TypeOK
<1>1. CASE AbandonIdle
  <2>1. PhasesOK' /\ TranscriptOK' /\ \A i \in Instances : Grouped(i)'
    BY <1>1 DEF AbandonIdle, PhasesOK, TranscriptOK, Grouped, transcript
  <2> QED BY <1>1, <2>1 DEF AbandonIdle, Forget, cancellation, faults
<1>2. ASSUME NEW b \in BOOLEAN, Mark(b) PROVE Typed'
  <2>1. PhasesOK' /\ TranscriptOK' /\ \A i \in Instances : Grouped(i)'
    BY <1>2 DEF Mark, PhasesOK, TranscriptOK, Grouped, transcript, tables
  <2>2. mishaps' \in 0..MaxMishaps
    BY <1>2 DEF Mark
  <2>3. status' \in [Instances -> Statuses] /\ killer' \in 0..made
    BY <1>2 DEF Mark
  <2> QED BY <1>2, <2>1, <2>2, <2>3 DEF Mark, disk, tables, history
<1>3. CASE Interrupt
  <2>1. /\ file' \in Statuses \cup {"none"} /\ saved' \in 0..MaxCalls
        /\ registry' \in 0..made
    <3>1. CASE abandon
      BY <1>3, <3>1 DEF Interrupt, Forget
    <3>2. CASE ~abandon
      BY <1>3, <3>2 DEF Interrupt, disk
    <3> QED BY <3>1, <3>2
  <2>2. PhasesOK' /\ TranscriptOK' /\ \A i \in Instances : Grouped(i)'
    BY <1>3 DEF Interrupt, PhasesOK, TranscriptOK, Grouped, transcript
  <2>3. made' = made /\ slot' \in 0..made' /\ killer' \in 0..made'
    BY <1>3 DEF Interrupt
  <2>4. up' = up /\ abandon' \in BOOLEAN
    BY <1>3 DEF Interrupt
  <2> QED BY <1>3, <2>1, <2>2, <2>3, <2>4 DEF Interrupt, faults
<1> QED BY <1>1, <1>2, <1>3

(* What a save within a turn leaves, and the save at a turn's end.         *)
LEMMA SaveTypes ==
  ASSUME Typed, NEW i \in Instances, MidSave(i)
  PROVE  file' \in Statuses \cup {"none"} /\ saved' \in 0..MaxCalls
<1> USE DEF Typed, TypeOK
<1>1. Paired(i) \in 0..MaxCalls
  BY DEF Paired, TranscriptOK
<1> QED BY <1>1 DEF MidSave, disk

LEMMA LeaveTypes ==
  ASSUME Typed, NEW i \in Instances, phase[i] \in Started, up,
         NEW p \in {"gone", "telling"}, Leave(i, p),
         crashes' = crashes, mishaps' \in 0..MaxMishaps
  PROVE  Typed'
<1> USE DEF Typed, TypeOK
<1>1. PhasesOK'
  BY TaskMoves DEF Leave
<1>2. TranscriptOK'
  BY TranscriptKept DEF Leave
<1>3. phase \in [Instances -> Phases] /\ phase' = [phase EXCEPT ![i] = p] /\ UNCHANGED transcript
  BY DEF PhasesOK, Leave
<1>4. \A j \in Instances : Grouped(j)'
  BY <1>3, GroupKept
<1>5. /\ file' \in Statuses \cup {"none"} /\ saved' \in 0..MaxCalls
      /\ slot' \in 0..made /\ killer' \in 0..made /\ abandon' \in BOOLEAN
  BY DEF Leave, cancellation
<1> QED BY <1>1, <1>2, <1>4, <1>5 DEF Leave, history

(* Every step of an instance moves it, and leaves the rest of the phases.  *)
LEMMA StepPhases ==
  ASSUME Typed, NEW i \in Instances, Step(i)
  PROVE  PhasesOK' /\ ~(i > made) /\ up' /\ made' = made
<1> USE DEF Typed, TypeOK
<1>1. phase[i] \in Tasks /\ up /\ UNCHANGED <<up, made>>
  BY DEF Step, Permit, Begin, Think, Ask, Answer, Call, Noted, Exhaust, Fail, End, Unwind, Tell,
         Move, Leave, tables
<1>2. \E p \in Tasks \cup {"gone"} : phase' = [phase EXCEPT ![i] = p]
  BY DEF Step, Permit, Begin, Think, Ask, Answer, Call, Noted, Exhaust, Fail, End, Unwind, Tell, Move,
         Leave, Raised
<1> QED BY <1>1, <1>2, TaskMoves

LEMMA StepTypes ==
  ASSUME Typed, NEW i \in Instances, Step(i) PROVE Typed'
<1> USE DEF Typed, TypeOK
<1>1. PhasesOK' /\ ~(i > made) /\ up' /\ made' = made /\ phase \in [Instances -> Phases]
  BY StepPhases DEF PhasesOK
<1>2. CASE Permit(i)
  <2>1. status' \in [Instances -> Statuses] /\ slot' \in 0..made
    BY <1>1, <1>2 DEF Permit
  <2>2. \A j \in Instances : Grouped(j)'
    BY <1>1, <1>2, GroupKept DEF Permit, Move
  <2> QED BY <1>1, <1>2, <2>1, <2>2, TranscriptKept DEF Permit, disk, cancellation, faults, history
<1>3. CASE Begin(i) \/ Think(i)
  <2>1. \A j \in Instances : Grouped(j)'
    BY <1>1, <1>3, GroupKept DEF Begin, Think, Move
  <2> QED BY <1>1, <1>3, <2>1, TranscriptKept
      DEF Begin, Think, disk, tables, cancellation, faults, history
<1>4. CASE Answer(i)
  <2>1. \A j \in Instances : Grouped(j)'
    BY <1>1, <1>4, GroupKept DEF Answer, Move
  <2>2. status' \in [Instances -> Statuses]
    BY <1>4 DEF Answer
  <2> QED BY <1>1, <1>4, <2>1, <2>2, SaveTypes, TranscriptKept
      DEF Answer, tables, cancellation, faults, history
<1>5. CASE Call(i)
  <2>1. /\ got[i] < asked[i] /\ got' = [got EXCEPT ![i] = got[i] + 1]
        /\ phase' = [phase EXCEPT ![i] = "called"] /\ UNCHANGED <<kept, asked>>
    BY <1>5 DEF Call, Move, Grouped
  <2>2. TranscriptOK' /\ kept[i] + got[i] + 1 \in 1..MaxCalls
    <3>1. /\ kept[i] \in Nat /\ asked[i] \in 0..MaxCalls /\ got[i] \in Nat
          /\ kept[i] + asked[i] <= MaxCalls
      BY DEF TranscriptOK
    <3>2. got[i] + 1 \in 0..MaxCalls /\ got[i] + 1 <= asked[i]
      BY <2>1, <3>1
    <3>3. kept[i] + got[i] + 1 \in 1..MaxCalls
      BY <2>1, <3>1
    <3>4. TranscriptOK'
      BY <2>1, <3>2 DEF TranscriptOK
    <3> QED BY <3>3, <3>4
  <2>3. \A j \in Instances : Grouped(j)'
    BY <1>1, <2>1 DEF Grouped
  <2>4. repeated' \subseteq ran' /\ ran' \subseteq 1..MaxCalls
    BY <1>5, <2>2 DEF Call
  <2> QED BY <1>1, <1>5, <2>2, <2>3, <2>4 DEF Call, disk, tables, cancellation, faults
<1>6. ASSUME CloseGroup(i), got[i] = asked[i] PROVE TranscriptOK'
  <2>1. kept' = [kept EXCEPT ![i] = kept[i] + got[i]] /\ kept[i] + got[i] \in 0..MaxCalls
    BY <1>6 DEF CloseGroup, Paired, TranscriptOK
  <2>2. kept' \in [Instances -> 0..MaxCalls]
    BY <2>1 DEF TranscriptOK
  <2>3. 0 \in 0..MaxCalls
    OBVIOUS
  <2>4. asked' \in [Instances -> 0..MaxCalls] /\ got' \in [Instances -> 0..MaxCalls]
    BY <1>6, <2>3 DEF CloseGroup, TranscriptOK
  <2>5. ASSUME NEW j \in Instances
        PROVE  got'[j] <= asked'[j] /\ kept'[j] + asked'[j] <= MaxCalls
    <3>1. CASE j = i
      BY <1>6, <2>1, <3>1 DEF CloseGroup, TranscriptOK
    <3>2. CASE j # i
      <4>1. kept'[j] = kept[j] /\ asked'[j] = asked[j] /\ got'[j] = got[j]
        BY <1>6, <2>1, <3>2 DEF CloseGroup, TranscriptOK
      <4> QED BY <4>1 DEF TranscriptOK
    <3> QED BY <3>1, <3>2
  <2> QED BY <2>2, <2>4, <2>5 DEF TranscriptOK
<1>7. CASE Noted(i)
  <2>1. TranscriptOK' /\ \A j \in Instances : Grouped(j)'
    <3>1. CASE got[i] < asked[i] /\ Move(i, "called", "calling") /\ UNCHANGED transcript
      BY <1>1, <3>1, GroupKept, TranscriptKept DEF Move
    <3>2. CASE got[i] = asked[i] /\ Move(i, "called", "thinking") /\ CloseGroup(i)
      <4>1. \A j \in Instances : Grouped(j)'
        BY <1>1, <3>2 DEF CloseGroup, Move, Grouped, TranscriptOK
      <4> QED BY <1>6, <3>2, <4>1
    <3> QED BY <1>7, <3>1, <3>2 DEF Noted
  <2> QED BY <1>1, <1>7, <2>1, SaveTypes
      DEF Noted, tables, cancellation, faults, history
<1>8. CASE Exhaust(i)
  <2>1. \A j \in Instances : Grouped(j)'
    BY <1>1, <1>8 DEF Exhaust, CloseGroup, Move, Grouped, TranscriptOK
  <2>2. status' \in [Instances -> Statuses]
    BY <1>8 DEF Exhaust
  <2> QED BY <1>1, <1>6, <1>8, <2>1, <2>2, SaveTypes
      DEF Exhaust, tables, cancellation, faults, history
<1>9. CASE Fail(i)
  <2>1. \A j \in Instances : Grouped(j)'
    BY <1>1, <1>9, GroupKept DEF Fail
  <2>2. status' \in [Instances -> Statuses]
    BY <1>9 DEF Fail
  <2> QED BY <1>1, <1>9, <2>1, <2>2, TranscriptKept
      DEF Fail, disk, tables, cancellation, faults, history
<1>10. CASE End(i) \/ Unwind(i)
  BY <1>10, LeaveTypes DEF End, Unwind, Raised, faults
<1>11. CASE Tell(i)
  <2>1. \A j \in Instances : Grouped(j)'
    BY <1>1, <1>11, GroupKept DEF Tell, Move
  <2> QED BY <1>1, <1>11, <2>1, TranscriptKept DEF Tell, tables, cancellation, faults, history
<1>12. ASSUME NEW k \in 1..GroupSize, Ask(i, k) PROVE Typed'
  <2>1. /\ k \in Nat /\ kept[i] + k <= MaxCalls /\ phase[i] = "thought"
        /\ asked' = [asked EXCEPT ![i] = k] /\ UNCHANGED <<kept, got>>
        /\ phase' = [phase EXCEPT ![i] = "calling"] /\ got[i] = 0 /\ k > 0
    BY <1>12 DEF Ask, Move, Grouped
  <2>2. TranscriptOK'
    <3>1. k \in 0..MaxCalls
      BY <2>1 DEF TranscriptOK
    <3>2. asked' \in [Instances -> 0..MaxCalls]
      BY <2>1, <3>1 DEF TranscriptOK
    <3>3. ASSUME NEW j \in Instances PROVE got[j] <= asked'[j] /\ kept[j] + asked'[j] <= MaxCalls
      BY <2>1 DEF TranscriptOK
    <3> QED BY <2>1, <3>2, <3>3 DEF TranscriptOK
  <2>3. \A j \in Instances : Grouped(j)'
    BY <1>1, <2>1 DEF Grouped, TranscriptOK
  <2> QED BY <1>1, <1>12, <2>2, <2>3, SaveTypes DEF Ask, tables, cancellation, faults, history
<1> QED BY <1>2, <1>3, <1>4, <1>5, <1>7, <1>8, <1>9, <1>10, <1>11, <1>12 DEF Step

LEMMA PublicationTypes ==
  ASSUME Typed, NEW i \in Instances, PublicationFails(i) PROVE Typed'
<1>1. mishaps' \in 0..MaxMishaps
  BY DEF PublicationFails, Typed, TypeOK
<1> QED BY <1>1, LeaveTypes DEF PublicationFails, Raised

LEMMA ProcessTypes ==
  ASSUME Typed, Crash \/ Stop \/ Boot PROVE Typed'
<1> USE DEF Typed, TypeOK
<1>1. ASSUME Gone PROVE /\ PhasesOK' /\ TranscriptOK' /\ \A i \in Instances : Grouped(i)'
                        /\ status' \in [Instances -> Statuses] /\ up' \in BOOLEAN
                        /\ made' = made /\ registry' \in 0..made /\ slot' \in 0..made
                        /\ killer' \in 0..made /\ abandon' \in BOOLEAN
  <2>1. PhasesOK'
    BY <1>1 DEF Gone, PhasesOK
  <2>2. TranscriptOK' /\ \A i \in Instances : Grouped(i)'
    BY <1>1 DEF Gone, TranscriptOK, Grouped
  <2>3. status' \in [Instances -> Statuses]
    BY <1>1 DEF Gone
  <2>4. made' = made /\ registry' \in 0..made /\ slot' \in 0..made /\ killer' \in 0..made
    BY <1>1 DEF Gone
  <2>5. abandon' \in BOOLEAN /\ up' \in BOOLEAN
    BY <1>1 DEF Gone
  <2> QED BY <2>1, <2>2, <2>3, <2>4, <2>5
<1>2. CASE Crash
  <2>1. crashes' \in 0..MaxCrashes
    BY <1>2 DEF Crash
  <2> QED BY <1>1, <1>2, <2>1 DEF Crash, Gone, disk, history
<1>3. CASE Stop
  <2>1. file' \in Statuses \cup {"none"} /\ saved' \in 0..MaxCalls
    BY <1>3 DEF Stop, disk
  <2>2. mishaps' \in 0..MaxMishaps
    BY <1>3 DEF Stop
  <2> QED BY <1>1, <1>3, <2>1, <2>2 DEF Stop, Gone, history
<1>4. CASE Boot
  <2>1. PhasesOK' /\ TranscriptOK' /\ \A i \in Instances : Grouped(i)'
    BY <1>4 DEF Boot, PhasesOK, TranscriptOK, Grouped, transcript, tables
  <2> QED BY <1>4, <2>1 DEF Boot, tables, cancellation, faults, history
<1> QED BY <1>2, <1>3, <1>4

-----------------------------------------------------------------------------
(* What is claimed of a run without mishaps.                               *)
Claims == KillerCounted /\ Quiet /\ RunningOnDiskIsDriven

(* A run that has had a mishap has nothing to show.                        *)
LEMMA MishapClaims ==
  ASSUME mishaps' > 0 PROVE Claims'
BY DEF Claims, KillerCounted, Quiet, RunningOnDiskIsDriven

(* A mishap is not forgotten.                                              *)
LEMMA MishapsGrow ==
  ASSUME Typed, Next PROVE mishaps' >= mishaps /\ mishaps \in Nat /\ mishaps' \in Nat
<1>1. mishaps' = mishaps \/ mishaps' = mishaps + 1
  BY DEF Next, User, Step, Dispatch, AbandonIdle, Resume, Mark, Interrupt, Permit, Begin, Think,
         Answer, Call, Noted, Exhaust, Fail, End, Unwind, Tell, Ask, PublicationFails, Crash, Stop, Boot,
         faults
<1> QED BY <1>1 DEF Typed, TypeOK

LEMMA DispatchClaims ==
  ASSUME IInv, mishaps = 0, Dispatch PROVE Claims'
<1> USE DEF IInv, Typed, TypeOK
<1>1. /\ made = 0 /\ made' = 1 /\ registry' = 1 /\ file = "none" /\ killer = 0
      /\ phase' = [phase EXCEPT ![1] = "waiting"]
      /\ UNCHANGED <<file, killer, mishaps, status>>
  BY DEF Dispatch, Quiet, FirstAlone, KillerCounted, disk, cancellation, faults
<1>2. \A i \in Instances : phase[i] = "none"
  BY <1>1 DEF PhasesOK
<1>3. FirstAlone'
  BY <1>1, <1>2 DEF FirstAlone, PhasesOK
<1>4. ASSUME NEW i \in Instances PROVE Current(i)' /\ Outcome(i)'
  BY <1>1, <1>2 DEF Current, Outcome, Engaged, PhasesOK
<1> QED BY <1>1, <1>3, <1>4 DEF Claims, KillerCounted, Quiet, RunningOnDiskIsDriven

(* When a resumption is accepted, nobody works on the run.                 *)
LEMMA ResumeAlone ==
  ASSUME IInv, mishaps = 0, NEW b \in BOOLEAN, Resume(b), NEW i \in Instances
  PROVE  phase[i] \notin Engaged /\ made > 0
<1> USE DEF IInv, Typed, TypeOK
<1>1. ~Busy /\ file \in {"running", "paused"}
  BY DEF Resume, Resumable
<1>2. FirstAlone /\ Current(i)
  BY DEF Quiet
<1>3. made > 0
  BY <1>1, <1>2 DEF FirstAlone
<1>4. CASE phase[i] \in Working \/ (phase[i] \in Engaged /\ i # Dispatched)
  BY <1>1, <1>2, <1>4 DEF Current, Busy, Engaged
<1>5. CASE i = Dispatched /\ phase[i] = "waiting"
  BY <1>1, <1>2, <1>5 DEF FirstAlone
<1>6. CASE i = Dispatched /\ phase[i] = "parked"
  BY <1>1, <1>2, <1>6 DEF FirstAlone
<1> QED BY <1>3, <1>4, <1>5, <1>6 DEF Engaged

LEMMA ResumeClaims ==
  ASSUME IInv, mishaps = 0, NEW b \in BOOLEAN, Resume(b) PROVE Claims'
<1> USE DEF IInv, Typed, TypeOK
<1> DEFINE n == made + 1
           p == IF b THEN "waiting" ELSE "parked"
<1>1. /\ n \in Instances /\ made' = n /\ registry' = n /\ made > 0 /\ n # 1
      /\ phase' = [phase EXCEPT ![n] = p] /\ p \in {"waiting", "parked"}
      /\ status' = [status EXCEPT ![n] = file] /\ file \in {"running", "paused"}
      /\ UNCHANGED <<up, file, killer, mishaps>>
  BY ResumeAlone DEF Resume, Resumable, disk, cancellation, faults
<1>2. phase'[1] = phase[1] /\ phase[1] \notin Engaged
  BY <1>1, ResumeAlone DEF PhasesOK
<1>3. FirstAlone'
  BY <1>1, <1>2 DEF FirstAlone, Engaged
<1>4. ASSUME NEW i \in Instances PROVE Current(i)' /\ Outcome(i)'
  <2>1. CASE i = n
    BY <1>1, <2>1 DEF Current, Outcome, Engaged, PhasesOK
  <2>2. CASE i # n
    <3>1. phase'[i] = phase[i] /\ status'[i] = status[i]
      BY <1>1, <2>2 DEF PhasesOK
    <3>2. phase[i] \notin Engaged /\ Outcome(i)
      BY ResumeAlone DEF Quiet
    <3> QED BY <3>1, <3>2 DEF Current, Outcome, Engaged
  <2> QED BY <2>1, <2>2
<1>5. RunningOnDiskIsDriven'
  <2>1. ASSUME NEW i \in Instances, phase[i] \in Tasks PROVE phase'[i] \in Tasks
    <3>1. n # i
      BY <1>1, <2>1 DEF PhasesOK
    <3> QED BY <1>1, <2>1, <3>1 DEF PhasesOK
  <2> QED BY <1>1, <2>1 DEF RunningOnDiskIsDriven
<1> QED BY <1>1, <1>3, <1>4, <1>5 DEF Claims, KillerCounted, Quiet

LEMMA AbandonClaims ==
  ASSUME IInv, mishaps = 0, AbandonIdle PROVE Claims'
<1> USE DEF IInv, Typed, TypeOK
<1>1. /\ ~Busy /\ file # "none" /\ file' = "none" /\ registry' = None
      /\ UNCHANGED <<up, made, killer, mishaps, phase, status>>
  BY DEF AbandonIdle, Forget, cancellation, faults
<1>2. ASSUME NEW i \in Instances PROVE phase[i] \notin Engaged /\ Outcome(i)
  BY <1>1 DEF Quiet, FirstAlone, Current, Busy, Engaged
<1>3. FirstAlone'
  BY <1>1, <1>2 DEF FirstAlone, Quiet, Engaged
<1>4. ASSUME NEW i \in Instances PROVE Current(i)' /\ Outcome(i)'
  BY <1>1, <1>2 DEF Current, Outcome, Engaged
<1> QED BY <1>1, <1>3, <1>4 DEF Claims, KillerCounted, Quiet, RunningOnDiskIsDriven

(* A step of an instance claims no more than what it does itself: while    *)
(* the dispatched one works, there is no other that could write.           *)
LEMMA MoveClaims ==
  ASSUME IInv, mishaps = 0, NEW i \in Instances, phase[i] \in Tasks, up',
         UNCHANGED <<killer, registry, made, mishaps>>,
         \A j \in Instances \ {i} : phase'[j] = phase[j] /\ status'[j] = status[j],
         phase'[i] \notin {"none", "waiting", "parked"},
         phase'[i] \in Working => phase[i] \in Working \cup {"waiting"},
         i = Dispatched /\ phase'[i] \in Working => file' \in {"none", "running"},
         file' = "running" => phase'[i] \in Tasks,
         Current(i)', Outcome(i)'
  PROVE  Claims'
<1> USE DEF IInv, Typed, TypeOK
<1>1. ~(i > made)
  BY DEF PhasesOK
<1>2. FirstAlone'
  <2>1. made # 0
    BY <1>1
  <2>2. CASE i = Dispatched
    <3>1. phase[Dispatched] \in Working \cup {"waiting"} => made = 1
      BY DEF Quiet, FirstAlone
    <3>2. phase'[Dispatched] \in Working => made = 1
      BY <2>2, <3>1 DEF Current, Engaged
    <3> QED BY <2>1, <2>2, <3>2 DEF FirstAlone
  <2>3. CASE i # Dispatched
    <3>1. phase'[Dispatched] = phase[Dispatched]
      BY <2>3
    <3>2. phase[Dispatched] \notin Working \cup {"waiting", "parked"}
      BY <1>1, <2>3 DEF Quiet, FirstAlone
    <3> QED BY <2>1, <3>1, <3>2 DEF FirstAlone
  <2> QED BY <2>2, <2>3
<1>3. ASSUME NEW j \in Instances, j # i PROVE Current(j)' /\ Outcome(j)'
  <2>1. phase'[j] = phase[j] /\ status'[j] = status[j] /\ Current(j) /\ Outcome(j)
    BY <1>3 DEF Quiet
  <2> QED BY <2>1 DEF Current, Outcome, Engaged
<1>4. RunningOnDiskIsDriven'
  BY DEF RunningOnDiskIsDriven
<1> QED BY <1>2, <1>3, <1>4 DEF Claims, KillerCounted, Quiet

LEMMA StepClaims ==
  ASSUME IInv, mishaps = 0, NEW i \in Instances, Step(i) PROVE Claims'
<1> USE DEF IInv, Typed, TypeOK
<1>1. /\ phase \in [Instances -> Phases] /\ status \in [Instances -> Statuses]
      /\ Current(i) /\ Outcome(i)
      /\ i = Dispatched /\ phase[i] \in Working => file \in {"none", "running"}
      /\ i = Dispatched /\ phase[i] = "waiting" => file = "none"
  BY DEF PhasesOK, Quiet, FirstAlone
<1>2. phase[i] \in Tasks /\ up' /\ UNCHANGED <<killer, registry, made, mishaps>>
  BY DEF Step, Permit, Begin, Think, Ask, Answer, Call, Noted, Exhaust, Fail, End, Unwind, Tell, Move,
         Leave, tables, cancellation, faults
<1>3. ASSUME MidSave(i), phase[i] \in Working
      PROVE  i = Dispatched => file' = "running"
  BY <1>1, <1>3 DEF MidSave, Current
<1>4. CASE Permit(i)
  BY <1>1, <1>2, <1>4, MoveClaims DEF Permit, Move, Current, Outcome, Engaged, disk
<1>5. CASE Begin(i) \/ Think(i) \/ Call(i)
  <2>1. /\ phase[i] \in Working /\ phase'[i] \in Working /\ UNCHANGED <<file, status>>
        /\ \A j \in Instances \ {i} : phase'[j] = phase[j]
    BY <1>1, <1>5 DEF Begin, Think, Call, Move, disk
  <2> QED BY <1>1, <1>2, <2>1, MoveClaims DEF Current, Outcome, Engaged
<1>6. CASE Noted(i) \/ \E k \in 1..GroupSize : Ask(i, k)
  <2>1. /\ phase[i] \in Working /\ phase'[i] \in Working /\ status' = status /\ MidSave(i)
        /\ \A j \in Instances \ {i} : phase'[j] = phase[j]
    BY <1>1, <1>6 DEF Noted, Ask, Move
  <2> QED BY <1>1, <1>2, <1>3, <2>1, MoveClaims DEF Current, Outcome, Engaged
<1>7. CASE Answer(i) \/ Exhaust(i) \/ Fail(i)
  <2>1. /\ phase[i] \in Working
        /\ \A j \in Instances \ {i} : phase'[j] = phase[j] /\ status'[j] = status[j]
        /\ \/ phase'[i] = "completing" /\ status'[i] = "completed"
           \/ phase'[i] = "failing" /\ status'[i] = "failed"
    BY <1>1, <1>7 DEF Answer, Exhaust, Fail, Move
  <2> QED BY <1>1, <1>2, <2>1, MoveClaims DEF Current, Outcome, Engaged
<1>8. CASE End(i) \/ Unwind(i) \/ Tell(i)
  <2>1. /\ phase'[i] \in {"gone", "telling"} /\ status' = status /\ file' # "running"
        /\ \A j \in Instances \ {i} : phase'[j] = phase[j]
    BY <1>1, <1>8 DEF End, Unwind, Tell, Leave, Raised, Move, Outcome
  <2> QED BY <1>1, <1>2, <2>1, MoveClaims DEF Current, Outcome, Engaged
<1> QED BY <1>4, <1>5, <1>6, <1>7, <1>8 DEF Step

LEMMA ProcessClaims ==
  ASSUME IInv, mishaps = 0, Crash \/ Boot PROVE Claims'
<1> USE DEF IInv, Typed, TypeOK
<1>1. CASE Crash
  <2>1. /\ up' = FALSE /\ killer' = None /\ UNCHANGED <<made, file, mishaps>>
        /\ \A i \in Instances : phase'[i] \in {"none", "gone"}
    BY <1>1 DEF Crash, Gone, disk
  <2>2. FirstAlone' /\ \A i \in Instances : Current(i)' /\ Outcome(i)'
    BY <2>1 DEF FirstAlone, Current, Outcome, Engaged, Quiet
  <2> QED BY <2>1, <2>2 DEF Claims, KillerCounted, Quiet, RunningOnDiskIsDriven
<1>2. CASE Boot
  <2>1. /\ UNCHANGED <<killer, made, registry, mishaps, phase, status>> /\ file' # "running"
        /\ file = "none" => file' = "none"
    BY <1>2 DEF Boot, tables, cancellation, faults
  <2>2. \A i \in Instances : phase[i] \notin Tasks /\ Current(i) /\ Outcome(i)
    BY <1>2 DEF Boot, PhasesOK, Quiet
  <2>3. FirstAlone'
    BY <2>1, <2>2 DEF FirstAlone, Quiet
  <2>4. \A i \in Instances : Current(i)' /\ Outcome(i)'
    BY <2>1, <2>2 DEF Current, Outcome, Engaged
  <2> QED BY <2>1, <2>3, <2>4 DEF Claims, KillerCounted, Quiet, RunningOnDiskIsDriven
<1> QED BY <1>1, <1>2

-----------------------------------------------------------------------------
LEMMA NextInvariant == IInv /\ [Next]_vars => IInv'
<1> SUFFICES ASSUME IInv, [Next]_vars PROVE IInv'
  OBVIOUS
<1>1. Typed /\ Claims
  BY DEF IInv, Claims
<1>2. CASE UNCHANGED vars
  <2>1. UNCHANGED <<file, saved, up, made, registry, slot, killer, abandon, status, phase, kept,
                    asked, got, crashes, mishaps, ran, repeated>>
    BY <1>2 DEF vars, disk, tables, cancellation, transcript, faults, history
  <2>2. Typed'
    BY <1>1, <2>1 DEF Typed, TypeOK, PhasesOK, TranscriptOK, Grouped
  <2>3. Claims'
    BY <1>1, <2>1 DEF Claims, KillerCounted, Quiet, FirstAlone, Current, Outcome, Engaged,
                      RunningOnDiskIsDriven
  <2> QED BY <2>2, <2>3 DEF IInv, Claims
<1>3. CASE Next
  <2>1. Typed'
    BY <1>1, <1>3, DispatchTypes, ResumeTypes, CancelTypes, StepTypes, PublicationTypes,
       ProcessTypes DEF Next, User
  <2>2. CASE mishaps' > 0
    BY <2>1, <2>2, MishapClaims DEF IInv, Claims
  <2>3. CASE ~(mishaps' > 0)
    <3>1. mishaps = 0 /\ mishaps' = 0
      BY <1>1, <1>3, <2>3, MishapsGrow
    <3>2. /\ ~Stop /\ ~Interrupt /\ \A b \in BOOLEAN : ~Mark(b)
          /\ \A i \in Instances : ~PublicationFails(i)
      BY <1>1, <3>1 DEF Stop, Interrupt, Mark, PublicationFails, Claims, KillerCounted
    <3>3. Claims'
      BY <1>3, <3>1, <3>2, DispatchClaims, ResumeClaims, AbandonClaims, StepClaims,
         ProcessClaims DEF Next, User
    <3> QED BY <2>1, <3>3 DEF IInv, Claims
  <2> QED BY <2>2, <2>3
<1> QED BY <1>2, <1>3

THEOREM Invariance == Spec => []IInv
BY InitInvariant, NextInvariant, PTL DEF Spec

(* The types hold (state.py:25-36, spawn.py:59-83).                        *)
THEOREM TypeCorrect == Spec => []TypeOK
<1>1. IInv => TypeOK
  BY DEF IInv, Typed
<1> QED BY <1>1, Invariance, PTL

(* Without mishaps one instance at most works on the run, however many     *)
(* resumptions and crashes there are (spawn.py:111-117).                   *)
THEOREM SingleWorker == Spec => []OneWorker
<1>1. IInv => OneWorker
  BY DEF IInv, Quiet, OneWorker, Current, Engaged
<1> QED BY <1>1, Invariance, PTL

(* And what the disk calls running has a task (spawn.py:96-99,             *)
(* state.py:193-207).                                                      *)
THEOREM Driven == Spec => []RunningOnDiskIsDriven
<1>1. IInv => RunningOnDiskIsDriven
  BY DEF IInv
<1> QED BY <1>1, Invariance, PTL

-----------------------------------------------------------------------------
(* Whoever can still save has an outcome to save himself.                  *)
LEMMA SettledStep ==
  ASSUME IInv, Next, mishaps' = 0, file \in Settled PROVE file' \in Settled \cup {"none"}
<1> USE DEF IInv, Typed, TypeOK
<1>1. mishaps = 0
  BY MishapsGrow
<1>2. phase[Dispatched] \notin Working
  BY <1>1 DEF Quiet, FirstAlone
<1>3. ASSUME NEW i \in Instances, Step(i) PROVE file' \in Settled \cup {"none"}
  <2>1. Outcome(i)
    BY <1>1 DEF Quiet
  <2>2. CASE End(i) \/ Unwind(i) \/ Tell(i)
    BY <2>1, <2>2 DEF End, Unwind, Tell, Leave, Raised, Outcome
  <2>3. CASE Noted(i) \/ Answer(i) \/ Exhaust(i) \/ \E k \in 1..GroupSize : Ask(i, k)
    <3>1. MidSave(i) /\ phase[i] \in Working
      BY <2>3 DEF Noted, Answer, Exhaust, Ask, Move
    <3> QED BY <1>2, <3>1 DEF MidSave, disk
  <2>4. CASE Permit(i) \/ Begin(i) \/ Think(i) \/ Call(i) \/ Fail(i)
    BY <2>4 DEF Permit, Begin, Think, Call, Fail, disk
  <2> QED BY <1>3, <2>2, <2>3, <2>4 DEF Step
<1>4. CASE Dispatch \/ AbandonIdle \/ \E b \in BOOLEAN : Resume(b) \/ Mark(b)
  BY <1>4 DEF Dispatch, AbandonIdle, Forget, Resume, Mark, disk
<1>5. CASE Interrupt
  BY <1>5 DEF Interrupt, Forget, disk
<1>6. ASSUME NEW i \in Instances, PublicationFails(i) PROVE FALSE
  BY <1>1, <1>6 DEF PublicationFails
<1>7. CASE Crash \/ Stop \/ Boot
  BY <1>1, <1>7 DEF Crash, Stop, Boot, disk
<1> QED BY <1>3, <1>4, <1>5, <1>6, <1>7 DEF Next, User

(* An outcome on disk is never taken back without a mishap, however many   *)
(* instances there were (state.py:198, spawn.py:146).                      *)
THEOREM Settling == Spec => SettledStaysSettled
<1>1. IInv /\ [Next]_vars => [mishaps' = 0 /\ file \in Settled => file' \in Settled \cup {"none"}]_vars
  BY SettledStep
<1> QED BY <1>1, Invariance, PTL DEF Spec, SettledStaysSettled

-----------------------------------------------------------------------------
(* What a step does to the transcript: it makes one call, closes a group,  *)
(* or leaves the calls made so far as they are.                            *)
Work(i) == kept[i] + got[i]

LEMMA Numbers ==
  ASSUME Typed, NEW i \in Instances
  PROVE  /\ kept[i] \in Nat /\ got[i] \in Nat /\ asked[i] \in Nat /\ got[i] <= asked[i]
         /\ Work(i) \in Nat /\ Paired(i) \in Nat /\ saved \in Nat
         /\ kept[i] <= Paired(i) /\ Paired(i) <= Work(i)
<1>1. /\ kept[i] \in Nat /\ got[i] \in Nat /\ asked[i] \in Nat /\ got[i] <= asked[i]
      /\ saved \in Nat
  BY DEF Typed, TypeOK, TranscriptOK
<1> QED BY <1>1 DEF Work, Paired

CallsOnce(i) == /\ kept'[i] = kept[i] /\ got'[i] = got[i] + 1 /\ asked'[i] = asked[i]
                /\ UNCHANGED disk
                /\ phase[i] = "calling" /\ phase'[i] = "called" /\ got[i] < asked[i]
                /\ ran' = ran \cup {Work(i) + 1}
                /\ repeated' = IF Work(i) + 1 \in ran THEN repeated \cup {Work(i) + 1}
                                                      ELSE repeated
Regroups(i) == /\ UNCHANGED history
               /\ \/ kept'[i] = kept[i] /\ got'[i] = got[i]
                  \/ kept'[i] = kept[i] + got[i] /\ got'[i] = 0 /\ got[i] = asked[i]
               /\ asked'[i] \in {asked[i], 0} \cup 1..GroupSize

LEMMA StepWork ==
  ASSUME Typed, NEW i \in Instances, Step(i)
  PROVE  /\ \A j \in Instances \ {i} : /\ kept'[j] = kept[j] /\ got'[j] = got[j]
                                       /\ asked'[j] = asked[j] /\ phase'[j] = phase[j]
         /\ CallsOnce(i) \/ Regroups(i)
<1>1. /\ kept \in [Instances -> 0..MaxCalls] /\ asked \in [Instances -> 0..MaxCalls]
      /\ got \in [Instances -> 0..MaxCalls] /\ phase \in [Instances -> Phases]
  BY DEF Typed, TypeOK, TranscriptOK, PhasesOK
<1> DEFINE Rest == \A j \in Instances \ {i} : /\ kept'[j] = kept[j] /\ got'[j] = got[j]
                                              /\ asked'[j] = asked[j] /\ phase'[j] = phase[j]
<1>2. CASE \/ Permit(i) \/ Begin(i) \/ Think(i) \/ Answer(i) \/ Fail(i) \/ End(i)
           \/ Unwind(i) \/ Tell(i)
  <2>1. UNCHANGED <<transcript, history>> /\ \E p : phase' = [phase EXCEPT ![i] = p]
    BY <1>2 DEF Permit, Begin, Think, Answer, Fail, End, Unwind, Tell, Leave, Move
  <2>2. Rest
    BY <1>1, <2>1 DEF transcript
  <2>3. Regroups(i)
    BY <2>1 DEF Regroups, transcript
  <2> QED BY <2>2, <2>3
<1>3. CASE Call(i)
  <2>1. /\ got' = [got EXCEPT ![i] = got[i] + 1] /\ UNCHANGED <<kept, asked>>
        /\ phase' = [phase EXCEPT ![i] = "called"] /\ phase[i] = "calling"
        /\ got[i] < asked[i]
    BY <1>3 DEF Call, Move, Typed, Grouped
  <2>2. Rest
    BY <1>1, <2>1
  <2>3. CallsOnce(i)
    BY <1>1, <1>3, <2>1 DEF Call, CallsOnce, Work
  <2> QED BY <2>2, <2>3
<1>4. ASSUME CloseGroup(i), got[i] = asked[i], UNCHANGED history,
             NEW p, phase' = [phase EXCEPT ![i] = p]
      PROVE  Rest /\ Regroups(i)
  <2>1. /\ kept' = [kept EXCEPT ![i] = kept[i] + got[i]]
        /\ asked' = [asked EXCEPT ![i] = 0] /\ got' = [got EXCEPT ![i] = 0]
    BY <1>4 DEF CloseGroup, Paired
  <2>2. Rest
    BY <1>1, <1>4, <2>1
  <2>3. Regroups(i)
    BY <1>1, <1>4, <2>1 DEF Regroups
  <2> QED BY <2>2, <2>3
<1>5. CASE Exhaust(i)
  BY <1>4, <1>5 DEF Exhaust, Move
<1>6. CASE Noted(i)
  <2>1. CASE got[i] = asked[i] /\ Move(i, "called", "thinking") /\ CloseGroup(i)
    BY <1>4, <1>6, <2>1 DEF Noted, Move
  <2>2. CASE Move(i, "called", "calling") /\ UNCHANGED transcript
    <3>1. Rest
      BY <1>1, <2>2 DEF Move, transcript
    <3>2. Regroups(i)
      BY <1>6, <2>2 DEF Noted, Regroups, transcript
    <3> QED BY <3>1, <3>2
  <2> QED BY <1>6, <2>1, <2>2 DEF Noted
<1>7. ASSUME NEW k \in 1..GroupSize, Ask(i, k) PROVE Rest /\ Regroups(i)
  <2>1. /\ asked' = [asked EXCEPT ![i] = k] /\ UNCHANGED <<kept, got, history>>
        /\ phase' = [phase EXCEPT ![i] = "calling"]
    BY <1>7 DEF Ask, Move
  <2>2. Rest
    BY <1>1, <2>1
  <2>3. Regroups(i)
    BY <1>1, <2>1 DEF Regroups
  <2> QED BY <2>2, <2>3
<1> QED BY <1>2, <1>3, <1>5, <1>6, <1>7 DEF Step

(* What a step leaves of the snapshot.                                     *)
LEMMA StepSaves ==
  ASSUME Typed, NEW i \in Instances, Step(i)
  PROVE  saved' = saved \/ saved' = 0 \/ (MidSave(i) /\ phase[i] \in Working)
BY DEF Step, Permit, Begin, Think, Ask, Answer, Call, Noted, Exhaust, Fail, End, Unwind, Tell, Leave,
       Move, disk

-----------------------------------------------------------------------------
(* No call is skipped.                                                     *)
LEMMA InitSkips == Init => NothingSkipped
<1> SUFFICES ASSUME Init PROVE NothingSkipped
  OBVIOUS
<1>1. saved = 0 /\ \A i \in Instances : kept[i] + got[i] = 0
  BY DEF Init
<1> QED BY <1>1 DEF NothingSkipped

LEMMA StepSkips ==
  ASSUME Typed, NothingSkipped, NEW i \in Instances, Step(i) PROVE NothingSkipped'
<1>1. /\ kept[i] \in Nat /\ got[i] \in Nat /\ Work(i) \in Nat /\ Paired(i) \in Nat
      /\ Paired(i) <= Work(i) /\ saved \in Nat
  BY Numbers
<1>2. /\ 1..saved \subseteq ran /\ 1..Work(i) \subseteq ran
      /\ \A j \in Instances : 1..(kept[j] + got[j]) \subseteq ran
  BY DEF NothingSkipped, Work
<1>3. ran \subseteq ran' /\ 1..(kept'[i] + got'[i]) \subseteq ran'
  <2>1. CASE CallsOnce(i)
    <3>1. kept'[i] + got'[i] = Work(i) + 1
      BY <1>1, <2>1 DEF CallsOnce, Work
    <3>2. 1..(Work(i) + 1) = (1..Work(i)) \cup {Work(i) + 1}
      BY <1>1
    <3> QED BY <1>2, <2>1, <3>1, <3>2 DEF CallsOnce
  <2>2. CASE Regroups(i)
    <3>1. kept'[i] + got'[i] = Work(i)
      BY <1>1, <2>2 DEF Regroups, Work
    <3> QED BY <1>2, <2>2, <3>1 DEF Regroups, history
  <2> QED BY <2>1, <2>2, StepWork
<1>4. 1..saved' \subseteq ran
  <2>1. CASE saved' = saved \/ saved' = 0
    BY <1>2, <2>1
  <2>2. CASE MidSave(i)
    <3>1. saved' = Paired(i) \/ saved' = saved
      BY <2>2 DEF MidSave, disk
    <3>2. 1..Paired(i) \subseteq 1..Work(i)
      BY <1>1
    <3> QED BY <1>2, <3>1, <3>2
  <2> QED BY <2>1, <2>2, StepSaves
<1>5. ASSUME NEW j \in Instances PROVE 1..(kept'[j] + got'[j]) \subseteq ran'
  <2>1. CASE j = i
    BY <1>3, <2>1
  <2>2. CASE j # i
    BY <1>2, <1>3, <2>2, StepWork
  <2> QED BY <2>1, <2>2
<1> QED BY <1>3, <1>4, <1>5 DEF NothingSkipped

LEMMA NextSkips == Typed /\ NothingSkipped /\ [Next]_vars => NothingSkipped'
<1> SUFFICES ASSUME Typed, NothingSkipped, [Next]_vars PROVE NothingSkipped'
  OBVIOUS
<1>1. ASSUME NEW b \in BOOLEAN, Resume(b) PROVE NothingSkipped'
  <2> DEFINE i == made + 1
  <2>1. /\ i \in Instances /\ kept' = [kept EXCEPT ![i] = saved]
        /\ UNCHANGED <<saved, got, ran>>
    BY <1>1 DEF Resume, disk, history
  <2>2. got[i] = 0 /\ saved \in Nat /\ kept \in [Instances -> 0..MaxCalls]
    <3>1. phase[i] = "none"
      BY <2>1 DEF Typed, TypeOK, PhasesOK
    <3> QED BY <2>1, <3>1 DEF Typed, TypeOK, TranscriptOK, Grouped
  <2>3. ASSUME NEW j \in Instances PROVE 1..(kept'[j] + got[j]) \subseteq ran
    <3>1. CASE j = i
      BY <2>1, <2>2, <3>1 DEF NothingSkipped
    <3>2. CASE j # i
      BY <2>1, <2>2, <3>2 DEF NothingSkipped
    <3> QED BY <3>1, <3>2
  <2> QED BY <2>1, <2>3 DEF NothingSkipped
<1>2. CASE Gone /\ saved' \in {saved, 0}
  <2>1. /\ ran' = ran /\ \A j \in Instances : kept'[j] + got'[j] = 0
    BY <1>2 DEF Gone, history
  <2> QED BY <1>2, <2>1 DEF NothingSkipped
<1>3. CASE UNCHANGED <<transcript, ran>> /\ saved' \in {saved, 0}
  <2>1. 1..saved' \subseteq ran
    BY <1>3 DEF NothingSkipped
  <2> QED BY <1>3, <2>1 DEF NothingSkipped, transcript
<1>4. CASE Crash \/ Stop
  BY <1>2, <1>4 DEF Crash, Stop, disk
<1>5. CASE \/ Dispatch \/ AbandonIdle \/ Interrupt \/ Boot \/ UNCHANGED vars
           \/ (\E b \in BOOLEAN : Mark(b)) \/ (\E i \in Instances : PublicationFails(i))
  BY <1>3, <1>5 DEF Dispatch, AbandonIdle, Forget, Interrupt, Boot, Mark, PublicationFails, Leave,
                    vars, disk, history
<1> QED BY <1>1, <1>4, <1>5, StepSkips DEF Next, User

(* A resumption skips no call, whatever is interrupted, cancelled or lost  *)
(* (instance.py:32-50, spawn.py:182-196).                                  *)
THEOREM Complete == Spec => []NothingSkipped
<1>1. IInv => Typed
  BY DEF IInv
<1> QED BY <1>1, InitSkips, NextSkips, Invariance, PTL DEF Spec

-----------------------------------------------------------------------------
(* What the first resumption repeats.  While the dispatched instance is    *)
(* alone nothing is repeated, and the checkpoint lags behind the calls by  *)
(* the group under way; the second instance starts from s, and repeats     *)
(* what was executed beyond it.                                            *)
Groups == \A i \in Instances : asked[i] <= GroupSize

SavedFirst == /\ made = 0 => saved = 0 /\ kept[Dispatched] = 0
              /\ phase[Dispatched] \in Working \cup {"waiting"} => saved = kept[Dispatched]

Alone == made <= 1 =>
           /\ repeated = {}
           /\ made = 0 => ran = {}
           /\ phase[Dispatched] \in Tasks => ran \subseteq 1..Work(Dispatched)
           /\ file \in Alive => ran \subseteq 1..(saved + GroupSize)

Second(s) == /\ repeated \subseteq (s + 1)..(s + GroupSize)
             /\ phase[2] # "gone" => /\ s <= kept[2]
                                     /\ ran \subseteq 1..(s + GroupSize) \cup 1..Work(2)

Resumed == made = 2 => \E s \in Nat : Second(s)

Repeats == Groups /\ (mishaps = 0 => SavedFirst /\ Alone /\ Resumed)

LEMMA GroupsKept == Typed /\ Groups /\ [Next]_vars => Groups'
<1> SUFFICES ASSUME Typed, Groups, [Next]_vars PROVE Groups'
  OBVIOUS
<1>1. GroupSize \in Nat \ {0}
  OBVIOUS
<1>2. ASSUME NEW i \in Instances, Step(i), NEW j \in Instances PROVE asked'[j] <= GroupSize
  <2>1. asked[j] \in Nat /\ asked[j] <= GroupSize
    BY Numbers DEF Groups
  <2>2. asked'[j] \in {asked[j], 0} \cup 1..GroupSize
    BY <1>2, StepWork DEF Regroups, CallsOnce
  <2> QED BY <1>1, <2>1, <2>2
<1>3. CASE asked' = asked
  BY <1>3 DEF Groups
<1>4. CASE Gone
  BY <1>4 DEF Gone, Groups
<1>5. CASE \/ User \/ Interrupt \/ Boot \/ UNCHANGED vars
           \/ (\E i \in Instances : PublicationFails(i))
  BY <1>3, <1>5 DEF User, Dispatch, AbandonIdle, Interrupt, Boot, Mark, Resume, PublicationFails,
                    Leave, vars, transcript
<1> QED BY <1>2, <1>4, <1>5 DEF Next, Crash, Stop, Groups

(* The saves of the first instance keep up with its groups.                *)
LEMMA FirstCalls ==
  ASSUME IInv, mishaps = 0, Repeats, CallsOnce(Dispatched), made = 1, made' = 1
  PROVE  SavedFirst' /\ Alone'
<1> DEFINE k == kept[Dispatched]
           w == Work(Dispatched)
<1>1. /\ Dispatched \in Instances /\ GroupSize \in Nat
      /\ k \in Nat /\ got[Dispatched] \in Nat /\ asked[Dispatched] \in Nat /\ w \in Nat
      /\ asked[Dispatched] <= GroupSize /\ w = k + got[Dispatched] /\ saved \in Nat
  BY Numbers DEF IInv, Repeats, Groups, Work, Instances
<1>2. /\ kept'[Dispatched] = k /\ got'[Dispatched] = got[Dispatched] + 1
      /\ saved' = saved /\ file' = file
      /\ phase[Dispatched] = "calling" /\ phase'[Dispatched] = "called"
      /\ got[Dispatched] < asked[Dispatched] /\ ran' = ran \cup {w + 1}
      /\ repeated' = IF w + 1 \in ran THEN repeated \cup {w + 1} ELSE repeated
  BY DEF CallsOnce, disk
<1>3. saved = k /\ ran \subseteq 1..w /\ repeated = {}
  BY <1>2 DEF Repeats, SavedFirst, Alone
<1>4. repeated' = {}
  BY <1>1, <1>2, <1>3
<1>5. Work(Dispatched)' = w + 1
  BY <1>1, <1>2 DEF Work
<1> HIDE DEF k, w
<1>6. ran' \subseteq 1..(w + 1)
  <2>1. w \in Nat
    BY <1>1
  <2>2. 1..(w + 1) = (1..w) \cup {w + 1}
    BY <2>1
  <2> QED BY <1>2, <1>3, <2>2
<1>7. w + 1 <= saved + GroupSize
  <2> DEFINE g == got[Dispatched]
             a == asked[Dispatched]
  <2>1. /\ g \in Nat /\ a \in Nat /\ k \in Nat /\ GroupSize \in Nat
        /\ g < a /\ a <= GroupSize /\ w = k + g /\ saved = k
    BY <1>1, <1>2, <1>3
  <2> HIDE DEF g, a
  <2> QED BY <2>1
<1>8. ran' \subseteq 1..(saved + GroupSize)
  BY <1>1, <1>6, <1>7
<1>9. SavedFirst'
  BY <1>2, <1>3 DEF SavedFirst, k
<1>10. Alone'
  BY <1>2, <1>4, <1>5, <1>6, <1>8 DEF Alone
<1> QED BY <1>9, <1>10

(* What a step that makes no call does to the disk.                        *)
LEMMA FirstSaves ==
  ASSUME IInv, mishaps = 0, Repeats, Step(Dispatched), Regroups(Dispatched), made = 1
  PROVE  \/ /\ UNCHANGED disk /\ kept'[Dispatched] = kept[Dispatched]
            /\ phase'[Dispatched] \in Working => phase[Dispatched] \in Working \cup {"waiting"}
         \/ /\ saved' = Paired(Dispatched) /\ file' = "running"
            /\ phase'[Dispatched] \in Working => kept'[Dispatched] = Paired(Dispatched)
         \/ file' \notin Alive /\ phase'[Dispatched] \notin Working \cup {"waiting"}
<1> USE DEF IInv
<1>1. /\ Dispatched \in Instances
      /\ phase \in [Instances -> Phases] /\ kept \in [Instances -> 0..MaxCalls]
      /\ got \in [Instances -> 0..MaxCalls] /\ asked \in [Instances -> 0..MaxCalls]
  BY DEF Typed, TypeOK, TranscriptOK, PhasesOK
<1>2. /\ Outcome(Dispatched)
      /\ phase[Dispatched] \in Working => status[Dispatched] = "running"
  BY <1>1 DEF Quiet, Current
<1>3. CASE Permit(Dispatched) \/ Begin(Dispatched) \/ Think(Dispatched) \/ Fail(Dispatched)
  BY <1>1, <1>3 DEF Permit, Begin, Think, Fail, Move, transcript
<1>4. CASE Answer(Dispatched)
  BY <1>1, <1>2, <1>4 DEF Answer, Move, MidSave
<1>5. CASE Call(Dispatched)
  <2>1. phase[Dispatched] = "calling" /\ got'[Dispatched] = got[Dispatched] + 1 /\ kept' = kept
    BY <1>1, <1>5 DEF Call, Move
  <2>2. got[Dispatched] \in Nat /\ got[Dispatched] < asked[Dispatched] /\ asked[Dispatched] \in Nat
    BY <1>1, <2>1 DEF Typed, Grouped
  <2> QED BY <1>1, <2>1, <2>2 DEF Regroups
<1>6. CASE Noted(Dispatched)
  <2>1. saved' = Paired(Dispatched) /\ file' = "running"
    BY <1>2, <1>6 DEF Noted, Move, MidSave
  <2>2. CASE got[Dispatched] < asked[Dispatched] /\ UNCHANGED transcript
    <3>1. kept'[Dispatched] = kept[Dispatched] /\ got[Dispatched] # asked[Dispatched]
      BY <1>1, <2>2 DEF transcript
    <3> QED BY <2>1, <3>1 DEF Paired
  <2>3. CASE CloseGroup(Dispatched)
    BY <1>1, <2>1, <2>3 DEF CloseGroup
  <2> QED BY <1>6, <2>2, <2>3 DEF Noted
<1>7. CASE Exhaust(Dispatched)
  BY <1>1, <1>2, <1>7 DEF Exhaust, Move, MidSave
<1>8. CASE End(Dispatched)
  BY <1>1, <1>2, <1>8 DEF End, Leave, Raised, Outcome
<1>9. CASE Unwind(Dispatched)
  BY <1>2, <1>9 DEF Unwind, Outcome
<1>10. CASE Tell(Dispatched)
  BY <1>1, <1>10 DEF Tell, Move
<1>11. ASSUME NEW n \in 1..GroupSize, Ask(Dispatched, n)
       PROVE  /\ saved' = Paired(Dispatched) /\ file' = "running"
              /\ kept'[Dispatched] = Paired(Dispatched)
  <2>1. phase[Dispatched] = "thought" /\ kept' = kept /\ MidSave(Dispatched)
    BY <1>11 DEF Ask, Move
  <2>2. got[Dispatched] = 0 /\ asked[Dispatched] = 0 /\ kept[Dispatched] \in Nat
    BY <1>1, <2>1 DEF Typed, Grouped
  <2> QED BY <1>2, <2>1, <2>2 DEF MidSave, Paired
<1> QED BY <1>3, <1>4, <1>5, <1>6, <1>7, <1>8, <1>9, <1>10, <1>11 DEF Step

LEMMA FirstStep ==
  ASSUME IInv, mishaps = 0, Repeats, Step(Dispatched), made = 1
  PROVE  SavedFirst' /\ Alone'
<1> DEFINE w == Work(Dispatched)
<1>1. made' = 1 /\ Dispatched \in Instances /\ Typed /\ GroupSize \in Nat
  BY StepPhases DEF IInv
<1>2. /\ w \in Nat /\ saved \in Nat /\ asked[Dispatched] \in Nat /\ got[Dispatched] \in Nat
      /\ kept[Dispatched] \in Nat /\ Paired(Dispatched) \in Nat
      /\ got[Dispatched] <= asked[Dispatched] /\ asked[Dispatched] <= GroupSize
      /\ kept[Dispatched] <= Paired(Dispatched) /\ w = kept[Dispatched] + got[Dispatched]
  BY <1>1, Numbers DEF Repeats, Groups, Work
<1>3. /\ SavedFirst /\ Alone
      /\ phase[Dispatched] \in Tasks
  BY DEF Repeats, Step, Permit, Begin, Think, Ask, Answer, Call, Noted, Exhaust, Fail, End, Unwind,
         Tell, Move
<1>4. repeated = {} /\ ran \subseteq 1..w
  BY <1>3 DEF Alone
<1>5. CASE CallsOnce(Dispatched)
  BY <1>1, <1>5, FirstCalls
<1>6. CASE Regroups(Dispatched)
  <2>1. ran' = ran /\ repeated' = {} /\ Work(Dispatched)' = w
    BY <1>2, <1>4, <1>6 DEF Regroups, Work, history
  <2>2. phase'[Dispatched] # "waiting"
    BY <1>1 DEF Step, Permit, Begin, Think, Ask, Answer, Call, Noted, Exhaust, Fail, End, Unwind,
                Tell, Move, Leave, Raised, Typed, TypeOK, PhasesOK
  <2>3. CASE /\ UNCHANGED disk /\ kept'[Dispatched] = kept[Dispatched]
             /\ phase'[Dispatched] \in Working => phase[Dispatched] \in Working \cup {"waiting"}
    BY <1>1, <1>3, <1>4, <2>1, <2>2, <2>3 DEF SavedFirst, Alone, disk
  <2>4. CASE /\ saved' = Paired(Dispatched) /\ file' = "running"
             /\ phase'[Dispatched] \in Working => kept'[Dispatched] = Paired(Dispatched)
    <3>1. ran \subseteq 1..(Paired(Dispatched) + GroupSize)
      <4>1. w <= Paired(Dispatched) + GroupSize
        BY <1>1, <1>2
      <4> HIDE DEF w
      <4> QED BY <1>1, <1>2, <1>4, <4>1
    <3> QED BY <1>1, <1>4, <2>1, <2>2, <2>4, <3>1 DEF SavedFirst, Alone
  <2>5. CASE file' \notin Alive /\ phase'[Dispatched] \notin Working \cup {"waiting"}
    BY <1>1, <1>4, <2>1, <2>5 DEF SavedFirst, Alone
  <2> QED BY <1>6, <2>3, <2>4, <2>5, FirstSaves
<1> QED BY <1>1, <1>5, <1>6, StepWork

(* Once there is a second instance, the first one has stopped working.     *)
LEMMA FirstOver ==
  ASSUME IInv, mishaps = 0, made >= 2 PROVE SavedFirst /\ phase[Dispatched] # "calling"
<1>1. made # 0 /\ made # 1 /\ FirstAlone
  BY DEF IInv, Quiet, Typed, TypeOK
<1> QED BY <1>1 DEF FirstAlone, SavedFirst

(* The second instance repeats what the first one executed beyond s, and   *)
(* nothing after that.                                                     *)
LEMMA SecondStep ==
  ASSUME IInv, mishaps = 0, Repeats, made = 2, NEW i \in {1, 2}, i \in Instances, Step(i),
         2 \in Instances, NEW s \in Nat, Second(s)
  PROVE  Second(s)'
<1>1. Typed /\ GroupSize \in Nat
  BY DEF IInv
<1>2. /\ kept[2] \in Nat /\ got[2] \in Nat /\ Work(2) \in Nat /\ Work(2) = kept[2] + got[2]
  BY <1>1, Numbers DEF Work
<1>3. CASE i = 1
  <2>1. Regroups(1)
    BY <1>1, <1>3, FirstOver, StepWork DEF CallsOnce
  <2>2. UNCHANGED history /\ kept'[2] = kept[2] /\ got'[2] = got[2] /\ phase'[2] = phase[2]
    BY <1>1, <1>3, <2>1, StepWork DEF Regroups
  <2> QED BY <2>2 DEF Second, Work, history
<1>4. phase[2] # "gone" \/ i = 1
  BY <1>1 DEF Step, Permit, Begin, Think, Ask, Answer, Call, Noted, Exhaust, Fail, End, Unwind,
              Tell, Move
<1>5. CASE i = 2 /\ CallsOnce(2)
  <2> DEFINE c == Work(2) + 1
  <2>1. s <= kept[2] /\ ran \subseteq 1..(s + GroupSize) \cup 1..Work(2)
    BY <1>4, <1>5 DEF Second
  <2>2. /\ ran' = ran \cup {c} /\ repeated' = IF c \in ran THEN repeated \cup {c} ELSE repeated
        /\ kept'[2] = kept[2] /\ got'[2] = got[2] + 1
    BY <1>5 DEF CallsOnce
  <2>3. Work(2)' = c
    BY <1>2, <2>2 DEF Work
  <2>4. c \in Nat /\ s < c /\ c \notin 1..Work(2) /\ 1..c = 1..Work(2) \cup {c}
    BY <1>2, <2>1
  <2> HIDE DEF c
  <2>5. c \in ran => c \in (s + 1)..(s + GroupSize)
    BY <1>1, <2>1, <2>4
  <2>6. repeated' \subseteq (s + 1)..(s + GroupSize)
    BY <2>2, <2>5 DEF Second
  <2>7. ran' \subseteq 1..(s + GroupSize) \cup 1..c
    BY <2>1, <2>2, <2>4
  <2> QED BY <2>1, <2>2, <2>3, <2>6, <2>7 DEF Second
<1>6. CASE i = 2 /\ Regroups(2)
  <2>1. UNCHANGED history /\ kept'[2] >= kept[2] /\ Work(2)' = Work(2) /\ kept'[2] \in Nat
    BY <1>2, <1>6 DEF Regroups, Work
  <2>2. s <= kept[2] /\ ran \subseteq 1..(s + GroupSize) \cup 1..Work(2)
    BY <1>4, <1>6 DEF Second
  <2>3. s <= kept'[2]
    BY <1>2, <2>1, <2>2
  <2> QED BY <2>1, <2>2, <2>3 DEF Second, history
<1> QED BY <1>1, <1>3, <1>5, <1>6, StepWork

LEMMA RepeatsKept ==
  IInv /\ IInv' /\ Repeats /\ [Next]_vars => Repeats'
<1> SUFFICES ASSUME IInv, IInv', Repeats, [Next]_vars, mishaps' = 0
             PROVE  SavedFirst' /\ Alone' /\ Resumed'
  BY GroupsKept DEF IInv, Repeats
<1>1. /\ Typed /\ made \in Nat /\ made \in 0..MaxInstances /\ GroupSize \in Nat /\ saved \in Nat
      /\ phase \in [Instances -> Phases] /\ kept \in [Instances -> 0..MaxCalls]
      /\ Dispatched \in Instances
  <2>1. Typed /\ TypeOK /\ GroupSize \in Nat /\ MaxInstances \in Nat \ {0} /\ MaxCalls \in Nat
    BY DEF IInv, Typed
  <2>2. made \in 0..MaxInstances /\ saved \in 0..MaxCalls /\ PhasesOK /\ TranscriptOK
    BY <2>1 DEF TypeOK
  <2> QED BY <2>1, <2>2 DEF PhasesOK, TranscriptOK
<1>2. mishaps = 0
  BY <1>1 DEF Next, User, Dispatch, AbandonIdle, Interrupt, Boot, Mark, Resume, PublicationFails,
              Leave, vars, faults, Crash, Stop, Typed, TypeOK, Step, Permit, Begin, Think, Ask,
              Answer, Call, Noted, Exhaust, Fail, End, Unwind, Tell, Move
<1>3. SavedFirst /\ Alone /\ Resumed /\ killer = None
  BY <1>2 DEF Repeats, IInv, KillerCounted
<1>4. ASSUME NEW i \in Instances, Step(i) PROVE SavedFirst' /\ Alone' /\ Resumed'
  <2>1. made' = made /\ i <= made /\ made >= 1
    BY <1>1, <1>4, StepPhases
  <2>2. CASE made = 1
    <3>1. i = Dispatched
      BY <2>1, <2>2
    <3> QED BY <1>2, <1>4, <2>1, <2>2, <3>1, FirstStep DEF Resumed
  <2>3. CASE made >= 2
    <3>1. SavedFirst' /\ Alone'
      <4>1. made' >= 2 /\ made' # 0 /\ made' # 1 /\ FirstAlone'
        BY <1>1, <2>1, <2>3 DEF IInv, Quiet
      <4> QED BY <1>1, <2>1, <2>3, <4>1 DEF FirstAlone, SavedFirst, Alone
    <3>2. CASE made = 2
      <4>1. i \in {1, 2} /\ 2 \in Instances
        BY <1>1, <2>1, <3>2
      <4>2. PICK s \in Nat : Second(s)
        BY <1>3, <3>2 DEF Resumed
      <4>3. Second(s)'
        BY <1>2, <1>4, <3>2, <4>1, <4>2, SecondStep
      <4> QED BY <3>1, <4>3 DEF Resumed
    <3> QED BY <2>1, <3>1, <3>2 DEF Resumed
  <2> QED BY <1>1, <2>1, <2>2, <2>3
<1>5. ASSUME NEW b \in BOOLEAN, Resume(b) PROVE SavedFirst' /\ Alone' /\ Resumed'
  <2>1. /\ made' = made + 1 /\ made' \in Instances /\ made' # 1 /\ file \in Alive
        /\ kept' = [kept EXCEPT ![made'] = saved] /\ UNCHANGED history
        /\ phase' = [phase EXCEPT ![made'] = IF b THEN "waiting" ELSE "parked"]
    BY <1>5 DEF Resume, Resumable
  <2>2. made' >= 2 /\ FirstAlone'
    BY <1>1, <1>2, <2>1 DEF IInv, Quiet
  <2>3. SavedFirst' /\ Alone'
    BY <1>1, <2>1, <2>2 DEF FirstAlone, SavedFirst, Alone
  <2>4. ASSUME made' = 2 PROVE Second(saved)'
    <3>1. 2 \in Instances /\ made = 1
      BY <1>1, <2>1, <2>4
    <3>2. got[2] = 0
      <4>1. 2 > made
        BY <3>1
      <4>2. phase[2] = "none"
        BY <1>1, <3>1, <4>1 DEF Typed, TypeOK, PhasesOK
      <4> QED BY <1>1, <3>1, <4>2 DEF Typed, Grouped
    <3>3. /\ saved' = saved /\ kept'[2] = saved /\ ran' = ran /\ repeated' = repeated
      BY <1>1, <1>5, <2>1, <2>4, <3>1 DEF Resume, disk, history
    <3>4. repeated = {} /\ ran \subseteq 1..(saved + GroupSize)
      BY <1>3, <2>1, <3>1 DEF Alone
    <3> QED BY <1>1, <3>3, <3>4 DEF Second
  <2>5. ASSUME made' = 2 PROVE \E s \in Nat : Second(s)'
    <3>1. Second(saved)'
      BY <2>4, <2>5
    <3>2. saved' = saved
      BY <1>5 DEF Resume, disk
    <3> QED BY <1>1, <3>1, <3>2
  <2> QED BY <2>3, <2>5 DEF Resumed
<1>6. CASE Dispatch
  <2>1. made = 0 /\ made' = 1 /\ UNCHANGED <<disk, transcript, history>> /\ repeated = {} /\ ran = {}
    BY <1>3, <1>6 DEF Dispatch, Alone
  <2> QED BY <1>3, <2>1 DEF SavedFirst, Alone, Resumed, disk, transcript, history
<1>7. CASE AbandonIdle
  <2>1. /\ file # "none" /\ file' = "none" /\ saved' = 0
        /\ UNCHANGED <<made, phase, transcript, history>>
        /\ up /\ ~Busy
    BY <1>7 DEF AbandonIdle, Forget, history
  <2>2. made # 0 /\ phase[Dispatched] \notin Working \cup {"waiting"}
    <3>1. FirstAlone /\ Current(Dispatched)
      BY <1>1, <1>2 DEF IInv, Quiet
    <3> QED BY <2>1, <3>1 DEF FirstAlone, Current, Busy, Engaged
  <2> QED BY <1>3, <2>1, <2>2 DEF SavedFirst, Alone, Resumed, Second, Work, transcript, history
<1>8. CASE Crash
  <2>1. /\ saved' = saved /\ file' = file /\ made' = made
        /\ ran' = ran /\ repeated' = repeated
        /\ \A j \in Instances : /\ kept'[j] = 0 /\ phase'[j] \in {"none", "gone"}
                                /\ phase'[j] = "none" => phase[j] = "none"
    BY <1>8 DEF Crash, Gone, disk, history
  <2>2. ASSUME made = 2, NEW s \in Nat, Second(s) PROVE Second(s)'
    <3>1. 2 \in Instances /\ ~(2 > made)
      BY <1>1, <2>2
    <3>2. phase[2] # "none"
      BY <1>1, <3>1 DEF Typed, TypeOK, PhasesOK
    <3>3. phase'[2] = "gone" /\ repeated' = repeated
      BY <2>1, <3>1, <3>2
    <3> QED BY <2>2, <3>3 DEF Second
  <2>3. Resumed'
    BY <1>3, <2>1, <2>2 DEF Resumed
  <2>4. /\ made' = made /\ saved' = saved /\ file' = file /\ ran' = ran /\ repeated' = repeated
        /\ kept'[Dispatched] = 0 /\ phase'[Dispatched] \notin Tasks
    BY <1>1, <2>1
  <2>5. SavedFirst' /\ Alone'
    BY <1>3, <2>4 DEF SavedFirst, Alone
  <2> QED BY <2>3, <2>5
<1>9. CASE Boot
  <2>1. /\ file' \in Alive => file \in Alive
        /\ UNCHANGED <<saved, made, phase, transcript, history>>
    BY <1>9 DEF Boot, tables
  <2> QED BY <1>3, <2>1 DEF SavedFirst, Alone, Resumed, Second, Work, transcript, history
<1>10. CASE UNCHANGED vars
  BY <1>3, <1>10 DEF vars, SavedFirst, Alone, Resumed, Second, Work, disk, tables, transcript, history
<1>11. ~Interrupt /\ ~Stop /\ ~(\E b \in BOOLEAN : Mark(b))
       /\ ~(\E i \in Instances : PublicationFails(i))
  BY <1>2, <1>3 DEF Interrupt, Stop, Mark, PublicationFails
<1> QED BY <1>4, <1>5, <1>6, <1>7, <1>8, <1>9, <1>10, <1>11 DEF Next, User

LEMMA InitRepeats == Init => Repeats
<1> SUFFICES ASSUME Init PROVE Repeats
  OBVIOUS
<1>1. /\ GroupSize \in Nat /\ Dispatched \in Instances
      /\ \A i \in Instances : asked[i] = 0 /\ kept[i] = 0 /\ phase[i] = "none"
  BY DEF Init
<1> QED BY <1>1 DEF Init, Repeats, Groups, SavedFirst, Alone, Resumed

(* The first resumption repeats at most the group of calls that was under  *)
(* way (instance.py:32-50, 266-283).                                       *)
THEOREM RepeatsFew == Spec => []RepeatsBounded
<1>1. Repeats => RepeatsBounded
  <2> SUFFICES ASSUME Repeats, mishaps = 0, made = 2 PROVE Cardinality(repeated) <= GroupSize
    BY DEF RepeatsBounded
  <2>1. PICK s \in Nat : repeated \subseteq (s + 1)..(s + GroupSize)
    BY DEF Repeats, Resumed, Second
  <2>2. GroupSize \in Nat /\ s + 1 \in Int /\ s + GroupSize \in Int
        /\ (s + GroupSize) - (s + 1) + 1 = GroupSize
    OBVIOUS
  <2>3. /\ IsFiniteSet((s + 1)..(s + GroupSize))
        /\ Cardinality((s + 1)..(s + GroupSize)) = GroupSize
    <3>1. s + 1 <= s + GroupSize
      OBVIOUS
    <3> QED BY <2>2, <3>1, FS_Interval
  <2> QED BY <2>1, <2>3, FS_Subset
<1>2. IInv /\ IInv' /\ Repeats /\ [Next]_vars => Repeats'
  BY RepeatsKept
<1> QED BY <1>1, <1>2, InitRepeats, Invariance, PTL DEF Spec
=============================================================================
