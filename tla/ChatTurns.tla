----------------------------- MODULE ChatTurns ------------------------------
(***************************************************************************)
(* The conversation of the agent: Master.handle_user_message and its turn  *)
(* tasks (agent/master/master.py), the arbiter, and the chat instance they *)
(* drive through Spawner, Scheduler and SubagentInstance.run_turn.         *)
(*                                                                         *)
(* The event loop hands in one message at a time.  A message that finds    *)
(* the chat RUNNING goes to the inbox, or to a judge (an LLM call, so an   *)
(* await) that may merge it into the chat's history; any other message     *)
(* starts a turn task.  Turn tasks take a lock in turn, and the one that   *)
(* holds it also works off the inbox before it lets go.  cancel_run stops  *)
(* the chat in two halves with a publication in between.                   *)
(*                                                                         *)
(* A message is its number, in the order of arrival; a chat instance is    *)
(* its generation.  0 is no message and no instance.                       *)
(***************************************************************************)
EXTENDS Naturals, Sequences, FiniteSets, Functions

CONSTANTS Modes,         \* agent.arbiter.mode: queue, or judge (auto and guide)
          Routes,        \* agent.direct_chat: direct, or chat
          MaxConcurrent, \* permits of the Scheduler
          MaxMessages,   \* bound: messages that arrive
          MaxMishaps     \* bound: cancel_run calls and turns that fail to start

ASSUME ModesAssumption == Modes \subseteq {"queue", "judge"} /\ Modes # {}
ASSUME RoutesAssumption == Routes \subseteq {"direct", "chat"} /\ Routes # {}
ASSUME MaxConcurrentAssumption == MaxConcurrent \in Nat \ {0}
ASSUME MaxMessagesAssumption == MaxMessages \in Nat
ASSUME MaxMishapsAssumption == MaxMishaps \in Nat

VARIABLES
  arrived,   \* number of messages the event loop has dispatched
  (* handle_user_message *)
  judged,    \* message whose verdict is awaited
  judgedFor, \* the chat instance that was running then
  inbox,     \* Master._inbox
  (* the turn tasks *)
  waiters,   \* tasks that wait for Master._lock: their messages
  subject,   \* message the holder of the lock works on
  step,      \* where the holder of the lock is
  (* the chat instance *)
  chat,      \* Master._chat: its generation
  status,    \* its RunStatus
  fed,       \* messages merged into its history that no turn has read yet
  (* around it *)
  others,    \* permits that background runs hold
  killer,    \* instance a cancel_run has marked, and not interrupted yet
  mishaps,
  (* history *)
  answered, read, lost,  \* had a turn; were read by another turn; neither
  excused                \* messages left in the inbox when nobody works it off

handler == <<arrived, judged, judgedFor>>
turn == <<subject, step>>
instance == <<chat, status>>
outcome == <<answered, read, lost>>
vars == <<handler, inbox, waiters, turn, instance, fed, others, killer, mishaps,
          outcome, excused>>

None == 0
Messages == 1..MaxMessages

Statuses == {"none", "pending", "running", "waiting", "failed", "cancelled"}
Alive == {"running", "waiting"}

(* direct: the one LLM call of a direct answer; permit: waits for a permit; *)
(* starting: RUNNING, publishes RunStarted; running: the ReAct rounds;      *)
(* replying: the turn is over, its reply is being published.                *)
Steps == {"idle", "direct", "permit", "starting", "running", "replying"}
Registered == step \in {"starting", "running", "replying"}  \* in Scheduler._tasks

PermitsTaken == others + (IF Registered THEN 1 ELSE 0)

Init == /\ arrived = 0
        /\ judged = None /\ judgedFor = None
        /\ inbox = <<>> /\ waiters = <<>>
        /\ subject = None /\ step = "idle"
        /\ chat = None /\ status = "none" /\ fed = {}
        /\ others = 0
        /\ killer = None /\ mishaps = 0
        /\ answered = {} /\ read = {} /\ lost = {} /\ excused = {}

-----------------------------------------------------------------------------
(* handle_user_message *)

Receive(m, mode) ==
  CASE status = "running" /\ mode = "queue" ->
         inbox' = Append(inbox, m) /\ UNCHANGED <<judged, judgedFor, waiters>>
    [] status = "running" /\ mode = "judge" ->
         judged' = m /\ judgedFor' = chat /\ UNCHANGED <<inbox, waiters>>
    [] OTHER ->
         waiters' = Append(waiters, m) /\ UNCHANGED <<judged, judgedFor, inbox>>

Arrive(mode) ==
  /\ judged = None
  /\ arrived < MaxMessages
  /\ arrived' = arrived + 1
  /\ Receive(arrived + 1, mode)
  /\ UNCHANGED <<turn, instance, fed, others, killer, mishaps, outcome, excused>>

(* merge: fed to the instance of before the await, current or not *)
Merge == /\ judged # None
         /\ judged' = None /\ judgedFor' = None
         /\ IF judgedFor = chat
            THEN fed' = fed \cup {judged} /\ UNCHANGED lost
            ELSE lost' = lost \cup {judged} /\ UNCHANGED fed
         /\ UNCHANGED <<arrived, inbox, waiters, turn, instance, others, killer, mishaps,
                        answered, read, excused>>

(* enqueue, enqueue_notify: nobody checks that a turn still runs *)
Enqueue == /\ judged # None
           /\ judged' = None /\ judgedFor' = None
           /\ inbox' = Append(inbox, judged)
           /\ excused' = IF step = "idle" THEN excused \cup {judged} ELSE excused
           /\ UNCHANGED <<arrived, waiters, turn, instance, fed, others, killer, mishaps,
                          outcome>>

(* the judge's LLM call raises: the event loop drops the event *)
JudgeFails == /\ judged # None
              /\ judged' = None /\ judgedFor' = None
              /\ lost' = lost \cup {judged}
              /\ UNCHANGED <<arrived, inbox, waiters, turn, instance, fed, others, killer,
                             mishaps, answered, read, excused>>

-----------------------------------------------------------------------------
(* The turn task: _run and _turn, Spawner.start, Scheduler.run, run_turn *)

(* run_turn up to its first await: the messages of the round are built *)
Run(unread) == /\ step' = "starting"
               /\ status' = "running"
               /\ read' = read \cup unread
               /\ fed' = {}

(* mutant: one permit too many *)
MutantFree == others <= MaxConcurrent

Free == others < MaxConcurrent

(* _turn up to its first await.  The permit of the previous turn may go to *)
(* a background run that was waiting for it.                               *)
Turn(m) ==
  /\ subject' = m
  /\ \/ /\ "direct" \in Routes
        /\ step' = "direct"
        /\ UNCHANGED <<instance, fed, others, read, lost>>
     \/ /\ "chat" \in Routes
        /\ LET unread == IF status \in Alive THEN fed ELSE {} IN
           /\ chat' = IF status \in Alive THEN chat ELSE chat + 1
           /\ lost' = lost \cup (fed \ unread)
           /\ \/ Free /\ Run(unread) /\ UNCHANGED others
              \/ /\ ~Free \/ Registered
                 /\ step' = "permit"
                 /\ others' = IF Free THEN others + 1 ELSE others
                 /\ status' = IF status \in Alive THEN status ELSE "pending"
                 /\ fed' = unread
                 /\ UNCHANGED read

Acquire == /\ step = "idle" /\ waiters # <<>>
           /\ waiters' = Tail(waiters)
           /\ Turn(Head(waiters))
           /\ UNCHANGED <<handler, inbox, killer, mishaps, answered, excused>>

(* mutant: a run that was cancelled during the wait does not go on *)
MutantPermit == /\ step = "permit" /\ status # "cancelled"
                /\ Free
                /\ Run(fed)
                /\ UNCHANGED <<handler, inbox, waiters, subject, chat, others, killer,
                               mishaps, answered, lost, excused>>

(* RUNNING, whatever happened to the instance during the wait *)
Permit == /\ step = "permit"
          /\ Free
          /\ Run(fed)
          /\ UNCHANGED <<handler, inbox, waiters, subject, chat, others, killer, mishaps,
                         answered, lost, excused>>

Started == /\ step = "starting"
           /\ step' = "running"
           /\ UNCHANGED <<handler, inbox, waiters, subject, instance, fed, others, killer,
                          mishaps, outcome, excused>>

Complete == /\ step = "running"
            /\ step' = "replying"
            /\ status' = "waiting"
            /\ UNCHANGED <<handler, inbox, waiters, subject, chat, fed, others, killer,
                           mishaps, outcome, excused>>

(* mutant: the task ends without a look at the inbox *)
MutantDrain == /\ step' = "idle" /\ subject' = None
               /\ UNCHANGED <<inbox, instance, fed, others, read, lost>>

(* mutant: the task peeks at the inbox *)
MutantPeek ==
  IF inbox = <<>>
  THEN /\ step' = "idle" /\ subject' = None
       /\ UNCHANGED <<inbox, instance, fed, others, read, lost>>
  ELSE Turn(Head(inbox)) /\ UNCHANGED inbox

(* while self._inbox, else the lock is released *)
Drain ==
  IF inbox = <<>>
  THEN /\ step' = "idle" /\ subject' = None
       /\ UNCHANGED <<inbox, instance, fed, others, read, lost>>
  ELSE Turn(Head(inbox)) /\ inbox' = Tail(inbox)

(* the reply is published: the turn is over *)
Replied == /\ step \in {"direct", "replying"}
           /\ answered' = answered \cup {subject}
           /\ Drain
           /\ UNCHANGED <<handler, waiters, killer, mishaps, excused>>

(* The task dies: the lock is released, the inbox stays as it is *)
Die == /\ step' = "idle" /\ subject' = None
       /\ lost' = lost \cup {subject}
       /\ excused' = excused \cup Range(inbox)

(* mutant: a failed turn leaves the status as it is *)
MutantFail == /\ step \in {"direct", "running", "replying"}
              /\ Die
              /\ UNCHANGED <<handler, inbox, waiters, chat, status, fed, others, killer,
                             mishaps, answered, read>>

(* an LLM call raises, or the publication of the reply *)
Fail == /\ step \in {"direct", "running", "replying"}
        /\ Die
        /\ status' = IF step = "running" THEN "failed" ELSE status
        /\ UNCHANGED <<handler, inbox, waiters, chat, fed, others, killer, mishaps,
                       answered, read>>

(* publishing RunStarted raises, outside the try: the status stays RUNNING *)
StartFails == /\ step = "starting"
              /\ mishaps < MaxMishaps
              /\ mishaps' = mishaps + 1
              /\ Die
              /\ UNCHANGED <<handler, inbox, waiters, instance, fed, others, killer,
                             answered, read>>

-----------------------------------------------------------------------------
(* Spawner.cancel: the status, then AgentCancelled is published, then the   *)
(* task that is registered under the instance by then is interrupted        *)

Mark == /\ killer = None /\ status \in Alive
        /\ mishaps < MaxMishaps
        /\ mishaps' = mishaps + 1
        /\ killer' = chat
        /\ status' = "cancelled"
        /\ UNCHANGED <<handler, inbox, waiters, turn, chat, fed, others, outcome, excused>>

Interrupt == /\ killer # None
             /\ killer' = None
             /\ IF Registered /\ killer = chat
                THEN Die
                ELSE UNCHANGED <<turn, lost, excused>>
             /\ UNCHANGED <<handler, inbox, waiters, instance, fed, others, mishaps,
                            answered, read>>

(* Background runs come and go; permits are given first come first served *)
Occupy == /\ PermitsTaken < MaxConcurrent /\ step # "permit"
          /\ others' = others + 1
          /\ UNCHANGED <<handler, inbox, waiters, turn, instance, fed, killer, mishaps,
                         outcome, excused>>

Release == /\ others > 0
           /\ others' = others - 1
           /\ UNCHANGED <<handler, inbox, waiters, turn, instance, fed, killer, mishaps,
                          outcome, excused>>

-----------------------------------------------------------------------------
Judge == Merge \/ Enqueue \/ JudgeFails
Task == Acquire \/ Permit \/ Started \/ Complete \/ Replied \/ Fail

Next == \/ \E mode \in Modes : Arrive(mode)
        \/ Judge \/ Task \/ StartFails
        \/ Mark \/ Interrupt
        \/ Occupy \/ Release

(* LLM calls, publications and background runs end; ready tasks run.        *)
Fairness == WF_vars(Judge) /\ WF_vars(Task) /\ WF_vars(Interrupt) /\ WF_vars(Release)

Spec == Init /\ [][Next]_vars
FairSpec == Spec /\ Fairness

-----------------------------------------------------------------------------
(* The state keeps its shape; the lock has a holder exactly while a message *)
(* is worked on, and no more runs than permits are under way.               *)
TypeOK == /\ arrived \in 0..MaxMessages
          /\ judged \in 0..arrived /\ judgedFor \in 0..chat
          /\ inbox \in Seq(1..arrived) /\ waiters \in Seq(1..arrived)
          /\ subject \in 0..arrived
          /\ step \in Steps
          /\ step = "idle" <=> subject = None
          /\ chat \in Nat /\ status \in Statuses
          /\ others \in 0..MaxConcurrent
          /\ PermitsTaken <= MaxConcurrent
          /\ killer \in 0..chat
          /\ mishaps \in 0..MaxMishaps
          /\ \A S \in {fed, answered, read, lost, excused} : S \subseteq 1..arrived

(* Every place a message can be in. *)
Places == << Range(inbox), Range(waiters), {judged} \ {None}, {subject} \ {None},
             fed, answered, read, lost >>

(* Every message that arrived is in exactly one place, once: none vanishes *)
(* unaccounted for, and none is handled twice (master.py:117-141).         *)
MessagesConserved ==
  /\ UNION Range(Places) = 1..arrived
  /\ \A i, k \in DOMAIN Places : i # k => Places[i] \cap Places[k] = {}
  /\ IsInjective(inbox) /\ IsInjective(waiters)

(* A chat that says RUNNING is being run: unless a cancel_run or a failing *)
(* start interferes, messages are never queued for a turn that nobody      *)
(* works on, although a turn may fail (master.py:118, instance.py:156).    *)
RunningIsDriven ==
  mishaps = 0 /\ status = "running" => step \in {"starting", "running"}

(* When no turn task is at work, the inbox holds only messages whose turn  *)
(* task died (master.py:142) or whose verdict came after the last turn     *)
(* ended (master.py:120-124).                                              *)
StrandedOnlyByCrack ==
  mishaps = 0 /\ step = "idle" => Range(inbox) \subseteq excused

(* Every message gets its turn or is read by another, is lost, sits in the *)
(* chat's history for the next turn, or is stranded in the inbox of a      *)
(* master that is idle.                                                    *)
MessagesSettle ==
  \A m \in Messages :
    m <= arrived ~> \/ m \in answered \cup read \cup lost \cup fed
                    \/ m \in Range(inbox) /\ step = "idle"

(* docs/architecture.md:873: messages are handled in their order, so a turn *)
(* never starts for a message while an older one waits.                     *)
HandledInOrder ==
  [][subject' # subject /\ subject' # None
       => \A m \in Range(inbox') \cup Range(waiters') : subject' < m]_vars
=============================================================================
