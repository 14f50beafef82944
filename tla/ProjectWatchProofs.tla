-------------------------- MODULE ProjectWatchProofs --------------------------
(***************************************************************************)
(* Proofs about ProjectWatch, for any sessions, deleters and bounds: its   *)
(* types, that the database is never deleted under a worker, and, where    *)
(* the UI does not delete, that the two watches agree.                     *)
(***************************************************************************)
EXTENDS ProjectWatch, TLAPS

\* The parts of the types, one per variable or group.
CountersOK == done \in [change : Nat \ {0}, root : Nat, ask : Nat, watch : Nat, fail : Nat]
TreeOK == /\ tree \in Content /\ tree[1] # 0
          /\ root \in {"present", "missing", "uncertain"}
JobOK == /\ job \in [at : {"none", "linked", "running", "read"}, cancel : BOOLEAN,
                     askers : SUBSET Session, owners : SUBSET Session, waiter : BOOLEAN,
                     read : Content, late : BOOLEAN]
         /\ job.at = "read" => job.read[1] # 0
         /\ db \in Content
         /\ subs \subseteq Session
StateOK == state \in [Watches -> [done : BOOLEAN, git : BOOLEAN, head : Nat, sig : Nat,
                                  missing : 0 .. MissingRootDeleteAfter]]
PollOK == /\ poll \in [at : {"idle", "stat", "base", "head", "sig", "changed", "wait", "commit",
                             "prune", "pruning", "pruned", "unprune"},
                       watch : 0 .. MaxWatch, head : Nat, sig : Nat]
          /\ table \in 0 .. MaxWatch
          /\ poll.at # "idle" => poll.watch \in Watches
MutationOK == mutation \in {"none", "prune", "ui", "tool"}

\* The reservation keeps the worker out, and the job that the poll thread
\* waits for is the one that has it as a waiter.
Reserved == /\ mutation # "none" => job.at \in {"none", "linked"}
            /\ poll.at \in {"pruning", "pruned", "unprune"} <=> mutation = "prune"
            /\ job.waiter <=> poll.at = "wait"
            /\ job.waiter => job.at # "none"

IInv == CountersOK /\ TreeOK /\ JobOK /\ StateOK /\ PollOK /\ MutationOK /\ Reserved

LEMMA Bounds == /\ MaxChange \in Nat /\ MaxRoot \in Nat /\ MaxAsk \in Nat
                /\ MaxWatch \in Nat /\ MaxFail \in Nat
  BY BoundsAssumption

LEMMA InitIInv == Init => IInv
<1>1. SUFFICES ASSUME Init PROVE IInv
  OBVIOUS
<1>2. CountersOK /\ TreeOK /\ MutationOK
  BY <1>1 DEF Init, CountersOK, TreeOK, MutationOK, Content
<1>3. JobOK
  BY <1>1 DEF Init, JobOK, Content, NoJob, None
<1>4. StateOK
  BY <1>1 DEF Init, StateOK, NewState, MissingRootDeleteAfter
<1>5. PollOK /\ Reserved
  BY <1>1, Bounds DEF Init, PollOK, Reserved, Idle, NoJob
<1>6. QED BY <1>2, <1>3, <1>4, <1>5 DEF IInv

-------------------------------------------------------------------------------
(* Every step keeps the types.  A lemma per variable. *)

LEMMA CountersStep == IInv /\ [Next]_vars => CountersOK'
<1>1. SUFFICES ASSUME IInv, [Next]_vars PROVE CountersOK'
  OBVIOUS
<1>2. \/ UNCHANGED done \/ Count("change") \/ Count("root") \/ Count("ask")
      \/ Count("watch") \/ Count("fail")
  BY <1>1 DEF Next, vars, Poll, Job, Edit, Commit, MoveRoot, Refresh, Leave, Ask, JobStart, JobRead,
     JobSucceed, JobFail, PollBegin, Stat, Base, CheckHead, CheckSig, CallIndex, CommitBaseline,
     PruneBegin, PruneDelete, PruneCallback, PruneEnd, DeleteBegin, Delete, DeleteEnd
<1>3. QED BY <1>1, <1>2 DEF IInv, CountersOK, Count

LEMMA TreeStep == IInv /\ [Next]_vars => TreeOK'
<1>1. SUFFICES ASSUME IInv, [Next]_vars PROVE TreeOK'
  OBVIOUS
<1>2. \/ UNCHANGED env
      \/ Edit \/ Commit \/ MoveRoot
  BY <1>1 DEF Next, vars, Poll, Job, Refresh, Leave, Ask, JobStart, JobRead, env,
     JobSucceed, JobFail, Publish, PollBegin, Stat, Base, CheckHead, CheckSig, CallIndex, CommitBaseline,
     PruneBegin, PruneDelete, PruneCallback, PruneEnd, DeleteBegin, Delete, DeleteEnd
<1>3. QED BY <1>1, <1>2 DEF IInv, CountersOK, TreeOK, Content, env, Edit, Commit, MoveRoot

LEMMA JobStep == IInv /\ [Next]_vars => JobOK'
<1>1. SUFFICES ASSUME IInv, [Next]_vars PROVE JobOK'
  OBVIOUS
<1>2. JobOK /\ TreeOK /\ Reserved
  BY <1>1 DEF IInv
<1>3. CASE UNCHANGED <<job, db, subs>>
  BY <1>2, <1>3 DEF JobOK
<1>4. ASSUME NEW s \in Session, Refresh(s) PROVE JobOK'
  <2>1. /\ db' = db /\ subs' \subseteq Session
        /\ \/ job' = job
           \/ job' = [job EXCEPT !.owners = @ \cup {s}]
           \/ Unsubscribe({}, Session)
    BY <1>2, <1>4 DEF JobOK, Refresh, RemoveWatch
  <2>2. CASE Unsubscribe({}, Session)
    BY <1>2, <2>1, <2>2 DEF JobOK, Unsubscribe
  <2>3. CASE job' = job
    BY <1>2, <2>1, <2>3 DEF JobOK
  <2>4. CASE job' = [job EXCEPT !.owners = @ \cup {s}]
    BY <1>2, <2>1, <2>4 DEF JobOK
  <2>5. QED BY <2>1, <2>2, <2>3, <2>4
<1>5. ASSUME NEW s \in Session, Leave(s) PROVE JobOK'
  BY <1>2, <1>5 DEF JobOK, Leave, Unsubscribe
<1>6. ASSUME NEW s \in Session, Ask(s) PROVE JobOK'
  BY <1>2, <1>6 DEF JobOK, Ask
<1>7. CASE JobStart \/ JobRead
  BY <1>2, <1>7 DEF JobOK, TreeOK, JobStart, JobRead
<1>8. CASE JobSucceed \/ JobFail
  <2>1. job' = NoJob /\ db' \in {db, job.read} /\ subs' = subs
    BY <1>8 DEF JobSucceed, JobFail, Publish
  <2>2. QED BY <1>2, <2>1 DEF JobOK, NoJob, None, Content
<1>9. CASE CallIndex
  <2>1. UNCHANGED <<db, subs>>
    BY <1>9 DEF CallIndex
  <2>2. CASE job' = job
    BY <1>2, <2>1, <2>2 DEF JobOK
  <2>3. CASE job' = [job EXCEPT !.owners = @ \cup subs, !.waiter = TRUE,
                                !.at = IF @ = "none" THEN "linked" ELSE @,
                                !.late = (job.at = "read")]
    <3>1. (job.at = "read") \in BOOLEAN
      OBVIOUS
    <3>2. QED BY <1>2, <2>1, <2>3, <3>1 DEF JobOK
  <2>4. QED BY <1>9, <2>2, <2>3 DEF CallIndex
<1>10. CASE PruneDelete \/ Delete
  BY <1>2, <1>10 DEF JobOK, PruneDelete, Delete, None, Content
<1>11. CASE PruneCallback
  BY <1>2, <1>11 DEF JobOK, PruneCallback, Unsubscribe
<1>12. QED
  BY <1>1, <1>3, <1>4, <1>5, <1>6, <1>7, <1>8, <1>9, <1>10, <1>11
  DEF Next, vars, Poll, Job, Edit, Commit, MoveRoot, PollBegin, Stat, Base, CheckHead, CheckSig,
      CommitBaseline, PruneBegin, PruneEnd, DeleteBegin, DeleteEnd

LEMMA StateStep == IInv /\ [Next]_vars => StateOK'
<1>1. SUFFICES ASSUME IInv, [Next]_vars PROVE StateOK'
  OBVIOUS
<1>2. StateOK /\ TreeOK /\ PollOK
  BY <1>1 DEF IInv
<1>3. CASE UNCHANGED state
  BY <1>2, <1>3 DEF StateOK
<1>4. CASE Stat
  <2>1. poll.watch \in Watches
    BY <1>2, <1>4 DEF PollOK, Stat
  <2>2. state[poll.watch].missing \in 0 .. 3
    BY <1>2, <2>1 DEF StateOK, MissingRootDeleteAfter
  <2>3. UNCHANGED state \/ \E n \in 0 .. 3 : SetMissing(n)
    BY <1>4, <2>2 DEF Stat, MissingRootDeleteAfter
  <2>4. QED BY <1>2, <2>3 DEF StateOK, SetMissing, MissingRootDeleteAfter
<1>5. CASE Base
  <2>1. \/ state' = state
        \/ state' = [state EXCEPT ![poll.watch].done = TRUE, ![poll.watch].git = FALSE]
        \/ state' = [state EXCEPT ![poll.watch].done = TRUE, ![poll.watch].git = TRUE]
        \/ state' = [state EXCEPT ![poll.watch].done = TRUE, ![poll.watch].git = TRUE,
                                  ![poll.watch].head = tree[1]]
    BY <1>5 DEF Base
  <2>2. tree[1] \in Nat
    BY <1>2 DEF TreeOK, Content
  <2>3. CASE state' = state
    BY <1>2, <2>3 DEF StateOK
  <2>4. CASE state' = [state EXCEPT ![poll.watch].done = TRUE, ![poll.watch].git = FALSE]
    BY <1>2, <2>4 DEF StateOK
  <2>5. CASE state' = [state EXCEPT ![poll.watch].done = TRUE, ![poll.watch].git = TRUE]
    BY <1>2, <2>5 DEF StateOK
  <2>6. CASE state' = [state EXCEPT ![poll.watch].done = TRUE, ![poll.watch].git = TRUE,
                                   ![poll.watch].head = tree[1]]
    BY <1>2, <2>2, <2>6 DEF StateOK
  <2>7. QED BY <2>1, <2>3, <2>4, <2>5, <2>6
<1>6. CASE CheckHead
  BY <1>2, <1>6 DEF StateOK, TreeOK, Content, CheckHead
<1>7. CASE CommitBaseline
  BY <1>2, <1>7 DEF StateOK, PollOK, CommitBaseline
<1>8. QED
  BY <1>1, <1>3, <1>4, <1>5, <1>6, <1>7
  DEF Next, vars, watcher, Poll, Job, Edit, Commit, MoveRoot, Refresh, Leave, Ask, JobStart, JobRead,
      JobSucceed, JobFail, Publish, PollBegin, CheckSig, CallIndex,
      PruneBegin, PruneDelete, PruneCallback, PruneEnd, DeleteBegin, Delete, DeleteEnd

LEMMA PollStep == IInv /\ [Next]_vars => PollOK'
<1>1. SUFFICES ASSUME IInv, [Next]_vars PROVE PollOK'
  OBVIOUS
<1>2. PollOK /\ TreeOK /\ CountersOK /\ Reserved
  BY <1>1 DEF IInv
<1>3. CASE UNCHANGED <<poll, table>>
  BY <1>2, <1>3 DEF PollOK
<1>4. ASSUME NEW s \in Session, Refresh(s) \/ Leave(s) PROVE PollOK'
  <2>1. poll' = poll /\ table' \in 0 .. MaxWatch
    BY <1>2, <1>4, Bounds DEF PollOK, CountersOK, Refresh, Leave, RemoveWatch, Unregister, watcher
  <2>2. QED BY <1>2, <2>1 DEF PollOK
<1>5. CASE JobSucceed \/ JobFail
  <2>1. /\ table' = table
        /\ poll' \in {poll, Idle} \/ (job.waiter /\ poll' = [poll EXCEPT !.at = "commit"])
    BY <1>5 DEF JobSucceed, JobFail, Publish, watcher
  <2>2. QED BY <1>2, <2>1, Bounds DEF PollOK, Reserved, Idle
<1>6. CASE PollBegin
  <2>1. table \in Watches
    BY <1>2, <1>6, Bounds DEF PollOK, PollBegin, Watches
  <2>2. /\ table' = table
        /\ poll' = [at |-> "stat", watch |-> table, head |-> 0, sig |-> 0]
    BY <1>6 DEF PollBegin, Idle, watcher
  <2>3. QED BY <1>2, <2>1, <2>2 DEF PollOK, Watches
<1>7. CASE CheckHead
  <2>1. /\ table' = table /\ tree[1] \in Nat /\ poll.at # "idle"
        /\ \/ poll' = [poll EXCEPT !.at = "sig", !.head = tree[1]]
           \/ poll' = [poll EXCEPT !.at = "sig"]
           \/ poll' = Idle
    BY <1>2, <1>7 DEF CheckHead, Goto, TreeOK, Content
  <2>2. poll.watch \in Watches
    BY <1>2, <2>1 DEF PollOK
  <2>3. CASE poll' = Idle
    BY <1>2, <2>1, <2>3, Bounds DEF PollOK, Idle
  <2>4. CASE poll' # Idle
    BY <1>2, <2>1, <2>2, <2>4 DEF PollOK
  <2>5. QED BY <2>3, <2>4
<1>8. CASE CheckSig
  <2>1. /\ table' = table /\ tree[2] \in Nat /\ poll.at # "idle"
        /\ poll' = [poll EXCEPT !.at = "changed", !.sig = tree[2]] \/ poll' = Idle
    BY <1>2, <1>8 DEF CheckSig, Goto, watcher, TreeOK, Content
  <2>2. poll.watch \in Watches
    BY <1>2, <2>1 DEF PollOK
  <2>3. CASE poll' = Idle
    BY <1>2, <2>1, <2>3, Bounds DEF PollOK, Idle
  <2>4. CASE poll' # Idle
    BY <1>2, <2>1, <2>2, <2>4 DEF PollOK
  <2>5. QED BY <2>3, <2>4
<1>9. CASE Stat \/ Base
  BY <1>2, <1>9, Bounds DEF PollOK, Stat, Base, Goto, Idle
<1>10. CASE CallIndex \/ CommitBaseline \/ PruneBegin
  BY <1>2, <1>10, Bounds DEF PollOK, CallIndex, CommitBaseline, PruneBegin, Goto, Idle, watcher
<1>11. CASE PruneDelete \/ PruneCallback \/ PruneEnd
  BY <1>2, <1>11, Bounds
  DEF PollOK, PruneDelete, PruneCallback, PruneEnd, Goto, Idle, watcher, Unregister
<1>12. CASE DeleteEnd
  BY <1>2, <1>12, Bounds DEF PollOK, DeleteEnd, Unregister
<1>13. QED
  BY <1>1, <1>3, <1>4, <1>5, <1>6, <1>7, <1>8, <1>9, <1>10, <1>11, <1>12
  DEF Next, vars, watcher, Poll, Job, Edit, Commit, MoveRoot, Ask, JobStart, JobRead, DeleteBegin, Delete

LEMMA MutationStep == IInv /\ [Next]_vars => MutationOK'
<1>1. SUFFICES ASSUME IInv, [Next]_vars PROVE MutationOK'
  OBVIOUS
<1>2. \/ UNCHANGED mutation \/ mutation' \in {"none", "prune"} \/ \E d \in {"ui", "tool"} : DeleteBegin(d)
  BY <1>1 DEF Next, vars, Poll, Job, Edit, Commit, MoveRoot, Refresh, Leave, Ask, JobStart, JobRead,
     JobSucceed, JobFail, Publish, PollBegin, Stat, Base, CheckHead, CheckSig, CallIndex, CommitBaseline,
     PruneBegin, PruneDelete, PruneCallback, PruneEnd, Delete, DeleteEnd
<1>3. QED BY <1>1, <1>2 DEF IInv, MutationOK, DeleteBegin

-------------------------------------------------------------------------------
(* Every step keeps the reservation. *)

\* A step that leaves the poll thread and the reservation where they are, and
\* the job where it is or in a place that the reservation allows.
LEMMA ReservedKept ==
  ASSUME IInv, UNCHANGED mutation, poll'.at = poll.at, job'.waiter = job.waiter,
         \/ job'.at = job.at
         \/ job'.at # "none" /\ (mutation # "none" => job'.at = "linked")
  PROVE  Reserved'
  BY DEF IInv, Reserved

LEMMA ReservedStep == IInv /\ [Next]_vars => Reserved'
<1>1. SUFFICES ASSUME IInv, [Next]_vars PROVE Reserved'
  OBVIOUS
<1>2. Reserved /\ JobOK /\ PollOK
  BY <1>1 DEF IInv
<1>3. CASE UNCHANGED <<job, poll, mutation>>
  BY <1>2, <1>3 DEF Reserved
<1>4. ASSUME NEW s \in Session, Refresh(s) \/ Leave(s) PROVE Reserved'
  <2>1. /\ UNCHANGED <<poll, mutation>>
        /\ job'.at = job.at /\ job'.waiter = job.waiter
    BY <1>2, <1>4 DEF JobOK, Refresh, Leave, RemoveWatch, Unsubscribe
  <2>2. QED BY <1>1, <2>1, ReservedKept
<1>5. ASSUME NEW s \in Session, Ask(s) PROVE Reserved'
  <2>1. /\ UNCHANGED <<poll, mutation>> /\ job'.waiter = job.waiter
        /\ job'.at = IF job.at = "none" THEN "linked" ELSE job.at
    BY <1>2, <1>5 DEF JobOK, Ask
  <2>2. QED BY <1>2, <2>1 DEF Reserved
<1>6. CASE JobStart \/ JobRead
  <2>1. /\ UNCHANGED <<poll, mutation>> /\ job'.waiter = job.waiter
        /\ job'.at \in {"running", "read"} /\ mutation = "none"
    BY <1>2, <1>6 DEF JobOK, JobStart, JobRead, Reserved
  <2>2. QED BY <1>1, <2>1, ReservedKept
<1>7. CASE JobSucceed \/ JobFail
  <2>1. /\ mutation' = mutation /\ job' = NoJob
        /\ IF job.waiter THEN poll'.at \in {"commit", "idle"} ELSE poll' = poll
    BY <1>2, <1>7 DEF JobSucceed, JobFail, Publish, PollOK, Idle
  <2>2. QED BY <1>2, <2>1 DEF Reserved, NoJob
<1>8. CASE PollBegin \/ Stat \/ Base \/ CheckHead \/ CheckSig \/ CommitBaseline
  <2>1. /\ UNCHANGED <<job, mutation>>
        /\ poll.at \notin {"wait", "pruning", "pruned", "unprune"}
        /\ poll'.at \notin {"wait", "pruning", "pruned", "unprune"}
    <3>1. CASE PollBegin
      BY <1>2, <3>1 DEF PollOK, PollBegin, Idle, watcher
    <3>2. CASE Stat
      BY <1>2, <3>2 DEF PollOK, Stat, Goto, Idle
    <3>3. CASE Base
      BY <1>2, <3>3 DEF PollOK, Base, Goto, Idle
    <3>4. CASE CheckHead
      <4>1. /\ UNCHANGED <<job, mutation>> /\ poll.at = "head"
            /\ \/ poll' = [poll EXCEPT !.at = "sig", !.head = tree[1]]
               \/ poll' = [poll EXCEPT !.at = "sig"]
               \/ poll' = Idle
        BY <3>4 DEF CheckHead, Goto
      <4>2. CASE poll' = Idle
        BY <4>1, <4>2 DEF Idle
      <4>3. CASE poll' = [poll EXCEPT !.at = "sig", !.head = tree[1]]
        <5>1. poll'.at = "sig"
          BY <1>2, <4>3 DEF PollOK
        <5>2. QED BY <4>1, <5>1
      <4>4. CASE poll' = [poll EXCEPT !.at = "sig"]
        <5>1. poll'.at = "sig"
          BY <1>2, <4>4 DEF PollOK
        <5>2. QED BY <4>1, <5>1
      <4>5. QED BY <4>1, <4>2, <4>3, <4>4
    <3>5. CASE CheckSig
      <4>1. /\ UNCHANGED <<job, mutation>> /\ poll.at = "sig"
            /\ poll' = [poll EXCEPT !.at = "changed", !.sig = tree[2]] \/ poll' = Idle
        BY <3>5 DEF CheckSig, Goto
      <4>2. CASE poll' = Idle
        BY <4>1, <4>2 DEF Idle
      <4>3. CASE poll' = [poll EXCEPT !.at = "changed", !.sig = tree[2]]
        <5>1. poll'.at = "changed"
          BY <1>2, <4>3 DEF PollOK
        <5>2. QED BY <4>1, <5>1
      <4>4. QED BY <4>1, <4>2, <4>3
    <3>6. CASE CommitBaseline
      BY <1>2, <3>6 DEF PollOK, CommitBaseline, Goto, Idle
    <3>7. QED BY <1>8, <3>1, <3>2, <3>3, <3>4, <3>5, <3>6
  <2>2. QED BY <1>2, <2>1 DEF Reserved
<1>9. CASE CallIndex
  <2>1. /\ mutation' = mutation /\ poll.at = "changed"
        /\ \/ job' = job /\ poll'.at = "idle"
           \/ /\ poll'.at = "wait" /\ job'.waiter = TRUE
              /\ job'.at = IF job.at = "none" THEN "linked" ELSE job.at
    <3>1. CASE job' = job /\ Goto("idle")
      BY <1>2, <1>9, <3>1 DEF PollOK, CallIndex, Goto, Idle
    <3>2. CASE /\ job' = [job EXCEPT !.owners = @ \cup subs, !.waiter = TRUE,
                                    !.at = IF @ = "none" THEN "linked" ELSE @,
                                    !.late = (job.at = "read")]
               /\ Goto("wait")
      BY <1>2, <1>9, <3>2 DEF JobOK, PollOK, CallIndex, Goto, Idle
    <3>3. QED BY <1>9, <3>1, <3>2 DEF CallIndex
  <2>2. QED BY <1>2, <2>1 DEF Reserved
<1>10. CASE PruneBegin
  <2>1. /\ job' = job /\ poll.at = "prune"
        /\ \/ mutation' = mutation /\ poll'.at = "idle"
           \/ CanReserve /\ mutation' = "prune" /\ poll'.at = "pruning"
    BY <1>2, <1>10 DEF PollOK, PruneBegin, Goto, Idle
  <2>2. QED BY <1>2, <2>1 DEF Reserved, CanReserve
<1>11. CASE PruneDelete
  <2>1. UNCHANGED <<job, mutation>> /\ poll.at = "pruning" /\ poll'.at \in {"pruned", "unprune"}
    BY <1>2, <1>11 DEF PollOK, PruneDelete, Goto, Idle
  <2>2. QED BY <1>2, <2>1 DEF Reserved
<1>12. CASE PruneCallback
  <2>1. /\ UNCHANGED mutation /\ poll.at = "pruned" /\ poll'.at = "unprune"
        /\ job'.at = job.at /\ job'.waiter = job.waiter
    BY <1>2, <1>12 DEF PollOK, JobOK, PruneCallback, Unsubscribe, Goto, Idle
  <2>2. QED BY <1>2, <2>1 DEF Reserved
<1>13. CASE PruneEnd
  <2>1. UNCHANGED job /\ mutation' = "none" /\ poll.at = "unprune" /\ poll'.at = "idle"
    BY <1>2, <1>13 DEF PollOK, PruneEnd, Goto, Idle
  <2>2. QED BY <1>2, <2>1 DEF Reserved
<1>14. ASSUME NEW d \in {"ui", "tool"}, DeleteBegin(d) PROVE Reserved'
  BY <1>2, <1>14 DEF Reserved, DeleteBegin, CanReserve
<1>15. CASE DeleteEnd
  BY <1>2, <1>15 DEF Reserved, DeleteEnd
<1>16. QED
  BY <1>1, <1>3, <1>4, <1>5, <1>6, <1>7, <1>8, <1>9, <1>10, <1>11, <1>12, <1>13, <1>14, <1>15
  DEF Next, vars, Poll, Job, Edit, Commit, MoveRoot, Delete

THEOREM Invariant == Spec => []IInv
<1>1. IInv /\ [Next]_vars => IInv'
  BY CountersStep, TreeStep, JobStep, StateStep, PollStep, MutationStep, ReservedStep DEF IInv
<1>2. QED BY InitIInv, <1>1, PTL DEF Spec

\* The variables keep their types.
THEOREM TypeCorrect == Spec => []TypeOK
<1>1. IInv => TypeOK
  BY DEF IInv, TypeOK, TreeOK, JobOK, StateOK, PollOK, MutationOK
<1>2. QED BY Invariant, <1>1, PTL

\* The database is never deleted under a worker, and never by two.
THEOREM DeletedAlone == Spec => DeleteAlone
<1>1. IInv /\ [Next]_vars /\ db # None /\ db' = None => job.at \notin {"running", "read"}
  <2>1. SUFFICES ASSUME IInv, [Next]_vars, db # None, db' = None PROVE job.at \notin {"running", "read"}
    OBVIOUS
  <2>2. CASE JobSucceed \/ JobFail
    BY <2>1, <2>2 DEF IInv, JobOK, JobSucceed, JobFail, None
  <2>3. CASE PruneDelete \/ Delete
    BY <2>1, <2>3 DEF IInv, Reserved, PruneDelete, Delete
  <2>4. CASE UNCHANGED db
    BY <2>1, <2>4
  <2>5. QED
    BY <2>1, <2>2, <2>3, <2>4
    DEF Next, vars, Poll, Job, Edit, Commit, MoveRoot, Refresh, Leave, Ask, JobStart, JobRead,
        PollBegin, Stat, Base, CheckHead, CheckSig, CallIndex, CommitBaseline,
        PruneBegin, PruneCallback, PruneEnd, DeleteBegin, DeleteEnd
<1>2. QED BY Invariant, <1>1, PTL DEF Spec, DeleteAlone

-------------------------------------------------------------------------------
(* The two watches. *)

\* While the logical watch of a pruned project is still to be forgotten, there
\* is neither a database that a session could watch nor a registered watch.
AgreeInv == /\ WatchAgree
            /\ mutation # "ui"
            /\ poll.at = "pruned" => table = 0 /\ db = None

\* Where the UI does not delete projects, the logical watch exists exactly while
\* the watcher has it, but for the moment between a prune and its callback.
THEOREM WatchesAgree ==
  ASSUME "ui" \notin Deleters
  PROVE  Spec => []WatchAgree
<1>1. Init => AgreeInv
  BY DEF Init, AgreeInv, WatchAgree, Idle
<1>2. IInv /\ AgreeInv /\ [Next]_vars => AgreeInv'
  <2>1. SUFFICES ASSUME IInv, AgreeInv, [Next]_vars PROVE AgreeInv'
    OBVIOUS
  <2>2. PollOK /\ CountersOK /\ Reserved /\ JobOK
    BY <2>1 DEF IInv
  <2>3. CASE UNCHANGED <<poll, table, subs, mutation, db>>
    BY <2>1, <2>3 DEF AgreeInv, WatchAgree
  <2>4. ASSUME NEW s \in Session, Refresh(s) PROVE AgreeInv'
    BY <2>1, <2>2, <2>4 DEF AgreeInv, WatchAgree, Refresh, RemoveWatch, Unregister, watcher, CountersOK
  <2>5. ASSUME NEW s \in Session, Leave(s) PROVE AgreeInv'
    BY <2>1, <2>5 DEF AgreeInv, WatchAgree, Leave, Unregister
  <2>6. CASE JobSucceed \/ JobFail
    <3>1. /\ UNCHANGED <<table, subs, mutation>>
          /\ poll.at = "pruned" => poll' = poll /\ db' = db
          /\ poll.at # "pruned" => poll'.at # "pruned"
      BY <2>2, <2>6 DEF JobSucceed, JobFail, Publish, watcher, Reserved, PollOK, Idle
    <3>2. QED BY <2>1, <3>1 DEF AgreeInv, WatchAgree
  <2>7. CASE UNCHANGED <<table, subs, db>> /\ poll.at # "pruned" /\ poll'.at # "pruned" /\ mutation' # "ui"
    BY <2>1, <2>7 DEF AgreeInv, WatchAgree
  <2>8. CASE PruneDelete
    <3>1. /\ UNCHANGED <<subs, mutation>> /\ poll.at = "pruning"
          /\ \/ table' = table /\ db' \in {db, None} /\ poll'.at = "unprune"
             \/ table' = 0 /\ db' = None /\ poll'.at = "pruned"
      BY <2>2, <2>8 DEF PruneDelete, Unregister, Goto, PollOK
    <3>2. QED BY <2>1, <3>1 DEF AgreeInv, WatchAgree
  <2>9. CASE PruneCallback
    BY <2>1, <2>9 DEF AgreeInv, WatchAgree, PruneCallback, Goto, watcher
  <2>10. CASE Delete \/ DeleteEnd
    BY <2>1, <2>2, <2>10 DEF AgreeInv, WatchAgree, Delete, DeleteEnd, Reserved, watcher
  <2>11. ASSUME NEW d \in {"ui", "tool"}, DeleteBegin(d) PROVE AgreeInv'
    BY <2>1, <2>11 DEF AgreeInv, WatchAgree, DeleteBegin, watcher
  <2>12. CASE \/ PollBegin \/ Stat \/ Base \/ CheckHead \/ CheckSig \/ CallIndex \/ CommitBaseline
              \/ PruneBegin \/ PruneEnd
    <3>1. UNCHANGED <<table, subs, db>> /\ mutation' \in {mutation, "prune", "none"}
      BY <2>12 DEF PollBegin, Stat, Base, CheckHead, CheckSig, CallIndex, CommitBaseline,
                   PruneBegin, PruneEnd, watcher
    <3>2. poll.at # "pruned"
      BY <2>12 DEF PollBegin, Stat, Base, CheckHead, CheckSig, CallIndex, CommitBaseline,
                   PruneBegin, PruneEnd
    <3>3. Reserved' /\ PollOK'
      BY <2>1, ReservedStep, PollStep
    <3>4. poll'.at # "pruned"
      <4>1. CASE CheckHead \/ CheckSig
        <5>1. \/ poll' = Idle
              \/ poll' = [poll EXCEPT !.at = "sig", !.head = tree[1]]
              \/ poll' = [poll EXCEPT !.at = "sig"]
              \/ poll' = [poll EXCEPT !.at = "changed", !.sig = tree[2]]
          BY <4>1 DEF CheckHead, CheckSig, Goto
        <5>2. CASE poll' = Idle
          BY <5>2 DEF Idle
        <5>3. CASE poll' = [poll EXCEPT !.at = "sig", !.head = tree[1]]
          <6>1. poll'.at = "sig"
            BY <2>2, <5>3 DEF PollOK
          <6>2. QED BY <6>1
        <5>4. CASE poll' = [poll EXCEPT !.at = "sig"]
          <6>1. poll'.at = "sig"
            BY <2>2, <5>4 DEF PollOK
          <6>2. QED BY <6>1
        <5>5. CASE poll' = [poll EXCEPT !.at = "changed", !.sig = tree[2]]
          <6>1. poll'.at = "changed"
            BY <2>2, <5>5 DEF PollOK
          <6>2. QED BY <6>1
        <5>6. QED BY <5>1, <5>2, <5>3, <5>4, <5>5
      <4>2. CASE PollBegin
        BY <4>2 DEF PollBegin, Idle
      <4>3. CASE Stat \/ Base
        BY <2>2, <4>3 DEF PollOK, Stat, Base, Goto, Idle
      <4>4. CASE CallIndex \/ CommitBaseline \/ PruneBegin \/ PruneEnd
        BY <2>2, <4>4 DEF PollOK, CallIndex, CommitBaseline, PruneBegin, PruneEnd, Goto, Idle
      <4>5. QED BY <2>12, <4>1, <4>2, <4>3, <4>4
    <3>5. QED BY <2>1, <2>7, <3>1, <3>2, <3>4 DEF AgreeInv
  <2>13. QED
    BY <2>1, <2>3, <2>4, <2>5, <2>6, <2>8, <2>9, <2>10, <2>11, <2>12
    DEF Next, vars, watcher, Poll, Job, Edit, Commit, MoveRoot, Ask, JobStart, JobRead
<1>3. AgreeInv => WatchAgree
  BY DEF AgreeInv
<1>4. QED BY Invariant, <1>1, <1>2, <1>3, PTL DEF Spec
===============================================================================
