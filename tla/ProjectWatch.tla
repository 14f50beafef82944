----------------------------- MODULE ProjectWatch -----------------------------
(***************************************************************************)
(* One watched project of the graph engine's daemon: the working tree, the *)
(* poll thread of watcher/watcher.c, the logical watch that sessions share *)
(* (daemon/application.c), the index job the poll thread's callback waits  *)
(* for, and those who delete the project's database.                       *)
(*                                                                         *)
(* The tree is a pair <<head, dirty>>: a commit, and a signature of the    *)
(* uncommitted changes with 0 for a clean tree.  A database remembers the  *)
(* tree it was built from, and an edit never returns to an earlier one.    *)
(* Poll intervals are left out: a poll may begin at any time, and the      *)
(* grace period of a missing root may have passed.                         *)
(***************************************************************************)
EXTENDS Naturals, FiniteSets

CONSTANTS Session,
          Deleters,    \* who deletes the project: a subset of {"ui", "tool"}
          MaxChange,   \* bound: edits and commits
          MaxRoot,     \* bound: times the root is moved away, or cannot be read
          MaxAsk,      \* bound: explicit index requests
          MaxWatch,    \* bound: registrations with the watcher
          MaxFail      \* bound: failures of git commands and index workers

ASSUME DeletersAssumption == Deleters \subseteq {"ui", "tool"}
ASSUME BoundsAssumption == {MaxChange, MaxRoot, MaxAsk, MaxWatch, MaxFail} \subseteq Nat

MissingRootDeleteAfter == 3
None == <<0, 0>>                     \* no database; a commit is never 0
NoJob == [at |-> "none", cancel |-> FALSE, askers |-> {}, owners |-> {}, waiter |-> FALSE,
          read |-> None, late |-> FALSE]
Idle == [at |-> "idle", watch |-> 0, head |-> 0, sig |-> 0]
NewState == [done |-> FALSE, git |-> FALSE, head |-> 0, sig |-> 0, missing |-> 0]
Watches == 1 .. MaxWatch

VARIABLES tree, root,        \* the user's working tree, and whether the root is there
          db,                \* the tree the database was built from, or None
          job,               \* the project's active index job
          subs,              \* the sessions subscribed to the logical watch
          table, state,      \* the registered watch of the watcher; all states of watches
          poll,              \* the poll thread: position, its watch, what it observed
          mutation,          \* who holds the project's mutation reservation
          done               \* counters for the bounds

env == <<tree, root>>
watcher == <<table, state>>
vars == <<tree, root, db, job, subs, table, state, poll, mutation, done>>

Init == /\ tree = <<1, 0>> /\ root = "present" /\ db = <<1, 0>>
        /\ job = NoJob /\ subs = {}
        /\ table = 0 /\ state = [w \in Watches |-> NewState]
        /\ poll = Idle
        /\ mutation = "none"
        /\ done = [change |-> 1, root |-> 0, ask |-> 0, watch |-> 0, fail |-> 0]

Count(k) == done' = [done EXCEPT ![k] = @ + 1]

-------------------------------------------------------------------------------
(* The user. *)

Edit == /\ done.change <= MaxChange
        /\ tree' = <<tree[1], done.change>>
        /\ Count("change")
        /\ UNCHANGED <<root, db, job, subs, watcher, poll, mutation>>

Commit == /\ done.change <= MaxChange
          /\ tree' = <<done.change + 1, 0>>
          /\ Count("change")
          /\ UNCHANGED <<root, db, job, subs, watcher, poll, mutation>>

MoveRoot == /\ IF root = "present"
                 THEN /\ done.root < MaxRoot /\ Count("root")
                      /\ root' \in {"missing", "uncertain"}
                 ELSE root' = "present" /\ UNCHANGED done
            /\ UNCHANGED <<tree, db, job, subs, watcher, poll, mutation>>

-------------------------------------------------------------------------------
(* The watch list: the watcher's table, and the sessions' logical watch. *)

Unregister == table' = 0

\* Subscribers leave a job; the last one asks for its cancellation.
Unsubscribe(askers, owners) ==
    job' = [job EXCEPT !.askers = @ \ askers, !.owners = @ \ owners,
                       !.cancel = @ \/ (job.at # "none" /\ job.askers \subseteq askers
                                                       /\ job.owners \subseteq owners)]

\* application_remove_watch_locked clears every logical subscriber
RemoveWatch == /\ subs' = {} /\ Unregister
               /\ Unsubscribe({}, Session)

\* after every request, session s brings its watch up to date
Refresh(s) ==
    /\ \/ /\ db = None /\ subs # {}
          /\ RemoveWatch
          /\ UNCHANGED <<state, done>>
       \/ /\ db # None /\ subs # {} /\ s \notin subs
          /\ subs' = subs \cup {s}
          /\ job' = IF job.waiter THEN [job EXCEPT !.owners = @ \cup {s}] ELSE job
          /\ UNCHANGED <<watcher, done>>
       \/ /\ db # None /\ subs = {}
          /\ subs' = {s}
          /\ IF table # 0
               THEN UNCHANGED <<watcher, done>>
               ELSE /\ done.watch < MaxWatch /\ Count("watch")
                    /\ table' = done.watch + 1
                    /\ UNCHANGED state
          /\ UNCHANGED job
    /\ UNCHANGED <<env, db, poll, mutation>>

\* a session ends: its watch and its index requests are released
Leave(s) ==
    /\ s \in subs \cup job.askers
    /\ subs' = subs \ {s}
    /\ IF subs = {s} THEN Unregister ELSE UNCHANGED table
    /\ Unsubscribe({s}, {s})
    /\ UNCHANGED <<env, db, state, poll, mutation, done>>

-------------------------------------------------------------------------------
(* Index jobs: one per project; equal requests share it. *)

Ask(s) == /\ done.ask < MaxAsk /\ root = "present" /\ ~job.cancel /\ s \notin job.askers
          /\ Count("ask")
          /\ job' = [job EXCEPT !.askers = @ \cup {s},
                                !.at = IF @ = "none" THEN "linked" ELSE @]
          /\ UNCHANGED <<env, db, subs, watcher, poll, mutation>>

\* the job's thread has seen that no mutation is reserved: its worker may start
MutantJobStart == /\ job.at = "linked" /\ ~job.cancel
                  /\ job' = [job EXCEPT !.at = "running"]
                  /\ UNCHANGED <<env, db, subs, watcher, poll, mutation, done>>
JobStart == /\ job.at = "linked" /\ mutation = "none" /\ ~job.cancel
            /\ job' = [job EXCEPT !.at = "running"]
            /\ UNCHANGED <<env, db, subs, watcher, poll, mutation, done>>

JobRead == /\ job.at = "running" /\ root = "present"
           /\ job' = [job EXCEPT !.at = "read", !.read = tree]
           /\ UNCHANGED <<env, db, subs, watcher, poll, mutation, done>>

\* The job is terminal: its subscribers are served, and the poll thread that
\* waits for it has its result.
MutantPublish(rc) == /\ job' = NoJob
                     /\ poll' = IF job.waiter THEN [poll EXCEPT !.at = "commit"] ELSE poll
                     /\ UNCHANGED <<env, subs, watcher, mutation>>
Publish(rc) == /\ job' = NoJob
               /\ poll' = IF ~job.waiter THEN poll
                          ELSE IF rc = "ok" THEN [poll EXCEPT !.at = "commit"] ELSE Idle
               /\ UNCHANGED <<env, subs, watcher, mutation>>

JobSucceed == /\ job.at = "read" /\ ~job.cancel
              /\ db' = job.read
              /\ Publish("ok")
              /\ UNCHANGED done

\* A worker that fails or is cancelled may have written the database already.
JobFail == /\ job.at # "none"
           /\ \/ job.cancel /\ UNCHANGED done
              \/ job.at = "running" /\ root # "present" /\ UNCHANGED done
              \/ /\ job.at \in {"running", "read"}
                 /\ done.fail < MaxFail /\ Count("fail")
           /\ db' \in {db} \cup (IF job.at = "read" THEN {job.read} ELSE {})
           /\ Publish("failed")

-------------------------------------------------------------------------------
(* The poll thread. *)

Registered == table = poll.watch

Goto(l) == poll' = IF l = "idle" THEN Idle ELSE [poll EXCEPT !.at = l]

PollBegin == /\ poll.at = "idle" /\ table # 0
             /\ poll' = [Idle EXCEPT !.at = "stat", !.watch = table]
             /\ UNCHANGED <<env, db, job, subs, watcher, mutation, done>>

MutantSetMissing(n) == state' = [state EXCEPT ![poll.watch].missing = n + 1]
SetMissing(n) == state' = [state EXCEPT ![poll.watch].missing = n]

Stat ==
    /\ poll.at = "stat"
    /\ \/ ~Registered /\ Goto("idle") /\ UNCHANGED state
       \/ /\ Registered /\ root = "uncertain"
          /\ SetMissing(0) /\ Goto("idle")
       \/ /\ Registered /\ root = "missing"
          /\ state[poll.watch].missing < MissingRootDeleteAfter
          /\ SetMissing(state[poll.watch].missing + 1)
          /\ \/ Goto("idle")
             \/ state[poll.watch].missing + 1 = MissingRootDeleteAfter /\ Goto("prune")
       \/ /\ Registered /\ root = "missing"
          /\ state[poll.watch].missing = MissingRootDeleteAfter
          /\ Goto("idle") \/ Goto("prune")
          /\ UNCHANGED state
       \/ /\ Registered /\ root = "present"
          /\ SetMissing(0)
          /\ Goto(IF ~state[poll.watch].done THEN "base"
                  ELSE IF state[poll.watch].git THEN "head" ELSE "idle")
    /\ UNCHANGED <<env, db, job, subs, table, mutation, done>>

\* init_baseline.  A repository without a readable HEAD has no baseline head.
Base ==
    /\ poll.at = "base"
    /\ Goto("idle")
    /\ \/ /\ root # "present"
          /\ state' = [state EXCEPT ![poll.watch].done = TRUE, ![poll.watch].git = FALSE]
          /\ UNCHANGED done
       \/ /\ root = "present"
          /\ state' = [state EXCEPT ![poll.watch].done = TRUE, ![poll.watch].git = TRUE,
                                    ![poll.watch].head = tree[1]]
          /\ UNCHANGED done
       \/ /\ done.fail < MaxFail /\ Count("fail")
          /\ \/ UNCHANGED state
             \/ state' = [state EXCEPT ![poll.watch].done = TRUE, ![poll.watch].git = FALSE]
             \/ state' = [state EXCEPT ![poll.watch].done = TRUE, ![poll.watch].git = TRUE]
    /\ UNCHANGED <<env, db, job, subs, table, mutation>>

\* check_changes, first half.  The first HEAD that is seen is adopted.
CheckHead ==
    /\ poll.at = "head"
    /\ \/ /\ root = "present"
          /\ poll' = [poll EXCEPT !.at = "sig", !.head = tree[1]]
          /\ state' = [state EXCEPT ![poll.watch].head = IF @ = 0 THEN tree[1] ELSE @]
          /\ UNCHANGED done
       \/ root # "present" /\ Goto("sig") /\ UNCHANGED <<state, done>>
       \/ /\ done.fail < MaxFail /\ Count("fail")
          /\ Goto("sig") \/ Goto("idle")
          /\ UNCHANGED state
    /\ UNCHANGED <<env, db, job, subs, table, mutation>>

\* Second half: the signature.  The database is up to date if neither moved.
CheckSig ==
    /\ poll.at = "sig"
    /\ \/ /\ root = "present"
          /\ poll' = IF poll.head \notin {0, state[poll.watch].head} \/ tree[2] # state[poll.watch].sig
                       THEN [poll EXCEPT !.at = "changed", !.sig = tree[2]] ELSE Idle
          /\ UNCHANGED done
       \/ root # "present" /\ Goto("idle") /\ UNCHANGED done
       \/ /\ done.fail < MaxFail /\ Count("fail")
          /\ Goto("idle")
    /\ UNCHANGED <<env, db, job, subs, watcher, mutation>>

\* index_fn: the job belongs to the sessions that watch now; the poll thread
\* only waits.  A job that runs already is joined.
CallIndex ==
    /\ poll.at = "changed"
    /\ IF Registered /\ subs # {} /\ root = "present" /\ ~job.cancel
         THEN /\ job' = [job EXCEPT !.owners = @ \cup subs, !.waiter = TRUE,
                                    !.at = IF @ = "none" THEN "linked" ELSE @,
                                    !.late = (job.at = "read")]
              /\ Goto("wait")
         ELSE Goto("idle") /\ UNCHANGED job
    /\ UNCHANGED <<env, db, subs, watcher, mutation, done>>

CommitBaseline ==
    /\ poll.at = "commit"
    /\ state' = [state EXCEPT ![poll.watch].head = IF poll.head = 0 THEN @ ELSE poll.head,
                              ![poll.watch].sig = poll.sig]
    /\ Goto("idle")
    /\ UNCHANGED <<env, db, job, subs, table, mutation, done>>

-------------------------------------------------------------------------------
(* Deletion of the database, under the project's mutation reservation. *)

CanReserve == mutation = "none" /\ job.at = "none"

\* prune_missing_project
PruneBegin == /\ poll.at = "prune"
              /\ IF CanReserve
                   THEN mutation' = "prune" /\ Goto("pruning")
                   ELSE Goto("idle") /\ UNCHANGED mutation
              /\ UNCHANGED <<env, db, job, subs, watcher, done>>

\* The root is looked at again under the reservation.  A deletion fails that
\* has removed the database and not the files beside it, and keeps the watch.
PruneDelete ==
    /\ poll.at = "pruning"
    /\ IF Registered /\ root = "missing"
         THEN \/ db' = None /\ Unregister /\ Goto("pruned") /\ UNCHANGED done
              \/ /\ done.fail < MaxFail /\ Count("fail")
                 /\ Goto("unprune") /\ db' \in {db, None} /\ UNCHANGED table
         ELSE Goto("unprune") /\ UNCHANGED <<db, table, done>>
    /\ UNCHANGED <<env, job, subs, state, mutation>>

\* the application forgets the logical watch of a pruned project
MutantPruneCallback == /\ poll.at = "pruned" /\ Goto("unprune")
                       /\ UNCHANGED <<env, db, job, subs, watcher, mutation, done>>
PruneCallback == /\ poll.at = "pruned"
                 /\ subs' = {} /\ Unsubscribe({}, Session)
                 /\ Goto("unprune")
                 /\ UNCHANGED <<env, db, watcher, mutation, done>>

PruneEnd == /\ poll.at = "unprune"
            /\ mutation' = "none" /\ Goto("idle")
            /\ UNCHANGED <<env, db, job, subs, watcher, done>>

DeleteBegin(d) == /\ d \in Deleters /\ CanReserve /\ db # None
                  /\ mutation' = d
                  /\ UNCHANGED <<env, db, job, subs, watcher, poll, done>>

Delete == /\ mutation \in {"ui", "tool"} /\ db # None
          /\ db' = None
          /\ UNCHANGED <<env, job, subs, watcher, poll, mutation, done>>

\* the UI's server unwatches the project itself, a tool leaves it to Refresh
DeleteEnd == /\ mutation \in {"ui", "tool"} /\ db = None
             /\ IF mutation = "ui" THEN Unregister ELSE UNCHANGED table
             /\ mutation' = "none"
             /\ UNCHANGED <<env, db, job, subs, state, poll, done>>

-------------------------------------------------------------------------------
Poll == \/ PollBegin \/ Stat \/ Base \/ CheckHead \/ CheckSig \/ CallIndex \/ CommitBaseline
        \/ PruneBegin \/ PruneDelete \/ PruneCallback \/ PruneEnd
Job == JobStart \/ JobRead \/ JobSucceed \/ JobFail

Next == \/ Edit \/ Commit \/ MoveRoot
        \/ \E s \in Session : Refresh(s) \/ Leave(s) \/ Ask(s)
        \/ Poll \/ Job
        \/ (\E d \in {"ui", "tool"} : DeleteBegin(d)) \/ Delete \/ DeleteEnd

Spec == Init /\ [][Next]_vars
\* The poll thread and the thread of a job run, and a deletion that began ends.
Fairness == /\ WF_vars(Poll) /\ WF_vars(Job)
            /\ WF_vars(Delete) /\ WF_vars(DeleteEnd)
FairSpec == Spec /\ Fairness

-------------------------------------------------------------------------------
(* Properties. *)

Content == Nat \X Nat
TypeOK ==
    /\ tree \in Content /\ db \in Content
    /\ root \in {"present", "missing", "uncertain"}
    /\ job \in [at : {"none", "linked", "running", "read"}, cancel : BOOLEAN,
                askers : SUBSET Session, owners : SUBSET Session, waiter : BOOLEAN,
                read : Content, late : BOOLEAN]
    /\ subs \subseteq Session
    /\ table \in 0 .. MaxWatch
    /\ state \in [Watches -> [done : BOOLEAN, git : BOOLEAN, head : Nat, sig : Nat,
                              missing : 0 .. MissingRootDeleteAfter]]
    /\ poll \in [at : {"idle", "stat", "base", "head", "sig", "changed", "wait", "commit",
                       "prune", "pruning", "pruned", "unprune"},
                 watch : 0 .. MaxWatch, head : Nat, sig : Nat]
    /\ mutation \in {"none", "prune", "ui", "tool"}

\* A session that counts on the watch is polled for, and a project nobody
\* watches is not polled: the logical watch exists exactly while the watcher
\* has it registered, but for the moment between a prune and its callback.
WatchAgree == poll.at # "pruned" => (subs # {} <=> table # 0)

\* The database is never deleted under an index worker, and never by two.
DeleteAlone == [][db # None /\ db' = None => job.at \notin {"running", "read"}]_vars

\* A session joins the logical watch only when the watcher has it installed.
InstalledFirst == [][\A s \in Session : s \in subs' \ subs => table' # 0]_vars

\* Where the watcher takes a HEAD for its baseline, it is the indexed one.
HeadIndexed == /\ poll.at = "base" => db[1] = tree[1]
               /\ poll.at = "head" /\ state[poll.watch].head = 0 => db[1] = tree[1]
JoinsEarly == poll.at = "wait" => ~job.late
Watched == /\ table # 0 /\ subs # {} /\ root = "present" /\ mutation = "none"
           /\ db # None /\ (state[table].done => state[table].git)
UpToDate == db = tree

\* A change that a watched project's user stops at is indexed in the end, with
\* failures and skips retried, if the baseline was indexed and no callback
\* joins a job that has read the tree already.
Converges == []HeadIndexed /\ []JoinsEarly /\ <>[]Watched => <>[]UpToDate

\* The same as watcher.c:1305 has it: at least once, never lost.
NeverLost == []HeadIndexed /\ <>[]Watched => <>[]UpToDate
===============================================================================
