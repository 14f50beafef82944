# TLA+ models and proofs for voyager-beta

Voyager is a personal assistant: one process in which an agent (a *master* that talks to the
user and *subagents* that do tasks) sits beside domain services (notes, sources, graph, llm,
office, browser, ...) behind an HTTP gateway. That part is Python on one asyncio event loop; sqlite
writes run in worker threads; all parts talk over one event bus backed by an append-only log.
The graph of source code is built by an engine of its own, the C program under
`src/services/graph/engines/c/core`: a daemon that many client sessions share, index workers it
starts as processes, a thread that watches working trees, a UI server, and a command line that
installs it. Its threads and processes coordinate by mutexes, lock files and renames.
Paths below are relative to the repository root; those of the C engine to its `src/`.

## 1. Inventory

The Python part:

| Part | State it keeps | Operations | Talks to |
|---|---|---|---|
| Event bus, `platform/eventbus` | sqlite log, in-process subscriptions with bounded queues and a `lagged` flag, durable cursors | publish, subscribe, add/drop patterns, get, read_missed, replay | everybody |
| Agent event loop, `agent/runtime/loop.py` | cursor `agent.main`, the subscription, one circuit breaker per handler | catch up, dispatch one event at a time, sync patterns | bus; handlers of master, proactive, observer, hooks |
| Master and arbiter, `agent/master` | the chat instance, the inbox, the lock, background tasks | handle_user_message, the turn task, dispatch_task | loop calls it; spawner; LLM |
| Subagents, `agent/subagent`, `agent/runtime/{scheduler,state}.py` | instances, their status and history, permits, named tasks and timers, checkpoints | spawn, start, run_turn, feed, cancel, resume, abandon | LLM, tools, bus |
| Proactive, `agent/master/proactive.py` | budget counters, one follow-up timer | greet, follow up, reply arrived | bus, scheduler, LLM |
| Index queue and scheduler, `services/graph/{index_queue,scheduler}.py` | sqlite table of jobs, a semaphore, running tasks | enqueue, cancel, reorder, claim, run, retry, stop | capabilities call it from worker threads; bus |
| Graph store, `services/graph/{store,operations}.py` | nodes and edges in sqlite | write, merge, paths, subgraphs | capabilities |
| Gateway, `services/gateway` | SSE streams, rate limits, mounts | post message, stream, REST | bus, capabilities |
| Capability framework, `platform/capability` | registry, daily quotas, audit | execute: authorise, charge, validate, call, audit | gateway, agent tools |
| Other services; policy, memory, context, hooks, skills, MCP clients of the agent; settings, secrets, health of the platform | mostly rows of their own | sequential operations behind capabilities | |

The C engine:

| Part | State it keeps | Operations | Talks to |
|---|---|---|---|
| Lock registry, `foundation/lock_registry.c` | per key: FIFO of waiters, the attempt, readers, writer, leases to clean up; two lock files shared by all processes | acquire (try, deadline, token), release, cancel, free | project locks, version cohort, index workers |
| Daemon application, `daemon/application.c` | sessions, physical jobs, watches and who owns which job, mutation reservations, the stop flag; one mutex | open, request, cancel and close of sessions; index requests of sessions, watcher and UI; mutations; shutdown | runtime, MCP server, watcher, UI, index supervisor |
| Watcher, `watcher/watcher.c` | a table of watched projects, their baselines; one poll thread | watch, unwatch, poll, prune a project whose root is gone | git; application callbacks |
| UI server, `ui/http_server.c` | its listener | index, delete a project, layouts | application, watcher |
| Activation, `cli/activation_transaction.c` | a transaction: staged file, backup, flags | stage, commit, rollback, finalize, close | the directory of the executable |
| Daemon service, runtime, ipc, version cohort | connections, peers, leases of versions | accept, request, disconnect, replace | application, lock registry |
| Index supervisor, pipeline, extractors and resolvers, store, queries, MCP tools | one worker process; an in-memory graph; sqlite | index, query, format | application |

Hard behaviours, and what correctness means for each part:

* **Bus and loop.** A publication has two halves (append in a thread, push on the loop), so
  publications may overtake each other; the queue may overflow; the loop reads the log, then
  dispatches, then subscribes; the cursor survives a crash and memory does not. *Correct* means that
  every event with a handler is dispatched, in order, once; section 5 says how far this holds.
* **Conversation.** A message may arrive before, during or after a turn, while a verdict is
  awaited, while a turn waits for a permit or is being cancelled. *Correct* means that a message is
  handled or accounted for, handled once, in order, and that the status tells the truth.
* **Index queue.** Callers interleave with the drain and with retries; a retried job may be claimed
  while its old task still publishes; the process may stop at any point. *Correct* means the
  life cycle of `IndexJob`: single flight, bounded retries, settled rows stay settled.
* **Task runs.** A run is saved step by step, and outlives its process: it may be resumed while
  the outcome of the old instance is still being published, cancelled while it waits for its
  permit, abandoned, stopped, or crash again. *Correct* means that one instance works on it at a
  time, that a resumption skips nothing and repeats only what was under way, and that the disk tells
  the truth about it.
* **Locks.** Threads of one process queue in memory and processes meet in two lock files; each native
  call may fail half way through an acquisition, a rollback or a release; a wait ends by a wake-up,
  a deadline or a cancellation. *Correct* means a readers-writer lock with writer preference.
* **Engine jobs.** Requests share jobs, each of which has many kinds of subscribers; each may go at
  any time; mutations and the shutdown wait for jobs and jobs for mutations. *Correct* means that
  references are exact, that nothing runs where it may not, and that everything ends.
* **Watching.** A user edits, roots disappear, databases are deleted, git and workers fail, while one
  thread compares what it observes with what it observed before. *Correct* means that the database
  follows the tree and is never deleted under a worker.
* **Activation.** Each call of a sequence of links, renames and syncs may fail and the power may go.
  *Correct* means that there is always an executable, and that what is reported is true of the disk.

## 2. Modules

| Module | Models | Checked by |
|---|---|---|
| `IndexJob` | abstract: what is promised of an index job | `ImplementsIndexJob` in `IndexScheduler` |
| `IndexScheduler` | the job table, `_loop`, `_run_guarded`, stop, crash, restart | run `index_scheduler`; `IndexSchedulerProofs` |
| `EventBus` | log, publications under way, one subscription | through `AgentLoop` |
| `AgentLoop` | the event loop on top of `EventBus` | runs `agent_loop`, `event_loss`; `AgentLoopProofs` |
| `ChatTurns` | master, arbiter, chat instance, permits, cancel | runs `chat_turns`, `chat_order`; `ChatTurnsProofs` |
| `RunLifecycle` | one task run: react loop, checkpoint, resume, cancel, abandon, stop, crash, boot | run `run_lifecycle`; `RunLifecycleProofs` |
| `RWLock` | abstract: a readers-writer lock with writer preference | `ImplementsRWLock` in `LockRegistry` |
| `LockRegistry` | the lock registries of several processes and the two lock files of a key | run `lock_registry` of `MCLockRegistry`; `LockRegistryProofs` |
| `IndexJobs` | jobs, sessions, watches and mutations of the daemon application | run `index_jobs` of `MCIndexJobs`; `IndexJobsProofs` |
| `ProjectWatch` | one project: tree, poll thread, logical watch, job, deletion | runs `project_watch`, `watch_lost`, `watch_deaf`; `ProjectWatchProofs` |
| `ActivationTransaction` | the directory and the transaction | run `activation`; `ActivationTransactionProofs` |

`AgentLoop` is composed of the loop and the bus it EXTENDS. `IndexJobs` and `ProjectWatch` are two
views of one interface: the former has many projects and sessions with exact references and leaves
out what a job reads, the latter has one project, what its job read and when, and leaves out limits
and counts. `LockRegistry` and `IndexJobs` have an MC module for the functions among their
constants; the other `.cfg` files instantiate their module directly: the constants are small sets
of model values and small numbers. Operators whose names begin with `Mutant` are deliberately wrong
variants of the definition that follows them; no specification uses them. They document which
mistake each property would catch.

### State and code

*`IndexScheduler`*: `status, priority, attempts, born` are the columns of `index_jobs` (`born`
stands for `created_ts`; time stamps are taken to be distinct and increasing). A task of
`_run_guarded` is `<<job, attempt>>`, the copy of the row that `next()` returned; `phase` is the
await it is at, `waiting` the queue of the semaphore, which asyncio serves first come first served.
`_loop` has no await between two claims, so no task moves while it drains (`Resume`); callers are
in worker threads and may. A failing attempt sleeps *inside* the semaphore (`Backoff`), then
`finish` puts the row back (`Requeue`), and the task publishes once more (`Report`). Publishing
"start" is outside the `try` (`StartFails`). `Stop` and `Crash` differ as the code does: stop lets
the running tasks mark their row failed, and leaves all other claimed rows as they are.

*`EventBus`, `AgentLoop`*: `log` is the sqlite log; `inflight` the events appended whose publisher
is not back on the event loop; `queue` and `sub` the subscription; `cursor` the durable row;
`backlog` the rows of `read_missed` still to be dispatched; `current` the event being dispatched.
`Publish` and `Deliver` are the two halves of `publish`. `CatchUp` is `read_missed` with its cursor
write, `CaughtUp` the end of one dispatch of the `for` loop, and the subscription when the rows
are used up. `Take` and `Finish` are the two ends of a dispatch of the live loop. Several
subscribers do not interact, so one is modelled. Orderly shutdown cancels the task wherever it is,
which is the same as `Crash`.

*`ChatTurns`*: a message is its number; `inbox` is the deque, `waiters` the queue of
`Master._lock`, `subject` and `step` the task that holds it, `judged` the message whose verdict is
awaited (`handle_user_message` is called by the serial event loop, so at most one is). `chat` is
the generation of the chat instance, `fed` what was merged into its history and not read by a turn
yet, `others` the permits taken by background runs, `killer` a `Spawner.cancel` between its
publication and its interruption. When a turn ends its permit may go to a background run that
waits. `answered`, `read`, `lost` and `excused` are history: they record what became of a message.

*`RunLifecycle`*: the run is fixed, its instances are numbered; 1 is the dispatched one, each
`resume_run` makes the next. `file` and `saved` are the checkpoint: its status, and how many calls
its snapshot holds (`pending_messages`; none in the snapshot of a turn's end). `registry` is the
entry of `Spawner.instances`, `slot` that of `Scheduler._tasks`; all instances of a run share one id
and hence one entry in each, so that `Leave` removes whoever is there. `kept` counts the calls of
complete groups in the transcript, `asked` and `got` the group under way: `Paired` is what
`_paired_messages` keeps of it. A call has the next number, so a resumed instance that starts from
an older transcript makes calls again that were made: `ran`, `repeated` and `abandoned` are history.
`phase` is the await an instance is at; `MidSave` is part of every step that is noted. The permit is
free at some time, who holds it otherwise is not modelled. Only one cancellation is under way at a
time. `Stop` keeps the save of the last task that unwinds.

*`LockRegistry`*: `turn` and `rw` are the two files `.turn` and `.rw` of a key, with what each
caller has locked by `flock`; a file is compatible or not for callers of all processes alike. `pc`
is where a caller's lease is: waiting in `queue`, attempting (`turn`, `rw`, `drop`, `ready` are the
native calls of `lock_registry_attempt_native` and the publication), `held`, in the two halves of a
release (`unturn`, `account`), `retained` (a rollback that could not enter the registry leaves the
waiter in the queue), or `undo` (a discarded lease that still holds a file and is counted in
`pending`). `attempt` is `attempt_waiter`, `asleep` who waits on the condition; a broadcast empties
it for a process. `StoreToken` and `TellWaiters` are the two halves of
`engine_lock_registry_request_cancel`. A busy file and a failing call are not told apart where the
code retries both; `MayStop` is a deadline that may pass at any time. `Crash` empties a process: the
kernel drops its locks. `closed` is a registry that was freed.

*`IndexJobs`*: a step is one section under `application->mutex`, together with the reaping that
precedes or follows it. `job` is the list of `engine_daemon_application_job`: `subs` is
`subscribers`, `waiter` stands for `watcher_waiters`, `at` for the place of the job's thread,
`terminal` and being freed: `linked` until it has seen no mutation in its way (`Clear`), `cleared`
until it starts its worker, before which it does not look at the mutations again (`Start`). A session
has at most one request (`queued` until it gets a job, `got` between subscribing and `active_job`, `waiting` for its end), one background job `auto`, and is a member of
its project's watch; `owners` is `watch_job_subscriptions`; `join` the reference that
`application_auto_index_cancel_join` keeps. `pending` is `auto_index_retry_pending`; `Publish` is
`application_job_publish`: `Walk` is its two walks over the list of sessions, first those that waited
for the job (`Settle`), then those that wait for room (`Retry`), in the same order, which is any
order of the list. What happens between the decision to index and the mutex is the choice `wants` of
`Initialize`. A section starts a job only if the bound on jobs leaves room for it; within a
publication, which may start several, `Overflow` stands for a job beyond the bound, and a step that
would end with one is left out.

*`ProjectWatch`*: `tree` and `db` are pairs of a commit and a signature of the changes, as the poll
thread sees them through git; `table` is the entry of the watcher's hash table, and `state` its
`project_state`, numbered as an unregistered one may still be in the hands of the poll thread;
`subs` is the application's logical watch. `poll.at` is the position of the poll thread between two
looks at the world: `stat`, `base`, `head`, `sig`, the callback (`changed`, `wait`, `commit`) and the
pruning (`prune`, `pruning`, `pruned`, `unprune`). A job reads the tree in one step (`JobRead`) and
writes the database in another. A deletion by the watcher that fails may have removed the database
and not its side files, and keeps the watch. `mutation` is the project's reservation.

*`ActivationTransaction`*: `dir` maps three names to inodes, `since` are the directories since the
last `fsync`, any of which the disk may hold; a power failure picks one. Whether the file system can
sync directories is `tx.syncs`: where it cannot (EINVAL, ENOTSUP, EROFS), `activation_sync_directory`
reports success all the same, and `since` stays. `tx` has the flags of the
transaction (`staged` for `staged_exists`, `backup` for `backup_exists`, `contains` for
`backup_contains_target`), `pc` the next call that changes the directory, `why` what asked for the
rollback, `told` what the caller was last told. Every call may fail. Staging is one step: nothing of
the target is touched in it. What is left over is discarded in three: the candidate, the backup's
reservation, and the sync that follows whatever became of the two.

## 3. Runs

| Run | Bounds | Shows |
|---|---|---|
| `index_scheduler` | 2 jobs, priorities 1-2, 3 attempts, 1 permit, 1 fault | `TypeOK`, `OneAttemptInFlight`, `NoOrphanWithoutFault`, `ImplementsIndexJob`, `QueuedJobsSettle` |
| `agent_loop` | types core and hook, queue 1, limit 2, 3 events, 2 crashes | `TypeOK`, `NothingVanishes`, `LiveCrashLosesNothing`, `SerialDispatchAdvances`, `EventuallyFinished` |
| `chat_turns` | 4 messages, both modes and routes, 1 permit, 2 mishaps | `TypeOK`, `MessagesConserved`, `RunningIsDriven`, `StrandedOnlyByCrack`, `MessagesSettle` |
| `run_lifecycle` | 3 calls, groups of up to 2, 2 instances, 2 crashes, 1 mishap | `TypeOK`, `OneWorker`, `RepeatsBounded`, `NothingSkipped`, `RunningOnDiskIsDriven`, `TasksEnd` |
| `lock_registry` | a caller with a token and one that tries or has a deadline in one process, one with a deadline in another, one use each | `TypeOK`, `Exclusion`, `NoLostWakeup`, `FreedIsQuiet`, `ImplementsRWLock`, `Served` |
| `project_watch` | 2 sessions, a tool that deletes, 2 changes, 1 loss of the root, 1 request, 1 registration, 1 failure | `TypeOK`, `WatchAgree`, `DeleteAlone`, `Converges` |
| `index_jobs` | 2 sessions of a project, a second one of the UI, limit 1, 3 jobs, 1 request, 1 call of watcher or UI, mutations of everything | `TypeOK`, `Referenced`, `Disciplined`, `RetryServed`, `Drains` |
| `activation` | none: the instance is finite | `TypeOK`, `Kept`, `Meaning`, `ForeignKept` |
| `event_loss` | 3 events, queue 2, no crash | refutes `NoEventLost`: the cursor passes an event nobody dispatches |
| `chat_order` | 3 messages | refutes `HandledInOrder`: the inbox overtakes the waiters of the lock |
| `watch_lost` | 1 change, 1 request, 2 registrations, nothing fails or is deleted | refutes `NeverLost`: a change is in the baseline and not in the database |
| `watch_deaf` | a deletion by the UI, 2 changes, 1 request, 2 registrations | refutes `InstalledFirst`: a session joins a watch that is not installed |

The runs of `RunLifecycle`, `ProjectWatch`, `IndexJobs` and `ActivationTransaction` do not check for
deadlock: a run that is over, users whose bounds are used up, a coordinator that has shut down and a
closed transaction stay as they are. `lock_registry` does check it.

The runs that refute something check a sentence of the repository's own docs or comments, quoted
in `PROJECT.json` under `findings`.

**Why the bounds are enough.** Two jobs and one permit give every race between a retried job, its
old task and a competitor; three attempts distinguish the first, a middle and the last one.
A queue of one overflows with two events, a limit of two is passed with three, and the second crash
hits the catch-up that follows the first. Groups of two within three calls leave one call done and
one due when a process dies in a group, before or after a complete one; the second instance is the
first resumption, and a mishap is a cancellation, a stop or a publication that fails. Four messages
allow one being worked on, one waiting for the lock, one in the inbox and one being judged at the
same time. Two callers in a process meet in its queue, its attempt and its condition, a third one
in another meets them in the files; a crash may happen to either, and the three kinds of acquisition
are all there. Two sessions of a project share a job and its watch, and are the last one to leave in
turn; the second project makes them meet the limit, so that work is left pending and retried; the
third job is a successor that starts while an old terminal one is still referenced. Two changes let
one happen before and one after a worker reads the tree; a root is missed several polls in a row
within one loss of it. Faults, crashes and mishaps are bounded only to keep the state space finite,
and the proofs do without these bounds' values. With a limit of one job that two projects do not run at
once follows from the limit in the run; that one project has one job is proved for every limit.

## 4. Fairness

Liveness properties are checked under `FairSpec` of each module; the safety properties and all
proofs need `Spec` only.

* `IndexScheduler`: weak fairness of the loop and of the restart. A task step gets strong fairness
  because the drain blocks the event loop again and again for a moment, and asyncio still runs each
  ready task in turn between two drains. `run_job` is taken to end; its engine calls have timeouts.
* `AgentLoop`: weak fairness of the loop's own steps, of the boot and of each pending delivery
  (a worker thread returns). Publishing and crashing are not fair. Since crashes are bounded the
  process is eventually up for good; this is the usual assumption that it stays up long enough.
* `ChatTurns`: LLM calls, publications and background runs end; the semaphore serves the chat in
  turn (`Occupy` is not possible while it waits). Arrivals and mishaps are not fair.
* `RunLifecycle`: weak fairness of the boot, of an interruption on its way and of the steps of each
  instance: permits become free, models and tools have timeouts, publications end. Limits on rounds
  and calls end the turn, which `MaxCalls` stands for. Users, crashes and mishaps are not fair.
* `LockRegistry`: weak fairness of each caller's own steps: threads run, a busy file is polled every
  millisecond, the caller releases what it was granted. Giving up, in the queue or in an attempt,
  is fair for a `try` and for a cancelled wait only. Deadlines may pass, but nothing makes them: a
  timed caller that waits has to be served, and `Served` is not won by a timeout. No call has to fail.
* `IndexJobs`: weak fairness of the request threads, of some job's thread, of the callers that wait
  for a job, and of the end of a mutation. Workers end since a cancelled one is killed and the others
  have a limit in the supervisor. No session has to ask, cancel or leave, and no mutation to begin.
* `ProjectWatch`: weak fairness of the poll thread, of the job's thread and of a deletion that began.
  The user, the sessions and failures are not fair. `Converges` assumes that the project stays
  watched, with a database and a root, and that the tree rests (the bound on changes).

## 5. What holds, and what does not

`NothingVanishes` says that there are exactly four ways to lose an event that has a handler: the
queue is full; it is pushed while the loop catches up; it lies beyond the limit of `read_missed`;
the process dies when the cursor is already past it. The last cannot happen to the live loop while
publications do not overlap (`LiveCrashLosesNothing`), and then no event is repeated either
(`SerialDispatchAdvances`). `MessagesConserved` says that a message of the conversation is always in
exactly one place, none twice. A message is *stranded* in the inbox of an idle master when
its verdict came after the turn ended, or the turn task died; it is worked off by the next turn. It
is *lost* when its turn died, when its verdict failed, or when it was merged into an instance that
had been replaced. `RunningIsDriven` needs the absence of mishaps for a reason: a cancellation that
overlaps the end of a turn can hit the next one and leave the chat RUNNING with nobody running it,
and a publication of RunStarted that raises does the same; until the next cancellation every message
is then queued and none is handled.

For task runs, `OneWorker`, `RunningOnDiskIsDriven` and `RepeatsBounded` need
the absence of mishaps: a cancelled instance that has not been interrupted yet is no longer alive,
so a resumption is accepted next to it, and its late save may overwrite what came after it; a
start whose publication raises leaves RUNNING on disk; an orderly stop overwrites the last mid-turn
snapshot with one without calls, and the resumption then repeats the whole turn. `NothingSkipped`
needs no such condition. A resumption *is* accepted while an outcome is being published (the disk
still says running, and memory no longer says alive); `OneWorker` shows that the old instance has
stopped calling tools by then. Both outcomes are then saved, and the one that is saved last stays,
whichever instance it is of; without mishaps an outcome stays an outcome (`Settling`, proved).

Limits of the Python part that the models show and no property hides: a claimed index row stays
`running` after a restart, which only looks at queued ones; the drain claims all queued rows ahead
of the semaphore, so a more urgent one that comes later waits for them; overlapping publications
set the cursor back, and a restart then repeats an event; the status that `cancel` sets may be
overwritten by the turn it is about to interrupt; a resumed instance saves nothing within its turn;
a task that waits for its permit cannot be interrupted.

For the engine: `Exclusion` and `ImplementsRWLock` hold whatever native call fails: a writer whose
release of `.turn` fails keeps readers out until the cleanup, and its process counts it no longer.
`Served` needs that those who hold leases release them; a reader can be overtaken by writers as
long as writers come, which the bound on uses ends and the documented preference intends.
`Referenced` says that the count of a job is exactly the number of those who may still read it.
`WatchAgree` holds as long as only sessions' tools and the watcher delete projects; when the UI does,
it removes the physical watch alone (`watch_deaf`), and sessions that join later are not polled for
until the last one leaves. `Converges` has two premises besides a watched project: the commit that
the watcher takes for its first baseline was indexed (`HeadIndexed`: a commit between the index
and the registration is otherwise never seen), and its callback did not join a job that had read the
tree before (`JoinsEarly`, without which `watch_lost` refutes it). An edit that is undone between two
polls looks like no edit; the model has no such edits. For an activation, `Kept` holds with
every call failing and the power lost at any time. `Meaning` holds of the directory with every call
failing; what was reported survives a power failure where the file system can sync directories, since
activation_transaction.c:1129 takes one that cannot for synced, and a reported commit, rollback or
finalize may then be gone. `ForeignKept` is stated for replacements,
since the rollback of a removal renames the backup over whatever is at the target then.

## 6. Proofs

All theorems are about `Spec`, for every value of the constants that satisfies the assumptions
declared with them (sets of jobs, types and routes; a finite set of sessions; sizes at least one; bounds
that are naturals).

* `IndexSchedulerProofs`: the inductive invariant adds to the checked invariants that a task that
  sleeps before a retry has an attempt left (`BackoffAllowed`: otherwise a requeued row could be
  claimed past the limit) and that an absent job has had no attempt (`AbsentUntouched`: the first
  claim makes attempt 1). From it follow type correctness, single flight, no orphan without a
  fault, failures only after the last attempt, and, step by step, the refinement of `IndexJob`.
* `AgentLoopProofs`: conservation needs to know where an event can be before it is offered
  (`BootAhead`: a process that boots offers only events ahead of the cursor, as nothing survives the
  crash); crash safety of the live loop needs the order of the queue relative to the cursor, to the
  event being dispatched and to the one publication under way (`Serial`). That nothing is dispatched
  twice or out of order needs in addition that the cursor has seen all that was processed, and that
  the rows of a start come in their order (`Past`).
* `ChatTurnsProofs`: the invariant adds that an interruption still to come is a mishap already
  counted (`KillerCounted`). One lemma for `Turn`, which four actions share. Conservation is proved
  step by step as a move of one message, or of a whole place, from one of eight disjoint places to
  another.
* `RunLifecycleProofs`: type correctness needs to know in which phases a group is under way
  (`Grouped`). The rest is claimed of runs without mishaps: whoever works or may come to work is
  registered and alive (`Current`), which makes `Busy` refuse a resumption; the dispatched instance
  is the only one until it is through and nothing is on disk before its first step (`FirstAlone`);
  an outcome under way is in memory already (`Outcome`). From it follow one worker at a time, a
  driver for a checkpoint that says running, and that outcomes stay. `NothingSkipped` needs
  no such premise: it is inductive together with the types, since a step makes one call, closes a
  complete group, or leaves the calls as they are (`StepWork`). For `RepeatsBounded` the saves of the
  dispatched instance keep up with its groups, so that the checkpoint lags by at most a group
  (`SavedFirst`, `Alone`), and the second instance, which starts from that save, repeats only what
  lies beyond it (`Second`).
* `LockRegistryProofs`: the inductive invariant says for each position of a caller what it holds in
  the two files and whose turn it is (a reader about to enter has `.turn` alone, a writer from its
  turn on shares it and nobody else enters, who is past `held` holds no `.rw`), and that what two
  callers hold is compatible. Exclusion follows at once. For the refinement each step of a caller
  is one of `RWLock` or a stutter: taking `.turn` announces a writer, taking `.rw` enters, unlocking
  leaves or withdraws, a crash lets the callers of a process vanish together. The proof is for any
  processes, callers and kinds of acquisition.
  The second part of the module is about what a process knows by itself. Every waiter is in its
  queue; the counts of readers and of unfinished rollbacks are the numbers of callers they stand for,
  and the flag stands for at most one writer; who sleeps is queued or ready and could not go on; a
  freed registry has idle callers only. Hence the types (no count goes below zero), that no wake-up
  is lost, and that a freed registry is quiet. Taking a waiter out of its queue needs that a set of
  positions has a least one, which the well-foundedness of the naturals gives.
* `ProjectWatchProofs`: the types, one part per variable, and the reservation: while the project is
  being mutated its job has not started, the poll thread is at a pruning position exactly while it
  holds the reservation, and a job has the watcher as a waiter exactly while the poll thread waits
  (`Reserved`). It follows that no database is deleted under a worker. That the two watches agree is
  proved under the assumption that the UI does not delete projects, which `watch_deaf` shows to be
  needed, and with the fact that between a prune and its callback there is neither a database nor a
  registered watch (`AgreeInv`).
* `IndexJobsProofs`: the references to a job are the pairs of a session and the place where it holds
  one, and the UI's; a session's record contributes a number of them (`Ref`), so that a section that
  changes one record changes the cardinality by a known amount (`OneSession`, `SetSession`), and one
  that lets many sessions go changes it by their number (`Fewer`). The inductive invariant (`Inv`) has
  two books: `JobBook` relates the jobs to given counts, to the callback and to the mutations, and
  says that live jobs have different projects; `SessionBook` says that a request holds its reference
  in one place. Each helper of the model (`Unsub`, `Disown`, `Reaped`, `Subscribe`, `CancelAll`) has a
  lemma that takes books to books, and the sections compose them. A publication is a walk of any
  length: `WalkBooks` takes the least position at which the books could fail, and `WalkExists` shows
  in the same way that the recursive function of the walk is defined. The proof is for any finite
  set of sessions, any projects, limits and bounds.
* `ActivationTransactionProofs`: the model has no constants and its run is exhaustive, so the proof
  adds no generality; it adds the reasons. `Shape` is what holds of every directory that a power
  failure may leave, whatever the position (an existing target that is replaced is never absent; the
  old file is at the target or in the backup until it is accepted), and gives `Kept`. `Place` says
  what a position knows besides of the directories the disk may be relied on to hold (`Disk`: these, or
  only the current one where the file system cannot sync directories): until a commit publishes, each
  has the target it had (`Untried`); after the sync each is the result (`Achieved`); after a rollback
  the target is what it was (`Undone`). `Promise` follows from the two at the positions that report, and gives
  `Meaning`. That foreign targets stay needs that a replacement of an existing target finds it there,
  and that the others look before they rename or remove.

Each proof has one lemma per action or group of actions and a lemma that puts them together; the
temporal step is last.

Only model-checked: the liveness properties (`QueuedJobsSettle`, `EventuallyFinished`,
`MessagesSettle`, `TasksEnd`, `Served`, `RetryServed`, `Drains`, `Converges`: liveness under fairness
is beyond the prover) and, of course, the refutations. All other invariants and action properties of
the runs are proved.

## 7. Not modelled

In the Python part: the circuit breakers of the loop (they may skip a handler inside a dispatch: a
message is then processed without effect), hooks and relays beyond the patterns they subscribe,
prompt and memory text, checkpoints without a snapshot, the eviction of old settled instances, the
modes other than react, the history limit, wildcards in patterns, unsubscribe, several subscribers of
the bus. The services not listed in section 2 are storage, parsing and external calls behind
capabilities. The web frontend is left out.

In the C engine: requests for one project with different options (they wait for each other), the
update thread, a worker's recovery attempt and quarantine within one job, failing allocations and
thread creation, several keys of the lock registry at once, the Windows builds, the daemon's
connections and version cohort, the adaptive poll intervals.

Most of the engine's 284 thousand lines carry no state a model checker could say anything about:
generated tables of library symbols, one resolver per programming language, extractors over syntax
trees, a query language, the tools' text output, edits of configuration files. The parts where
threads, processes and failures meet are a few thousand lines, and these are what the modules model;
the share of all lines that the map names therefore stays small.

## 8. What is left

1. The version cohort and the daemon's bootstrap on top of `LockRegistry`: several lock files, a
   takeover between two versions, in the order the code takes them.
2. Requests with different options and the worker's recovery attempt in `IndexJobs`.
3. `EventStream`, the gateway's stream, as a second consumer of `EventBus`; `Proactive`.
