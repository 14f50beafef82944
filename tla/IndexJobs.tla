------------------------------- MODULE IndexJobs ------------------------------
(***************************************************************************)
(* The index coordinator of the graph engine's daemon (the jobs, sessions  *)
(* and mutations of daemon/application.c): requests for one project share  *)
(* a physical job, a job that loses its last subscriber is cancelled, the  *)
(* number of jobs is limited, and work that did not fit is admitted when   *)
(* another job ends.                                                       *)
(*                                                                         *)
(* One step is one section under the application's mutex, with the reaping *)
(* of ended jobs that comes before or after it.  Every session belongs to  *)
(* one project and all requests have equal options.  What a worker does is *)
(* left out; it may end in any way.                                        *)
(***************************************************************************)
EXTENDS Naturals, FiniteSets, SequencesExt

CONSTANTS Session, Project,
          Belongs,        \* the project of each session
          Limit,          \* physical_job_limit
          Permanent,      \* the daemon outlives its last session
          MaxJobs,        \* bound: jobs that are linked at a time
          MaxAsk,         \* bound: explicit requests in all
          MaxPoll,        \* bound: calls of the watcher and of the UI in all
          Keys            \* what mutations reserve: projects, or Star

Star == "*"
ASSUME SessionAssumption == IsFiniteSet(Session)
ASSUME BelongsAssumption == Belongs \in [Session -> Project] /\ Keys \subseteq Project \cup {Star}
ASSUME LimitAssumption == Limit \in Nat \ {0} /\ Permanent \in BOOLEAN
ASSUME BoundsAssumption == MaxJobs \in Nat /\ {MaxAsk, MaxPoll} \subseteq Nat

Job == 1 .. MaxJobs
Overflow == MaxJobs + 1   \* a job beyond the bound: no step ends with one
NoJob == [at |-> "none", project |-> Star, subs |-> 0, waiter |-> FALSE, cancel |-> FALSE]
NewSession == [at |-> "new", req |-> "none", got |-> 0, active |-> 0, cut |-> FALSE,
               auto |-> 0, evaluated |-> FALSE, pending |-> FALSE, join |-> 0,
               watch |-> FALSE]

VARIABLES job,         \* the jobs: state, project, subscribers, watcher callback, cancel
          sess,        \* the sessions: their request, their references to jobs, their watch
          owners,      \* watch_job_subscriptions: the jobs each session's watch owns
          callback,    \* the job the watcher's thread waits for, or 0
          ui,          \* the job a request of the UI waits for, or 0
          mutations,   \* the reserved keys: projects, or Star for all of them
          db,          \* the projects that have a database
          stopping,
          count        \* what the bounds are about

vars == <<job, sess, owners, callback, ui, mutations, db, stopping, count>>
world == <<mutations, db, stopping>>

Init == /\ job = [j \in Job |-> NoJob]
        /\ sess = [s \in Session |-> NewSession]
        /\ owners = [s \in Session |-> {}]
        /\ callback = 0 /\ ui = 0 /\ mutations = {} /\ db = {} /\ stopping = FALSE
        /\ count = [ask |-> 0, poll |-> 0]

-------------------------------------------------------------------------------
(* Helpers.  They take the jobs js, as a section may change them twice. *)

Live(js) == {j \in Job : js[j].at \in {"linked", "cleared", "running"}}
Of(js, p) == {j \in Live(js) : js[j].project = p}
Conflict(k, p) == k = p \/ k = Star \/ p = Star
Cancelled(s) == sess[s].at = "cancelled" \/ sess[s].cut

Sub(js, j, n) == [js EXCEPT ![j].subs = @ + n]

\* application_job_unsubscribe_locked
MutantUnsub(js, j) == [js EXCEPT ![j].subs = @ - 1]
Unsub(js, j) == [js EXCEPT ![j].subs = @ - 1,
                           ![j].cancel = @ \/ (js[j].subs = 1 /\ j \in Live(js))]
\* application_watch_job_unsubscribe_session_locked, for the sessions S
Owned(S, j) == Cardinality({s \in S : j \in owners[s]})
Disown(js, S) == [j \in Job |-> [js[j] EXCEPT
                     !.subs = @ - Owned(S, j),
                     !.cancel = @ \/ (/\ Owned(S, j) # 0 /\ js[j].subs = Owned(S, j)
                                      /\ j \in Live(js))]]

\* application_jobs_reap_completed
Done(js, j) == js[j].at = "terminal" /\ js[j].subs = 0
MutantReaped(js) == [j \in Job |-> IF Done(js, j) THEN NoJob ELSE js[j]]
Reaped(js) == [j \in Job |-> IF Done(js, j) /\ ~js[j].waiter THEN NoJob ELSE js[j]]

\* application_job_subscribe_locked: join the project's job, or start one.
\* Chosen is that job, and 0 if there is none.
CanJoin(js, p) == \E j \in Of(js, p) : ~js[j].cancel
CanStart(js, p) == Of(js, p) = {} /\ Cardinality(Live(js)) < Limit
HasRoom(js) == \E j \in Job : js[j].at = "none"
Fresh(js) == IF HasRoom(js) THEN CHOOSE j \in Job : js[j].at = "none" ELSE Overflow
Chosen(js, p) == IF CanJoin(js, p) THEN CHOOSE j \in Of(js, p) : TRUE
                 ELSE IF CanStart(js, p) THEN Fresh(js) ELSE 0
Subscribe(js, p) == IF CanJoin(js, p)
                      THEN Sub(js, Chosen(js, p), 1)
                      ELSE [js EXCEPT ![Fresh(js)] = [NoJob EXCEPT !.at = "linked", !.project = p,
                                                                   !.subs = 1]]

-------------------------------------------------------------------------------
(* Sessions and their watches. *)

Open(s) == /\ sess[s].at = "new" /\ ~stopping
           /\ sess' = [sess EXCEPT ![s].at = "open"]
           /\ UNCHANGED <<job, owners, callback, ui, world, count>>

\* application_refresh_watch_locked, where the project has a database: session s
\* joins the project's watch, or makes one.  Where there is one, it becomes an
\* owner of the job that the watcher's callback waits for, too.  acc holds the
\* jobs, the sessions and the owners, as a publication refreshes several watches.
Watchers(ss, p) == {s \in Session : ss[s].watch /\ Belongs[s] = p}
LateJob(acc, s) == IF Watchers(acc.sess, Belongs[s]) = {} THEN {}
                   ELSE {j \in Of(acc.job, Belongs[s]) : acc.job[j].waiter} \ acc.owners[s]
MayRefresh(ss, s) == ~stopping /\ ss[s].at = "open" /\ ~ss[s].cut /\ ss[s].auto = 0
Watch(acc, s) ==
    IF acc.sess[s].watch \/ ~MayRefresh(acc.sess, s) THEN acc
    ELSE [acc EXCEPT !.sess[s].watch = TRUE,
                     !.owners[s] = @ \cup LateJob(acc, s),
                     !.job = [j \in Job |-> IF j \in LateJob(acc, s) THEN Sub(@, j, 1)[j] ELSE @[j]]]

Now == [job |-> job, sess |-> sess, owners |-> owners, full |-> FALSE]

\* A project without a database is no longer watched, by any session.
Refresh(s) ==
    /\ MayRefresh(sess, s)
    /\ LET p == Belongs[s]
           W == Watchers(sess, p)
           new == Watch(Now, s)
       IN  \/ /\ p \in db /\ ~sess[s].watch
              /\ job' = new.job /\ sess' = new.sess /\ owners' = new.owners
           \/ /\ p \notin db /\ W # {}
              /\ job' = Disown(job, W)
              /\ sess' = [t \in Session |-> IF t \in W THEN [sess[t] EXCEPT !.watch = FALSE] ELSE sess[t]]
              /\ owners' = [t \in Session |-> IF t \in W THEN {} ELSE owners[t]]
    /\ UNCHANGED <<callback, ui, world, count>>

\* application_background_initialize, at the end of a request.  Whether the
\* project is to be indexed is decided before the mutex is taken: it may have
\* got a database since, be too large, or the option may be off.
Initialize(s) ==
    /\ sess[s].at = "open" /\ sess[s].req = "none" /\ ~stopping
    /\ sess[s].auto = 0 /\ (~sess[s].evaluated \/ sess[s].pending)
    /\ \E wants \in BOOLEAN :
       LET p == Belongs[s]
           js == Reaped(job)
           j == Chosen(js, p)
       IN  /\ wants => HasRoom(js)
           /\ sess' = [sess EXCEPT ![s].evaluated = TRUE,
                                   ![s].auto = IF wants THEN j ELSE 0,
                                   ![s].pending = wants /\ j = 0]
           /\ job' = IF wants /\ j # 0 THEN Subscribe(js, p) ELSE js
    /\ UNCHANGED <<owners, callback, ui, world, count>>

-------------------------------------------------------------------------------
(* Explicit requests: application_index_execute. *)

Ask(s) == /\ sess[s].at = "open" /\ sess[s].req = "none" /\ ~stopping
          /\ count.ask < MaxAsk
          /\ sess' = [sess EXCEPT ![s].req = "queued"]
          /\ count' = [count EXCEPT !.ask = @ + 1]
          /\ UNCHANGED <<job, owners, callback, ui, world>>

\* busy or cancelling: the request waits; a stopping coordinator refuses
TryAsk(s) ==
    /\ sess[s].req = "queued" /\ HasRoom(Reaped(job))
    /\ LET p == Belongs[s]
           js == Reaped(job)
           j == Chosen(js, p)
       IN  \/ /\ ~stopping /\ j # 0
              /\ job' = Subscribe(js, p)
              /\ sess' = [sess EXCEPT ![s].req = "got", ![s].got = j]
           \/ /\ stopping \/ (j = 0 /\ Cancelled(s))
              /\ job' = js
              /\ sess' = [sess EXCEPT ![s].req = "none", ![s].cut = FALSE]
    /\ UNCHANGED <<owners, callback, ui, world, count>>

\* the mutex was released in between
Activate(s) ==
    /\ sess[s].req = "got"
    /\ LET j == sess[s].got
       IN  IF Cancelled(s)
             THEN /\ sess' = [sess EXCEPT ![s].req = "none", ![s].got = 0, ![s].cut = FALSE]
                  /\ job' = Unsub(job, j)
             ELSE /\ sess' = [sess EXCEPT ![s].req = "waiting", ![s].got = 0, ![s].active = j]
                  /\ UNCHANGED job
    /\ UNCHANGED <<owners, callback, ui, world, count>>

\* application_job_wait_for_session: a cancellation took the job away, or it ended
Answer(s) ==
    /\ sess[s].req = "waiting"
    /\ LET j == sess[s].active
       IN  \/ j = 0 /\ UNCHANGED job
           \/ j # 0 /\ job[j].at = "terminal" /\ job' = Reaped(Unsub(job, j))
    /\ sess' = [sess EXCEPT ![s].req = "none", ![s].active = 0, ![s].cut = FALSE]
    /\ UNCHANGED <<owners, callback, ui, world, count>>

DropActive(s) == IF sess[s].active # 0 THEN Unsub(job, sess[s].active) ELSE job

RequestCancel(s) ==
    /\ sess[s].at = "open" /\ sess[s].req # "none" /\ ~sess[s].cut
    /\ sess' = [sess EXCEPT ![s].cut = TRUE, ![s].active = 0]
    /\ job' = DropActive(s)
    /\ UNCHANGED <<owners, callback, ui, world, count>>

-------------------------------------------------------------------------------
(* The end of a session: when the runtime closes it later, it has nothing left *)
(* to release.                                                                 *)

\* application_auto_index_release_locked: the last subscriber of a live job
\* keeps its subscription until the job is terminal.
Keeps(js, j) == j \in Live(js) /\ js[j].subs = 1
Release(js, j) == IF j = 0 THEN js
                  ELSE IF Keeps(js, j) THEN [js EXCEPT ![j].cancel = TRUE] ELSE Unsub(js, j)

CancelAll(js) == [j \in Job |-> IF j \in Live(js) THEN [js[j] EXCEPT !.cancel = TRUE] ELSE js[j]]

SessionCancel(s) ==
    /\ sess[s].at = "open"
    /\ LET js1 == DropActive(s)
           js2 == Release(js1, sess[s].auto)
           js3 == Disown(js2, {s})
           last == ~Permanent /\ \A t \in Session \ {s} : sess[t].at # "open"
           keeps == sess[s].auto # 0 /\ Keeps(js1, sess[s].auto)
       IN  /\ job' = Reaped(IF last THEN CancelAll(js3) ELSE js3)
           /\ stopping' = (stopping \/ last)
           /\ sess' = [sess EXCEPT ![s].at = "cancelled", ![s].active = 0, ![s].auto = 0,
                           ![s].watch = FALSE, ![s].pending = FALSE,
                           ![s].join = IF keeps THEN sess[s].auto ELSE 0]
    /\ owners' = [owners EXCEPT ![s] = {}]
    /\ UNCHANGED <<callback, ui, mutations, db, count>>

\* application_auto_index_cancel_join
MutantJoined(s) == /\ sess[s].join # 0 /\ job[sess[s].join].at = "terminal"
                   /\ sess' = [sess EXCEPT ![s].join = 0]
                   /\ UNCHANGED <<job, owners, callback, ui, world, count>>
Joined(s) == /\ sess[s].join # 0 /\ job[sess[s].join].at = "terminal"
             /\ job' = Reaped(Unsub(job, sess[s].join))
             /\ sess' = [sess EXCEPT ![s].join = 0]
             /\ UNCHANGED <<owners, callback, ui, world, count>>

-------------------------------------------------------------------------------
(* application_background_index.  The watcher's callback waits for a job that *)
(* the sessions own; a request of the UI is a subscriber of its own.          *)

Admits(p) == /\ count.poll < MaxPoll /\ ~stopping
             /\ HasRoom(Reaped(job)) /\ Chosen(Reaped(job), p) # 0
             /\ count' = [count EXCEPT !.poll = @ + 1]

WatcherCall(p) ==
    /\ callback = 0 /\ Watchers(sess, p) # {} /\ Admits(p)
    /\ LET js == Reaped(job)
           j == Chosen(js, p)
           new == {s \in Watchers(sess, p) : j \notin owners[s]}
       IN  /\ job' = [Sub(Subscribe(js, p), j, Cardinality(new) - 1) EXCEPT ![j].waiter = TRUE]
           /\ owners' = [s \in Session |-> IF s \in new THEN owners[s] \cup {j} ELSE owners[s]]
           /\ callback' = j
    /\ UNCHANGED <<sess, ui, world>>

WatcherDone ==
    /\ callback # 0 /\ job[callback].at = "terminal"
    /\ job' = Reaped([job EXCEPT ![callback].subs = @ - Owned(Session, callback),
                                  ![callback].waiter = FALSE])
    /\ owners' = [s \in Session |-> owners[s] \ {callback}]
    /\ callback' = 0
    /\ UNCHANGED <<sess, ui, world, count>>

UiCall(p) ==
    /\ ui = 0 /\ Admits(p)
    /\ job' = Subscribe(Reaped(job), p)
    /\ ui' = Chosen(Reaped(job), p)
    /\ UNCHANGED <<sess, owners, callback, world>>

UiDone ==
    /\ ui # 0 /\ job[ui].at = "terminal"
    /\ job' = Reaped(Unsub(job, ui))
    /\ ui' = 0
    /\ UNCHANGED <<sess, owners, callback, world, count>>

-------------------------------------------------------------------------------
(* The thread of a job. *)

\* application_job_wait_for_mutations, which lets go of the mutex
Clear(j) == /\ job[j].at = "linked" /\ ~job[j].cancel /\ ~stopping
            /\ \A k \in mutations : ~Conflict(k, job[j].project)
            /\ job' = [job EXCEPT ![j].at = "cleared"]
            /\ UNCHANGED <<sess, owners, callback, ui, world, count>>

\* application_job_run_attempt, up to the worker: it asks for no mutation again
Start(j) == /\ job[j].at = "cleared" /\ ~job[j].cancel /\ ~stopping
            /\ job' = [job EXCEPT ![j].at = "running"]
            /\ UNCHANGED <<sess, owners, callback, ui, world, count>>

\* application_job_publish, one session: it lets go of job j if it waited for it
\* in the background, and watches the project if the job succeeded.
Settle(acc, s, j, ok) ==
    LET free == [acc EXCEPT !.job = Unsub(acc.job, j), !.sess[s].auto = 0]
    IN  IF acc.sess[s].auto # j THEN acc
        ELSE IF ok THEN Watch(free, s)
        ELSE free

\* application_auto_index_retry_pending_locked, one session: it joins a job,
\* starts one, needs none any more, or ends the walk because nothing fits.
Retry(acc, s, dbs) ==
    LET p == Belongs[s]
        j == Chosen(acc.job, p)
    IN  IF acc.full \/ ~acc.sess[s].pending \/ acc.sess[s].auto # 0 \/ acc.sess[s].at # "open"
          THEN acc
        ELSE IF p \in dbs
          THEN Watch([acc EXCEPT !.sess[s].pending = FALSE], s)
        ELSE IF j # 0
          THEN [acc EXCEPT !.job = Subscribe(acc.job, p),
                           !.sess[s].pending = FALSE, !.sess[s].auto = j]
        ELSE [acc EXCEPT !.full = Of(acc.job, p) = {}]

\* The two walks over the list of sessions, one after the other, as the sets of
\* what they have come to; a stopping coordinator admits nothing.
MutantWalk(acc, order, j, ok, dbs) ==
    LET walk[i \in 0 .. Len(order)] ==
            IF i = 0 THEN {acc} ELSE {Settle(a, order[i], j, ok) : a \in walk[i - 1]}
    IN  walk[Len(order)]
Walk(acc, order, j, ok, dbs) ==
    LET n == Len(order)
        walk[i \in 0 .. 2 * n] ==
            IF i = 0 THEN {acc}
            ELSE IF i <= n THEN {Settle(a, order[i], j, ok) : a \in walk[i - 1]}
            ELSE IF stopping THEN walk[i - 1]
            ELSE {Retry(a, order[i - n], dbs) : a \in walk[i - 1]}
    IN  walk[2 * n]

\* application_job_publish: the job is terminal, cancelled before or after its
\* worker was there, or because there was none to start.  A killed worker may
\* have written the database all the same.  Nobody reads the project and the
\* cancellation of a terminal job.
Publish(j) ==
    /\ \/ job[j].at \in {"cleared", "running"}
       \/ job[j].at = "linked" /\ (job[j].cancel \/ stopping)
    /\ \E wrote \in {job[j].at = "running", FALSE} : \E ok \in {wrote, FALSE} :
       LET dbs == IF wrote THEN db \cup {job[j].project} ELSE db
           ended == [NoJob EXCEPT !.at = "terminal", !.waiter = job[j].waiter, !.subs = job[j].subs]
       IN  \E order \in SetToSeqs(Session) :
           \E end \in Walk([Now EXCEPT !.job[j] = ended], order, j, ok, dbs) :
              /\ \A s \in Session : end.sess[s].auto # Overflow
              /\ job' = end.job /\ sess' = end.sess /\ owners' = end.owners /\ db' = dbs
    /\ UNCHANGED <<callback, ui, mutations, stopping, count>>

-------------------------------------------------------------------------------
(* Mutations, and the daemon's shutdown. *)

MutantMutationBegin(k) ==
    /\ ~stopping
    /\ \A m \in mutations : ~Conflict(m, k)
    /\ \A j \in Job : job[j].at = "running" => ~Conflict(k, job[j].project)
    /\ mutations' = mutations \cup {k}
    /\ UNCHANGED <<job, sess, owners, callback, ui, db, stopping, count>>
MutationBegin(k) ==
    /\ ~stopping
    /\ \A m \in mutations : ~Conflict(m, k)
    /\ \A j \in Live(job) : ~Conflict(k, job[j].project)
    /\ mutations' = mutations \cup {k}
    /\ UNCHANGED <<job, sess, owners, callback, ui, db, stopping, count>>

\* a mutation may delete the project's database
MutationEnd(k) ==
    /\ k \in mutations
    /\ mutations' = mutations \ {k}
    /\ db' \in {db, db \ {k}}
    /\ UNCHANGED <<job, sess, owners, callback, ui, stopping, count>>

MutantShutdown ==
    /\ ~stopping
    /\ stopping' = TRUE
    /\ LET autos(j) == {s \in Session : sess[s].auto = j}
       IN  job' = CancelAll([j \in Job |-> [job[j] EXCEPT !.subs = @ - Cardinality(autos(j))]])
    /\ UNCHANGED <<sess, owners, callback, ui, mutations, db, count>>
Shutdown ==
    /\ ~stopping
    /\ stopping' = TRUE
    /\ LET autos(j) == {s \in Session : sess[s].auto = j}
       IN  job' = CancelAll([j \in Job |-> [job[j] EXCEPT !.subs = @ - Cardinality(autos(j))]])
    /\ sess' = [s \in Session |-> [sess[s] EXCEPT !.auto = 0]]
    /\ UNCHANGED <<owners, callback, ui, mutations, db, count>>

-------------------------------------------------------------------------------
Serve(s) == TryAsk(s) \/ Activate(s) \/ Answer(s)
Next == \/ \E s \in Session : \/ Open(s) \/ Refresh(s) \/ Initialize(s) \/ Ask(s) \/ Serve(s)
                              \/ RequestCancel(s) \/ SessionCancel(s) \/ Joined(s)
        \/ (\E p \in Project : WatcherCall(p) \/ UiCall(p)) \/ WatcherDone \/ UiDone
        \/ \E j \in Job : Clear(j) \/ Start(j) \/ Publish(j)
        \/ \E k \in Keys : MutationBegin(k) \/ MutationEnd(k)
        \/ Shutdown

Spec == Init /\ [][Next]_vars
\* The threads of a session, some thread of a job and the waiting callers run,
\* workers end (a cancelled one is killed) and mutations end.
Fairness == /\ \A s \in Session : WF_vars(Serve(s) \/ Joined(s))
            /\ WF_vars(\E j \in Job : Clear(j) \/ Start(j) \/ Publish(j))
            /\ WF_vars(WatcherDone \/ UiDone)
            /\ WF_vars(\E k \in Keys : MutationEnd(k))
FairSpec == Spec /\ Fairness

-------------------------------------------------------------------------------
(* Properties. *)

TypeOK ==
    /\ job \in [Job -> [at : {"none", "linked", "cleared", "running", "terminal"},
                        project : Project \cup {Star}, subs : Nat, waiter : BOOLEAN,
                        cancel : BOOLEAN]]
    /\ sess \in [Session ->
          [at : {"new", "open", "cancelled"}, req : {"none", "queued", "got", "waiting"},
           got : Job \cup {0}, active : Job \cup {0}, cut : BOOLEAN, auto : Job \cup {0},
           evaluated : BOOLEAN, pending : BOOLEAN, join : Job \cup {0}, watch : BOOLEAN]]
    /\ owners \in [Session -> SUBSET Job]
    /\ {callback, ui} \subseteq Job \cup {0}
    /\ mutations \subseteq Keys /\ db \subseteq Project
    /\ stopping \in BOOLEAN

\* Who refers to job j, and how often.
Uses(j) == {s \in Session : sess[s].got = j} \X {"got"}
           \cup {s \in Session : sess[s].active = j} \X {"active"}
           \cup {s \in Session : sess[s].auto = j} \X {"auto"}
           \cup {s \in Session : sess[s].join = j} \X {"join"}
           \cup {s \in Session : j \in owners[s]} \X {"owner"}
           \cup (IF ui = j THEN {<<"ui", "ui">>} ELSE {})

\* The subscriber count of a job is the number of references to it, in every
\* order of requests, cancellations, callbacks and publications: a job is not
\* freed while someone may still read it, and not kept for nobody.
Referenced == \A j \in Job : /\ job[j].subs = Cardinality(Uses(j))
                             /\ job[j].waiter <=> callback = j
                             /\ job[j].at = "none" => Uses(j) = {} /\ callback # j

\* No worker runs in a project that is being mutated, no project has two
\* workers, the limit holds, and work without an owner is being cancelled.
Disciplined == /\ \A j \in Job, k \in mutations : job[j].at = "running" => ~Conflict(k, job[j].project)
               /\ \A p \in Project : Cardinality(Of(job, p)) <= 1
               /\ Cardinality(Live(job)) <= Limit
               /\ \A j \in Live(job) : job[j].subs = 0 => job[j].cancel

\* Background work that did not fit is admitted in the end, without another
\* request of its session (application.c:1377): no session keeps waiting.
RetryServed == \A s \in Session :
                  []<>(~sess[s].pending \/ stopping \/ sess[s].at # "open")

\* A stopping coordinator drains: the jobs end and every reference is dropped.
\* (It does not stop stopping, so this is stopping ~> Drained.)
Drained == /\ Live(job) = {} /\ callback = 0 /\ ui = 0 /\ mutations = {}
           /\ \A j \in Job : job[j].subs = 0
           /\ \A s \in Session : sess[s].req = "none"
Drains == []<>(stopping => Drained)
===============================================================================
