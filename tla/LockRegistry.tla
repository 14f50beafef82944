----------------------------- MODULE LockRegistry -----------------------------
(***************************************************************************)
(* The lock registry of the graph engine (foundation/lock_registry.c) for  *)
(* one resource key.  Every process has a registry: a FIFO queue of        *)
(* waiters, at most one of which attempts the two lock files at a time, a  *)
(* count of active readers, an active-writer flag and a count of leases    *)
(* whose native locks are still to be released.  The lock files, .turn and *)
(* .rw, are flock(2)s shared by all processes: a reader passes through     *)
(* .turn exclusively and keeps .rw shared, a writer keeps .turn shared and *)
(* .rw exclusively.                                                        *)
(*                                                                         *)
(* A caller is one lease at a time.  A step is one native call or one      *)
(* section under the registry's mutex.  Deadlines are nondeterministic: a  *)
(* timed caller may give up wherever the code looks at the clock.          *)
(***************************************************************************)
EXTENDS Naturals, FiniteSets, SequencesExt

CONSTANTS Proc, Caller,
          Home,      \* the process each caller runs in
          None,      \* no attempting waiter
          Asks,      \* the kinds of acquisition a caller makes
          MaxUses    \* bound: acquisitions of one caller

ASSUME HomeAssumption == Home \in [Caller -> Proc]
ASSUME NoneAssumption == None \notin Caller
ASSUME UsesAssumption == MaxUses \in Nat
ASSUME AsksAssumption == Asks \in [Caller -> SUBSET {"try", "timed", "token"}]

Mode == {"none", "SH", "EX"}
\* try: one attempt.  timed: has a deadline.  token: no deadline, but a
\* cancellation token.
Kind == {"try", "timed", "token"}
Attempting == {"turn", "rw", "drop", "ready"}
PC == {"idle", "queued", "held", "unturn", "account", "retained", "undo"} \cup Attempting

\* A request: its mode, its kind and whether its token is set; a lease that was
\* freed leaves none of it.
Request == [mode : {"SH", "EX"}, kind : Kind, cancel : {"no", "stored", "told"}]
NoRequest == [mode |-> "SH", kind |-> "try", cancel |-> "no"]

VARIABLES turn, rw,                  \* the two lock files: what each caller has locked
          pc, req,                   \* each caller's position and request
          queue, attempt, asleep,    \* waiters of a process, its attempt, who waits
          readers, writer, pending,  \* the registry's accounting
          closed,                    \* registries that were freed
          uses                       \* acquisitions so far, for the bound

native == <<turn, rw>>
account == <<readers, writer, pending>>
vars == <<turn, rw, pc, req, queue, attempt, asleep, readers, writer, pending, closed, uses>>

Init == /\ turn = [c \in Caller |-> "none"] /\ rw = [c \in Caller |-> "none"]
        /\ pc = [c \in Caller |-> "idle"]
        /\ req = [c \in Caller |-> NoRequest]
        /\ queue = [p \in Proc |-> <<>>] /\ attempt = [p \in Proc |-> None]
        /\ asleep = {}
        /\ readers = [p \in Proc |-> 0] /\ writer = [p \in Proc |-> FALSE]
        /\ pending = [p \in Proc |-> 0]
        /\ closed = [p \in Proc |-> FALSE]
        /\ uses = [c \in Caller |-> 0]

-------------------------------------------------------------------------------
(* Helpers. *)

Local(p) == {c \in Caller : Home[c] = p}

\* flock(fd, LOCK_NB): m is compatible with what every other caller holds.
Compatible(file, c, m) == \A d \in Caller \ {c} : /\ m = "SH" => file[d] # "EX"
                                                  /\ m = "EX" => file[d] = "none"

MutantTurnMode(m) == "SH"
TurnMode(m) == IF m = "SH" THEN "EX" ELSE "SH"

Goto(c, l) == /\ pc' = [pc EXCEPT ![c] = l]
              /\ req' = IF l = "idle" THEN [req EXCEPT ![c] = NoRequest] ELSE req
Broadcast(p) == asleep' = asleep \ Local(p)
Cancelled(c) == req[c].kind = "token" /\ req[c].cancel # "no"
Without(q, c) == RemoveFirst(q, c)

\* lock_registry_waiter_remove, which broadcasts, and the attempt it ends
MutantRemoveWaiter(c) ==
    /\ queue' = [queue EXCEPT ![Home[c]] = Without(@, c)]
    /\ attempt' = [attempt EXCEPT ![Home[c]] = IF @ = c THEN None ELSE @]
    /\ asleep' = asleep \ {c}
RemoveWaiter(c) ==
    /\ queue' = [queue EXCEPT ![Home[c]] = Without(@, c)]
    /\ attempt' = [attempt EXCEPT ![Home[c]] = IF @ = c THEN None ELSE @]
    /\ Broadcast(Home[c])

CanAttempt(c) == Head(queue[Home[c]]) = c /\ attempt[Home[c]] = None

\* the lease may be published: the process-local state agrees with the files
CanPublish(c) == /\ attempt[Home[c]] = c
                 /\ Head(queue[Home[c]]) = c
                 /\ ~writer[Home[c]]
                 /\ req[c].mode = "EX" => readers[Home[c]] = 0

HasNative(c) == turn[c] # "none" \/ rw[c] # "none"

-------------------------------------------------------------------------------
(* Acquisition. *)

Acquire(c, m, k) ==
    /\ pc[c] = "idle" /\ ~closed[Home[c]] /\ uses[c] < MaxUses
    /\ pc' = [pc EXCEPT ![c] = "queued"]
    /\ req' = [req EXCEPT ![c] = [NoRequest EXCEPT !.mode = m, !.kind = k]]
    /\ uses' = [uses EXCEPT ![c] = @ + 1]
    /\ queue' = [queue EXCEPT ![Home[c]] = Append(@, c)]
    /\ UNCHANGED <<native, attempt, asleep, account, closed>>

BeginAttempt(c) ==
    /\ pc[c] = "queued" /\ c \notin asleep /\ CanAttempt(c)
    /\ attempt' = [attempt EXCEPT ![Home[c]] = c]
    /\ Goto(c, "turn")
    /\ UNCHANGED <<native, uses, queue, asleep, account, closed>>

\* A waiter that cannot attempt waits on the condition; the test and the wait
\* are one section, the token is read inside it.
Sleep(c) ==
    /\ c \notin asleep /\ req[c].kind # "try" /\ ~Cancelled(c)
    /\ \/ pc[c] = "queued" /\ ~CanAttempt(c)
       \/ pc[c] = "ready" /\ ~CanPublish(c)
    /\ asleep' = asleep \cup {c}
    /\ UNCHANGED <<native, uses, pc, req, queue, attempt, account, closed>>

\* The deadline ends a timed wait, even of a sleeper; a token must be told.
MayStop(c) == \/ req[c].kind = "timed"
              \/ Cancelled(c) /\ c \notin asleep

GiveUpQueued(c) ==
    /\ pc[c] = "queued"
    /\ MayStop(c) \/ (req[c].kind = "try" /\ ~CanAttempt(c))
    /\ RemoveWaiter(c)
    /\ Goto(c, "idle")
    /\ UNCHANGED <<native, uses, account, closed>>

TakeTurn(c) ==
    /\ pc[c] = "turn" /\ Compatible(turn, c, TurnMode(req[c].mode))
    /\ turn' = [turn EXCEPT ![c] = TurnMode(req[c].mode)]
    /\ Goto(c, "rw")
    /\ UNCHANGED <<rw, uses, queue, attempt, asleep, account, closed>>

MutantTakeRw(c) ==
    /\ pc[c] = "rw" /\ Compatible(rw, c, "SH")
    /\ rw' = [rw EXCEPT ![c] = req[c].mode]
    /\ Goto(c, IF req[c].mode = "SH" THEN "drop" ELSE "ready")
    /\ UNCHANGED <<turn, uses, queue, attempt, asleep, account, closed>>
TakeRw(c) ==
    /\ pc[c] = "rw" /\ Compatible(rw, c, req[c].mode)
    /\ rw' = [rw EXCEPT ![c] = req[c].mode]
    /\ Goto(c, IF req[c].mode = "SH" THEN "drop" ELSE "ready")
    /\ UNCHANGED <<turn, uses, queue, attempt, asleep, account, closed>>

DropTurn(c) ==
    /\ pc[c] = "drop"
    /\ turn' = [turn EXCEPT ![c] = "none"]
    /\ Goto(c, "ready")
    /\ UNCHANGED <<rw, uses, queue, attempt, asleep, account, closed>>

Publish(c) ==
    /\ pc[c] = "ready" /\ c \notin asleep /\ CanPublish(c)
    /\ RemoveWaiter(c)
    /\ IF req[c].mode = "SH"
         THEN readers' = [readers EXCEPT ![Home[c]] = @ + 1] /\ UNCHANGED writer
         ELSE writer' = [writer EXCEPT ![Home[c]] = TRUE] /\ UNCHANGED readers
    /\ Goto(c, "held")
    /\ UNCHANGED <<native, uses, pending, closed>>

-------------------------------------------------------------------------------
(* Rollback of an attempt, and leases that only clean up. *)

\* The attempt ends without a lease: a native call failed, a busy file met a
\* try, or the caller stops.  A busy file may always be a failing one.
Ends(c) == \/ pc[c] \in {"turn", "rw", "drop"}
           \/ pc[c] = "ready" /\ (MayStop(c) \/ (req[c].kind = "try" /\ ~CanPublish(c)))

Discard(c) ==
    /\ RemoveWaiter(c)
    /\ IF HasNative(c)
         THEN /\ pending' = [pending EXCEPT ![Home[c]] = @ + 1]
              /\ Goto(c, "undo")
         ELSE /\ Goto(c, "idle")
              /\ UNCHANGED pending
    /\ UNCHANGED <<native, uses, readers, writer, closed>>

AbortAttempt(c) == pc[c] \in Attempting /\ Ends(c) /\ Discard(c)

\* The caller could not enter the registry, or its wait failed: the waiter stays
\* in the queue with a lease that only cleans up.
AbortRefused(c) ==
    /\ pc[c] = "queued" \/ (pc[c] \in Attempting /\ Ends(c))
    /\ Goto(c, "retained")
    /\ asleep' = asleep \ {c}
    /\ UNCHANGED <<native, uses, queue, attempt, account, closed>>

DetachRetained(c) == pc[c] = "retained" /\ Discard(c)

UndoRw(c) ==
    /\ pc[c] = "undo" /\ rw[c] # "none"
    /\ rw' = [rw EXCEPT ![c] = "none"]
    /\ UNCHANGED <<turn, uses, pc, req, queue, attempt, asleep, account, closed>>

UndoTurn(c) ==
    /\ pc[c] = "undo" /\ rw[c] = "none" /\ turn[c] # "none"
    /\ turn' = [turn EXCEPT ![c] = "none"]
    /\ UNCHANGED <<rw, uses, pc, req, queue, attempt, asleep, account, closed>>

MutantSettle(c) ==
    /\ pc[c] = "undo" /\ rw[c] = "none"
    /\ pending' = [pending EXCEPT ![Home[c]] = @ - 1]
    /\ Goto(c, IF turn[c] = "none" THEN "idle" ELSE "undo")
    /\ Broadcast(Home[c])
    /\ UNCHANGED <<native, uses, queue, attempt, readers, writer, closed>>
Settle(c) ==
    /\ pc[c] = "undo" /\ ~HasNative(c)
    /\ pending' = [pending EXCEPT ![Home[c]] = @ - 1]
    /\ Goto(c, "idle")
    /\ Broadcast(Home[c])
    /\ UNCHANGED <<native, uses, queue, attempt, readers, writer, closed>>

-------------------------------------------------------------------------------
(* Release: .rw, then .turn, then the accounting. *)

Release(c) ==
    /\ pc[c] = "held"
    /\ rw' = [rw EXCEPT ![c] = "none"]
    /\ Goto(c, IF req[c].mode = "EX" THEN "unturn" ELSE "account")
    /\ UNCHANGED <<turn, uses, queue, attempt, asleep, account, closed>>

UnlockTurn(c) ==
    /\ pc[c] = "unturn"
    /\ turn' = [turn EXCEPT ![c] = "none"]
    /\ Goto(c, "account")
    /\ UNCHANGED <<rw, uses, queue, attempt, asleep, account, closed>>

\* releasing .turn failed: the critical section is over all the same
TurnKept(c) ==
    /\ pc[c] = "unturn"
    /\ Goto(c, "account")
    /\ UNCHANGED <<native, uses, queue, attempt, asleep, account, closed>>

Account(c) ==
    /\ pc[c] = "account"
    /\ IF req[c].mode = "SH"
         THEN readers' = [readers EXCEPT ![Home[c]] = @ - 1] /\ UNCHANGED writer
         ELSE writer' = [writer EXCEPT ![Home[c]] = FALSE] /\ UNCHANGED readers
    /\ IF HasNative(c)
         THEN pending' = [pending EXCEPT ![Home[c]] = @ + 1] /\ Goto(c, "undo")
         ELSE Goto(c, "idle") /\ UNCHANGED pending
    /\ Broadcast(Home[c])
    /\ UNCHANGED <<native, uses, queue, attempt, closed>>

-------------------------------------------------------------------------------
(* Cancellation stores the token outside the mutex and broadcasts inside. *)

StoreToken(c) ==
    /\ req[c].kind = "token" /\ req[c].cancel = "no" /\ pc[c] \notin {"idle", "held"}
    /\ req' = [req EXCEPT ![c].cancel = "stored"]
    /\ UNCHANGED <<native, uses, pc, queue, attempt, asleep, account, closed>>

TellWaiters(c) ==
    /\ req[c].cancel = "stored"
    /\ req' = [req EXCEPT ![c].cancel = "told"]
    /\ Broadcast(Home[c])
    /\ UNCHANGED <<native, uses, pc, queue, attempt, account, closed>>

MutantFreeRegistry(p) ==
    /\ ~closed[p]
    /\ queue[p] = <<>> /\ attempt[p] = None
    /\ readers[p] = 0 /\ ~writer[p]
    /\ closed' = [closed EXCEPT ![p] = TRUE]
    /\ UNCHANGED <<native, uses, pc, req, queue, attempt, asleep, account>>
FreeRegistry(p) ==
    /\ ~closed[p]
    /\ queue[p] = <<>> /\ attempt[p] = None
    /\ readers[p] = 0 /\ ~writer[p] /\ pending[p] = 0
    /\ closed' = [closed EXCEPT ![p] = TRUE]
    /\ UNCHANGED <<native, uses, pc, req, queue, attempt, asleep, account>>

\* A process dies and another takes its place: the kernel drops its flocks.
Crash(p) ==
    /\ turn' = [c \in Caller |-> IF c \in Local(p) THEN "none" ELSE turn[c]]
    /\ rw' = [c \in Caller |-> IF c \in Local(p) THEN "none" ELSE rw[c]]
    /\ pc' = [c \in Caller |-> IF c \in Local(p) THEN "idle" ELSE pc[c]]
    /\ req' = [c \in Caller |-> IF c \in Local(p) THEN NoRequest ELSE req[c]]
    /\ queue' = [queue EXCEPT ![p] = <<>>] /\ attempt' = [attempt EXCEPT ![p] = None]
    /\ asleep' = asleep \ Local(p)
    /\ readers' = [readers EXCEPT ![p] = 0] /\ writer' = [writer EXCEPT ![p] = FALSE]
    /\ pending' = [pending EXCEPT ![p] = 0]
    /\ closed' = [closed EXCEPT ![p] = FALSE]
    /\ UNCHANGED uses

-------------------------------------------------------------------------------
\* what the threads of the registry and the release loops of its callers do
\* without being asked
Progress(c) == \/ BeginAttempt(c) \/ TakeTurn(c) \/ TakeRw(c) \/ DropTurn(c) \/ Publish(c)
               \/ DetachRetained(c) \/ UndoRw(c) \/ UndoTurn(c) \/ Settle(c)
               \/ Release(c) \/ UnlockTurn(c) \/ Account(c) \/ TellWaiters(c)

Next == \/ \E c \in Caller : \/ \E m \in {"SH", "EX"}, k \in Asks[c] : Acquire(c, m, k)
                             \/ Progress(c)
                             \/ Sleep(c) \/ GiveUpQueued(c) \/ AbortAttempt(c) \/ AbortRefused(c)
                             \/ TurnKept(c) \/ StoreToken(c)
        \/ \E p \in Proc : FreeRegistry(p) \/ Crash(p)

Spec == Init /\ [][Next]_vars

\* Threads run, a busy file is polled every millisecond, a caller releases what
\* it was granted, and a try or a cancelled wait does not linger, in the queue or
\* in an attempt.  Nothing forces a deadline to pass, or a native call to fail.
MustEnd(c) == (req[c].kind = "try" \/ Cancelled(c)) /\ (GiveUpQueued(c) \/ AbortAttempt(c))
Fairness == \A c \in Caller : WF_vars(Progress(c)) /\ WF_vars(MustEnd(c))
FairSpec == Spec /\ Fairness

-------------------------------------------------------------------------------
(* Properties. *)

TypeOK == /\ turn \in [Caller -> Mode] /\ rw \in [Caller -> Mode]
          /\ pc \in [Caller -> PC]
          /\ req \in [Caller -> Request]
          /\ queue \in [Proc -> Seq(Caller)] /\ attempt \in [Proc -> Caller \cup {None}]
          /\ asleep \subseteq Caller
          /\ readers \in [Proc -> Nat] /\ writer \in [Proc -> BOOLEAN] /\ pending \in [Proc -> Nat]
          /\ closed \in [Proc -> BOOLEAN]
          /\ uses \in [Caller -> Nat]

\* A granted writer is alone: no other caller of any process holds a lease,
\* whatever was rolled back, retained or released half way before.
Exclusion == \A c, d \in Caller :
                 c # d /\ pc[c] = "held" /\ req[c].mode = "EX" => pc[d] # "held"

\* No wake-up is lost: a caller asleep on the condition could not go on if it
\* were awake, and no cancellation it was told of is still unread.
NoLostWakeup == \A c \in asleep :
                    /\ pc[c] = "queued" => ~CanAttempt(c)
                    /\ pc[c] = "ready" => ~CanPublish(c)
                    /\ ~(req[c].kind = "token" /\ req[c].cancel = "told")

\* A registry is freed only when no lease of it can still lock a file.
FreedIsQuiet == \A c \in Caller : closed[Home[c]] => pc[c] = "idle" /\ ~HasNative(c)

\* The two lock files together implement the readers-writer lock with writer
\* preference of RWLock: what is held is what is locked in .rw, and the barrier
\* is the set of writers that share .turn.
RW == INSTANCE RWLock WITH holds <- rw,
                           barrier <- {c \in Caller : turn[c] = "SH"}
ImplementsRWLock == RW!Spec

\* Every acquisition ends, with a lease or without one, and cleans up, as long
\* as those that hold leases release them; a timed wait that ends without one
\* has chosen to, no deadline comes to its help.
Served == \A c \in Caller : pc[c] \notin {"idle", "held"} ~> pc[c] \in {"idle", "held"}
===============================================================================
