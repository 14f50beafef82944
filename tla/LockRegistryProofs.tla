-------------------------- MODULE LockRegistryProofs --------------------------
(***************************************************************************)
(* Proofs about LockRegistry, for any processes and callers.  The first    *)
(* part rests on an inductive invariant over the lock files and the        *)
(* position of each caller; the second is about what a process knows by    *)
(* itself: the queue of waiters, the counts and the flag, the sleepers and *)
(* the freeing of a registry.                                              *)
(***************************************************************************)
EXTENDS LockRegistry, SequenceTheorems, FiniteSetTheorems, WellFoundedInduction, TLAPS

-------------------------------------------------------------------------------
(* The lock files. *)

\* the part of the type invariant the proofs need
NativeOK == /\ turn \in [Caller -> Mode]
            /\ rw \in [Caller -> Mode]
            /\ pc \in [Caller -> PC]
            /\ req \in [Caller -> [mode : {"SH", "EX"}, kind : Kind,
                                   cancel : {"no", "stored", "told"}]]

\* flock(2) keeps an exclusive lock alone on its file.
FlockOK == \A c, d \in Caller : c # d => /\ turn[c] = "EX" => turn[d] = "none"
                                         /\ rw[c] = "EX" => rw[d] = "none"

\* What a caller has locked follows from where it is.  The step from "rw" on
\* rests on one fact: .rw is never held exclusively without .turn.
Locked(c) ==
    /\ pc[c] \in {"idle", "queued", "turn"} => turn[c] = "none" /\ rw[c] = "none"
    /\ pc[c] = "rw" => turn[c] = TurnMode(req[c].mode) /\ rw[c] = "none"
    /\ pc[c] = "drop" => turn[c] = "EX" /\ rw[c] = "SH" /\ req[c].mode = "SH"
    /\ pc[c] \in {"ready", "held"} => /\ rw[c] = req[c].mode
                                      /\ turn[c] = IF req[c].mode = "SH" THEN "none" ELSE "SH"
    /\ pc[c] = "unturn" => turn[c] = "SH" /\ rw[c] = "none"
    /\ pc[c] = "account" => turn[c] \in {"none", "SH"} /\ rw[c] = "none"
    /\ rw[c] = "EX" => turn[c] = "SH"

LockedOK == \A c \in Caller : Locked(c)

IInv == NativeOK /\ FlockOK /\ LockedOK

LEMMA InitIInv == Init => IInv
  BY DEF Init, IInv, NativeOK, FlockOK, LockedOK, Locked, Mode, PC, Attempting, NoRequest, Kind

\* A step of one caller that changes its own locks and position only.
Moves(c) == /\ \A d \in Caller \ {c} : turn'[d] = turn[d] /\ rw'[d] = rw[d]
                                       /\ pc'[d] = pc[d] /\ req'[d].mode = req[d].mode
            /\ NativeOK'

LEMMA MoveKeeps ==
  ASSUME IInv, NEW c \in Caller, Moves(c), Locked(c)',
         \A d \in Caller \ {c} :
            /\ turn'[c] = "EX" => turn[d] = "none"
            /\ turn[d] = "EX" => turn'[c] = "none"
            /\ rw'[c] = "EX" => rw[d] = "none"
            /\ rw[d] = "EX" => rw'[c] = "none"
  PROVE  IInv'
<1>1. FlockOK'
  BY DEF IInv, FlockOK, Moves
<1>2. ASSUME NEW d \in Caller PROVE Locked(d)'
  <2>1. CASE d = c
    BY <2>1
  <2>2. CASE d # c
    BY <2>2 DEF IInv, LockedOK, Locked, Moves, TurnMode
  <2>3. QED BY <2>1, <2>2
<1>3. QED BY <1>1, <1>2 DEF IInv, LockedOK, Moves

\* A step of c that locks and unlocks nothing.
LEMMA QuietKeeps ==
  ASSUME IInv, NEW c \in Caller, UNCHANGED native, Moves(c), Locked(c)'
  PROVE  IInv'
  BY MoveKeeps DEF IInv, FlockOK, native

LEMMA DiscardKeeps ==
  ASSUME IInv, NEW c \in Caller, Discard(c)
  PROVE  IInv'
<1>1. NativeOK /\ Locked(c)
  BY DEF LockedOK, IInv
<1>2. UNCHANGED native
  BY DEF Discard
<1>3. CASE HasNative(c)
  <2>1. Goto(c, "undo")
    BY <1>3 DEF Discard
  <2>2. Moves(c)
    BY <1>1, <1>2, <2>1 DEF Moves, NativeOK, PC, native, Goto
  <2>3. Locked(c)'
    BY <1>1, <1>2, <2>1 DEF Locked, NativeOK, native, Goto
  <2>4. QED BY <1>2, <2>2, <2>3, QuietKeeps
<1>4. CASE ~HasNative(c)
  <2>1. Goto(c, "idle")
    BY <1>4 DEF Discard
  <2>2. Moves(c)
    BY <1>1, <1>2, <2>1 DEF Moves, NativeOK, PC, native, Goto, NoRequest, Kind
  <2>3. Locked(c)'
    BY <1>1, <1>2, <1>4, <2>1 DEF Locked, NativeOK, native, Goto, HasNative
  <2>4. QED BY <1>2, <2>2, <2>3, QuietKeeps
<1>5. QED BY <1>3, <1>4

LEMMA ActsKeep ==
  ASSUME IInv, NEW c \in Caller
  PROVE  /\ \A m \in {"SH", "EX"}, k \in Asks[c] : Acquire(c, m, k) => IInv'
         /\ BeginAttempt(c) => IInv'
         /\ Sleep(c) => IInv'
         /\ GiveUpQueued(c) => IInv'
         /\ AbortAttempt(c) => IInv'
         /\ AbortRefused(c) => IInv'
         /\ DetachRetained(c) => IInv'
         /\ Settle(c) => IInv'
         /\ TurnKept(c) => IInv'
         /\ Account(c) => IInv'
         /\ StoreToken(c) => IInv'
         /\ TellWaiters(c) => IInv'
         /\ Publish(c) => IInv'
         /\ TakeTurn(c) => IInv'
         /\ TakeRw(c) => IInv'
         /\ DropTurn(c) => IInv'
         /\ UndoRw(c) => IInv'
         /\ UndoTurn(c) => IInv'
         /\ Release(c) => IInv'
         /\ UnlockTurn(c) => IInv'
<1> USE DEF IInv
<1>1. NativeOK /\ Locked(c)
  BY DEF LockedOK
<1>acq. ASSUME NEW m \in {"SH", "EX"}, NEW k \in Asks[c], Acquire(c, m, k) PROVE IInv'
  <2>1. Moves(c)
    BY <1>acq, AsksAssumption DEF Acquire, Moves, NativeOK, PC, native, NoRequest, Kind
  <2>2. Locked(c)'
    BY <1>acq, <1>1 DEF Acquire, Locked, native, NativeOK
  <2>3. QED BY <2>1, <2>2, <1>acq, QuietKeeps DEF Acquire
<1>BeginAttempt. ASSUME BeginAttempt(c) PROVE IInv'
  <2>1. Moves(c)
    BY <1>BeginAttempt DEF BeginAttempt, Moves, NativeOK, PC, Attempting, native, Goto, NoRequest, Kind, account
  <2>2. Locked(c)'
    BY <1>BeginAttempt, <1>1 DEF BeginAttempt, Locked, native, NativeOK, Goto, Attempting, account
  <2>3. QED BY <2>1, <2>2, <1>BeginAttempt, QuietKeeps DEF BeginAttempt
<1>Sleep. ASSUME Sleep(c) PROVE IInv'
  <2>1. Moves(c)
    BY <1>Sleep DEF Sleep, Moves, NativeOK, PC, Attempting, native, Goto, NoRequest, Kind, account
  <2>2. Locked(c)'
    BY <1>Sleep, <1>1 DEF Sleep, Locked, native, NativeOK, Goto, Attempting, account
  <2>3. QED BY <2>1, <2>2, <1>Sleep, QuietKeeps DEF Sleep
<1>GiveUpQueued. ASSUME GiveUpQueued(c) PROVE IInv'
  <2>1. Moves(c)
    BY <1>GiveUpQueued DEF GiveUpQueued, Moves, NativeOK, PC, Attempting, native, Goto, NoRequest, Kind
  <2>2. Locked(c)'
    BY <1>GiveUpQueued, <1>1 DEF GiveUpQueued, Locked, native, NativeOK, Goto, Attempting
  <2>3. QED BY <2>1, <2>2, <1>GiveUpQueued, QuietKeeps DEF GiveUpQueued
<1>AbortAttempt. ASSUME AbortAttempt(c) PROVE IInv'
  BY <1>AbortAttempt, DiscardKeeps DEF AbortAttempt
<1>AbortRefused. ASSUME AbortRefused(c) PROVE IInv'
  <2>1. Moves(c)
    BY <1>AbortRefused DEF AbortRefused, Moves, NativeOK, PC, Attempting, native, Goto, NoRequest, Kind, account
  <2>2. Locked(c)'
    BY <1>AbortRefused, <1>1 DEF AbortRefused, Locked, native, NativeOK, Goto, Attempting, account
  <2>3. QED BY <2>1, <2>2, <1>AbortRefused, QuietKeeps DEF AbortRefused
<1>DetachRetained. ASSUME DetachRetained(c) PROVE IInv'
  BY <1>DetachRetained, DiscardKeeps DEF DetachRetained
<1>Settle. ASSUME Settle(c) PROVE IInv'
  <2>1. Moves(c)
    BY <1>Settle DEF Settle, Moves, NativeOK, PC, Attempting, native, Goto, NoRequest, Kind, HasNative
  <2>2. Locked(c)'
    BY <1>Settle, <1>1 DEF Settle, Locked, native, NativeOK, Goto, Attempting, HasNative
  <2>3. QED BY <2>1, <2>2, <1>Settle, QuietKeeps DEF Settle
<1>TurnKept. ASSUME TurnKept(c) PROVE IInv'
  <2>1. Moves(c)
    BY <1>TurnKept DEF TurnKept, Moves, NativeOK, PC, Attempting, native, Goto, NoRequest, Kind, account
  <2>2. Locked(c)'
    BY <1>TurnKept, <1>1 DEF TurnKept, Locked, native, NativeOK, Goto, Attempting, account
  <2>3. QED BY <2>1, <2>2, <1>TurnKept, QuietKeeps DEF TurnKept
<1>Account. ASSUME Account(c) PROVE IInv'
  <2>1. Moves(c)
    BY <1>Account DEF Account, Moves, NativeOK, PC, Attempting, native, Goto, NoRequest, Kind, HasNative, account
  <2>2. Locked(c)'
    BY <1>Account, <1>1 DEF Account, Locked, native, NativeOK, Goto, Attempting, HasNative, account
  <2>3. QED BY <2>1, <2>2, <1>Account, QuietKeeps DEF Account
<1>StoreToken. ASSUME StoreToken(c) PROVE IInv'
  <2>1. Moves(c)
    BY <1>StoreToken DEF StoreToken, Moves, NativeOK, PC, Attempting, native, Goto, NoRequest, Kind
  <2>2. Locked(c)'
    BY <1>StoreToken, <1>1 DEF StoreToken, Locked, native, NativeOK, Goto, Attempting
  <2>3. QED BY <2>1, <2>2, <1>StoreToken, QuietKeeps DEF StoreToken
<1>TellWaiters. ASSUME TellWaiters(c) PROVE IInv'
  <2>1. Moves(c)
    BY <1>TellWaiters DEF TellWaiters, Moves, NativeOK, PC, Attempting, native, Goto, NoRequest, Kind
  <2>2. Locked(c)'
    BY <1>TellWaiters, <1>1 DEF TellWaiters, Locked, native, NativeOK, Goto, Attempting
  <2>3. QED BY <2>1, <2>2, <1>TellWaiters, QuietKeeps DEF TellWaiters
<1>Publish. ASSUME Publish(c) PROVE IInv'
  <2>1. Moves(c)
    BY <1>Publish DEF Publish, Moves, NativeOK, PC, Attempting, native, Goto, NoRequest, Kind, account
  <2>2. Locked(c)'
    BY <1>Publish, <1>1 DEF Publish, Locked, native, NativeOK, Goto, Attempting, account
  <2>3. QED BY <2>1, <2>2, <1>Publish, QuietKeeps DEF Publish
<1>TakeTurn. ASSUME TakeTurn(c) PROVE IInv'
  <2>1. Moves(c)
    BY <1>TakeTurn DEF TakeTurn, Moves, NativeOK, PC, Attempting, Goto, Mode, TurnMode, NoRequest
  <2>2. Locked(c)'
    BY <1>TakeTurn, <1>1 DEF TakeTurn, Locked, NativeOK, Goto, TurnMode
  <2>3. QED BY <2>1, <2>2, <1>TakeTurn, MoveKeeps DEF TakeTurn, FlockOK, Compatible, NativeOK, TurnMode, Mode
<1>TakeRw. ASSUME TakeRw(c) PROVE IInv'
  <2>1. Moves(c)
    BY <1>TakeRw DEF TakeRw, Moves, NativeOK, PC, Attempting, Goto, Mode, TurnMode, NoRequest
  <2>2. Locked(c)'
    BY <1>TakeRw, <1>1 DEF TakeRw, Locked, NativeOK, Goto, TurnMode
  <2>3. QED BY <2>1, <2>2, <1>TakeRw, MoveKeeps DEF TakeRw, FlockOK, Compatible, NativeOK, TurnMode, Mode
<1>DropTurn. ASSUME DropTurn(c) PROVE IInv'
  <2>1. Moves(c)
    BY <1>DropTurn DEF DropTurn, Moves, NativeOK, PC, Attempting, Goto, Mode, TurnMode, NoRequest
  <2>2. Locked(c)'
    BY <1>DropTurn, <1>1 DEF DropTurn, Locked, NativeOK, Goto, TurnMode
  <2>3. QED BY <2>1, <2>2, <1>DropTurn, MoveKeeps DEF DropTurn, FlockOK, Compatible, NativeOK, TurnMode, Mode
<1>UndoRw. ASSUME UndoRw(c) PROVE IInv'
  <2>1. Moves(c)
    BY <1>UndoRw DEF UndoRw, Moves, NativeOK, PC, Attempting, Goto, Mode, TurnMode, NoRequest
  <2>2. Locked(c)'
    BY <1>UndoRw, <1>1 DEF UndoRw, Locked, NativeOK, Goto, TurnMode
  <2>3. QED BY <2>1, <2>2, <1>UndoRw, MoveKeeps DEF UndoRw, FlockOK, Compatible, NativeOK, TurnMode, Mode
<1>UndoTurn. ASSUME UndoTurn(c) PROVE IInv'
  <2>1. Moves(c)
    BY <1>UndoTurn DEF UndoTurn, Moves, NativeOK, PC, Attempting, Goto, Mode, TurnMode, NoRequest
  <2>2. Locked(c)'
    BY <1>UndoTurn, <1>1 DEF UndoTurn, Locked, NativeOK, Goto, TurnMode
  <2>3. QED BY <2>1, <2>2, <1>UndoTurn, MoveKeeps DEF UndoTurn, FlockOK, Compatible, NativeOK, TurnMode, Mode
<1>Release. ASSUME Release(c) PROVE IInv'
  <2>1. Moves(c)
    BY <1>Release DEF Release, Moves, NativeOK, PC, Attempting, Goto, Mode, TurnMode, NoRequest
  <2>2. Locked(c)'
    BY <1>Release, <1>1 DEF Release, Locked, NativeOK, Goto, TurnMode
  <2>3. QED BY <2>1, <2>2, <1>Release, MoveKeeps DEF Release, FlockOK, Compatible, NativeOK, TurnMode, Mode
<1>UnlockTurn. ASSUME UnlockTurn(c) PROVE IInv'
  <2>1. Moves(c)
    BY <1>UnlockTurn DEF UnlockTurn, Moves, NativeOK, PC, Attempting, Goto, Mode, TurnMode, NoRequest
  <2>2. Locked(c)'
    BY <1>UnlockTurn, <1>1 DEF UnlockTurn, Locked, NativeOK, Goto, TurnMode
  <2>3. QED BY <2>1, <2>2, <1>UnlockTurn, MoveKeeps DEF UnlockTurn, FlockOK, Compatible, NativeOK, TurnMode, Mode
<1>q. QED BY <1>acq, <1>BeginAttempt, <1>Sleep, <1>GiveUpQueued, <1>AbortAttempt, <1>AbortRefused, <1>DetachRetained, <1>Settle, <1>TurnKept, <1>Account, <1>StoreToken, <1>TellWaiters, <1>Publish, <1>TakeTurn, <1>TakeRw, <1>DropTurn, <1>UndoRw, <1>UndoTurn, <1>Release, <1>UnlockTurn

LEMMA NextKeeps == IInv /\ [Next]_vars => IInv'
<1> SUFFICES ASSUME IInv, [Next]_vars PROVE IInv'
  OBVIOUS
<1>1. CASE UNCHANGED vars
  BY <1>1 DEF vars, IInv, NativeOK, FlockOK, LockedOK, Locked
<1>2. ASSUME NEW p \in Proc, FreeRegistry(p) PROVE IInv'
  BY <1>2 DEF FreeRegistry, native, IInv, NativeOK, FlockOK, LockedOK, Locked
<1>3. ASSUME NEW p \in Proc, Crash(p) PROVE IInv'
  <2>1. NativeOK'
    BY <1>3 DEF Crash, IInv, NativeOK, Mode, PC, Attempting, NoRequest, Kind
  <2>2. FlockOK'
    BY <1>3 DEF Crash, IInv, NativeOK, FlockOK
  <2>3. LockedOK'
    BY <1>3 DEF Crash, IInv, NativeOK, LockedOK, Locked, TurnMode
  <2>4. QED BY <2>1, <2>2, <2>3 DEF IInv
<1>4. QED BY <1>1, <1>2, <1>3, ActsKeep DEF Next, Progress

\* The invariant holds throughout.
THEOREM Invariant == Spec => []IInv
  BY InitIInv, NextKeeps, PTL DEF Spec

-------------------------------------------------------------------------------
(* Results. *)

\* Of all callers of all processes, none holds a lease next to a writer's:
\* what lock_registry.h means by a lease, through every rollback, refused
\* abort, failed release and crash.
THEOREM WriterAlone == Spec => []Exclusion
<1>1. IInv => Exclusion
  BY DEF IInv, NativeOK, FlockOK, LockedOK, Locked, Exclusion
<1>2. QED BY <1>1, Invariant, PTL

\* Every step of the registry is a step of the readers-writer lock or leaves it
\* as it is.
LEMMA StepRefines == IInv /\ [Next]_vars => [RW!Next]_(RW!rwVars)
<1> SUFFICES ASSUME IInv, [Next]_vars PROVE RW!Next \/ UNCHANGED RW!rwVars
  OBVIOUS
<1> USE DEF IInv
<1>1. CASE UNCHANGED native
  BY <1>1 DEF native, RW!rwVars
<1>2. ASSUME NEW c \in Caller, TakeTurn(c) PROVE RW!Announce(c) \/ UNCHANGED RW!rwVars
  <2>1. turn[c] = "none" /\ rw[c] = "none"
    BY <1>2 DEF TakeTurn, LockedOK, Locked
  <2>2. CASE req[c].mode = "SH"
    BY <1>2, <2>1, <2>2 DEF TakeTurn, TurnMode, NativeOK, RW!rwVars
  <2>3. CASE req[c].mode # "SH"
    BY <1>2, <2>1, <2>3 DEF TakeTurn, TurnMode, NativeOK, RW!Announce
  <2>4. QED BY <2>2, <2>3
<1>3. ASSUME NEW c \in Caller, TakeRw(c) PROVE RW!EnterShared(c) \/ RW!EnterExclusive(c)
  <2>1. turn[c] = TurnMode(req[c].mode) /\ rw[c] = "none"
    BY <1>3 DEF TakeRw, LockedOK, Locked
  <2>2. CASE req[c].mode = "SH"
    <3>1. \A d \in Caller : turn[d] # "SH"
      BY <2>1, <2>2 DEF FlockOK, TurnMode
    <3>2. QED BY <1>3, <2>1, <2>2, <3>1 DEF TakeRw, Compatible, NativeOK, RW!EnterShared
  <2>3. CASE req[c].mode = "EX"
    BY <1>3, <2>1, <2>3 DEF TakeRw, TurnMode, Compatible, NativeOK, RW!EnterExclusive
  <2>4. QED BY <2>2, <2>3 DEF NativeOK
<1>4. ASSUME NEW c \in Caller, DropTurn(c) PROVE UNCHANGED RW!rwVars
  BY <1>4 DEF DropTurn, LockedOK, Locked, NativeOK, RW!rwVars
<1>5. ASSUME NEW c \in Caller, UndoRw(c) \/ Release(c) PROVE RW!Leave(c)
  <2>1. rw[c] # "none" /\ rw' = [rw EXCEPT ![c] = "none"] /\ turn' = turn
    BY <1>5 DEF UndoRw, Release, LockedOK, Locked, NativeOK
  <2>2. QED BY <2>1 DEF RW!Leave
<1>6. ASSUME NEW c \in Caller, UndoTurn(c) \/ UnlockTurn(c)
      PROVE RW!Withdraw(c) \/ UNCHANGED RW!rwVars
  <2>1. rw[c] = "none" /\ rw' = rw /\ turn' = [turn EXCEPT ![c] = "none"]
    BY <1>6 DEF UndoTurn, UnlockTurn, LockedOK, Locked
  <2>2. CASE turn[c] = "SH"
    BY <2>1, <2>2 DEF NativeOK, RW!Withdraw
  <2>3. CASE turn[c] # "SH"
    BY <2>1, <2>3 DEF NativeOK, RW!rwVars
  <2>4. QED BY <2>2, <2>3
<1>7. ASSUME NEW p \in Proc, Crash(p) PROVE RW!Vanish(Local(p))
  BY <1>7 DEF Crash, NativeOK, Local, RW!Vanish
<1>8. ASSUME NEW c \in Caller,
             \/ \E m \in {"SH", "EX"}, k \in Asks[c] : Acquire(c, m, k)
             \/ BeginAttempt(c) \/ Publish(c) \/ DetachRetained(c) \/ Settle(c)
             \/ Account(c) \/ GiveUpQueued(c) \/ TellWaiters(c) \/ Sleep(c)
             \/ AbortAttempt(c) \/ AbortRefused(c) \/ TurnKept(c) \/ StoreToken(c)
      PROVE UNCHANGED native
  BY <1>8 DEF Acquire, BeginAttempt, Publish, DetachRetained, Settle, Account, GiveUpQueued,
              TellWaiters, Sleep, AbortAttempt, AbortRefused, TurnKept, StoreToken, Discard
<1>9. ASSUME NEW p \in Proc, FreeRegistry(p) PROVE UNCHANGED native
  BY <1>9 DEF FreeRegistry
<1>10. ASSUME NEW p \in Proc, Crash(p) PROVE RW!Next
  BY <1>7, <1>10 DEF RW!Next, Local
<1>11. CASE UNCHANGED vars
  BY <1>1, <1>11 DEF vars, native
<1>12. QED BY <1>1, <1>2, <1>3, <1>4, <1>5, <1>6, <1>8, <1>9, <1>10, <1>11 DEF Next, Progress, RW!Next

\* Two lock files per resource implement a readers-writer lock with writer
\* preference, for any number of processes and callers.
THEOREM FilesImplementRWLock == Spec => ImplementsRWLock
<1>1. Init => RW!Init
  BY DEF Init, RW!Init
<1>2. QED BY <1>1, StepRefines, Invariant, PTL DEF Spec, ImplementsRWLock, RW!Spec

-------------------------------------------------------------------------------
(* Queues and counts. *)

Has(q, c) == \E i \in 1 .. Len(q) : q[i] = c

\* A non-empty set of naturals has a least member: RemoveFirst names one.
LEMMA LeastExists ==
  ASSUME NEW I \in SUBSET Nat, I # {}
  PROVE  \E x \in I : \A y \in I : x <= y
<1> DEFINE R == OpToRel(<, Nat)
<1>1. PICK x \in I : \A y \in I : ~ (<<y, x>> \in R)
  BY NatLessThanWellFounded, WFMin
<1>2. ASSUME NEW y \in I PROVE x <= y
  <2>1. y \in Nat /\ x \in Nat /\ ~ (<<y, x>> \in R)
    BY <1>1
  <2>2. <<y, x>> \in R <=> y < x
    BY <2>1 DEF OpToRel
  <2> HIDE DEF R
  <2>3. QED BY <2>1, <2>2
<1>3. QED BY <1>2

\* Removing c from a queue leaves a queue, with every other waiter in it.
LEMMA WithoutKeeps ==
  ASSUME NEW S, NEW q \in Seq(S), NEW c
  PROVE  /\ Without(q, c) \in Seq(S)
         /\ \A d \in S : d # c /\ Has(q, d) => Has(Without(q, c), d)
<1>1. CASE ~\E i \in 1 .. Len(q) : q[i] = c
  BY <1>1 DEF Without, RemoveFirst
<1>2. CASE \E i \in 1 .. Len(q) : q[i] = c
  <2> DEFINE I == {i \in 1 .. Len(q) : q[i] = c}
             k == Min(I)
             a == SubSeq(q, 1, k - 1)
             b == SubSeq(q, k + 1, Len(q))
  <2>1. k \in 1 .. Len(q) /\ q[k] = c
    <3>1. I # {} /\ I \in SUBSET Nat
      BY <1>2
    <3>2. \E x \in I : \A y \in I : x <= y
      BY <3>1, LeastExists
    <3>3. k \in I
      BY <3>2 DEF Min
    <3>4. QED BY <3>3
  <2>2. Without(q, c) = a \o b
    BY <1>2 DEF Without, RemoveFirst, RemoveAt, SelectInSeq
  <2> HIDE DEF k
  <2>3. /\ a \in Seq(S) /\ Len(a) = k - 1 
        /\ \A i \in 1 .. k - 1 : a[i] = q[i]
    BY <2>1, SubSeqProperties, ElementOfSeq
  <2>4. /\ b \in Seq(S) /\ Len(b) = Len(q) - k
        /\ \A i \in 1 .. Len(q) - k : b[i] = q[k + i]
    BY <2>1, SubSeqProperties, ElementOfSeq
  <2> HIDE DEF a, b
  <2>5. /\ a \o b \in Seq(S) /\ Len(a \o b) = Len(a) + Len(b)
        /\ \A i \in 1 .. Len(a) + Len(b) : (a \o b)[i] = IF i <= Len(a) THEN a[i] ELSE b[i - Len(a)]
    BY <2>3, <2>4, ConcatProperties
  <2>6. ASSUME NEW d \in S, d # c, NEW i \in 1 .. Len(q), q[i] = d PROVE Has(a \o b, d)
    <3>1. CASE i < k
      <4>1. i \in 1 .. Len(a) + Len(b) /\ i <= Len(a) /\ i \in 1 .. k - 1
        BY <3>1, <2>1, <2>3, <2>4
      <4>2. (a \o b)[i] = d
        BY <4>1, <2>3, <2>5, <2>6
      <4>3. QED BY <4>1, <4>2, <2>5 DEF Has
    <3>2. CASE i > k
      <4>1. i - 1 \in 1 .. Len(a) + Len(b) /\ i - k \in 1 .. Len(q) - k
        BY <3>2, <2>1, <2>3, <2>4
      <4>2. (a \o b)[i - 1] = b[i - k]
        <5>1. ~(i - 1 <= Len(a)) /\ (i - 1) - Len(a) = i - k
          BY <3>2, <2>1, <2>3
        <5>2. QED BY <4>1, <5>1, <2>5
      <4>3. b[i - k] = q[k + (i - k)] /\ k + (i - k) = i
        BY <4>1, <2>1, <2>4
      <4>4. (a \o b)[i - 1] = d
        BY <4>2, <4>3, <2>6
      <4>5. QED BY <4>1, <4>4, <2>5 DEF Has
    <3>3. QED BY <3>1, <3>2, <2>1, <2>6
  <2>7. QED BY <2>2, <2>5, <2>6 DEF Has
<1>3. QED BY <1>1, <1>2

\* f counts, process by process, the members of S.
Counts(f, S) == /\ f \in [Proc -> Nat]
                /\ \A p \in Proc : /\ IsFiniteSet(S \cap Local(p))
                                   /\ f[p] = Cardinality(S \cap Local(p))

LEMMA CountMore ==
  ASSUME NEW f, NEW S \in SUBSET Caller, NEW c \in Caller, c \notin S, Counts(f, S)
  PROVE  Counts([f EXCEPT ![Home[c]] = @ + 1], S \cup {c})
<1> DEFINE g == [f EXCEPT ![Home[c]] = @ + 1]
<1>1. Home[c] \in Proc /\ f \in [Proc -> Nat]
  BY HomeAssumption DEF Counts
<1>2. g \in [Proc -> Nat]
  BY <1>1
<1>3. ASSUME NEW p \in Proc
      PROVE  IsFiniteSet((S \cup {c}) \cap Local(p)) /\ g[p] = Cardinality((S \cup {c}) \cap Local(p))
  <2>1. IsFiniteSet(S \cap Local(p)) /\ f[p] = Cardinality(S \cap Local(p))
    BY DEF Counts
  <2>2. CASE p = Home[c]
    <3>1. (S \cup {c}) \cap Local(p) = (S \cap Local(p)) \cup {c}
      BY <2>2 DEF Local
    <3>2. c \notin S \cap Local(p)
      OBVIOUS
    <3>3. g[p] = f[p] + 1
      BY <1>1, <2>2
    <3>4. QED BY <2>1, <3>1, <3>2, <3>3, FS_AddElement
  <2>3. CASE p # Home[c]
    <3>1. (S \cup {c}) \cap Local(p) = S \cap Local(p)
      BY <2>3 DEF Local
    <3>2. g[p] = f[p]
      BY <1>1, <2>3
    <3>3. QED BY <2>1, <3>1, <3>2
  <2>4. QED BY <2>2, <2>3
<1>4. QED BY <1>2, <1>3 DEF Counts

LEMMA CountLess ==
  ASSUME NEW f, NEW S \in SUBSET Caller, NEW c \in S, Counts(f, S)
  PROVE  Counts([f EXCEPT ![Home[c]] = @ - 1], S \ {c})
<1> DEFINE g == [f EXCEPT ![Home[c]] = @ - 1]
<1>1. c \in Caller /\ Home[c] \in Proc /\ f \in [Proc -> Nat]
  BY HomeAssumption DEF Counts
<1>2. ASSUME NEW p \in Proc
      PROVE  /\ IsFiniteSet((S \ {c}) \cap Local(p))
             /\ g[p] = Cardinality((S \ {c}) \cap Local(p))
             /\ g[p] \in Nat
  <2>1. /\ IsFiniteSet(S \cap Local(p)) /\ f[p] = Cardinality(S \cap Local(p))
        /\ f[p] \in Nat
    BY <1>1 DEF Counts
  <2>2. CASE p = Home[c]
    <3>1. (S \ {c}) \cap Local(p) = (S \cap Local(p)) \ {c}
      OBVIOUS
    <3>2. c \in S \cap Local(p)
      BY <1>1, <2>2 DEF Local
    <3>3. g[p] = f[p] - 1
      BY <1>1, <2>2
    <3>4. /\ IsFiniteSet((S \ {c}) \cap Local(p))
          /\ Cardinality((S \ {c}) \cap Local(p)) = f[p] - 1
      BY <2>1, <3>1, <3>2, FS_RemoveElement
    <3>5. Cardinality((S \ {c}) \cap Local(p)) \in Nat
      BY <3>4, FS_CardinalityType
    <3>6. QED BY <3>3, <3>4, <3>5
  <2>3. CASE p # Home[c]
    <3>1. (S \ {c}) \cap Local(p) = S \cap Local(p)
      BY <2>3 DEF Local
    <3>2. g[p] = f[p]
      BY <1>1, <2>3
    <3>3. QED BY <2>1, <3>1, <3>2
  <2>4. QED BY <2>2, <2>3
<1>3. g \in [Proc -> Nat]
  BY <1>1, <1>2
<1>4. QED BY <1>2, <1>3 DEF Counts

\* A process whose callers all died counts nothing.
LEMMA CountNone ==
  ASSUME NEW f, NEW S, NEW p \in Proc, Counts(f, S)
  PROVE  Counts([f EXCEPT ![p] = 0], S \ Local(p))
<1>1. ASSUME NEW r \in Proc
      PROVE  /\ IsFiniteSet((S \ Local(p)) \cap Local(r))
             /\ [f EXCEPT ![p] = 0][r] = Cardinality((S \ Local(p)) \cap Local(r))
  <2>1. CASE r = p
    <3>1. (S \ Local(p)) \cap Local(r) = {}
      BY <2>1
    <3>2. QED BY <2>1, <3>1, FS_EmptySet DEF Counts
  <2>2. CASE r # p
    <3>1. (S \ Local(p)) \cap Local(r) = S \cap Local(r)
      BY <2>2 DEF Local
    <3>2. QED BY <2>2, <3>1 DEF Counts
  <2>3. QED BY <2>1, <2>2
<1>2. QED BY <1>1 DEF Counts

-------------------------------------------------------------------------------
(* The invariant. *)

Waits == {"queued", "retained"} \cup Attempting
Leased == {"held", "unturn", "account"}

Waiters == {c \in Caller : pc[c] \in Waits}
Readers == {c \in Caller : pc[c] \in Leased /\ req[c].mode = "SH"}
Writers == {c \in Caller : pc[c] \in Leased /\ req[c].mode = "EX"}
Undoers == {c \in Caller : pc[c] = "undo"}

\* every waiter is in the queue of its process
QueueOK == /\ queue \in [Proc -> Seq(Caller)]
           /\ \A c \in Waiters : Has(queue[Home[c]], c)

\* the registry counts the readers and the unfinished rollbacks it has, and its
\* flag stands for the one writer it may have
AccountOK == /\ Counts(readers, Readers)
             /\ Counts(pending, Undoers)
             /\ writer \in [Proc -> BOOLEAN]
             /\ \A c \in Writers : writer[Home[c]]
             /\ \A c, d \in Writers : Home[c] = Home[d] => c = d

\* only queued and ready waiters sleep, and none of them could go on
Sleeps(c) == /\ pc[c] \in {"queued", "ready"}
             /\ pc[c] = "queued" => ~CanAttempt(c)
             /\ pc[c] = "ready" => ~CanPublish(c)
             /\ ~(req[c].kind = "token" /\ req[c].cancel = "told")
SleepOK == /\ attempt \in [Proc -> Caller \cup {None}]
           /\ asleep \subseteq Caller
           /\ \A c \in asleep : Sleeps(c)

ClosedOK == /\ closed \in [Proc -> BOOLEAN]
            /\ \A c \in Caller : closed[Home[c]] => pc[c] = "idle"

RInv == QueueOK /\ AccountOK /\ SleepOK /\ ClosedOK

\* Nothing idle is counted or queued.
LEMMA AllStates == IInv => \A c \in Caller : \/ pc[c] = "idle" \/ c \in Waiters
                                             \/ c \in Readers \/ c \in Writers \/ c \in Undoers
  BY DEF IInv, NativeOK, PC, Waits, Leased, Waiters, Readers, Writers, Undoers

LEMMA InitRInv == Init => RInv
<1> SUFFICES ASSUME Init PROVE RInv
  OBVIOUS
<1>1. Waiters = {} /\ Readers = {} /\ Writers = {} /\ Undoers = {}
  BY DEF Init, Waiters, Readers, Writers, Undoers, Waits, Leased, Attempting
<1>2. Counts([p \in Proc |-> 0], {})
  <2>1. \A p \in Proc : {} \cap Local(p) = {}
    OBVIOUS
  <2>2. QED BY <2>1, FS_EmptySet DEF Counts
<1>3. QueueOK
  BY <1>1 DEF Init, QueueOK
<1>4. AccountOK
  BY <1>1, <1>2 DEF Init, AccountOK
<1>5. SleepOK
  BY DEF Init, SleepOK
<1>6. ClosedOK
  BY HomeAssumption DEF Init, ClosedOK
<1>7. QED BY <1>3, <1>4, <1>5, <1>6 DEF RInv

-------------------------------------------------------------------------------
(* What a step of one caller does to who waits, reads, writes and undoes. *)

\* a step within an acquisition, a release or a rollback
Onward(c) == \/ BeginAttempt(c) \/ TakeTurn(c) \/ TakeRw(c) \/ DropTurn(c)
             \/ AbortRefused(c) \/ Sleep(c) \/ UndoRw(c) \/ UndoTurn(c)
             \/ StoreToken(c) \/ Release(c) \/ UnlockTurn(c) \/ TurnKept(c)

LEMMA OnwardSame ==
  ASSUME IInv, NEW c \in Caller, Onward(c)
  PROVE  /\ Waiters' = Waiters /\ Readers' = Readers
         /\ Writers' = Writers /\ Undoers' = Undoers
         /\ UNCHANGED <<queue, account, closed>>
<1> DEFINE Kept == /\ \A d \in Caller \ {c} : pc'[d] = pc[d] /\ req'[d] = req[d]
                   /\ req'[c].mode = req[c].mode
                   /\ pc[c] \in Waits <=> pc'[c] \in Waits
                   /\ pc[c] \in Leased <=> pc'[c] \in Leased
                   /\ pc[c] = "undo" <=> pc'[c] = "undo"
                   /\ UNCHANGED <<queue, account, closed>>
<1>1. pc \in [Caller -> PC] /\ req \in [Caller -> Request]
  BY DEF IInv, NativeOK, Request
<1>2. ASSUME BeginAttempt(c) PROVE Kept
  BY <1>1, <1>2 DEF BeginAttempt, Goto, Waits, Leased, Attempting, account, Request, NoRequest
<1>3. ASSUME TakeTurn(c) PROVE Kept
  BY <1>1, <1>3 DEF TakeTurn, Goto, Waits, Leased, Attempting, account, Request, NoRequest
<1>4. ASSUME TakeRw(c) PROVE Kept
  BY <1>1, <1>4 DEF TakeRw, Goto, Waits, Leased, Attempting, account, Request, NoRequest
<1>5. ASSUME DropTurn(c) PROVE Kept
  BY <1>1, <1>5 DEF DropTurn, Goto, Waits, Leased, Attempting, account, Request, NoRequest
<1>6. ASSUME AbortRefused(c) PROVE Kept
  BY <1>1, <1>6 DEF AbortRefused, Goto, Waits, Leased, Attempting, account, Request, NoRequest, Ends
<1>7. ASSUME Sleep(c) PROVE Kept
  BY <1>1, <1>7 DEF Sleep, Goto, Waits, Leased, Attempting, account, Request, NoRequest
<1>8. ASSUME UndoRw(c) PROVE Kept
  BY <1>1, <1>8 DEF UndoRw, Goto, Waits, Leased, Attempting, account, Request, NoRequest
<1>9. ASSUME UndoTurn(c) PROVE Kept
  BY <1>1, <1>9 DEF UndoTurn, Goto, Waits, Leased, Attempting, account, Request, NoRequest
<1>10. ASSUME StoreToken(c) PROVE Kept
  BY <1>1, <1>10 DEF StoreToken, Goto, Waits, Leased, Attempting, account, Request, NoRequest
<1>11. ASSUME Release(c) PROVE Kept
  BY <1>1, <1>11 DEF Release, Goto, Waits, Leased, Attempting, account, Request, NoRequest
<1>12. ASSUME UnlockTurn(c) PROVE Kept
  BY <1>1, <1>12 DEF UnlockTurn, Goto, Waits, Leased, Attempting, account, Request, NoRequest
<1>13. ASSUME TurnKept(c) PROVE Kept
  BY <1>1, <1>13 DEF TurnKept, Goto, Waits, Leased, Attempting, account, Request, NoRequest
<1>14. Kept
  BY <1>2, <1>3, <1>4, <1>5, <1>6, <1>7, <1>8, <1>9, <1>10, <1>11, <1>12, <1>13 DEF Onward
<1>15. QED BY <1>14 DEF Waiters, Readers, Writers, Undoers

LEMMA AcquireSets ==
  ASSUME IInv, NEW c \in Caller, NEW m \in {"SH", "EX"}, NEW k \in Asks[c], Acquire(c, m, k)
  PROVE  /\ Waiters' = Waiters \cup {c}
         /\ Readers' = Readers /\ Writers' = Writers /\ Undoers' = Undoers
  BY DEF Acquire, IInv, NativeOK, Waiters, Readers, Writers, Undoers, Waits, Leased, Attempting,
         NoRequest

LEMMA GiveUpSets ==
  ASSUME IInv, NEW c \in Caller, GiveUpQueued(c)
  PROVE  /\ Waiters' = Waiters \ {c} /\ Readers' = Readers
         /\ Writers' = Writers /\ Undoers' = Undoers
  BY DEF GiveUpQueued, Goto, IInv, NativeOK, Waiters, Readers, Writers, Undoers, Waits, Leased,
         Attempting, NoRequest

LEMMA PublishSets ==
  ASSUME IInv, NEW c \in Caller, Publish(c)
  PROVE  /\ Waiters' = Waiters \ {c} /\ Undoers' = Undoers
         /\ c \notin Readers /\ c \notin Writers
         /\ req[c].mode = "SH" => Readers' = Readers \cup {c} /\ Writers' = Writers
         /\ req[c].mode # "SH" => Readers' = Readers /\ Writers' = Writers \cup {c}
  BY DEF Publish, Goto, IInv, NativeOK, Waiters, Readers, Writers, Undoers, Waits, Leased,
         Attempting

LEMMA DiscardSets ==
  ASSUME IInv, NEW c \in Caller, pc[c] \in Waits, Discard(c)
  PROVE  /\ Waiters' = Waiters \ {c} /\ Readers' = Readers /\ Writers' = Writers
         /\ c \notin Undoers
         /\ HasNative(c) => Undoers' = Undoers \cup {c}
         /\ ~HasNative(c) => Undoers' = Undoers
<1> DEFINE l == IF HasNative(c) THEN "undo" ELSE "idle"
<1>1. Goto(c, l)
  BY DEF Discard
<1>2. QED BY <1>1 DEF Goto, IInv, NativeOK, Waiters, Readers, Writers, Undoers, Waits, Leased,
                      Attempting, NoRequest

LEMMA AccountSets ==
  ASSUME IInv, NEW c \in Caller, Account(c)
  PROVE  /\ Waiters' = Waiters /\ c \notin Undoers
         /\ req[c].mode = "SH" => /\ Readers' = Readers \ {c} /\ c \in Readers
                                  /\ Writers' = Writers
         /\ req[c].mode # "SH" => /\ Readers' = Readers
                                  /\ Writers' = Writers \ {c} /\ c \in Writers
         /\ HasNative(c) => Undoers' = Undoers \cup {c}
         /\ ~HasNative(c) => Undoers' = Undoers
<1> DEFINE l == IF HasNative(c) THEN "undo" ELSE "idle"
<1>1. Goto(c, l) /\ pc[c] = "account"
  BY DEF Account
<1>2. QED BY <1>1 DEF Goto, IInv, NativeOK, Waiters, Readers, Writers, Undoers, Waits, Leased,
                      Attempting, NoRequest

LEMMA SettleSets ==
  ASSUME IInv, NEW c \in Caller, Settle(c)
  PROVE  /\ Waiters' = Waiters /\ Readers' = Readers /\ Writers' = Writers
         /\ Undoers' = Undoers \ {c} /\ c \in Undoers
  BY DEF Settle, Goto, IInv, NativeOK, Waiters, Readers, Writers, Undoers, Waits, Leased,
         Attempting, NoRequest

LEMMA TellSets ==
  ASSUME IInv, NEW c \in Caller, TellWaiters(c)
  PROVE  /\ Waiters' = Waiters /\ Readers' = Readers
         /\ Writers' = Writers /\ Undoers' = Undoers
  BY DEF TellWaiters, IInv, NativeOK, Waiters, Readers, Writers, Undoers, Waits, Leased

LEMMA CrashSets ==
  ASSUME IInv, NEW p \in Proc, Crash(p)
  PROVE  /\ Waiters' = Waiters \ Local(p) /\ Readers' = Readers \ Local(p)
         /\ Writers' = Writers \ Local(p) /\ Undoers' = Undoers \ Local(p)
  BY DEF Crash, IInv, NativeOK, Waiters, Readers, Writers, Undoers, Waits, Leased, Attempting

-------------------------------------------------------------------------------
(* Every waiter stays in its queue. *)

LEMMA QueueSame ==
  ASSUME QueueOK, queue' = queue, Waiters' \in SUBSET Waiters
  PROVE  QueueOK'
  BY DEF QueueOK

LEMMA RemoveKeepsQueue ==
  ASSUME QueueOK, NEW c \in Caller, RemoveWaiter(c), Waiters' = Waiters \ {c}
  PROVE  QueueOK'
<1>1. Home[c] \in Proc /\ queue[Home[c]] \in Seq(Caller)
  BY HomeAssumption DEF QueueOK
<1>2. queue' = [queue EXCEPT ![Home[c]] = Without(queue[Home[c]], c)]
  BY DEF RemoveWaiter
<1>3. Without(queue[Home[c]], c) \in Seq(Caller)
  BY <1>1, WithoutKeeps
<1>4. queue' \in [Proc -> Seq(Caller)]
  BY <1>2, <1>3 DEF QueueOK
<1>5. ASSUME NEW d \in Waiters' PROVE Has(queue'[Home[d]], d)
  <2>1. d \in Caller /\ d # c /\ Home[d] \in Proc /\ Has(queue[Home[d]], d)
    BY HomeAssumption DEF QueueOK, Waiters
  <2>2. CASE Home[d] = Home[c]
    <3>1. queue'[Home[d]] = Without(queue[Home[c]], c)
      BY <1>1, <1>2, <2>2 DEF QueueOK
    <3>2. QED BY <1>1, <2>1, <2>2, <3>1, WithoutKeeps
  <2>3. CASE Home[d] # Home[c]
    BY <1>2, <2>1, <2>3 DEF QueueOK
  <2>4. QED BY <2>2, <2>3
<1>6. QED BY <1>4, <1>5 DEF QueueOK

LEMMA AppendKeepsQueue ==
  ASSUME QueueOK, NEW c \in Caller, queue' = [queue EXCEPT ![Home[c]] = Append(@, c)],
         Waiters' = Waiters \cup {c}
  PROVE  QueueOK'
<1>1. /\ Home[c] \in Proc /\ queue[Home[c]] \in Seq(Caller)
      /\ queue'[Home[c]] = Append(queue[Home[c]], c)
  BY HomeAssumption DEF QueueOK
<1>2. /\ Append(queue[Home[c]], c) \in Seq(Caller)
      /\ Has(Append(queue[Home[c]], c), c)
      /\ \A d \in Caller : Has(queue[Home[c]], d) => Has(Append(queue[Home[c]], c), d)
  BY <1>1, LenProperties, AppendProperties DEF Has
<1>3. queue' \in [Proc -> Seq(Caller)]
  BY <1>2 DEF QueueOK
<1>4. ASSUME NEW d \in Waiters' PROVE Has(queue'[Home[d]], d)
  <2>1. d \in Caller /\ Home[d] \in Proc /\ (d # c => Has(queue[Home[d]], d))
    BY HomeAssumption DEF QueueOK, Waiters
  <2>2. CASE Home[d] = Home[c]
    BY <1>1, <1>2, <2>1, <2>2
  <2>3. CASE Home[d] # Home[c]
    BY <2>1, <2>3 DEF QueueOK
  <2>4. QED BY <2>2, <2>3
<1>5. QED BY <1>3, <1>4 DEF QueueOK

LEMMA CrashKeepsQueue ==
  ASSUME QueueOK, NEW p \in Proc, Crash(p), Waiters' = Waiters \ Local(p)
  PROVE  QueueOK'
<1>1. queue' = [queue EXCEPT ![p] = <<>>]
  BY DEF Crash
<1>2. queue' \in [Proc -> Seq(Caller)]
  BY <1>1, EmptySeq DEF QueueOK
<1>3. ASSUME NEW d \in Waiters' PROVE Has(queue'[Home[d]], d)
  <2>1. d \in Caller /\ Home[d] \in Proc /\ Home[d] # p /\ Has(queue[Home[d]], d)
    BY HomeAssumption DEF QueueOK, Waiters, Local
  <2>2. QED BY <1>1, <2>1 DEF QueueOK
<1>4. QED BY <1>2, <1>3 DEF QueueOK

-------------------------------------------------------------------------------
(* The accounting agrees with who holds a lease. *)

LEMMA AccountSame ==
  ASSUME AccountOK, UNCHANGED account, Readers' = Readers, Writers' = Writers,
         Undoers' = Undoers
  PROVE  AccountOK'
  BY DEF AccountOK, account

LEMMA PublishKeepsAccount ==
  ASSUME IInv, AccountOK, NEW c \in Caller, Publish(c)
  PROVE  AccountOK'
<1>1. /\ Home[c] \in Proc /\ Readers \in SUBSET Caller /\ Writers \in SUBSET Caller
      /\ ~writer[Home[c]] /\ UNCHANGED pending
  BY HomeAssumption DEF Publish, CanPublish, Readers, Writers
<1>2. CASE req[c].mode = "SH"
  <2>1. readers' = [readers EXCEPT ![Home[c]] = @ + 1] /\ writer' = writer
    BY <1>2 DEF Publish
  <2>2. Counts(readers', Readers')
    <3>1. Counts(readers, Readers) /\ c \notin Readers /\ Readers' = Readers \cup {c}
      BY <1>2, PublishSets DEF AccountOK
    <3>2. Counts([readers EXCEPT ![Home[c]] = @ + 1], Readers \cup {c})
      BY <1>1, <3>1, CountMore
    <3>3. QED BY <2>1, <3>1, <3>2
  <2>3. Writers' = Writers /\ Undoers' = Undoers
    BY <1>2, PublishSets
  <2>4. QED BY <1>1, <2>1, <2>2, <2>3 DEF AccountOK
<1>3. CASE req[c].mode # "SH"
  <2>1. readers' = readers /\ writer' = [writer EXCEPT ![Home[c]] = TRUE]
    BY <1>3 DEF Publish
  <2>2. Writers' = Writers \cup {c} /\ Undoers' = Undoers /\ Readers' = Readers
    BY <1>3, PublishSets
  <2>3. Counts(readers', Readers') /\ Counts(pending', Undoers')
    BY <1>1, <2>1, <2>2 DEF AccountOK
  <2>4. writer' \in [Proc -> BOOLEAN]
    BY <2>1 DEF AccountOK
  <2>5. \A d \in Writers : Home[d] # Home[c]
    BY <1>1 DEF AccountOK
  <2>6. \A d \in Writers' : writer'[Home[d]]
    BY <1>1, <2>1, <2>2, HomeAssumption DEF AccountOK
  <2>7. \A d, e \in Writers' : Home[d] = Home[e] => d = e
    BY <2>2, <2>5 DEF AccountOK
  <2>8. QED BY <2>3, <2>4, <2>6, <2>7 DEF AccountOK
<1>4. QED BY <1>2, <1>3

LEMMA DiscardKeepsAccount ==
  ASSUME IInv, AccountOK, NEW c \in Caller, pc[c] \in Waits, Discard(c)
  PROVE  AccountOK'
<1>1. /\ UNCHANGED <<readers, writer>> /\ Readers' = Readers /\ Writers' = Writers
      /\ Undoers \in SUBSET Caller
  BY DiscardSets DEF Discard, Undoers
<1>2. Counts(pending', Undoers')
  <2>1. CASE HasNative(c)
    BY <1>1, <2>1, DiscardSets, CountMore DEF Discard, AccountOK
  <2>2. CASE ~HasNative(c)
    BY <2>2, DiscardSets DEF Discard, AccountOK
  <2>3. QED BY <2>1, <2>2
<1>3. QED BY <1>1, <1>2 DEF AccountOK

LEMMA AccountKeepsAccount ==
  ASSUME IInv, AccountOK, NEW c \in Caller, Account(c)
  PROVE  AccountOK'
<1>1. /\ Home[c] \in Proc /\ Undoers \in SUBSET Caller /\ Readers \in SUBSET Caller
      /\ Writers \in SUBSET Caller
  BY HomeAssumption DEF Readers, Writers, Undoers
<1>2. Counts(pending', Undoers')
  <2>1. CASE HasNative(c)
    BY <1>1, <2>1, AccountSets, CountMore DEF Account, AccountOK
  <2>2. CASE ~HasNative(c)
    BY <2>2, AccountSets DEF Account, AccountOK
  <2>3. QED BY <2>1, <2>2
<1>3. CASE req[c].mode = "SH"
  <2>1. readers' = [readers EXCEPT ![Home[c]] = @ - 1] /\ writer' = writer
    BY <1>3 DEF Account
  <2>2. Readers' = Readers \ {c} /\ c \in Readers /\ Writers' = Writers
    BY <1>3, AccountSets
  <2>3. Counts(readers', Readers')
    BY <1>1, <2>1, <2>2, CountLess DEF AccountOK
  <2>4. QED BY <1>2, <2>1, <2>2, <2>3 DEF AccountOK
<1>4. CASE req[c].mode # "SH"
  <2>1. readers' = readers /\ writer' = [writer EXCEPT ![Home[c]] = FALSE]
    BY <1>4 DEF Account
  <2>2. Readers' = Readers /\ Writers' = Writers \ {c} /\ c \in Writers
    BY <1>4, AccountSets
  <2>3. Counts(readers', Readers') /\ writer' \in [Proc -> BOOLEAN]
    BY <2>1, <2>2 DEF AccountOK
  <2>4. \A d \in Writers' : Home[d] # Home[c] /\ writer[Home[d]]
    BY <2>2 DEF AccountOK
  <2>5. \A d \in Writers' : writer'[Home[d]]
    BY <1>1, <2>1, <2>2, <2>4, HomeAssumption DEF AccountOK
  <2>6. \A d, e \in Writers' : Home[d] = Home[e] => d = e
    BY <2>2 DEF AccountOK
  <2>7. QED BY <1>2, <2>3, <2>5, <2>6 DEF AccountOK
<1>5. QED BY <1>3, <1>4

LEMMA SettleKeepsAccount ==
  ASSUME IInv, AccountOK, NEW c \in Caller, Settle(c)
  PROVE  AccountOK'
<1>1. /\ UNCHANGED <<readers, writer>> /\ Readers' = Readers /\ Writers' = Writers
      /\ Undoers \in SUBSET Caller
  BY SettleSets DEF Settle, Undoers
<1>2. Counts(pending', Undoers')
  <2>1. /\ Counts(pending, Undoers) /\ c \in Undoers /\ Undoers' = Undoers \ {c}
        /\ pending' = [pending EXCEPT ![Home[c]] = @ - 1]
    BY SettleSets DEF Settle, AccountOK
  <2>2. Counts([pending EXCEPT ![Home[c]] = @ - 1], Undoers \ {c})
    BY <1>1, <2>1, CountLess
  <2>3. QED BY <2>1, <2>2
<1>3. QED BY <1>1, <1>2 DEF AccountOK

LEMMA CrashKeepsAccount ==
  ASSUME IInv, AccountOK, NEW p \in Proc, Crash(p)
  PROVE  AccountOK'
<1>1. Counts(readers', Readers') /\ Counts(pending', Undoers')
  <2>1. /\ Readers' = Readers \ Local(p) /\ readers' = [readers EXCEPT ![p] = 0]
        /\ Undoers' = Undoers \ Local(p) /\ pending' = [pending EXCEPT ![p] = 0]
    BY CrashSets DEF Crash
  <2>2. /\ Counts([readers EXCEPT ![p] = 0], Readers \ Local(p))
        /\ Counts([pending EXCEPT ![p] = 0], Undoers \ Local(p))
    BY CountNone DEF AccountOK
  <2>3. QED BY <2>1, <2>2
<1>2. writer' = [writer EXCEPT ![p] = FALSE] /\ Writers' = Writers \ Local(p)
      /\ Writers \in SUBSET Caller
  BY CrashSets DEF Crash, Writers
<1>3. \A d \in Writers' : Home[d] \in Proc /\ Home[d] # p /\ writer[Home[d]]
  BY <1>2, HomeAssumption DEF Local, AccountOK
<1>4. writer' \in [Proc -> BOOLEAN]
  BY <1>2 DEF AccountOK
<1>5. \A d \in Writers' : writer'[Home[d]]
  BY <1>2, <1>3 DEF AccountOK
<1>6. \A d, e \in Writers' : Home[d] = Home[e] => d = e
  BY <1>2 DEF AccountOK
<1>7. QED BY <1>1, <1>4, <1>5, <1>6 DEF AccountOK

-------------------------------------------------------------------------------
(* No wake-up is lost. *)

\* Nothing changed for d, asleep before and after.
LEMMA SleepsOn ==
  ASSUME NEW d \in Caller, Sleeps(d), pc'[d] = pc[d], req'[d] = req[d],
         queue'[Home[d]] = queue[Home[d]], attempt'[Home[d]] = attempt[Home[d]],
         readers'[Home[d]] = readers[Home[d]], writer'[Home[d]] = writer[Home[d]]
  PROVE  Sleeps(d)'
  BY DEF Sleeps, CanAttempt, CanPublish

\* A step that wakes all of process p and touches nothing of the others.
LEMMA BroadcastKeepsSleep ==
  ASSUME SleepOK, NEW p \in Proc, asleep' = asleep \ Local(p),
         attempt' \in [Proc -> Caller \cup {None}],
         \A d \in Caller : Home[d] # p =>
            /\ pc'[d] = pc[d] /\ req'[d] = req[d]
            /\ queue'[Home[d]] = queue[Home[d]] /\ attempt'[Home[d]] = attempt[Home[d]]
            /\ readers'[Home[d]] = readers[Home[d]] /\ writer'[Home[d]] = writer[Home[d]]
  PROVE  SleepOK'
<1>1. ASSUME NEW d \in asleep' PROVE Sleeps(d)'
  <2>1. d \in Caller /\ Home[d] # p /\ Sleeps(d)
    BY DEF SleepOK, Local
  <2>2. QED BY <2>1, SleepsOn
<1>2. QED BY <1>1 DEF SleepOK

\* A step of c, which is not asleep afterwards, that changes no accounting, no
\* queue and no attempt.
LEMMA AwakeKeepsSleep ==
  ASSUME SleepOK, NEW c \in Caller, c \notin asleep', asleep' \subseteq asleep,
         UNCHANGED <<queue, attempt, readers, writer>>,
         \A d \in Caller \ {c} : pc'[d] = pc[d] /\ req'[d] = req[d]
  PROVE  SleepOK'
<1>1. ASSUME NEW d \in asleep' PROVE Sleeps(d)'
  BY SleepsOn DEF SleepOK
<1>2. QED BY <1>1 DEF SleepOK

LEMMA AcquireKeepsSleep ==
  ASSUME IInv, QueueOK, SleepOK, NEW c \in Caller, NEW m \in {"SH", "EX"}, NEW k \in Asks[c],
         Acquire(c, m, k)
  PROVE  SleepOK'
<1>1. Home[c] \in Proc /\ queue[Home[c]] \in Seq(Caller) /\ c \notin asleep
  BY HomeAssumption DEF QueueOK, SleepOK, Sleeps, Acquire
<1>2. ASSUME NEW d \in asleep' PROVE Sleeps(d)'
  <2>1. /\ d \in Caller /\ d # c /\ Sleeps(d) /\ Home[d] \in Proc
        /\ pc'[d] = pc[d] /\ req'[d] = req[d]
    BY <1>1, HomeAssumption DEF Acquire, SleepOK
  <2>2. CASE Home[d] = Home[c]
    <3>1. queue'[Home[c]] = Append(queue[Home[c]], c)
      BY <1>1 DEF Acquire, QueueOK
    <3>2. CASE queue[Home[c]] = <<>>
      <4>1. Head(queue'[Home[c]]) = c
        BY <3>1, <3>2
      <4>2. QED BY <2>1, <2>2, <4>1 DEF Sleeps, CanAttempt, CanPublish
    <3>3. CASE queue[Home[c]] # <<>>
      <4>1. Head(queue'[Home[c]]) = Head(queue[Home[c]])
        BY <1>1, <3>1, <3>3, HeadTailAppend
      <4>2. QED BY <2>1, <2>2, <4>1 DEF Acquire, account, Sleeps, CanAttempt, CanPublish
    <3>4. QED BY <3>2, <3>3
  <2>3. CASE Home[d] # Home[c]
    <3>1. queue'[Home[d]] = queue[Home[d]]
      BY <1>1, <2>1, <2>3 DEF Acquire, QueueOK
    <3>2. QED BY <2>1, <3>1, SleepsOn DEF Acquire, account
  <2>4. QED BY <2>2, <2>3
<1>3. QED BY <1>2 DEF SleepOK, Acquire

LEMMA BeginKeepsSleep ==
  ASSUME IInv, SleepOK, NEW c \in Caller, BeginAttempt(c)
  PROVE  SleepOK'
<1>1. /\ Home[c] \in Proc /\ c \notin asleep /\ asleep' = asleep
      /\ attempt' = [attempt EXCEPT ![Home[c]] = c] /\ c # None
      /\ attempt'[Home[c]] = c
  BY HomeAssumption, NoneAssumption DEF BeginAttempt, SleepOK
<1>2. attempt' \in [Proc -> Caller \cup {None}]
  BY <1>1 DEF SleepOK
<1>3. ASSUME NEW d \in asleep' PROVE Sleeps(d)'
  <2>1. /\ d \in Caller /\ d # c /\ Sleeps(d) /\ Home[d] \in Proc
        /\ pc'[d] = pc[d] /\ req'[d] = req[d]
    BY <1>1, HomeAssumption DEF BeginAttempt, Goto, SleepOK
  <2>2. CASE Home[d] = Home[c]
    BY <1>1, <2>1, <2>2 DEF Sleeps, CanAttempt, CanPublish
  <2>3. CASE Home[d] # Home[c]
    <3>1. attempt'[Home[d]] = attempt[Home[d]]
      BY <1>1, <2>1, <2>3 DEF SleepOK
    <3>2. QED BY <2>1, <3>1, SleepsOn DEF BeginAttempt, account
  <2>4. QED BY <2>2, <2>3
<1>4. QED BY <1>1, <1>2, <1>3 DEF SleepOK

\* The test and the wait are one section of the mutex.
LEMMA SleepKeepsSleep ==
  ASSUME IInv, SleepOK, NEW c \in Caller, Sleep(c)
  PROVE  SleepOK'
<1>1. UNCHANGED <<pc, req, queue, attempt, readers, writer>> /\ asleep' = asleep \cup {c}
  BY DEF Sleep, account
<1>2. Sleeps(c)
  BY DEF Sleep, Sleeps, Cancelled
<1>3. ASSUME NEW d \in asleep' PROVE Sleeps(d)'
  <2>1. d \in Caller /\ Sleeps(d)
    BY <1>1, <1>2 DEF SleepOK
  <2>2. QED BY <1>1, <2>1, SleepsOn
<1>4. QED BY <1>1, <1>3 DEF SleepOK

\* A token that is stored is not told yet: the sleeper misses nothing.
LEMMA StoreKeepsSleep ==
  ASSUME IInv, SleepOK, NEW c \in Caller, StoreToken(c)
  PROVE  SleepOK'
<1>1. /\ UNCHANGED <<pc, queue, attempt, asleep, readers, writer>>
      /\ req' = [req EXCEPT ![c].cancel = "stored"] /\ req \in [Caller -> Request]
  BY DEF StoreToken, account, IInv, NativeOK, Request
<1>2. ASSUME NEW d \in asleep' PROVE Sleeps(d)'
  <2>1. d \in Caller /\ Sleeps(d)
    BY <1>1 DEF SleepOK
  <2>2. CASE d = c
    <3>1. req'[c].mode = req[c].mode /\ req'[c].cancel = "stored"
      BY <1>1 DEF Request
    <3>2. QED BY <1>1, <2>1, <2>2, <3>1 DEF Sleeps, CanAttempt, CanPublish
  <2>3. CASE d # c
    BY <1>1, <2>1, <2>3, SleepsOn
  <2>4. QED BY <2>2, <2>3
<1>3. QED BY <1>1, <1>2 DEF SleepOK

\* whoever removes a waiter wakes its process
LEMMA RemoveKeepsSleep ==
  ASSUME IInv, SleepOK, QueueOK, AccountOK, NEW c \in Caller, RemoveWaiter(c),
         \A d \in Caller \ {c} : pc'[d] = pc[d] /\ req'[d] = req[d],
         \A p \in Proc : p # Home[c] => readers'[p] = readers[p] /\ writer'[p] = writer[p]
  PROVE  SleepOK'
<1>1. /\ Home[c] \in Proc /\ asleep' = asleep \ Local(Home[c])
      /\ attempt' = [attempt EXCEPT ![Home[c]] = IF attempt[Home[c]] = c THEN None
                                                 ELSE attempt[Home[c]]]
      /\ queue' = [queue EXCEPT ![Home[c]] = Without(queue[Home[c]], c)]
  BY HomeAssumption DEF RemoveWaiter, Broadcast
<1>2. attempt' \in [Proc -> Caller \cup {None}]
  <2>1. attempt[Home[c]] \in Caller \cup {None}
    BY <1>1 DEF SleepOK
  <2>2. QED BY <1>1, <2>1 DEF SleepOK
<1>3. ASSUME NEW d \in Caller, Home[d] # Home[c]
      PROVE  /\ Home[d] \in Proc /\ d # c
             /\ queue'[Home[d]] = queue[Home[d]] /\ attempt'[Home[d]] = attempt[Home[d]]
  BY <1>1, <1>3, HomeAssumption DEF QueueOK, SleepOK
<1>4. QED BY <1>1, <1>2, <1>3, BroadcastKeepsSleep

LEMMA WakersKeepSleep ==
  ASSUME IInv, SleepOK, QueueOK, AccountOK, NEW c \in Caller,
         \/ GiveUpQueued(c) \/ Publish(c) \/ (pc[c] \in Waits /\ Discard(c))
  PROVE  SleepOK'
<1>1. /\ Home[c] \in Proc /\ RemoveWaiter(c)
      /\ pc \in [Caller -> PC] /\ req \in [Caller -> Request]
  BY HomeAssumption DEF GiveUpQueued, Publish, Discard, IInv, NativeOK, Request
<1>2. \A d \in Caller \ {c} : pc'[d] = pc[d] /\ req'[d] = req[d]
  <2>1. PICK l : Goto(c, l)
    BY DEF GiveUpQueued, Publish, Discard
  <2>2. QED BY <1>1, <2>1 DEF Goto
<1>3. \A p \in Proc : p # Home[c] => readers'[p] = readers[p] /\ writer'[p] = writer[p]
  <2>1. CASE GiveUpQueued(c)
    BY <2>1 DEF GiveUpQueued, account
  <2>2. CASE Discard(c)
    BY <2>2 DEF Discard
  <2>3. CASE Publish(c)
    BY <2>3 DEF Publish, AccountOK, Counts
  <2>4. QED BY <2>1, <2>2, <2>3
<1>4. QED BY <1>1, <1>2, <1>3, RemoveKeepsSleep

LEMMA TellersKeepSleep ==
  ASSUME IInv, SleepOK, AccountOK, NEW c \in Caller,
         Settle(c) \/ Account(c) \/ TellWaiters(c)
  PROVE  SleepOK'
<1>1. /\ Home[c] \in Proc /\ asleep' = asleep \ Local(Home[c]) /\ UNCHANGED <<queue, attempt>>
      /\ pc \in [Caller -> PC] /\ req \in [Caller -> Request]
  BY HomeAssumption DEF Settle, Account, TellWaiters, Broadcast, IInv, NativeOK, Request, account
<1>2. \A d \in Caller \ {c} : pc'[d] = pc[d] /\ req'[d] = req[d]
  <2>1. CASE TellWaiters(c)
    BY <1>1, <2>1 DEF TellWaiters
  <2>2. CASE ~TellWaiters(c)
    <3>1. PICK l : Goto(c, l)
      BY <2>2 DEF Settle, Account
    <3>2. QED BY <1>1, <3>1 DEF Goto
  <2>3. QED BY <2>1, <2>2
<1>3. \A p \in Proc : p # Home[c] => readers'[p] = readers[p] /\ writer'[p] = writer[p]
  <2>1. CASE Settle(c)
    BY <2>1 DEF Settle
  <2>2. CASE TellWaiters(c)
    BY <2>2 DEF TellWaiters, account
  <2>3. CASE Account(c)
    BY <2>3 DEF Account, AccountOK, Counts
  <2>4. QED BY <2>1, <2>2, <2>3
<1>4. attempt' \in [Proc -> Caller \cup {None}]
  BY <1>1 DEF SleepOK
<1>5. \A d \in Caller : Home[d] # Home[c] => d # c /\ Home[d] \in Proc
  BY HomeAssumption
<1>6. QED BY <1>1, <1>2, <1>3, <1>4, <1>5, BroadcastKeepsSleep

LEMMA CrashKeepsSleep ==
  ASSUME IInv, SleepOK, QueueOK, AccountOK, NEW p \in Proc, Crash(p)
  PROVE  SleepOK'
<1>1. attempt' \in [Proc -> Caller \cup {None}] /\ asleep' = asleep \ Local(p)
  BY DEF Crash, SleepOK
<1>2. ASSUME NEW d \in Caller, Home[d] # p
      PROVE  /\ pc'[d] = pc[d] /\ req'[d] = req[d]
             /\ queue'[Home[d]] = queue[Home[d]] /\ attempt'[Home[d]] = attempt[Home[d]]
             /\ readers'[Home[d]] = readers[Home[d]] /\ writer'[Home[d]] = writer[Home[d]]
  <2>1. d \notin Local(p) /\ Home[d] \in Proc
    BY <1>2, HomeAssumption DEF Local
  <2>2. QED BY <1>2, <2>1 DEF Crash, QueueOK, SleepOK, AccountOK, Counts
<1>3. QED BY <1>1, <1>2, BroadcastKeepsSleep

\* the other steps of an acquisition, a release or a rollback
LEMMA OnwardKeepsSleep ==
  ASSUME IInv, SleepOK, NEW c \in Caller, Onward(c)
  PROVE  SleepOK'
<1> USE DEF account
<1>1. pc \in [Caller -> PC] /\ req \in [Caller -> Request]
  BY DEF IInv, NativeOK, Request
<1>2. CASE TakeTurn(c)
  BY <1>1, <1>2, AwakeKeepsSleep DEF TakeTurn, Goto, SleepOK, Sleeps
<1>3. CASE TakeRw(c)
  BY <1>1, <1>3, AwakeKeepsSleep DEF TakeRw, Goto, SleepOK, Sleeps
<1>4. CASE DropTurn(c)
  BY <1>1, <1>4, AwakeKeepsSleep DEF DropTurn, Goto, SleepOK, Sleeps
<1>5. CASE UndoRw(c)
  BY <1>1, <1>5, AwakeKeepsSleep DEF UndoRw, Goto, SleepOK, Sleeps
<1>6. CASE UndoTurn(c)
  BY <1>1, <1>6, AwakeKeepsSleep DEF UndoTurn, Goto, SleepOK, Sleeps
<1>7. CASE Release(c)
  BY <1>1, <1>7, AwakeKeepsSleep DEF Release, Goto, SleepOK, Sleeps
<1>8. CASE UnlockTurn(c)
  BY <1>1, <1>8, AwakeKeepsSleep DEF UnlockTurn, Goto, SleepOK, Sleeps
<1>9. CASE TurnKept(c)
  BY <1>1, <1>9, AwakeKeepsSleep DEF TurnKept, Goto, SleepOK, Sleeps
<1>10. CASE AbortRefused(c)
  BY <1>1, <1>10, AwakeKeepsSleep DEF AbortRefused, Goto
<1>11. QED BY <1>2, <1>3, <1>4, <1>5, <1>6, <1>7, <1>8, <1>9, <1>10, BeginKeepsSleep, SleepKeepsSleep, StoreKeepsSleep DEF Onward

-------------------------------------------------------------------------------
(* A registry that is freed has no caller at work. *)

LEMMA StepKeepsClosed ==
  ASSUME ClosedOK, NEW c \in Caller, closed' = closed,
         \A d \in Caller \ {c} : pc'[d] = pc[d],
         pc[c] = "idle" => ~closed[Home[c]] \/ pc'[c] = pc[c]
  PROVE  ClosedOK'
  BY DEF ClosedOK

LEMMA FreeKeepsClosed ==
  ASSUME IInv, RInv, NEW p \in Proc, FreeRegistry(p)
  PROVE  ClosedOK'
<1>1. /\ closed' = [closed EXCEPT ![p] = TRUE] /\ pc' = pc
      /\ queue[p] = <<>> /\ readers[p] = 0 /\ ~writer[p] /\ pending[p] = 0
  BY DEF FreeRegistry
<1>2. Readers \cap Local(p) = {} /\ Undoers \cap Local(p) = {}
  BY <1>1, FS_EmptySet DEF RInv, AccountOK, Counts
<1>3. ASSUME NEW c \in Caller, Home[c] = p PROVE pc[c] = "idle"
  <2>1. c \notin Readers /\ c \notin Undoers
    BY <1>2, <1>3 DEF Local
  <2>2. c \notin Writers
    BY <1>1, <1>3 DEF RInv, AccountOK
  <2>3. c \notin Waiters
    <3>1. Len(queue[p]) = 0
      BY <1>1, EmptySeq
    <3>2. ~Has(queue[p], c)
      BY <3>1 DEF Has
    <3>3. QED BY <1>3, <3>2 DEF RInv, QueueOK
  <2>4. QED BY <2>1, <2>2, <2>3, AllStates
<1>4. QED BY <1>1, <1>3, HomeAssumption DEF RInv, ClosedOK

LEMMA CrashKeepsClosed ==
  ASSUME IInv, ClosedOK, NEW p \in Proc, Crash(p)
  PROVE  ClosedOK'
<1>1. closed' = [closed EXCEPT ![p] = FALSE]
  BY DEF Crash
<1>2. ASSUME NEW c \in Caller, closed'[Home[c]] PROVE pc'[c] = "idle"
  <2>1. Home[c] \in Proc /\ Home[c] # p /\ closed[Home[c]]
    BY <1>1, <1>2, HomeAssumption DEF ClosedOK
  <2>2. QED BY <2>1 DEF Crash, ClosedOK, Local
<1>3. QED BY <1>1, <1>2 DEF ClosedOK

-------------------------------------------------------------------------------
(* Every step keeps the invariant. *)

LEMMA OnwardKeeps ==
  ASSUME IInv, RInv, NEW c \in Caller, Onward(c)
  PROVE  RInv'
<1>1. /\ Waiters' = Waiters /\ Readers' = Readers /\ Writers' = Writers /\ Undoers' = Undoers
      /\ UNCHANGED <<queue, account, closed>>
  BY OnwardSame
<1>2. QueueOK' /\ AccountOK' /\ SleepOK'
  BY <1>1, QueueSame, AccountSame, OnwardKeepsSleep DEF RInv
<1>3. \A d \in Caller \ {c} : pc'[d] = pc[d]
  BY DEF IInv, NativeOK, Onward, BeginAttempt, TakeTurn, TakeRw, DropTurn, AbortRefused, Sleep,
         UndoRw, UndoTurn, StoreToken, Release, UnlockTurn, TurnKept, Goto
<1>4. pc[c] = "idle" => pc'[c] = pc[c]
  BY DEF Onward, BeginAttempt, TakeTurn, TakeRw, DropTurn, AbortRefused, Sleep, Ends, Attempting,
         UndoRw, UndoTurn, StoreToken, Release, UnlockTurn, TurnKept
<1>5. ClosedOK'
  BY <1>1, <1>3, <1>4, StepKeepsClosed DEF RInv
<1>6. QED BY <1>2, <1>5 DEF RInv

LEMMA AcquireKeeps ==
  ASSUME IInv, RInv, NEW c \in Caller, NEW m \in {"SH", "EX"}, NEW k \in Asks[c],
         Acquire(c, m, k)
  PROVE  RInv'
<1>1. QueueOK'
  BY AcquireSets, AppendKeepsQueue DEF RInv, Acquire
<1>2. AccountOK'
  BY AcquireSets, AccountSame DEF RInv, Acquire
<1>3. SleepOK'
  BY AcquireKeepsSleep DEF RInv
<1>4. ClosedOK'
  BY StepKeepsClosed DEF RInv, Acquire, IInv, NativeOK
<1>5. QED BY <1>1, <1>2, <1>3, <1>4 DEF RInv

LEMMA GiveUpKeeps ==
  ASSUME IInv, RInv, NEW c \in Caller, GiveUpQueued(c)
  PROVE  RInv'
<1>1. QueueOK'
  BY GiveUpSets, RemoveKeepsQueue DEF RInv, GiveUpQueued
<1>2. AccountOK'
  BY GiveUpSets, AccountSame DEF RInv, GiveUpQueued
<1>3. SleepOK'
  BY WakersKeepSleep DEF RInv
<1>4. ClosedOK'
  BY StepKeepsClosed DEF RInv, GiveUpQueued, Goto, IInv, NativeOK
<1>5. QED BY <1>1, <1>2, <1>3, <1>4 DEF RInv

LEMMA PublishKeeps ==
  ASSUME IInv, RInv, NEW c \in Caller, Publish(c)
  PROVE  RInv'
<1>1. QueueOK'
  BY PublishSets, RemoveKeepsQueue DEF RInv, Publish
<1>2. AccountOK'
  BY PublishKeepsAccount DEF RInv
<1>3. SleepOK'
  BY WakersKeepSleep DEF RInv
<1>4. ClosedOK'
  BY StepKeepsClosed DEF RInv, Publish, Goto, IInv, NativeOK
<1>5. QED BY <1>1, <1>2, <1>3, <1>4 DEF RInv

LEMMA DiscardKeepsR ==
  ASSUME IInv, RInv, NEW c \in Caller, pc[c] \in Waits, Discard(c)
  PROVE  RInv'
<1>1. QueueOK'
  BY DiscardSets, RemoveKeepsQueue DEF RInv, Discard
<1>2. AccountOK'
  BY DiscardKeepsAccount DEF RInv
<1>3. SleepOK'
  BY WakersKeepSleep DEF RInv
<1>4. ClosedOK'
  <2>1. closed' = closed /\ \E l : Goto(c, l)
    BY DEF Discard
  <2>2. pc[c] # "idle"
    BY DEF Waits, Attempting
  <2>3. QED BY <2>1, <2>2, StepKeepsClosed DEF RInv, Goto, IInv, NativeOK
<1>5. QED BY <1>1, <1>2, <1>3, <1>4 DEF RInv

LEMMA AccountKeeps ==
  ASSUME IInv, RInv, NEW c \in Caller, Account(c)
  PROVE  RInv'
<1>1. QueueOK'
  BY AccountSets, QueueSame DEF RInv, Account
<1>2. AccountOK'
  BY AccountKeepsAccount DEF RInv
<1>3. SleepOK'
  BY TellersKeepSleep DEF RInv
<1>4. ClosedOK'
  <2>1. closed' = closed /\ pc[c] = "account" /\ \E l : Goto(c, l)
    BY DEF Account
  <2>2. QED BY <2>1, StepKeepsClosed DEF RInv, Goto, IInv, NativeOK
<1>5. QED BY <1>1, <1>2, <1>3, <1>4 DEF RInv

LEMMA SettleKeeps ==
  ASSUME IInv, RInv, NEW c \in Caller, Settle(c)
  PROVE  RInv'
<1>1. QueueOK'
  BY SettleSets, QueueSame DEF RInv, Settle
<1>2. AccountOK'
  BY SettleKeepsAccount DEF RInv
<1>3. SleepOK'
  BY TellersKeepSleep DEF RInv
<1>4. ClosedOK'
  BY StepKeepsClosed DEF RInv, Settle, Goto, IInv, NativeOK
<1>5. QED BY <1>1, <1>2, <1>3, <1>4 DEF RInv

LEMMA TellKeeps ==
  ASSUME IInv, RInv, NEW c \in Caller, TellWaiters(c)
  PROVE  RInv'
<1>1. QueueOK'
  BY TellSets, QueueSame DEF RInv, TellWaiters
<1>2. AccountOK'
  BY TellSets, AccountSame DEF RInv, TellWaiters
<1>3. SleepOK'
  BY TellersKeepSleep DEF RInv
<1>4. ClosedOK'
  BY StepKeepsClosed DEF RInv, TellWaiters
<1>5. QED BY <1>1, <1>2, <1>3, <1>4 DEF RInv

LEMMA StutterKeeps ==
  ASSUME RInv, UNCHANGED <<pc, req, queue, attempt, asleep, account>>
  PROVE  QueueOK' /\ AccountOK' /\ SleepOK'
<1>1. Waiters' = Waiters /\ Readers' = Readers /\ Writers' = Writers /\ Undoers' = Undoers
  BY DEF Waiters, Readers, Writers, Undoers
<1>2. QueueOK' /\ AccountOK'
  BY <1>1, QueueSame, AccountSame DEF RInv
<1>3. SleepOK'
  BY SleepsOn DEF RInv, SleepOK, account
<1>4. QED BY <1>2, <1>3

LEMMA FreeKeeps ==
  ASSUME IInv, RInv, NEW p \in Proc, FreeRegistry(p)
  PROVE  RInv'
<1>1. UNCHANGED <<pc, req, queue, attempt, asleep, account>>
  BY DEF FreeRegistry
<1>2. QED BY <1>1, StutterKeeps, FreeKeepsClosed DEF RInv

LEMMA CrashKeeps ==
  ASSUME IInv, RInv, NEW p \in Proc, Crash(p)
  PROVE  RInv'
  BY CrashSets, CrashKeepsQueue, CrashKeepsAccount, CrashKeepsSleep, CrashKeepsClosed DEF RInv

LEMMA NextKeepsR == IInv /\ RInv /\ [Next]_vars => RInv'
<1> SUFFICES ASSUME IInv, RInv, [Next]_vars PROVE RInv'
  OBVIOUS
<1>1. CASE UNCHANGED vars
  <2>1. UNCHANGED <<pc, req, queue, attempt, asleep, account>> /\ closed' = closed
    BY <1>1 DEF vars, account
  <2>2. ClosedOK'
    BY <2>1 DEF RInv, ClosedOK
  <2>3. QED BY <2>1, <2>2, StutterKeeps DEF RInv
<1>2. ASSUME NEW c \in Caller, AbortAttempt(c) \/ DetachRetained(c) PROVE RInv'
  BY <1>2, DiscardKeepsR DEF AbortAttempt, DetachRetained, Waits
<1>3. ASSUME NEW c \in Caller, Progress(c) \/ Sleep(c) \/ GiveUpQueued(c) \/ AbortAttempt(c) \/ AbortRefused(c)
                               \/ TurnKept(c) \/ StoreToken(c)
      PROVE  RInv'
  BY <1>2, <1>3, OnwardKeeps, GiveUpKeeps, PublishKeeps, AccountKeeps, SettleKeeps, TellKeeps
     DEF Progress, Onward
<1>4. QED BY <1>1, <1>3, AcquireKeeps, FreeKeeps, CrashKeeps DEF Next

\* Queues, counts, sleepers and freed registries agree with the callers'
\* positions throughout.
THEOREM AccountInvariant == Spec => []RInv
  BY InitRInv, NextKeepsR, Invariant, PTL DEF Spec

-------------------------------------------------------------------------------
(* Results. *)

LEMMA UsesKept == uses \in [Caller -> Nat] /\ [Next]_vars => (uses \in [Caller -> Nat])'
<1> SUFFICES ASSUME uses \in [Caller -> Nat], [Next]_vars PROVE uses' \in [Caller -> Nat]
  OBVIOUS
<1>1. uses' = uses \/ \E c \in Caller : uses' = [uses EXCEPT ![c] = @ + 1]
  BY DEF Next, Progress, vars, Acquire, BeginAttempt, TakeTurn, TakeRw, DropTurn, Publish,
         DetachRetained, UndoRw, UndoTurn, Settle, Release, UnlockTurn, Account, GiveUpQueued,
         TellWaiters, Sleep, AbortAttempt, AbortRefused, TurnKept, StoreToken, Discard,
         FreeRegistry, Crash
<1>2. QED BY <1>1

\* The types of all the variables, and with them that no count of the registry
\* goes below zero.
THEOREM TypeCorrect == Spec => []TypeOK
<1>1. Init => uses \in [Caller -> Nat]
  BY DEF Init
<1>2. IInv /\ RInv /\ uses \in [Caller -> Nat] => TypeOK
  BY DEF IInv, NativeOK, RInv, QueueOK, AccountOK, SleepOK, ClosedOK, Counts, TypeOK, Request
<1>3. Spec => [](uses \in [Caller -> Nat])
  BY <1>1, UsesKept, PTL DEF Spec
<1>4. QED BY <1>2, <1>3, Invariant, AccountInvariant, PTL

\* Whoever waits on the condition of its registry has a reason to: every change
\* that could let it go on was followed by a broadcast.
THEOREM WakeUpsKept == Spec => []NoLostWakeup
<1>1. RInv => NoLostWakeup
  BY DEF RInv, SleepOK, Sleeps, NoLostWakeup
<1>2. QED BY <1>1, AccountInvariant, PTL

\* lock_registry_free lets a registry go only when none of its callers holds,
\* waits for or still rolls back a lock.
THEOREM FreedRegistriesQuiet == Spec => []FreedIsQuiet
<1>1. IInv /\ RInv => FreedIsQuiet
  BY DEF IInv, LockedOK, Locked, RInv, ClosedOK, FreedIsQuiet, HasNative
<1>2. QED BY <1>1, Invariant, AccountInvariant, PTL
===============================================================================
