-------------------------------- MODULE RWLock --------------------------------
(***************************************************************************)
(* What lock_registry.h promises of one resource: a readers-writer lock    *)
(* with writer preference.  A writer first announces itself; while any     *)
(* writer is announced no new reader enters.  Holders may leave, announced *)
(* writers may withdraw (deadline, cancellation, failed rollback), and a   *)
(* set of callers may vanish at once, when the process they share dies.    *)
(* LockRegistry implements this specification with two lock files.         *)
(***************************************************************************)
CONSTANT Caller

VARIABLES holds,    \* what each caller holds: "none", "SH" or "EX"
          barrier   \* the writers that keep new readers out

rwVars == <<holds, barrier>>

Init == /\ holds = [c \in Caller |-> "none"]
        /\ barrier = {}

Announce(c) == /\ c \notin barrier
               /\ holds[c] = "none"
               /\ barrier' = barrier \cup {c}
               /\ UNCHANGED holds

EnterShared(c) == /\ holds[c] = "none"
                  /\ barrier = {}
                  /\ \A d \in Caller : holds[d] # "EX"
                  /\ holds' = [holds EXCEPT ![c] = "SH"]
                  /\ UNCHANGED barrier

EnterExclusive(c) == /\ c \in barrier
                     /\ \A d \in Caller : holds[d] = "none"
                     /\ holds' = [holds EXCEPT ![c] = "EX"]
                     /\ UNCHANGED barrier

Leave(c) == /\ holds[c] # "none"
            /\ holds' = [holds EXCEPT ![c] = "none"]
            /\ UNCHANGED barrier

Withdraw(c) == /\ c \in barrier
               /\ holds[c] = "none"
               /\ barrier' = barrier \ {c}
               /\ UNCHANGED holds

Vanish(S) == /\ holds' = [c \in Caller |-> IF c \in S THEN "none" ELSE holds[c]]
             /\ barrier' = barrier \ S

Next == \/ \E c \in Caller : \/ Announce(c) \/ EnterShared(c) \/ EnterExclusive(c)
                             \/ Leave(c) \/ Withdraw(c)
        \/ \E S \in SUBSET Caller : Vanish(S)

Spec == Init /\ [][Next]_rwVars
===============================================================================
