------------------------------ MODULE IndexJob ------------------------------
(***************************************************************************)
(* What the graph service promises of an index job                        *)
(* (services/graph): a job is queued once, runs one attempt at a time,    *)
(* is retried at most MaxAttempts times in all, can be cancelled only     *)
(* while it is queued, and once it is done, failed or cancelled it is     *)
(* settled for good.  IndexScheduler implements this specification.       *)
(***************************************************************************)
EXTENDS Naturals

CONSTANTS Jobs,         \* identities of the jobs that can be enqueued
          MaxAttempts   \* IndexScheduler.max_attempts

VARIABLES status, attempts

vars == <<status, attempts>>

Settled == {"done", "failed", "cancelled"}

Init == /\ status = [j \in Jobs |-> "absent"]
        /\ attempts = [j \in Jobs |-> 0]

Become(j, s) == status' = [status EXCEPT ![j] = s]

Enqueue(j) == /\ status[j] = "absent"
              /\ Become(j, "queued")
              /\ UNCHANGED attempts

Cancel(j) == /\ status[j] = "queued"
             /\ Become(j, "cancelled")
             /\ UNCHANGED attempts

Attempt(j) == /\ status[j] = "queued"
              /\ attempts[j] < MaxAttempts
              /\ Become(j, "running")
              /\ attempts' = [attempts EXCEPT ![j] = @ + 1]

Retry(j) == /\ status[j] = "running"
            /\ attempts[j] < MaxAttempts
            /\ Become(j, "queued")
            /\ UNCHANGED attempts

Complete(j) == /\ status[j] = "running"
               /\ Become(j, "done")
               /\ UNCHANGED attempts

(* A failed attempt is final when it was the last one allowed; the running *)
(* attempts that a shutdown interrupts fail at once, together.             *)
Exhaust(j) == /\ status[j] = "running"
              /\ attempts[j] = MaxAttempts
              /\ Become(j, "failed")
              /\ UNCHANGED attempts

Interrupt(J) == /\ \A j \in J : status[j] = "running"
                /\ status' = [j \in Jobs |-> IF j \in J THEN "failed" ELSE status[j]]
                /\ UNCHANGED attempts

Next == \/ \E j \in Jobs : \/ Enqueue(j) \/ Cancel(j)   \/ Attempt(j)
                           \/ Retry(j)   \/ Complete(j) \/ Exhaust(j)
        \/ \E J \in SUBSET Jobs : Interrupt(J)

Spec == Init /\ [][Next]_vars
=============================================================================
