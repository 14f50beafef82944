---------------------------- MODULE MCLockRegistry ----------------------------
(***************************************************************************)
(* A small instance of LockRegistry: two callers in one process, so that   *)
(* they meet in its queue, and one in another, so that they meet in the    *)
(* lock files.                                                             *)
(***************************************************************************)
EXTENDS LockRegistry

CONSTANTS p, q, a, b, c

HomeOf == [x \in {a, b, c} |-> IF x = c THEN q ELSE p]
AsksOf == [x \in {a, b, c} |-> IF x = a THEN {"token"} ELSE IF x = b THEN {"try", "timed"}
                              ELSE {"timed"}]
===============================================================================
