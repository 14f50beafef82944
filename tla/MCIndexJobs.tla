----------------------------- MODULE MCIndexJobs ------------------------------
(***************************************************************************)
(* A small instance of IndexJobs: two sessions of one project, so that     *)
(* they share a job, and a second project, which only the UI indexes, so   *)
(* that they meet the limit.                                               *)
(***************************************************************************)
EXTENDS IndexJobs

CONSTANTS s1, s2, p1, p2

KeysOf == {Star}
BelongsTo == [s \in {s1, s2} |-> p1]
===============================================================================
