------------------------ MODULE ActivationTransaction -------------------------
(***************************************************************************)
(* One activation of a binary by the graph engine's command line (the      *)
(* POSIX build of cli/activation_transaction.c): a candidate is staged     *)
(* beside its target and published over it, or the target is removed, and  *)
(* the old file is kept in a backup until the caller accepts the result.   *)
(*                                                                         *)
(* A directory maps names to inodes; two names of one inode are hard       *)
(* links.  A step is one call that changes the directory, with the checks  *)
(* before it; every call may fail, and the power may fail between any two. *)
(* The maintenance barrier keeps other activations out, so a foreigner     *)
(* only ever creates a target that does not exist.                         *)
(***************************************************************************)
EXTENDS FiniteSets, Naturals

Name == {"target", "stage", "backup"}
Inode == {"none", "old", "new", "reserve", "foreign"}
Status == {"ok", "io", "rejected", "rollback_failed"}
Operation == {"commit", "rollback", "finalize", "close"}

VARIABLES dir,      \* the directory: the inode each name stands for
          since,    \* the directories since the last sync: a power failure leaves one of them
          tx,       \* the transaction
          pc,       \* where its caller is, "idle" between two operations
          why,      \* what asked for a rollback
          told      \* the last operation and what it reported

vars == <<dir, since, tx, pc, why, told>>

Nothing == [op |-> "stage", status |-> "ok"]

Init == /\ dir \in [Name -> {"none", "old"}] /\ dir["stage"] = "none" /\ dir["backup"] = "none"
        /\ since = {dir}
        /\ tx \in [action : {"replace", "remove"}, existed : {dir["target"] = "old"},
                   noreplace : BOOLEAN, validator : BOOLEAN, state : {"staged"},
                   syncs : BOOLEAN,    \* the file system can sync directories
                   staged : {FALSE}, backup : {FALSE}, contains : {FALSE}, accepted : {FALSE}]
        /\ pc = "prepare" /\ why = "failure" /\ told = Nothing

-------------------------------------------------------------------------------
(* The directory. *)

Links(i) == Cardinality({n \in Name : dir[n] = i})
\* activation_path_matches: n is absent, or the one name of inode i
Matches(n, i) == dir[n] = "none" \/ (dir[n] = i /\ Links(i) = 1)
\* activation_linked_backup_pair_valid and its like: m and n are the two names of i
Linked(m, n, i) == dir[m] = i /\ dir[n] = i /\ Links(i) = 2

Write(d) == dir' = d /\ since' = since \cup {d}
Unlink(n) == Write([dir EXCEPT ![n] = "none"])
Rename(m, n) == Write([dir EXCEPT ![n] = dir[m], ![m] = "none"])
Link(m, n) == Write([dir EXCEPT ![n] = dir[m]])
Untouched == UNCHANGED <<dir, since>>

\* activation_sync_directory: a file system that cannot sync directories
\* (EINVAL, ENOTSUP, EROFS) is passed over as if it had.
MutantSynced == UNCHANGED since
Synced == since' = {dir} \/ (~tx.syncs /\ UNCHANGED since)

Goto(l) == pc' = l /\ UNCHANGED <<why, told>>
Report(op, status) == pc' = "idle" /\ told' = [op |-> op, status |-> status] /\ UNCHANGED why
Undo(reason) == pc' = "undo" /\ why' = reason /\ UNCHANGED told

-------------------------------------------------------------------------------
(* Staging: a private reservation for the backup, and the candidate's copy, *)
(* each synced.                                                             *)

Stage ==
    /\ pc = "prepare"
    /\ LET backup == IF tx.existed THEN "reserve" ELSE "none"
           stage == IF tx.action = "replace" THEN "new" ELSE "none"
           reserved == [dir EXCEPT !["backup"] = backup]
       IN  /\ dir' = [reserved EXCEPT !["stage"] = stage]
           /\ since' = {dir'} \/ (~tx.syncs /\ since' = since \cup {reserved, dir'})
    /\ tx' = [tx EXCEPT !.backup = tx.existed, !.staged = (tx.action = "replace")]
    /\ Goto("idle")

-------------------------------------------------------------------------------
(* Commit. *)

TargetStillOriginal == IF tx.existed THEN dir["target"] = "old" /\ Links("old") = 1
                                     ELSE dir["target"] = "none"

Commit ==
    /\ pc = "idle" /\ tx.state = "staged"
    /\ \/ /\ TargetStillOriginal
          /\ tx.action = "replace" => tx.staged /\ dir["stage"] = "new" /\ Links("new") = 1
          /\ Goto(IF tx.existed THEN IF tx.action = "replace" THEN "unreserve" ELSE "retire"
                  ELSE IF tx.action = "replace" THEN "publish" ELSE "committed")
       \/ Report("commit", "io")
    /\ UNCHANGED <<dir, since, tx>>

\* Over an existing target: activation_publish_existing_replacement.
Unreserve ==
    /\ pc = "unreserve"
    /\ \/ /\ Matches("backup", "reserve") /\ Unlink("backup")
          /\ tx' = [tx EXCEPT !.backup = FALSE]
          /\ Goto("link")
       \/ Untouched /\ UNCHANGED tx /\ Report("commit", "io")

MutantLinkBackup ==
    /\ pc = "link"
    /\ \/ /\ dir["backup"] = "none" /\ Rename("target", "backup")
          /\ tx' = [tx EXCEPT !.backup = TRUE, !.contains = TRUE]
          /\ Goto("pair")
       \/ Untouched /\ UNCHANGED tx /\ Report("commit", "io")
LinkBackup ==
    /\ pc = "link"
    /\ \/ /\ dir["backup"] = "none" /\ Link("target", "backup")
          /\ tx' = [tx EXCEPT !.backup = TRUE, !.contains = TRUE]
          /\ Goto("pair")
       \/ Untouched /\ UNCHANGED tx /\ Report("commit", "io")

CheckPair ==
    /\ pc = "pair"
    /\ \/ Linked("target", "backup", "old") /\ Matches("stage", "new") /\ Synced /\ Goto("replace")
       \/ UNCHANGED since /\ Goto("unlink")
    /\ UNCHANGED <<dir, tx>>

Replace ==
    /\ pc = "replace"
    /\ \/ /\ Rename("stage", "target")
          /\ tx' = [tx EXCEPT !.staged = FALSE]
          /\ Goto("committed")
       \/ Untouched /\ UNCHANGED tx /\ Goto("unlink")

\* activation_remove_linked_backup
MutantUnlinkBackup ==
    /\ pc = "unlink"
    /\ \/ /\ Linked("target", "backup", "old") /\ Unlink("backup")
          /\ tx' = [tx EXCEPT !.backup = FALSE]
          /\ Report("commit", "io")
       \/ Untouched /\ tx' = [tx EXCEPT !.state = "recovery"] /\ Undo("failure")
UnlinkBackup ==
    /\ pc = "unlink"
    /\ \/ /\ Linked("target", "backup", "old") /\ Unlink("backup")
          /\ tx' = [tx EXCEPT !.backup = FALSE, !.contains = FALSE]
          /\ Report("commit", "io")
       \/ Untouched /\ tx' = [tx EXCEPT !.state = "recovery"] /\ Undo("failure")

\* Removal: the target becomes the backup.
Retire ==
    /\ pc = "retire"
    /\ \/ /\ tx.backup /\ dir["backup"] = "reserve"
          /\ Rename("target", "backup")
          /\ tx' = [tx EXCEPT !.contains = TRUE]
          /\ Goto("committed")
       \/ Untouched /\ UNCHANGED tx /\ Report("commit", "io")

\* At an absent target: a rename that replaces nothing, or a link.
MutantPublish ==
    /\ pc = "publish"
    /\ \/ /\ tx.noreplace
          /\ Rename("stage", "target")
          /\ tx' = [tx EXCEPT !.staged = FALSE]
          /\ Goto("published")
       \/ ~tx.noreplace /\ Untouched /\ UNCHANGED tx /\ Goto("linkpub")
       \/ Untouched /\ UNCHANGED tx /\ Report("commit", "io")
Publish ==
    /\ pc = "publish"
    /\ \/ /\ tx.noreplace /\ dir["target"] = "none"
          /\ Rename("stage", "target")
          /\ tx' = [tx EXCEPT !.staged = FALSE]
          /\ Goto("published")
       \/ ~tx.noreplace /\ Untouched /\ UNCHANGED tx /\ Goto("linkpub")
       \/ Untouched /\ UNCHANGED tx /\ Report("commit", "io")

LinkPublish ==
    /\ pc = "linkpub"
    /\ \/ dir["target"] = "none" /\ Link("stage", "target") /\ UNCHANGED tx /\ Goto("linked")
       \/ Untouched /\ UNCHANGED tx /\ Report("commit", "io")

UnlinkStage ==
    /\ pc = "linked"
    /\ \/ /\ Linked("stage", "target", "new") /\ Unlink("stage")
          /\ tx' = [tx EXCEPT !.staged = FALSE]
          /\ Goto("published")
       \/ Untouched /\ tx' = [tx EXCEPT !.state = "recovery"] /\ Undo("failure")

CheckPublished ==
    /\ pc = "published"
    /\ \/ /\ dir["target"] = "new" /\ Links("new") = 1
          /\ UNCHANGED tx /\ Goto("committed")
       \/ tx' = [tx EXCEPT !.state = "recovery"] /\ Undo("failure")
    /\ Untouched

\* The directory is synced, then the validator has its say.
Committed ==
    /\ pc = "committed"
    /\ tx' = [tx EXCEPT !.state = "committed"]
    /\ \/ Synced /\ IF tx.validator THEN Goto("validate") ELSE Report("commit", "ok")
       \/ UNCHANGED since /\ Undo("failure")
    /\ UNCHANGED dir

Validate ==
    /\ pc = "validate"
    /\ Report("commit", "ok") \/ Undo("rejection")
    /\ UNCHANGED <<dir, since, tx>>

-------------------------------------------------------------------------------
(* activation_rollback_internal, for a failed or rejected commit, for rollback *)
(* and for close, which make of its status what they report.                   *)

Reported(status) ==
    CASE why = "failure" -> [op |-> "commit", status |-> IF status = "ok" THEN "io" ELSE "rollback_failed"]
      [] why = "rejection" -> [op |-> "commit",
                               status |-> IF status = "ok" THEN "rejected" ELSE "rollback_failed"]
      [] why = "rollback" -> [op |-> "rollback", status |-> status]
      [] why = "close" -> [op |-> "close", status |-> status]
Ended(status) == LET r == Reported(status) IN Report(r.op, r.status)

RecoveryNeeded == /\ tx' = [tx EXCEPT !.state = "recovery"]
                  /\ Ended("rollback_failed")
                  /\ Untouched

\* what is at the target may be replaced by the backup, or be taken away
CanRestore == /\ tx.contains /\ dir["backup"] = "old" /\ Links("old") = 1
              /\ dir["target"] # "none" => /\ tx.action = "replace"
                                           /\ dir["target"] = "new" /\ Links("new") = 1
CanRemove == \/ Matches("target", "new")
             \/ tx.staged /\ Linked("target", "stage", "new")

CheckUndo ==
    /\ pc = "undo"
    /\ \/ tx.existed /\ CanRestore /\ Goto("restore") /\ UNCHANGED tx /\ Untouched
       \/ /\ ~tx.existed /\ tx.action = "replace" /\ CanRemove
          /\ Goto(IF dir["target"] = "none" THEN "settle" ELSE "remove")
          /\ UNCHANGED tx /\ Untouched
       \/ ~tx.existed /\ tx.action = "remove" /\ Goto("settle") /\ UNCHANGED tx /\ Untouched
       \/ (tx.existed \/ tx.action = "replace") /\ RecoveryNeeded

Restore ==
    /\ pc = "restore"
    /\ \/ /\ Rename("backup", "target")
          /\ tx' = [tx EXCEPT !.backup = FALSE, !.contains = FALSE]
          /\ Goto("settle")
       \/ RecoveryNeeded

\* the second check may fail after the target is gone
RemovePublished ==
    /\ pc = "remove"
    /\ \/ CanRemove /\ Unlink("target") /\ Goto("settle") /\ UNCHANGED tx
       \/ /\ tx.staged /\ CanRemove /\ Unlink("target")
          /\ tx' = [tx EXCEPT !.state = "recovery"] /\ Ended("rollback_failed")
       \/ RecoveryNeeded

Settle ==
    /\ pc = "settle"
    /\ tx' = [tx EXCEPT !.state = "rolled_back"]
    /\ \/ Synced /\ IF why = "close" THEN Goto("discard") ELSE Ended("ok")
       \/ UNCHANGED since /\ Ended("io")
    /\ UNCHANGED dir

-------------------------------------------------------------------------------
(* The other operations. *)

Rollback == /\ pc = "idle" /\ tx.state \in {"committed", "recovery"}
            /\ Undo("rollback")
            /\ UNCHANGED <<dir, since, tx>>

Finalize ==
    /\ pc = "idle" /\ tx.state = "committed"
    /\ \/ /\ tx.contains /\ Matches("backup", "old") /\ Unlink("backup")
          /\ tx' = [tx EXCEPT !.accepted = TRUE, !.backup = FALSE, !.contains = FALSE]
          /\ Goto("finalizing")
       \/ ~tx.contains /\ tx' = [tx EXCEPT !.accepted = TRUE] /\ Goto("finalizing") /\ Untouched
       \/ UNCHANGED tx /\ Report("finalize", "io") /\ Untouched

Finalized ==
    /\ pc = "finalizing"
    /\ \/ Synced /\ tx' = [tx EXCEPT !.state = "finalized"] /\ Report("finalize", "ok")
       \/ UNCHANGED <<since, tx>> /\ Report("finalize", "io")
    /\ UNCHANGED dir

\* close rolls back what was not accepted, and discards what is left
Close ==
    /\ pc = "idle"
    /\ CASE tx.state \in {"committed", "recovery"} -> Undo("close") /\ UNCHANGED tx
         [] tx.state \in {"staged", "rolled_back"} -> Goto("discard") /\ UNCHANGED tx
         [] tx.state = "finalized" -> tx' = [tx EXCEPT !.state = "closed"] /\ Report("close", "ok")
         [] OTHER -> FALSE
    /\ Untouched

\* activation_discard_staged_assets: two removals, then a sync whatever they did
DiscardStage ==
    /\ pc = "discard" /\ Goto("unstaged")
    /\ \/ /\ tx.staged /\ Matches("stage", "new") /\ Unlink("stage")
          /\ tx' = [tx EXCEPT !.staged = FALSE]
       \/ Untouched /\ UNCHANGED tx

DiscardBackup ==
    /\ pc = "unstaged" /\ Goto("discarded")
    /\ \/ /\ tx.backup /\ ~tx.contains /\ Matches("backup", "reserve") /\ Unlink("backup")
          /\ tx' = [tx EXCEPT !.backup = FALSE]
       \/ Untouched /\ UNCHANGED tx

Discarded ==
    /\ pc = "discarded" /\ UNCHANGED dir
    /\ LET gone == ~tx.staged /\ (tx.backup => tx.contains)
       IN  \/ gone /\ Synced /\ tx' = [tx EXCEPT !.state = "closed"] /\ Report("close", "ok")
           \/ ~gone /\ Synced /\ UNCHANGED tx /\ Report("close", "io")
           \/ UNCHANGED <<since, tx>> /\ Report("close", "io")

-------------------------------------------------------------------------------
(* What surrounds the transaction. *)

\* somebody else creates the target while there is none
Foreign == /\ dir["target"] = "none" /\ pc # "dead" /\ \A d \in since : d["target"] # "foreign"
           /\ Write([dir EXCEPT !["target"] = "foreign"])
           /\ UNCHANGED <<tx, pc, why, told>>

\* the power fails: the disk holds a directory of the time since the last sync
PowerLoss == /\ pc # "dead" /\ pc' = "dead"
             /\ dir' \in since /\ since' = {dir'}
             /\ UNCHANGED <<tx, why, told>>

Next == \/ Stage \/ Commit \/ Unreserve \/ LinkBackup \/ CheckPair \/ Replace \/ UnlinkBackup
        \/ Retire \/ Publish \/ LinkPublish \/ UnlinkStage \/ CheckPublished
        \/ Committed \/ Validate
        \/ CheckUndo \/ Restore \/ RemovePublished \/ Settle
        \/ Rollback \/ Finalize \/ Finalized \/ Close
        \/ DiscardStage \/ DiscardBackup \/ Discarded
        \/ Foreign \/ PowerLoss

Spec == Init /\ [][Next]_vars

-------------------------------------------------------------------------------
(* Properties. *)

\* The type of every variable; the disk always holds a directory since the
\* last sync, and the flags of the transaction agree with its inodes.
TypeOK ==
    /\ dir \in [Name -> Inode] /\ since \subseteq [Name -> Inode] /\ dir \in since
    /\ tx.state \in {"staged", "recovery", "committed", "rolled_back", "finalized", "closed"}
    /\ told \in [op : Operation \cup {"stage"}, status : Status]
    /\ pc # "dead" => (tx.staged <=> dir["stage"] = "new")
    /\ pc # "dead" => (tx.backup <=> dir["backup"] # "none")
    /\ pc # "dead" => (tx.contains <=> dir["backup"] = "old")

\* An update has no moment without a target: whenever the power fails, an
\* existing target is there as the old or as the new file, and until the
\* caller accepts the result the old file has a name in the directory
\* (activation_transaction.c:1809, "without a disappearance window").
Kept ==
    tx.existed => /\ tx.action = "replace" => dir["target"] \in {"old", "new"}
                  /\ ~tx.accepted => \E n \in Name : dir[n] = "old"

\* What a status promises is true of the directory, and survives a power
\* failure unless the file system cannot sync directories, which the code
\* passes over (activation_transaction.c:1129).  After a commit that is ok the
\* result is at the target and the old file in the backup; after one that
\* failed or was rejected, and after a rollback, the target is what it was;
\* after a finalize the result is there and the old file is gone; after a
\* close nothing of the transaction is left beside it, and a target that was
\* not accepted is what it was.
Disk == IF tx.syncs THEN since ELSE {dir}
AsBefore(d) == d["target"] \in (IF tx.existed THEN {"old"} ELSE {"none", "foreign"})
Meaning ==
    pc = "idle" => \A d \in Disk :
      /\ told = [op |-> "commit", status |-> "ok"] =>
            /\ IF tx.action = "replace" THEN d["target"] = "new"
                                        ELSE d["target"] \in {"none", "foreign"}
            /\ tx.existed => d["backup"] = "old"
      /\ told \in [op : {"commit"}, status : {"io", "rejected"}] => AsBefore(d)
      /\ told = [op |-> "rollback", status |-> "ok"] => AsBefore(d)
      /\ told = [op |-> "finalize", status |-> "ok"] =>
            /\ d["target"] # "old" /\ d["backup"] = "none"
            /\ tx.action = "replace" => d["target"] = "new"
      /\ told = [op |-> "close", status |-> "ok"] =>
            /\ d["stage"] = "none" /\ d["backup"] = "none"
            /\ tx.accepted \/ AsBefore(d)

\* A target that somebody else created while the candidate was staged is
\* neither replaced by the publication nor taken away by a rollback.
ForeignKept ==
    [][dir["target"] = "foreign" /\ tx.action = "replace" /\ pc' # "dead"
        => dir'["target"] = "foreign"]_vars

===============================================================================
