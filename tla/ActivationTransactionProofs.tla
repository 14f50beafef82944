---------------------- MODULE ActivationTransactionProofs ---------------------
(***************************************************************************)
(* Proofs about ActivationTransaction: why there is always a target, and   *)
(* why what is reported is true of the disk.  The model has no constants   *)
(* and its run is exhaustive; the proofs say which facts about each        *)
(* position the result rests on.                                           *)
(***************************************************************************)
EXTENDS ActivationTransaction, TLAPS

PC == {"prepare", "idle", "unreserve", "link", "pair", "replace", "unlink", "retire", "publish",
       "linkpub", "linked", "published", "committed", "validate", "undo", "restore", "remove",
       "settle", "finalizing", "discard", "unstaged", "discarded", "dead"}
Reason == {"failure", "rejection", "rollback", "close"}
State == {"staged", "recovery", "committed", "rolled_back", "finalized", "closed"}
TxType == [action : {"replace", "remove"}, existed : BOOLEAN, noreplace : BOOLEAN,
           validator : BOOLEAN, syncs : BOOLEAN, state : State, staged : BOOLEAN, backup : BOOLEAN,
           contains : BOOLEAN, accepted : BOOLEAN]
ToldType == [op : Operation \cup {"stage"}, status : Status]

\* What is true of every directory d that a power failure may leave.
Shape(d, x) ==
    /\ d \in [Name -> Inode]
    /\ d["target"] \in {"none", "old", "new", "foreign"}
    /\ d["stage"] \in {"none", "new"}
    /\ d["backup"] \in {"none", "reserve", "old"}
    /\ x.action = "remove" => d["stage"] = "none" /\ d["target"] # "new"
    /\ ~x.existed => d["target"] # "old" /\ d["backup"] = "none"
    /\ x.existed /\ x.action = "replace" => d["target"] \in {"old", "new"}
    /\ x.existed /\ ~x.accepted => d["target"] = "old" \/ d["backup"] = "old"

\* the target is what it was before, and what a commit makes of the directory
Was(d, x) == d["target"] \in (IF x.existed THEN {"old"} ELSE {"none", "foreign"})
Result(d, x) == /\ x.action = "replace" => d["target"] = "new"
                /\ x.action = "remove" => d["target"] \in {"none", "foreign"}
                /\ d["stage"] = "none"
                /\ d["backup"] = IF x.existed /\ ~x.accepted THEN "old" ELSE "none"

Flags(p, d, x) == p # "dead" => /\ x.staged <=> d["stage"] = "new"
                                /\ x.backup <=> d["backup"] # "none"
                                /\ x.contains <=> d["backup"] = "old"

\* What the position p says of the directory d, of the set N of those that a
\* power failure may leave, and of the transaction x.  A file system that
\* cannot sync directories promises nothing of that set: N is then d alone.
Early == {"prepare", "unreserve", "link", "pair", "replace", "unlink", "retire", "publish", "linkpub"}
Discarding == {"discard", "unstaged", "discarded"}
Untried(p, d, N, x) ==
    /\ p \in Early => x.state = "staged"
    /\ p \in Early \cup Discarding \cup {"idle"} /\ x.state = "staged" =>
          /\ ~x.accepted /\ \A e \in N : Was(e, x)
          /\ p \notin {"pair", "replace", "unlink"} => d["backup"] # "old"
    /\ p = "prepare" => d["stage"] = "none" /\ d["backup"] = "none"
Over(p, d, x) ==
    /\ p \in {"unreserve", "link", "pair", "replace", "unlink"} =>
          x.existed /\ x.action = "replace" /\ d["stage"] = "new"
    /\ p \in {"pair", "replace", "unlink"} => d["backup"] = "old"
    /\ p = "retire" => x.existed /\ x.action = "remove"
Beside(p, d, x) ==
    /\ p \in {"publish", "linkpub", "linked", "published", "remove"} => ~x.existed /\ x.action = "replace"
    /\ p \in {"publish", "linkpub", "linked"} => d["stage"] = "new"
    /\ p \in {"linked", "published"} => d["target"] = "new" /\ ~x.accepted
    /\ p = "published" => d["stage"] = "none"
Achieved(p, d, N, x) ==
    /\ p \in {"committed", "validate"} => ~x.accepted
    /\ p \in {"validate", "finalizing"} => x.state = "committed"
    /\ p = "finalizing" => x.accepted
    /\ p \in {"committed", "validate", "finalizing"} \/ (p = "idle" /\ x.state = "committed") => Result(d, x)
    /\ p = "validate" => \A e \in N : Result(e, x)
    /\ p = "idle" /\ x.state = "finalized" =>
          x.accepted /\ \A e \in N : e["stage"] = "none" /\ e["backup"] = "none"
Undone(p, d, x) ==
    /\ p = "restore" => x.existed /\ d["backup"] = "old"
    /\ p = "settle" \/ (p \in Discarding \cup {"idle"} /\ x.state = "rolled_back") =>
          Was(d, x) /\ d["backup"] # "old"
    /\ p \in Discarding => x.state \in {"staged", "rolled_back"}

Place(p, d, N, x) == /\ Untried(p, d, N, x) /\ Over(p, d, x) /\ Beside(p, d, x)
                     /\ Achieved(p, d, N, x) /\ Undone(p, d, x)

\* Meaning, of the report t.
Promise(p, t, N, x) ==
    /\ p = "prepare" => t.op = "stage"
    /\ p = "idle" => \A d \in N :
      /\ t.op = "commit" /\ t.status = "ok" =>
            /\ x.action = "replace" => d["target"] = "new"
            /\ x.action = "remove" => d["target"] \in {"none", "foreign"}
            /\ x.existed => d["backup"] = "old"
      /\ t.op = "commit" /\ t.status \in {"io", "rejected"} => Was(d, x)
      /\ t.op = "rollback" /\ t.status = "ok" => Was(d, x)
      /\ t.op = "finalize" /\ t.status = "ok" =>
            /\ d["target"] # "old" /\ d["backup"] = "none"
            /\ x.action = "replace" => d["target"] = "new"
      /\ t.op = "close" /\ t.status = "ok" =>
            /\ d["stage"] = "none" /\ d["backup"] = "none"
            /\ x.accepted \/ Was(d, x)

Inv == /\ tx \in TxType /\ pc \in PC /\ why \in Reason /\ told \in ToldType
       /\ dir \in since /\ \A d \in since : Shape(d, tx)
       /\ Flags(pc, dir, tx)
       /\ Place(pc, dir, Disk, tx)
       /\ Promise(pc, told, Disk, tx)

-------------------------------------------------------------------------------
(* What the steps have in common. *)

\* What a write, a sync and a step beside the disk make of what a power
\* failure may leave.
LEMMA Writes ==
  ASSUME since' = since \cup {dir'}, tx'.syncs = tx.syncs
  PROVE  Disk' \subseteq Disk \cup {dir'}
  BY DEF Disk

LEMMA Syncs ==
  ASSUME Synced, dir' = dir, tx'.syncs = tx.syncs
  PROVE  Disk' = {dir'} /\ (since' = {dir'} \/ since' = since)
  BY DEF Disk, Synced

LEMMA Rests ==
  ASSUME UNCHANGED <<dir, since>>, tx'.syncs = tx.syncs
  PROVE  Disk' = Disk
  BY DEF Disk

LEMMA OnDisk == Inv => dir \in Disk /\ Disk \subseteq since
  BY DEF Inv, Disk

\* A step that changes the disk writes directories, or syncs.
LEMMA AssembleAll ==
  ASSUME Inv, tx' \in TxType, tx'.action = tx.action, tx'.existed = tx.existed,
         tx.accepted => tx'.accepted,
         pc' \in PC, why' \in Reason, told' \in ToldType,
         dir' \in since', \A d \in since' : d \in since \/ Shape(d, tx'),
         Flags(pc', dir', tx'), Place(pc', dir', Disk', tx'), Promise(pc', told', Disk', tx')
  PROVE  Inv'
<1>1. \A d \in since : Shape(d, tx')
  BY DEF Inv, Shape
<1>2. dir' \in since' /\ \A d \in since' : Shape(d, tx')
  BY <1>1
<1>3. QED BY <1>2 DEF Inv

LEMMA Assemble ==
  ASSUME Inv, tx' \in TxType, tx'.action = tx.action, tx'.existed = tx.existed,
         tx.accepted => tx'.accepted,
         pc' \in PC, why' \in Reason, told' \in ToldType,
         Shape(dir', tx'), since' = {dir'} \/ since' = since \cup {dir'},
         Flags(pc', dir', tx'), Place(pc', dir', Disk', tx'), Promise(pc', told', Disk', tx')
  PROVE  Inv'
<1>1. dir' \in since' /\ \A d \in since' : d \in since \/ Shape(d, tx')
  OBVIOUS
<1>2. QED BY <1>1, AssembleAll

\* A step that changes the position only, but for the fields of the
\* transaction that no fact here but Place depends on.
LEMMA Still ==
  ASSUME Inv, UNCHANGED <<dir, since>>, pc # "dead", tx' \in TxType,
         tx'.action = tx.action, tx'.existed = tx.existed /\ tx'.syncs = tx.syncs, tx'.accepted = tx.accepted,
         tx'.staged = tx.staged, tx'.backup = tx.backup, tx'.contains = tx.contains,
         pc' \in PC, why' \in Reason, told' \in ToldType,
         Place(pc', dir, Disk, tx'), Promise(pc', told', Disk, tx')
  PROVE  Inv'
<1>1. Shape(dir', tx') /\ since' = since \cup {dir'}
  BY DEF Inv, Shape
<1>2. Flags(pc', dir', tx')
  BY DEF Inv, Flags
<1>3. Place(pc', dir', Disk', tx') /\ Promise(pc', told', Disk', tx')
  BY Rests
<1>4. QED BY <1>1, <1>2, <1>3, Assemble

\* The transaction's state alone changes.
LEMMA StateOnly ==
  ASSUME tx \in TxType, NEW st \in State, tx' = [tx EXCEPT !.state = st]
  PROVE  /\ tx' \in TxType /\ tx'.action = tx.action /\ tx'.existed = tx.existed /\ tx'.syncs = tx.syncs
         /\ tx'.accepted = tx.accepted /\ tx'.staged = tx.staged /\ tx'.backup = tx.backup
         /\ tx'.contains = tx.contains /\ tx'.state = st
  BY DEF TxType

\* Rolling back begins: nothing is claimed until it has checked.
LEMMA ToUndo ==
  ASSUME Inv, UNCHANGED <<dir, since>>, pc # "dead",
         UNCHANGED tx \/ tx' = [tx EXCEPT !.state = "recovery"] \/ tx' = [tx EXCEPT !.state = "committed"],
         NEW reason \in Reason, Undo(reason)
  PROVE  Inv'
<1>1. tx' \in TxType /\ tx'.action = tx.action /\ tx'.existed = tx.existed /\ tx'.syncs = tx.syncs
      /\ tx'.accepted = tx.accepted /\ tx'.staged = tx.staged /\ tx'.backup = tx.backup
      /\ tx'.contains = tx.contains
  <2>1. tx \in TxType /\ "recovery" \in State /\ "committed" \in State
    BY DEF Inv, State
  <2>2. QED BY <2>1, StateOnly
<1>2. pc' = "undo" /\ why' = reason /\ told' = told
  BY DEF Undo
<1>3. pc' \in PC /\ why' \in Reason /\ told' \in ToldType
  BY <1>2 DEF Inv, PC
<1>4. Place(pc', dir, Disk, tx')
  BY <1>2 DEF Place, Untried, Early, Discarding, Over, Beside, Achieved, Undone
<1>5. Promise(pc', told', Disk, tx')
  BY <1>2 DEF Promise
<1>6. QED BY <1>1, <1>3, <1>4, <1>5, Still

\* Before anything is published a commit may fail without a trace.
LEMMA Fails ==
  ASSUME Inv, UNCHANGED <<dir, since, tx>>, tx.state = "staged",
         pc \in {"idle", "unreserve", "link", "retire", "publish", "linkpub"},
         Report("commit", "io")
  PROVE  Inv'
<1>1. pc' = "idle" /\ told' = [op |-> "commit", status |-> "io"] /\ why' = why
  BY DEF Report
<1>2. pc' \in PC /\ why' \in Reason /\ told' \in ToldType
  BY <1>1 DEF Inv, PC, ToldType, Operation, Status
<1>3. Untried(pc, dir, Disk, tx)
  BY DEF Inv, Place
<1>4. Place(pc', dir, Disk, tx')
  BY <1>1, <1>3 DEF Place, Untried, Early, Discarding, Over, Beside, Achieved, Undone
<1>5. Promise(pc', told', Disk, tx')
  BY <1>1, <1>3 DEF Promise, Untried, Early
<1>6. pc # "dead" /\ tx' \in TxType
  BY DEF Inv
<1>7. QED BY <1>2, <1>4, <1>5, <1>6, Still

\* What a rollback reports, for each reason it has.
LEMMA EndedReport ==
  ASSUME why \in Reason, NEW status \in {"ok", "io", "rollback_failed"}, Ended(status)
  PROVE  /\ pc' = "idle" /\ why' = why /\ told' \in ToldType
         /\ told'.op \in {"commit", "rollback", "close"}
         /\ told'.op = "commit" => told'.status # "ok" /\ (told'.status \in {"io", "rejected"} => status = "ok")
         /\ told'.op \in {"rollback", "close"} => told'.status = status /\ why = told'.op
<1>1. CASE why = "failure"
  BY <1>1 DEF Ended, Reported, Report, ToldType, Operation, Status
<1>2. CASE why = "rejection"
  BY <1>2 DEF Ended, Reported, Report, ToldType, Operation, Status
<1>3. CASE why = "rollback"
  BY <1>3 DEF Ended, Reported, Report, ToldType, Operation, Status
<1>4. CASE why = "close"
  BY <1>4 DEF Ended, Reported, Report, ToldType, Operation, Status
<1>5. QED BY <1>1, <1>2, <1>3, <1>4 DEF Reason

\* A rollback that gives up promises nothing.
LEMMA GivesUp ==
  ASSUME Inv, pc # "dead", RecoveryNeeded
  PROVE  Inv'
<1>1. UNCHANGED <<dir, since>> /\ tx' = [tx EXCEPT !.state = "recovery"] /\ Ended("rollback_failed")
  BY DEF RecoveryNeeded, Untouched
<1>2. tx \in TxType /\ "recovery" \in State /\ why \in Reason
  BY DEF Inv, State
<1>3. /\ tx' \in TxType /\ tx'.action = tx.action /\ tx'.existed = tx.existed /\ tx'.syncs = tx.syncs
      /\ tx'.accepted = tx.accepted /\ tx'.staged = tx.staged /\ tx'.backup = tx.backup
      /\ tx'.contains = tx.contains /\ tx'.state = "recovery"
  BY <1>1, <1>2, StateOnly
<1>4. /\ pc' = "idle" /\ why' = why /\ told' \in ToldType
      /\ told'.op \in {"commit", "rollback", "close"}
      /\ told'.op = "commit" => told'.status \notin {"ok", "io", "rejected"}
      /\ told'.op \in {"rollback", "close"} => told'.status = "rollback_failed"
  BY <1>1, <1>2, EndedReport
<1>5. Place(pc', dir, Disk, tx')
  BY <1>3, <1>4 DEF Place, Untried, Early, Discarding, Over, Beside, Achieved, Undone
<1>6. Promise(pc', told', Disk, tx')
  BY <1>4 DEF Promise
<1>7. pc' \in PC
  BY <1>4 DEF PC
<1>8. QED BY <1>1, <1>2, <1>3, <1>4, <1>5, <1>6, <1>7, Still

-------------------------------------------------------------------------------
(* Staging, and the commit. *)

LEMMA InitInv == Init => Inv
<1> SUFFICES ASSUME Init PROVE Inv
  OBVIOUS
<1>1. /\ dir \in [Name -> {"none", "old"}] /\ dir["stage"] = "none" /\ dir["backup"] = "none"
      /\ since = {dir} /\ pc = "prepare" /\ why = "failure" /\ told = Nothing
  BY DEF Init
<1>2. /\ tx.action \in {"replace", "remove"} /\ tx.state = "staged"
      /\ tx.staged = FALSE /\ tx.backup = FALSE /\ tx.contains = FALSE /\ tx.accepted = FALSE
      /\ tx.existed = (dir["target"] = "old")
  BY DEF Init
<1>3. tx \in TxType
  <2>1. {dir["target"] = "old"} \subseteq BOOLEAN
    OBVIOUS
  <2>2. QED BY <2>1 DEF Init, TxType, State
<1>4. pc \in PC /\ why \in Reason /\ told \in ToldType
  BY <1>1 DEF PC, Reason, ToldType, Nothing, Operation, Status
<1>5. dir \in [Name -> Inode] /\ dir["target"] \in {"none", "old"}
  BY <1>1 DEF Name, Inode
<1>6. \A d \in since : Shape(d, tx)
  BY <1>1, <1>2, <1>5 DEF Shape
<1>7. Flags(pc, dir, tx)
  BY <1>1, <1>2 DEF Flags
<1>8. Place(pc, dir, Disk, tx)
  BY <1>1, <1>2, <1>5 DEF Disk, Place, Untried, Early, Discarding, Over, Beside, Achieved, Undone, Was
<1>9. Promise(pc, told, Disk, tx)
  BY <1>1 DEF Promise, Nothing
<1>10. QED BY <1>1, <1>3, <1>4, <1>6, <1>7, <1>8, <1>9 DEF Inv

LEMMA StageInv == ASSUME Inv, Stage PROVE Inv'
<1> DEFINE b == IF tx.existed THEN "reserve" ELSE "none"
           c == IF tx.action = "replace" THEN "new" ELSE "none"
           r == [dir EXCEPT !["backup"] = b]
<1>1. /\ dir' = [r EXCEPT !["stage"] = c]
      /\ since' = {dir'} \/ (~tx.syncs /\ since' = since \cup {r, dir'})
      /\ tx' = [tx EXCEPT !.backup = tx.existed, !.staged = (tx.action = "replace")]
      /\ pc = "prepare" /\ pc' = "idle" /\ why' = why /\ told' = told
  BY DEF Stage, Goto
<1>2. tx \in TxType /\ Shape(dir, tx) /\ Untried(pc, dir, Disk, tx) /\ dir \in since /\ Flags(pc, dir, tx)
      /\ told \in ToldType /\ why \in Reason
  BY DEF Inv, Place
<1>3. /\ tx' \in TxType /\ tx'.action = tx.action /\ tx'.existed = tx.existed /\ tx'.syncs = tx.syncs
      /\ tx'.accepted = tx.accepted /\ tx'.staged = (tx.action = "replace")
      /\ tx'.backup = tx.existed /\ tx'.contains = tx.contains /\ tx'.state = tx.state
  BY <1>1, <1>2 DEF TxType
<1>4. /\ dir' \in [Name -> Inode] /\ dir'["target"] = dir["target"]
      /\ dir'["stage"] = c /\ dir'["backup"] = b
      /\ r \in [Name -> Inode] /\ r["target"] = dir["target"]
      /\ r["stage"] = dir["stage"] /\ r["backup"] = b
  BY <1>1, <1>2 DEF Shape, Name, Inode
<1> HIDE DEF r
<1>5. tx.action \in {"replace", "remove"} /\ tx.existed \in BOOLEAN
  BY <1>2 DEF TxType
<1>6. Was(dir, tx) /\ ~tx.accepted /\ tx.state = "staged"
  BY OnDisk, <1>1, <1>2 DEF Untried, Early, Discarding
<1>7. Shape(dir', tx') /\ Shape(r, tx')
  BY <1>2, <1>3, <1>4, <1>5, <1>6 DEF Shape, Was
<1>8. Flags(pc', dir', tx')
  <2>1. tx'.staged <=> c = "new"
    BY <1>3
  <2>2. tx'.backup <=> b # "none"
    BY <1>3, <1>5
  <2>3. ~tx.contains /\ b # "old"
    BY <1>1, <1>2 DEF Untried, Flags
  <2> HIDE DEF b, c
  <2>4. QED BY <1>3, <1>4, <2>1, <2>2, <2>3 DEF Flags
<1> HIDE DEF c
<1>9. Place(pc', dir', Disk', tx')
  <2>1. Was(dir', tx') /\ b # "old"
    BY <1>3, <1>4, <1>6 DEF Was
  <2>2. Disk' = {dir'}
    BY <1>1, <1>3 DEF Disk
  <2> HIDE DEF b
  <2>3. QED BY <1>1, <1>3, <1>4, <1>6, <2>1, <2>2
               DEF Place, Untried, Early, Discarding, Over, Beside, Achieved, Undone
<1>10. Promise(pc', told', Disk', tx')
  <2>1. told.op = "stage"
    BY <1>1 DEF Inv, Promise
  <2>2. QED BY <1>1, <2>1 DEF Promise
<1>11. pc' \in PC
  BY <1>1 DEF PC
<1>12. dir' \in since' /\ \A d \in since' : d \in since \/ Shape(d, tx')
  BY <1>1, <1>7
<1>13. QED BY <1>1, <1>2, <1>3, <1>8, <1>9, <1>10, <1>11, <1>12, AssembleAll

\* A step that goes to the position l, with and without a change of the disk.
LEMMA Moves ==
  ASSUME Inv, NEW l \in PC \ {"idle", "prepare"}, Goto(l),
         tx' \in TxType, tx'.action = tx.action, tx'.existed = tx.existed /\ tx'.syncs = tx.syncs,
         tx.accepted => tx'.accepted, Shape(dir', tx'),
         since' = {dir'} \/ since' = since \cup {dir'},
         Flags(l, dir', tx'), Place(l, dir', Disk', tx')
  PROVE  Inv'
<1>1. pc' = l /\ why' = why /\ told' = told
  BY DEF Goto
<1>2. Promise(pc', told', Disk', tx')
  BY <1>1 DEF Promise
<1>3. why' \in Reason /\ told' \in ToldType
  BY <1>1 DEF Inv
<1>4. Flags(pc', dir', tx') /\ Place(pc', dir', Disk', tx')
  BY <1>1
<1>5. QED BY <1>1, <1>2, <1>3, <1>4, Assemble

LEMMA Checks ==
  ASSUME Inv, pc # "dead", NEW l \in PC \ {"idle", "prepare"}, Goto(l), UNCHANGED <<dir, tx>>,
         since' = {dir'} \/ since' = since, Place(l, dir, Disk', tx)
  PROVE  Inv'
<1>1. tx' \in TxType /\ Shape(dir', tx') /\ Flags(l, dir', tx')
  BY DEF Inv, Flags
<1>2. since' = {dir'} \/ since' = since \cup {dir'}
  BY DEF Inv
<1>3. Place(l, dir', Disk', tx')
  OBVIOUS
<1>4. QED BY <1>1, <1>2, <1>3, Moves

LEMMA ChecksStill ==
  ASSUME Inv, pc # "dead", NEW l \in PC \ {"idle", "prepare"}, Goto(l), UNCHANGED <<dir, since, tx>>,
         Place(l, dir, Disk, tx)
  PROVE  Inv'
<1>1. Place(l, dir, Disk', tx)
  BY Rests
<1>2. QED BY <1>1, Checks

LEMMA CommitInv == ASSUME Inv, Commit PROVE Inv'
<1>1. UNCHANGED <<dir, since, tx>> /\ pc = "idle" /\ tx.state = "staged"
  BY DEF Commit
<1>2. CASE Report("commit", "io")
  BY <1>1, <1>2, Fails
<1>3. CASE /\ TargetStillOriginal
           /\ tx.action = "replace" => tx.staged /\ dir["stage"] = "new" /\ Links("new") = 1
           /\ Goto(IF tx.existed THEN IF tx.action = "replace" THEN "unreserve" ELSE "retire"
                  ELSE IF tx.action = "replace" THEN "publish" ELSE "committed")
  <2>1. /\ tx.action \in {"replace", "remove"} /\ Untried(pc, dir, Disk, tx) /\ Shape(dir, tx)
        /\ dir \in since
    BY DEF Inv, TxType, Place
  <2>2. /\ ~tx.accepted /\ dir["backup"] # "old" /\ Was(dir, tx) /\ \A d \in Disk : Was(d, tx)
    BY OnDisk, <1>1, <2>1 DEF Untried, Early, Discarding
  <2>3. CASE tx.existed /\ tx.action = "replace"
    <3>1. Place("unreserve", dir, Disk, tx)
      BY <1>1, <1>3, <2>2, <2>3 DEF Place, Untried, Early, Discarding, Over, Beside, Achieved, Undone
    <3>2. Goto("unreserve") /\ "unreserve" \in PC \ {"idle", "prepare"}
      BY <1>3, <2>3 DEF PC
    <3>3. QED BY <1>1, <3>1, <3>2, ChecksStill
  <2>4. CASE tx.existed /\ tx.action = "remove"
    <3>1. Place("retire", dir, Disk, tx)
      BY <1>1, <2>2, <2>4 DEF Place, Untried, Early, Discarding, Over, Beside, Achieved, Undone
    <3>2. Goto("retire") /\ "retire" \in PC \ {"idle", "prepare"}
      BY <1>3, <2>4 DEF PC
    <3>3. QED BY <1>1, <3>1, <3>2, ChecksStill
  <2>5. CASE ~tx.existed /\ tx.action = "replace"
    <3>1. Place("publish", dir, Disk, tx)
      BY <1>1, <1>3, <2>2, <2>5 DEF Place, Untried, Early, Discarding, Over, Beside, Achieved, Undone
    <3>2. Goto("publish") /\ "publish" \in PC \ {"idle", "prepare"}
      BY <1>3, <2>5 DEF PC
    <3>3. QED BY <1>1, <3>1, <3>2, ChecksStill
  <2>6. CASE ~tx.existed /\ tx.action = "remove"
    <3>1. Result(dir, tx)
      BY <2>1, <2>2, <2>6 DEF Result, Was, Shape
    <3>2. Place("committed", dir, Disk, tx)
      BY <2>2, <3>1 DEF Place, Untried, Early, Discarding, Over, Beside, Achieved, Undone
    <3>3. Goto("committed") /\ "committed" \in PC \ {"idle", "prepare"}
      BY <1>3, <2>6 DEF PC
    <3>4. QED BY <1>1, <3>2, <3>3, ChecksStill
  <2>7. tx.existed \in BOOLEAN
    BY DEF Inv, TxType
  <2>8. QED BY <2>1, <2>3, <2>4, <2>5, <2>6, <2>7
<1>4. QED BY <1>2, <1>3 DEF Commit

LEMMA UnreserveInv == ASSUME Inv, Unreserve PROVE Inv'
<1>1. pc = "unreserve"
  BY DEF Unreserve
<1>2. /\ tx \in TxType /\ Shape(dir, tx) /\ Flags(pc, dir, tx) /\ dir \in since
      /\ Untried(pc, dir, Disk, tx) /\ Over(pc, dir, tx)
  BY DEF Inv, Place
<1>3. /\ tx.state = "staged" /\ ~tx.accepted /\ dir["backup"] # "old" /\ \A d \in Disk : Was(d, tx)
      /\ tx.existed /\ tx.action = "replace" /\ dir["stage"] = "new" /\ dir["target"] = "old"
  BY OnDisk, <1>1, <1>2 DEF Untried, Early, Discarding, Over, Was
<1>4. CASE Untouched /\ UNCHANGED tx /\ Report("commit", "io")
  BY <1>1, <1>3, <1>4, Fails DEF Untouched
<1>5. CASE Unlink("backup") /\ tx' = [tx EXCEPT !.backup = FALSE] /\ Goto("link")
  <2>1. /\ tx' \in TxType /\ tx'.action = tx.action /\ tx'.existed = tx.existed /\ tx'.syncs = tx.syncs
        /\ tx'.accepted = tx.accepted /\ tx'.staged = tx.staged /\ tx'.backup = FALSE
        /\ tx'.contains = tx.contains /\ tx'.state = tx.state
    BY <1>2, <1>5 DEF TxType
  <2>2. /\ dir' \in [Name -> Inode] /\ dir'["target"] = dir["target"] /\ dir'["stage"] = dir["stage"]
        /\ dir'["backup"] = "none" /\ since' = since \cup {dir'}
    BY <1>2, <1>5 DEF Unlink, Write, Shape, Name, Inode
  <2>3. Shape(dir', tx')
    BY <1>2, <1>3, <2>1, <2>2 DEF Shape
  <2>4. Flags("link", dir', tx')
    BY <1>1, <1>2, <1>3, <2>1, <2>2 DEF Flags
  <2>5. \A d \in Disk' : Was(d, tx')
    BY <1>3, <2>1, <2>2 DEF Was, Disk
  <2>6. Place("link", dir', Disk', tx')
    BY <1>3, <2>1, <2>2, <2>5 DEF Place, Untried, Early, Discarding, Over, Beside, Achieved, Undone
  <2>7. "link" \in PC \ {"idle", "prepare"}
    BY DEF PC
  <2>8. QED BY <1>5, <2>1, <2>2, <2>3, <2>4, <2>6, <2>7, Moves
<1>6. QED BY <1>4, <1>5 DEF Unreserve

LEMMA LinkBackupInv == ASSUME Inv, LinkBackup PROVE Inv'
<1>1. pc = "link"
  BY DEF LinkBackup
<1>2. /\ tx \in TxType /\ Shape(dir, tx) /\ Flags(pc, dir, tx) /\ dir \in since
      /\ Untried(pc, dir, Disk, tx) /\ Over(pc, dir, tx)
  BY DEF Inv, Place
<1>3. /\ tx.state = "staged" /\ ~tx.accepted /\ \A d \in Disk : Was(d, tx)
      /\ tx.existed /\ tx.action = "replace" /\ dir["stage"] = "new" /\ dir["target"] = "old"
  BY OnDisk, <1>1, <1>2 DEF Untried, Early, Discarding, Over, Was
<1>4. CASE Untouched /\ UNCHANGED tx /\ Report("commit", "io")
  BY <1>1, <1>3, <1>4, Fails DEF Untouched
<1>5. CASE /\ Link("target", "backup")
           /\ tx' = [tx EXCEPT !.backup = TRUE, !.contains = TRUE] /\ Goto("pair")
  <2>1. /\ tx' \in TxType /\ tx'.action = tx.action /\ tx'.existed = tx.existed /\ tx'.syncs = tx.syncs
        /\ tx'.accepted = tx.accepted /\ tx'.staged = tx.staged /\ tx'.backup = TRUE
        /\ tx'.contains = TRUE /\ tx'.state = tx.state
    BY <1>2, <1>5 DEF TxType
  <2>2. /\ dir' \in [Name -> Inode] /\ dir'["target"] = dir["target"] /\ dir'["stage"] = dir["stage"]
        /\ dir'["backup"] = "old" /\ since' = since \cup {dir'}
    BY <1>2, <1>3, <1>5 DEF Link, Write, Shape, Name, Inode
  <2>3. Shape(dir', tx')
    BY <1>2, <1>3, <2>1, <2>2 DEF Shape
  <2>4. Flags("pair", dir', tx')
    BY <1>1, <1>2, <2>1, <2>2 DEF Flags
  <2>5. \A d \in Disk' : Was(d, tx')
    BY <1>3, <2>1, <2>2 DEF Was, Disk
  <2>6. Place("pair", dir', Disk', tx')
    BY <1>3, <2>1, <2>2, <2>5 DEF Place, Untried, Early, Discarding, Over, Beside, Achieved, Undone
  <2>7. "pair" \in PC \ {"idle", "prepare"}
    BY DEF PC
  <2>8. QED BY <1>5, <2>1, <2>2, <2>3, <2>4, <2>6, <2>7, Moves
<1>6. QED BY <1>4, <1>5 DEF LinkBackup

LEMMA CheckPairInv == ASSUME Inv, CheckPair PROVE Inv'
<1>1. pc = "pair" /\ UNCHANGED <<dir, tx>>
  BY DEF CheckPair
<1>2. Place(pc, dir, Disk, tx) /\ dir \in since
  BY DEF Inv
<1>3. CASE Synced /\ Goto("replace")
  <2>1. Disk' = {dir'} /\ Disk' \subseteq Disk /\ (since' = {dir'} \/ since' = since)
    BY <1>1, <1>3, OnDisk, Syncs
  <2>2. Place("replace", dir, Disk', tx)
    BY <1>1, <1>2, <2>1 DEF Place, Untried, Early, Discarding, Over, Beside, Achieved, Undone
  <2>3. "replace" \in PC \ {"idle", "prepare"}
    BY DEF PC
  <2>4. QED BY <1>1, <1>3, <2>1, <2>2, <2>3, Checks
<1>4. CASE UNCHANGED since /\ Goto("unlink")
  <2>1. Place("unlink", dir, Disk', tx)
    BY <1>1, <1>2, <1>4 DEF Disk, Place, Untried, Early, Discarding, Over, Beside, Achieved, Undone
  <2>2. "unlink" \in PC \ {"idle", "prepare"}
    BY DEF PC
  <2>3. QED BY <1>1, <1>4, <2>1, <2>2, Checks
<1>5. QED BY <1>3, <1>4 DEF CheckPair

LEMMA ReplaceInv == ASSUME Inv, Replace PROVE Inv'
<1>1. pc = "replace"
  BY DEF Replace
<1>2. /\ tx \in TxType /\ Shape(dir, tx) /\ Flags(pc, dir, tx) /\ dir \in since
      /\ Untried(pc, dir, Disk, tx) /\ Over(pc, dir, tx) /\ Place(pc, dir, Disk, tx)
  BY DEF Inv, Place
<1>3. /\ tx.state = "staged" /\ ~tx.accepted /\ \A d \in Disk : Was(d, tx)
      /\ tx.existed /\ tx.action = "replace" /\ dir["stage"] = "new" /\ dir["backup"] = "old"
  BY <1>1, <1>2 DEF Untried, Early, Discarding, Over
<1>4. CASE Untouched /\ UNCHANGED tx /\ Goto("unlink")
  <2>1. UNCHANGED <<dir, since>> /\ Disk' = Disk
    BY <1>4, Rests DEF Untouched
  <2>2. Place("unlink", dir, Disk', tx)
    BY <1>1, <1>2, <2>1 DEF Place, Untried, Early, Discarding, Over, Beside, Achieved, Undone
  <2>3. "unlink" \in PC \ {"idle", "prepare"}
    BY DEF PC
  <2>4. QED BY <1>1, <1>4, <2>1, <2>2, <2>3, Checks
<1>5. CASE Rename("stage", "target") /\ tx' = [tx EXCEPT !.staged = FALSE] /\ Goto("committed")
  <2>1. /\ tx' \in TxType /\ tx'.action = tx.action /\ tx'.existed = tx.existed /\ tx'.syncs = tx.syncs
        /\ tx'.accepted = tx.accepted /\ tx'.staged = FALSE /\ tx'.backup = tx.backup
        /\ tx'.contains = tx.contains /\ tx'.state = tx.state
    BY <1>2, <1>5 DEF TxType
  <2>2. /\ dir' \in [Name -> Inode] /\ dir'["target"] = "new" /\ dir'["stage"] = "none"
        /\ dir'["backup"] = dir["backup"] /\ since' = since \cup {dir'}
    BY <1>2, <1>3, <1>5 DEF Rename, Write, Shape, Name, Inode
  <2>3. Shape(dir', tx') /\ Result(dir', tx')
    BY <1>2, <1>3, <2>1, <2>2 DEF Shape, Result
  <2>4. Flags("committed", dir', tx')
    BY <1>1, <1>2, <2>1, <2>2 DEF Flags
  <2>5. Place("committed", dir', Disk', tx')
    BY <1>3, <2>1, <2>3 DEF Place, Untried, Early, Discarding, Over, Beside, Achieved, Undone
  <2>6. "committed" \in PC \ {"idle", "prepare"}
    BY DEF PC
  <2>7. QED BY <1>5, <2>1, <2>2, <2>3, <2>4, <2>5, <2>6, Moves
<1>6. QED BY <1>4, <1>5 DEF Replace

LEMMA UnlinkBackupInv == ASSUME Inv, UnlinkBackup PROVE Inv'
<1>1. pc = "unlink"
  BY DEF UnlinkBackup
<1>2. /\ tx \in TxType /\ Shape(dir, tx) /\ Flags(pc, dir, tx) /\ dir \in since
      /\ Untried(pc, dir, Disk, tx) /\ Over(pc, dir, tx) /\ why \in Reason /\ told \in ToldType
  BY DEF Inv, Place
<1>3. /\ tx.state = "staged" /\ ~tx.accepted /\ \A d \in Disk : Was(d, tx)
      /\ tx.existed /\ tx.action = "replace" /\ dir["stage"] = "new" /\ dir["target"] = "old"
  BY OnDisk, <1>1, <1>2 DEF Untried, Early, Discarding, Over, Was
<1>4. CASE Untouched /\ tx' = [tx EXCEPT !.state = "recovery"] /\ Undo("failure")
  BY <1>1, <1>4, ToUndo DEF Untouched, Reason
<1>5. CASE /\ Unlink("backup") /\ tx' = [tx EXCEPT !.backup = FALSE, !.contains = FALSE]
           /\ Report("commit", "io")
  <2>1. /\ tx' \in TxType /\ tx'.action = tx.action /\ tx'.existed = tx.existed /\ tx'.syncs = tx.syncs
        /\ tx'.accepted = tx.accepted /\ tx'.staged = tx.staged /\ tx'.backup = FALSE
        /\ tx'.contains = FALSE /\ tx'.state = tx.state
    BY <1>2, <1>5 DEF TxType
  <2>2. /\ dir' \in [Name -> Inode] /\ dir'["target"] = dir["target"] /\ dir'["stage"] = dir["stage"]
        /\ dir'["backup"] = "none" /\ since' = since \cup {dir'}
    BY <1>2, <1>5 DEF Unlink, Write, Shape, Name, Inode
  <2>3. pc' = "idle" /\ told' = [op |-> "commit", status |-> "io"] /\ why' = why
    BY <1>5 DEF Report
  <2>4. pc' \in PC /\ why' \in Reason /\ told' \in ToldType
    BY <1>2, <2>3 DEF PC, ToldType, Operation, Status
  <2>5. Shape(dir', tx')
    BY <1>2, <1>3, <2>1, <2>2 DEF Shape
  <2>6. Flags(pc', dir', tx')
    BY <1>1, <1>2, <2>1, <2>2 DEF Flags
  <2>7. \A d \in Disk' : Was(d, tx')
    BY <1>3, <2>1, <2>2 DEF Was, Disk
  <2>8. Place(pc', dir', Disk', tx')
    BY <1>3, <2>1, <2>2, <2>3, <2>7
       DEF Place, Untried, Early, Discarding, Over, Beside, Achieved, Undone
  <2>9. Promise(pc', told', Disk', tx')
    BY <2>3, <2>7 DEF Promise
  <2>10. QED BY <2>1, <2>2, <2>4, <2>5, <2>6, <2>8, <2>9, Assemble
<1>6. QED BY <1>4, <1>5 DEF UnlinkBackup

LEMMA RetireInv == ASSUME Inv, Retire PROVE Inv'
<1>1. pc = "retire"
  BY DEF Retire
<1>2. /\ tx \in TxType /\ Shape(dir, tx) /\ Flags(pc, dir, tx) /\ dir \in since
      /\ Untried(pc, dir, Disk, tx) /\ Over(pc, dir, tx)
  BY DEF Inv, Place
<1>3. /\ tx.state = "staged" /\ ~tx.accepted /\ tx.existed /\ tx.action = "remove"
      /\ dir["target"] = "old" /\ dir["stage"] = "none"
  BY <1>1, <1>2 DEF Untried, Early, Discarding, Over, Was, Shape
<1>4. CASE Untouched /\ UNCHANGED tx /\ Report("commit", "io")
  BY <1>1, <1>3, <1>4, Fails DEF Untouched
<1>5. CASE /\ tx.backup /\ Rename("target", "backup")
           /\ tx' = [tx EXCEPT !.contains = TRUE] /\ Goto("committed")
  <2>1. /\ tx' \in TxType /\ tx'.action = tx.action /\ tx'.existed = tx.existed /\ tx'.syncs = tx.syncs
        /\ tx'.accepted = tx.accepted /\ tx'.staged = tx.staged /\ tx'.backup = tx.backup
        /\ tx'.contains = TRUE /\ tx'.state = tx.state
    BY <1>2, <1>5 DEF TxType
  <2>2. /\ dir' \in [Name -> Inode] /\ dir'["target"] = "none" /\ dir'["stage"] = dir["stage"]
        /\ dir'["backup"] = "old" /\ since' = since \cup {dir'}
    BY <1>2, <1>3, <1>5 DEF Rename, Write, Shape, Name, Inode
  <2>3. Shape(dir', tx') /\ Result(dir', tx')
    BY <1>2, <1>3, <2>1, <2>2 DEF Shape, Result
  <2>4. Flags("committed", dir', tx')
    BY <1>1, <1>2, <1>5, <2>1, <2>2 DEF Flags
  <2>5. Place("committed", dir', Disk', tx')
    BY <1>3, <2>1, <2>3 DEF Place, Untried, Early, Discarding, Over, Beside, Achieved, Undone
  <2>6. "committed" \in PC \ {"idle", "prepare"}
    BY DEF PC
  <2>7. QED BY <1>5, <2>1, <2>2, <2>3, <2>4, <2>5, <2>6, Moves
<1>6. QED BY <1>4, <1>5 DEF Retire

-------------------------------------------------------------------------------
(* Publication where there was no target. *)

LEMMA PublishInv == ASSUME Inv, Publish PROVE Inv'
<1>1. pc = "publish"
  BY DEF Publish
<1>2. /\ tx \in TxType /\ Shape(dir, tx) /\ Flags(pc, dir, tx) /\ dir \in since
      /\ Untried(pc, dir, Disk, tx) /\ Beside(pc, dir, tx) /\ Place(pc, dir, Disk, tx)
  BY DEF Inv, Place
<1>3. /\ tx.state = "staged" /\ ~tx.accepted /\ \A d \in Disk : Was(d, tx)
      /\ ~tx.existed /\ tx.action = "replace" /\ dir["stage"] = "new" /\ dir["backup"] = "none"
  BY <1>1, <1>2 DEF Untried, Early, Discarding, Beside, Shape
<1>4. CASE Untouched /\ UNCHANGED tx /\ Report("commit", "io")
  BY <1>1, <1>3, <1>4, Fails DEF Untouched
<1>5. CASE Untouched /\ UNCHANGED tx /\ Goto("linkpub")
  <2>1. UNCHANGED <<dir, since>> /\ Disk' = Disk
    BY <1>5, Rests DEF Untouched
  <2>2. Place("linkpub", dir, Disk', tx)
    BY <1>1, <1>2, <2>1 DEF Place, Untried, Early, Discarding, Over, Beside, Achieved, Undone
  <2>3. "linkpub" \in PC \ {"idle", "prepare"}
    BY DEF PC
  <2>4. QED BY <1>1, <1>5, <2>1, <2>2, <2>3, Checks
<1>6. CASE Rename("stage", "target") /\ tx' = [tx EXCEPT !.staged = FALSE] /\ Goto("published")
  <2>1. /\ tx' \in TxType /\ tx'.action = tx.action /\ tx'.existed = tx.existed /\ tx'.syncs = tx.syncs
        /\ tx'.accepted = tx.accepted /\ tx'.staged = FALSE /\ tx'.backup = tx.backup
        /\ tx'.contains = tx.contains /\ tx'.state = tx.state
    BY <1>2, <1>6 DEF TxType
  <2>2. /\ dir' \in [Name -> Inode] /\ dir'["target"] = "new" /\ dir'["stage"] = "none"
        /\ dir'["backup"] = dir["backup"] /\ since' = since \cup {dir'}
    BY <1>2, <1>3, <1>6 DEF Rename, Write, Shape, Name, Inode
  <2>3. Shape(dir', tx')
    BY <1>2, <1>3, <2>1, <2>2 DEF Shape
  <2>4. Flags("published", dir', tx')
    BY <1>1, <1>2, <2>1, <2>2 DEF Flags
  <2>5. Place("published", dir', Disk', tx')
    BY <1>3, <2>1, <2>2 DEF Place, Untried, Early, Discarding, Over, Beside, Achieved, Undone
  <2>6. "published" \in PC \ {"idle", "prepare"}
    BY DEF PC
  <2>7. QED BY <1>6, <2>1, <2>2, <2>3, <2>4, <2>5, <2>6, Moves
<1>7. QED BY <1>4, <1>5, <1>6 DEF Publish

LEMMA LinkPublishInv == ASSUME Inv, LinkPublish PROVE Inv'
<1>1. pc = "linkpub"
  BY DEF LinkPublish
<1>2. /\ tx \in TxType /\ Shape(dir, tx) /\ Flags(pc, dir, tx) /\ dir \in since
      /\ Untried(pc, dir, Disk, tx) /\ Beside(pc, dir, tx)
  BY DEF Inv, Place
<1>3. /\ tx.state = "staged" /\ ~tx.accepted /\ \A d \in Disk : Was(d, tx)
      /\ ~tx.existed /\ tx.action = "replace" /\ dir["stage"] = "new" /\ dir["backup"] = "none"
  BY <1>1, <1>2 DEF Untried, Early, Discarding, Beside, Shape
<1>4. CASE Untouched /\ UNCHANGED tx /\ Report("commit", "io")
  BY <1>1, <1>3, <1>4, Fails DEF Untouched
<1>5. CASE Link("stage", "target") /\ UNCHANGED tx /\ Goto("linked")
  <2>1. /\ dir' \in [Name -> Inode] /\ dir'["target"] = "new" /\ dir'["stage"] = dir["stage"]
        /\ dir'["backup"] = dir["backup"] /\ since' = since \cup {dir'}
    BY <1>2, <1>3, <1>5 DEF Link, Write, Shape, Name, Inode
  <2>2. Shape(dir', tx)
    BY <1>2, <1>3, <2>1 DEF Shape
  <2>3. Flags("linked", dir', tx)
    BY <1>1, <1>2, <2>1 DEF Flags
  <2>4. Place("linked", dir', Disk', tx)
    BY <1>3, <2>1 DEF Place, Untried, Early, Discarding, Over, Beside, Achieved, Undone
  <2>5. "linked" \in PC \ {"idle", "prepare"}
    BY DEF PC
  <2>6. tx' = tx
    BY <1>5
  <2>7. QED BY <1>2, <1>5, <2>1, <2>2, <2>3, <2>4, <2>5, <2>6, Moves
<1>6. QED BY <1>4, <1>5 DEF LinkPublish

LEMMA UnlinkStageInv == ASSUME Inv, UnlinkStage PROVE Inv'
<1>1. pc = "linked"
  BY DEF UnlinkStage
<1>2. /\ tx \in TxType /\ Shape(dir, tx) /\ Flags(pc, dir, tx) /\ Beside(pc, dir, tx)
  BY DEF Inv, Place
<1>3. /\ ~tx.existed /\ tx.action = "replace" /\ ~tx.accepted
      /\ dir["target"] = "new" /\ dir["backup"] = "none"
  BY <1>1, <1>2 DEF Beside, Shape
<1>4. CASE Untouched /\ tx' = [tx EXCEPT !.state = "recovery"] /\ Undo("failure")
  BY <1>1, <1>4, ToUndo DEF Untouched, Reason
<1>5. CASE Unlink("stage") /\ tx' = [tx EXCEPT !.staged = FALSE] /\ Goto("published")
  <2>1. /\ tx' \in TxType /\ tx'.action = tx.action /\ tx'.existed = tx.existed /\ tx'.syncs = tx.syncs
        /\ tx'.accepted = tx.accepted /\ tx'.staged = FALSE /\ tx'.backup = tx.backup
        /\ tx'.contains = tx.contains /\ tx'.state = tx.state
    BY <1>2, <1>5 DEF TxType
  <2>2. /\ dir' \in [Name -> Inode] /\ dir'["target"] = "new" /\ dir'["stage"] = "none"
        /\ dir'["backup"] = dir["backup"] /\ since' = since \cup {dir'}
    BY <1>2, <1>3, <1>5 DEF Unlink, Write, Shape, Name, Inode
  <2>3. Shape(dir', tx')
    BY <1>2, <1>3, <2>1, <2>2 DEF Shape
  <2>4. Flags("published", dir', tx')
    BY <1>1, <1>2, <2>1, <2>2 DEF Flags
  <2>5. Place("published", dir', Disk', tx')
    BY <1>3, <2>1, <2>2 DEF Place, Untried, Early, Discarding, Over, Beside, Achieved, Undone
  <2>6. "published" \in PC \ {"idle", "prepare"}
    BY DEF PC
  <2>7. QED BY <1>5, <2>1, <2>2, <2>3, <2>4, <2>5, <2>6, Moves
<1>6. QED BY <1>4, <1>5 DEF UnlinkStage

LEMMA CheckPublishedInv == ASSUME Inv, CheckPublished PROVE Inv'
<1>1. pc = "published" /\ UNCHANGED <<dir, since>>
  BY DEF CheckPublished, Untouched
<1>2. /\ Shape(dir, tx) /\ Beside(pc, dir, tx)
  BY DEF Inv, Place
<1>3. CASE tx' = [tx EXCEPT !.state = "recovery"] /\ Undo("failure")
  BY <1>1, <1>3, ToUndo DEF Reason
<1>4. CASE UNCHANGED tx /\ Goto("committed")
  <2>1. Result(dir, tx) /\ ~tx.accepted
    BY <1>1, <1>2 DEF Result, Beside, Shape
  <2>2. Place("committed", dir, Disk, tx)
    BY <2>1 DEF Place, Untried, Early, Discarding, Over, Beside, Achieved, Undone
  <2>3. "committed" \in PC \ {"idle", "prepare"}
    BY DEF PC
  <2>4. QED BY <1>1, <1>4, <2>2, <2>3, ChecksStill
<1>5. QED BY <1>3, <1>4 DEF CheckPublished

LEMMA CommittedInv == ASSUME Inv, Committed PROVE Inv'
<1>1. /\ pc = "committed" /\ tx' = [tx EXCEPT !.state = "committed"] /\ dir' = dir
  BY DEF Committed
<1>2. /\ tx \in TxType /\ Shape(dir, tx) /\ Flags(pc, dir, tx) /\ Achieved(pc, dir, Disk, tx)
      /\ "committed" \in State /\ why \in Reason /\ told \in ToldType
  BY DEF Inv, Place, State
<1>3. Result(dir, tx) /\ ~tx.accepted
  BY <1>1, <1>2 DEF Achieved
<1>4. /\ tx' \in TxType /\ tx'.action = tx.action /\ tx'.existed = tx.existed /\ tx'.syncs = tx.syncs
      /\ tx'.accepted = tx.accepted /\ tx'.staged = tx.staged /\ tx'.backup = tx.backup
      /\ tx'.contains = tx.contains /\ tx'.state = "committed"
  BY <1>1, <1>2, StateOnly
<1>5. Shape(dir', tx') /\ Result(dir', tx')
  BY <1>1, <1>2, <1>3, <1>4 DEF Shape, Result
<1>6. CASE UNCHANGED since /\ Undo("failure")
  BY <1>1, <1>6, ToUndo DEF Reason
<1>7. CASE Synced /\ Goto("validate")
  <2>1. Disk' = {dir'} /\ (since' = {dir'} \/ since' = since \cup {dir'})
    BY <1>1, <1>4, <1>7, Syncs DEF Inv
  <2>2. Flags("validate", dir', tx')
    BY <1>1, <1>2, <1>4 DEF Flags
  <2>3. Place("validate", dir', Disk', tx')
    BY <1>3, <1>4, <1>5, <2>1 DEF Place, Untried, Early, Discarding, Over, Beside, Achieved, Undone
  <2>4. "validate" \in PC \ {"idle", "prepare"}
    BY DEF PC
  <2>5. QED BY <1>4, <1>5, <1>7, <2>1, <2>2, <2>3, <2>4, Moves
<1>8. CASE Synced /\ Report("commit", "ok")
  <2>1. Disk' = {dir'} /\ (since' = {dir'} \/ since' = since \cup {dir'})
    BY <1>1, <1>4, <1>8, Syncs DEF Inv
  <2>2. pc' = "idle" /\ told' = [op |-> "commit", status |-> "ok"] /\ why' = why
    BY <1>8 DEF Report
  <2>3. pc' \in PC /\ why' \in Reason /\ told' \in ToldType
    BY <1>2, <2>2 DEF PC, ToldType, Operation, Status
  <2>4. Flags(pc', dir', tx')
    BY <1>1, <1>2, <1>4 DEF Flags
  <2>5. Place(pc', dir', Disk', tx')
    BY <1>3, <1>4, <1>5, <2>2 DEF Place, Untried, Early, Discarding, Over, Beside, Achieved, Undone
  <2>6. Promise(pc', told', Disk', tx')
    BY <1>3, <1>4, <1>5, <2>1, <2>2 DEF Promise, Result
  <2>7. QED BY <1>4, <1>5, <2>1, <2>3, <2>4, <2>5, <2>6, Assemble
<1>9. QED BY <1>6, <1>7, <1>8 DEF Committed

LEMMA ValidateInv == ASSUME Inv, Validate PROVE Inv'
<1>1. pc = "validate" /\ UNCHANGED <<dir, since, tx>>
  BY DEF Validate
<1>2. CASE Undo("rejection")
  BY <1>1, <1>2, ToUndo DEF Reason
<1>3. CASE Report("commit", "ok")
  <2>1. pc' = "idle" /\ told' = [op |-> "commit", status |-> "ok"] /\ why' = why
    BY <1>3 DEF Report
  <2>2. tx \in TxType /\ why \in Reason /\ Achieved(pc, dir, Disk, tx)
    BY DEF Inv, Place
  <2>3. ~tx.accepted /\ tx.state = "committed" /\ Result(dir, tx) /\ \A d \in Disk : Result(d, tx)
    BY <1>1, <2>2 DEF Achieved
  <2>4. pc' \in PC /\ why' \in Reason /\ told' \in ToldType
    BY <2>1, <2>2 DEF PC, ToldType, Operation, Status
  <2>5. Place(pc', dir, Disk, tx')
    BY <1>1, <2>1, <2>3 DEF Place, Untried, Early, Discarding, Over, Beside, Achieved, Undone
  <2>6. Promise(pc', told', Disk, tx')
    BY <1>1, <2>1, <2>3 DEF Promise, Result
  <2>7. QED BY <1>1, <2>2, <2>4, <2>5, <2>6, Still
<1>4. QED BY <1>2, <1>3 DEF Validate

-------------------------------------------------------------------------------
(* Rolling back. *)

LEMMA CheckUndoInv == ASSUME Inv, CheckUndo PROVE Inv'
<1>1. pc = "undo"
  BY DEF CheckUndo
<1>2. tx \in TxType /\ Shape(dir, tx)
  BY DEF Inv
<1>3. CASE RecoveryNeeded
  BY <1>1, <1>3, GivesUp
<1>4. CASE tx.existed /\ CanRestore /\ Goto("restore") /\ UNCHANGED tx /\ Untouched
  <2>1. UNCHANGED <<dir, since>> /\ dir["backup"] = "old"
    BY <1>4 DEF Untouched, CanRestore
  <2>2. Place("restore", dir, Disk', tx)
    BY <1>4, <2>1 DEF Place, Untried, Early, Discarding, Over, Beside, Achieved, Undone
  <2>3. "restore" \in PC \ {"idle", "prepare"}
    BY DEF PC
  <2>4. QED BY <1>1, <1>4, <2>1, <2>2, <2>3, Checks
<1>5. CASE /\ ~tx.existed /\ tx.action = "replace" /\ dir["target"] # "none"
           /\ Goto("remove") /\ UNCHANGED tx /\ Untouched
  <2>1. UNCHANGED <<dir, since>>
    BY <1>5 DEF Untouched
  <2>2. Place("remove", dir, Disk', tx)
    BY <1>5 DEF Place, Untried, Early, Discarding, Over, Beside, Achieved, Undone
  <2>3. "remove" \in PC \ {"idle", "prepare"}
    BY DEF PC
  <2>4. QED BY <1>1, <1>5, <2>1, <2>2, <2>3, Checks
<1>6. CASE /\ ~tx.existed /\ (tx.action = "remove" \/ dir["target"] = "none")
           /\ Goto("settle") /\ UNCHANGED tx /\ Untouched
  <2>1. UNCHANGED <<dir, since>>
    BY <1>6 DEF Untouched
  <2>2. Was(dir, tx) /\ dir["backup"] # "old"
    BY <1>2, <1>6 DEF Was, Shape
  <2>3. Place("settle", dir, Disk', tx)
    BY <2>2 DEF Place, Untried, Early, Discarding, Over, Beside, Achieved, Undone
  <2>4. "settle" \in PC \ {"idle", "prepare"}
    BY DEF PC
  <2>5. QED BY <1>1, <1>6, <2>1, <2>3, <2>4, Checks
<1>7. QED BY <1>3, <1>4, <1>5, <1>6 DEF CheckUndo

LEMMA RestoreInv == ASSUME Inv, Restore PROVE Inv'
<1>1. pc = "restore"
  BY DEF Restore
<1>2. /\ tx \in TxType /\ Shape(dir, tx) /\ Flags(pc, dir, tx) /\ Undone(pc, dir, tx)
  BY DEF Inv, Place
<1>3. tx.existed /\ dir["backup"] = "old"
  BY <1>1, <1>2 DEF Undone
<1>4. CASE RecoveryNeeded
  BY <1>1, <1>4, GivesUp
<1>5. CASE /\ Rename("backup", "target")
           /\ tx' = [tx EXCEPT !.backup = FALSE, !.contains = FALSE] /\ Goto("settle")
  <2>1. /\ tx' \in TxType /\ tx'.action = tx.action /\ tx'.existed = tx.existed /\ tx'.syncs = tx.syncs
        /\ tx'.accepted = tx.accepted /\ tx'.staged = tx.staged /\ tx'.backup = FALSE
        /\ tx'.contains = FALSE /\ tx'.state = tx.state
    BY <1>2, <1>5 DEF TxType
  <2>2. /\ dir' \in [Name -> Inode] /\ dir'["target"] = "old" /\ dir'["stage"] = dir["stage"]
        /\ dir'["backup"] = "none" /\ since' = since \cup {dir'}
    BY <1>2, <1>3, <1>5 DEF Rename, Write, Shape, Name, Inode
  <2>3. Shape(dir', tx') /\ Was(dir', tx')
    BY <1>2, <1>3, <2>1, <2>2 DEF Shape, Was
  <2>4. Flags("settle", dir', tx')
    BY <1>1, <1>2, <2>1, <2>2 DEF Flags
  <2>5. Place("settle", dir', Disk', tx')
    BY <2>2, <2>3 DEF Place, Untried, Early, Discarding, Over, Beside, Achieved, Undone
  <2>6. "settle" \in PC \ {"idle", "prepare"}
    BY DEF PC
  <2>7. QED BY <1>5, <2>1, <2>2, <2>3, <2>4, <2>5, <2>6, Moves
<1>6. QED BY <1>4, <1>5 DEF Restore

LEMMA RemovePublishedInv == ASSUME Inv, RemovePublished PROVE Inv'
<1>1. pc = "remove"
  BY DEF RemovePublished
<1>2. /\ tx \in TxType /\ Shape(dir, tx) /\ Flags(pc, dir, tx) /\ Beside(pc, dir, tx)
      /\ why \in Reason /\ "recovery" \in State
  BY DEF Inv, Place, State
<1>3. ~tx.existed /\ tx.action = "replace" /\ dir["backup"] = "none"
  BY <1>1, <1>2 DEF Beside, Shape
<1>4. CASE RecoveryNeeded
  BY <1>1, <1>4, GivesUp
<1>5. ASSUME Unlink("target")
      PROVE  /\ dir' \in [Name -> Inode] /\ dir'["target"] = "none" /\ dir'["stage"] = dir["stage"]
             /\ dir'["backup"] = dir["backup"] /\ since' = since \cup {dir'}
  BY <1>2, <1>5 DEF Unlink, Write, Shape, Name, Inode
<1>6. CASE Unlink("target") /\ Goto("settle") /\ UNCHANGED tx
  <2>1. Shape(dir', tx) /\ Was(dir', tx)
    BY <1>2, <1>3, <1>5, <1>6 DEF Shape, Was
  <2>2. Flags("settle", dir', tx)
    BY <1>1, <1>2, <1>5, <1>6 DEF Flags
  <2>3. Place("settle", dir', Disk', tx)
    BY <1>3, <1>5, <1>6, <2>1 DEF Place, Untried, Early, Discarding, Over, Beside, Achieved, Undone
  <2>4. "settle" \in PC \ {"idle", "prepare"} /\ tx' = tx
    BY <1>6 DEF PC
  <2>5. QED BY <1>2, <1>5, <1>6, <2>1, <2>2, <2>3, <2>4, Moves
<1>7. CASE /\ Unlink("target") /\ tx' = [tx EXCEPT !.state = "recovery"] /\ Ended("rollback_failed")
  <2>1. /\ tx' \in TxType /\ tx'.action = tx.action /\ tx'.existed = tx.existed /\ tx'.syncs = tx.syncs
        /\ tx'.accepted = tx.accepted /\ tx'.staged = tx.staged /\ tx'.backup = tx.backup
        /\ tx'.contains = tx.contains /\ tx'.state = "recovery"
    BY <1>2, <1>7, StateOnly
  <2>2. /\ pc' = "idle" /\ why' = why /\ told' \in ToldType
        /\ told'.op \in {"commit", "rollback", "close"}
        /\ told'.op = "commit" => told'.status \notin {"ok", "io", "rejected"}
        /\ told'.op \in {"rollback", "close"} => told'.status = "rollback_failed"
    BY <1>2, <1>7, EndedReport
  <2>3. Shape(dir', tx')
    BY <1>2, <1>3, <1>5, <1>7, <2>1 DEF Shape
  <2>4. Flags(pc', dir', tx')
    BY <1>1, <1>2, <1>5, <1>7, <2>1 DEF Flags
  <2>5. Place(pc', dir', Disk', tx')
    BY <2>1, <2>2 DEF Place, Untried, Early, Discarding, Over, Beside, Achieved, Undone
  <2>6. Promise(pc', told', Disk', tx')
    BY <2>2 DEF Promise
  <2>7. pc' \in PC
    BY <2>2 DEF PC
  <2>8. QED BY <1>2, <1>5, <1>7, <2>1, <2>2, <2>3, <2>4, <2>5, <2>6, <2>7, Assemble
<1>8. QED BY <1>4, <1>6, <1>7 DEF RemovePublished

LEMMA SettleInv == ASSUME Inv, Settle PROVE Inv'
<1>1. pc = "settle" /\ tx' = [tx EXCEPT !.state = "rolled_back"] /\ dir' = dir
  BY DEF Settle
<1>2. /\ tx \in TxType /\ Shape(dir, tx) /\ Flags(pc, dir, tx) /\ Undone(pc, dir, tx) /\ dir \in since
      /\ why \in Reason /\ told \in ToldType /\ "rolled_back" \in State
  BY DEF Inv, Place, State
<1>3. Was(dir, tx) /\ dir["backup"] # "old"
  BY <1>1, <1>2 DEF Undone
<1>4. /\ tx' \in TxType /\ tx'.action = tx.action /\ tx'.existed = tx.existed /\ tx'.syncs = tx.syncs
      /\ tx'.accepted = tx.accepted /\ tx'.staged = tx.staged /\ tx'.backup = tx.backup
      /\ tx'.contains = tx.contains /\ tx'.state = "rolled_back"
  BY <1>1, <1>2, StateOnly
<1>5. Shape(dir', tx') /\ Was(dir', tx') /\ dir'["backup"] # "old"
  BY <1>1, <1>2, <1>3, <1>4 DEF Shape, Was
<1>6. \A l \in PC \ {"dead"} : Flags(l, dir', tx')
  BY <1>1, <1>2, <1>4 DEF Flags
<1>7. \A l \in {"idle", "discard"}, N \in {Disk'} : Place(l, dir', N, tx')
  BY <1>4, <1>5 DEF Place, Untried, Early, Discarding, Over, Beside, Achieved, Undone
<1>8. since' = {dir'} \/ since' = since \cup {dir'}
  BY <1>1, <1>2, <1>4, Syncs DEF Settle
<1>9. CASE Goto("discard")
  <2>1. "discard" \in PC \ {"idle", "prepare", "dead"}
    BY DEF PC
  <2>2. Flags("discard", dir', tx') /\ Place("discard", dir', Disk', tx')
    BY <1>6, <1>7, <2>1
  <2>3. QED BY <1>4, <1>5, <1>8, <1>9, <2>1, <2>2, Moves
<1>10. ASSUME NEW status \in {"ok", "io"}, Ended(status),
              status = "ok" => Disk' = {dir'} /\ why # "close"
       PROVE  Inv'
  <2>1. /\ pc' = "idle" /\ why' = why /\ told' \in ToldType
        /\ told'.op \in {"commit", "rollback", "close"}
        /\ told'.op = "commit" => told'.status # "ok" /\ (told'.status \in {"io", "rejected"} => status = "ok")
        /\ told'.op \in {"rollback", "close"} => told'.status = status /\ why = told'.op
    BY <1>2, <1>10, EndedReport
  <2>2. Promise(pc', told', Disk', tx')
    BY <1>5, <1>10, <2>1 DEF Promise
  <2>3. pc' \in PC \ {"dead"}
    BY <2>1 DEF PC
  <2>4. Flags(pc', dir', tx') /\ Place(pc', dir', Disk', tx')
    BY <1>6, <1>7, <2>1, <2>3
  <2>5. QED BY <1>2, <1>4, <1>5, <1>8, <2>1, <2>2, <2>3, <2>4, Assemble
<1>11. CASE Synced /\ why # "close" /\ Ended("ok")
  <2>1. Disk' = {dir'}
    BY <1>1, <1>4, <1>11, Syncs
  <2>2. QED BY <1>10, <1>11, <2>1
<1>12. CASE Ended("io")
  BY <1>10, <1>12
<1>13. QED BY <1>9, <1>11, <1>12 DEF Settle

-------------------------------------------------------------------------------
(* The other operations, and what surrounds them. *)

LEMMA RollbackInv == ASSUME Inv, Rollback PROVE Inv'
  BY ToUndo DEF Rollback, Reason

LEMMA FinalizeInv == ASSUME Inv, Finalize PROVE Inv'
<1>1. pc = "idle" /\ tx.state = "committed"
  BY DEF Finalize
<1>2. /\ tx \in TxType /\ Shape(dir, tx) /\ Flags(pc, dir, tx) /\ dir \in since
      /\ Achieved(pc, dir, Disk, tx) /\ Place(pc, dir, Disk, tx)
      /\ why \in Reason /\ told \in ToldType
  BY DEF Inv, Place
<1>3. Result(dir, tx)
  BY <1>1, <1>2 DEF Achieved
<1>4. "finalizing" \in PC \ {"idle", "prepare"}
  BY DEF PC
<1>5. CASE /\ tx.contains /\ Unlink("backup")
           /\ tx' = [tx EXCEPT !.accepted = TRUE, !.backup = FALSE, !.contains = FALSE]
           /\ Goto("finalizing")
  <2>1. /\ tx' \in TxType /\ tx'.action = tx.action /\ tx'.existed = tx.existed /\ tx'.syncs = tx.syncs
        /\ tx'.accepted = TRUE /\ tx'.staged = tx.staged /\ tx'.backup = FALSE
        /\ tx'.contains = FALSE /\ tx'.state = tx.state
    BY <1>2, <1>5 DEF TxType
  <2>2. /\ dir' \in [Name -> Inode] /\ dir'["target"] = dir["target"] /\ dir'["stage"] = dir["stage"]
        /\ dir'["backup"] = "none" /\ since' = since \cup {dir'}
    BY <1>2, <1>5 DEF Unlink, Write, Shape, Name, Inode
  <2>3. Shape(dir', tx') /\ Result(dir', tx')
    BY <1>2, <1>3, <2>1, <2>2 DEF Shape, Result
  <2>4. Flags("finalizing", dir', tx')
    BY <1>1, <1>2, <2>1, <2>2 DEF Flags
  <2>5. Place("finalizing", dir', Disk', tx')
    BY <1>1, <2>1, <2>3 DEF Place, Untried, Early, Discarding, Over, Beside, Achieved, Undone
  <2>6. QED BY <1>4, <1>5, <2>1, <2>2, <2>3, <2>4, <2>5, Moves
<1>6. CASE ~tx.contains /\ tx' = [tx EXCEPT !.accepted = TRUE] /\ Goto("finalizing") /\ Untouched
  <2>1. /\ tx' \in TxType /\ tx'.action = tx.action /\ tx'.existed = tx.existed /\ tx'.syncs = tx.syncs
        /\ tx'.accepted = TRUE /\ tx'.staged = tx.staged /\ tx'.backup = tx.backup
        /\ tx'.contains = tx.contains /\ tx'.state = tx.state
    BY <1>2, <1>6 DEF TxType
  <2>2. dir' = dir /\ since' = since \cup {dir'}
    BY <1>2, <1>6 DEF Untouched
  <2>3. dir["backup"] = "none"
    BY <1>1, <1>2, <1>3, <1>6 DEF Flags, Result
  <2>4. Shape(dir', tx') /\ Result(dir', tx')
    BY <1>2, <1>3, <2>1, <2>2, <2>3 DEF Shape, Result
  <2>5. Flags("finalizing", dir', tx')
    BY <1>1, <1>2, <2>1, <2>2 DEF Flags
  <2>6. Place("finalizing", dir', Disk', tx')
    BY <1>1, <2>1, <2>4 DEF Place, Untried, Early, Discarding, Over, Beside, Achieved, Undone
  <2>7. QED BY <1>4, <1>6, <2>1, <2>2, <2>4, <2>5, <2>6, Moves
<1>7. CASE UNCHANGED tx /\ Report("finalize", "io") /\ Untouched
  <2>1. pc' = "idle" /\ told' = [op |-> "finalize", status |-> "io"] /\ why' = why
        /\ UNCHANGED <<dir, since>>
    BY <1>7 DEF Report, Untouched
  <2>2. pc' \in PC /\ why' \in Reason /\ told' \in ToldType
    BY <1>2, <2>1 DEF PC, ToldType, Operation, Status
  <2>3. Place(pc', dir, Disk, tx')
    BY <1>1, <1>2, <1>7, <2>1
  <2>4. Promise(pc', told', Disk, tx')
    BY <2>1 DEF Promise
  <2>5. QED BY <1>1, <1>2, <1>7, <2>1, <2>2, <2>3, <2>4, Still
<1>8. QED BY <1>5, <1>6, <1>7 DEF Finalize

LEMMA FinalizedInv == ASSUME Inv, Finalized PROVE Inv'
<1>1. pc = "finalizing" /\ dir' = dir
  BY DEF Finalized
<1>2. /\ tx \in TxType /\ Shape(dir, tx) /\ Flags(pc, dir, tx) /\ Achieved(pc, dir, Disk, tx)
      /\ why \in Reason /\ "finalized" \in State
  BY DEF Inv, Place, State
<1>3. Result(dir, tx) /\ tx.accepted /\ tx.state = "committed"
  BY <1>1, <1>2 DEF Achieved
<1>4. CASE UNCHANGED <<since, tx>> /\ Report("finalize", "io")
  <2>1. pc' = "idle" /\ told' = [op |-> "finalize", status |-> "io"] /\ why' = why
    BY <1>4 DEF Report
  <2>2. pc' \in PC /\ why' \in Reason /\ told' \in ToldType
    BY <1>2, <2>1 DEF PC, ToldType, Operation, Status
  <2>3. Place(pc', dir, Disk, tx')
    BY <1>3, <1>4, <2>1 DEF Place, Untried, Early, Discarding, Over, Beside, Achieved, Undone
  <2>4. Promise(pc', told', Disk, tx')
    BY <2>1 DEF Promise
  <2>5. QED BY <1>1, <1>2, <1>4, <2>2, <2>3, <2>4, Still
<1>5. CASE Synced /\ tx' = [tx EXCEPT !.state = "finalized"] /\ Report("finalize", "ok")
  <2>1. /\ Disk' = {dir'} /\ dir' = dir
        /\ since' = {dir'} \/ since' = since \cup {dir'}
    <3>1. tx'.syncs = tx.syncs
      BY <1>2, <1>5, StateOnly
    <3>2. QED BY <1>1, <1>5, <3>1, Syncs DEF Inv
  <2>2. pc' = "idle" /\ told' = [op |-> "finalize", status |-> "ok"] /\ why' = why
    BY <1>5 DEF Report
  <2>3. pc' \in PC /\ why' \in Reason /\ told' \in ToldType
    BY <1>2, <2>2 DEF PC, ToldType, Operation, Status
  <2>4. /\ tx' \in TxType /\ tx'.action = tx.action /\ tx'.existed = tx.existed /\ tx'.syncs = tx.syncs
        /\ tx'.accepted = tx.accepted /\ tx'.staged = tx.staged /\ tx'.backup = tx.backup
        /\ tx'.contains = tx.contains /\ tx'.state = "finalized"
    BY <1>2, <1>5, StateOnly
  <2>5. Shape(dir', tx')
    BY <1>2, <2>1, <2>4 DEF Shape
  <2>6. Flags(pc', dir', tx')
    BY <1>1, <1>2, <2>1, <2>4 DEF Flags
  <2>7. dir["stage"] = "none" /\ dir["backup"] = "none"
    BY <1>3 DEF Result
  <2>8. Place(pc', dir', Disk', tx')
    BY <1>3, <2>1, <2>2, <2>4, <2>7
       DEF Place, Untried, Early, Discarding, Over, Beside, Achieved, Undone
  <2>9. tx.action \in {"replace", "remove"} /\ dir["target"] # "old"
    BY <1>2, <1>3 DEF TxType, Result
  <2>10. Promise(pc', told', Disk', tx')
    BY <1>3, <2>1, <2>2, <2>4, <2>7, <2>9 DEF Promise, Result
  <2>11. QED BY <2>1, <2>3, <2>4, <2>5, <2>6, <2>8, <2>10, Assemble
<1>6. QED BY <1>4, <1>5 DEF Finalized

LEMMA CloseInv == ASSUME Inv, Close PROVE Inv'
<1>1. pc = "idle" /\ UNCHANGED <<dir, since>>
  BY DEF Close, Untouched
<1>2. /\ tx \in TxType /\ Place(pc, dir, Disk, tx) /\ why \in Reason /\ "closed" \in State
  BY DEF Inv, State
<1>3. CASE Undo("close") /\ UNCHANGED tx
  BY <1>1, <1>3, ToUndo DEF Reason
<1>4. CASE tx.state \in {"staged", "rolled_back"} /\ Goto("discard") /\ UNCHANGED tx
  <2>1. Place("discard", dir, Disk, tx)
    BY <1>1, <1>2, <1>4 DEF Place, Untried, Early, Discarding, Over, Beside, Achieved, Undone
  <2>2. "discard" \in PC \ {"idle", "prepare"}
    BY DEF PC
  <2>3. QED BY <1>1, <1>4, <2>1, <2>2, ChecksStill
<1>5. CASE tx.state = "finalized" /\ tx' = [tx EXCEPT !.state = "closed"] /\ Report("close", "ok")
  <2>1. pc' = "idle" /\ told' = [op |-> "close", status |-> "ok"] /\ why' = why
    BY <1>5 DEF Report
  <2>2. pc' \in PC /\ why' \in Reason /\ told' \in ToldType
    BY <1>2, <2>1 DEF PC, ToldType, Operation, Status
  <2>3. /\ tx' \in TxType /\ tx'.action = tx.action /\ tx'.existed = tx.existed /\ tx'.syncs = tx.syncs
        /\ tx'.accepted = tx.accepted /\ tx'.staged = tx.staged /\ tx'.backup = tx.backup
        /\ tx'.contains = tx.contains /\ tx'.state = "closed"
    BY <1>2, <1>5, StateOnly
  <2>4. tx.accepted /\ \A d \in Disk : d["stage"] = "none" /\ d["backup"] = "none"
    BY <1>1, <1>2, <1>5 DEF Place, Achieved
  <2>5. Place(pc', dir, Disk, tx')
    BY <2>1, <2>3 DEF Place, Untried, Early, Discarding, Over, Beside, Achieved, Undone
  <2>6. Promise(pc', told', Disk, tx')
    BY <2>1, <2>3, <2>4 DEF Promise
  <2>7. QED BY <1>1, <2>2, <2>3, <2>5, <2>6, Still
<1>6. QED BY <1>3, <1>4, <1>5 DEF Close

\* What holds while what is left of a transaction is discarded.
LEMMA WhileDiscarding ==
  ASSUME Inv, pc \in Discarding
  PROVE  /\ tx \in TxType /\ Shape(dir, tx) /\ Flags(pc, dir, tx) /\ why \in Reason /\ told \in ToldType
         /\ tx.state \in {"staged", "rolled_back"} /\ Was(dir, tx) /\ dir["backup"] # "old"
         /\ tx.state = "staged" => ~tx.accepted /\ \A d \in Disk : Was(d, tx)
         /\ ~tx.contains /\ pc # "dead"
<1>1. Untried(pc, dir, Disk, tx) /\ Undone(pc, dir, tx) /\ dir \in Disk /\ tx \in TxType /\ Shape(dir, tx)
      /\ Flags(pc, dir, tx) /\ why \in Reason /\ told \in ToldType
  BY OnDisk DEF Inv, Place
<1>2. pc \notin {"pair", "replace", "unlink", "dead"}
  BY DEF Discarding
<1>3. /\ tx.state \in {"staged", "rolled_back"} /\ Was(dir, tx) /\ dir["backup"] # "old"
      /\ tx.state = "staged" => ~tx.accepted /\ \A d \in Disk : Was(d, tx)
  BY <1>1, <1>2 DEF Untried, Undone
<1>4. ~tx.contains
  BY <1>1, <1>2, <1>3 DEF Flags
<1>5. QED BY <1>1, <1>2, <1>3, <1>4

\* One removal of the two, or none.
LEMMA DiscardOne ==
  ASSUME Inv, pc \in Discarding, NEW l \in Discarding, Goto(l),
         \/ UNCHANGED <<dir, since, tx>>
         \/ Unlink("stage") /\ tx' = [tx EXCEPT !.staged = FALSE]
         \/ Unlink("backup") /\ tx' = [tx EXCEPT !.backup = FALSE]
  PROVE  Inv'
<1>1. /\ tx \in TxType /\ Shape(dir, tx) /\ Flags(pc, dir, tx)
      /\ tx.state \in {"staged", "rolled_back"} /\ Was(dir, tx) /\ dir["backup"] # "old"
      /\ tx.state = "staged" => ~tx.accepted /\ \A d \in Disk : Was(d, tx)
      /\ ~tx.contains /\ pc # "dead"
  BY WhileDiscarding
<1>2. l \in PC \ {"idle", "prepare", "dead"}
  BY DEF Discarding, PC
<1>3. CASE UNCHANGED <<dir, since, tx>>
  <2>1. Disk' = Disk
    BY <1>3, Rests
  <2>2. Place(l, dir, Disk', tx)
    BY <1>1, <1>2, <2>1 DEF Place, Untried, Early, Discarding, Over, Beside, Achieved, Undone
  <2>3. QED BY <1>1, <1>2, <1>3, <2>2, Checks
<1>4. CASE \/ Unlink("stage") /\ tx' = [tx EXCEPT !.staged = FALSE]
           \/ Unlink("backup") /\ tx' = [tx EXCEPT !.backup = FALSE]
  <2>1. /\ tx' \in TxType /\ tx'.action = tx.action /\ tx'.existed = tx.existed
        /\ tx'.syncs = tx.syncs /\ tx'.accepted = tx.accepted /\ tx'.contains = tx.contains
        /\ tx'.state = tx.state
    BY <1>1, <1>4 DEF TxType
  <2>2. /\ dir' \in [Name -> Inode] /\ dir'["target"] = dir["target"]
        /\ dir'["stage"] \in {"none", dir["stage"]} /\ dir'["backup"] \in {"none", dir["backup"]}
        /\ since' = since \cup {dir'}
    BY <1>1, <1>4 DEF Unlink, Write, Shape, Name, Inode
  <2>3. Was(dir', tx') /\ dir'["backup"] # "old"
    BY <1>1, <2>1, <2>2 DEF Was
  <2>4. Shape(dir', tx')
    BY <1>1, <2>1, <2>2, <2>3 DEF Shape, Was
  <2>5. Flags(l, dir', tx')
    <3>1. CASE Unlink("stage") /\ tx' = [tx EXCEPT !.staged = FALSE]
      <4>1. dir'["stage"] = "none" /\ dir'["backup"] = dir["backup"]
        BY <1>1, <3>1 DEF Unlink, Write, Shape, Name
      <4>2. ~tx'.staged /\ tx'.backup = tx.backup
        BY <1>1, <3>1 DEF TxType
      <4>3. QED BY <1>1, <2>1, <4>1, <4>2 DEF Flags
    <3>2. CASE Unlink("backup") /\ tx' = [tx EXCEPT !.backup = FALSE]
      <4>1. dir'["backup"] = "none" /\ dir'["stage"] = dir["stage"]
        BY <1>1, <3>2 DEF Unlink, Write, Shape, Name
      <4>2. ~tx'.backup /\ tx'.staged = tx.staged
        BY <1>1, <3>2 DEF TxType
      <4>3. QED BY <1>1, <2>1, <4>1, <4>2 DEF Flags
    <3>3. QED BY <1>4, <3>1, <3>2
  <2>6. tx'.state = "staged" => ~tx'.accepted /\ \A d \in Disk' : Was(d, tx')
    <3>1. Disk' \subseteq Disk \cup {dir'}
      BY <2>1, <2>2, Writes
    <3>2. QED BY <1>1, <2>1, <2>3, <3>1 DEF Was
  <2>7. Place(l, dir', Disk', tx')
    BY <1>1, <1>2, <2>1, <2>3, <2>6
       DEF Place, Untried, Early, Discarding, Over, Beside, Achieved, Undone
  <2>8. QED BY <1>2, <2>1, <2>2, <2>4, <2>5, <2>7, Moves
<1>5. QED BY <1>3, <1>4

LEMMA DiscardStageInv == ASSUME Inv, DiscardStage PROVE Inv'
  BY DiscardOne DEF DiscardStage, Untouched, Discarding

LEMMA DiscardBackupInv == ASSUME Inv, DiscardBackup PROVE Inv'
  BY DiscardOne DEF DiscardBackup, Untouched, Discarding

LEMMA DiscardedInv == ASSUME Inv, Discarded PROVE Inv'
<1>1. pc = "discarded" /\ dir' = dir
  BY DEF Discarded
<1>2. /\ tx \in TxType /\ Shape(dir, tx) /\ Flags(pc, dir, tx) /\ why \in Reason
      /\ tx.state \in {"staged", "rolled_back"} /\ Was(dir, tx) /\ dir["backup"] # "old"
      /\ tx.state = "staged" => ~tx.accepted /\ \A d \in Disk : Was(d, tx)
      /\ ~tx.contains /\ "closed" \in State
  BY <1>1, WhileDiscarding DEF Discarding, State
<1>3. CASE ~tx.staged /\ (tx.backup => tx.contains) /\ Synced
           /\ tx' = [tx EXCEPT !.state = "closed"] /\ Report("close", "ok")
  <2>1. /\ tx' \in TxType /\ tx'.action = tx.action /\ tx'.existed = tx.existed
        /\ tx'.syncs = tx.syncs /\ tx'.accepted = tx.accepted /\ tx'.staged = tx.staged
        /\ tx'.backup = tx.backup /\ tx'.contains = tx.contains /\ tx'.state = "closed"
    BY <1>2, <1>3, StateOnly
  <2>2. Disk' = {dir'} /\ (since' = {dir'} \/ since' = since)
    BY <1>1, <1>3, <2>1, Syncs
  <2>3. pc' = "idle" /\ told' = [op |-> "close", status |-> "ok"] /\ why' = why
    BY <1>3 DEF Report
  <2>4. pc' \in PC /\ why' \in Reason /\ told' \in ToldType
    BY <1>2, <2>3 DEF PC, ToldType, Operation, Status
  <2>5. dir["stage"] = "none" /\ dir["backup"] = "none"
    BY <1>1, <1>2, <1>3 DEF Flags, Shape
  <2>6. Shape(dir', tx') /\ Was(dir', tx')
    BY <1>1, <1>2, <2>1 DEF Shape, Was
  <2>7. Flags(pc', dir', tx')
    BY <1>1, <1>2, <2>1 DEF Flags
  <2>8. Place(pc', dir', Disk', tx')
    BY <2>1, <2>3 DEF Place, Untried, Early, Discarding, Over, Beside, Achieved, Undone
  <2>9. Promise(pc', told', Disk', tx')
    BY <1>1, <2>2, <2>3, <2>5, <2>6 DEF Promise
  <2>10. since' = {dir'} \/ since' = since \cup {dir'}
    BY <1>1, <2>2, OnDisk
  <2>11. QED BY <2>1, <2>4, <2>6, <2>7, <2>8, <2>9, <2>10, Assemble
<1>4. CASE (Synced \/ UNCHANGED since) /\ UNCHANGED tx /\ Report("close", "io")
  <2>1. pc' = "idle" /\ told' = [op |-> "close", status |-> "io"] /\ why' = why
    BY <1>4 DEF Report
  <2>2. pc' \in PC /\ why' \in Reason /\ told' \in ToldType
    BY <1>2, <2>1 DEF PC, ToldType, Operation, Status
  <2>3. dir' \in Disk' /\ Disk' \subseteq Disk /\ (since' = {dir'} \/ since' = since \cup {dir'})
    <3>1. dir \in Disk /\ dir \in since
      BY OnDisk DEF Inv
    <3>2. CASE UNCHANGED since
      BY <1>1, <1>4, <3>1, <3>2, Rests
    <3>3. CASE Synced
      BY <1>1, <1>4, <3>1, <3>3, Syncs
    <3>4. QED BY <1>4, <3>2, <3>3
  <2>4. Flags(pc', dir', tx') /\ Shape(dir', tx')
    BY <1>1, <1>2, <1>4 DEF Flags
  <2>5. Place(pc', dir', Disk', tx')
    BY <1>1, <1>2, <1>4, <2>1, <2>3
       DEF Place, Untried, Early, Discarding, Over, Beside, Achieved, Undone
  <2>6. Promise(pc', told', Disk', tx')
    BY <2>1 DEF Promise
  <2>7. QED BY <1>2, <1>4, <2>2, <2>3, <2>4, <2>5, <2>6, Assemble
<1>5. QED BY <1>3, <1>4 DEF Discarded

LEMMA ForeignInv == ASSUME Inv, Foreign PROVE Inv'
<1>1. /\ dir["target"] = "none" /\ pc # "dead" /\ UNCHANGED <<tx, pc, why, told>>
      /\ dir' = [dir EXCEPT !["target"] = "foreign"] /\ since' = since \cup {dir'}
  BY DEF Foreign, Write
<1>2. /\ tx \in TxType /\ Shape(dir, tx) /\ Flags(pc, dir, tx) /\ dir \in since
      /\ Place(pc, dir, Disk, tx) /\ Promise(pc, told, Disk, tx) /\ pc \in PC
      /\ why \in Reason /\ told \in ToldType
  BY DEF Inv
<1>3. /\ dir' \in [Name -> Inode] /\ dir'["target"] = "foreign" /\ dir'["stage"] = dir["stage"]
      /\ dir'["backup"] = dir["backup"]
  BY <1>1, <1>2 DEF Shape, Name, Inode
<1>4. Was(dir, tx) => Was(dir', tx)
  BY <1>1, <1>3 DEF Was
<1>5. Result(dir, tx) => Result(dir', tx)
  BY <1>1, <1>3 DEF Result
<1>6. Shape(dir', tx)
  BY <1>1, <1>2, <1>3 DEF Shape
<1>7. Flags(pc, dir', tx)
  BY <1>2, <1>3 DEF Flags
<1>8. Place(pc, dir', Disk', tx)
  <2>1. Untried(pc, dir', Disk', tx)
    BY <1>1, <1>2, <1>3, <1>4 DEF Disk, Place, Untried
  <2>2. Over(pc, dir', tx) /\ Beside(pc, dir', tx) /\ Undone(pc, dir', tx)
    BY <1>1, <1>2, <1>3, <1>4 DEF Place, Over, Beside, Undone
  <2>3. Achieved(pc, dir', Disk', tx)
    BY <1>1, <1>2, <1>3, <1>5 DEF Disk, Place, Achieved
  <2>4. QED BY <2>1, <2>2, <2>3 DEF Place
<1>9. Promise(pc, told, Disk', tx)
  BY <1>1, <1>2, <1>3, <1>4 DEF Disk, Promise
<1>10. UNCHANGED <<tx, pc, why, told>>
  BY <1>1
<1>11. QED BY <1>1, <1>2, <1>6, <1>7, <1>8, <1>9, <1>10, Assemble

LEMMA PowerLossInv == ASSUME Inv, PowerLoss PROVE Inv'
<1>1. pc' = "dead" /\ dir' \in since /\ since' = {dir'} /\ UNCHANGED <<tx, why, told>>
  BY DEF PowerLoss
<1>2. /\ tx' \in TxType /\ pc' \in PC /\ why' \in Reason /\ told' \in ToldType
      /\ \A d \in since' : Shape(d, tx')
  BY <1>1 DEF Inv, PC
<1>3. Flags(pc', dir', tx') /\ Promise(pc', told', Disk', tx')
  BY <1>1 DEF Flags, Promise
<1>4. Place(pc', dir', Disk', tx')
  BY <1>1 DEF Place, Untried, Early, Discarding, Over, Beside, Achieved, Undone
<1>5. QED BY <1>1, <1>2, <1>3, <1>4 DEF Inv

LEMMA NextInv == Inv /\ [Next]_vars => Inv'
<1> SUFFICES ASSUME Inv, [Next]_vars PROVE Inv'
  OBVIOUS
<1>1. CASE UNCHANGED vars
  BY <1>1 DEF vars, Inv, Disk
<1>2. CASE Stage \/ Commit \/ Unreserve \/ LinkBackup \/ CheckPair \/ Replace \/ UnlinkBackup \/ Retire
  BY <1>2, StageInv, CommitInv, UnreserveInv, LinkBackupInv, CheckPairInv, ReplaceInv, UnlinkBackupInv,
     RetireInv
<1>3. CASE Publish \/ LinkPublish \/ UnlinkStage \/ CheckPublished \/ Committed \/ Validate
  BY <1>3, PublishInv, LinkPublishInv, UnlinkStageInv, CheckPublishedInv, CommittedInv, ValidateInv
<1>4. CASE CheckUndo \/ Restore \/ RemovePublished \/ Settle
  BY <1>4, CheckUndoInv, RestoreInv, RemovePublishedInv, SettleInv
<1>5. CASE Rollback \/ Finalize \/ Finalized \/ Close \/ DiscardStage \/ DiscardBackup \/ Discarded
           \/ Foreign \/ PowerLoss
  BY <1>5, RollbackInv, FinalizeInv, FinalizedInv, CloseInv, DiscardStageInv, DiscardBackupInv, DiscardedInv,
     ForeignInv, PowerLossInv
<1>6. QED BY <1>1, <1>2, <1>3, <1>4, <1>5 DEF Next

LEMMA InvAlways == Spec => []Inv
  BY InitInv, NextInv, PTL DEF Spec

-------------------------------------------------------------------------------
(* What the invariant says of the properties. *)

LEMMA TypeFromInv == Inv => TypeOK
<1> SUFFICES ASSUME Inv PROVE TypeOK
  OBVIOUS
<1>1. dir \in since /\ since \subseteq [Name -> Inode]
  BY DEF Inv, Shape
<1>2. tx.state \in State /\ told \in ToldType
  BY DEF Inv, TxType
<1>3. QED BY <1>1, <1>2 DEF TypeOK, Inv, Flags, State, ToldType

LEMMA KeptFromInv == Inv => Kept
<1> SUFFICES ASSUME Inv PROVE Kept
  OBVIOUS
<1>1. Shape(dir, tx) /\ "target" \in Name /\ "backup" \in Name
  BY DEF Inv, Name
<1>2. QED BY <1>1 DEF Kept, Shape

LEMMA MeaningFromInv == Inv => Meaning
<1> SUFFICES ASSUME Inv, pc = "idle", NEW d \in Disk
             PROVE  /\ told = [op |-> "commit", status |-> "ok"] =>
                          /\ IF tx.action = "replace" THEN d["target"] = "new"
                                                      ELSE d["target"] \in {"none", "foreign"}
                          /\ tx.existed => d["backup"] = "old"
                    /\ told \in [op : {"commit"}, status : {"io", "rejected"}] => AsBefore(d)
                    /\ told = [op |-> "rollback", status |-> "ok"] => AsBefore(d)
                    /\ told = [op |-> "finalize", status |-> "ok"] =>
                          /\ d["target"] # "old" /\ d["backup"] = "none"
                          /\ tx.action = "replace" => d["target"] = "new"
                    /\ told = [op |-> "close", status |-> "ok"] =>
                          /\ d["stage"] = "none" /\ d["backup"] = "none"
                          /\ tx.accepted \/ AsBefore(d)
  BY DEF Meaning
<1>1. Promise("idle", told, Disk, tx) /\ tx.action \in {"replace", "remove"}
  BY DEF Inv, TxType
<1>2. AsBefore(d) <=> Was(d, tx)
  BY DEF AsBefore, Was
<1>3. CASE told = [op |-> "commit", status |-> "ok"]
  <2>1. told.op = "commit" /\ told.status = "ok"
    BY <1>3
  <2>2. QED BY <1>1, <1>3, <2>1 DEF Promise
<1>4. CASE told \in [op : {"commit"}, status : {"io", "rejected"}]
  <2>1. told.op = "commit" /\ told.status \in {"io", "rejected"}
    BY <1>4
  <2>2. QED BY <1>1, <1>2, <1>4, <2>1 DEF Promise
<1>5. CASE told = [op |-> "rollback", status |-> "ok"]
  <2>1. told.op = "rollback" /\ told.status = "ok"
    BY <1>5
  <2>2. QED BY <1>1, <1>2, <1>5, <2>1 DEF Promise
<1>6. CASE told = [op |-> "finalize", status |-> "ok"]
  <2>1. told.op = "finalize" /\ told.status = "ok"
    BY <1>6
  <2>2. QED BY <1>1, <1>6, <2>1 DEF Promise
<1>7. CASE told = [op |-> "close", status |-> "ok"]
  <2>1. told.op = "close" /\ told.status = "ok"
    BY <1>7
  <2>2. QED BY <1>1, <1>2, <1>7, <2>1 DEF Promise
<1>8. QED BY <1>3, <1>4, <1>5, <1>6, <1>7

\* Who renames over the target or takes it away has found it to be its own.
LEMMA ForeignStays ==
  ASSUME Inv, [Next]_vars, dir["target"] = "foreign", tx.action = "replace", pc' # "dead"
  PROVE  dir'["target"] = "foreign"
<1>1. /\ dir \in [Name -> Inode] /\ Shape(dir, tx) /\ ~tx.existed
  BY DEF Inv, Shape
<1>2. /\ "target" \in Name /\ "stage" \in Name /\ "backup" \in Name
  BY DEF Name
<1>3. CASE UNCHANGED dir
  BY <1>3
<1>4. CASE Stage
  BY <1>1, <1>2, <1>4 DEF Stage
<1>5. CASE Unreserve \/ UnlinkBackup \/ UnlinkStage \/ Finalize
  BY <1>1, <1>2, <1>5 DEF Unreserve, UnlinkBackup, UnlinkStage, Finalize, Unlink, Write, Untouched
<1>6. CASE LinkBackup \/ Replace \/ Retire \/ Restore
  <2>1. pc \in {"link", "replace", "retire", "restore"}
    BY <1>6 DEF LinkBackup, Replace, Retire, Restore
  <2>2. Over(pc, dir, tx) /\ Undone(pc, dir, tx)
    BY DEF Inv, Place
  <2>3. QED BY <1>1, <2>1, <2>2 DEF Over, Undone
<1>7. CASE Publish \/ LinkPublish \/ Foreign
  BY <1>7 DEF Publish, LinkPublish, Foreign, Untouched
<1>8. CASE RemovePublished
  BY <1>8 DEF RemovePublished, CanRemove, Matches, Linked, RecoveryNeeded, Untouched
<1>9. CASE DiscardStage \/ DiscardBackup
  BY <1>1, <1>2, <1>9 DEF DiscardStage, DiscardBackup, Unlink, Write, Untouched
<1>10. CASE Commit \/ CheckPair \/ CheckPublished \/ Committed \/ Validate \/ CheckUndo \/ Settle
            \/ Rollback \/ Finalized \/ Close \/ Discarded
  BY <1>3, <1>10 DEF Commit, CheckPair, CheckPublished, Committed, Validate, CheckUndo, Settle, Rollback,
     Finalized, Close, Discarded, Untouched, RecoveryNeeded
<1>11. CASE PowerLoss
  BY <1>11 DEF PowerLoss
<1>12. CASE UNCHANGED vars
  BY <1>3, <1>12 DEF vars
<1>13. QED
  BY <1>4, <1>5, <1>6, <1>7, <1>8, <1>9, <1>10, <1>11, <1>12 DEF Next

-------------------------------------------------------------------------------
(* The results. *)

\* The flags of the transaction agree with the directory as long as the process
\* lives, and the directory is one of those a power failure may leave: what
\* activation_transaction.c decides from its flags it decides about the disk.
THEOREM TypeCorrect == Spec => []TypeOK
  BY InvAlways, TypeFromInv, PTL

\* Whatever call fails and whenever the power fails, an update leaves the target
\* there as the old or as the new file, and a target that existed keeps its old
\* file under some name until finalize accepts the result
\* (cli/activation_transaction.c, activation_publish_existing_replacement).
THEOREM AlwaysATarget == Spec => []Kept
  BY InvAlways, KeptFromInv, PTL

\* What commit, rollback, finalize and close report is true of the directory,
\* and, on a file system that can sync directories, of every directory that a
\* power failure right after the report may leave: the disk is synced before
\* anything is said to be ok, and a commit that fails has published nothing,
\* or has put back and synced what it found.  Where the sync is passed over
\* (activation_transaction.c:1129) nothing is claimed of a power failure.
THEOREM ReportsTrue == Spec => []Meaning
  BY InvAlways, MeaningFromInv, PTL

\* A target that somebody else created while the candidate was staged is never
\* replaced and never removed by an update: publication only fills an absent
\* name, and the rollback takes away only the inode it has published.
THEOREM ForeignersKept == Spec => ForeignKept
<1>1. Inv /\ [Next]_vars =>
        [dir["target"] = "foreign" /\ tx.action = "replace" /\ pc' # "dead"
          => dir'["target"] = "foreign"]_vars
  BY ForeignStays
<1>2. QED BY <1>1, InvAlways, PTL DEF Spec, ForeignKept

===============================================================================
